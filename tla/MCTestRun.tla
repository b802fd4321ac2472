------------------------------ MODULE MCTestRun ------------------------------
EXTENDS TestRun
===============================================================================
