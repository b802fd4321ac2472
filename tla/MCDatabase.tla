----------------------------- MODULE MCDatabase -----------------------------
EXTENDS Database
====
