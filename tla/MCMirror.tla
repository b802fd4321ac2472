------------------------------- MODULE MCMirror -------------------------------
EXTENDS Mirror

\* Both runtimes with room for every run, and one with its queue at the limit.
MCSettings ==
  [provider : {"helm", "existing"}, cap : {2}] \cup [provider : {"helm"}, cap : {1}]
===============================================================================
