---------------------------- MODULE MCOrderSync -----------------------------
\* Instances of OrderSync for TLC.
EXTENDS OrderSync
=============================================================================
