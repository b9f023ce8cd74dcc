----------------------------- MODULE MCEtxHistory -----------------------------
(* EtxHistory on small instances: see the .cfg files.                      *)
EXTENDS EtxHistory, TLC

\* Processes are interchangeable (used by the safety run only).
ProcSymmetry == Permutations(Procs)
===============================================================================
