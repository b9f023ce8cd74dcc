---------------------------- MODULE MCCharDrivers -----------------------------
(* CharDrivers on small instances: see the .cfg files.                     *)
EXTENDS CharDrivers, TLC

\* Open-file slots are interchangeable (used by the safety runs only).
FileSymmetry == Permutations(Files)
===============================================================================
