------------------------------ MODULE ChatJobMC ------------------------------
(***************************************************************************)
(* Small instances of ChatJob.                                             *)
(***************************************************************************)
EXTENDS ChatJob, TLC

JobSymmetry == Permutations(Jobs)
====
