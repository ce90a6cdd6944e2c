----------------------------- MODULE MCRunOnce -----------------------------
(* Instances of RunOnce for TLC.                                           *)
EXTENDS RunOnce, TLC

(* Processes are interchangeable: no action names one.                     *)
WorkerSymmetry == Permutations(Workers)
=============================================================================
