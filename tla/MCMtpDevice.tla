---------------------------- MODULE MCMtpDevice -----------------------------
(* The host's side for TLC: threads are interchangeable. *)
EXTENDS MtpDevice, TLC

ThreadSymmetry == Permutations(Threads)
=============================================================================
