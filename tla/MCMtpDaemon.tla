---------------------------- MODULE MCMtpDaemon -----------------------------
(* The daemon for TLC. *)
EXTENDS MtpDaemon

TwoCards == {1, 2}
=============================================================================
