--------------------------- MODULE MCMtpTransfers ---------------------------
(* Instances of MtpTransfers for TLC. *)
EXTENDS MtpTransfers

\* The limit of the storages the daemon makes.
DaemonLimit == {DaemonMaxFileSize}
=============================================================================
