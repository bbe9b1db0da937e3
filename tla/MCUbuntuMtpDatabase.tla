------------------------ MODULE MCUbuntuMtpDatabase -------------------------
(* The database alone for TLC. *)
EXTENDS UbuntuMtpDatabase

\* A home directory with a file and a directory, the mount point directory and
\* no card.
SmallHome ==
  <<<<Home, "dir">>, <<Append(Home, "a"), "dir">>, <<Append(Home, "b"), "file">>,
    <<Media, "dir">>>>

\* The same with an empty card already mounted.
WithCard == <<<<Home, "dir">>, <<Media, "dir">>, <<Card, "dir">>>>
=============================================================================
