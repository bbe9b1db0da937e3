---------------------------- MODULE MCMtpServer -----------------------------
(* The server over the database for TLC: the trees the runs start from. *)
EXTENDS MtpServerClaims

EmptyHome == <<<<Home, "dir">>, <<Media, "dir">>>>
FileAtHome == Append(EmptyHome, <<Append(Home, "a"), "file">>)
TwoFiles == Append(FileAtHome, <<Append(Home, "b"), "file">>)
FileAndDirectory == Append(FileAtHome, <<Append(Home, "b"), "dir">>)
DeepHome == EmptyHome \o
  <<<<Home \o <<"a">>, "dir">>, <<Home \o <<"a", "a">>, "dir">>,
    <<Home \o <<"a", "a", "a">>, "file">>>>
CardWithFile == EmptyHome \o
  <<<<Card, "dir">>, <<Append(Card, "a"), "file">>>>
FilesAndCard == TwoFiles \o
  <<<<Card, "dir">>, <<Append(Card, "a"), "file">>>>
=============================================================================
