--------------------------- MODULE MCMtpDatasets ----------------------------
(* Instances of MtpDatasets: objects in one directory, with names of one, 254 *)
(* and 255 characters and one of a character of four bytes.                    *)
EXTENDS MtpDatasets

MCCharacters ==
  (0 :> 0) @@ (901 :> 38) @@ (902 :> 7) @@ (903 :> 3) @@ (904 :> 8)
    @@ (905 :> 15) @@ (906 :> 5) @@ (1001 :> 1) @@ (1002 :> 254)
    @@ (1003 :> 255) @@ (1004 :> 0)
MCAstral == [s \in DOMAIN MCCharacters |-> IF s = 1004 THEN 1 ELSE 0]

MCObject(h, format, size, name) ==
  [handle |-> h, storage |-> 65537, format |-> format, size |-> size,
   parent |-> 300, name |-> name]

Folder == MCObject(2, ASSOCIATION, 0, 1001)
File == MCObject(70000, 14337, 66000, 1002)

TwoObjects == {Folder, File}
LongNamed == {MCObject(2, 14337, 5, 1003)}
EmojiNamed == {MCObject(2, 14337, 5, 1004)}
AtRoot == {[Folder EXCEPT !.parent = 0]}

\* None, some, and more than a buffer holds.
MCLists == {<<>>, <<2, 70000>>, [i \in 1..350 |-> 70000 + i]}
ShortLists == {<<2, 70000>>}

AllOps == LibraryOps \cup OtherOps
=============================================================================
