---------------------------- MODULE MCUsbDevice -----------------------------
(* A USB device for TLC: up to two interfaces of every class. *)
EXTENDS UsbDevice

Good == <<"bulk_in", "bulk_out", "intr_in">>
Followings ==
  {Good, <<"intr_in", "bulk_in", "bulk_out">>, <<"bulk_in", "bulk_out">>,
   <<"no_endpoint">> \o Good, Good \o <<"no_endpoint">>}
AnyInterface == [class : Classes, following : Followings]
ClearInterface ==
  [class : Classes, following : {Good, <<"bulk_in", "bulk_out">>}]
TwoInterfaces ==
  {<<>>} \cup {<<i>> : i \in AnyInterface}
         \cup {<<i, j>> : i \in ClearInterface, j \in ClearInterface}
OneCamera == {<<[class |-> "still", following |-> Good]>>}
CONSTANTS fd1, fd2
TwoFds == {fd1, fd2}
TwoRequests == {"in1", "in2"}
=============================================================================
