----------------------------- MODULE MCUsbHost ------------------------------
(* The discovery of USB devices for TLC: bus 1 has a slot, bus 2 has none. *)
EXTENDS UsbHost

TwoBusses == {1, 2}
OneDevice == {1}
TwoDevices == {1, 2}
MayStop == BOOLEAN
NeverStops == {FALSE}
=============================================================================
