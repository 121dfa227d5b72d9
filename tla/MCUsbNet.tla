------------------------------ MODULE MCUsbNet ------------------------------
(* UsbNet with a ring of two frames.                                       *)
EXTENDS UsbNet

CONSTANTS tcpip, batman, b1, b2, b3
=============================================================================
