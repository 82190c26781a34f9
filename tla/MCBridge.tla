------------------------------ MODULE MCBridge ------------------------------
(* Bridge on two workers and a few transceive calls.                       *)
EXTENDS Bridge
=============================================================================
