------------------------- MODULE MCSecureMessaging -------------------------
(* SecureMessaging with a counter of four bits that wraps during the run. *)
EXTENDS SecureMessaging

MCStarts == {0, 13}
=============================================================================
