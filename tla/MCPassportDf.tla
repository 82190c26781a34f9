---------------------------- MODULE MCPassportDf ----------------------------
(* PassportDf with room for a lost SELECT, a second loss and a read. *)
EXTENDS PassportDf
=============================================================================
