----------------------------- MODULE MCFileRead -----------------------------
(* FileRead with small chunks: files end before, at and after each limit. *)
EXTENDS FileRead

MCLengths == 0 .. 13
=============================================================================
