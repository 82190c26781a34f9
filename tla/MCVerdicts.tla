----------------------------- MODULE MCVerdicts -----------------------------
(***************************************************************************)
(* The two ways to a verdict on a passport, checked side by side: "read",  *)
(* the reading of a live chip, and "passive", passive authentication of    *)
(* files from anywhere.  "part" says which one a behaviour is of; the      *)
(* other has not begun.  The properties are those of the two modules.      *)
(***************************************************************************)
EXTENDS MCPassiveAuth, ReadPassport

VARIABLE part

mcVars == <<part, vars, readVars>>

NotBegun ==
  /\ sod = "none" /\ groups = <<>> /\ anchors = <<>>
  /\ pc = "begin" /\ read = 0 /\ certs = <<>> /\ dsc = NoCertificate /\ checked = 0
  /\ result = Running

NotRead ==
  /\ options = "none" /\ chip = "none" /\ step = "none" /\ transportFailed = FALSE
  /\ cardAccess = FALSE /\ files = "none" /\ activeAuth = "none" /\ lostAt = {}
  /\ ending = Reading

MCInit ==
  \/ part = "read" /\ ReadInit /\ NotBegun
  \/ part = "passive" /\ Init /\ NotRead

MCNext ==
  /\ UNCHANGED part
  /\ \/ part = "read" /\ ReadNext /\ UNCHANGED vars
     \/ part = "passive" /\ Next /\ UNCHANGED readVars

MCSpec == MCInit /\ [][MCNext]_mcVars
=============================================================================
