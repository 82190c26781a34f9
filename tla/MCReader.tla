------------------------------ MODULE MCReader ------------------------------
(* The three parts of a reader that keep state of their own between two    *)
(* exchanges - the passport handle, the loop that reads one file, and the  *)
(* host - on small instances.  They share nothing here: each behaviour is  *)
(* one of one part, the others stand still.                                *)
EXTENDS PassportDf, FileRead, HostReader

VARIABLE part

MCLengths == 0 .. 13

FileAtRest ==
  /\ stage = "done" /\ data = <<>> /\ result = "Response"
  /\ card = CHOOSE c \in Chips : ~c.obliging

MCInit ==
  \/ part = "handle" /\ Init /\ FileAtRest /\ HostInit
  \/ part = "file" /\ Init /\ FileInit /\ HostInit
  \/ part = "host" /\ Init /\ FileAtRest /\ HostInit

MCNext ==
  /\ UNCHANGED part
  /\ \/ part = "handle" /\ Next /\ UNCHANGED <<fileVars, hostVars>>
     \/ part = "file" /\ FileNext /\ UNCHANGED <<vars, hostVars>>
     \/ part = "host" /\ HostNext /\ UNCHANGED <<vars, fileVars>>

MCSpec ==
  /\ MCInit
  /\ [][MCNext]_<<part, vars, fileVars, hostVars>>
  /\ FileFairness /\ HostFairness
=============================================================================
