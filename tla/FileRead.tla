------------------------------ MODULE FileRead ------------------------------
(***************************************************************************)
(* MrtdApi::read_file_by_sfi: the loop that reads one elementary file with *)
(* READ BINARY commands, the first by short file identifier, the next ones *)
(* at plain offsets, and those the plain form cannot express with the odd  *)
(* instruction and an offset data object.                                  *)
(*                                                                         *)
(* A byte is known by its position in the file, so that what was read is   *)
(* right exactly when it is 1, 2, 3, ... up to the declared length.  The   *)
(* chip is external: ISO 7816-4 READ BINARY.  Ne bounds the response data  *)
(* field, and with the odd instruction the data object's own header counts *)
(* towards it.                                                             *)
(***************************************************************************)
EXTENDS Integers, Sequences, SequencesExt

CONSTANTS
  HeaderChunk,   \* HEADER_CHUNK_LEN
  BodyChunk,     \* BODY_CHUNK_LEN
  PlainMax,      \* 0x7FFF, the greatest offset of a plain READ BINARY
  MaxFile,       \* MAX_FILE_LEN
  DoHeader,      \* bytes of tag and length in front of a '53' data object
  Lengths        \* the file lengths a chip may have or declare

ASSUME FileReadConstants ==
  /\ HeaderChunk \in Nat \ {0, 1} /\ BodyChunk \in Nat \ {0}
  /\ PlainMax \in Nat /\ MaxFile \in Nat /\ DoHeader \in Nat \ {0}
  /\ Lengths \subseteq Nat

VARIABLES
  card,    \* the file in the chip, and the chip's manners: see Chips
  stage,   \* "header", "body" or "done"
  data,    \* the bytes collected
  result   \* "none", "ok", or the error

fileVars == <<card, stage, data, result>>

-----------------------------------------------------------------------------

\* A byte of the file, or one from somewhere else.
Foreign == 0
Byte == Nat
Errors == {"Response", "Tlv", "FileTooLarge"}

\* length: what there is; declared: what the header says.  An obliging chip
\* declares what it has, returns all it can, and is never out of reach.
\* Some chips send the data of the odd instruction bare; looksWrapped are the
\* positions that hold 0x53 or 0x73.
Chips == [length : Lengths, declared : Lengths, obliging : BOOLEAN,
          wraps : BOOLEAN, looksWrapped : {{}, {PlainMax + 2}}]

FileTypeOK ==
  /\ card \in Chips
  /\ stage \in {"header", "body", "done"}
  /\ data \in Seq(Byte)
  /\ result \in {"none", "ok"} \cup Errors
  /\ (result = "none") <=> (stage # "done")
  /\ stage = "body" => card.declared <= MaxFile

FileInit ==
  /\ card \in Chips
  /\ card.obliging => card.declared = card.length
  /\ stage = "header"
  /\ data = <<>>
  /\ result = "none"

Least(m, n) == IF m <= n THEN m ELSE n

Succeed(bytes) == stage' = "done" /\ result' = "ok" /\ data' = bytes
Fail(error) == stage' = "done" /\ result' = error /\ UNCHANGED data

-----------------------------------------------------------------------------
(* The chip.                                                               *)

\* n bytes of the file from offset on.
Bytes(offset, n) == [i \in 1 .. n |-> offset + i]

\* How many bytes it returns when at most ne fit.
Counts(offset, ne) ==
  LET most == Least(ne, IF offset < card.length THEN card.length - offset ELSE 0)
  IN IF card.obliging THEN {most} ELSE 0 .. most

\* A plain READ BINARY.  P1 with its first bit set names another file.
Plain(offset, ne) ==
  IF offset > PlainMax THEN {<<Foreign>>}
  ELSE {Bytes(offset, n) : n \in Counts(offset, ne)}

\* What the value of a data object is whose header is data bytes: whatever
\* follows them, or nothing that can be decoded.
Misread(bytes) == {<<>>} \cup {SubSeq(bytes, 3, n) : n \in 3 .. Len(bytes)}

\* READ BINARY with the odd instruction, and read_binary_ext unwrapping it.
\* {} when there is no data object to decode.
Extended(offset, ne) ==
  IF card.wraps THEN
    IF ne < DoHeader THEN {}
    ELSE {Bytes(offset, n) : n \in Counts(offset, ne - DoHeader)}
  ELSE
    UNION {IF n > 0 /\ offset + 1 \in card.looksWrapped
             THEN Misread(Bytes(offset, n))
             ELSE {Bytes(offset, n)} : n \in Counts(offset, ne)}

-----------------------------------------------------------------------------
(* read_file_by_sfi.                                                       *)

\* The command fails: a status word other than 9000, a lost tag, a MAC error.
CommandFails ==
  /\ stage # "done"
  /\ ~card.obliging
  /\ Fail("Response")
  /\ UNCHANGED card

\* Faulty: a file shorter than the first chunk has no header.
ReadHeaderWhole ==
  /\ stage = "header"
  /\ \E n \in Counts(0, HeaderChunk) :
       IF n < HeaderChunk THEN Fail("Tlv")
       ELSE IF card.declared > MaxFile THEN Fail("FileTooLarge")
       ELSE stage' = "body" /\ data' = Bytes(0, n) /\ UNCHANGED result
  /\ UNCHANGED card

\* The first READ BINARY, decoded for the file's length.
ReadHeader ==
  /\ stage = "header"
  /\ \E n \in Counts(0, HeaderChunk) :
       IF n < 2 THEN Fail("Tlv")
       ELSE IF card.declared > MaxFile THEN Fail("FileTooLarge")
       ELSE stage' = "body" /\ data' = Bytes(0, n) /\ UNCHANGED result
  /\ UNCHANGED card

\* The header is not one: an empty or indefinite length, a truncated tag.
ReadHeaderMalformed ==
  /\ stage = "header"
  /\ ~card.obliging
  /\ Fail("Tlv")
  /\ UNCHANGED card

Remaining == card.declared - Len(data)
Ne == Least(Remaining, BodyChunk)

\* Faulty: the plain form at every offset.
ChunksPlain == Plain(Len(data), Ne)

\* The plain form as far as it reaches.
Chunks == IF Len(data) <= PlainMax THEN Plain(Len(data), Ne) ELSE Extended(Len(data), Ne)

\* Faulty: an empty chunk is one more chunk.
ReadBodyInsisting ==
  /\ stage = "body"
  /\ Remaining > 0
  /\ \E chunk \in Chunks : data' = data \o chunk /\ UNCHANGED <<stage, result>>
  /\ UNCHANGED card

\* One more chunk; an empty one is a short read.
ReadBody ==
  /\ stage = "body"
  /\ Remaining > 0
  /\ \E chunk \in Chunks :
       IF chunk = <<>> THEN Fail("Response")
       ELSE data' = data \o chunk /\ UNCHANGED <<stage, result>>
  /\ UNCHANGED card

\* read_binary_ext finds a data object it cannot decode.
ReadBodyMalformed ==
  /\ stage = "body"
  /\ Remaining > 0
  /\ Len(data) > PlainMax
  /\ \/ card.wraps /\ Ne < DoHeader
     \/ ~card.wraps /\ Len(data) + 1 \in card.looksWrapped
  /\ Fail("Tlv")
  /\ UNCHANGED card

\* Everything is there; what came beyond the declared length is dropped.
Finish ==
  /\ stage = "body"
  /\ Remaining <= 0
  /\ Succeed(SubSeq(data, 1, card.declared))
  /\ UNCHANGED card

FileNext ==
  \/ CommandFails
  \/ ReadHeader \/ ReadHeaderMalformed
  \/ ReadBody \/ ReadBodyMalformed
  \/ Finish

\* Each command ends: the channel answers, or its time limit passes.
FileFairness == WF_fileVars(FileNext)

FileSpec == FileInit /\ [][FileNext]_fileVars /\ FileFairness

-----------------------------------------------------------------------------
(* Properties.                                                             *)

\* What is returned is the file: all of it, in order, and nothing else -
\* short chunks, the change of instruction and the last odd-sized chunk
\* included.  Data that a chip sends bare and that begins like a data object
\* is the exception, and it spoils nothing that the plain form has read.
ExactFile ==
  result = "ok" =>
    /\ (card.wraps \/ card.looksWrapped = {})
         => data = Bytes(0, card.declared) /\ card.declared <= card.length
    /\ \A i \in 1 .. Least(PlainMax + 1, Len(data)) : data[i] = i

\* The loop ends whatever the chip sends, however little at a time.
Terminates == <>(stage = "done")

\* A file the plain form reaches is read whenever the chip obliges.
PlainFilesReadable ==
  (stage = "done" /\ card.obliging /\ card.length \in 2 .. Least(PlainMax + 1, MaxFile))
    => result = "ok"

\* What mrtd_api.rs:158 says: it "loops READ BINARY calls at successive
\* offsets until the whole record has been retrieved", beyond the plain
\* offsets too.
LongFilesReadable ==
  (stage = "done" /\ card.obliging /\ card.wraps /\ card.length \in 2 .. MaxFile)
    => result = "ok"
=============================================================================
