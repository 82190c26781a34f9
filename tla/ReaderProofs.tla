----------------------------- MODULE ReaderProofs -----------------------------
(***************************************************************************)
(* What PassportDf, FileRead and HostReader check, proved for any number   *)
(* of commands, handshakes, reads and exchanges, and for files, chunks and *)
(* limits of any size.  The three share no state: each theorem is about    *)
(* the specification of one of them.                                       *)
(***************************************************************************)
EXTENDS PassportDf, FileRead, HostReader, TLAPS

-----------------------------------------------------------------------------
(* The loop that reads a file.                                             *)

\* The bytes read so far are those of the file, in order: all of them where
\* nothing that the chip sends bare can pass for a data object, and in any
\* case those within reach of the plain form.
ReadInOrder ==
  /\ stage = "header" => data = <<>>
  /\ stage = "body" /\ (card.wraps \/ card.looksWrapped = {})
       => data = Bytes(0, Len(data)) /\ Len(data) <= card.length
  /\ stage = "body" => \A i \in 1 .. Least(PlainMax + 1, Len(data)) : data[i] = i

\* What an obliging chip declares is what it has.
Obliging == card.obliging => card.declared = card.length

FileInv ==
  /\ FileTypeOK /\ ReadInOrder /\ Obliging
  /\ ExactFile /\ PlainFilesReadable

\* The bytes from one offset to another.
LEMMA BytesOf ==
  ASSUME NEW offset \in Nat, NEW n \in Nat
  PROVE  /\ Bytes(offset, n) \in Seq(Nat) /\ Len(Bytes(offset, n)) = n
         /\ \A i \in 1 .. n : Bytes(offset, n)[i] = offset + i
BY DEF Bytes

LEMMA BytesFromZero ==
  ASSUME NEW n \in Nat
  PROVE  /\ Bytes(0, n) \in Seq(Nat) /\ Len(Bytes(0, n)) = n
         /\ \A i \in 1 .. n : Bytes(0, n)[i] = i
BY DEF Bytes

\* What a sequence is made of when another one is put behind it.
LEMMA Concatenated ==
  ASSUME NEW s \in Seq(Nat), NEW t \in Seq(Nat), NEW u, u = s \o t
  PROVE  /\ u \in Seq(Nat) /\ Len(u) = Len(s) + Len(t)
         /\ \A i \in 1 .. Len(s) : u[i] = s[i]
         /\ \A i \in Len(s) + 1 .. Len(s) + Len(t) : u[i] = t[i - Len(s)]
OBVIOUS

LEMMA PartOf ==
  ASSUME NEW s \in Seq(Nat), NEW k \in 3 .. Len(s)
  PROVE  SubSeq(s, 3, k) \in Seq(Nat)
<1>1. /\ k \in Nat /\ k - 2 \in Nat /\ k <= Len(s)
      /\ \A i \in 1 .. k - 2 : s[i + 2] \in Nat
  OBVIOUS
<1>2. SubSeq(s, 3, k) = [i \in 1 .. k - 2 |-> s[i + 2]]
  BY <1>1
<1> QED
  BY <1>1, <1>2

\* A sequence that counts from 1 is the bytes of the file from its beginning.
LEMMA CountsFromOne ==
  ASSUME NEW s \in Seq(Nat), \A i \in 1 .. Len(s) : s[i] = i
  PROVE  s = Bytes(0, Len(s))
<1>1. s = [i \in 1 .. Len(s) |-> s[i]]
  OBVIOUS
<1>2. Bytes(0, Len(s)) = [i \in 1 .. Len(s) |-> s[i]]
  BY DEF Bytes
<1> QED
  BY <1>1, <1>2

\* A chip returns no more than fits and no more than there is; an obliging one
\* returns that much.
LEMMA Counted ==
  ASSUME card \in Chips, NEW offset \in Nat, NEW ne \in Nat, NEW n \in Counts(offset, ne)
  PROVE  /\ n \in 0 .. ne
         /\ n > 0 => offset + n <= card.length
         /\ card.obliging /\ ne > 0 /\ offset < card.length => n > 0
<1>1. card.length \in Nat
  BY FileReadConstants DEF Chips
<1> QED
  BY <1>1 DEF Counts, Least

\* The next chunk: within reach of the plain form, or where the odd
\* instruction gives no room for doubt, it is what follows in the file.
LEMMA NextChunk ==
  ASSUME card \in Chips, data \in Seq(Nat), Remaining > 0, NEW chunk \in Chunks
  PROVE  /\ chunk \in Seq(Nat)
         /\ (Len(data) <= PlainMax \/ card.wraps \/ card.looksWrapped = {}) /\ chunk # <<>>
              => /\ \A i \in 1 .. Len(chunk) : chunk[i] = Len(data) + i
                 /\ Len(data) + Len(chunk) <= card.length
         /\ card.obliging /\ Len(data) <= PlainMax /\ Len(data) < card.length
              => chunk # <<>>
<1> DEFINE offset == Len(data)
<1>1. /\ offset \in Nat /\ card.declared \in Nat /\ card.length \in Nat
      /\ Ne \in Nat \ {0} /\ PlainMax \in Nat /\ DoHeader \in Nat
  <2>1. card.declared \in Nat /\ card.length \in Nat
    BY FileReadConstants DEF Chips
  <2>2. Len(data) \in Nat /\ BodyChunk \in Nat \ {0} /\ PlainMax \in Nat /\ DoHeader \in Nat
    BY FileReadConstants
  <2>3. Remaining \in Nat \ {0}
    BY <2>1, <2>2 DEF Remaining
  <2> QED
    BY <2>1, <2>2, <2>3 DEF Ne, Least
<1> HIDE DEF offset
<1>2. ASSUME NEW ne \in Nat, NEW n \in Counts(offset, ne), chunk = Bytes(offset, n)
      PROVE  /\ chunk \in Seq(Nat)
             /\ chunk # <<>> => /\ \A i \in 1 .. Len(chunk) : chunk[i] = offset + i
                                /\ offset + Len(chunk) <= card.length
             /\ card.obliging /\ ne > 0 /\ offset < card.length => chunk # <<>>
  <2>1. n \in Nat /\ (n > 0 => offset + n <= card.length)
    BY <1>1, <1>2, Counted
  <2>2. /\ chunk \in Seq(Nat) /\ Len(chunk) = n
        /\ \A i \in 1 .. n : chunk[i] = offset + i
    BY <1>1, <1>2, <2>1, BytesOf
  <2>3. chunk # <<>> <=> n > 0
    BY <2>1, <2>2
  <2>4. card.obliging /\ ne > 0 /\ offset < card.length => n > 0
    BY <1>1, <1>2, Counted
  <2> QED
    BY <2>1, <2>2, <2>3, <2>4
<1>3. CASE offset <= PlainMax
  <2>1. \E n \in Counts(offset, Ne) : chunk = Bytes(offset, n)
    BY <1>1, <1>3 DEF Chunks, Plain, offset
  <2> QED
    BY <1>1, <1>2, <1>3, <2>1 DEF offset
<1>4. CASE ~(offset <= PlainMax)
  <2>1. chunk \in Extended(offset, Ne)
    BY <1>4 DEF Chunks, offset
  <2>2. CASE card.wraps
    <3>1. Ne >= DoHeader /\ \E n \in Counts(offset, Ne - DoHeader) : chunk = Bytes(offset, n)
      BY <1>1, <2>1, <2>2 DEF Extended
    <3>2. Ne - DoHeader \in Nat
      BY <1>1, <3>1
    <3> QED
      BY <1>2, <1>4, <3>1, <3>2 DEF offset
  <2>3. CASE ~card.wraps
    <3>1. PICK n \in Counts(offset, Ne) :
            chunk \in IF n > 0 /\ offset + 1 \in card.looksWrapped
                        THEN Misread(Bytes(offset, n)) ELSE {Bytes(offset, n)}
      BY <2>1, <2>3 DEF Extended
    <3>2. CASE n > 0 /\ offset + 1 \in card.looksWrapped
      <4>1. n \in Nat /\ Bytes(offset, n) \in Seq(Nat)
        BY <1>1, <3>1, BytesOf, Counted
      <4>2. chunk \in Seq(Nat)
        <5>1. \A k \in 3 .. Len(Bytes(offset, n)) : SubSeq(Bytes(offset, n), 3, k) \in Seq(Nat)
          BY <4>1, PartOf
        <5>2. \/ chunk = <<>>
              \/ \E k \in 3 .. Len(Bytes(offset, n)) : chunk = SubSeq(Bytes(offset, n), 3, k)
          <6> DEFINE b == Bytes(offset, n)
          <6> HIDE DEF b
          <6>1. chunk \in Misread(b)
            BY <3>1, <3>2 DEF b
          <6>2. \/ chunk = <<>>
                \/ \E k \in 3 .. Len(b) : chunk = SubSeq(b, 3, k)
            BY <6>1, Zenon DEF Misread
          <6> QED
            BY <6>2 DEF b
        <5>3. <<>> \in Seq(Nat)
          OBVIOUS
        <5> QED
          BY <5>1, <5>2, <5>3, Zenon
      <4> QED
        BY <1>4, <2>3, <3>2, <4>2 DEF offset
    <3>3. CASE ~(n > 0 /\ offset + 1 \in card.looksWrapped)
      BY <1>1, <1>2, <1>4, <2>3, <3>1, <3>3 DEF offset
    <3> QED
      BY <3>2, <3>3
  <2> QED
    BY <2>2, <2>3
<1> QED
  BY <1>3, <1>4

LEMMA FileInductive == FileInv /\ [FileNext]_fileVars => FileInv'
<1> SUFFICES ASSUME FileInv, [FileNext]_fileVars PROVE FileInv'
  OBVIOUS
<1>t. /\ FileTypeOK /\ ReadInOrder /\ Obliging /\ ExactFile /\ PlainFilesReadable
      /\ card \in Chips /\ data \in Seq(Nat)
      /\ card.declared \in Nat /\ card.length \in Nat
      /\ (result = "none") <=> (stage # "done")
      /\ HeaderChunk \in Nat \ {0, 1} /\ BodyChunk \in Nat \ {0}
      /\ PlainMax \in Nat /\ MaxFile \in Nat
  BY FileReadConstants DEF FileInv, FileTypeOK, Byte, Chips
<1>1. ASSUME stage # "done", card' = card, NEW error \in Errors, Fail(error),
             card.obliging => card.length \notin 2 .. Least(PlainMax + 1, MaxFile)
      PROVE  FileInv'
  <2>1. stage' = "done" /\ result' = error /\ data' = data
    BY <1>1 DEF Fail
  <2>2. error # "ok" /\ error # "none" /\ error \in {"none", "ok"} \cup Errors
    BY <1>1 DEF Errors
  <2>3. FileTypeOK'
    BY <1>t, <1>1, <2>1, <2>2 DEF FileTypeOK
  <2>4. (ReadInOrder /\ Obliging /\ ExactFile)'
    BY <1>t, <1>1, <2>1, <2>2 DEF ReadInOrder, Obliging, ExactFile
  <2>5. PlainFilesReadable'
    BY <1>1 DEF PlainFilesReadable
  <2> QED
    BY <2>3, <2>4, <2>5 DEF FileInv
<1>2. CASE CommandFails
  BY <1>1, <1>2 DEF CommandFails, Errors
<1>3. CASE ReadHeaderMalformed
  BY <1>1, <1>3 DEF ReadHeaderMalformed, Errors
<1>4. CASE ReadHeader
  <2>1. PICK n \in Counts(0, HeaderChunk) :
          IF n < 2 THEN Fail("Tlv")
          ELSE IF card.declared > MaxFile THEN Fail("FileTooLarge")
          ELSE stage' = "body" /\ data' = Bytes(0, n) /\ UNCHANGED result
    BY <1>4 DEF ReadHeader
  <2>2. stage = "header" /\ card' = card
    BY <1>4 DEF ReadHeader
  <2>3. n \in Nat /\ (n > 0 => n <= card.length)
    BY <1>t, Counted
  <2>4. CASE n < 2
    <3>1. card.obliging => card.length \notin 2 .. Least(PlainMax + 1, MaxFile)
      BY <1>t, <2>4 DEF Counts, Least
    <3> QED
      BY <1>1, <2>1, <2>2, <2>4, <3>1 DEF Errors
  <2>5. CASE ~(n < 2) /\ card.declared > MaxFile
    <3>1. card.obliging => card.length \notin 2 .. Least(PlainMax + 1, MaxFile)
      BY <1>t, <2>5 DEF Obliging, Least
    <3> QED
      BY <1>1, <2>1, <2>2, <2>5, <3>1 DEF Errors
  <2>6. CASE ~(n < 2) /\ ~(card.declared > MaxFile)
    <3>1. stage' = "body" /\ data' = Bytes(0, n) /\ result' = result
      BY <2>1, <2>6
    <3>2. data' \in Seq(Nat) /\ Len(data') = n /\ \A i \in 1 .. n : data'[i] = i
      BY <2>3, <3>1, BytesFromZero
    <3>3. FileTypeOK'
      BY <1>t, <2>2, <2>6, <3>1, <3>2 DEF FileTypeOK, Byte
    <3>4. ReadInOrder'
      <4>1. data' = Bytes(0, Len(data')) /\ Len(data') <= card.length
        BY <2>3, <2>6, <3>1, <3>2
      <4>2. 1 .. Least(PlainMax + 1, Len(data')) \subseteq 1 .. n
        BY <1>t, <3>2, <2>3 DEF Least
      <4> QED
        BY <2>2, <3>1, <3>2, <4>1, <4>2 DEF ReadInOrder
    <3>5. (Obliging /\ ExactFile /\ PlainFilesReadable)'
      BY <1>t, <2>2, <3>1 DEF Obliging, ExactFile, PlainFilesReadable
    <3> QED
      BY <3>3, <3>4, <3>5 DEF FileInv
  <2> QED
    BY <2>4, <2>5, <2>6
<1>5. CASE ReadBody
  <2>1. stage = "body" /\ Remaining > 0 /\ card' = card
    BY <1>5 DEF ReadBody
  <2>2. PICK chunk \in Chunks :
          IF chunk = <<>> THEN Fail("Response")
          ELSE data' = data \o chunk /\ UNCHANGED <<stage, result>>
    BY <1>5 DEF ReadBody
  <2>3. /\ chunk \in Seq(Nat)
        /\ (Len(data) <= PlainMax \/ card.wraps \/ card.looksWrapped = {}) /\ chunk # <<>>
              => /\ \A i \in 1 .. Len(chunk) : chunk[i] = Len(data) + i
                 /\ Len(data) + Len(chunk) <= card.length
        /\ card.obliging /\ Len(data) <= PlainMax /\ Len(data) < card.length
              => chunk # <<>>
    BY <1>t, <2>1, NextChunk
  <2>4. CASE chunk = <<>>
    <3>1. card.obliging => card.length \notin 2 .. Least(PlainMax + 1, MaxFile)
      BY <1>t, <2>1, <2>3, <2>4 DEF Obliging, Least, Remaining
    <3> QED
      BY <1>1, <2>1, <2>2, <2>4, <3>1 DEF Errors
  <2>5. CASE chunk # <<>>
    <3>1. data' = data \o chunk /\ stage' = "body" /\ result' = result
      BY <2>1, <2>2, <2>5
    <3>2. /\ data' \in Seq(Nat) /\ Len(data') = Len(data) + Len(chunk)
          /\ \A i \in 1 .. Len(data) : data'[i] = data[i]
          /\ \A i \in Len(data) + 1 .. Len(data) + Len(chunk) : data'[i] = chunk[i - Len(data)]
          /\ Len(data) \in Nat /\ Len(chunk) \in Nat
      BY <1>t, <2>3, <3>1, Concatenated
    <3>3. Len(data) <= PlainMax \/ card.wraps \/ card.looksWrapped = {}
            => \A i \in Len(data) + 1 .. Len(data') : data'[i] = i
      <4> SUFFICES ASSUME Len(data) <= PlainMax \/ card.wraps \/ card.looksWrapped = {},
                          NEW i \in Len(data) + 1 .. Len(data')
                   PROVE  data'[i] = i
        OBVIOUS
      <4>1. i - Len(data) \in 1 .. Len(chunk) /\ Len(data) + (i - Len(data)) = i
        BY <3>2
      <4> QED
        BY <2>3, <2>5, <3>2, <4>1
    <3>4. FileTypeOK'
      BY <1>t, <2>1, <3>1, <3>2 DEF FileTypeOK, Byte
    <3>5. ReadInOrder'
      <4>1. ASSUME card.wraps \/ card.looksWrapped = {}
            PROVE  data' = Bytes(0, Len(data')) /\ Len(data') <= card.length
        <5>1. \A i \in 1 .. Len(data) : data[i] = i
          BY <1>t, <2>1, <3>2, <4>1, BytesFromZero DEF ReadInOrder
        <5>2. \A i \in 1 .. Len(data') : data'[i] = i
          <6> TAKE i \in 1 .. Len(data')
          <6>1. i \in 1 .. Len(data) \/ i \in Len(data) + 1 .. Len(data')
            BY <3>2
          <6> QED
            BY <3>2, <3>3, <4>1, <5>1, <6>1
        <5> QED
          BY <2>3, <2>5, <3>2, <4>1, <5>2, CountsFromOne
      <4>2. \A i \in 1 .. Least(PlainMax + 1, Len(data')) : data'[i] = i
        <5>1. \A i \in 1 .. Least(PlainMax + 1, Len(data)) : data[i] = i
          BY <1>t, <2>1 DEF ReadInOrder
        <5> SUFFICES ASSUME NEW i \in 1 .. Least(PlainMax + 1, Len(data')) PROVE data'[i] = i
          OBVIOUS
        <5>2. CASE i <= Len(data)
          <6>1. i \in 1 .. Least(PlainMax + 1, Len(data)) /\ i \in 1 .. Len(data)
            BY <1>t, <3>2, <5>2 DEF Least
          <6> QED
            BY <3>2, <5>1, <6>1
        <5>3. CASE i > Len(data)
          <6>1. Len(data) <= PlainMax /\ i \in Len(data) + 1 .. Len(data')
            BY <1>t, <3>2, <5>3 DEF Least
          <6> QED
            BY <3>3, <6>1
        <5> QED
          BY <1>t, <3>2, <5>2, <5>3 DEF Least
      <4> QED
        BY <2>1, <3>1, <4>1, <4>2 DEF ReadInOrder
    <3>6. (Obliging /\ ExactFile /\ PlainFilesReadable)'
      BY <1>t, <2>1, <3>1 DEF Obliging, ExactFile, PlainFilesReadable
    <3> QED
      BY <3>4, <3>5, <3>6 DEF FileInv
  <2> QED
    BY <2>4, <2>5
<1>6. CASE ReadBodyMalformed
  <2>1. /\ stage = "body" /\ Remaining > 0 /\ Len(data) > PlainMax
        /\ Fail("Tlv") /\ card' = card
    BY <1>6 DEF ReadBodyMalformed
  <2>2. card.obliging => card.length \notin 2 .. Least(PlainMax + 1, MaxFile)
    BY <1>t, <2>1 DEF Obliging, Least, Remaining
  <2> QED
    BY <1>1, <2>1, <2>2 DEF Errors
<1>7. CASE Finish
  <2>1. /\ stage = "body" /\ Remaining <= 0 /\ card' = card
        /\ stage' = "done" /\ result' = "ok" /\ data' = SubSeq(data, 1, card.declared)
    BY <1>7 DEF Finish, Succeed
  <2>2. card.declared <= Len(data) /\ Len(data) \in Nat
    BY <1>t, <2>1 DEF Remaining
  <2>3. /\ data' \in Seq(Nat) /\ Len(data') = card.declared
        /\ \A i \in 1 .. card.declared : data'[i] = data[i]
    BY <1>t, <2>1, <2>2
  <2>4. FileTypeOK'
    BY <1>t, <2>1, <2>3 DEF FileTypeOK, Byte
  <2>5. ExactFile'
    <3>1. ASSUME card.wraps \/ card.looksWrapped = {}
          PROVE  data' = Bytes(0, card.declared) /\ card.declared <= card.length
      <4>1. data = Bytes(0, Len(data)) /\ Len(data) <= card.length
        BY <1>t, <2>1, <3>1 DEF ReadInOrder
      <4>2. \A i \in 1 .. Len(data) : data[i] = i
        BY <2>2, <4>1, BytesFromZero
      <4>3. \A i \in 1 .. Len(data') : data'[i] = i
        BY <1>t, <2>2, <2>3, <4>2
      <4> QED
        BY <1>t, <2>2, <2>3, <4>1, <4>3, CountsFromOne
    <3>2. \A i \in 1 .. Least(PlainMax + 1, Len(data')) : data'[i] = i
      BY <1>t, <2>1, <2>2, <2>3 DEF ReadInOrder, Least
    <3> QED
      BY <2>1, <3>1, <3>2 DEF ExactFile
  <2>6. (ReadInOrder /\ Obliging /\ PlainFilesReadable)'
    BY <1>t, <2>1 DEF ReadInOrder, Obliging, PlainFilesReadable
  <2> QED
    BY <2>4, <2>5, <2>6 DEF FileInv
<1>8. CASE UNCHANGED fileVars
  <2>1. (FileTypeOK /\ ReadInOrder /\ Obliging)'
    BY <1>t, <1>8 DEF fileVars, FileTypeOK, ReadInOrder, Obliging
  <2>2. (ExactFile /\ PlainFilesReadable)'
    BY <1>t, <1>8 DEF fileVars, ExactFile, PlainFilesReadable
  <2> QED
    BY <2>1, <2>2 DEF FileInv
<1> QED
  BY <1>2, <1>3, <1>4, <1>5, <1>6, <1>7, <1>8 DEF FileNext

LEMMA FileInvariance == FileSpec => []FileInv
<1>1. FileInit => FileInv
  <2> SUFFICES ASSUME FileInit PROVE FileInv
    OBVIOUS
  <2>1. card \in Chips /\ stage = "header" /\ data = <<>> /\ result = "none"
    BY DEF FileInit
  <2>2. FileTypeOK
    BY <2>1 DEF FileTypeOK
  <2>3. ReadInOrder /\ ExactFile /\ PlainFilesReadable
    BY <2>1 DEF ReadInOrder, ExactFile, PlainFilesReadable
  <2>4. Obliging
    BY DEF FileInit, Obliging
  <2> QED
    BY <2>2, <2>3, <2>4 DEF FileInv
<1>2. FileInv /\ [FileNext]_fileVars => FileInv'
  BY FileInductive
<1> QED
  BY <1>1, <1>2, PTL DEF FileSpec

\* The loop keeps to its types, and enters its body only with a declared
\* length that MAX_FILE_LEN allows.
THEOREM FileTypeCorrect == FileSpec => []FileTypeOK
<1>1. FileInv => FileTypeOK
  BY DEF FileInv
<1> QED
  BY <1>1, FileInvariance, PTL

\* read_file_by_sfi returns the file it was asked for, whatever the chip's
\* chunks and wherever the change of instruction falls among them.
THEOREM ReadsExactFile == FileSpec => []ExactFile
<1>1. FileInv => ExactFile
  BY DEF FileInv
<1> QED
  BY <1>1, FileInvariance, PTL

\* read_file_by_sfi returns every file in reach of the plain form that a chip
\* obligingly gives.
THEOREM ReadsPlainFiles == FileSpec => []PlainFilesReadable
<1>1. FileInv => PlainFilesReadable
  BY DEF FileInv
<1> QED
  BY <1>1, FileInvariance, PTL

-----------------------------------------------------------------------------
(* The handle and its cache.                                               *)

\* The method in progress is about a dedicated file; it uses a file only when
\* the cache names it, and a caller's own SELECT finds the cache invalidated.
Methods ==
  /\ op \in Method \cup {Idle}
  /\ op.step = "use" => df = op.want
  /\ op.kind = "custom" => df = "None"
  /\ op.kind = "bac" => op.want = "Df1"

\* A cache that is not in doubt is right, and nothing that the host still
\* holds can prove it wrong.
CacheIsSure == df # "None" /\ ~doubt => chip.df = df /\ ~SelectHeld

\* Sessions are numbered as they are tried, and counters go up by two with
\* each exchange at most.
Bounded ==
  /\ sm.key <= sessions /\ chip.key <= sessions
  /\ sm.ssc <= 2 * sent /\ chip.ssc <= 2 * sent /\ disturbed <= sent
  /\ \A c \in late : c.tag.key <= sessions /\ c.tag.ssc + 1 <= 2 * sent

\* Inside a session that both still hold, the counters agree until an answer
\* is lost; after one loss they cannot agree, whether or when the chip gets the
\* command.
InSession == sm.key # 0 /\ chip.key = sm.key
Counters ==
  InSession =>
    /\ disturbed = 0 => chip.ssc = sm.ssc /\ \A c \in late : c.tag.key # sm.key
    /\ disturbed = 1 => /\ chip.ssc + 1 = sm.ssc \/ chip.ssc = sm.ssc + 1
                        /\ \A c \in late : c.tag.key = sm.key => c.tag.ssc = sm.ssc

\* Until an answer is lost the cache of a session is right, in doubt or not.
CacheInSession == InSession /\ disturbed = 0 /\ df # "None" => chip.df = df

HandleInv ==
  TypeOK /\ Methods /\ CacheIsSure /\ Bounded /\ Counters /\ CacheInSession

\* What the chip makes of a command.
LEMMA ChipTakes ==
  ASSUME TypeOK, NEW ctr \in [key : Nat, ssc : Nat], NEW d \in Df \cup {"same"}
  PROVE  /\ ChipAfter(ctr, d).df \in Df
         /\ ChipAfter(ctr, d).df # chip.df => d # "same" /\ ChipAfter(ctr, d).df = d
         /\ ChipAfter(ctr, d) \in [df : Df, key : Nat, ssc : Nat]
         /\ ~Accepts(ctr) => ChipAfter(ctr, d).key = 0 /\ ChipAfter(ctr, d).ssc = 0
         /\ Accepts(ctr) =>
              /\ ChipAfter(ctr, d).key = ctr.key
              /\ ChipAfter(ctr, d).df = IF d = "same" THEN chip.df ELSE d
              /\ ctr.key # 0 => /\ chip.key = ctr.key /\ ctr.ssc = chip.ssc + 1
                                /\ ChipAfter(ctr, d).ssc = ctr.ssc + 1
              /\ ctr.key = 0 => ChipAfter(ctr, d).ssc = ctr.ssc
         /\ ctr.key # 0 /\ chip.key = ctr.key /\ ctr.ssc = chip.ssc + 1 => Accepts(ctr)
<1>1. /\ chip \in [df : Df, key : Nat, ssc : Nat]
  <2>1. 0 .. MaxSessions \subseteq Nat /\ Counter \subseteq Nat
    BY DfConstants DEF Counter
  <2> QED
    BY <2>1 DEF TypeOK, ChipState
<1>2. ASSUME ~Accepts(ctr)
      PROVE  /\ ChipAfter(ctr, d).key = 0 /\ ChipAfter(ctr, d).ssc = 0
             /\ ChipAfter(ctr, d).df = chip.df
             /\ ChipAfter(ctr, d) \in [df : Df, key : Nat, ssc : Nat]
  BY <1>1, <1>2 DEF ChipAfter
<1> DEFINE there == IF d = "same" THEN chip.df ELSE d
<1>3. there \in Df /\ (there # chip.df => d # "same" /\ there = d)
  BY <1>1
<1>4. Advance(ctr) \in [key : Nat, ssc : Nat]
  BY DEF Advance
<1>5. Advance(ctr).ssc = IF ctr.key = 0 THEN ctr.ssc ELSE ctr.ssc + 1
  BY DEF Advance
<1>6. Accepts(ctr) /\ ctr.key # 0 => chip.key = ctr.key /\ ctr.ssc = chip.ssc + 1
  BY <1>1 DEF Accepts, Advance
<1>7. ctr.key # 0 /\ chip.key = ctr.key /\ ctr.ssc = chip.ssc + 1 => Accepts(ctr)
  <2> SUFFICES ASSUME ctr.key # 0, chip.key = ctr.key, ctr.ssc = chip.ssc + 1
               PROVE  ctr = [key |-> chip.key, ssc |-> chip.ssc + 1]
    BY <1>1 DEF Accepts, Advance
  <2> QED
    OBVIOUS
<1> HIDE DEF there
<1>8. ASSUME Accepts(ctr)
      PROVE  ChipAfter(ctr, d) = [df |-> there, key |-> ctr.key, ssc |-> Advance(ctr).ssc]
  BY <1>8 DEF ChipAfter, there
<1>9. ASSUME Accepts(ctr)
      PROVE  /\ ChipAfter(ctr, d).key = ctr.key /\ ChipAfter(ctr, d).df = there
             /\ ChipAfter(ctr, d).ssc = Advance(ctr).ssc
             /\ ChipAfter(ctr, d) \in [df : Df, key : Nat, ssc : Nat]
  BY <1>3, <1>4, <1>8, <1>9
<1>10. CASE Accepts(ctr)
  BY <1>3, <1>5, <1>6, <1>9, <1>10 DEF there
<1> QED
  BY <1>1, <1>2, <1>7, <1>10

\* A counter advances inside a session only.
LEMMA Advanced ==
  ASSUME NEW s \in [key : Nat, ssc : Nat]
  PROVE  /\ Advance(s) \in [key : Nat, ssc : Nat] /\ Advance(s).key = s.key
         /\ Advance(s).ssc = IF s.key = 0 THEN s.ssc ELSE s.ssc + 1
BY DEF Advance

\* The session a command is sent under.
LEMMA Sent ==
  ASSUME TypeOK, NEW ctr, ctr = Advance(sm)
  PROVE  /\ ctr \in [key : Nat, ssc : Nat] /\ ctr.key = sm.key
         /\ ctr.ssc = IF sm.key = 0 THEN sm.ssc ELSE sm.ssc + 1
         /\ Advance(ctr) \in [key : Nat, ssc : Nat] /\ Advance(ctr).key = sm.key
         /\ Advance(ctr).ssc = IF sm.key = 0 THEN sm.ssc ELSE sm.ssc + 2
         /\ sm.key \in Nat /\ sm.ssc \in Nat
<1>1. sm \in [key : Nat, ssc : Nat]
  <2>1. 0 .. MaxSessions \subseteq Nat /\ Counter \subseteq Nat
    BY DfConstants DEF Counter
  <2> QED
    BY <2>1 DEF TypeOK, Session
<1>2. /\ ctr \in [key : Nat, ssc : Nat] /\ ctr.key = sm.key
      /\ ctr.ssc = IF sm.key = 0 THEN sm.ssc ELSE sm.ssc + 1
  BY <1>1, Advanced
<1>3. /\ Advance(ctr) \in [key : Nat, ssc : Nat] /\ Advance(ctr).key = ctr.key
      /\ Advance(ctr).ssc = IF ctr.key = 0 THEN ctr.ssc ELSE ctr.ssc + 1
  BY <1>2, Advanced
<1>4. sm.key \in Nat /\ sm.ssc \in Nat
  BY <1>1
<1> QED
  BY <1>2, <1>3, <1>4

\* Numbers within the bounds make a session and a chip of the right type.
LEMMA WithinBounds ==
  ASSUME NEW n \in 0 .. MaxExchanges, NEW m \in 0 .. MaxSessions
  PROVE  /\ \A s \in [key : Nat, ssc : Nat] :
              s.key <= m /\ s.ssc <= 2 * n => s \in Session
         /\ \A c \in [df : Df, key : Nat, ssc : Nat] :
              c.key <= m /\ c.ssc <= 2 * n => c \in ChipState
<1>1. 2 * n \in Nat /\ 2 * n <= 2 * MaxExchanges /\ m \in Nat
  BY DfConstants
<1>2. \A k \in Nat : k <= 2 * n => k \in Counter
  BY <1>1, DfConstants DEF Counter
<1>3. \A k \in Nat : k <= m => k \in 0 .. MaxSessions
  BY <1>1, DfConstants
<1> QED
  BY <1>2, <1>3 DEF Session, ChipState

\* One exchange, however it ends.
LEMMA Exchanged ==
  ASSUME TypeOK, Bounded, Counters, NEW d \in Df \cup {"same"},
         Answered(d) \/ Refused \/ Unanswered(d),
         sent < MaxExchanges, sent' = sent + 1, sessions' = sessions
  PROVE  /\ sm' \in Session /\ chip' \in ChipState /\ late' \subseteq LateCommand
         /\ disturbed' \in 0 .. MaxExchanges /\ sent' \in 0 .. MaxExchanges
         /\ Bounded' /\ Counters'
         /\ InSession' /\ disturbed' = 0 => InSession /\ disturbed = 0
<1> DEFINE ctr == Advance(sm)
<1>1. /\ ctr \in [key : Nat, ssc : Nat] /\ ctr.key = sm.key
      /\ ctr.ssc = IF sm.key = 0 THEN sm.ssc ELSE sm.ssc + 1
      /\ Advance(ctr) \in [key : Nat, ssc : Nat] /\ Advance(ctr).key = sm.key
      /\ Advance(ctr).ssc = IF sm.key = 0 THEN sm.ssc ELSE sm.ssc + 2
      /\ sm.key \in Nat /\ sm.ssc \in Nat
  BY Sent
<1>2. /\ sent \in Nat /\ sent' \in 0 .. MaxExchanges /\ sessions \in 0 .. MaxSessions
      /\ sessions \in Nat /\ disturbed \in Nat /\ sent' \in Nat
  BY DfConstants DEF TypeOK
<1>3. /\ chip.key \in Nat /\ chip.ssc \in Nat /\ chip.df \in Df
      /\ chip \in [df : Df, key : Nat, ssc : Nat]
  <2>1. 0 .. MaxSessions \subseteq Nat /\ Counter \subseteq Nat
    BY DfConstants DEF Counter
  <2> QED
    BY <2>1 DEF TypeOK, ChipState
<1>4. /\ sm.key <= sessions /\ chip.key <= sessions
      /\ sm.ssc <= 2 * sent /\ chip.ssc <= 2 * sent /\ disturbed <= sent
      /\ \A c \in late : c.tag.key <= sessions /\ c.tag.ssc + 1 <= 2 * sent
  BY DEF Bounded
<1> HIDE DEF ctr
<1>5. PICK e \in {d, "same"} : chip' = ChipAfter(ctr, e) \/ chip' = chip
  BY DEF Answered, Refused, Unanswered, ctr
<1>6. /\ ChipAfter(ctr, e) \in [df : Df, key : Nat, ssc : Nat]
      /\ ~Accepts(ctr) => ChipAfter(ctr, e).key = 0 /\ ChipAfter(ctr, e).ssc = 0
      /\ Accepts(ctr) =>
           /\ ChipAfter(ctr, e).key = ctr.key
           /\ ctr.key # 0 => /\ chip.key = ctr.key /\ ctr.ssc = chip.ssc + 1
                             /\ ChipAfter(ctr, e).ssc = ctr.ssc + 1
           /\ ctr.key = 0 => ChipAfter(ctr, e).ssc = ctr.ssc
  BY <1>1, ChipTakes
<1>7. sm' = ctr \/ sm' = Advance(ctr)
  BY DEF Answered, Refused, Unanswered, ctr
<1>8. late' = late \/ late' = late \cup {[df |-> d, tag |-> ctr]}
  BY DEF Answered, Refused, Unanswered, ctr
<1>9. disturbed' = disturbed \/ disturbed' = disturbed + 1
  BY DEF Answered, Refused, Unanswered
<1>10. Bounded'
  <2>1. sm'.key <= sessions' /\ sm'.ssc <= 2 * sent'
    BY <1>1, <1>2, <1>4, <1>7
  <2>2. chip'.key <= sessions' /\ chip'.ssc <= 2 * sent'
    BY <1>1, <1>2, <1>3, <1>4, <1>5, <1>6
  <2>3. disturbed' <= sent'
    BY <1>2, <1>4, <1>9
  <2>4. \A c \in late' : c.tag.key <= sessions' /\ c.tag.ssc + 1 <= 2 * sent'
    <3>1. \A c \in late : c.tag.key <= sessions' /\ c.tag.ssc + 1 <= 2 * sent'
      <4>1. \A c \in late : c.tag.ssc \in Nat
        BY DfConstants DEF TypeOK, LateCommand, Session, Counter
      <4> QED
        BY <1>2, <1>4, <4>1
    <3>2. ctr.key <= sessions' /\ ctr.ssc + 1 <= 2 * sent'
      BY <1>1, <1>2, <1>4
    <3> QED
      BY <1>8, <3>1, <3>2
  <2> QED
    BY <2>1, <2>2, <2>3, <2>4 DEF Bounded
<1>11. sm' \in Session /\ chip' \in ChipState
  <2>1. sm' \in [key : Nat, ssc : Nat] /\ chip' \in [df : Df, key : Nat, ssc : Nat]
    BY <1>1, <1>3, <1>5, <1>6, <1>7
  <2>2. sm'.key <= sessions /\ sm'.ssc <= 2 * sent' /\ chip'.key <= sessions /\ chip'.ssc <= 2 * sent'
    BY <1>10 DEF Bounded
  <2> QED
    BY <1>2, <2>1, <2>2, WithinBounds
<1>12. late' \subseteq LateCommand
  <2>1. ctr \in Session
    <3>1. ctr.key <= sessions /\ ctr.ssc <= 2 * sent'
      BY <1>1, <1>2, <1>4
    <3> QED
      BY <1>1, <1>2, <3>1, WithinBounds
  <2>2. [df |-> d, tag |-> ctr] \in LateCommand
    BY <2>1 DEF LateCommand
  <2> QED
    BY <1>8, <2>2 DEF TypeOK
<1>13. disturbed' \in 0 .. MaxExchanges
  <2>1. disturbed' \in Nat /\ disturbed' <= sent'
    BY <1>2, <1>4, <1>9
  <2> QED
    BY <1>2, <2>1, DfConstants
<1>14. InSession' => InSession
  BY <1>1, <1>5, <1>6, <1>7 DEF InSession
<1>15. Counters'
  <2> SUFFICES ASSUME InSession'
               PROVE  /\ disturbed' = 0 => /\ chip'.ssc = sm'.ssc
                                           /\ \A c \in late' : c.tag.key # sm'.key
                      /\ disturbed' = 1 =>
                           /\ chip'.ssc + 1 = sm'.ssc \/ chip'.ssc = sm'.ssc + 1
                           /\ \A c \in late' : c.tag.key = sm'.key => c.tag.ssc = sm'.ssc
    BY DEF Counters
  <2>1. /\ sm.key # 0 /\ chip.key = sm.key /\ chip'.key = sm.key /\ sm'.key = sm.key
        /\ disturbed = 0 => chip.ssc = sm.ssc /\ \A c \in late : c.tag.key # sm.key
        /\ disturbed = 1 => chip.ssc # sm.ssc
    BY <1>1, <1>3, <1>7, <1>14 DEF InSession, Counters
  <2>2. chip' # chip => /\ chip.ssc = sm.ssc /\ chip'.ssc = sm.ssc + 2
    BY <1>1, <1>3, <1>5, <1>6, <2>1
  <2>3. CASE (Answered(d) \/ Refused) /\ Accepts(ctr)
    <3>1. sm' = Advance(ctr) /\ late' = late /\ disturbed' = disturbed
      BY <2>3 DEF Answered, Refused, ctr
    <3>2. chip.ssc = sm.ssc /\ chip'.ssc = sm.ssc + 2
      <4>1. \E x \in {d, "same"} : chip' = ChipAfter(ctr, x)
        BY <2>3 DEF Answered, Refused, ctr
      <4> QED
        BY <1>1, <1>3, <2>1, <2>3, <4>1, ChipTakes
    <3> QED
      BY <1>1, <2>1, <3>1, <3>2
  <2>4. CASE Refused /\ ~Accepts(ctr)
    <3>1. chip' = ChipAfter(ctr, "same")
      BY <2>4 DEF Refused, ctr
    <3>2. chip'.key = 0
      BY <1>1, <2>4, <3>1, ChipTakes
    <3> QED
      BY <2>1, <3>2
  <2>5. CASE Unanswered(d)
    <3>1. sm' = ctr /\ disturbed' = disturbed + 1
      BY <2>5 DEF Unanswered, ctr
    <3>2. disturbed' # 0 /\ (disturbed' = 1 => disturbed = 0)
      BY <1>2, <3>1
    <3>3. disturbed = 0 => chip'.ssc + 1 = sm'.ssc \/ chip'.ssc = sm'.ssc + 1
      BY <1>1, <1>3, <2>1, <2>2, <3>1
    <3>4. disturbed = 0 => \A c \in late' : c.tag.key = sm'.key => c.tag.ssc = sm'.ssc
      BY <1>8, <2>1, <3>1
    <3> QED
      BY <3>2, <3>3, <3>4
  <2>6. Answered(d) => Accepts(ctr)
    BY DEF Answered, ctr
  <2> QED
    BY <2>3, <2>4, <2>5, <2>6
<1>16. disturbed' = 0 => disturbed = 0
  BY <1>2, <1>9
<1> QED
  BY <1>2, <1>10, <1>11, <1>12, <1>13, <1>14, <1>15, <1>16

LEMMA HandleInductive == HandleInv /\ [Next]_vars => HandleInv'
<1> SUFFICES ASSUME HandleInv, [Next]_vars PROVE HandleInv'
  OBVIOUS
<1>t. TypeOK /\ Methods /\ CacheIsSure /\ Bounded /\ Counters /\ CacheInSession
  BY DEF HandleInv
<1>k. /\ df \in SelectedDf /\ sm \in Session /\ chip \in ChipState /\ late \subseteq LateCommand
      /\ op \in Method \cup {Idle} /\ got \in Df \cup {"done", "error"} /\ elided \in BOOLEAN
      /\ sent \in 0 .. MaxExchanges /\ sessions \in 0 .. MaxSessions
      /\ doubt \in BOOLEAN /\ disturbed \in 0 .. MaxExchanges
      /\ MaxExchanges \in Nat /\ MaxSessions \in Nat
  BY <1>t, DfConstants DEF TypeOK
<1>f. /\ chip.df \in Df /\ chip.key \in Nat /\ chip.ssc \in Nat /\ sm.key \in Nat /\ sm.ssc \in Nat
      /\ chip \in [df : Df, key : Nat, ssc : Nat]
      /\ \A c \in late : /\ c.df \in Df \cup {"same"} /\ c.tag.key \in Nat /\ c.tag.ssc \in Nat
                         /\ c.tag \in [key : Nat, ssc : Nat]
  <2>1. 0 .. MaxSessions \subseteq Nat /\ Counter \subseteq Nat
    BY <1>k DEF Counter
  <2>2. chip \in [df : Df, key : Nat, ssc : Nat] /\ sm \in [key : Nat, ssc : Nat]
    BY <1>k, <2>1 DEF ChipState, Session
  <2>3. \A c \in late : c.df \in Df \cup {"same"} /\ c.tag \in [key : Nat, ssc : Nat]
    BY <1>k, <2>1 DEF LateCommand, Session
  <2> QED
    BY <2>2, <2>3
<1>i. /\ Idle.step = "none" /\ Idle.kind = "idle"
      /\ op # Idle => /\ op \in Method /\ op.want \in Df /\ op.kind \in {"read", "bac", "custom"}
                      /\ op.step \in {"select", "use"}
  BY <1>k DEF Idle, Method
\* A method begins, or the caller of api_mut invalidates the cache.
<1>1. ASSUME NEW kind \in {"read", "bac"}, NEW want \in Df, Begin(kind, want),
             kind = "bac" => want = "Df1"
      PROVE  HandleInv'
  <2>1. /\ elided' = (df = want)
        /\ op' = [kind |-> kind, want |-> want, step |-> IF df = want THEN "use" ELSE "select"]
        /\ UNCHANGED <<df, sm, got, chip, late, history>>
    BY <1>1 DEF Begin
  <2>2. /\ op' \in Method /\ op'.kind = kind /\ op'.want = want
        /\ op'.step = IF df = want THEN "use" ELSE "select"
    BY <1>1, <2>1 DEF Method
  <2>3. elided' \in BOOLEAN
    BY <2>1
  <2>4. TypeOK'
    BY <1>t, <1>1, <2>1, <2>2, <2>3 DEF TypeOK, history
  <2>5. Methods'
    BY <1>1, <2>1, <2>2 DEF Methods
  <2>6. (CacheIsSure /\ Bounded /\ Counters /\ CacheInSession)'
    BY <1>t, <2>1 DEF CacheIsSure, SelectHeld, Bounded, Counters, CacheInSession, InSession, history
  <2> QED
    BY <2>4, <2>5, <2>6 DEF HandleInv
<1>2. ASSUME NEW want \in Df, CustomSelect(want) PROVE HandleInv'
  <2>1. /\ df' = "None" /\ doubt' = SelectHeld /\ elided' = FALSE
        /\ op' = [kind |-> "custom", want |-> want, step |-> "select"]
        /\ UNCHANGED <<sm, got, chip, late, sent, sessions, disturbed>>
    BY <1>2 DEF CustomSelect
  <2>2. op' \in Method /\ op'.kind = "custom" /\ op'.step = "select"
    BY <2>1 DEF Method
  <2>3. doubt' \in BOOLEAN
    BY <2>1 DEF SelectHeld
  <2>4. TypeOK'
    BY <1>t, <2>1, <2>2, <2>3 DEF TypeOK, SelectedDf
  <2>5. Methods'
    BY <2>1, <2>2 DEF Methods
  <2>6. (CacheIsSure /\ Bounded /\ Counters /\ CacheInSession)'
    BY <1>t, <2>1 DEF CacheIsSure, Bounded, Counters, CacheInSession, InSession
  <2> QED
    BY <2>4, <2>5, <2>6 DEF HandleInv
<1>3. ASSUME ClearSm PROVE HandleInv'
  <2>1. /\ df' = "None" /\ doubt' = SelectHeld /\ sm' = NoSession /\ op = Idle
        /\ UNCHANGED <<op, got, elided, chip, late, sent, sessions, disturbed>>
    BY <1>3 DEF ClearSm
  <2>2. NoSession \in Session /\ NoSession.key = 0 /\ NoSession.ssc = 0
    BY <1>k DEF NoSession, Session, Counter
  <2>3. doubt' \in BOOLEAN
    BY <2>1 DEF SelectHeld
  <2>4. TypeOK'
    BY <1>t, <1>i, <2>1, <2>2, <2>3 DEF TypeOK, SelectedDf
  <2>5. Methods'
    BY <1>k, <1>i, <2>1 DEF Methods
  <2>6. (CacheIsSure /\ Counters /\ CacheInSession)'
    BY <2>1, <2>2 DEF CacheIsSure, Counters, CacheInSession, InSession
  <2>7. Bounded'
    BY <1>t, <1>k, <2>1, <2>2 DEF Bounded
  <2> QED
    BY <2>4, <2>5, <2>6, <2>7 DEF HandleInv
\* An exchange: what is left to show is what the cache and the method become.
<1>4. ASSUME NEW d \in Df \cup {"same"}, Answered(d) \/ Refused \/ Unanswered(d), Exchanging,
             sessions' = sessions, elided' = elided, got' \in Df \cup {"done", "error"},
             df' \in SelectedDf, doubt' \in BOOLEAN, Methods', CacheIsSure',
             df' # "None" => chip'.df = df' \/ (df' = df /\ chip'.df = chip.df) \/ disturbed' # 0
      PROVE  HandleInv'
  <2>1. /\ sm' \in Session /\ chip' \in ChipState /\ late' \subseteq LateCommand
        /\ disturbed' \in 0 .. MaxExchanges /\ sent' \in 0 .. MaxExchanges
        /\ Bounded' /\ Counters'
        /\ InSession' /\ disturbed' = 0 => InSession /\ disturbed = 0
    BY <1>t, <1>4, Exchanged DEF Exchanging
  <2>2. TypeOK'
    BY <1>k, <1>4, <2>1 DEF TypeOK, Methods
  <2>3. CacheInSession'
    <3>1. InSession /\ disturbed = 0 /\ df # "None" => chip.df = df
      BY <1>t DEF CacheInSession
    <3>2. InSession' /\ disturbed' = 0 /\ df' # "None" => chip'.df = df'
      BY <1>4, <2>1, <3>1
    <3> QED
      BY <3>2 DEF CacheInSession
  <2> QED
    BY <1>4, <2>1, <2>2, <2>3 DEF HandleInv
\* What each way to end does to the chip's dedicated file and to the host.
<1>5. ASSUME NEW d \in Df \cup {"same"}, Answered(d)
      PROVE  chip'.df = (IF d = "same" THEN chip.df ELSE d) /\ late' = late
  <2>1. Accepts(Advance(sm)) /\ chip' = ChipAfter(Advance(sm), d) /\ late' = late
    BY <1>5 DEF Answered
  <2> QED
    BY <1>t, <2>1, Sent, ChipTakes
<1>6. ASSUME Refused PROVE chip'.df = chip.df /\ late' = late
  <2>1. chip' = ChipAfter(Advance(sm), "same") /\ late' = late
    BY <1>6 DEF Refused
  <2> QED
    BY <1>t, <2>1, Sent, ChipTakes
<1>7. ASSUME NEW d \in Df \cup {"same"}, Unanswered(d)
      PROVE  /\ disturbed' # 0
             /\ d = "same" => chip'.df = chip.df /\ (SelectHeld' => SelectHeld)
  <2>1. disturbed' # 0
    BY <1>k, <1>7 DEF Unanswered
  <2>2. ASSUME d = "same" PROVE chip'.df = chip.df
    <3>1. chip' = ChipAfter(Advance(sm), "same") \/ chip' = chip
      BY <1>7, <2>2 DEF Unanswered
    <3> QED
      BY <1>t, <3>1, Sent, ChipTakes
  <2>3. ASSUME d = "same", SelectHeld' PROVE SelectHeld
    <3>1. late' = late \/ late' = late \cup {[df |-> "same", tag |-> Advance(sm)]}
      BY <1>7, <2>3 DEF Unanswered
    <3>2. PICK c \in late' : c.df # "same"
      BY <2>3 DEF SelectHeld
    <3>3. c \in late
      BY <3>1, <3>2
    <3> QED
      BY <3>2, <3>3 DEF SelectHeld
  <2> QED
    BY <2>1, <2>2, <2>3
<1>8. ASSUME SelectDone PROVE HandleInv'
  <2>1. /\ Exchanging /\ op.step = "select" /\ Answered(op.want) /\ doubt' = SelectHeld
        /\ elided' = elided /\ sessions' = sessions /\ op \in Method /\ op.want \in Df
    BY <1>8, <1>i DEF SelectDone
  <2>2. chip'.df = op.want /\ late' = late
    <3>1. op.want \in Df \cup {"same"} /\ op.want # "same"
      BY <2>1 DEF Df
    <3> QED
      BY <1>5, <2>1, <3>1
  <2>3. doubt' \in BOOLEAN /\ (~doubt' => ~SelectHeld')
    BY <2>1, <2>2 DEF SelectHeld
  <2>4. CASE op.kind = "custom"
    <3>1. df' = "None" /\ op' = Idle /\ got' = "done"
      BY <1>8, <1>t, <2>4 DEF SelectDone, Methods
    <3>2. Methods'
      BY <1>i, <3>1 DEF Methods
    <3>3. CacheIsSure'
      BY <3>1 DEF CacheIsSure
    <3> QED
      BY <1>4, <2>1, <2>3, <3>1, <3>2, <3>3 DEF SelectedDf
  <2>5. CASE op.kind # "custom"
    <3>1. df' = op.want /\ op' = [op EXCEPT !.step = "use"] /\ got' = got
      BY <1>8, <2>5 DEF SelectDone
    <3>2. op' \in Method /\ op'.kind = op.kind /\ op'.want = op.want
      BY <2>1, <3>1 DEF Method
    <3>3. Methods'
      BY <1>t, <2>5, <3>1, <3>2 DEF Methods
    <3>4. CacheIsSure'
      BY <2>2, <2>3, <3>1 DEF CacheIsSure
    <3> QED
      BY <1>4, <1>k, <2>1, <2>2, <2>3, <3>1, <3>3, <3>4 DEF SelectedDf
  <2> QED
    BY <2>4, <2>5
<1>9. ASSUME SelectFails PROVE HandleInv'
  <2>1. /\ Exchanging /\ op.step = "select" /\ op.want \in Df
        /\ op' = Idle /\ got' = "error" /\ df' = df /\ elided' = elided /\ sessions' = sessions
    BY <1>9, <1>i DEF SelectFails
  <2>2. Methods'
    BY <1>i, <2>1 DEF Methods
  <2>3. CASE Refused /\ doubt' = doubt
    <3>1. CacheIsSure'
      BY <1>t, <1>6, <2>1, <2>3 DEF CacheIsSure, SelectHeld
    <3> QED
      BY <1>4, <1>k, <1>6, <2>1, <2>2, <2>3, <3>1
  <2>4. CASE Unanswered(op.want) /\ doubt' = TRUE
    <3>1. CacheIsSure'
      BY <2>4 DEF CacheIsSure
    <3> QED
      BY <1>4, <1>k, <1>7, <2>1, <2>2, <2>4, <3>1
  <2> QED
    BY <1>9, <2>3, <2>4 DEF SelectFails
<1>10. ASSUME ReadDone PROVE HandleInv'
  <2>1. /\ Exchanging /\ Answered("same") /\ op' = Idle /\ got' = chip.df
        /\ UNCHANGED <<df, elided, sessions, doubt>>
    BY <1>10 DEF ReadDone
  <2>2. chip'.df = chip.df /\ late' = late
    BY <1>5, <2>1
  <2>3. Methods'
    BY <1>i, <2>1 DEF Methods
  <2>4. CacheIsSure'
    BY <1>t, <2>1, <2>2 DEF CacheIsSure, SelectHeld
  <2> QED
    BY <1>4, <1>k, <1>f, <2>1, <2>2, <2>3, <2>4
<1>11. ASSUME ReadFails PROVE HandleInv'
  <2>1. /\ Exchanging /\ op' = Idle /\ got' = "error"
        /\ Refused \/ Unanswered("same")
        /\ UNCHANGED <<df, elided, sessions, doubt>>
    BY <1>11 DEF ReadFails
  <2>2. chip'.df = chip.df /\ (SelectHeld' => SelectHeld)
    BY <1>6, <1>7, <2>1 DEF SelectHeld
  <2>3. Methods'
    BY <1>i, <2>1 DEF Methods
  <2>4. CacheIsSure'
    BY <1>t, <2>1, <2>2 DEF CacheIsSure
  <2> QED
    BY <1>4, <1>k, <2>1, <2>2, <2>3, <2>4
\* Handshakes.
<1>12. /\ NewSession.key = sessions + 1 /\ NewSession.ssc = 0
       /\ \A d \in Df : /\ Joined(d).df = d /\ Joined(d).key = sessions + 1 /\ Joined(d).ssc = 0
                        /\ Joined(d) \in [df : Df, key : Nat, ssc : Nat]
       /\ NewSession \in [key : Nat, ssc : Nat]
  BY <1>k DEF NewSession, Joined
<1>13. ASSUME Trying, NEW d \in Df, sm' = NewSession, chip' = Joined(d), disturbed' = 0,
              late' = late, sent' = sent
       PROVE  /\ sm' \in Session /\ chip' \in ChipState /\ sessions' \in 0 .. MaxSessions
              /\ Bounded' /\ Counters' /\ InSession'
  <2>1. sessions' \in 0 .. MaxSessions /\ sessions' = sessions + 1 /\ sessions' \in Nat
    BY <1>13, <1>k DEF Trying
  <2>2. /\ sm'.key = sessions' /\ sm'.ssc = 0 /\ chip'.key = sessions' /\ chip'.ssc = 0
    BY <1>12, <1>13, <2>1
  <2>3. sm' \in Session /\ chip' \in ChipState
    <3>1. /\ sm'.key <= sessions' /\ sm'.ssc <= 2 * sent /\ chip'.key <= sessions'
          /\ chip'.ssc <= 2 * sent
      BY <1>k, <2>1, <2>2
    <3>2. sm' \in [key : Nat, ssc : Nat] /\ chip' \in [df : Df, key : Nat, ssc : Nat]
      BY <1>12, <1>13
    <3> QED
      BY <1>k, <2>1, <3>1, <3>2, WithinBounds
  <2>4. \A c \in late : c.tag.key <= sessions /\ c.tag.ssc + 1 <= 2 * sent
    BY <1>t DEF Bounded
  <2>5. Bounded'
    BY <1>13, <1>k, <1>f, <2>1, <2>2, <2>4 DEF Bounded
  <2>6. \A c \in late : c.tag.key # sessions'
    BY <1>k, <1>f, <2>1, <2>4
  <2>7. Counters'
    BY <1>13, <2>2, <2>6 DEF Counters
  <2>8. InSession'
    BY <1>k, <2>1, <2>2 DEF InSession
  <2> QED
    BY <2>1, <2>3, <2>5, <2>7, <2>8
<1>14. ASSUME Trying, sm' = sm, late' = late, disturbed' = disturbed, sent' = sent, df' = df,
              \/ chip' \in {chip, [chip EXCEPT !.key = 0, !.ssc = 0]}
              \/ \E d \in Df : chip' = Joined(d)
       PROVE  /\ chip' \in ChipState /\ sessions' \in 0 .. MaxSessions
              /\ Bounded' /\ Counters' /\ CacheInSession'
  <2>1. sessions' \in 0 .. MaxSessions /\ sessions' = sessions + 1 /\ sessions' \in Nat
    BY <1>14, <1>k DEF Trying
  <2>2. /\ chip' \in [df : Df, key : Nat, ssc : Nat]
        /\ \/ chip' = chip
           \/ chip'.key = 0 /\ chip'.ssc = 0
           \/ chip'.key = sessions' /\ chip'.ssc = 0
    BY <1>12, <1>14, <1>f, <2>1
  <2>3. /\ sm.key <= sessions /\ chip.key <= sessions
        /\ sm.ssc <= 2 * sent /\ chip.ssc <= 2 * sent
        /\ disturbed <= sent
        /\ \A c \in late : c.tag.key <= sessions /\ c.tag.ssc + 1 <= 2 * sent
    BY <1>t DEF Bounded
  <2>4. chip'.key <= sessions' /\ chip'.ssc <= 2 * sent
    BY <1>k, <1>f, <2>1, <2>2, <2>3
  <2>5. chip' \in ChipState
    BY <1>k, <2>1, <2>2, <2>4, WithinBounds
  <2>6. Bounded'
    BY <1>14, <1>k, <1>f, <2>1, <2>3, <2>4 DEF Bounded
  <2>7. InSession' => InSession /\ chip' = chip
    BY <1>14, <1>k, <1>f, <2>1, <2>2, <2>3 DEF InSession
  <2>8. Counters' /\ CacheInSession'
    BY <1>t, <1>14, <2>7 DEF Counters, CacheInSession
  <2> QED
    BY <2>1, <2>5, <2>6, <2>8
<1>15. [chip EXCEPT !.key = 0, !.ssc = 0].df = chip.df
  BY <1>f
<1>16. ASSUME BacDone PROVE HandleInv'
  <2>1. /\ op.kind = "bac" /\ op.step = "use" /\ chip.df = "Df1" /\ Trying
        /\ sm' = NewSession /\ chip' = Joined(chip.df) /\ op' = Idle /\ got' = "done"
        /\ disturbed' = 0 /\ UNCHANGED <<df, elided, late, sent, doubt>>
    BY <1>16 DEF BacDone
  <2>2. /\ sm' \in Session /\ chip' \in ChipState /\ sessions' \in 0 .. MaxSessions
        /\ Bounded' /\ Counters' /\ chip'.df = "Df1"
    BY <1>13, <1>12, <1>f, <2>1
  <2>3. df' = "Df1"
    BY <1>t, <2>1 DEF Methods
  <2>4. Methods'
    BY <1>i, <2>1 DEF Methods
  <2>5. TypeOK'
    BY <1>k, <1>i, <2>1, <2>2 DEF TypeOK
  <2>6. CacheInSession'
    BY <2>2, <2>3 DEF CacheInSession
  <2>7. CacheIsSure'
    BY <1>t, <2>1, <2>2, <2>3 DEF CacheIsSure, SelectHeld
  <2> QED
    BY <2>2, <2>4, <2>5, <2>6, <2>7 DEF HandleInv
<1>17. ASSUME BacFails PROVE HandleInv'
  <2>1. /\ Trying /\ op' = Idle /\ got' = "error"
        /\ UNCHANGED <<df, sm, elided, late, sent, doubt, disturbed>>
        /\ \/ chip' \in {chip, [chip EXCEPT !.key = 0, !.ssc = 0]}
           \/ chip' = Joined(chip.df)
    BY <1>17 DEF BacFails
  <2>2. chip'.df = chip.df
    BY <1>12, <1>15, <1>f, <2>1
  <2>3. /\ chip' \in ChipState /\ sessions' \in 0 .. MaxSessions
        /\ Bounded' /\ Counters' /\ CacheInSession'
    BY <1>14, <1>f, <2>1
  <2>4. Methods'
    BY <1>i, <2>1 DEF Methods
  <2>5. TypeOK'
    BY <1>k, <1>i, <2>1, <2>3 DEF TypeOK
  <2>6. CacheIsSure'
    BY <1>t, <2>1, <2>2 DEF CacheIsSure, SelectHeld
  <2> QED
    BY <2>3, <2>4, <2>5, <2>6 DEF HandleInv
<1>18. ASSUME PaceDone PROVE HandleInv'
  <2>1. /\ Trying /\ op = Idle /\ sm' = NewSession /\ \E d \in Df : chip' = Joined(d)
        /\ df' = "None" /\ got' = "done" /\ doubt' = SelectHeld /\ disturbed' = 0
        /\ UNCHANGED <<op, elided, late, sent>>
    BY <1>18 DEF PaceDone
  <2>2. /\ sm' \in Session /\ chip' \in ChipState /\ sessions' \in 0 .. MaxSessions
        /\ Bounded' /\ Counters'
    BY <1>13, <2>1
  <2>3. doubt' \in BOOLEAN
    BY <2>1 DEF SelectHeld
  <2>4. (Methods /\ CacheIsSure /\ CacheInSession)'
    BY <1>i, <2>1 DEF Methods, CacheIsSure, CacheInSession
  <2>5. TypeOK'
    BY <1>k, <1>i, <2>1, <2>2, <2>3 DEF TypeOK, SelectedDf
  <2> QED
    BY <2>2, <2>4, <2>5 DEF HandleInv
<1>19. ASSUME PaceFails PROVE HandleInv'
  <2>1. /\ Trying /\ op = Idle /\ got' = "error"
        /\ UNCHANGED <<df, sm, op, elided, late, sent, disturbed>>
        /\ \/ /\ chip' \in {chip, [chip EXCEPT !.key = 0, !.ssc = 0]}
              /\ doubt' = doubt
           \/ /\ \E d \in Df : chip' = Joined(d)
              /\ doubt' = TRUE
    BY <1>19 DEF PaceFails
  <2>2. ~doubt' => chip'.df = chip.df /\ ~doubt
    BY <1>15, <2>1
  <2>3. /\ chip' \in ChipState /\ sessions' \in 0 .. MaxSessions
        /\ Bounded' /\ Counters' /\ CacheInSession'
    BY <1>14, <2>1
  <2>4. doubt' \in BOOLEAN
    BY <1>k, <2>1
  <2>5. Methods'
    BY <1>i, <1>k, <2>1 DEF Methods
  <2>6. TypeOK'
    BY <1>k, <1>i, <2>1, <2>3, <2>4 DEF TypeOK
  <2>7. CacheIsSure'
    BY <1>t, <2>1, <2>2 DEF CacheIsSure, SelectHeld
  <2> QED
    BY <2>3, <2>5, <2>6, <2>7 DEF HandleInv
\* A command the reader gave up reaches the chip after all.
<1>20. ASSUME DeliverLate PROVE HandleInv'
  <2>1. PICK c \in late : chip' = ChipAfter(c.tag, c.df) /\ late' = late \ {c}
    BY <1>20 DEF DeliverLate
  <2>2. /\ df' = df /\ sm' = sm /\ op' = op /\ got' = got /\ elided' = elided /\ sent' = sent
        /\ sessions' = sessions /\ doubt' = doubt /\ disturbed' = disturbed
    BY <1>20 DEF DeliverLate, reader, history
  <2>3. /\ c.tag \in [key : Nat, ssc : Nat] /\ c.df \in Df \cup {"same"}
        /\ c.tag.key \in Nat /\ c.tag.ssc \in Nat
    BY <1>f
  <2>4. /\ chip'.df # chip.df => c.df # "same"
        /\ chip' \in [df : Df, key : Nat, ssc : Nat]
        /\ \/ chip'.key = 0 /\ chip'.ssc = 0
           \/ chip'.key = 0 /\ chip'.ssc = c.tag.ssc
           \/ /\ chip'.key = c.tag.key /\ chip.key = c.tag.key /\ c.tag.ssc = chip.ssc + 1
              /\ chip'.ssc = c.tag.ssc + 1
    BY <1>t, <2>1, <2>3, ChipTakes
  <2>5. /\ sm.key <= sessions /\ c.tag.key <= sessions /\ c.tag.ssc + 1 <= 2 * sent
    BY <1>t DEF Bounded
  <2>6. chip'.key <= sessions /\ chip'.ssc <= 2 * sent
    BY <1>k, <2>3, <2>4, <2>5
  <2>7. chip' \in ChipState
    BY <1>k, <2>4, <2>6, WithinBounds
  <2>8. late' \subseteq late
    BY <2>1
  <2>9. TypeOK'
    BY <1>t, <2>2, <2>7, <2>8 DEF TypeOK
  <2>10. (Methods /\ Bounded)'
    BY <1>t, <2>2, <2>6, <2>8 DEF Methods, Bounded
  <2>11. CacheIsSure'
    BY <1>t, <2>2, <2>4, <2>8 DEF CacheIsSure, SelectHeld
  <2>12. InSession' => InSession /\ c.tag.key = sm.key /\ chip'.ssc = c.tag.ssc + 1
    BY <2>2, <2>4 DEF InSession
  <2>13. InSession /\ c.tag.key = sm.key
           => disturbed # 0 /\ (disturbed = 1 => c.tag.ssc = sm.ssc)
    BY <1>t DEF Counters
  <2>14. Counters'
    BY <1>t, <2>2, <2>8, <2>12, <2>13 DEF Counters
  <2>15. CacheInSession'
    BY <2>2, <2>12, <2>13 DEF CacheInSession
  <2> QED
    BY <2>9, <2>10, <2>11, <2>14, <2>15 DEF HandleInv
<1>21. ASSUME UNCHANGED vars PROVE HandleInv'
  <2>1. /\ df' = df /\ sm' = sm /\ op' = op /\ got' = got /\ elided' = elided /\ sent' = sent
        /\ sessions' = sessions /\ doubt' = doubt /\ disturbed' = disturbed
        /\ chip' = chip /\ late' = late
    BY <1>21 DEF vars, reader, history
  <2>2. TypeOK' /\ Methods' /\ Bounded'
    BY <1>t, <2>1 DEF TypeOK, Methods, Bounded
  <2>3. CacheIsSure' /\ Counters' /\ CacheInSession'
    BY <1>t, <2>1 DEF CacheIsSure, SelectHeld, Counters, CacheInSession, InSession
  <2> QED
    BY <2>2, <2>3 DEF HandleInv
<1>22. ASSUME NEW want \in Df, Begin("read", want) \/ CustomSelect(want) PROVE HandleInv'
  BY <1>1, <1>2, <1>22
<1>23. ASSUME Begin("bac", "Df1") PROVE HandleInv'
  BY <1>1, <1>23 DEF Df
<1> QED
  BY <1>3, <1>8, <1>9, <1>10, <1>11, <1>16, <1>17, <1>18, <1>19, <1>20, <1>21, <1>22, <1>23
     DEF Next

LEMMA HandleInvariance == Spec => []HandleInv
<1>1. Init => HandleInv
  <2> SUFFICES ASSUME Init PROVE HandleInv
    OBVIOUS
  <2>1. /\ df = "None" /\ sm = NoSession /\ op = Idle /\ got = "done" /\ elided = FALSE
        /\ chip = [df |-> "Mf", key |-> 0, ssc |-> 0] /\ late = {} /\ sent = 0 /\ sessions = 0
        /\ doubt = FALSE /\ disturbed = 0
    BY DEF Init
  <2>2. /\ NoSession \in Session /\ NoSession.key = 0 /\ NoSession.ssc = 0
        /\ [df |-> "Mf", key |-> 0, ssc |-> 0] \in ChipState
    BY DfConstants DEF NoSession, Session, Counter, ChipState, Df
  <2>3. Idle.step = "none" /\ Idle.kind = "idle"
    BY DEF Idle
  <2>4. TypeOK
    <3>1. elided \in BOOLEAN /\ doubt \in BOOLEAN
      BY <2>1
    <3>2. /\ df \in SelectedDf /\ got \in Df \cup {"done", "error"} /\ op \in Method \cup {Idle}
          /\ sm \in Session /\ chip \in ChipState /\ late \subseteq LateCommand
      BY <2>1, <2>2 DEF SelectedDf
    <3>3. sent \in 0 .. MaxExchanges /\ sessions \in 0 .. MaxSessions /\ disturbed \in 0 .. MaxExchanges
      BY <2>1, DfConstants
    <3>4. op.step # "use"
      BY <2>1, <2>3
    <3> QED
      BY <3>1, <3>2, <3>3, <3>4 DEF TypeOK
  <2>5. Methods /\ CacheIsSure /\ CacheInSession /\ Counters
    BY <2>1, <2>2, <2>3 DEF Methods, CacheIsSure, CacheInSession, Counters, InSession
  <2>6. Bounded
    BY <2>1, <2>2 DEF Bounded
  <2> QED
    BY <2>4, <2>5, <2>6 DEF HandleInv
<1>2. HandleInv /\ [Next]_vars => HandleInv'
  BY HandleInductive
<1> QED
  BY <1>1, <1>2, PTL DEF Spec

\* The handle keeps to its types, and a method that uses a file runs with the
\* cache naming that file.
THEOREM TypeCorrect == Spec => []TypeOK
<1>1. HandleInv => TypeOK
  BY DEF HandleInv
<1> QED
  BY <1>1, HandleInvariance, PTL

\* A cache that no unanswered SELECT or handshake has put in doubt names the
\* dedicated file the chip is in, for any number of commands and sessions.
THEOREM CacheIsRight == Spec => []CacheTracksChip
<1>1. HandleInv => CacheTracksChip
  BY DEF HandleInv, CacheIsSure, CacheTracksChip
<1> QED
  BY <1>1, HandleInvariance, PTL

\* Inside a session one lost answer cannot make a read succeed in the wrong
\* dedicated file, whatever the cache says.
THEOREM OneLossIsHarmless == Spec => OneLossHarmless
<1>1. HandleInv /\ [Next]_vars
        => [ReadEnds /\ sm.key # 0 /\ disturbed <= 1 => got' = op.want]_vars
  <2> SUFFICES ASSUME HandleInv, Next, ReadEnds, sm.key # 0, disturbed <= 1
               PROVE  got' = op.want
    OBVIOUS
  <2>1. TypeOK /\ Methods /\ Counters /\ CacheInSession
    BY DEF HandleInv
  <2>2. op.kind = "read" /\ op'.kind = "idle" /\ got' # "error"
    BY DEF ReadEnds
  <2>3. op # Idle /\ op.step \in {"select", "use"}
    BY <2>1, <2>2 DEF Idle, Method, Methods
  <2>4. op' # op
    BY <2>2
  <2>5. ReadDone
    <3>1. ASSUME op' = [op EXCEPT !.step = "use"] PROVE FALSE
      BY <2>1, <2>2, <2>3, <3>1 DEF Methods, Method
    <3> QED
      BY <2>2, <2>3, <2>4, <3>1
         DEF Next, Begin, CustomSelect, ClearSm, SelectDone, SelectFails, ReadFails,
             BacDone, BacFails, PaceDone, PaceFails, DeliverLate, reader
  <2>6. got' = chip.df /\ Accepts(Advance(sm)) /\ df = op.want /\ df # "None"
    BY <2>1, <2>2, <2>3, <2>5 DEF ReadDone, Answered, Methods, Method, Df
  <2>7. /\ chip.key = sm.key /\ sm.ssc + 1 = chip.ssc + 1 /\ sm.ssc \in Nat /\ chip.ssc \in Nat
    <3>1. Accepts(Advance(sm)) => chip.key = sm.key /\ sm.ssc + 1 = chip.ssc + 1
      BY <2>1, Sent, ChipTakes DEF Df
    <3>2. chip.ssc \in Nat /\ sm.ssc \in Nat
      BY <2>1, DfConstants DEF TypeOK, ChipState, Session, Counter
    <3> QED
      BY <2>6, <3>1, <3>2
  <2>8. disturbed = 0
    <3>1. disturbed \in 0 .. 1
      BY <2>1, DfConstants DEF TypeOK
    <3> QED
      BY <2>1, <2>7, <3>1 DEF Counters, InSession
  <2> QED
    BY <2>1, <2>6, <2>7, <2>8 DEF CacheInSession, InSession
<1> QED
  BY <1>1, HandleInvariance, PTL DEF Spec, OneLossHarmless

-----------------------------------------------------------------------------
(* The inductive invariant.                                                *)

\* What is open in which phase: the session from poll on, the listener and the
\* worker only while the read is under way.
Phases ==
  /\ nfc = IF phase = "idle" THEN 0 ELSE read
  /\ listening = IF phase = "reading" THEN {read} ELSE {}
  /\ worker.step = "none" <=> phase # "reading"
  /\ phase # "idle" => read <= Reads

\* Exchanges are numbered as they are posted, and belong to a read that has
\* begun; the worker waits for one of its own read.
Numbered ==
  /\ \A e \in 1 .. Exchanges :
       IF e <= posted THEN exchange[e].read \in 1 .. read ELSE exchange[e] = Unused
  /\ worker.step = "waiting" => worker.id \in 1 .. posted /\ exchange[worker.id].read = read

\* An event or an exchange at the plugin is about an exchange that was posted;
\* what the plugin holds, or has answered, was sent.
Queues ==
  /\ \A i \in DOMAIN events :
       /\ events[i].kind # "end" => events[i].id \in 1 .. posted
       /\ events[i].kind = "answer" => exchange[events[i].id].sent # 0
  /\ \A i \in DOMAIN tag : tag[i] \in 1 .. posted /\ exchange[tag[i]].sent # 0

\* The end of the worker comes after all it has posted.
EndIsLast ==
  /\ \A i \in DOMAIN events : events[i].kind = "end" => worker.step = "returned"
  /\ \A i, j \in DOMAIN events :
       /\ events[i].kind = "end" /\ events[j].kind = "callback" => j < i
       /\ events[i].kind = "end" /\ events[j].kind = "end" => i = j

\* A buffer that was not freed has its callback in the queue of an open
\* listener.
LiveIsQueued ==
  \A e \in 1 .. Exchanges : exchange[e].buffer = "live" =>
    /\ exchange[e].read \in listening
    /\ \E i \in DOMAIN events : events[i] = Event("callback", e)

\* As long as no time has passed but what the limits allow, the exchange the
\* worker waits for is in one place, and nothing else is on its way.
OnePlace ==
  ~stalled =>
    \/ /\ worker.step = "waiting"
       /\ \/ /\ \E kind \in {"callback", "message"} : events = <<Event(kind, worker.id)>>
             /\ tag = <<>> /\ worker.age = 0
          \/ events = <<>> /\ tag = <<worker.id>> /\ worker.age = tagAge
          \/ /\ \E kind \in {"answer", "refusal"} : events = <<Event(kind, worker.id)>>
             /\ tag = <<>> /\ worker.age <= ApduTimeout
    \/ worker.step = "returned" /\ events = <<Event("end", 0)>> /\ tag = <<>>
    \/ worker.step \in {"none", "running"} /\ events = <<>> /\ tag = <<>>

\* The plugin's clock runs while it holds an exchange.
AgeAtTag == tag = <<>> => tagAge = 0

HostInv ==
  /\ HostTypeOK /\ Phases /\ Numbered /\ Queues /\ EndIsLast /\ LiveIsQueued
  /\ OnePlace /\ AgeAtTag
  /\ ReadKeepsToItsTag /\ LossSurfacesInTime

-----------------------------------------------------------------------------
(* Queues.                                                                 *)

\* A queue that gets one more element at its end ...
LEMMA Appended ==
  ASSUME NEW S, NEW s \in Seq(S), NEW x \in S, NEW t, t = Append(s, x)
  PROVE  /\ t \in Seq(S) /\ t # <<>>
         /\ Len(s) + 1 \in DOMAIN t /\ t[Len(s) + 1] = x
         /\ \A i \in DOMAIN s : i \in DOMAIN t /\ t[i] = s[i] /\ i < Len(s) + 1
         /\ \A i \in DOMAIN t : (i \in DOMAIN s /\ t[i] = s[i]) \/ i = Len(s) + 1
<1>1. t \in Seq(S) /\ Len(t) = Len(s) + 1 /\ t[Len(s) + 1] = x
  OBVIOUS
<1>2. \A i \in 1 .. Len(s) : t[i] = s[i]
  OBVIOUS
<1>3. DOMAIN s = 1 .. Len(s) /\ DOMAIN t = 1 .. Len(s) + 1 /\ Len(s) \in Nat
  BY <1>1
<1> QED
  BY <1>1, <1>2, <1>3

\* ... and one that loses its head.
LEMMA Shortened ==
  ASSUME NEW S, NEW s \in Seq(S), s # <<>>, NEW t, t = Tail(s)
  PROVE  /\ t \in Seq(S)
         /\ 1 \in DOMAIN s /\ s[1] = Head(s) /\ Head(s) \in S
         /\ \A i \in DOMAIN t : i + 1 \in DOMAIN s /\ t[i] = s[i + 1] /\ i \in Nat
         /\ \A i \in DOMAIN s : i = 1 \/ (i - 1 \in DOMAIN t /\ t[i - 1] = s[i])
  OBVIOUS

\* Both at once: the head is handled and makes a last element.
LEMMA Rotated ==
  ASSUME NEW S, NEW s \in Seq(S), s # <<>>, NEW x \in S, NEW t, t = Append(Tail(s), x)
  PROVE  /\ t \in Seq(S)
         /\ \A i \in DOMAIN t : (i + 1 \in DOMAIN s /\ t[i] = s[i + 1] /\ i \in Nat) \/ t[i] = x
         /\ \A i \in DOMAIN s : i = 1 \/ (i - 1 \in DOMAIN t /\ t[i - 1] = s[i])
<1>1. Tail(s) \in Seq(S)
  OBVIOUS
<1> HIDE DEF Append
<1> QED
  BY <1>1, Appended, Shortened

\* A queue of one.
LEMMA Single ==
  ASSUME NEW x
  PROVE  /\ Head(<<x>>) = x /\ Tail(<<x>>) = <<>> /\ Append(<<>>, x) = <<x>>
         /\ <<x>> # <<>> /\ DOMAIN <<x>> = {1} /\ <<x>>[1] = x
  OBVIOUS

\* The kinds of events tell them apart.
LEMMA EventFields ==
  ASSUME NEW kind, NEW id
  PROVE  Event(kind, id).kind = kind /\ Event(kind, id).id = id
  BY DEF Event

-----------------------------------------------------------------------------
(* The invariant holds.                                                    *)

LEMMA Initially == HostInit => HostInv
<1> SUFFICES ASSUME HostInit PROVE HostInv
  OBVIOUS
<1> USE HostReaderConstants DEF HostInit
<1>1. HostTypeOK
  <2>1. NoWorker \in WorkerRecord /\ Unused \in ExchangeRecord
    BY DEF NoWorker, WorkerRecord, ExchangeTimeout, Unused, ExchangeRecord
  <2>2. exchange \in [1 .. Exchanges -> ExchangeRecord] /\ worker \in WorkerRecord
    BY <2>1
  <2>3. events \in Seq(EventRecord) /\ tag \in Seq(1 .. Exchanges)
    OBVIOUS
  <2>4. /\ phase \in {"idle", "polled", "reading", "closing"}
        /\ read \in 1 .. Reads + 1 /\ nfc \in 0 .. Reads /\ listening \subseteq 1 .. Reads
        /\ posted \in 0 .. Exchanges /\ tagAge \in 0 .. ApduTimeout
    BY DEF ApduTimeout
  <2>5. stalled \in BOOLEAN
    OBVIOUS
  <2> HIDE DEF HostInit
  <2> QED
    BY <2>2, <2>3, <2>4, <2>5 DEF HostTypeOK
<1>2. Phases /\ Numbered /\ Queues /\ EndIsLast /\ AgeAtTag
  BY DEF Phases, Numbered, Queues, EndIsLast, AgeAtTag, NoWorker
<1>3. \A e \in 1 .. Exchanges :
        exchange[e].buffer # "live" /\ exchange[e].sent = 0 /\ exchange[e].outcome = "none"
  BY DEF Unused
<1>4. LiveIsQueued /\ ReadKeepsToItsTag /\ LossSurfacesInTime
  BY <1>3 DEF LiveIsQueued, LossSurfacesInTime, ReadKeepsToItsTag, NoWorker
<1>5. OnePlace
  BY DEF OnePlace, NoWorker
<1> QED
  BY <1>1, <1>2, <1>4, <1>5 DEF HostInv

\* wait() returns: one exchange gets its outcome, and the worker runs on.
LEMMA Settled ==
  ASSUME HostTypeOK, NEW e \in 1 .. Exchanges,
         NEW outcome \in {"answered", "failed", "timedOut"}, Settle(e, outcome)
  PROVE  /\ worker' \in WorkerRecord /\ worker'.step = "running"
         /\ exchange' \in [1 .. Exchanges -> ExchangeRecord]
         /\ exchange'[e].outcome = outcome
         /\ \A d \in 1 .. Exchanges :
              /\ exchange'[d].read = exchange[d].read
              /\ exchange'[d].buffer = exchange[d].buffer
              /\ exchange'[d].sent = exchange[d].sent
              /\ d # e => exchange'[d] = exchange[d]
<1>1. worker \in WorkerRecord /\ exchange \in [1 .. Exchanges -> ExchangeRecord]
  BY DEF HostTypeOK
<1>2. worker' \in WorkerRecord /\ worker'.step = "running"
  <2>1. worker' = [worker EXCEPT !.step = "running", !.failed = (outcome # "answered")]
    BY DEF Settle
  <2>2. (outcome # "answered") \in BOOLEAN
    OBVIOUS
  <2> QED
    BY <1>1, <2>1, <2>2 DEF WorkerRecord
<1>3. exchange[e] \in ExchangeRecord
  BY <1>1
<1>4. [exchange[e] EXCEPT !.outcome = outcome] \in ExchangeRecord
  BY <1>3 DEF ExchangeRecord
<1>5. exchange' = [exchange EXCEPT ![e] = [exchange[e] EXCEPT !.outcome = outcome]]
  BY <1>1 DEF Settle
<1>6. exchange' \in [1 .. Exchanges -> ExchangeRecord]
  BY <1>1, <1>4, <1>5
<1>7. exchange'[e] = [exchange[e] EXCEPT !.outcome = outcome]
  BY <1>1, <1>5
<1>8. /\ exchange'[e].outcome = outcome /\ exchange'[e].read = exchange[e].read
      /\ exchange'[e].buffer = exchange[e].buffer /\ exchange'[e].sent = exchange[e].sent
  BY <1>3, <1>7 DEF ExchangeRecord
<1>9. \A d \in 1 .. Exchanges : d # e => exchange'[d] = exchange[d]
  BY <1>1, <1>5
<1> QED
  BY <1>2, <1>6, <1>8, <1>9

\* An event that changes nothing but the queue, and is no callback that would
\* have freed a buffer.
LEMMA Dropped ==
  ASSUME HostInv, OnePlace', events # <<>>, events' = Tail(events),
         phase' = phase, read' = read, nfc' = nfc, listening' = listening,
         worker' = worker, posted' = posted, exchange' = exchange,
         tag' = tag, tagAge' = tagAge, stalled' = stalled,
         \A e \in 1 .. Exchanges :
           exchange[e].buffer = "live" => Head(events) # Event("callback", e)
  PROVE  HostInv'
<1>1. /\ HostTypeOK /\ Phases /\ Numbered /\ Queues /\ EndIsLast /\ LiveIsQueued
      /\ AgeAtTag /\ ReadKeepsToItsTag /\ LossSurfacesInTime
  BY DEF HostInv
<1>2. events \in Seq(EventRecord)
  BY <1>1 DEF HostTypeOK
<1>3. /\ events' \in Seq(EventRecord) /\ events[1] = Head(events)
      /\ \A i \in DOMAIN events' : i + 1 \in DOMAIN events /\ events'[i] = events[i + 1] /\ i \in Nat
      /\ \A i \in DOMAIN events :
           i = 1 \/ (i - 1 \in DOMAIN events' /\ events'[i - 1] = events[i])
  BY <1>2, Shortened
<1>4. HostTypeOK'
  BY <1>1, <1>3 DEF HostTypeOK
<1>5. (Phases /\ Numbered /\ AgeAtTag /\ ReadKeepsToItsTag /\ LossSurfacesInTime)'
  BY <1>1 DEF Phases, Numbered, AgeAtTag, ReadKeepsToItsTag, LossSurfacesInTime
<1>6. Queues' /\ EndIsLast'
  BY <1>1, <1>3 DEF Queues, EndIsLast
<1>7. LiveIsQueued'
  <2> SUFFICES ASSUME NEW e \in 1 .. Exchanges, exchange[e].buffer = "live"
               PROVE  \E i \in DOMAIN events' : events'[i] = Event("callback", e)
    BY <1>1 DEF LiveIsQueued
  <2>1. PICK i \in DOMAIN events : events[i] = Event("callback", e)
    BY <1>1 DEF LiveIsQueued
  <2>2. i - 1 \in DOMAIN events' /\ events'[i - 1] = events[i]
    BY <1>3, <2>1
  <2> QED
    BY <2>1, <2>2
<1> QED
  BY <1>4, <1>5, <1>6, <1>7 DEF HostInv

LEMMA Inductive == HostInv /\ [HostNext]_hostVars => HostInv'
<1> SUFFICES ASSUME HostInv, [HostNext]_hostVars PROVE HostInv'
  OBVIOUS
<1>t. /\ HostTypeOK /\ Phases /\ Numbered /\ Queues /\ EndIsLast /\ LiveIsQueued
      /\ OnePlace /\ AgeAtTag /\ ReadKeepsToItsTag /\ LossSurfacesInTime
  BY DEF HostInv
<1>s. /\ events \in Seq(EventRecord) /\ tag \in Seq(1 .. Exchanges)
      /\ posted \in 0 .. Exchanges /\ read \in 1 .. Reads + 1
      /\ Exchanges \in Nat /\ Reads \in Nat
      /\ worker \in WorkerRecord /\ exchange \in [1 .. Exchanges -> ExchangeRecord]
  BY <1>t, HostReaderConstants DEF HostTypeOK
<1>1. ASSUME Post PROVE HostInv'
  <2> DEFINE x == Event("callback", posted + 1)
  <2>1. posted + 1 \in 1 .. Exchanges /\ x \in EventRecord
    BY <1>1, <1>s DEF Post, Event, EventRecord
  <2>2. /\ exchange' \in [1 .. Exchanges -> ExchangeRecord]
        /\ exchange'[posted + 1].read = read /\ exchange'[posted + 1].buffer = "live"
        /\ exchange'[posted + 1].sent = 0 /\ exchange'[posted + 1].outcome = "none"
        /\ \A e \in 1 .. Exchanges : e # posted + 1 => exchange'[e] = exchange[e]
    <3> DEFINE r == [read |-> read, buffer |-> "live", sent |-> 0, outcome |-> "none"]
    <3>5. exchange' = [exchange EXCEPT ![posted + 1] = r]
      BY <1>1 DEF Post
    <3>3. read \in 0 .. Reads
      BY <1>1, <1>t, <1>s DEF Post, Phases
    <3>4. r \in ExchangeRecord
      BY <1>s, <3>3 DEF ExchangeRecord
    <3> QED
      BY <1>s, <2>1, <3>5, <3>4
  <2>3. phase = "reading" /\ nfc = read /\ listening = {read}
    BY <1>1, <1>t, <1>s DEF Post, Phases
  <2>4. worker' \in WorkerRecord
    <3>1. (worker.fallback \/ worker.failed) \in BOOLEAN
      OBVIOUS
    <3> QED
      BY <1>1, <1>s, <2>1, <3>1 DEF Post, WorkerRecord, ExchangeTimeout
  <2>5. events' = Append(events, x)
    BY <1>1 DEF Post
  <2>6. HostTypeOK'
    BY <1>1, <1>t, <1>s, <2>1, <2>2, <2>4, <2>5, Appended DEF Post, HostTypeOK, main
  <2>7. (Phases /\ AgeAtTag)'
    BY <1>1, <1>t, <2>3 DEF Post, Phases, AgeAtTag, main
  <2>8. Numbered'
    BY <1>1, <1>t, <1>s, <2>1, <2>2, <2>3 DEF Post, Numbered, main
  <2>9. Queues'
    BY <1>1, <1>t, <1>s, <2>1, <2>2, <2>5, Appended, EventFields DEF Post, Queues
  <2>10. EndIsLast'
    BY <1>1, <1>t, <1>s, <2>1, <2>5, Appended, EventFields DEF Post, EndIsLast
  <2>11. LiveIsQueued'
    <3> SUFFICES ASSUME NEW e \in 1 .. Exchanges, exchange'[e].buffer = "live"
                 PROVE  /\ exchange'[e].read \in listening'
                        /\ \E i \in DOMAIN events' : events'[i] = Event("callback", e)
      BY DEF LiveIsQueued
    <3>1. CASE e = posted + 1
      BY <1>1, <1>s, <2>1, <2>2, <2>3, <2>5, <3>1, Appended DEF Post, main
    <3>2. CASE e # posted + 1
      <4>1. exchange[e].read \in listening /\ exchange'[e] = exchange[e]
        BY <1>t, <2>2, <3>2 DEF LiveIsQueued
      <4>2. PICK i \in DOMAIN events : events[i] = Event("callback", e)
        BY <1>t, <2>2, <3>2 DEF LiveIsQueued
      <4>3. i \in DOMAIN events' /\ events'[i] = events[i]
        BY <1>s, <2>1, <2>5, Appended
      <4>4. \E j \in DOMAIN events' : events'[j] = Event("callback", e)
        BY <4>2, <4>3
      <4>5. listening' = listening
        BY <1>1 DEF Post, main
      <4> QED
        BY <4>1, <4>4, <4>5
    <3> QED
      BY <3>1, <3>2
  <2>12. OnePlace'
    BY <1>1, <1>t, Single DEF Post, OnePlace
  <2>13. (ReadKeepsToItsTag /\ LossSurfacesInTime)'
    BY <1>1, <1>t, <2>1, <2>2, <2>3 DEF Post, ReadKeepsToItsTag, LossSurfacesInTime, main
  <2> QED
    BY <2>6, <2>7, <2>8, <2>9, <2>10, <2>11, <2>12, <2>13 DEF HostInv
<1>2. ASSUME WaitExpires PROVE HostInv'
  <2>1. worker.id \in 1 .. Exchanges
    BY <1>2, <1>t, <1>s DEF WaitExpires, Numbered
  <2>2. Settle(worker.id, "timedOut")
    BY <1>2 DEF WaitExpires
  <2>3. stalled
    BY <1>2, <1>t DEF WaitExpires, OnePlace, HostTypeOK, ExchangeTimeout, ApduTimeout
  <2>4. phase = "reading" /\ nfc = read
    BY <1>2, <1>t DEF WaitExpires, Phases
  <2>5. HostTypeOK'
    BY <1>2, <1>t, <2>1, <2>2, Settled DEF WaitExpires, HostTypeOK, main
  <2>6. (Phases /\ AgeAtTag /\ OnePlace)'
    BY <1>2, <1>t, <2>1, <2>2, <2>3, <2>4, Settled DEF WaitExpires, Phases, AgeAtTag, OnePlace, main
  <2>7. Numbered'
    BY <1>2, <1>t, <1>s, <2>1, <2>2, Settled DEF WaitExpires, Numbered, main
  <2>10. Queues'
    <3>1. events' = events /\ tag' = tag /\ posted' = posted
      BY <1>2 DEF WaitExpires
    <3>2. \A e \in 1 .. Exchanges : exchange'[e].sent = exchange[e].sent
      BY <1>t, <2>1, <2>2, Settled
    <3>3. 1 .. posted \subseteq 1 .. Exchanges
      BY <1>s
    <3>4. \A i \in DOMAIN events : events[i].kind = "answer" => events[i].id \in 1 .. posted
      BY <1>t DEF Queues
    <3> QED
      BY <1>t, <3>1, <3>2, <3>3, <3>4 DEF Queues
  <2>8. (EndIsLast /\ LiveIsQueued)'
    <3>1. \A i \in DOMAIN events : events[i].kind # "end"
      BY <1>2, <1>t DEF WaitExpires, EndIsLast
    <3> QED
      BY <1>2, <1>t, <2>1, <2>2, <3>1, Settled DEF WaitExpires, EndIsLast, LiveIsQueued, main
  <2>9. (ReadKeepsToItsTag /\ LossSurfacesInTime)'
    BY <1>2, <1>t, <2>1, <2>2, <2>3, <2>4, Settled DEF WaitExpires, ReadKeepsToItsTag, LossSurfacesInTime, main
  <2> QED
    BY <2>5, <2>6, <2>7, <2>8, <2>9, <2>10 DEF HostInv
<1>3. ASSUME Return PROVE HostInv'
  <2> DEFINE x == Event("end", 0)
  <2>1. x \in EventRecord /\ events' = Append(events, x)
    BY <1>3, <1>s DEF Return, Event, EventRecord
  <2>2. worker' \in WorkerRecord /\ worker'.step = "returned" /\ worker.step = "running"
    BY <1>3, <1>s DEF Return, WorkerRecord
  <2>3. HostTypeOK'
    BY <1>3, <1>t, <1>s, <2>1, <2>2, Appended DEF Return, HostTypeOK, main
  <2>4. (Phases /\ AgeAtTag /\ Numbered)'
    BY <1>3, <1>t, <2>2 DEF Return, Phases, AgeAtTag, Numbered, main
  <2>5. Queues'
    BY <1>3, <1>t, <1>s, <2>1, Appended, EventFields DEF Return, Queues
  <2>6. EndIsLast'
    BY <1>3, <1>t, <1>s, <2>1, <2>2, Appended, EventFields DEF Return, EndIsLast
  <2>7. LiveIsQueued'
    <3> SUFFICES ASSUME NEW e \in 1 .. Exchanges, exchange[e].buffer = "live"
                 PROVE  \E i \in DOMAIN events' : events'[i] = Event("callback", e)
      BY <1>3, <1>t DEF Return, LiveIsQueued, main
    <3>1. PICK i \in DOMAIN events : events[i] = Event("callback", e)
      BY <1>t DEF LiveIsQueued
    <3>2. i \in DOMAIN events' /\ events'[i] = events[i]
      BY <1>s, <2>1, Appended
    <3> QED
      BY <3>1, <3>2
  <2>8. OnePlace'
    BY <1>3, <1>t, <2>1, <2>2, Single DEF Return, OnePlace
  <2>9. (ReadKeepsToItsTag /\ LossSurfacesInTime)'
    BY <1>3, <1>t, <2>2 DEF Return, ReadKeepsToItsTag, LossSurfacesInTime, main
  <2> QED
    BY <2>3, <2>4, <2>5, <2>6, <2>7, <2>8, <2>9 DEF HostInv
<1>4. ASSUME BindingFails \/ Poll \/ PollFails \/ FinishSession PROVE HostInv'
  <2>1. /\ worker.step = "none" /\ worker' = worker /\ listening = {} /\ listening' = {}
        /\ events' = events /\ posted' = posted /\ exchange' = exchange
        /\ tag' = tag /\ tagAge' = tagAge /\ stalled' = stalled
    BY <1>4, <1>t DEF BindingFails, Poll, PollFails, FinishSession, Phases
  <2>2. Phases' /\ read' \in read .. Reads + 1
    BY <1>4, <1>t, <1>s, <2>1 DEF BindingFails, Poll, PollFails, FinishSession, Phases
  <2>3. phase' \in {"idle", "polled", "reading", "closing"} /\ nfc' \in 0 .. Reads
    BY <1>4, <1>t, <1>s DEF BindingFails, Poll, PollFails, FinishSession, HostTypeOK
  <2>4. HostTypeOK'
    BY <1>t, <1>s, <2>1, <2>2, <2>3 DEF HostTypeOK
  <2>5. Numbered'
    BY <1>t, <1>s, <2>1, <2>2 DEF Numbered
  <2>6. (Queues /\ EndIsLast /\ LiveIsQueued /\ AgeAtTag)'
    BY <1>t, <2>1 DEF Queues, EndIsLast, LiveIsQueued, AgeAtTag
  <2>7. OnePlace'
    BY <1>t, <2>1 DEF OnePlace
  <2>8. (ReadKeepsToItsTag /\ LossSurfacesInTime)'
    BY <1>t, <2>1 DEF ReadKeepsToItsTag, LossSurfacesInTime
  <2> QED
    BY <2>2, <2>4, <2>5, <2>6, <2>7, <2>8 DEF HostInv
<1>5. ASSUME Spawn PROVE HostInv'
  <2>1. /\ worker.step = "none" /\ worker' = [NoWorker EXCEPT !.step = "running"]
        /\ listening = {} /\ listening' = {read} /\ phase' = "reading"
        /\ nfc = read /\ nfc' = nfc /\ read' = read /\ read <= Reads
        /\ events' = events /\ posted' = posted /\ exchange' = exchange
        /\ tag' = tag /\ tagAge' = tagAge /\ stalled' = stalled
    BY <1>5, <1>t DEF Spawn, Phases
  <2>2. worker' \in WorkerRecord /\ worker'.step = "running"
    <3>1. NoWorker \in WorkerRecord
      BY <1>s DEF NoWorker, WorkerRecord, ExchangeTimeout
    <3> QED
      BY <2>1, <3>1 DEF WorkerRecord
  <2>3. HostTypeOK'
    BY <1>t, <1>s, <2>1, <2>2 DEF HostTypeOK
  <2>4. (Phases /\ Numbered /\ Queues /\ EndIsLast /\ AgeAtTag)'
    BY <1>t, <2>1, <2>2 DEF Phases, Numbered, Queues, EndIsLast, AgeAtTag
  <2>5. (LiveIsQueued /\ ReadKeepsToItsTag /\ LossSurfacesInTime)'
    BY <1>t, <2>1 DEF LiveIsQueued, ReadKeepsToItsTag, LossSurfacesInTime
  <2>6. OnePlace'
    BY <1>t, <2>1, <2>2 DEF OnePlace
  <2> QED
    BY <2>3, <2>4, <2>5, <2>6 DEF HostInv
<1>6. ASSUME Tick PROVE HostInv'
  <2>1. /\ worker.step = "waiting"
        /\ worker' = [worker EXCEPT !.age = Older(@, ExchangeTimeout)]
        /\ tagAge' = IF tag = <<>> THEN 0 ELSE Older(tagAge, ApduTimeout)
        /\ stalled' = (stalled \/ events # <<>> \/ (tag # <<>> /\ tagAge = ApduTimeout))
        /\ phase' = phase /\ read' = read /\ nfc' = nfc /\ listening' = listening
        /\ events' = events /\ posted' = posted /\ exchange' = exchange /\ tag' = tag
    BY <1>6 DEF Tick, main
  <2>2. worker' \in WorkerRecord /\ worker'.step = "waiting" /\ worker'.id = worker.id
        /\ worker'.age = Older(worker.age, ExchangeTimeout)
    BY <1>s, <2>1 DEF WorkerRecord, Older, ExchangeTimeout
  <2>3. tagAge' \in 0 .. ApduTimeout /\ AgeAtTag'
    BY <1>t, <2>1 DEF HostTypeOK, Older, ApduTimeout, AgeAtTag
  <2>4. stalled' \in BOOLEAN
    BY <2>1
  <2>5. HostTypeOK'
    BY <1>t, <2>1, <2>2, <2>3, <2>4 DEF HostTypeOK
  <2>6. (Phases /\ Numbered /\ Queues /\ EndIsLast /\ LiveIsQueued)'
    BY <1>t, <2>1, <2>2 DEF Phases, Numbered, Queues, EndIsLast, LiveIsQueued
  <2>7. (ReadKeepsToItsTag /\ LossSurfacesInTime)'
    BY <1>t, <2>1, <2>2, <2>4 DEF ReadKeepsToItsTag, LossSurfacesInTime
  <2>8. OnePlace'
    <3> SUFFICES ASSUME ~stalled'
                 PROVE  events = <<>> /\ tag = <<worker.id>> /\ worker'.age = tagAge'
      BY <2>1, <2>2 DEF OnePlace
    <3>1. ~stalled /\ events = <<>> /\ (tag = <<>> \/ tagAge # ApduTimeout)
      BY <2>1
    <3>2. tag = <<worker.id>> /\ worker.age = tagAge
      BY <1>t, <2>1, <3>1, Single DEF OnePlace
    <3>3. tag # <<>> /\ tagAge \in 0 .. 1
      BY <1>t, <3>2, Single DEF HostTypeOK, ApduTimeout
    <3> QED
      BY <2>1, <2>2, <3>1, <3>2, <3>3 DEF Older, ApduTimeout, ExchangeTimeout
  <2> QED
    BY <2>3, <2>5, <2>6, <2>7, <2>8 DEF HostInv
<1>7. ASSUME UNCHANGED hostVars PROVE HostInv'
  <2>1. HostTypeOK'
    BY <1>7, <1>t DEF hostVars, main, HostTypeOK
  <2>2. (Phases /\ Numbered /\ Queues /\ EndIsLast /\ LiveIsQueued)'
    BY <1>7, <1>t DEF hostVars, main, Phases, Numbered, Queues, EndIsLast, LiveIsQueued
  <2>3. (OnePlace /\ AgeAtTag /\ ReadKeepsToItsTag /\ LossSurfacesInTime)'
    BY <1>7, <1>t DEF hostVars, main, OnePlace, AgeAtTag, ReadKeepsToItsTag, LossSurfacesInTime
  <2> QED
    BY <2>1, <2>2, <2>3 DEF HostInv
<1>8. ASSUME RunCallback PROVE HostInv'
  <2> DEFINE x == Event("message", Subject)
  <2>1. /\ events # <<>> /\ Head(events).kind = "callback"
        /\ phase' = phase /\ read' = read /\ nfc' = nfc /\ listening' = listening
        /\ worker' = worker /\ posted' = posted /\ tag' = tag /\ tagAge' = tagAge
        /\ stalled' = stalled
    BY <1>8 DEF RunCallback, Waiting, main
  <2>2. 1 \in DOMAIN events /\ events[1] = Head(events)
    BY <1>s, <2>1, Shortened
  <2>3. Subject \in 1 .. posted /\ 1 .. posted \subseteq 1 .. Exchanges
    BY <1>t, <1>s, <2>1, <2>2 DEF Queues, Subject
  <2>4. x \in EventRecord /\ x.kind = "message" /\ x.id = Subject
    BY <1>s, <2>3, EventFields DEF Event, EventRecord
  <2>5. \A e \in 1 .. Exchanges, i \in DOMAIN events :
          events[i] = Event("callback", e) /\ e # Subject => i # 1
    BY <2>2, EventFields DEF Subject
  <2>6. worker.step = "waiting" => exchange[worker.id].read \in listening
    BY <1>t DEF Numbered, Phases
  <2>7. CASE exchange[Subject].read \in listening
    <3>1. /\ exchange' = [exchange EXCEPT ![Subject].buffer = "freed"]
          /\ events' = Append(Tail(events), x)
      BY <1>8, <2>7 DEF RunCallback
    <3>2. /\ exchange' \in [1 .. Exchanges -> ExchangeRecord]
          /\ exchange'[Subject].buffer = "freed"
          /\ \A e \in 1 .. Exchanges :
               /\ exchange'[e].read = exchange[e].read /\ exchange'[e].sent = exchange[e].sent
               /\ exchange'[e].outcome = exchange[e].outcome
               /\ e # Subject => exchange'[e] = exchange[e]
      <4>1. exchange[Subject] \in ExchangeRecord
        BY <1>s, <2>3
      <4> DEFINE r == [exchange[Subject] EXCEPT !.buffer = "freed"]
      <4>2. /\ r \in ExchangeRecord /\ r.buffer = "freed" /\ r.read = exchange[Subject].read
            /\ r.sent = exchange[Subject].sent /\ r.outcome = exchange[Subject].outcome
        BY <4>1 DEF ExchangeRecord
      <4>3. exchange' = [exchange EXCEPT ![Subject] = r]
        BY <1>s, <3>1
      <4> HIDE DEF r
      <4> QED
        BY <1>s, <2>3, <4>2, <4>3
    <3>3. /\ events' \in Seq(EventRecord)
          /\ \A i \in DOMAIN events' :
               (i + 1 \in DOMAIN events /\ events'[i] = events[i + 1] /\ i \in Nat) \/ events'[i] = x
          /\ \A i \in DOMAIN events :
               i = 1 \/ (i - 1 \in DOMAIN events' /\ events'[i - 1] = events[i])
      <4>1. x \in EventRecord /\ events \in Seq(EventRecord) /\ events # <<>>
        BY <1>s, <2>1, <2>4
      <4>2. events' = Append(Tail(events), x)
        BY <3>1
      <4> HIDE DEF x
      <4> QED
        BY <4>1, <4>2, Rotated
    <3>4. HostTypeOK'
      BY <1>t, <2>1, <3>2, <3>3 DEF HostTypeOK
    <3>5. (Phases /\ AgeAtTag)'
      BY <1>t, <2>1 DEF Phases, AgeAtTag
    <3>6. Numbered'
      <4>1. \A e \in 1 .. Exchanges :
              IF e <= posted THEN exchange'[e].read \in 1 .. read ELSE exchange'[e] = Unused
        BY <1>t, <1>s, <2>3, <3>2 DEF Numbered
      <4>2. worker.step = "waiting" => exchange'[worker.id].read = exchange[worker.id].read
        BY <1>t, <2>3, <3>2 DEF Numbered
      <4> QED
        BY <1>t, <2>1, <4>1, <4>2 DEF Numbered
    <3>7. Queues'
      <4>1. \A e \in 1 .. posted : exchange'[e].sent = exchange[e].sent
        BY <2>3, <3>2
      <4> QED
        BY <1>t, <2>1, <2>3, <2>4, <3>3, <4>1 DEF Queues
    <3>8. EndIsLast'
      <4>1. DOMAIN events \subseteq Nat /\ DOMAIN events' \subseteq Nat
        BY <1>s, <3>3
      <4> QED
        BY <1>t, <2>1, <2>4, <3>3, <4>1 DEF EndIsLast
    <3>9. LiveIsQueued'
      <4> SUFFICES ASSUME NEW e \in 1 .. Exchanges, exchange'[e].buffer = "live"
                   PROVE  /\ exchange'[e].read \in listening'
                          /\ \E i \in DOMAIN events' : events'[i] = Event("callback", e)
        BY DEF LiveIsQueued
      <4>1. e # Subject /\ exchange'[e] = exchange[e]
        BY <2>3, <3>2
      <4>2. PICK i \in DOMAIN events : events[i] = Event("callback", e)
        BY <1>t, <4>1 DEF LiveIsQueued
      <4>3. i - 1 \in DOMAIN events' /\ events'[i - 1] = Event("callback", e)
        BY <2>5, <3>3, <4>1, <4>2
      <4>4. exchange'[e].read \in listening'
        BY <1>t, <2>1, <4>1 DEF LiveIsQueued
      <4> QED
        BY <4>3, <4>4
    <3>10. OnePlace'
      <4> SUFFICES ASSUME ~stalled
                   PROVE  /\ worker.step = "waiting" /\ events' = <<Event("message", worker.id)>>
                          /\ tag = <<>> /\ worker.age = 0
        BY <2>1 DEF OnePlace
      <4>1. /\ worker.step = "waiting" /\ events = <<Event("callback", worker.id)>>
            /\ tag = <<>> /\ worker.age = 0
        BY <1>t, <2>1, Single, EventFields DEF OnePlace
      <4>2. Subject = worker.id /\ Tail(events) = <<>>
        BY <4>1, Single, EventFields DEF Subject
      <4> QED
        BY <3>1, <4>1, <4>2, Single
    <3>11. (ReadKeepsToItsTag /\ LossSurfacesInTime)'
      BY <1>t, <2>1, <3>2 DEF ReadKeepsToItsTag, LossSurfacesInTime
    <3> QED
      BY <3>4, <3>5, <3>6, <3>7, <3>8, <3>9, <3>10, <3>11 DEF HostInv
  <2>8. CASE exchange[Subject].read \notin listening
    <3>1. exchange' = exchange /\ events' = Tail(events)
      BY <1>8, <2>8 DEF RunCallback
    <3>2. exchange[Subject].buffer # "live"
      BY <1>t, <2>3, <2>8 DEF LiveIsQueued
    <3>3. OnePlace'
      <4>1. ~stalled => events = <<Event("callback", worker.id)>> /\ worker.step = "waiting"
        BY <1>t, <2>1, Single, EventFields DEF OnePlace
      <4>2. stalled
        BY <2>6, <2>8, <4>1, Single, EventFields DEF Subject
      <4> QED
        BY <2>1, <4>2 DEF OnePlace
    <3> QED
      BY <1>t, <1>s, <2>1, <2>2, <2>5, <3>1, <3>2, <3>3, Dropped
  <2> QED
    BY <2>7, <2>8
<1>9. ASSUME TakeMessage PROVE HostInv'
  <2>1. /\ events # <<>> /\ Head(events).kind = "message" /\ events' = Tail(events)
        /\ phase' = phase /\ read' = read /\ nfc' = nfc /\ listening' = listening
        /\ worker' = worker /\ posted' = posted /\ tagAge' = tagAge /\ stalled' = stalled
    BY <1>9 DEF TakeMessage, Waiting, main
  <2>2. /\ 1 \in DOMAIN events /\ events[1] = Head(events) /\ events' \in Seq(EventRecord)
        /\ \A i \in DOMAIN events' : i + 1 \in DOMAIN events /\ events'[i] = events[i + 1] /\ i \in Nat
        /\ \A i \in DOMAIN events :
             i = 1 \/ (i - 1 \in DOMAIN events' /\ events'[i - 1] = events[i])
    BY <1>s, <2>1, Shortened
  <2>3. Subject \in 1 .. posted /\ 1 .. posted \subseteq 1 .. Exchanges
    BY <1>t, <1>s, <2>1, <2>2 DEF Queues, Subject
  <2>4. \A e \in 1 .. Exchanges : Head(events) # Event("callback", e)
    BY <2>1, EventFields
  <2>5. ~stalled => /\ worker.step = "waiting" /\ Subject = worker.id /\ Tail(events) = <<>>
                    /\ tag = <<>> /\ worker.age = 0
    BY <1>t, <2>1, Single, EventFields DEF OnePlace, Subject
  <2>6. worker.step = "waiting" => exchange[worker.id].read \in listening
    BY <1>t DEF Numbered, Phases
  <2>7. CASE exchange[Subject].read \in listening
    <3>1. phase = "reading" /\ nfc = read /\ exchange[Subject].read = read /\ read \in 1 .. Reads
      BY <1>t, <1>s, <2>7 DEF Phases
    <3>2. exchange' = [exchange EXCEPT ![Subject].sent = read] /\ tag' = Append(tag, Subject)
      BY <1>9, <1>s, <2>7, <3>1 DEF TakeMessage
    <3>3. /\ exchange' \in [1 .. Exchanges -> ExchangeRecord]
          /\ exchange'[Subject].sent = read
          /\ \A e \in 1 .. Exchanges :
               /\ exchange'[e].read = exchange[e].read /\ exchange'[e].buffer = exchange[e].buffer
               /\ exchange'[e].outcome = exchange[e].outcome
               /\ e # Subject => exchange'[e] = exchange[e]
      <4>1. exchange[Subject] \in ExchangeRecord
        BY <1>s, <2>3
      <4> DEFINE r == [exchange[Subject] EXCEPT !.sent = read]
      <4>2. /\ r \in ExchangeRecord /\ r.sent = read /\ r.read = exchange[Subject].read
            /\ r.buffer = exchange[Subject].buffer /\ r.outcome = exchange[Subject].outcome
        <5>1. read \in 0 .. Reads + 1
          BY <1>s
        <5> QED
          BY <4>1, <5>1 DEF ExchangeRecord
      <4>3. exchange' = [exchange EXCEPT ![Subject] = r]
        BY <1>s, <3>2
      <4> HIDE DEF r
      <4> QED
        BY <1>s, <2>3, <4>2, <4>3
    <3>4. /\ tag' \in Seq(1 .. Exchanges) /\ tag' # <<>>
          /\ \A i \in DOMAIN tag' : (i \in DOMAIN tag /\ tag'[i] = tag[i]) \/ tag'[i] = Subject
      BY <1>s, <2>3, <3>2, Appended
    <3>5. HostTypeOK'
      BY <1>t, <2>1, <2>2, <3>3, <3>4 DEF HostTypeOK
    <3>6. (Phases /\ AgeAtTag /\ EndIsLast)'
      BY <1>t, <2>1, <2>2, <3>4 DEF Phases, AgeAtTag, EndIsLast
    <3>7. Numbered'
      <4>1. \A e \in 1 .. Exchanges :
              IF e <= posted THEN exchange'[e].read \in 1 .. read ELSE exchange'[e] = Unused
        BY <1>t, <1>s, <2>3, <3>3 DEF Numbered
      <4>2. worker.step = "waiting" => exchange'[worker.id].read = exchange[worker.id].read
        BY <1>t, <2>3, <3>3 DEF Numbered
      <4> QED
        BY <1>t, <2>1, <4>1, <4>2 DEF Numbered
    <3>8. Queues'
      <4>1. \A e \in 1 .. posted : exchange[e].sent # 0 => exchange'[e].sent # 0
        BY <1>s, <2>3, <3>1, <3>3
      <4>2. exchange'[Subject].sent # 0
        BY <3>1, <3>3
      <4>3. \A i \in DOMAIN tag' : tag'[i] \in 1 .. posted /\ exchange'[tag'[i]].sent # 0
        BY <1>t, <2>3, <3>4, <4>1, <4>2 DEF Queues
      <4>4. \A i \in DOMAIN events' :
              /\ events'[i].kind # "end" => events'[i].id \in 1 .. posted
              /\ events'[i].kind = "answer" => exchange'[events'[i].id].sent # 0
        BY <1>t, <2>2, <4>1 DEF Queues
      <4> QED
        BY <2>1, <4>3, <4>4 DEF Queues
    <3>9. LiveIsQueued'
      <4> SUFFICES ASSUME NEW e \in 1 .. Exchanges, exchange[e].buffer = "live"
                   PROVE  \E i \in DOMAIN events' : events'[i] = Event("callback", e)
        BY <1>t, <2>1, <3>3 DEF LiveIsQueued
      <4>1. PICK i \in DOMAIN events : events[i] = Event("callback", e)
        BY <1>t DEF LiveIsQueued
      <4>2. i - 1 \in DOMAIN events' /\ events'[i - 1] = events[i]
        BY <2>2, <2>4, <4>1
      <4> QED
        BY <4>1, <4>2
    <3>10. OnePlace'
      <4> SUFFICES ASSUME ~stalled
                   PROVE  /\ worker.step = "waiting" /\ events' = <<>>
                          /\ tag' = <<worker.id>> /\ worker.age = tagAge
        BY <2>1 DEF OnePlace
      <4> QED
        BY <1>t, <2>1, <2>5, <3>2, Single DEF AgeAtTag
    <3>11. (ReadKeepsToItsTag /\ LossSurfacesInTime)'
      <4>1. \A e \in 1 .. Exchanges : /\ exchange'[e].sent \in {0, exchange'[e].read}
                                      /\ exchange'[e].outcome = "answered" => exchange'[e].sent # 0
        BY <1>t, <3>1, <3>3 DEF ReadKeepsToItsTag
      <4> QED
        BY <1>t, <2>1, <3>3, <4>1 DEF ReadKeepsToItsTag, LossSurfacesInTime
    <3> QED
      BY <3>5, <3>6, <3>7, <3>8, <3>9, <3>10, <3>11 DEF HostInv
  <2>8. CASE exchange[Subject].read \notin listening
    <3>1. exchange' = exchange /\ tag' = tag
      BY <1>9, <2>8 DEF TakeMessage
    <3>2. stalled
      BY <2>5, <2>6, <2>8
    <3>3. OnePlace'
      BY <2>1, <3>2 DEF OnePlace
    <3> QED
      BY <2>1, <2>4, <3>1, <3>3, Dropped
  <2> QED
    BY <2>7, <2>8
<1>10. ASSUME NEW kind \in {"answer", "refusal"}, NEW outcome \in {"answered", "failed"},
              outcome = "answered" => kind = "answer",
              Supply(kind, outcome)
       PROVE  HostInv'
  <2>1. /\ events # <<>> /\ Head(events).kind = kind /\ events' = Tail(events)
        /\ phase' = phase /\ read' = read /\ nfc' = nfc /\ listening' = listening
        /\ posted' = posted /\ tag' = tag /\ tagAge' = tagAge /\ stalled' = stalled
    BY <1>10 DEF Supply, Waiting, main
  <2>2. /\ 1 \in DOMAIN events /\ events[1] = Head(events) /\ events' \in Seq(EventRecord)
        /\ \A i \in DOMAIN events' : i + 1 \in DOMAIN events /\ events'[i] = events[i + 1] /\ i \in Nat
        /\ \A i \in DOMAIN events :
             i = 1 \/ (i - 1 \in DOMAIN events' /\ events'[i - 1] = events[i])
    BY <1>s, <2>1, Shortened
  <2>3. Subject \in 1 .. posted /\ 1 .. posted \subseteq 1 .. Exchanges
    BY <1>t, <1>s, <1>10, <2>1, <2>2 DEF Queues, Subject
  <2>4. \A e \in 1 .. Exchanges : Head(events) # Event("callback", e)
    BY <1>10, <2>1, EventFields
  <2>5. ~stalled => /\ worker.step = "waiting" /\ Subject = worker.id /\ Tail(events) = <<>>
                    /\ tag = <<>>
    BY <1>t, <1>10, <2>1, Single, EventFields DEF OnePlace, Subject
  <2>6. CASE worker.step = "waiting" /\ worker.id = Subject
    <3>1. Settle(Subject, outcome)
      BY <1>10, <2>6 DEF Supply
    <3>2. /\ worker' \in WorkerRecord /\ worker'.step = "running"
          /\ exchange' \in [1 .. Exchanges -> ExchangeRecord]
          /\ exchange'[Subject].outcome = outcome
          /\ \A e \in 1 .. Exchanges :
               /\ exchange'[e].read = exchange[e].read /\ exchange'[e].buffer = exchange[e].buffer
               /\ exchange'[e].sent = exchange[e].sent
               /\ e # Subject => exchange'[e] = exchange[e]
      BY <1>t, <1>10, <2>3, <3>1, Settled
    <3>3. HostTypeOK'
      BY <1>t, <2>1, <2>2, <3>2 DEF HostTypeOK
    <3>4. (Phases /\ AgeAtTag)'
      BY <1>t, <2>1, <2>6, <3>2 DEF Phases, AgeAtTag
    <3>5. Numbered'
      BY <1>t, <1>s, <2>1, <2>3, <3>2 DEF Numbered
    <3>6. Queues'
      <4>1. \A e \in 1 .. posted : exchange'[e].sent = exchange[e].sent
        BY <2>3, <3>2
      <4> QED
        BY <1>t, <2>1, <2>2, <4>1 DEF Queues
    <3>7. EndIsLast'
      BY <1>t, <2>1, <2>2, <2>6 DEF EndIsLast
    <3>8. LiveIsQueued'
      <4> SUFFICES ASSUME NEW e \in 1 .. Exchanges, exchange[e].buffer = "live"
                   PROVE  \E i \in DOMAIN events' : events'[i] = Event("callback", e)
        BY <1>t, <2>1, <3>2 DEF LiveIsQueued
      <4>1. PICK i \in DOMAIN events : events[i] = Event("callback", e)
        BY <1>t DEF LiveIsQueued
      <4>2. i - 1 \in DOMAIN events' /\ events'[i - 1] = events[i]
        BY <2>2, <2>4, <4>1
      <4> QED
        BY <4>1, <4>2
    <3>9. OnePlace'
      BY <2>1, <2>5, <3>2 DEF OnePlace
    <3>10. (ReadKeepsToItsTag /\ LossSurfacesInTime)'
      <4>1. outcome = "answered" => exchange[Subject].sent # 0
        BY <1>t, <1>10, <2>1, <2>2 DEF Queues, Subject
      <4>2. \A e \in 1 .. Exchanges : /\ exchange'[e].sent \in {0, exchange'[e].read}
                                      /\ exchange'[e].outcome = "answered" => exchange'[e].sent # 0
        BY <1>t, <3>2, <4>1 DEF ReadKeepsToItsTag
      <4>3. worker'.step # "none" => nfc' = read'
        BY <1>t, <2>1, <2>6 DEF ReadKeepsToItsTag
      <4>4. \A e \in 1 .. Exchanges : exchange'[e].outcome = "timedOut" => stalled
        BY <1>t, <1>10, <3>2 DEF LossSurfacesInTime
      <4> QED
        BY <2>1, <4>2, <4>3, <4>4 DEF ReadKeepsToItsTag, LossSurfacesInTime
    <3> QED
      BY <3>3, <3>4, <3>5, <3>6, <3>7, <3>8, <3>9, <3>10 DEF HostInv
  <2>7. CASE ~(worker.step = "waiting" /\ worker.id = Subject)
    <3>1. exchange' = exchange /\ worker' = worker
      BY <1>10, <2>7 DEF Supply
    <3>2. OnePlace'
      BY <2>1, <2>5, <2>7 DEF OnePlace
    <3> QED
      BY <2>1, <2>4, <3>1, <3>2, Dropped
  <2> QED
    BY <2>6, <2>7
<1>11. ASSUME End PROVE HostInv'
  <2>1. /\ events # <<>> /\ Head(events).kind = "end" /\ events' = Tail(events)
        /\ phase' = "closing" /\ read' = read /\ nfc' = nfc /\ listening' = listening \ {read}
        /\ worker' = NoWorker /\ exchange' = exchange
        /\ posted' = posted /\ tag' = tag /\ tagAge' = tagAge /\ stalled' = stalled
    BY <1>11 DEF End, Waiting
  <2>2. /\ 1 \in DOMAIN events /\ events[1] = Head(events) /\ events' \in Seq(EventRecord)
        /\ DOMAIN events \subseteq Nat \ {0}
        /\ \A i \in DOMAIN events' :
             i + 1 \in DOMAIN events /\ events'[i] = events[i + 1] /\ i \in Nat /\ i + 1 # 1
    BY <1>s, <2>1, Shortened
  <2>3. worker.step = "returned" /\ phase = "reading" /\ nfc = read /\ listening = {read}
    BY <1>t, <2>1, <2>2 DEF EndIsLast, Phases
  <2>4. NoWorker \in WorkerRecord /\ NoWorker.step = "none"
    BY <1>s DEF NoWorker, WorkerRecord, ExchangeTimeout
  <2>5. \A e \in 1 .. Exchanges : exchange[e].buffer # "live"
    <3> SUFFICES ASSUME NEW e \in 1 .. Exchanges, exchange[e].buffer = "live" PROVE FALSE
      OBVIOUS
    <3>1. PICK i \in DOMAIN events : events[i] = Event("callback", e)
      BY <1>t DEF LiveIsQueued
    <3>2. i < 1
      BY <1>t, <2>1, <2>2, <3>1, EventFields DEF EndIsLast
    <3> QED
      BY <2>2, <3>1, <3>2
  <2>6. \A i \in DOMAIN events' : events'[i].kind # "end"
    BY <1>t, <2>1, <2>2 DEF EndIsLast
  <2>7. HostTypeOK'
    BY <1>t, <2>1, <2>2, <2>4 DEF HostTypeOK
  <2>8. (Phases /\ AgeAtTag /\ Numbered)'
    BY <1>t, <2>1, <2>3, <2>4 DEF Phases, AgeAtTag, Numbered
  <2>9. (Queues /\ EndIsLast /\ LiveIsQueued)'
    BY <1>t, <2>1, <2>2, <2>5, <2>6 DEF Queues, EndIsLast, LiveIsQueued
  <2>10. (ReadKeepsToItsTag /\ LossSurfacesInTime)'
    BY <1>t, <2>1, <2>4 DEF ReadKeepsToItsTag, LossSurfacesInTime
  <2>11. OnePlace'
    <3>1. ~stalled => events = <<Event("end", 0)>> /\ tag = <<>>
      BY <1>t, <2>3 DEF OnePlace
    <3> QED
      BY <2>1, <2>4, <3>1, Single DEF OnePlace
  <2> QED
    BY <2>7, <2>8, <2>9, <2>10, <2>11 DEF HostInv
<1>12. ASSUME TagAnswers \/ TagFails PROVE HostInv'
  <2>1. PICK kind \in {"answer", "refusal"} :
          /\ tag # <<>> /\ events' = Append(events, Event(kind, Head(tag)))
          /\ tag' = Tail(tag) /\ tagAge' = 0
          /\ phase' = phase /\ read' = read /\ nfc' = nfc /\ listening' = listening
          /\ worker' = worker /\ posted' = posted /\ exchange' = exchange /\ stalled' = stalled
    BY <1>12 DEF TagAnswers, TagFails, main
  <2> DEFINE x == Event(kind, Head(tag))
  <2>2. /\ 1 \in DOMAIN tag /\ tag[1] = Head(tag) /\ tag' \in Seq(1 .. Exchanges)
        /\ \A i \in DOMAIN tag' : i + 1 \in DOMAIN tag /\ tag'[i] = tag[i + 1]
    BY <1>s, <2>1, Shortened
  <2>3. Head(tag) \in 1 .. posted /\ exchange[Head(tag)].sent # 0
    BY <1>t, <2>2 DEF Queues
  <2>4. x \in EventRecord /\ x.kind = kind /\ x.id = Head(tag)
    BY <1>s, <2>1, <2>3, EventFields DEF Event, EventRecord
  <2>5. /\ events' \in Seq(EventRecord)
        /\ \A i \in DOMAIN events : i \in DOMAIN events' /\ events'[i] = events[i]
        /\ \A i \in DOMAIN events' : (i \in DOMAIN events /\ events'[i] = events[i]) \/ events'[i] = x
    BY <1>s, <2>1, <2>4, Appended
  <2>6. HostTypeOK'
    BY <1>t, <2>1, <2>2, <2>5 DEF HostTypeOK, ApduTimeout
  <2>7. (Phases /\ AgeAtTag /\ Numbered)'
    BY <1>t, <2>1 DEF Phases, AgeAtTag, Numbered
  <2>8. (Queues /\ EndIsLast)'
    BY <1>t, <2>1, <2>2, <2>3, <2>4, <2>5 DEF Queues, EndIsLast
  <2>9. (LiveIsQueued /\ ReadKeepsToItsTag /\ LossSurfacesInTime)'
    BY <1>t, <2>1, <2>5 DEF LiveIsQueued, ReadKeepsToItsTag, LossSurfacesInTime
  <2>10. OnePlace'
    <3>1. ~stalled => /\ worker.step = "waiting" /\ events = <<>> /\ tag = <<worker.id>>
                      /\ worker.age = tagAge
      BY <1>t, <2>1 DEF OnePlace
    <3>2. tagAge <= ApduTimeout
      BY <1>t DEF HostTypeOK, ApduTimeout
    <3>3. ~stalled => /\ events' = <<Event(kind, worker.id)>> /\ tag' = <<>>
                      /\ worker.age <= ApduTimeout
      BY <2>1, <3>1, <3>2, Single
    <3> QED
      BY <2>1, <3>1, <3>3 DEF OnePlace
  <2> QED
    BY <2>6, <2>7, <2>8, <2>9, <2>10 DEF HostInv
<1>13. SupplyResponse \/ SupplyFailure => HostInv'
  BY <1>10 DEF SupplyResponse, SupplyFailure
<1> QED
  BY <1>1, <1>2, <1>3, <1>4, <1>5, <1>6, <1>7, <1>8, <1>9, <1>11, <1>12, <1>13
     DEF HostNext, WorkerStep, MainStep

-----------------------------------------------------------------------------
(* Theorems.                                                               *)

\* Every state of the host satisfies the invariant, however many reads follow
\* one another and however late the host, the plugin and the worker are.
THEOREM Invariance == HostSpec => []HostInv
<1>1. HostInit => HostInv
  BY Initially
<1>2. HostInv /\ [HostNext]_hostVars => HostInv'
  BY Inductive
<1> QED
  BY <1>1, <1>2, PTL DEF HostSpec

\* The isolates, the bridge and the plugin keep to the shapes HostReader names.
THEOREM HostTypeCorrect == HostSpec => []HostTypeOK
<1>1. HostInv => HostTypeOK
  BY DEF HostInv
<1> QED
  BY <1>1, Invariance, PTL

\* Whatever an earlier read left in the queues, an APDU goes to the tag of its
\* own read's NFC session (PassportReader.read).
THEOREM KeepsToItsTag == HostSpec => []ReadKeepsToItsTag
<1>1. HostInv => ReadKeepsToItsTag
  BY DEF HostInv
<1> QED
  BY <1>1, Invariance, PTL

\* The finally blocks of read and _readInSession leave no buffer, no listener
\* and no session behind.
THEOREM LeavesNothing == HostSpec => []ReadLeavesNothing
<1>1. HostInv => ReadLeavesNothing
  BY DEF HostInv, LiveIsQueued, Phases, ReadLeavesNothing
<1> QED
  BY <1>1, Invariance, PTL

\* The host's time limit is the one a lost tag meets: the bridge's, six times
\* as long, is reached only by a host that stood still.
THEOREM SurfacesInTime == HostSpec => []LossSurfacesInTime
<1>1. HostInv => LossSurfacesInTime
  BY DEF HostInv
<1> QED
  BY <1>1, Invariance, PTL
===============================================================================
