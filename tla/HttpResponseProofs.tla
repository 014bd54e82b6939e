------------------------- MODULE HttpResponseProofs -------------------------
(***************************************************************************)
(* Proofs about HttpResponse, for any requests, texts, files and chunks,   *)
(* and about HttpRouter, for any registrations and urls.                   *)
(***************************************************************************)
EXTENDS MCHttpResponse, SequenceTheorems, FiniteSetTheorems, TLAPS

\* What is to be sent is there: the file is open, the position in the text.
BodyThere ==
    /\ writeType = "file" => file.name \in Files
    /\ isChunked /\ writeType = "string" => Len(body) < WordSize /\ startPos \in 0..Len(body)

\* A chunked response says so.
ChunkedFramed == isChunked => transfers > 0

\* What the calls of the route leave.
RouteInv ==
    pc = "route" /\ mishaps = {} =>
        /\ sent = <<>> /\ ~hollow /\ Framings <= 1
        /\ Framings = 1 \/ writeType = "noBody" => status = meant.status
        /\ Framings = 0 =>
             /\ ~isChunked /\ writeType \in {"string", "noBody"}
             /\ body = <<>> /\ file = Closed /\ range = NoRange
             /\ meant.body = <<>> /\ meant.range = NoRange
        /\ Framings = 1 /\ writeType # "noBody" =>
             /\ range = meant.range
             /\ isChunked => transfers = 1
             /\ ~isChunked => /\ transfers = 0 /\ body = meant.body
                              /\ request.head \/ lengths[1] = Len(body)

\* A file was opened that is to be read at once.
ReadInv ==
    pc = "readAll" =>
        /\ writeType = "file" /\ ~isChunked
        /\ mishaps = {} =>
             /\ sent = <<>> /\ ~hollow /\ Framings = 1 /\ transfers = 0
             /\ status = meant.status /\ range = meant.range
             /\ file.pos = 0 /\ lengths[1] = sizes[file.name]
             /\ meant.body = Positions(0, sizes[file.name])

\* Where the next chunk of the file is read.
Position == IF startPos = -1 THEN file.pos ELSE startPos

\* What is left of the body is what the next chunks will carry.
ChunkInv ==
    mishaps = {} /\ pc \in {"route", "chunk"} /\ isChunked /\ writeType # "noBody" =>
        /\ transfers = 1 /\ lengths = <<>>
        /\ ~hollow /\ status = meant.status /\ range = meant.range
        /\ writeType = "string" =>
             /\ body = meant.body /\ startPos < Len(body)
             /\ sent = SubSeq(body, 1, startPos)
        /\ writeType = "file" =>
             /\ file.name \in Files /\ ~file.failed
             /\ portion > 0 /\ Position + portion <= sizes[file.name]
             /\ \E first \in Nat :
                  /\ first <= Position
                  /\ sent = Positions(first, Position)
                  /\ meant.body = Positions(first, Position + portion)

\* A response in chunks is under way.
ChunkPc ==
    pc \in {"chunk", "endChunk"} => isChunked /\ (mishaps = {} => writeType # "noBody")

\* What was written is all of it.
WrittenInv ==
    mishaps = {} /\ pc \in {"endChunk", "sent"} =>
        /\ ~hollow /\ sent = meant.body
        /\ status = meant.status /\ range = meant.range
        /\ IF isChunked THEN lengths = <<>> /\ transfers = 1
           ELSE /\ transfers = 0 /\ Len(lengths) = 1
                /\ request.head \/ lengths[1] = Len(sent)

\* The inductive invariant.
IInv ==
    /\ TypeOK
    /\ BodyThere
    /\ ChunkedFramed
    /\ RouteInv
    /\ ReadInv
    /\ ChunkInv
    /\ ChunkPc
    /\ WrittenInv

-----------------------------------------------------------------------------
(* Positions and ranges.                                                   *)

\* The bytes between two positions, and none when they are in the wrong order.
LEMMA PositionsProperties ==
    ASSUME NEW a \in Int, NEW b \in Int
    PROVE  /\ Positions(a, b) \in Seq(Int)
           /\ a <= b => Len(Positions(a, b)) = b - a
           /\ b <= a => Positions(a, b) = <<>>
           /\ a < b => Positions(a, b) # <<>>
<1>1. CASE a <= b
  <2>1. Positions(a, b) \in [1..(b - a) -> Int] /\ b - a \in Nat
    BY <1>1 DEF Positions
  <2>2. Positions(a, b) \in Seq(Int) /\ Len(Positions(a, b)) = b - a
    BY <2>1
  <2> QED
    BY <1>1, <2>2
<1>2. CASE b < a
  <2>1. 1..(b - a) = {}
    BY <1>2
  <2>2. Positions(a, b) = <<>>
    BY <2>1 DEF Positions
  <2> QED
    BY <1>2, <2>2
<1> QED
  BY <1>1, <1>2

\* A whole text or file.
LEMMA PositionsWhole ==
    ASSUME NEW n \in Nat
    PROVE  Positions(0, n) \in Seq(Int) /\ Len(Positions(0, n)) = n
<1>1. Positions(0, n) \in Seq(Int) /\ Len(Positions(0, n)) = n - 0
  BY PositionsProperties
<1> QED
  BY <1>1

\* Two pieces that meet make one.
LEMMA PositionsMeet ==
    ASSUME NEW a \in Int, NEW b \in Int, NEW c \in Int, a <= b, b <= c
    PROVE  Positions(a, b) \o Positions(b, c) = Positions(a, c)
<1> DEFINE s == Positions(a, b)
           t == Positions(b, c)
           u == Positions(a, c)
<1>1. /\ s \in Seq(Int) /\ Len(s) = b - a
      /\ t \in Seq(Int) /\ Len(t) = c - b
      /\ u \in Seq(Int) /\ Len(u) = c - a
  BY a <= c, PositionsProperties
<1>2. /\ \A i \in 1..(b - a) : s[i] = a + i - 1
      /\ \A i \in 1..(c - b) : t[i] = b + i - 1
      /\ \A i \in 1..(c - a) : u[i] = a + i - 1
  BY DEF Positions
<1> HIDE DEF s, t, u
<1>3. /\ s \o t \in Seq(Int) /\ Len(s \o t) = c - a
      /\ \A i \in 1..(c - a) : (s \o t)[i] = IF i <= b - a THEN s[i] ELSE t[i - (b - a)]
  <2>1. Len(s) + Len(t) = c - a
    BY <1>1
  <2>2. /\ s \o t \in Seq(Int) /\ Len(s \o t) = c - a
        /\ \A i \in 1..(c - a) : (s \o t)[i] = IF i <= Len(s) THEN s[i] ELSE t[i - Len(s)]
    BY <1>1, <2>1, ConcatProperties, Zenon
  <2> QED
    BY <1>1, <2>2
<1>4. ASSUME NEW i \in 1..(c - a) PROVE (s \o t)[i] = u[i]
  BY <1>2, <1>3
<1>5. s \o t = u
  BY <1>1, <1>3, <1>4, SeqEqual
<1> QED
  BY <1>5 DEF s, t, u

\* The first of them begin all of them.
LEMMA PositionsBegin ==
    ASSUME NEW a \in Int, NEW b \in Int, NEW c \in Int, a <= b, b <= c
    PROVE  Begins(Positions(a, b), Positions(a, c))
<1>1. /\ Positions(a, b) \in Seq(Int) /\ Len(Positions(a, b)) = b - a
      /\ Positions(a, c) \in Seq(Int) /\ Len(Positions(a, c)) = c - a
  BY PositionsProperties
<1>2. ASSUME NEW i \in 1..(b - a) PROVE Positions(a, b)[i] = SubSeq(Positions(a, c), 1, b - a)[i]
  BY <1>1 DEF Positions
<1> QED
  BY <1>1, <1>2 DEF Begins

\* So do the first elements of any sequence, and the next continue them.
LEMMA SubSeqMeet ==
    ASSUME NEW s \in Seq(Int), NEW p \in 0..Len(s), NEW q \in p..Len(s)
    PROVE  /\ SubSeq(s, 1, p) \o SubSeq(s, p + 1, q) = SubSeq(s, 1, q)
           /\ p < q => SubSeq(s, p + 1, q) # <<>>
           /\ SubSeq(s, p + 1, q) \in Seq(Int)
           /\ Begins(SubSeq(s, 1, p), s)
           /\ SubSeq(s, 1, Len(s)) = s
<1>1. /\ SubSeq(s, 1, p) \in Seq(Int) /\ Len(SubSeq(s, 1, p)) = p
      /\ SubSeq(s, p + 1, q) \in Seq(Int) /\ Len(SubSeq(s, p + 1, q)) = q - p
      /\ SubSeq(s, 1, q) \in Seq(Int) /\ Len(SubSeq(s, 1, q)) = q
  OBVIOUS
<1> DEFINE t == SubSeq(s, 1, p)
           u == SubSeq(s, p + 1, q)
           v == SubSeq(s, 1, q)
<1>2. /\ \A i \in 1..p : t[i] = s[i]
      /\ \A i \in 1..(q - p) : u[i] = s[p + i]
      /\ \A i \in 1..q : v[i] = s[i]
  OBVIOUS
<1>3. t \o u = v
  <2>1. /\ t \in Seq(Int) /\ Len(t) = p /\ u \in Seq(Int) /\ Len(u) = q - p
        /\ v \in Seq(Int) /\ Len(v) = q
    BY <1>1
  <2> HIDE DEF t, u, v
  <2>2. Len(t) + Len(u) = q
    BY <2>1
  <2>3. /\ t \o u \in Seq(Int) /\ Len(t \o u) = q
        /\ \A i \in 1..q : (t \o u)[i] = IF i <= Len(t) THEN t[i] ELSE u[i - Len(t)]
    BY <2>1, <2>2, ConcatProperties, Zenon
  <2>4. ASSUME NEW i \in 1..q PROVE (t \o u)[i] = v[i]
    <3>1. (t \o u)[i] = IF i <= p THEN t[i] ELSE u[i - p]
      BY <2>1, <2>3
    <3>2. CASE i <= p
      BY <1>2, <3>1, <3>2
    <3>3. CASE ~(i <= p)
      <4>1. i - p \in 1..(q - p) /\ ~(i <= p) /\ p + (i - p) = i
        BY <3>3
      <4>2. (t \o u)[i] = u[i - p] /\ u[i - p] = s[p + (i - p)]
        BY <1>2, <3>1, <4>1
      <4> QED
        BY <1>2, <4>1, <4>2
    <3> QED
      BY <3>2, <3>3
  <2> QED
    BY <2>1, <2>3, <2>4, SeqEqual
<1>4. SubSeq(s, 1, Len(s)) = s
  OBVIOUS
<1>5. p < q => SubSeq(s, p + 1, q) # <<>>
  BY <1>1
<1>6. Begins(SubSeq(s, 1, p), s)
  BY <1>1 DEF Begins
<1> QED
  BY <1>1, <1>3, <1>4, <1>5, <1>6

\* What accept_range and write_file make of a Range header.
LEMMA RangeTypes ==
    ASSUME NEW r \in RangeType, r.kind # "none", NEW size \in 0..(WordSize - 1)
    PROVE  /\ AcceptRange(r) \in Int \X Int
           /\ Wanted(r, size) \in Int \X Int
           /\ Portion(AcceptRange(r)[1], AcceptRange(r)[2], size) \in 0..(WordSize - 1)
<1>1. WordSize \in Nat \ {0}
  BY LengthsAssumption
<1>2. AcceptRange(r) \in Int \X Int /\ Wanted(r, size) \in Int \X Int
  BY DEF RangeType, AcceptRange, Wanted
<1>3. \A n \in Int : n % WordSize \in 0..(WordSize - 1)
  BY <1>1
<1> QED
  BY <1>2, <1>3 DEF Portion

\* A range that the file has is understood.
LEMMA RangeUnderstood ==
    ASSUME NEW r \in RangeType, r.kind \notin {"none", "last"},
           NEW size \in 0..(WordSize - 1), WithinFile(r, size)
    PROVE  LET a == AcceptRange(r)
               w == Wanted(r, size)
               n == Portion(a[1], a[2], size)
           IN /\ a[1] = w[1] /\ a[1] \in Nat
              /\ <<a[1], IF a[2] = -1 THEN size - 1 ELSE a[2]>> = w
              /\ n = w[2] + 1 - w[1] /\ n > 0 /\ a[1] + n <= size
<1>1. WordSize \in Nat /\ \A n \in 0..(WordSize - 1) : n % WordSize = n
  BY LengthsAssumption
<1>2. CASE r.kind = "from"
  <2>1. r.first \in Nat /\ AcceptRange(r) = <<r.first, -1>> /\ Wanted(r, size) = <<r.first, size - 1>>
    BY <1>2 DEF RangeType, AcceptRange, Wanted
  <2>2. r.first <= size - 1
    BY <2>1 DEF WithinFile
  <2>3. (size - r.first) % WordSize = size - r.first
    BY <1>1, <2>1, <2>2
  <2> QED
    BY <2>1, <2>2, <2>3 DEF Portion
<1>3. CASE r.kind = "span"
  <2>1. r.first \in Nat /\ r.last \in Nat /\ AcceptRange(r) = <<r.first, r.last>>
        /\ Wanted(r, size) = <<r.first, r.last>>
    BY <1>3 DEF RangeType, AcceptRange, Wanted
  <2>2. r.first <= r.last /\ r.last < size
    BY <2>1 DEF WithinFile
  <2>3. (r.last - r.first + 1) % WordSize = r.last - r.first + 1
    BY <1>1, <2>1, <2>2
  <2> QED
    BY <2>1, <2>2, <2>3 DEF Portion
<1> QED
  BY <1>2, <1>3 DEF RangeType

-----------------------------------------------------------------------------
(* Types.                                                                  *)

\* The type invariant, of the variables that Call and the writing change and of
\* those that the body of a call changes.
Meanings == [status : Statuses, body : Seq(Int), range : {NoRange} \cup (Int \X Int)]
WireTyped ==
    /\ request \in RequestType
    /\ sizes \in [Files -> FileSizes]
    /\ calls \in 0..MaxCalls
    /\ pc \in Pcs
    /\ sent \in Seq(Int)
    /\ hollow \in BOOLEAN
    /\ meant \in Meanings
    /\ mishaps \subseteq Mishaps
BodyTyped ==
    /\ status \in Statuses
    /\ lengths \in Seq(Nat)
    /\ transfers \in Nat
    /\ range \in {NoRange} \cup (Int \X Int)
    /\ body \in Seq(Int)
    /\ isChunked \in BOOLEAN
    /\ writeType \in WriteTypes
    /\ startPos \in Int
    /\ endPos \in Int
    /\ portion \in 0..(WordSize - 1)
    /\ file \in [name : Files \cup {NoFile, Missing}, pos : Int, failed : BOOLEAN]

LEMMA TypeParts == TypeOK <=> WireTyped /\ BodyTyped
  BY DEF TypeOK, WireTyped, BodyTyped, Meanings

\* What a call of the route leaves alone, and what it is for.
LEMMA CallsType ==
    ASSUME WireTyped, NEW w \in Meanings, NEW flaws \in SUBSET Mishaps, Calls(w, flaws), pc' \in Pcs
    PROVE  WireTyped'
<1>1. {"twice"} \subseteq Mishaps
  BY DEF Mishaps
<1>2. calls' \in 0..MaxCalls
  BY MaxCallsAssumption DEF WireTyped, Calls
<1>3. mishaps' \subseteq Mishaps
  BY <1>1 DEF WireTyped, Calls
<1> QED
  BY <1>2, <1>3 DEF Calls, WireTyped, wireVars

LEMMA CallType ==
    ASSUME WireTyped, NEW w \in Meanings, NEW flaws \in SUBSET Mishaps, Call(w, flaws)
    PROVE  WireTyped'
  BY CallsType DEF Call, WireTyped

\* The headers that say how long a body is.
LEMMA HeaderType ==
    ASSUME BodyTyped, NEW n \in Nat, AddLength(n) \/ AddTransfer
    PROVE  lengths' \in Seq(Nat) /\ transfers' \in Nat
<1>1. lengths \in Seq(Nat) /\ transfers \in Nat
  BY DEF BodyTyped
<1>2. CASE AddLength(n)
  BY <1>1, <1>2 DEF AddLength
<1>3. CASE AddTransfer
  BY <1>1, <1>3 DEF AddTransfer
<1> QED
  BY <1>2, <1>3

\* A handle, once it is opened, and the size of its file.
LEMMA FileType ==
    ASSUME sizes \in [Files -> FileSizes],
           file \in [name : Files \cup {NoFile, Missing}, pos : Int, failed : BOOLEAN],
           NEW f \in Files \cup {Missing}
    PROVE  /\ Opened(f) \in [name : Files \cup {NoFile, Missing}, pos : Int, failed : BOOLEAN]
           /\ SizeOf(f) \in 0..(WordSize - 1)
           /\ Opened(f).name \in Files => sizes[Opened(f).name] \in 0..(WordSize - 1)
<1>1. Opened(f) \in [name : Files \cup {NoFile, Missing}, pos : Int, failed : BOOLEAN]
  BY DEF Opened
<1>2. \A g \in Files : sizes[g] \in 0..(WordSize - 1)
  BY LengthsAssumption
<1>3. 0 \in 0..(WordSize - 1)
  BY LengthsAssumption
<1> QED
  BY <1>1, <1>2, <1>3 DEF SizeOf

\* A chunk, and what XFile::read makes of one.
LEMMA ChunkType ==
    ASSUME WireTyped, NEW bytes \in Seq(Int), NEW last \in BOOLEAN, SendChunk(bytes, last)
    PROVE  WireTyped'
<1>1. hollow' \in BOOLEAN
  BY Zenon DEF SendChunk
<1>2. sent' \in Seq(Int)
  BY DEF SendChunk, WireTyped
<1>3. pc' \in Pcs
  BY DEF SendChunk, Pcs
<1> QED
  BY <1>1, <1>2, <1>3 DEF SendChunk, WireTyped

LEMMA ReadType ==
    ASSUME NEW start \in Int, NEW n \in Nat, file.pos \in Int, sizes[file.name] \in Nat
    PROVE  LET got == FileRead(start, n) IN
           got.bytes \in Seq(Int) /\ got.pos \in Int /\ got.failed \in BOOLEAN
<1> DEFINE from == IF start = -1 THEN file.pos ELSE start
           size == sizes[file.name]
           to == IF file.failed \/ from < 0 \/ size <= from THEN from
                 ELSE IF from + n <= size THEN from + n ELSE size
<1>1. from \in Int /\ size \in Nat
  OBVIOUS
<1> HIDE DEF from, size
<1>2. to \in Int
  BY <1>1
<1> HIDE DEF to
<1>3. FileRead(start, n) =
        [bytes |-> Positions(from, to), pos |-> to, failed |-> file.failed \/ to < from + n]
  BY Zenon DEF FileRead, from, size, to
<1>4. (file.failed \/ to < from + n) \in BOOLEAN
  BY Zenon
<1> QED
  BY <1>1, <1>2, <1>3, <1>4, PositionsProperties

LEMMA TypeInit == Init => TypeOK
<1> SUFFICES ASSUME Init PROVE WireTyped /\ BodyTyped
  BY DEF TypeOK, WireTyped, BodyTyped, Meanings
<1>1. <<>> \in Seq(Int) /\ <<>> \in Seq(Nat)
  OBVIOUS
<1>2. meant \in Meanings
  BY <1>1 DEF Init, NothingMeant, Meanings, Statuses, NoRange
<1>3. isChunked \in BOOLEAN /\ hollow \in BOOLEAN
  BY Zenon DEF Init
<1>4. sent \in Seq(Int) /\ body \in Seq(Int) /\ lengths \in Seq(Nat)
  BY <1>1 DEF Init
<1>5. WireTyped
  BY <1>2, <1>3, <1>4, RequestsAssumption, MaxCallsAssumption DEF Init, WireTyped, Pcs
<1>6. portion \in 0..(WordSize - 1)
  BY LengthsAssumption DEF Init
<1>7. file \in [name : Files \cup {NoFile, Missing}, pos : Int, failed : BOOLEAN]
  BY DEF Init, Closed
<1>8. BodyTyped
  BY <1>3, <1>4, <1>6, <1>7 DEF Init, BodyTyped, Statuses, WriteTypes
<1> QED
  BY <1>5, <1>8

LEMMA TypeStep == TypeOK /\ BodyThere /\ ReadInv /\ ChunkPc /\ [Next]_vars => TypeOK'
<1> SUFFICES ASSUME WireTyped, BodyTyped, BodyThere, ReadInv, ChunkPc, [Next]_vars
             PROVE  WireTyped' /\ BodyTyped'
  BY DEF TypeOK, WireTyped, BodyTyped, Meanings
<1> USE DEF headerVars, positionVars, bodyVars, wireVars
<1>a. /\ RouteStatuses \subseteq Statuses /\ "movedTemporarily" \in Statuses
      /\ "partialContent" \in Statuses /\ "badRequest" \in Statuses /\ "ok" \in Statuses
      /\ WriteTypes = {"string", "file", "noBody"}
  BY DEF Statuses, RouteStatuses, WriteTypes
<1>b. /\ <<>> \in Seq(Int) /\ <<>> \in Seq(Nat)
      /\ \A n \in Nat : Positions(0, n) \in Seq(Int)
  BY PositionsProperties
<1>c. {} \subseteq Mishaps /\ {"empty"} \subseteq Mishaps /\ {"range"} \subseteq Mishaps
  BY DEF Mishaps
<1>d. 0 \in 0..(WordSize - 1)
  BY LengthsAssumption
<1>e. /\ \A s \in Statuses : \A b \in Seq(Int) : [status |-> s, body |-> b, range |-> NoRange] \in Meanings
      /\ \A s \in Statuses : [status |-> s, body |-> <<>>, range |-> NoRange] \in Meanings
  BY DEF Meanings
<1>f. \A n \in 0..(WordSize - 1) : n \in Nat
  BY LengthsAssumption
<1>g. \A f \in Files \cup {Missing} :
        /\ Opened(f) \in [name : Files \cup {NoFile, Missing}, pos : Int, failed : BOOLEAN]
        /\ SizeOf(f) \in 0..(WordSize - 1)
        /\ Opened(f).name \in Files => sizes[Opened(f).name] \in 0..(WordSize - 1)
  BY FileType DEF WireTyped, BodyTyped
<1>1. CASE \E s \in RouteStatuses : WriteState(s)
  <2>1. PICK s \in RouteStatuses : WriteState(s)
    BY <1>1
  <2>2. WireTyped'
    <3>1. Call([status |-> s, body |-> <<>>, range |-> NoRange], {})
      BY <2>1 DEF WriteState
    <3> QED
      BY <1>a, <1>b, <1>c, <1>e, <3>1, CallType
  <2>3. isChunked' \in BOOLEAN
    BY <2>1, Zenon DEF WriteState
  <2>4. BodyTyped'
    BY <1>a, <2>1, <2>3 DEF WriteState, BodyTyped
  <2> QED
    BY <2>2, <2>4
<1>2. CASE \E n \in Texts, chunked \in BOOLEAN, s \in RouteStatuses : WriteString(n, chunked, s)
  <2>1. PICK n \in Texts, chunked \in BOOLEAN, s \in RouteStatuses : WriteString(n, chunked, s)
    BY <1>2
  <2>2. n \in Nat /\ Positions(0, n) \in Seq(Int)
    BY <1>b, LengthsAssumption
  <2>3. WireTyped'
    <3>1. \E flaws \in {{}, {"empty"}} : Call([status |-> s, body |-> Positions(0, n), range |-> NoRange], flaws)
      BY <2>1 DEF WriteString
    <3> QED
      BY <1>a, <1>c, <1>e, <2>2, <3>1, CallType
  <2>4. lengths' \in Seq(Nat) /\ transfers' \in Nat
    BY <2>1, <2>2, HeaderType DEF WriteString, StringWritten
  <2>5. BodyTyped'
    BY <1>a, <2>1, <2>2, <2>4 DEF WriteString, StringWritten, BodyTyped
  <2> QED
    BY <2>3, <2>5
<1>3. CASE \E f \in Files \cup {Missing} : WriteFile(f)
  <2>1. PICK f \in Files \cup {Missing} : WriteFile(f)
    BY <1>3
  <2>2. CASE WriteFileMissing(f)
    <3>1. WireTyped'
      <4>1. Call([status |-> "badRequest", body |-> <<>>, range |-> NoRange], {})
        BY <2>2 DEF WriteFileMissing
      <4> QED
        BY <1>a, <1>b, <1>c, <1>e, <4>1, CallType
    <3>2. lengths' \in Seq(Nat) /\ transfers' \in Nat
      BY <2>2, HeaderType DEF WriteFileMissing, StringWritten
    <3>3. file' \in [name : Files \cup {NoFile, Missing}, pos : Int, failed : BOOLEAN]
      BY <1>g, <2>2 DEF WriteFileMissing
    <3>4. isChunked' \in BOOLEAN
      BY <2>2, Zenon DEF WriteFileMissing, StringWritten
    <3>5. body' \in Seq(Int)
      BY <1>b, <2>2 DEF WriteFileMissing, StringWritten
    <3>6. BodyTyped'
      BY <1>a, <2>2, <3>2, <3>3, <3>4, <3>5 DEF WriteFileMissing, StringWritten, BodyTyped
    <3> QED
      BY <3>1, <3>6
  <2>3. CASE WriteFileHead(f)
    <3>1. WireTyped'
      <4>1. Call([status |-> "ok", body |-> <<>>, range |-> NoRange], {})
        BY <2>3 DEF WriteFileHead
      <4> QED
        BY <1>a, <1>b, <1>c, <1>e, <4>1, CallType
    <3>2. file' \in [name : Files \cup {NoFile, Missing}, pos : Int, failed : BOOLEAN]
          /\ sizes[file'.name] \in Nat
      BY <1>f, <1>g, <2>3 DEF WriteFileHead
    <3>3. lengths' \in Seq(Nat) /\ transfers' \in Nat
      BY <2>3, <3>2, HeaderType DEF WriteFileHead
    <3>4. isChunked' \in BOOLEAN
      BY <2>3, Zenon DEF WriteFileHead
    <3>5. BodyTyped'
      BY <1>a, <2>3, <3>2, <3>3, <3>4 DEF WriteFileHead, BodyTyped
    <3> QED
      BY <3>1, <3>5
  <2>4. CASE WriteFileWhole(f)
    <3>1. WireTyped'
      <4>1. Calls([status |-> "ok", body |-> Positions(0, SizeOf(f)), range |-> NoRange], {})
            /\ pc' \in Pcs
        BY <2>4 DEF WriteFileWhole, Pcs
      <4>2. Positions(0, SizeOf(f)) \in Seq(Int)
        BY <1>b, <1>f, <1>g
      <4> QED
        BY <1>a, <1>c, <1>e, <4>1, <4>2, CallsType
    <3>2. /\ Opened(f) \in [name : Files \cup {NoFile, Missing}, pos : Int, failed : BOOLEAN]
          /\ sizes[Opened(f).name] \in Nat
      BY <1>f, <1>g, <2>4 DEF WriteFileWhole, FileWritten
    <3>3. lengths' \in Seq(Nat) /\ transfers' \in Nat
      BY <2>4, <3>2, HeaderType DEF WriteFileWhole
    <3>4. body' \in Seq(Int)
      BY <2>4 DEF WriteFileWhole, BodyTyped
    <3>5. file' \in [name : Files \cup {NoFile, Missing}, pos : Int, failed : BOOLEAN]
      BY <2>4, <3>2 DEF WriteFileWhole
    <3>6. isChunked' \in BOOLEAN
      BY <2>4, Zenon DEF WriteFileWhole, FileWritten
    <3>7. BodyTyped'
      BY <1>a, <1>d, <2>4, <3>3, <3>4, <3>5, <3>6 DEF WriteFileWhole, FileWritten, BodyTyped
    <3> QED
      BY <3>1, <3>7
  <2>5. CASE WriteFileChunked(f)
    <3>1. WireTyped'
      <4>1. \E flaws \in {{}, {"empty"}} : Call([status |-> "ok", body |-> Positions(0, SizeOf(f)), range |-> NoRange], flaws)
        BY <2>5 DEF WriteFileChunked
      <4>2. Positions(0, SizeOf(f)) \in Seq(Int)
        BY <1>b, <1>f, <1>g
      <4> QED
        BY <1>a, <1>c, <1>e, <4>1, <4>2, CallType
    <3>2. /\ file' \in [name : Files \cup {NoFile, Missing}, pos : Int, failed : BOOLEAN]
          /\ sizes[file'.name] \in 0..(WordSize - 1)
      BY <1>g, <2>5 DEF WriteFileChunked, FileWritten
    <3>3. lengths' \in Seq(Nat) /\ transfers' \in Nat
      BY <2>5, HeaderType DEF WriteFileChunked
    <3>4. body' \in Seq(Int)
      BY <1>b, <2>5, ChunkAssumption DEF WriteFileChunked
    <3>5. BodyTyped'
      BY <1>a, <2>5, <3>2, <3>3, <3>4 DEF WriteFileChunked, FileWritten, BodyTyped
    <3> QED
      BY <3>1, <3>5
  <2>6. CASE WriteFileRange(f)
    <3> DEFINE w == Wanted(request.range, SizeOf(f))
               accepted == AcceptRange(request.range)
               size == sizes[Opened(f).name]
    <3>1. /\ Opened(f) \in [name : Files \cup {NoFile, Missing}, pos : Int, failed : BOOLEAN]
          /\ size \in 0..(WordSize - 1) /\ SizeOf(f) \in 0..(WordSize - 1)
      BY <1>g, <2>6 DEF WriteFileRange, FileWritten
    <3>2. request.range \in RangeType /\ request.range.kind # "none"
      BY <2>6 DEF WriteFileRange, WireTyped, RequestType
    <3>3. w \in Int \X Int
      BY <3>1, <3>2, RangeTypes
    <3>4. accepted \in Int \X Int /\ Portion(accepted[1], accepted[2], size) \in 0..(WordSize - 1)
      BY <3>1, <3>2, RangeTypes
    <3>5. lengths' \in Seq(Nat) /\ transfers' \in Nat
      BY <2>6, HeaderType DEF WriteFileRange
    <3>6. body' \in Seq(Int)
      BY <1>b, <2>6, ChunkAssumption DEF WriteFileRange
    <3>7. [status |-> "partialContent", body |-> Positions(w[1], w[2] + 1), range |-> w] \in Meanings
      BY <1>a, <3>3, PositionsProperties DEF Meanings
    <3>8. /\ file' = Opened(f) /\ status' = "partialContent" /\ writeType' = "file"
          /\ isChunked' = TRUE
          /\ startPos' = accepted[1] /\ endPos' = accepted[2]
          /\ portion' = Portion(accepted[1], accepted[2], size)
          /\ range' = <<accepted[1], IF accepted[2] = -1 THEN size - 1 ELSE accepted[2]>>
      BY <2>6 DEF WriteFileRange, FileWritten
    <3>9. \E flaws \in {{}, {"range"}} :
            Call([status |-> "partialContent", body |-> Positions(w[1], w[2] + 1), range |-> w], flaws)
      BY <2>6 DEF WriteFileRange
    <3> HIDE DEF w, accepted, size
    <3>10. /\ startPos' \in Int /\ endPos' \in Int /\ portion' \in 0..(WordSize - 1)
           /\ range' \in Int \X Int
      BY <3>1, <3>4, <3>8
    <3>11. WireTyped'
      BY <1>c, <3>7, <3>9, CallType
    <3>12. BodyTyped'
      BY <1>a, <3>1, <3>5, <3>6, <3>8, <3>10 DEF BodyTyped
    <3> QED
      BY <3>11, <3>12
  <2> QED
    BY <2>1, <2>2, <2>3, <2>4, <2>5, <2>6 DEF WriteFile
<1>4. CASE Redirect
  <2>1. WireTyped'
    <3>1. Call([status |-> "movedTemporarily", body |-> <<>>, range |-> NoRange], {})
      BY <1>4 DEF Redirect
    <3> QED
      BY <1>a, <1>b, <1>c, <1>e, <3>1, CallType
  <2>2. BodyTyped'
    BY <1>a, <1>4 DEF Redirect, BodyTyped
  <2> QED
    BY <2>1, <2>2
<1>5. CASE \E terminate \in BOOLEAN : Release(terminate)
  <2>1. request' \in RequestType
    BY <1>5 DEF Release, WireTyped, RequestType
  <2>2. lengths' \in Seq(Nat) /\ sent' \in Seq(Int)
    BY <1>b, <1>5 DEF Release, BodyTyped
  <2>3. mishaps' \subseteq Mishaps
    BY <1>5 DEF Release, WireTyped, Mishaps
  <2>4. pc' \in Pcs
    BY <1>5 DEF Release, Pcs
  <2> QED
    BY <1>5, <2>1, <2>2, <2>3, <2>4 DEF Release, WireTyped, BodyTyped
<1>6. CASE ChunkString
  <2> DEFINE left == (Len(body) - startPos) % WordSize
             rest == SubSeq(body, startPos + 1, startPos + left)
             next == SubSeq(body, startPos + 1, startPos + ChunkSize)
  <2>1. /\ left <= ChunkSize => SendChunk(rest, TRUE) /\ UNCHANGED startPos
        /\ ~(left <= ChunkSize) => SendChunk(next, FALSE) /\ startPos' = startPos + ChunkSize
        /\ UNCHANGED <<endPos, portion, file>>
    BY <1>6 DEF ChunkString
  <2>2. startPos \in 0..Len(body) /\ body \in Seq(Int) /\ ChunkSize \in Nat /\ left = Len(body) - startPos
    <3>1. body \in Seq(Int) /\ isChunked /\ writeType = "string"
      BY <1>6 DEF ChunkString, BodyTyped, ChunkPc
    <3>2. Len(body) \in Nat /\ Len(body) < WordSize /\ startPos \in 0..Len(body)
      BY <3>1 DEF BodyThere
    <3>3. Len(body) - startPos \in 0..(WordSize - 1)
      BY <3>2, LengthsAssumption
    <3>4. left = Len(body) - startPos
      BY <3>3, LengthsAssumption
    <3> QED
      BY <3>1, <3>2, <3>4, ChunkAssumption
  <2>3. left \in Int /\ rest \in Seq(Int) /\ (left > ChunkSize => next \in Seq(Int))
    <3>1. left \in Int /\ rest \in Seq(Int)
      BY <2>2
    <3>2. ASSUME left > ChunkSize PROVE next \in Seq(Int)
      BY <2>2, <3>2
    <3> QED
      BY <3>1, <3>2
  <2> HIDE DEF left, rest, next
  <2>4. WireTyped'
    <3>1. CASE left <= ChunkSize
      BY <2>1, <2>3, <3>1, ChunkType
    <3>2. CASE left > ChunkSize
      <4>1. ~(left <= ChunkSize)
        BY <2>2, <2>3, <3>2
      <4> QED
        BY <2>1, <2>3, <3>2, <4>1, ChunkType
    <3> QED
      BY <2>2, <2>3, <3>1, <3>2
  <2>5. startPos' \in Int
    <3>1. startPos \in Int /\ startPos + ChunkSize \in Int
      BY <2>2
    <3> QED
      BY <2>1, <3>1
  <2>6. BodyTyped'
    BY <2>1, <2>5 DEF SendChunk, BodyTyped
  <2> QED
    BY <2>4, <2>6
<1>7. CASE ChunkFile
  <2> DEFINE n == IF portion > ChunkSize THEN ChunkSize ELSE portion
             got == FileRead(startPos, n)
  <2>1. file.name \in Files /\ file.pos \in Int /\ sizes[file.name] \in Nat
    BY <1>7, LengthsAssumption DEF BodyThere, ChunkFile, WireTyped, BodyTyped
  <2>2. n \in Nat /\ startPos \in Int /\ portion' \in 0..(WordSize - 1)
    BY <1>7, ChunkAssumption, LengthsAssumption DEF ChunkFile, BodyTyped
  <2>3. /\ SendChunk(got.bytes, portion <= ChunkSize)
        /\ file' = [file EXCEPT !.pos = got.pos, !.failed = got.failed]
        /\ startPos' = -1 /\ endPos' = -1
    BY <1>7 DEF ChunkFile
  <2> HIDE DEF n
  <2>4. got.bytes \in Seq(Int) /\ got.pos \in Int /\ got.failed \in BOOLEAN
    BY <2>1, <2>2, ReadType
  <2> HIDE DEF got
  <2>5. (portion <= ChunkSize) \in BOOLEAN
    OBVIOUS
  <2>6. WireTyped'
    BY <2>3, <2>4, <2>5, ChunkType
  <2>7. file' \in [name : Files \cup {NoFile, Missing}, pos : Int, failed : BOOLEAN]
    BY <2>3, <2>4 DEF BodyTyped
  <2>8. BodyTyped'
    BY <2>2, <2>3, <2>7 DEF SendChunk, BodyTyped
  <2> QED
    BY <2>6, <2>8
<1>8. CASE ChunkNone \/ EndChunk \/ Disconnect
  BY <1>8 DEF ChunkNone, EndChunk, Disconnect, WireTyped, BodyTyped, Pcs
<1>9. CASE NextRequest
  <2>1. Closed \in [name : Files \cup {NoFile, Missing}, pos : Int, failed : BOOLEAN]
    BY DEF Closed
  <2>2. isChunked' \in BOOLEAN /\ hollow' \in BOOLEAN
    BY <1>9, Zenon DEF NextRequest, Reset
  <2>3. sent' \in Seq(Int) /\ body' \in Seq(Int) /\ lengths' \in Seq(Nat)
    BY <1>b, <1>9 DEF NextRequest, Reset
  <2>4. BodyTyped'
    BY <1>a, <1>d, <1>9, <2>1, <2>2, <2>3 DEF NextRequest, Reset, BodyTyped
  <2>5. NothingMeant \in Meanings
    BY <1>b DEF NothingMeant, Meanings, Statuses
  <2>6. WireTyped'
    BY <1>c, <1>9, <2>2, <2>3, <2>5, RequestsAssumption, MaxCallsAssumption DEF NextRequest, WireTyped, Pcs
  <2> QED
    BY <2>4, <2>6
<1>10. CASE \E f \in Files : FileChanges(f)
  BY <1>10 DEF FileChanges, WireTyped, BodyTyped, Mishaps
<1>11. CASE ReadAll
  <2>1. sizes[file.name] \in Int /\ file.pos \in Int
    BY <1>11, LengthsAssumption DEF ReadAll, ReadInv, BodyThere, WireTyped, BodyTyped
  <2>2. body' \in Seq(Int)
    BY <1>11, <2>1, PositionsProperties DEF ReadAll
  <2>3. file' \in [name : Files \cup {NoFile, Missing}, pos : Int, failed : BOOLEAN]
    BY <1>11, <2>1 DEF ReadAll, BodyTyped
  <2> QED
    BY <1>11, <2>2, <2>3 DEF ReadAll, WireTyped, BodyTyped, Pcs
<1>12. CASE UNCHANGED vars
  BY <1>12 DEF vars, WireTyped, BodyTyped
<1> QED
  BY <1>1, <1>2, <1>3, <1>4, <1>5, <1>6, <1>7, <1>8, <1>9, <1>10, <1>11, <1>12 DEF Next

-----------------------------------------------------------------------------
(* The calls of the route.                                                 *)

\* Two things that hold of a call that leaves no mishap behind: the response
\* had no framing header, and what there was of it was empty.
LEMMA CallsFacts ==
    ASSUME IInv, NEW w, NEW flaws, Calls(w, flaws)
    PROVE  /\ meant' = w /\ sent' = sent /\ hollow' = hollow /\ sizes' = sizes /\ request' = request
           /\ mishaps' = {} =>
                /\ flaws = {} /\ mishaps = {}
                /\ lengths = <<>> /\ transfers = 0
                /\ sent = <<>> /\ ~hollow /\ ~isChunked
                /\ body = <<>> /\ file = Closed /\ range = NoRange
<1>1. /\ pc = "route" /\ meant' = w
      /\ sent' = sent /\ hollow' = hollow /\ sizes' = sizes /\ request' = request
  BY DEF Calls, wireVars
<1>2. ASSUME mishaps' = {}
      PROVE  /\ flaws = {} /\ mishaps = {}
             /\ lengths = <<>> /\ transfers = 0
             /\ sent = <<>> /\ ~hollow /\ ~isChunked
             /\ body = <<>> /\ file = Closed /\ range = NoRange
  <2>1. flaws = {} /\ mishaps = {} /\ ~(Framings > 0)
    BY <1>2 DEF Calls
  <2>2. lengths \in Seq(Nat) /\ transfers \in Nat
    BY DEF IInv, TypeOK
  <2>3. Len(lengths) = 0 /\ transfers = 0 /\ Framings = 0
    BY <2>1, <2>2 DEF Framings
  <2>4. lengths = <<>>
    BY <2>2, <2>3
  <2>5. /\ sent = <<>> /\ ~hollow /\ ~isChunked
        /\ body = <<>> /\ file = Closed /\ range = NoRange
    BY <1>1, <2>1, <2>3, Zenon DEF IInv, RouteInv
  <2> QED
    BY <2>1, <2>3, <2>4, <2>5
<1> QED
  BY <1>1, <1>2

LEMMA CallFacts ==
    ASSUME IInv, NEW w, NEW flaws, Call(w, flaws)
    PROVE  /\ Calls(w, flaws) /\ pc' = "route" /\ ReadInv' /\ ChunkPc' /\ WrittenInv'
           /\ meant' = w /\ sent' = sent /\ hollow' = hollow /\ sizes' = sizes /\ request' = request
           /\ mishaps' = {} =>
                /\ flaws = {} /\ mishaps = {}
                /\ lengths = <<>> /\ transfers = 0
                /\ sent = <<>> /\ ~hollow /\ ~isChunked
                /\ body = <<>> /\ file = Closed /\ range = NoRange
<1>1. Calls(w, flaws) /\ pc' = "route"
  BY DEF Call, Calls
<1>2. ReadInv' /\ ChunkPc' /\ WrittenInv'
  BY <1>1 DEF ReadInv, ChunkPc, WrittenInv
<1> QED
  BY <1>1, <1>2, CallsFacts

\* A response gets its first framing header.
LEMMA FirstHeader ==
    ASSUME lengths = <<>>, transfers = 0, NEW n \in Nat
    PROVE  /\ AddLength(n) => Len(lengths') = 1 /\ lengths'[1] = n /\ transfers' = 0 /\ Framings' = 1
           /\ AddTransfer => lengths' = <<>> /\ transfers' = 1 /\ Framings' = 1
<1>1. ASSUME AddLength(n)
      PROVE  Len(lengths') = 1 /\ lengths'[1] = n /\ transfers' = 0 /\ Framings' = 1
  <2>1. lengths' = <<n>> /\ transfers' = 0
    BY <1>1 DEF AddLength
  <2> QED
    BY <2>1 DEF Framings
<1>2. ASSUME AddTransfer PROVE lengths' = <<>> /\ transfers' = 1 /\ Framings' = 1
  BY <1>2 DEF AddTransfer, Framings
<1> QED
  BY <1>1, <1>2

\* What the invariant says of the body, before the response is written.
BodyInv == BodyThere /\ ChunkedFramed /\ RouteInv /\ ChunkInv

LEMMA WriteStateStep ==
    ASSUME IInv, NEW s \in RouteStatuses, WriteState(s)
    PROVE  BodyInv'
<1> DEFINE w == [status |-> s, body |-> <<>>, range |-> NoRange]
<1>1. /\ Call(w, {}) /\ writeType' = "noBody" /\ status' = s /\ ~isChunked'
      /\ UNCHANGED <<lengths, transfers, range, body, file>>
  BY DEF WriteState
<1>2. BodyThere' /\ ChunkedFramed' /\ ChunkInv'
  BY <1>1 DEF BodyThere, ChunkedFramed, ChunkInv
<1>3. ASSUME mishaps' = {} PROVE RouteInv'
  <2>1. /\ lengths' = <<>> /\ transfers' = 0 /\ sent' = <<>> /\ ~hollow' /\ meant' = w
        /\ body' = <<>> /\ file' = Closed /\ range' = NoRange
    BY <1>1, <1>3, CallFacts
  <2>2. Framings' = 0
    BY <2>1 DEF Framings
  <2> QED
    BY <1>1, <2>1, <2>2 DEF RouteInv
<1>4. mishaps' # {} => RouteInv'
  BY DEF RouteInv
<1> QED
  BY <1>2, <1>3, <1>4 DEF BodyInv

LEMMA RedirectStep ==
    ASSUME IInv, Redirect
    PROVE  BodyInv'
<1> DEFINE w == [status |-> "movedTemporarily", body |-> <<>>, range |-> NoRange]
<1>1. /\ Call(w, {}) /\ writeType' = "noBody" /\ status' = "movedTemporarily"
      /\ UNCHANGED <<lengths, transfers, range, body, isChunked, file>>
  BY DEF Redirect
<1>2. BodyThere' /\ ChunkedFramed' /\ ChunkInv'
  BY <1>1 DEF IInv, BodyThere, ChunkedFramed, ChunkInv
<1>3. ASSUME mishaps' = {} PROVE RouteInv'
  <2>1. /\ lengths' = <<>> /\ transfers' = 0 /\ sent' = <<>> /\ ~hollow' /\ meant' = w
        /\ body' = <<>> /\ file' = Closed /\ range' = NoRange /\ ~isChunked'
    BY <1>1, <1>3, CallFacts
  <2>2. Framings' = 0
    BY <2>1 DEF Framings
  <2> QED
    BY <1>1, <2>1, <2>2 DEF RouteInv
<1>4. mishaps' # {} => RouteInv'
  BY DEF RouteInv
<1> QED
  BY <1>2, <1>3, <1>4 DEF BodyInv

LEMMA WriteStringStep ==
    ASSUME IInv, NEW n \in Texts, NEW chunked \in BOOLEAN, NEW s \in RouteStatuses,
           WriteString(n, chunked, s)
    PROVE  BodyInv'
<1> DEFINE w == [status |-> s, body |-> Positions(0, n), range |-> NoRange]
           flaws == IF chunked /\ n = 0 THEN {"empty"} ELSE {}
<1>1. /\ Call(w, flaws) /\ writeType' = "string" /\ status' = s
      /\ body' = Positions(0, n) /\ startPos' = 0 /\ UNCHANGED <<range, file>>
      /\ isChunked' = chunked
      /\ chunked => AddTransfer
      /\ ~chunked => AddLength(n)
  BY DEF WriteString, StringWritten
<1>2. n \in Nat /\ n < WordSize
  BY LengthsAssumption
<1>3. Positions(0, n) \in Seq(Int) /\ Len(Positions(0, n)) = n
  BY <1>2, PositionsWhole
<1>4. BodyThere'
  BY <1>1, <1>2, <1>3 DEF BodyThere
<1>5. ChunkedFramed'
  BY <1>1 DEF IInv, TypeOK, ChunkedFramed, AddTransfer
<1>6. ASSUME mishaps' = {} PROVE RouteInv' /\ ChunkInv'
  <2>1. /\ flaws = {} /\ lengths = <<>> /\ transfers = 0 /\ sent' = <<>> /\ ~hollow' /\ meant' = w
        /\ range' = NoRange
    BY <1>1, <1>6, CallFacts
  <2>2. CASE chunked
    <3>1. lengths' = <<>> /\ transfers' = 1 /\ Framings' = 1 /\ isChunked'
      BY <1>1, <2>1, <2>2, FirstHeader
    <3>2. n > 0
      BY <1>2, <2>1, <2>2
    <3>3. RouteInv'
      BY <1>1, <2>1, <3>1 DEF RouteInv
    <3>4. <<>> = SubSeq(body', 1, 0)
      BY <1>1, <1>3
    <3>5. ChunkInv'
      BY <1>1, <1>3, <2>1, <3>1, <3>2, <3>4 DEF ChunkInv
    <3> QED
      BY <3>3, <3>5
  <2>3. CASE ~chunked
    <3>1. Len(lengths') = 1 /\ lengths'[1] = n /\ transfers' = 0 /\ Framings' = 1 /\ ~isChunked'
      BY <1>1, <1>2, <2>1, <2>3, FirstHeader
    <3>2. RouteInv'
      BY <1>1, <1>3, <2>1, <3>1 DEF RouteInv
    <3>3. ChunkInv'
      BY <3>1 DEF ChunkInv
    <3> QED
      BY <3>2, <3>3
  <2> QED
    BY <2>2, <2>3
<1>7. mishaps' # {} => RouteInv' /\ ChunkInv'
  BY DEF RouteInv, ChunkInv
<1> QED
  BY <1>4, <1>5, <1>6, <1>7 DEF BodyInv

\* The first call opens the file it names.
LEMMA FirstFile ==
    ASSUME IInv, file = Closed, NEW f \in Files \cup {Missing}, Opened(f).name \in Files
    PROVE  /\ f \in Files /\ Opened(f).name = f /\ Opened(f).pos = 0 /\ ~Opened(f).failed
           /\ SizeOf(f) = sizes[f] /\ sizes[f] \in 0..(WordSize - 1) /\ sizes[f] \in Nat
<1>1. Opened(f) = [name |-> f, pos |-> 0, failed |-> FALSE]
  BY DEF Opened, Closed
<1>2. f \in Files
  BY <1>1, FilesAssumption
<1>3. sizes[f] \in 0..(WordSize - 1)
  BY <1>2, LengthsAssumption DEF IInv, TypeOK
<1> QED
  BY <1>1, <1>2, <1>3, LengthsAssumption DEF SizeOf

LEMMA WriteFileMissingStep ==
    ASSUME IInv, NEW f \in Files \cup {Missing}, WriteFileMissing(f)
    PROVE  BodyInv'
<1> DEFINE w == [status |-> "badRequest", body |-> <<>>, range |-> NoRange]
<1>1. /\ Call(w, {}) /\ writeType' = "string" /\ status' = "badRequest"
      /\ body' = Positions(0, 0) /\ UNCHANGED range /\ ~isChunked' /\ AddLength(0)
  BY DEF WriteFileMissing, StringWritten
<1>2. Positions(0, 0) = <<>>
  BY PositionsProperties
<1>3. BodyThere' /\ ChunkedFramed' /\ ChunkInv'
  BY <1>1 DEF BodyThere, ChunkedFramed, ChunkInv
<1>4. ASSUME mishaps' = {} PROVE RouteInv'
  <2>1. /\ lengths = <<>> /\ transfers = 0 /\ sent' = <<>> /\ ~hollow' /\ meant' = w
        /\ range' = NoRange
    BY <1>1, <1>4, CallFacts
  <2>2. Len(lengths') = 1 /\ lengths'[1] = 0 /\ transfers' = 0 /\ Framings' = 1
    BY <1>1, <2>1, FirstHeader
  <2> QED
    BY <1>1, <1>2, <2>1, <2>2 DEF RouteInv
<1>5. mishaps' # {} => RouteInv'
  BY DEF RouteInv
<1> QED
  BY <1>3, <1>4, <1>5 DEF BodyInv

LEMMA WriteFileHeadStep ==
    ASSUME IInv, NEW f \in Files \cup {Missing}, WriteFileHead(f)
    PROVE  BodyInv'
<1> DEFINE w == [status |-> "ok", body |-> <<>>, range |-> NoRange]
<1>1. /\ request.head /\ Opened(f).name \in Files
      /\ Call(w, {}) /\ writeType' = "string" /\ status' = "ok"
      /\ UNCHANGED <<range, body>> /\ ~isChunked' /\ AddLength(sizes[Opened(f).name])
  BY DEF WriteFileHead
<1>2. BodyThere' /\ ChunkedFramed' /\ ChunkInv'
  BY <1>1 DEF BodyThere, ChunkedFramed, ChunkInv
<1>3. ASSUME mishaps' = {} PROVE RouteInv'
  <2>1. /\ lengths = <<>> /\ transfers = 0 /\ sent' = <<>> /\ ~hollow' /\ meant' = w
        /\ range' = NoRange /\ body' = <<>> /\ file = Closed /\ request'.head
    BY <1>1, <1>3, CallFacts
  <2>2. sizes[Opened(f).name] \in Nat
    BY <1>1, <2>1, FirstFile
  <2>3. Len(lengths') = 1 /\ transfers' = 0 /\ Framings' = 1
    BY <1>1, <2>1, <2>2, FirstHeader
  <2> QED
    BY <1>1, <2>1, <2>3 DEF RouteInv
<1>4. mishaps' # {} => RouteInv'
  BY DEF RouteInv
<1> QED
  BY <1>2, <1>3, <1>4 DEF BodyInv

\* A file that is to be read at once is opened, and then read.
LEMMA WriteFileWholeStep ==
    ASSUME IInv, NEW f \in Files \cup {Missing}, WriteFileWhole(f)
    PROVE  BodyInv' /\ ReadInv' /\ ChunkPc' /\ WrittenInv'
<1> DEFINE w == [status |-> "ok", body |-> Positions(0, SizeOf(f)), range |-> NoRange]
           size == sizes[Opened(f).name]
<1>1. /\ Opened(f).name \in Files /\ pc' = "readAll"
      /\ Calls(w, {}) /\ writeType' = "file" /\ status' = "ok" /\ ~isChunked'
      /\ AddLength(size) /\ file' = Opened(f) /\ UNCHANGED range
  BY DEF WriteFileWhole, FileWritten
<1>2. BodyThere' /\ ChunkedFramed' /\ RouteInv' /\ ChunkInv' /\ ChunkPc' /\ WrittenInv'
  BY <1>1 DEF BodyThere, ChunkedFramed, RouteInv, ChunkInv, ChunkPc, WrittenInv
<1>3. ASSUME mishaps' = {} PROVE ReadInv'
  <2>1. /\ lengths = <<>> /\ transfers = 0 /\ sent' = <<>> /\ ~hollow' /\ meant' = w
        /\ range' = NoRange /\ file = Closed /\ sizes' = sizes
    BY <1>1, <1>3, CallsFacts
  <2>2. size \in Nat /\ SizeOf(f) = size /\ Opened(f).pos = 0
    BY <1>1, <2>1, FirstFile
  <2>3. sizes'[file'.name] = size
    BY <1>1, <2>1
  <2> HIDE DEF size
  <2>4. Len(lengths') = 1 /\ lengths'[1] = size /\ transfers' = 0 /\ Framings' = 1
    BY <1>1, <2>1, <2>2, FirstHeader
  <2> QED
    BY <1>1, <2>1, <2>2, <2>3, <2>4 DEF ReadInv
<1>4. mishaps' # {} => ReadInv'
  BY <1>1 DEF ReadInv
<1> QED
  BY <1>2, <1>3, <1>4 DEF BodyInv

LEMMA ReadAllStep ==
    ASSUME IInv, ReadAll
    PROVE  BodyInv' /\ ReadInv' /\ ChunkPc' /\ WrittenInv'
<1>1. /\ pc = "readAll" /\ pc' = "route" /\ body' = Positions(file.pos, sizes[file.name])
      /\ file'.name = file.name
      /\ UNCHANGED <<request, sizes, headerVars, isChunked, writeType, wireVars, meant, mishaps>>
  BY DEF ReadAll, IInv, TypeOK
<1>2. writeType = "file" /\ ~isChunked /\ file.name \in Files
  BY <1>1 DEF IInv, ReadInv, BodyThere
<1>3. BodyThere' /\ ChunkedFramed' /\ ReadInv' /\ ChunkInv' /\ ChunkPc' /\ WrittenInv'
  BY <1>1, <1>2 DEF BodyThere, ChunkedFramed, ReadInv, ChunkInv, ChunkPc, WrittenInv
<1>4. ASSUME mishaps = {} PROVE RouteInv'
  <2>1. /\ sent = <<>> /\ ~hollow /\ Framings = 1 /\ transfers = 0
        /\ status = meant.status /\ range = meant.range
        /\ file.pos = 0 /\ lengths[1] = sizes[file.name]
        /\ meant.body = Positions(0, sizes[file.name])
    BY <1>1, <1>4 DEF IInv, ReadInv
  <2>2. sizes[file.name] \in Nat
    <3>1. sizes \in [Files -> FileSizes]
      BY DEF IInv, TypeOK
    <3>2. FileSizes \subseteq Nat
      BY LengthsAssumption
    <3> QED
      BY <1>2, <3>1, <3>2
  <2>3. body' = meant.body /\ Len(body') = sizes[file.name]
    BY <1>1, <2>1, <2>2, PositionsWhole
  <2>4. Framings' = 1
    BY <1>1, <2>1 DEF Framings, headerVars
  <2> QED
    BY <1>1, <1>2, <2>1, <2>3, <2>4 DEF RouteInv, headerVars, wireVars
<1>5. mishaps # {} => RouteInv'
  BY <1>1 DEF RouteInv
<1> QED
  BY <1>3, <1>4, <1>5 DEF BodyInv

\* A file, or a part of it, that is to be sent in chunks.
LEMMA WriteFileChunkedStep ==
    ASSUME IInv, NEW f \in Files \cup {Missing}, WriteFileChunked(f) \/ WriteFileRange(f)
    PROVE  BodyInv'
<1>1. /\ Opened(f).name \in Files /\ file' = Opened(f)
      /\ writeType' = "file" /\ isChunked' /\ AddTransfer
  BY DEF WriteFileChunked, WriteFileRange, FileWritten
<1>2. BodyThere' /\ ChunkedFramed'
  BY <1>1 DEF IInv, TypeOK, BodyThere, ChunkedFramed, AddTransfer
<1>3. ASSUME mishaps' = {},
             NEW w, NEW flaws, Call(w, flaws), lengths' = <<>>, transfers' = 1, sent' = <<>>,
             ~hollow', meant' = w, NEW first \in Nat, NEW n \in Nat \ {0},
             first = Position', portion' = n, first + n <= sizes[f],
             file'.name = f, f \in Files, ~file'.failed, sizes' = sizes,
             status' = w.status, range' = w.range, w.body = Positions(first, first + n)
      PROVE  RouteInv' /\ ChunkInv'
  <2>1. Framings' = 1
    BY <1>3 DEF Framings
  <2>2. RouteInv'
    BY <1>1, <1>3, <2>1 DEF RouteInv
  <2>3. sent' = Positions(first, first)
    BY <1>3, PositionsProperties
  <2>4. \E start \in Nat :
          /\ start <= Position'
          /\ sent' = Positions(start, Position')
          /\ meant'.body = Positions(start, Position' + portion')
    BY <1>3, <2>3
  <2>5. ChunkInv'
    BY <1>1, <1>3, <2>4 DEF ChunkInv
  <2> QED
    BY <2>2, <2>5
<1>4. ASSUME mishaps' = {}, WriteFileChunked(f) PROVE RouteInv' /\ ChunkInv'
  <2> DEFINE w == [status |-> "ok", body |-> Positions(0, SizeOf(f)), range |-> NoRange]
             flaws == IF SizeOf(f) = 0 THEN {"empty"} ELSE {}
  <2>1. /\ Call(w, flaws) /\ status' = "ok" /\ startPos' = -1
        /\ portion' = sizes[Opened(f).name] /\ UNCHANGED range
    BY <1>1, <1>4 DEF WriteFileChunked
  <2>2. /\ flaws = {} /\ lengths = <<>> /\ transfers = 0 /\ sent' = <<>> /\ ~hollow' /\ meant' = w
        /\ range' = NoRange /\ file = Closed /\ sizes' = sizes
    BY <1>4, <2>1, CallFacts
  <2>3. lengths' = <<>> /\ transfers' = 1
    BY <1>1, <2>2, FirstHeader
  <2>4. /\ f \in Files /\ file'.name = f /\ file'.pos = 0 /\ ~file'.failed
        /\ SizeOf(f) = sizes[f] /\ sizes[f] \in Nat
    BY <1>1, <2>2, FirstFile
  <2>5. sizes[f] \in Nat \ {0}
    BY <2>2, <2>4
  <2>6. Position' = 0 /\ portion' = sizes[f] /\ 0 + sizes[f] <= sizes[f]
    BY <1>1, <2>1, <2>4 DEF Position
  <2>7. w.body = Positions(0, 0 + sizes[f])
    BY <2>4
  <2> QED
    BY <1>3, <1>4, <2>1, <2>2, <2>3, <2>4, <2>5, <2>6, <2>7
<1>5. ASSUME mishaps' = {}, WriteFileRange(f) PROVE RouteInv' /\ ChunkInv'
  <2> DEFINE r == request.range
             size == sizes[f]
             v == Wanted(r, SizeOf(f))
             a == AcceptRange(r)
             w == [status |-> "partialContent", body |-> Positions(v[1], v[2] + 1), range |-> v]
             flaws == IF r.kind = "last" \/ ~WithinFile(r, SizeOf(f)) THEN {"range"} ELSE {}
  <2>1. /\ Call(w, flaws) /\ status' = "partialContent" /\ startPos' = a[1]
        /\ portion' = Portion(a[1], a[2], sizes[Opened(f).name])
        /\ range' = <<a[1], IF a[2] = -1 THEN sizes[Opened(f).name] - 1 ELSE a[2]>>
        /\ r.kind # "none"
    BY <1>1, <1>5 DEF WriteFileRange
  <2>2. /\ flaws = {} /\ lengths = <<>> /\ transfers = 0 /\ sent' = <<>> /\ ~hollow' /\ meant' = w
        /\ file = Closed /\ sizes' = sizes
    BY <1>5, <2>1, CallFacts
  <2>3. lengths' = <<>> /\ transfers' = 1
    BY <1>1, <2>2, FirstHeader
  <2>4. /\ f \in Files /\ file'.name = f /\ Opened(f).name = f /\ ~file'.failed
        /\ SizeOf(f) = size /\ size \in 0..(WordSize - 1)
    BY <1>1, <2>2, FirstFile
  <2>5. r \in RangeType /\ r.kind \notin {"none", "last"} /\ WithinFile(r, size)
    BY <2>1, <2>2, <2>4 DEF IInv, TypeOK, RequestType
  <2>6. v \in Int \X Int
    BY <2>4, <2>5, RangeTypes
  <2>7. /\ a[1] = v[1] /\ a[1] \in Nat
        /\ <<a[1], IF a[2] = -1 THEN size - 1 ELSE a[2]>> = v
        /\ Portion(a[1], a[2], size) = v[2] + 1 - v[1]
        /\ Portion(a[1], a[2], size) > 0 /\ a[1] + Portion(a[1], a[2], size) <= size
    BY <2>4, <2>5, RangeUnderstood
  <2> DEFINE n == Portion(a[1], a[2], size)
  <2> HIDE DEF r, size, v, a, n
  <2>8. n \in Nat \ {0} /\ v[2] + 1 = a[1] + n
    BY <2>6, <2>7 DEF n
  <2>9. startPos' = a[1] /\ a[1] # -1 /\ Position' = a[1] /\ portion' = n /\ range' = v
    BY <2>1, <2>4, <2>7 DEF Position, n, size
  <2>10. w.status = "partialContent" /\ w.range = v /\ w.body = Positions(a[1], a[1] + n)
    BY <2>7, <2>8
  <2>11. a[1] + n <= sizes[f]
    BY <2>7 DEF n, size
  <2> HIDE DEF w, flaws
  <2>12. status' = w.status /\ range' = w.range
    BY <2>1, <2>9, <2>10
  <2> QED
    BY <1>3, <1>5, <2>1, <2>2, <2>3, <2>4, <2>7, <2>8, <2>9, <2>10, <2>11, <2>12
<1>6. mishaps' # {} => RouteInv' /\ ChunkInv'
  BY DEF RouteInv, ChunkInv
<1> QED
  BY <1>2, <1>4, <1>5, <1>6 DEF BodyInv

-----------------------------------------------------------------------------
(* Writing.                                                                *)

LEMMA ReleaseStep ==
    ASSUME IInv, NEW terminate \in BOOLEAN, Release(terminate)
    PROVE  IInv'
<1> USE DEF headerVars, positionVars, bodyVars, wireVars
<1>1. TypeOK'
  BY TypeStep DEF IInv, Next
<1>2. /\ pc = "route" /\ request'.head = request.head
      /\ UNCHANGED <<status, transfers, range, body, isChunked, writeType, startPos, portion, file,
                     hollow, meant, sizes>>
      /\ lengths' = IF writeType = "noBody" THEN Append(lengths, 0) ELSE lengths
      /\ sent' = IF isChunked \/ writeType = "noBody" THEN <<>> ELSE body
      /\ pc' = IF isChunked THEN "chunk" ELSE "sent"
  BY DEF Release, IInv, TypeOK, RequestType
<1>3. /\ lengths \in Seq(Nat) /\ lengths' \in Seq(Nat) /\ transfers \in Nat
  BY <1>1 DEF IInv, TypeOK
<1>4. mishaps' = {} => mishaps = {} /\ Len(lengths') + transfers = 1
  <2>1. ASSUME mishaps' = {}
        PROVE  mishaps = {} /\ Len(lengths') + transfers # 0 /\ ~(Len(lengths') + transfers > 1)
    BY <2>1 DEF Release
  <2> QED
    BY <1>3, <2>1
<1>5. BodyThere' /\ ChunkedFramed'
  BY <1>2 DEF IInv, BodyThere, ChunkedFramed
<1>6. RouteInv' /\ ReadInv'
  BY <1>2 DEF RouteInv, ReadInv
<1>7. CASE isChunked
  <2>1. mishaps' = {} => mishaps = {} /\ writeType # "noBody"
    BY <1>3, <1>4, <1>7, <1>2 DEF IInv, ChunkedFramed
  <2>2. ChunkPc'
    BY <1>2, <1>7, <2>1 DEF ChunkPc
  <2>3. ASSUME mishaps' = {} PROVE ChunkInv'
    <3>1. /\ mishaps = {} /\ pc = "route" /\ isChunked /\ writeType # "noBody"
          /\ UNCHANGED <<transfers, lengths, hollow, status, range, body, startPos, file, portion,
                         sizes, meant, isChunked, writeType>>
      BY <1>2, <1>7, <2>1, <2>3
    <3>2. sent = <<>> /\ sent' = <<>>
      BY <1>2, <1>7, <3>1 DEF IInv, RouteInv
    <3> QED
      BY <3>1, <3>2 DEF IInv, ChunkInv, Position
  <2>4. mishaps' # {} => ChunkInv'
    BY DEF ChunkInv
  <2>5. WrittenInv'
    BY <1>2, <1>7 DEF WrittenInv
  <2> QED
    BY <1>1, <1>5, <1>6, <2>2, <2>3, <2>4, <2>5 DEF IInv
<1>8. CASE ~isChunked
  <2>1. ChunkPc' /\ ChunkInv'
    BY <1>2, <1>8 DEF ChunkPc, ChunkInv
  <2>2. ASSUME mishaps' = {} PROVE WrittenInv'
    <3>1. mishaps = {} /\ Len(lengths') + transfers = 1 /\ ~hollow
      BY <1>2, <1>4, <2>2 DEF IInv, RouteInv
    <3>2. CASE writeType = "noBody"
      <4>1. lengths' = Append(lengths, 0) /\ sent' = <<>>
        BY <1>2, <3>2
      <4>2. Len(lengths') = Len(lengths) + 1 /\ lengths'[Len(lengths) + 1] = 0
        BY <1>3, <4>1
      <4>3. Framings = 0 /\ Len(lengths) = 0 /\ transfers = 0
        BY <1>3, <3>1, <4>2 DEF Framings
      <4>4. meant.body = <<>> /\ meant.range = NoRange /\ range = NoRange /\ status = meant.status
        BY <1>2, <3>1, <3>2, <4>3 DEF IInv, RouteInv
      <4>5. lengths'[1] = Len(sent')
        BY <4>1, <4>2, <4>3
      <4> QED
        BY <1>2, <1>8, <3>1, <4>1, <4>2, <4>3, <4>4, <4>5 DEF WrittenInv
    <3>3. CASE writeType # "noBody"
      <4>1. lengths' = lengths /\ sent' = body
        BY <1>2, <1>8, <3>3
      <4>2. Framings = 1
        BY <3>1, <4>1 DEF Framings
      <4>3. /\ status = meant.status /\ range = meant.range /\ transfers = 0 /\ body = meant.body
            /\ request.head \/ lengths[1] = Len(body)
        BY <1>2, <1>8, <3>1, <3>3, <4>2 DEF IInv, RouteInv
      <4>4. Len(lengths) = 1
        BY <1>3, <3>1, <4>1, <4>3
      <4> QED
        BY <1>2, <1>8, <3>1, <4>1, <4>3, <4>4 DEF WrittenInv
    <3> QED
      BY <3>2, <3>3
  <2>3. mishaps' # {} => WrittenInv'
    BY DEF WrittenInv
  <2> QED
    BY <1>1, <1>5, <1>6, <2>1, <2>2, <2>3 DEF IInv
<1> QED
  BY <1>7, <1>8

\* The next chunk of a text.
LEMMA ChunkStringStep ==
    ASSUME IInv, ChunkString
    PROVE  IInv'
<1> DEFINE left == (Len(body) - startPos) % WordSize
<1>1. TypeOK'
  BY TypeStep DEF IInv, Next
<1>2. /\ pc = "chunk" /\ writeType = "string" /\ isChunked
      /\ UNCHANGED <<status, transfers, lengths, range, body, isChunked, writeType, portion, file,
                     meant, mishaps, sizes, request>>
  BY DEF ChunkString, SendChunk, headerVars, IInv, ChunkPc
<1>3. body \in Seq(Int) /\ Len(body) \in Nat /\ Len(body) < WordSize /\ startPos \in 0..Len(body)
  BY <1>2 DEF IInv, TypeOK, BodyThere
<1>4. left = Len(body) - startPos
  <2>1. Len(body) - startPos \in 0..(WordSize - 1)
    BY <1>3, LengthsAssumption
  <2> QED
    BY <2>1, LengthsAssumption
<1>5. ChunkSize \in Nat \ {0}
  BY ChunkAssumption
<1>6. ChunkedFramed'
  BY <1>2 DEF IInv, ChunkedFramed
<1>7. ASSUME mishaps = {}
      PROVE  /\ transfers = 1 /\ lengths = <<>> /\ ~hollow
             /\ status = meant.status /\ range = meant.range
             /\ body = meant.body /\ startPos < Len(body) /\ sent = SubSeq(body, 1, startPos)
  BY <1>2, <1>7 DEF IInv, ChunkInv
<1>8. CASE left <= ChunkSize
  <2>1. /\ pc' = "endChunk" /\ startPos' = startPos
        /\ sent' = sent \o SubSeq(body, startPos + 1, startPos + left)
        /\ hollow' = (hollow \/ SubSeq(body, startPos + 1, startPos + left) = <<>>)
    BY <1>8 DEF ChunkString, SendChunk
  <2>2. BodyThere' /\ RouteInv' /\ ReadInv' /\ ChunkInv' /\ ChunkPc'
    BY <1>2, <2>1 DEF IInv, BodyThere, RouteInv, ReadInv, ChunkInv, ChunkPc
  <2>3. ASSUME mishaps = {} PROVE sent' = body /\ ~hollow'
    <3>1. startPos + left = Len(body) /\ startPos \in 0..Len(body) /\ Len(body) \in startPos..Len(body)
      BY <1>3, <1>4
    <3>2. startPos < Len(body) /\ sent = SubSeq(body, 1, startPos) /\ ~hollow
      BY <1>7, <2>3
    <3>3. /\ SubSeq(body, 1, startPos) \o SubSeq(body, startPos + 1, Len(body)) = SubSeq(body, 1, Len(body))
          /\ SubSeq(body, startPos + 1, Len(body)) # <<>> /\ SubSeq(body, 1, Len(body)) = body
      BY <1>3, <3>1, <3>2, SubSeqMeet
    <3> QED
      BY <2>1, <3>1, <3>2, <3>3
  <2>4. WrittenInv'
    BY <1>2, <1>7, <2>3 DEF WrittenInv
  <2> QED
    BY <1>1, <1>6, <2>2, <2>4 DEF IInv
<1>9. CASE ~(left <= ChunkSize)
  <2>1. /\ pc' = "chunk" /\ startPos' = startPos + ChunkSize
        /\ sent' = sent \o SubSeq(body, startPos + 1, startPos + ChunkSize)
        /\ hollow' = (hollow \/ SubSeq(body, startPos + 1, startPos + ChunkSize) = <<>>)
    BY <1>9 DEF ChunkString, SendChunk
  <2>2. startPos + ChunkSize < Len(body) /\ startPos + ChunkSize \in startPos..Len(body)
    BY <1>3, <1>4, <1>5, <1>9
  <2>3. BodyThere' /\ RouteInv' /\ ReadInv' /\ ChunkPc' /\ WrittenInv'
    <3>1. startPos' \in 0..Len(body')
      BY <1>2, <1>3, <2>1, <2>2
    <3> QED
      BY <1>2, <1>3, <2>1, <3>1
      DEF IInv, BodyThere, RouteInv, ReadInv, ChunkPc, WrittenInv
  <2>4. ASSUME mishaps = {} PROVE sent' = SubSeq(body, 1, startPos + ChunkSize) /\ ~hollow'
    <3>1. startPos < startPos + ChunkSize /\ sent = SubSeq(body, 1, startPos) /\ ~hollow
      BY <1>3, <1>5, <1>7, <2>4
    <3>2. /\ SubSeq(body, 1, startPos) \o SubSeq(body, startPos + 1, startPos + ChunkSize)
              = SubSeq(body, 1, startPos + ChunkSize)
          /\ SubSeq(body, startPos + 1, startPos + ChunkSize) # <<>>
      BY <1>3, <2>2, <3>1, SubSeqMeet
    <3> QED
      BY <2>1, <3>1, <3>2
  <2>5. ChunkInv'
    BY <1>2, <1>7, <2>1, <2>2, <2>4 DEF ChunkInv
  <2> QED
    BY <1>1, <1>6, <2>3, <2>5 DEF IInv
<1> QED
  BY <1>8, <1>9

\* The next chunk of a file.
LEMMA ChunkFileStep ==
    ASSUME IInv, ChunkFile
    PROVE  IInv'
<1> DEFINE n == IF portion > ChunkSize THEN ChunkSize ELSE portion
           got == FileRead(startPos, n)
<1>1. TypeOK'
  BY TypeStep DEF IInv, Next
<1>2. /\ pc = "chunk" /\ writeType = "file" /\ isChunked
      /\ UNCHANGED <<status, transfers, lengths, range, body, isChunked, writeType,
                     meant, mishaps, sizes, request>>
      /\ sent' = sent \o got.bytes /\ hollow' = (hollow \/ got.bytes = <<>>)
      /\ pc' = IF portion <= ChunkSize THEN "endChunk" ELSE "chunk"
      /\ file' = [file EXCEPT !.pos = got.pos, !.failed = got.failed]
      /\ portion' = IF portion > ChunkSize THEN portion - ChunkSize ELSE portion
      /\ startPos' = -1
  BY DEF ChunkFile, SendChunk, headerVars, IInv, ChunkPc
<1>3. /\ portion \in Nat /\ startPos \in Int /\ file.pos \in Int
      /\ file' = [name |-> file.name, pos |-> got.pos, failed |-> got.failed]
  <2>1. /\ portion \in Nat /\ startPos \in Int
        /\ file \in [name : Files \cup {NoFile, Missing}, pos : Int, failed : BOOLEAN]
    BY LengthsAssumption DEF IInv, TypeOK
  <2> HIDE DEF n, got
  <2>2. file' = [name |-> file.name, pos |-> got.pos, failed |-> got.failed]
    BY <1>2, <2>1
  <2> QED
    BY <2>1, <2>2
<1>4. ChunkSize \in Nat \ {0}
  BY ChunkAssumption
<1>5. ChunkedFramed' /\ BodyThere'
  BY <1>2, <1>3 DEF IInv, ChunkedFramed, BodyThere
<1>6. RouteInv' /\ ReadInv'
  BY <1>2 DEF RouteInv, ReadInv
<1>7. ASSUME mishaps = {}
      PROVE  /\ ChunkInv' /\ WrittenInv' /\ ChunkPc'
  <2>1. /\ transfers = 1 /\ lengths = <<>> /\ ~hollow
        /\ status = meant.status /\ range = meant.range
        /\ file.name \in Files /\ ~file.failed
        /\ portion > 0 /\ Position + portion <= sizes[file.name]
    BY <1>2, <1>7 DEF IInv, ChunkInv
  <2>2. PICK first \in Nat :
          /\ first <= Position
          /\ sent = Positions(first, Position)
          /\ meant.body = Positions(first, Position + portion)
    BY <1>2, <1>7 DEF IInv, ChunkInv
  <2>3. Position \in Nat /\ sizes[file.name] \in Nat
    BY <1>3, <2>1, <2>2, LengthsAssumption DEF IInv, TypeOK, Position
  <2>4. n \in Nat /\ n > 0 /\ n <= portion
    BY <1>3, <1>4, <2>1
  <2>5. got = [bytes |-> Positions(Position, Position + n), pos |-> Position + n, failed |-> FALSE]
    <3>1. ~(Position < 0) /\ ~(sizes[file.name] <= Position) /\ Position + n <= sizes[file.name]
          /\ ~(Position + n < Position + n)
      BY <1>3, <2>1, <2>3, <2>4
    <3>2. (IF file.failed \/ Position < 0 \/ sizes[file.name] <= Position THEN Position
           ELSE IF Position + n <= sizes[file.name] THEN Position + n ELSE sizes[file.name])
            = Position + n
      BY <2>1, <3>1, Zenon
    <3>3. got = [bytes |-> Positions(Position, Position + n), pos |-> Position + n,
                 failed |-> file.failed \/ Position + n < Position + n]
      BY <3>2, Zenon DEF FileRead, Position
    <3>4. (file.failed \/ Position + n < Position + n) = FALSE
      BY <2>1, <3>1, Zenon
    <3> QED
      BY <3>3, <3>4, Zenon
  <2> HIDE DEF n, got
  <2>6. sent' = Positions(first, Position + n) /\ ~hollow'
    <3>1. Positions(first, Position) \o Positions(Position, Position + n) = Positions(first, Position + n)
      <4>1. first \in Int /\ Position \in Int /\ Position + n \in Int /\ Position <= Position + n
        BY <2>3, <2>4
      <4> QED
        BY <2>2, <4>1, PositionsMeet
    <3>2. Positions(Position, Position + n) # <<>>
      BY <2>3, <2>4, PositionsProperties
    <3> QED
      BY <1>2, <2>1, <2>2, <2>5, <3>1, <3>2
  <2>7. file'.name = file.name /\ ~file'.failed /\ file'.pos = Position + n /\ Position' = Position + n
    BY <1>2, <1>3, <2>5 DEF Position
  <2>8. CASE portion <= ChunkSize
    <3>1. pc' = "endChunk" /\ n = portion
      BY <1>2, <1>3, <1>4, <2>8 DEF n
    <3>2. WrittenInv'
      BY <1>2, <2>1, <2>2, <2>6, <3>1 DEF WrittenInv
    <3> QED
      BY <1>2, <3>1, <3>2 DEF ChunkInv, ChunkPc
  <2>9. CASE ~(portion <= ChunkSize)
    <3>1. pc' = "chunk" /\ n = ChunkSize /\ portion' = portion - n
      BY <1>2, <1>3, <1>4, <2>9 DEF n
    <3>2. portion' > 0 /\ Position' + portion' = Position + portion
      BY <1>3, <1>4, <2>3, <2>7, <2>9, <3>1
    <3>3. /\ first <= Position' /\ sent' = Positions(first, Position')
          /\ meant'.body = Positions(first, Position' + portion')
      BY <1>2, <2>2, <2>3, <2>4, <2>6, <2>7, <3>2
    <3>4. ChunkInv'
      BY <1>2, <2>1, <2>6, <2>7, <3>1, <3>2, <3>3 DEF ChunkInv
    <3> QED
      BY <1>2, <3>1, <3>4 DEF WrittenInv, ChunkPc
  <2> QED
    BY <2>8, <2>9
<1>8. ASSUME mishaps # {} PROVE ChunkInv' /\ WrittenInv' /\ ChunkPc'
  BY <1>2, <1>8 DEF ChunkInv, WrittenInv, ChunkPc
<1> QED
  BY <1>1, <1>5, <1>6, <1>7, <1>8 DEF IInv

-----------------------------------------------------------------------------
(* The inductive invariant.                                                *)

LEMMA InvInit == Init => IInv
<1> SUFFICES ASSUME Init PROVE IInv
  OBVIOUS
<1>1. TypeOK
  BY TypeInit
<1>2. /\ pc = "route" /\ lengths = <<>> /\ transfers = 0 /\ ~isChunked /\ writeType = "string"
      /\ body = <<>> /\ file = Closed /\ range = NoRange /\ meant = NothingMeant
      /\ sent = <<>> /\ ~hollow
  BY DEF Init
<1>3. Framings = 0
  BY <1>2 DEF Framings
<1>4. BodyThere /\ ChunkedFramed /\ ReadInv /\ ChunkInv /\ ChunkPc /\ WrittenInv
  BY <1>2 DEF BodyThere, ChunkedFramed, ReadInv, ChunkInv, ChunkPc, WrittenInv
<1>5. RouteInv
  BY <1>2, <1>3 DEF RouteInv, NothingMeant
<1> QED
  BY <1>1, <1>4, <1>5 DEF IInv

LEMMA InvNext == IInv /\ [Next]_vars => IInv'
<1> SUFFICES ASSUME IInv, [Next]_vars PROVE IInv'
  OBVIOUS
<1> USE DEF headerVars, positionVars, bodyVars, wireVars
<1>0. TypeOK'
  BY TypeStep DEF IInv
<1>a. ASSUME BodyInv', NEW w, NEW flaws, Call(w, flaws) PROVE IInv'
  BY <1>0, <1>a, CallFacts DEF IInv, BodyInv
<1>1. CASE \E s \in RouteStatuses : WriteState(s)
  BY <1>1, <1>a, WriteStateStep DEF WriteState
<1>2. CASE \E n \in Texts, chunked \in BOOLEAN, s \in RouteStatuses : WriteString(n, chunked, s)
  BY <1>2, <1>a, WriteStringStep DEF WriteString
<1>3. CASE \E f \in Files \cup {Missing} : WriteFile(f)
  <2>1. PICK f \in Files \cup {Missing} : WriteFile(f)
    BY <1>3
  <2>2. CASE WriteFileWhole(f)
    BY <1>0, <2>2, WriteFileWholeStep DEF IInv, BodyInv
  <2>3. CASE ~WriteFileWhole(f)
    <3>1. BodyInv'
      BY <2>1, <2>3, WriteFileMissingStep, WriteFileHeadStep, WriteFileChunkedStep
      DEF WriteFile
    <3>2. \E w, flaws : Call(w, flaws)
      BY <2>1, <2>3, Zenon
      DEF WriteFile, WriteFileMissing, WriteFileHead, WriteFileChunked, WriteFileRange
    <3> QED
      BY <1>a, <3>1, <3>2
  <2> QED
    BY <2>2, <2>3
<1>4. CASE Redirect
  BY <1>4, <1>a, RedirectStep DEF Redirect
<1>5. CASE \E terminate \in BOOLEAN : Release(terminate)
  BY <1>5, ReleaseStep
<1>6. CASE ChunkString \/ ChunkFile
  BY <1>6, ChunkStringStep, ChunkFileStep
<1>7. CASE ChunkNone
  <2>1. mishaps # {}
    BY <1>7 DEF ChunkNone, IInv, ChunkPc
  <2> QED
    BY <1>0, <1>7, <2>1
    DEF ChunkNone, IInv, BodyThere, ChunkedFramed, RouteInv, ReadInv, ChunkInv, ChunkPc, WrittenInv
<1>8. CASE EndChunk \/ Disconnect
  BY <1>0, <1>8
  DEF EndChunk, Disconnect, IInv, BodyThere, ChunkedFramed, RouteInv, ReadInv, ChunkInv, ChunkPc, WrittenInv
<1>9. CASE NextRequest
  <2>1. /\ pc' = "route" /\ lengths' = <<>> /\ transfers' = 0 /\ ~isChunked' /\ writeType' = "string"
        /\ body' = <<>> /\ file' = Closed /\ range' = NoRange /\ meant' = NothingMeant
        /\ sent' = <<>> /\ ~hollow'
    BY <1>9 DEF NextRequest, Reset
  <2>2. Framings' = 0
    BY <2>1 DEF Framings
  <2>3. BodyThere' /\ ChunkedFramed' /\ ReadInv' /\ ChunkInv' /\ ChunkPc' /\ WrittenInv'
    BY <2>1 DEF BodyThere, ChunkedFramed, ReadInv, ChunkInv, ChunkPc, WrittenInv
  <2>4. RouteInv'
    BY <2>1, <2>2 DEF RouteInv, NothingMeant
  <2> QED
    BY <1>0, <2>3, <2>4 DEF IInv
<1>10. CASE \E f \in Files : FileChanges(f)
  <2>1. PICK f \in Files, size \in FileSizes :
          /\ sizes' = [sizes EXCEPT ![f] = size]
          /\ mishaps' = mishaps
               \cup (IF file.name = f /\ size < sizes[f] THEN {"shrunk"} ELSE {})
               \cup (IF file.name = f /\ size > sizes[f] /\ pc = "readAll" THEN {"grown"} ELSE {})
          /\ UNCHANGED <<request, calls, pc, headerVars, bodyVars, wireVars, meant>>
    BY <1>10 DEF FileChanges
  <2>2. mishaps' = {} =>
          /\ mishaps = {} /\ ~(file.name = f /\ size < sizes[f])
          /\ ~(file.name = f /\ size > sizes[f] /\ pc = "readAll")
    BY <2>1
  <2>3. BodyThere' /\ ChunkedFramed' /\ RouteInv' /\ ChunkPc' /\ WrittenInv'
    BY <2>1, <2>2 DEF IInv, BodyThere, ChunkedFramed, RouteInv, Framings, ChunkPc, WrittenInv
  <2>4. ASSUME mishaps' = {}, pc \in {"route", "chunk"}, isChunked, writeType # "noBody" PROVE ChunkInv'
    <3>1. mishaps = {} /\ Position' = Position
      BY <2>1, <2>2, <2>4 DEF Position
    <3>2. writeType = "file" => Position + portion <= sizes'[file.name]
      <4>1. ASSUME writeType = "file" PROVE Position + portion <= sizes'[file.name]
        <5>1. Position + portion <= sizes[file.name] /\ file.name \in Files
          BY <2>4, <3>1, <4>1 DEF IInv, ChunkInv
        <5>2. sizes \in [Files -> FileSizes] /\ portion \in Int /\ Position \in Int /\ size \in Int
              /\ sizes[file.name] \in Int
          <6>1. sizes \in [Files -> FileSizes] /\ file.pos \in Int /\ startPos \in Int
            BY DEF IInv, TypeOK
          <6>2. \A k \in FileSizes : k \in Int
            BY LengthsAssumption
          <6>3. portion \in Int
            BY LengthsAssumption DEF IInv, TypeOK
          <6> QED
            BY <5>1, <6>1, <6>2, <6>3 DEF Position
        <5>3. CASE file.name = f
          BY <2>1, <2>2, <2>4, <5>1, <5>2, <5>3
        <5>4. CASE file.name # f
          BY <2>1, <5>1, <5>2, <5>4
        <5> QED
          BY <5>3, <5>4
      <4> QED
        BY <4>1
    <3> QED
      BY <2>1, <2>4, <3>1, <3>2 DEF IInv, ChunkInv
  <2>5. ~(mishaps' = {} /\ pc \in {"route", "chunk"} /\ isChunked /\ writeType # "noBody") => ChunkInv'
    BY <2>1 DEF ChunkInv
  <2>6. ReadInv'
    <3>1. ASSUME pc = "readAll", mishaps' = {} PROVE sizes'[file.name] = sizes[file.name]
      <4>1. file.name \in Files
        BY <3>1 DEF IInv, ReadInv, BodyThere
      <4>2. sizes \in [Files -> FileSizes] /\ size \in Int /\ sizes[f] \in Int
        <5>1. sizes \in [Files -> FileSizes]
          BY DEF IInv, TypeOK
        <5>2. FileSizes \subseteq Int
          BY LengthsAssumption
        <5> QED
          BY <5>1, <5>2
      <4>3. file.name = f => size = sizes[f]
        BY <2>2, <3>1, <4>2
      <4> QED
        BY <2>1, <4>1, <4>2, <4>3
    <3> QED
      BY <2>1, <2>2, <3>1 DEF IInv, ReadInv, Framings
  <2> QED
    BY <1>0, <2>3, <2>4, <2>5, <2>6 DEF IInv
<1>11. CASE ReadAll
  BY <1>0, <1>11, ReadAllStep DEF IInv, BodyInv
<1>12. CASE UNCHANGED vars
  BY <1>0, <1>12
  DEF vars, IInv, BodyThere, ChunkedFramed, RouteInv, ReadInv, Framings, ChunkInv, Position, ChunkPc, WrittenInv
<1> QED
  BY <1>1, <1>2, <1>3, <1>4, <1>5, <1>6, <1>7, <1>8, <1>9, <1>10, <1>11, <1>12 DEF Next

\* The calls of a route, the headers and the body that they leave, and what of
\* it is written always fit together (IInv), for any requests, texts and files.
THEOREM InductiveInvariant == Spec => []IInv
<1>1. Init => IInv
  BY InvInit
<1>2. IInv /\ [Next]_vars => IInv'
  BY InvNext
<1> QED
  BY <1>1, <1>2, PTL DEF Spec

\* Every variable of a response has its type: what is left of a portion stays
\* within std::uint64_t, whatever the Range header and the file.
THEOREM TypeCorrect == Spec => []TypeOK
<1>1. IInv => TypeOK
  BY DEF IInv
<1> QED
  BY <1>1, InductiveInvariant, PTL

\* Each response that none of the mishaps befalls carries what the route meant,
\* framed so that the client finds its end, for texts, files and chunks of any
\* size and any number of requests on a connection.
THEOREM FramedHolds == Spec => []Framed
<1>1. IInv => Framed
  <2> SUFFICES ASSUME IInv, mishaps = {} PROVE Framed
    BY DEF Framed
  <2>1. pc \in {"endChunk", "sent"} =>
          /\ ~hollow /\ sent = meant.body
          /\ status = meant.status /\ range = meant.range
          /\ IF isChunked THEN lengths = <<>> /\ transfers = 1
             ELSE /\ transfers = 0 /\ Len(lengths) = 1
                  /\ request.head \/ lengths[1] = Len(sent)
    BY DEF IInv, WrittenInv
  <2>2. ASSUME pc = "endChunk" PROVE ~hollow /\ Begins(sent, meant.body)
    <3>1. sent = meant.body /\ sent \in Seq(Int)
      BY <2>1, <2>2 DEF IInv, TypeOK
    <3>2. SubSeq(sent, 1, Len(sent)) = sent /\ Len(sent) <= Len(sent)
      BY <3>1
    <3> QED
      BY <2>1, <2>2, <3>1, <3>2 DEF Begins
  <2>3. ASSUME pc = "chunk" PROVE ~hollow /\ Begins(sent, meant.body)
    <3>1. isChunked /\ writeType # "noBody" /\ writeType \in WriteTypes
      BY <2>3 DEF IInv, ChunkPc, TypeOK
    <3>2. ~hollow
      BY <2>3, <3>1 DEF IInv, ChunkInv
    <3>3. CASE writeType = "string"
      <4>1. /\ body = meant.body /\ startPos < Len(body) /\ sent = SubSeq(body, 1, startPos)
            /\ body \in Seq(Int) /\ startPos \in 0..Len(body)
        BY <2>3, <3>1, <3>3 DEF IInv, ChunkInv, TypeOK, BodyThere
      <4>2. Len(body) \in startPos..Len(body)
        BY <4>1
      <4>3. Begins(SubSeq(body, 1, startPos), body)
        BY <4>1, <4>2, SubSeqMeet
      <4> QED
        BY <3>2, <4>1, <4>3
    <3>4. CASE writeType = "file"
      <4>1. PICK first \in Nat :
              /\ first <= Position
              /\ sent = Positions(first, Position)
              /\ meant.body = Positions(first, Position + portion)
        BY <2>3, <3>1, <3>4 DEF IInv, ChunkInv
      <4>2. Position \in Int /\ portion \in Nat
        BY LengthsAssumption DEF IInv, TypeOK, Position
      <4>3. Position + portion \in Int /\ Position <= Position + portion
        BY <4>2
      <4> QED
        BY <3>2, <4>1, <4>2, <4>3, PositionsBegin
    <3> QED
      BY <3>1, <3>3, <3>4 DEF WriteTypes
  <2> QED
    BY <2>1, <2>2, <2>3 DEF Framed
<1> QED
  BY <1>1, InductiveInvariant, PTL

-----------------------------------------------------------------------------
(* Routes (HttpRouter).                                                    *)

\* Urls that reg_router takes as they are meant: a star is at the end, behind a
\* slash.
StarAtEnd(url) ==
    \A i \in 1..Len(url) : url[i] = Star => i = Len(url) /\ i > 1 /\ url[i - 1] = Slash

\* Registrations with urls of characters from `Chars`.
RegType(Chars) ==
    [methods : SUBSET Chars, url : {u \in Seq(Chars) : u # <<>> /\ StarAtEnd(u)}, id : Nat]

\* The keys under which a registration is kept.
Kept(url) == IF IsGeneral(url) THEN Base(url) ELSE url
KeysOf(reg) == {Key(m, Kept(reg.url)) : m \in reg.methods}

\* A table that the registrations numbered in I have been inserted into: each key
\* has what the first of them gave.
First(regs, I, k) ==
    CHOOSE i \in I : k \in KeysOf(regs[i]) /\ \A j \in I : k \in KeysOf(regs[j]) => i <= j
Table(regs, I) ==
    [k \in UNION {KeysOf(regs[i]) : i \in I} |-> regs[First(regs, I, k)].id]

Specific(regs, n) == {i \in 1..n : ~IsGeneral(regs[i].url)}
General(regs, n) == {i \in 1..n : IsGeneral(regs[i].url)}
Sockets(regs, n) == {i \in 1..n : Websocket \in regs[i].methods}

\* The tables after the first n registrations.
TablesAfter(regs, n) ==
    [routes |-> Table(regs, Specific(regs, n)),
     generalRoutes |-> Table(regs, General(regs, n)),
     interceptors |-> Table(regs, Specific(regs, n)),
     generalInterceptors |-> Table(regs, General(regs, n)),
     events |-> Table(regs, Sockets(regs, n))]

\* A set of numbers that is not empty has a smallest one.
LEMMA Smallest ==
    ASSUME NEW T \in SUBSET Nat, T # {}
    PROVE  \E j \in T : \A k \in T : j <= k
<1> DEFINE Below == {0..j : j \in T}
<1>1. Below \subseteq FiniteSubsetsOf(Nat) /\ Below # {}
  <2>1. ASSUME NEW j \in T PROVE 0..j \in SUBSET Nat /\ IsFiniteSet(0..j)
    BY FS_Interval
  <2> QED
    BY <2>1 DEF FiniteSubsetsOf
<1>2. IsWellFoundedOn(StrictSubsetOrdering(Nat), FiniteSubsetsOf(Nat))
  BY FS_StrictSubsetOrderingWellFounded
<1>3. \E x \in Below : \A y \in Below : ~(<<y, x>> \in StrictSubsetOrdering(Nat))
  <2> HIDE DEF Below
  <2> QED
    BY <1>1, <1>2, WFMin, Zenon
<1>4. PICK j \in T : \A k \in T : ~(<<0..k, 0..j>> \in StrictSubsetOrdering(Nat))
  BY <1>3
<1>5. ASSUME NEW k \in T, ~(j <= k) PROVE FALSE
  <2>1. 0..k \subseteq 0..j /\ j \in 0..j /\ j \notin 0..k
    BY <1>5
  <2>2. 0..k # 0..j /\ 0..k \in SUBSET Nat /\ 0..j \in SUBSET Nat
    BY <2>1
  <2> QED
    BY <1>4, <2>1, <2>2 DEF StrictSubsetOrdering
<1> QED
  BY <1>5

\* The first of the registrations in I that keep something under a key.
LEMMA FirstIs ==
    ASSUME NEW regs, NEW I \in SUBSET Nat, NEW k, NEW i \in I, k \in KeysOf(regs[i]),
           \A j \in I : k \in KeysOf(regs[j]) => i <= j
    PROVE  First(regs, I, k) = i
<1> DEFINE IsFirst(x) == k \in KeysOf(regs[x]) /\ \A j \in I : k \in KeysOf(regs[j]) => x <= j
<1>1. ASSUME NEW x \in I, IsFirst(x) PROVE x = i
  <2>1. x <= i /\ i <= x
    BY <1>1, Zenon
  <2> QED
    BY <2>1
<1>2. IsFirst(i)
  OBVIOUS
<1>3. First(regs, I, k) = CHOOSE x \in I : IsFirst(x)
  BY DEF First
<1> HIDE DEF IsFirst
<1> QED
  BY <1>1, <1>2, <1>3

LEMMA FirstProperties ==
    ASSUME NEW regs, NEW I \in SUBSET Nat, NEW k, NEW i \in I, k \in KeysOf(regs[i])
    PROVE  /\ First(regs, I, k) \in I /\ k \in KeysOf(regs[First(regs, I, k)])
           /\ \A j \in I : k \in KeysOf(regs[j]) => First(regs, I, k) <= j
<1> DEFINE With == {j \in I : k \in KeysOf(regs[j])}
<1>1. With \in SUBSET Nat /\ With # {}
  OBVIOUS
<1>2. PICK f \in With : \A j \in With : f <= j
  <2> HIDE DEF With
  <2> QED
    BY <1>1, Smallest
<1>3. First(regs, I, k) = f
  BY <1>2, FirstIs
<1> QED
  BY <1>2, <1>3

\* Another insertion changes nothing that is there.
LEMMA InsertNext ==
    ASSUME NEW regs, NEW n \in Nat, NEW I \in SUBSET (1..n)
    PROVE  Insert(Table(regs, I), KeysOf(regs[n + 1]), regs[n + 1].id)
               = Table(regs, I \cup {n + 1})
<1> DEFINE J == I \cup {n + 1}
           D == UNION {KeysOf(regs[i]) : i \in I}
<1>1. I \in SUBSET Nat /\ J \in SUBSET Nat /\ I \subseteq J /\ n + 1 \in J
  OBVIOUS
<1>2. DOMAIN Table(regs, I) = D /\ DOMAIN Table(regs, J) = D \cup KeysOf(regs[n + 1])
  BY DEF Table
<1>3. ASSUME NEW k \in D PROVE First(regs, J, k) = First(regs, I, k)
  <2> DEFINE f == First(regs, I, k)
  <2>1. PICK i \in I : k \in KeysOf(regs[i])
    OBVIOUS
  <2>2. f \in I /\ k \in KeysOf(regs[f]) /\ \A j \in I : k \in KeysOf(regs[j]) => f <= j
    BY <1>1, <2>1, FirstProperties
  <2> HIDE DEF f
  <2>3. f <= n + 1 /\ f \in J
    BY <2>2
  <2>4. \A j \in J : k \in KeysOf(regs[j]) => f <= j
    BY <2>2, <2>3
  <2>5. First(regs, J, k) = f
    BY <1>1, <2>2, <2>3, <2>4, FirstIs
  <2> QED
    BY <2>5 DEF f
<1>4. ASSUME NEW k \in KeysOf(regs[n + 1]), k \notin D PROVE First(regs, J, k) = n + 1
  <2>1. \A j \in J : k \in KeysOf(regs[j]) => n + 1 <= j
    BY <1>4
  <2> QED
    BY <1>1, <1>4, <2>1, FirstIs
<1>5. Table(regs, I) = [k \in D |-> regs[First(regs, I, k)].id]
  BY DEF Table
<1>6. Table(regs, J) = [k \in D \cup KeysOf(regs[n + 1]) |-> regs[First(regs, J, k)].id]
  BY DEF Table
<1> HIDE DEF D, J
<1>7. Insert(Table(regs, I), KeysOf(regs[n + 1]), regs[n + 1].id)
        = [k \in D \cup KeysOf(regs[n + 1]) |->
             IF k \in D THEN regs[First(regs, I, k)].id ELSE regs[n + 1].id]
  BY <1>5 DEF Insert
<1>8. \A k \in D \cup KeysOf(regs[n + 1]) :
        (IF k \in D THEN regs[First(regs, I, k)].id ELSE regs[n + 1].id) = regs[First(regs, J, k)].id
  BY <1>3, <1>4
<1>9. Insert(Table(regs, I), KeysOf(regs[n + 1]), regs[n + 1].id) = Table(regs, J)
  BY <1>6, <1>7, <1>8
<1> QED
  BY <1>9 DEF J

\* reg_router adds one registration to the tables of those before it.
LEMMA RegisterNext ==
    ASSUME NEW regs, NEW n \in Nat
    PROVE  Register(TablesAfter(regs, n), regs[n + 1]) = TablesAfter(regs, n + 1)
<1> DEFINE reg == regs[n + 1]
           t == TablesAfter(regs, n)
           add(x) == Insert(x, KeysOf(reg), reg.id)
           events == IF Websocket \in reg.methods THEN add(t.events) ELSE t.events
<1>1. Register(t, reg) =
        IF IsGeneral(reg.url)
          THEN [t EXCEPT !.generalRoutes = add(@), !.generalInterceptors = add(@), !.events = events]
          ELSE [t EXCEPT !.routes = add(@), !.interceptors = add(@), !.events = events]
  BY DEF Register, KeysOf, Kept
<1>2. \A i : i \in 1..(n + 1) <=> i \in 1..n \/ i = n + 1
  OBVIOUS
<1>3. /\ IsGeneral(reg.url) => /\ Specific(regs, n + 1) = Specific(regs, n)
                               /\ General(regs, n + 1) = General(regs, n) \cup {n + 1}
      /\ ~IsGeneral(reg.url) => /\ Specific(regs, n + 1) = Specific(regs, n) \cup {n + 1}
                                /\ General(regs, n + 1) = General(regs, n)
      /\ Websocket \in reg.methods => Sockets(regs, n + 1) = Sockets(regs, n) \cup {n + 1}
      /\ Websocket \notin reg.methods => Sockets(regs, n + 1) = Sockets(regs, n)
  BY <1>2 DEF Specific, General, Sockets
<1>4. \A I \in SUBSET (1..n) : add(Table(regs, I)) = Table(regs, I \cup {n + 1})
  BY InsertNext
<1>5. /\ Specific(regs, n) \in SUBSET (1..n) /\ General(regs, n) \in SUBSET (1..n)
      /\ Sockets(regs, n) \in SUBSET (1..n)
  BY DEF Specific, General, Sockets
<1>6. /\ t = [routes |-> t.routes, generalRoutes |-> t.generalRoutes,
               interceptors |-> t.interceptors, generalInterceptors |-> t.generalInterceptors,
               events |-> t.events]
      /\ t.routes = Table(regs, Specific(regs, n))
      /\ t.generalRoutes = Table(regs, General(regs, n))
      /\ t.interceptors = Table(regs, Specific(regs, n))
      /\ t.generalInterceptors = Table(regs, General(regs, n))
      /\ t.events = Table(regs, Sockets(regs, n))
  BY DEF TablesAfter
<1> HIDE DEF add, reg
<1>7. events = Table(regs, Sockets(regs, n + 1))
  BY <1>3, <1>4, <1>5, <1>6
<1> HIDE DEF events, t
<1>8. ASSUME IsGeneral(reg.url) PROVE Register(t, reg) = TablesAfter(regs, n + 1)
  <2>1. Register(t, reg) =
          [routes |-> t.routes, generalRoutes |-> add(t.generalRoutes),
           interceptors |-> t.interceptors, generalInterceptors |-> add(t.generalInterceptors),
           events |-> events]
    BY ONLY <1>1, <1>6, <1>8
  <2>2. /\ t.routes = Table(regs, Specific(regs, n + 1))
        /\ add(t.generalRoutes) = Table(regs, General(regs, n + 1))
        /\ t.interceptors = Table(regs, Specific(regs, n + 1))
        /\ add(t.generalInterceptors) = Table(regs, General(regs, n + 1))
    BY <1>3, <1>4, <1>5, <1>6, <1>8
  <2> QED
    BY <1>7, <2>1, <2>2 DEF TablesAfter
<1>9. ASSUME ~IsGeneral(reg.url) PROVE Register(t, reg) = TablesAfter(regs, n + 1)
  <2>1. Register(t, reg) =
          [routes |-> add(t.routes), generalRoutes |-> t.generalRoutes,
           interceptors |-> add(t.interceptors), generalInterceptors |-> t.generalInterceptors,
           events |-> events]
    BY ONLY <1>1, <1>6, <1>9
  <2>2. /\ add(t.routes) = Table(regs, Specific(regs, n + 1))
        /\ t.generalRoutes = Table(regs, General(regs, n + 1))
        /\ add(t.interceptors) = Table(regs, Specific(regs, n + 1))
        /\ t.generalInterceptors = Table(regs, General(regs, n + 1))
    BY <1>3, <1>4, <1>5, <1>6, <1>9
  <2> QED
    BY <1>7, <2>1, <2>2 DEF TablesAfter
<1>10. Register(t, reg) = TablesAfter(regs, n + 1)
  BY <1>8, <1>9
<1> QED
  BY <1>10 DEF t, reg

\* The tables of all registrations.
LEMMA TablesAre ==
    ASSUME NEW regs, Len(regs) \in Nat
    PROVE  Tables(regs) = TablesAfter(regs, Len(regs))
<1> DEFINE n == Len(regs)
           Solves(f) == f = [i \in 0..n |-> IF i = 0 THEN NoRoutes ELSE Register(f[i - 1], regs[i])]
           after == CHOOSE f : Solves(f)
           closed == [i \in 0..n |-> TablesAfter(regs, i)]
<1>1. Tables(regs) = after[n]
  BY DEF Tables
<1>2. TablesAfter(regs, 0) = NoRoutes
  <2>1. Specific(regs, 0) = {} /\ General(regs, 0) = {} /\ Sockets(regs, 0) = {}
    BY DEF Specific, General, Sockets
  <2>2. Table(regs, {}) = NoEntries
    <3>1. UNION {KeysOf(regs[i]) : i \in {}} = {}
      OBVIOUS
    <3> QED
      BY <3>1 DEF Table, NoEntries
  <2> QED
    BY <2>1, <2>2 DEF TablesAfter, NoRoutes
<1>3. ASSUME NEW i \in 1..n PROVE TablesAfter(regs, i) = Register(TablesAfter(regs, i - 1), regs[i])
  <2>1. i - 1 \in Nat /\ (i - 1) + 1 = i
    BY <1>3
  <2> QED
    BY <2>1, RegisterNext
<1>4. Solves(closed)
  <2>1. ASSUME NEW i \in 0..n
        PROVE  closed[i] = IF i = 0 THEN NoRoutes ELSE Register(closed[i - 1], regs[i])
    <3>1. CASE i = 0
      BY <1>2, <2>1, <3>1
    <3>2. CASE i # 0
      <4>1. i \in 1..n /\ i - 1 \in 0..n
        BY <2>1, <3>2
      <4> QED
        BY <1>3, <2>1, <3>2, <4>1
    <3> QED
      BY <3>1, <3>2
  <2> QED
    BY <2>1
<1> HIDE DEF closed
<1>5. Solves(after)
  <2> HIDE DEF Solves
  <2> QED
    BY <1>4
<1> HIDE DEF after
<1>6. after = [i \in 0..n |-> IF i = 0 THEN NoRoutes ELSE Register(after[i - 1], regs[i])]
  BY <1>5
<1> DEFINE Wrong == {i \in 0..n : after[i] # TablesAfter(regs, i)}
<1>7. ASSUME Wrong # {} PROVE FALSE
  <2>1. PICK i \in Wrong : \A j \in Wrong : i <= j
    <3>1. Wrong \in SUBSET Nat
      OBVIOUS
    <3> HIDE DEF Wrong
    <3> QED
      BY <1>7, <3>1, Smallest
  <2>2. CASE i = 0
    BY <1>2, <1>6, <2>1, <2>2
  <2>3. CASE i # 0
    <3>1. i - 1 \in 0..n /\ i - 1 \notin Wrong /\ i \in 1..n
      BY <2>1, <2>3
    <3>2. after[i] = Register(after[i - 1], regs[i])
      BY <1>6, <2>1, <2>3
    <3> QED
      BY <1>3, <2>1, <3>1, <3>2
  <2> QED
    BY <2>2, <2>3
<1>8. n \in 0..n
  OBVIOUS
<1> QED
  BY <1>1, <1>7, <1>8

LEMMA FindIs ==
    ASSUME NEW Chars, NEW s \in Seq(Chars), NEW c, NEW from \in Nat \ {0},
           NEW i \in 1..(Len(s) + 1),
           i > Len(s) \/ (i >= from /\ s[i] = c), \A j \in from..(i - 1) : s[j] # c
    PROVE  Find(s, c, from) = i
<1> DEFINE Found(x) == /\ x > Len(s) \/ (x >= from /\ s[x] = c)
                       /\ \A j \in from..(x - 1) : s[j] # c
<1>1. Find(s, c, from) = CHOOSE x \in 1..(Len(s) + 1) : Found(x)
  BY DEF Find
<1>2. Found(i)
  OBVIOUS
<1>3. ASSUME NEW x \in 1..(Len(s) + 1), Found(x) PROVE x = i
  <2>0. Len(s) \in Nat
    OBVIOUS
  <2>1. ~(x < i)
    BY <1>3, <2>0
  <2>2. ~(i < x)
    BY <1>3, <2>0
  <2> QED
    BY <2>0, <2>1, <2>2
<1> HIDE DEF Found
<1> QED
  BY <1>1, <1>2, <1>3

\* Where a character first is, or the end.
LEMMA FindProperties ==
    ASSUME NEW Chars, NEW s \in Seq(Chars), NEW c, NEW from \in Nat \ {0}
    PROVE  /\ Find(s, c, from) \in 1..(Len(s) + 1)
           /\ Find(s, c, from) > Len(s) \/ (Find(s, c, from) >= from /\ s[Find(s, c, from)] = c)
           /\ \A j \in from..(Find(s, c, from) - 1) : s[j] # c
<1> DEFINE T == {x \in 1..(Len(s) + 1) : x > Len(s) \/ (x >= from /\ s[x] = c)}
<1>1. Len(s) \in Nat
  OBVIOUS
<1>2. PICK f \in T : \A x \in T : f <= x
  <2>1. T \in SUBSET Nat /\ Len(s) + 1 \in T
    BY <1>1
  <2> HIDE DEF T
  <2> QED
    BY <2>1, Smallest
<1>3. ASSUME NEW j \in from..(f - 1) PROVE s[j] # c
  <2>1. j \in 1..(Len(s) + 1) /\ j >= from /\ ~(f <= j)
    BY <1>1, <1>2
  <2> QED
    BY <1>2, <2>1
<1>4. Find(s, c, from) = f
  <2>1. f \in 1..(Len(s) + 1) /\ (f > Len(s) \/ (f >= from /\ s[f] = c))
    BY <1>2
  <2> QED
    BY <1>3, <2>1, FindIs
<1> QED
  BY <1>2, <1>3, <1>4

\* A url with a star: the star is its end, behind the slash behind the base.
LEMMA BaseOf ==
    ASSUME NEW Chars, NEW url \in Seq(Chars), url # <<>>, StarAtEnd(url)
    PROVE  /\ IsGeneral(url) <=> Last(url) = Star
           /\ IsGeneral(url) => Len(url) > 1 /\ Base(url) = SubSeq(url, 1, Len(url) - 2)
<1>1. Len(url) \in Nat \ {0} /\ Len(url) \in 1..Len(url)
  OBVIOUS
<1>2. IsGeneral(url) <=> \E i \in 1..Len(url) : url[i] = Star
  BY DEF IsGeneral, Contains
<1>3. ASSUME NEW i \in 1..Len(url), url[i] = Star PROVE i = Len(url) /\ i > 1
  BY <1>3 DEF StarAtEnd
<1>4. IsGeneral(url) <=> Last(url) = Star
  BY <1>1, <1>2, <1>3 DEF Last
<1>5. ASSUME IsGeneral(url) PROVE Len(url) > 1 /\ Base(url) = SubSeq(url, 1, Len(url) - 2)
  <2>1. url[Len(url)] = Star /\ Len(url) > 1
    BY <1>2, <1>3, <1>5
  <2>2. ASSUME NEW j \in 1..(Len(url) - 1) PROVE url[j] # Star
    <3>1. j \in 1..Len(url) /\ j # Len(url)
      BY <1>1
    <3> QED
      BY <1>3, <3>1
  <2>3. Find(url, Star, 1) = Len(url)
    <3>1. Len(url) \in 1..(Len(url) + 1) /\ Len(url) >= 1 /\ 1 \in Nat \ {0}
      BY <1>1
    <3> QED
      BY <2>1, <2>2, <3>1, FindIs
  <2>4. Base(url) = Before(url, Len(url) - 1)
    BY <1>1, <2>1, <2>3 DEF Base
  <2>5. (Len(url) - 1) - 1 = Len(url) - 2
    BY <1>1
  <2> QED
    BY <2>1, <2>4, <2>5 DEF Before
<1> QED
  BY <1>4, <1>5

\* To be below a url, character by character.
LEMMA BelowIs ==
    ASSUME NEW Chars, NEW b \in Seq(Chars), NEW u \in Seq(Chars)
    PROVE  IsPrefix(b \o <<Slash>>, u) <=>
             /\ Len(b) < Len(u) /\ u[Len(b) + 1] = Slash
             /\ \A i \in 1..Len(b) : u[i] = b[i]
<1> DEFINE p == b \o <<Slash>>
           n == Len(b) + 1
<1>1. /\ p \in Seq(Chars \cup {Slash}) /\ Len(p) = n /\ p[n] = Slash
      /\ \A i \in 1..Len(b) : p[i] = b[i]
      /\ Len(b) \in Nat /\ Len(u) \in Nat
  OBVIOUS
<1>2. IsPrefix(p, u) <=> Len(p) <= Len(u) /\ SubSeq(p, 1, Len(p)) = SubSeq(u, 1, Len(p))
  BY DEF IsPrefix
<1> HIDE DEF p
<1>3. ASSUME n <= Len(u)
      PROVE  SubSeq(p, 1, n) = SubSeq(u, 1, n) <=> \A i \in 1..n : p[i] = u[i]
  <2>1. SubSeq(p, 1, n) = [i \in 1..n |-> p[i]]
    BY <1>1
  <2>2. SubSeq(u, 1, n) = [i \in 1..n |-> u[i]]
    BY <1>1, <1>3
  <2> QED
    BY <2>1, <2>2
<1>4. \A i : i \in 1..n <=> i \in 1..Len(b) \/ i = n
  BY <1>1
<1>5. n <= Len(u) <=> Len(b) < Len(u)
  BY <1>1
<1> QED
  BY <1>1, <1>2, <1>3, <1>4, <1>5 DEF p

\* Fits does what its name says.
LEMMA FitsIs ==
    ASSUME NEW Chars, NEW base \in Seq(Chars), NEW key \in Seq(Chars)
    PROVE  Fits(base, key) <=> key = base \/ IsPrefix(base \o <<Slash>>, key)
<1> DEFINE f == Find(key, Slash, Len(base) + 1)
<1>1. Len(base) \in Nat /\ Len(key) \in Nat /\ Len(base) + 1 \in Nat \ {0}
  OBVIOUS
<1>2. /\ f \in 1..(Len(key) + 1)
      /\ f > Len(key) \/ (f >= Len(base) + 1 /\ key[f] = Slash)
  BY <1>1, FindProperties
<1>3. Fits(base, key) <=> SubSeq(key, 1, f - 1) = base
  BY DEF Fits, Before
<1>4. ASSUME Fits(base, key) PROVE key = base \/ IsPrefix(base \o <<Slash>>, key)
  <2> HIDE DEF f
  <2>1. /\ Len(base) = f - 1 /\ f - 1 \in 0..Len(key)
        /\ \A i \in 1..(f - 1) : base[i] = key[i]
    <3>1. f - 1 \in 0..Len(key)
      BY <1>1, <1>2
    <3>2. SubSeq(key, 1, f - 1) = [i \in 1..(f - 1) |-> key[i]] /\ Len(SubSeq(key, 1, f - 1)) = f - 1
      BY <3>1
    <3> QED
      BY <1>3, <1>4, <3>1, <3>2
  <2>2. CASE f > Len(key)
    <3>1. Len(base) = Len(key) /\ \A i \in 1..Len(key) : base[i] = key[i]
      BY <1>1, <1>2, <2>1, <2>2
    <3> QED
      BY <3>1
  <2>3. CASE ~(f > Len(key))
    <3>1. Len(base) < Len(key) /\ key[Len(base) + 1] = Slash /\ \A i \in 1..Len(base) : key[i] = base[i]
      BY <1>1, <1>2, <2>1, <2>3
    <3> QED
      BY <3>1, BelowIs
  <2> QED
    BY <2>2, <2>3
<1>5. ASSUME key = base PROVE Fits(base, key)
  <2>1. f = Len(key) + 1
    BY <1>1, <1>2, <1>5
  <2>2. SubSeq(key, 1, Len(key)) = key
    OBVIOUS
  <2>3. (Len(key) + 1) - 1 = Len(key)
    BY <1>1
  <2> QED
    BY <1>3, <1>5, <2>1, <2>2, <2>3
<1>6. ASSUME IsPrefix(base \o <<Slash>>, key) PROVE Fits(base, key)
  <2>1. Len(base) < Len(key) /\ key[Len(base) + 1] = Slash /\ \A i \in 1..Len(base) : key[i] = base[i]
    BY <1>6, BelowIs
  <2>2. f = Len(base) + 1
    <3>1. Len(base) + 1 \in 1..(Len(key) + 1) /\ \A j \in (Len(base) + 1)..(Len(base) + 1 - 1) : FALSE
      BY <1>1, <2>1
    <3>2. Len(base) + 1 >= Len(base) + 1
      BY <1>1
    <3> QED
      BY <1>1, <2>1, <3>1, <3>2, FindIs
  <2>3. SubSeq(key, 1, Len(base)) = base
    BY <1>1, <2>1
  <2>4. (Len(base) + 1) - 1 = Len(base)
    BY <1>1
  <2> QED
    BY <1>3, <2>2, <2>3, <2>4
<1> QED
  BY <1>4, <1>5, <1>6

LEMMA KeyIs ==
    ASSUME NEW Chars, NEW m \in Chars, NEW u \in Seq(Chars)
    PROVE  /\ Key(m, u) \in Seq(Chars) /\ Len(Key(m, u)) = Len(u) + 1 /\ Key(m, u)[1] = m
           /\ \A i \in 1..Len(u) : Key(m, u)[i + 1] = u[i]
<1>1. <<m>> \in Seq(Chars) /\ Len(<<m>>) = 1 /\ <<m>>[1] = m
  OBVIOUS
<1>2. Key(m, u) = <<m>> \o u
  BY DEF Key
<1> QED
  BY <1>1, <1>2

\* The same of a key that stands for itself.
IsKey(k, m, u) ==
    Len(k) = Len(u) + 1 /\ k[1] = m /\ \A i \in 1..Len(u) : k[i + 1] = u[i]

LEMMA KeyIsKey ==
    ASSUME NEW Chars, NEW m \in Chars, NEW u \in Seq(Chars)
    PROVE  Key(m, u) \in Seq(Chars) /\ IsKey(Key(m, u), m, u)
<1> DEFINE k == Key(m, u)
<1>1. k \in Seq(Chars) /\ Len(k) = Len(u) + 1 /\ k[1] = m
  BY KeyIs
<1>2. ASSUME NEW i \in 1..Len(u) PROVE k[i + 1] = u[i]
  BY KeyIs
<1> QED
  BY <1>1, <1>2 DEF IsKey

\* Keys keep methods and urls apart.
LEMMA KeyInjective ==
    ASSUME NEW Chars, NEW l \in Chars, NEW m \in Chars, NEW b \in Seq(Chars), NEW u \in Seq(Chars)
    PROVE  Key(l, b) = Key(m, u) => l = m /\ b = u
<1> DEFINE kb == Key(l, b)
           ku == Key(m, u)
<1>0. IsKey(kb, l, b) /\ IsKey(ku, m, u)
  BY KeyIsKey
<1> HIDE DEF kb, ku
<1>1. Len(kb) = Len(b) + 1 /\ kb[1] = l /\ \A i \in 1..Len(b) : kb[i + 1] = b[i]
  BY <1>0 DEF IsKey
<1>2. Len(ku) = Len(u) + 1 /\ ku[1] = m /\ \A i \in 1..Len(u) : ku[i + 1] = u[i]
  BY <1>0 DEF IsKey
<1>3. Len(b) \in Nat /\ Len(u) \in Nat
  OBVIOUS
<1>4. ASSUME kb = ku PROVE l = m /\ b = u
  <2>1. Len(b) = Len(u) /\ l = m
    BY <1>1, <1>2, <1>3, <1>4
  <2>2. \A i \in 1..Len(u) : b[i] = u[i]
    BY <1>1, <1>2, <1>4, <2>1
  <2> QED
    BY <2>1, <2>2
<1> QED
  BY <1>4 DEF kb, ku

LEMMA KeyFits ==
    ASSUME NEW Chars, NEW l \in Chars, NEW m \in Chars, NEW b \in Seq(Chars), NEW u \in Seq(Chars)
    PROVE  Fits(Key(l, b), Key(m, u)) <=> l = m /\ (u = b \/ IsPrefix(b \o <<Slash>>, u))
<1> DEFINE kb == Key(l, b)
           ku == Key(m, u)
<1>0. kb \in Seq(Chars) /\ ku \in Seq(Chars) /\ IsKey(kb, l, b) /\ IsKey(ku, m, u)
  BY KeyIsKey
<1> HIDE DEF kb, ku
<1>1. /\ kb \in Seq(Chars) /\ ku \in Seq(Chars) /\ Len(kb) = Len(b) + 1 /\ Len(ku) = Len(u) + 1
      /\ kb[1] = l /\ ku[1] = m
      /\ \A i \in 1..Len(b) : kb[i + 1] = b[i]
      /\ \A i \in 1..Len(u) : ku[i + 1] = u[i]
      /\ Len(b) \in Nat /\ Len(u) \in Nat
  BY <1>0 DEF IsKey
<1>2. Fits(kb, ku) <=> ku = kb \/ IsPrefix(kb \o <<Slash>>, ku)
  BY <1>1, FitsIs
<1>3. ku = kb <=> l = m /\ u = b
  BY KeyInjective DEF kb, ku
<1>4. IsPrefix(kb \o <<Slash>>, ku) <=>
        /\ Len(kb) < Len(ku) /\ ku[Len(kb) + 1] = Slash
        /\ \A i \in 1..Len(kb) : ku[i] = kb[i]
  <2>1. kb \in Seq(Chars) /\ ku \in Seq(Chars)
    BY <1>1
  <2> QED
    BY ONLY <2>1, BelowIs
<1>5. IsPrefix(b \o <<Slash>>, u) <=>
        /\ Len(b) < Len(u) /\ u[Len(b) + 1] = Slash
        /\ \A i \in 1..Len(b) : u[i] = b[i]
  BY BelowIs
<1>6. ASSUME Len(b) < Len(u) PROVE ku[Len(kb) + 1] = u[Len(b) + 1]
  <2>1. Len(b) + 1 \in 1..Len(u)
    BY <1>1, <1>6
  <2> QED
    BY <1>1, <2>1
<1>7. ASSUME Len(b) < Len(u)
      PROVE  (\A i \in 1..Len(kb) : ku[i] = kb[i]) <=> l = m /\ \A i \in 1..Len(b) : u[i] = b[i]
  <2>1. \A i \in 1..Len(b) : ku[i + 1] = u[i] /\ kb[i + 1] = b[i] /\ i + 1 \in 1..Len(kb)
    BY <1>1, <1>7
  <2>2. \A i \in 1..Len(kb) : i = 1 \/ (i - 1 \in 1..Len(b) /\ (i - 1) + 1 = i)
    BY <1>1
  <2>3. 1 \in 1..Len(kb)
    BY <1>1
  <2>4. ASSUME \A i \in 1..Len(kb) : ku[i] = kb[i] PROVE l = m /\ \A i \in 1..Len(b) : u[i] = b[i]
    BY <1>1, <2>1, <2>3, <2>4
  <2>5. ASSUME l = m, \A i \in 1..Len(b) : u[i] = b[i], NEW i \in 1..Len(kb) PROVE ku[i] = kb[i]
    <3>1. CASE i = 1
      BY <1>1, <2>5, <3>1
    <3>2. CASE i - 1 \in 1..Len(b) /\ (i - 1) + 1 = i
      <4>1. u[i - 1] = b[i - 1] /\ ku[(i - 1) + 1] = u[i - 1] /\ kb[(i - 1) + 1] = b[i - 1]
        BY <2>1, <2>5, <3>2
      <4> QED
        BY <3>2, <4>1
    <3> QED
      BY <2>2, <3>1, <3>2
  <2> QED
    BY <2>4, <2>5
<1>8. Len(kb) < Len(ku) <=> Len(b) < Len(u)
  BY <1>1
<1>9. IsPrefix(kb \o <<Slash>>, ku) <=> l = m /\ IsPrefix(b \o <<Slash>>, u)
  BY <1>4, <1>5, <1>6, <1>7, <1>8
<1> QED
  BY <1>2, <1>3, <1>9 DEF kb, ku

\* What is left of a url without the slashes at its end.
LEMMA StrippedIs ==
    ASSUME NEW Chars, NEW url \in Seq(Chars), url # <<>>
    PROVE  Stripped(url) \in Seq(Chars)
<1> DEFINE Cut(n) == (n = 1 \/ url[n] # Slash) /\ \A i \in (n + 1)..Len(url) : url[i] = Slash
           T == {n \in 1..Len(url) : \A i \in (n + 1)..Len(url) : url[i] = Slash}
<1>1. Len(url) \in Nat \ {0} /\ DOMAIN url = 1..Len(url)
  OBVIOUS
<1>2. PICK n \in T : \A k \in T : n <= k
  <2>1. T \in SUBSET Nat /\ Len(url) \in T
    BY <1>1
  <2> HIDE DEF T
  <2> QED
    BY <2>1, Smallest
<1>3. ASSUME n # 1, url[n] = Slash PROVE FALSE
  <2>1. n - 1 \in 1..Len(url) /\ ~(n <= n - 1)
    BY <1>2, <1>3
  <2>2. ASSUME NEW i \in ((n - 1) + 1)..Len(url) PROVE url[i] = Slash
    <3>1. i = n \/ i \in (n + 1)..Len(url)
      BY <1>1, <1>2
    <3> QED
      BY <1>2, <1>3, <3>1
  <2> QED
    BY <1>2, <2>1, <2>2
<1>4. n \in DOMAIN url /\ Cut(n)
  BY <1>1, <1>2, <1>3
<1>5. Stripped(url) = SubSeq(url, 1, CHOOSE x \in DOMAIN url : Cut(x))
  BY DEF Stripped
<1> HIDE DEF Cut
<1>6. (CHOOSE x \in DOMAIN url : Cut(x)) \in 1..Len(url)
  BY <1>1, <1>4
<1>7. \A x \in 1..Len(url) : SubSeq(url, 1, x) \in Seq(Chars)
  BY <1>1
<1> QED
  BY <1>5, <1>6, <1>7

\* What a registration keeps and which requests it is for.
LEMMA KeptIs ==
    ASSUME NEW Chars, NEW reg \in RegType(Chars)
    PROVE  /\ reg.methods \subseteq Chars /\ Kept(reg.url) \in Seq(Chars)
           /\ Last(reg.url) = Star <=> IsGeneral(reg.url)
           /\ Len(reg.url) = Len(Kept(reg.url)) + (IF IsGeneral(reg.url) THEN 2 ELSE 0)
           /\ IsGeneral(reg.url) => Kept(reg.url) = Base(reg.url)
           /\ ~IsGeneral(reg.url) => Kept(reg.url) = reg.url
           /\ \A m, u : IsFor(reg, m, u) <=>
                /\ m \in reg.methods
                /\ \/ u = Kept(reg.url)
                   \/ IsGeneral(reg.url) /\ IsPrefix(Kept(reg.url) \o <<Slash>>, u)
<1> DEFINE url == reg.url
<1>1. reg.methods \subseteq Chars /\ url \in Seq(Chars) /\ url # <<>> /\ StarAtEnd(url)
  BY DEF RegType
<1> HIDE DEF url
<1>2. /\ IsGeneral(url) <=> Last(url) = Star
      /\ IsGeneral(url) => Len(url) > 1 /\ Base(url) = SubSeq(url, 1, Len(url) - 2)
  BY <1>1, BaseOf
<1>3. CASE IsGeneral(url)
  <2>1. Kept(url) = SubSeq(url, 1, Len(url) - 2) /\ Kept(url) = Base(url)
    BY <1>2, <1>3 DEF Kept
  <2>2. SubSeq(url, 1, Len(url) - 2) \in Seq(Chars) /\ Len(SubSeq(url, 1, Len(url) - 2)) = Len(url) - 2
    <3>1. Len(url) - 2 \in 0..Len(url)
      BY <1>1, <1>2, <1>3
    <3>2. \A x \in 0..Len(url) : SubSeq(url, 1, x) \in Seq(Chars) /\ Len(SubSeq(url, 1, x)) = x
      BY <1>1
    <3> QED
      BY <3>1, <3>2
  <2>3. \A m, u : IsFor(reg, m, u) <=>
          m \in reg.methods /\ (u = Kept(url) \/ IsPrefix(Kept(url) \o <<Slash>>, u))
    BY <1>2, <1>3, <2>1 DEF IsFor, url
  <2>4. Len(url) \in Nat
    BY <1>1
  <2>5. Len(url) = Len(Kept(url)) + 2
    BY <2>1, <2>2, <2>4
  <2>6. Kept(url) \in Seq(Chars)
    BY <2>1, <2>2
  <2> QED
    BY <1>1, <1>2, <1>3, <2>1, <2>3, <2>5, <2>6 DEF url
<1>4. CASE ~IsGeneral(url)
  <2>1. Kept(url) = url
    BY <1>4 DEF Kept
  <2>2. \A m, u : IsFor(reg, m, u) <=> m \in reg.methods /\ u = Kept(url)
    BY <1>2, <1>4, <2>1 DEF IsFor, url
  <2>3. Len(url) = Len(Kept(url)) + 0
    BY <1>1, <2>1
  <2> QED
    BY <1>1, <1>2, <1>4, <2>1, <2>2, <2>3 DEF url
<1> QED
  BY <1>3, <1>4

\* Under which keys a registration is found.
LEMMA KeysAre ==
    ASSUME NEW Chars, NEW reg \in RegType(Chars)
    PROVE  /\ \A k \in KeysOf(reg) : \E l \in reg.methods : k = Key(l, Kept(reg.url))
           /\ \A m \in Chars, u \in Seq(Chars) :
                Key(m, u) \in KeysOf(reg) <=> m \in reg.methods /\ Kept(reg.url) = u
<1>1. reg.methods \subseteq Chars /\ Kept(reg.url) \in Seq(Chars)
  BY KeptIs
<1>2. ASSUME NEW m \in Chars, NEW u \in Seq(Chars), Key(m, u) \in KeysOf(reg)
      PROVE  m \in reg.methods /\ Kept(reg.url) = u
  <2>1. PICK l \in reg.methods : Key(m, u) = Key(l, Kept(reg.url))
    BY <1>2 DEF KeysOf
  <2> QED
    BY <1>1, <2>1, KeyInjective
<1> QED
  BY <1>2 DEF KeysOf

LEMMA DeservedIs ==
    ASSUME NEW Chars, NEW regs \in Seq(RegType(Chars)), NEW m, NEW u, NEW w \in 1..Len(regs),
           IsFor(regs[w], m, u),
           \A j \in 1..Len(regs) : IsFor(regs[j], m, u) /\ j # w => Better(regs, w, j)
    PROVE  Deserved(regs, m, u) = regs[w].id
<1> DEFINE candidates == {i \in DOMAIN regs : IsFor(regs[i], m, u)}
           Best(i) == \A j \in candidates \ {i} : Better(regs, i, j)
<1>1. DOMAIN regs = 1..Len(regs) /\ Len(regs) \in Nat
  OBVIOUS
<1>2. w \in candidates /\ Best(w)
  BY <1>1
<1>3. ASSUME NEW x \in candidates, Best(x), x # w PROVE FALSE
  <2>1. Better(regs, w, x) /\ Better(regs, x, w)
    BY <1>2, <1>3
  <2>2. ASSUME NEW i \in 1..Len(regs) PROVE Len(regs[i].url) \in Nat
    <3>1. regs[i] \in RegType(Chars)
      OBVIOUS
    <3>2. regs[i].url \in Seq(Chars)
      BY <3>1 DEF RegType
    <3> QED
      BY <3>2
  <2>3. Len(regs[w].url) \in Nat /\ Len(regs[x].url) \in Nat /\ w \in Nat /\ x \in Nat
    BY <1>1, <2>2
  <2>4. ASSUME NEW a \in Nat, NEW b \in Nat, a > b \/ (a = b /\ w < x), b > a \/ (b = a /\ x < w)
        PROVE  FALSE
    BY <2>3, <2>4
  <2> QED
    BY <2>1, <2>3, <2>4 DEF Better
<1>4. Deserved(regs, m, u) = regs[CHOOSE i \in candidates : Best(i)].id
  BY <1>2 DEF Deserved
<1> HIDE DEF candidates, Best
<1>5. (CHOOSE i \in candidates : Best(i)) = w
  BY <1>2, <1>3
<1> QED
  BY <1>4, <1>5

\* A request whose url is registered deserves the first registration of it.
LEMMA SpecificFirst ==
    ASSUME NEW Chars, NEW regs \in Seq(RegType(Chars)), NEW m \in Chars, NEW u \in Seq(Chars),
           NEW i \in Specific(regs, Len(regs)), Key(m, u) \in KeysOf(regs[i])
    PROVE  \E w \in 1..Len(regs) :
             /\ First(regs, Specific(regs, Len(regs)), Key(m, u)) = w
             /\ Deserved(regs, m, u) = regs[w].id
             /\ Key(m, u) \in KeysOf(regs[w])
             /\ m = Websocket /\ ~ShareEvents(regs) =>
                  /\ w \in Sockets(regs, Len(regs))
                  /\ First(regs, Sockets(regs, Len(regs)), Key(m, u)) = w
<1> DEFINE k == Key(m, u)
           S == Specific(regs, Len(regs))
           W == Sockets(regs, Len(regs))
           w == First(regs, S, k)
<1>1. S \subseteq 1..Len(regs) /\ S \in SUBSET Nat /\ W \subseteq 1..Len(regs) /\ W \in SUBSET Nat
  BY DEF Specific, Sockets
<1>2. w \in S /\ k \in KeysOf(regs[w]) /\ \A j \in S : k \in KeysOf(regs[j]) => w <= j
  <2>1. i \in S /\ k \in KeysOf(regs[i])
    OBVIOUS
  <2> HIDE DEF S, k
  <2> QED
    BY <1>1, <2>1, FirstProperties
<1> HIDE DEF w
<1>3. \A j \in 1..Len(regs) : regs[j] \in RegType(Chars)
  OBVIOUS
<1>4. \A j \in 1..Len(regs) : k \in KeysOf(regs[j]) <=> m \in regs[j].methods /\ Kept(regs[j].url) = u
  BY <1>3, KeysAre
<1>5. w \in 1..Len(regs) /\ ~IsGeneral(regs[w].url)
  BY <1>1, <1>2 DEF Specific
<1> HIDE DEF k
<1>6. m \in regs[w].methods /\ Kept(regs[w].url) = u /\ regs[w].url = u
  BY <1>2, <1>3, <1>4, <1>5, KeptIs
<1>7. IsFor(regs[w], m, u)
  BY <1>3, <1>5, <1>6, KeptIs
<1>8. ASSUME NEW j \in 1..Len(regs), IsFor(regs[j], m, u), j # w PROVE Better(regs, w, j)
  <2>1. /\ Last(regs[w].url) # Star
        /\ Last(regs[j].url) = Star <=> IsGeneral(regs[j].url)
    BY <1>3, <1>5, KeptIs
  <2>2. CASE IsGeneral(regs[j].url)
    BY <2>1, <2>2 DEF Better
  <2>3. CASE ~IsGeneral(regs[j].url)
    <3>1. m \in regs[j].methods /\ Kept(regs[j].url) = u /\ regs[j].url = u
      BY <1>3, <1>8, <2>3, KeptIs
    <3>2. j \in S
      BY <2>3 DEF Specific
    <3>3. w <= j
      BY <1>2, <1>4, <3>1, <3>2
    <3>4. w < j
      BY <1>5, <1>8, <3>3
    <3> QED
      BY <1>6, <2>1, <2>3, <3>1, <3>4 DEF Better
  <2> QED
    BY <2>2, <2>3
<1>9. Deserved(regs, m, u) = regs[w].id
  BY <1>5, <1>7, <1>8, DeservedIs
<1>10. ASSUME m = Websocket, ~ShareEvents(regs) PROVE w \in W /\ First(regs, W, k) = w
  <2>1. w \in W
    BY <1>5, <1>6, <1>10 DEF Sockets
  <2>2. ASSUME NEW j \in W, k \in KeysOf(regs[j]) PROVE w <= j
    <3>1. j \in 1..Len(regs) /\ m \in regs[j].methods /\ Kept(regs[j].url) = u
      BY <1>1, <1>4, <2>2
    <3>2. CASE IsGeneral(regs[j].url)
      <4>1. regs[w].url = Base(regs[j].url)
        BY <1>3, <1>6, <3>1, <3>2, KeptIs
      <4>2. regs[w] \in ToSet(regs) /\ regs[j] \in ToSet(regs)
        BY <1>5, <3>1 DEF ToSet
      <4> QED
        BY <1>6, <1>10, <3>1, <3>2, <4>1, <4>2 DEF ShareEvents
    <3>3. CASE ~IsGeneral(regs[j].url)
      <4>1. j \in S
        BY <3>1, <3>3 DEF Specific
      <4> QED
        BY <1>2, <2>2, <4>1
    <3> QED
      BY <3>2, <3>3
  <2> HIDE DEF W
  <2> QED
    BY <1>1, <1>2, <2>1, <2>2, FirstIs
<1> QED
  BY <1>2, <1>5, <1>9, <1>10 DEF w, k

\* Of the bases of one url those of one length are the same.
LEMMA SameBase ==
    ASSUME NEW Chars, NEW a \in Seq(Chars), NEW b \in Seq(Chars), NEW u \in Seq(Chars),
           u = a \/ IsPrefix(a \o <<Slash>>, u), u = b \/ IsPrefix(b \o <<Slash>>, u),
           Len(a) = Len(b)
    PROVE  a = b
<1>1. \A i \in 1..Len(a) : u[i] = a[i]
  BY BelowIs
<1>2. \A i \in 1..Len(b) : u[i] = b[i]
  BY BelowIs
<1>3. \A i \in 1..Len(a) : a[i] = b[i]
  BY ONLY <1>1, <1>2, Len(a) = Len(b)
<1> QED
  BY <1>3

\* A request whose url is not registered deserves the first registration of the
\* longest base.
LEMMA GeneralFirst ==
    ASSUME NEW Chars, NEW regs \in Seq(RegType(Chars)), NEW m \in Chars, NEW u \in Seq(Chars),
           \A j \in Specific(regs, Len(regs)) : Key(m, u) \notin KeysOf(regs[j]),
           NEW i \in General(regs, Len(regs)), NEW k \in KeysOf(regs[i]), Fits(k, Key(m, u)),
           \A j \in General(regs, Len(regs)) : \A b \in KeysOf(regs[j]) :
              Fits(b, Key(m, u)) => Len(b) <= Len(k)
    PROVE  \E w \in 1..Len(regs) :
             /\ First(regs, General(regs, Len(regs)), k) = w
             /\ Deserved(regs, m, u) = regs[w].id
             /\ k \in KeysOf(regs[w])
             /\ m = Websocket /\ ~ShareEvents(regs) =>
                  /\ w \in Sockets(regs, Len(regs))
                  /\ First(regs, Sockets(regs, Len(regs)), k) = w
<1> DEFINE G == General(regs, Len(regs))
           W == Sockets(regs, Len(regs))
           w == First(regs, G, k)
<1>1. G \subseteq 1..Len(regs) /\ G \in SUBSET Nat /\ W \subseteq 1..Len(regs) /\ W \in SUBSET Nat
  BY DEF General, Sockets
<1>2. w \in G /\ k \in KeysOf(regs[w]) /\ \A j \in G : k \in KeysOf(regs[j]) => w <= j
  <2>1. i \in G
    OBVIOUS
  <2> HIDE DEF G
  <2> QED
    BY <1>1, <2>1, FirstProperties
<1> HIDE DEF w
<1>3. \A j \in 1..Len(regs) : regs[j] \in RegType(Chars)
  OBVIOUS
<1>4. w \in 1..Len(regs) /\ IsGeneral(regs[w].url)
  BY <1>1, <1>2 DEF General
<1> DEFINE kept(j) == Kept(regs[j].url)
<1>5. \A j \in 1..Len(regs) : kept(j) \in Seq(Chars) /\ regs[j].methods \subseteq Chars
  BY <1>3, KeptIs
<1>6. \A j \in 1..Len(regs) :
        /\ Last(regs[j].url) = Star <=> IsGeneral(regs[j].url)
        /\ Len(regs[j].url) = Len(kept(j)) + (IF IsGeneral(regs[j].url) THEN 2 ELSE 0)
        /\ IsGeneral(regs[j].url) => kept(j) = Base(regs[j].url)
        /\ ~IsGeneral(regs[j].url) => kept(j) = regs[j].url
        /\ IsFor(regs[j], m, u) <=>
             /\ m \in regs[j].methods
             /\ u = kept(j) \/ (IsGeneral(regs[j].url) /\ IsPrefix(kept(j) \o <<Slash>>, u))
  BY <1>3, KeptIs
<1>7. \A j \in 1..Len(regs) : \A v \in Seq(Chars) :
        Key(m, v) \in KeysOf(regs[j]) <=> m \in regs[j].methods /\ kept(j) = v
  BY <1>3, KeysAre
<1> HIDE DEF kept
<1>8. /\ k = Key(m, kept(w)) /\ m \in regs[w].methods
      /\ u = kept(w) \/ IsPrefix(kept(w) \o <<Slash>>, u)
  <2>1. PICK l \in regs[w].methods : k = Key(l, kept(w))
    BY <1>2, <1>3, <1>4, KeysAre DEF kept
  <2>2. l \in Chars /\ kept(w) \in Seq(Chars)
    BY <1>4, <1>5
  <2>3. l = m /\ (u = kept(w) \/ IsPrefix(kept(w) \o <<Slash>>, u))
    BY <2>1, <2>2, KeyFits
  <2> QED
    BY <2>1, <2>3
<1>9. IsFor(regs[w], m, u)
  BY <1>4, <1>6, <1>8
<1>10. ASSUME NEW j \in 1..Len(regs), IsFor(regs[j], m, u), j # w PROVE Better(regs, w, j)
  <2>1. m \in regs[j].methods /\ kept(j) \in Seq(Chars) /\ kept(w) \in Seq(Chars)
    BY <1>4, <1>5, <1>6, <1>10
  <2>2. CASE ~IsGeneral(regs[j].url)
    <3>1. Key(m, u) \in KeysOf(regs[j])
      BY <1>6, <1>7, <1>10, <2>1, <2>2
    <3>2. j \in Specific(regs, Len(regs))
      BY <2>2 DEF Specific
    <3> QED
      BY <3>1, <3>2
  <2>3. CASE IsGeneral(regs[j].url)
    <3>1. u = kept(j) \/ IsPrefix(kept(j) \o <<Slash>>, u)
      BY <1>6, <1>10
    <3>2. j \in G /\ Key(m, kept(j)) \in KeysOf(regs[j])
      BY <1>7, <2>1, <2>3 DEF General
    <3>3. Fits(Key(m, kept(j)), Key(m, u))
      BY <2>1, <3>1, KeyFits
    <3>4. Len(Key(m, kept(j))) <= Len(k)
      BY <3>2, <3>3
    <3>5. Len(Key(m, kept(j))) = Len(kept(j)) + 1 /\ Len(k) = Len(kept(w)) + 1
      BY <1>8, <2>1, KeyIs
    <3>6. Len(kept(j)) \in Nat /\ Len(kept(w)) \in Nat
      BY <2>1
    <3>7. Len(regs[j].url) = Len(kept(j)) + 2 /\ Len(regs[w].url) = Len(kept(w)) + 2
      BY <1>4, <1>6, <2>3
    <3>8. ASSUME Len(kept(j)) = Len(kept(w)) PROVE w < j
      <4>1. kept(j) = kept(w)
        BY <1>8, <2>1, <3>1, <3>8, SameBase
      <4>2. w <= j
        BY <1>2, <1>8, <3>2, <4>1
      <4> QED
        BY <1>4, <1>10, <4>2
    <3>9. \/ Len(regs[w].url) > Len(regs[j].url)
          \/ Len(regs[w].url) = Len(regs[j].url) /\ w < j
      <4>1. Len(kept(j)) + 1 <= Len(kept(w)) + 1
        BY ONLY <3>4, <3>5
      <4>2. \A a, b \in Nat : a + 1 <= b + 1 => b > a \/ a = b
        OBVIOUS
      <4>3. Len(kept(w)) > Len(kept(j)) \/ Len(kept(j)) = Len(kept(w))
        BY ONLY <3>6, <4>1, <4>2
      <4>4. \A a, b \in Nat : b > a => b + 2 > a + 2
        OBVIOUS
      <4>5. CASE Len(kept(w)) > Len(kept(j))
        BY ONLY <3>6, <3>7, <4>4, <4>5
      <4>6. CASE Len(kept(j)) = Len(kept(w))
        BY ONLY <3>7, <3>8, <4>6
      <4> QED
        BY ONLY <4>3, <4>5, <4>6
    <3>10. Last(regs[w].url) = Star /\ Last(regs[j].url) = Star
      BY <1>4, <1>6, <2>3
    <3> QED
      BY <3>9, <3>10 DEF Better
  <2> QED
    BY <2>2, <2>3
<1>11. Deserved(regs, m, u) = regs[w].id
  BY <1>4, <1>9, <1>10, DeservedIs
<1>12. ASSUME m = Websocket, ~ShareEvents(regs) PROVE w \in W /\ First(regs, W, k) = w
  <2>1. w \in W
    BY <1>4, <1>8, <1>12 DEF Sockets
  <2>2. ASSUME NEW j \in W, k \in KeysOf(regs[j]) PROVE w <= j
    <3>1. j \in 1..Len(regs) /\ m \in regs[j].methods /\ kept(j) = kept(w)
      BY <1>1, <1>4, <1>5, <1>7, <1>8, <2>2
    <3>2. CASE ~IsGeneral(regs[j].url)
      <4>1. regs[j].url = Base(regs[w].url)
        BY <1>4, <1>6, <3>1, <3>2
      <4>2. regs[w] \in ToSet(regs) /\ regs[j] \in ToSet(regs)
        BY <1>4, <3>1 DEF ToSet
      <4> QED
        BY <1>4, <1>8, <1>12, <3>1, <4>1, <4>2 DEF ShareEvents
    <3>3. CASE IsGeneral(regs[j].url)
      <4>1. j \in G
        BY <3>1, <3>3 DEF General
      <4> QED
        BY <1>2, <2>2, <4>1
    <3> QED
      BY <3>2, <3>3
  <2> HIDE DEF W
  <2> QED
    BY <1>1, <1>2, <2>1, <2>2, FirstIs
<1> QED
  BY <1>2, <1>4, <1>11, <1>12 DEF w

\* A request for which nothing is found deserves nothing.
LEMMA NoneFits ==
    ASSUME NEW Chars, NEW regs \in Seq(RegType(Chars)), NEW m \in Chars, NEW u \in Seq(Chars),
           \A j \in Specific(regs, Len(regs)) : Key(m, u) \notin KeysOf(regs[j]),
           \A j \in General(regs, Len(regs)) : \A b \in KeysOf(regs[j]) : ~Fits(b, Key(m, u))
    PROVE  Deserved(regs, m, u) = Nothing
<1>1. ASSUME NEW j \in DOMAIN regs, IsFor(regs[j], m, u) PROVE FALSE
  <2>1. j \in 1..Len(regs) /\ regs[j] \in RegType(Chars)
    OBVIOUS
  <2>2. m \in regs[j].methods /\ Kept(regs[j].url) \in Seq(Chars)
    BY <1>1, <2>1, KeptIs
  <2>3. Key(m, Kept(regs[j].url)) \in KeysOf(regs[j])
    BY <2>1, <2>2, KeysAre
  <2>4. CASE IsGeneral(regs[j].url)
    <3>1. j \in General(regs, Len(regs))
      BY <2>1, <2>4 DEF General
    <3>2. u = Kept(regs[j].url) \/ IsPrefix(Kept(regs[j].url) \o <<Slash>>, u)
      BY <1>1, <2>1, KeptIs
    <3>3. Fits(Key(m, Kept(regs[j].url)), Key(m, u))
      BY <2>2, <3>2, KeyFits
    <3> QED
      BY <2>3, <3>1, <3>3
  <2>5. CASE ~IsGeneral(regs[j].url)
    <3>1. j \in Specific(regs, Len(regs))
      BY <2>1, <2>5 DEF Specific
    <3>2. u = Kept(regs[j].url)
      BY <1>1, <2>1, <2>5, KeptIs
    <3> QED
      BY <2>3, <3>1, <3>2
  <2> QED
    BY <2>4, <2>5
<1>2. {i \in DOMAIN regs : IsFor(regs[i], m, u)} = {}
  BY <1>1
<1> QED
  BY <1>2 DEF Deserved

LEMMA Longest ==
    ASSUME NEW T, T # {}, NEW n \in Nat, \A b \in T : Len(b) \in 0..n
    PROVE  \E b \in T : \A c \in T : Len(c) <= Len(b)
<1> DEFINE Left == {n - Len(b) : b \in T}
<1>1. Left \in SUBSET Nat /\ Left # {}
  OBVIOUS
<1>2. PICK d \in Left : \A e \in Left : d <= e
  <2> HIDE DEF Left
  <2> QED
    BY <1>1, Smallest
<1>3. PICK b \in T : d = n - Len(b)
  BY <1>2
<1>4. ASSUME NEW c \in T PROVE Len(c) <= Len(b)
  <2>1. n - Len(b) <= n - Len(c)
    BY <1>2, <1>3
  <2>2. Len(b) \in 0..n /\ Len(c) \in 0..n
    OBVIOUS
  <2> QED
    BY <2>1, <2>2
<1> QED
  BY <1>4

\* A base that fits is not longer than what it fits.
LEMMA FitsWithin ==
    ASSUME NEW Chars, NEW b \in Seq(Chars), NEW k \in Seq(Chars), Fits(b, k)
    PROVE  Len(b) \in 0..Len(k)
<1>1. k = b \/ IsPrefix(b \o <<Slash>>, k)
  BY FitsIs
<1>2. Len(b) < Len(k) \/ k = b
  BY <1>1, BelowIs
<1>3. Len(b) \in Nat /\ Len(k) \in Nat
  OBVIOUS
<1> QED
  BY <1>2, <1>3

\* After any registrations of urls with a star only at their end, behind a slash,
\* any request is given the route that is the best for it, with the interceptors
\* and, for a websocket, the events of the same registration, except for
\* websockets that share a key (reg_router, pre_router, get_interceptors_process,
\* start_webscoket).
THEOREM RoutesAgree ==
    ASSUME NEW Chars, NEW regs \in Seq(RegType(Chars)), NEW method \in Chars,
           NEW url \in Seq(Chars), url # <<>>
    PROVE  Agrees(regs, Tables(regs), method, url)
<1> DEFINE n == Len(regs)
           t == TablesAfter(regs, n)
           u == Stripped(url)
           key == Key(method, u)
           fitting == {base \in DOMAIN t.generalRoutes : Fits(base, key)}
           best == CHOOSE base \in fitting : \A b \in fitting : Len(b) <= Len(base)
           found == PreRouter(t, method, url)
           got == Dispatch(t, method, url)
           id == Deserved(regs, method, u)
<1>1. n \in Nat /\ Tables(regs) = t
  <2>1. Len(regs) \in Nat
    OBVIOUS
  <2> QED
    BY <2>1, TablesAre
<1>2. u \in Seq(Chars) /\ key \in Seq(Chars)
  BY StrippedIs, KeyIs
<1>3. /\ t.routes = Table(regs, Specific(regs, n)) /\ t.interceptors = t.routes
      /\ t.generalRoutes = Table(regs, General(regs, n)) /\ t.generalInterceptors = t.generalRoutes
      /\ t.events = Table(regs, Sockets(regs, n))
  BY DEF TablesAfter
<1>4. \A I, k : /\ k \in DOMAIN Table(regs, I) <=> \E i \in I : k \in KeysOf(regs[i])
                /\ k \in DOMAIN Table(regs, I) => Table(regs, I)[k] = regs[First(regs, I, k)].id
  BY DEF Table
<1>5. found = IF key \in DOMAIN t.routes
                THEN [type |-> "specify", key |-> key, route |-> t.routes[key]]
              ELSE IF fitting # {}
                THEN [type |-> "general", key |-> best, route |-> t.generalRoutes[best]]
              ELSE [type |-> "unknown", key |-> <<>>, route |-> Nothing]
  BY DEF PreRouter
<1>6. /\ got.route = found.route
      /\ got.interceptors = GetInterceptorsProcess(t, found)
      /\ method = Websocket => got.events = Entry(t.events, found.key)
  BY DEF Dispatch
<1>7. SUFFICES /\ got.route = id /\ got.interceptors = id
               /\ method = Websocket /\ ~ShareEvents(regs) => got.events = id
  BY <1>1 DEF Agrees
<1> HIDE DEF n, t, u, found, got, id
<1>8. ASSUME key \in DOMAIN t.routes
      PROVE  /\ got.route = id /\ got.interceptors = id
             /\ method = Websocket /\ ~ShareEvents(regs) => got.events = id
  <2>1. PICK i \in Specific(regs, n) : key \in KeysOf(regs[i])
    BY <1>3, <1>4, <1>8
  <2>2. PICK w \in 1..n :
          /\ First(regs, Specific(regs, n), key) = w
          /\ id = regs[w].id
          /\ key \in KeysOf(regs[w])
          /\ method = Websocket /\ ~ShareEvents(regs) =>
               w \in Sockets(regs, n) /\ First(regs, Sockets(regs, n), key) = w
    BY <1>2, <2>1, SpecificFirst DEF n, id
  <2>3. found.type = "specify" /\ found.key = key /\ found.route = t.routes[key]
    BY <1>5, <1>8
  <2>4. t.routes[key] = id
    BY <1>3, <1>4, <1>8, <2>2
  <2>5. GetInterceptorsProcess(t, found) = id
    BY <1>3, <1>8, <2>3, <2>4 DEF GetInterceptorsProcess, Entry
  <2>6. ASSUME method = Websocket, ~ShareEvents(regs) PROVE got.events = id
    <3>1. key \in DOMAIN t.events /\ t.events[key] = id
      BY <1>3, <1>4, <2>2, <2>6
    <3> QED
      BY <1>6, <2>3, <2>6, <3>1 DEF Entry
  <2> QED
    BY <1>6, <2>3, <2>4, <2>5, <2>6
<1>9. ASSUME key \notin DOMAIN t.routes
      PROVE  \A j \in Specific(regs, n) : key \notin KeysOf(regs[j])
  BY <1>3, <1>4, <1>9
<1>10. ASSUME NEW j \in General(regs, n), NEW b \in KeysOf(regs[j]), Fits(b, key)
       PROVE  b \in fitting
  BY <1>3, <1>4, <1>10
<1>11. ASSUME key \notin DOMAIN t.routes, fitting # {}
       PROVE  /\ got.route = id /\ got.interceptors = id
              /\ method = Websocket /\ ~ShareEvents(regs) => got.events = id
  <2>1. \A b \in fitting : Len(b) \in 0..Len(key)
    <3> SUFFICES ASSUME NEW b \in fitting PROVE Len(b) \in 0..Len(key)
      OBVIOUS
    <3>1. PICK j \in General(regs, n) : b \in KeysOf(regs[j])
      BY <1>3, <1>4
    <3>2. regs[j] \in RegType(Chars)
      BY DEF General, n
    <3>3. PICK l \in regs[j].methods : b = Key(l, Kept(regs[j].url))
      BY <3>1, <3>2, KeysAre
    <3>4. b \in Seq(Chars)
      BY <3>2, <3>3, KeptIs, KeyIs
    <3> QED
      BY <1>2, <3>4, FitsWithin
  <2>2. Len(key) \in Nat
    BY <1>2
  <2> HIDE DEF fitting
  <2>3. \E b \in fitting : \A c \in fitting : Len(c) <= Len(b)
    BY <1>11, <2>1, <2>2, Longest
  <2>4. best \in fitting /\ \A b \in fitting : Len(b) <= Len(best)
    BY <2>3
  <2> HIDE DEF best
  <2>5. best \in DOMAIN t.generalRoutes /\ Fits(best, key)
    BY <2>4 DEF fitting
  <2>6. PICK i \in General(regs, n) : best \in KeysOf(regs[i])
    BY <1>3, <1>4, <2>5
  <2>7. \A j \in General(regs, n) : \A b \in KeysOf(regs[j]) : Fits(b, key) => Len(b) <= Len(best)
    BY <1>10, <2>4
  <2>8. PICK w \in 1..n :
          /\ First(regs, General(regs, n), best) = w
          /\ id = regs[w].id
          /\ best \in KeysOf(regs[w])
          /\ method = Websocket /\ ~ShareEvents(regs) =>
               w \in Sockets(regs, n) /\ First(regs, Sockets(regs, n), best) = w
    BY <1>2, <1>9, <1>11, <2>5, <2>6, <2>7, GeneralFirst DEF n, id
  <2>9. found.type = "general" /\ found.key = best /\ found.route = t.generalRoutes[best]
    BY <1>5, <1>11
  <2>10. t.generalRoutes[best] = id
    BY <1>3, <1>4, <2>5, <2>8
  <2>11. GetInterceptorsProcess(t, found) = id
    BY <1>3, <2>5, <2>9, <2>10 DEF GetInterceptorsProcess, Entry
  <2>12. ASSUME method = Websocket, ~ShareEvents(regs) PROVE got.events = id
    <3>1. best \in DOMAIN t.events /\ t.events[best] = id
      BY <1>3, <1>4, <2>8, <2>12
    <3> QED
      BY <1>6, <2>9, <2>12, <3>1 DEF Entry
  <2> QED
    BY <1>6, <2>9, <2>10, <2>11, <2>12
<1>12. ASSUME key \notin DOMAIN t.routes, fitting = {}
       PROVE  /\ got.route = id /\ got.interceptors = id
              /\ method = Websocket /\ ~ShareEvents(regs) => got.events = id
  <2>1. \A j \in General(regs, n) : \A b \in KeysOf(regs[j]) : ~Fits(b, key)
    BY <1>10, <1>12
  <2>2. id = Nothing
    BY <1>2, <1>9, <1>12, <2>1, NoneFits DEF n, id
  <2>3. found.type = "unknown" /\ found.key = <<>> /\ found.route = Nothing
    BY <1>5, <1>12
  <2>4. GetInterceptorsProcess(t, found) = Nothing
    BY <2>3 DEF GetInterceptorsProcess
  <2>5. ASSUME <<>> \in DOMAIN t.events PROVE FALSE
    <3>1. PICK j \in Sockets(regs, n) : <<>> \in KeysOf(regs[j])
      BY <1>3, <1>4, <2>5
    <3>2. regs[j] \in RegType(Chars)
      BY DEF Sockets, n
    <3>3. PICK l \in regs[j].methods : <<>> = Key(l, Kept(regs[j].url))
      BY <3>1, <3>2, KeysAre
    <3>4. l \in Chars /\ Kept(regs[j].url) \in Seq(Chars)
      BY <3>2, KeptIs
    <3>5. Len(Key(l, Kept(regs[j].url))) = Len(Kept(regs[j].url)) + 1
      BY <3>4, KeyIs
    <3> QED
      BY <3>3, <3>4, <3>5
  <2>6. method = Websocket => got.events = Nothing
    BY <1>6, <2>3, <2>5 DEF Entry
  <2> QED
    BY <1>6, <2>2, <2>3, <2>4, <2>6
<1> QED
  BY <1>8, <1>11, <1>12

\* No request of the instance that TLC runs is led astray.
THEOREM RouteAgreesHolds == Spec => []RouteAgrees
<1> DEFINE Chars == {"GET", "HEAD", Websocket, Slash, Star, "a", "b"}
<1>1. ASSUME NEW u \in Registered PROVE u \in Seq(Chars) /\ u # <<>> /\ StarAtEnd(u)
  <2>0. {"/", "*", "a", "b"} \subseteq Chars
    BY DEF Slash, Star
  <2> HIDE DEF Chars
  <2>1. CASE u = <<"/">>
    BY <2>0, <2>1 DEF StarAtEnd, Slash, Star
  <2>2. CASE u = <<"/", "a">>
    BY <2>0, <2>2 DEF StarAtEnd, Slash, Star
  <2>3. CASE u = <<"/", "a", "/", "b">>
    BY <2>0, <2>3 DEF StarAtEnd, Slash, Star
  <2>4. CASE u = <<"/", "*">>
    BY <2>0, <2>4 DEF StarAtEnd, Slash, Star
  <2>5. CASE u = <<"/", "a", "/", "*">>
    BY <2>0, <2>5 DEF StarAtEnd, Slash, Star
  <2>6. CASE u = <<"/", "a", "/", "b", "/", "*">>
    BY <2>0, <2>6 DEF StarAtEnd, Slash, Star
  <2>7. CASE u = <<"/", "a", "b", "/", "*">>
    BY <2>0, <2>7 DEF StarAtEnd, Slash, Star
  <2> QED
    BY <2>1, <2>2, <2>3, <2>4, <2>5, <2>6, <2>7 DEF Registered
<1>2. ASSUME NEW ms \in MethodSets PROVE ms \subseteq Chars
  BY DEF MethodSets
<1>3. ASSUME NEW regs \in Registrations PROVE regs \in Seq(RegType(Chars))
  <2>1. PICK k \in 0..3 : \E s \in [1..k -> [methods : SUBSET Chars, url : Registered]] :
          regs = [i \in DOMAIN s |-> [methods |-> s[i].methods, url |-> s[i].url, id |-> i]]
    BY <1>2 DEF Registrations, SeqOf, MethodSets
  <2> PICK s \in [1..k -> [methods : SUBSET Chars, url : Registered]] :
          regs = [i \in DOMAIN s |-> [methods |-> s[i].methods, url |-> s[i].url, id |-> i]]
    BY <2>1
  <2>2. \A i \in 1..k : [methods |-> s[i].methods, url |-> s[i].url, id |-> i] \in RegType(Chars)
    BY <1>1 DEF RegType
  <2> HIDE DEF Chars
  <2> QED
    BY <2>1, <2>2
<1>4. ASSUME NEW url \in Urls PROVE url \in Seq(Chars) /\ url # <<>>
  <2>1. PICK v \in SeqOf({"/", "a", "b"}, 4) : url = <<"/">> \o v
    BY <1>4 DEF Urls
  <2>2. PICK k \in 0..4 : v \in [1..k -> {"/", "a", "b"}]
    BY DEF SeqOf
  <2>3. "/" \in Chars /\ {"/", "a", "b"} \subseteq Chars
    BY DEF Slash
  <2> HIDE DEF Chars
  <2>4. v \in Seq(Chars)
    BY <2>2, <2>3
  <2> QED
    BY <2>1, <2>3, <2>4
<1>5. {"GET", "HEAD", Websocket} \subseteq Chars
  OBVIOUS
<1> HIDE DEF Chars
<1>6. Misrouted = {}
  BY <1>3, <1>4, <1>5, RoutesAgree DEF Misrouted
<1>7. RouteAgrees
  BY <1>6 DEF RouteAgrees
<1> QED
  BY <1>7, PTL
=============================================================================
