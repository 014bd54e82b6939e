------------------------ MODULE RequestReaderProofs -------------------------
(***************************************************************************)
(* Proofs about RequestReader, for any requests, header lengths, segments  *)
(* and buffer sizes: that the buffer is sound (IInv), and, from that, that *)
(* what reaches the route is whole and nothing is waited for in vain       *)
(* (BodyInv).                                                              *)
(***************************************************************************)
EXTENDS RequestReader, SequenceTheorems, FiniteSetTheorems, TLAPS

\* The buffer never gets larger than its limit, and when a handler that looks at
\* it runs, what is in use of it is there.
Sized ==
    /\ Len(buffers) <= MaxSize
    /\ ~reading /\ pc \in Handlers => cur <= Len(buffers)
    /\ reading => pc \in Handlers

\* Until the header overflows, there is room for what a read asks for.
Room ==
    "headerOverflow" \notin mishaps =>
        /\ cur <= Len(buffers)
        /\ reading => cur + left <= Len(buffers)
        /\ InitialSize <= expand
        /\ Len(buffers) <= expand
        /\ expand <= MaxSize \/ pc = "tooLarge"

\* Where the window starts: behind what was consumed.
Started ==
    /\ start <= cur
    /\ pc \in {"header", "string", "octet"} => start = 0

\* How much was read of what: the header stays in the buffer until the body of a
\* known length moves to its place.
Position ==
    /\ pc = "header" => cur = taken
    /\ pc = "string" => cur + request.header = taken
    /\ pc = "string" => request.kind = "string"
    /\ pc \in {"octet", "partHead", "partData"} => request.kind # "string"
    /\ pc \in {"partHead", "partData"} => cur - start <= taken

\* The window is what the peer sent last.
Keeps == {"header", "string", "partHead", "partData"}
Kept ==
    pc \in Keeps /\ cur <= Len(buffers) =>
        \A i \in (start + 1)..cur : buffers[i] = Stream(request)[taken - cur + i]

\* A text that is routed is what was sent.
TextWhole == pc = "routed" /\ request.kind = "string" => content = request.body

\* The inductive invariant.
IInv ==
    /\ TypeOK
    /\ Sized
    /\ Room
    /\ Started
    /\ Position
    /\ Kept
    /\ TextWhole

-----------------------------------------------------------------------------
(* The operators on buffers.                                               *)

\* A function on 1..n is a sequence of length n.
LEMMA FunctionIsSeq ==
    ASSUME NEW S, NEW n \in Nat, NEW f \in [1..n -> S]
    PROVE  f \in Seq(S) /\ Len(f) = n
  OBVIOUS

LEMMA RepeatProperties ==
    ASSUME NEW b \in Bytes, NEW n \in Nat
    PROVE  /\ Repeat(b, n) \in Seq(Bytes)
           /\ Len(Repeat(b, n)) = n
           /\ \A i \in 1..n : Repeat(b, n)[i] = b
<1>1. Repeat(b, n) \in [1..n -> Bytes]
  BY DEF Repeat
<1> QED
  BY <1>1, FunctionIsSeq DEF Repeat

LEMMA ResizedProperties ==
    ASSUME NEW s \in Seq(Bytes), NEW n \in Nat
    PROVE  /\ Resized(s, n) \in Seq(Bytes)
           /\ Len(Resized(s, n)) = n
           /\ \A i \in 1..n : i <= Len(s) => Resized(s, n)[i] = s[i]
<1>1. Resized(s, n) \in [1..n -> Bytes]
  BY BytesAssumption DEF Resized
<1> QED
  BY <1>1, FunctionIsSeq DEF Resized

LEMMA ForwardedProperties ==
    ASSUME NEW s \in Seq(Bytes), NEW from \in Nat, NEW to \in Nat, to <= Len(s)
    PROVE  /\ Forwarded(s, from, to) \in Seq(Bytes)
           /\ Len(Forwarded(s, from, to)) = Len(s)
           /\ \A i \in 1..(to - from) : Forwarded(s, from, to)[i] = s[i + from]
<1>1. Len(s) \in Nat /\ \A i \in 1..Len(s) : s[i] \in Bytes
  OBVIOUS
<1>2. Forwarded(s, from, to) \in [1..Len(s) -> Bytes]
  BY <1>1 DEF Forwarded
<1> QED
  BY <1>1, <1>2, FunctionIsSeq DEF Forwarded

\* The peer's bytes: the header, the body and what follows.
LEMMA StreamProperties ==
    ASSUME NEW r \in Requests
    PROVE  /\ Stream(r) \in Seq(Bytes)
           /\ Len(Stream(r)) = r.header + Len(r.body) + Len(r.extra)
           /\ \A i \in 1..Len(r.body) : Stream(r)[r.header + i] = r.body[i]
           /\ r.header \in Nat \ {0} /\ r.body \in Seq(Bytes)
<1>1. r.header \in Nat \ {0} /\ r.body \in Seq(Bytes) /\ r.extra \in Seq(Bytes)
  BY RequestsAssumption DEF RequestType
<1> DEFINE h == Repeat(HeadByte, r.header)
<1>2. h \in Seq(Bytes) /\ Len(h) = r.header
  BY <1>1, RepeatProperties, BytesAssumption
<1> HIDE DEF h
<1> DEFINE t == h \o r.body
<1>3. /\ t \in Seq(Bytes) /\ Len(t) = r.header + Len(r.body)
      /\ \A i \in 1..Len(t) : t[i] = IF i <= r.header THEN h[i] ELSE r.body[i - r.header]
  <2>1. /\ t \in Seq(Bytes) /\ Len(t) = Len(h) + Len(r.body)
        /\ \A i \in 1..(Len(h) + Len(r.body)) :
               t[i] = IF i <= Len(h) THEN h[i] ELSE r.body[i - Len(h)]
    BY <1>1, <1>2, ConcatProperties, Zenon
  <2> QED
    BY <1>1, <1>2, <2>1
<1>4. Stream(r) = t \o r.extra
  BY DEF Stream, h
<1> HIDE DEF t
<1>5. /\ Stream(r) \in Seq(Bytes) /\ Len(Stream(r)) = Len(t) + Len(r.extra)
      /\ \A i \in 1..Len(t) : Stream(r)[i] = t[i]
  <2>1. /\ t \o r.extra \in Seq(Bytes) /\ Len(t \o r.extra) = Len(t) + Len(r.extra)
        /\ \A i \in 1..(Len(t) + Len(r.extra)) :
               (t \o r.extra)[i] = IF i <= Len(t) THEN t[i] ELSE r.extra[i - Len(t)]
    BY <1>1, <1>3, ConcatProperties, Zenon
  <2>2. Len(t) \in Nat /\ Len(r.extra) \in Nat
    BY <1>1, <1>3
  <2> QED
    BY <1>4, <2>1, <2>2
<1>6. Len(r.body) \in Nat /\ Len(r.extra) \in Nat
  BY <1>1
<1>7. ASSUME NEW i \in 1..Len(r.body) PROVE Stream(r)[r.header + i] = r.body[i]
  <2>1. r.header + i \in 1..Len(t) /\ ~(r.header + i <= r.header) /\ (r.header + i) - r.header = i
    BY <1>1, <1>3, <1>6, <1>7
  <2> QED
    BY <1>3, <1>5, <2>1
<1> QED
  BY <1>1, <1>3, <1>5, <1>6, <1>7

\* expand_size: the types of what it leaves behind; what was in the buffer stays.
LEMMA ExpandedProperties ==
    ASSUME NEW s \in Seq(Bytes), NEW c \in Nat, NEW multipart \in BOOLEAN, expand \in Nat,
           Len(s) <= MaxSize, multipart => c <= MaxSize
    PROVE  LET e == Expanded(s, c, multipart) IN
           /\ e.expand \in 0..(WordSize - 1) /\ e.left \in 0..(WordSize - 1)
           /\ e.buffers \in Seq(Bytes) /\ Len(e.buffers) <= MaxSize /\ e.ok \in BOOLEAN
           /\ \A i \in 1..Len(s) : i <= Len(e.buffers) => e.buffers[i] = s[i]
<1>1. Doubled \in Nat /\ Doubled \in 0..(WordSize - 1) /\ (Doubled - c) % WordSize \in 0..(WordSize - 1)
  BY SizesAssumption DEF Doubled
<1>2. MaxSize \in Nat /\ MaxSize < WordSize /\ Len(s) \in Nat
  BY SizesAssumption
<1>3. CASE Doubled <= MaxSize
  <2> DEFINE new == Resized(s, Doubled)
  <2>1. Expanded(s, c, multipart) = [expand |-> Doubled, buffers |-> new,
            left |-> (Doubled - c) % WordSize, ok |-> TRUE]
    BY <1>3 DEF Expanded
  <2>2. new \in Seq(Bytes) /\ Len(new) = Doubled
        /\ \A i \in 1..Doubled : i <= Len(s) => new[i] = s[i]
    BY <1>1, ResizedProperties
  <2> HIDE DEF new
  <2> QED
    BY <1>1, <1>2, <1>3, <2>1, <2>2
<1>4. CASE ~(Doubled <= MaxSize) /\ multipart
  <2> DEFINE new == IF Len(s) < MaxSize THEN Resized(s, MaxSize) ELSE s
  <2>1. Expanded(s, c, multipart) = [expand |-> MaxSize, left |-> MaxSize - c, ok |-> TRUE,
            buffers |-> new]
    BY <1>4 DEF Expanded
  <2>2. new \in Seq(Bytes) /\ Len(new) = MaxSize
        /\ \A i \in 1..MaxSize : i <= Len(s) => new[i] = s[i]
    <3>1. CASE Len(s) < MaxSize
      BY <1>2, <3>1, ResizedProperties
    <3>2. CASE ~(Len(s) < MaxSize)
      BY <1>2, <3>2
    <3> QED
      BY <3>1, <3>2
  <2>3. MaxSize - c \in 0..(WordSize - 1) /\ MaxSize \in 0..(WordSize - 1)
    BY <1>2, <1>4, SizesAssumption
  <2> HIDE DEF new
  <2> QED
    BY <1>2, <2>1, <2>2, <2>3
<1>5. CASE ~(Doubled <= MaxSize) /\ ~multipart
  <2>1. Expanded(s, c, multipart) = [expand |-> Doubled, buffers |-> s, left |-> 0, ok |-> FALSE]
    BY <1>5 DEF Expanded
  <2> QED
    BY <1>1, <1>2, <2>1, SizesAssumption
<1> QED
  BY <1>3, <1>4, <1>5

\* expand_size: there is room for what the read will ask for, or it says so.
LEMMA ExpandedRoom ==
    ASSUME NEW s \in Seq(Bytes), NEW c \in Nat, NEW multipart \in BOOLEAN, expand \in Nat,
           InitialSize <= expand, expand <= MaxSize, Len(s) <= expand, c <= Len(s)
    PROVE  LET e == Expanded(s, c, multipart) IN
           /\ InitialSize <= e.expand /\ Len(e.buffers) <= e.expand
           /\ c <= Len(e.buffers) /\ c + e.left <= Len(e.buffers)
           /\ e.ok => e.expand <= MaxSize
<1>1. Doubled = 2 * expand /\ Doubled \in Nat
  BY SizesAssumption DEF Doubled
<1>2. MaxSize \in Nat /\ MaxSize < WordSize /\ InitialSize \in Nat /\ Len(s) \in Nat
  BY SizesAssumption
<1>3. CASE Doubled <= MaxSize
  <2>1. (Doubled - c) % WordSize = Doubled - c
    BY <1>1, <1>2, <1>3, SizesAssumption
  <2>2. Expanded(s, c, multipart) = [expand |-> Doubled, buffers |-> Resized(s, Doubled),
            left |-> Doubled - c, ok |-> TRUE]
    BY <1>3, <2>1 DEF Expanded
  <2>3. Len(Resized(s, Doubled)) = Doubled
    BY <1>1, <1>2, ResizedProperties
  <2> QED
    BY <1>1, <1>2, <1>3, <2>2, <2>3
<1>4. CASE ~(Doubled <= MaxSize) /\ multipart
  <2> DEFINE new == IF Len(s) < MaxSize THEN Resized(s, MaxSize) ELSE s
  <2>1. Expanded(s, c, multipart) = [expand |-> MaxSize, left |-> MaxSize - c, ok |-> TRUE,
            buffers |-> new]
    BY <1>4 DEF Expanded
  <2>2. Len(new) = MaxSize
    BY <1>2, ResizedProperties
  <2> HIDE DEF new
  <2> QED
    BY <1>2, <2>1, <2>2, SizesAssumption
<1>5. CASE ~(Doubled <= MaxSize) /\ ~multipart
  <2>1. Expanded(s, c, multipart) = [expand |-> Doubled, buffers |-> s, left |-> 0, ok |-> FALSE]
    BY <1>5 DEF Expanded
  <2> QED
    BY <1>1, <1>2, <1>5, <2>1
<1> QED
  BY <1>3, <1>4, <1>5

\* A set of numbers that is not empty has a smallest one.  (Of the intervals from
\* 0 to its elements one is minimal.)
LEMMA Smallest ==
    ASSUME NEW T \in SUBSET Nat, T # {}
    PROVE  \E j \in T : \A k \in T : j <= k
<1> DEFINE Below == {0..j : j \in T}
<1>1. Below \subseteq FiniteSubsetsOf(Nat) /\ Below # {}
  <2>1. ASSUME NEW j \in T PROVE 0..j \in SUBSET Nat /\ IsFiniteSet(0..j)
    BY FS_Interval
  <2> QED
    BY <2>1 DEF FiniteSubsetsOf
<1>2. IsWellFoundedOn(StrictSubsetOrdering(Nat), FiniteSubsetsOf(Nat))
  BY FS_StrictSubsetOrderingWellFounded
<1>3. \E x \in Below : \A y \in Below : ~(<<y, x>> \in StrictSubsetOrdering(Nat))
  <2> HIDE DEF Below
  <2> QED
    BY <1>1, <1>2, WFMin, Zenon
<1>4. PICK j \in T : \A k \in T : ~(<<0..k, 0..j>> \in StrictSubsetOrdering(Nat))
  BY <1>3
<1>5. ASSUME NEW k \in T, ~(j <= k) PROVE FALSE
  <2>1. 0..k \subseteq 0..j /\ j \in 0..j /\ j \notin 0..k
    BY <1>5
  <2>2. 0..k # 0..j /\ 0..k \in SUBSET Nat /\ 0..j \in SUBSET Nat
    BY <2>1
  <2> QED
    BY <1>4, <2>1, <2>2 DEF StrictSubsetOrdering
<1> QED
  BY <1>5

\* string_view::find returns the first place at which the text is found, if there
\* is one.
LEMMA FindFromProperties ==
    ASSUME NEW s \in Seq(Bytes), NEW p \in Seq(Bytes), NEW i \in Nat, HasFrom(s, p, i)
    PROVE  /\ FindFrom(s, p, i) \in Nat /\ i <= FindFrom(s, p, i)
           /\ FindFrom(s, p, i) + Len(p) <= Len(s)
           /\ Occurs(s, p, FindFrom(s, p, i))
           /\ \A k \in i..(FindFrom(s, p, i) - 1) : ~Occurs(s, p, k)
<1>1. Len(s) \in Nat /\ Len(p) \in Nat
  OBVIOUS
<1> DEFINE Places == {j \in i..Len(s) : Occurs(s, p, j)}
<1>2. Places \in SUBSET Nat /\ Places # {}
  BY <1>1 DEF HasFrom
<1>3. PICK j \in Places : \A k \in Places : j <= k
  <2> HIDE DEF Places
  <2> QED
    BY <1>2, Smallest
<1>4. j \in i..Len(s) /\ Occurs(s, p, j) /\ \A k \in i..(j - 1) : ~Occurs(s, p, k)
  <2>1. ASSUME NEW k \in i..(j - 1), Occurs(s, p, k) PROVE FALSE
    <3>1. k \in i..Len(s) /\ ~(j <= k)
      BY <1>1, <2>1
    <3> QED
      BY <1>3, <2>1, <3>1
  <2> QED
    BY <2>1
<1>5. /\ FindFrom(s, p, i) \in i..Len(s) /\ Occurs(s, p, FindFrom(s, p, i))
      /\ \A k \in i..(FindFrom(s, p, i) - 1) : ~Occurs(s, p, k)
  BY <1>4 DEF FindFrom
<1> QED
  BY <1>1, <1>5 DEF Occurs

\* Of a part that precedes another.
LEMMA FindProperties ==
    ASSUME NEW s \in Seq(Bytes), NEW p \in Seq(Bytes), Has(s, p)
    PROVE  /\ Find(s, p) \in Nat /\ Find(s, p) + Len(p) <= Len(s)
           /\ Occurs(s, p, Find(s, p))
           /\ \A k \in 0..(Find(s, p) - 1) : ~Occurs(s, p, k)
<1>1. HasFrom(s, p, 0)
  BY DEF Has, HasFrom
<1> QED
  BY <1>1, FindFromProperties DEF Find

\* What is between the start and the current position, while it is in the buffer.
LEMMA WindowProperties ==
    ASSUME TypeOK, start <= cur, cur <= Len(buffers)
    PROVE  Window \in Seq(Bytes) /\ Len(Window) = cur - start
<1>1. start + 1 \in Int /\ cur \in Int /\ Len(buffers) \in Nat
  BY DEF TypeOK
<1>2. \A i \in (start + 1)..cur : buffers[i] \in Bytes
  BY DEF TypeOK
<1>3. /\ SubSeq(buffers, start + 1, cur) \in Seq(Bytes)
      /\ Len(SubSeq(buffers, start + 1, cur)) = IF start + 1 <= cur THEN cur - (start + 1) + 1 ELSE 0
  BY <1>1, <1>2, SubSeqProperties, Zenon
<1> QED
  BY <1>3 DEF Window, TypeOK

\* The first n elements of a sequence.
LEMMA FirstProperties ==
    ASSUME NEW s \in Seq(Bytes), NEW n \in 0..Len(s)
    PROVE  /\ SubSeq(s, 1, n) \in Seq(Bytes) /\ Len(SubSeq(s, 1, n)) = n
           /\ \A i \in 1..n : SubSeq(s, 1, n)[i] = s[i]
<1>1. Len(s) \in Nat /\ \A i \in 1..Len(s) : s[i] \in Bytes
  OBVIOUS
<1>2. SubSeq(s, 1, n) = [i \in 1..n |-> s[i]]
  BY <1>1
<1>3. [i \in 1..n |-> s[i]] \in [1..n -> Bytes]
  BY <1>1
<1> QED
  BY <1>2, <1>3, FunctionIsSeq

-----------------------------------------------------------------------------
(* The reads that follow a handler.                                        *)

\* continue_read_data: what is in use of the buffer stays, the handler runs when
\* the read completes.
LEMMA ReadMoreKeeps ==
    ASSUME NEW s \in Seq(Bytes), NEW c \in Nat, NEW handler \in Handlers,
           NEW multipart \in BOOLEAN, expand \in Nat,
           Len(s) <= MaxSize, c <= Len(s), ReadMore(s, c, handler, multipart)
    PROVE  /\ expand' \in 0..(WordSize - 1) /\ left' \in 0..(WordSize - 1)
           /\ buffers' \in Seq(Bytes) /\ Len(buffers') <= MaxSize /\ cur' = c
           /\ reading' \in BOOLEAN
           /\ \/ reading' /\ pc' = handler
              \/ ~reading' /\ pc' = "tooLarge"
           /\ \A i \in 1..c : i <= Len(buffers') => buffers'[i] = s[i]
<1> DEFINE e == Expanded(s, c, multipart)
<1>1. c <= MaxSize
  BY SizesAssumption
<1>2. /\ e.expand \in 0..(WordSize - 1) /\ e.left \in 0..(WordSize - 1)
      /\ e.buffers \in Seq(Bytes) /\ Len(e.buffers) <= MaxSize /\ e.ok \in BOOLEAN
      /\ \A i \in 1..Len(s) : i <= Len(e.buffers) => e.buffers[i] = s[i]
  BY <1>1, ExpandedProperties
<1>3. /\ expand' = e.expand /\ buffers' = e.buffers /\ left' = e.left /\ cur' = c
      /\ pc' = IF e.ok THEN handler ELSE "tooLarge"
      /\ reading' = e.ok
  BY DEF ReadMore, ExpandTo
<1> HIDE DEF e
<1>4. \A i \in 1..c : i \in 1..Len(s)
  OBVIOUS
<1> QED
  BY <1>2, <1>3, <1>4

\* ... and what it asks for fits.
LEMMA ReadMoreRoom ==
    ASSUME NEW s \in Seq(Bytes), NEW c \in Nat, NEW handler \in Handlers,
           NEW multipart \in BOOLEAN, expand \in Nat,
           InitialSize <= expand, expand <= MaxSize, Len(s) <= expand, c <= Len(s),
           ReadMore(s, c, handler, multipart)
    PROVE  /\ cur' <= Len(buffers') /\ cur' + left' <= Len(buffers')
           /\ InitialSize <= expand' /\ Len(buffers') <= expand'
           /\ expand' <= MaxSize \/ pc' = "tooLarge"
<1> DEFINE e == Expanded(s, c, multipart)
<1>1. /\ InitialSize <= e.expand /\ Len(e.buffers) <= e.expand
      /\ c <= Len(e.buffers) /\ c + e.left <= Len(e.buffers)
      /\ e.ok => e.expand <= MaxSize
  BY ExpandedRoom
<1>2. /\ expand' = e.expand /\ buffers' = e.buffers /\ left' = e.left /\ cur' = c
      /\ pc' = IF e.ok THEN handler ELSE "tooLarge"
  BY DEF ReadMore, ExpandTo
<1> HIDE DEF e
<1> QED
  BY <1>1, <1>2

\* A read into a buffer of the initial size.
LEMMA ReadAfreshKeeps ==
    ASSUME NEW handler \in Handlers, ReadAfresh(handler)
    PROVE  /\ left' \in 0..(WordSize - 1)
           /\ buffers' \in Seq(Bytes) /\ Len(buffers') = InitialSize
           /\ InitialSize <= MaxSize /\ cur' = 0 /\ left' = InitialSize
           /\ reading' = TRUE /\ pc' = handler /\ expand' = expand
<1>1. InitialSize \in Nat /\ InitialSize <= MaxSize /\ InitialSize < WordSize
      /\ MaxSize \in Nat /\ WordSize \in Nat
  BY SizesAssumption
<1>2. /\ buffers' = Repeat(Zero, InitialSize) /\ cur' = 0 /\ left' = InitialSize
      /\ pc' = handler /\ reading' = TRUE /\ expand' = expand
  BY DEF ReadAfresh
<1>3. Repeat(Zero, InitialSize) \in Seq(Bytes) /\ Len(Repeat(Zero, InitialSize)) = InitialSize
  BY <1>1, BytesAssumption, RepeatProperties
<1> QED
  BY <1>1, <1>2, <1>3

\* A handler that starts another read behind the c bytes in use of s.
LEMMA ReadMoreStep ==
    ASSUME IInv, ~reading, pc \in Handlers,
           NEW s \in Seq(Bytes), NEW c \in Nat, NEW handler \in Handlers \ {"header"},
           NEW multipart \in BOOLEAN,
           Len(s) <= Len(buffers), c <= Len(s), ReadMore(s, c, handler, multipart),
           request' = request, taken' = taken, start' \in Nat, start' <= c,
           handler \in {"string", "octet"} => start' = 0,
           handler # "octet" => c - start' <= taken,
           handler = "string" => c + request.header = taken /\ request.kind = "string",
           handler # "string" => request.kind # "string",
           handler # "octet" =>
               \A i \in (start' + 1)..c : s[i] = Stream(request)[taken - c + i],
           content' \in Seq(Bytes), stored' \in BOOLEAN, part' \in Bytes,
           form' \in [Names -> Seq(Bytes)], mishaps' \subseteq Mishaps, mishaps \subseteq mishaps'
    PROVE  IInv'
<1>1. TypeOK /\ Sized /\ Room
  BY DEF IInv
<1>2. Len(s) \in Nat /\ Len(s) <= MaxSize /\ expand \in Nat /\ MaxSize \in Nat
  BY <1>1, SizesAssumption DEF TypeOK, Sized
<1>3. /\ expand' \in 0..(WordSize - 1) /\ left' \in 0..(WordSize - 1)
      /\ buffers' \in Seq(Bytes) /\ Len(buffers') <= MaxSize /\ cur' = c
      /\ reading' \in BOOLEAN
      /\ \/ reading' /\ pc' = handler
         \/ ~reading' /\ pc' = "tooLarge"
      /\ \A i \in 1..c : i <= Len(buffers') => buffers'[i] = s[i]
  BY <1>2, ReadMoreKeeps
<1>4. pc' \in Handlers \cup Ends /\ pc' \notin {"header", "routed"}
      /\ (pc' \in Handlers => pc' = handler)
  BY <1>3 DEF Handlers, Ends
<1>5. TypeOK'
  BY <1>1, <1>3, <1>4 DEF TypeOK
<1>6. Sized'
  BY <1>3, <1>4 DEF Sized, Handlers
<1>7. Room'
  <2>1. SUFFICES ASSUME "headerOverflow" \notin mishaps'
                 PROVE  /\ cur' <= Len(buffers') /\ cur' + left' <= Len(buffers')
                        /\ InitialSize <= expand' /\ Len(buffers') <= expand'
                        /\ expand' <= MaxSize \/ pc' = "tooLarge"
    BY DEF Room
  <2>2. InitialSize <= expand /\ expand <= MaxSize /\ Len(s) <= expand
    <3>1. InitialSize <= expand /\ expand <= MaxSize /\ Len(buffers) <= expand
      BY <1>1, <2>1 DEF Room, Handlers
    <3> QED
      BY <1>1, <1>2, <3>1 DEF TypeOK
  <2>3. /\ cur' <= Len(buffers') /\ cur' + left' <= Len(buffers')
        /\ InitialSize <= expand' /\ Len(buffers') <= expand'
        /\ expand' <= MaxSize \/ pc' = "tooLarge"
    BY <1>2, <2>2, ReadMoreRoom
  <2> QED
    BY <2>3
<1>8. Started'
  BY <1>3, <1>4 DEF Started, Handlers
<1>9. Position'
  BY <1>3, <1>4 DEF Position, Handlers
<1>10. Kept'
  <2>1. SUFFICES ASSUME pc' \in Keeps, cur' <= Len(buffers'), NEW i \in (start' + 1)..cur'
                 PROVE  buffers'[i] = Stream(request')[taken' - cur' + i]
    BY DEF Kept
  <2>2. pc' = handler /\ handler # "octet"
    BY <1>3, <2>1 DEF Keeps
  <2>3. i \in 1..c /\ i \in (start' + 1)..c /\ i <= Len(buffers')
    <3>1. Len(buffers') \in Nat /\ cur' = c /\ c <= Len(buffers')
      BY <1>3, <2>1
    <3>2. PICK from \in Nat : start' = from
      OBVIOUS
    <3>3. i \in (from + 1)..c
      BY <2>1, <3>1, <3>2
    <3>4. i \in 1..c /\ i <= Len(buffers')
      BY <3>1, <3>3
    <3> QED
      BY <3>2, <3>3, <3>4
  <2> QED
    BY <1>3, <2>2, <2>3
<1>11. TextWhole'
  BY <1>4 DEF TextWhole
<1> QED
  BY <1>5, <1>6, <1>7, <1>8, <1>9, <1>10, <1>11 DEF IInv

\* A handler that starts a read into a buffer of the initial size.
LEMMA ReadAfreshStep ==
    ASSUME IInv, ~reading, pc \in Handlers, NEW handler \in {"string", "partData"},
           ReadAfresh(handler), request' = request, taken' = taken, start' = 0,
           handler = "string" => request.header = taken /\ request.kind = "string",
           handler # "string" => request.kind # "string",
           content' \in Seq(Bytes), stored' \in BOOLEAN, part' \in Bytes,
           form' \in [Names -> Seq(Bytes)], mishaps' = mishaps
    PROVE  IInv'
<1>1. TypeOK /\ Sized /\ Room
  BY DEF IInv
<1>2. /\ left' \in 0..(WordSize - 1) /\ buffers' \in Seq(Bytes) /\ Len(buffers') = InitialSize
      /\ InitialSize <= MaxSize /\ cur' = 0 /\ left' = InitialSize
      /\ reading' = TRUE /\ pc' = handler /\ expand' = expand
  BY ReadAfreshKeeps DEF Handlers
<1>3. InitialSize \in Nat /\ taken \in Nat /\ request.header \in Nat
  BY <1>1, SizesAssumption, StreamProperties DEF TypeOK
<1>4. TypeOK'
  BY <1>1, <1>2 DEF TypeOK, Handlers
<1>5. Sized'
  BY <1>2 DEF Sized, Handlers
<1>6. Room'
  BY <1>1, <1>2, <1>3 DEF Room, Handlers
<1>7. Started'
  BY <1>2 DEF Started
<1>8. Position'
  BY <1>2, <1>3 DEF Position
<1>9. Kept'
  <2>1. \A i \in (start' + 1)..cur' : FALSE
    BY <1>2
  <2> QED
    BY <2>1 DEF Kept
<1>10. TextWhole'
  BY <1>2 DEF TextWhole
<1> QED
  BY <1>4, <1>5, <1>6, <1>7, <1>8, <1>9, <1>10 DEF IInv

\* A handler after which the request is answered or given up.
LEMMA EndStep ==
    ASSUME IInv, request' = request, taken' = taken,
           pc' \in {"routed", "refused", "dropped", "closed"}, reading' = FALSE,
           buffers' \in Seq(Bytes), Len(buffers') = Len(buffers), pc \in Handlers,
           cur' \in Nat, start' \in Nat, start' <= cur',
           cur' <= Len(buffers') \/ cur' <= cur, left' \in 0..(WordSize - 1), expand' = expand,
           content' \in Seq(Bytes), stored' \in BOOLEAN, part' \in Bytes,
           form' \in [Names -> Seq(Bytes)], mishaps' \subseteq Mishaps, mishaps \subseteq mishaps',
           pc' = "routed" /\ request.kind = "string" => content' = request.body
    PROVE  IInv'
<1>1. TypeOK /\ Sized /\ Room
  BY DEF IInv
<1>2. pc' \notin Handlers /\ pc' \in Ends
  BY DEF Handlers, Ends
<1>3. TypeOK'
  BY <1>1, <1>2 DEF TypeOK
<1>4. Sized'
  BY <1>1, <1>2 DEF Sized
<1>5. Room'
  BY <1>1 DEF Room, Handlers, TypeOK
<1>6. Started'
  BY <1>2 DEF Started, Handlers
<1>7. Position' /\ Kept'
  BY <1>2 DEF Position, Kept, Keeps, Handlers
<1>8. TextWhole'
  BY DEF TextWhole
<1> QED
  BY <1>3, <1>4, <1>5, <1>6, <1>7, <1>8 DEF IInv

\* What is in use of the buffer has moved to the front by d.
Shifted(d) == \A i \in (start' + 1)..cur' : buffers'[i] = buffers[i + d]

\* Handlers that call the one that looks at the form: what they leave is the end of
\* what was in the buffer.
LEMMA FormStep ==
    ASSUME IInv, ~reading, pc \in {"header", "partHead", "partData"},
           request' = request, taken' = taken, request.kind # "string",
           pc' \in {"partHead", "partData"}, reading' = FALSE,
           buffers' \in Seq(Bytes), Len(buffers') = Len(buffers),
           NEW from \in Nat, NEW to \in Nat, start' = from, cur' = to,
           from <= to, to <= Len(buffers),
           NEW d \in Nat, cur = to + d, start <= from + d, Shifted(d),
           left' \in 0..(WordSize - 1), expand' = expand,
           content' = content, stored' = stored, part' \in Bytes,
           form' \in [Names -> Seq(Bytes)], mishaps' \subseteq Mishaps, mishaps \subseteq mishaps'
    PROVE  IInv'
<1>1. TypeOK /\ Sized /\ Room /\ Started /\ Position /\ Kept
  BY DEF IInv
<1>2. pc \in Handlers /\ pc' \in Handlers /\ pc \in Keeps
  BY DEF Handlers, Keeps
<1>3. TypeOK'
  BY <1>1, <1>2 DEF TypeOK
<1>4. Sized'
  BY <1>1 DEF Sized
<1>5. Room'
  BY <1>1 DEF Room, TypeOK
<1>6. Started'
  BY DEF Started
<1>7. cur - start <= taken /\ cur <= Len(buffers)
  BY <1>1, <1>2 DEF Position, Started, Sized, TypeOK
<1>8. Position'
  <2>1. to - from <= taken
    BY <1>1, <1>7 DEF TypeOK
  <2> QED
    BY <2>1 DEF Position
<1>9. Kept'
  <2>1. SUFFICES ASSUME NEW i \in (start' + 1)..cur'
                 PROVE  buffers'[i] = Stream(request')[taken' - cur' + i]
    BY DEF Kept
  <2> DEFINE k == i + d
  <2>2. k \in (start + 1)..cur /\ taken - cur + k = taken - to + i /\ i \in (from + 1)..to
    <3>1. cur \in Nat /\ start \in Nat /\ taken \in Nat
      BY <1>1 DEF TypeOK
    <3> QED
      BY <2>1, <3>1
  <2>3. buffers[k] = Stream(request)[taken - cur + k]
    BY <1>1, <1>2, <1>7, <2>2 DEF Kept
  <2> QED
    BY <2>1, <2>2, <2>3 DEF Shifted
<1>10. TextWhole'
  BY DEF TextWhole
<1> QED
  BY <1>3, <1>4, <1>5, <1>6, <1>8, <1>9, <1>10 DEF IInv

-----------------------------------------------------------------------------
(* The handlers.                                                           *)

\* A read that completes puts the peer's next bytes behind those in use.
LEMMA ReceiveKeeps ==
    ASSUME IInv, NEW n \in 0..MaxSize, Receive(n)
    PROVE  IInv'
<1>1. TypeOK /\ Sized /\ Room /\ Started /\ Position /\ Kept
  BY DEF IInv
<1>2. /\ request \in Requests /\ taken \in Nat /\ buffers \in Seq(Bytes) /\ cur \in Nat
      /\ start \in Nat /\ left \in 0..(WordSize - 1) /\ n \in Nat /\ content \in Seq(Bytes)
  BY <1>1, SizesAssumption DEF TypeOK
<1>3. /\ pc \in Handlers /\ reading' = FALSE /\ pc' = pc /\ request' = request
      /\ taken' = taken + n /\ cur + n <= Len(buffers) /\ taken + n <= Len(Stream(request))
      /\ cur' = (IF pc = "octet" THEN cur ELSE cur + n)
  <2>1. n <= left /\ cur + left <= Len(buffers) /\ Len(buffers) \in Nat
    BY <1>2 DEF Receive
  <2>2. cur + n <= Len(buffers)
    BY <1>2, <2>1, SizesAssumption
  <2> QED
    BY <1>1, <2>2 DEF Receive, Sized
<1> DEFINE S == Stream(request)
<1>4. S \in Seq(Bytes) /\ Len(S) \in Nat /\ \A k \in 1..Len(S) : S[k] \in Bytes
  BY <1>2, StreamProperties
<1> HIDE DEF S
<1> DEFINE b == [i \in 1..Len(buffers) |->
                   IF cur < i /\ i <= cur + n THEN S[taken + i - cur] ELSE buffers[i]]
<1>5. buffers' = b
  BY DEF Receive, S
<1>6. b \in Seq(Bytes) /\ Len(b) = Len(buffers)
  <2>1. ASSUME NEW i \in 1..Len(buffers)
        PROVE  (IF cur < i /\ i <= cur + n THEN S[taken + i - cur] ELSE buffers[i]) \in Bytes
    <3>1. CASE cur < i /\ i <= cur + n
      <4>1. taken + i - cur \in 1..Len(S)
        BY <1>2, <1>3, <1>4, <3>1 DEF S
      <4> QED
        BY <1>4, <3>1, <4>1
    <3>2. CASE ~(cur < i /\ i <= cur + n)
      BY <1>2, <3>2
    <3> QED
      BY <3>1, <3>2
  <2>2. b \in [1..Len(buffers) -> Bytes]
    BY <2>1
  <2> QED
    BY <1>2, <2>2, FunctionIsSeq
<1>7. content' \in Seq(Bytes)
  <2> DEFINE t == SubSeq(S, taken + 1, taken + n)
  <2>1. t \in Seq(Bytes)
    <3>1. taken + 1 \in Int /\ taken + n \in Int /\ \A i \in (taken + 1)..(taken + n) : S[i] \in Bytes
      BY <1>2, <1>3, <1>4 DEF S
    <3> QED
      BY <3>1, SubSeqProperties, Zenon
  <2> HIDE DEF t
  <2>2. content \o t \in Seq(Bytes)
    BY <1>2, <2>1, ConcatProperties
  <2>3. content' = content \o t \/ content' = content
    BY DEF Receive, t, S
  <2> QED
    BY <1>2, <2>2, <2>3
<1>8. mishaps' \subseteq Mishaps /\ ("headerOverflow" \in mishaps' <=> "headerOverflow" \in mishaps)
  BY <1>1 DEF Receive, TypeOK, Mishaps
<1>9. /\ start' = start /\ left' = left /\ expand' = expand /\ stored' = stored
      /\ part' = part /\ form' = form
  BY DEF Receive
<1>10. cur' \in Nat /\ taken' \in Nat /\ cur' <= Len(buffers) /\ start <= cur'
  <2>1. CASE pc = "octet"
    BY <1>1, <1>2, <1>3, <2>1 DEF Started
  <2>2. CASE pc # "octet"
    BY <1>1, <1>2, <1>3, <2>2 DEF Started
  <2> QED
    BY <2>1, <2>2
<1> HIDE DEF b
<1>11. TypeOK'
  BY <1>1, <1>3, <1>5, <1>6, <1>7, <1>8, <1>9, <1>10 DEF TypeOK
<1>12. Sized'
  BY <1>1, <1>3, <1>5, <1>6, <1>10 DEF Sized
<1>13. Room'
  BY <1>1, <1>3, <1>5, <1>6, <1>8, <1>9, <1>10 DEF Room
<1>14. Started'
  BY <1>1, <1>3, <1>9, <1>10 DEF Started
<1>15. Position'
  <2>1. /\ pc = "header" => cur + n = taken + n
        /\ pc = "string" => cur + n + request.header = taken + n
        /\ pc \in {"partHead", "partData"} => cur + n - start <= taken + n
    <3>1. request.header \in Nat
      BY <1>2, StreamProperties
    <3> QED
      BY <1>1, <1>2, <3>1 DEF Position
  <2>2. CASE pc = "octet"
    BY <1>1, <1>3, <2>2 DEF Position
  <2>3. CASE pc # "octet"
    <3>1. cur' = cur + n /\ taken' = taken + n /\ pc' = pc /\ request' = request /\ start' = start
      BY <1>3, <1>9, <2>3
    <3>2. pc = "header" => cur' = taken'
      BY <2>1, <3>1
    <3>3. pc = "string" => cur' + request.header = taken'
      BY <2>1, <3>1
    <3>4. pc \in {"partHead", "partData"} => cur' - start' <= taken'
      BY <1>2, <2>1, <3>1
    <3> QED
      BY <1>1, <3>1, <3>2, <3>3, <3>4 DEF Position
  <2> QED
    BY <2>2, <2>3
<1>16. Kept'
  <2>0. ASSUME pc \in Keeps, NEW i \in (start' + 1)..cur'
        PROVE  i \in (start + 1)..(cur + n) /\ taken' - cur' + i = taken + n - (cur + n) + i
    <3>1. cur' = cur + n /\ taken' = taken + n /\ start' = start
      BY <1>3, <1>9, <2>0 DEF Keeps
    <3> QED
      BY <1>2, <2>0, <3>1
  <2>1. SUFFICES ASSUME pc \in Keeps, NEW i \in (start + 1)..(cur + n)
                 PROVE  b[i] = S[taken + n - (cur + n) + i]
    <3>1. pc' = pc /\ Stream(request') = S /\ buffers' = b
      BY <1>3, <1>5 DEF S
    <3> QED
      BY <2>0, <3>1 DEF Kept
  <2>2. i \in 1..Len(buffers) /\ taken + n - (cur + n) + i = taken + i - cur
    BY <1>2, <1>3, <2>1
  <2>3. b[i] = IF cur < i /\ i <= cur + n THEN S[taken + i - cur] ELSE buffers[i]
    BY <2>2 DEF b
  <2>4. CASE cur < i
    BY <1>2, <2>1, <2>2, <2>3, <2>4
  <2>5. CASE ~(cur < i)
    <3>1. i \in (start + 1)..cur /\ cur <= Len(buffers) /\ taken - cur + i = taken + i - cur
      BY <1>2, <1>3, <2>1, <2>5
    <3>2. buffers[i] = S[taken - cur + i]
      BY <1>1, <2>1, <3>1 DEF Kept, S
    <3> QED
      BY <2>2, <2>3, <2>5, <3>1, <3>2
  <2> QED
    BY <2>4, <2>5
<1>17. TextWhole'
  BY <1>3 DEF TextWhole, Handlers
<1> QED
  BY <1>11, <1>12, <1>13, <1>14, <1>15, <1>16, <1>17 DEF IInv

LEMMA ReadFailsKeeps ==
    ASSUME IInv, ReadFails
    PROVE  IInv'
<1>1. TypeOK /\ Sized /\ Started
  BY DEF IInv
<1>2. pc \in Handlers
  BY <1>1 DEF ReadFails, Sized
<1>3. /\ request' = request /\ taken' = taken /\ buffers' = buffers /\ cur' = cur /\ left' = left
      /\ start' = start /\ expand' = expand /\ content' = content /\ stored' = stored
      /\ part' = part /\ form' = form /\ mishaps' = mishaps /\ pc' = "closed" /\ reading' = FALSE
  BY DEF ReadFails, bufferVars, bodyVars
<1>4. /\ buffers \in Seq(Bytes) /\ cur \in Nat /\ start \in Nat /\ start <= cur /\ cur <= cur
      /\ left \in 0..(WordSize - 1) /\ content \in Seq(Bytes) /\ stored \in BOOLEAN
      /\ part \in Bytes /\ form \in [Names -> Seq(Bytes)] /\ mishaps \subseteq Mishaps
  BY <1>1 DEF TypeOK, Started
<1> QED
  BY <1>2, <1>3, <1>4, EndStep

\* The header: what is read of it stays at the front of the buffer.
LEMMA HeaderIncompleteKeeps ==
    ASSUME IInv, HeaderIncomplete
    PROVE  IInv'
<1>1. TypeOK /\ Sized /\ Room /\ Started /\ Position /\ Kept
  BY DEF IInv
<1>2. /\ pc = "header" /\ ~reading /\ reading' = TRUE /\ request' = request /\ taken' = taken
      /\ cur' = cur /\ start' = start /\ pc' = "header" /\ content' = content /\ stored' = stored
      /\ part' = part /\ form' = form
  BY DEF HeaderIncomplete, At, bodyVars
<1> DEFINE e == Expanded(buffers, cur, FALSE)
<1>3. /\ expand' = e.expand /\ buffers' = e.buffers /\ left' = e.left
      /\ mishaps' = IF e.ok THEN mishaps ELSE mishaps \cup {"headerOverflow"}
  BY DEF HeaderIncomplete, ExpandTo
<1>4. Len(buffers) <= MaxSize /\ cur <= Len(buffers) /\ cur \in Nat /\ expand \in Nat
      /\ buffers \in Seq(Bytes) /\ Len(buffers) \in Nat
  BY <1>1, <1>2, SizesAssumption DEF TypeOK, Sized, Handlers
<1>5. /\ e.expand \in 0..(WordSize - 1) /\ e.left \in 0..(WordSize - 1)
      /\ e.buffers \in Seq(Bytes) /\ Len(e.buffers) <= MaxSize /\ e.ok \in BOOLEAN
      /\ \A i \in 1..Len(buffers) : i <= Len(e.buffers) => e.buffers[i] = buffers[i]
  BY <1>4, ExpandedProperties
<1>6. ASSUME "headerOverflow" \notin mishaps'
      PROVE  /\ InitialSize <= e.expand /\ Len(e.buffers) <= e.expand
             /\ cur <= Len(e.buffers) /\ cur + e.left <= Len(e.buffers)
             /\ e.expand <= MaxSize
  <2>1. e.ok /\ "headerOverflow" \notin mishaps
    BY <1>3, <1>6
  <2>2. InitialSize <= expand /\ expand <= MaxSize /\ Len(buffers) <= expand
    BY <1>1, <1>2, <2>1 DEF Room
  <2> QED
    BY <1>4, <2>1, <2>2, ExpandedRoom
<1> HIDE DEF e
<1>7. TypeOK'
  BY <1>1, <1>2, <1>3, <1>5 DEF TypeOK, Mishaps
<1>8. Sized'
  BY <1>2, <1>3, <1>5 DEF Sized, Handlers
<1>9. Room'
  BY <1>2, <1>3, <1>6 DEF Room
<1>10. Started' /\ Position'
  BY <1>1, <1>2 DEF Started, Position
<1>11. Kept'
  <2>1. SUFFICES ASSUME cur <= Len(e.buffers), NEW i \in (start + 1)..cur
                 PROVE  e.buffers[i] = Stream(request)[taken - cur + i]
    BY <1>2, <1>3 DEF Kept
  <2>2. i \in 1..Len(buffers) /\ i <= Len(e.buffers)
    <3>1. Len(e.buffers) \in Nat /\ start \in Nat
      BY <1>1, <1>5 DEF TypeOK
    <3> QED
      BY <1>4, <2>1, <3>1
  <2>3. buffers[i] = Stream(request)[taken - cur + i]
    BY <1>1, <1>2, <1>4, <2>1 DEF Kept, Keeps
  <2> QED
    BY <1>5, <2>2, <2>3
<1>12. TextWhole'
  BY <1>2 DEF TextWhole
<1> QED
  BY <1>7, <1>8, <1>9, <1>10, <1>11, <1>12 DEF IInv

\* When the header is complete: the types of what the handlers look at.
LEMMA HeaderFacts ==
    ASSUME IInv, HeaderRead
    PROVE  /\ pc = "header" /\ ~reading /\ pc \in Handlers /\ request \in Requests
           /\ buffers \in Seq(Bytes) /\ Len(buffers) \in Nat /\ Len(buffers) <= MaxSize
           /\ cur \in Nat /\ cur <= Len(buffers) /\ cur = taken /\ start = 0
           /\ request.header \in Nat \ {0} /\ request.header <= cur
           /\ request.body \in Seq(Bytes) /\ Len(request.body) \in Nat
           /\ Len(buffers) \in 0..(WordSize - 1) /\ Len(buffers) - cur \in 0..(WordSize - 1)
           /\ left \in 0..(WordSize - 1)
           /\ content \in Seq(Bytes) /\ stored \in BOOLEAN /\ part \in Bytes
           /\ form \in [Names -> Seq(Bytes)] /\ mishaps \subseteq Mishaps
           /\ \A i \in 1..cur : buffers[i] = Stream(request)[i]
<1>1. TypeOK /\ Sized /\ Started /\ Position /\ Kept
  BY DEF IInv
<1>2. pc = "header" /\ ~reading /\ pc \in Handlers /\ request.header <= cur
  BY <1>1 DEF HeaderRead, At, TypeOK, Handlers
<1>3. /\ request \in Requests /\ buffers \in Seq(Bytes) /\ Len(buffers) \in Nat
      /\ Len(buffers) <= MaxSize /\ cur \in Nat /\ cur <= Len(buffers) /\ cur = taken /\ start = 0
      /\ left \in 0..(WordSize - 1) /\ content \in Seq(Bytes) /\ stored \in BOOLEAN
      /\ part \in Bytes /\ form \in [Names -> Seq(Bytes)] /\ mishaps \subseteq Mishaps
  BY <1>1, <1>2 DEF TypeOK, Sized, Started, Position
<1>4. request.header \in Nat \ {0} /\ request.body \in Seq(Bytes) /\ Len(request.body) \in Nat
  BY <1>3, StreamProperties
<1>5. Len(buffers) \in 0..(WordSize - 1) /\ Len(buffers) - cur \in 0..(WordSize - 1)
  BY <1>3, SizesAssumption
<1>6. ASSUME NEW i \in 1..cur PROVE buffers[i] = Stream(request)[i]
  <2>1. i \in (start + 1)..cur /\ taken - cur + i = i
    BY <1>3
  <2>2. buffers[i] = Stream(request)[taken - cur + i]
    BY <1>1, <1>2, <1>3, <2>1 DEF Kept, Keeps
  <2> QED
    BY <2>1, <2>2
<1> QED
  BY <1>2, <1>3, <1>4, <1>5, <1>6

LEMMA HeaderRefusedKeeps ==
    ASSUME IInv, HeaderRefused
    PROVE  IInv'
<1>1. /\ HeaderRead /\ pc' = "refused" /\ reading' = reading /\ request' = request
      /\ taken' = taken /\ buffers' = buffers /\ expand' = expand /\ content' = content
      /\ stored' = stored /\ part' = part /\ form' = form /\ mishaps' = mishaps
      /\ UNCHANGED <<start, cur, left>> \/ FormBegins
  BY DEF HeaderRefused, bodyVars
<1>2. PICK from \in Nat, to \in Nat :
          /\ start' = from /\ cur' = to /\ from <= to /\ to <= cur /\ left' \in 0..(WordSize - 1)
  BY <1>1, HeaderFacts DEF FormBegins
<1>3. start' \in Nat /\ cur' \in Nat /\ start' <= cur' /\ cur' <= cur
  BY <1>2
<1>4. /\ buffers' \in Seq(Bytes) /\ Len(buffers') = Len(buffers) /\ pc \in Handlers /\ ~reading
      /\ content \in Seq(Bytes) /\ stored \in BOOLEAN /\ part \in Bytes
      /\ form \in [Names -> Seq(Bytes)] /\ mishaps \subseteq Mishaps
  BY <1>1, HeaderFacts
<1>5. reading' = FALSE
  BY <1>1, <1>4, HeaderFacts DEF TypeOK, IInv
<1> QED
  BY <1>1, <1>2, <1>3, <1>4, <1>5, EndStep

LEMMA RouteBareKeeps ==
    ASSUME IInv, RouteBare
    PROVE  IInv'
<1>1. /\ HeaderRead /\ pc' = "routed" /\ reading' = FALSE /\ request' = request
      /\ taken' = taken /\ buffers' = buffers /\ cur' = cur /\ left' = left /\ start' = start
      /\ expand' = expand /\ content' = content /\ request.kind = "none"
      /\ stored' = stored /\ part' = part /\ form' = form /\ mishaps' = mishaps
  BY DEF RouteBare, Route, bufferVars, bodyVars
<1>2. start \in Nat /\ start <= cur /\ cur <= cur
  BY <1>1, HeaderFacts
<1> QED
  BY <1>1, <1>2, HeaderFacts, EndStep

\* The first bytes of a body that are in front of the buffer are the body's.
LEMMA BodyIsWhole ==
    ASSUME NEW s \in Seq(Bytes), request \in Requests, Len(request.body) <= Len(s),
           \A i \in 1..Len(request.body) : s[i] = Stream(request)[request.header + i],
           BodyIn(s)
    PROVE  content' = request.body
<1>1. request.body \in Seq(Bytes) /\ Len(request.body) \in Nat
      /\ \A i \in 1..Len(request.body) : Stream(request)[request.header + i] = request.body[i]
  BY StreamProperties
<1> DEFINE t == SubSeq(s, 1, Len(request.body))
<1>2. t \in Seq(Bytes) /\ Len(t) = Len(request.body) /\ \A i \in 1..Len(t) : t[i] = s[i]
  BY <1>1, FirstProperties
<1>3. content' = t
  BY DEF BodyIn
<1> HIDE DEF t
<1>4. t = request.body
  BY <1>1, <1>2, SeqEqual
<1> QED
  BY <1>3, <1>4

\* A text of which some came with the header: it moves to the front of the buffer.
LEMMA PreprocessBodyKeeps ==
    ASSUME IInv, PreprocessBody
    PROVE  IInv'
<1> DEFINE moved == Forwarded(buffers, request.header, cur)
           c == cur - request.header
<1>1. /\ HeaderRead /\ request.kind = "string" /\ request' = request /\ taken' = taken
      /\ start' = start /\ stored' = stored /\ part' = part /\ form' = form /\ mishaps' = mishaps
      /\ IF Len(request.body) > c
           THEN ReadMore(moved, c, "string", FALSE) /\ content' = content
           ELSE /\ buffers' = moved /\ cur' = c /\ left' = Len(buffers) - c
                /\ BodyIn(moved) /\ Route /\ expand' = expand
  BY DEF PreprocessBody
<1>2. /\ pc = "header" /\ ~reading /\ pc \in Handlers /\ request \in Requests
      /\ buffers \in Seq(Bytes) /\ Len(buffers) \in Nat /\ Len(buffers) <= MaxSize
      /\ cur \in Nat /\ cur <= Len(buffers) /\ cur = taken /\ start = 0
      /\ request.header \in Nat \ {0} /\ request.header <= cur
      /\ Len(request.body) \in Nat /\ content \in Seq(Bytes)
      /\ \A i \in 1..cur : buffers[i] = Stream(request)[i]
  BY <1>1, HeaderFacts
<1>3. /\ stored \in BOOLEAN /\ part \in Bytes
      /\ form \in [Names -> Seq(Bytes)] /\ mishaps \subseteq Mishaps
  BY <1>1, HeaderFacts
<1>4. /\ moved \in Seq(Bytes) /\ Len(moved) = Len(buffers)
      /\ \A i \in 1..(cur - request.header) : moved[i] = buffers[i + request.header]
  BY <1>2, ForwardedProperties
<1> HIDE DEF moved
<1>5. c \in Nat /\ c <= Len(moved) /\ c + request.header = taken /\ taken - c = request.header
      /\ start + 1 = 1 /\ c <= taken
  BY <1>2, <1>4
<1>6. \A i \in 1..c : moved[i] = Stream(request)[request.header + i]
  <2>1. ASSUME NEW i \in 1..c PROVE moved[i] = Stream(request)[request.header + i]
    <3>1. i + request.header \in 1..cur /\ i + request.header = request.header + i
      BY <1>2
    <3> QED
      BY <1>2, <1>4, <3>1
  <2> QED
    BY <2>1
<1>7. CASE Len(request.body) > c
  <2>1. ReadMore(moved, c, "string", FALSE) /\ content' = content
    BY <1>1, <1>7
  <2>2. \A i \in (start' + 1)..c : moved[i] = Stream(request)[taken - c + i]
    BY <1>1, <1>5, <1>6
  <2>3. start' \in Nat /\ start' <= c /\ c - start' <= taken /\ start' = 0 /\ Len(moved) <= Len(buffers)
    BY <1>1, <1>2, <1>4, <1>5
  <2> HIDE DEF c
  <2> QED
    BY <1>1, <1>2, <1>3, <1>4, <1>5, <2>1, <2>2, <2>3, ReadMoreStep DEF Handlers
<1>8. CASE ~(Len(request.body) > c)
  <2>1. /\ buffers' = moved /\ cur' = c /\ left' = Len(buffers) - c /\ BodyIn(moved)
        /\ pc' = "routed" /\ reading' = FALSE /\ expand' = expand
    BY <1>1, <1>8 DEF Route
  <2>2. /\ Len(request.body) <= Len(moved)
        /\ \A i \in 1..Len(request.body) : moved[i] = Stream(request)[request.header + i]
    <3>1. Len(request.body) \in Nat /\ c \in Nat /\ Len(moved) \in Nat /\ c <= Len(moved)
      BY <1>2, <1>4, <1>5
    <3> HIDE DEF c
    <3>2. Len(request.body) <= Len(moved) /\ \A i \in 1..Len(request.body) : i \in 1..c
      BY <1>8, <3>1
    <3> QED
      BY <1>6, <3>2
  <2>3. content' = request.body
    BY <1>2, <1>4, <2>1, <2>2, BodyIsWhole
  <2>4. content' \in Seq(Bytes)
    BY <1>2, <2>3, StreamProperties
  <2>5. Len(buffers) - c \in 0..(WordSize - 1)
    <3>1. c \in Nat /\ c <= Len(buffers) /\ Len(buffers) \in Nat /\ Len(buffers) < WordSize
      BY <1>2, <1>4, <1>5, SizesAssumption
    <3> HIDE DEF c
    <3> QED
      BY <3>1, SizesAssumption
  <2>6. start' \in Nat /\ cur' \in Nat /\ start' <= cur' /\ cur' <= cur /\ left' \in 0..(WordSize - 1)
    BY <1>1, <1>2, <1>5, <2>1, <2>5
  <2> HIDE DEF c
  <2> QED
    BY <1>1, <1>2, <1>3, <1>4, <2>1, <2>3, <2>4, <2>6, EndStep
<1> QED
  BY <1>7, <1>8

LEMMA PreprocessBodyAfreshKeeps ==
    ASSUME IInv, PreprocessBodyAfresh
    PROVE  IInv'
<1>1. /\ HeaderRead /\ request.kind = "string" /\ cur = request.header /\ ReadAfresh("string")
      /\ request' = request /\ taken' = taken /\ start' = start /\ content' = content
      /\ stored' = stored /\ part' = part /\ form' = form /\ mishaps' = mishaps
  BY DEF PreprocessBodyAfresh, bodyVars
<1> QED
  BY <1>1, HeaderFacts, ReadAfreshStep

\* More of a text, which is at the front of the buffer.
LEMMA ProcessBodyKeeps ==
    ASSUME IInv, ProcessBody
    PROVE  IInv'
<1>1. TypeOK /\ Sized /\ Started /\ Position /\ Kept
  BY DEF IInv
<1>2. /\ pc = "string" /\ ~reading /\ request' = request /\ taken' = taken
      /\ start' = start /\ stored' = stored /\ part' = part /\ form' = form /\ mishaps' = mishaps
      /\ IF Len(request.body) > cur
           THEN ReadMore(buffers, cur, "string", FALSE) /\ content' = content
           ELSE /\ BodyIn(buffers) /\ Route
                /\ buffers' = buffers /\ cur' = cur /\ left' = left /\ expand' = expand
  BY DEF ProcessBody, At
<1>3. /\ pc \in Handlers /\ pc \in Keeps /\ request \in Requests /\ taken \in Nat
      /\ buffers \in Seq(Bytes) /\ Len(buffers) \in Nat /\ cur \in Nat /\ start = 0
      /\ content \in Seq(Bytes) /\ stored \in BOOLEAN /\ part \in Bytes
      /\ form \in [Names -> Seq(Bytes)] /\ mishaps \subseteq Mishaps
      /\ left \in 0..(WordSize - 1)
  BY <1>1, <1>2 DEF TypeOK, Started, Handlers, Keeps
<1>4. cur <= Len(buffers) /\ cur + request.header = taken /\ request.kind = "string"
      /\ request.header \in Nat /\ Len(request.body) \in Nat
  BY <1>1, <1>2, <1>3, StreamProperties DEF Sized, Position
<1>5. taken - cur = request.header /\ start + 1 = 1 /\ cur <= taken /\ start <= cur
  BY <1>3, <1>4
<1>6. \A i \in 1..cur : buffers[i] = Stream(request)[request.header + i]
  BY <1>1, <1>3, <1>4, <1>5 DEF Kept
<1>7. CASE Len(request.body) > cur
  <2>1. ReadMore(buffers, cur, "string", FALSE) /\ content' = content
    BY <1>2, <1>7
  <2>2. \A i \in (start' + 1)..cur : buffers[i] = Stream(request)[taken - cur + i]
    BY <1>2, <1>5, <1>6
  <2>3. start' \in Nat /\ start' <= cur /\ cur - start' <= taken /\ start' = 0 /\ Len(buffers) <= Len(buffers)
    BY <1>2, <1>3, <1>5
  <2> QED
    BY <1>2, <1>3, <1>4, <2>1, <2>2, <2>3, ReadMoreStep DEF Handlers
<1>8. CASE ~(Len(request.body) > cur)
  <2>1. /\ buffers' = buffers /\ cur' = cur /\ left' = left /\ BodyIn(buffers)
        /\ pc' = "routed" /\ reading' = FALSE /\ expand' = expand
    BY <1>2, <1>8 DEF Route
  <2>2. /\ Len(request.body) <= Len(buffers)
        /\ \A i \in 1..Len(request.body) : buffers[i] = Stream(request)[request.header + i]
    BY <1>3, <1>4, <1>6, <1>8
  <2>3. content' = request.body
    BY <1>3, <2>1, <2>2, BodyIsWhole
  <2>4. content' \in Seq(Bytes)
    BY <1>3, <2>3, StreamProperties
  <2>5. start \in Nat /\ cur <= cur
    BY <1>3
  <2> QED
    BY <1>2, <1>3, <1>5, <2>1, <2>3, <2>4, <2>5, EndStep
<1> QED
  BY <1>7, <1>8

\* An octet stream: the buffer is emptied, what came with the header is kept.
LEMMA PreprocessOctStreamKeeps ==
    ASSUME IInv, PreprocessOctStream
    PROVE  IInv'
<1> DEFINE begun == cur > request.header
           first == SubSeq(buffers, request.header + 1, cur)
<1>1. /\ HeaderRead /\ request.kind = "octet" /\ request' = request /\ taken' = taken
      /\ start' = start /\ expand' = expand /\ part' = part /\ form' = form
      /\ stored' = begun
      /\ content' = IF stored' THEN first ELSE <<>>
      /\ mishaps' = IF stored' THEN mishaps ELSE mishaps \cup {"unopened"}
      /\ \/ Route /\ buffers' = buffers /\ cur' = cur /\ left' = left
         \/ /\ left' = Len(buffers) /\ buffers' = <<>> /\ cur' = 0
            /\ pc' = "octet" /\ reading' = reading
  BY DEF PreprocessOctStream
<1>2. /\ pc = "header" /\ ~reading /\ pc \in Handlers /\ request \in Requests
      /\ buffers \in Seq(Bytes) /\ Len(buffers) \in Nat /\ Len(buffers) <= MaxSize
      /\ cur \in Nat /\ cur <= Len(buffers) /\ start = 0
      /\ request.header \in Nat \ {0}
      /\ Len(buffers) \in 0..(WordSize - 1) /\ left \in 0..(WordSize - 1)
      /\ part \in Bytes /\ form \in [Names -> Seq(Bytes)] /\ mishaps \subseteq Mishaps
  BY <1>1, HeaderFacts
<1>3. first \in Seq(Bytes)
  <2>1. \A i \in (request.header + 1)..cur : buffers[i] \in Bytes
    BY <1>2
  <2>2. request.header + 1 \in Int /\ cur \in Int
    BY <1>2
  <2> QED
    BY <2>1, <2>2, SubSeqProperties, Zenon
<1> HIDE DEF first
<1>4. content' \in Seq(Bytes) /\ stored' \in BOOLEAN
  BY <1>1, <1>3
<1>5. /\ mishaps' \subseteq Mishaps /\ mishaps \subseteq mishaps'
      /\ ("headerOverflow" \in mishaps' <=> "headerOverflow" \in mishaps)
  BY <1>1, <1>2 DEF Mishaps
<1>6. CASE Route /\ buffers' = buffers /\ cur' = cur /\ left' = left
  <2>1. pc' = "routed" /\ reading' = FALSE
    BY <1>6 DEF Route
  <2>2. start \in Nat /\ start <= cur /\ cur <= cur
    BY <1>2
  <2> QED
    BY <1>1, <1>2, <1>4, <1>5, <1>6, <2>1, <2>2, EndStep
<1>7. CASE /\ left' = Len(buffers) /\ buffers' = <<>> /\ cur' = 0
           /\ pc' = "octet" /\ reading' = reading
  <2>1. TypeOK /\ Sized /\ Room
    BY DEF IInv
  <2>2. <<>> \in Seq(Bytes) /\ Len(<<>>) = 0 /\ 0 <= MaxSize
    BY SizesAssumption
  <2>3. TypeOK'
    BY <1>1, <1>2, <1>4, <1>5, <1>7, <2>1, <2>2 DEF TypeOK, Handlers
  <2>4. Sized'
    BY <1>2, <1>7, <2>2 DEF Sized, Handlers
  <2>5. Room'
    <3>1. ASSUME "headerOverflow" \notin mishaps
          PROVE  InitialSize <= expand /\ expand <= MaxSize /\ expand \in Nat /\ 0 <= expand
      BY <1>2, <2>1, <3>1, SizesAssumption DEF Room, TypeOK
    <3> QED
      BY <1>1, <1>2, <1>5, <1>7, <2>2, <3>1 DEF Room
  <2>6. Started' /\ Position' /\ Kept' /\ TextWhole'
    BY <1>1, <1>2, <1>7 DEF Started, Position, Kept, Keeps, TextWhole
  <2> QED
    BY <2>3, <2>4, <2>5, <2>6 DEF IInv
<1> QED
  BY <1>1, <1>6, <1>7

LEMMA ProcessOctStreamKeeps ==
    ASSUME IInv, ProcessOctStream
    PROVE  IInv'
<1>1. TypeOK /\ Sized /\ Started /\ Position
  BY DEF IInv
<1>2. /\ pc = "octet" /\ ~reading /\ request' = request /\ taken' = taken /\ start' = start
      /\ content' = content /\ part' = part /\ form' = form /\ mishaps' = mishaps
      /\ \/ /\ stored' = FALSE /\ Route
            /\ buffers' = buffers /\ cur' = cur /\ left' = left /\ expand' = expand
         \/ ReadMore(buffers, cur, "octet", TRUE) /\ stored' = stored
  BY DEF ProcessOctStream, At
<1>3. /\ pc \in Handlers /\ buffers \in Seq(Bytes) /\ Len(buffers) \in Nat /\ cur \in Nat
      /\ start = 0 /\ cur <= Len(buffers) /\ content \in Seq(Bytes) /\ stored \in BOOLEAN
      /\ part \in Bytes /\ form \in [Names -> Seq(Bytes)] /\ mishaps \subseteq Mishaps
      /\ left \in 0..(WordSize - 1) /\ request.kind # "string"
  BY <1>1, <1>2 DEF TypeOK, Sized, Started, Position, Handlers
<1>4. 0 <= cur /\ cur <= cur /\ Len(buffers) <= Len(buffers) /\ start \in Nat
  BY <1>3
<1>5. CASE /\ stored' = FALSE /\ Route
           /\ buffers' = buffers /\ cur' = cur /\ left' = left /\ expand' = expand
  <2>1. pc' = "routed" /\ reading' = FALSE
    BY <1>5 DEF Route
  <2> QED
    BY <1>2, <1>3, <1>4, <1>5, <2>1, EndStep
<1>6. CASE ReadMore(buffers, cur, "octet", TRUE) /\ stored' = stored
  BY <1>2, <1>3, <1>4, <1>6, ReadMoreStep DEF Handlers
<1> QED
  BY <1>2, <1>5, <1>6

\* The form begins behind the header, or with the next read.
LEMMA PreprocessMultipartKeeps ==
    ASSUME IInv, PreprocessMultipart
    PROVE  IInv'
<1>1. /\ HeaderRead /\ request.kind = "multipart" /\ FormBegins /\ pc' = "partHead"
      /\ request' = request /\ taken' = taken /\ buffers' = buffers /\ expand' = expand
      /\ reading' = reading /\ content' = content
      /\ stored' = stored /\ part' = part /\ form' = form /\ mishaps' = mishaps
  BY DEF PreprocessMultipart, bodyVars
<1>2. /\ pc = "header" /\ ~reading /\ buffers \in Seq(Bytes) /\ Len(buffers) \in Nat
      /\ cur \in Nat /\ cur <= Len(buffers) /\ start = 0
      /\ request.header \in Nat \ {0} /\ request.header <= cur
      /\ Len(buffers) \in 0..(WordSize - 1) /\ Len(buffers) - cur \in 0..(WordSize - 1)
      /\ part \in Bytes /\ form \in [Names -> Seq(Bytes)] /\ mishaps \subseteq Mishaps
  BY <1>1, HeaderFacts
<1>3. reading' = FALSE
  BY <1>1, <1>2 DEF IInv, TypeOK
<1>4. CASE cur > request.header
  <2>1. start' = request.header /\ cur' = cur /\ left' \in 0..(WordSize - 1)
    BY <1>1, <1>2, <1>4 DEF FormBegins
  <2>2. cur = cur + 0 /\ start <= request.header + 0 /\ request.header \in Nat
    BY <1>2
  <2>3. Shifted(0)
    <3>1. \A i \in (request.header + 1)..cur : i + 0 = i
      BY <1>2
    <3> QED
      BY <1>1, <2>1, <3>1 DEF Shifted
  <2> QED
    BY <1>1, <1>2, <1>3, <2>1, <2>2, <2>3, FormStep
<1>5. CASE ~(cur > request.header)
  <2>1. start' = 0 /\ cur' = 0 /\ left' \in 0..(WordSize - 1)
    BY <1>1, <1>2, <1>5 DEF FormBegins
  <2>2. cur = 0 + cur /\ start <= 0 + cur /\ 0 <= 0 /\ 0 <= Len(buffers)
    BY <1>2
  <2>3. Shifted(cur)
    BY <2>1 DEF Shifted
  <2> QED
    BY <1>1, <1>2, <1>3, <2>1, <2>2, <2>3, FormStep
<1> QED
  BY <1>4, <1>5

\* What the handlers of a form look at.
LEMMA FormFacts ==
    ASSUME IInv, ~reading, pc \in {"partHead", "partData"}
    PROVE  /\ pc \in Handlers /\ request.kind # "string" /\ request \in Requests /\ taken \in Nat
           /\ buffers \in Seq(Bytes) /\ Len(buffers) \in Nat /\ Len(buffers) <= MaxSize
           /\ cur \in Nat /\ start \in Nat /\ start <= cur /\ cur <= Len(buffers)
           /\ cur - start <= taken
           /\ Window \in Seq(Bytes) /\ Len(Window) = cur - start
           /\ Len(buffers) - cur \in 0..(WordSize - 1) /\ left \in 0..(WordSize - 1)
           /\ content \in Seq(Bytes) /\ stored \in BOOLEAN /\ part \in Bytes
           /\ form \in [Names -> Seq(Bytes)] /\ mishaps \subseteq Mishaps
           /\ \A i \in (start + 1)..cur : buffers[i] = Stream(request)[taken - cur + i]
<1>1. TypeOK /\ Sized /\ Started /\ Position /\ Kept
  BY DEF IInv
<1>2. /\ pc \in Handlers /\ pc \in Keeps /\ cur \in Nat /\ start \in Nat /\ cur <= Len(buffers)
      /\ start <= cur /\ cur - start <= taken /\ request.kind # "string"
      /\ Len(buffers) \in Nat /\ Len(buffers) <= MaxSize
  BY <1>1 DEF TypeOK, Sized, Started, Position, Handlers, Keeps
<1>3. Window \in Seq(Bytes) /\ Len(Window) = cur - start
  BY <1>1, <1>2, WindowProperties
<1>4. Len(buffers) - cur \in 0..(WordSize - 1)
  BY <1>2, SizesAssumption
<1> QED
  BY <1>1, <1>2, <1>3, <1>4 DEF TypeOK, Kept

LEMMA Delimiters ==
    /\ BoundaryStart \in Seq(Bytes) /\ Len(BoundaryStart) = 2
    /\ HeadEnd \in Seq(Bytes) /\ Len(HeadEnd) = 4
  BY BytesAssumption DEF BoundaryStart, HeadEnd

LEMMA PartHeadIncompleteKeeps ==
    ASSUME IInv, PartHeadIncomplete
    PROVE  IInv'
<1>1. /\ pc = "partHead" /\ ~reading /\ ReadMore(buffers, cur, "partHead", FALSE)
      /\ request' = request /\ taken' = taken /\ start' = start /\ content' = content
      /\ stored' = stored /\ part' = part /\ form' = form /\ mishaps' = mishaps
  BY DEF PartHeadIncomplete, At, bodyVars
<1>2. /\ pc \in Handlers /\ request.kind # "string" /\ buffers \in Seq(Bytes)
      /\ cur \in Nat /\ start \in Nat /\ start <= cur /\ cur <= Len(buffers)
      /\ cur - start <= taken /\ Len(buffers) \in Nat
      /\ content \in Seq(Bytes) /\ stored \in BOOLEAN /\ part \in Bytes
      /\ form \in [Names -> Seq(Bytes)] /\ mishaps \subseteq Mishaps
      /\ \A i \in (start + 1)..cur : buffers[i] = Stream(request)[taken - cur + i]
  BY <1>1, FormFacts
<1>3. Len(buffers) <= Len(buffers)
  BY <1>2
<1>4. /\ start' \in Nat /\ start' <= cur /\ cur - start' <= taken
      /\ \A i \in (start' + 1)..cur : buffers[i] = Stream(request)[taken - cur + i]
  BY <1>1, <1>2
<1> QED
  BY <1>1, <1>2, <1>3, <1>4, ReadMoreStep DEF Handlers

LEMMA PartHeadDroppedKeeps ==
    ASSUME IInv, PartHeadDropped
    PROVE  IInv'
<1>1. /\ pc = "partHead" /\ ~reading /\ reading' = reading /\ pc' = "dropped"
      /\ request' = request /\ taken' = taken /\ start' = start /\ content' = content
      /\ buffers' = buffers /\ cur' = cur /\ left' = left /\ expand' = expand
      /\ stored' = stored /\ part' = part /\ form' = form /\ mishaps' = mishaps
  BY DEF PartHeadDropped, At, bufferVars, bodyVars
<1>2. /\ pc \in Handlers /\ buffers \in Seq(Bytes) /\ cur \in Nat /\ start \in Nat /\ start <= cur
      /\ left \in 0..(WordSize - 1) /\ content \in Seq(Bytes) /\ stored \in BOOLEAN
      /\ part \in Bytes /\ form \in [Names -> Seq(Bytes)] /\ mishaps \subseteq Mishaps
  BY <1>1, FormFacts
<1>3. cur <= cur /\ reading' = FALSE
  BY <1>1, <1>2 DEF IInv, TypeOK
<1> QED
  BY <1>1, <1>2, <1>3, EndStep

\* The head of a part is taken off; it is within what has been read.
LEMMA PartHeadKeeps ==
    ASSUME IInv, PartHead
    PROVE  IInv'
<1> DEFINE size == FindFrom(Window, HeadEnd, FieldsAt) + Len(HeadEnd)
<1>1. /\ pc = "partHead" /\ ~reading
      /\ Has(Window, BoundaryStart) /\ HasFrom(Window, HeadEnd, FieldsAt)
      /\ IF cur > size
           THEN /\ start' = start + size /\ left' = Len(buffers) - cur /\ pc' = "partData"
                /\ buffers' = buffers /\ cur' = cur /\ expand' = expand /\ reading' = reading
           ELSE ReadAfresh("partData") /\ start' = 0
      /\ part' = Window[FieldsAt + 1] /\ request' = request /\ taken' = taken
      /\ content' = content /\ stored' = stored /\ form' = form /\ mishaps' = mishaps
  BY DEF PartHead, At
<1>2. /\ pc \in Handlers /\ request.kind # "string" /\ buffers \in Seq(Bytes)
      /\ cur \in Nat /\ start \in Nat /\ start <= cur /\ cur <= Len(buffers)
      /\ Window \in Seq(Bytes) /\ Len(Window) = cur - start
      /\ Len(buffers) - cur \in 0..(WordSize - 1) /\ Len(buffers) \in Nat
      /\ content \in Seq(Bytes) /\ stored \in BOOLEAN
      /\ form \in [Names -> Seq(Bytes)] /\ mishaps \subseteq Mishaps
  BY <1>1, FormFacts
<1>3. FieldsAt \in Nat
  <2>1. Find(Window, BoundaryStart) \in Nat
    BY <1>1, <1>2, Delimiters, FindProperties
  <2> QED
    BY <2>1, Delimiters DEF FieldsAt
<1> DEFINE at == FindFrom(Window, HeadEnd, FieldsAt)
<1>4. at \in Nat /\ FieldsAt <= at /\ at + Len(HeadEnd) <= Len(Window)
  BY <1>1, <1>2, <1>3, Delimiters, FindFromProperties
<1>5. size = at + 4
  BY Delimiters
<1> HIDE DEF at
<1>6. size \in Nat /\ start + size <= cur /\ FieldsAt + 1 \in 1..Len(Window)
  BY <1>2, <1>3, <1>4, <1>5, Delimiters
<1> HIDE DEF size
<1>7. part' \in Bytes
  BY <1>1, <1>2, <1>6
<1>8. CASE cur > size
  <2>1. /\ start' = start + size /\ left' = Len(buffers) - cur /\ pc' = "partData"
        /\ buffers' = buffers /\ cur' = cur /\ expand' = expand /\ reading' = reading
    BY <1>1, <1>8
  <2>2. reading' = FALSE
    BY <1>1, <2>1 DEF IInv, TypeOK
  <2>3. cur = cur + 0 /\ start <= (start + size) + 0 /\ start + size \in Nat
    BY <1>2, <1>6
  <2>4. Shifted(0)
    <3>1. \A i \in (start + size + 1)..cur : i + 0 = i
      BY <1>2, <2>3
    <3> QED
      BY <2>1, <3>1 DEF Shifted
  <2> QED
    BY <1>1, <1>2, <1>6, <1>7, <2>1, <2>2, <2>3, <2>4, FormStep
<1>9. CASE ~(cur > size)
  BY <1>1, <1>2, <1>7, <1>9, ReadAfreshStep
<1> QED
  BY <1>8, <1>9

\* What is recorded of a part are bytes, wherever it is put.
LEMMA RecordTyped ==
    ASSUME form \in [Names -> Seq(Bytes)], Window \in Seq(Bytes), NEW n \in 0..Len(Window),
           Record(n)
    PROVE  form' \in [Names -> Seq(Bytes)]
<1> DEFINE t == SubSeq(Window, 1, n)
<1>1. t \in Seq(Bytes)
  BY FirstProperties
<1>2. form' = [form EXCEPT ![part] = form[part] \o t]
  BY DEF Record
<1> HIDE DEF t
<1>3. ASSUME part \in Names PROVE form[part] \o t \in Seq(Bytes)
  BY <1>1, <1>3, ConcatProperties
<1> QED
  BY <1>2, <1>3

\* A part ends: the form is whole, or what follows its data is looked at as a head.
LEMMA PartDataEndsKeeps ==
    ASSUME IInv, PartDataEnds
    PROVE  IInv'
<1> DEFINE from == start + PartEnd
<1>1. /\ pc = "partData" /\ ~reading /\ Has(Window, BoundaryStart) /\ PartEnd >= 0
      /\ Record(PartEnd) /\ mishaps' \in {mishaps, mishaps \cup {"cutEnd"}}
      /\ \/ /\ Route
            /\ buffers' = buffers /\ cur' = cur /\ left' = left /\ start' = start /\ expand' = expand
         \/ /\ IF Len(buffers) = cur
                 THEN /\ buffers' = Forwarded(buffers, from, cur)
                      /\ cur' = cur - from /\ start' = 0
                      /\ left' = Len(buffers) - cur'
                 ELSE /\ start' = from
                      /\ left' = Len(buffers) - cur
                      /\ buffers' = buffers /\ cur' = cur
            /\ pc' = "partHead" /\ expand' = expand /\ reading' = reading
      /\ request' = request /\ taken' = taken
      /\ content' = content /\ stored' = stored /\ part' = part
  BY DEF PartDataEnds, At, bufferVars
<1>2. /\ pc \in Handlers /\ request.kind # "string" /\ buffers \in Seq(Bytes)
      /\ Len(buffers) \in Nat /\ Len(buffers) <= MaxSize
      /\ cur \in Nat /\ start \in Nat /\ start <= cur /\ cur <= Len(buffers)
      /\ Window \in Seq(Bytes) /\ Len(Window) = cur - start
      /\ Len(buffers) - cur \in 0..(WordSize - 1) /\ left \in 0..(WordSize - 1)
      /\ content \in Seq(Bytes) /\ stored \in BOOLEAN /\ part \in Bytes
      /\ form \in [Names -> Seq(Bytes)] /\ mishaps \subseteq Mishaps
  BY <1>1, FormFacts
<1>3. PartEnd \in 0..Len(Window)
  <2>1. Find(Window, BoundaryStart) \in Nat /\ Find(Window, BoundaryStart) + 2 <= Len(Window)
    BY <1>1, <1>2, Delimiters, FindProperties
  <2>2. PartEnd = Find(Window, BoundaryStart) - 2
    BY DEF PartEnd
  <2> QED
    BY <1>1, <1>2, <2>1, <2>2
<1>4. from \in Nat /\ start <= from /\ from <= cur
  BY <1>2, <1>3
<1>5. form' \in [Names -> Seq(Bytes)]
  BY <1>1, <1>2, <1>3, RecordTyped
<1>6. mishaps' \subseteq Mishaps /\ mishaps \subseteq mishaps'
  BY <1>1, <1>2 DEF Mishaps
<1> HIDE DEF from
<1>7. CASE /\ Route
           /\ buffers' = buffers /\ cur' = cur /\ left' = left /\ start' = start /\ expand' = expand
  <2>1. pc' = "routed" /\ reading' = FALSE /\ cur <= cur
    BY <1>2, <1>7 DEF Route
  <2> QED
    BY <1>1, <1>2, <1>5, <1>6, <1>7, <2>1, EndStep
<1>8. CASE /\ Len(buffers) = cur
           /\ buffers' = Forwarded(buffers, from, cur)
           /\ cur' = cur - from /\ start' = 0
           /\ left' = Len(buffers) - cur'
           /\ pc' = "partHead" /\ expand' = expand /\ reading' = reading
  <2> DEFINE moved == Forwarded(buffers, from, cur)
             to == cur - from
  <2>1. /\ moved \in Seq(Bytes) /\ Len(moved) = Len(buffers)
        /\ \A i \in 1..(cur - from) : moved[i] = buffers[i + from]
    BY <1>2, <1>4, ForwardedProperties
  <2>2. to \in Nat /\ cur = to + from /\ 0 <= to /\ to <= Len(buffers) /\ start <= 0 + from
    BY <1>2, <1>4
  <2>3. buffers' = moved /\ cur' = to /\ start' = 0 /\ left' = Len(buffers) - to /\ reading' = FALSE
    BY <1>1, <1>8 DEF IInv, TypeOK
  <2>4. Len(buffers) - to \in 0..(WordSize - 1)
    <3>1. Len(buffers) < WordSize
      BY <1>2, SizesAssumption
    <3> HIDE DEF to
    <3> QED
      BY <1>2, <2>2, <3>1, SizesAssumption
  <2> HIDE DEF moved
  <2>5. Shifted(from)
    BY <2>1, <2>3 DEF Shifted
  <2> HIDE DEF to
  <2> QED
    BY <1>1, <1>2, <1>4, <1>5, <1>6, <1>8, <2>1, <2>2, <2>3, <2>4, <2>5, FormStep
<1>9. CASE /\ start' = from
           /\ left' = Len(buffers) - cur
           /\ buffers' = buffers /\ cur' = cur
           /\ pc' = "partHead" /\ expand' = expand /\ reading' = reading
  <2>1. reading' = FALSE
    BY <1>1, <1>9 DEF IInv, TypeOK
  <2>2. cur = cur + 0 /\ start <= from + 0
    BY <1>2, <1>4
  <2>3. Shifted(0)
    <3>1. \A i \in (from + 1)..cur : i + 0 = i
      BY <1>2, <1>4
    <3> QED
      BY <1>9, <3>1 DEF Shifted
  <2> QED
    BY <1>1, <1>2, <1>4, <1>5, <1>6, <1>9, <2>1, <2>2, <2>3, FormStep
<1> QED
  BY <1>1, <1>7, <1>8, <1>9

\* What may be the beginning of a boundary moves to the front of the buffer.
LEMMA PartDataMayEndKeeps ==
    ASSUME IInv, PartDataMayEnd
    PROVE  IInv'
<1>1. /\ pc = "partData" /\ ~reading /\ start' = 0
      /\ request' = request /\ taken' = taken
      /\ content' = content /\ stored' = stored /\ part' = part /\ mishaps' = mishaps
  BY DEF PartDataMayEnd, At
<1>2. /\ pc \in Handlers /\ request.kind # "string" /\ taken \in Nat /\ buffers \in Seq(Bytes)
      /\ Len(buffers) \in Nat /\ cur - start <= taken
      /\ cur \in Nat /\ start \in Nat /\ start <= cur /\ cur <= Len(buffers)
      /\ Window \in Seq(Bytes) /\ Len(Window) = cur - start
      /\ content \in Seq(Bytes) /\ stored \in BOOLEAN /\ part \in Bytes
      /\ form \in [Names -> Seq(Bytes)] /\ mishaps \subseteq Mishaps
      /\ \A i \in (start + 1)..cur : buffers[i] = Stream(request)[taken - cur + i]
  BY <1>1, FormFacts
<1>3. PICK n \in 0..Len(Window) :
          /\ Record(n)
          /\ ReadMore(Forwarded(buffers, start + n, cur), cur - (start + n), "partData", TRUE)
  BY DEF PartDataMayEnd
<1> DEFINE from == start + n
           c == cur - from
           moved == Forwarded(buffers, from, cur)
<1>4. /\ from \in Nat /\ start <= from /\ from <= cur
      /\ c \in Nat /\ c <= cur - start /\ c + from = cur
  BY <1>2
<1>5. /\ moved \in Seq(Bytes) /\ Len(moved) = Len(buffers)
      /\ \A i \in 1..(cur - from) : moved[i] = buffers[i + from]
  BY <1>2, <1>4, ForwardedProperties
<1>6. ReadMore(moved, c, "partData", TRUE)
  BY <1>3
<1>7. form' \in [Names -> Seq(Bytes)]
  BY <1>2, <1>3, RecordTyped
<1> HIDE DEF moved, from
<1>8. ASSUME NEW i \in 1..c PROVE moved[i] = Stream(request)[taken - c + i]
  <2>1. i + from \in (start + 1)..cur /\ taken - cur + (i + from) = taken - c + i /\ i \in 1..(cur - from)
    BY <1>2, <1>4
  <2>2. moved[i] = buffers[i + from]
    BY <1>5, <2>1
  <2>3. buffers[i + from] = Stream(request)[taken - cur + (i + from)]
    BY <1>2, <2>1
  <2> QED
    BY <2>1, <2>2, <2>3
<1> HIDE DEF c
<1>9. /\ start' \in Nat /\ start' <= c /\ c - start' <= taken /\ Len(moved) <= Len(buffers)
      /\ c <= Len(moved)
      /\ \A i \in (start' + 1)..c : moved[i] = Stream(request)[taken - c + i]
  <2>1. 0 <= c /\ c - 0 <= taken /\ Len(moved) <= Len(buffers) /\ c <= Len(moved)
    BY <1>2, <1>4, <1>5
  <2>2. 0 + 1 = 1 /\ 0 \in Nat
    OBVIOUS
  <2> QED
    BY <1>1, <1>8, <2>1, <2>2
<1> QED
  BY <1>1, <1>2, <1>4, <1>5, <1>6, <1>7, <1>9, ReadMoreStep DEF Handlers

LEMMA PartDataGoesOnKeeps ==
    ASSUME IInv, PartDataGoesOn
    PROVE  IInv'
<1>1. /\ pc = "partData" /\ ~reading /\ start' = 0 /\ Record(Len(Window))
      /\ ReadMore(<<>>, 0, "partData", TRUE)
      /\ request' = request /\ taken' = taken
      /\ content' = content /\ stored' = stored /\ part' = part
      /\ mishaps' \in {mishaps, mishaps \cup {"swallowed"}}
  BY DEF PartDataGoesOn, At
<1>2. /\ pc \in Handlers /\ request.kind # "string" /\ taken \in Nat
      /\ Len(buffers) \in Nat /\ Window \in Seq(Bytes)
      /\ content \in Seq(Bytes) /\ stored \in BOOLEAN /\ part \in Bytes
      /\ form \in [Names -> Seq(Bytes)] /\ mishaps \subseteq Mishaps
  BY <1>1, FormFacts
<1>3. form' \in [Names -> Seq(Bytes)]
  <2>1. Len(Window) \in 0..Len(Window)
    BY <1>2
  <2> QED
    BY <1>1, <1>2, <2>1, RecordTyped
<1>4. mishaps' \subseteq Mishaps /\ mishaps \subseteq mishaps'
  BY <1>1, <1>2 DEF Mishaps
<1>5. <<>> \in Seq(Bytes) /\ Len(<<>>) <= Len(buffers) /\ 0 <= Len(<<>>) /\ 0 \in Nat /\ 0 - 0 <= taken
  BY <1>2
<1>6. start' \in Nat /\ start' <= 0 /\ 0 - start' <= taken /\ \A i \in (start' + 1)..0 : FALSE
  BY <1>1, <1>5
<1> QED
  BY <1>1, <1>2, <1>3, <1>4, <1>5, <1>6, ReadMoreStep DEF Handlers

-----------------------------------------------------------------------------
(* The invariant.                                                          *)

LEMMA InitInv == Init => IInv
<1> SUFFICES ASSUME Init PROVE IInv
  OBVIOUS
<1> DEFINE b == Repeat(Zero, InitialSize)
<1>1. InitialSize \in Nat /\ InitialSize <= MaxSize /\ MaxSize \in Nat /\ WordSize \in Nat
      /\ InitialSize < WordSize
  BY SizesAssumption
<1>2. b \in Seq(Bytes) /\ Len(b) = InitialSize
  BY <1>1, BytesAssumption, RepeatProperties
<1>3. /\ request \in Requests /\ taken = 0 /\ buffers = b /\ cur = 0 /\ left = InitialSize
      /\ start = 0 /\ expand = InitialSize /\ pc = "header" /\ reading = TRUE /\ content = <<>>
      /\ stored = FALSE /\ part \in Names /\ form = [n \in Names |-> <<>>] /\ mishaps = {}
  BY DEF Init
<1> HIDE DEF b
<1>4. TypeOK
  <2>1. part \in Bytes
    BY <1>3, BytesAssumption
  <2>2. <<>> \in Seq(Bytes) /\ [n \in Names |-> <<>>] \in [Names -> Seq(Bytes)]
    OBVIOUS
  <2>3. InitialSize \in 0..(WordSize - 1)
    BY <1>1
  <2> QED
    BY <1>2, <1>3, <2>1, <2>2, <2>3 DEF TypeOK, Handlers
<1>5. Sized /\ Room /\ Started
  BY <1>1, <1>2, <1>3 DEF Sized, Room, Started, Handlers
<1>6. Position /\ Kept /\ TextWhole
  BY <1>3 DEF Position, Kept, TextWhole
<1> QED
  BY <1>4, <1>5, <1>6 DEF IInv

LEMMA NextInv == IInv /\ [Next]_vars => IInv'
<1> SUFFICES ASSUME IInv, [Next]_vars PROVE IInv'
  OBVIOUS
<1>1. ASSUME NEW n \in 0..MaxSize, Receive(n) PROVE IInv'
  BY <1>1, ReceiveKeeps
<1>2. CASE ReadFails
  BY <1>2, ReadFailsKeeps
<1>3. CASE HeaderIncomplete
  BY <1>3, HeaderIncompleteKeeps
<1>4. CASE HeaderRefused
  BY <1>4, HeaderRefusedKeeps
<1>5. CASE RouteBare
  BY <1>5, RouteBareKeeps
<1>6. CASE PreprocessBody
  BY <1>6, PreprocessBodyKeeps
<1>7. CASE PreprocessBodyAfresh
  BY <1>7, PreprocessBodyAfreshKeeps
<1>8. CASE ProcessBody
  BY <1>8, ProcessBodyKeeps
<1>9. CASE PreprocessOctStream
  BY <1>9, PreprocessOctStreamKeeps
<1>10. CASE ProcessOctStream
  BY <1>10, ProcessOctStreamKeeps
<1>11. CASE PreprocessMultipart
  BY <1>11, PreprocessMultipartKeeps
<1>12. CASE PartHeadIncomplete
  BY <1>12, PartHeadIncompleteKeeps
<1>13. CASE PartHeadDropped
  BY <1>13, PartHeadDroppedKeeps
<1>14. CASE PartHead
  BY <1>14, PartHeadKeeps
<1>15. CASE PartDataEnds
  BY <1>15, PartDataEndsKeeps
<1>16. CASE PartDataMayEnd
  BY <1>16, PartDataMayEndKeeps
<1>17. CASE PartDataGoesOn
  BY <1>17, PartDataGoesOnKeeps
<1>18. CASE UNCHANGED vars
  BY <1>18 DEF vars, bufferVars, bodyVars, IInv, TypeOK, Sized, Room, Started, Position, Kept, TextWhole
<1> QED
  BY <1>1, <1>2, <1>3, <1>4, <1>5, <1>6, <1>7, <1>8, <1>9, <1>10, <1>11, <1>12, <1>13, <1>14,
     <1>15, <1>16, <1>17, <1>18 DEF Next

LEMMA InvBuffer == IInv => BufferSound
<1> SUFFICES ASSUME IInv, "headerOverflow" \notin mishaps
             PROVE  /\ start <= cur /\ cur <= Len(buffers)
                    /\ reading => cur + left <= Len(buffers)
                    /\ pc \in Keeps =>
                           /\ cur - start <= taken
                           /\ \A i \in (start + 1)..cur :
                                  buffers[i] = Stream(request)[taken - cur + i]
  BY DEF BufferSound, Keeps
<1>1. TypeOK /\ Room /\ Started /\ Position /\ Kept
  BY DEF IInv
<1>2. start <= cur /\ cur <= Len(buffers) /\ (reading => cur + left <= Len(buffers))
  BY <1>1 DEF Room, Started
<1>3. ASSUME pc \in Keeps PROVE cur - start <= taken
  <2>1. request.header \in Nat /\ cur \in Nat /\ taken \in Nat /\ start \in Nat
    BY <1>1, StreamProperties DEF TypeOK
  <2> QED
    BY <1>1, <1>3, <2>1 DEF Position, Started, Keeps
<1> QED
  BY <1>1, <1>2, <1>3 DEF Kept

-----------------------------------------------------------------------------
(* The invariant of the body: why what reaches the route is whole.  A form *)
(* that the peer encodes is followed boundary by boundary.                 *)

\* How much was read of what follows the header, and where in it the window starts.
Got == taken - request.header
Pos == Got - (cur - start)

\* A read is started only while something is missing.
Waits ==
    reading =>
        /\ pc = "header" => cur < request.header
        /\ pc = "string" => cur < Len(request.body)
        /\ pc = "octet" => Len(content) # Len(request.body)

\* The file of an octet stream has what was read of it, if it was opened.
OctetKept ==
    pc = "octet" =>
        /\ request.kind = "octet" /\ cur = 0 /\ request.header <= taken
        /\ content = IF stored THEN SubSeq(Stream(request), request.header + 1, taken) ELSE <<>>
        /\ stored \/ "unopened" \in mishaps

\* No more is read than was sent, nor used than was read.  As long as every read
\* fills the buffer, as much was read as it has been made to hold.
Filled ==
    /\ cur <= taken /\ taken <= Len(Stream(request))
    /\ "shortRead" \notin mishaps =>
           IF "headerOverflow" \in mishaps \/ pc = "tooLarge" THEN 2 * taken > MaxSize
           ELSE pc \in Handlers => expand <= IF reading THEN taken + left ELSE taken

\* A form is read from its first byte on, and nothing of it is recorded before.
FormPlaced ==
    /\ pc \in {"partHead", "partData"} => request.kind = "multipart" /\ Pos >= 0
    /\ pc = "header" => form = [n \in Names |-> <<>>]

\* The data that are looked through begin behind the first boundary, and at the
\* latest at the CR LF of the next, whatever went wrong before.
FormApart ==
    pc = "partData" /\ Encodes(request) =>
        /\ request.at[1] < Pos
        /\ \A j \in 2..Len(request.at) : request.at[j] < Pos \/ Pos + 2 <= request.at[j]

\* The parts before part k are recorded, and the data of part k.
Recorded(k, data) ==
    form = [n \in Names |->
               IF n = PartName(request, k) THEN data
               ELSE IF \E j \in 1..(k - 1) : n = PartName(request, j) THEN request.parts[n]
               ELSE <<>>]

\* The head of part k is next: more is read only for one that is not whole.
HeadNext(k) ==
    /\ Pos = IF k = 1 THEN 0 ELSE request.at[k] - 2
    /\ Recorded(k, <<>>)
    /\ reading => Got < DataAt(request, k)

\* The data of part k are recorded as far as the window: more is read only for a
\* boundary that is not.
DataNext(k) ==
    /\ part = PartName(request, k)
    /\ DataAt(request, k) <= Pos /\ Pos + 2 <= request.at[k + 1]
    /\ Recorded(k, SubSeq(request.body, DataAt(request, k) + 1, Pos))
    /\ reading => Got < request.at[k + 1] + Len(BoundaryStart)

\* Until a boundary is lost or one is taken for the last, the parts follow.
FormFollows ==
    Encodes(request) /\ mishaps \cap {"swallowed", "cutEnd"} = {} =>
        /\ pc = "partHead" => \E k \in 1..(Len(request.at) - 1) : HeadNext(k)
        /\ pc = "partData" => \E k \in 1..(Len(request.at) - 1) : DataNext(k)

BodyInv ==
    /\ Waits
    /\ OctetKept
    /\ Filled
    /\ FormPlaced
    /\ FormApart
    /\ FormFollows
    /\ BodyWhole

-----------------------------------------------------------------------------
(* Places in a text.                                                       *)

\* string_view::rfind returns the last place at which the text is found.
LEMMA FindLastProperties ==
    ASSUME NEW s \in Seq(Bytes), NEW p \in Seq(Bytes), Has(s, p)
    PROVE  /\ FindLast(s, p) \in 0..Len(s) /\ Occurs(s, p, FindLast(s, p))
           /\ \A k \in (FindLast(s, p) + 1)..Len(s) : ~Occurs(s, p, k)
<1>1. Len(s) \in Nat
  OBVIOUS
<1> DEFINE Rest == {Len(s) - j : j \in {j \in 0..Len(s) : Occurs(s, p, j)}}
<1>2. Rest \in SUBSET Nat /\ Rest # {}
  BY <1>1 DEF Has
<1>3. PICK d \in Rest : \A k \in Rest : d <= k
  <2> HIDE DEF Rest
  <2> QED
    BY <1>2, Smallest
<1>4. PICK j \in 0..Len(s) : d = Len(s) - j /\ Occurs(s, p, j)
  BY <1>3
<1>5. ASSUME NEW k \in (j + 1)..Len(s), Occurs(s, p, k) PROVE FALSE
  <2>1. k \in 0..Len(s) /\ Len(s) - k \in Rest /\ ~(d <= Len(s) - k)
    BY <1>1, <1>4, <1>5
  <2> QED
    BY <1>3, <2>1
<1> QED
  BY <1>4, <1>5 DEF FindLast

\* A text occurs where its bytes do.
LEMMA OccursBytes ==
    ASSUME NEW s \in Seq(Bytes), NEW p \in Seq(Bytes), NEW i \in Nat
    PROVE  Occurs(s, p, i) <=>
               i + Len(p) <= Len(s) /\ \A j \in 1..Len(p) : s[i + j] = p[j]
<1>1. Len(s) \in Nat /\ Len(p) \in Nat
  OBVIOUS
<1> SUFFICES ASSUME i + Len(p) <= Len(s)
             PROVE  SubSeq(s, i + 1, i + Len(p)) = p <=> \A j \in 1..Len(p) : s[i + j] = p[j]
  BY DEF Occurs
<1> DEFINE t == SubSeq(s, i + 1, i + Len(p))
<1>2. t \in Seq(Bytes) /\ Len(t) = Len(p) /\ \A j \in 1..Len(p) : t[j] = s[i + j]
  <2>1. t = [j \in 1..Len(p) |-> s[i + j]]
    BY <1>1
  <2>2. ASSUME NEW j \in 1..Len(p) PROVE s[i + j] \in Bytes
    BY <1>1
  <2>3. [j \in 1..Len(p) |-> s[i + j]] \in [1..Len(p) -> Bytes]
    BY <2>2
  <2> QED
    BY <1>1, <2>1, <2>3, FunctionIsSeq
<1> HIDE DEF t
<1>3. t = p <=> \A j \in 1..Len(p) : t[j] = p[j]
  <2>1. ASSUME \A j \in 1..Len(p) : t[j] = p[j] PROVE t = p
    BY <1>1, <1>2, <2>1, SeqEqual
  <2> QED
    BY <2>1
<1> QED
  BY <1>2, <1>3 DEF t

\* Two pieces that follow each other make up one.
LEMMA JoinedPieces ==
    ASSUME NEW s \in Seq(Bytes), NEW a \in Nat, NEW b \in Nat, NEW c \in Nat,
           a <= b, b <= c, c <= Len(s)
    PROVE  SubSeq(s, a + 1, b) \o SubSeq(s, b + 1, c) = SubSeq(s, a + 1, c)
<1>1. /\ SubSeq(s, a + 1, b) = [i \in 1..(b - a) |-> s[a + i]]
      /\ SubSeq(s, b + 1, c) = [i \in 1..(c - b) |-> s[b + i]]
      /\ SubSeq(s, a + 1, c) = [i \in 1..(c - a) |-> s[a + i]]
  OBVIOUS
<1> QED
  OBVIOUS

-----------------------------------------------------------------------------
(* The body.                                                               *)

\* What follows the header.
Sent(r) == r.body \o r.extra

LEMMA SentProperties ==
    ASSUME NEW r \in Requests
    PROVE  /\ Sent(r) \in Seq(Bytes) /\ Len(Sent(r)) \in Nat
           /\ Len(r.body) \in Nat /\ Len(r.body) <= Len(Sent(r))
           /\ Len(Stream(r)) = r.header + Len(Sent(r))
           /\ \A i \in 1..Len(Sent(r)) : Stream(r)[r.header + i] = Sent(r)[i]
           /\ \A i \in 1..Len(r.body) : Sent(r)[i] = r.body[i]
           /\ r.extra = <<>> => Len(Sent(r)) = Len(r.body)
<1>1. r.header \in Nat /\ r.body \in Seq(Bytes) /\ r.extra \in Seq(Bytes)
  BY RequestsAssumption DEF RequestType
<1> DEFINE h == Repeat(HeadByte, r.header)
           n == Len(r.body) + Len(r.extra)
<1>2. h \in Seq(Bytes) /\ Len(h) = r.header
  BY <1>1, RepeatProperties, BytesAssumption
<1>3. Len(r.body) \in Nat /\ Len(r.extra) \in Nat
  BY <1>1
<1>4. /\ Sent(r) \in Seq(Bytes) /\ Len(Sent(r)) = n
      /\ \A i \in 1..n : Sent(r)[i] = IF i <= Len(r.body) THEN r.body[i] ELSE r.extra[i - Len(r.body)]
  BY <1>1, ConcatProperties, Zenon DEF Sent
<1>5. Stream(r) = (h \o r.body) \o r.extra
  BY DEF Stream, h
<1> HIDE DEF h, n
<1>6. Stream(r) = h \o Sent(r)
  <2>1. ASSUME NEW b \in Seq(Bytes), NEW e \in Seq(Bytes) PROVE (h \o b) \o e = h \o (b \o e)
    BY <1>2, ConcatAssociative
  <2> QED
    BY <1>1, <1>5, <2>1, Zenon DEF Sent
<1>7. /\ Stream(r) \in Seq(Bytes) /\ Len(Stream(r)) = r.header + Len(Sent(r))
      /\ \A i \in 1..(r.header + Len(Sent(r))) :
             Stream(r)[i] = IF i <= r.header THEN h[i] ELSE Sent(r)[i - r.header]
  <2>1. /\ h \o Sent(r) \in Seq(Bytes) /\ Len(h \o Sent(r)) = Len(h) + Len(Sent(r))
        /\ \A i \in 1..(Len(h) + Len(Sent(r))) :
             (h \o Sent(r))[i] = IF i <= Len(h) THEN h[i] ELSE Sent(r)[i - Len(h)]
    BY <1>2, <1>4, ConcatProperties, Zenon
  <2> QED
    BY <1>2, <1>6, <2>1, Zenon
<1>8. n \in Nat /\ Len(r.body) <= n /\ (Len(r.extra) = 0 => n = Len(r.body))
  <2>1. ASSUME NEW a \in Nat, NEW b \in Nat
        PROVE  a + b \in Nat /\ a <= a + b /\ (b = 0 => a + b = a)
    OBVIOUS
  <2> QED
    BY <1>3, <2>1, Zenon DEF n
<1>9. ASSUME NEW i \in 1..Len(Sent(r)) PROVE Stream(r)[r.header + i] = Sent(r)[i]
  <2> DEFINE k == r.header + i
  <2>1. /\ k \in 1..(r.header + Len(Sent(r))) /\ ~(k <= r.header) /\ k - r.header = i
    BY <1>1, <1>4, <1>8, <1>9
  <2> HIDE DEF k
  <2>2. Stream(r)[k] = IF k <= r.header THEN h[k] ELSE Sent(r)[k - r.header]
    BY <1>7, <2>1, Zenon
  <2> QED
    BY <2>1, <2>2 DEF k
<1>10. ASSUME NEW i \in 1..Len(r.body) PROVE Sent(r)[i] = r.body[i]
  <2>1. i \in 1..n /\ i <= Len(r.body)
    BY <1>3, <1>8, <1>10
  <2> QED
    BY <1>4, <2>1
<1>11. r.extra = <<>> => Len(r.extra) = 0
  OBVIOUS
<1> QED
  BY <1>3, <1>4, <1>7, <1>8, <1>9, <1>10, <1>11

\* Of two texts in a row: the bytes of the first, then those of the second.
LEMMA Joined ==
    ASSUME NEW u \in Seq(Bytes), NEW v \in Seq(Bytes)
    PROVE  /\ u \o v \in Seq(Bytes) /\ Len(u \o v) = Len(u) + Len(v)
           /\ \A i \in 1..Len(u) : (u \o v)[i] = u[i]
           /\ \A i \in 1..Len(v) : (u \o v)[Len(u) + i] = v[i]
  OBVIOUS

\* The places of the boundaries in a form, in their order and apart.
LEMMA FormPlaces ==
    ASSUME NEW r \in Requests, Encodes(r)
    PROVE  /\ Len(r.at) \in Nat /\ 1 < Len(r.at)
           /\ \A k \in 1..Len(r.at) : r.at[k] \in Nat /\ r.at[k] + 3 <= Len(r.body)
           /\ \A k \in 1..Len(r.at) : DataAt(r, k) = r.at[k] + 9
           /\ \A k \in 2..Len(r.at) : \A j \in 1..(k - 1) : r.at[j] + 11 <= r.at[k]
<1> DEFINE m == Len(r.at)
<1>1. r.at \in Seq(Nat) /\ r.body \in Seq(Bytes) /\ Len(r.body) \in Nat
  BY RequestsAssumption DEF RequestType
<1>2. m \in Nat /\ 1 < m /\ \A k \in 1..m : r.at[k] \in Nat
  BY <1>1 DEF Encodes
<1>3. ASSUME NEW k \in 1..m PROVE DataAt(r, k) = r.at[k] + 9
  <2>1. r.at[k] \in Nat
    BY <1>2
  <2> QED
    BY <2>1, Delimiters DEF DataAt
<1>4. Len(BoundaryEnd) = 3
  BY DEF BoundaryEnd
<1>5. r.at[m] + 3 <= Len(r.body)
  BY <1>4 DEF Encodes, Occurs
<1>6. ASSUME NEW k \in 2..m, NEW j \in 1..(k - 1) PROVE r.at[j] + 11 <= r.at[k]
  <2>1. DataAt(r, j) + 2 <= r.at[k]
    BY DEF Encodes
  <2>2. j \in 1..m /\ k \in 1..m
    BY <1>2, <1>6
  <2>3. DataAt(r, j) = r.at[j] + 9 /\ r.at[j] \in Nat /\ r.at[k] \in Nat
    BY <1>2, <1>3, <2>2
  <2> QED
    BY <2>1, <2>3
<1> HIDE DEF m
<1>7. ASSUME NEW k \in 1..m PROVE r.at[k] + 3 <= Len(r.body)
  <2>1. CASE k = m
    BY <1>5, <2>1
  <2>2. CASE k # m
    <3>1. m \in 2..m /\ k \in 1..(m - 1)
      BY <1>2, <1>7, <2>2
    <3>2. r.at[k] + 11 <= r.at[m]
      BY <1>6, <3>1 DEF m
    <3>3. r.at[k] \in Nat /\ r.at[m] \in Nat
      BY <1>2, <3>1
    <3>4. ASSUME NEW a \in Nat, NEW b \in Nat, NEW n \in Nat, a + 11 <= b, b + 3 <= n
          PROVE  a + 3 <= n
      BY <3>4
    <3> QED
      BY <1>1, <1>5, <3>2, <3>3, <3>4, Zenon
  <2> QED
    BY <2>1, <2>2
<1> QED
  BY <1>2, <1>3, <1>6, <1>7 DEF m

\* A text that occurs in the body occurs in what is sent.
LEMMA OccursInBody ==
    ASSUME NEW r \in Requests, NEW p \in Seq(Bytes), NEW i \in Nat, Occurs(r.body, p, i)
    PROVE  /\ \A j \in 1..Len(p) : Sent(r)[i + j] = p[j]
           /\ i + Len(p) <= Len(r.body)
<1>1. r.body \in Seq(Bytes) /\ Len(p) \in Nat
  BY StreamProperties
<1>2. i + Len(p) <= Len(r.body) /\ \A j \in 1..Len(p) : r.body[i + j] = p[j]
  BY <1>1, OccursBytes
<1>3. ASSUME NEW j \in 1..Len(p) PROVE Sent(r)[i + j] = p[j]
  <2>1. i + j \in 1..Len(r.body)
    BY <1>1, <1>2, SentProperties
  <2> QED
    BY <1>2, <2>1, SentProperties
<1> QED
  BY <1>2, <1>3

\* The bytes of a head: the boundary, the name of a part, the end of the head.
LEMMA FormHeads ==
    ASSUME NEW r \in Requests, Encodes(r), NEW k \in 1..(Len(r.at) - 1)
    PROVE  /\ r.at[k] \in Nat
           /\ Sent(r)[r.at[k] + 1] = Dashes /\ Sent(r)[r.at[k] + 2] = Key
           /\ Sent(r)[r.at[k] + 3] = CR /\ Sent(r)[r.at[k] + 4] = LF
           /\ Sent(r)[r.at[k] + 5] = PartName(r, k) /\ PartName(r, k) \in Names
           /\ Sent(r)[r.at[k] + 6] = CR /\ Sent(r)[r.at[k] + 7] = LF
           /\ Sent(r)[r.at[k] + 8] = CR /\ Sent(r)[r.at[k] + 9] = LF
<1>1. r.at[k] \in Nat
  <2>1. k \in 1..Len(r.at)
    BY FormPlaces
  <2> QED
    BY <2>1, FormPlaces
<1> DEFINE n == PartName(r, k)
           p == BoundaryStart \o <<CR, LF, n>> \o HeadEnd
<1>2. n \in Names /\ Occurs(r.body, p, r.at[k])
  BY DEF Encodes
<1> HIDE DEF n
<1>3. n \in Bytes /\ CR \in Bytes /\ LF \in Bytes /\ Dashes \in Bytes /\ Key \in Bytes
  BY <1>2, BytesAssumption
<1> DEFINE b == BoundaryStart
           f == <<CR, LF, n>>
           h == HeadEnd
<1>4. /\ b \in Seq(Bytes) /\ Len(b) = 2 /\ b[1] = Dashes /\ b[2] = Key
      /\ f \in Seq(Bytes) /\ Len(f) = 3 /\ f[1] = CR /\ f[2] = LF /\ f[3] = n
      /\ h \in Seq(Bytes) /\ Len(h) = 4 /\ h[1] = CR /\ h[2] = LF /\ h[3] = CR /\ h[4] = LF
  BY <1>3 DEF BoundaryStart, HeadEnd
<1> HIDE DEF b, f, h
<1>5. /\ p \in Seq(Bytes) /\ Len(p) = 9
      /\ p[1] = Dashes /\ p[2] = Key /\ p[3] = CR /\ p[4] = LF /\ p[5] = n
      /\ p[6] = CR /\ p[7] = LF /\ p[8] = CR /\ p[9] = LF
  <2> DEFINE q == b \o f
  <2>1. q \in Seq(Bytes) /\ Len(q) = 5 /\ q[1] = b[1] /\ q[2] = b[2]
        /\ q[3] = f[1] /\ q[4] = f[2] /\ q[5] = f[3]
    <3>1. /\ q \in Seq(Bytes) /\ Len(q) = 5 /\ \A i \in 1..2 : q[i] = b[i]
          /\ \A i \in 1..3 : q[2 + i] = f[i]
      <4>1. b \in Seq(Bytes) /\ f \in Seq(Bytes) /\ Len(b) = 2 /\ Len(f) = 3 /\ 2 + 3 = 5
        BY <1>4
      <4>2. /\ b \o f \in Seq(Bytes) /\ Len(b \o f) = Len(b) + Len(f)
            /\ \A i \in 1..Len(b) : (b \o f)[i] = b[i]
            /\ \A i \in 1..Len(f) : (b \o f)[Len(b) + i] = f[i]
        BY <4>1, Joined, Zenon
      <4> QED
        BY <4>1, <4>2, Zenon
    <3>2. 2 + 1 = 3 /\ 2 + 2 = 4 /\ 2 + 3 = 5 /\ 1 \in 1..2 /\ 2 \in 1..2 /\ 1 \in 1..3
          /\ 2 \in 1..3 /\ 3 \in 1..3
      OBVIOUS
    <3> HIDE DEF q
    <3> QED
      BY <3>1, <3>2
  <2>2. p = q \o h
    BY DEF b, f, h
  <2> HIDE DEF q, p
  <2>3. p \in Seq(Bytes) /\ Len(p) = 9 /\ (\A i \in 1..5 : p[i] = q[i])
        /\ p[6] = h[1] /\ p[7] = h[2] /\ p[8] = h[3] /\ p[9] = h[4]
    <3>1. /\ p \in Seq(Bytes) /\ Len(p) = 9 /\ \A i \in 1..5 : p[i] = q[i]
          /\ \A i \in 1..4 : p[5 + i] = h[i]
      <4>1. q \in Seq(Bytes) /\ h \in Seq(Bytes) /\ Len(q) = 5 /\ Len(h) = 4 /\ 5 + 4 = 9
        BY <1>4, <2>1
      <4>2. /\ q \o h \in Seq(Bytes) /\ Len(q \o h) = Len(q) + Len(h)
            /\ \A i \in 1..Len(q) : (q \o h)[i] = q[i]
            /\ \A i \in 1..Len(h) : (q \o h)[Len(q) + i] = h[i]
        BY <4>1, Joined, Zenon
      <4> QED
        BY <2>2, <4>1, <4>2, Zenon
    <3>2. 5 + 1 = 6 /\ 5 + 2 = 7 /\ 5 + 3 = 8 /\ 5 + 4 = 9 /\ 1 \in 1..4 /\ 2 \in 1..4
          /\ 3 \in 1..4 /\ 4 \in 1..4
      OBVIOUS
    <3> QED
      BY <3>1, <3>2
  <2> QED
    BY <1>4, <2>1, <2>3
<1> HIDE DEF p
<1>6. \A j \in 1..9 : Sent(r)[r.at[k] + j] = p[j]
  <2>1. p \in Seq(Bytes) /\ Len(p) = 9
    BY <1>5
  <2> QED
    BY <1>1, <1>2, <2>1, OccursInBody
<1> HIDE DEF p
<1>8. /\ 1 \in 1..9 /\ 2 \in 1..9 /\ 3 \in 1..9 /\ 4 \in 1..9 /\ 5 \in 1..9
      /\ 6 \in 1..9 /\ 7 \in 1..9 /\ 8 \in 1..9 /\ 9 \in 1..9
  OBVIOUS
<1> QED
  BY <1>1, <1>2, <1>5, <1>6, <1>8, Zenon DEF n

\* The bytes of the last boundary, and before each but the first.
LEMMA FormEnds ==
    ASSUME NEW r \in Requests, Encodes(r)
    PROVE  /\ LET last == r.at[Len(r.at)] IN
              Sent(r)[last + 1] = Dashes /\ Sent(r)[last + 2] = Key /\ Sent(r)[last + 3] = Dashes
           /\ \A k \in 2..Len(r.at) : Sent(r)[r.at[k] - 1] = CR /\ Sent(r)[r.at[k]] = LF
<1> DEFINE m == Len(r.at)
<1>1. m \in Nat /\ 1 < m /\ \A k \in 1..m : r.at[k] \in Nat
  BY FormPlaces
<1>2. /\ BoundaryEnd \in Seq(Bytes) /\ Len(BoundaryEnd) = 3
      /\ BoundaryEnd[1] = Dashes /\ BoundaryEnd[2] = Key /\ BoundaryEnd[3] = Dashes
  BY BytesAssumption DEF BoundaryEnd
<1>3. \A j \in 1..3 : Sent(r)[r.at[m] + j] = BoundaryEnd[j]
  <2>1. Occurs(r.body, BoundaryEnd, r.at[m]) /\ r.at[m] \in Nat
    BY <1>1 DEF Encodes
  <2> QED
    BY <1>2, <2>1, OccursInBody
<1>4. ASSUME NEW k \in 2..m PROVE Sent(r)[r.at[k] - 1] = CR /\ Sent(r)[r.at[k]] = LF
  <2>1. k - 1 \in 1..(m - 1) /\ (k - 1) + 1 = k /\ 1 \in 1..(k - 1) /\ k \in 1..m /\ 1 \in 1..m
    BY <1>1, <1>4
  <2>2. Occurs(r.body, <<CR, LF>>, r.at[k] - 2)
    BY <2>1 DEF Encodes
  <2>3. r.at[1] + 11 <= r.at[k] /\ r.at[1] \in Nat /\ r.at[k] \in Nat
    BY <1>1, <2>1, FormPlaces
  <2>4. r.at[k] - 2 \in Nat /\ (r.at[k] - 2) + 1 = r.at[k] - 1 /\ (r.at[k] - 2) + 2 = r.at[k]
    BY <2>3
  <2> DEFINE p == <<CR, LF>>
  <2>5. p \in Seq(Bytes) /\ Len(p) = 2 /\ p[1] = CR /\ p[2] = LF
    BY BytesAssumption
  <2>6. Occurs(r.body, p, r.at[k] - 2)
    BY <2>2
  <2> HIDE DEF p
  <2>7. \A j \in 1..2 : Sent(r)[(r.at[k] - 2) + j] = p[j]
    BY <2>4, <2>5, <2>6, OccursInBody
  <2>8. Sent(r)[(r.at[k] - 2) + 1] = CR /\ Sent(r)[(r.at[k] - 2) + 2] = LF
    BY <2>5, <2>7
  <2> QED
    BY <2>4, <2>8
<1> QED
  BY <1>2, <1>3, <1>4

\* A boundary is where one was put.
LEMMA FormBoundaries ==
    ASSUME NEW r \in Requests, Encodes(r)
    PROVE  \A i \in Nat : Occurs(Sent(r), BoundaryStart, i) <=>
               \E k \in 1..Len(r.at) : i = r.at[k]
<1>1. Len(Sent(r)) \in Nat /\ Sent(r) \in Seq(Bytes) /\ Len(r.body) <= Len(Sent(r)) /\ Len(r.body) \in Nat
  BY SentProperties
<1>2. Len(r.at) \in Nat /\ 1 < Len(r.at)
      /\ \A k \in 1..Len(r.at) : r.at[k] \in Nat /\ r.at[k] + 3 <= Len(r.body)
  BY FormPlaces
<1>3. /\ BoundaryStart \in Seq(Bytes) /\ Len(BoundaryStart) = 2
      /\ BoundaryStart[1] = Dashes /\ BoundaryStart[2] = Key
  BY Delimiters DEF BoundaryStart
<1>4. ASSUME NEW i \in Nat, Occurs(Sent(r), BoundaryStart, i)
      PROVE  \E k \in 1..Len(r.at) : i = r.at[k]
  <2>1. i \in 0..Len(Sent(r))
    BY <1>1, <1>3, <1>4 DEF Occurs
  <2> QED
    BY <1>4, <2>1 DEF Encodes, Sent
<1>5. ASSUME NEW k \in 1..Len(r.at) PROVE Occurs(Sent(r), BoundaryStart, r.at[k])
  <2>1. Sent(r)[r.at[k] + 1] = Dashes /\ Sent(r)[r.at[k] + 2] = Key
    <3>1. CASE k = Len(r.at)
      BY <3>1, FormEnds
    <3>2. CASE k # Len(r.at)
      <4>1. k \in 1..(Len(r.at) - 1)
        BY <1>2, <3>2
      <4> QED
        BY <4>1, FormHeads
    <3> QED
      BY <3>1, <3>2
  <2>2. \A j \in 1..2 : Sent(r)[r.at[k] + j] = BoundaryStart[j]
    <3>1. \A j \in 1..2 : j = 1 \/ j = 2
      OBVIOUS
    <3> QED
      BY <1>3, <2>1, <3>1
  <2>3. r.at[k] \in Nat /\ r.at[k] + 2 <= Len(Sent(r))
    BY <1>1, <1>2
  <2> QED
    BY <1>1, <1>3, <2>2, <2>3, OccursBytes
<1> QED
  BY <1>4, <1>5

-----------------------------------------------------------------------------
(* What the handlers of a form find in the window.                         *)

\* The window is the piece of the body, and of what follows it, from Pos to Got.
LEMMA WindowSent ==
    ASSUME IInv, Filled, FormPlaced, ~reading, pc \in {"partHead", "partData"}
    PROVE  /\ request \in Requests /\ Pos \in Nat /\ Got \in Nat /\ Pos <= Got
           /\ Got <= Len(Sent(request)) /\ Len(Sent(request)) \in Nat
           /\ Window \in Seq(Bytes) /\ Len(Window) = Got - Pos
           /\ \A i \in 1..Len(Window) : Window[i] = Sent(request)[Pos + i]
<1>1. /\ request \in Requests /\ taken \in Nat /\ cur \in Nat /\ start \in Nat /\ start <= cur
      /\ cur <= Len(buffers) /\ Window \in Seq(Bytes) /\ Len(Window) = cur - start
      /\ \A i \in (start + 1)..cur : buffers[i] = Stream(request)[taken - cur + i]
      /\ Len(buffers) \in Nat
  BY FormFacts
<1>2. request.header \in Nat
  BY <1>1, StreamProperties
<1>3. /\ Len(Sent(request)) \in Nat /\ Len(Stream(request)) = request.header + Len(Sent(request))
      /\ \A i \in 1..Len(Sent(request)) : Stream(request)[request.header + i] = Sent(request)[i]
  BY <1>1, SentProperties
<1> DEFINE n == Len(Sent(request))
           h == request.header
<1>0. /\ taken \in Nat /\ cur \in Nat /\ start \in Nat /\ start <= cur /\ h \in Nat /\ n \in Nat
      /\ Len(Window) = cur - start
  BY <1>1, <1>2, <1>3
<1>4. /\ Pos \in Nat /\ Got \in Nat /\ Pos <= Got /\ Got <= Len(Sent(request))
      /\ Len(Window) = Got - Pos
  <2>1. Pos >= 0 /\ taken <= Len(Stream(request))
    BY DEF FormPlaced, Filled
  <2>2. taken <= h + n
    BY <1>3, <2>1
  <2>3. Got = taken - h /\ Pos = Got - (cur - start)
    BY DEF Pos, Got
  <2> HIDE DEF h, n
  <2>4. Pos \in Nat /\ Got \in Nat /\ Pos <= Got /\ Got <= n /\ Len(Window) = Got - Pos
    BY ONLY <1>0, <2>1, <2>2, <2>3
  <2> QED
    BY <2>4 DEF n
<1>5. ASSUME NEW i \in 1..Len(Window) PROVE Window[i] = Sent(request)[Pos + i]
  <2>1. /\ start + i \in (start + 1)..cur /\ Pos + i \in 1..Len(Sent(request))
        /\ taken - cur + (start + i) = request.header + (Pos + i)
    <3>1. Got = taken - h /\ Pos = Got - (cur - start) /\ Pos \in Nat /\ Got \in Nat /\ Got <= n
      BY <1>4 DEF Pos, Got
    <3> HIDE DEF h, n
    <3>2. start + i \in (start + 1)..cur /\ Pos + i \in 1..n /\ taken - cur + (start + i) = h + (Pos + i)
      BY ONLY <1>0, <1>5, <3>1
    <3> QED
      BY <3>2 DEF h, n
  <2>2. buffers[start + i] = Stream(request)[request.header + (Pos + i)]
    BY <1>1, <2>1
  <2>3. Window[i] = buffers[start + i]
    <3>1. buffers \in Seq(Bytes)
      BY FormFacts
    <3>2. start + 1 \in Int /\ cur \in Int /\ \A j \in (start + 1)..cur : buffers[j] \in Bytes
      BY <1>1, <3>1
    <3>3. \A j \in 1..(cur - (start + 1) + 1) : Window[j] = buffers[(start + 1) + j - 1]
      BY <3>2, SubSeqProperties DEF Window
    <3>4. i \in 1..(cur - (start + 1) + 1) /\ (start + 1) + i - 1 = start + i
      BY <1>1, <1>5
    <3> QED
      BY <3>3, <3>4
  <2> QED
    BY <1>3, <2>1, <2>2, <2>3
<1> QED
  BY <1>1, <1>3, <1>4, <1>5

\* A text occurs in the window where it occurs in what is sent.
LEMMA WindowOccurs ==
    ASSUME IInv, Filled, FormPlaced, ~reading, pc \in {"partHead", "partData"},
           NEW p \in Seq(Bytes), NEW i \in Nat
    PROVE  Occurs(Window, p, i) <=>
               Occurs(Sent(request), p, Pos + i) /\ Pos + i + Len(p) <= Got
<1>1. /\ request \in Requests /\ Pos \in Nat /\ Got \in Nat /\ Pos <= Got
      /\ Got <= Len(Sent(request)) /\ Len(Sent(request)) \in Nat
      /\ Window \in Seq(Bytes) /\ Len(Window) = Got - Pos
      /\ \A j \in 1..Len(Window) : Window[j] = Sent(request)[Pos + j]
  BY WindowSent
<1>2. Sent(request) \in Seq(Bytes) /\ Len(p) \in Nat /\ Pos + i \in Nat
  BY <1>1, SentProperties
<1>3. Occurs(Window, p, i) <=> i + Len(p) <= Len(Window) /\ \A j \in 1..Len(p) : Window[i + j] = p[j]
  BY <1>1, OccursBytes
<1>4. Occurs(Sent(request), p, Pos + i) <=>
          /\ Pos + i + Len(p) <= Len(Sent(request))
          /\ \A j \in 1..Len(p) : Sent(request)[(Pos + i) + j] = p[j]
  BY <1>2, OccursBytes
<1>5. i + Len(p) <= Len(Window) <=> Pos + i + Len(p) <= Got
  BY <1>1, <1>2
<1>6. Pos + i + Len(p) <= Got => Pos + i + Len(p) <= Len(Sent(request))
  BY <1>1, <1>2
<1>7. ASSUME i + Len(p) <= Len(Window), NEW j \in 1..Len(p)
      PROVE  Window[i + j] = Sent(request)[(Pos + i) + j]
  <2>1. i + j \in 1..Len(Window) /\ Pos + (i + j) = (Pos + i) + j
    BY <1>1, <1>2, <1>7
  <2> QED
    BY <1>1, <2>1
<1> QED
  BY <1>3, <1>4, <1>5, <1>6, <1>7

\* In what is sent the first boundary of a window is the first not before it.
LEMMA BoundaryFound ==
    ASSUME IInv, Filled, FormPlaced, Encodes(request), ~reading,
           pc \in {"partHead", "partData"}, Has(Window, BoundaryStart)
    PROVE  \E k \in 1..Len(request.at) :
               /\ request.at[k] = Pos + Find(Window, BoundaryStart)
               /\ request.at[k] + 2 <= Got
               /\ \A j \in 1..Len(request.at) : request.at[j] < Pos \/ request.at[k] <= request.at[j]
<1> DEFINE f == Find(Window, BoundaryStart)
           at == request.at
<1>1. /\ request \in Requests /\ Pos \in Nat /\ Got \in Nat /\ Pos <= Got
      /\ Window \in Seq(Bytes) /\ Len(Window) = Got - Pos
  BY WindowSent
<1>2. /\ f \in Nat /\ f + 2 <= Len(Window) /\ Occurs(Window, BoundaryStart, f)
      /\ \A k \in 0..(f - 1) : ~Occurs(Window, BoundaryStart, k)
  BY <1>1, Delimiters, FindProperties
<1> HIDE DEF f
<1>3. Occurs(Sent(request), BoundaryStart, Pos + f) /\ Pos + f + 2 <= Got
  BY <1>2, Delimiters, WindowOccurs
<1>4. PICK k \in 1..Len(at) : Pos + f = at[k]
  <2>1. Pos + f \in Nat
    BY <1>1, <1>2
  <2> QED
    BY <1>1, <1>3, <2>1, FormBoundaries
<1>5. ASSUME NEW j \in 1..Len(at), ~(at[j] < Pos), ~(at[k] <= at[j]) PROVE FALSE
  <2>1. at[j] \in Nat /\ Occurs(Sent(request), BoundaryStart, at[j])
    <3>1. at[j] \in Nat
      BY <1>1, FormPlaces
    <3> QED
      BY <1>1, <3>1, FormBoundaries
  <2>2. at[j] - Pos \in 0..(f - 1) /\ Pos + (at[j] - Pos) = at[j] /\ at[j] - Pos \in Nat
        /\ at[j] + 2 <= Got
    <3> DEFINE a == at[j]
    <3>1. /\ a \in Nat /\ Pos \in Nat /\ Got \in Nat /\ f \in Nat /\ ~(a < Pos) /\ ~(Pos + f <= a)
          /\ Pos + f + 2 <= Got
      BY <1>1, <1>2, <1>3, <1>4, <1>5, <2>1
    <3> HIDE DEF a
    <3>2. a - Pos \in 0..(f - 1) /\ Pos + (a - Pos) = a /\ a - Pos \in Nat /\ a + 2 <= Got
      BY ONLY <3>1
    <3> QED
      BY <3>2 DEF a
  <2>3. Occurs(Window, BoundaryStart, at[j] - Pos)
    BY <2>1, <2>2, Delimiters, WindowOccurs
  <2> QED
    BY <1>2, <2>2, <2>3
<1>6. at[k] + 2 <= Got
  BY <1>3, <1>4
<1> QED
  BY <1>4, <1>5, <1>6 DEF f

\* A window without a boundary ends before the next one does.
LEMMA BoundaryMissing ==
    ASSUME IInv, Filled, FormPlaced, Encodes(request), ~reading,
           pc \in {"partHead", "partData"}, ~Has(Window, BoundaryStart)
    PROVE  \A j \in 1..Len(request.at) : request.at[j] < Pos \/ Got < request.at[j] + 2
<1> DEFINE at == request.at
<1>1. /\ request \in Requests /\ Pos \in Nat /\ Got \in Nat /\ Pos <= Got
      /\ Window \in Seq(Bytes) /\ Len(Window) = Got - Pos
  BY WindowSent
<1> SUFFICES ASSUME NEW j \in 1..Len(at), ~(at[j] < Pos), ~(Got < at[j] + 2) PROVE FALSE
  OBVIOUS
<1>2. at[j] \in Nat /\ Occurs(Sent(request), BoundaryStart, at[j])
  <2>1. at[j] \in Nat
    BY <1>1, FormPlaces
  <2> QED
    BY <1>1, <2>1, FormBoundaries
<1>3. at[j] - Pos \in 0..Len(Window) /\ Pos + (at[j] - Pos) = at[j] /\ at[j] - Pos \in Nat
  BY <1>1, <1>2
<1>4. Occurs(Window, BoundaryStart, at[j] - Pos)
  <2>1. BoundaryStart \in Seq(Bytes) /\ Len(BoundaryStart) = 2
    BY Delimiters
  <2>2. Pos + (at[j] - Pos) + Len(BoundaryStart) <= Got
    BY <1>1, <1>2, <1>3, <2>1
  <2> QED
    BY <1>2, <1>3, <2>1, <2>2, WindowOccurs
<1> QED
  BY <1>3, <1>4 DEF Has

\* The head of a part ends where the encoding says, and what comes before that end
\* is not taken for one.
LEMMA HeadEndAt ==
    ASSUME NEW r \in Requests, Encodes(r), NEW k \in 1..(Len(r.at) - 1)
    PROVE  Occurs(Sent(r), HeadEnd, r.at[k] + 5) /\ ~Occurs(Sent(r), HeadEnd, r.at[k] + 4)
<1>1. /\ HeadEnd \in Seq(Bytes) /\ Len(HeadEnd) = 4
      /\ HeadEnd[1] = CR /\ HeadEnd[2] = LF /\ HeadEnd[3] = CR /\ HeadEnd[4] = LF
  BY Delimiters DEF HeadEnd
<1>2. /\ r.at[k] \in Nat
      /\ Sent(r)[r.at[k] + 6] = CR /\ Sent(r)[r.at[k] + 7] = LF
      /\ Sent(r)[r.at[k] + 8] = CR /\ Sent(r)[r.at[k] + 9] = LF
  BY FormHeads
<1>3. Sent(r) \in Seq(Bytes) /\ Len(Sent(r)) \in Nat /\ r.at[k] + 9 <= Len(Sent(r))
  <2>1. /\ Sent(r) \in Seq(Bytes) /\ Len(Sent(r)) \in Nat /\ Len(r.body) \in Nat
        /\ Len(r.body) <= Len(Sent(r))
    BY SentProperties
  <2>2. k + 1 \in 2..Len(r.at) /\ k \in 1..((k + 1) - 1) /\ k + 1 \in 1..Len(r.at)
    BY FormPlaces
  <2>3. r.at[k] + 11 <= r.at[k + 1] /\ r.at[k + 1] + 3 <= Len(r.body) /\ r.at[k + 1] \in Nat
    BY <2>2, FormPlaces
  <2>4. ASSUME NEW x \in Nat, NEW y \in Nat, NEW l \in Nat, NEW m \in Nat,
               x + 11 <= y, y + 3 <= l, l <= m
        PROVE  x + 9 <= m
    BY <2>4
  <2> QED
    BY <1>2, <2>1, <2>3, <2>4, Zenon
<1> DEFINE a == r.at[k]
<1>0. a \in Nat
  BY <1>2
<1>4. /\ (a + 5) + 1 = a + 6 /\ (a + 5) + 2 = a + 7 /\ (a + 5) + 3 = a + 8 /\ (a + 5) + 4 = a + 9
      /\ (a + 4) + 2 = a + 6 /\ a + 5 \in Nat /\ a + 4 \in Nat
  <2> HIDE DEF a
  <2> QED
    BY <1>0
<1> HIDE DEF a
<1>5. \A j \in 1..4 : Sent(r)[(a + 5) + j] = HeadEnd[j]
  <2>1. \A j \in 1..4 : j = 1 \/ j = 2 \/ j = 3 \/ j = 4
    OBVIOUS
  <2>2. /\ Sent(r)[(a + 5) + 1] = CR /\ Sent(r)[(a + 5) + 2] = LF
        /\ Sent(r)[(a + 5) + 3] = CR /\ Sent(r)[(a + 5) + 4] = LF
    BY <1>2, <1>4 DEF a
  <2> QED
    BY <1>1, <2>1, <2>2
<1>6. Occurs(Sent(r), HeadEnd, a + 5)
  BY <1>1, <1>3, <1>4, <1>5, OccursBytes DEF a
<1>7. ~Occurs(Sent(r), HeadEnd, a + 4)
  <2>1. SUFFICES ASSUME Occurs(Sent(r), HeadEnd, a + 4) PROVE FALSE
    OBVIOUS
  <2>2. \A j \in 1..Len(HeadEnd) : Sent(r)[(a + 4) + j] = HeadEnd[j]
    BY <1>1, <1>3, <1>4, <2>1, OccursBytes
  <2>3. Sent(r)[(a + 4) + 2] = HeadEnd[2]
    BY <1>1, <2>2
  <2> QED
    BY <1>1, <1>2, <1>4, <2>3 DEF a, CR, LF
<1> QED
  BY <1>6, <1>7 DEF a

\* A window with a whole head has what is looked for.
LEMMA HeadThere ==
    ASSUME IInv, Filled, FormPlaced, Encodes(request), ~reading,
           pc \in {"partHead", "partData"}, NEW k \in 1..(Len(request.at) - 1),
           Pos <= request.at[k], DataAt(request, k) <= Got
    PROVE  Has(Window, BoundaryStart) /\ Has(Window, HeadEnd)
<1> DEFINE a == request.at[k]
           b == a - Pos
           e == (a - Pos) + 5
<1>1. /\ request \in Requests /\ Pos \in Nat /\ Got \in Nat
      /\ Window \in Seq(Bytes) /\ Len(Window) = Got - Pos
  BY WindowSent
<1>2. k \in 1..Len(request.at) /\ a \in Nat /\ DataAt(request, k) = a + 9
  <2>1. k \in 1..Len(request.at)
    BY <1>1, FormPlaces
  <2> QED
    BY <1>1, <2>1, FormPlaces
<1>3. /\ b \in Nat /\ e \in Nat /\ Pos + b = a /\ Pos + e = a + 5
      /\ b \in 0..Len(Window) /\ e \in 0..Len(Window) /\ Pos + b + 2 <= Got /\ Pos + e + 4 <= Got
  <2>1. Pos <= a /\ a + 9 <= Got
    BY <1>2
  <2> HIDE DEF a
  <2> QED
    BY <1>1, <1>2, <2>1
<1> HIDE DEF b, e
<1>4. Occurs(Sent(request), BoundaryStart, Pos + b)
  BY <1>1, <1>2, <1>3, FormBoundaries
<1>5. Occurs(Sent(request), HeadEnd, Pos + e)
  BY <1>1, <1>3, HeadEndAt
<1>6. Occurs(Window, BoundaryStart, b)
  BY <1>3, <1>4, Delimiters, WindowOccurs
<1>7. Occurs(Window, HeadEnd, e)
  BY <1>3, <1>5, Delimiters, WindowOccurs
<1> QED
  BY <1>3, <1>6, <1>7 DEF Has

\* A head that is found behind the boundary of part k is that of part k.
LEMMA HeadFound ==
    ASSUME IInv, Filled, FormPlaced, Encodes(request), ~reading, pc = "partHead",
           Has(Window, BoundaryStart), HasFrom(Window, HeadEnd, FieldsAt),
           NEW k \in 1..(Len(request.at) - 1),
           request.at[k] = Pos + Find(Window, BoundaryStart)
    PROVE  /\ FindFrom(Window, HeadEnd, FieldsAt) + 4 = DataAt(request, k) - Pos
           /\ Window[FieldsAt + 1] = PartName(request, k)
<1> DEFINE a == request.at[k]
           f == Find(Window, BoundaryStart)
           x == FindFrom(Window, HeadEnd, FieldsAt)
<1>1. /\ request \in Requests /\ Pos \in Nat /\ Got \in Nat
      /\ Window \in Seq(Bytes) /\ Len(Window) = Got - Pos
      /\ \A i \in 1..Len(Window) : Window[i] = Sent(request)[Pos + i]
  BY WindowSent
<1>2. a \in Nat /\ DataAt(request, k) = a + 9
  <2>1. k \in 1..Len(request.at)
    BY <1>1, FormPlaces
  <2> QED
    BY <1>1, <2>1, FormPlaces
<1>3. f \in Nat /\ a = Pos + f
  BY <1>1, Delimiters, FindProperties
<1>4. FieldsAt = f + 4
  BY <1>3, Delimiters DEF FieldsAt
<1>5. /\ x \in Nat /\ f + 4 <= x /\ x + 4 <= Len(Window) /\ Occurs(Window, HeadEnd, x)
      /\ \A i \in (f + 4)..(x - 1) : ~Occurs(Window, HeadEnd, i)
  <2>1. FieldsAt \in Nat
    BY <1>3, <1>4
  <2> QED
    BY <1>1, <1>4, <2>1, Delimiters, FindFromProperties
<1> HIDE DEF a, f, x
<1>6. Occurs(Sent(request), HeadEnd, Pos + x)
  BY <1>5, Delimiters, WindowOccurs
<1>7. /\ Occurs(Sent(request), HeadEnd, Pos + (f + 5)) /\ ~Occurs(Sent(request), HeadEnd, Pos + (f + 4))
  <2>1. Pos + (f + 5) = a + 5 /\ Pos + (f + 4) = a + 4
    BY <1>1, <1>3
  <2> QED
    BY <1>1, <2>1, HeadEndAt DEF a
<1>8. x # f + 4
  BY <1>6, <1>7
<1>9. Occurs(Window, HeadEnd, f + 5)
  <2>1. f + 5 \in Nat /\ Pos + (f + 5) + 4 <= Got
    BY <1>1, <1>3, <1>5, <1>8
  <2> QED
    BY <1>7, <2>1, Delimiters, WindowOccurs
<1>10. x = f + 5
  <2>1. f + 5 \notin (f + 4)..(x - 1)
    BY <1>5, <1>9
  <2> QED
    BY <1>3, <1>5, <1>8, <2>1
<1>11. Window[FieldsAt + 1] = PartName(request, k)
  <2>1. FieldsAt + 1 \in 1..Len(Window) /\ Pos + (FieldsAt + 1) = a + 5
    BY <1>1, <1>3, <1>4, <1>5, <1>10
  <2>2. Sent(request)[a + 5] = PartName(request, k)
    BY <1>1, FormHeads DEF a
  <2> QED
    BY <1>1, <2>1, <2>2
<1>12. x + 4 = DataAt(request, k) - Pos
  BY <1>1, <1>2, <1>3, <1>10
<1> QED
  BY <1>11, <1>12 DEF x

\* What precedes and begins each boundary but the first.
LEMMA BoundaryBytes ==
    ASSUME NEW r \in Requests, Encodes(r), NEW j \in 2..Len(r.at)
    PROVE  /\ r.at[j] \in Nat /\ r.at[j] - 1 \in Nat
           /\ Sent(r)[r.at[j] - 1] = CR /\ Sent(r)[r.at[j]] = LF /\ Sent(r)[r.at[j] + 1] = Dashes
<1>1. Len(r.at) \in Nat /\ j \in 1..Len(r.at) /\ 1 \in 1..(j - 1) /\ 1 \in 1..Len(r.at)
  BY FormPlaces
<1>2. r.at[j] \in Nat /\ r.at[1] + 11 <= r.at[j] /\ r.at[1] \in Nat
  BY <1>1, FormPlaces
<1>3. r.at[j] - 1 \in Nat
  BY <1>2
<1>4. Occurs(Sent(r), BoundaryStart, r.at[j])
  BY <1>1, <1>2, FormBoundaries
<1>5. Sent(r)[r.at[j] + 1] = Dashes
  <2>1. BoundaryStart \in Seq(Bytes) /\ 1 \in 1..Len(BoundaryStart) /\ BoundaryStart[1] = Dashes
    BY Delimiters DEF BoundaryStart
  <2>2. Sent(r) \in Seq(Bytes)
    BY SentProperties
  <2>3. \A i \in 1..Len(BoundaryStart) : Sent(r)[r.at[j] + i] = BoundaryStart[i]
    BY <1>2, <1>4, <2>1, <2>2, OccursBytes
  <2> QED
    BY <2>1, <2>3
<1> QED
  BY <1>2, <1>3, <1>5, FormEnds

\* In a window without a boundary there is no CR behind that of the next one.
LEMMA LastCR ==
    ASSUME IInv, Filled, FormPlaced, Encodes(request), ~reading, pc = "partData",
           ~Has(Window, BoundaryStart), NEW n \in Nat, Occurs(Window, <<CR>>, n),
           NEW j \in 2..Len(request.at), Pos + 2 <= request.at[j]
    PROVE  Pos + n + 2 <= request.at[j]
<1> DEFINE a == request.at[j]
           p == <<CR>>
<1>1. /\ request \in Requests /\ Pos \in Nat /\ Got \in Nat
  BY WindowSent
<1>2. /\ a \in Nat /\ Sent(request)[a] = LF /\ Sent(request)[a + 1] = Dashes
  BY <1>1, BoundaryBytes
<1>3. Got < a + 2
  <2>1. j \in 1..Len(request.at)
    BY <1>1, FormPlaces
  <2>2. a < Pos \/ Got < a + 2
    BY <2>1, BoundaryMissing
  <2> QED
    BY <1>1, <1>2, <2>2
<1>4. p \in Seq(Bytes) /\ Len(p) = 1 /\ p[1] = CR /\ 1 \in 1..1
  BY BytesAssumption
<1>5. Occurs(Window, p, n)
  OBVIOUS
<1> HIDE DEF p, a
<1>6. Occurs(Sent(request), p, Pos + n) /\ Pos + n + 1 <= Got
  BY <1>4, <1>5, WindowOccurs
<1>7. Sent(request)[(Pos + n) + 1] = CR
  <2>1. Sent(request) \in Seq(Bytes) /\ Pos + n \in Nat
    BY <1>1, SentProperties
  <2>2. \A i \in 1..Len(p) : Sent(request)[(Pos + n) + i] = p[i]
    BY <1>4, <1>6, <2>1, OccursBytes
  <2> QED
    BY <1>4, <2>2
<1>8. (Pos + n) + 1 # a /\ (Pos + n) + 1 # a + 1
  BY <1>2, <1>7 DEF CR, LF, Dashes
<1>9. Pos + n + 2 <= a
  BY <1>1, <1>2, <1>3, <1>6, <1>8
<1> QED
  BY <1>9 DEF a

\* When nothing of a window is kept back and it does not end before the next
\* boundary's CR LF, it ends with a boundary that lacks its last byte.
LEMMA NothingKept ==
    ASSUME IInv, Filled, FormPlaced, Encodes(request), ~reading, pc = "partData",
           ~Has(Window, BoundaryStart), \A n \in 0..Len(Window) : ~MaybeEnd(n),
           NEW j \in 2..Len(request.at), Pos + 2 <= request.at[j],
           ~(Got + 2 <= request.at[j])
    PROVE  EndsShort /\ Got = request.at[j] + 1
<1> DEFINE a == request.at[j]
           p == <<CR>>
           c == a - 2 - Pos
<1>1. /\ request \in Requests /\ Pos \in Nat /\ Got \in Nat /\ Pos <= Got
      /\ Got <= Len(Sent(request)) /\ Len(Sent(request)) \in Nat
      /\ Window \in Seq(Bytes) /\ Len(Window) = Got - Pos /\ Len(Window) \in Nat
  BY WindowSent
<1>2. /\ a \in Nat /\ Sent(request)[a - 1] = CR /\ Sent(request)[a] = LF
      /\ Sent(request)[a + 1] = Dashes
  BY <1>1, BoundaryBytes
<1>3. Got < a + 2
  <2>1. j \in 1..Len(request.at)
    BY <1>1, FormPlaces
  <2>2. a < Pos \/ Got < a + 2
    BY <2>1, BoundaryMissing
  <2> QED
    BY <1>1, <1>2, <2>2
<1>4. p \in Seq(Bytes) /\ Len(p) = 1 /\ p[1] = CR /\ \A i \in 1..1 : i = 1
  BY BytesAssumption
<1>5. ~(Got + 2 <= a)
  OBVIOUS
<1>6. Pos + 2 <= a
  OBVIOUS
<1> HIDE DEF p, a
<1>7. c \in Nat /\ c \in 0..Len(Window) /\ (Pos + c) + 1 = a - 1 /\ (Pos + c) + 2 = a
      /\ (Pos + c) + 3 = a + 1 /\ Pos + c + 1 <= Got /\ Pos + c \in Nat
  BY <1>1, <1>2, <1>5, <1>6
<1> HIDE DEF c
<1>8. Occurs(Window, p, c)
  <2>1. \A i \in 1..Len(p) : Sent(request)[(Pos + c) + i] = p[i]
    BY <1>2, <1>4, <1>7
  <2>2. Occurs(Sent(request), p, Pos + c)
    <3>1. Sent(request) \in Seq(Bytes) /\ (Pos + c) + Len(p) <= Len(Sent(request))
      BY <1>1, <1>4, <1>7, SentProperties
    <3> QED
      BY <1>4, <1>7, <2>1, <3>1, OccursBytes
  <2> QED
    BY <1>4, <1>7, <2>2, WindowOccurs
<1>9. Has(Window, p)
  BY <1>7, <1>8 DEF Has
<1> DEFINE n == FindLast(Window, p)
<1>10. n \in 0..Len(Window) /\ Occurs(Window, p, n) /\ \A k \in (n + 1)..Len(Window) : ~Occurs(Window, p, k)
  BY <1>1, <1>4, <1>9, FindLastProperties
<1>11. ~(n + 3 > Len(Window))
  <2>1. ~MaybeEnd(n)
    BY <1>10
  <2> QED
    BY <1>1, <1>9, <1>10, <2>1, Delimiters DEF MaybeEnd, p
<1> HIDE DEF n
<1>12. n = c
  <2>1. Pos + n + 2 <= a
    <3>1. n \in Nat
      BY <1>1, <1>10
    <3> QED
      BY <1>10, <3>1, LastCR DEF p, a
  <2>2. ~(c \in (n + 1)..Len(Window))
    BY <1>8, <1>10
  <2> QED
    BY <1>1, <1>2, <1>7, <1>10, <2>1, <2>2
<1>13. Got = a + 1 /\ c = Len(Window) - 3
  BY <1>1, <1>2, <1>3, <1>7, <1>11, <1>12
<1>14. EndsShort
  <2> DEFINE q == <<CR, LF, Dashes>>
  <2>1. /\ q \in Seq(Bytes) /\ Len(q) = 3 /\ q[1] = CR /\ q[2] = LF /\ q[3] = Dashes
        /\ \A i \in 1..3 : i = 1 \/ i = 2 \/ i = 3
    BY BytesAssumption
  <2> HIDE DEF q
  <2>2. \A i \in 1..Len(q) : Sent(request)[(Pos + c) + i] = q[i]
    BY <1>2, <1>7, <2>1
  <2>3. Sent(request) \in Seq(Bytes) /\ (Pos + c) + 3 <= Len(Sent(request))
    BY <1>1, <1>2, <1>7, <1>13, SentProperties
  <2>4. Occurs(Sent(request), q, Pos + c)
    BY <1>7, <2>1, <2>2, <2>3, OccursBytes
  <2>5. Pos + c + 3 <= Got
    BY <1>1, <1>2, <1>7, <1>13
  <2>6. Occurs(Window, q, c)
    BY <1>7, <2>1, <2>4, <2>5, WindowOccurs
  <2>7. Len(Window) - Len(q) = c
    BY <1>13, <2>1
  <2> QED
    BY <1>7, <2>6, <2>7 DEF EndsShort, q
<1> QED
  BY <1>13, <1>14 DEF a

\* The first boundary of a window that begins between two of them is the second.
LEMMA NextFound ==
    ASSUME IInv, Filled, FormPlaced, Encodes(request), ~reading,
           pc \in {"partHead", "partData"}, Has(Window, BoundaryStart),
           NEW k \in 1..Len(request.at), Pos <= request.at[k],
           \A j \in 1..(k - 1) : request.at[j] < Pos
    PROVE  request.at[k] = Pos + Find(Window, BoundaryStart) /\ request.at[k] + 2 <= Got
<1> DEFINE f == Find(Window, BoundaryStart)
           at == request.at
           m == Len(request.at)
<1>1. /\ request \in Requests /\ Pos \in Nat /\ Window \in Seq(Bytes)
  BY WindowSent
<1>2. f \in Nat
  BY <1>1, Delimiters, FindProperties
<1>3. PICK l \in 1..m :
          at[l] = Pos + f /\ at[l] + 2 <= Got /\ \A j \in 1..m : at[j] < Pos \/ at[l] <= at[j]
  BY BoundaryFound
<1>4. m \in Nat /\ \A j \in 1..m : at[j] \in Nat
  BY <1>1, FormPlaces
<1> HIDE DEF f
<1>5. at[l] <= at[k]
  BY <1>1, <1>3, <1>4
<1>6. ~(l < k)
  <2>1. SUFFICES ASSUME l < k PROVE FALSE
    OBVIOUS
  <2>2. l \in 1..(k - 1)
    BY <1>4, <2>1
  <2>3. at[l] < Pos /\ at[l] \in Nat
    BY <1>4, <2>2
  <2> QED
    BY <1>1, <1>2, <1>3, <2>3
<1>7. ~(k < l)
  <2>1. SUFFICES ASSUME k < l PROVE FALSE
    OBVIOUS
  <2>2. l \in 2..m /\ k \in 1..(l - 1)
    BY <1>4, <2>1
  <2>3. at[k] + 11 <= at[l] /\ at[k] \in Nat /\ at[l] \in Nat
    BY <1>1, <1>4, <2>2, FormPlaces
  <2> QED
    BY <1>5, <2>3
<1>8. l = k
  BY <1>4, <1>6, <1>7
<1> QED
  BY <1>3, <1>8 DEF f

-----------------------------------------------------------------------------
(* Where the window goes.                                                  *)

\* The head of a part is taken off the window.
LEMMA PartHeadMoves ==
    ASSUME IInv, Filled, FormPlaced, PartHead
    PROVE  LET size == FindFrom(Window, HeadEnd, FieldsAt) + 4 IN
           /\ size \in Nat /\ Pos' = Pos + size /\ Pos + size <= Got /\ Got' = Got
           /\ pc' = "partData" /\ request' = request /\ form' = form /\ mishaps' = mishaps
           /\ part' = Window[FieldsAt + 1]
           /\ reading' => Got = Pos + size
<1> DEFINE size == FindFrom(Window, HeadEnd, FieldsAt) + Len(HeadEnd)
<1>1. /\ pc = "partHead" /\ ~reading
      /\ Has(Window, BoundaryStart) /\ HasFrom(Window, HeadEnd, FieldsAt)
      /\ IF cur > size
           THEN start' = start + size /\ pc' = "partData" /\ cur' = cur /\ reading' = reading
           ELSE ReadAfresh("partData") /\ start' = 0
      /\ part' = Window[FieldsAt + 1] /\ request' = request /\ taken' = taken
      /\ form' = form /\ mishaps' = mishaps
  BY DEF PartHead, At
<1>2. /\ taken \in Nat /\ cur \in Nat /\ start \in Nat /\ start <= cur
      /\ Window \in Seq(Bytes) /\ Len(Window) = cur - start
  BY <1>1, FormFacts
<1>3. FieldsAt \in Nat
  <2>1. Find(Window, BoundaryStart) \in Nat
    BY <1>1, <1>2, Delimiters, FindProperties
  <2> QED
    BY <2>1, Delimiters DEF FieldsAt
<1>4. size \in Nat /\ size <= cur - start /\ size = FindFrom(Window, HeadEnd, FieldsAt) + 4
  <2> DEFINE x == FindFrom(Window, HeadEnd, FieldsAt)
  <2>1. HeadEnd \in Seq(Bytes) /\ Len(HeadEnd) = 4
    BY Delimiters
  <2>2. x \in Nat /\ x + Len(HeadEnd) <= Len(Window)
    BY <1>1, <1>2, <1>3, <2>1, FindFromProperties
  <2>3. size = x + 4
    BY <2>1
  <2> HIDE DEF x, size
  <2>4. size \in Nat /\ size <= cur - start
    BY <1>2, <2>1, <2>2, <2>3
  <2> QED
    BY <2>3, <2>4 DEF x
<1> HIDE DEF size
<1>5. /\ Pos \in Nat /\ Got \in Nat /\ Pos = Got - (cur - start)
      /\ Got' = Got /\ Pos' = Got - (cur' - start')
  BY <1>1, WindowSent DEF Pos, Got
<1>6. CASE cur > size
  <2>0. start' = start + size /\ cur' = cur
    BY <1>1, <1>6
  <2>1. Pos' = Pos + size /\ Pos + size <= Got
    <3>1. cur \in Nat /\ start \in Nat /\ size \in Nat /\ size <= cur - start
      BY <1>2, <1>4
    <3>2. Pos \in Nat /\ Got \in Nat /\ Pos = Got - (cur - start) /\ Pos' = Got - (cur - (start + size))
      BY <1>5, <2>0
    <3> QED
      BY ONLY <3>1, <3>2
  <2> QED
    BY <1>1, <1>4, <1>5, <1>6, <2>1
<1>7. CASE ~(cur > size)
  <2>1. pc' = "partData" /\ cur' = 0 /\ start' = 0
    BY <1>1, <1>7 DEF ReadAfresh
  <2>2. start = 0 /\ size = cur
    BY <1>2, <1>4, <1>7
  <2>3. Pos' = Got /\ Pos + size = Got
    BY <1>2, <1>5, <2>1, <2>2
  <2> QED
    BY <1>1, <1>4, <1>5, <2>1, <2>3
<1> QED
  BY <1>6, <1>7

\* The data of a part that ends are taken off, and if another part follows what
\* is left is its head.
LEMMA PartDataEndsMoves ==
    ASSUME IInv, Filled, FormPlaced, PartDataEnds
    PROVE  /\ PartEnd \in 0..Len(Window) /\ PartEnd + 2 = Find(Window, BoundaryStart)
           /\ Pos + PartEnd <= Got /\ Got' = Got
           /\ request' = request /\ reading' = FALSE /\ Record(PartEnd)
           /\ \/ pc' = "routed"
              \/ pc' = "partHead" /\ Pos' = Pos + PartEnd
<1>1. /\ pc = "partData" /\ ~reading /\ Has(Window, BoundaryStart) /\ PartEnd >= 0
      /\ Record(PartEnd)
      /\ \/ Route
         \/ /\ IF Len(buffers) = cur
                 THEN cur' = cur - (start + PartEnd) /\ start' = 0
                 ELSE start' = start + PartEnd /\ cur' = cur
            /\ pc' = "partHead" /\ reading' = reading
      /\ request' = request /\ taken' = taken
  BY DEF PartDataEnds, At
<1>2. /\ taken \in Nat /\ cur \in Nat /\ start \in Nat /\ start <= cur
      /\ Window \in Seq(Bytes) /\ Len(Window) = cur - start
  BY <1>1, FormFacts
<1>3. PartEnd \in 0..Len(Window) /\ PartEnd + 2 = Find(Window, BoundaryStart)
  <2>1. Find(Window, BoundaryStart) \in Nat /\ Find(Window, BoundaryStart) + 2 <= Len(Window)
    BY <1>1, <1>2, Delimiters, FindProperties
  <2>2. PartEnd = Find(Window, BoundaryStart) - 2
    BY DEF PartEnd
  <2> QED
    BY <1>1, <1>2, <2>1, <2>2
<1>4. /\ Pos \in Nat /\ Got \in Nat /\ Pos = Got - (cur - start)
      /\ Got' = Got /\ Pos' = Got - (cur' - start')
  BY <1>1, WindowSent DEF Pos, Got
<1>5. reading' = FALSE
  BY <1>1 DEF Route, IInv, TypeOK
<1>6. Pos + PartEnd <= Got
  BY <1>2, <1>3, <1>4
<1>7. CASE Route
  BY <1>1, <1>3, <1>4, <1>5, <1>6, <1>7 DEF Route
<1>8. CASE /\ pc' = "partHead"
           /\ \/ cur' = cur - (start + PartEnd) /\ start' = 0
              \/ start' = start + PartEnd /\ cur' = cur
  <2>1. Pos' = Pos + PartEnd
    BY <1>2, <1>3, <1>4, <1>8
  <2> QED
    BY <1>1, <1>3, <1>4, <1>5, <1>6, <1>8, <2>1
<1> QED
  BY <1>1, <1>7, <1>8

\* What cannot belong to a boundary is taken off ...
LEMMA PartDataMayEndMoves ==
    ASSUME IInv, Filled, FormPlaced, PartDataMayEnd
    PROVE  /\ pc = "partData" /\ ~reading /\ ~Has(Window, BoundaryStart)
           /\ Got' = Got /\ request' = request /\ part' = part /\ mishaps' = mishaps
           /\ pc' \in {"partData", "tooLarge"}
           /\ \E n \in 0..Len(Window) :
                  MaybeEnd(n) /\ Record(n) /\ Pos' = Pos + n /\ Pos + n <= Got
<1>1. /\ pc = "partData" /\ ~reading /\ ~Has(Window, BoundaryStart)
      /\ start' = 0 /\ request' = request /\ taken' = taken /\ part' = part /\ mishaps' = mishaps
  BY DEF PartDataMayEnd, At
<1>2. PICK n \in 0..Len(Window) :
          /\ MaybeEnd(n) /\ Record(n)
          /\ ReadMore(Forwarded(buffers, start + n, cur), cur - (start + n), "partData", TRUE)
  BY DEF PartDataMayEnd
<1>3. /\ taken \in Nat /\ cur \in Nat /\ start \in Nat /\ start <= cur
      /\ Len(Window) = cur - start
  BY <1>1, FormFacts
<1>4. /\ Pos \in Nat /\ Got \in Nat /\ Pos = Got - (cur - start)
      /\ Got' = Got /\ Pos' = Got - (cur' - start')
  BY <1>1, WindowSent DEF Pos, Got
<1>5. cur' = cur - (start + n) /\ pc' \in {"partData", "tooLarge"}
  BY <1>2 DEF ReadMore
<1>6. Pos' = Pos + n /\ Pos + n <= Got
  BY <1>1, <1>3, <1>4, <1>5
<1> QED
  BY <1>1, <1>2, <1>4, <1>5, <1>6

\* ... or all of the window.
LEMMA PartDataGoesOnMoves ==
    ASSUME IInv, Filled, FormPlaced, PartDataGoesOn
    PROVE  /\ pc = "partData" /\ ~reading /\ ~Has(Window, BoundaryStart)
           /\ \A n \in 0..Len(Window) : ~MaybeEnd(n)
           /\ Got' = Got /\ request' = request /\ part' = part
           /\ mishaps' = IF EndsShort THEN mishaps \cup {"swallowed"} ELSE mishaps
           /\ pc' \in {"partData", "tooLarge"}
           /\ Record(Len(Window)) /\ Pos' = Got /\ Pos + Len(Window) = Got
<1>1. /\ pc = "partData" /\ ~reading /\ ~Has(Window, BoundaryStart)
      /\ \A n \in 0..Len(Window) : ~MaybeEnd(n)
      /\ start' = 0 /\ request' = request /\ taken' = taken /\ part' = part
      /\ mishaps' = IF EndsShort THEN mishaps \cup {"swallowed"} ELSE mishaps
      /\ Record(Len(Window)) /\ ReadMore(<<>>, 0, "partData", TRUE)
  BY DEF PartDataGoesOn, At
<1>2. /\ Pos \in Nat /\ Got \in Nat /\ Len(Window) = Got - Pos
      /\ Got' = Got /\ Pos' = Got - (cur' - start')
  BY <1>1, WindowSent DEF Pos, Got
<1>3. cur' = 0 /\ pc' \in {"partData", "tooLarge"}
  BY <1>1 DEF ReadMore
<1>4. Pos' = Got /\ Pos + Len(Window) = Got
  BY <1>1, <1>2, <1>3
<1> QED
  BY <1>1, <1>2, <1>3, <1>4

\* The first n bytes of the window are the next of the part.
LEMMA RecordStep ==
    ASSUME IInv, Filled, FormPlaced, Encodes(request), ~reading, pc = "partData",
           NEW k \in 1..(Len(request.at) - 1), DataNext(k), NEW n \in 0..Len(Window),
           Record(n), Pos + n <= Len(request.body), request' = request,
           NEW data, data = SubSeq(request.body, DataAt(request, k) + 1, Pos + n)
    PROVE  Recorded(k, data)'
<1> DEFINE r == request
           d == DataAt(r, k)
           before == SubSeq(r.body, d + 1, Pos)
           new == SubSeq(r.body, Pos + 1, Pos + n)
<1>1. /\ r \in Requests /\ Pos \in Nat /\ Got \in Nat /\ Window \in Seq(Bytes) /\ Len(Window) \in Nat
      /\ \A i \in 1..Len(Window) : Window[i] = Sent(r)[Pos + i]
  BY WindowSent
<1>2. r.body \in Seq(Bytes) /\ Len(r.body) \in Nat /\ \A i \in 1..Len(r.body) : Sent(r)[i] = r.body[i]
  BY <1>1, StreamProperties, SentProperties
<1>3. d \in Nat /\ d <= Pos /\ n \in Nat /\ n <= Len(Window)
  <2>1. k \in 1..Len(r.at)
    BY <1>1, FormPlaces
  <2>2. r.at[k] \in Nat /\ d = r.at[k] + 9
    BY <1>1, <2>1, FormPlaces
  <2> QED
    BY <1>1, <2>2 DEF DataNext
<1> HIDE DEF d
<1>4. SubSeq(Window, 1, n) = new
  <2> DEFINE w == SubSeq(Window, 1, n)
  <2>1. w \in Seq(Bytes) /\ Len(w) = n /\ \A i \in 1..n : w[i] = Window[i]
    BY <1>1, FirstProperties
  <2>2. new \in Seq(Bytes) /\ Len(new) = n /\ \A i \in 1..n : new[i] = r.body[Pos + i]
    <3>1. new = [i \in 1..n |-> r.body[Pos + i]]
      BY <1>1, <1>2, <1>3
    <3>2. ASSUME NEW i \in 1..n PROVE r.body[Pos + i] \in Bytes
      BY <1>1, <1>2, <1>3
    <3>3. [i \in 1..n |-> r.body[Pos + i]] \in [1..n -> Bytes]
      BY <3>2
    <3> QED
      BY <1>3, <3>1, <3>3, FunctionIsSeq
  <2>3. ASSUME NEW i \in 1..n PROVE w[i] = new[i]
    <3>1. i \in 1..Len(Window) /\ Pos + i \in 1..Len(r.body)
      BY <1>1, <1>2, <1>3
    <3> HIDE DEF w, new
    <3> QED
      BY <1>1, <1>2, <2>1, <2>2, <3>1
  <2> HIDE DEF w, new
  <2>4. w = new
    BY <2>1, <2>2, <2>3, SeqEqual
  <2> QED
    BY <2>4 DEF w
<1>5. before \o new = data
  <2>1. d <= Pos /\ Pos \in Nat /\ Pos + n \in Nat /\ Pos <= Pos + n /\ Pos + n <= Len(r.body)
    BY <1>1, <1>3
  <2> QED
    BY <1>2, <1>3, <2>1, JoinedPieces DEF d
<1>6. /\ part = PartName(r, k) /\ PartName(r, k) \in Names
      /\ form = [x \in Names |->
                   IF x = PartName(r, k) THEN before
                   ELSE IF \E j \in 1..(k - 1) : x = PartName(r, j) THEN r.parts[x] ELSE <<>>]
  <2>1. PartName(r, k) \in Names
    BY <1>1, FormHeads
  <2> QED
    BY <2>1 DEF DataNext, Recorded, d
<1>7. form' = [form EXCEPT ![part] = form[part] \o new]
  BY <1>4 DEF Record
<1> HIDE DEF before, new
<1>8. form' = [x \in Names |->
                 IF x = PartName(r, k) THEN data
                 ELSE IF \E j \in 1..(k - 1) : x = PartName(r, j) THEN r.parts[x] ELSE <<>>]
  BY <1>5, <1>6, <1>7
<1> QED
  BY <1>8 DEF Recorded, PartName

\* Where a boundary may have begun there is a CR.
LEMMA MaybeEndAt ==
    ASSUME Window \in Seq(Bytes), NEW n, MaybeEnd(n)
    PROVE  n \in Nat /\ Occurs(Window, <<CR>>, n)
<1> DEFINE p == <<CR>>
<1>1. p \in Seq(Bytes)
  BY BytesAssumption
<1>2. Has(Window, p) /\ n = FindLast(Window, p) /\ Len(Window) \in Nat
  BY DEF MaybeEnd
<1> HIDE DEF p
<1>3. n \in 0..Len(Window) /\ Occurs(Window, p, n)
  BY <1>1, <1>2, FindLastProperties
<1> QED
  BY <1>2, <1>3 DEF p

-----------------------------------------------------------------------------
(* The invariant of the body, part by part.                                *)

\* The parts of IInv that the steps below start from.
LEMMA BodyFacts ==
    ASSUME IInv
    PROVE  /\ request \in Requests /\ taken \in Nat /\ cur \in Nat /\ start \in Nat /\ start <= cur
           /\ left \in Nat /\ expand \in Nat /\ request.header \in Nat \ {0}
           /\ request.body \in Seq(Bytes) /\ Len(request.body) \in Nat
           /\ reading \in BOOLEAN /\ content \in Seq(Bytes) /\ Len(content) \in Nat
           /\ Len(Stream(request)) \in Nat /\ Len(buffers) \in Nat
<1>1. TypeOK /\ Started
  BY DEF IInv
<1>2. /\ request \in Requests /\ taken \in Nat /\ cur \in Nat /\ start \in Nat /\ start <= cur
      /\ left \in Nat /\ expand \in Nat /\ reading \in BOOLEAN /\ content \in Seq(Bytes)
      /\ buffers \in Seq(Bytes)
  BY <1>1, SizesAssumption DEF TypeOK, Started
<1> QED
  BY <1>2, StreamProperties

\* A read that completes leaves the window where it is.
LEMMA ReceiveMoves ==
    ASSUME IInv, NEW n \in 0..MaxSize, Receive(n), pc \in {"partHead", "partData"}
    PROVE  /\ Pos' = Pos /\ Got' = Got + n /\ reading' = FALSE /\ pc' = pc /\ request' = request
           /\ form' = form /\ part' = part
           /\ mishaps' \cap {"swallowed", "cutEnd"} = mishaps \cap {"swallowed", "cutEnd"}
<1>1. /\ taken' = taken + n /\ cur' = cur + n /\ reading' = FALSE /\ pc' = pc /\ request' = request
      /\ start' = start /\ form' = form /\ part' = part
      /\ mishaps' = IF n < left THEN mishaps \cup {"shortRead"} ELSE mishaps
  BY DEF Receive
<1>2. taken \in Nat /\ cur \in Nat /\ start \in Nat /\ request.header \in Nat /\ n \in Nat
  BY BodyFacts, SizesAssumption
<1>3. Pos' = Pos /\ Got' = Got + n
  BY <1>1, <1>2 DEF Pos, Got
<1> QED
  BY <1>1, <1>3

\* A form begins with the first byte of the body.
LEMMA PreprocessMultipartMoves ==
    ASSUME IInv, PreprocessMultipart
    PROVE  /\ Pos' = 0 /\ pc' = "partHead" /\ request' = request /\ form' = form
           /\ pc = "header" /\ reading' = FALSE /\ request.kind = "multipart"
<1>1. /\ HeaderRead /\ FormBegins /\ pc' = "partHead" /\ request' = request /\ taken' = taken
      /\ form' = form /\ reading' = reading /\ request.kind = "multipart"
  BY DEF PreprocessMultipart, bodyVars
<1>2. /\ pc = "header" /\ ~reading /\ cur = taken /\ request.header \in Nat /\ cur \in Nat
      /\ request.header <= cur
  BY <1>1, HeaderFacts
<1>3. reading' = FALSE
  BY <1>1, <1>2, BodyFacts
<1>4. Pos' = (taken - request.header) - (cur' - start')
  BY <1>1 DEF Pos, Got
<1>5. Pos' = 0
  <2>1. CASE cur > request.header
    <3>1. start' = request.header /\ cur' = cur
      BY <1>1, <2>1 DEF FormBegins
    <3> QED
      BY <1>2, <1>4, <3>1
  <2>2. CASE ~(cur > request.header)
    <3>1. start' = 0 /\ cur' = 0 /\ taken = request.header
      BY <1>1, <1>2, <2>2 DEF FormBegins
    <3> QED
      BY <1>2, <1>4, <3>1
  <2> QED
    BY <2>1, <2>2
<1> QED
  BY <1>1, <1>2, <1>3, <1>5

\* A head that is not whole stays.
LEMMA PartHeadIncompleteMoves ==
    ASSUME IInv, PartHeadIncomplete
    PROVE  /\ pc = "partHead" /\ ~reading /\ ~(Has(Window, BoundaryStart) /\ Has(Window, HeadEnd))
           /\ Pos' = Pos /\ Got' = Got /\ pc' \in {"partHead", "tooLarge"} /\ request' = request
           /\ form' = form /\ mishaps' = mishaps
<1>1. /\ pc = "partHead" /\ ~reading /\ ~(Has(Window, BoundaryStart) /\ Has(Window, HeadEnd))
      /\ ReadMore(buffers, cur, "partHead", FALSE)
      /\ request' = request /\ taken' = taken /\ start' = start /\ form' = form /\ mishaps' = mishaps
  BY DEF PartHeadIncomplete, At, bodyVars
<1>2. cur' = cur /\ pc' \in {"partHead", "tooLarge"}
  BY <1>1 DEF ReadMore
<1>3. Pos' = Pos /\ Got' = Got
  BY <1>1, <1>2 DEF Pos, Got
<1> QED
  BY <1>1, <1>2, <1>3

\* The other steps do not lead to the handlers of a form.
FormSteps ==
    \/ \E n \in 0..MaxSize : Receive(n)
    \/ PreprocessMultipart \/ PartHeadIncomplete \/ PartHead
    \/ PartDataEnds \/ PartDataMayEnd \/ PartDataGoesOn

LEMMA OtherSteps ==
    ASSUME IInv, Next, ~FormSteps
    PROVE  /\ pc' \notin {"partHead", "partData"}
           /\ pc' = "header" => pc = "header" /\ form' = form
<1>1. CASE ReadFails
  BY <1>1 DEF ReadFails
<1>2. CASE HeaderIncomplete
  BY <1>2 DEF HeaderIncomplete, At, bodyVars
<1>3. CASE HeaderRefused
  BY <1>3 DEF HeaderRefused
<1>4. CASE RouteBare
  BY <1>4 DEF RouteBare, Route
<1>5. CASE PreprocessBody
  BY <1>5 DEF PreprocessBody, ReadMore, Route
<1>6. CASE PreprocessBodyAfresh
  BY <1>6 DEF PreprocessBodyAfresh, ReadAfresh
<1>7. CASE ProcessBody
  BY <1>7 DEF ProcessBody, ReadMore, Route
<1>8. CASE PreprocessOctStream
  BY <1>8 DEF PreprocessOctStream, Route
<1>9. CASE ProcessOctStream
  BY <1>9 DEF ProcessOctStream, ReadMore, Route
<1>10. CASE PartHeadDropped
  BY <1>10 DEF PartHeadDropped
<1> QED
  BY <1>1, <1>2, <1>3, <1>4, <1>5, <1>6, <1>7, <1>8, <1>9, <1>10 DEF Next, FormSteps

\* A form is read from its first byte on.
LEMMA FormPlacedStep ==
    ASSUME IInv, Filled, FormPlaced, Next
    PROVE  FormPlaced'
<1>1. ASSUME NEW n \in 0..MaxSize, Receive(n) PROVE FormPlaced'
  <2>1. pc' = pc /\ request' = request /\ form' = form
    BY <1>1 DEF Receive
  <2>2. CASE pc \in {"partHead", "partData"}
    BY <1>1, <2>1, <2>2, ReceiveMoves DEF FormPlaced
  <2>3. CASE pc \notin {"partHead", "partData"}
    BY <2>1, <2>3 DEF FormPlaced
  <2> QED
    BY <2>2, <2>3
<1>2. CASE PreprocessMultipart
  BY <1>2, PreprocessMultipartMoves DEF FormPlaced
<1>3. CASE PartHeadIncomplete
  BY <1>3, PartHeadIncompleteMoves DEF FormPlaced
<1>4. CASE PartHead
  <2>1. pc = "partHead" /\ ~reading
    BY <1>4 DEF PartHead, At
  <2>2. Pos \in Nat /\ request.kind = "multipart"
    BY <2>1, WindowSent DEF FormPlaced
  <2> DEFINE size == FindFrom(Window, HeadEnd, FieldsAt) + 4
  <2>3. size \in Nat /\ Pos' = Pos + size /\ pc' = "partData" /\ request' = request
    BY <1>4, PartHeadMoves
  <2> HIDE DEF size
  <2> QED
    BY <2>2, <2>3 DEF FormPlaced
<1>5. CASE PartDataEnds
  <2>1. pc = "partData" /\ ~reading
    BY <1>5 DEF PartDataEnds, At
  <2>2. Pos \in Nat /\ request.kind = "multipart"
    BY <2>1, WindowSent DEF FormPlaced
  <2>3. /\ PartEnd \in Nat /\ request' = request
        /\ \/ pc' = "routed"
           \/ pc' = "partHead" /\ Pos' = Pos + PartEnd
    <3>1. Len(Window) \in Nat
      BY <2>1, WindowSent
    <3> QED
      BY <1>5, <3>1, PartDataEndsMoves
  <2> QED
    BY <2>2, <2>3 DEF FormPlaced
<1>6. CASE PartDataMayEnd
  <2>1. pc = "partData" /\ ~reading /\ request' = request /\ pc' \in {"partData", "tooLarge"}
    BY <1>6, PartDataMayEndMoves
  <2>2. Pos \in Nat /\ request.kind = "multipart" /\ Len(Window) \in Nat
    BY <2>1, WindowSent DEF FormPlaced
  <2>3. PICK n \in 0..Len(Window) : Pos' = Pos + n
    BY <1>6, PartDataMayEndMoves
  <2> QED
    BY <2>1, <2>2, <2>3 DEF FormPlaced
<1>7. CASE PartDataGoesOn
  <2>1. pc = "partData" /\ ~reading /\ request' = request /\ pc' \in {"partData", "tooLarge"}
        /\ Pos' = Got
    BY <1>7, PartDataGoesOnMoves
  <2>2. Got \in Nat /\ request.kind = "multipart"
    BY <2>1, WindowSent DEF FormPlaced
  <2> QED
    BY <2>1, <2>2 DEF FormPlaced
<1>8. CASE ~FormSteps
  BY <1>8, OtherSteps DEF FormPlaced
<1> QED
  BY <1>1, <1>2, <1>3, <1>4, <1>5, <1>6, <1>7, <1>8 DEF FormSteps

\* The next boundary is ahead, with its CR LF, or it is behind.
LEMMA FormApartStep ==
    ASSUME IInv, Filled, FormPlaced, FormApart, Next
    PROVE  FormApart'
<1> SUFFICES ASSUME pc' = "partData", Encodes(request')
             PROVE  FormApart'
  BY DEF FormApart
<1>1. ASSUME NEW n \in 0..MaxSize, Receive(n) PROVE FormApart'
  <2>1. pc' = pc
    BY <1>1 DEF Receive
  <2> QED
    BY <1>1, <2>1, ReceiveMoves DEF FormApart
<1>2. CASE PartHead
  <2> DEFINE at == request.at
             m == Len(request.at)
             f == Find(Window, BoundaryStart)
             size == FindFrom(Window, HeadEnd, FieldsAt) + 4
  <2>1. /\ pc = "partHead" /\ ~reading /\ Has(Window, BoundaryStart)
        /\ HasFrom(Window, HeadEnd, FieldsAt)
    BY <1>2 DEF PartHead, At
  <2>2. size \in Nat /\ Pos' = Pos + size /\ request' = request
    BY <1>2, PartHeadMoves
  <2>3. Encodes(request) /\ request \in Requests /\ Pos \in Nat /\ Window \in Seq(Bytes)
    BY <2>1, <2>2, WindowSent
  <2>4. m \in Nat /\ 1 < m /\ \A j \in 1..m : at[j] \in Nat /\ DataAt(request, j) = at[j] + 9
    BY <2>3, FormPlaces
  <2>5. PICK k \in 1..m : at[k] = Pos + f
    BY <2>1, <2>3, BoundaryFound
  <2>6. f \in Nat
    BY <2>1, <2>3, Delimiters, FindProperties
  <2>7. at[k] + 8 <= Pos' /\ Pos' \in Nat
    <3>1. FieldsAt = f + 4
      BY <2>6, Delimiters DEF FieldsAt
    <3>2. f + 4 <= FindFrom(Window, HeadEnd, FieldsAt) /\ FindFrom(Window, HeadEnd, FieldsAt) \in Nat
      BY <2>1, <2>3, <2>6, <3>1, Delimiters, FindFromProperties
    <3> HIDE DEF f
    <3> QED
      BY <2>2, <2>3, <2>5, <2>6, <3>2
  <2>8. ASSUME k # m PROVE Pos' = at[k] + 9
    <3>1. k \in 1..(m - 1)
      BY <2>4, <2>8
    <3>2. size = DataAt(request, k) - Pos
      BY <2>1, <2>3, <2>5, <3>1, HeadFound
    <3>3. DataAt(request, k) = at[k] + 9 /\ at[k] \in Nat
      BY <2>4
    <3> HIDE DEF size
    <3> QED
      BY <2>2, <2>3, <3>2, <3>3
  <2> HIDE DEF size, f
  <2>9. ASSUME NEW j \in 1..k PROVE at[j] < Pos'
    <3>1. CASE j = k
      BY <2>4, <2>7, <3>1
    <3>2. CASE j # k
      <4>1. k \in 2..m /\ j \in 1..(k - 1)
        BY <2>4, <2>9, <3>2
      <4>2. at[j] + 11 <= at[k] /\ at[j] \in Nat /\ at[k] \in Nat
        BY <2>3, <2>4, <4>1, FormPlaces
      <4> QED
        BY <2>7, <4>2
    <3> QED
      BY <3>1, <3>2
  <2>10. ASSUME NEW j \in (k + 1)..m PROVE Pos' + 2 <= at[j]
    <3>1. k # m /\ j \in 2..m /\ k \in 1..(j - 1)
      BY <2>4, <2>10
    <3>2. at[k] + 11 <= at[j] /\ at[k] \in Nat /\ at[j] \in Nat
      BY <2>3, <2>4, <3>1, FormPlaces
    <3> QED
      BY <2>8, <3>1, <3>2
  <2>11. at[1] < Pos'
    BY <2>4, <2>9
  <2>12. \A j \in 2..m : j \in 1..k \/ j \in (k + 1)..m
    BY <2>4
  <2> QED
    BY <2>2, <2>9, <2>10, <2>11, <2>12 DEF FormApart
<1>3. CASE PartDataMayEnd
  <2>1. /\ pc = "partData" /\ ~reading /\ ~Has(Window, BoundaryStart) /\ request' = request
    BY <1>3, PartDataMayEndMoves
  <2>2. PICK n \in 0..Len(Window) : MaybeEnd(n) /\ Pos' = Pos + n
    BY <1>3, PartDataMayEndMoves
  <2>3. /\ Encodes(request) /\ request \in Requests /\ Pos \in Nat
        /\ Window \in Seq(Bytes) /\ Len(Window) \in Nat
    BY <2>1, WindowSent
  <2>4. n \in Nat /\ Occurs(Window, <<CR>>, n)
    BY <2>2, <2>3, MaybeEndAt
  <2>5. ASSUME NEW j \in 2..Len(request.at) PROVE request.at[j] < Pos' \/ Pos' + 2 <= request.at[j]
    <3>1. request.at[j] \in Nat
      BY <2>3, BoundaryBytes
    <3>2. CASE request.at[j] < Pos
      BY <2>2, <2>3, <2>4, <3>1, <3>2
    <3>3. CASE Pos + 2 <= request.at[j]
      BY <2>1, <2>2, <2>3, <2>4, <3>3, LastCR
    <3> QED
      BY <2>1, <2>3, <3>2, <3>3 DEF FormApart
  <2>6. request.at[1] < Pos'
    <3>1. request.at[1] < Pos /\ request.at[1] \in Nat
      BY <2>1, <2>3, FormPlaces DEF FormApart
    <3> QED
      BY <2>2, <2>3, <2>4, <3>1
  <2> QED
    BY <2>1, <2>5, <2>6 DEF FormApart
<1>4. CASE PartDataGoesOn
  <2>1. /\ pc = "partData" /\ ~reading /\ ~Has(Window, BoundaryStart) /\ request' = request
        /\ \A n \in 0..Len(Window) : ~MaybeEnd(n)
        /\ Pos' = Got
    BY <1>4, PartDataGoesOnMoves
  <2>2. Encodes(request) /\ request \in Requests /\ Pos \in Nat /\ Got \in Nat /\ Pos <= Got
    BY <2>1, WindowSent
  <2>3. ASSUME NEW j \in 2..Len(request.at) PROVE request.at[j] < Got \/ Got + 2 <= request.at[j]
    <3>1. request.at[j] \in Nat
      BY <2>2, BoundaryBytes
    <3>2. CASE request.at[j] < Pos
      BY <2>2, <3>1, <3>2
    <3>3. CASE Pos + 2 <= request.at[j] /\ ~(Got + 2 <= request.at[j])
      <4>1. Got = request.at[j] + 1
        BY <2>1, <2>2, <3>3, NothingKept
      <4> QED
        BY <3>1, <4>1
    <3> QED
      BY <2>1, <2>2, <3>2, <3>3 DEF FormApart
  <2>4. request.at[1] < Got
    <3>1. request.at[1] < Pos /\ request.at[1] \in Nat
      BY <2>1, <2>2, FormPlaces DEF FormApart
    <3> QED
      BY <2>2, <3>1
  <2> QED
    BY <2>1, <2>3, <2>4 DEF FormApart
<1>5. CASE PreprocessMultipart
  BY <1>5, PreprocessMultipartMoves
<1>6. CASE PartHeadIncomplete
  BY <1>6, PartHeadIncompleteMoves
<1>7. CASE PartDataEnds
  BY <1>7, PartDataEndsMoves
<1>8. CASE ~FormSteps
  BY <1>8, OtherSteps
<1> QED
  BY <1>1, <1>2, <1>3, <1>4, <1>5, <1>6, <1>7, <1>8 DEF FormSteps

\* The numbers of a part and of the boundary behind it.
LEMMA PartPlaces ==
    ASSUME NEW r \in Requests, Encodes(r), NEW k \in 1..(Len(r.at) - 1)
    PROVE  /\ k \in 1..Len(r.at) /\ k + 1 \in 2..Len(r.at) /\ k + 1 \in 1..Len(r.at) /\ k \in Nat
           /\ r.at[k] \in Nat /\ r.at[k + 1] \in Nat /\ DataAt(r, k) = r.at[k] + 9
           /\ DataAt(r, k) + 2 <= r.at[k + 1] /\ r.at[k + 1] + 3 <= Len(r.body)
           /\ Len(r.body) \in Nat
           /\ \A j \in 1..(k - 1) : r.at[j] + 11 <= r.at[k] /\ r.at[j] \in Nat
<1>1. Len(r.at) \in Nat /\ Len(r.body) \in Nat
  BY FormPlaces, SentProperties
<1>2. k \in 1..Len(r.at) /\ k + 1 \in 2..Len(r.at) /\ k + 1 \in 1..Len(r.at) /\ k \in 1..((k + 1) - 1)
  BY <1>1
<1>3. /\ r.at[k] \in Nat /\ r.at[k + 1] \in Nat /\ DataAt(r, k) = r.at[k] + 9
      /\ r.at[k] + 11 <= r.at[k + 1] /\ r.at[k + 1] + 3 <= Len(r.body)
  BY <1>2, FormPlaces
<1>4. ASSUME NEW j \in 1..(k - 1) PROVE r.at[j] + 11 <= r.at[k] /\ r.at[j] \in Nat
  <2>1. k \in 2..Len(r.at) /\ j \in 1..Len(r.at)
    BY <1>1, <1>4
  <2> QED
    BY <2>1, FormPlaces
<1>5. DataAt(r, k) + 2 <= r.at[k + 1]
  BY <1>3
<1> QED
  BY <1>1, <1>2, <1>3, <1>4, <1>5

\* A part's head is read: its data begin.
LEMMA HeadThenData ==
    ASSUME IInv, Filled, FormPlaced, PartHead, Encodes(request),
           NEW k \in 1..(Len(request.at) - 1), HeadNext(k)
    PROVE  DataNext(k)'
<1> DEFINE at == request.at
           d == DataAt(request, k)
           size == FindFrom(Window, HeadEnd, FieldsAt) + 4
<1>1. /\ pc = "partHead" /\ ~reading /\ Has(Window, BoundaryStart)
      /\ HasFrom(Window, HeadEnd, FieldsAt)
  BY DEF PartHead, At
<1>2. /\ request \in Requests /\ Pos \in Nat /\ Got \in Nat
  BY <1>1, WindowSent
<1>3. /\ k \in 1..Len(at) /\ k \in Nat /\ at[k] \in Nat /\ at[k + 1] \in Nat /\ d = at[k] + 9
      /\ d + 2 <= at[k + 1]
      /\ \A j \in 1..(k - 1) : at[j] + 11 <= at[k] /\ at[j] \in Nat
  BY <1>2, PartPlaces
<1> HIDE DEF d
<1>4. Pos = IF k = 1 THEN 0 ELSE at[k] - 2
  BY DEF HeadNext
<1>5. Pos <= at[k] /\ \A j \in 1..(k - 1) : at[j] < Pos
  <2>1. CASE k = 1
    BY <1>3, <1>4, <2>1
  <2>2. CASE k # 1
    <3>1. Pos = at[k] - 2
      BY <1>4, <2>2
    <3>2. Pos <= at[k]
      BY ONLY <1>3, <3>1
    <3>3. ASSUME NEW j \in 1..(k - 1) PROVE at[j] < Pos
      <4>1. at[j] + 11 <= at[k] /\ at[j] \in Nat
        BY <1>3, <3>3
      <4>2. ASSUME NEW a \in Nat, NEW b \in Nat, NEW p, a + 11 <= b, p = b - 2 PROVE a < p
        BY ONLY <4>2
      <4> QED
        BY <1>3, <3>1, <4>1, <4>2
    <3> QED
      BY <3>2, <3>3
  <2> QED
    BY <2>1, <2>2
<1>6. at[k] = Pos + Find(Window, BoundaryStart)
  BY <1>1, <1>3, <1>5, NextFound
<1>7. size = d - Pos /\ Window[FieldsAt + 1] = PartName(request, k)
  BY <1>1, <1>6, HeadFound DEF d
<1>8. /\ size \in Nat /\ Pos' = Pos + size /\ Got' = Got /\ request' = request /\ form' = form
      /\ part' = Window[FieldsAt + 1] /\ (reading' => Got = Pos + size)
  BY PartHeadMoves
<1> HIDE DEF size
<1>9. Pos' = d /\ (reading' => Got = d)
  BY <1>2, <1>3, <1>7, <1>8
<1>10. SubSeq(request.body, d + 1, Pos') = <<>>
  BY <1>3, <1>9, SubSeqEmpty
<1>11. Recorded(k, SubSeq(request.body, d + 1, Pos))'
  <2>1. Recorded(k, <<>>)
    BY DEF HeadNext
  <2>2. form = [n \in Names |->
                  IF n = PartName(request, k) THEN <<>>
                  ELSE IF \E j \in 1..(k - 1) : n = PartName(request, j) THEN request.parts[n] ELSE <<>>]
    BY <2>1 DEF Recorded
  <2> DEFINE data == SubSeq(request'.body, DataAt(request', k) + 1, Pos')
  <2>3. data = <<>>
    BY <1>8, <1>10 DEF d
  <2> HIDE DEF data
  <2>4. form' = [n \in Names |->
                  IF n = PartName(request', k) THEN data
                  ELSE IF \E j \in 1..(k - 1) : n = PartName(request', j) THEN request'.parts[n] ELSE <<>>]
    BY <1>8, <2>2, <2>3
  <2> QED
    BY <1>8, <2>4 DEF Recorded, PartName, DataAt, data, d
<1>12. DataAt(request', k) = d /\ PartName(request', k) = PartName(request, k)
  BY <1>8 DEF d
<1>13. /\ part' = PartName(request', k)
       /\ DataAt(request', k) <= Pos' /\ Pos' + 2 <= request'.at[k + 1]
  BY <1>3, <1>7, <1>8, <1>9, <1>12
<1>14. reading' => Got' < request'.at[k + 1] + Len(BoundaryStart)
  BY <1>3, <1>8, <1>9, Delimiters
<1> QED
  <2>1. Recorded(k, SubSeq(request.body, DataAt(request, k) + 1, Pos))'
    BY <1>8, <1>11 DEF d, DataAt, Recorded
  <2> QED
    BY <1>8, <1>9, <2>1, <1>12, <1>13, <1>14 DEF DataNext, PartName, DataAt

\* The window shows the boundary behind the part.
LEMMA DataEnds ==
    ASSUME IInv, Filled, FormPlaced, ~reading, pc = "partData", Has(Window, BoundaryStart),
           Encodes(request), NEW k \in 1..(Len(request.at) - 1), DataNext(k)
    PROVE  request.at[k + 1] = Pos + Find(Window, BoundaryStart)
<1>1. request \in Requests /\ Pos \in Nat
  BY WindowSent
<1>2. /\ k + 1 \in 1..Len(request.at) /\ k \in Nat /\ request.at[k] \in Nat
      /\ request.at[k + 1] \in Nat /\ DataAt(request, k) = request.at[k] + 9
      /\ \A j \in 1..(k - 1) : request.at[j] + 11 <= request.at[k] /\ request.at[j] \in Nat
  BY <1>1, PartPlaces
<1>3. DataAt(request, k) <= Pos /\ Pos + 2 <= request.at[k + 1]
  BY DEF DataNext
<1>4. ASSUME NEW j \in 1..((k + 1) - 1) PROVE request.at[j] < Pos
  <2>1. CASE j = k
    BY <1>1, <1>2, <1>3, <2>1
  <2>2. CASE j # k
    <3>1. j \in 1..(k - 1)
      BY <1>2, <1>4, <2>2
    <3>2. request.at[j] + 11 <= request.at[k] /\ request.at[j] \in Nat
      BY <1>2, <3>1
    <3> QED
      BY <1>1, <1>2, <1>3, <3>2
  <2> QED
    BY <2>1, <2>2
<1>5. Pos <= request.at[k + 1]
  BY <1>1, <1>2, <1>3
<1> QED
  BY <1>2, <1>4, <1>5, NextFound

\* When three bytes of the buffer are looked at that were read, the last boundary is
\* told from the others.
LEMMA LastTold ==
    ASSUME IInv, Filled, FormPlaced, ~reading, pc = "partData", Has(Window, BoundaryStart),
           Encodes(request), NEW k \in 2..Len(request.at),
           request.at[k] = Pos + Find(Window, BoundaryStart), ~EndCut
    PROVE  LooksLast = {k = Len(request.at)}
<1> DEFINE a == request.at[k]
           f == Find(Window, BoundaryStart)
           m == Len(request.at)
<1>1. /\ request \in Requests /\ Pos \in Nat /\ Got \in Nat /\ Pos <= Got /\ Got <= Len(Sent(request))
      /\ Window \in Seq(Bytes) /\ Len(Window) = Got - Pos /\ Len(Sent(request)) \in Nat
      /\ \A i \in 1..Len(Window) : Window[i] = Sent(request)[Pos + i]
  BY WindowSent
<1>2. /\ cur \in Nat /\ start \in Nat /\ start <= cur /\ cur <= Len(buffers)
      /\ Len(Window) = cur - start /\ buffers \in Seq(Bytes) /\ Len(buffers) \in Nat
  BY FormFacts
<1>3. f \in Nat
  BY <1>1, Delimiters, FindProperties
<1>4. /\ BoundaryEnd \in Seq(Bytes) /\ Len(BoundaryEnd) = 3
      /\ BoundaryEnd[1] = Dashes /\ BoundaryEnd[2] = Key /\ BoundaryEnd[3] = Dashes
  BY BytesAssumption DEF BoundaryEnd
<1>5. EndAt = start + f
  BY <1>2, <1>3 DEF EndAt, PartEnd
<1>6. start + f + 3 <= cur
  BY <1>2, <1>3, <1>4, <1>5 DEF EndCut
<1>7. LooksLast = {SubSeq(buffers, EndAt + 1, EndAt + Len(BoundaryEnd)) = BoundaryEnd}
  <2>1. EndAt + Len(BoundaryEnd) <= Len(buffers)
    BY <1>2, <1>3, <1>4, <1>5, <1>6
  <2> QED
    BY <2>1 DEF LooksLast
<1> HIDE DEF f
<1>8. \A i \in 1..3 : buffers[(start + f) + i] = Sent(request)[a + i]
  <2>1. SUFFICES ASSUME NEW i \in 1..3 PROVE buffers[(start + f) + i] = Sent(request)[a + i]
    OBVIOUS
  <2>2. f + i \in 1..Len(Window) /\ Pos + (f + i) = a + i /\ start + (f + i) = (start + f) + i
    <3>1. a = Pos + f
      BY DEF f
    <3>2. f \in Nat /\ i \in 1..3 /\ start \in Nat /\ cur \in Nat /\ Len(Window) = cur - start
          /\ start + f + 3 <= cur /\ Pos \in Nat
      BY <1>1, <1>2, <1>3, <1>6, <2>1
    <3> HIDE DEF a
    <3> QED
      BY ONLY <3>1, <3>2
  <2>3. Window[f + i] = buffers[start + (f + i)]
    <3>1. start + 1 \in Int /\ cur \in Int /\ \A j \in (start + 1)..cur : buffers[j] \in Bytes
      BY <1>2
    <3>2. \A j \in 1..(cur - (start + 1) + 1) : Window[j] = buffers[(start + 1) + j - 1]
      BY <3>1, SubSeqProperties DEF Window
    <3>3. f + i \in 1..(cur - (start + 1) + 1) /\ (start + 1) + (f + i) - 1 = start + (f + i)
      BY <1>2, <1>3, <2>1, <2>2
    <3> QED
      BY <3>2, <3>3
  <2> QED
    BY <1>1, <2>2, <2>3
<1>9. (SubSeq(buffers, EndAt + 1, EndAt + Len(BoundaryEnd)) = BoundaryEnd) <=>
          \A i \in 1..3 : Sent(request)[a + i] = BoundaryEnd[i]
  <2>1. start + f \in Nat /\ (start + f) + 3 <= Len(buffers)
    BY <1>2, <1>3, <1>6
  <2>2. Occurs(buffers, BoundaryEnd, start + f) <=>
            (start + f) + 3 <= Len(buffers) /\ \A i \in 1..3 : buffers[(start + f) + i] = BoundaryEnd[i]
    <3>1. buffers \in Seq(Bytes) /\ BoundaryEnd \in Seq(Bytes) /\ Len(BoundaryEnd) = 3
      BY <1>2, <1>4
    <3>2. \A i \in Nat : Occurs(buffers, BoundaryEnd, i) <=>
            i + Len(BoundaryEnd) <= Len(buffers)
            /\ \A j \in 1..Len(BoundaryEnd) : buffers[i + j] = BoundaryEnd[j]
      BY <3>1, OccursBytes
    <3> QED
      BY <2>1, <3>1, <3>2, Zenon
  <2>3. Occurs(buffers, BoundaryEnd, start + f) <=>
            SubSeq(buffers, EndAt + 1, EndAt + Len(BoundaryEnd)) = BoundaryEnd
    BY <1>4, <1>5, <2>1 DEF Occurs
  <2> QED
    BY <1>8, <2>1, <2>2, <2>3
<1>10. CASE k = m
  <2>1. Sent(request)[a + 1] = Dashes /\ Sent(request)[a + 2] = Key /\ Sent(request)[a + 3] = Dashes
    BY <1>1, <1>10, FormEnds
  <2>2. \A i \in 1..3 : i = 1 \/ i = 2 \/ i = 3
    OBVIOUS
  <2>3. \A i \in 1..3 : Sent(request)[a + i] = BoundaryEnd[i]
    BY <1>4, <2>1, <2>2
  <2> QED
    BY <1>7, <1>9, <1>10, <2>3
<1>11. CASE k # m
  <2>1. k \in 1..(m - 1)
    BY <1>1, <1>11, FormPlaces
  <2>2. Sent(request)[a + 3] = CR
    BY <1>1, <2>1, FormHeads
  <2>3. ~(\A i \in 1..3 : Sent(request)[a + i] = BoundaryEnd[i])
    BY <1>4, <2>2 DEF CR, Dashes
  <2> QED
    BY <1>7, <1>9, <1>11, <2>3
<1> QED
  BY <1>10, <1>11

\* What is recorded, in terms of the next state.
LEMMA RecordedNext ==
    ASSUME request' = request, NEW k, NEW data, Recorded(k, data)',
           data = SubSeq(request.body, DataAt(request, k) + 1, Pos')
    PROVE  Recorded(k, SubSeq(request.body, DataAt(request, k) + 1, Pos))'
<1> DEFINE later == SubSeq(request'.body, DataAt(request', k) + 1, Pos')
<1>1. data = later
  BY DEF DataAt
<1> HIDE DEF later
<1>2. form' = [n \in Names |->
                 IF n = PartName(request', k) THEN later
                 ELSE IF \E j \in 1..(k - 1) : n = PartName(request', j) THEN request'.parts[n] ELSE <<>>]
  BY <1>1 DEF Recorded
<1> QED
  BY <1>2 DEF Recorded, later

\* Where the data of a part continue, when no boundary is in the window.
LEMMA MayEndFollows ==
    ASSUME IInv, Filled, FormPlaced, Encodes(request), PartDataMayEnd,
           NEW k \in 1..(Len(request.at) - 1), DataNext(k)
    PROVE  DataNext(k)'
<1>1. /\ pc = "partData" /\ ~reading /\ ~Has(Window, BoundaryStart) /\ request' = request
      /\ Got' = Got /\ part' = part
  BY PartDataMayEndMoves
<1>2. PICK n \in 0..Len(Window) : MaybeEnd(n) /\ Record(n) /\ Pos' = Pos + n /\ Pos + n <= Got
  BY PartDataMayEndMoves
<1>3. request \in Requests /\ Pos \in Nat /\ Got \in Nat /\ Window \in Seq(Bytes)
  BY <1>1, WindowSent
<1>4. n \in Nat /\ Occurs(Window, <<CR>>, n)
  BY <1>2, <1>3, MaybeEndAt
<1> DEFINE a == request.at[k + 1]
           d == DataAt(request, k)
<1>5. /\ k + 1 \in 2..Len(request.at) /\ k + 1 \in 1..Len(request.at) /\ k \in 1..Len(request.at)
      /\ a \in Nat /\ d = request.at[k] + 9 /\ request.at[k] \in Nat
      /\ a + 3 <= Len(request.body) /\ Len(request.body) \in Nat
  BY <1>3, PartPlaces
<1>6. part = PartName(request, k) /\ d <= Pos /\ Pos + 2 <= a
  BY DEF DataNext
<1>7. Pos + n + 2 <= a
  BY <1>1, <1>4, <1>5, <1>6, LastCR
<1>8. Got < a + 2
  <2>1. a < Pos \/ Got < a + 2
    BY <1>1, <1>5, BoundaryMissing
  <2> HIDE DEF a
  <2> QED
    BY <1>3, <1>5, <1>6, <2>1
<1> HIDE DEF a, d
<1>9. d <= Pos + n /\ Pos + n <= Len(request.body)
  BY <1>3, <1>4, <1>5, <1>6, <1>7
<1>10. PICK data : data = SubSeq(request.body, DataAt(request, k) + 1, Pos + n)
  OBVIOUS
<1>11. Recorded(k, SubSeq(request.body, DataAt(request, k) + 1, Pos))'
  <2>1. Recorded(k, data)'
    BY <1>1, <1>2, <1>9, <1>10, RecordStep
  <2>2. data = SubSeq(request.body, DataAt(request, k) + 1, Pos')
    BY <1>2, <1>10
  <2> QED
    BY <1>1, <2>1, <2>2, RecordedNext
<1>12. d <= Pos' /\ Pos' + 2 <= a /\ Got' < a + Len(BoundaryStart)
  BY <1>1, <1>2, <1>3, <1>7, <1>8, <1>9, Delimiters
<1> QED
  BY <1>1, <1>6, <1>11, <1>12 DEF DataNext, PartName, DataAt, a, d

LEMMA GoesOnFollows ==
    ASSUME IInv, Filled, FormPlaced, Encodes(request), PartDataGoesOn, "swallowed" \notin mishaps',
           NEW k \in 1..(Len(request.at) - 1), DataNext(k)
    PROVE  DataNext(k)'
<1>1. /\ pc = "partData" /\ ~reading /\ ~Has(Window, BoundaryStart) /\ request' = request
      /\ \A n \in 0..Len(Window) : ~MaybeEnd(n)
      /\ Got' = Got /\ part' = part /\ ~EndsShort
      /\ Record(Len(Window)) /\ Pos' = Got /\ Pos + Len(Window) = Got
  BY PartDataGoesOnMoves
<1>2. request \in Requests /\ Pos \in Nat /\ Got \in Nat /\ Window \in Seq(Bytes) /\ Pos <= Got
      /\ Len(Window) \in 0..Len(Window)
  BY <1>1, WindowSent
<1> DEFINE a == request.at[k + 1]
           d == DataAt(request, k)
<1>3. /\ k + 1 \in 2..Len(request.at) /\ a \in Nat /\ d = request.at[k] + 9 /\ request.at[k] \in Nat
      /\ a + 3 <= Len(request.body) /\ Len(request.body) \in Nat
  BY <1>2, PartPlaces
<1>4. part = PartName(request, k) /\ d <= Pos /\ Pos + 2 <= a
  BY DEF DataNext
<1>5. Got + 2 <= a
  BY <1>1, <1>3, <1>4, NothingKept
<1> HIDE DEF a, d
<1>6. d <= Got /\ Got <= Len(request.body) /\ Got < a + 2
  <2>1. ASSUME NEW x \in Nat, NEW p \in Nat, NEW g \in Nat, NEW e \in Nat, NEW n \in Nat,
               x <= p, p <= g, g + 2 <= e, e + 3 <= n
        PROVE  x <= g /\ g <= n /\ g < e + 2
    BY ONLY <2>1
  <2>2. d \in Nat
    BY <1>3
  <2> QED
    BY <1>2, <1>3, <1>4, <1>5, <2>1, <2>2, Zenon
<1>7. PICK data : data = SubSeq(request.body, DataAt(request, k) + 1, Pos + Len(Window))
  OBVIOUS
<1>8. Recorded(k, SubSeq(request.body, DataAt(request, k) + 1, Pos))'
  <2>1. Pos + Len(Window) <= Len(request.body)
    BY <1>1, <1>6
  <2>2. Recorded(k, data)'
    BY <1>1, <1>2, <1>7, <2>1, RecordStep
  <2>3. data = SubSeq(request.body, DataAt(request, k) + 1, Pos')
    BY <1>1, <1>7
  <2> QED
    BY <1>1, <2>2, <2>3, RecordedNext
<1>9. d <= Pos' /\ Pos' + 2 <= a /\ Got' < a + Len(BoundaryStart)
  BY <1>1, <1>5, <1>6, Delimiters
<1> QED
  BY <1>1, <1>4, <1>8, <1>9 DEF DataNext, PartName, DataAt, a, d

\* Of the names of the parts no two are the same.
LEMMA NamesDiffer ==
    ASSUME NEW r \in Requests, Encodes(r), NEW k \in 1..(Len(r.at) - 1)
    PROVE  /\ PartName(r, k) \in Names
           /\ r.parts[PartName(r, k)] = SubSeq(r.body, DataAt(r, k) + 1, r.at[k + 1] - 2)
           /\ \A j \in 1..(k - 1) : PartName(r, j) # PartName(r, k)
           /\ \A n \in Names :
                  r.parts[n] # <<>> => \E j \in 1..(Len(r.at) - 1) : n = PartName(r, j)
  BY DEF Encodes

\* A part ends: its data are what was sent as them, and the next one follows unless
\* it was the last.
LEMMA EndsFollow ==
    ASSUME IInv, Filled, FormPlaced, Encodes(request), PartDataEnds, "cutEnd" \notin mishaps',
           NEW k \in 1..(Len(request.at) - 1), DataNext(k)
    PROVE  /\ Recorded(k, request.parts[PartName(request, k)])'
           /\ pc' = "routed" => k + 1 = Len(request.at)
           /\ pc' # "routed" => k + 1 # Len(request.at) /\ pc' = "partHead"
                                /\ Pos' = request.at[k + 1] - 2
<1> DEFINE a == request.at[k + 1]
           f == Find(Window, BoundaryStart)
<1>1. /\ pc = "partData" /\ ~reading /\ Has(Window, BoundaryStart) /\ ~EndCut
  BY DEF PartDataEnds, At
<1>2. /\ PartEnd \in 0..Len(Window) /\ PartEnd + 2 = f /\ request' = request /\ Record(PartEnd)
      /\ pc' = "routed" \/ (pc' = "partHead" /\ Pos' = Pos + PartEnd)
  BY PartDataEndsMoves
<1>3. request \in Requests /\ Pos \in Nat /\ Len(Window) \in Nat
  BY <1>1, WindowSent
<1>4. a = Pos + f
  BY <1>1, DataEnds
<1>5. /\ k + 1 \in 2..Len(request.at) /\ a \in Nat
      /\ a + 3 <= Len(request.body) /\ Len(request.body) \in Nat
  BY <1>3, PartPlaces
<1>6. LooksLast = {k + 1 = Len(request.at)}
  BY <1>1, <1>4, <1>5, LastTold
<1>7. \E last \in LooksLast : (pc' = "routed") <=> last
  <2>1. PICK last \in LooksLast :
           IF last THEN Route
           ELSE pc' = "partHead"
    BY Zenon DEF PartDataEnds
  <2>2. last \in BOOLEAN
    BY <1>6, <2>1
  <2>3. CASE last
    BY <2>1, <2>3 DEF Route
  <2>4. CASE ~last
    BY <2>1, <2>4
  <2> QED
    BY <2>1, <2>2, <2>3, <2>4
<1>8. (pc' = "routed") <=> (k + 1 = Len(request.at))
  BY <1>6, <1>7
<1> HIDE DEF a, f
<1>9. PartEnd \in Nat /\ Pos + PartEnd = a - 2 /\ Pos + PartEnd <= Len(request.body)
  BY <1>2, <1>3, <1>4, <1>5
<1>10. PICK data : data = SubSeq(request.body, DataAt(request, k) + 1, Pos + PartEnd)
  OBVIOUS
<1>11. data = request.parts[PartName(request, k)]
  BY <1>3, <1>9, <1>10, NamesDiffer DEF a
<1>12. Recorded(k, request.parts[PartName(request, k)])'
  <2> DEFINE later == request'.parts[PartName(request', k)]
  <2>1. data = later
    BY <1>2, <1>11 DEF PartName
  <2>3. Recorded(k, data)'
    BY <1>1, <1>2, <1>9, <1>10, RecordStep
  <2> HIDE DEF later
  <2>2. form' = [n \in Names |->
                   IF n = PartName(request', k) THEN later
                   ELSE IF \E j \in 1..(k - 1) : n = PartName(request', j)
                          THEN request'.parts[n] ELSE <<>>]
    BY <2>1, <2>3 DEF Recorded
  <2> QED
    BY <2>2 DEF Recorded, later
<1> QED
  BY <1>2, <1>8, <1>9, <1>12 DEF a

\* Nothing of the form is recorded yet: its first part is next.
LEMMA FormFollowsBegin ==
    ASSUME IInv, FormPlaced, PreprocessMultipart, Encodes(request)
    PROVE  \E k \in 1..(Len(request'.at) - 1) : HeadNext(k)'
<1>1. /\ Pos' = 0 /\ request' = request /\ form' = form /\ pc = "header" /\ reading' = FALSE
  BY PreprocessMultipartMoves
<1>2. form = [n \in Names |-> <<>>]
  BY <1>1 DEF FormPlaced
<1>3. request \in Requests
  BY BodyFacts
<1>4. Len(request.at) \in Nat /\ 1 < Len(request.at)
  BY <1>3, FormPlaces
<1>5. Recorded(1, <<>>)'
  BY <1>1, <1>2 DEF Recorded
<1>6. HeadNext(1)'
  BY <1>1, <1>5 DEF HeadNext
<1>7. 1 \in 1..(Len(request'.at) - 1)
  BY <1>1, <1>4
<1> QED
  BY <1>6, <1>7

\* A head of which something is missing stays the next.
LEMMA IncompleteFollows ==
    ASSUME IInv, Filled, FormPlaced, Encodes(request), PartHeadIncomplete,
           NEW k \in 1..(Len(request.at) - 1), HeadNext(k)
    PROVE  HeadNext(k)'
<1>1. /\ pc = "partHead" /\ ~reading /\ ~(Has(Window, BoundaryStart) /\ Has(Window, HeadEnd))
      /\ Pos' = Pos /\ Got' = Got /\ request' = request /\ form' = form
  BY PartHeadIncompleteMoves
<1>2. request \in Requests /\ Pos \in Nat /\ Got \in Nat
  BY <1>1, WindowSent
<1>3. request.at[k] \in Nat /\ DataAt(request, k) = request.at[k] + 9
  BY <1>2, PartPlaces
<1>4. Pos <= request.at[k]
  <2>1. Pos = IF k = 1 THEN 0 ELSE request.at[k] - 2
    BY DEF HeadNext
  <2>2. CASE k = 1
    BY <1>3, <2>1, <2>2
  <2>3. CASE k # 1
    BY <1>3, <2>1, <2>3
  <2> QED
    BY <2>2, <2>3
<1>5. ~(DataAt(request, k) <= Got)
  BY <1>1, <1>4, HeadThere
<1>6. Got < DataAt(request, k)
  BY <1>2, <1>3, <1>5
<1>7. Recorded(k, <<>>)'
  BY <1>1 DEF HeadNext, Recorded, PartName
<1> QED
  BY <1>1, <1>6, <1>7 DEF HeadNext, DataAt

\* The parts before part k + 1 are recorded when those before part k and it are.
LEMMA RecordedOne ==
    ASSUME NEW r \in Requests, Encodes(r), NEW k \in 1..(Len(r.at) - 1), k + 1 # Len(r.at),
           NEW f,
           f = [n \in Names |->
                   IF n = PartName(r, k) THEN r.parts[PartName(r, k)]
                   ELSE IF \E j \in 1..(k - 1) : n = PartName(r, j) THEN r.parts[n] ELSE <<>>]
    PROVE  f = [n \in Names |->
                   IF n = PartName(r, k + 1) THEN <<>>
                   ELSE IF \E j \in 1..((k + 1) - 1) : n = PartName(r, j) THEN r.parts[n] ELSE <<>>]
<1>1. Len(r.at) \in Nat /\ k \in Nat /\ k + 1 \in 1..(Len(r.at) - 1)
  BY FormPlaces
<1>3. ASSUME NEW n \in Names
      PROVE  (IF n = PartName(r, k) THEN r.parts[PartName(r, k)]
              ELSE IF \E j \in 1..(k - 1) : n = PartName(r, j) THEN r.parts[n] ELSE <<>>)
             = (IF n = PartName(r, k + 1) THEN <<>>
                ELSE IF \E j \in 1..((k + 1) - 1) : n = PartName(r, j) THEN r.parts[n] ELSE <<>>)
  <2>1. \A j \in 1..((k + 1) - 1) : PartName(r, j) # PartName(r, k + 1)
    BY <1>1, NamesDiffer
  <2>2. k \in 1..((k + 1) - 1) /\ \A j \in 1..((k + 1) - 1) : j = k \/ j \in 1..(k - 1)
    BY <1>1
  <2>3. \A j \in 1..(k - 1) : j \in 1..((k + 1) - 1)
    BY <1>1
  <2>4. CASE n = PartName(r, k)
    BY <2>1, <2>2, <2>4
  <2>5. CASE n # PartName(r, k) /\ \E j \in 1..(k - 1) : n = PartName(r, j)
    BY <2>1, <2>3, <2>5
  <2>6. CASE n # PartName(r, k) /\ ~(\E j \in 1..(k - 1) : n = PartName(r, j))
    BY <2>2, <2>6
  <2> QED
    BY <2>4, <2>5, <2>6
<1> QED
  BY <1>3

\* All the parts are recorded when the last one is.
LEMMA RecordedAll ==
    ASSUME NEW r \in Requests, Encodes(r), NEW k \in 1..(Len(r.at) - 1), k + 1 = Len(r.at),
           NEW f,
           f = [n \in Names |->
                   IF n = PartName(r, k) THEN r.parts[PartName(r, k)]
                   ELSE IF \E j \in 1..(k - 1) : n = PartName(r, j) THEN r.parts[n] ELSE <<>>]
    PROVE  f = r.parts
<1>1. Len(r.at) \in Nat /\ k \in Nat
  BY FormPlaces
<1>3. ASSUME NEW n \in Names
      PROVE  (IF n = PartName(r, k) THEN r.parts[PartName(r, k)]
              ELSE IF \E j \in 1..(k - 1) : n = PartName(r, j) THEN r.parts[n] ELSE <<>>)
             = r.parts[n]
  <2>1. r.parts[n] # <<>> => \E j \in 1..(Len(r.at) - 1) : n = PartName(r, j)
    BY NamesDiffer
  <2>2. \A j \in 1..(Len(r.at) - 1) : j = k \/ j \in 1..(k - 1)
    BY <1>1
  <2> QED
    BY <2>1, <2>2
<1>4. r.parts \in [Names -> Seq(Bytes)]
  BY RequestsAssumption DEF RequestType
<1> QED
  BY <1>3, <1>4

\* A form that nothing went wrong with: the parts follow each other.
LEMMA FormFollowsStep ==
    ASSUME IInv, Filled, FormPlaced, FormFollows, Next
    PROVE  FormFollows'
<1> DEFINE Goal == /\ pc' = "partHead" => \E k \in 1..(Len(request'.at) - 1) : HeadNext(k)'
                   /\ pc' = "partData" => \E k \in 1..(Len(request'.at) - 1) : DataNext(k)'
           Free == mishaps \cap {"swallowed", "cutEnd"} = {}
<1> SUFFICES ASSUME Encodes(request'), mishaps' \cap {"swallowed", "cutEnd"} = {}
             PROVE  Goal
  BY DEF FormFollows
<1>1. /\ Encodes(request) /\ Free /\ pc = "partHead" => \E k \in 1..(Len(request.at) - 1) : HeadNext(k)
      /\ Encodes(request) /\ Free /\ pc = "partData" => \E k \in 1..(Len(request.at) - 1) : DataNext(k)
  BY DEF FormFollows
<1>2. ASSUME NEW n \in 0..MaxSize, Receive(n), pc \in {"partHead", "partData"} PROVE Goal
  <2>1. /\ Pos' = Pos /\ reading' = FALSE /\ pc' = pc /\ request' = request
        /\ form' = form /\ part' = part
        /\ mishaps' \cap {"swallowed", "cutEnd"} = mishaps \cap {"swallowed", "cutEnd"}
    BY <1>2, ReceiveMoves
  <2>2. Encodes(request) /\ Free
    BY <2>1
  <2>3. ASSUME NEW k \in 1..(Len(request.at) - 1), HeadNext(k) PROVE HeadNext(k)'
    BY <2>1, <2>3 DEF HeadNext, Recorded, PartName
  <2>4. ASSUME NEW k \in 1..(Len(request.at) - 1), DataNext(k) PROVE DataNext(k)'
    <3> DEFINE data == SubSeq(request.body, DataAt(request, k) + 1, Pos)
    <3>1. data' = data
      BY <2>1 DEF DataAt
    <3>2. Recorded(k, data)
      BY <2>4 DEF DataNext
    <3>3. Recorded(k, data)'
      <4> HIDE DEF data
      <4> QED
        BY <2>1, <3>1, <3>2 DEF Recorded, PartName
    <3> HIDE DEF data
    <3> QED
      BY <2>1, <2>4, <3>3 DEF DataNext, PartName, DataAt, data
  <2> QED
    BY <1>1, <2>1, <2>2, <2>3, <2>4
<1>3. ASSUME NEW n \in 0..MaxSize, Receive(n), pc \notin {"partHead", "partData"} PROVE Goal
  BY <1>3 DEF Receive
<1>4. CASE PreprocessMultipart
  <2>1. request' = request /\ pc' = "partHead"
    BY <1>4, PreprocessMultipartMoves
  <2> QED
    BY <1>4, <2>1, FormFollowsBegin
<1>5. CASE PartHeadIncomplete
  <2>1. /\ pc = "partHead" /\ pc' \in {"partHead", "tooLarge"} /\ request' = request /\ mishaps' = mishaps
    BY <1>5, PartHeadIncompleteMoves
  <2>2. PICK k \in 1..(Len(request.at) - 1) : HeadNext(k)
    BY <1>1, <2>1
  <2>3. HeadNext(k)'
    BY <1>5, <2>1, <2>2, IncompleteFollows
  <2> QED
    BY <2>1, <2>3
<1>6. CASE PartHead
  <2>1. pc = "partHead" /\ pc' = "partData" /\ request' = request /\ mishaps' = mishaps
    BY <1>6, PartHeadMoves DEF PartHead, At
  <2>2. PICK k \in 1..(Len(request.at) - 1) : HeadNext(k)
    BY <1>1, <2>1
  <2>3. DataNext(k)'
    BY <1>6, <2>1, <2>2, HeadThenData
  <2> QED
    BY <2>1, <2>3
<1>7. CASE PartDataEnds
  <2>1. /\ pc = "partData" /\ request' = request /\ reading' = FALSE
        /\ mishaps \subseteq mishaps' /\ pc' \in {"routed", "partHead"}
    <3>1. pc = "partData" /\ mishaps' = IF EndCut THEN mishaps \cup {"cutEnd"} ELSE mishaps
      BY <1>7 DEF PartDataEnds, At
    <3> QED
      BY <1>7, <3>1, PartDataEndsMoves
  <2>2. PICK k \in 1..(Len(request.at) - 1) : DataNext(k)
    BY <1>1, <2>1
  <2>3. request \in Requests /\ request' \in Requests
    BY <2>1, BodyFacts
  <2>4. ASSUME pc' = "partHead" PROVE \E i \in 1..(Len(request'.at) - 1) : HeadNext(i)'
    <3>1. /\ Recorded(k, request.parts[PartName(request, k)])'
          /\ k + 1 # Len(request.at) /\ Pos' = request.at[k + 1] - 2
      BY <1>7, <2>1, <2>2, <2>4, EndsFollow
    <3>2. Len(request.at) \in Nat /\ k \in Nat /\ k + 1 \in 1..(Len(request.at) - 1) /\ k + 1 # 1
      BY <2>1, <2>3, <3>1, FormPlaces
    <3>3. Recorded(k + 1, <<>>)'
      <4> DEFINE r == request'
      <4>1. /\ r \in Requests /\ Encodes(r) /\ k \in 1..(Len(r.at) - 1) /\ k + 1 # Len(r.at)
        BY <2>1, <2>3, <3>1
      <4>2. form' = [n \in Names |->
                IF n = PartName(r, k) THEN r.parts[PartName(r, k)]
                ELSE IF \E j \in 1..(k - 1) : n = PartName(r, j) THEN r.parts[n] ELSE <<>>]
        BY <3>1 DEF Recorded, PartName
      <4>3. form' = [n \in Names |->
                IF n = PartName(r, k + 1) THEN <<>>
                ELSE IF \E j \in 1..((k + 1) - 1) : n = PartName(r, j) THEN r.parts[n] ELSE <<>>]
        <5> DEFINE f == form'
        <5> HIDE DEF r, f
        <5> QED
          BY <4>1, <4>2, RecordedOne DEF f
      <4> QED
        BY <4>3 DEF Recorded, PartName
    <3>4. HeadNext(k + 1)'
      BY <2>1, <3>1, <3>2, <3>3 DEF HeadNext
    <3> QED
      BY <2>1, <3>2, <3>4
  <2> QED
    BY <2>1, <2>4
<1>8. CASE PartDataMayEnd
  <2>1. /\ pc = "partData" /\ request' = request /\ mishaps' = mishaps
        /\ pc' \in {"partData", "tooLarge"}
    BY <1>8, PartDataMayEndMoves
  <2>2. PICK k \in 1..(Len(request.at) - 1) : DataNext(k)
    BY <1>1, <2>1
  <2>3. DataNext(k)'
    BY <1>8, <2>1, <2>2, MayEndFollows
  <2> QED
    BY <2>1, <2>3
<1>9. CASE PartDataGoesOn
  <2>1. /\ pc = "partData" /\ request' = request /\ pc' \in {"partData", "tooLarge"}
        /\ mishaps' = IF EndsShort THEN mishaps \cup {"swallowed"} ELSE mishaps
    BY <1>9, PartDataGoesOnMoves
  <2>2. PICK k \in 1..(Len(request.at) - 1) : DataNext(k)
    BY <1>1, <2>1
  <2>3. DataNext(k)'
    BY <1>9, <2>1, <2>2, GoesOnFollows
  <2> QED
    BY <2>1, <2>3
<1>10. CASE ~FormSteps
  BY <1>10, OtherSteps
<1> HIDE DEF Goal
<1> QED
  BY <1>2, <1>3, <1>4, <1>5, <1>6, <1>7, <1>8, <1>9, <1>10 DEF FormSteps

\* What a step that starts no read leaves, and one that does.
LEMMA FilledRests ==
    ASSUME IInv, Filled, ~reading, pc \in Handlers, request' = request, taken' = taken,
           cur' \in Nat, cur' <= cur, expand' = expand, reading' = FALSE, pc' # "tooLarge",
           mishaps \subseteq mishaps', "headerOverflow" \in mishaps' => "headerOverflow" \in mishaps
    PROVE  Filled'
<1>1. cur \in Nat /\ taken \in Nat /\ request \in Requests
  BY BodyFacts
<1>2. pc # "tooLarge"
  BY DEF Handlers
<1>3. cur' <= taken' /\ taken' <= Len(Stream(request'))
  BY <1>1 DEF Filled
<1> QED
  BY <1>2, <1>3 DEF Filled

LEMMA FilledReads ==
    ASSUME IInv, Filled, ~reading, pc \in Handlers, request' = request, taken' = taken,
           NEW s, NEW c \in Nat, c <= cur, NEW handler \in Handlers, NEW multipart \in BOOLEAN,
           ReadMore(s, c, handler, multipart),
           mishaps \subseteq mishaps', "headerOverflow" \in mishaps' => "headerOverflow" \in mishaps
    PROVE  Filled'
<1>1. cur \in Nat /\ taken \in Nat /\ request \in Requests /\ expand \in Nat
  BY BodyFacts
<1>2. pc # "tooLarge" /\ handler # "tooLarge"
  BY DEF Handlers
<1>3. cur' = c /\ c <= taken /\ cur' <= taken' /\ taken' <= Len(Stream(request'))
  BY <1>1 DEF Filled, ReadMore
<1> SUFFICES ASSUME "shortRead" \notin mishaps
             PROVE  IF "headerOverflow" \in mishaps \/ pc' = "tooLarge" THEN 2 * taken > MaxSize
                    ELSE pc' \in Handlers => expand' <= IF reading' THEN taken + left' ELSE taken
  BY <1>3 DEF Filled
<1>4. CASE "headerOverflow" \in mishaps
  BY <1>2, <1>4 DEF Filled
<1>5. CASE "headerOverflow" \notin mishaps
  <2>1. expand <= MaxSize /\ expand <= taken
    BY <1>2, <1>5 DEF Filled, IInv, Room
  <2>2. Doubled = expand + expand
    BY <1>1, <2>1, SizesAssumption DEF Doubled
  <2>3. CASE Doubled <= MaxSize
    <3>1. pc' = handler /\ reading' = TRUE /\ expand' = Doubled /\ left' = (Doubled - c) % WordSize
      BY <2>3 DEF ReadMore, Expanded, ExpandTo
    <3>2. c <= Doubled
      <4>1. cur <= Len(buffers) /\ Len(buffers) <= expand /\ Len(buffers) \in Nat
        BY <1>5, BodyFacts DEF IInv, Room
      <4> QED
        BY <1>1, <2>2, <4>1
    <3>3. left' = Doubled - c
      BY <1>1, <2>2, <2>3, <3>1, <3>2, SizesAssumption
    <3>4. expand' <= taken + left'
      BY <1>1, <1>3, <2>2, <3>1, <3>3
    <3> QED
      BY <1>2, <1>5, <3>1, <3>4
  <2>4. CASE ~(Doubled <= MaxSize) /\ multipart
    <3>1. pc' = handler /\ reading' = TRUE /\ expand' = MaxSize /\ left' = MaxSize - c
      BY <2>4 DEF ReadMore, Expanded, ExpandTo
    <3>2. expand' <= taken + left'
      BY <1>1, <1>3, <3>1, SizesAssumption
    <3> QED
      BY <1>2, <1>5, <3>1, <3>2
  <2>5. CASE ~(Doubled <= MaxSize) /\ ~multipart
    <3>1. pc' = "tooLarge"
      BY <2>5 DEF ReadMore, Expanded
    <3>2. 2 * taken > MaxSize
      BY <1>1, <2>1, <2>2, <2>5, SizesAssumption
    <3> QED
      BY <3>1, <3>2
  <2> QED
    BY <2>3, <2>4, <2>5
<1> QED
  BY <1>4, <1>5

LEMMA FilledAfresh ==
    ASSUME IInv, Filled, ~reading, pc \in Handlers, request' = request, taken' = taken,
           NEW handler \in Handlers, ReadAfresh(handler), mishaps' = mishaps
    PROVE  Filled'
<1>1. cur \in Nat /\ taken \in Nat /\ request \in Requests /\ expand \in Nat
  BY BodyFacts
<1>2. pc # "tooLarge" /\ handler # "tooLarge"
  BY DEF Handlers
<1>3. cur' = 0 /\ left' = InitialSize /\ pc' = handler /\ reading' = TRUE /\ expand' = expand
  BY DEF ReadAfresh
<1>4. cur' <= taken' /\ taken' <= Len(Stream(request'))
  BY <1>1, <1>3 DEF Filled
<1>5. expand <= taken => expand' <= taken' + left'
  BY <1>1, <1>3, SizesAssumption
<1> QED
  BY <1>2, <1>3, <1>4, <1>5 DEF Filled

\* Until the end of the buffer, the reads fill it.
LEMMA FilledStep ==
    ASSUME IInv, Filled, Next
    PROVE  Filled'
<1>0. /\ cur \in Nat /\ taken \in Nat /\ left \in Nat /\ expand \in Nat /\ start \in Nat
      /\ start <= cur /\ reading \in BOOLEAN
  BY BodyFacts
<1>18. /\ "header" \in Handlers /\ "string" \in Handlers /\ "octet" \in Handlers
       /\ "partHead" \in Handlers /\ "partData" \in Handlers
       /\ cur <= cur /\ 0 \in Nat /\ 0 <= cur /\ TRUE \in BOOLEAN /\ FALSE \in BOOLEAN
       /\ \A m : mishaps \subseteq mishaps \cup m
  BY <1>0 DEF Handlers
<1>1. ASSUME NEW n \in 0..MaxSize, Receive(n) PROVE Filled'
  <2>1. /\ reading /\ taken' = taken + n /\ n <= left /\ taken + n <= Len(Stream(request))
        /\ reading' = FALSE /\ pc' = pc /\ request' = request /\ expand' = expand
        /\ mishaps' = IF n < left THEN mishaps \cup {"shortRead"} ELSE mishaps
        /\ cur' = IF pc = "octet" THEN cur ELSE cur + n
    BY <1>1 DEF Receive
  <2>2. n \in Nat
    BY SizesAssumption
  <2>3. cur' <= taken' /\ taken' <= Len(Stream(request'))
    BY <1>0, <2>1, <2>2 DEF Filled
  <2>4. ASSUME "shortRead" \notin mishaps' PROVE n = left /\ mishaps' = mishaps
    BY <1>0, <2>1, <2>2, <2>4
  <2>5. 2 * taken > MaxSize => 2 * taken' > MaxSize
    BY <1>0, <2>1, <2>2, SizesAssumption
  <2>6. ASSUME "shortRead" \notin mishaps', expand <= taken + left PROVE expand' <= taken'
    BY <2>1, <2>4, <2>6
  <2> QED
    BY <2>1, <2>3, <2>4, <2>5, <2>6 DEF Filled
<1>2. CASE ReadFails
  <2>1. /\ request' = request /\ taken' = taken /\ cur' = cur /\ pc' = "closed" /\ mishaps' = mishaps
        /\ reading /\ pc # "tooLarge"
    BY <1>2 DEF ReadFails, bufferVars, IInv, Sized, Handlers
  <2> QED
    BY <2>1 DEF Filled, Handlers
<1>3. CASE HeaderIncomplete
  <2> DEFINE e == Expanded(buffers, cur, FALSE)
  <2>1. /\ pc = "header" /\ ~reading /\ request' = request /\ taken' = taken /\ cur' = cur /\ pc' = pc
        /\ reading' = TRUE /\ expand' = e.expand /\ left' = e.left
        /\ mishaps' = IF e.ok THEN mishaps ELSE mishaps \cup {"headerOverflow"}
    BY <1>3 DEF HeaderIncomplete, At, ExpandTo
  <2>2. cur' <= taken' /\ taken' <= Len(Stream(request')) /\ cur = taken
    BY <2>1 DEF Filled, IInv, Position
  <2>3. ASSUME "shortRead" \notin mishaps', "headerOverflow" \in mishaps PROVE Filled'
    BY <2>1, <2>2, <2>3 DEF Filled
  <2>4. ASSUME "shortRead" \notin mishaps', "headerOverflow" \notin mishaps PROVE Filled'
    <3>1. expand <= MaxSize /\ expand <= taken /\ cur <= Len(buffers) /\ Len(buffers) <= expand
          /\ Len(buffers) \in Nat
      BY <2>1, <2>4, BodyFacts DEF Filled, IInv, Room, Handlers
    <3>2. Doubled = expand + expand
      BY <1>0, <3>1, SizesAssumption DEF Doubled
    <3>3. CASE Doubled <= MaxSize
      <4>1. e.ok = TRUE /\ e.expand = Doubled /\ e.left = (Doubled - cur) % WordSize
        BY <3>3 DEF Expanded
      <4>2. e.left = Doubled - cur
        <5>1. Doubled - cur \in Nat /\ Doubled - cur < WordSize /\ WordSize \in Nat
          BY <1>0, <3>1, <3>2, <3>3, SizesAssumption
        <5>2. ASSUME NEW x \in Nat, NEW w \in Nat, x < w PROVE x % w = x
          BY ONLY <5>2
        <5> QED
          BY <4>1, <5>1, <5>2
      <4> HIDE DEF e
      <4>3. expand' <= taken' + left'
        BY <1>0, <2>1, <2>2, <3>2, <4>1, <4>2
      <4> QED
        BY <2>1, <2>2, <2>4, <4>1, <4>3 DEF Filled
    <3>4. CASE ~(Doubled <= MaxSize)
      <4>1. e.ok = FALSE
        BY <3>4 DEF Expanded
      <4>2. 2 * taken > MaxSize
        BY <1>0, <3>1, <3>2, <3>4, SizesAssumption
      <4> QED
        BY <2>1, <2>2, <4>1, <4>2 DEF Filled
    <3> QED
      BY <3>3, <3>4
  <2> QED
    BY <2>1, <2>2, <2>3, <2>4 DEF Filled
<1>4. CASE HeaderRefused
  <2>1. /\ pc = "header" /\ ~reading /\ request' = request /\ taken' = taken
        /\ cur' \in {0, cur} /\ expand' = expand /\ reading' = FALSE /\ pc' = "refused"
        /\ mishaps' = mishaps
    BY <1>0, <1>4 DEF HeaderRefused, HeaderRead, At, FormBegins
  <2> QED
    BY <1>0, <2>1, <1>18, FilledRests
<1>5. CASE RouteBare
  <2>1. /\ pc = "header" /\ ~reading /\ request' = request /\ taken' = taken
        /\ cur' = cur /\ expand' = expand /\ reading' = FALSE /\ pc' = "routed" /\ mishaps' = mishaps
    BY <1>5 DEF RouteBare, HeaderRead, At, Route, bufferVars
  <2> QED
    BY <1>0, <2>1, <1>18, FilledRests
<1>6. CASE PreprocessBody
  <2> DEFINE moved == Forwarded(buffers, request.header, cur)
             c == cur - request.header
  <2>1. /\ HeaderRead /\ request' = request /\ taken' = taken /\ mishaps' = mishaps
    BY <1>6 DEF PreprocessBody
  <2>2. c \in Nat /\ c <= cur /\ pc = "header" /\ ~reading
    BY <2>1, HeaderFacts
  <2>3. \/ ReadMore(moved, c, "string", FALSE)
        \/ cur' = c /\ pc' = "routed" /\ reading' = FALSE /\ expand' = expand
    BY <1>6 DEF PreprocessBody, Route
  <2> HIDE DEF moved, c
  <2>4. CASE ReadMore(moved, c, "string", FALSE)
    BY <2>1, <2>2, <2>4, <1>18, FilledReads
  <2>5. CASE cur' = c /\ pc' = "routed" /\ reading' = FALSE /\ expand' = expand
    BY <2>1, <2>2, <2>5, <1>18, FilledRests
  <2> QED
    BY <2>3, <2>4, <2>5
<1>7. CASE PreprocessBodyAfresh
  <2>1. /\ pc = "header" /\ ~reading /\ ReadAfresh("string") /\ request' = request
        /\ taken' = taken /\ mishaps' = mishaps
    BY <1>7 DEF PreprocessBodyAfresh, HeaderRead, At
  <2> QED
    BY <2>1, <1>18, FilledAfresh
<1>8. CASE ProcessBody
  <2>1. /\ pc = "string" /\ ~reading /\ request' = request /\ taken' = taken /\ mishaps' = mishaps
        /\ \/ ReadMore(buffers, cur, "string", FALSE)
           \/ cur' = cur /\ pc' = "routed" /\ reading' = FALSE /\ expand' = expand
    BY <1>8 DEF ProcessBody, At, Route
  <2>2. CASE ReadMore(buffers, cur, "string", FALSE)
    BY <1>0, <2>1, <2>2, <1>18, FilledReads
  <2>3. CASE cur' = cur /\ pc' = "routed" /\ reading' = FALSE /\ expand' = expand
    BY <1>0, <2>1, <2>3, <1>18, FilledRests
  <2> QED
    BY <2>1, <2>2, <2>3
<1>9. CASE PreprocessOctStream
  <2>1. /\ pc = "header" /\ ~reading /\ request' = request /\ taken' = taken /\ expand' = expand
        /\ cur' \in {0, cur} /\ pc' \in {"routed", "octet"} /\ reading' = FALSE
        /\ mishaps' \in {mishaps, mishaps \cup {"unopened"}}
    BY <1>0, <1>9 DEF PreprocessOctStream, HeaderRead, At, Route
  <2> QED
    BY <1>0, <2>1, <1>18, FilledRests
<1>10. CASE ProcessOctStream
  <2>1. /\ pc = "octet" /\ ~reading /\ request' = request /\ taken' = taken /\ mishaps' = mishaps
        /\ \/ ReadMore(buffers, cur, "octet", TRUE)
           \/ cur' = cur /\ pc' = "routed" /\ reading' = FALSE /\ expand' = expand
    BY <1>10 DEF ProcessOctStream, At, Route
  <2>2. CASE ReadMore(buffers, cur, "octet", TRUE)
    BY <1>0, <2>1, <2>2, <1>18, FilledReads
  <2>3. CASE cur' = cur /\ pc' = "routed" /\ reading' = FALSE /\ expand' = expand
    BY <1>0, <2>1, <2>3, <1>18, FilledRests
  <2> QED
    BY <2>1, <2>2, <2>3
<1>11. CASE PreprocessMultipart
  <2>1. /\ pc = "header" /\ ~reading /\ request' = request /\ taken' = taken
        /\ cur' \in {0, cur} /\ expand' = expand /\ reading' = FALSE /\ pc' = "partHead"
        /\ mishaps' = mishaps
    BY <1>0, <1>11 DEF PreprocessMultipart, HeaderRead, At, FormBegins
  <2> QED
    BY <1>0, <2>1, <1>18, FilledRests
<1>12. CASE PartHeadIncomplete
  <2>1. /\ pc = "partHead" /\ ~reading /\ request' = request /\ taken' = taken /\ mishaps' = mishaps
        /\ ReadMore(buffers, cur, "partHead", FALSE)
    BY <1>12 DEF PartHeadIncomplete, At
  <2> QED
    BY <1>0, <2>1, <1>18, FilledReads
<1>13. CASE PartHeadDropped
  <2>1. /\ pc = "partHead" /\ ~reading /\ request' = request /\ taken' = taken
        /\ cur' = cur /\ expand' = expand /\ reading' = FALSE /\ pc' = "dropped" /\ mishaps' = mishaps
    BY <1>0, <1>13 DEF PartHeadDropped, At, bufferVars
  <2> QED
    BY <1>0, <2>1, <1>18, FilledRests
<1>14. CASE PartHead
  <2>1. /\ pc = "partHead" /\ ~reading /\ request' = request /\ taken' = taken /\ mishaps' = mishaps
        /\ \/ ReadAfresh("partData")
           \/ cur' = cur /\ expand' = expand /\ reading' = FALSE /\ pc' = "partData"
    BY <1>0, <1>14 DEF PartHead, At
  <2>2. CASE ReadAfresh("partData")
    BY <2>1, <2>2, <1>18, FilledAfresh
  <2>3. CASE cur' = cur /\ expand' = expand /\ reading' = FALSE /\ pc' = "partData"
    BY <1>0, <2>1, <2>3, <1>18, FilledRests
  <2> QED
    BY <2>1, <2>2, <2>3
<1>15. CASE PartDataEnds
  <2>1. /\ pc = "partData" /\ ~reading /\ request' = request /\ taken' = taken
        /\ mishaps' \in {mishaps, mishaps \cup {"cutEnd"}} /\ PartEnd >= 0
        /\ Has(Window, BoundaryStart)
    BY <1>15 DEF PartDataEnds, At
  <2>2. PartEnd \in Nat /\ start + PartEnd <= cur
    <3>1. Window \in Seq(Bytes) /\ Len(Window) = cur - start
      BY <2>1, FormFacts
    <3>2. Find(Window, BoundaryStart) \in Nat /\ Find(Window, BoundaryStart) + 2 <= Len(Window)
      BY <2>1, <3>1, Delimiters, FindProperties
    <3> QED
      BY <1>0, <2>1, <3>1, <3>2 DEF PartEnd
  <2>3. /\ cur' \in {cur, cur - (start + PartEnd)} /\ expand' = expand
        /\ reading' = FALSE /\ pc' \in {"routed", "partHead"}
    BY <1>0, <1>15, <2>1 DEF PartDataEnds, Route, bufferVars
  <2>4. cur' \in Nat /\ cur' <= cur
    BY <1>0, <2>2, <2>3
  <2> QED
    BY <2>1, <2>3, <2>4, <1>18, FilledRests
<1>16. CASE PartDataMayEnd
  <2>1. /\ pc = "partData" /\ ~reading /\ request' = request /\ taken' = taken /\ mishaps' = mishaps
    BY <1>16 DEF PartDataMayEnd, At
  <2>2. PICK n \in 0..Len(Window) :
           ReadMore(Forwarded(buffers, start + n, cur), cur - (start + n), "partData", TRUE)
    BY <1>16 DEF PartDataMayEnd
  <2>3. cur - (start + n) \in Nat /\ cur - (start + n) <= cur
    <3>1. Len(Window) = cur - start
      BY <2>1, FormFacts
    <3> QED
      BY <1>0, <2>2, <3>1
  <2> DEFINE s == Forwarded(buffers, start + n, cur)
             c == cur - (start + n)
  <2>4. ReadMore(s, c, "partData", TRUE) /\ c \in Nat /\ c <= cur
    BY <2>2, <2>3
  <2> HIDE DEF s, c
  <2> QED
    BY <2>1, <2>4, <1>18, FilledReads
<1>17. CASE PartDataGoesOn
  <2>1. /\ pc = "partData" /\ ~reading /\ request' = request /\ taken' = taken
        /\ mishaps' \in {mishaps, mishaps \cup {"swallowed"}}
        /\ ReadMore(<<>>, 0, "partData", TRUE)
    BY <1>17 DEF PartDataGoesOn, At
  <2> QED
    BY <1>0, <2>1, <1>18, FilledReads
<1> QED
  BY <1>1, <1>2, <1>3, <1>4, <1>5, <1>6, <1>7, <1>8, <1>9, <1>10, <1>11, <1>12, <1>13, <1>14,
     <1>15, <1>16, <1>17 DEF Next

\* A read is started only while something is missing.
LEMMA WaitsStep ==
    ASSUME IInv, Waits, Next
    PROVE  Waits'
<1>1. ASSUME NEW n \in 0..MaxSize, Receive(n) PROVE Waits'
  BY <1>1 DEF Receive, Waits
<1>2. CASE ReadFails
  BY <1>2 DEF ReadFails, Waits
<1>3. CASE HeaderIncomplete
  BY <1>3 DEF HeaderIncomplete, At, Waits
<1>4. CASE HeaderRefused
  BY <1>4 DEF HeaderRefused, HeaderRead, At, Waits
<1>5. CASE RouteBare
  BY <1>5 DEF RouteBare, Route, Waits
<1>6. CASE PreprocessBody
  <2>1. \/ cur' = cur - request.header /\ Len(request.body) > cur - request.header /\ pc' \in {"string", "tooLarge"}
           /\ request' = request
        \/ reading' = FALSE
    BY <1>6 DEF PreprocessBody, ReadMore, Route
  <2>2. cur \in Nat /\ request.header \in Nat /\ Len(request.body) \in Nat
    BY BodyFacts
  <2> QED
    BY <2>1, <2>2 DEF Waits
<1>7. CASE PreprocessBodyAfresh
  <2>1. cur' = 0 /\ pc' = "string" /\ request' = request /\ request.kind = "string"
    BY <1>7 DEF PreprocessBodyAfresh, ReadAfresh
  <2>2. request.body \in Seq(Bytes) /\ request.body # <<>>
    BY <2>1, BodyFacts, RequestsAssumption DEF RequestType
  <2>3. 0 < Len(request.body)
    BY <2>2
  <2> QED
    BY <2>1, <2>3 DEF Waits
<1>8. CASE ProcessBody
  <2>1. \/ cur' = cur /\ Len(request.body) > cur /\ pc' \in {"string", "tooLarge"} /\ request' = request
        \/ reading' = FALSE
    BY <1>8 DEF ProcessBody, ReadMore, Route
  <2>2. cur \in Nat /\ Len(request.body) \in Nat
    BY BodyFacts
  <2> QED
    BY <2>1, <2>2 DEF Waits
<1>9. CASE PreprocessOctStream
  BY <1>9 DEF PreprocessOctStream, HeaderRead, At, Route, Waits
<1>10. CASE ProcessOctStream
  BY <1>10 DEF ProcessOctStream, ReadMore, Route, Waits
<1>11. CASE PreprocessMultipart
  BY <1>11 DEF PreprocessMultipart, Waits
<1>12. CASE PartHeadIncomplete
  BY <1>12 DEF PartHeadIncomplete, ReadMore, Waits
<1>13. CASE PartHeadDropped
  BY <1>13 DEF PartHeadDropped, Waits
<1>14. CASE PartHead
  BY <1>14 DEF PartHead, ReadAfresh, Waits
<1>15. CASE PartDataEnds
  <2>1. reading' = FALSE \/ pc' = "partHead"
    BY <1>15, Zenon DEF PartDataEnds, Route
  <2> QED
    BY <2>1 DEF Waits
<1>16. CASE PartDataMayEnd
  BY <1>16 DEF PartDataMayEnd, ReadMore, Waits
<1>17. CASE PartDataGoesOn
  BY <1>17 DEF PartDataGoesOn, ReadMore, Waits
<1> QED
  BY <1>1, <1>2, <1>3, <1>4, <1>5, <1>6, <1>7, <1>8, <1>9, <1>10, <1>11, <1>12, <1>13, <1>14,
     <1>15, <1>16, <1>17 DEF Next

\* What is between two places of the stream.
LEMMA Between ==
    ASSUME NEW s \in Seq(Bytes), NEW a \in Nat, NEW b \in Nat, a <= b, b <= Len(s)
    PROVE  /\ SubSeq(s, a + 1, b) \in Seq(Bytes) /\ Len(SubSeq(s, a + 1, b)) = b - a
           /\ \A i \in 1..(b - a) : SubSeq(s, a + 1, b)[i] = s[a + i]
<1> DEFINE t == SubSeq(s, a + 1, b)
<1>1. t = [i \in 1..(b - a) |-> s[a + i]]
  OBVIOUS
<1>2. ASSUME NEW i \in 1..(b - a) PROVE s[a + i] \in Bytes
  <2>1. a + i \in 1..Len(s)
    BY <1>2
  <2> QED
    BY <2>1
<1>3. b - a \in Nat /\ [i \in 1..(b - a) |-> s[a + i]] \in [1..(b - a) -> Bytes]
  BY <1>2
<1> HIDE DEF t
<1>4. t \in Seq(Bytes) /\ Len(t) = b - a
  BY <1>1, <1>3, FunctionIsSeq
<1> QED
  BY <1>1, <1>4 DEF t

\* The steps that the file of an octet stream is written or closed in.
OctetSteps ==
    \/ \E n \in 0..MaxSize : Receive(n)
    \/ PreprocessOctStream \/ ProcessOctStream

LEMMA OctetElse ==
    ASSUME IInv, FormPlaced, Next, ~OctetSteps
    PROVE  /\ pc' # "octet"
           /\ pc' = "routed" => request.kind # "octet" /\ request' = request
<1> USE DEF Route
<1>1. CASE ReadFails
  BY <1>1 DEF ReadFails
<1>2. CASE HeaderIncomplete
  BY <1>2 DEF HeaderIncomplete, At
<1>3. CASE HeaderRefused
  BY <1>3 DEF HeaderRefused
<1>4. CASE RouteBare
  BY <1>4 DEF RouteBare
<1>5. CASE PreprocessBody
  BY <1>5 DEF PreprocessBody, ReadMore
<1>6. CASE PreprocessBodyAfresh
  BY <1>6 DEF PreprocessBodyAfresh, ReadAfresh
<1>7. CASE ProcessBody
  BY <1>7 DEF ProcessBody, ReadMore, At, IInv, Position
<1>8. CASE PreprocessMultipart
  BY <1>8 DEF PreprocessMultipart
<1>9. CASE PartHeadIncomplete
  BY <1>9 DEF PartHeadIncomplete, ReadMore
<1>10. CASE PartHeadDropped
  BY <1>10 DEF PartHeadDropped
<1>11. CASE PartHead
  BY <1>11 DEF PartHead, ReadAfresh
<1>12. CASE PartDataEnds
  <2>1. request.kind = "multipart" /\ request' = request
    BY <1>12 DEF PartDataEnds, At, FormPlaced
  <2>2. pc' \in {"routed", "partHead"}
    BY <1>12, Zenon DEF PartDataEnds
  <2> QED
    BY <2>1, <2>2
<1>13. CASE PartDataMayEnd
  BY <1>13 DEF PartDataMayEnd, ReadMore
<1>14. CASE PartDataGoesOn
  BY <1>14 DEF PartDataGoesOn, ReadMore
<1> QED
  BY <1>1, <1>2, <1>3, <1>4, <1>5, <1>6, <1>7, <1>8, <1>9, <1>10, <1>11, <1>12, <1>13, <1>14
  DEF Next, OctetSteps

\* The file has what was read of the body.
LEMMA OctetStep ==
    ASSUME IInv, Filled, FormPlaced, OctetKept, Next
    PROVE  OctetKept'
<1>0. /\ request \in Requests /\ taken \in Nat /\ Stream(request) \in Seq(Bytes)
      /\ request.header \in Nat /\ taken <= Len(Stream(request)) /\ Len(Stream(request)) \in Nat
  BY BodyFacts, StreamProperties DEF Filled
<1> SUFFICES ASSUME pc' = "octet"
             PROVE  /\ request'.kind = "octet" /\ cur' = 0 /\ request'.header <= taken'
                    /\ content' = IF stored' THEN SubSeq(Stream(request'), request'.header + 1, taken')
                                  ELSE <<>>
                    /\ stored' \/ "unopened" \in mishaps'
  BY DEF OctetKept
<1>1. ASSUME NEW n \in 0..MaxSize, Receive(n)
      PROVE  /\ request'.kind = "octet" /\ cur' = 0 /\ request'.header <= taken'
             /\ content' = IF stored' THEN SubSeq(Stream(request'), request'.header + 1, taken')
                           ELSE <<>>
             /\ stored' \/ "unopened" \in mishaps'
  <2>1. /\ pc = "octet" /\ request' = request /\ cur' = cur /\ taken' = taken + n /\ stored' = stored
        /\ taken + n <= Len(Stream(request)) /\ mishaps \subseteq mishaps'
        /\ content' = IF stored THEN content \o SubSeq(Stream(request), taken + 1, taken + n)
                      ELSE content
    BY <1>1 DEF Receive
  <2>2. /\ request.kind = "octet" /\ cur = 0 /\ request.header <= taken
        /\ content = IF stored THEN SubSeq(Stream(request), request.header + 1, taken) ELSE <<>>
        /\ stored \/ "unopened" \in mishaps
    BY <2>1 DEF OctetKept
  <2>3. n \in Nat
    BY SizesAssumption
  <2>4. SubSeq(Stream(request), request.header + 1, taken) \o SubSeq(Stream(request), taken + 1, taken + n)
        = SubSeq(Stream(request), request.header + 1, taken + n)
    <3>1. taken + n \in Nat /\ taken <= taken + n
      BY <1>0, <2>3
    <3> QED
      BY <1>0, <2>1, <2>2, <3>1, JoinedPieces
  <2>5. request.header <= taken + n
    BY <1>0, <2>2, <2>3
  <2> QED
    BY <2>1, <2>2, <2>4, <2>5
<1>2. CASE PreprocessOctStream
  <2>1. /\ HeaderRead /\ request' = request /\ taken' = taken /\ request.kind = "octet" /\ cur' = 0
        /\ content' = IF stored' THEN SubSeq(buffers, request.header + 1, cur) ELSE <<>>
        /\ mishaps' = IF stored' THEN mishaps ELSE mishaps \cup {"unopened"}
        /\ stored' = (cur > request.header)
    BY <1>2 DEF PreprocessOctStream, Route
  <2>2. /\ cur = taken /\ request.header <= cur /\ cur <= Len(buffers) /\ buffers \in Seq(Bytes)
        /\ \A i \in 1..cur : buffers[i] = Stream(request)[i]
    BY <2>1, HeaderFacts
  <2>3. SubSeq(buffers, request.header + 1, taken) = SubSeq(Stream(request), request.header + 1, taken)
    <3> DEFINE h == request.header
               u == SubSeq(buffers, h + 1, taken)
               v == SubSeq(Stream(request), h + 1, taken)
    <3>1. /\ u \in Seq(Bytes) /\ Len(u) = taken - h /\ \A i \in 1..(taken - h) : u[i] = buffers[h + i]
      BY <1>0, <2>2, Between
    <3>2. /\ v \in Seq(Bytes) /\ Len(v) = taken - h
          /\ \A i \in 1..(taken - h) : v[i] = Stream(request)[h + i]
      BY <1>0, <2>2, Between
    <3>3. ASSUME NEW i \in 1..(taken - h) PROVE u[i] = v[i]
      <4>1. h + i \in 1..cur
        BY <1>0, <2>2, <3>3
      <4> HIDE DEF u, v
      <4> QED
        BY <2>2, <3>1, <3>2, <4>1
    <3> HIDE DEF u, v
    <3>4. u = v
      BY <3>1, <3>2, <3>3, SeqEqual
    <3> QED
      BY <3>4 DEF u, v
  <2>4. stored' \/ "unopened" \in mishaps'
    BY <2>1
  <2> QED
    BY <2>1, <2>2, <2>3, <2>4
<1>3. CASE ProcessOctStream
  <2>1. /\ pc = "octet" /\ request' = request /\ taken' = taken /\ content' = content
        /\ mishaps' = mishaps /\ cur' = cur /\ stored' = stored
    BY <1>3 DEF ProcessOctStream, At, Route, ReadMore
  <2> QED
    BY <2>1 DEF OctetKept
<1>4. CASE ~OctetSteps
  BY <1>4, OctetElse
<1> QED
  BY <1>1, <1>2, <1>3, <1>4 DEF OctetSteps

\* A file that is closed has the whole body, or more was sent than that.
LEMMA OctetWhole ==
    ASSUME IInv, Filled, FormPlaced, OctetKept, Next, pc # "routed", pc' = "routed",
           request'.kind = "octet"
    PROVE  content' = request'.body \/ request'.extra # <<>>
<1>0. /\ request \in Requests /\ taken \in Nat /\ Stream(request) \in Seq(Bytes)
      /\ request.header \in Nat /\ taken <= Len(Stream(request)) /\ Len(Stream(request)) \in Nat
      /\ Len(Stream(request)) = request.header + Len(request.body) + Len(request.extra)
      /\ request.body \in Seq(Bytes) /\ Len(request.body) \in Nat
      /\ request.extra \in Seq(Bytes) /\ Len(request.extra) \in Nat
      /\ \A i \in 1..Len(request.body) : Stream(request)[request.header + i] = request.body[i]
  BY BodyFacts, StreamProperties, RequestsAssumption DEF Filled, RequestType
<1>1. ASSUME NEW n \in 0..MaxSize, Receive(n) PROVE FALSE
  BY <1>1 DEF Receive
<1>2. CASE PreprocessOctStream
  <2>1. /\ HeaderRead /\ request' = request /\ cur - request.header > Len(request.body)
    BY <1>2 DEF PreprocessOctStream, Route
  <2>2. cur = taken /\ cur \in Nat
    BY <2>1, HeaderFacts
  <2>3. Len(request.extra) # 0
    BY <1>0, <2>1, <2>2
  <2>4. request.extra # <<>>
    BY <2>3
  <2> QED
    BY <2>1, <2>4
<1>3. CASE ProcessOctStream
  <2>1. /\ pc = "octet" /\ request' = request /\ content' = content
        /\ Len(content) = Len(request.body)
    <3>1. pc = "octet" /\ request' = request /\ content' = content
      BY <1>3 DEF ProcessOctStream, At
    <3>2. Len(content) # Len(request.body) => pc' \in {"octet", "tooLarge"}
      BY <1>3 DEF ProcessOctStream, ReadMore
    <3> QED
      BY <3>1, <3>2
  <2>2. /\ request.header <= taken
        /\ content = IF stored THEN SubSeq(Stream(request), request.header + 1, taken) ELSE <<>>
    BY <2>1 DEF OctetKept
  <2>3. CASE stored
    <3> DEFINE h == request.header
    <3>1. /\ content \in Seq(Bytes) /\ Len(content) = taken - h
          /\ \A i \in 1..(taken - h) : content[i] = Stream(request)[h + i]
      <4> DEFINE v == SubSeq(Stream(request), h + 1, taken)
      <4>1. /\ v \in Seq(Bytes) /\ Len(v) = taken - h
            /\ \A i \in 1..(taken - h) : v[i] = Stream(request)[h + i]
        BY <1>0, <2>2, Between
      <4>2. content = v
        BY <2>2, <2>3
      <4> HIDE DEF v
      <4> QED
        BY <4>1, <4>2
    <3>2. \A i \in 1..Len(content) : content[i] = request.body[i]
      BY <1>0, <2>1, <3>1
    <3>3. content = request.body
      BY <1>0, <2>1, <3>1, <3>2, SeqEqual
    <3> QED
      BY <2>1, <3>3
  <2>4. CASE ~stored
    <3>1. content = <<>>
      BY <2>2, <2>4
    <3>2. Len(request.body) = 0
      BY <2>1, <3>1
    <3>3. request.body = <<>>
      BY <1>0, <3>2
    <3> QED
      BY <2>1, <3>1, <3>3
  <2> QED
    BY <2>3, <2>4
<1>4. CASE ~OctetSteps
  BY <1>4, OctetElse
<1> QED
  BY <1>1, <1>2, <1>3, <1>4 DEF OctetSteps

\* The steps that call the route.
RouteSteps ==
    \/ RouteBare \/ PreprocessBody \/ ProcessBody
    \/ PreprocessOctStream \/ ProcessOctStream \/ PartDataEnds

LEMMA NotRouted ==
    ASSUME IInv, Next
    PROVE  pc # "routed"
<1>1. reading => pc \in Handlers
  BY DEF IInv, Sized
<1>2. reading \/ \E handler \in Handlers : pc = handler
  BY DEF Next, Receive, ReadFails, HeaderIncomplete, HeaderRefused, RouteBare, PreprocessBody,
         PreprocessBodyAfresh, ProcessBody, PreprocessOctStream, ProcessOctStream,
         PreprocessMultipart, PartHeadIncomplete, PartHeadDropped, PartHead, PartDataEnds,
         PartDataMayEnd, PartDataGoesOn, HeaderRead, At, Handlers
<1> QED
  BY <1>1, <1>2 DEF Handlers

LEMMA RouteElse ==
    ASSUME IInv, Next, ~RouteSteps
    PROVE  pc' # "routed"
<1>0. pc # "routed"
  BY NotRouted
<1>1. ASSUME NEW n \in 0..MaxSize, Receive(n) PROVE pc' # "routed"
  BY <1>0, <1>1 DEF Receive
<1>2. CASE ReadFails
  BY <1>2 DEF ReadFails
<1>3. CASE HeaderIncomplete
  BY <1>0, <1>3 DEF HeaderIncomplete
<1>4. CASE HeaderRefused
  BY <1>4 DEF HeaderRefused
<1>5. CASE PreprocessBodyAfresh
  BY <1>5 DEF PreprocessBodyAfresh, ReadAfresh
<1>6. CASE PreprocessMultipart
  BY <1>6 DEF PreprocessMultipart
<1>7. CASE PartHeadIncomplete
  BY <1>7 DEF PartHeadIncomplete, ReadMore
<1>8. CASE PartHeadDropped
  BY <1>8 DEF PartHeadDropped
<1>9. CASE PartHead
  BY <1>9 DEF PartHead, ReadAfresh
<1>10. CASE PartDataMayEnd
  BY <1>10 DEF PartDataMayEnd, ReadMore
<1>11. CASE PartDataGoesOn
  BY <1>11 DEF PartDataGoesOn, ReadMore
<1> QED
  BY <1>1, <1>2, <1>3, <1>4, <1>5, <1>6, <1>7, <1>8, <1>9, <1>10, <1>11 DEF Next, RouteSteps

\* A form that is routed has all its parts.
LEMMA FormWhole ==
    ASSUME IInv, Filled, FormPlaced, OctetKept, FormFollows, Next, pc' = "routed",
           request'.kind = "multipart", Encodes(request'),
           mishaps' \cap {"swallowed", "cutEnd"} = {}
    PROVE  form' = request'.parts
<1>1. CASE RouteBare
  BY <1>1 DEF RouteBare
<1>2. CASE PreprocessBody
  BY <1>2 DEF PreprocessBody
<1>3. CASE ProcessBody
  BY <1>3 DEF ProcessBody, At, IInv, Position
<1>4. CASE PreprocessOctStream
  BY <1>4 DEF PreprocessOctStream
<1>5. CASE ProcessOctStream
  BY <1>5 DEF ProcessOctStream, At, OctetKept
<1>6. CASE PartDataEnds
  <2>1. /\ pc = "partData" /\ request' = request
        /\ mishaps' = IF EndCut THEN mishaps \cup {"cutEnd"} ELSE mishaps
    <3>1. pc = "partData" /\ mishaps' = IF EndCut THEN mishaps \cup {"cutEnd"} ELSE mishaps
      BY <1>6 DEF PartDataEnds, At
    <3> QED
      BY <1>6, <3>1, PartDataEndsMoves
  <2>2. mishaps \cap {"swallowed", "cutEnd"} = {} /\ "cutEnd" \notin mishaps' /\ Encodes(request)
    <3>1. mishaps \subseteq mishaps'
      BY <2>1
    <3> QED
      BY <2>1, <3>1
  <2>3. PICK k \in 1..(Len(request.at) - 1) : DataNext(k)
    BY <2>1, <2>2 DEF FormFollows
  <2>4. /\ Recorded(k, request.parts[PartName(request, k)])' /\ k + 1 = Len(request.at)
    BY <1>6, <2>2, <2>3, EndsFollow
  <2>5. request \in Requests
    BY BodyFacts
  <2> DEFINE r == request'
             f == form'
  <2>6. r \in Requests /\ Encodes(r) /\ k \in 1..(Len(r.at) - 1) /\ k + 1 = Len(r.at)
    <3>1. request' = request
      BY <2>1
    <3> QED
      BY <2>2, <2>3, <2>4, <2>5, <3>1, Zenon
  <2>7. f = [n \in Names |->
               IF n = PartName(r, k) THEN r.parts[PartName(r, k)]
               ELSE IF \E j \in 1..(k - 1) : n = PartName(r, j) THEN r.parts[n] ELSE <<>>]
    BY <2>4 DEF Recorded, PartName
  <2>8. f = r.parts
    <3> HIDE DEF r, f
    <3> QED
      BY <2>6, <2>7, RecordedAll
  <2> QED
    BY <2>8
<1>7. CASE ~RouteSteps
  BY <1>7, RouteElse
<1> QED
  BY <1>1, <1>2, <1>3, <1>4, <1>5, <1>6, <1>7 DEF RouteSteps

\* Initially nothing is read and nothing is waited for in vain.
LEMMA InitBody == Init => BodyInv
<1> SUFFICES ASSUME Init PROVE BodyInv
  OBVIOUS
<1>1. /\ request \in Requests /\ taken = 0 /\ cur = 0 /\ start = 0 /\ left = InitialSize
      /\ expand = InitialSize /\ pc = "header" /\ reading = TRUE /\ mishaps = {}
      /\ form = [n \in Names |-> <<>>]
  BY DEF Init
<1>2. request.header \in Nat \ {0} /\ Len(Stream(request)) \in Nat
  BY <1>1, StreamProperties
<1>3. Waits
  BY <1>1, <1>2 DEF Waits
<1>4. Filled
  <2>1. expand <= taken + left
    BY <1>1, SizesAssumption
  <2> QED
    BY <1>1, <1>2, <2>1 DEF Filled
<1> QED
  BY <1>1, <1>3, <1>4 DEF BodyInv, OctetKept, FormPlaced, FormApart, FormFollows, BodyWhole

LEMMA StutterBody ==
    ASSUME BodyInv, UNCHANGED vars
    PROVE  BodyInv'
<1>1. /\ request' = request /\ taken' = taken /\ buffers' = buffers /\ cur' = cur /\ left' = left
      /\ start' = start /\ expand' = expand /\ pc' = pc /\ reading' = reading /\ content' = content
      /\ stored' = stored /\ part' = part /\ form' = form /\ mishaps' = mishaps
  BY DEF vars, bufferVars, bodyVars
<1>2. Pos' = Pos /\ Got' = Got
  BY <1>1 DEF Pos, Got
<1>3. Waits' /\ Filled' /\ OctetKept'
  BY <1>1 DEF BodyInv, Waits, Filled, OctetKept
<1>4. FormPlaced' /\ FormApart'
  BY <1>1, <1>2 DEF BodyInv, FormPlaced, FormApart
<1>5. FormFollows'
  <2>1. \A k : HeadNext(k)' <=> HeadNext(k)
    BY <1>1, <1>2 DEF HeadNext, Recorded, PartName, DataAt
  <2>2. \A k : DataNext(k)' <=> DataNext(k)
    BY <1>1, <1>2 DEF DataNext, Recorded, PartName, DataAt
  <2> QED
    BY <1>1, <2>1, <2>2 DEF BodyInv, FormFollows
<1>6. BodyWhole'
  BY <1>1 DEF BodyInv, BodyWhole
<1> QED
  BY <1>3, <1>4, <1>5, <1>6 DEF BodyInv

LEMMA NextBody == IInv /\ IInv' /\ BodyInv /\ [Next]_vars => BodyInv'
<1> SUFFICES ASSUME IInv, IInv', BodyInv, Next PROVE BodyInv'
  BY StutterBody
<1>1. Waits /\ OctetKept /\ Filled /\ FormPlaced /\ FormApart /\ FormFollows
  BY DEF BodyInv
<1>2. Waits' /\ OctetKept' /\ Filled'
  BY <1>1, WaitsStep, OctetStep, FilledStep
<1>3. FormPlaced' /\ FormApart' /\ FormFollows'
  BY <1>1, FormPlacedStep, FormApartStep, FormFollowsStep
<1>4. BodyWhole'
  <2> SUFFICES ASSUME pc' = "routed" PROVE BodyWhole'
    BY DEF BodyWhole
  <2>1. CASE request'.kind = "string"
    BY <2>1 DEF IInv, TextWhole, BodyWhole
  <2>2. CASE request'.kind = "octet"
    BY <1>1, <2>2, NotRouted, OctetWhole DEF BodyWhole
  <2>3. CASE request'.kind = "multipart"
    BY <1>1, <2>3, FormWhole DEF BodyWhole
  <2>4. CASE request'.kind \notin {"string", "octet", "multipart"}
    BY <2>4 DEF BodyWhole
  <2> QED
    BY <2>1, <2>2, <2>3, <2>4
<1> QED
  BY <1>2, <1>3, <1>4 DEF BodyInv

\* When everything was read, nothing is waited for that is not excepted.
LEMMA NothingMissing ==
    ASSUME IInv, BodyInv, reading, taken = Len(Stream(request))
    PROVE  \/ mishaps \cap {"headerOverflow", "swallowed", "cutEnd", "unopened"} # {}
           \/ request.kind = "octet" /\ request.extra # <<>>
           \/ request.kind = "multipart" /\ ~Encodes(request)
<1> SUFFICES ASSUME mishaps \cap {"headerOverflow", "swallowed", "cutEnd", "unopened"} = {},
                    ~(request.kind = "octet" /\ request.extra # <<>>),
                    ~(request.kind = "multipart" /\ ~Encodes(request))
             PROVE  FALSE
  OBVIOUS
<1>1. /\ request \in Requests /\ cur \in Nat /\ start \in Nat /\ taken \in Nat
      /\ request.header \in Nat /\ Len(request.body) \in Nat /\ Stream(request) \in Seq(Bytes)
      /\ Len(request.extra) \in Nat
      /\ taken = request.header + Len(request.body) + Len(request.extra)
  BY BodyFacts, StreamProperties, RequestsAssumption DEF RequestType
<1>2. pc \in Handlers
  BY DEF IInv, Sized
<1>3. Waits /\ OctetKept /\ FormPlaced /\ FormFollows
  BY DEF BodyInv
<1>4. "unopened" \notin mishaps /\ mishaps \cap {"swallowed", "cutEnd"} = {}
  OBVIOUS
<1>5. Got \in Nat /\ Len(request.body) <= Got
  <2>1. ASSUME NEW h \in Nat, NEW b \in Nat, NEW e \in Nat
        PROVE  (h + b + e) - h \in Nat /\ b <= (h + b + e) - h
    OBVIOUS
  <2> QED
    BY <1>1, <2>1, Zenon DEF Got
<1>6. CASE pc = "header"
  <2>1. cur < request.header /\ cur = taken
    BY <1>3, <1>6 DEF Waits, IInv, Position
  <2> QED
    BY <1>1, <2>1
<1>7. CASE pc = "string"
  <2>1. cur < Len(request.body) /\ cur + request.header = taken
    BY <1>3, <1>7 DEF Waits, IInv, Position
  <2> QED
    BY <1>1, <2>1
<1>8. CASE pc = "octet"
  <2>1. /\ Len(content) # Len(request.body) /\ request.extra = <<>> /\ request.header <= taken
        /\ content = SubSeq(Stream(request), request.header + 1, taken)
    BY <1>3, <1>4, <1>8 DEF Waits, OctetKept
  <2> DEFINE s == SubSeq(Stream(request), request.header + 1, taken)
  <2>2. Len(s) = taken - request.header
    <3>1. /\ request.header \in Nat /\ taken \in Nat /\ request.header <= taken
          /\ Stream(request) \in Seq(Bytes) /\ taken <= Len(Stream(request))
      BY <1>1, <2>1
    <3> QED
      BY <3>1, Between
  <2>3. Len(request.extra) = 0 /\ Len(s) # Len(request.body)
    BY <2>1
  <2> HIDE DEF s
  <2> QED
    BY <1>1, <2>2, <2>3
<1>9. CASE pc = "partHead"
  <2>1. Encodes(request)
    BY <1>3, <1>9 DEF FormPlaced
  <2>2. PICK k \in 1..(Len(request.at) - 1) : HeadNext(k)
    BY <1>3, <1>4, <1>9, <2>1 DEF FormFollows
  <2>3. /\ request.at[k + 1] \in Nat /\ DataAt(request, k) + 2 <= request.at[k + 1]
        /\ request.at[k + 1] + 3 <= Len(request.body)
        /\ request.at[k] \in Nat /\ DataAt(request, k) = request.at[k] + 9
    BY <1>1, <2>1, PartPlaces
  <2>4. Got < DataAt(request, k)
    BY <2>2 DEF HeadNext
  <2>5. ASSUME NEW g \in Nat, NEW b \in Nat, NEW d \in Nat, NEW a \in Nat,
               b <= g, g < d, d + 2 <= a, a + 3 <= b
        PROVE  FALSE
    BY <2>5
  <2>6. DataAt(request, k) \in Nat
    BY <2>3
  <2> QED
    BY <1>1, <1>5, <2>3, <2>4, <2>5, <2>6, Zenon
<1>10. CASE pc = "partData"
  <2>1. Encodes(request)
    BY <1>3, <1>10 DEF FormPlaced
  <2>2. PICK k \in 1..(Len(request.at) - 1) : DataNext(k)
    BY <1>3, <1>4, <1>10, <2>1 DEF FormFollows
  <2>3. /\ request.at[k + 1] \in Nat /\ request.at[k + 1] + 3 <= Len(request.body)
    BY <1>1, <2>1, PartPlaces
  <2>4. Got < request.at[k + 1] + 2
    BY <2>2, Delimiters DEF DataNext
  <2>5. ASSUME NEW g \in Nat, NEW b \in Nat, NEW a \in Nat, b <= g, g < a + 2, a + 3 <= b
        PROVE  FALSE
    BY <2>5
  <2> QED
    BY <1>1, <1>5, <2>3, <2>4, <2>5, Zenon
<1> QED
  BY <1>2, <1>6, <1>7, <1>8, <1>9, <1>10 DEF Handlers

\* The boundary found is not the one before the data, and its CR LF is ahead.
LEMMA EndNotBefore ==
    ASSUME IInv, BodyInv, At("partData"), Has(Window, BoundaryStart), Encodes(request)
    PROVE  PartEnd >= 0
<1>1. Filled /\ FormPlaced /\ FormApart /\ pc = "partData" /\ ~reading
  BY DEF BodyInv, At
<1>2. request \in Requests /\ Pos \in Nat /\ Window \in Seq(Bytes)
  BY <1>1, WindowSent
<1> DEFINE f == Find(Window, BoundaryStart)
<1>3. f \in Nat
  BY <1>2, Delimiters, FindProperties
<1>4. PICK k \in 1..Len(request.at) : request.at[k] = Pos + f
  BY <1>1, BoundaryFound
<1>5. Len(request.at) \in Nat /\ request.at[k] \in Nat
  BY <1>2, FormPlaces
<1>6. PartEnd = f - 2
  BY DEF PartEnd
<1> HIDE DEF f
<1>7. request.at[1] < Pos /\ (k = 1 \/ k \in 2..Len(request.at))
  BY <1>1, <1>5 DEF FormApart
<1>8. request.at[k] < Pos \/ Pos + 2 <= request.at[k]
  BY <1>1, <1>7 DEF FormApart
<1> QED
  BY <1>2, <1>3, <1>4, <1>5, <1>6, <1>8

LEMMA InvServed == IInv /\ BodyInv => Served
<1> SUFFICES ASSUME IInv, BodyInv PROVE Served
  OBVIOUS
<1>1. reading /\ taken = Len(Stream(request)) =>
         \/ mishaps \cap {"headerOverflow", "swallowed", "cutEnd", "unopened"} # {}
         \/ request.kind = "octet" /\ request.extra # <<>>
         \/ request.kind = "multipart" /\ ~Encodes(request)
  BY NothingMissing
<1>2. At("partData") /\ Has(Window, BoundaryStart) /\ Encodes(request) => PartEnd >= 0
  BY EndNotBefore
<1>3. pc = "tooLarge" => "shortRead" \in mishaps \/ 2 * taken > MaxSize
  BY DEF BodyInv, Filled
<1> QED
  BY <1>1, <1>2, <1>3 DEF Served

-----------------------------------------------------------------------------
(* The theorems.                                                           *)

\* Every reachable state satisfies the inductive invariant.
THEOREM InductiveInvariant == Spec => []IInv
  BY InitInv, NextInv, PTL DEF Spec

\* The sizes stay values of std::size_t, the buffer holds bytes.
THEOREM TypeCorrect == Spec => []TypeOK
<1>1. IInv => TypeOK
  BY DEF IInv
<1> QED
  BY <1>1, InductiveInvariant, PTL

\* For requests of any length and segments of any size: a read stays within the
\* buffer, and what a handler finds there is what the peer sent last.
THEOREM BufferSoundHolds == Spec => []BufferSound
  BY InvBuffer, InductiveInvariant, PTL

\* The route of a request with a text sees the text that was sent.
THEOREM TextWholeHolds == Spec => []TextWhole
<1>1. IInv => TextWhole
  BY DEF IInv
<1> QED
  BY <1>1, InductiveInvariant, PTL

\* Every reachable state satisfies the invariant of the body.
THEOREM BodyInvariant == Spec => []BodyInv
<1>1. Init => BodyInv
  BY InitBody
<1>2. IInv /\ IInv' /\ BodyInv /\ [Next]_vars => BodyInv'
  BY NextBody
<1> QED
  BY <1>1, <1>2, InductiveInvariant, PTL DEF Spec

\* For requests of any length in segments of any size and buffers of any size: a
\* route sees the text, the file or the form that was sent, unless one of the named
\* mishaps happened.
THEOREM BodyWholeHolds == Spec => []BodyWhole
<1>1. BodyInv => BodyWhole
  BY DEF BodyInv
<1> QED
  BY <1>1, BodyInvariant, PTL

\* No handler waits for more than the peer sends, finds a boundary where there is no
\* room for its CR LF, or refuses what is not large, but for what is excepted.
THEOREM ServedHolds == Spec => []Served
  BY InvServed, InductiveInvariant, BodyInvariant, PTL
=============================================================================
