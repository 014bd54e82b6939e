----------------------- MODULE WebsocketReaderProofs -----------------------
(***************************************************************************)
(* Proofs about WebsocketReader, for any number of closing threads, any    *)
(* payload lengths and any number of frames, and about FrameWriter, for    *)
(* texts and frames of any length.                                         *)
(*                                                                         *)
(* Shut is what ReadTimed needs of the threads that close.  Gathers says   *)
(* at each stage of a frame what the buffer has of the message, which      *)
(* MessageWhole says of the whole one; WrittenBack that a message which is *)
(* written back is what FrameWriter cuts of it.                            *)
(***************************************************************************)
EXTENDS MCWebsocketReader, SequenceTheorems, FiniteSetTheorems, TLAPS

\* A thread that has closed the socket goes on to clear the flag, and a flag
\* that is cleared says that the socket is closed.
Shut ==
    /\ \A t \in Threads : pc[t] \in {"clearOpen", "timers", "remove"} => ~sockOpen
    /\ ioPc # "move" /\ ~open => ~sockOpen

\* The buffer is as long as expand_buffer thinks, and once its sum has wrapped
\* the payload is waited for and never complete.
Room ==
    /\ pos <= Len(buffers) \/
         /\ Wrapped
         /\ ioPc \in {"idle", "ended"}
         /\ \A k \in Kinds \ {"data"} : reads[k] = "none"
    /\ reads["data"] = "ok" => pos + info.len <= Len(buffers)

\* The first n bytes of the message are in the buffer, unmasked.
Gathered(n) == \A i \in 1 .. n : buffers[i] = whole[i]

\* All the peer has sent of the message is in the buffer, before pos.
AllGathered == pos = Len(whole) /\ Gathered(pos)

\* The frame is one frame_parser goes on with.
GoesOn == wire.op \in DataOps /\ wire.masked /\ ~wire.split

\* Between two frames the buffer holds the message so far, or nothing.
BetweenFrames ==
    ioPc \notin {"idle", "ended"} \/ reads["head"] = "sent" =>
        IF inMessage THEN AllGathered /\ opcode = wholeOp ELSE pos = 0

\* Once the head of a frame is read, the frame belongs to the message ...
HeadRead ==
    reads["head"] = "ok" /\ GoesOn =>
        /\ AllGathered
        /\ inMessage = ~wire.fin
        /\ wholeOp = IF wire.op = Continuation THEN opcode ELSE wire.op

\* ... frame_info_ says of it what the peer has sent, as far as it was read ...
InfoRead ==
    /\ (reads["length"] \in {"sent", "ok"} \/ reads["key"] \in {"sent", "ok"}
            \/ reads["data"] = "sent") =>
         /\ pos <= Len(buffers) => AllGathered
         /\ inMessage = ~info.fin
         /\ opcode = wholeOp
    /\ reads["key"] \in {"sent", "ok"} \/ reads["data"] = "sent" => info.len = wire.len
    /\ reads["data"] = "sent" => info.key = wire.key /\ info.len > 0

\* ... and its payload comes behind the bytes that were there, masked.
PayloadRead ==
    reads["data"] = "ok" =>
        /\ Len(whole) = pos + info.len
        /\ Gathered(pos)
        /\ \A i \in pos + 1 .. pos + info.len : buffers[i] = Xor(whole[i], info.key)
        /\ inMessage = ~info.fin
        /\ opcode = wholeOp
        /\ info.len > 0

\* How the payloads of the peer's frames become its message.
Gathers == BetweenFrames /\ HeadRead /\ InfoRead /\ PayloadRead /\ MessageWhole

\* What a "message" event has written back is the message, cut, and stays so
\* until the next read is started.
WrittenBack == out # <<>> => ioPc = "start" /\ out = Cut(message, Text, FrameSize)

\* The inductive invariant.
IInv == Types /\ Room /\ OneReader /\ BufferFits /\ ReadTimed /\ Shut /\ Gathers /\ WrittenBack

-----------------------------------------------------------------------------
(* Sequences and bytes.                                                    *)

\* A function on 1 .. n is a sequence of n elements.
LEMMA FunctionIsSeq ==
    ASSUME NEW S, NEW n \in Nat, NEW f \in [1 .. n -> S]
    PROVE  f \in Seq(S) /\ Len(f) = n
<1>1. f \in Seq(S)
  BY SeqDef
<1>2. Len(f) \in Nat /\ DOMAIN f = 1 .. Len(f) /\ DOMAIN f = 1 .. n
  BY <1>1, LenProperties
<1> QED
  BY <1>1, <1>2

\* Masking and unmasking leave bytes.
LEMMA XorByte == ASSUME NEW b \in Bytes, NEW key \in Keys PROVE Xor(b, key) \in Bytes
<1>1. (b.mask + key) % 2 \in Keys
  BY DEF Bytes, Keys
<1> QED
  BY <1>1 DEF Xor, Bytes

\* Unmasking undoes the masking.
LEMMA XorTwice ==
    ASSUME NEW b \in Bytes, NEW key \in Keys PROVE Xor(Xor(b, key), key) = b
<1>1. b.mask \in {0, 1} /\ key \in {0, 1}
  BY DEF Bytes, Keys
<1>2. (((b.mask + key) % 2) + key) % 2 = b.mask
  BY <1>1
<1> QED
  BY <1>2 DEF Xor, Bytes

\* expand_buffer makes the buffer as long as asked.
LEMMA ResizeSeq ==
    ASSUME NEW b \in Seq(Bytes), NEW n \in Nat
    PROVE  Resize(b, n) \in Seq(Bytes) /\ Len(Resize(b, n)) = n
<1>1. ZeroByte \in Bytes
  BY DEF ZeroByte, Plain, Bytes, Keys
<1>2. \A i \in 1 .. n : i <= Len(b) => b[i] \in Bytes
  BY LenProperties
<1>3. Resize(b, n) \in [1 .. n -> Bytes]
  BY <1>1, <1>2 DEF Resize
<1> QED
  BY <1>3, FunctionIsSeq

\* What does not reach the width stays as it is.
LEMMA ModFacts ==
    ASSUME NEW n \in Nat, NEW w \in Nat \ {0}
    PROVE  n % w \in Nat /\ (n < w => n % w = n)
<1> DEFINE q == n \div w
           r == n % w
<1>1. q \in Nat /\ r \in 0 .. w - 1 /\ n = w * q + r
  OBVIOUS
<1> HIDE DEF q, r
<1>2. ASSUME n < w, q # 0 PROVE FALSE
  <2>1. PICK p \in Nat : q = p + 1
    <3>1. q - 1 \in Nat /\ q = (q - 1) + 1
      BY <1>1, <1>2
    <3> QED
      BY <3>1
  <2>2. w * q = w * p + w /\ w * p \in Nat
    BY <2>1
  <2> QED
    BY <1>1, <1>2, <2>2
<1>3. n < w => r = n
  BY <1>1, <1>2
<1> QED
  BY <1>1, <1>3 DEF r

\* The length expand_buffer asks for holds the payload, unless its sum wraps.
LEMMA TotalSizeFits ==
    ASSUME Len(buffers) \in Nat, pos \in Nat, info.len \in Nat
    PROVE  /\ TotalSize \in Nat
           /\ \/ pos + info.len <= TotalSize
              \/ pos + info.len >= WordSize /\ TotalSize = (pos + info.len) % WordSize
<1> DEFINE sum == pos + info.len
           left == Len(buffers) - pos
<1>1. WordSize \in Nat \ {0} /\ sum \in Nat
  BY ReaderAssumption
<1>2. /\ sum % WordSize \in Nat
      /\ sum < WordSize => sum % WordSize = sum
  BY <1>1, ModFacts
<1>3. CASE info.len > left
  <2>1. Len(buffers) + (info.len - left) = sum
    OBVIOUS
  <2>2. TotalSize = sum % WordSize
    BY <1>3, <2>1 DEF TotalSize
  <2> HIDE DEF sum
  <2>3. sum < WordSize \/ sum >= WordSize
    BY <1>1
  <2>4. sum < WordSize => sum <= TotalSize
    BY <1>1, <1>2, <2>2
  <2> QED
    BY <1>2, <2>2, <2>3, <2>4 DEF sum
<1>4. CASE ~(info.len > left)
  <2>1. TotalSize = Len(buffers)
    BY <1>4 DEF TotalSize
  <2> QED
    BY <1>4, <2>1
<1> QED
  BY <1>3, <1>4

\* A buffer some of whose bytes change is as long as it was.
LEMMA SameLength ==
    ASSUME NEW b \in Seq(Bytes), NEW c \in [DOMAIN b -> Bytes]
    PROVE  c \in Seq(Bytes) /\ Len(c) = Len(b)
<1>1. Len(b) \in Nat /\ DOMAIN b = 1 .. Len(b)
  BY LenProperties
<1> QED
  BY <1>1, FunctionIsSeq

-----------------------------------------------------------------------------
(* The frames of a message that is written back (websocket::write).        *)

\* A set of numbers that is not empty has a smallest one: of the intervals from
\* 0 to its elements one lies in all the others.
LEMMA Smallest ==
    ASSUME NEW T \in SUBSET Nat, T # {}
    PROVE  \E j \in T : \A k \in T : j <= k
<1> DEFINE Below == {0..j : j \in T}
<1>1. Below \subseteq FiniteSubsetsOf(Nat) /\ Below # {}
  <2>1. ASSUME NEW j \in T PROVE 0..j \in SUBSET Nat /\ IsFiniteSet(0..j)
    BY FS_Interval
  <2> QED
    BY <2>1 DEF FiniteSubsetsOf
<1>2. IsWellFoundedOn(StrictSubsetOrdering(Nat), FiniteSubsetsOf(Nat))
  BY FS_StrictSubsetOrderingWellFounded
<1>3. \E x \in Below : \A y \in Below : ~(<<y, x>> \in StrictSubsetOrdering(Nat))
  <2> HIDE DEF Below
  <2> QED
    BY <1>1, <1>2, WFMin, Zenon
<1>4. PICK j \in T : \A k \in T : ~(<<0..k, 0..j>> \in StrictSubsetOrdering(Nat))
  BY <1>3
<1>5. ASSUME NEW k \in T, ~(j <= k) PROVE FALSE
  <2>1. 0..k \subseteq 0..j /\ j \in 0..j /\ j \notin 0..k
    BY <1>5
  <2>2. 0..k # 0..j /\ 0..k \in SUBSET Nat /\ 0..j \in SUBSET Nat
    BY <2>1
  <2> QED
    BY <1>4, <2>1, <2>2 DEF StrictSubsetOrdering
<1> QED
  BY <1>5

\* Pieces in a row are what adding them one by one leads to.
LEMMA FlattenPieces ==
    ASSUME NEW n \in Nat \ {0}, NEW seqs, Len(seqs) = n,
           NEW sum, sum = [i \in 1 .. n |-> IF i = 1 THEN seqs[i] ELSE sum[i-1] \o seqs[i]]
    PROVE  FlattenSeq(seqs) = sum[n]
<1> DEFINE Solves(f) == f = [i \in 1 .. Len(seqs) |-> IF i = 1 THEN seqs[i] ELSE f[i-1] \o seqs[i]]
           flatten == CHOOSE f : Solves(f)
<1>1. Solves(flatten)
  <2>1. Solves(sum)
    OBVIOUS
  <2> HIDE DEF Solves
  <2> QED
    BY <2>1
<1>2. FlattenSeq(seqs) = flatten[n]
  BY DEF FlattenSeq
<1> HIDE DEF flatten
<1>3. flatten = [i \in 1 .. n |-> IF i = 1 THEN seqs[i] ELSE flatten[i-1] \o seqs[i]]
  BY <1>1
<1> DEFINE Wrong == {i \in 1 .. n : flatten[i] # sum[i]}
<1>4. ASSUME Wrong # {} PROVE FALSE
  <2>1. PICK j \in Wrong : \A k \in Wrong : j <= k
    <3>1. Wrong \in SUBSET Nat
      OBVIOUS
    <3> HIDE DEF Wrong
    <3> QED
      BY <1>4, <3>1, Smallest
  <2>2. CASE j = 1
    BY <1>3, <2>1, <2>2
  <2>3. CASE j # 1
    <3>1. j - 1 \in 1 .. n /\ j - 1 \notin Wrong
      BY <2>1, <2>3
    <3>2. flatten[j-1] = sum[j-1]
      BY <3>1
    <3>3. flatten[j] = flatten[j-1] \o seqs[j]
      BY <1>3, <2>1, <2>3
    <3>4. sum[j] = sum[j-1] \o seqs[j]
      BY <2>1, <2>3
    <3> QED
      BY <2>1, <3>2, <3>3, <3>4
  <2> QED
    BY <2>2, <2>3
<1>5. n \in 1 .. n
  OBVIOUS
<1> QED
  BY <1>2, <1>4, <1>5

\* A single piece is all of it.
LEMMA FlattenOne ==
    ASSUME NEW piece
    PROVE  FlattenSeq(<< piece >>) = piece
<1> DEFINE seqs == << piece >>
           sum == [i \in 1 .. 1 |-> piece]
<1>1. Len(seqs) = 1 /\ seqs[1] = piece /\ sum[1] = piece /\ 1 \in Nat \ {0}
  OBVIOUS
<1>2. sum = [i \in 1 .. 1 |-> IF i = 1 THEN seqs[i] ELSE sum[i-1] \o seqs[i]]
  BY <1>1
<1> HIDE DEF seqs, sum
<1>3. FlattenSeq(seqs) = sum[1]
  BY ONLY <1>1, <1>2, FlattenPieces
<1> QED
  BY <1>1, <1>3 DEF seqs

\* Two neighbouring parts of a sequence make one.
LEMMA JoinParts ==
    ASSUME NEW S, NEW s \in Seq(S), NEW a \in Nat, NEW b \in Nat, a <= b, b <= Len(s)
    PROVE  SubSeq(s, 1, a) \o SubSeq(s, a + 1, b) = SubSeq(s, 1, b)
<1>1. Len(s) \in Nat /\ DOMAIN s = 1 .. Len(s)
  BY LenProperties
<1>2. \A i \in 1 .. b : s[i] \in S
  BY <1>1
<1>3. /\ SubSeq(s, 1, a) = [i \in 1 .. a |-> s[i]]
      /\ SubSeq(s, 1, b) = [i \in 1 .. b |-> s[i]]
      /\ SubSeq(s, a + 1, b) = [i \in 1 .. b - a |-> s[a + i]]
  BY <1>1
<1>4. /\ SubSeq(s, 1, a) \in Seq(S) /\ Len(SubSeq(s, 1, a)) = a
      /\ SubSeq(s, a + 1, b) \in Seq(S) /\ Len(SubSeq(s, a + 1, b)) = b - a
  BY <1>2, <1>3, SubSeqProperties
<1>5. SubSeq(s, 1, a) \o SubSeq(s, a + 1, b) =
        [i \in 1 .. b |-> IF i <= a THEN SubSeq(s, 1, a)[i] ELSE SubSeq(s, a + 1, b)[i - a]]
  BY <1>4
<1>6. \A i \in 1 .. b :
        (IF i <= a THEN SubSeq(s, 1, a)[i] ELSE SubSeq(s, a + 1, b)[i - a]) = s[i]
  BY <1>3
<1> QED
  BY <1>3, <1>5, <1>6

\* A message of n bytes fills all its frames but the last, which is not empty.
LEMMA CountsFacts ==
    ASSUME NEW n \in Nat \ {0}, NEW size \in Nat \ {0}
    PROVE  /\ Counts(n, size) \in Nat \ {0}
           /\ (Counts(n, size) - 1) * size < n
           /\ n <= Counts(n, size) * size
<1> DEFINE q == n \div size
           r == n % size
<1>1. q \in Nat /\ r \in 0 .. size - 1 /\ n = size * q + r
  OBVIOUS
<1>2. Counts(n, size) = q + (IF r # 0 THEN 1 ELSE 0)
  BY DEF Counts
<1> HIDE DEF q, r
<1>3. CASE r = 0
  <2>1. Counts(n, size) = q /\ n = size * q /\ q # 0
    BY <1>1, <1>2, <1>3
  <2>2. (q - 1) * size = size * q - size /\ q * size = size * q
    BY <1>1
  <2> QED
    BY <1>1, <2>1, <2>2
<1>4. CASE r # 0
  <2>1. Counts(n, size) = q + 1
    BY <1>2, <1>4
  <2>2. (q + 1) * size = size * q + size /\ (q + 1 - 1) * size = size * q /\ size * q \in Nat
    BY <1>1
  <2> QED
    BY <1>1, <1>4, <2>1, <2>2
<1> QED
  BY <1>3, <1>4

LEMMA SubSeqWithin ==
    ASSUME NEW A, NEW s \in Seq(A), NEW i \in Nat, NEW j \in Nat, j <= Len(s)
    PROVE  SubSeq(s, i + 1, j) \in Seq(A)
  OBVIOUS

\* What the frames of a message are: all of it, piece by piece, the first and
\* only the first with the opcode, the last and only the last final.
LEMMA CutCarries ==
    ASSUME NEW text \in Seq(Bytes), Len(text) > 0
    PROVE  LET cut == Cut(text, Text, FrameSize) IN
           /\ FlattenSeq([i \in DOMAIN cut |-> cut[i].data]) = text
           /\ \A i \in DOMAIN cut :
                  /\ cut[i].len = Len(cut[i].data)
                  /\ cut[i].form = Form(cut[i].len)
                  /\ cut[i].op = (IF i = 1 THEN Text ELSE 0)
                  /\ cut[i].fin <=> (i = Len(cut))
<1> DEFINE n == Len(text)
           cut == Cut(text, Text, FrameSize)
           c == Counts(n, FrameSize)
           data == [i \in DOMAIN cut |-> cut[i].data]
<1>1. n \in Nat \ {0} /\ FrameSize \in Nat \ {0} /\ Len7 \in Nat \ {0} /\ Len16 \in Nat
      /\ FrameSize < Len16
  BY LenProperties, LengthsAssumption, ReaderAssumption
<1>2. CASE n < Len7
  <2>1. cut = << [ fin |-> TRUE, op |-> Text, form |-> 0, len |-> n, data |-> text ] >>
    BY <1>1, <1>2 DEF Cut
  <2>2. DOMAIN cut = 1 .. 1 /\ Len(cut) = 1 /\ cut[1].data = text
    BY <2>1
  <2>3. data = << text >> /\ Len(data) = 1
    BY <2>2
  <2>4. FlattenSeq(data) = text
    BY <2>3, FlattenOne
  <2> QED
    BY <1>2, <2>1, <2>2, <2>4 DEF Form
<1>3. CASE ~(n < Len7)
  <2>1. c \in Nat \ {0} /\ (c - 1) * FrameSize < n /\ n <= c * FrameSize
    BY <1>1, CountsFacts
  <2>2. cut = [k \in 1 .. c |-> FrameAt(text, Text, FrameSize, k - 1)]
    BY <1>1, <1>3 DEF Cut
  <2> DEFINE upto(k) == IF k = c THEN n ELSE k * FrameSize
  <2> HIDE DEF c, cut
  <2>3. Len(cut) = c /\ DOMAIN cut = 1 .. c
    BY <2>1, <2>2
  <2>4. ASSUME NEW k \in 1 .. c
        PROVE  /\ cut[k].fin <=> (k = c)
               /\ cut[k].op = IF k = 1 THEN Text ELSE 0
               /\ cut[k].len = upto(k) - (k - 1) * FrameSize
               /\ cut[k].form = Form(cut[k].len)
               /\ cut[k].data = SubSeq(text, (k - 1) * FrameSize + 1, upto(k))
               /\ (k - 1) * FrameSize \in Nat /\ upto(k) \in Nat
               /\ (k - 1) * FrameSize < upto(k) /\ upto(k) <= n
    <3> DEFINE before == (k - 1) * FrameSize
               left == n - before
    <3>1. before \in Nat /\ k * FrameSize = before + FrameSize /\ k * FrameSize \in Nat
      BY <1>1, <2>1
    <3>2. k # c => k * FrameSize <= (c - 1) * FrameSize
      BY <1>1, <2>1
    <3> HIDE DEF before
    <3>3. (left <= FrameSize) <=> (k = c)
      <4>1. k = c => before + FrameSize = c * FrameSize
        BY <3>1
      <4>2. (c - 1) * FrameSize \in Nat /\ c * FrameSize \in Nat
        BY <1>1, <2>1
      <4> QED
        BY <1>1, <2>1, <3>1, <3>2, <4>1, <4>2
    <3>4. k = c => before = (c - 1) * FrameSize
      BY DEF before
    <3>5. before < upto(k) /\ upto(k) <= n /\ upto(k) \in Nat
      <4>1. (c - 1) * FrameSize \in Nat
        BY <1>1, <2>1
      <4> QED
        BY <1>1, <2>1, <3>1, <3>2, <3>4, <4>1
    <3>6. /\ Short(FrameSize) = FrameSize
          /\ k = c => Short(left) = left /\ upto(k) = before + left
          /\ k # c => upto(k) = before + FrameSize
      BY <1>1, <3>1, <3>3, <3>5 DEF Short
    <3>7. cut[k] = FrameAt(text, Text, FrameSize, k - 1)
      BY <2>2
    <3>8. FrameAt(text, Text, FrameSize, k - 1) =
            [ fin |-> left <= FrameSize, op |-> IF k - 1 = 0 THEN Text ELSE 0,
              form |-> Form(upto(k) - before), len |-> upto(k) - before,
              data |-> SubSeq(text, before + 1, upto(k)) ]
      <4>1. Short(IF left <= FrameSize THEN left ELSE FrameSize) = upto(k) - before
        BY <1>1, <3>1, <3>3, <3>5, <3>6
      <4>2. (k - 1) * Short(FrameSize) = before
        BY <3>6 DEF before
      <4>3. before + (upto(k) - before) = upto(k)
        BY <3>1, <3>5
      <4>4. Len(text) - (k - 1) * FrameSize = left
        BY DEF before
      <4> HIDE DEF left, upto, n
      <4> QED
        BY <4>1, <4>2, <4>3, <4>4 DEF FrameAt
    <3>9. k - 1 = 0 <=> k = 1
      OBVIOUS
    <3>10. /\ cut[k].fin <=> (k = c)
           /\ cut[k].op = IF k = 1 THEN Text ELSE 0
           /\ cut[k].len = upto(k) - before
           /\ cut[k].form = Form(upto(k) - before)
           /\ cut[k].data = SubSeq(text, before + 1, upto(k))
      <4> HIDE DEF upto, left
      <4>1. cut[k].fin = (left <= FrameSize)
        BY ONLY <3>7, <3>8
      <4>2. /\ cut[k].op = IF k - 1 = 0 THEN Text ELSE 0
            /\ cut[k].len = upto(k) - before
            /\ cut[k].form = Form(upto(k) - before)
            /\ cut[k].data = SubSeq(text, before + 1, upto(k))
        BY ONLY <3>7, <3>8
      <4> QED
        BY ONLY <3>3, <3>9, <4>1, <4>2
    <3> QED
      BY <3>1, <3>5, <3>10 DEF before
  <2>5. data = [k \in 1 .. c |-> SubSeq(text, (k - 1) * FrameSize + 1, upto(k))]
    BY <2>3, <2>4
  <2>6. data \in [1 .. c -> Seq(Bytes)] /\ Len(data) = c
    <3>1. ASSUME NEW k \in 1 .. c
          PROVE SubSeq(text, (k - 1) * FrameSize + 1, upto(k)) \in Seq(Bytes)
      <4> HIDE DEF upto
      <4> QED
        BY ONLY <2>4, SubSeqWithin
    <3> HIDE DEF upto
    <3>2. data \in [1 .. c -> Seq(Bytes)]
      BY <2>5, <3>1
    <3> QED
      BY <2>1, <2>5, <3>2
  <2> DEFINE sum == [k \in 1 .. c |-> SubSeq(text, 1, upto(k))]
  <2>7. ASSUME NEW k \in 1 .. c
        PROVE sum[k] = IF k = 1 THEN data[k] ELSE sum[k-1] \o data[k]
    <3>1. CASE k = 1
      <4>1. (1 - 1) * FrameSize + 1 = 1
        BY <1>1
      <4> QED
        BY <2>5, <3>1, <4>1
    <3>2. CASE k # 1
      <4>1. k - 1 \in 1 .. c /\ k - 1 # c
        BY <2>1, <3>2
      <4>2. upto(k - 1) = (k - 1) * FrameSize
        BY <4>1
      <4>3. sum[k-1] = SubSeq(text, 1, upto(k - 1)) /\ sum[k] = SubSeq(text, 1, upto(k))
        BY <4>1
      <4> HIDE DEF upto
      <4>4. SubSeq(text, 1, upto(k - 1)) \o SubSeq(text, upto(k - 1) + 1, upto(k)) = SubSeq(text, 1, upto(k))
        <5>1. /\ upto(k - 1) \in Nat /\ upto(k) \in Nat
              /\ upto(k - 1) <= upto(k) /\ upto(k) <= Len(text)
          BY <2>4, <4>1, <4>2
        <5> QED
          BY <5>1, JoinParts
      <4> QED
        BY <2>5, <3>2, <4>2, <4>3, <4>4
    <3> QED
      BY <3>1, <3>2
  <2>8. sum = [k \in 1 .. c |-> IF k = 1 THEN data[k] ELSE sum[k-1] \o data[k]]
    <3> HIDE DEF data, upto
    <3> QED
      BY <2>7
  <2>9. sum[c] = text
    <3>1. sum[c] = SubSeq(text, 1, n)
      BY <2>1
    <3> QED
      BY <3>1, <1>1
  <2> HIDE DEF sum, data
  <2>10. FlattenSeq(data) = sum[c]
    BY ONLY <2>1, <2>6, <2>8, FlattenPieces
  <2> USE DEF data
  <2>11. \A i \in DOMAIN cut : cut[i].len = Len(cut[i].data)
    <3> SUFFICES ASSUME NEW i \in 1 .. c PROVE cut[i].len = Len(cut[i].data)
      BY <2>3
    <3> HIDE DEF upto
    <3> QED
      BY <1>1, <2>4
  <2> QED
    BY <2>3, <2>4, <2>9, <2>10, <2>11 DEF cut
<1> QED
  BY <1>2, <1>3

-----------------------------------------------------------------------------
(* The initial states and the steps.                                       *)

\* A websocket that was just made satisfies the invariant.
LEMMA InitInv == Init => IInv
<1> SUFFICES ASSUME Init PROVE IInv
  OBVIOUS
<1> USE DEF Init
<1>1. Types
  <2>1. info \in Infos /\ wire \in Wires
    BY DEF NoInfo, Infos, NoFrame, Frame, Wires, Opcodes, DataOps, Continuation, Text, Keys
  <2>2. <<>> \in Seq(Bytes) /\ Len(<<>>) = 0
    BY EmptySeq
  <2>3. opcode \in Opcodes /\ wholeOp \in {Text, Binary}
    BY DEF Opcodes, DataOps, Continuation, Text
  <2>4. {sockOpen, open, registered, known, timer, expired, inMessage, told, silenced}
            \subseteq BOOLEAN
    BY Zenon
  <2>5. buffers \in Seq(Bytes) /\ message \in Seq(Bytes) /\ whole \in Seq(Bytes)
    BY <2>2
  <2>6. pos \in Nat
    OBVIOUS
  <2>7. frames \in 0 .. MaxFrames /\ sent \in Nat
    BY ReaderAssumption
  <2>8. reads \in [Kinds -> ReadStates] /\ ioPc \in IoPcs
    BY DEF ReadStates, IoPcs
  <2>9. pc \in [Threads -> Pcs] /\ notify \in [Threads -> BOOLEAN]
    BY DEF Pcs
  <2> HIDE DEF Init
  <2> QED
    BY <2>1, <2>3, <2>4, <2>5, <2>6, <2>7, <2>8, <2>9 DEF Types
<1>2. OneReader /\ BufferFits /\ ReadTimed /\ Shut /\ WrittenBack
  BY DEF OneReader, BufferFits, ReadTimed, Shut, WrittenBack, Kinds, Threads
<1>3. Gathers
  BY DEF Gathers, BetweenFrames, HeadRead, InfoRead, PayloadRead, MessageWhole, Kinds
<1>4. Room
  <2>1. Len(buffers) = 0
    BY EmptySeq
  <2> QED
    BY <2>1 DEF Room, Kinds
<1> QED
  BY <1>1, <1>2, <1>3, <1>4 DEF IInv

\* The types.
LEMMA TypeStep == IInv /\ [Next]_vars => Types'
<1> SUFFICES ASSUME IInv, [Next]_vars PROVE Types'
  OBVIOUS
<1> USE DEF IInv, Types, ReadStates, Kinds, IoPcs, Pcs, Threads, flagVars, threadVars,
           timerVars, dataVars, peerVars, sentVars, closeHistory
<1>1. ASSUME NEW fin \in BOOLEAN, NEW masked \in BOOLEAN, NEW split \in BOOLEAN,
             NEW op \in PeerOps, NEW len \in Lengths, NEW key \in Keys,
             PeerFrame(fin, op, masked, len, key, split)
      PROVE Types'
  <2>1. op \in Opcodes /\ (op \in {Text, Binary} => wholeOp' \in {Text, Binary})
    BY <1>1, PeerOpsAssumption DEF PeerFrame
  <2>2. wire' \in Wires
    BY <1>1, <2>1, ReaderAssumption DEF PeerFrame, Frame, Wires
  <2>3. whole' \in Seq(Bytes) /\ wholeOp' \in {Text, Binary} /\ inMessage' \in BOOLEAN
    BY <1>1, <2>1, EmptySeq DEF PeerFrame
  <2>4. frames' \in 0 .. MaxFrames
    BY <1>1, ReaderAssumption DEF PeerFrame
  <2>5. reads' \in [Kinds -> ReadStates]
    BY <1>1 DEF PeerFrame, ReadTurns, ReadStates
  <2> QED
    BY <1>1, <2>2, <2>3, <2>4, <2>5 DEF PeerFrame, ReadUnchanged
<1>2. ASSUME NEW k \in Kinds, PeerMore(k) PROVE Types'
  BY <1>2 DEF PeerMore, ReadTurns, ReadUnchanged
<1>3. ASSUME PeerData PROVE Types'
  <2> DEFINE plain == [i \in 1 .. wire.len |-> Plain(sent + i)]
             filled == [i \in DOMAIN buffers |->
                           IF i \in pos + 1 .. pos + wire.len
                           THEN Xor(plain[i - pos], wire.key) ELSE buffers[i]]
  <2>1. wire.len \in Nat /\ wire.key \in Keys /\ sent \in Nat /\ pos \in Nat
    BY LenProperties DEF Wires
  <2>2. \A i \in 1 .. wire.len : Plain(sent + i) \in Bytes
    BY <2>1 DEF Plain, Bytes, Keys
  <2>3. plain \in Seq(Bytes)
    <3>1. plain \in [1 .. wire.len -> Bytes]
      BY <2>2
    <3> QED
      BY <2>1, <3>1, FunctionIsSeq
  <2>4. \A i \in DOMAIN buffers : buffers[i] \in Bytes /\ i \in Nat
    BY LenProperties
  <2>5. \A i \in DOMAIN buffers : i \in pos + 1 .. pos + wire.len =>
            Xor(plain[i - pos], wire.key) \in Bytes
    <3> SUFFICES ASSUME NEW i \in DOMAIN buffers, i \in pos + 1 .. pos + wire.len
                 PROVE Xor(plain[i - pos], wire.key) \in Bytes
      OBVIOUS
    <3>1. i - pos \in 1 .. wire.len
      BY <2>1, <2>4
    <3>2. plain[i - pos] \in Bytes
      BY <2>2, <3>1
    <3> QED
      BY <2>1, <3>2, XorByte
  <2>6. filled \in [DOMAIN buffers -> Bytes]
    BY <2>4, <2>5
  <2>7. buffers' = filled /\ sent' = sent + wire.len /\ whole' = whole \o plain
    BY <1>3 DEF PeerData
  <2> HIDE DEF filled, plain
  <2>8. buffers' \in Seq(Bytes) /\ Len(buffers') = Len(buffers)
    BY <2>6, <2>7, SameLength
  <2>9. whole' \in Seq(Bytes)
    BY <2>3, <2>7, ConcatProperties
  <2>10. reads' \in [Kinds -> ReadStates]
    BY <1>3 DEF PeerData, ReadTurns, ReadStates
  <2> QED
    BY <1>3, <2>1, <2>7, <2>8, <2>9, <2>10 DEF PeerData, ReadUnchanged
<1>3a. ASSUME PeerOverruns PROVE Types'
  BY <1>3a DEF PeerOverruns, Terminates
<1>4. ASSUME NEW k \in Kinds, ReadError(k) PROVE Types'
  BY <1>4 DEF ReadError, ReadTurns, ReadUnchanged
<1>5. ASSUME Expire PROVE Types'
  BY <1>5 DEF Expire
<1>6. ASSUME NEW url \in BOOLEAN, MoveSocket(url) PROVE Types'
  BY ZenonT(60), <1>6 DEF MoveSocket, IoGoto, CallNullClose, Enter, IoPcs, Pcs, Threads
<1>7. ASSUME NEW echo \in BOOLEAN, EventReturns(echo) PROVE Types'
  BY <1>7 DEF EventReturns, IoGoto
<1>8. ASSUME NEW event \in BOOLEAN, EventCloses(event) PROVE Types'
  BY <1>8 DEF EventCloses, IoGoto, CallClose, CallNullClose, Enter
<1>9. ASSUME StartRead PROVE Types'
  BY <1>9 DEF StartRead, IoGoto, Read
<1>10. ASSUME NEW k \in Kinds, ReadFailed(k) PROVE Types'
  BY <1>10 DEF ReadFailed, IoIdle, ReadTurns, CallClose, Enter
<1>11. ASSUME HeadCloses PROVE Types'
  <2>1. info' \in Infos
    BY <1>11 DEF HeadCloses, HeadHandler, Infos, Wires, NoInfo, Keys, Continuation,
           Opcodes, DataOps
  <2>2. opcode' \in Opcodes
    BY <1>11 DEF HeadCloses, HeadHandler, Wires
  <2>3. reads' \in [Kinds -> ReadStates] /\ timer' \in BOOLEAN
    BY <1>11 DEF HeadCloses, NoRead, Read, ReadStates
  <2> QED
    BY <1>11, <2>1, <2>2, <2>3 DEF HeadCloses, HeadHandler, Handler, CallClose, Enter
<1>12. ASSUME HeadControl PROVE Types'
  <2>1. info' \in Infos
    BY <1>12 DEF HeadControl, HeadHandler, Infos, Wires, NoInfo, Keys, Continuation,
           Opcodes, DataOps
  <2>2. opcode' \in Opcodes
    BY <1>12 DEF HeadControl, HeadHandler, Wires
  <2>3. reads' \in [Kinds -> ReadStates] /\ timer' \in BOOLEAN
    BY <1>12 DEF HeadControl, NoRead, Read, ReadStates
  <2> QED
    BY <1>12, <2>1, <2>2, <2>3 DEF HeadControl, HeadHandler, Handler
<1>13. ASSUME HeadData PROVE Types'
  <2>1. info' \in Infos
    BY <1>13 DEF HeadData, Infos, Wires, NoInfo, Keys, Continuation,
           Opcodes, DataOps
  <2>2. opcode' \in Opcodes
    BY <1>13 DEF HeadData, Wires
  <2>3. reads' \in [Kinds -> ReadStates] /\ timer' \in BOOLEAN
    BY <1>13 DEF HeadData, NoRead, Read, ReadStates
  <2> QED
    BY <1>13, <2>1, <2>2, <2>3 DEF HeadData, Handler
<1>14. ASSUME LengthHandler PROVE Types'
  <2>1. info' \in Infos
    BY <1>14 DEF LengthHandler, Infos, Wires
  <2>2. reads' \in [Kinds -> ReadStates] /\ timer' \in BOOLEAN
    BY <1>14 DEF LengthHandler, Read, ReadStates
  <2> QED
    BY <1>14, <2>1, <2>2 DEF LengthHandler, Handler
<1>15. ASSUME KeyEmpty PROVE Types'
  <2>1. info' \in Infos
    BY <1>15 DEF KeyEmpty, Infos, Wires
  <2>2. reads' \in [Kinds -> ReadStates] /\ timer' \in BOOLEAN
    BY <1>15 DEF KeyEmpty, NoRead, ReadStates
  <2>3. /\ ioPc' \in IoPcs /\ message' \in Seq(Bytes)
        /\ buffers' \in Seq(Bytes) /\ pos' \in Nat
    <3>1. <<>> \in Seq(Bytes) /\ Len(<<>>) = 0
      BY EmptySeq
    <3>2. CASE info.fin
      <4>1. ioPc' = "messageEvent" /\ message' = <<>> /\ buffers' = <<>> /\ pos' = 0
        BY <1>15, <3>2 DEF KeyEmpty, Deliver, IoGoto
      <4>2. pos' \in Nat
        BY <3>1, <4>1
      <4> QED
        BY <3>1, <4>1, <4>2 DEF IoPcs
    <3>3. CASE ~info.fin
      <4>1. ioPc' = "start" /\ message' = message /\ buffers' = buffers /\ pos' = pos
        BY <1>15, <3>3 DEF KeyEmpty, Deliver, IoGoto
      <4> QED
        BY <4>1 DEF IoPcs
    <3> QED
      BY <3>2, <3>3
  <2> QED
    BY <1>15, <2>1, <2>2, <2>3 DEF KeyEmpty, Handler
<1>16. ASSUME KeyData PROVE Types'
  <2>1. TotalSize \in Nat
    <3>1. Len(buffers) \in Nat /\ pos \in Nat /\ info.len \in Nat
      BY LenProperties DEF Infos
    <3> QED
      BY <3>1, TotalSizeFits
  <2>2. buffers' \in Seq(Bytes)
    <3>1. buffers' = Resize(buffers, TotalSize)
      BY <1>16 DEF KeyData
    <3> QED
      BY <2>1, <3>1, ResizeSeq
  <2>3. info' \in Infos
    BY <1>16 DEF KeyData, Infos, Wires
  <2>4. reads' \in [Kinds -> ReadStates] /\ timer' \in BOOLEAN
    BY <1>16 DEF KeyData, Read, ReadStates
  <2> QED
    BY <1>16, <2>2, <2>3, <2>4 DEF KeyData, Handler
<1>16a. ASSUME KeyThrows PROVE Types'
  BY <1>16a DEF KeyThrows, Terminates, IoIdle
<1>17. ASSUME DataHandler PROVE Types'
  <2> DEFINE end == pos + info.len
             decoded == [i \in DOMAIN buffers |->
                            IF i \in pos + 1 .. end THEN Xor(buffers[i], info.key) ELSE buffers[i]]
  <2>1. Len(buffers) \in Nat /\ pos \in Nat /\ info.len \in Nat /\ info.key \in Keys
    BY LenProperties DEF Infos
  <2>2. end \in 0 .. Len(buffers)
    BY <1>17, <2>1 DEF Room, DataHandler, Handler
  <2>3. \A i \in DOMAIN buffers : buffers[i] \in Bytes
    BY LenProperties
  <2>4. decoded \in [DOMAIN buffers -> Bytes]
    BY <2>1, <2>3, XorByte
  <2> HIDE DEF decoded
  <2>5. decoded \in Seq(Bytes) /\ Len(decoded) = Len(buffers)
    BY <2>4, SameLength
  <2>6. SubSeq(decoded, 1, end) \in Seq(Bytes)
    <3>1. \A i \in 1 .. end : decoded[i] \in Bytes
      BY <2>1, <2>2, <2>5, LenProperties
    <3> QED
      BY <2>2, <3>1, SubSeqProperties
  <2>7. /\ ioPc' \in IoPcs /\ message' \in Seq(Bytes)
        /\ buffers' \in Seq(Bytes) /\ pos' \in Nat
    <3>1. CASE info.fin
      <4>1. <<>> \in Seq(Bytes) /\ Len(<<>>) = 0
        BY EmptySeq
      <4>2. /\ ioPc' = "messageEvent" /\ message' = SubSeq(decoded, 1, end)
            /\ buffers' = <<>> /\ pos' = 0
        BY <1>17, <3>1 DEF DataHandler, Deliver, IoGoto, decoded
      <4>3. pos' \in Nat
        BY <4>1, <4>2
      <4> QED
        BY <2>6, <4>1, <4>2, <4>3 DEF IoPcs
    <3>2. CASE ~info.fin
      <4>1. /\ ioPc' = "start" /\ message' = message
            /\ buffers' = decoded /\ pos' = end
        BY <1>17, <3>2 DEF DataHandler, Deliver, IoGoto, decoded
      <4>2. pos' \in Nat
        BY <2>2, <2>5, <4>1
      <4> QED
        BY <2>5, <4>1, <4>2 DEF IoPcs
    <3> QED
      BY <3>1, <3>2
  <2>8. reads' \in [Kinds -> ReadStates] /\ timer' \in BOOLEAN
    BY <1>17 DEF DataHandler, NoRead, ReadStates
  <2> QED
    BY <1>17, <2>7, <2>8 DEF DataHandler, Handler
<1>18. ASSUME ExpiryHandler PROVE Types'
  BY <1>18 DEF ExpiryHandler, IoIdle, CallClose, Enter
<1>19. ASSUME WriteFails PROVE Types'
  BY <1>19 DEF WriteFails, IoIdle, CallClose, Enter
<1>20. ASSUME NEW u \in Users, NEW event \in BOOLEAN, UserCloses(u, event) PROVE Types'
  BY <1>20 DEF UserCloses, CallClose, CallNullClose, Enter
<1>21. ASSUME NEW t \in Threads, CloseTest(t) PROVE Types'
  BY <1>21 DEF CloseTest, CloseStep
<1>22. ASSUME NEW t \in Threads, CloseSocket(t) PROVE Types'
  BY <1>22 DEF CloseSocket, CloseStep
<1>23. ASSUME NEW t \in Threads, ClearOpen(t) PROVE Types'
  BY <1>23 DEF ClearOpen, CloseStep
<1>24. ASSUME NEW t \in Threads, CancelTimers(t) PROVE Types'
  BY <1>24 DEF CancelTimers, CloseStep
<1>25. ASSUME NEW t \in Threads, Unregister(t) PROVE Types'
  BY <1>25 DEF Unregister, CloseStep
<1>26. ASSUME Peer PROVE Types'
  <2>1. CASE \E fin, masked, split \in BOOLEAN, op \in PeerOps, len \in Lengths, key \in Keys :
               PeerFrame(fin, op, masked, len, key, split)
    BY ONLY <2>1, <1>1
  <2>2. CASE \E k \in Kinds : PeerMore(k)
    BY <2>2, <1>2
  <2> QED
    BY <1>26, <2>1, <2>2, <1>3, <1>3a DEF Peer
<1>27. ASSUME IoHandler PROVE Types'
  BY <1>27, <1>6, <1>7, <1>8, <1>9, <1>10, <1>11, <1>12, <1>13, <1>14, <1>15, <1>16,
     <1>17, <1>16a, <1>18 DEF IoHandler
<1>28. ASSUME NEW t \in Threads, Closing(t) PROVE Types'
  BY <1>28, <1>21, <1>22, <1>23, <1>24, <1>25 DEF Closing
<1>29. CASE UNCHANGED vars
  BY <1>29 DEF vars
<1> QED
  BY <1>26, <1>27, <1>28, <1>29, <1>4, <1>5, <1>19, <1>20 DEF Next

\* At most one asynchronous read: each handler starts the next only after its
\* own read, and an event of the application comes before the next read.
LEMMA OneReaderStep == IInv /\ [Next]_vars => OneReader'
<1> SUFFICES ASSUME reads \in [Kinds -> ReadStates],
                    OneReader,
                    [Next]_vars
             PROVE OneReader'
  BY DEF IInv, Types
<1> USE DEF OneReader, Kinds, ReadStates, threadVars, timerVars
<1>1. ASSUME NEW fin \in BOOLEAN, NEW masked \in BOOLEAN, NEW split \in BOOLEAN,
             NEW op \in PeerOps, NEW len \in Lengths, NEW key \in Keys,
             PeerFrame(fin, op, masked, len, key, split)
      PROVE OneReader'
  BY <1>1 DEF PeerFrame, ReadTurns, ReadUnchanged
<1>2. ASSUME NEW k \in Kinds, PeerMore(k) PROVE OneReader'
  BY <1>2 DEF PeerMore, ReadTurns, ReadUnchanged
<1>3. ASSUME PeerData PROVE OneReader'
  BY <1>3 DEF PeerData, ReadTurns, ReadUnchanged
<1>3a. ASSUME PeerOverruns PROVE OneReader'
  BY <1>3a DEF PeerOverruns, Terminates
<1>4. ASSUME NEW k \in Kinds, ReadError(k) PROVE OneReader'
  BY <1>4 DEF ReadError, ReadTurns, ReadUnchanged
<1>5. ASSUME Expire PROVE OneReader'
  BY <1>5 DEF Expire
<1>6. ASSUME NEW url \in BOOLEAN, MoveSocket(url) PROVE OneReader'
  BY <1>6 DEF MoveSocket, IoGoto, CallNullClose, Enter
<1>7. ASSUME NEW echo \in BOOLEAN, EventReturns(echo) PROVE OneReader'
  BY <1>7 DEF EventReturns, IoGoto
<1>8. ASSUME NEW event \in BOOLEAN, EventCloses(event) PROVE OneReader'
  BY <1>8 DEF EventCloses, IoGoto, CallClose, CallNullClose, Enter
<1>9. ASSUME StartRead PROVE OneReader'
  BY <1>9 DEF StartRead, IoGoto, Read
<1>10. ASSUME NEW k \in Kinds, ReadFailed(k) PROVE OneReader'
  BY <1>10 DEF ReadFailed, IoIdle, ReadTurns, CallClose, Enter
<1>11. ASSUME HeadCloses PROVE OneReader'
  BY <1>11 DEF HeadCloses, HeadHandler, Handler, IoIdle, NoRead, CallClose, Enter
<1>12. ASSUME HeadControl PROVE OneReader'
  BY <1>12 DEF HeadControl, HeadHandler, Handler, IoIdle, NoRead
<1>13. ASSUME HeadData PROVE OneReader'
  BY <1>13 DEF HeadData, Handler, IoIdle, Read
<1>14. ASSUME LengthHandler PROVE OneReader'
  BY <1>14 DEF LengthHandler, Handler, IoIdle, Read
<1>15. ASSUME KeyEmpty PROVE OneReader'
  BY <1>15 DEF KeyEmpty, Handler, IoIdle, Deliver, IoGoto, NoRead
<1>16. ASSUME KeyData PROVE OneReader'
  BY <1>16 DEF KeyData, Handler, IoIdle, Read
<1>16a. ASSUME KeyThrows PROVE OneReader'
  BY <1>16a DEF KeyThrows, Terminates, IoIdle
<1>17. ASSUME DataHandler PROVE OneReader'
  BY <1>17 DEF DataHandler, Handler, IoIdle, Deliver, IoGoto, NoRead
<1>18. ASSUME ExpiryHandler PROVE OneReader'
  BY <1>18 DEF ExpiryHandler, IoIdle, CallClose, Enter
<1>19. ASSUME WriteFails PROVE OneReader'
  BY <1>19 DEF WriteFails, IoIdle, CallClose, Enter
<1>20. ASSUME NEW u \in Users, NEW event \in BOOLEAN, UserCloses(u, event) PROVE OneReader'
  BY <1>20 DEF UserCloses, CallClose, CallNullClose, Enter
<1>21. ASSUME NEW t \in Threads, CloseTest(t) PROVE OneReader'
  BY <1>21 DEF CloseTest, CloseStep
<1>22. ASSUME NEW t \in Threads, CloseSocket(t) PROVE OneReader'
  BY <1>22 DEF CloseSocket, CloseStep
<1>23. ASSUME NEW t \in Threads, ClearOpen(t) PROVE OneReader'
  BY <1>23 DEF ClearOpen, CloseStep
<1>24. ASSUME NEW t \in Threads, CancelTimers(t) PROVE OneReader'
  BY <1>24 DEF CancelTimers, CloseStep
<1>25. ASSUME NEW t \in Threads, Unregister(t) PROVE OneReader'
  BY <1>25 DEF Unregister, CloseStep
<1>26. ASSUME Peer PROVE OneReader'
  <2>1. CASE \E fin, masked, split \in BOOLEAN, op \in PeerOps, len \in Lengths, key \in Keys :
               PeerFrame(fin, op, masked, len, key, split)
    BY ONLY <2>1, <1>1
  <2>2. CASE \E k \in Kinds : PeerMore(k)
    BY <2>2, <1>2
  <2> QED
    BY <1>26, <2>1, <2>2, <1>3, <1>3a DEF Peer
<1>27. ASSUME IoHandler PROVE OneReader'
  BY <1>27, <1>6, <1>7, <1>8, <1>9, <1>10, <1>11, <1>12, <1>13, <1>14, <1>15, <1>16,
     <1>17, <1>16a, <1>18 DEF IoHandler
<1>28. ASSUME NEW t \in Threads, Closing(t) PROVE OneReader'
  BY <1>28, <1>21, <1>22, <1>23, <1>24, <1>25 DEF Closing
<1>29. CASE UNCHANGED vars
  BY <1>29 DEF vars
<1> QED
  BY <1>26, <1>27, <1>28, <1>29, <1>4, <1>5, <1>19, <1>20 DEF Next

\* What was written back is cut from the message.
LEMMA WrittenBackStep == IInv /\ [Next]_vars => WrittenBack'
<1> SUFFICES ASSUME WrittenBack, OneReader, [Next]_vars PROVE WrittenBack'
  BY DEF IInv
<1> USE DEF WrittenBack, IoIdle, Handler, flagVars, threadVars, timerVars, dataVars, peerVars,
           sentVars, closeHistory
<1>1. ASSUME NEW fin \in BOOLEAN, NEW masked \in BOOLEAN, NEW split \in BOOLEAN,
             NEW op \in PeerOps, NEW len \in Lengths, NEW key \in Keys,
             PeerFrame(fin, op, masked, len, key, split)
      PROVE WrittenBack'
  BY <1>1 DEF PeerFrame, ReadTurns, ReadUnchanged
<1>2. ASSUME NEW k \in Kinds, PeerMore(k) PROVE WrittenBack'
  BY <1>2 DEF PeerMore, ReadTurns, ReadUnchanged
<1>3. ASSUME PeerData PROVE WrittenBack'
  BY <1>3 DEF PeerData, ReadTurns, ReadUnchanged
<1>3a. ASSUME PeerOverruns PROVE WrittenBack'
  BY <1>3a DEF PeerOverruns, Terminates, OneReader, Kinds
<1>4. ASSUME NEW k \in Kinds, ReadError(k) PROVE WrittenBack'
  BY <1>4 DEF ReadError, ReadTurns, ReadUnchanged
<1>5. ASSUME Expire PROVE WrittenBack'
  BY <1>5 DEF Expire
<1>6. ASSUME NEW url \in BOOLEAN, MoveSocket(url) PROVE WrittenBack'
  BY <1>6 DEF MoveSocket, IoGoto, CallNullClose, Enter
<1>7. ASSUME NEW echo \in BOOLEAN, EventReturns(echo) PROVE WrittenBack'
  BY <1>7 DEF EventReturns, IoGoto
<1>8. ASSUME NEW event \in BOOLEAN, EventCloses(event) PROVE WrittenBack'
  BY <1>8 DEF EventCloses, IoGoto, CallClose, CallNullClose, Enter
<1>9. ASSUME StartRead PROVE WrittenBack'
  BY <1>9 DEF StartRead, IoGoto, Read
<1>10. ASSUME NEW k \in Kinds, ReadFailed(k) PROVE WrittenBack'
  BY <1>10 DEF ReadFailed, ReadTurns, CallClose, Enter
<1>11. ASSUME HeadCloses PROVE WrittenBack'
  BY <1>11 DEF HeadCloses, HeadHandler, NoRead, CallClose, Enter
<1>12. ASSUME HeadControl PROVE WrittenBack'
  BY <1>12 DEF HeadControl, HeadHandler, NoRead
<1>13. ASSUME HeadData PROVE WrittenBack'
  BY <1>13 DEF HeadData, Read
<1>14. ASSUME LengthHandler PROVE WrittenBack'
  BY <1>14 DEF LengthHandler, Read
<1>15. ASSUME KeyEmpty PROVE WrittenBack'
  BY <1>15 DEF KeyEmpty, Deliver, IoGoto, NoRead
<1>16. ASSUME KeyData PROVE WrittenBack'
  BY <1>16 DEF KeyData, Read
<1>16a. ASSUME KeyThrows PROVE WrittenBack'
  BY <1>16a DEF KeyThrows, Terminates, IoIdle
<1>17. ASSUME DataHandler PROVE WrittenBack'
  BY <1>17 DEF DataHandler, Deliver, IoGoto, NoRead
<1>18. ASSUME ExpiryHandler PROVE WrittenBack'
  BY <1>18 DEF ExpiryHandler, CallClose, Enter
<1>19. ASSUME WriteFails PROVE WrittenBack'
  BY <1>19 DEF WriteFails, CallClose, Enter
<1>20. ASSUME NEW u \in Users, NEW event \in BOOLEAN, UserCloses(u, event) PROVE WrittenBack'
  BY <1>20 DEF UserCloses, CallClose, CallNullClose, Enter
<1>21. ASSUME NEW t \in Threads, CloseTest(t) PROVE WrittenBack'
  BY <1>21 DEF CloseTest, CloseStep
<1>22. ASSUME NEW t \in Threads, CloseSocket(t) PROVE WrittenBack'
  BY <1>22 DEF CloseSocket, CloseStep
<1>23. ASSUME NEW t \in Threads, ClearOpen(t) PROVE WrittenBack'
  BY <1>23 DEF ClearOpen, CloseStep
<1>24. ASSUME NEW t \in Threads, CancelTimers(t) PROVE WrittenBack'
  BY <1>24 DEF CancelTimers, CloseStep
<1>25. ASSUME NEW t \in Threads, Unregister(t) PROVE WrittenBack'
  BY <1>25 DEF Unregister, CloseStep
<1>26. ASSUME Peer PROVE WrittenBack'
  <2>1. CASE \E fin, masked, split \in BOOLEAN, op \in PeerOps, len \in Lengths, key \in Keys :
               PeerFrame(fin, op, masked, len, key, split)
    BY ONLY <2>1, <1>1
  <2>2. CASE \E k \in Kinds : PeerMore(k)
    BY <2>2, <1>2
  <2> QED
    BY <1>26, <2>1, <2>2, <1>3, <1>3a DEF Peer
<1>27. ASSUME IoHandler PROVE WrittenBack'
  BY <1>27, <1>6, <1>7, <1>8, <1>9, <1>10, <1>11, <1>12, <1>13, <1>14, <1>15, <1>16,
     <1>17, <1>16a, <1>18 DEF IoHandler
<1>28. ASSUME NEW t \in Threads, Closing(t) PROVE WrittenBack'
  BY <1>28, <1>21, <1>22, <1>23, <1>24, <1>25 DEF Closing
<1>29. CASE UNCHANGED vars
  BY <1>29 DEF vars
<1> QED
  BY <1>26, <1>27, <1>28, <1>29, <1>4, <1>5, <1>19, <1>20 DEF Next

\* The payloads become the message: a frame continues the message whose bytes
\* are in the buffer, and nothing but its own read and its handler moves them.
LEMMA GatherStep == IInv /\ [Next]_vars => Gathers'
<1> SUFFICES ASSUME Types, Room, OneReader, Gathers, [Next]_vars PROVE Gathers'
  BY DEF IInv
<1> USE DEF OneReader, Gathers, BetweenFrames, HeadRead, InfoRead, PayloadRead, MessageWhole,
           AllGathered, Gathered, GoesOn, Kinds, flagVars, threadVars, timerVars, dataVars,
           peerVars, sentVars, closeHistory
<1>0. /\ reads \in [Kinds -> ReadStates] /\ info \in Infos /\ wire \in Wires
      /\ buffers \in Seq(Bytes) /\ whole \in Seq(Bytes)
      /\ Len(buffers) \in Nat /\ DOMAIN buffers = 1 .. Len(buffers)
      /\ Len(whole) \in Nat /\ DOMAIN whole = 1 .. Len(whole)
      /\ pos \in Nat
      /\ sent \in Nat /\ info.len \in Nat /\ info.key \in Keys
      /\ wire.len \in Nat /\ wire.key \in Keys
  BY LenProperties DEF Types, Infos, Wires
<1>1. ASSUME NEW fin \in BOOLEAN, NEW masked \in BOOLEAN, NEW split \in BOOLEAN,
             NEW op \in PeerOps, NEW len \in Lengths, NEW key \in Keys,
             PeerFrame(fin, op, masked, len, key, split)
      PROVE Gathers'
  <2>1. /\ reads["head"] = "sent" /\ reads' = [reads EXCEPT !["head"] = "ok"]
        /\ op \in DataOps => ((op = Continuation) <=> inMessage)
        /\ wire' = Frame(fin, op, masked, len, key, split)
        /\ inMessage' = IF op \in DataOps THEN ~fin ELSE inMessage
        /\ whole' = IF op \in {Text, Binary} THEN <<>> ELSE whole
        /\ wholeOp' = IF op \in {Text, Binary} THEN op ELSE wholeOp
        /\ UNCHANGED <<buffers, pos, message, opcode, info, ioPc>>
    BY <1>1 DEF PeerFrame, ReadTurns, ReadUnchanged
  <2>2. wire'.op = op /\ wire'.fin = fin
    BY <2>1 DEF Frame
  <2>3. ioPc = "idle"
    BY <1>0, <2>1
  <2>4. /\ reads'["length"] = "none" /\ reads'["key"] = "none" /\ reads'["data"] = "none"
        /\ reads'["head"] = "ok"
    BY <1>0, <2>1
  <2>5. HeadRead'
    <3> SUFFICES ASSUME op \in DataOps
                 PROVE /\ AllGathered'
                       /\ inMessage' = ~fin
                       /\ wholeOp' = IF op = Continuation THEN opcode ELSE op
      BY <2>1, <2>2
    <3>1. CASE op = Continuation
      BY <2>1, <3>1 DEF Continuation, Text, Binary
    <3>2. CASE op # Continuation
      <4>1. op \in {Text, Binary} /\ pos = 0
        BY <2>1, <3>2 DEF DataOps
      <4>2. whole' = <<>> /\ Len(whole') = 0
        BY <2>1, <4>1, EmptySeq
      <4> QED
        BY <1>0, <2>1, <3>2, <4>1, <4>2
    <3> QED
      BY <3>1, <3>2
  <2> QED
    BY <2>1, <2>3, <2>4, <2>5
<1>2. ASSUME NEW k \in Kinds, PeerMore(k) PROVE Gathers'
  BY <1>0, <1>2 DEF PeerMore, ReadTurns, ReadUnchanged
<1>3. ASSUME PeerData PROVE Gathers'
  <2> DEFINE plain == [i \in 1 .. wire.len |-> Plain(sent + i)]
  <2>1. /\ reads["data"] = "sent" /\ reads' = [reads EXCEPT !["data"] = "ok"]
        /\ buffers' = [i \in DOMAIN buffers |->
                          IF i \in pos + 1 .. pos + wire.len THEN Xor(plain[i - pos], wire.key)
                          ELSE buffers[i]]
        /\ whole' = whole \o plain
        /\ UNCHANGED <<pos, message, opcode, info, ioPc, wire, wholeOp, inMessage>>
    BY <1>3 DEF PeerData, ReadUnchanged, ReadTurns
  <2>0. pos <= Len(buffers)
    <3>1. pos + wire.len <= Len(buffers)
      BY <1>3 DEF PeerData
    <3>2. pos \in Nat /\ wire.len \in Nat /\ Len(buffers) \in Nat
      BY <1>0
    <3> QED
      BY ONLY <3>1, <3>2
  <2>2. /\ AllGathered /\ inMessage = ~info.fin /\ opcode = wholeOp
        /\ info.len = wire.len /\ info.key = wire.key /\ info.len > 0
    BY <2>0, <2>1
  <2>3. plain \in Seq(Bytes) /\ Len(plain) = wire.len
    <3>1. sent \in Nat /\ wire.len \in Nat
      BY <1>0
    <3>2. \A i \in 1 .. wire.len : Plain(sent + i) \in Bytes
      BY ONLY <3>1 DEF Plain, Bytes, Keys
    <3>3. plain \in [1 .. wire.len -> Bytes]
      BY <3>2
    <3> HIDE DEF plain
    <3> QED
      BY ONLY <3>1, <3>3, FunctionIsSeq
  <2> HIDE DEF plain
  <2>4. /\ Len(whole') = pos + wire.len
        /\ \A i \in 1 .. pos : whole'[i] = whole[i]
        /\ \A i \in pos + 1 .. pos + wire.len : whole'[i] = plain[i - pos]
    <3>1. whole \in Seq(Bytes) /\ pos \in Nat /\ wire.len \in Nat /\ Len(whole) = pos
      BY <1>0, <2>2
    <3>2. whole' = whole \o plain
      BY <2>1
    <3>3. /\ Len(whole \o plain) = Len(whole) + Len(plain)
          /\ \A i \in 1 .. Len(whole) + Len(plain) :
               (whole \o plain)[i] = IF i <= Len(whole) THEN whole[i] ELSE plain[i - Len(whole)]
      BY ONLY <2>3, <3>1, ConcatProperties
    <3> QED
      BY ONLY <2>3, <3>1, <3>2, <3>3
  <2>5. pos + info.len <= Len(buffers)
    BY <1>3, <2>2 DEF PeerData
  <2>6. PayloadRead'
    BY <1>0, <2>1, <2>2, <2>4, <2>5
  <2> QED
    BY <1>0, <2>1, <2>6
<1>3a. ASSUME PeerOverruns PROVE Gathers'
  BY <1>0, <1>3a DEF PeerOverruns, Terminates
<1>4. ASSUME NEW k \in Kinds, ReadError(k) PROVE Gathers'
  BY <1>0, <1>4 DEF ReadError, ReadTurns, ReadUnchanged
<1>5. ASSUME Expire PROVE Gathers'
  BY <1>0, <1>5 DEF Expire
<1>6. ASSUME NEW url \in BOOLEAN, MoveSocket(url) PROVE Gathers'
  BY <1>0, <1>6 DEF MoveSocket, IoGoto, CallNullClose, Enter
<1>7. ASSUME NEW echo \in BOOLEAN, EventReturns(echo) PROVE Gathers'
  BY <1>0, <1>7 DEF EventReturns, IoGoto
<1>8. ASSUME NEW event \in BOOLEAN, EventCloses(event) PROVE Gathers'
  BY <1>0, <1>8 DEF EventCloses, IoGoto, CallClose, CallNullClose, Enter
<1>9. ASSUME StartRead PROVE Gathers'
  BY <1>0, <1>9 DEF StartRead, IoGoto, Read
<1>10. ASSUME NEW k \in Kinds, ReadFailed(k) PROVE Gathers'
  BY <1>0, <1>10 DEF ReadFailed, IoIdle, ReadTurns, CallClose, Enter
<1>11. ASSUME HeadCloses PROVE Gathers'
  BY <1>0, <1>11 DEF HeadCloses, HeadHandler, Handler, IoIdle, NoRead, CallClose, Enter
<1>12. ASSUME HeadControl PROVE Gathers'
  BY <1>0, <1>12 DEF HeadControl, HeadHandler, Handler, IoIdle, NoRead
<1>13. ASSUME HeadData PROVE Gathers'
  <2>1. /\ reads["head"] = "ok" /\ GoesOn /\ ioPc = "idle"
        /\ reads' = [reads EXCEPT !["head"] = "none",
                                  ![IF wire.len < Len7 THEN "key" ELSE "length"] = "sent"]
        /\ opcode' = IF wire.op # 0 THEN wire.op ELSE opcode
        /\ UNCHANGED <<ioPc, buffers, pos, message, wire, whole, wholeOp, inMessage>>
    BY <1>13 DEF HeadData, Handler, IoIdle, Read
  <2>2. /\ info'.fin = wire.fin
        /\ info'.len = IF wire.len < Len7 THEN wire.len ELSE 0
    BY <1>13 DEF HeadData, NoInfo
  <2>3. AllGathered' /\ inMessage' = ~info'.fin /\ opcode' = wholeOp'
    BY <2>1, <2>2 DEF Continuation
  <2>4. /\ reads'["head"] = "none" /\ reads'["data"] = "none"
        /\ reads'["key"] = "sent" => wire.len < Len7
    BY <1>0, <2>1
  <2>5. reads'["key"] # "ok"
    BY <1>0, <2>1
  <2> QED
    BY <2>1, <2>2, <2>3, <2>4, <2>5
<1>14. ASSUME LengthHandler PROVE Gathers'
  BY <1>0, <1>14 DEF LengthHandler, Handler, IoIdle, Read
<1>15. ASSUME KeyEmpty PROVE Gathers'
  <2>1. /\ reads["key"] = "ok" /\ reads' = [reads EXCEPT !["key"] = "none"] /\ info.len = 0
        /\ info' = [info EXCEPT !.key = wire.key]
        /\ UNCHANGED <<opcode, wire, whole, wholeOp, inMessage>>
    BY <1>15 DEF KeyEmpty, Handler, NoRead
  <2>2. AllGathered /\ inMessage = ~info.fin /\ opcode = wholeOp
    BY <1>0, <2>1 DEF Room
  <2>3. \A k \in Kinds : reads'[k] = "none"
    BY <1>0, <2>1
  <2>4. info'.len = 0
    BY <1>0, <2>1 DEF Infos
  <2>5. CASE info.fin
    <3>1. ioPc' = "messageEvent" /\ pos' = 0
      BY <1>15, <2>5 DEF KeyEmpty, Deliver, IoGoto
    <3>2. ~inMessage'
      BY <2>1, <2>2, <2>5
    <3>3. /\ reads'["head"] = "none" /\ reads'["length"] = "none"
          /\ reads'["key"] = "none" /\ reads'["data"] = "none"
      BY <2>3
    <3> QED
      BY ONLY <2>4, <3>1, <3>2, <3>3
         DEF Gathers, BetweenFrames, HeadRead, InfoRead, PayloadRead, MessageWhole
  <2>6. CASE ~info.fin
    <3>1. ioPc' = "start" /\ buffers' = buffers /\ pos' = pos
      BY <1>15, <2>6 DEF KeyEmpty, Deliver, IoGoto
    <3> QED
      BY <2>1, <2>2, <2>3, <2>4, <2>6, <3>1
  <2> QED
    BY <2>5, <2>6
<1>16. ASSUME KeyData PROVE Gathers'
  <2>1. /\ reads["key"] = "ok" /\ reads' = [reads EXCEPT !["key"] = "none", !["data"] = "sent"]
        /\ info' = [info EXCEPT !.key = wire.key] /\ info.len > 0
        /\ buffers' = Resize(buffers, TotalSize)
        /\ UNCHANGED <<pos, message, opcode, ioPc, wire, whole, wholeOp, inMessage>>
    BY <1>16 DEF KeyData, Handler, Read
  <2>2. TotalSize \in Nat /\ Len(buffers') = TotalSize
    <3>1. TotalSize \in Nat
      BY <1>0, TotalSizeFits
    <3> QED
      BY <1>0, <2>1, <3>1, ResizeSeq
  <2>3. pos <= Len(buffers)
    BY <1>0, <2>1 DEF Room
  <2>4. pos <= Len(buffers') => \A i \in 1 .. pos : buffers'[i] = buffers[i]
    BY <1>0, <2>1, <2>2, <2>3 DEF Resize
  <2>5. info'.len = info.len /\ info'.fin = info.fin /\ info'.key = wire.key
    BY <1>0, <2>1 DEF Infos
  <2>6. ioPc = "idle" /\ reads["head"] = "none" /\ reads["length"] = "none"
    BY <1>0, <1>16, <2>1 DEF KeyData, Handler, IoIdle
  <2>7. /\ pos' <= Len(buffers') => AllGathered'
        /\ inMessage' = ~info'.fin /\ opcode' = wholeOp'
    BY <2>1, <2>3, <2>4, <2>5
  <2>8. info.len = wire.len
    BY <2>1
  <2> QED
    BY <1>0, <2>1, <2>5, <2>6, <2>7, <2>8
<1>16a. ASSUME KeyThrows PROVE Gathers'
  BY <1>0, <1>16a DEF KeyThrows, Terminates, IoIdle
<1>17. ASSUME DataHandler PROVE Gathers'
  <2> DEFINE end == pos + info.len
             decoded == [i \in DOMAIN buffers |->
                            IF i \in pos + 1 .. end THEN Xor(buffers[i], info.key) ELSE buffers[i]]
  <2>1. /\ reads["data"] = "ok" /\ reads' = [reads EXCEPT !["data"] = "none"] /\ ioPc = "idle"
        /\ UNCHANGED <<opcode, info, wire, whole, wholeOp, inMessage>>
    BY <1>17 DEF DataHandler, Handler, IoIdle, NoRead
  <2>2. /\ Len(whole) = end /\ inMessage = ~info.fin /\ opcode = wholeOp
        /\ \A i \in 1 .. pos : buffers[i] = whole[i]
        /\ \A i \in pos + 1 .. end : buffers[i] = Xor(whole[i], info.key)
    BY <2>1
  <2>3. end \in Nat /\ end <= Len(buffers)
    BY <1>0, <2>1 DEF Room
  <2>4. \A i \in 1 .. end : decoded[i] = whole[i]
    <3> SUFFICES ASSUME NEW i \in 1 .. end PROVE decoded[i] = whole[i]
      OBVIOUS
    <3>1. whole[i] \in Bytes
      BY <1>0, <2>2
    <3>2. i \in DOMAIN buffers /\ i \in Nat /\ pos \in Nat
      <4>1. DOMAIN buffers = 1 .. Len(buffers) /\ Len(buffers) \in Nat /\ pos \in Nat
        BY <1>0
      <4> QED
        BY ONLY <2>3, <4>1
    <3> QED
      BY <1>0, <2>2, <3>1, <3>2, XorTwice
  <2>5. reads'["head"] = "none" /\ \A k \in Kinds : reads'[k] = "none"
    BY <1>0, <2>1
  <2> HIDE DEF decoded
  <2>6. CASE info.fin
    <3>1. /\ ioPc' = "messageEvent" /\ message' = SubSeq(decoded, 1, end) /\ pos' = 0
      BY <1>17, <2>6 DEF DataHandler, Deliver, IoGoto, decoded
    <3>2. SubSeq(decoded, 1, end) = whole
      <4>1. SubSeq(decoded, 1, end) = [i \in 1 .. end |-> decoded[i]]
        BY <2>3
      <4> QED
        BY <1>0, <2>2, <2>4, <4>1
    <3> QED
      BY <2>1, <2>2, <2>5, <2>6, <3>1, <3>2
  <2>7. CASE ~info.fin
    <3>1. /\ ioPc' = "start" /\ message' = message
          /\ buffers' = decoded /\ pos' = end
      BY <1>17, <2>7 DEF DataHandler, Deliver, IoGoto, decoded
    <3> QED
      BY <2>1, <2>2, <2>4, <2>5, <2>7, <3>1
  <2> QED
    BY <2>6, <2>7
<1>18. ASSUME ExpiryHandler PROVE Gathers'
  BY <1>0, <1>18 DEF ExpiryHandler, IoIdle, CallClose, Enter
<1>19. ASSUME WriteFails PROVE Gathers'
  BY <1>0, <1>19 DEF WriteFails, IoIdle, CallClose, Enter
<1>20. ASSUME NEW u \in Users, NEW event \in BOOLEAN, UserCloses(u, event) PROVE Gathers'
  BY <1>0, <1>20 DEF UserCloses, CallClose, CallNullClose, Enter
<1>21. ASSUME NEW t \in Threads, CloseTest(t) PROVE Gathers'
  BY <1>0, <1>21 DEF CloseTest, CloseStep
<1>22. ASSUME NEW t \in Threads, CloseSocket(t) PROVE Gathers'
  BY <1>0, <1>22 DEF CloseSocket, CloseStep
<1>23. ASSUME NEW t \in Threads, ClearOpen(t) PROVE Gathers'
  BY <1>0, <1>23 DEF ClearOpen, CloseStep
<1>24. ASSUME NEW t \in Threads, CancelTimers(t) PROVE Gathers'
  BY <1>0, <1>24 DEF CancelTimers, CloseStep
<1>25. ASSUME NEW t \in Threads, Unregister(t) PROVE Gathers'
  BY <1>0, <1>25 DEF Unregister, CloseStep
<1>26. ASSUME Peer PROVE Gathers'
  <2>1. CASE \E fin, masked, split \in BOOLEAN, op \in PeerOps, len \in Lengths, key \in Keys :
               PeerFrame(fin, op, masked, len, key, split)
    BY ONLY <2>1, <1>1
  <2>2. CASE \E k \in Kinds : PeerMore(k)
    BY <2>2, <1>2
  <2> QED
    BY <1>26, <2>1, <2>2, <1>3, <1>3a DEF Peer
<1>27. ASSUME IoHandler PROVE Gathers'
  BY <1>27, <1>6, <1>7, <1>8, <1>9, <1>10, <1>11, <1>12, <1>13, <1>14, <1>15, <1>16,
     <1>17, <1>16a, <1>18 DEF IoHandler
<1>28. ASSUME NEW t \in Threads, Closing(t) PROVE Gathers'
  BY <1>28, <1>21, <1>22, <1>23, <1>24, <1>25 DEF Closing
<1>29. CASE UNCHANGED vars
  BY <1>29 DEF vars
<1> QED
  BY <1>26, <1>27, <1>28, <1>29, <1>4, <1>5, <1>19, <1>20 DEF Next

\* The payload that is being read has room: while it is, nothing else moves
\* data_current_pos_ or the buffer.
LEMMA BufferStep == IInv /\ [Next]_vars => BufferFits'
<1> SUFFICES ASSUME reads \in [Kinds -> ReadStates],
                    info \in Infos,
                    buffers \in Seq(Bytes),
                    pos \in Nat,
                    OneReader,
                    BufferFits,
                    [Next]_vars
             PROVE BufferFits'
  BY DEF IInv, Types
<1> USE DEF BufferFits, OneReader, Kinds, ReadStates, flagVars, threadVars, timerVars,
           dataVars
<1>1. ASSUME NEW fin \in BOOLEAN, NEW masked \in BOOLEAN, NEW split \in BOOLEAN,
             NEW op \in PeerOps, NEW len \in Lengths, NEW key \in Keys,
             PeerFrame(fin, op, masked, len, key, split)
      PROVE BufferFits'
  BY <1>1 DEF PeerFrame, ReadTurns, ReadUnchanged
<1>2. ASSUME NEW k \in Kinds, PeerMore(k) PROVE BufferFits'
  BY <1>2 DEF PeerMore, ReadTurns, ReadUnchanged
<1>3. ASSUME PeerData PROVE BufferFits'
  <2>1. Len(buffers') = Len(buffers)
    <3>1. DOMAIN buffers' = DOMAIN buffers
      BY <1>3 DEF PeerData
    <3>2. Len(buffers) \in Nat /\ DOMAIN buffers = 1 .. Len(buffers)
      BY LenProperties
    <3> QED
      BY <3>1, <3>2
  <2> QED
    BY <1>3, <2>1 DEF PeerData, ReadTurns, ReadUnchanged
<1>3a. ASSUME PeerOverruns PROVE BufferFits'
  BY <1>3a DEF PeerOverruns, Terminates
<1>4. ASSUME NEW k \in Kinds, ReadError(k) PROVE BufferFits'
  BY <1>4 DEF ReadError, ReadTurns, ReadUnchanged
<1>5. ASSUME Expire PROVE BufferFits'
  BY <1>5 DEF Expire
<1>6. ASSUME NEW url \in BOOLEAN, MoveSocket(url) PROVE BufferFits'
  BY <1>6 DEF MoveSocket, IoGoto, CallNullClose, Enter
<1>7. ASSUME NEW echo \in BOOLEAN, EventReturns(echo) PROVE BufferFits'
  BY <1>7 DEF EventReturns, IoGoto
<1>8. ASSUME NEW event \in BOOLEAN, EventCloses(event) PROVE BufferFits'
  BY <1>8 DEF EventCloses, IoGoto, CallClose, CallNullClose, Enter
<1>9. ASSUME StartRead PROVE BufferFits'
  BY <1>9 DEF StartRead, IoGoto, Read
<1>10. ASSUME NEW k \in Kinds, ReadFailed(k) PROVE BufferFits'
  BY <1>10 DEF ReadFailed, IoIdle, ReadTurns, CallClose, Enter
<1>11. ASSUME HeadCloses PROVE BufferFits'
  BY <1>11 DEF HeadCloses, HeadHandler, Handler, IoIdle, NoRead, CallClose, Enter
<1>12. ASSUME HeadControl PROVE BufferFits'
  BY <1>12 DEF HeadControl, HeadHandler, Handler, IoIdle, NoRead
<1>13. ASSUME HeadData PROVE BufferFits'
  BY <1>13 DEF HeadData, Handler, IoIdle, Read
<1>14. ASSUME LengthHandler PROVE BufferFits'
  BY <1>14 DEF LengthHandler, Handler, IoIdle, Read
<1>15. ASSUME KeyEmpty PROVE BufferFits'
  BY <1>15 DEF KeyEmpty, Handler, IoIdle, Deliver, IoGoto, NoRead
<1>16. ASSUME KeyData PROVE BufferFits'
  <2>1. Len(buffers) \in Nat /\ pos \in Nat /\ info.len \in Nat /\ info'.len = info.len /\ pos' = pos
    BY <1>16, LenProperties DEF KeyData, Infos
  <2>2. /\ TotalSize \in Nat
        /\ pos + info.len <= TotalSize \/ pos + info.len >= WordSize
    BY <2>1, TotalSizeFits
  <2>3. Len(buffers') = TotalSize
    <3>1. buffers' = Resize(buffers, TotalSize)
      BY <1>16 DEF KeyData
    <3> QED
      BY <2>2, <3>1, ResizeSeq
  <2>4. WordSize \in Nat
    BY ReaderAssumption
  <2> QED
    BY <2>1, <2>2, <2>3, <2>4
<1>16a. ASSUME KeyThrows PROVE BufferFits'
  BY <1>16a DEF KeyThrows, Terminates, IoIdle
<1>17. ASSUME DataHandler PROVE BufferFits'
  BY <1>17 DEF DataHandler, Handler, IoIdle, Deliver, IoGoto, NoRead
<1>18. ASSUME ExpiryHandler PROVE BufferFits'
  BY <1>18 DEF ExpiryHandler, IoIdle, CallClose, Enter
<1>19. ASSUME WriteFails PROVE BufferFits'
  BY <1>19 DEF WriteFails, IoIdle, CallClose, Enter
<1>20. ASSUME NEW u \in Users, NEW event \in BOOLEAN, UserCloses(u, event) PROVE BufferFits'
  BY <1>20 DEF UserCloses, CallClose, CallNullClose, Enter
<1>21. ASSUME NEW t \in Threads, CloseTest(t) PROVE BufferFits'
  BY <1>21 DEF CloseTest, CloseStep
<1>22. ASSUME NEW t \in Threads, CloseSocket(t) PROVE BufferFits'
  BY <1>22 DEF CloseSocket, CloseStep
<1>23. ASSUME NEW t \in Threads, ClearOpen(t) PROVE BufferFits'
  BY <1>23 DEF ClearOpen, CloseStep
<1>24. ASSUME NEW t \in Threads, CancelTimers(t) PROVE BufferFits'
  BY <1>24 DEF CancelTimers, CloseStep
<1>25. ASSUME NEW t \in Threads, Unregister(t) PROVE BufferFits'
  BY <1>25 DEF Unregister, CloseStep
<1>26. ASSUME Peer PROVE BufferFits'
  <2>1. CASE \E fin, masked, split \in BOOLEAN, op \in PeerOps, len \in Lengths, key \in Keys :
               PeerFrame(fin, op, masked, len, key, split)
    BY ONLY <2>1, <1>1
  <2>2. CASE \E k \in Kinds : PeerMore(k)
    BY <2>2, <1>2
  <2> QED
    BY <1>26, <2>1, <2>2, <1>3, <1>3a DEF Peer
<1>27. ASSUME IoHandler PROVE BufferFits'
  BY <1>27, <1>6, <1>7, <1>8, <1>9, <1>10, <1>11, <1>12, <1>13, <1>14, <1>15, <1>16,
     <1>17, <1>16a, <1>18 DEF IoHandler
<1>28. ASSUME NEW t \in Threads, Closing(t) PROVE BufferFits'
  BY <1>28, <1>21, <1>22, <1>23, <1>24, <1>25 DEF Closing
<1>29. CASE UNCHANGED vars
  BY <1>29 DEF vars
<1> QED
  BY <1>26, <1>27, <1>28, <1>29, <1>4, <1>5, <1>19, <1>20 DEF Next

\* A read is under a time limit: only the handler of the read itself, or a
\* thread that has closed the socket, cancels the timer.
LEMMA TimedStep == IInv /\ [Next]_vars => ReadTimed'
<1> SUFFICES ASSUME reads \in [Kinds -> ReadStates],
                    pc \in [Threads -> Pcs],
                    OneReader,
                    ReadTimed,
                    Shut,
                    [Next]_vars
             PROVE ReadTimed'
  BY DEF IInv, Types
<1> USE DEF ReadTimed, OneReader, Shut, Threads, Kinds, ReadStates, Pcs, flagVars,
           threadVars, timerVars
<1>1. ASSUME NEW fin \in BOOLEAN, NEW masked \in BOOLEAN, NEW split \in BOOLEAN,
             NEW op \in PeerOps, NEW len \in Lengths, NEW key \in Keys,
             PeerFrame(fin, op, masked, len, key, split)
      PROVE ReadTimed'
  BY <1>1 DEF PeerFrame, ReadTurns, ReadUnchanged
<1>2. ASSUME NEW k \in Kinds, PeerMore(k) PROVE ReadTimed'
  BY <1>2 DEF PeerMore, ReadTurns, ReadUnchanged
<1>3. ASSUME PeerData PROVE ReadTimed'
  BY <1>3 DEF PeerData, ReadTurns, ReadUnchanged
<1>3a. ASSUME PeerOverruns PROVE ReadTimed'
  BY <1>3a DEF PeerOverruns, Terminates
<1>4. ASSUME NEW k \in Kinds, ReadError(k) PROVE ReadTimed'
  BY <1>4 DEF ReadError, ReadTurns, ReadUnchanged
<1>5. ASSUME Expire PROVE ReadTimed'
  BY <1>5 DEF Expire
<1>6. ASSUME NEW url \in BOOLEAN, MoveSocket(url) PROVE ReadTimed'
  BY <1>6 DEF MoveSocket, IoGoto, CallNullClose, Enter
<1>7. ASSUME NEW echo \in BOOLEAN, EventReturns(echo) PROVE ReadTimed'
  BY <1>7 DEF EventReturns, IoGoto
<1>8. ASSUME NEW event \in BOOLEAN, EventCloses(event) PROVE ReadTimed'
  BY <1>8 DEF EventCloses, IoGoto, CallClose, CallNullClose, Enter
<1>9. ASSUME StartRead PROVE ReadTimed'
  BY <1>9 DEF StartRead, IoGoto, Read
<1>10. ASSUME NEW k \in Kinds, ReadFailed(k) PROVE ReadTimed'
  BY <1>10 DEF ReadFailed, IoIdle, ReadTurns, CallClose, Enter
<1>11. ASSUME HeadCloses PROVE ReadTimed'
  BY <1>11 DEF HeadCloses, HeadHandler, Handler, IoIdle, NoRead, CallClose, Enter
<1>12. ASSUME HeadControl PROVE ReadTimed'
  BY <1>12 DEF HeadControl, HeadHandler, Handler, IoIdle, NoRead
<1>13. ASSUME HeadData PROVE ReadTimed'
  BY <1>13 DEF HeadData, Handler, IoIdle, Read
<1>14. ASSUME LengthHandler PROVE ReadTimed'
  BY <1>14 DEF LengthHandler, Handler, IoIdle, Read
<1>15. ASSUME KeyEmpty PROVE ReadTimed'
  BY <1>15 DEF KeyEmpty, Handler, IoIdle, Deliver, IoGoto, NoRead
<1>16. ASSUME KeyData PROVE ReadTimed'
  BY <1>16 DEF KeyData, Handler, IoIdle, Read
<1>16a. ASSUME KeyThrows PROVE ReadTimed'
  BY <1>16a DEF KeyThrows, Terminates, IoIdle
<1>17. ASSUME DataHandler PROVE ReadTimed'
  BY <1>17 DEF DataHandler, Handler, IoIdle, Deliver, IoGoto, NoRead
<1>18. ASSUME ExpiryHandler PROVE ReadTimed'
  BY <1>18 DEF ExpiryHandler, IoIdle, CallClose, Enter
<1>19. ASSUME WriteFails PROVE ReadTimed'
  BY <1>19 DEF WriteFails, IoIdle, CallClose, Enter
<1>20. ASSUME NEW u \in Users, NEW event \in BOOLEAN, UserCloses(u, event) PROVE ReadTimed'
  BY <1>20 DEF UserCloses, CallClose, CallNullClose, Enter
<1>21. ASSUME NEW t \in Threads, CloseTest(t) PROVE ReadTimed'
  BY <1>21 DEF CloseTest, CloseStep
<1>22. ASSUME NEW t \in Threads, CloseSocket(t) PROVE ReadTimed'
  BY <1>22 DEF CloseSocket, CloseStep
<1>23. ASSUME NEW t \in Threads, ClearOpen(t) PROVE ReadTimed'
  BY <1>23 DEF ClearOpen, CloseStep
<1>24. ASSUME NEW t \in Threads, CancelTimers(t) PROVE ReadTimed'
  BY <1>24 DEF CancelTimers, CloseStep
<1>25. ASSUME NEW t \in Threads, Unregister(t) PROVE ReadTimed'
  BY <1>25 DEF Unregister, CloseStep
<1>26. ASSUME Peer PROVE ReadTimed'
  <2>1. CASE \E fin, masked, split \in BOOLEAN, op \in PeerOps, len \in Lengths, key \in Keys :
               PeerFrame(fin, op, masked, len, key, split)
    BY ONLY <2>1, <1>1
  <2>2. CASE \E k \in Kinds : PeerMore(k)
    BY <2>2, <1>2
  <2> QED
    BY <1>26, <2>1, <2>2, <1>3, <1>3a DEF Peer
<1>27. ASSUME IoHandler PROVE ReadTimed'
  BY <1>27, <1>6, <1>7, <1>8, <1>9, <1>10, <1>11, <1>12, <1>13, <1>14, <1>15, <1>16,
     <1>17, <1>16a, <1>18 DEF IoHandler
<1>28. ASSUME NEW t \in Threads, Closing(t) PROVE ReadTimed'
  BY <1>28, <1>21, <1>22, <1>23, <1>24, <1>25 DEF Closing
<1>29. CASE UNCHANGED vars
  BY <1>29 DEF vars
<1> QED
  BY <1>26, <1>27, <1>28, <1>29, <1>4, <1>5, <1>19, <1>20 DEF Next

\* The socket is closed before the flag is cleared and the timers cancelled.
LEMMA ShutStep == IInv /\ [Next]_vars => Shut'
<1> SUFFICES ASSUME pc \in [Threads -> Pcs],
                    Shut,
                    [Next]_vars
             PROVE Shut'
  BY DEF IInv, Types
<1> USE DEF Shut, Threads, Pcs, flagVars, threadVars, timerVars
<1>1. ASSUME NEW fin \in BOOLEAN, NEW masked \in BOOLEAN, NEW split \in BOOLEAN,
             NEW op \in PeerOps, NEW len \in Lengths, NEW key \in Keys,
             PeerFrame(fin, op, masked, len, key, split)
      PROVE Shut'
  BY <1>1 DEF PeerFrame, ReadTurns, ReadUnchanged
<1>2. ASSUME NEW k \in Kinds, PeerMore(k) PROVE Shut'
  BY <1>2 DEF PeerMore, ReadTurns, ReadUnchanged
<1>3. ASSUME PeerData PROVE Shut'
  BY <1>3 DEF PeerData, ReadTurns, ReadUnchanged
<1>3a. ASSUME PeerOverruns PROVE Shut'
  BY <1>3a DEF PeerOverruns, Terminates
<1>4. ASSUME NEW k \in Kinds, ReadError(k) PROVE Shut'
  BY <1>4 DEF ReadError, ReadTurns, ReadUnchanged
<1>5. ASSUME Expire PROVE Shut'
  BY <1>5 DEF Expire
<1>6. ASSUME NEW url \in BOOLEAN, MoveSocket(url) PROVE Shut'
  BY <1>6 DEF MoveSocket, IoGoto, CallNullClose, Enter
<1>7. ASSUME NEW echo \in BOOLEAN, EventReturns(echo) PROVE Shut'
  BY <1>7 DEF EventReturns, IoGoto
<1>8. ASSUME NEW event \in BOOLEAN, EventCloses(event) PROVE Shut'
  BY <1>8 DEF EventCloses, IoGoto, CallClose, CallNullClose, Enter
<1>9. ASSUME StartRead PROVE Shut'
  BY <1>9 DEF StartRead, IoGoto, Read
<1>10. ASSUME NEW k \in Kinds, ReadFailed(k) PROVE Shut'
  BY <1>10 DEF ReadFailed, IoIdle, ReadTurns, CallClose, Enter
<1>11. ASSUME HeadCloses PROVE Shut'
  BY <1>11 DEF HeadCloses, HeadHandler, Handler, IoIdle, NoRead, CallClose, Enter
<1>12. ASSUME HeadControl PROVE Shut'
  BY <1>12 DEF HeadControl, HeadHandler, Handler, IoIdle, NoRead
<1>13. ASSUME HeadData PROVE Shut'
  BY <1>13 DEF HeadData, Handler, IoIdle, Read
<1>14. ASSUME LengthHandler PROVE Shut'
  BY <1>14 DEF LengthHandler, Handler, IoIdle, Read
<1>15. ASSUME KeyEmpty PROVE Shut'
  BY <1>15 DEF KeyEmpty, Handler, IoIdle, Deliver, IoGoto, NoRead
<1>16. ASSUME KeyData PROVE Shut'
  BY <1>16 DEF KeyData, Handler, IoIdle, Read
<1>16a. ASSUME KeyThrows PROVE Shut'
  BY <1>16a DEF KeyThrows, Terminates, IoIdle
<1>17. ASSUME DataHandler PROVE Shut'
  BY <1>17 DEF DataHandler, Handler, IoIdle, Deliver, IoGoto, NoRead
<1>18. ASSUME ExpiryHandler PROVE Shut'
  BY <1>18 DEF ExpiryHandler, IoIdle, CallClose, Enter
<1>19. ASSUME WriteFails PROVE Shut'
  BY <1>19 DEF WriteFails, IoIdle, CallClose, Enter
<1>20. ASSUME NEW u \in Users, NEW event \in BOOLEAN, UserCloses(u, event) PROVE Shut'
  BY <1>20 DEF UserCloses, CallClose, CallNullClose, Enter
<1>21. ASSUME NEW t \in Threads, CloseTest(t) PROVE Shut'
  BY <1>21 DEF CloseTest, CloseStep
<1>22. ASSUME NEW t \in Threads, CloseSocket(t) PROVE Shut'
  BY <1>22 DEF CloseSocket, CloseStep
<1>23. ASSUME NEW t \in Threads, ClearOpen(t) PROVE Shut'
  BY <1>23 DEF ClearOpen, CloseStep
<1>24. ASSUME NEW t \in Threads, CancelTimers(t) PROVE Shut'
  BY <1>24 DEF CancelTimers, CloseStep
<1>25. ASSUME NEW t \in Threads, Unregister(t) PROVE Shut'
  BY <1>25 DEF Unregister, CloseStep
<1>26. ASSUME Peer PROVE Shut'
  <2>1. CASE \E fin, masked, split \in BOOLEAN, op \in PeerOps, len \in Lengths, key \in Keys :
               PeerFrame(fin, op, masked, len, key, split)
    BY ONLY <2>1, <1>1
  <2>2. CASE \E k \in Kinds : PeerMore(k)
    BY <2>2, <1>2
  <2> QED
    BY <1>26, <2>1, <2>2, <1>3, <1>3a DEF Peer
<1>27. ASSUME IoHandler PROVE Shut'
  BY <1>27, <1>6, <1>7, <1>8, <1>9, <1>10, <1>11, <1>12, <1>13, <1>14, <1>15, <1>16,
     <1>17, <1>16a, <1>18 DEF IoHandler
<1>28. ASSUME NEW t \in Threads, Closing(t) PROVE Shut'
  BY <1>28, <1>21, <1>22, <1>23, <1>24, <1>25 DEF Closing
<1>29. CASE UNCHANGED vars
  BY <1>29 DEF vars
<1> QED
  BY <1>26, <1>27, <1>28, <1>29, <1>4, <1>5, <1>19, <1>20 DEF Next

\* The buffer has the room expand_buffer made: while a payload is read nothing
\* else moves data_current_pos_ or the buffer, and one without room never ends.
LEMMA RoomStep == IInv /\ [Next]_vars => Room'
<1> SUFFICES ASSUME reads \in [Kinds -> ReadStates],
                    info \in Infos, wire \in Wires,
                    buffers \in Seq(Bytes),
                    pos \in Nat,
                    OneReader, Room, InfoRead,
                    [Next]_vars
             PROVE Room'
  BY DEF IInv, Types, Gathers
<1> USE DEF Room, OneReader, Kinds, ReadStates, IoPcs, Wrapped, flagVars, threadVars,
           timerVars, dataVars
<1>1. ASSUME NEW fin \in BOOLEAN, NEW masked \in BOOLEAN, NEW split \in BOOLEAN,
             NEW op \in PeerOps, NEW len \in Lengths, NEW key \in Keys,
             PeerFrame(fin, op, masked, len, key, split)
      PROVE Room'
  BY <1>1 DEF PeerFrame, ReadTurns, ReadUnchanged
<1>2. ASSUME NEW k \in Kinds, PeerMore(k) PROVE Room'
  BY <1>2 DEF PeerMore, ReadTurns, ReadUnchanged
<1>3. ASSUME PeerData PROVE Room'
  <2>1. /\ pos + wire.len <= Len(buffers) /\ reads["data"] = "sent"
        /\ UNCHANGED <<pos, info>>
    BY <1>3 DEF PeerData, ReadTurns, ReadUnchanged
  <2>2. info.len = wire.len
    BY <2>1 DEF InfoRead
  <2>3. Len(buffers) \in Nat /\ pos \in Nat /\ wire.len \in Nat
    BY LenProperties DEF Wires
  <2>4. Len(buffers') = Len(buffers)
    <3>1. DOMAIN buffers' = DOMAIN buffers
      BY <1>3 DEF PeerData
    <3>2. DOMAIN buffers = 1 .. Len(buffers)
      BY LenProperties
    <3> QED
      BY <2>3, <3>1, <3>2
  <2>5. pos' + info'.len <= Len(buffers')
    BY <2>1, <2>2, <2>4
  <2>6. pos' <= Len(buffers')
    BY <2>1, <2>3, <2>4
  <2> QED
    BY <2>5, <2>6
<1>3a. ASSUME PeerOverruns PROVE Room'
  BY <1>3a DEF PeerOverruns, Terminates
<1>4. ASSUME NEW k \in Kinds, ReadError(k) PROVE Room'
  BY <1>4 DEF ReadError, ReadTurns, ReadUnchanged
<1>5. ASSUME Expire PROVE Room'
  BY <1>5 DEF Expire
<1>6. ASSUME NEW url \in BOOLEAN, MoveSocket(url) PROVE Room'
  BY <1>6 DEF MoveSocket, IoGoto, CallNullClose, Enter
<1>7. ASSUME NEW echo \in BOOLEAN, EventReturns(echo) PROVE Room'
  BY <1>7 DEF EventReturns, IoGoto
<1>8. ASSUME NEW event \in BOOLEAN, EventCloses(event) PROVE Room'
  BY <1>8 DEF EventCloses, IoGoto, CallClose, CallNullClose, Enter
<1>9. ASSUME StartRead PROVE Room'
  BY <1>9 DEF StartRead, IoGoto, Read
<1>10. ASSUME NEW k \in Kinds, ReadFailed(k) PROVE Room'
  BY <1>10 DEF ReadFailed, IoIdle, ReadTurns, CallClose, Enter
<1>11. ASSUME HeadCloses PROVE Room'
  BY <1>11 DEF HeadCloses, HeadHandler, Handler, IoIdle, NoRead, CallClose, Enter
<1>12. ASSUME HeadControl PROVE Room'
  BY <1>12 DEF HeadControl, HeadHandler, Handler, IoIdle, NoRead
<1>13. ASSUME HeadData PROVE Room'
  BY <1>13 DEF HeadData, Handler, IoIdle, Read
<1>14. ASSUME LengthHandler PROVE Room'
  BY <1>14 DEF LengthHandler, Handler, IoIdle, Read
<1>15. ASSUME KeyEmpty PROVE Room'
  BY <1>15 DEF KeyEmpty, Handler, IoIdle, Deliver, IoGoto, NoRead
<1>16. ASSUME KeyData PROVE Room'
  <2>1. Len(buffers) \in Nat /\ pos \in Nat /\ info.len \in Nat /\ info'.len = info.len /\ pos' = pos
    BY <1>16, LenProperties DEF KeyData, Infos
  <2>2. /\ TotalSize \in Nat
        /\ \/ pos + info.len <= TotalSize
           \/ pos + info.len >= WordSize /\ TotalSize = (pos + info.len) % WordSize
    BY <2>1, TotalSizeFits
  <2>3. Len(buffers') = TotalSize
    <3>1. buffers' = Resize(buffers, TotalSize)
      BY <1>16 DEF KeyData
    <3> QED
      BY <2>2, <3>1, ResizeSeq
  <2>4. pos' <= Len(buffers') \/ Wrapped'
    BY <2>1, <2>2, <2>3
  <2>5. /\ ioPc' = "idle" /\ reads'["data"] = "sent"
        /\ \A k \in Kinds \ {"data"} : reads'[k] = "none"
    BY <1>16 DEF KeyData, Handler, IoIdle, Read
  <2> QED
    BY <2>4, <2>5
<1>16a. ASSUME KeyThrows PROVE Room'
  BY <1>16a DEF KeyThrows, Terminates, IoIdle
<1>17. ASSUME DataHandler PROVE Room'
  BY <1>17 DEF DataHandler, Handler, IoIdle, Deliver, IoGoto, NoRead
<1>18. ASSUME ExpiryHandler PROVE Room'
  BY <1>18 DEF ExpiryHandler, IoIdle, CallClose, Enter
<1>19. ASSUME WriteFails PROVE Room'
  BY <1>19 DEF WriteFails, IoIdle, CallClose, Enter
<1>20. ASSUME NEW u \in Users, NEW event \in BOOLEAN, UserCloses(u, event) PROVE Room'
  BY <1>20 DEF UserCloses, CallClose, CallNullClose, Enter
<1>21. ASSUME NEW t \in Threads, CloseTest(t) PROVE Room'
  BY <1>21 DEF CloseTest, CloseStep
<1>22. ASSUME NEW t \in Threads, CloseSocket(t) PROVE Room'
  BY <1>22 DEF CloseSocket, CloseStep
<1>23. ASSUME NEW t \in Threads, ClearOpen(t) PROVE Room'
  BY <1>23 DEF ClearOpen, CloseStep
<1>24. ASSUME NEW t \in Threads, CancelTimers(t) PROVE Room'
  BY <1>24 DEF CancelTimers, CloseStep
<1>25. ASSUME NEW t \in Threads, Unregister(t) PROVE Room'
  BY <1>25 DEF Unregister, CloseStep
<1>26. ASSUME Peer PROVE Room'
  <2>1. CASE \E fin, masked, split \in BOOLEAN, op \in PeerOps, len \in Lengths, key \in Keys :
               PeerFrame(fin, op, masked, len, key, split)
    BY ONLY <2>1, <1>1
  <2>2. CASE \E k \in Kinds : PeerMore(k)
    BY <2>2, <1>2
  <2> QED
    BY <1>26, <2>1, <2>2, <1>3, <1>3a DEF Peer
<1>27. ASSUME IoHandler PROVE Room'
  BY <1>27, <1>6, <1>7, <1>8, <1>9, <1>10, <1>11, <1>12, <1>13, <1>14, <1>15, <1>16,
     <1>17, <1>16a, <1>18 DEF IoHandler
<1>28. ASSUME NEW t \in Threads, Closing(t) PROVE Room'
  BY <1>28, <1>21, <1>22, <1>23, <1>24, <1>25 DEF Closing
<1>29. CASE UNCHANGED vars
  BY <1>29 DEF vars
<1> QED
  BY <1>26, <1>27, <1>28, <1>29, <1>4, <1>5, <1>19, <1>20 DEF Next

-----------------------------------------------------------------------------
(* The theorems.                                                           *)

\* Every step preserves it.
LEMMA NextInv == IInv /\ [Next]_vars => IInv'
  BY TypeStep, RoomStep, OneReaderStep, BufferStep, TimedStep, ShutStep, GatherStep,
     WrittenBackStep
  DEF IInv

\* Every reachable state satisfies the inductive invariant, however handlers
\* of the io thread, expiries and closing threads are interleaved.
THEOREM InductiveInvariant == Spec => []IInv
  BY InitInv, NextInv, PTL DEF Spec

\* The types, for every number of threads, frames and payload lengths.
THEOREM TypeCorrect == Spec => []TypeOK
<1>1. IInv => TypeOK
  BY DEF IInv, Room, TypeOK
<1> QED
  BY <1>1, InductiveInvariant, PTL

\* At most one asynchronous read of a websocket, so its handlers never work
\* on buffers_ and frame_info_ at the same time.
THEOREM OneReaderHolds == Spec => []OneReader
<1>1. IInv => OneReader
  BY DEF IInv
<1> QED
  BY <1>1, InductiveInvariant, PTL

\* Asio never writes a payload past the end of buffers_, whatever lengths the
\* peer announces and however its messages are fragmented.
THEOREM BufferFitsHolds == Spec => []BufferFits
<1>1. IInv => BufferFits
  BY DEF IInv
<1> QED
  BY <1>1, InductiveInvariant, PTL

\* No read waits without a time limit while the websocket stays open,
\* whichever threads close it meanwhile.
THEOREM ReadTimedHolds == Spec => []ReadTimed
<1>1. IInv => ReadTimed
  BY DEF IInv
<1> QED
  BY <1>1, InductiveInvariant, PTL

\* The "message" event sees the bytes of the whole message, unmasked and in
\* order, and the opcode of its first frame, however many frames it came in, of
\* whatever lengths and masks, with control frames between them (MessageWhole
\* leaves out a message that ends with an empty frame).
THEOREM MessageWholeHolds == Spec => []MessageWhole
<1>1. IInv => MessageWhole
  BY DEF IInv, Gathers
<1> QED
  BY <1>1, InductiveInvariant, PTL

\* The frames of a message that is written back carry it: in a row their
\* payloads are its bytes, each says its own length, the first and only the
\* first has the opcode and the last and only the last is final, for every
\* length of a message and every size of the frames (websocket::write).
THEOREM FramesCarryMessageHolds == Spec => []FramesCarryMessage
<1>1. IInv => FramesCarryMessage
  <2> SUFFICES ASSUME IInv, out # <<>>
               PROVE /\ FlattenSeq([i \in DOMAIN out |-> out[i].data]) = message
                     /\ \A i \in DOMAIN out :
                            /\ out[i].len = Len(out[i].data)
                            /\ out[i].form = Form(out[i].len)
                            /\ out[i].op = (IF i = 1 THEN Text ELSE 0)
                            /\ out[i].fin <=> (i = Len(out))
    BY Zenon DEF FramesCarryMessage
  <2>1. out = Cut(message, Text, FrameSize) /\ message \in Seq(Bytes)
    BY DEF IInv, WrittenBack, Types
  <2>2. Len(message) > 0
    <3>1. Len(message) \in Nat /\ Len(message) # 0
      BY <2>1, LenProperties DEF Cut
    <3> QED
      BY <3>1
  <2> QED
    BY <2>1, <2>2, CutCarries
<1> QED
  BY <1>1, InductiveInvariant, PTL
=============================================================================
