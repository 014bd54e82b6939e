--------------------------- MODULE RequestReader ----------------------------
(***************************************************************************)
(* How a connection reads one request (src/xfinal/connection.hpp): the     *)
(* buffer that is doubled with every read, the window of it that holds     *)
(* what is not consumed yet, and the handlers that make a header, a body   *)
(* of a known length, a stored octet stream or the parts of a multipart    *)
(* form of it, whatever the segments are in which the peer's bytes come.   *)
(*                                                                         *)
(* Handlers run one after the other.  One that calls another handler       *)
(* function at once leaves `reading` false, and that function is the next  *)
(* step; one that starts a read and names it as the callback sets it.      *)
(*                                                                         *)
(* Positions and lengths are the code's.  The "--" of a boundary is one    *)
(* byte here, and so is its key.                                           *)
(***************************************************************************)
EXTENDS Integers, Sequences

CONSTANTS
    Requests,       \* what a peer may send, see RequestType
    Names,          \* the names of the parts of a form
    Bytes,          \* the values of a byte
    InitialSize,    \* 1024
    MaxSize,        \* max_buffer_size_
    WordSize        \* the number of values of std::size_t

Kinds == {"none", "string", "octet", "multipart", "noBoundary", "unknown"}

\* kind: by Content-Length and Content-Type; header: how long the header is; the
\* parts that a multipart body encodes, and where in it their boundaries begin (see
\* Encodes); extra: what the peer sends after it.  Only a body is taken for a text.
RequestType ==
    {r \in [kind : Kinds, header : Nat \ {0}, body : Seq(Bytes), at : Seq(Nat),
            parts : [Names -> Seq(Bytes)], extra : Seq(Bytes)] :
         r.kind = "string" => r.body # <<>>}

CR == "r"
LF == "n"
Dashes == "-"
Key == "b"
Zero == "0"     \* what resize() fills a vector with
HeadByte == "h" \* a byte of the request's header

ASSUME RequestsAssumption == Requests \subseteq RequestType
ASSUME BytesAssumption == {CR, LF, Dashes, Key, Zero, HeadByte} \cup Names \subseteq Bytes
ASSUME SizesAssumption ==
    /\ InitialSize \in Nat \ {0} /\ MaxSize \in Nat /\ WordSize \in Nat
    /\ InitialSize <= MaxSize /\ 2 * MaxSize < WordSize

VARIABLES
    request,        \* what the peer sends
    taken,          \* how many bytes of it have been read
    buffers,        \* buffers_
    cur,            \* current_use_pos_
    left,           \* left_buffer_size_
    start,          \* start_read_pos_
    expand,         \* expand_buffer_size
    pc,             \* the handler function that is to run
    reading,        \* ... when the asynchronous read completes
    content,        \* request_info_.body_, or what oct_steam_ has stored
    stored,         \* oct_steam_ is open
    part,           \* data_info: the part that is being read
    form,           \* multipart_form_map_ and multipart_files_map_
    mishaps         \* what went wrong so far: history

bufferVars == <<buffers, cur, left, start, expand>>
bodyVars == <<content, stored, part, form>>
vars == <<request, taken, bufferVars, pc, reading, bodyVars, mishaps>>

Handlers == {"header", "string", "octet", "partHead", "partData"}
Ends == {"routed", "refused", "tooLarge", "dropped", "closed"}
Mishaps == {"headerOverflow", "shortRead", "unopened", "swallowed", "cutEnd"}

Repeat(b, n) == [i \in 1..n |-> b]
Stream(r) == Repeat(HeadByte, r.header) \o r.body \o r.extra

-----------------------------------------------------------------------------
(* The buffer.                                                             *)

Resized(s, n) == [i \in 1..n |-> IF i <= Len(s) THEN s[i] ELSE Zero]

\* forward_contain_data: the bytes from..to are moved to the front.
Forwarded(s, from, to) ==
    [i \in 1..Len(s) |-> IF i <= to - from THEN s[i + from] ELSE s[i]]

\* Mutant: the doubled size is not kept to the width of std::size_t.
DoubledWide == expand + expand

Doubled == (expand + expand) % WordSize

\* Mutant: what is in the buffer is not taken off.
ExpandedWhole(s, c, multipart) ==
    IF Doubled <= MaxSize
      THEN [expand |-> Doubled, buffers |-> Resized(s, Doubled),
            left |-> (Doubled - c) % WordSize, ok |-> TRUE]
      ELSE IF multipart
             THEN [expand |-> MaxSize, left |-> MaxSize, ok |-> TRUE,
                   buffers |-> IF Len(s) < MaxSize THEN Resized(s, MaxSize) ELSE s]
             ELSE [expand |-> Doubled, buffers |-> s, left |-> 0, ok |-> FALSE]

\* expand_size, with s for the buffer and c for the position in it: what the
\* members are afterwards, and what it returns.
Expanded(s, c, multipart) ==
    IF Doubled <= MaxSize
      THEN [expand |-> Doubled, buffers |-> Resized(s, Doubled),
            left |-> (Doubled - c) % WordSize, ok |-> TRUE]
      ELSE IF multipart
             THEN [expand |-> MaxSize, left |-> MaxSize - c, ok |-> TRUE,
                   buffers |-> IF Len(s) < MaxSize THEN Resized(s, MaxSize) ELSE s]
             ELSE [expand |-> Doubled, buffers |-> s, left |-> 0, ok |-> FALSE]

ExpandTo(e) == expand' = e.expand /\ buffers' = e.buffers /\ left' = e.left

\* continue_read_data: another read behind the c bytes in use of s, with
\* `handler` as its callback; a request that grows too large is refused.
ReadMore(s, c, handler, multipart) ==
    LET e == Expanded(s, c, multipart) IN
    /\ ExpandTo(e)
    /\ cur' = c
    /\ pc' = IF e.ok THEN handler ELSE "tooLarge"
    /\ reading' = e.ok

\* continue_read_data without an expansion, into a buffer of the initial size.
ReadAfresh(handler) ==
    /\ buffers' = Repeat(Zero, InitialSize)
    /\ cur' = 0 /\ left' = InitialSize
    /\ pc' = handler /\ reading' = TRUE
    /\ UNCHANGED expand

\* post_router
Route == pc' = "routed" /\ reading' = FALSE

Init ==
    /\ request \in Requests
    /\ taken = 0
    /\ buffers = Repeat(Zero, InitialSize)
    /\ cur = 0 /\ left = InitialSize /\ start = 0 /\ expand = InitialSize
    /\ pc = "header" /\ reading = TRUE
    /\ content = <<>> /\ stored = FALSE
    /\ part \in Names /\ form = [n \in Names |-> <<>>]
    /\ mishaps = {}

\* async_read_some completes with the next n bytes; a read of nothing completes
\* at once.  Of an octet stream the bytes go to the file and the position stays.
\* (A buffer that does not hold what is asked for is beyond the model.)
Receive(n) ==
    /\ reading
    /\ cur + left <= Len(buffers)
    /\ taken + n <= Len(Stream(request))
    /\ n <= left /\ (n = 0 <=> left = 0)
    /\ taken' = taken + n
    /\ buffers' = [i \in 1..Len(buffers) |->
                      IF cur < i /\ i <= cur + n THEN Stream(request)[taken + i - cur]
                      ELSE buffers[i]]
    /\ cur' = IF pc = "octet" THEN cur ELSE cur + n
    /\ content' = IF pc = "octet" /\ stored
                    THEN content \o SubSeq(Stream(request), taken + 1, taken + n)
                    ELSE content
    /\ reading' = FALSE
    /\ mishaps' = IF n < left THEN mishaps \cup {"shortRead"} ELSE mishaps
    /\ UNCHANGED <<request, left, start, expand, pc, stored, part, form>>

\* The read fails or its timer expires: disconnect.
ReadFails ==
    /\ reading
    /\ pc' = "closed" /\ reading' = FALSE
    /\ UNCHANGED <<request, taken, bufferVars, bodyVars, mishaps>>

-----------------------------------------------------------------------------
(* The header.                                                             *)

At(handler) == pc = handler /\ ~reading
HeaderRead == At("header") /\ cur >= request.header

\* read_header: not yet complete.  What expand_size returns is not looked at.
HeaderIncomplete ==
    /\ At("header")
    /\ cur < request.header
    /\ LET e == Expanded(buffers, cur, FALSE) IN
         /\ ExpandTo(e)
         /\ mishaps' = IF e.ok THEN mishaps ELSE mishaps \cup {"headerOverflow"}
    /\ reading' = TRUE
    /\ UNCHANGED <<request, taken, cur, start, pc, bodyVars>>

\* pre_process_multipart_body: the form begins behind the header, or with the
\* next read.
FormBegins ==
    IF cur > request.header
      THEN start' = request.header /\ left' = Len(buffers) - cur /\ UNCHANGED cur
      ELSE start' = 0 /\ cur' = 0 /\ left' = Len(buffers)

\* parse_header and handle_read: a malformed header, a url without a route, an
\* interceptor that returns false, a body of an unknown type or a form without
\* a boundary.  What has been read of the body stays where it is.
HeaderRefused ==
    /\ HeaderRead
    /\ pc' = "refused"
    /\ \/ UNCHANGED <<start, cur, left>>
       \/ request.kind = "noBoundary" /\ FormBegins
    /\ UNCHANGED <<request, taken, buffers, expand, reading, bodyVars, mishaps>>

\* A request without a body.
RouteBare ==
    /\ HeaderRead
    /\ request.kind = "none"
    /\ Route
    /\ UNCHANGED <<request, taken, bufferVars, bodyVars, mishaps>>

-----------------------------------------------------------------------------
(* A body of a known length that is kept in the buffer: a url-encoded form *)
(* or a text.                                                              *)

BodyIn(s) == content' = SubSeq(s, 1, Len(request.body))

\* pre_process_body: the first bytes of the body came with the header.
PreprocessBody ==
    /\ HeaderRead
    /\ request.kind = "string"
    /\ cur > request.header
    /\ LET moved == Forwarded(buffers, request.header, cur)
           c == cur - request.header
       IN IF Len(request.body) > c
            THEN ReadMore(moved, c, "string", FALSE) /\ UNCHANGED content
            ELSE /\ buffers' = moved /\ cur' = c /\ left' = Len(buffers) - c
                 /\ BodyIn(moved) /\ Route
                 /\ UNCHANGED expand
    /\ UNCHANGED <<request, taken, start, stored, part, form, mishaps>>

\* pre_process_body: the buffer held the header and nothing else.
PreprocessBodyAfresh ==
    /\ HeaderRead
    /\ request.kind = "string"
    /\ cur = request.header
    /\ ReadAfresh("string")
    /\ UNCHANGED <<request, taken, start, bodyVars, mishaps>>

\* Mutant: one byte more than the body is waited for.
ProcessBodyStrict ==
    /\ At("string")
    /\ IF Len(request.body) >= cur
         THEN ReadMore(buffers, cur, "string", FALSE) /\ UNCHANGED content
         ELSE BodyIn(buffers) /\ Route /\ UNCHANGED <<buffers, cur, left, expand>>
    /\ UNCHANGED <<request, taken, start, stored, part, form, mishaps>>

\* process_body
ProcessBody ==
    /\ At("string")
    /\ IF Len(request.body) > cur
         THEN ReadMore(buffers, cur, "string", FALSE) /\ UNCHANGED content
         ELSE BodyIn(buffers) /\ Route /\ UNCHANGED <<buffers, cur, left, expand>>
    /\ UNCHANGED <<request, taken, start, stored, part, form, mishaps>>

-----------------------------------------------------------------------------
(* An octet stream, which goes to a file.                                  *)

\* pre_process_oct_stream: the file is opened if some of the body came with the
\* header, and only then.
PreprocessOctStream ==
    /\ HeaderRead
    /\ request.kind = "octet"
    /\ stored' = (cur > request.header)
    /\ content' = IF stored' THEN SubSeq(buffers, request.header + 1, cur) ELSE <<>>
    /\ mishaps' = IF stored' THEN mishaps ELSE mishaps \cup {"unopened"}
    /\ IF cur - request.header > Len(request.body)
         THEN Route /\ UNCHANGED <<buffers, cur, left>>
         ELSE /\ left' = Len(buffers) /\ buffers' = <<>> /\ cur' = 0
              /\ pc' = "octet" /\ UNCHANGED reading
    /\ UNCHANGED <<request, taken, start, expand, part, form>>

\* process_oct_stream
ProcessOctStream ==
    /\ At("octet")
    /\ IF Len(content) = Len(request.body)
         THEN /\ stored' = FALSE /\ Route
              /\ UNCHANGED <<buffers, cur, left, expand>>
         ELSE ReadMore(buffers, cur, "octet", TRUE) /\ UNCHANGED stored
    /\ UNCHANGED <<request, taken, start, content, part, form, mishaps>>

-----------------------------------------------------------------------------
(* A multipart form.                                                       *)

BoundaryStart == <<Dashes, Key>>
BoundaryEnd == <<Dashes, Key, Dashes>>
HeadEnd == <<CR, LF, CR, LF>>

Occurs(s, p, i) == i + Len(p) <= Len(s) /\ SubSeq(s, i + 1, i + Len(p)) = p
Has(s, p) == \E i \in 0..Len(s) : Occurs(s, p, i)

\* string_view::find, from position i on.
HasFrom(s, p, i) == \E j \in i..Len(s) : Occurs(s, p, j)
FindFrom(s, p, i) ==
    CHOOSE j \in i..Len(s) : Occurs(s, p, j) /\ \A k \in i..(j - 1) : ~Occurs(s, p, k)
Find(s, p) == FindFrom(s, p, 0)

\* string_view::rfind
FindLast(s, p) ==
    CHOOSE j \in 0..Len(s) : Occurs(s, p, j) /\ \A k \in (j + 1)..Len(s) : ~Occurs(s, p, k)

\* What is between start_read_pos_ and current_use_pos_.
Window == SubSeq(buffers, start + 1, cur)

PreprocessMultipart ==
    /\ HeaderRead
    /\ request.kind = "multipart"
    /\ FormBegins
    /\ pc' = "partHead"
    /\ UNCHANGED <<request, taken, buffers, expand, reading, bodyVars, mishaps>>

\* process_mutipart_head, is_complete_part_header: more is needed, and a head
\* for which the buffer would have to grow too large refuses the request.
PartHeadIncomplete ==
    /\ At("partHead")
    /\ ~(Has(Window, BoundaryStart) /\ Has(Window, HeadEnd))
    /\ ReadMore(buffers, cur, "partHead", FALSE)
    /\ UNCHANGED <<request, taken, start, bodyVars, mishaps>>

\* parser_part_head: where the head's fields begin, behind the boundary's CR LF.
FieldsAt == Find(Window, BoundaryStart) + Len(BoundaryStart) + 2

\* parser_part_head finds no end of the head behind the boundary: nothing more
\* is started, and with its last handler the connection goes.
PartHeadDropped ==
    /\ At("partHead")
    /\ Has(Window, BoundaryStart) /\ Has(Window, HeadEnd)
    /\ ~HasFrom(Window, HeadEnd, FieldsAt)
    /\ pc' = "dropped"
    /\ UNCHANGED <<request, taken, bufferVars, reading, bodyVars, mishaps>>

\* pre_process_multipart_data: the head is taken off.  (Its size is relative to
\* the start position and is compared with the current one.)
PartHead ==
    /\ At("partHead")
    /\ Has(Window, BoundaryStart) /\ HasFrom(Window, HeadEnd, FieldsAt)
    /\ LET size == FindFrom(Window, HeadEnd, FieldsAt) + Len(HeadEnd) IN
       IF cur > size
         THEN /\ start' = start + size
              /\ left' = Len(buffers) - cur
              /\ pc' = "partData"
              /\ UNCHANGED <<buffers, cur, expand, reading>>
         ELSE ReadAfresh("partData") /\ start' = 0
    /\ part' = Window[FieldsAt + 1]
    /\ UNCHANGED <<request, taken, content, stored, form, mishaps>>

\* Mutant: the data replace what was recorded of the part before.
RecordOver(n) == form' = [form EXCEPT ![part] = SubSeq(Window, 1, n)]

\* record_mutlipart_data: the first n bytes of the window are the part's.
Record(n) == form' = [form EXCEPT ![part] = @ \o SubSeq(Window, 1, n)]

\* is_end_part_data: the part ends before the CR LF that precedes the boundary.
PartEnd == Find(Window, BoundaryStart) - 2

\* The position from which is_end looks for the last boundary.  It looks at the
\* buffer and not at how much of it is in use.
EndAt == start + PartEnd + 2
EndCut == EndAt + Len(BoundaryEnd) > cur
LooksLast ==
    IF EndAt + Len(BoundaryEnd) <= Len(buffers)
      THEN {SubSeq(buffers, EndAt + 1, EndAt + Len(BoundaryEnd)) = BoundaryEnd}
      ELSE BOOLEAN

\* record_mutlipart_data with is_end: the form is whole, or another part follows.
\* (A boundary less than two bytes behind the start is beyond the model: the
\* length of the data would be negative.)
PartDataEnds ==
    /\ At("partData")
    /\ Has(Window, BoundaryStart)
    /\ PartEnd >= 0
    /\ Record(PartEnd)
    /\ mishaps' = IF EndCut THEN mishaps \cup {"cutEnd"} ELSE mishaps
    /\ \E last \in LooksLast :
         IF last
           THEN Route /\ UNCHANGED bufferVars
           ELSE /\ IF Len(buffers) = cur
                     THEN LET from == start + PartEnd IN
                          /\ buffers' = Forwarded(buffers, from, cur)
                          /\ cur' = cur - from /\ start' = 0
                          /\ left' = Len(buffers) - cur'
                     ELSE /\ start' = start + PartEnd
                          /\ left' = Len(buffers) - cur
                          /\ UNCHANGED <<buffers, cur>>
                /\ pc' = "partHead"
                /\ UNCHANGED <<expand, reading>>
    /\ UNCHANGED <<request, taken, content, stored, part>>

\* is_end_part_data: a boundary may have begun at the last CR, at position n.
\* (A boundary that lacks its last byte only is not looked for any more.)
MaybeEnd(n) ==
    /\ Has(Window, <<CR>>)
    /\ n = FindLast(Window, <<CR>>)
    /\ n + Len(BoundaryStart) + 1 > Len(Window)

\* record_mutlipart_data with maybe_end: what precedes is recorded, the rest is
\* moved to the front.
PartDataMayEnd ==
    /\ At("partData")
    /\ ~Has(Window, BoundaryStart)
    /\ \E n \in 0..Len(Window) :
         /\ MaybeEnd(n)
         /\ Record(n)
         /\ ReadMore(Forwarded(buffers, start + n, cur), cur - (start + n), "partData", TRUE)
    /\ start' = 0
    /\ UNCHANGED <<request, taken, content, stored, part, mishaps>>

\* The window ends with a boundary that lacks its last byte.
EndsShort ==
    LET short == <<CR, LF, Dashes>>
        n == Len(Window) - Len(short)
    IN n >= 0 /\ Occurs(Window, short, n)

\* record_mutlipart_data with all_part_data.
PartDataGoesOn ==
    /\ At("partData")
    /\ ~Has(Window, BoundaryStart)
    /\ \A n \in 0..Len(Window) : ~MaybeEnd(n)
    /\ Record(Len(Window))
    /\ ReadMore(<<>>, 0, "partData", TRUE)
    /\ start' = 0
    /\ mishaps' = IF EndsShort THEN mishaps \cup {"swallowed"} ELSE mishaps
    /\ UNCHANGED <<request, taken, content, stored, part>>

-----------------------------------------------------------------------------
Next ==
    \/ \E n \in 0..MaxSize : Receive(n)
    \/ ReadFails
    \/ HeaderIncomplete \/ HeaderRefused \/ RouteBare
    \/ PreprocessBody \/ PreprocessBodyAfresh \/ ProcessBody
    \/ PreprocessOctStream \/ ProcessOctStream
    \/ PreprocessMultipart \/ PartHeadIncomplete \/ PartHeadDropped \/ PartHead
    \/ PartDataEnds \/ PartDataMayEnd \/ PartDataGoesOn

Spec == Init /\ [][Next]_vars

-----------------------------------------------------------------------------
(* Properties.                                                             *)

\* The values of the variables; the sizes are values of std::size_t.
TypeOK ==
    /\ request \in Requests
    /\ taken \in Nat
    /\ buffers \in Seq(Bytes)
    /\ cur \in Nat
    /\ start \in Nat
    /\ left \in 0..(WordSize - 1)
    /\ expand \in 0..(WordSize - 1)
    /\ pc \in Handlers \cup Ends
    /\ reading \in BOOLEAN
    /\ content \in Seq(Bytes)
    /\ stored \in BOOLEAN
    /\ part \in Bytes
    /\ form \in [Names -> Seq(Bytes)]
    /\ mishaps \subseteq Mishaps

\* Whatever way the buffer was expanded, cleared and moved, a read stays within
\* it, and what is not consumed of it is what the peer sent last: no byte is
\* lost, doubled or stale.  Excepted is a header for which it would grow beyond
\* its limit: the reading goes on.
BufferSound ==
    "headerOverflow" \notin mishaps =>
        /\ start <= cur /\ cur <= Len(buffers)
        /\ reading => cur + left <= Len(buffers)
        /\ pc \in {"header", "string", "partHead", "partData"} =>
               /\ cur - start <= taken
               /\ \A i \in (start + 1)..cur :
                      buffers[i] = Stream(request)[taken - cur + i]

\* What a peer sends as the name of part k, and where the part's data begin.
PartName(r, k) == r.body[r.at[k] + Len(BoundaryStart) + 3]
DataAt(r, k) == r.at[k] + Len(BoundaryStart) + 3 + Len(HeadEnd)

\* The body encodes the parts: behind each boundary but the last are the head and
\* the data of another part, then CR LF; no part has two of them, and there is no
\* boundary elsewhere.
Encodes(r) ==
    LET last == Len(r.at)
        sent == r.body \o r.extra
    IN /\ last > 1
       /\ Occurs(r.body, BoundaryEnd, r.at[last])
       /\ \A k \in 2..last : \A j \in 1..(k - 1) : DataAt(r, j) + 2 <= r.at[k]
       /\ \A k \in 1..(last - 1) :
              /\ PartName(r, k) \in Names
              /\ Occurs(r.body, BoundaryStart \o <<CR, LF, PartName(r, k)>> \o HeadEnd, r.at[k])
              /\ r.parts[PartName(r, k)] = SubSeq(r.body, DataAt(r, k) + 1, r.at[k + 1] - 2)
              /\ Occurs(r.body, <<CR, LF>>, r.at[k + 1] - 2)
              /\ \A j \in 1..(k - 1) : PartName(r, j) # PartName(r, k)
       /\ \A n \in Names :
              r.parts[n] # <<>> => \E k \in 1..(last - 1) : n = PartName(r, k)
       /\ \A i \in 0..Len(sent) :
              Occurs(sent, BoundaryStart, i) => \E k \in 1..last : i = r.at[k]

\* The route sees what the peer sent as the body or as the parts of the form,
\* however it was cut into segments.  Excepted are an octet stream that more
\* follows, and a form of which a read ended just before a boundary's last byte or
\* just behind its key: then stale bytes of the buffer may look like its end.
BodyWhole ==
    pc = "routed" =>
        CASE request.kind = "string" -> content = request.body
          [] request.kind = "octet" ->
               content = request.body \/ request.extra # <<>>
          [] request.kind = "multipart" ->
               \/ form = request.parts \/ mishaps \cap {"swallowed", "cutEnd"} # {}
               \/ ~Encodes(request)
          [] OTHER -> TRUE

\* When the peer has sent everything, nothing more is waited for.  Excepted are a
\* header that overflowed, a form cut just before or just behind a boundary's key,
\* what no peer encodes as a form, an octet stream of which nothing came with the header and one
\* that more follows.  A boundary is never found closer to the start of the data
\* than its CR LF is long.  And while every read fills the buffer, no request is
\* refused that is not large: a short read counts as much as a full one.
Served ==
    /\ reading /\ taken = Len(Stream(request)) =>
         \/ mishaps \cap {"headerOverflow", "swallowed", "cutEnd", "unopened"} # {}
         \/ request.kind = "octet" /\ request.extra # <<>>
         \/ request.kind = "multipart" /\ ~Encodes(request)
    /\ At("partData") /\ Has(Window, BoundaryStart) /\ Encodes(request) => PartEnd >= 0
    /\ pc = "tooLarge" => "shortRead" \in mishaps \/ 2 * taken > MaxSize
=============================================================================
