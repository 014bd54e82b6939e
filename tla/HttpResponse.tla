---------------------------- MODULE HttpResponse ----------------------------
(***************************************************************************)
(* The response of a connection (src/xfinal/http_handler.hpp): what the    *)
(* calls of a route leave in it, how it is written when the guard is       *)
(* released, whole or in chunks, with the part of a file that the request  *)
(* asks for, and what of it is reset before the next request.              *)
(*                                                                         *)
(* A client tells where a response ends by its framing headers, which the  *)
(* calls add (Content-Length, Transfer-Encoding), and a kept connection    *)
(* carries one response after the other.                                   *)
(*                                                                         *)
(* The bytes of a file or a text are numbers, their positions in it.       *)
(***************************************************************************)
EXTENDS Integers, Sequences

CONSTANTS
    Requests,       \* see RequestType
    Texts,          \* the lengths of the texts that a route writes
    Files,          \* the files that exist
    FileSizes,      \* the lengths a file may have
    NoFile,         \* file_ has no handle
    Missing,        \* it has the handle of a file that is not there
    ChunkSize,      \* chunked_size_
    WordSize,       \* the number of values of std::uint64_t
    MaxCalls        \* bound: the calls a route makes

\* The Range header: the whole file, from a position on, between two positions,
\* or the last bytes.
RangeType ==
    [kind : {"none"}] \cup [kind : {"from"}, first : Nat]
    \cup [kind : {"span"}, first : Nat, last : Nat] \cup [kind : {"last"}, count : Nat]
RequestType == [head : BOOLEAN, keepAlive : BOOLEAN, range : RangeType]

ASSUME RequestsAssumption == Requests \subseteq RequestType
ASSUME LengthsAssumption ==
    WordSize \in Nat \ {0} /\ Texts \subseteq 0..(WordSize - 1) /\ FileSizes \subseteq 0..(WordSize - 1)
ASSUME FilesAssumption == NoFile \notin Files /\ Missing \notin Files /\ NoFile # Missing
ASSUME ChunkAssumption == ChunkSize \in Nat \ {0}
ASSUME MaxCallsAssumption == MaxCalls \in Nat

VARIABLES
    request,        \* the request that is answered
    sizes,          \* how long the files on disk are
    calls,          \* how many calls the route has made
    pc,             \* what runs next
    status,         \* state_
    lengths,        \* header_map_: its Content-Length headers,
    transfers,      \*   how many Transfer-Encoding headers it has,
    range,          \*   and its Content-Range header: the first and last position
    body,           \* body_
    isChunked,      \* is_chunked_
    writeType,      \* write_type_
    startPos,       \* init_start_pos_
    endPos,         \* init_end_pos_
    portion,        \* portion_need_size_
    file,           \* file_: its handle, and where that is
    sent,           \* the bytes of the body that were written
    hollow,         \* a chunk of length 0 was written before the last
    meant,          \* what the route's last call asks for: history
    mishaps         \* what the response cannot be right after: history

headerVars == <<status, lengths, transfers, range>>
positionVars == <<startPos, endPos, portion>>
bodyVars == <<body, isChunked, writeType, positionVars, file>>
wireVars == <<sent, hollow>>
vars == <<request, sizes, calls, pc, headerVars, bodyVars, wireVars, meant, mishaps>>

RouteStatuses == {"ok", "accepted", "badRequest"}
Statuses == RouteStatuses \cup {"init", "partialContent", "movedTemporarily"}
WriteTypes == {"string", "file", "noBody"}
Pcs == {"route", "readAll", "chunk", "endChunk", "sent", "closed"}
Mishaps ==
    {"silent", "twice", "headBody", "empty", "range", "shrunk", "grown", "statusLine"}

Positions(from, to) == [i \in 1..(to - from) |-> from + i - 1]
NoRange == <<>>
Closed == [name |-> NoFile, pos |-> 0, failed |-> FALSE]

NothingMeant == [status |-> "init", body |-> <<>>, range |-> NoRange]

Init ==
    /\ request \in Requests
    /\ sizes \in [Files -> FileSizes]
    /\ status = "init" /\ lengths = <<>> /\ transfers = 0 /\ range = NoRange
    /\ body = <<>> /\ isChunked = FALSE /\ writeType = "string"
    /\ startPos = -1 /\ endPos = -1 /\ portion = 0
    /\ file = Closed
    /\ pc = "route" /\ calls = 0 /\ meant = NothingMeant /\ mishaps = {}
    /\ sent = <<>> /\ hollow = FALSE

-----------------------------------------------------------------------------
(* The calls of the route, its interceptors and the framework's refusals.  *)

\* One framing header more; with more than one the client cannot tell.
Framings == Len(lengths) + transfers
AddLength(n) == lengths' = Append(lengths, n) /\ UNCHANGED transfers
AddTransfer == transfers' = transfers + 1 /\ UNCHANGED lengths

Calls(wanted, flaws) ==
    /\ pc = "route"
    /\ calls < MaxCalls
    /\ calls' = calls + 1
    /\ meant' = wanted
    /\ mishaps' = mishaps \cup flaws \cup IF Framings > 0 THEN {"twice"} ELSE {}
    /\ UNCHANGED <<request, sizes, wireVars>>
Call(wanted, flaws) == Calls(wanted, flaws) /\ UNCHANGED pc

\* write_state
WriteState(s) ==
    /\ Call([status |-> s, body |-> <<>>, range |-> NoRange], {})
    /\ writeType' = "noBody" /\ startPos' = 0 /\ status' = s /\ isChunked' = FALSE
    /\ UNCHANGED <<lengths, transfers, range, body, endPos, portion, file>>

\* redirect; is_chunked_ stays.
Redirect ==
    /\ Call([status |-> "movedTemporarily", body |-> <<>>, range |-> NoRange], {})
    /\ writeType' = "noBody" /\ status' = "movedTemporarily"
    /\ UNCHANGED <<lengths, transfers, range, body, isChunked, positionVars, file>>

\* write and write_string, with a text of n bytes; a chunk for an empty one is
\* the end of the body, and then comes another.
StringWritten(n, chunked, s) ==
    /\ status' = s /\ body' = Positions(0, n)
    /\ IF chunked THEN AddTransfer ELSE AddLength(n)
    /\ isChunked' = chunked /\ writeType' = "string" /\ startPos' = 0
    /\ UNCHANGED <<range, endPos, portion>>

WriteString(n, chunked, s) ==
    /\ Call([status |-> s, body |-> Positions(0, n), range |-> NoRange],
            IF chunked /\ n = 0 THEN {"empty"} ELSE {})
    /\ StringWritten(n, chunked, s)
    /\ UNCHANGED file

\* How long the file is that the route names.
SizeOf(f) == IF f \in Files THEN sizes[f] ELSE 0

\* XFile::open keeps a handle it has.
Opened(f) == IF file.name = NoFile THEN [file EXCEPT !.name = f] ELSE file

\* write_file of a file that is not there.
WriteFileMissing(f) ==
    /\ Opened(f).name \notin Files
    /\ Call([status |-> "badRequest", body |-> <<>>, range |-> NoRange], {})
    /\ file' = [Opened(f) EXCEPT !.name = Missing]
    /\ StringWritten(0, FALSE, "badRequest")

\* write_file for a HEAD request.
WriteFileHead(f) ==
    /\ request.head
    /\ Opened(f).name \in Files
    /\ Call([status |-> "ok", body |-> <<>>, range |-> NoRange], {})
    /\ file' = Opened(f)
    /\ AddLength(sizes[file'.name])
    /\ writeType' = "string" /\ startPos' = 0 /\ status' = "ok" /\ isChunked' = FALSE
    /\ UNCHANGED <<range, body, endPos, portion>>

FileWritten(f, chunked) ==
    /\ ~request.head
    /\ Opened(f).name \in Files
    /\ writeType' = "file"
    /\ isChunked' = chunked

\* write_file that reads the file at once: XFile::open finds its size, which is
\* the Content-Length.
WriteFileWhole(f) ==
    /\ FileWritten(f, FALSE)
    /\ Calls([status |-> "ok", body |-> Positions(0, SizeOf(f)), range |-> NoRange], {})
    /\ pc' = "readAll"
    /\ file' = Opened(f)
    /\ status' = "ok" /\ AddLength(sizes[file'.name])
    /\ startPos' = -1 /\ endPos' = -1 /\ portion' = 0
    /\ UNCHANGED <<range, body>>

\* Its read_all, to the end that the file has by then.
ReadAll ==
    /\ pc = "readAll"
    /\ LET size == sizes[file.name] IN
         /\ body' = Positions(file.pos, size)
         /\ file' = [file EXCEPT !.pos = IF @ < size THEN size ELSE @]
    /\ pc' = "route"
    /\ UNCHANGED <<request, sizes, calls, headerVars, isChunked, writeType, positionVars,
                   wireVars, meant, mishaps>>

\* write_file in chunks, without a Range header; body_ becomes the room for one.
WriteFileChunked(f) ==
    /\ FileWritten(f, TRUE)
    /\ request.range.kind = "none"
    /\ Call([status |-> "ok", body |-> Positions(0, SizeOf(f)), range |-> NoRange],
            IF SizeOf(f) = 0 THEN {"empty"} ELSE {})
    /\ file' = Opened(f)
    /\ AddTransfer
    /\ status' = "ok" /\ body' = Positions(0, ChunkSize)
    /\ startPos' = -1 /\ endPos' = -1
    /\ portion' = sizes[file'.name]
    /\ UNCHANGED range

\* accept_range: what it makes of the Range header; -1 is an open end.
AcceptRange(r) ==
    CASE r.kind = "from" -> <<r.first, -1>>
      [] r.kind = "span" -> <<r.first, r.last>>
      [] r.kind = "last" -> <<-r.count, r.count>>

\* Mutant: the portion is not kept to the width of std::uint64_t.
PortionSigned(start, end, size) ==
    IF end = -1 THEN size - start ELSE end - start + 1

\* How much of a file of that size is to be sent.
Portion(start, end, size) ==
    IF end = -1 THEN (size - start) % WordSize ELSE (end - start + 1) % WordSize

\* The positions the client asks for, and whether the file has them.
Wanted(r, size) ==
    CASE r.kind = "from" -> <<r.first, size - 1>>
      [] r.kind = "span" -> <<r.first, r.last>>
      [] r.kind = "last" -> <<size - r.count, size - 1>>
WithinFile(r, size) ==
    LET w == Wanted(r, size) IN 0 <= w[1] /\ w[1] <= w[2] /\ w[2] < size

\* write_file in chunks, of the portion that the Range header names.  (The last
\* bytes are not understood, and positions are not compared with the size.)
WriteFileRange(f) ==
    /\ FileWritten(f, TRUE)
    /\ request.range.kind # "none"
    /\ LET w == Wanted(request.range, SizeOf(f)) IN
       Call([status |-> "partialContent", body |-> Positions(w[1], w[2] + 1), range |-> w],
            IF request.range.kind = "last" \/ ~WithinFile(request.range, SizeOf(f))
              THEN {"range"} ELSE {})
    /\ file' = Opened(f)
    /\ AddTransfer
    /\ status' = "partialContent" /\ body' = Positions(0, ChunkSize)
    /\ LET size == sizes[file'.name]
           accepted == AcceptRange(request.range) IN
         /\ startPos' = accepted[1] /\ endPos' = accepted[2]
         /\ portion' = Portion(accepted[1], accepted[2], size)
         /\ range' = <<accepted[1], IF accepted[2] = -1 THEN size - 1 ELSE accepted[2]>>

WriteFile(f) ==
    \/ WriteFileMissing(f) \/ WriteFileHead(f) \/ WriteFileWhole(f)
    \/ WriteFileChunked(f) \/ WriteFileRange(f)

-----------------------------------------------------------------------------
(* Writing.                                                                *)

\* The guard is released: write, header_to_buffer, and to_buffers unless it is
\* chunked.  A refused request is not kept alive.
Release(terminate) ==
    /\ pc = "route"
    /\ request' = [request EXCEPT !.keepAlive = @ /\ ~terminate]
    /\ lengths' = IF writeType = "noBody" THEN Append(lengths, 0) ELSE lengths
    /\ sent' = IF isChunked \/ writeType = "noBody" THEN <<>> ELSE body
    /\ pc' = IF isChunked THEN "chunk" ELSE "sent"
    /\ mishaps' = mishaps
         \cup (IF Len(lengths') + transfers = 0 THEN {"silent"} ELSE {})
         \cup (IF Len(lengths') + transfers > 1 THEN {"twice"} ELSE {})
         \cup (IF request.head /\ (isChunked \/ sent' # <<>>) THEN {"headBody"} ELSE {})
         \cup (IF status = "accepted" THEN {"statusLine"} ELSE {})
    /\ UNCHANGED <<sizes, calls, status, transfers, range, bodyVars, hollow, meant>>

\* A chunk with `bytes`; `last` is what chunked_body says of it.
SendChunk(bytes, last) ==
    /\ sent' = sent \o bytes
    /\ hollow' = (hollow \/ bytes = <<>>)
    /\ pc' = IF last THEN "endChunk" ELSE "chunk"
    /\ UNCHANGED <<request, sizes, calls, headerVars, body, isChunked, writeType, meant,
                   mishaps>>

\* chunked_body of a text.
ChunkString ==
    /\ pc = "chunk" /\ writeType = "string"
    /\ LET left == (Len(body) - startPos) % WordSize IN
       IF left <= ChunkSize
         THEN SendChunk(SubSeq(body, startPos + 1, startPos + left), TRUE) /\ UNCHANGED startPos
         ELSE /\ SendChunk(SubSeq(body, startPos + 1, startPos + ChunkSize), FALSE)
              /\ startPos' = startPos + ChunkSize
    /\ UNCHANGED <<endPos, portion, file>>

\* XFile::read of n bytes at start, or where the file is: the stream fails when
\* it has fewer or start is negative, and then nothing is read any more.
FileRead(start, n) ==
    LET from == IF start = -1 THEN file.pos ELSE start
        size == sizes[file.name]
        to == IF file.failed \/ from < 0 \/ size <= from THEN from
              ELSE IF from + n <= size THEN from + n ELSE size
    IN [bytes |-> Positions(from, to), pos |-> to, failed |-> file.failed \/ to < from + n]

\* chunked_body of a file.
ChunkFile ==
    /\ pc = "chunk" /\ writeType = "file"
    /\ LET n == IF portion > ChunkSize THEN ChunkSize ELSE portion
           got == FileRead(startPos, n) IN
         /\ SendChunk(got.bytes, portion <= ChunkSize)
         /\ file' = [file EXCEPT !.pos = got.pos, !.failed = got.failed]
         /\ portion' = IF portion > ChunkSize THEN portion - ChunkSize ELSE portion
    /\ startPos' = -1 /\ endPos' = -1

\* chunked_body of a response without a body: nothing is written.
ChunkNone ==
    /\ pc = "chunk" /\ writeType = "noBody"
    /\ pc' = "endChunk"
    /\ UNCHANGED <<request, sizes, calls, headerVars, bodyVars, wireVars, meant, mishaps>>

\* write_end_chunked
EndChunk ==
    /\ pc = "endChunk"
    /\ pc' = "sent"
    /\ UNCHANGED <<request, sizes, calls, headerVars, bodyVars, wireVars, meant, mishaps>>

\* Mutant: the file stays open.
ResetKeepsFile ==
    /\ lengths' = <<>> /\ transfers' = 0 /\ range' = NoRange
    /\ body' = <<>> /\ isChunked' = FALSE /\ writeType' = "string"
    /\ startPos' = -1 /\ endPos' = -1 /\ portion' = 0
    /\ UNCHANGED <<status, file>>

\* reset; the state is kept.
Reset ==
    /\ lengths' = <<>> /\ transfers' = 0 /\ range' = NoRange
    /\ body' = <<>> /\ isChunked' = FALSE /\ writeType' = "string"
    /\ startPos' = -1 /\ endPos' = -1 /\ portion' = 0
    /\ file' = Closed
    /\ UNCHANGED status

\* close(): the connection is reset for the next request, or disconnected.
NextRequest ==
    /\ pc = "sent" /\ request.keepAlive
    /\ request' \in Requests
    /\ pc' = "route"
    /\ Reset
    /\ calls' = 0 /\ meant' = NothingMeant /\ mishaps' = {}
    /\ sent' = <<>> /\ hollow' = FALSE
    /\ UNCHANGED sizes

Disconnect ==
    /\ pc = "sent" /\ ~request.keepAlive
    /\ pc' = "closed"
    /\ UNCHANGED <<request, sizes, calls, headerVars, bodyVars, wireVars, meant, mishaps>>

\* Somebody writes file f: it gets longer or shorter.
FileChanges(f) ==
    /\ \E n \in FileSizes :
         /\ sizes' = [sizes EXCEPT ![f] = n]
         /\ mishaps' = mishaps
              \cup (IF file.name = f /\ n < sizes[f] THEN {"shrunk"} ELSE {})
              \cup (IF file.name = f /\ n > sizes[f] /\ pc = "readAll" THEN {"grown"} ELSE {})
    /\ UNCHANGED <<request, calls, pc, headerVars, bodyVars, wireVars, meant>>

-----------------------------------------------------------------------------
Next ==
    \/ \E s \in RouteStatuses : WriteState(s)
    \/ \E n \in Texts, chunked \in BOOLEAN, s \in RouteStatuses : WriteString(n, chunked, s)
    \/ \E f \in Files \cup {Missing} : WriteFile(f)
    \/ ReadAll \/ Redirect
    \/ \E terminate \in BOOLEAN : Release(terminate)
    \/ ChunkString \/ ChunkFile \/ ChunkNone \/ EndChunk
    \/ NextRequest \/ Disconnect
    \/ \E f \in Files : FileChanges(f)

Spec == Init /\ [][Next]_vars

-----------------------------------------------------------------------------
(* Properties.                                                             *)

\* The values of the variables; what is left of a portion is a value of
\* std::uint64_t.
TypeOK ==
    /\ request \in RequestType
    /\ sizes \in [Files -> FileSizes]
    /\ calls \in 0..MaxCalls
    /\ pc \in Pcs
    /\ status \in Statuses
    /\ lengths \in Seq(Nat)
    /\ transfers \in Nat
    /\ range \in {NoRange} \cup (Int \X Int)
    /\ body \in Seq(Int)
    /\ isChunked \in BOOLEAN
    /\ writeType \in WriteTypes
    /\ startPos \in Int
    /\ endPos \in Int
    /\ portion \in 0..(WordSize - 1)
    /\ file \in [name : Files \cup {NoFile, Missing}, pos : Int, failed : BOOLEAN]
    /\ sent \in Seq(Int)
    /\ hollow \in BOOLEAN
    /\ meant \in [status : Statuses, body : Seq(Int), range : {NoRange} \cup (Int \X Int)]
    /\ mishaps \subseteq Mishaps

\* What the client may read as the body of the response so far.
Begins(s, t) == Len(s) <= Len(t) /\ s = SubSeq(t, 1, Len(s))

\* The client gets from each response of a kept connection what the route meant
\* by its last call, and finds its end where the next response begins: there is
\* one framing header, it says how the body was written and how long it is, no
\* chunk is empty before the last, and nothing of an earlier request is left.
\* Excepted are a route that wrote nothing ("silent") or more than once
\* ("twice"), a body for HEAD, an empty text or file in chunks, a range that the
\* file does not have or of its last bytes, a file that gets shorter while it is
\* sent, one that gets longer between the size that is announced and the reading
\* at once ("grown"), and the status line of 202, which lacks its last byte.
Framed ==
    mishaps = {} =>
        /\ pc \in {"chunk", "endChunk"} => ~hollow /\ Begins(sent, meant.body)
        /\ pc = "sent" =>
             /\ ~hollow /\ sent = meant.body
             /\ status = meant.status /\ range = meant.range
             /\ IF isChunked THEN lengths = <<>> /\ transfers = 1
                ELSE /\ transfers = 0 /\ Len(lengths) = 1
                     /\ request.head \/ lengths[1] = Len(sent)
=============================================================================
