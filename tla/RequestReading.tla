--------------------------- MODULE RequestReading ---------------------------
(***************************************************************************)
(* How one HTTP request is read: IHttpRequestImpl.parseData, the states it *)
(* goes through, and the reads it asks the ITcpConnection for, while the   *)
(* request arrives in pieces.  The first and the header lines are read     *)
(* into an array of fixed size; a body that does not fit, and every        *)
(* chunked one, is moved to a buffer that grows.  The client need not wait *)
(* for the answer: what it sends next may be read along with the request.  *)
(*                                                                         *)
(* A symbol stands for two bytes: a line end, two bytes of a body, or the  *)
(* text of a line before its end.  What a line says was decided with the   *)
(* request: only line ends, and the sizes of chunks, are looked for.       *)
(***************************************************************************)
EXTENDS Integers, Sequences, SequencesExt

CONSTANTS
    Requests,   \* the requests that may arrive
    MaxSize     \* m_maxSize, in symbols

CRLF    == [text |-> "\r\n", size |-> 0]
Text    == [text |-> "text", size |-> 0]
Size(n) == [text |-> "size", size |-> n]

\* A chunk says its size, which may be unreadable (-1), and ends with CRLF.
Chunk == [size : Nat \cup {-1}, data : Seq({CRLF, Text}), ended : BOOLEAN]

Request ==
    [line : BOOLEAN,      \* the first line is legal, and no filter refuses it
     headers : Nat,       \* the number of header lines
     legal : BOOLEAN,     \* they are legal, and no filter refuses them
     keep : BOOLEAN,      \* they ask to keep the connection
     framing : {"none", "length", "chunked"},
     body : Seq({CRLF, Text}),    \* of Content-Length
     chunks : Seq(Chunk),
     trailers : Nat,
     tail : BOOLEAN,      \* they are legal
     payload : BOOLEAN,   \* the body is legal, and no filter refuses it
     next : Seq({CRLF, Text})]    \* what the client sends behind it: no trailer

ASSUME ReadingAssumption ==
    /\ MaxSize \in Nat
    /\ Requests \subseteq Request
    /\ \A q \in Requests :
        /\ q.framing # "none" => q.headers > 0
        /\ q.framing = "none" => q.body = <<>>
        /\ q.headers = 0 => q.legal
        /\ \A i \in DOMAIN q.chunks :
            q.chunks[i].size \in {Len(q.chunks[i].data), -1} \ {0}

Lines(n) == [i \in 1 .. 2 * n |-> IF i % 2 = 1 THEN Text ELSE CRLF]

\* What the client sends for request q.
Top(q) == Lines(1 + q.headers) \o <<CRLF>>
Sent(chunk) == <<Size(chunk.size), CRLF>> \o chunk.data
                   \o <<IF chunk.ended THEN CRLF ELSE Text>>
Stream(q) ==
    Top(q) \o
        CASE q.framing = "none" -> <<>>
          [] q.framing = "length" -> q.body
          [] q.framing = "chunked" ->
                FlattenSeq([i \in DOMAIN q.chunks |-> Sent(q.chunks[i])])
                    \o <<Size(0), CRLF>> \o Lines(q.trailers) \o <<CRLF>>

\* The end of the request is that of Stream(q), not of what follows.
Followed(q) == Stream(q) \o q.next

\* The body that the client means.
Meant(q) == IF q.framing = "chunked"
            THEN FlattenSeq([i \in DOMAIN q.chunks |-> q.chunks[i].data])
            ELSE q.body

HasBody(q) == q.framing = "chunked" \/ q.body # <<>>

VARIABLES
    request, stream,        \* the request, and all that the client sends
    arrived,                \* how much of that the socket has received
    readSize, parsedSize,   \* of the array
    isConst, buffered,      \* m_isConstBuffer, and the size of m_buffer
    read,                   \* what is going on: a handler or a read
    state, valid, complete, \* m_state, m_isValid, m_requestComplete
    keepAlive,
    chunkedPos, loaded,     \* the IHttpChunkedFlow
    stash,                  \* the chunks found: position and size of each
    body,                   \* m_body
    outcome                 \* the request was handled, or answered as invalid

client == <<request, stream, arrived>>
data   == <<readSize, parsedSize, isConst, buffered>>
flow   == <<chunkedPos, loaded, stash>>
result == <<body, outcome>>
vars   == <<client, data, read, state, valid, complete, keepAlive, flow, result>>

\* read.by: resolve runs; a read of some bytes until NEW_PART is there, of
\* read.count bytes, or byte by byte until NEW_PART follows position
\* read.count; or none, and nothing will ever happen.
Resolving == [by |-> "resolve", count |-> 0]
Nothing   == [by |-> "none", count |-> 0]
Reads == [by : {"some", "exactly", "until"}, count : Nat] \cup {Resolving, Nothing}

States == {"FirstLine", "Header", "LoadBody", "Chunk", "Trailer", "Body", "End"}

Taken == IF isConst THEN readSize ELSE parsedSize + buffered
Unparsed == readSize - parsedSize
Available == arrived - Taken

\* The contents of m_buffer.
Buffer == SubSeq(stream, parsedSize + 1, parsedSize + buffered)

TypeOK ==
    /\ arrived \in 0 .. Len(stream)
    /\ readSize \in 0 .. MaxSize /\ parsedSize \in 0 .. readSize
    /\ isConst \in BOOLEAN /\ buffered \in Nat
    /\ Taken <= arrived
    /\ read \in Reads /\ state \in States
    /\ valid \in BOOLEAN /\ complete \in BOOLEAN /\ keepAlive \in BOOLEAN
    /\ chunkedPos \in 0 .. buffered /\ loaded \in BOOLEAN
    /\ \A i \in DOMAIN stash : stash[i].pos + stash[i].size < buffered
    /\ outcome \in {"none", "handled", "refused"}

\* keepAlive is what the request before it left.
Init ==
    /\ request \in Requests /\ stream = Followed(request) /\ arrived = 0
    /\ readSize = 0 /\ parsedSize = 0 /\ isConst = TRUE /\ buffered = 0
    /\ read = [by |-> "some", count |-> 0]
    /\ state = "FirstLine" /\ valid = TRUE /\ complete = FALSE
    /\ keepAlive \in BOOLEAN
    /\ chunkedPos = 0 /\ loaded = FALSE /\ stash = <<>>
    /\ body = <<>> /\ outcome = "none"

\* The positions before which s, looked at from position from on, has an end
\* of line, or two that make a NEW_PART.
LineEnds(s, from) == {i \in from + 1 .. Len(s) : s[i] = CRLF}
Parts(s, from) == {i \in LineEnds(s, from) : i - 1 \in LineEnds(s, from)}
FirstOf(positions) == CHOOSE i \in positions : \A j \in positions : i <= j

-----------------------------------------------------------------------------
(* ITcpConnection: reads *)

Arrive ==
    /\ arrived < Len(stream)
    /\ arrived' = arrived + 1
    /\ UNCHANGED <<request, stream, data, read, state, valid, complete, keepAlive, flow, result>>

\* readDataUntilHandler.  When the array is full every read ends at once with
\* nothing, and is started again: no step of this model.
ReadSome ==
    /\ read.by = "some"
    /\ \E n \in 1 .. arrived - readSize :
        /\ readSize + n <= MaxSize
        /\ readSize' = readSize + n
    /\ read' = IF Parts(SubSeq(stream, 1, readSize'), 0) # {} THEN Resolving ELSE read
    /\ UNCHANGED <<client, parsedSize, isConst, buffered,
                   state, valid, complete, keepAlive, flow, result>>

\* doReadBy
ReadExactly ==
    /\ read.by = "exactly" /\ Available >= read.count
    /\ IF isConst
       THEN readSize' = readSize + read.count /\ UNCHANGED buffered
       ELSE buffered' = buffered + read.count /\ UNCHANGED readSize
    /\ read' = Resolving
    /\ UNCHANGED <<client, parsedSize, isConst,
                   state, valid, complete, keepAlive, flow, result>>

\* doReadStreamUntil: the condition is asked before anything is read.
ReadUntil ==
    /\ read.by = "until"
    /\ IF Parts(Buffer, read.count) # {}
       THEN read' = Resolving /\ UNCHANGED buffered
       ELSE /\ Available > 0
            /\ buffered' = buffered + 1
            /\ UNCHANGED read
    /\ UNCHANGED <<client, readSize, parsedSize, isConst,
                   state, valid, complete, keepAlive, flow, result>>

-----------------------------------------------------------------------------
(* parseData: first line and headers *)

In(s) == read = Resolving /\ state = s

\* setInvalid; parseData goes on with the end.
Refuse == valid' = FALSE /\ state' = "End"

FirstLineState ==
    /\ In("FirstLine")
    /\ LET line == FirstOf(LineEnds(stream, parsedSize))
       IN IF ~request.line
          THEN Refuse /\ parsedSize' = line /\ UNCHANGED complete
          ELSE /\ IF stream[line + 1] = CRLF
                  THEN /\ parsedSize' = line + 1
                       /\ complete' = TRUE
                       /\ state' = "End"
                  ELSE /\ parsedSize' = line
                       /\ state' = "Header"
                       /\ UNCHANGED complete
               /\ UNCHANGED valid
    /\ UNCHANGED <<client, readSize, isConst, buffered, read, keepAlive, flow, result>>

HeadersState ==
    /\ In("Header")
    /\ parsedSize' = FirstOf(Parts(stream, parsedSize))
    /\ IF ~request.legal
       THEN Refuse /\ UNCHANGED <<complete, keepAlive>>
       ELSE /\ keepAlive' = request.keep
            /\ IF HasBody(request)
               THEN state' = "LoadBody" /\ UNCHANGED complete
               ELSE state' = "End" /\ complete' = TRUE
            /\ UNCHANGED valid
    /\ UNCHANGED <<client, readSize, isConst, buffered, read, flow, result>>

-----------------------------------------------------------------------------
(* loadBodyState *)

Wait(by, count) == read' = [by |-> by, count |-> count]

\* prepareContentLengthData: all of it is there.
LengthLoaded ==
    LET length == Len(request.body)
    IN /\ In("LoadBody") /\ request.framing = "length"
       /\ (IF isConst THEN Unparsed ELSE buffered) >= length
       /\ body' = SubSeq(stream, parsedSize + 1, parsedSize + length)
       /\ parsedSize' = IF isConst THEN parsedSize + length ELSE parsedSize
       /\ complete' = TRUE
       /\ state' = "Body"
       /\ UNCHANGED <<client, readSize, isConst, buffered, read, valid, keepAlive,
                      flow, outcome>>

\* Mutant of LengthMissing: the whole length is still asked for.
LengthAskedAgain ==
    LET length == Len(request.body)
    IN /\ In("LoadBody") /\ request.framing = "length"
       /\ (IF isConst THEN Unparsed ELSE buffered) < length
       /\ IF isConst /\ length + parsedSize >= MaxSize
          THEN isConst' = FALSE /\ buffered' = Unparsed
          ELSE UNCHANGED <<isConst, buffered>>
       /\ Wait("exactly", length)
       /\ UNCHANGED <<client, readSize, parsedSize, state, valid, complete, keepAlive,
                      flow, result>>

\* Mutant of LengthMissing: the body is never moved to the buffer.
LengthUnmoved ==
    LET length == Len(request.body)
    IN /\ In("LoadBody") /\ request.framing = "length"
       /\ (IF isConst THEN Unparsed ELSE buffered) < length
       /\ Wait("exactly", length - Unparsed)
       /\ UNCHANGED <<client, data, state, valid, complete, keepAlive, flow, result>>

\* The rest of it is read, into the buffer if the array is too small.
LengthMissing ==
    LET length == Len(request.body)
    IN /\ In("LoadBody") /\ request.framing = "length"
       /\ (IF isConst THEN Unparsed ELSE buffered) < length
       /\ IF isConst /\ length + parsedSize >= MaxSize
          THEN isConst' = FALSE /\ buffered' = Unparsed
          ELSE UNCHANGED <<isConst, buffered>>
       /\ Wait("exactly", length - Unparsed)
       /\ UNCHANGED <<client, readSize, parsedSize, state, valid, complete, keepAlive,
                      flow, result>>

\* prepareChunkedData and the beginning of tryParseChunkedData.
PrepareChunks ==
    /\ In("LoadBody") /\ request.framing = "chunked"
    /\ isConst' = FALSE
    /\ buffered' = IF isConst THEN Unparsed ELSE buffered
    /\ IF buffered' = 0
       THEN Wait("until", chunkedPos) /\ UNCHANGED state
       ELSE state' = (IF loaded THEN "Trailer" ELSE "Chunk") /\ UNCHANGED read
    /\ UNCHANGED <<client, readSize, parsedSize, valid, complete, keepAlive, flow, result>>

\* tryParseChunkedData returns false after it has asked for more.
More(from) == Wait("until", from) /\ state' = "LoadBody" /\ UNCHANGED valid

\* It returns false for chunks that are no chunks, too, and nobody goes on.
Abandon == valid' = FALSE /\ state' = "LoadBody" /\ read' = Nothing

\* The line at m_chunkedPos: where its data would begin, and whether it is a
\* size.
HasLine == LineEnds(Buffer, chunkedPos) # {}
DataPos == FirstOf(LineEnds(Buffer, chunkedPos))
SizeSymbol == Buffer[DataPos - 1]
IsSize == DataPos = chunkedPos + 2 /\ SizeSymbol.text = "size" /\ SizeSymbol.size # -1

SizeMissing ==
    /\ In("Chunk") /\ ~HasLine
    /\ More(chunkedPos)
    /\ UNCHANGED <<client, data, complete, keepAlive, flow, result>>

SizeUnreadable ==
    /\ In("Chunk") /\ HasLine /\ ~IsSize
    /\ Abandon
    /\ UNCHANGED <<client, data, complete, keepAlive, flow, result>>

\* A chunk with data is not there as a whole.
ChunkMissing ==
    /\ In("Chunk") /\ HasLine /\ IsSize /\ SizeSymbol.size > 0
    /\ DataPos + SizeSymbol.size + 1 > buffered
    /\ More(DataPos + 1)
    /\ UNCHANGED <<client, data, complete, keepAlive, flow, result>>

\* Mutant of ChunkFound: the chunk is stashed from its size line on.
ChunkFromLine ==
    /\ In("Chunk") /\ HasLine /\ IsSize /\ SizeSymbol.size > 0
    /\ DataPos + SizeSymbol.size + 1 <= buffered
    /\ stash' = Append(stash, [pos |-> DataPos - 1, size |-> SizeSymbol.size])
    /\ chunkedPos' = DataPos + SizeSymbol.size + 1
    /\ UNCHANGED <<client, data, read, state, valid, complete, keepAlive, loaded, result>>

ChunkFound ==
    /\ In("Chunk") /\ HasLine /\ IsSize /\ SizeSymbol.size > 0
    /\ DataPos + SizeSymbol.size + 1 <= buffered
    /\ stash' = Append(stash, [pos |-> DataPos, size |-> SizeSymbol.size])
    /\ IF Buffer[DataPos + SizeSymbol.size + 1] = CRLF
       THEN /\ chunkedPos' = DataPos + SizeSymbol.size + 1
            /\ UNCHANGED <<read, state, valid>>
       ELSE Abandon /\ UNCHANGED chunkedPos
    /\ UNCHANGED <<client, data, complete, keepAlive, loaded, result>>

\* prepareChunkedData, after tryParseChunkedData has returned true.
ChunksLoaded ==
    /\ state' = "Body"
    /\ complete' = TRUE
    /\ body' = FlattenSeq([i \in DOMAIN stash |->
                SubSeq(Buffer, stash[i].pos + 1, stash[i].pos + stash[i].size)])

\* The last chunk is followed by a line end or by trailers.
LastChunkMissing ==
    /\ In("Chunk") /\ HasLine /\ IsSize /\ SizeSymbol.size = 0
    /\ DataPos + 1 > buffered
    /\ More(DataPos - 1)
    /\ UNCHANGED <<client, data, complete, keepAlive, flow, result>>

LastChunkFound ==
    /\ In("Chunk") /\ HasLine /\ IsSize /\ SizeSymbol.size = 0
    /\ DataPos + 1 <= buffered
    /\ loaded' = TRUE
    /\ IF Buffer[DataPos + 1] = CRLF
       THEN chunkedPos' = DataPos + 1 /\ ChunksLoaded
       ELSE chunkedPos' = DataPos /\ state' = "Trailer" /\ UNCHANGED <<complete, body>>
    /\ UNCHANGED <<client, data, read, valid, keepAlive, stash, outcome>>

TrailersMissing ==
    /\ In("Trailer") /\ Parts(Buffer, chunkedPos) = {}
    /\ More(chunkedPos)
    /\ UNCHANGED <<client, data, complete, keepAlive, flow, result>>

\* What is in the buffer behind the trailers: only line ends are trimmed.
OnlyLineEndsFrom(from) == \A i \in from + 1 .. buffered : Buffer[i] = CRLF

\* All of the buffer is taken for trailers, though their end was found.
TrailersFound ==
    /\ In("Trailer") /\ Parts(Buffer, chunkedPos) # {}
    /\ IF request.tail /\ OnlyLineEndsFrom(FirstOf(Parts(Buffer, chunkedPos)))
       THEN /\ chunkedPos' = FirstOf(Parts(Buffer, chunkedPos))
            /\ ChunksLoaded
            /\ UNCHANGED <<read, valid>>
       ELSE Abandon /\ UNCHANGED <<chunkedPos, complete, body>>
    /\ UNCHANGED <<client, data, keepAlive, loaded, stash, outcome>>

-----------------------------------------------------------------------------
(* bodyState and endState *)

BodyState ==
    /\ In("Body")
    /\ IF request.payload THEN state' = "End" /\ UNCHANGED valid ELSE Refuse
    /\ UNCHANGED <<client, data, read, complete, keepAlive, flow, result>>

\* Mutant of EndState: a request that was not read to its end keeps the connection.
EndKeeping ==
    /\ In("End")
    /\ outcome' = IF valid THEN "handled" ELSE "refused"
    /\ read' = Nothing
    /\ UNCHANGED <<client, data, state, valid, complete, keepAlive, flow, body>>

\* The action answers; the connection goes on to read the next request or not.
EndState ==
    /\ In("End")
    /\ keepAlive' = (keepAlive /\ complete)
    /\ outcome' = IF valid THEN "handled" ELSE "refused"
    /\ read' = Nothing
    /\ UNCHANGED <<client, data, state, valid, complete, flow, body>>

-----------------------------------------------------------------------------
Reading == ReadSome \/ ReadExactly \/ ReadUntil

Parsing ==
    \/ FirstLineState \/ HeadersState
    \/ LengthLoaded \/ LengthMissing
    \/ PrepareChunks \/ SizeMissing \/ SizeUnreadable \/ ChunkMissing \/ ChunkFound
    \/ LastChunkMissing \/ LastChunkFound \/ TrailersMissing \/ TrailersFound
    \/ BodyState \/ EndState

Next == Arrive \/ Reading \/ Parsing

Spec == Init /\ [][Next]_vars

\* The client sends the whole request, the socket delivers it and handlers run
\* to their end.
FairSpec == Spec /\ WF_vars(Arrive) /\ WF_vars(Reading) /\ WF_vars(Parsing)

-----------------------------------------------------------------------------
(* Properties *)

LegalChunks(q) ==
    /\ \A i \in DOMAIN q.chunks : q.chunks[i].size # -1 /\ q.chunks[i].ended
    /\ q.trailers > 0 => q.tail

Legal(q) ==
    /\ q.line /\ q.legal
    /\ q.framing = "chunked" => LegalChunks(q)
    /\ HasBody(q) => q.payload

\* The head fits into the array.
Fits(q) == Len(Top(q)) <= MaxSize

\* Two line ends follow each other in the data of a chunk, not at its start.
HidesPart(q) ==
    \E i \in DOMAIN q.chunks :
        Parts(q.chunks[i].data, 1) # {}

\* However the request was cut into pieces, it is handled with the body that
\* the client sent, and refused only if something is wrong with it.
HandledAsMeant ==
    /\ outcome = "handled" => Legal(request) /\ body = Meant(request)
    /\ outcome = "refused" => ~Legal(request)

\* The connection reads a next request only after all of this one was read:
\* what is left over of one that was refused is not taken for a request.
KeptInStep == outcome # "none" /\ keepAlive => Taken >= Len(Stream(request))

\* Refuted: and nothing of the next one was read along with it.
LeavesTheNext == outcome # "none" /\ keepAlive => Taken = Len(Stream(request))

\* Trailers are followed by the beginning of a next request.
Overrun(q) == q.trailers > 0 /\ \E i \in DOMAIN q.next : q.next[i] # CRLF

\* A request that the client sends as a whole is answered, if its head fits
\* into the array, its chunks are legal, none hides a NEW_PART and nothing
\* follows its trailers.
Readable == {q \in Requests : /\ Fits(q) /\ LegalChunks(q)
                              /\ ~HidesPart(q) /\ ~Overrun(q)}
EveryRequestRead == request \in Readable ~> outcome # "none"

\* Refuted, for each of these: every legal request is answered.
EveryLegalRead == Legal(request) ~> outcome # "none"
=============================================================================
