-------------------------- MODULE MCRequestReading --------------------------
(* Requests of up to five header lines, of which four fit into the array of *)
(* eleven symbols, bodies of up to four symbols, and two chunks, alone or   *)
(* followed by the beginning of a next request.                             *)
EXTENDS RequestReading

Plain == [line |-> TRUE, headers |-> 1, legal |-> TRUE, keep |-> TRUE,
          framing |-> "none", body |-> <<>>, chunks |-> <<>>, trailers |-> 0,
          tail |-> TRUE, payload |-> TRUE, next |-> <<>>]

\* A line end too many, and the first line of a next request.
Nexts == {<<>>, <<CRLF>>, <<Text, CRLF, CRLF>>}

DataOf(lengths) == UNION {[1 .. n -> {CRLF, Text}] : n \in lengths}
ChunkOf(d) == [size |-> Len(d), data |-> d, ended |-> TRUE]
BadChunks == {[size |-> -1, data |-> <<Text>>, ended |-> TRUE],
              [size |-> 1, data |-> <<Text>>, ended |-> FALSE]}

Heads == {[Plain EXCEPT !.headers = h, !.line = line, !.legal = legal, !.keep = keep,
                        !.next = n] :
            h \in 0 .. 5, line \in BOOLEAN, legal \in BOOLEAN, keep \in BOOLEAN,
            n \in Nexts}

WithLength == {[Plain EXCEPT !.headers = h, !.framing = "length", !.body = d,
                             !.legal = legal, !.payload = payload, !.next = n] :
                h \in {1, 3}, d \in DataOf(0 .. 3) \cup {<<Text, CRLF, CRLF, Text>>},
                legal \in BOOLEAN, payload \in BOOLEAN, n \in Nexts \ {<<CRLF>>}}

ChunkLists == {<<ChunkOf(d)>> : d \in DataOf(1 .. 3)}
        \cup {<<ChunkOf(c), ChunkOf(d)>> : c \in DataOf({1, 3}), d \in DataOf({1})}
        \cup {<<>>} \cup {<<c>> : c \in BadChunks}
        \cup {<<ChunkOf(<<CRLF>>), c>> : c \in BadChunks}

WithChunks == {[Plain EXCEPT !.framing = "chunked", !.chunks = cs, !.trailers = t,
                             !.tail = tail, !.payload = payload, !.next = n] :
                cs \in ChunkLists, t \in 0 .. 1, tail \in BOOLEAN, payload \in BOOLEAN,
                n \in Nexts}

MCRequests == {q \in Heads \cup WithLength \cup WithChunks :
                /\ q.headers = 0 => q.legal
                /\ q.trailers = 0 => q.tail
                /\ Len(q.chunks) > 0 => q.payload /\ (Len(q.chunks) = 2 => q.next = <<>>)}

-----------------------------------------------------------------------------
(* Single requests, for what does not hold of every one: EveryLegalRead, *)
(* and LeavesTheNext.                                                     *)

\* The head fills the array.
LargeHead == {[Plain EXCEPT !.headers = 5]}

\* A chunk hides a NEW_PART.
HiddenPart == {[Plain EXCEPT !.framing = "chunked",
                             !.chunks = <<ChunkOf(<<Text, CRLF, CRLF, Text>>)>>]}

\* Trailers are followed by a next request.
TrailersAndNext == {[Plain EXCEPT !.framing = "chunked", !.trailers = 1,
                                  !.next = <<Text, CRLF, CRLF>>]}

\* A request without a body is followed by a next one.
PlainAndNext == {[Plain EXCEPT !.next = <<Text, CRLF, CRLF>>]}
=============================================================================
