----------------------------- MODULE HttpClient -----------------------------
(***************************************************************************)
(* One HTTP request to a tracker: the client (misc/http_client.c), which   *)
(* reads the answer in portions into a growing buffer (misc/iobuf.c), cuts *)
(* it up and reports to a callback; and the caller (btpd/http_tr_if.c),    *)
(* which collects the content, gives the tier its result, and may cancel   *)
(* the request from inside the callback.                                   *)
(*                                                                         *)
(* A byte of the answer is a triple: the part it belongs to, the number of *)
(* the chunk, and its place.  The header is one part, which says how the   *)
(* content is delimited; its last byte ends the empty line.  The parser's  *)
(* `goto again' is a step; between its steps only the parser runs.         *)
(***************************************************************************)
EXTENDS Integers, Sequences, SequencesExt

CONSTANTS
    Replies,       \* what servers may send
    READ,          \* bytes read at once, and the first size of the buffer (4096)
    MaxHead,       \* bytes after which the end of the header must be there (2^15)
    MaxLine,       \* ... and the end of a chunk's size (20)
    MaxDownload    \* MAX_DOWNLOAD

VARIABLES
    reply,     \* what the server sends
    got,       \* how much of it has been read
    pstate,    \* req->pstate; "call" before the request
    length,    \* req->length
    rbuf,      \* req->rbuf: [size, skip, data], off is the length of data
    unsent,    \* req->wbuf.off > 0
    last,      \* bytes of the last read, http_parse's `len'
    parsing,   \* req->parsing
    cancel,    \* req->cancel
    req,       \* the request: "none", "live" or "freed"
    treq,      \* struct httptr_req: "none", "connect", "open" or "freed"
    content,   \* treq->buf
    results,   \* what the tier was told (tr_result)
    gaveup,    \* the tier gave the request up (req_cancel)
    moved,     \* realloc moved the buffer while the header was parsed
    fault      \* memory was used after free, freed twice or overrun

vars == <<reply, got, pstate, length, rbuf, unsent, last, parsing, cancel, req, treq, content,
          results, gaveup, moved, fault>>
http == <<pstate, length, rbuf, last, parsing>>

Least(a, b) == IF a <= b THEN a ELSE b

------------------------------------------------------------------------------
(* The answer: a record of the framing; the lengths of the header, of the   *)
(* lines with a chunk's size, of the newline after a chunk, of the chunks    *)
(* (one for the whole content otherwise) and of what follows; and whether    *)
(* those lines have a number.                                                *)

Bytes(part, j, n) == [k \in 1..n |-> <<part, j, k>>]

Chunk(r, j) ==
    Bytes("line", j, r.line) \o Bytes("data", j, r.chunks[j]) \o Bytes("newline", j, r.newline)

Chunks(r) ==
    LET upto[j \in 0..Len(r.chunks)] ==
          IF j = 0 THEN <<>> ELSE upto[j - 1] \o Chunk(r, j)
    IN upto[Len(r.chunks)] \o Bytes("line", Len(r.chunks) + 1, r.line)

Data(r) ==
    LET upto[j \in 0..Len(r.chunks)] ==
          IF j = 0 THEN <<>> ELSE upto[j - 1] \o Bytes("data", j, r.chunks[j])
    IN upto[Len(r.chunks)]

Wire(r) ==
    Bytes("head", 0, r.head)
      \o (IF r.framing = "chunked" THEN Chunks(r) ELSE Data(r))
      \o Bytes("trail", 0, r.trail)

\* What a chunk's line says.
SizeOf(r, j) == IF j <= Len(r.chunks) THEN r.chunks[j] ELSE 0

------------------------------------------------------------------------------
Init ==
    /\ reply = CHOOSE r \in Replies : TRUE
    /\ got = 0 /\ pstate = "call" /\ length = -1
    /\ rbuf = [size |-> READ, skip |-> 0, data |-> <<>>]
    /\ unsent = FALSE /\ last = 0 /\ parsing = FALSE /\ cancel = FALSE
    /\ req = "none" /\ treq = "none" /\ content = <<>> /\ results = <<>>
    /\ gaveup = FALSE /\ moved = FALSE /\ fault = FALSE

\* httptr_req and http_get.
httptr_req ==
    /\ treq = "none"
    /\ reply' \in Replies
    /\ pstate' = "head" /\ unsent' = TRUE /\ req' = "live" /\ treq' = "connect"
    /\ UNCHANGED <<got, length, rbuf, last, parsing, cancel, content, results, gaveup, moved,
                   fault>>

Idle == ~fault /\ ~parsing

\* Things are freed at most once.
Freed(t, r) == fault' = ((t /\ treq \notin {"connect", "open"}) \/ (r /\ req # "live"))

\* http_free and httptr_free, together; or http_free alone.
both_freed == treq' = "freed" /\ req' = "freed" /\ Freed(TRUE, TRUE)
http_free == req' = "freed" /\ Freed(FALSE, TRUE)

\* http_cancel: inside a callback the client's part is left to the parser.
Bug_http_cancel == req' = "freed" /\ UNCHANGED cancel
http_cancel == IF parsing THEN cancel' = TRUE /\ UNCHANGED req
               ELSE req' = "freed" /\ UNCHANGED cancel

httptr_cancel == http_cancel /\ treq' = "freed" /\ Freed(TRUE, ~parsing)

\* httptr_nc_cb.
httptr_nc_cb ==
    /\ Idle /\ treq = "connect"
    /\ \/ /\ treq' = "open"
          /\ UNCHANGED <<req, cancel, results, fault>>
       \/ results' = Append(results, "conn") /\ httptr_cancel
    /\ UNCHANGED <<reply, got, http, unsent, content, gaveup, moved>>

\* The timer of httptr_io_cb, and httptr_cancel called by the tier.
timeout ==
    /\ Idle /\ treq \in {"connect", "open"}
    /\ results' = Append(results, "conn") /\ httptr_cancel
    /\ UNCHANGED <<reply, got, http, unsent, content, gaveup, moved>>

req_cancel ==
    /\ Idle /\ treq \in {"connect", "open"}
    /\ gaveup' = TRUE /\ httptr_cancel
    /\ UNCHANGED <<reply, got, http, unsent, content, results, moved>>

\* http_write; an error is reported like one of reading (http_error).
http_error == results' = Append(results, "bad") /\ both_freed

http_write ==
    /\ Idle /\ treq = "open" /\ unsent
    /\ \/ unsent' \in BOOLEAN /\ UNCHANGED <<req, treq, results, fault>>
       \/ http_error /\ UNCHANGED unsent
    /\ UNCHANGED <<reply, got, http, cancel, content, gaveup, moved>>

------------------------------------------------------------------------------
(* Reading *)

\* iobuf_accommodate: room at the end, room after moving down, or a larger
\* buffer.
Free(b) == b.size - (b.skip + Len(b.data))
Grows(b, n) == Free(b) + b.skip < n

accommodated(b, n) ==
    IF Free(b) >= n THEN b
    ELSE IF ~Grows(b, n) THEN [b EXCEPT !.skip = 0]
    ELSE [b EXCEPT !.size = @ + n]

iobuf_consumed(b, n) == [b EXCEPT !.skip = @ + n, !.data = SubSeq(@, n + 1, Len(@))]

http_read ==
    /\ Idle /\ treq = "open"
    /\ \/ \E n \in 0..Least(READ, Len(Wire(reply)) - got) :          \* 0: closed
            LET b == accommodated(rbuf, READ) IN
            /\ rbuf' = [b EXCEPT !.data = @ \o SubSeq(Wire(reply), got + 1, got + n)]
            /\ got' = got + n /\ last' = n /\ parsing' = TRUE
            /\ fault' = (n > Free(b))
            /\ UNCHANGED <<req, treq, results>>
       \/ http_error /\ UNCHANGED <<got, rbuf, last, parsing>>
    /\ UNCHANGED <<reply, pstate, length, unsent, cancel, content, gaveup, moved>>

------------------------------------------------------------------------------
(* http_parse *)

Parses(ps) == ~fault /\ parsing /\ pstate = ps /\ last > 0

\* Leaving the parser: waiting for more, with an error, or at the end.
waits == parsing' = FALSE /\ UNCHANGED <<req, treq, results, cancel, content, fault>>
error ==
    /\ http_error
    /\ parsing' = FALSE /\ UNCHANGED <<cancel, content>>

\* HTTP_T_DONE: the tier gets the answer.
done ==
    /\ results' = Append(results, "done") /\ both_freed
    /\ parsing' = FALSE /\ UNCHANGED <<cancel, content>>

again == UNCHANGED <<parsing, req, treq, results, cancel, content, fault>>

Elsewhere == UNCHANGED <<reply, got, last, unsent, gaveup>>

\* Where the first byte k of a part is in the buffer, 0 if it is not.
Find(part, k) ==
    LET is == {i \in 1..Len(rbuf.data) : rbuf.data[i][1] = part /\ rbuf.data[i][3] = k} IN
    IF is = {} THEN 0 ELSE CHOOSE i \in is : \A j \in is : i <= j

\* headers_parse is given the buffer, with a byte for the terminating zero, and
\* `end', found before.  If the buffer was moved meanwhile `end' points into
\* the old one: below the new one, so that no header is read, or above, so that
\* the parser runs on into the content.
HasLength == reply.framing = "length"
declared == IF HasLength THEN Len(Data(reply)) ELSE -1

parse_head ==
    /\ Parses("head")
    /\ LET end == Find("head", reply.head)
           b == accommodated(rbuf, 1) IN
       \/ /\ end = 0 /\ Len(rbuf.data) < MaxHead
          /\ waits /\ UNCHANGED <<pstate, length, rbuf, moved>>
       \/ /\ end = 0 /\ Len(rbuf.data) >= MaxHead
          /\ error /\ UNCHANGED <<pstate, length, rbuf, moved>>
       \/ /\ end > 0
          /\ rbuf' = iobuf_consumed(b, end)
          /\ pstate' = IF reply.framing = "chunked" THEN "size" ELSE "data"
          /\ length' = declared
          /\ again /\ UNCHANGED moved
       \/ /\ end > 0 /\ Grows(rbuf, 1) /\ moved' = TRUE
          /\ rbuf' = iobuf_consumed(b, end)
          /\ pstate' = "data" /\ length' = -1
          /\ again
       \/ /\ end > 0 /\ Grows(rbuf, 1) /\ moved' = TRUE
          /\ error /\ UNCHANGED <<pstate, length, rbuf>>
    /\ Elsewhere

\* PS_CHUNK_SIZE.
parse_size ==
    /\ Parses("size")
    /\ LET end == Find("line", reply.line) IN
       \/ /\ end = 0 /\ Len(rbuf.data) < MaxLine
          /\ waits /\ UNCHANGED <<pstate, length, rbuf>>
       \/ /\ end = 0 /\ Len(rbuf.data) >= MaxLine
          /\ error /\ UNCHANGED <<pstate, length, rbuf>>
       \/ /\ end > 0 /\ ~reply.number
          /\ error /\ UNCHANGED <<pstate, length, rbuf>>
       \/ /\ end > 0 /\ reply.number
          /\ length' = SizeOf(reply, rbuf.data[end][2])
          /\ IF length' = 0 THEN done /\ UNCHANGED <<pstate, rbuf>>
             ELSE rbuf' = iobuf_consumed(rbuf, end) /\ pstate' = "chunk" /\ again
    /\ Elsewhere /\ UNCHANGED moved

\* HTTP_T_DATA: the content is kept, or is too much: the tier is told, and the
\* request cancelled from inside the callback (httptr_cancel), which frees the
\* caller's part and leaves the client's to the parser.
too_much(n) == Len(content) + n > MaxDownload

\* PS_CHUNK_DATA and PS_ID_DATA: up to `length' bytes of what is there.
Takes == IF length < 0 THEN Len(rbuf.data) ELSE Least(Len(rbuf.data), length)

Bug_left(n) == length
left(n) == IF length > 0 THEN length - n ELSE length

parse_data(ps) ==
    /\ ps \in {"chunk", "data"} /\ Parses(ps) /\ ~cancel
    /\ \/ /\ Takes = 0
          /\ waits /\ UNCHANGED <<pstate, length, rbuf>>
       \/ /\ Takes > 0 /\ too_much(Takes)
          /\ results' = Append(results, "bad")
          /\ httptr_cancel
          /\ UNCHANGED <<pstate, length, rbuf, content, parsing>>
       \/ /\ Takes > 0 /\ ~too_much(Takes)
          /\ content' = content \o SubSeq(rbuf.data, 1, Takes)
          /\ rbuf' = iobuf_consumed(rbuf, Takes)
          /\ length' = left(Takes)
          /\ pstate' = IF left(Takes) = 0 /\ ps = "chunk" THEN "newline" ELSE ps
          /\ parsing' = (left(Takes) = 0 /\ ps = "chunk")
          /\ IF left(Takes) = 0 /\ ps = "data"
             THEN results' = Append(results, "done") /\ both_freed
             ELSE UNCHANGED <<results, req, treq, fault>>
          /\ UNCHANGED cancel
    /\ Elsewhere /\ UNCHANGED moved

\* The parser finds that it was cancelled, and frees the request.
parse_cancelled ==
    /\ ~fault /\ parsing /\ cancel
    /\ http_free /\ parsing' = FALSE
    /\ UNCHANGED <<treq, results, cancel, content, pstate, length, rbuf>>
    /\ Elsewhere /\ UNCHANGED moved

\* PS_CHUNK_CRLF: a newline of one or two bytes, once two bytes are there.
parse_newline ==
    /\ Parses("newline")
    /\ \/ /\ Len(rbuf.data) < 2
          /\ waits /\ UNCHANGED <<pstate, length, rbuf>>
       \/ /\ Len(rbuf.data) >= 2
          /\ rbuf.data[1][1] = "newline"
          /\ rbuf' = iobuf_consumed(rbuf, reply.newline)
          /\ pstate' = "size" /\ again /\ UNCHANGED length
       \/ /\ Len(rbuf.data) >= 2 /\ rbuf.data[1][1] # "newline"
          /\ error /\ UNCHANGED <<pstate, length, rbuf>>
    /\ Elsewhere /\ UNCHANGED moved

\* The server closed the connection: the end of a content without a length.
parse_eof ==
    /\ ~fault /\ parsing /\ last = 0
    /\ IF pstate = "data" /\ length < 0 THEN done ELSE error
    /\ UNCHANGED <<pstate, length, rbuf>>
    /\ Elsewhere /\ UNCHANGED moved

------------------------------------------------------------------------------
Parse ==
    \/ parse_head \/ parse_size \/ parse_newline \/ parse_eof \/ parse_cancelled
    \/ \E ps \in {"chunk", "data"} : parse_data(ps)

Next ==
    \/ httptr_req \/ httptr_nc_cb \/ timeout \/ req_cancel \/ http_write \/ http_read \/ Parse

Spec == Init /\ [][Next]_vars

------------------------------------------------------------------------------
(* Properties *)

\* Types.
TypeOK ==
    /\ got \in 0..Len(Wire(reply)) /\ length \in Int /\ last \in 0..READ
    /\ {unsent, parsing, cancel, gaveup, moved, fault} \subseteq BOOLEAN
    /\ req \in {"none", "live", "freed"} /\ treq \in {"none", "connect", "open", "freed"}
    /\ rbuf.size >= rbuf.skip + Len(rbuf.data)

\* Whatever happens, also when the callback cancels the request it is called
\* for: nothing is freed twice, used after it was freed, or written past its
\* end; the request and its caller's part are gone when the parser has
\* returned, and the tier was told once, not at all if it cancelled itself.
AnsweredOnce ==
    /\ TypeOK /\ ~fault
    /\ ~parsing => (treq = "freed" <=> req = "freed")
    /\ Len(results) = (IF treq = "freed" /\ ~gaveup THEN 1 ELSE 0)

Delivered ==
    /\ IsPrefix(content, Data(reply))
    /\ results = <<"done">> /\ reply.framing # "close" => content = Data(reply)

\* However the answer is cut up by the network, the content the tier gets is
\* the one the server sent, without chunk sizes and what follows the end, and
\* whole if the server says how long it is; if the buffer stays in its place
\* while the header is parsed.
ContentRight == moved \/ Delivered

\* A buffer that is reallocated in PS_HEAD makes no difference: "req->rbuf.buf
\* may be reallocated inside iobuf_write() so calculate the offset before that
\* is called".
ReallocHarmless == Delivered

=============================================================================
