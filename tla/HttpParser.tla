----------------------------- MODULE HttpParser -----------------------------
(***************************************************************************)
(* Receiving and parsing (fasterhttp.c): one buffer of an HttpEnv, with    *)
(* ReceiveHttpBuffer that fills it, ParseHttpBuffer that goes on where the *)
(* last bytes ended, and ResetHttpEnv that makes it ready for the next     *)
(* message, of the same peer or of the next one the session serves.        *)
(*                                                                         *)
(* The buffer is the request_buffer of http, whose peer is a client, or    *)
(* the response_buffer of forward_http, whose peer is a forward server.    *)
(* What arrives is cut anywhere.  A byte here is a byte or a piece of a    *)
(* word; words are two pieces long, so that a cut may fall inside one.     *)
(***************************************************************************)
EXTENDS Integers, Sequences, FiniteSets, SequencesExt

CONSTANTS
    Message,      \* what peers send, see MessageType
    Piece,        \* the pieces of words
    BufSize,      \* FASTERHTTP_REQUEST_BUFSIZE_DEFAULT
    BufMax,       \* FASTERHTTP_REQUEST_BUFSIZE_MAX
    CutLastLine,  \* the messages of which the CR LF that ends the headers may be cut in two
    MaxMessages   \* bound: the messages of all peers

SP == " "
CR == "\r"
LF == "\n"
NUL == "NUL"
Digit == <<"0", "1", "2", "3", "4">>    \* Digit[n + 1] stands for n
Byte == Piece \cup ToSet(Digit) \cup {SP, CR, LF, ":", NUL}

ContentLength == <<"Content-", "Length">>
TransferEncoding == <<"Transfer-", "Encoding">>
Chunked == <<"chun", "ked">>
TrailerName == <<"Trai", "ler">>
Methods == {<<"GE", "T">>, <<"POS", "T">>, <<"HEA", "D">>}
Versions == {<<"HTTP/1.", "0">>, <<"HTTP/1.", "1">>}

\* eol: how lines end; start: the words of the first one; chunks: the pieces the content is
\* sent in; held: how many of its last bytes the peer never sends.
Field == [name : Seq(Byte), value : Seq(Byte)]
MessageType == [role : {"request", "response"}, eol : {<<CR, LF>>, <<LF>>},
                start : Seq(Seq(Byte)), headers : Seq(Field),
                chunked : BOOLEAN, chunks : Seq(Seq(Byte)), trailer : Seq(Field),
                held : Nat]

ASSUME HttpParserAssumption ==
    /\ Piece \cap {SP, CR, LF, ":", NUL} = {}
    /\ \A m \in Message :
         /\ m \in MessageType /\ Len(m.start) = 3
         /\ m.chunked => \A c \in ToSet(m.chunks) : Len(c) < Len(Digit)
    /\ BufSize \in Nat /\ BufSize > 1 /\ BufMax \in Nat /\ BufMax >= BufSize
    /\ CutLastLine \subseteq Message /\ MaxMessages \in Nat

VARIABLES
    role,         \* which of the two buffers this is
    wire,         \* bytes sent and not received
    sent,         \* the messages of the present peer
    taken,        \* how many of them have been taken
    budget,       \* how many messages will still be sent
    memory,       \* the bytes base points to
    process_ptr,  \* process_ptr - base
    fill_ptr,     \* fill_ptr - base
    e,            \* the rest of HttpEnv
    p,            \* p - base in ParseHttpBuffer, 0 outside of it
    at            \* where the receiving thread is

peerVars == <<role, sent, taken, budget>>
bufferVars == <<memory, process_ptr, fill_ptr>>
vars == <<peerVars, wire, bufferVars, e, p, at>>

NoWord == [offset |-> 0, len |-> 0]
NoHeader == [name |-> NoWord, value |-> NoWord]

\* words: METHOD, URI, VERSION, or VERSION, STATUSCODE, REASONPHRASE, as far as they are
\* known, "WORD0" and "WORD" being the two steps of the next one; header: the header
\* being read; dangling: chunked_body and chunked_body_end point into freed memory.
FreshEnv ==
    [parse_step |-> "WORD0", words |-> <<>>, offset |-> 0, header |-> NoHeader, headers |-> <<>>,
     content_length |-> 0, chunked |-> FALSE, TRAILER |-> NoWord, body_base_offset |-> 0,
     chunked_length |-> 0, chunked_body |-> 0, chunked_body_end |-> 0, dangling |-> FALSE,
     reforming_flag |-> FALSE]

Zeros(n) == [i \in 1 .. n |-> NUL]
buf_size == Len(memory)
Behind == SubSeq(memory, process_ptr + 1, fill_ptr)
At(q) == memory[q + 1]
Text(w) == SubSeq(memory, w.offset + 1, w.offset + w.len)

Init ==
    /\ role \in {"request", "response"}
    /\ wire = <<>> /\ sent = <<>> /\ taken = 0 /\ budget = MaxMessages
    /\ memory = Zeros(BufSize) /\ process_ptr = 0 /\ fill_ptr = 0
    /\ e = FreshEnv /\ p = 0 /\ at = "epoll"

-----------------------------------------------------------------------------
(* The peers.  One that has not got an answer sends nothing more.          *)

Lines(fields, eol) ==
    FlattenSeq([i \in DOMAIN fields |-> fields[i].name \o <<":", SP>> \o fields[i].value \o eol])
Chunk(c, eol) == <<Digit[Len(c) + 1]>> \o eol \o c \o eol
Content(m) == FlattenSeq(m.chunks)
Coded(m) ==
    IF m.chunked
    THEN FlattenSeq([i \in DOMAIN m.chunks |-> Chunk(m.chunks[i], m.eol)])
         \o <<"0">> \o m.eol \o Lines(m.trailer, m.eol) \o m.eol
    ELSE Content(m)
Render(m) ==
    m.start[1] \o <<SP>> \o m.start[2] \o <<SP>> \o m.start[3] \o m.eol
    \o Lines(m.headers, m.eol) \o m.eol \o Coded(m)
Present == sent[taken + 1]

Send(m) ==
    /\ m.role = role /\ Len(sent) = taken /\ budget > 0
    /\ at = "epoll" /\ sent' = Append(sent, m)
    /\ wire' = wire \o SubSeq(Render(m), 1, Len(Render(m)) - m.held)
    /\ budget' = budget - 1
    /\ UNCHANGED <<role, taken, bufferVars, e, p, at>>

-----------------------------------------------------------------------------
(* ReceiveHttpBuffer, in the loop of ReceiveHttpRequestNonblock.           *)

OnReceiving ==
    /\ at = "epoll" /\ wire # <<>>
    /\ at' = "receive"
    /\ UNCHANGED <<peerVars, wire, bufferVars, e, p>>

\* What is at the front of the buffer and was never looked at is parsed first.
LeftOver == process_ptr = 0 /\ fill_ptr > 0

ParseLeftOver ==
    /\ at = "receive" /\ LeftOver
    /\ at' = "parse" /\ p' = process_ptr
    /\ UNCHANGED <<peerVars, wire, bufferVars, e>>

\* ReallocHttpBuffer clears what is not filled; the offsets stay right, the two pointers
\* of a chunked body do not when realloc moves the buffer.
Resized(size) == SubSeq(memory, 1, fill_ptr) \o Zeros(size - fill_ptr)
MayDangle(f) == IF f.parse_step \in {"CHUNKED_SIZE", "CHUNKED_DATA"} THEN {f.dangling, TRUE}
                ELSE {f.dangling}

\* Mistaken: the buffer is filled to its last byte.
FullAtTheEnd == fill_ptr >= buf_size

Full == fill_ptr >= buf_size - 1

Grow ==
    /\ at = "receive" /\ ~ LeftOver /\ Full
    /\ memory' = Resized(2 * buf_size)
    /\ \E d \in MayDangle(e) : e' = [e EXCEPT !.dangling = d]
    /\ UNCHANGED <<peerVars, wire, process_ptr, fill_ptr, p, at>>

LastLineIsCut(k) ==
    LET so == SubSeq(memory, 1, fill_ptr) \o SubSeq(wire, 1, k) IN
    Len(so) > 1 /\ SubSeq(so, Len(so) - 1, Len(so)) = <<LF, CR>>

Recv(k) ==
    /\ at = "receive" /\ ~ LeftOver /\ ~ Full
    /\ k <= buf_size - 1 - fill_ptr
    /\ LastLineIsCut(k) => taken < Len(sent) /\ Present \in CutLastLine
    /\ memory' = [i \in 1 .. buf_size |->
         IF i \in fill_ptr + 1 .. fill_ptr + k THEN wire[i - fill_ptr] ELSE memory[i]]
    /\ wire' = SubSeq(wire, k + 1, Len(wire))
    /\ fill_ptr' = fill_ptr + k
    /\ at' = "parse" /\ p' = process_ptr
    /\ UNCHANGED <<peerVars, process_ptr, e>>

\* Nothing is left: NEED_MORE goes back to the handler, and to epoll.
WouldBlock ==
    /\ at = "receive" /\ ~ LeftOver /\ ~ Full /\ wire = <<>>
    /\ at' = "epoll"
    /\ UNCHANGED <<peerVars, wire, bufferVars, e, p>>

ReceiveHttpBuffer ==
    \/ ParseLeftOver \/ Grow \/ WouldBlock
    \/ \E k \in DOMAIN wire : Recv(k)

-----------------------------------------------------------------------------
(* ParseHttpBuffer, one action for each case of its switch.  A case falls  *)
(* through to the next one with p, or returns.                             *)

Seek(q, stop) == Min({r \in q .. fill_ptr : r = fill_ptr \/ At(r) \in stop})
Past(q, skip) == Min({r \in q .. fill_ptr : r = fill_ptr \/ At(r) \notin skip})
Back(q, skip) == Max({r \in 0 .. q - 1 : At(r) \notin skip})

NeedMore(q, f) ==
    /\ process_ptr' = q /\ e' = f /\ at' = "receive" /\ p' = 0
    /\ UNCHANGED <<memory, fill_ptr>>
GoOn(q, f) == p' = q /\ e' = f /\ UNCHANGED <<bufferVars, at>>
Refuse == at' = "closed" /\ p' = 0 /\ UNCHANGED <<bufferVars, e>>

\* DONE; ReceiveHttpRequestNonblock ends the message with a 0 in the buffer.
Done(q, f, keeps_rest) ==
    /\ process_ptr' = q
    /\ memory' = [memory EXCEPT ![q + 1] = NUL]
    /\ e' = [f EXCEPT !.parse_step = "DONE",
                      !.reforming_flag = @ \/ (keeps_rest /\ fill_ptr > q)]
    /\ at' = "taken" /\ p' = 0
    /\ UNCHANGED fill_ptr

\* A version of the right length that does not begin with HTTP/1. is let through.
VersionKnown(t) == Len(t) = 2 /\ (t[1] = "HTTP/1." => t \in Versions)
WordKnown(k, t) ==
    /\ role = "request" /\ k = 1 => t \in Methods
    /\ k = (IF role = "request" THEN 3 ELSE 1) => VersionKnown(t)

\* METHOD0, URI0 and VERSION0; VERSION0, STATUSCODE0 and REASONPHRASE0.
Word0 ==
    LET q == Past(p, {SP}) IN
    /\ e.parse_step = "WORD0"
    /\ \/ q = fill_ptr /\ NeedMore(q, e)
       \/ q < fill_ptr /\ At(q) = LF /\ Refuse
       \/ q < fill_ptr /\ At(q) # LF
          /\ GoOn(q + 1, [e EXCEPT !.parse_step = "WORD", !.offset = q])

\* METHOD, URI and VERSION; VERSION, STATUSCODE and REASONPHRASE.  The third ends the line.
Word ==
    LET k == Len(e.words) + 1
        q == Seek(p, IF k = 3 THEN {LF} ELSE {SP, LF})
        cr == IF k = 3 /\ At(q - 1) = CR THEN 1 ELSE 0
        w == [offset |-> e.offset, len |-> q - e.offset - cr]
        invalid == (k < 3 /\ At(q) = LF) \/ ~ WordKnown(k, Text(w))
    IN /\ e.parse_step = "WORD"
       /\ \/ q = fill_ptr /\ NeedMore(q, e)
          \/ q < fill_ptr /\ invalid /\ Refuse
          \/ q < fill_ptr /\ ~ invalid
             /\ GoOn(q + 1, [e EXCEPT !.parse_step = IF k = 3 THEN "HEADER_NAME0" ELSE "WORD0",
                                      !.words = Append(@, w)])

\* The method of forward_http is never set, so a response is never one to HEAD.
EndOfHeaders(q) ==
    IF role = "request" /\ Text(e.words[1]) = <<"HEA", "D">> THEN Done(q, e, FALSE)
    ELSE IF e.content_length > 0
    THEN GoOn(q, [e EXCEPT !.parse_step = "BODY", !.body_base_offset = q])
    ELSE IF e.chunked
    THEN GoOn(q, [e EXCEPT !.parse_step = "CHUNKED_SIZE", !.body_base_offset = q,
                           !.chunked_body_end = q])
    ELSE Done(q, e, FALSE)

\* A CR that is the last byte so far leaves process_ptr where it was.
HeaderName0 ==
    LET q == Past(p, {SP}) IN
    /\ e.parse_step = "HEADER_NAME0"
    /\ \/ q = fill_ptr /\ NeedMore(q, e)
       \/ q < fill_ptr /\ At(q) = CR
          /\ IF q + 1 = fill_ptr THEN NeedMore(process_ptr, e)
             ELSE EndOfHeaders(IF At(q + 1) = LF THEN q + 2 ELSE q + 1)
       \/ q < fill_ptr /\ At(q) = LF /\ EndOfHeaders(q + 1)
       \/ q < fill_ptr /\ At(q) \notin {CR, LF}
          /\ GoOn(q + 1, [e EXCEPT !.parse_step = "HEADER_NAME", !.header.name.offset = q])

\* Mistaken: the byte behind the last one is looked at before the name is known to be cut.
HeaderNameUnchecked ==
    LET q == Seek(p, {SP, ":", LF})
        r == Seek(q, {":", LF})
        named == [e EXCEPT !.header.name.len = q - e.header.name.offset]
    IN /\ e.parse_step = "HEADER_NAME"
       /\ \/ At(r) = LF /\ Refuse
          \/ At(r) # LF /\ r = fill_ptr /\ NeedMore(r, named)
          \/ At(r) # LF /\ r < fill_ptr
             /\ GoOn(r + 1, [named EXCEPT !.parse_step = "HEADER_VALUE0"])

\* The byte at r is looked at before r is compared with fill_ptr, so it may be one that
\* was left there by an earlier message.
HeaderName ==
    LET q == Seek(p, {SP, ":", LF})
        r == Seek(q, {":", LF})
        named == [e EXCEPT !.header.name.len = q - e.header.name.offset]
    IN /\ e.parse_step = "HEADER_NAME"
       /\ \/ q = fill_ptr /\ NeedMore(q, e)
          \/ q < fill_ptr /\ At(r) = LF /\ Refuse
          \/ q < fill_ptr /\ At(r) # LF /\ r = fill_ptr /\ NeedMore(r, named)
          \/ q < fill_ptr /\ At(r) # LF /\ r < fill_ptr
             /\ GoOn(r + 1, [named EXCEPT !.parse_step = "HEADER_VALUE0"])

HeaderValue0 ==
    LET q == Past(p, {SP}) IN
    /\ e.parse_step = "HEADER_VALUE0"
    /\ \/ q = fill_ptr /\ NeedMore(q, e)
       \/ q < fill_ptr /\ At(q) = LF /\ Refuse
       \/ q < fill_ptr /\ At(q) # LF
          /\ GoOn(q + 1, [e EXCEPT !.parse_step = "HEADER_VALUE", !.header.value.offset = q])

\* The loop over a chunk size: a decimal number, other characters ignored.
ValueOf(c) == CHOOSE i \in 0 .. 4 : Digit[i + 1] = c
Number(n, text) ==
    LET upto[k \in 0 .. Len(text)] ==
            IF k = 0 THEN n
            ELSE IF text[k] \in ToSet(Digit) THEN 10 * upto[k - 1] + ValueOf(text[k])
            ELSE upto[k - 1]
    IN upto[Len(text)]

\* strtol stops at the first character that is no digit.
Strtol(text) ==
    LET end == Min({i \in 0 .. Len(text) : i = Len(text) \/ text[i + 1] \notin ToSet(Digit)})
    IN Number(0, SubSeq(text, 1, end))

WithHeader(h) ==
    LET name == Text(h.name)
        f == [e EXCEPT !.headers = Append(@, h), !.header = NoHeader]
    IN CASE name = ContentLength -> [f EXCEPT !.content_length = Strtol(Text(h.value))]
         [] name = TransferEncoding /\ Text(h.value) = Chunked -> [f EXCEPT !.chunked = TRUE]
         [] name = TrailerName -> [f EXCEPT !.TRAILER = h.value]
         [] OTHER -> f

\* The value ends at the last byte that is no space and no CR, which may be in front of it.
\* A chunked message ends with the header that Trailer names.
HeaderValue ==
    LET q == Seek(p, {LF})
        end == Back(q, {SP, CR}) + 1
        f == WithHeader([e.header EXCEPT !.value.len = end - e.header.value.offset])
    IN /\ e.parse_step = "HEADER_VALUE"
       /\ \/ q = fill_ptr /\ NeedMore(q, e)
          \/ /\ q < fill_ptr
             /\ IF f.chunked /\ f.content_length > 0 /\ Text(e.header.name) = Text(f.TRAILER)
                THEN Done(q + 1, f, TRUE)
                ELSE GoOn(q + 1, [f EXCEPT !.parse_step = "HEADER_NAME0"])

Body ==
    /\ e.parse_step = "BODY"
    /\ IF fill_ptr - e.body_base_offset >= e.content_length
       THEN Done(e.body_base_offset + e.content_length, e, TRUE)
       ELSE NeedMore(fill_ptr, e)

\* With a Trailer the last chunk is followed by headers.
ChunkedSize ==
    LET q == Seek(p, {LF})
        f == [e EXCEPT !.chunked_length = Number(@, SubSeq(memory, p + 1, q))]
    IN /\ e.parse_step = "CHUNKED_SIZE"
       /\ \/ q = fill_ptr /\ NeedMore(q, f)
          \/ q < fill_ptr /\ f.chunked_length > 0
             /\ GoOn(q + 1, [f EXCEPT !.parse_step = "CHUNKED_DATA", !.chunked_body = q + 1])
          \/ q < fill_ptr /\ f.chunked_length = 0
             /\ IF f.TRAILER.offset # 0
                THEN GoOn(q + 1, [f EXCEPT !.parse_step = "HEADER_NAME0"])
                ELSE Done(q + 1, f, TRUE)

\* Mistaken: a chunk stays where it is.
ChunkInPlace ==
    LET q == e.chunked_body + e.chunked_length IN
    /\ p' = IF At(q) = CR THEN q + 2 ELSE q + 1
    /\ e' = [e EXCEPT !.parse_step = "CHUNKED_SIZE", !.chunked_length = 0,
                      !.chunked_body_end = @ + e.chunked_length,
                      !.content_length = @ + e.chunked_length]
    /\ UNCHANGED <<bufferVars, at>>

\* A chunk that is complete is moved behind the ones before it, over its size line.
MoveChunk ==
    LET q == e.chunked_body + e.chunked_length
        d == e.chunked_body - e.chunked_body_end
    IN /\ memory' = [i \in 1 .. buf_size |->
             IF i - e.chunked_body_end \in 1 .. e.chunked_length THEN memory[i + d] ELSE memory[i]]
       /\ p' = IF At(q) = CR /\ At(q + 1) = LF THEN q + 2 ELSE IF At(q) = LF THEN q + 1 ELSE q
       /\ e' = [e EXCEPT !.parse_step = "CHUNKED_SIZE", !.chunked_length = 0,
                         !.chunked_body_end = @ + e.chunked_length,
                         !.content_length = @ + e.chunked_length]
       /\ UNCHANGED <<process_ptr, fill_ptr, at>>

\* With pointers into freed memory anything may come of it.
ChunkedData ==
    /\ e.parse_step = "CHUNKED_DATA"
    /\ \/ e.dangling /\ at' = "undefined" /\ p' = 0 /\ UNCHANGED <<bufferVars, e>>
       \/ /\ ~ e.dangling
          /\ IF fill_ptr - e.chunked_body >= e.chunked_length + 2
             THEN MoveChunk ELSE NeedMore(fill_ptr, e)

ParseHttpBuffer ==
    /\ at = "parse"
    /\ \/ Word0 \/ Word
       \/ HeaderName0 \/ HeaderName \/ HeaderValue0 \/ HeaderValue
       \/ Body \/ ChunkedSize \/ ChunkedData
    /\ UNCHANGED <<peerVars, wire>>

-----------------------------------------------------------------------------
(* The end of a message: the session is reset, and waits for the next      *)
(* message of its peer (OnSendingSocket), or is released.                  *)

\* A large buffer becomes small again, unless it is of requests and the rest does not fit.
Shrunk(m, n) == IF Len(m) > BufMax /\ n < BufMax THEN SubSeq(m, 1, n) \o Zeros(BufMax - n) ELSE m

\* The buffer of responses is cut whatever is left: ReallocHttpBuffer then clears a negative
\* number of bytes, or leaves none for the 0 that ends a message.
AfterReset(n) ==
    IF role = "response" /\ buf_size > BufMax /\ n >= BufMax THEN "undefined" ELSE "epoll"

\* Mistaken: what was read is left in front of the rest.
ResetInPlace ==
    /\ memory' = memory /\ fill_ptr' = fill_ptr
    /\ process_ptr' = (IF e.reforming_flag THEN process_ptr ELSE fill_ptr)
    /\ e' = FreshEnv /\ at' = "epoll"

Rest == IF process_ptr < fill_ptr /\ e.reforming_flag THEN Behind ELSE <<>>

\* Mistaken: the rest is moved to the front but is not parsed.
ResetBehindRest ==
    /\ memory' = Shrunk(Rest \o SubSeq(memory, Len(Rest) + 1, buf_size), Len(Rest))
    /\ process_ptr' = process_ptr /\ fill_ptr' = Len(Rest)
    /\ e' = FreshEnv /\ at' = AfterReset(Len(Rest))

\* ReformingHttpBuffer or ResetHttpBuffer.
ResetHttpEnv ==
    /\ memory' = Shrunk(Rest \o SubSeq(memory, Len(Rest) + 1, buf_size), Len(Rest))
    /\ process_ptr' = 0 /\ fill_ptr' = Len(Rest)
    /\ e' = [FreshEnv EXCEPT !.reforming_flag = e.reforming_flag /\ process_ptr >= fill_ptr]
    /\ at' = AfterReset(Len(Rest))

KeepAlive ==
    /\ at = "taken" /\ role = "request"
    /\ ResetHttpEnv
    /\ taken' = taken + 1
    /\ UNCHANGED <<role, sent, budget, wire, p>>

\* The connection ends, after an answer, after an error, or by the peer or a limit.
NextPeer ==
    /\ at \in {"epoll", "taken", "closed"} /\ budget > 0
    /\ ResetHttpEnv
    /\ sent' = <<>> /\ taken' = 0 /\ wire' = <<>>
    /\ UNCHANGED <<role, budget, p>>

-----------------------------------------------------------------------------
Receiving == OnReceiving \/ ReceiveHttpBuffer \/ ParseHttpBuffer
Next == (\E m \in Message : Send(m)) \/ Receiving \/ KeepAlive \/ NextPeer

Spec == Init /\ [][Next]_vars /\ WF_vars(Receiving)

-----------------------------------------------------------------------------
(* Properties.                                                             *)

WordType == [offset : Nat, len : Int]

HttpParserTypeOK ==
    /\ role \in {"request", "response"}
    /\ wire \in Seq(Byte) /\ sent \in Seq(Message) /\ taken \in Nat
    /\ budget \in 0 .. MaxMessages
    /\ memory \in Seq(Byte)
    /\ fill_ptr \in 0 .. buf_size - 1 /\ process_ptr \in 0 .. fill_ptr
    /\ p \in 0 .. fill_ptr /\ (at # "parse" => p = 0)
    /\ e.words \in Seq(WordType) /\ Len(e.words) <= 3
    /\ e.content_length \in Nat /\ e.chunked_length \in Nat
    /\ at \in {"epoll", "receive", "parse", "taken", "closed", "undefined"}

\* A message as it should be: words of pieces and digits, a method and a version that are
\* known, and the length of its content announced.  It need not be complete.  This is what
\* the theorems assume of peers.
Honest(m) ==
    /\ \A k \in 1 .. 3 : m.start[k] # <<>> /\ ToSet(m.start[k]) \subseteq Piece \cup ToSet(Digit)
    /\ \A i \in DOMAIN m.headers :
         LET h == m.headers[i] IN
         /\ h.name # <<>> /\ ToSet(h.name) \cup ToSet(h.value) \subseteq Piece \cup ToSet(Digit)
         /\ m.eol = <<LF>> => h.value # <<>>
         /\ h.name = ContentLength => Strtol(h.value) = Len(Content(m))
         /\ h.name # TransferEncoding
    /\ IF m.role = "request" THEN m.start[1] \in Methods /\ m.start[3] \in Versions
       ELSE m.start[1] \in Versions
    /\ ~ m.chunked /\ m.trailer = <<>> /\ m.held <= Len(Render(m))
    /\ Content(m) # <<>> =>
         /\ m.role = "request" => m.start[1] # <<"HEA", "D">>
         /\ \E i \in DOMAIN m.headers : m.headers[i].name = ContentLength
    /\ m \notin CutLastLine

\* Whether there is a message under way and it is one that HTTP allows.
Words(fields) == {f.name : f \in ToSet(fields)} \cup {f.value : f \in ToSet(fields)}
WellFormed(m) ==
    /\ \A w \in ToSet(m.start) \cup Words(m.headers) \cup Words(m.trailer) :
         ToSet(w) \subseteq Piece \cup ToSet(Digit)
    /\ \A w \in ToSet(m.start) \cup {f.name : f \in ToSet(m.headers)} : w # <<>>
    /\ m.start[IF m.role = "request" THEN 3 ELSE 1] \in Versions
    /\ m.held = 0
Valid == taken < Len(sent) /\ WellFormed(Present)

Pair(h) == [name |-> Text(h.name), value |-> Text(h.value)]
GetHttpBody == SubSeq(memory, e.body_base_offset + 1, e.body_base_offset + e.content_length)

\* What ParseHttpBuffer has found, however the message was cut, whatever the buffer held
\* before, and wherever it was moved to, is what the peer has sent: the words of the first
\* line, every header, and the content, chunked or not.  Nothing is taken twice, or before
\* it was sent (the messages of the runs have no other message in their content).
MessageAsSent ==
    at = "taken" => taken < Len(sent) /\ (WellFormed(Present) =>
        /\ [k \in DOMAIN e.words |-> Text(e.words[k])] = Present.start
        /\ [k \in DOMAIN e.headers |-> Pair(e.headers[k])] = Present.headers \o Present.trailer
        /\ (IF e.body_base_offset = 0 THEN <<>> ELSE GetHttpBody) = Content(Present))

\* ConnectForwardServer and OnReceivingForward copy the buffer from its base to fill_ptr:
\* for a message that is not chunked these are the bytes the peer has sent, all of them
\* and no others.
RelayedAsSent ==
    at = "taken" /\ Valid /\ ~ Present.chunked =>
        SubSeq(memory, 1, fill_ptr) = Render(Present)

\* A message that HTTP allows is refused only where the buffer begins with what another
\* message has left behind (the CR LF after the last chunk).
RefusedOnlyBehindRest ==
    at = "closed" /\ Valid => At(0) # Present.start[1][1]

\* No cut makes the parser refuse a message (NEED_MORE means that it is not complete).
NeverRefused ==
    at = "closed" /\ Valid => FALSE

\* A message that is sent is taken, or refused, unless its peer gives up: no cut and no
\* size of the buffer leaves ReceiveHttpBuffer and ParseHttpBuffer waiting for more bytes.
EveryMessageTaken ==
    Valid ~> at \in {"taken", "closed", "undefined"} \/ sent = <<>>
=============================================================================
