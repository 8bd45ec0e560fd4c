------------------------------ MODULE HttpServer ------------------------------
(***************************************************************************)
(* muduo::net::HttpServer on one connection: what a client sends arrives   *)
(* in reads of any size, each of which goes through the connection's input *)
(* buffer and onMessage().  The connection is module TcpConnection's; here *)
(* it is connected, or shutting down, or down.                             *)
(***************************************************************************)
EXTENDS HttpContext, TLC

CONSTANTS
    MaxWeight,          \* bound on the lines the client sends, each with its weight
    MaxCells            \* bound on the buffers that BufferIsDeque looks through

ASSUME HttpBoundsAssumption == {MaxWeight, MaxCells} \subseteq Nat

\* What a client may send as a line, before CR and LF.  So that there may be many of the
\* lines that make the shortest requests, the others weigh more.
CommonLines == {<<"get11">>, <<>>}
VersionLines == {<<"get10">>, <<"keep">>}
OddLines == {<<"lost11">>, <<"badVersion">>, <<"badMethod">>, <<"close">>, <<"host">>, <<"plain">>,
             <<CR>>, <<"close", CR>>}
Lines == CommonLines \union VersionLines \union OddLines

Weight(line) == IF line \in CommonLines THEN 1 ELSE IF line \in VersionLines THEN 2 ELSE 3

VARIABLES
    weight,             \* of the lines that the client sent
    wire,               \* bytes on their way to the server
    received,           \* history: bytes read by the server
    input,              \* inputBuffer_
    context,            \* the HttpContext in the connection's context_
    state,              \* state_: "kConnected", "kDisconnecting", "kDisconnected"
    answers,            \* history: responses the connection accepted
    due,                \* history: responses due if each read that finds a whole request
                        \* unanswered answers the first of them
    failed              \* history: assertions that failed

vars == <<weight, wire, received, input, context, state, answers, due, failed>>

Init ==
    /\ weight = 0 /\ wire = <<>> /\ received = <<>>
    /\ input = NewBuffer(kInitialSize)
    /\ context = NewContext
    /\ state = "kConnected"
    /\ answers = <<>> /\ due = 0 /\ failed = {}

TypeOK ==
    /\ weight \in 0..MaxWeight
    /\ {wire, received} \subseteq Seq(Pieces \union {CR, LF})
    /\ WellFormed(input)
    /\ context.state \in {"kExpectRequestLine", "kExpectHeaders"}
    /\ context.request.method \in {"kInvalid", "kGet"}
    /\ context.request.version \in {"kUnknown", "kHttp10", "kHttp11"}
    /\ context.request.connection \in {"", "close", "Keep-Alive"}
    /\ state \in {"kConnected", "kDisconnecting", "kDisconnected"}
    /\ \A i \in DOMAIN answers : answers[i].status \in {200, 400, 404}
    /\ due \in Nat
    /\ failed \subseteq {"setMethod"}

-----------------------------------------------------------------------------
(* A reference for the answers: cut the whole stream into lines, and the   *)
(* lines into requests.                                                    *)

\* The whole lines of a stream: what lies between two consecutive ends of line.
WholeLines(stream) ==
    LET ends == {i \in 1..(Len(stream) - 1) : stream[i] = CR /\ stream[i + 1] = LF}
        start(i) == CHOOSE k \in {0} \union {j + 1 : j \in ends} :
                        k < i /\ \A j \in ends : j < i => j + 1 <= k
    IN  [n \in 1..Cardinality(ends) |->
            LET i == CHOOSE i \in ends : Cardinality({j \in ends : j < i}) = n - 1
            IN  SubSeq(stream, start(i) + 1, i - 1)]

\* The lines that can be a header's, up to the first that cannot, or all of them.
HeaderLength(ls) ==
    LET others == {i \in DOMAIN ls : ~HasColon(ls[i])}
    IN  IF others = {} THEN Len(ls) ELSE SmallestOrNull(others) - 1

\* What the last Connection line among `headers' says.
ConnectionSaid(headers) ==
    LET said == {i \in DOMAIN headers : headers[i][1] \in {"close", "keep"}}
    IN  IF said = {} THEN "nothing"
        ELSE headers[CHOOSE i \in said : \A j \in said : j <= i][1]

Goes(line, headers) ==
    \/ line = <<"lost11">>
    \/ ConnectionSaid(headers) = "close"
    \/ line = <<"get10">> /\ ConnectionSaid(headers) # "keep"

\* A request line that is no request is answered 400 and is the last thing answered;
\* so is a request after which the connection closes.
RECURSIVE Reference(_)
Reference(ls) ==
    IF ls = <<>> THEN <<>>
    ELSE IF Head(ls) \notin {<<"get11">>, <<"get10">>, <<"lost11">>}
    THEN <<Response(400, TRUE)>>
    ELSE LET n       == HeaderLength(Tail(ls))
             goes    == Goes(Head(ls), SubSeq(ls, 2, n + 1))
             status  == IF Head(ls) = <<"lost11">> THEN 404 ELSE 200
         IN  IF n + 2 > Len(ls) THEN <<>>
             ELSE <<Response(status, goes)>>
                  \o (IF goes THEN <<>> ELSE Reference(SubSeq(ls, n + 3, Len(ls))))

Owed(stream) == Reference(WholeLines(stream))

-----------------------------------------------------------------------------
(* The client.                                                             *)

ClientSends(line) ==
    /\ state # "kDisconnected"
    /\ weight + Weight(line) <= MaxWeight
    /\ weight' = weight + Weight(line)
    /\ wire' = wire \o line \o <<CR, LF>>
    /\ UNCHANGED <<received, input, context, state, answers, due, failed>>

-----------------------------------------------------------------------------
(* The server.                                                             *)

\* TcpConnection::send() and shutdown(): nothing unless kConnected.
Sent(response) == IF state = "kConnected" THEN Append(answers, response) ELSE answers
ShutDown == IF state = "kConnected" THEN "kDisconnecting" ELSE state

\* The application's callback, as the one of the test: it answers what it does not
\* know with 404, and closes.
HttpCallback(request, response) ==
    IF request.path = "/" THEN [response EXCEPT !.status = 200]
    ELSE [response EXCEPT !.status = 404, !.closeConnection = TRUE]

\* Whether the connection is to be closed after the response, in onRequest().
Closes(request) ==
    \/ request.connection = "close"
    \/ request.version = "kHttp10" /\ request.connection # "Keep-Alive"

\* onRequest(): the response goes through a buffer of its own; what is sent is read
\* back from it.
OnRequest(request) ==
    LET response == HttpCallback(request, Response(0, Closes(request)))
        buffer   == AppendToBuffer(response, NewBuffer(kInitialSize))
        text     == Readable(buffer)
    IN  /\ answers' = Sent(Response(text[1], text[2] = "Connection: close"))
        /\ state' = IF response.closeConnection THEN ShutDown ELSE state

\* onMessage() on what is in the buffer after a read.
OnMessage(buffer) ==
    LET p == ParseRequest(context, buffer) IN
    /\ input' = p.buffer
    /\ failed' = failed \union p.failed
    /\ IF ~p.ok
       THEN /\ answers' = Sent(Response(400, TRUE))
            /\ state' = ShutDown
            /\ context' = p.context
       ELSE IF p.context.state = "kGotAll"
       THEN /\ OnRequest(p.context.request)
            /\ context' = NewContext
       ELSE context' = p.context /\ UNCHANGED <<answers, state>>

\* TcpConnection::handleRead() with data.
Receive(n) ==
    LET bytes == SubSeq(wire, 1, n) IN
    /\ state # "kDisconnected"
    /\ failed = {}
    /\ n <= ReadLimit(input)
    /\ OnMessage(ReadFd(input, bytes))
    /\ wire' = SubSeq(wire, n + 1, Len(wire))
    /\ received' = received \o bytes
    /\ due' = IF Len(Owed(received')) > due THEN due + 1 ELSE due
    /\ UNCHANGED weight

\* handleRead() reading 0: the client has closed.
PeerCloses ==
    /\ state # "kDisconnected"
    /\ failed = {}
    /\ wire = <<>>
    /\ state' = "kDisconnected"
    /\ UNCHANGED <<weight, wire, received, input, context, answers, due, failed>>

Next ==
    \/ \E line \in Lines : ClientSends(line)
    \/ \E n \in 1..Len(wire) : Receive(n)
    \/ PeerCloses

Spec == Init /\ [][Next]_vars

-----------------------------------------------------------------------------
(* Properties.                                                             *)

\* However the stream is cut into reads, the responses are those that a parse of
\* the whole stream calls for, in order, with the right status and the right promise
\* to close; nothing is answered after a response that closes, and the write side
\* is shut exactly when one has.
InOrderAndCut ==
    /\ IsPrefix(answers, Owed(received))
    /\ state # "kDisconnected" =>
         (state = "kDisconnecting" <=> \E i \in DOMAIN answers : answers[i].closeConnection)

\* onMessage() parses one request per read, no less and no more: a request is answered by
\* the read that completes it, or if others wait before it by that many reads more.
OnePerRead == Len(answers) = due

\* setMethod()'s assertion holds until a request line was refused: the bad line stays
\* in the buffer with its method in the request, and is parsed again on more input.
AssertionHolds == failed # {} => state # "kConnected"

\* The answers are right in any case, in states of the right types.
AnswersRight == TypeOK /\ InOrderAndCut /\ OnePerRead /\ AssertionHolds

\* What a call does to the readable bytes is what it does to a plain sequence.
IsDeque(b) ==
    LET r == Readable(b) IN
    /\ \A n \in 0..3 :
        LET data == SubSeq(<<"x", "y", "z">>, 1, n) IN
        /\ Readable(AppendBytes(b, data)) = r \o data
        /\ n <= PrependableBytes(b) => Readable(PrependBytes(b, data)) = data \o r
        /\ n <= ReadLimit(b) => Readable(ReadFd(b, data)) = r \o data
        /\ Readable(Shrink(b, n)) = r /\ WritableBytes(Shrink(b, n)) >= n
        /\ WritableBytes(EnsureWritableBytes(b, n)) >= n
    /\ \A n \in 0..Len(r) :
        /\ Readable(Retrieve(b, n)) = SubSeq(r, n + 1, Len(r))
        /\ Readable(Unwrite(b, n)) = SubSeq(r, 1, Len(r) - n)
        /\ RetrieveAsString(b, n).result = SubSeq(r, 1, n)

\* The buffers that one call leads to.
After(b) ==
    {Retrieve(b, n) : n \in 0..ReadableBytes(b)} \union {Unwrite(b, n) : n \in 0..ReadableBytes(b)}
    \union {PrependBytes(b, SubSeq(<<"p", "q", "r">>, 1, n)) : n \in 0..Min({3, PrependableBytes(b)})}
    \union {AppendBytes(b, SubSeq(<<"a", "b", "c">>, 1, n)) : n \in 0..3}
    \union {Shrink(b, n) : n \in 0..2}

\* All buffers of up to MaxCells bytes; their contents tell every cell from the others.
SmallBuffers ==
    {b \in [cells : {[i \in 1..n |-> ToString(i)] : n \in kCheapPrepend..MaxCells},
            reader : 0..MaxCells, writer : 0..MaxCells] : WellFormed(b)}

SmallBuffersAreDeques ==
    \A b \in SmallBuffers : IsDeque(b) /\ \A c \in After(b) : WellFormed(c) /\ IsDeque(c)

\* The integers of every size come back as they were put in, negative ones too, at
\* either end of the buffer.
IntsComeBack ==
    \A size \in {1, 2, 4} : \A x \in (-(Base ^ size \div 2))..(Base ^ size \div 2 - 1) :
        LET room == AppendInt(AppendInt(NewBuffer(kInitialSize), 0, 4), x, size)
            back == Retrieve(room, 4)
        IN  /\ ReadInt(back, size).result = x
            /\ ReadableBytes(ReadInt(back, size).buffer) = 0
            /\ PeekInt(PrependInt(Retrieve(room, size), x, size), size) = x

\* The buffer is a queue of bytes that one can also push back into and cut off, for
\* every order of calls: no byte lost, doubled or moved by makeSpace(), by readFd()'s
\* two parts or by shrink(), and the indices stay in order.
BufferIsDeque == IsDeque(input) /\ SmallBuffersAreDeques /\ IntsComeBack

=============================================================================
