----------------------------- MODULE HttpContext -----------------------------
(***************************************************************************)
(* muduo::net::HttpContext, HttpRequest and HttpResponse: the parser that  *)
(* is fed from a Buffer, and the response that is put into one.            *)
(*                                                                         *)
(* The text of a line is a sequence of pieces, one for what is normally in *)
(* it (see Pieces); CR and LF are bytes of their own, since a line may be  *)
(* cut, and stray ones may come, anywhere.                                 *)
(***************************************************************************)
EXTENDS Buffer

\* Request lines: good ones of both versions, one for a path the application does
\* not know, one with a bad version, one with a bad method.  Header lines: the two
\* values of Connection that matter, another header, a line without a colon.
RequestLines == {"get11", "get10", "lost11", "badVersion", "badMethod"}
HeaderLines == {"close", "keep", "host", "plain"}
Pieces == RequestLines \union HeaderLines

Request(method, version, path, connection) ==
    [method |-> method, version |-> version, path |-> path, connection |-> connection]

\* HttpRequest(); no header Connection is the empty string in getHeader().
NewRequest == Request("kInvalid", "kUnknown", "", "")

\* HttpContext(), reset()
NewContext == [state |-> "kExpectRequestLine", request |-> NewRequest]

-----------------------------------------------------------------------------
(* Lines.                                                                  *)

\* Every piece has a blank in it.
HasBlank(line) == Range(line) \cap Pieces # {}

\* setMethod() of the text before the first blank.
Method(line) ==
    IF line # <<>> /\ Head(line) \in RequestLines \ {"badMethod"} THEN "kGet" ELSE "kInvalid"

\* The path is set before the version is looked at; a stray byte behind the version
\* makes it longer than HTTP/1.x.
Path(line) == IF Head(line) = "lost11" THEN "/lost" ELSE "/"

Version(line) ==
    IF Len(line) > 1 \/ Head(line) = "badVersion" THEN "kUnknown"
    ELSE IF Head(line) = "get10" THEN "kHttp10" ELSE "kHttp11"

\* processRequestLine(): what it leaves in the request; it succeeds if a version is set.
ProcessRequestLine(request, line) ==
    IF ~HasBlank(line) THEN request
    ELSE IF Method(line) = "kInvalid" THEN [request EXCEPT !.method = "kInvalid"]
    ELSE [request EXCEPT !.method = Method(line), !.path = Path(line), !.version = Version(line)]

Succeeds(line) == Method(line) # "kInvalid" /\ Version(line) # "kUnknown"

HasColon(line) == Range(line) \cap {"close", "keep", "host"} # {}

\* addHeader(): blanks, CR and LF among them, are cut off behind the value, not
\* before the field.  A later Connection replaces an earlier one.
AddHeader(request, line) ==
    IF Head(line) \in {"close", "keep"} /\ Range(Tail(line)) \subseteq {CR, LF}
    THEN [request EXCEPT !.connection = IF Head(line) = "close" THEN "close" ELSE "Keep-Alive"]
    ELSE request

-----------------------------------------------------------------------------
(* The parser.                                                             *)

Parsed(ok, context, buffer, failed) ==
    [ok |-> ok, context |-> context, buffer |-> buffer, failed |-> failed]

MutEndKeepsLine(context, buffer, rest) ==
    Parsed(TRUE, [context EXCEPT !.state = "kGotAll"], buffer, {})

\* The end of the header, which is a line without a colon: the loop ends with the
\* line retrieved.
EndOfHeader(context, buffer, rest) ==
    Parsed(TRUE, [context EXCEPT !.state = "kGotAll"], rest, {})

\* A bad request line is left in the buffer, and its method in the request.
BadRequestLine(context, buffer, line, failed) ==
    Parsed(FALSE, [context EXCEPT !.request = ProcessRequestLine(@, line)], buffer, failed)

\* parseRequest(): line by line as long as there is a whole one.  setMethod() asserts
\* that the method was not set before.
RECURSIVE ParseRequest(_, _)
ParseRequest(context, buffer) ==
    LET crlf   == FindCRLF(buffer, 1)
        line   == SubSeq(Readable(buffer), 1, crlf - 1)
        rest   == RetrieveUntil(buffer, crlf + 2)
        failed == IF HasBlank(line) /\ context.request.method # "kInvalid" THEN {"setMethod"} ELSE {}
    IN
    IF crlf = 0 THEN Parsed(TRUE, context, buffer, {})
    ELSE IF context.state = "kExpectRequestLine"
    THEN IF ~Succeeds(line) THEN BadRequestLine(context, buffer, line, failed)
         ELSE LET request == ProcessRequestLine(context.request, line)
                  p == ParseRequest([state |-> "kExpectHeaders", request |-> request], rest)
              IN  [p EXCEPT !.failed = @ \union failed]
    ELSE IF HasColon(line)
         THEN ParseRequest([context EXCEPT !.request = AddHeader(@, line)], rest)
         ELSE EndOfHeader(context, buffer, rest)

-----------------------------------------------------------------------------
(* The response.                                                           *)

Response(status, close) == [status |-> status, closeConnection |-> close]

\* appendToBuffer(), piece by piece: the status line, Connection and Content-Length,
\* the empty line, the body.
ResponseLines(response) ==
    <<response.status>>
    \o (IF response.closeConnection THEN <<"Connection: close">>
        ELSE <<"Content-Length", "Connection: Keep-Alive">>)
    \o <<"", "body">>

AppendToBuffer(response, buffer) ==
    FoldLeft(LAMBDA b, piece : AppendBytes(b, <<piece>>), buffer, ResponseLines(response))

=============================================================================
