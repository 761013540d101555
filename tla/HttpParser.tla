----------------------------- MODULE HttpParser -----------------------------
(***************************************************************************)
(* net::HttpParser and net::HttpResponseParser, the incremental parsers,   *)
(* and the conversions back: HttpResponse::serialize() and the request     *)
(* that LoadBalancer::proxyRequest() forwards.                             *)
(*                                                                         *)
(* A message is a sequence of symbols: CR, LF, and words (a word of a      *)
(* first line, a header name with its colon, a word of a header value, a   *)
(* byte of a body).  It reaches consume() in chunks cut anywhere between   *)
(* two symbols, CR and LF included.  Every turn of process() is a step;    *)
(* one thread at a time has the parser, so nobody sees them apart.         *)
(***************************************************************************)
EXTENDS Integers, Sequences, SequencesExt, FiniteSetsExt

CONSTANTS
    RequestLines, StatusLines,  \* first lines that are tried, without their CRLF
    HeaderLines,                \* header lines that are tried, without their CRLF
    MaxHeaders,                 \* bound: header lines of a message
    Bodies,                     \* what may follow the blank line
    LongMax                     \* where strtol() saturates (2^63 - 1 in the code)

CRLF == <<"CR", "LF">>

\* Where the CRLFs of a buffer are.
LineEnds(buffer) == {i \in 1..(Len(buffer) - 1) : SubSeq(buffer, i, i + 1) = CRLF}

Lines   == RequestLines \cup StatusLines \cup HeaderLines
Symbols == Range(CRLF) \cup UNION {Range(s) : s \in Lines \cup Bodies}

\* A line has no CRLF inside, and an empty header line would be the blank line.
ASSUME LineAssumption ==
    /\ Lines \subseteq Seq(Symbols)
    /\ \A line \in Lines : LineEnds(line) = {}
    /\ <<>> \notin HeaderLines
ASSUME BodyAssumption == Bodies \subseteq Seq(Symbols)
ASSUME LimitAssumption == MaxHeaders \in Nat /\ LongMax \in Nat /\ LongMax >= 200

VARIABLES
    role,    \* "request" (HttpParser) or "response" (HttpResponseParser)
    msg,     \* the message that is arriving
    fed,     \* number of its symbols that consume() has been given
    pc,      \* "between" messages, "wait" for recv(), "process"
    status,  \* what the last consume() returned
    parser   \* the parser object

parserVars == <<role, msg, fed, pc, status, parser>>

Messages(r) ==
    [first   : IF r = "request" THEN RequestLines ELSE StatusLines,
     headers : UNION {[1..n -> HeaderLines] : n \in 0..MaxHeaders},
     body    : Bodies]

NoMessage == [first |-> <<>>, headers |-> <<>>, body |-> <<>>]

\* The message up to the end of its i-th header line, and all of it.
WireTo(m, i) == m.first \o CRLF \o FlattenSeq([j \in 1..i |-> m.headers[j] \o CRLF])
Wire(m) == WireTo(m, Len(m.headers)) \o CRLF \o m.body

\* Member initialisers of the parser and of HttpRequest or HttpResponse.
FreshParser == [state_ |-> "FirstLine", buffer_ |-> <<>>, bodyBytesNeeded_ |-> 0,
                first |-> <<>>, headers |-> <<>>, body |-> <<>>, keepAlive |-> TRUE]

ParserTypeOK ==
    /\ role \in {"request", "response"}
    /\ msg \in Messages(role) \cup {NoMessage}
    /\ fed \in 0..Len(Wire(msg))
    /\ pc \in {"between", "wait", "process"}
    /\ status \in {"NeedMoreData", "Complete", "Error"}
    /\ parser.state_ \in {"FirstLine", "Headers", "Body", "Complete", "Error"}
    /\ parser.bodyBytesNeeded_ \in 0..LongMax
    /\ parser.keepAlive \in BOOLEAN

ParserInit ==
    /\ role \in {"request", "response"}
    /\ msg = NoMessage
    /\ fed = 0
    /\ pc = "between"
    /\ status = "NeedMoreData"
    /\ parser = FreshParser

-----------------------------------------------------------------------------
(* The free functions *)

\* extractLine() looks for the first CRLF of the buffer.
Line(buffer) == SubSeq(buffer, 1, Min(LineEnds(buffer)) - 1)
AfterLine(buffer) == SubSeq(buffer, Min(LineEnds(buffer)) + 2, Len(buffer))

Versions == {"HTTP/1.0", "HTTP/1.1"}

\* The values of strtol() for words that begin with a number.
Numbers == [word \in {"0", "1", "2", "3", "200", "-1", "2x", "9999999999999999999"} |->
              CASE word = "0" -> 0 [] word = "1" -> 1 [] word = "2" -> 2 [] word = "3" -> 3
                [] word = "200" -> 200 [] word = "-1" -> -1 [] word = "2x" -> 2
                [] OTHER -> LongMax]

ParseRequestLine(line) == Len(line) = 3 /\ line[3] \in Versions

\* The reason may be missing, the status must be a number.
ParseStatusLine(line) ==
    Len(line) >= 2 /\ line[1] \in Versions /\ line[2] \in DOMAIN Numbers

ParseFirstLine(line) == IF role = "request" THEN ParseRequestLine(line) ELSE ParseStatusLine(line)

Names == {"Host:", "Connection:", "connection:", "Content-Length:", "content-length:"}

ToLower(name) ==
    CASE name = "Connection:"     -> "connection:"
      [] name = "Content-Length:" -> "content-length:"
      [] OTHER                    -> name

\* trim(): white space is dropped at both ends.
WordsAt(line) == {i \in DOMAIN line : line[i] \notin {"CR", "LF"}}
Trim(value) == IF WordsAt(value) = {} THEN <<>>
               ELSE SubSeq(value, Min(WordsAt(value)), Max(WordsAt(value)))

\* parseGenericHeaderLine(): a colon, and a name before it; name and trimmed value.
ParseHeaderLine(line) == line[1] \in Names
Header(line) == <<line[1]>> \o Trim(Tail(line))

\* findHeader(): the value of the first header with that name, if there is one.
FindHeader(headers, name) ==
    {Tail(headers[i]) : i \in
        {j \in DOMAIN headers :
            /\ ToLower(headers[j][1]) = ToLower(name)
            /\ \A k \in 1..(j - 1) : ToLower(headers[k][1]) # ToLower(name)}}

DeclaredLengths(headers) ==
    {Numbers[v[1]] : v \in {u \in FindHeader(headers, "Content-Length:") :
                                u # <<>> /\ u[1] \in DOMAIN Numbers}}

\* Mutant of ContentLengthFrom: a negative number is not caught.
ContentLengthAsDeclared(headers) ==
    IF DeclaredLengths(headers) = {} THEN 0 ELSE Max(DeclaredLengths(headers))

\* contentLengthFrom(): 0 for no header, for a value that is no number, and for a
\* negative one.
ContentLengthFrom(headers) == Max({0} \cup DeclaredLengths(headers))

ConnectionKeepAlive(headers, version) ==
    LET words == UNION {Range(v) : v \in FindHeader(headers, "Connection:")}
    IN  "close" \notin words /\ ("keep-alive" \in words \/ version = "HTTP/1.1")

\* The version that decides the default; the response parser assumes HTTP/1.1.
Version(p) == IF role = "request" THEN p.first[3] ELSE "HTTP/1.1"

FinalizeHeaders(p) ==
    [p EXCEPT !.bodyBytesNeeded_ = ContentLengthFrom(p.headers),
              !.keepAlive = ConnectionKeepAlive(p.headers, Version(p))]

-----------------------------------------------------------------------------
(* process() *)

\* A turn of process() that goes on with p, or returns.
Continue(p) == pc = "process" /\ parser' = p /\ UNCHANGED <<role, msg, fed, pc, status>>
Return(p, st) ==
    /\ pc = "process"
    /\ parser' = p
    /\ pc' = "wait" /\ status' = st
    /\ UNCHANGED <<role, msg, fed>>

\* extractLine() returned false.
NoLine ==
    /\ parser.state_ \in {"FirstLine", "Headers"}
    /\ LineEnds(parser.buffer_) = {}
    /\ Return(parser, "NeedMoreData")

HaveLine(state) == parser.state_ = state /\ LineEnds(parser.buffer_) # {}

FirstLine ==
    /\ HaveLine("FirstLine")
    /\ LET line == Line(parser.buffer_)
       IN  IF ParseFirstLine(line)
           THEN Continue([parser EXCEPT !.state_ = "Headers", !.first = line,
                                        !.buffer_ = AfterLine(parser.buffer_)])
           ELSE Return([parser EXCEPT !.state_ = "Error"], "Error")

HeaderLine ==
    /\ HaveLine("Headers")
    /\ LET line == Line(parser.buffer_)
       IN  /\ line # <<>>
           /\ IF ParseHeaderLine(line)
              THEN Continue([parser EXCEPT !.headers = Append(@, Header(line)),
                                           !.buffer_ = AfterLine(parser.buffer_)])
              ELSE Return([parser EXCEPT !.state_ = "Error"], "Error")

BlankLine ==
    /\ HaveLine("Headers")
    /\ Line(parser.buffer_) = <<>>
    /\ Continue([FinalizeHeaders(parser) EXCEPT !.state_ = "Body",
                                                !.buffer_ = AfterLine(parser.buffer_)])

BodyIs(body) ==
    /\ parser.state_ = "Body"
    /\ LET n == parser.bodyBytesNeeded_
       IN  IF Len(parser.buffer_) < n
           THEN Return(parser, "NeedMoreData")
           ELSE Return([parser EXCEPT !.state_ = "Complete", !.body = body,
                                      !.buffer_ = SubSeq(@, n + 1, Len(@))], "Complete")

\* Mutant of TakeBody: all that has arrived is the body.
TakeBuffer == BodyIs(parser.buffer_)

TakeBody == BodyIs(SubSeq(parser.buffer_, 1, parser.bodyBytesNeeded_))

Process == NoLine \/ FirstLine \/ HeaderLine \/ BlankLine \/ TakeBody

-----------------------------------------------------------------------------
(* The caller: handleConnectionEvent(), proxyRequest() or probeOnce() *)

Begin ==
    /\ pc = "between"
    /\ \E m \in Messages(role) : msg' = m
    /\ pc' = "wait"
    /\ UNCHANGED <<role, fed, status, parser>>

\* consume() with the next n symbols of the message.
Consume(n) ==
    /\ pc = "wait" /\ status = "NeedMoreData"
    /\ parser' = [parser EXCEPT !.buffer_ = @ \o SubSeq(Wire(msg), fed + 1, fed + n)]
    /\ fed' = fed + n
    /\ pc' = "process"
    /\ UNCHANGED <<role, msg, status>>

Restart(p) ==
    /\ pc = "wait"
    /\ parser' = p
    /\ msg' = NoMessage /\ fed' = 0 /\ status' = "NeedMoreData" /\ pc' = "between"
    /\ UNCHANGED role

Answered == status # "NeedMoreData"

\* Mutant of Reset: buffer_ is not cleared.
ResetKeepsBuffer == Answered /\ Restart([FreshParser EXCEPT !.buffer_ = parser.buffer_])

\* The message is answered and reset() called.  What a client sent ahead of the
\* answer is in buffer_ or still to be received; here it sends no more of it.
Reset == Answered /\ Restart(FreshParser)

\* The peer leaves in the middle of a message, and the parser is destroyed.
Abandon == ~Answered /\ Restart(FreshParser)

ParserNext ==
    \/ Begin
    \/ \E n \in 1..(Len(Wire(msg)) - fed) : Consume(n)
    \/ Process
    \/ Reset
    \/ Abandon

ParserSpec == ParserInit /\ [][ParserNext]_parserVars

-----------------------------------------------------------------------------
(* Back to bytes *)

\* Mutant of ForwardedHeaders: the client's headers go out as they are.
ForwardedUnchanged(headers) == headers

IsConnection(line) == ToLower(line[1]) = "connection:"

\* proxyRequest(): the client's headers, every Connection header made "close", one
\* added where there was none.
ForwardedHeaders(headers) ==
    LET close  == <<"Connection:", "close">>
        copied == [i \in DOMAIN headers |-> IF IsConnection(headers[i]) THEN close ELSE headers[i]]
    IN  IF \E i \in DOMAIN headers : IsConnection(headers[i])
        THEN copied ELSE Append(copied, close)

\* serialize(): Content-Length and Connection are added where they are missing.
SerializedHeaders(headers, body, keepAlive) ==
    LET size == CHOOSE word \in DOMAIN Numbers : Numbers[word] = Len(body)
    IN  headers
          \o (IF FindHeader(headers, "Content-Length:") = {}
              THEN <<<<"Content-Length:", size>>>> ELSE <<>>)
          \o (IF FindHeader(headers, "Connection:") = {}
              THEN <<<<"Connection:", IF keepAlive THEN "keep-alive" ELSE "close">>>> ELSE <<>>)

-----------------------------------------------------------------------------
(* Properties *)

\* Symbols of the message up to the end of its i-th header line, and to the blank line.
LengthTo(m, i) == Len(WireTo(m, i))
HeadLength(m) == LengthTo(m, Len(m.headers)) + 2

SentHeaders(m) == [i \in DOMAIN m.headers |-> Header(m.headers[i])]

\* Where a message is refused: at the end of its first malformed line.
RefusedAt(m) ==
    IF ~ParseFirstLine(m.first) THEN {Len(m.first) + 2}
    ELSE {LengthTo(m, i) : i \in {j \in DOMAIN m.headers : ~ParseHeaderLine(m.headers[j])}}

\* The body length that a message announces, in the first Content-Length header.
AnnouncedLength(m) ==
    LET at == {i \in DOMAIN m.headers : m.headers[i][1] \in {"Content-Length:", "content-length:"}}
        words == WordsAt(m.headers[Min(at)]) \ {1}
        word  == m.headers[Min(at)][Min(words)]
    IN  IF at = {} \/ words = {} \/ word \notin DOMAIN Numbers THEN 0
        ELSE Max({0, Numbers[word]})

\* What consume() returns depends on how many bytes have arrived and neither on how
\* they were cut into chunks nor on the messages before, of which buffer_ holds
\* nothing: Error as soon as the first malformed line is there, Complete as soon as
\* the header and Content-Length bytes of body are, NeedMoreData until then.
StatusMatchesPrefix ==
    /\ Len(parser.buffer_) <= fed
    /\ pc = "wait" =>
          LET refused == \E n \in RefusedAt(msg) : n <= fed
              whole   == HeadLength(msg) + AnnouncedLength(msg) <= fed
          IN  status = IF refused THEN "Error"
                       ELSE IF whole THEN "Complete" ELSE "NeedMoreData"

\* A message that is reported complete is the one that was sent: its first line, its
\* headers in their order, and the body that its length announces.
ParsedIsSent ==
    pc = "wait" /\ status = "Complete" =>
        /\ parser.first = msg.first /\ parser.headers = SentHeaders(msg)
        /\ parser.body = SubSeq(msg.body, 1, AnnouncedLength(msg))

\* A relayed message is framed: what the balancer sends on, to an upstream or to a
\* client, announces by the length rule of this code exactly the body that was received,
\* and an upstream is always asked to close.  A negative or malformed length counts as 0
\* here and is passed on as it is; a peer with another rule is not spoken of.
RelayedIsFramed ==
    pc = "wait" /\ status = "Complete" =>
        LET headers == IF role = "request" THEN ForwardedHeaders(parser.headers)
                       ELSE SerializedHeaders(parser.headers, parser.body, parser.keepAlive)
        IN  /\ ContentLengthFrom(headers) = Len(parser.body)
            /\ role = "request" => ~ConnectionKeepAlive(headers, "HTTP/1.1")

=============================================================================
