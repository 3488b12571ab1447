----------------------------- MODULE HttpServer -----------------------------
(***************************************************************************)
(* One connection of the HTTP server on its I/O loop: HttpServer's         *)
(* callbacks, the parser HttpContext, HttpRequest and HttpResponse (http/),*)
(* over the Buffer that TcpConnection::HandleRead fills.  A line is one    *)
(* unit of text followed by CR and LF; a read brings any number of units,  *)
(* so a request reaches the parser cut at any of them.                     *)
(*                                                                         *)
(* Send() and ShutDown() are called on the loop's own thread and are seen  *)
(* here through what TcpConnection promises: bytes go out in order.        *)
(***************************************************************************)
EXTENDS Buffer, SequencesExt

CONSTANT Scripts  \* what a client may send: sequences of requests

IsSequence(x) == x \in Seq(ToSet(x))

\* A request has its header lines and what follows them, in their order.
ASSUME ScriptsAssumption ==
    \A s \in Scripts :
        /\ IsSequence(s)
        /\ \A i \in DOMAIN s : IsSequence(s[i].headers) /\ IsSequence(s[i].body)

\* A header line has a colon or is text without one, and no body begins with a
\* request line of its own.
ASSUME UnitsAssumption ==
    \A s \in Scripts : \A i \in DOMAIN s :
        /\ \A h \in ToSet(s[i].headers) : h.kind \in {"header", "text"}
        /\ s[i].body # <<>> => s[i].body[1].kind # "request"

\* A client's request, and the units that HttpContext tells apart.  version is
\* given by its length and last character.
RequestUnit(r) == [kind |-> "request", method |-> r.method, path |-> r.path,
                   version |-> r.version]
HeaderUnit(f, v) == [kind |-> "header", field |-> f, value |-> v]
TextUnit == Unit("text")  \* neither a space nor a colon in it

Encode(r) == <<RequestUnit(r)>> \o CRLF
             \o FlattenSeq([i \in DOMAIN r.headers |-> <<r.headers[i]>> \o CRLF])
             \o CRLF \o r.body
Stream(s) == FlattenSeq([i \in DOMAIN s |-> Encode(s[i])])

VARIABLES
    script,          \* the client's requests, fixed from the start
    stream,          \* and the units it sends for them
    http_call_back_, \* the default one or the one of httptest.cc
    state,           \* state_ of the TcpConnection
    context,         \* its context_: nothing, or the HttpContext
    input_buf_,
    pc,              \* where OnMessage() is
    received,        \* history: units read from the socket
    consumed,        \* history: units the parser has passed
    handled,         \* history: the requests given to OnRequest()
    wire,            \* history: units sent to the client
    fin              \* the write side was shut down

httpVars == <<script, stream, http_call_back_, state, context, input_buf_, pc, received,
              consumed, handled, wire, fin>>

\* boost::any without a value.
NoContext == <<>>

NewRequest == [method |-> "INVALID", version |-> "UNKNOWN", path |-> "",
               headers |-> <<>>]
NewContext == [state_ |-> "ExpectRequestLine", request_ |-> NewRequest]

HttpInit ==
    /\ script \in Scripts
    /\ stream = Stream(script)
    /\ http_call_back_ \in {"DefaultHttpCallBack", "OnRequest"}
    /\ state = "CONNECTING"
    /\ context = NoContext
    /\ input_buf_ = NewBuffer
    /\ pc = "idle"
    /\ received = 0
    /\ consumed = 0
    /\ handled = <<>>
    /\ wire = <<>>
    /\ fin = FALSE

-----------------------------------------------------------------------------
(***************************************************************************)
(* Requests and responses.                                                 *)
(***************************************************************************)
\* HttpRequest::set_method: DELETE is stored as GET.
set_method(m) ==
    IF m \in {"GET", "POST", "HEAD", "PUT"} THEN m
    ELSE IF m = "DELETE" THEN "GET" ELSE "INVALID"

\* The version is looked at by its length and its last character only: the
\* strncmp() over 8 characters never finds "HTTP/1." equal.
ParseVersion(v) ==
    IF v.size # 8 THEN "UNKNOWN"
    ELSE CASE v.last = "1" -> "HTTP11"
           [] v.last = "0" -> "HTTP10"
           [] OTHER -> "UNKNOWN"

\* A line is a request line when it is nothing but one.
ParseRequestLine(line) ==
    /\ Len(line) = 1
    /\ line[1].kind = "request"
    /\ set_method(line[1].method) # "INVALID"
    /\ ParseVersion(line[1].version) # "UNKNOWN"

\* request_ after ParseRequestLine(): it is filled as far as the line goes, the
\* method when there is a space, the rest after a method that is known.
ParsedRequest(req, line) ==
    CASE {u \in ToSet(line) : u.kind # "text"} = {} -> req
      [] Len(line) > 1 \/ line[1].kind # "request" -> [req EXCEPT !.method = "INVALID"]
      [] OTHER ->
            LET u == line[1] m == set_method(u.method)
            IN IF m = "INVALID" THEN [req EXCEPT !.method = m]
               ELSE [req EXCEPT !.method = m, !.path = u.path,
                        !.version = IF u.version.size = 8 THEN ParseVersion(u.version)
                                    ELSE @]

\* Faulty variant of AddHeader: map::insert, which keeps the first value.
AddHeaderOnce(headers, h) == headers @@ (h.field :> h.value)

\* headers_[field] = value; the spaces around the value are not modelled.
AddHeader(headers, h) ==
    [f \in {h.field} \cup DOMAIN headers |-> IF f = h.field THEN h.value ELSE headers[f]]

GetHeader(req, field) ==
    IF field \in DOMAIN req.headers THEN req.headers[field] ELSE ""

\* HttpResponse as the two callbacks fill it.
Response(code, close, headers, body) ==
    [status_code_ |-> code, close_connection_ |-> close, headers_ |-> headers,
     body_ |-> body]
NotFound == Response("404 Not Found", TRUE, <<>>, <<>>)

Server == <<"Server", "Yxalp">>
ContentType(t) == <<"Content-Type", t>>

CallBack(req, close) ==
    IF http_call_back_ = "DefaultHttpCallBack" THEN NotFound
    ELSE CASE req.path = "/" ->
                Response("200 OK", close, <<ContentType("text/html"), Server>>,
                         <<Unit("page")>>)
           [] req.path = "/favicon.ico" ->
                Response("200 OK", close, <<ContentType("image/png")>>,
                         [i \in 1..(2 * kDefaultSize) |-> Unit("icon")])
           [] req.path = "/hello" ->
                Response("200 OK", close, <<ContentType("text/plain"), Server>>,
                         <<Unit("hello"), Unit("world")>>)
           [] OTHER -> NotFound

\* Does the request ask for the connection to be closed after the answer?
AsksClose(req) ==
    \/ GetHeader(req, "Connection") = "close"
    \/ req.version = "HTTP10" /\ GetHeader(req, "Connection") # "Keep-Alive"

\* The pieces that HttpResponse::AppendToBuffer appends, one by one.
Pieces(resp) ==
    << <<Unit("HTTP/1.1")>>, <<Unit(resp.status_code_)>>, CRLF >>
    \o (IF resp.close_connection_
        THEN << <<Unit("Connection: close")>> \o CRLF >>
        ELSE << <<[kind |-> "Content-Length", size |-> Len(resp.body_)]>> \o CRLF,
                <<Unit("Connection: Keep-Alive")>> \o CRLF >>)
    \o FlattenSeq([i \in DOMAIN resp.headers_ |->
                     << <<Unit(resp.headers_[i][1])>>, <<Unit(": ")>>,
                        <<Unit(resp.headers_[i][2])>>, CRLF >>])
    \o << CRLF, resp.body_ >>

AppendToBuffer(resp, b) ==
    LET pieces == Pieces(resp)
        \* The buffer after i pieces, as a singleton: TLC then evaluates the
        \* one before it only once.
        after[i \in 0..Len(pieces)] ==
            IF i = 0 THEN {b}
            ELSE {BufferAppend(p, pieces[i]) : p \in after[i - 1]}
    IN CHOOSE p \in after[Len(pieces)] : TRUE

BadRequest == <<Unit("HTTP/1.1 400 Bad Request")>> \o CRLF \o CRLF

-----------------------------------------------------------------------------
(***************************************************************************)
(* The connection's events.                                                *)
(***************************************************************************)
\* set_connection_established() and HttpServer::OnConnection.
OnConnection ==
    /\ state = "CONNECTING"
    /\ state' = "CONNECTED"
    /\ context' = NewContext
    /\ UNCHANGED <<script, stream, http_call_back_, input_buf_, pc, received, consumed,
                   handled, wire, fin>>

\* HandleRead() with n > 0 calls OnMessage(), which calls ParseRequest().
HandleRead(n) ==
    /\ state \in {"CONNECTED", "DISCONNECTING"} /\ pc = "idle"
    /\ n <= ReadRoom(input_buf_)
    /\ input_buf_' = readFd(input_buf_,
                            SubSeq(stream, received + 1, received + n))
    /\ received' = received + n
    /\ pc' = "parse"
    /\ UNCHANGED <<script, stream, http_call_back_, state, context, consumed, handled,
                   wire, fin>>

\* HandleRead() with n = 0: HandleClose() up to set_connection_destroyed(),
\* where OnConnection() does nothing for a connection that is over.
HandleClose ==
    /\ state \in {"CONNECTED", "DISCONNECTING"} /\ pc = "idle"
    /\ state' = "DISCONNECTED"
    /\ UNCHANGED <<script, stream, http_call_back_, context, input_buf_, pc, received,
                   consumed, handled, wire, fin>>

\* Faulty variant of SendAndShutDown: answers after the connection was closed.
SendAlways(data, close) ==
    /\ wire' = wire \o data
    /\ state' = IF close THEN "DISCONNECTING" ELSE state
    /\ fin' = (fin \/ close)

\* TcpConnection::Send followed by ShutDown when close holds.  Both do nothing
\* on a connection that is no longer CONNECTED.
SendAndShutDown(data, close) ==
    IF state = "CONNECTED"
    THEN /\ wire' = wire \o data
         /\ state' = IF close THEN "DISCONNECTING" ELSE state
         /\ fin' = close
    ELSE UNCHANGED <<wire, state, fin>>

-----------------------------------------------------------------------------
(***************************************************************************)
(* HttpContext::ParseRequest: one action per turn of its loop.  A turn     *)
(* among the headers without a CRLF in the buffer leaves everything as it  *)
(* is (flag_end stays false): it is a stuttering step, and the loop never  *)
(* ends, because nothing reads the socket while it runs.                   *)
(***************************************************************************)
Turn(expected) == pc = "parse" /\ context.state_ = expected

\* buf->move_read_index_until(crlf + 2)
PassLine ==
    LET len == findCRLF(input_buf_) + 2 - input_buf_.read_index_
    IN /\ input_buf_' = move_read_index(input_buf_, len)
       /\ consumed' = consumed + Len(Line(input_buf_)) + 2

RequestLine ==
    /\ Turn("ExpectRequestLine") /\ HasCRLF(input_buf_)
    /\ ParseRequestLine(Line(input_buf_))
    /\ context' = [context EXCEPT
            !.state_ = "ExpectHeaders",
            !.request_ = ParsedRequest(@, Line(input_buf_))]
    /\ PassLine
    /\ UNCHANGED <<script, stream, http_call_back_, state, pc, received, handled, wire,
                   fin>>

\* The line stays in the buffer, and the next message fails on it again.
BadRequestLine ==
    /\ Turn("ExpectRequestLine") /\ HasCRLF(input_buf_)
    /\ ~ParseRequestLine(Line(input_buf_))
    /\ SendAndShutDown(BadRequest, TRUE)
    /\ context' = [context EXCEPT !.request_ = ParsedRequest(@, Line(input_buf_))]
    /\ pc' = "idle"
    /\ UNCHANGED <<script, stream, http_call_back_, input_buf_, received, consumed,
                   handled>>

\* Faulty variant of NoRequestLine: goes on without a whole line, as among the
\* headers.
NoRequestLineSpins ==
    /\ Turn("ExpectRequestLine") /\ ~HasCRLF(input_buf_)
    /\ UNCHANGED httpVars

NoRequestLine ==
    /\ Turn("ExpectRequestLine") /\ ~HasCRLF(input_buf_)
    /\ pc' = "idle"
    /\ UNCHANGED <<script, stream, http_call_back_, state, context, input_buf_, received,
                   consumed, handled, wire, fin>>

IsHeader(line) == Len(line) = 1 /\ line[1].kind = "header"

HeaderLine ==
    /\ Turn("ExpectHeaders") /\ HasCRLF(input_buf_)
    /\ IsHeader(Line(input_buf_))
    /\ context' = [context EXCEPT
            !.request_.headers = AddHeader(@, Line(input_buf_)[1])]
    /\ PassLine
    /\ UNCHANGED <<script, stream, http_call_back_, state, pc, received, handled, wire,
                   fin>>

\* A line without a colon, empty or not, ends the request.
LastLine ==
    /\ Turn("ExpectHeaders") /\ HasCRLF(input_buf_)
    /\ ~IsHeader(Line(input_buf_))
    /\ context' = [context EXCEPT !.state_ = "Done"]
    /\ PassLine
    /\ pc' = "done"
    /\ UNCHANGED <<script, stream, http_call_back_, state, received, handled, wire, fin>>

\* Faulty variant of Reset: forgets the parser's state.
ResetNothing(ctx) == ctx

\* HttpContext::Reset leaves request_ as it is, with its headers.
Reset(ctx) == [ctx EXCEPT !.state_ = "ExpectRequestLine"]

\* The rest of OnMessage() for a request that is complete: OnRequest(), with
\* the answer built in a Buffer of its own, and Reset().
OnRequest ==
    /\ pc = "done"
    /\ LET req == context.request_
           resp == CallBack(req, AsksClose(req))
       IN /\ SendAndShutDown(Payload(AppendToBuffer(resp, NewBuffer)),
                             resp.close_connection_)
          /\ handled' = Append(handled, req)
    /\ context' = Reset(context)
    /\ pc' = "idle"
    /\ UNCHANGED <<script, stream, http_call_back_, input_buf_, received, consumed>>

ParseStep == \/ RequestLine \/ BadRequestLine \/ NoRequestLine \/ HeaderLine
             \/ LastLine \/ OnRequest

HttpNext ==
    \/ OnConnection
    \/ \E n \in 1..(Len(stream) - received) : HandleRead(n)
    \/ HandleClose
    \/ ParseStep

\* The loop thread runs a callback it has begun; clients may stop at any time.
HttpSpec == HttpInit /\ [][HttpNext]_httpVars /\ WF_httpVars(ParseStep)

-----------------------------------------------------------------------------
(***************************************************************************)
(* What the client's bytes mean, independent of how they were cut.         *)
(***************************************************************************)
\* The header lines that belong to r: those before the first line that has no
\* colon.
OwnHeaders(r) ==
    LET ends == {i \in DOMAIN r.headers : r.headers[i].kind # "header"}
    IN IF ends = {} THEN r.headers ELSE SubSeq(r.headers, 1, Min(ends) - 1)

GoodLine(r) == ParseRequestLine(<<RequestUnit(r)>>)
\* Nothing of r is left for the parser to take for the next request line.
Proper(r) == OwnHeaders(r) = r.headers /\ r.body = <<>>

\* Number of requests before the first line that is refused.
Answerable ==
    Max({k \in 0..Len(script) :
            \A i \in 1..k : GoodLine(script[i]) /\ (i < k => Proper(script[i]))})

\* What the header lines hs say: of each field, the last value.
HeaderMap(hs) ==
    [f \in {h.field : h \in ToSet(hs)} |->
        hs[Max({k \in DOMAIN hs : hs[k].field = f})].value]

\* The header lines of the first i requests of the connection.
OwnLines(i) == FlattenSeq([j \in 1..i |-> OwnHeaders(script[j])])

\* The units of the stream in which the i-th request line, or the whole i-th
\* request, is complete.
LineEnd(i) == Len(Stream(SubSeq(script, 1, i - 1))) + 3
HeadEnd(i) == LineEnd(i) + 3 * Len(OwnHeaders(script[i]))
              + IF OwnHeaders(script[i]) = script[i].headers THEN 2 ELSE 3

\* The client's data was cut inside the headers of the request that is next.
CutInHeaders ==
    LET i == Len(handled) + 1
    IN i <= Answerable /\ LineEnd(i) <= received /\ received < HeadEnd(i)

-----------------------------------------------------------------------------
\* Types; a message is parsed with the context that OnConnection() made, and
\* between messages the parser stands before a request line.  The latter rests
\* on ParseRequest() not returning when it has only part of the headers
\* (httpcontext.cc:77, see ParseEnds): a parser that returns there has to allow
\* ExpectHeaders between messages.
HttpTypeOK ==
    /\ state \in {"CONNECTING", "CONNECTED", "DISCONNECTING", "DISCONNECTED"}
    /\ pc \in {"idle", "parse", "done"}
    /\ received \in 0..Len(stream)
    /\ IF state = "CONNECTING" THEN context = NoContext
       ELSE context.state_ \in {"ExpectRequestLine"}
                \cup (IF pc = "parse" THEN {"ExpectHeaders"} ELSE {})
                \cup (IF pc = "done" THEN {"Done"} ELSE {})

\* The input buffer holds exactly what was received and not yet parsed,
\* however reads, growth and moves inside the vector alternate.
PayloadKept ==
    /\ IsBuffer(input_buf_)
    /\ Payload(input_buf_) = SubSeq(stream, consumed + 1, received)

\* Whatever the cuts, the callback sees the client's requests in order and
\* complete, up to the first line that is refused, each with the headers it
\* sent.  It is not claimed that these are all the headers it sees, although
\* httpserver.cc:65 says that the context is reset for the next request:
\* Reset() (httpcontext.h:31) throws its new request away, and fields that an
\* earlier request of the connection sent may still be there.  Only those.
RequestsInOrder ==
    /\ Len(handled) <= Answerable
    /\ \A i \in DOMAIN handled :
        LET own == HeaderMap(OwnHeaders(script[i]))
            seen == handled[i].headers
        IN /\ handled[i].method = set_method(script[i].method)
           /\ handled[i].version = ParseVersion(script[i].version)
           /\ handled[i].path = script[i].path
           /\ \A f \in DOMAIN own : f \in DOMAIN seen /\ seen[f] = own[f]
           /\ DOMAIN seen \subseteq DOMAIN own \cup DOMAIN HeaderMap(OwnLines(i - 1))

\* The answers on the wire are those of the requests handled, in order and
\* whole; nothing follows the first that closes the connection, and the 400 of
\* a refused line is sent once.
WireIsAnswers ==
    LET resp(i) == CallBack(handled[i], AsksClose(handled[i]))
        closing == {i \in DOMAIN handled : resp(i).close_connection_}
        last == IF closing = {} THEN Len(handled) ELSE Min(closing)
        answers == FlattenSeq([i \in 1..last |-> FlattenSeq(Pieces(resp(i)))])
    IN /\ \/ wire = answers
          \/ closing = {} /\ wire = answers \o BadRequest
       /\ fin <=> (closing # {} \/ wire # answers)

\* OnMessage() returns, unless the client's data was cut inside the headers of
\* a request: then the loop of ParseRequest() never ends.
ParseEnds == (pc # "idle") ~> (pc = "idle" \/ CutInHeaders)
=============================================================================
