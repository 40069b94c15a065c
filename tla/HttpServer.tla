----------------------------- MODULE HttpServer -----------------------------
(***************************************************************************)
(* fm::net::http::HttpServer (src/net/http/HttpServer.cpp) and HttpContext *)
(* (src/net/http/HttpContext.cpp): the I/O thread of a connection parses   *)
(* what it has read and submits each complete request to the ThreadPool,   *)
(* whose task runs the user's callback and sends the response.             *)
(*                                                                         *)
(* A connection's stream is a sequence of lines; half a line is its text   *)
(* without the CRLF, which no step of the parser can tell from a part of   *)
(* the text.  A read delivers any number of half lines.  A line is what    *)
(* the parser makes of it: a request line with its version, a header with  *)
(* a colon (Connection's values told apart), a line without a colon, the   *)
(* empty one among them, or anything else.  Bodies are not parsed: they    *)
(* are lines like the others.  The parser works on what its own thread     *)
(* owns: a call is one step.  Every connection has a loop of its own.      *)
(***************************************************************************)
EXTENDS ThreadPool, FiniteSetsExt

CONSTANTS
  Streams,    \* of each connection: the streams its peer may send
  MaxReq,     \* bound: requests of a stream
  Callbacks   \* "default" or "user": what setHttpCallback() was given

Conn == Client
Method == [get10 |-> "kGet", get11 |-> "kGet", get20 |-> "kGet", head11 |-> "kHead"]
Version == [get10 |-> "kHttp10", get11 |-> "kHttp11", get20 |-> "kHttp20",
            head11 |-> "kHttp11"]
Header == {"field", "close", "keep-alive"}
NoRequest == [method |-> "kInvalidMethod", version |-> "kUnknownVersion",
              connection |-> ""]
NewContext == [taken |-> 0, state |-> "kParseRequestLine", request |-> NoRequest,
               end |-> "noLine"]

\* The task of the n-th request of a connection.
TaskOf(c, n) == <<c, n>>
HttpTask == {TaskOf(c, n) : c \in Conn, n \in 1..MaxReq}
ConnOf(task) == task[1]

Text == UNION {Range(s) : s \in UNION Range(Streams)}   \* the lines

ASSUME HttpAssumption ==
  /\ MaxReq \in Nat
  /\ HttpTask \subseteq Task
  /\ DOMAIN Streams = Conn
  /\ \A c \in Conn : Streams[c] \subseteq Seq(Text)

VARIABLES
  stream,    \* what the peer sends, all of it
  received,  \* half lines read into input_buffer_
  context,   \* the HttpContext, with the number of lines retrieved
  io,        \* where onMessage() is
  asked,     \* the request captured by each task
  connected, \* state_ of the TcpConnection is kConnected
  sent,      \* the responses given to send(), while connected
  callback,  \* httpCallback_
  aborted    \* an assert has failed

connVars == <<stream, received, context, io, asked>>
answerVars == <<connected, sent, aborted>>
httpVars == <<connVars, answerVars, callback>>
allVars == <<vars, httpVars>>

HttpInit ==
  /\ Init
  /\ stream \in {s \in [Conn -> UNION Range(Streams)] : \A c \in Conn : s[c] \in Streams[c]}
  /\ received = [c \in Conn |-> 0]
  /\ context = [c \in Conn |-> NewContext]
  /\ io = [c \in Conn |-> "idle"]
  /\ asked = [task \in Task |-> NoRequest]
  /\ connected = [c \in Conn |-> TRUE]
  /\ sent = [c \in Conn |-> <<>>]
  /\ callback \in Callbacks
  /\ aborted = FALSE

-----------------------------------------------------------------------------
(* parseRequest() on the lines of s, of which the first n have been read.  *)
(* A context is [taken, state, request, end]: end is how the loop ended.   *)

\* kParseRequestLine.  After a line that processRequestLine() refuses, hasMore
\* is still set and the line still there: the while loop does not end, and
\* onMessage() never gets to its answer 400.
ParseRequestLine(x, line) ==
  IF line \in DOMAIN Version
  THEN [x EXCEPT !.request.method = Method[line],
                 !.request.version = Version[line],
                 !.taken = @ + 1,
                 !.state = "kParseHeaders"]
  ELSE [x EXCEPT !.end = "never"]

\* kParseHeaders: addHeader() keeps the last value of a field; a line without
\* a colon ends the request.
ParseHeader(x, line) ==
  IF line \in Header
  THEN [x EXCEPT !.request.connection = IF line = "field" THEN @ ELSE line,
                 !.taken = @ + 1]
  ELSE [x EXCEPT !.taken = @ + 1, !.state = "kAllDone", !.end = "allDone"]

\* No state but those two is handled: in any other the loop does not end.
ParseLine(x, line) ==
  CASE x.state = "kParseRequestLine" -> ParseRequestLine(x, line)
    [] x.state = "kParseHeaders" -> ParseHeader(x, line)
    [] OTHER -> [x EXCEPT !.end = "never"]

\* One line for a call.
parseRequest_NoLoop(x, s, n) ==
  LET y == [x EXCEPT !.end = "noLine"]
  IN IF x.taken >= n THEN y ELSE ParseLine(y, s[x.taken + 1])

\* The loop: findCRLF() finds a line, or none.
parseRequest(x, s, n) ==
  LET P[i \in 0..Len(s) + 1] ==
        IF i = 0 THEN [x EXCEPT !.end = "more"]
        ELSE LET y == P[i - 1]
             IN IF y.end # "more" THEN y
                ELSE IF y.taken >= n THEN [y EXCEPT !.end = "noLine"]
                ELSE ParseLine(y, s[y.taken + 1])
  IN P[Len(s) + 1]

\* HttpRequest(HttpRequest &&): onRequest() is given the request by move.
Moved(x) == [x EXCEPT !.request = NoRequest]

\* The request is cleared and state_ is not.
reset_KeepsState(x) == [x EXCEPT !.request = NoRequest]

\* HttpContext::reset() and HttpRequest::clear().
reset(x) == [x EXCEPT !.state = "kParseRequestLine", !.request = NoRequest]

\* A read and onMessage(), up to onRequest().
OnMessage(c) ==
  /\ main = "started" /\ ~aborted
  /\ io[c] = "idle"
  /\ \E n \in received[c] + 1..2 * Len(stream[c]) :
       LET x == parseRequest(context[c], stream[c], n \div 2)
       IN /\ received' = [received EXCEPT ![c] = n]
          /\ context' = [context EXCEPT ![c] = x]
          /\ io' = [io EXCEPT ![c] = IF x.end = "never" THEN "spin"
                                     ELSE IF x.end = "allDone" THEN "done" ELSE "idle"]
  /\ UNCHANGED <<vars, stream, asked, answerVars, callback>>

-----------------------------------------------------------------------------
(* onRequest() and onRequestInThreadPool()                                 *)

HttpResponse(close) ==
  [version |-> "kUnknownVersion", status |-> "kInvalidStatus", close |-> close]

defaultHttpCallback(r, response) ==
  [response EXCEPT !.status = "k404NotFound", !.close = TRUE]

\* The callback of examples/HttpServer; found: the path is one of its files.
userHttpCallback(r, response, found) ==
  IF r.method = "kGet" /\ found
  THEN [response EXCEPT !.version = r.version, !.status = "k200OK"]
  ELSE [response EXCEPT !.version = r.version, !.status = "k404NotFound", !.close = TRUE]

\* What tells a client where the response ends.
appendToBuffer(response) ==
  [version |-> response.version, status |-> response.status,
   end |-> IF response.close THEN "close" ELSE "Content-Length"]

\* versionToStr() asserts that some version was set, which the default callback
\* does not do.  send() and shutdown() do nothing once the connection is not
\* kConnected.
onRequestInThreadPool(task, r) ==
  LET c == ConnOf(task)
      new == HttpResponse(r.connection = "close" \/ r.version = "kHttp10")
  IN \E found \in BOOLEAN :
       LET response == IF callback = "user" THEN userHttpCallback(r, new, found)
                       ELSE defaultHttpCallback(r, new)
       IN IF response.version = "kUnknownVersion"
          THEN aborted' = TRUE /\ UNCHANGED <<connected, sent>>
          ELSE /\ sent' = IF connected[c]
                          THEN [sent EXCEPT ![c] = Append(@, [task |-> task,
                                  text |-> appendToBuffer(response)])]
                          ELSE sent
               /\ connected' = [connected EXCEPT ![c] = @ /\ ~response.close]
               /\ UNCHANGED aborted

\* threadPool_.submit() without worker threads: the task is run, then reset().
OnRequestInline(c) ==
  /\ io[c] = "done" /\ ~aborted
  /\ \E n \in 1..MaxReq :
       /\ \A i \in 1..n - 1 : TaskOf(c, i) \notin unused
       /\ SubmitInline(c, TaskOf(c, n))
       /\ asked' = [asked EXCEPT ![TaskOf(c, n)] = context[c].request]
       /\ onRequestInThreadPool(TaskOf(c, n), context[c].request)
  /\ context' = [context EXCEPT ![c] = reset(Moved(@))]
  /\ io' = [io EXCEPT ![c] = "idle"]
  /\ UNCHANGED <<stream, received, callback>>

OnRequest(c) ==
  /\ io[c] = "done" /\ ~aborted
  /\ \E n \in 1..MaxReq :
       /\ \A i \in 1..n - 1 : TaskOf(c, i) \notin unused
       /\ Submit(c, TaskOf(c, n))
       /\ asked' = [asked EXCEPT ![TaskOf(c, n)] = context[c].request]
  /\ context' = [context EXCEPT ![c] = Moved(@)]
  /\ io' = [io EXCEPT ![c] = "submit"]
  /\ UNCHANGED <<stream, received, answerVars, callback>>

\* submit() goes on; when it has returned, reset().
SubmitStep(c) ==
  /\ io[c] = "submit" /\ ~aborted
  /\ ClientStep(c)
  /\ IF client'[c] = NoTask
     THEN /\ context' = [context EXCEPT ![c] = reset(@)]
          /\ io' = [io EXCEPT ![c] = "idle"]
     ELSE UNCHANGED <<context, io>>
  /\ UNCHANGED <<stream, received, asked, answerVars, callback>>

\* A step of a worker thread; a task it takes out of the queue is run.
PoolStep(t) ==
  /\ ~aborted
  /\ ThreadStep(t)
  /\ IF done' = done THEN UNCHANGED answerVars
     ELSE onRequestInThreadPool(done'[Len(done')], asked[done'[Len(done')]])
  /\ UNCHANGED <<connVars, callback>>

\* setThreadNum() and start(); stop() and the joins in the destructor.
PoolOwner ==
  /\ ~aborted
  /\ Start \/ Stop \/ Join \/ \E S \in SUBSET Thread : SetThreadNum(S)
  /\ UNCHANGED httpVars

-----------------------------------------------------------------------------
IoStep(c) ==
  \/ OnRequestInline(c) \/ OnRequest(c) \/ SubmitStep(c)

HttpNext ==
  \/ PoolOwner
  \/ \E c \in Conn : OnMessage(c) \/ IoStep(c)
  \/ \E t \in Thread : PoolStep(t)

\* The scheduler runs every thread; the peer need not send.
HttpSpec ==
  /\ HttpInit /\ [][HttpNext]_allVars
  /\ \A c \in Conn : WF_allVars(IoStep(c))
  /\ \A t \in Thread : WF_allVars(PoolStep(t))
  /\ WF_allVars(main = "joining" /\ PoolOwner)

-----------------------------------------------------------------------------
\* The request that the lines i to e of a stream make.
RequestOf(s, i, e) ==
  LET values == {j \in i + 1..e : s[j] \in Header \ {"field"}}
  IN [method |-> Method[s[i]], version |-> Version[s[i]],
      connection |-> IF values = {} THEN "" ELSE s[Max(values)]]

\* What the first n lines of a stream ask for, taken as a whole: from a
\* request line to the first line without a colon, up to the first line that
\* is not where a request begins.
Requests(s, n) ==
  LET R[i \in 1..n + 1] ==
        LET ends == {j \in i + 1..n : s[j] \notin Header}
        IN IF i > n \/ s[i] \notin DOMAIN Version \/ ends = {} THEN <<>>
           ELSE <<RequestOf(s, i, Min(ends))>> \o R[Min(ends) + 1]
  IN R[1]
Complete(c) == Requests(stream[c], received[c] \div 2)
HasLine(c) == context[c].taken < received[c] \div 2

\* However the stream is cut into reads, the tasks of a connection ask for what
\* the stream as a whole asks for, one request after the other and with nothing
\* left over from the one before; the responses are sent once, in that order and
\* in the version of their requests; one without a length, of which the client
\* finds the end by that of the connection, is the last; and the parser is
\* caught in its loop only before a line that is no request line.
AnswersInOrder ==
  /\ TypeOK
  /\ \A c \in Conn :
       /\ \A n \in 1..MaxReq :
            TaskOf(c, n) \notin unused
              => n <= Len(Complete(c)) /\ asked[TaskOf(c, n)] = Complete(c)[n]
       /\ \A i \in DOMAIN sent[c] :
            /\ sent[c][i].task = TaskOf(c, i)
            /\ sent[c][i].text.version = asked[TaskOf(c, i)].version
            /\ sent[c][i].text.end = "close" <=> i = Len(sent[c]) /\ ~connected[c]
       /\ io[c] = "spin"
            => /\ HasLine(c) /\ context[c].state = "kParseRequestLine"
               /\ stream[c][context[c].taken + 1] \notin DOMAIN Version

\* Without worker threads every complete request is answered, unless onMessage()
\* has handled the one before it and nothing came since (a read handles one
\* request), a line before it is no request line, the connection was to close,
\* an assert failed or the server is destroyed.  (With worker threads submit()
\* does not return as long as the queue has room.)
AnsweredUnlessPipelined ==
  \A c \in Conn, n \in 1..MaxReq :
    (Len(Complete(c)) >= n)
      ~> \/ Len(sent[c]) >= n
         \/ threads # {} \/ main # "started" \/ aborted
         \/ ~connected[c] \/ io[c] = "spin"
         \/ io[c] = "idle" /\ context[c].end = "allDone" /\ HasLine(c)
=============================================================================
