---------------------------- MODULE HttpExchange ----------------------------
(***************************************************************************)
(* The requests of one connection, from their bytes to the answers: the    *)
(* reads of Connection::do_read, the parser (HttpParser), the routes of the*)
(* application (Routing), the middleware and the hand-over to a websocket  *)
(* (crow/http_connection.h).  When the connection is given up because it is*)
(* idle, and on which thread it runs, is HttpServer's part.                *)
(*                                                                         *)
(* Every answer is written before the callback returns (do_write_sync), so *)
(* a read is followed by all its parsing and answering, and then by the    *)
(* decision to read on or to close.                                        *)
(***************************************************************************)
EXTENDS HttpParser, Routing, QueryString, HttpResponse

CONSTANTS
  Token,   \* what the bytes of a client are cut into
  Talk,    \* what a client may send: sequences of messages
  Served   \* the tables of rules the conversations are held with

(* A message is given as the client means it, its headers and what follows *)
(* them as they are sent.  A faulty one is refused behind its URL.         *)
Tokens == Seq(Token)
HeaderSeq == Seq(Tokens \X Tokens)
Message ==
  [verb : Verb, path : Tokens \ {<<>>}, query : Tokens, version : Token,
   headers : HeaderSeq, eol : Tokens, tail : Tokens, content : Tokens,
   trailer : HeaderSeq, faulty : BOOLEAN]
MethodToken ==
  {"GET", "HEAD", "OPTIONS", "P", "O", "ST", "U", "T", "A", "TCH", "R", "GE"}

ASSUME ExchangeAssumption ==
  /\ MethodToken \cup {SP, ":", "?"} \subseteq Token
  /\ Talk \subseteq Seq(Message)

VARIABLES
  talk,     \* the messages of this conversation
  conn,     \* the connection: its place, whether its socket is open,
            \* close_connection_, the route of the request, and the first
            \* message a read was cut badly for
  answers,  \* the answers given, each with what its handler was shown
  res,      \* the response object
  written   \* what went out for the answers, but for "100 Continue"

replyVars == <<res, written>>
exchangeVars == <<routeVars, parserVars, talk, conn, answers, replyVars>>

Host == <<"Ho", "st">>
Upgrade == <<"Up", "grade">>
Expect == <<"Ex", "pect">>
Connection == <<"Conn", "ection">>

ValueOf(headers, name) ==
  LET i == SelectInSeq(headers, LAMBDA h : h[1] = name)
  IN IF i = 0 THEN Missing ELSE headers[i][2]

(* handle_url and handle_header. *)
WantsContinue(version, headers) ==
  /\ version = "HTTP/1.1"
  /\ ValueOf(headers, Expect) = <<"100-", "continue">>

(* handle(): what becomes of a complete request.  An upgrade is handed to a*)
(* websocket rule of its own method, and answered by nobody if there is    *)
(* none; ValidateMiddleware answers a plain GET of "/" (see Admission); a  *)
(* websocket rule has nothing for a plain request.                         *)
NoHost(version, headers) ==
  version = "HTTP/1.1" /\ ValueOf(headers, Host) = Missing
Upgrades(version, headers, upgrade) ==
  /\ version = "HTTP/1.1" /\ upgrade
  /\ ~IsPrefix(<<"h", "2c">>, ValueOf(headers, Upgrade))

Outcome(verb, url, version, headers, upgrade, route) ==
  IF NoHost(version, headers) THEN "400"
  ELSE IF Upgrades(version, headers, upgrade)
  THEN IF HandleUpgrade(verb, url) = "101" THEN "upgraded" ELSE "none"
  ELSE IF verb = "GET" /\ url = <<"/">> /\ ValueOf(headers, Upgrade) = Missing
  THEN "checked"
  ELSE IF route.rule = Redirect THEN "301"
  ELSE IF KindOf(route.method, route.rule) = "websocket" THEN "404"
  ELSE "handled"

Early(code, verb, url) == [as |-> code, seen |-> <<verb, url>>]
Continue == [as |-> "100", seen |-> <<>>]
Final(outcome, verb, url, raw, headers, body, route) ==
  [as |-> outcome,
   seen |-> <<verb, url, Get(raw, <<"name">>), headers, body, route.params>>]

(* The response at the time it is written.  A routed HEAD asks for no body;*)
(* get_error only sets the code; a request without Host is answered without*)
(* end(); the middleware says yes or no (Admission); the route of the      *)
(* static directory sends a file.                                          *)
SkipBody(r, verb) == IF verb = "HEAD" THEN [r EXCEPT !.skip_body = TRUE] ELSE r
GetError(r, code) == [r EXCEPT !.code = code]
EarlyReply(r, verb, code) ==
  End(IF verb \in {"HEAD", "OPTIONS"} THEN Assigned(r, code)
      ELSE GetError(r, code))
StaticReply(r, path) == End(SetStaticFileInfo(r, SanitizeFilename(path)))
RuleReply(r, outcome, route) ==
  IF outcome = "handled" THEN StaticReply(r, route.params[1])
  ELSE End(Assigned(r, outcome))

Reply(outcome, route) ==
  CASE outcome = "400" -> {Assigned(res, "400")}
    [] outcome = "checked" -> {End(Text(res, code)) : code \in {"200", "400"}}
    [] outcome \in {"301", "404", "handled"} -> {RuleReply(res, outcome, route)}

(* complete_request and what end() does behind it.  Nothing can be written *)
(* to a socket that was closed; do_write_static closes it.                 *)
Completed(outcome, r) ==
  IF outcome \in {"301", "404", "handled"} THEN Ended(Clear(r)) ELSE Clear(r)
Write(verb, r) == IF conn.open THEN Append(written, Written(verb, r)) ELSE written

-----------------------------------------------------------------------------
(* The wire, and the cuts the parser does not survive.                     *)
Lines(headers, eol) ==
  FlattenSeq([i \in DOMAIN headers |->
                headers[i][1] \o <<":">> \o headers[i][2] \o eol])
QueryOf(m) == IF m.query = <<>> THEN <<>> ELSE <<"?">> \o m.query
Encode(m) ==
  Spelling[m.verb] \o <<SP>> \o m.path \o QueryOf(m)
    \o (IF m.version = "HTTP/0.9" THEN <<>> ELSE <<SP, m.version>>)
    \o m.eol \o Lines(m.headers, m.eol) \o m.eol \o m.tail
    \o (IF m.trailer = <<>> THEN <<>> ELSE Lines(m.trailer, m.eol) \o m.eol)

FirstToken(j) ==
  1 + Len(FlattenSeq([i \in 1..(j - 1) |-> Encode(talk[i])]))
PathFrom(j) == FirstToken(j) + Len(Spelling[talk[j].verb]) + 1
PathTo(j) == PathFrom(j) + Len(talk[j].path) - 1

(* A read that ends inside a path has it routed as if it were complete,    *)
(* and qs_point is lost with url_start_mark; behind the "h" of "h2c", an   *)
(* upgrade is taken for granted; and url_start_mark is not reset for the   *)
(* second URL of a read, so that its query stays part of the path.         *)
CutPath(j, end) ==
  /\ end \in PathFrom(j)..PathTo(j)
  /\ \/ talk[j].query # <<>>
     \/ LET part == SubSeq(talk[j].path, 1, end - PathFrom(j) + 1)
        IN /\ part # talk[j].path
           /\ HandleInitial(talk[j].verb, part).code # "none"
CutH2(j, end) ==
  /\ end \in FirstToken(j)..(Len(wire) - 1)
  /\ wire[end] = "h" /\ wire[end + 1] = "2c"
  /\ end < FirstToken(j) + Len(Encode(talk[j]))
SecondUrl(j, from, end) ==
  /\ talk[j].query # <<>>
  /\ PathFrom(j) >= from /\ PathTo(j) < end
  /\ \E i \in 1..(j - 1) : PathFrom(i) >= from
Misread(from, end) ==
  {j \in DOMAIN talk :
     CutPath(j, end) \/ CutH2(j, end) \/ SecondUrl(j, from, end)}

-----------------------------------------------------------------------------
ExchangeInit ==
  /\ RoutingInit
  /\ ParserInit
  /\ wire = <<>>
  /\ talk = <<>>
  /\ conn = [place |-> "none", open |-> TRUE, closing |-> FALSE,
             route |-> Unrouted("none"), misread |-> 0]
  /\ answers = <<>>
  /\ res = NewResponse
  /\ written = <<>>

NoConnection == UNCHANGED <<parserVars, talk, conn, answers, replyVars>>
SetUp == conn.place = "none" /\ RoutingNext /\ NoConnection

Connect ==
  /\ conn.place = "none" /\ phase = "running" /\ rules \in Served
  /\ conn' = [conn EXCEPT !.place = "reading"]
  /\ talk' \in Talk
  /\ wire' = FlattenSeq([i \in DOMAIN talk' |-> Encode(talk'[i])])
  /\ UNCHANGED <<routeVars, exec, parser, header, req, answers, replyVars>>

(* do_read completes with the next tokens, however many. *)
Read ==
  /\ conn.place = "reading"
  /\ \E end \in (exec.end + 1)..Len(wire) :
       /\ Feed(end)
       /\ LET hurt == Misread(exec.end + 1, end)
          IN conn' = [conn EXCEPT !.place = "parsing", !.misread =
                        IF @ = 0 /\ hurt # {} THEN Min(hurt) ELSE @]
  /\ UNCHANGED <<routeVars, talk, answers, replyVars>>

(* do_read completes with an error: the client is gone. *)
ClientLeaves ==
  /\ conn.place = "reading"
  /\ conn' = [conn EXCEPT !.place = "gone"]
  /\ UNCHANGED <<routeVars, parserVars, talk, answers, replyVars>>

Parse ==
  /\ conn.place = "parsing"
  /\ ParserNext
  /\ UNCHANGED <<routeVars, talk, conn, answers, replyVars>>

(* Without a route the request is answered and given up at once. *)
HandleUrl ==
  /\ conn.place = "parsing" /\ UrlEnding
  /\ LET url == PathOf(RawSoFar)
         verb == parser.method
         found == HandleInitial(verb, url)
         reply == EarlyReply(res, verb, found.code)
     IN /\ UrlEnds(found.code = "none")
        /\ conn' = [conn EXCEPT !.route = found]
        /\ IF found.code = "none"
           THEN /\ res' = SkipBody(res, verb)
                /\ UNCHANGED <<answers, written>>
           ELSE /\ res' = Clear(reply)
                /\ written' = Write(verb, reply)
                /\ answers' = IF conn.open
                     THEN Append(answers, Early(found.code, verb, url)) ELSE answers
  /\ UNCHANGED <<routeVars, talk>>

HandleHeader ==
  /\ conn.place = "parsing"
  /\ HeadersEnd
  /\ IF WantsContinue(parser.version, req'.headers)
     THEN /\ answers' = IF conn.open THEN Append(answers, Continue) ELSE answers
          /\ res' = Clear(res)
     ELSE UNCHANGED <<answers, res>>
  /\ UNCHANGED <<routeVars, talk, conn, written>>

Shown(outcome) ==
  Final(outcome, parser.method, req.url, req.raw, req.headers, req.body, conn.route)

HandleReply ==
  /\ conn.place = "parsing" /\ Completing /\ conn.open
  /\ LET verb == parser.method
         outcome == Outcome(verb, req.url, parser.version, req.headers,
                            req.upgrade, conn.route)
     IN /\ outcome \notin {"upgraded", "none"}
        /\ Complete(TRUE)
        /\ answers' = Append(answers, Shown(outcome))
        /\ \E r \in Reply(outcome, conn.route) :
             /\ written' = Write(verb, r)
             /\ res' = Completed(outcome, r)
             /\ conn' = [conn EXCEPT !.closing = req.close,
                                     !.open = ~(r.file /\ req.close)]
  /\ UNCHANGED <<routeVars, talk>>

(* The connection is handed over, or dropped without an answer. *)
HandleUpgraded ==
  /\ conn.place = "parsing" /\ Completing /\ conn.open
  /\ LET verb == parser.method
         outcome == Outcome(verb, req.url, parser.version, req.headers,
                            req.upgrade, conn.route)
     IN /\ outcome \in {"upgraded", "none"}
        /\ Complete(FALSE)
        /\ conn' = [conn EXCEPT !.closing = TRUE,
                     !.place = IF outcome = "upgraded" THEN "upgraded" ELSE @]
        /\ IF outcome = "upgraded"
           THEN /\ answers' = Append(answers, Shown(outcome))
                /\ UNCHANGED res
           ELSE /\ res' = End(Assigned(res, HandleUpgrade(verb, req.url)))
                /\ UNCHANGED answers
  /\ UNCHANGED <<routeVars, talk, written>>

(* A file that closes the connection closes its socket; remote_endpoint()  *)
(* then throws for the next request of the same read, and the worker drops *)
(* the connection.                                                         *)
HandleThrows ==
  /\ conn.place = "parsing" /\ Completing /\ ~conn.open
  /\ conn' = [conn EXCEPT !.place = "closed"]
  /\ UNCHANGED <<routeVars, parserVars, talk, answers, replyVars>>

(* The rest of do_read's handler, when feed() returns. *)
ReadDone ==
  /\ conn.place = "parsing"
  /\ parser.errno \/ exec.over \/ (AtEnd /\ exec.mark = "none")
  /\ LET whole == ~parser.errno /\ exec.pos > exec.end
     IN conn' = [conn EXCEPT !.place =
                   IF whole /\ conn.open /\ ~conn.closing THEN "reading" ELSE "closed"]
  /\ UNCHANGED <<routeVars, parserVars, talk, answers, replyVars>>

ExchangeNext ==
  \/ SetUp \/ Connect \/ Read \/ ClientLeaves
  \/ Parse \/ HandleUrl \/ HandleHeader
  \/ HandleReply \/ HandleUpgraded \/ HandleThrows \/ ReadDone

ExchangeSpec == ExchangeInit /\ [][ExchangeNext]_exchangeVars

-----------------------------------------------------------------------------
(* The merged trie the application starts to run with finds what reading   *)
(* the list of rules would: a redirect if one applies, else the first rule *)
(* that matches, with the parameters cut out of the URL.  Two patterns that*)
(* share a beginning, or one that continues another, never hide each other *)
(* (Trie::add, Trie::optimizeNode, Trie::find).  The tries stay as they    *)
(* are, so that it is enough to look before the first connection.          *)
RoutesAgree == phase = "running" /\ conn.place = "none" => TrieAgrees

(* The headers a handler is shown: without the blanks before a value and   *)
(* the line breaks in it; an empty one only in the last place; of the      *)
(* trailing headers all but the last.                                      *)
Meant(raw) ==
  LET first == SelectInSeq(raw, LAMBDA t : t \notin {SP, CR, LF})
  IN IF first = 0 THEN <<>>
     ELSE SelectSeq(SubSeq(raw, first, Len(raw)), LAMBDA t : t \notin {CR, LF})
ShownHeaders(headers) == [i \in DOMAIN headers |-> <<headers[i][1], Meant(headers[i][2])>>]
Nonempty(headers) == SelectSeq(headers, LAMBDA h : h[2] # <<>>)
ButLast(headers) == IF headers = <<>> THEN <<>> ELSE Front(headers)
HeadersOf(m) ==
  LET all == ShownHeaders(m.headers)
  IN Nonempty(ButLast(all)) \o (IF all = <<>> THEN <<>> ELSE <<Last(all)>>)
TrailerOf(m) == Nonempty(ButLast(ShownHeaders(m.trailer)))

AsksUpgrade(headers) ==
  LET value == ValueOf(headers, Upgrade)
  IN value \notin {Missing, <<>>} /\ ~IsPrefix(<<"h", "2c">>, value)
OutcomeOf(m) ==
  Outcome(m.verb, m.path, m.version, HeadersOf(m) \o TrailerOf(m),
          AsksUpgrade(HeadersOf(m)), HandleInitial(m.verb, m.path))

(* What a message is to get: its answers, whether anything is read behind  *)
(* it, and whether the connection is closed behind it.                     *)
AnswersTo(m, route, headers, outcome) ==
  IF route.code # "none" THEN <<Early(route.code, m.verb, m.path)>>
  ELSE IF m.faulty THEN <<>>
  ELSE (IF WantsContinue(m.version, headers) THEN <<Continue>> ELSE <<>>)
       \o (IF outcome = "none" THEN <<>>
           ELSE <<Final(outcome, m.verb, m.path, m.path \o QueryOf(m),
                        headers \o TrailerOf(m), m.content, route)>>)
Closes(m, value) ==
  \/ m.version = "HTTP/1.0" /\ value # <<"keep-", "alive">>
  \/ m.version = "HTTP/1.1" /\ value = <<"clo", "se">>
DueFor(m, route, headers, outcome) ==
  [answers |-> AnswersTo(m, route, headers, outcome),
   ends |-> \/ route.code # "none"
            \/ m.faulty
            \/ outcome \in {"upgraded", "none"},
   closes |-> Closes(m, ValueOf(headers, Connection))]
Due(m) == DueFor(m, HandleInitial(m.verb, m.path), HeadersOf(m), OutcomeOf(m))

(* All the answers due to the first n messages. *)
Told(due, n) ==
  LET last == CHOOSE k \in 0..n :
                /\ \A i \in 1..k : due[i].ends => i = k
                /\ k = n \/ (k > 0 /\ due[k].ends)
  IN FlattenSeq([i \in 1..last |-> due[i].answers])

Sure == IF conn.misread = 0 THEN Len(talk) ELSE conn.misread - 1
Fed == {j \in 0..Len(talk) : FirstToken(j + 1) - 1 <= exec.end}

AsSent(due) ==
  /\ \/ IsPrefix(answers, Told(due, Sure))
     \/ conn.misread # 0 /\ IsPrefix(Told(due, Sure), answers)
  /\ conn.misread = 0 =>
       /\ conn.place = "reading" =>
            /\ IsPrefix(Told(due, Max(Fed)), answers)
            /\ Max(Fed) > 0 => ~due[Max(Fed)].closes
       /\ conn.place = "closed" =>
            \E j \in DOMAIN due :
              /\ FirstToken(j) <= exec.end
              /\ due[j].ends \/ due[j].closes

(* Wherever the reads cut the bytes, the handlers are shown the messages   *)
(* the client sent: each once, in order, with its path, name parameter,    *)
(* headers and body, up to a cut of the kinds above (looked at between two *)
(* reads; answers are never taken back).  While the connection waits for   *)
(* more, every message received has its answer and the last of them does   *)
(* not ask to close; and it is closed only behind a message that ends or   *)
(* closes it.  Not more than that: the wish of a message to close is       *)
(* overwritten by the next one of the same read (handle, parser.h,         *)
(* do_read).                                                               *)
HandledAsSent ==
  conn.place \notin {"none", "parsing"} =>
    AsSent([i \in DOMAIN talk |-> Due(talk[i])])

(* The client can tell where an answer ends and the next begins: the length*)
(* it is told is that of what follows, whatever was answered before with   *)
(* the same response object.  Not so the answers to HEAD, which announce   *)
(* nothing and send the text of an error or the file all the same; nor the *)
(* answers behind a HEAD refused for want of Host, which is answered       *)
(* without end() and so leaves skip_body set (response::end,               *)
(* prepare_buffers, do_write_static).                                      *)
ResponsesFramed ==
  \A i \in DOMAIN written :
    \/ written[i].length = written[i].follows
    \/ \E j \in 1..i : /\ written[j].verb = "HEAD"
                       /\ j = i \/ written[j].code = "400"

-----------------------------------------------------------------------------
(* The request as if every token were handed over at once: the parts the   *)
(* states belong to, and the strings with the tokens since the mark.       *)
PartOf(state) ==
  CASE state \in {"start", "method"} -> "method"
    [] state = "spaces_before_url" -> "gap"
    [] state \in UrlHead \cup InUrl -> "url"
    [] state \in {"http_start", "http_end", "line_almost_done"} -> "version"
    [] state = "field_start" -> "lines"
    [] state = "field" -> "name"
    [] state \in {"discard_ws", "discard_ws_almost_done", "discard_lws",
                  "value_start", "value", "header_almost_done", "value_lws"} ->
         "value"
    [] state = "headers_almost_done" -> "blank"
    [] state = "headers_done" -> "headed"
    [] state \in {"body", "chunk_data"} -> "body"
    [] state = "message_done" -> "whole"
    [] OTHER -> "sizes"

TextPart ==
  IF parser.errno THEN "refused"
  ELSE IF exec.over /\ parser.state # "start" THEN "handed"
  ELSE PartOf(parser.state)

(* The last token of a body is looked at again. *)
TextPos == IF TextPart = "whole" THEN exec.pos + 1 ELSE exec.pos

Pending(mark) == IF exec.mark = mark THEN Data ELSE <<>>
NewName == exec.mark = "field" /\ header.building = 0
Name == IF NewName THEN Data ELSE header.field \o Pending("field")
HeaderValue ==
  IF NewName THEN <<>>
  ELSE IF exec.mark = "value" /\ header.building = 1 THEN Data
  ELSE header.value \o Pending("value")
Headers == IF NewName /\ header.value # <<>> THEN Filed.headers ELSE req.headers
TextNow ==
  [raw |-> req.raw \o Pending("url"), name |-> Name, value |-> HeaderValue,
   headers |-> Headers, body |-> req.body \o Pending("body")]

Stream == INSTANCE RequestText
  WITH pos <- TextPos, part <- TextPart, left <- parser.left, text <- TextNow

(* Wherever the reads end, each token of the client is collected once, in  *)
(* order, into the string it belongs to: a call of the parser that begins  *)
(* or ends inside a string changes nothing in it.  The path of a URL is not*)
(* among the strings (qs_point, see Misread).                              *)
TextAsRead == Stream!TextSpec

=============================================================================
