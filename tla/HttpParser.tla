----------------------------- MODULE HttpParser -----------------------------
(***************************************************************************)
(* The request parser (crow/http_parser_merged.h) with the callbacks that  *)
(* collect a request from it (crow/parser.h).  The bytes of a connection   *)
(* are one sequence of tokens, `wire`; each read hands the parser the next *)
(* stretch of it, cut anywhere, and the parser goes through the stretch    *)
(* token by token, one action for each thing a state does.                 *)
(*                                                                         *)
(* A token is a character that means something to the parser, or a word    *)
(* that is only compared as a whole; the header names and values the parser*)
(* looks for come in parts, so that a read can end inside them, and so do  *)
(* the methods that begin alike.  Left out: CONNECT and the methods that no*)
(* rule can have here, the letters of versions, the header size limit, and *)
(* the overflow of a length.  HttpExchange adds the callbacks that involve *)
(* the connection (UrlEnds, HeadersEnd, Complete).                         *)
(***************************************************************************)
EXTENDS Integers, Sequences, SequencesExt, FiniteSetsExt

VARIABLES
  wire,    \* what the client sends in all
  exec,    \* the call of http_parser_execute: the tokens pos..end still to
           \* read, the mark and the place it was set at, url_start_mark
           \* (0 is NULL), and whether the call returned early
  parser,  \* what the parser keeps from one call to the next
  header,  \* the header being collected, and header_building_state
  req      \* the request collected so far

parserVars == <<wire, exec, parser, header, req>>

SP == "SP"
CR == "CR"
LF == "LF"
Spelling ==   \* method_strings
  [GET |-> <<"GET">>, HEAD |-> <<"HEAD">>, OPTIONS |-> <<"OPTIONS">>,
   POST |-> <<"P", "O", "ST">>, PUT |-> <<"P", "U", "T">>,
   PATCH |-> <<"P", "A", "TCH">>, PURGE |-> <<"P", "U", "R", "GE">>]
Verb == DOMAIN Spelling
Version == {"HTTP/1.0", "HTTP/1.1"}
Hex == {"0", "1", "2"}
Number == [d \in Hex |-> CASE d = "0" -> 0 [] d = "1" -> 1 [] d = "2" -> 2]
Letters == {"static", "a", "name", "ana", "x", "con", "http"}
UrlToken == Letters \cup {"/", "1", "=", "&", "..", "+", "%", "n%61me", "*", ":", "@"}
FieldWord == {"Conn", "ection", "Proxy-", "Content-", "Length", "Transfer-",
  "Encoding", "Up", "grade", "Ho", "st", "Ex", "pect", "X-", "Other"}

(* The names and values the parser acts on (the others it only collects).  *)
TransferEncoding == <<"Transfer-", "Encoding">>
KindOfField(name) ==
  CASE name \in {<<"Conn", "ection">>, <<"Proxy-", "Conn", "ection">>} ->
         "connection"
    [] name = <<"Content-", "Length">> -> "length"
    [] name = TransferEncoding -> "encoding"
    [] name = <<"Up", "grade">> -> "upgrade"
    [] OTHER -> "general"
Chunked == <<"chunk", "ed">>
FlagOf(kind, seen) ==
  CASE kind = "connection" /\ seen = <<"keep-", "alive">> -> {"keep-alive"}
    [] kind = "connection" /\ seen = <<"clo", "se">> -> {"close"}
    [] kind = "encoding" /\ seen = Chunked -> {"chunked"}
    [] OTHER -> {}

(* What has been matched of a value after one more token.  Blanks are      *)
(* skipped before and behind a known value; in a list of codings a comma   *)
(* starts afresh, but not right behind something that began "chunked".     *)
NextSeen(kind, seen, token) ==
  IF kind = "encoding" /\ token = "," /\ ~IsPrefix(seen, Chunked) THEN <<>>
  ELSE IF token = SP /\ (seen = <<>> \/ FlagOf(kind, seen) # {}) THEN seen
  ELSE Append(seen, token)

NoLength == -1   \* CROW_ULLONG_MAX
NewRequest == [raw |-> <<>>, url |-> <<>>, headers |-> <<>>, body |-> <<>>,
               close |-> FALSE, upgrade |-> FALSE]
NewHeader == [building |-> 0, field |-> <<>>, value |-> <<>>]

ParserInit ==
  /\ exec = [pos |-> 1, end |-> 0, mark |-> "none", from |-> 1, start |-> 0,
             over |-> FALSE]
  /\ parser = [state |-> "start", method |-> "none", index |-> 0, version |-> "none",
               flags |-> {}, te |-> FALSE, kind |-> "general", seen |-> <<>>,
               left |-> NoLength, upgrade |-> FALSE, errno |-> FALSE, qs |-> 0]
  /\ header = NewHeader
  /\ req = NewRequest

(* The states inside a URL: before its host is named, and where it may end.*)
UrlHead == {"schema", "schema_slash", "schema_slash_slash", "server_start"}
Server == {"server", "server_with_at"}
InUrl == Server \cup {"path", "query"}

FeedFieldUnmarked(end) ==  \* mutant: forgets that a name may go on
  /\ exec' = [pos |-> exec.end + 1, end |-> end, from |-> exec.end + 1,
              start |-> 0, over |-> FALSE,
              mark |-> CASE parser.state = "value" -> "value"
                         [] parser.state \in UrlHead \cup InUrl -> "url"
                         [] OTHER -> "none"]
  /\ UNCHANGED <<wire, parser, header, req>>

(* http_parser_execute is called with the next tokens, up to `end`; a mark *)
(* is set if the last call ended inside a name, a value or a URL.          *)
Feed(end) ==
  /\ exec' = [pos |-> exec.end + 1, end |-> end, from |-> exec.end + 1,
              start |-> 0, over |-> FALSE,
              mark |-> CASE parser.state = "field" -> "field"
                         [] parser.state = "value" -> "value"
                         [] parser.state \in UrlHead \cup InUrl -> "url"
                         [] OTHER -> "none"]
  /\ UNCHANGED <<wire, parser, header, req>>

token == wire[exec.pos]
Calling == ~parser.errno /\ ~exec.over
AtEnd == Calling /\ exec.pos > exec.end

-----------------------------------------------------------------------------
(* The methods that begin with "P": POST until a letter says otherwise.    *)
Turn == {<<"POST", 2, "U", "PUT">>, <<"POST", 2, "A", "PATCH">>,
         <<"PUT", 3, "R", "PURGE">>}
SpellingEnds == parser.index = Len(Spelling[parser.method]) + 1
NextMethods ==
  {v \in Verb : \/ /\ v = parser.method /\ ~SpellingEnds
                   /\ token = Spelling[v][parser.index]
               \/ <<parser.method, parser.index, token, v>> \in Turn}

(* parse_url_char: the state behind a token, "dead" if it has no place. *)
UrlState(state, t) ==
  CASE state = "spaces_before_url" /\ t \in {"/", "*"} -> "path"
    [] state \in {"spaces_before_url", "schema"} /\ t \in Letters -> "schema"
    [] state = "schema" /\ t = ":" -> "schema_slash"
    [] state = "schema_slash" /\ t = "/" -> "schema_slash_slash"
    [] state = "schema_slash_slash" /\ t = "/" -> "server_start"
    [] state \in Server \cup {"server_start"} /\ t = "/" -> "path"
    [] state \in {"server", "server_start"} /\ t = "@" -> "server_with_at"
    [] state \in Server \cup {"server_start"} /\ t \in UrlToken \ {"/", "@"} -> "server"
    [] state \in InUrl \cup {"server_start"} /\ t = "?" -> "query"
    [] state \in {"path", "query"} /\ t \in UrlToken -> state
    [] OTHER -> "dead"

BadUrl(s) ==
  \/ s = "spaces_before_url" /\ token # SP /\ UrlState(s, token) = "dead"
  \/ s \in UrlHead /\ UrlState(s, token) = "dead"
  \/ s \in InUrl /\ token \notin {SP, CR, LF} /\ UrlState(s, token) = "dead"
  \/ s \in InUrl /\ token \in {CR, LF} /\ parser.method # "GET"

(* The tokens the other states know, in the request line, in the headers   *)
(* and in a chunked body; the states left out take any.                     *)
LineFollows ==
  [start |-> {Spelling[v][1] : v \in Verb} \cup {CR, LF},
   http_start |-> Version \cup {SP},
   http_end |-> {CR, LF}, line_almost_done |-> {LF}]
HeaderFollows ==
  [field_start |-> FieldWord \cup {CR, LF}, field |-> FieldWord \cup {":"},
   discard_ws_almost_done |-> {LF}, header_almost_done |-> {LF},
   headers_almost_done |-> {LF}]
ChunkFollows ==
  [chunk_size_start |-> Hex, chunk_size |-> Hex \cup {CR, ";", SP},
   chunk_size_almost_done |-> {LF}, chunk_data_almost_done |-> {CR},
   chunk_data_done |-> {LF}]
OutOfPlace(follows, s) == s \in DOMAIN follows /\ token \notin follows[s]

(* What makes the parser stop with an error. *)
Wrong ==
  LET s == parser.state
      inValue == token \notin {CR, LF}
  IN \/ OutOfPlace(LineFollows, s) \/ OutOfPlace(HeaderFollows, s)
     \/ OutOfPlace(ChunkFollows, s)
     \/ s = "method" /\ (IF token = SP THEN ~SpellingEnds ELSE NextMethods = {})
     \/ BadUrl(s)
     \/ /\ s = "discard_ws" /\ inValue /\ token # SP /\ parser.kind = "length"
        /\ token \notin Hex \/ "length" \in parser.flags
     \/ s = "value" /\ inValue /\ parser.kind = "number" /\ token \notin Hex \cup {SP}
     \/ s = "value" /\ inValue /\ parser.kind = "number_ws" /\ token # SP
     \/ /\ s = "headers_almost_done" /\ "trailing" \notin parser.flags
        /\ parser.te /\ "length" \in parser.flags
     \/ /\ s = "headers_done" /\ ~parser.upgrade
        /\ parser.te /\ "chunked" \notin parser.flags

Reading == Calling /\ exec.pos <= exec.end
At(s) == Reading /\ parser.state = s /\ ~Wrong

Fail ==
  /\ Reading /\ Wrong
  /\ parser' = [parser EXCEPT !.errno = TRUE]
  /\ UNCHANGED <<wire, exec, header, req>>

(* The steps that do nothing but go on in another state. *)
RequestLine ==
  {<<"start", CR, "start">>, <<"start", LF, "start">>,
   <<"method", SP, "spaces_before_url">>,
   <<"spaces_before_url", SP, "spaces_before_url">>,
   <<"http_start", SP, "http_start">>, <<"http_end", CR, "line_almost_done">>,
   <<"http_end", LF, "field_start">>, <<"line_almost_done", LF, "field_start">>}
HeaderLines ==
  {<<"field_start", CR, "headers_almost_done">>,
   <<"discard_ws", SP, "discard_ws">>,
   <<"discard_ws", CR, "discard_ws_almost_done">>,
   <<"discard_ws", LF, "discard_lws">>,
   <<"discard_ws_almost_done", LF, "discard_lws">>,
   <<"discard_lws", SP, "discard_ws">>,
   <<"header_almost_done", LF, "value_lws">>}
ChunkLines ==
  {<<"chunk_size", CR, "chunk_size_almost_done">>,
   <<"chunk_size", ";", "chunk_parameters">>,
   <<"chunk_size", SP, "chunk_parameters">>,
   <<"chunk_parameters", CR, "chunk_size_almost_done">>,
   <<"chunk_data_done", LF, "chunk_size_start">>}

Ahead == [exec EXCEPT !.pos = @ + 1]
Unmarked(e) == [e EXCEPT !.mark = "none"]
Marked(mark) == [Ahead EXCEPT !.mark = mark, !.from = exec.pos]

Step ==
  /\ \E t \in RequestLine \cup HeaderLines \cup ChunkLines :
       At(t[1]) /\ token = t[2] /\ parser' = [parser EXCEPT !.state = t[3]]
  /\ exec' = Ahead
  /\ UNCHANGED <<wire, header, req>>

(* The tokens a data callback gets: from the mark up to, not with, pos.    *)
Data == SubSeq(wire, exec.from, exec.pos - 1)

-----------------------------------------------------------------------------
(* The request line.                                                       *)
Start ==
  /\ At("start") /\ token \notin {CR, LF}
  /\ parser' = [parser EXCEPT !.state = "method", !.index = 2,
                  !.method = IF token = "P" THEN "POST" ELSE token,
                  !.flags = {}, !.te = FALSE, !.left = NoLength]
  /\ exec' = Ahead
  /\ UNCHANGED <<wire, header, req>>

MethodLetter ==
  /\ At("method")
  /\ \E v \in NextMethods :
       parser' = [parser EXCEPT !.method = v, !.index = @ + 1]
  /\ exec' = Ahead
  /\ UNCHANGED <<wire, header, req>>

UrlStart ==
  /\ At("spaces_before_url") /\ token # SP
  /\ parser' = [parser EXCEPT !.state = UrlState(@, token)]
  /\ exec' = [Marked("url") EXCEPT !.start = IF @ = 0 THEN exec.pos ELSE @]
  /\ UNCHANGED <<wire, header, req>>

(* Where the query begins, counted from the first URL that began in this   *)
(* call; an address, and so beyond any length, if none did.                *)
QueryPoint ==
  IF exec.start = 0 THEN Len(wire) + 1 ELSE exec.pos - exec.start

UrlChar ==
  /\ \E s \in UrlHead \cup InUrl : At(s)
  /\ token \notin {SP, CR, LF}
  /\ parser' = [parser EXCEPT !.state = UrlState(@, token), !.qs =
                  IF parser.state # "query" /\ token = "?" THEN QueryPoint ELSE @]
  /\ exec' = Ahead
  /\ UNCHANGED <<wire, header, req>>

(* on_url: the path is the URL up to qs_point, which 0 says there is none. *)
PathOf(raw) ==
  IF parser.qs = 0 THEN raw ELSE SubSeq(raw, 1, Min({parser.qs, Len(raw)}))
RawSoFar == req.raw \o Data
UrlEnding ==
  /\ exec.mark = "url"
  /\ AtEnd \/ (token \in {SP, CR, LF} /\ \E s \in InUrl : At(s))

(* The URL ends, or the tokens do.  If the connection answers the request  *)
(* at this point, it has called done(), which leaves an error, and then    *)
(* clear().  A URL that ends the line makes it a request of HTTP/0.9.      *)
UrlEnds(goesOn) ==
  /\ UrlEnding
  /\ exec' = Unmarked(IF AtEnd THEN exec ELSE Ahead)
  /\ IF goesOn
     THEN /\ parser' = IF AtEnd THEN parser
                       ELSE IF token = SP
                       THEN [parser EXCEPT !.state = "http_start"]
                       ELSE [parser EXCEPT !.version = "HTTP/0.9", !.state =
                               IF token = CR THEN "line_almost_done"
                               ELSE "field_start"]
          /\ req' = [req EXCEPT !.raw = RawSoFar, !.url = PathOf(RawSoFar)]
          /\ UNCHANGED header
     ELSE /\ parser' = [parser EXCEPT !.state = "start", !.qs = 0, !.errno = TRUE]
          /\ req' = NewRequest
          /\ header' = NewHeader
  /\ UNCHANGED wire

HttpVersion ==
  /\ At("http_start") /\ token \in Version
  /\ parser' = [parser EXCEPT !.state = "http_end", !.version = token]
  /\ exec' = Ahead
  /\ UNCHANGED <<wire, header, req>>

-----------------------------------------------------------------------------
(* The headers.  on_header_field files the header before, unless its value *)
(* is empty; a name or a value in two parts is put together.               *)
Filed == [req EXCEPT !.headers = Append(@, <<header.field, header.value>>)]

OnHeaderField(part) ==
  IF header.building = 0
  THEN /\ header' = [building |-> 1, field |-> part, value |-> <<>>]
       /\ req' = IF header.value # <<>> THEN Filed ELSE req
  ELSE /\ header' = [header EXCEPT !.field = @ \o part]
       /\ UNCHANGED req

OnHeaderValueAssign(part) ==  \* mutant: forgets the first part of a value
  /\ header' = [header EXCEPT !.building = 0, !.value = part]
  /\ UNCHANGED req

OnHeaderValue(part) ==
  /\ header' = [header EXCEPT !.building = 0, !.value =
                  IF header.building = 0 THEN @ \o part ELSE part]
  /\ UNCHANGED req

FieldStart ==
  /\ At("field_start") /\ token \in FieldWord
  /\ parser' = [parser EXCEPT !.state = "field", !.seen = <<token>>]
  /\ exec' = Marked("field")
  /\ UNCHANGED <<wire, header, req>>

EmptyLine ==
  /\ At("field_start") /\ token = LF
  /\ parser' = [parser EXCEPT !.state = "headers_almost_done"]
  /\ UNCHANGED <<wire, exec, header, req>>

Field ==
  /\ At("field") /\ token \in FieldWord
  /\ LET name == Append(parser.seen, token)
     IN parser' = [parser EXCEPT !.seen = name,
                                 !.te = @ \/ name = TransferEncoding]
  /\ exec' = Ahead
  /\ UNCHANGED <<wire, header, req>>

FieldEnds ==
  /\ exec.mark = "field"
  /\ \/ AtEnd /\ exec' = Unmarked(exec) /\ UNCHANGED parser
     \/ /\ At("field") /\ token = ":"
        /\ exec' = Unmarked(Ahead)
        /\ parser' = [parser EXCEPT !.state = "discard_ws",
                        !.kind = KindOfField(parser.seen), !.seen = <<>>]
  /\ OnHeaderField(Data)
  /\ UNCHANGED wire

(* An upgrade to HTTP/2 is not one to the parser, if the "2" has been read.*)
OffersH2 ==
  token = "h" /\ exec.pos < exec.end /\ wire[exec.pos + 1] = "2c"

ValueStart ==
  /\ \/ At("discard_ws") /\ token \notin {SP, CR, LF}
     \/ At("value_start")
  /\ LET kind == parser.kind
     IN parser' = [parser EXCEPT
          !.state = "value",
          !.kind = CASE kind = "upgrade" -> "general"
                     [] kind = "length" -> "number"
                     [] OTHER -> kind,
          !.seen = IF kind \in {"connection", "encoding"}
                   THEN NextSeen(kind, <<>>, token) ELSE <<>>,
          !.left = IF kind = "length" THEN Number[token] ELSE @,
          !.flags = @ \cup CASE kind = "length" -> {"length"}
                             [] kind = "upgrade" /\ ~OffersH2 -> {"upgrade"}
                             [] OTHER -> {}]
  /\ exec' = Marked("value")
  /\ UNCHANGED <<wire, header, req>>

Value ==
  /\ At("value") /\ token \notin {CR, LF}
  /\ LET kind == parser.kind
     IN parser' = [parser EXCEPT
          !.kind = CASE kind = "number" /\ token = SP -> "number_ws"
                     [] kind = "encoding" /\ parser.seen = <<>> /\ token = "," ->
                          "general"
                     [] OTHER -> kind,
          !.seen = IF kind \in {"connection", "encoding"}
                   THEN NextSeen(kind, @, token) ELSE @,
          !.left = IF kind = "number" /\ token # SP
                   THEN 10 * @ + Number[token] ELSE @]
  /\ exec' = Ahead
  /\ UNCHANGED <<wire, header, req>>

ValueEnds ==
  /\ exec.mark = "value"
  /\ \/ AtEnd /\ exec' = Unmarked(exec) /\ UNCHANGED parser
     \/ /\ At("value") /\ token \in {CR, LF}
        /\ exec' = Unmarked(IF token = CR THEN Ahead ELSE exec)
        /\ parser' = [parser EXCEPT !.state = "header_almost_done"]
  /\ OnHeaderValue(Data)
  /\ UNCHANGED wire

(* A line that begins with a blank continues the value. *)
Fold ==
  /\ At("value_lws") /\ token = SP
  /\ parser' = [parser EXCEPT
       !.state = "value_start",
       !.kind = CASE @ = "number" -> "number_ws"
                  [] @ = "encoding" /\ parser.seen = <<>> -> @
                  [] @ = "number_ws" -> @
                  [] OTHER -> "general"]
  /\ UNCHANGED <<wire, exec, header, req>>

HeaderDone ==
  /\ At("value_lws") /\ token # SP
  /\ parser' = [parser EXCEPT !.state = "field_start", !.kind = "general",
                  !.flags = @ \cup FlagOf(parser.kind, parser.seen)]
  /\ UNCHANGED <<wire, exec, header, req>>

EmptyValue ==
  /\ At("discard_lws") /\ token # SP
  /\ parser' = [parser EXCEPT !.state = "field_start", !.kind = "general"]
  /\ OnHeaderValue(<<>>)
  /\ UNCHANGED <<wire, exec>>

(* set_connection_parameters. *)
CloseConnection(version, flags) ==
  CASE version = "HTTP/1.0" -> "keep-alive" \notin flags
    [] version = "HTTP/1.1" -> "close" \in flags
    [] OTHER -> FALSE

(* The headers are complete: the last one is filed, empty or not, and what *)
(* they say of the connection is noted in the request.                     *)
OnHeadersComplete(upgrade) ==
  /\ LET complete == IF header.field = <<>> THEN req ELSE Filed
     IN req' = [complete EXCEPT !.upgrade = upgrade,
                  !.close = CloseConnection(parser.version, parser.flags)]
  /\ header' = [header EXCEPT !.field = <<>>, !.value = <<>>]

HeadersEnd ==
  /\ At("headers_almost_done") /\ "trailing" \notin parser.flags
  /\ parser' = [parser EXCEPT !.state = "headers_done",
                              !.upgrade = "upgrade" \in parser.flags]
  /\ OnHeadersComplete(parser'.upgrade)
  /\ UNCHANGED <<wire, exec>>

-----------------------------------------------------------------------------
(* The body.                                                               *)
NoBody ==
  \/ parser.upgrade
  \/ "chunked" \notin parser.flags /\ parser.left \in {0, NoLength}

BodyFollows ==
  /\ At("headers_done") /\ ~NoBody
  /\ parser' = [parser EXCEPT !.state = IF "chunked" \in parser.flags
                                        THEN "chunk_size_start" ELSE "body"]
  /\ exec' = Ahead
  /\ UNCHANGED <<wire, header, req>>

(* What there is to read of the body in this call. *)
Portion == Min({parser.left, exec.end - exec.pos + 1})

(* The last token is looked at twice: the request is complete behind it.   *)
Body ==
  /\ At("body")
  /\ IF Portion < parser.left
     THEN /\ exec' = [Marked("body") EXCEPT !.pos = exec.pos + Portion]
          /\ parser' = [parser EXCEPT !.left = @ - Portion]
          /\ UNCHANGED req
     ELSE /\ exec' = [exec EXCEPT !.pos = @ + Portion - 1]
          /\ parser' = [parser EXCEPT !.left = 0, !.state = "message_done"]
          /\ req' = [req EXCEPT !.body =
                       @ \o SubSeq(wire, exec.pos, exec.pos + Portion - 1)]
  /\ UNCHANGED <<wire, header>>

OnBody == req' = [req EXCEPT !.body = @ \o Data]

(* The tokens end inside a body or a chunk. *)
BodyPart ==
  /\ AtEnd /\ exec.mark = "body"
  /\ OnBody
  /\ exec' = Unmarked(exec)
  /\ UNCHANGED <<wire, parser, header>>

ChunkSize ==
  /\ At("chunk_size_start") \/ At("chunk_size")
  /\ token \in Hex
  /\ parser' = [parser EXCEPT !.state = "chunk_size", !.left =
                  IF parser.state = "chunk_size" THEN 16 * @ + Number[token]
                  ELSE Number[token]]
  /\ exec' = Ahead
  /\ UNCHANGED <<wire, header, req>>

ChunkParameter ==
  /\ At("chunk_parameters") /\ token # CR
  /\ exec' = Ahead
  /\ UNCHANGED <<wire, parser, header, req>>

(* Behind a chunk of size 0 come the trailing headers. *)
ChunkSizeDone ==
  /\ At("chunk_size_almost_done")
  /\ parser' = IF parser.left = 0
               THEN [parser EXCEPT !.state = "field_start",
                                   !.flags = @ \cup {"trailing"}]
               ELSE [parser EXCEPT !.state = "chunk_data"]
  /\ exec' = Ahead
  /\ UNCHANGED <<wire, header, req>>

ChunkData ==
  /\ At("chunk_data")
  /\ exec' = [Marked("body") EXCEPT !.pos = exec.pos + Portion]
  /\ parser' = [parser EXCEPT !.left = @ - Portion, !.state =
                  IF Portion = parser.left THEN "chunk_data_almost_done" ELSE @]
  /\ UNCHANGED <<wire, header, req>>

ChunkDataDone ==
  /\ At("chunk_data_almost_done")
  /\ IF exec.mark = "body" THEN OnBody ELSE UNCHANGED req
  /\ parser' = [parser EXCEPT !.state = "chunk_data_done"]
  /\ exec' = Unmarked(Ahead)
  /\ UNCHANGED <<wire, header>>

(* The request is complete.  An upgrade ends the call, whatever follows.   *)
(* The parser is cleared when the answer has been written, and the flags,  *)
(* the method and the upgrade stay until the next request sets them.       *)
Completing ==
  \/ At("headers_done") /\ NoBody
  \/ At("headers_almost_done") /\ "trailing" \in parser.flags
  \/ At("message_done")

Complete(answered) ==
  /\ Completing
  /\ exec' = [Ahead EXCEPT !.over = parser.upgrade]
  /\ IF answered
     THEN /\ parser' = [parser EXCEPT !.state = "start", !.qs = 0]
          /\ header' = NewHeader
          /\ req' = NewRequest
     ELSE UNCHANGED <<parser, header, req>>
  /\ UNCHANGED wire

(* The actions that do not involve the connection. *)
ParserNext ==
  \/ Fail \/ Step
  \/ Start \/ MethodLetter \/ UrlStart \/ UrlChar \/ HttpVersion
  \/ FieldStart \/ EmptyLine \/ Field \/ FieldEnds
  \/ ValueStart \/ Value \/ ValueEnds \/ Fold \/ HeaderDone \/ EmptyValue
  \/ BodyFollows \/ Body \/ BodyPart
  \/ ChunkSize \/ ChunkParameter \/ ChunkSizeDone \/ ChunkData \/ ChunkDataDone

=============================================================================
