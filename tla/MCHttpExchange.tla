--------------------------- MODULE MCHttpExchange ---------------------------
(* Model checking HttpExchange: tables of up to three rules out of eleven,  *)
(* compared with their tries on all short URLs, and some forty              *)
(* conversations with the table of the server, cut in every way.            *)
EXTENDS HttpExchange, TLC

GetRule(pattern) == [pattern |-> pattern, method |-> "GET", kind |-> "handler"]
PostRule(pattern) == [pattern |-> pattern, method |-> "POST", kind |-> "handler"]

(* The table of the server: setup_routes, then the static directory that   *)
(* run() adds.                                                             *)
ChatRule == [pattern |-> <<"/">>, method |-> "GET", kind |-> "websocket"]
StaticRule == GetRule(<<"/", "static", "/", "<path>">>)
MCServed == {<<ChatRule, StaticRule>>}
MCFiles == {<<"a">>, <<"_">>}

MCRule ==
  {ChatRule, StaticRule, PostRule(<<"/">>), PostRule(<<"/", "<string>">>)}
    \cup {GetRule(p) : p \in
            {<<"/", "a">>, <<"/", "a", "/">>, <<"/", "a", "1">>,
             <<"/", "<int>">>, <<"/", "<string>", "/">>,
             <<"/", "a", "/", "<path>">>, <<"/", "<string>", "/", "a">>}}
MCUrl ==
  {<<"/">> \o u : u \in UNION {[1..n -> {"/", "a", "1"}] : n \in 0..3}}

-----------------------------------------------------------------------------
CRLF == <<CR, LF>>
Here == <<SP, "v">>
Root1 == <<"/">>
Static == <<"/", "static", "/", "a">>
Ana == <<"name", "=", "ana">>
HostIs == <<Host, Here>>
TE == TransferEncoding
CL == <<"Content-", "Length">>
Other == <<"X-", "Other">>

Get11(path, query, headers) ==
  [verb |-> "GET", path |-> path, query |-> query, version |-> "HTTP/1.1",
   headers |-> headers, eol |-> CRLF, tail |-> <<>>, content |-> <<>>,
   trailer |-> <<>>, faulty |-> FALSE]
Verbed(verb, m) == [m EXCEPT !.verb = verb]
Versioned(version, m) == [m EXCEPT !.version = version]
WithBody(tail, content, m) == [m EXCEPT !.tail = tail, !.content = content]
Faulty(m) == [m EXCEPT !.faulty = TRUE]

Check == Get11(Root1, Ana, <<HostIs>>)
Page == Get11(Static, <<>>, <<HostIs>>)
With(headers) == Get11(Static, <<>>, <<HostIs>> \o headers)

(* Paths, queries and routes. *)
Routed1 ==
  {<<Check, Page>>, <<Page, Check>>,
   <<Get11(Root1, <<"x", "&", "name", "=", "a", "=", "1">>, <<HostIs>>)>>,
   <<Get11(Root1, <<"x", "?", "name", "&", "name">>, <<HostIs>>)>>,
   <<Get11(Root1, <<"n%61me", "=", "a", "+", "a", "%", "1">>, <<HostIs>>)>>,
   <<Get11(Root1, <<"n%61me", "%", "&", "x", "&", "name">>, <<HostIs>>)>>,
   <<Get11(Static, <<"a">>, <<HostIs>>), Get11(Root1, <<>>, <<HostIs>>)>>,
   <<Get11(<<"/", "a">>, <<>>, <<HostIs>>), Page>>,
   <<Get11(<<"http", ":", "/", "/", "a", "/", "static">>, <<>>, <<HostIs>>)>>,
   <<Get11(<<"http", ":", "/", "/", "a", "@", "ana">>, Ana, <<HostIs>>)>>,
   <<Verbed("PURGE", Page)>>, <<Verbed("PATCH", Check)>>,
   <<Verbed("PUT", Get11(<<"/", "a">>, <<>>, <<HostIs>>))>>,
   <<Verbed("OPTIONS", Get11(<<"*">>, <<>>, <<HostIs>>))>>,
   <<Verbed("POST", Check)>>, <<Verbed("OPTIONS", Check)>>,
   <<Verbed("OPTIONS", Get11(<<"/", "a">>, <<>>, <<HostIs>>))>>,
   <<Verbed("HEAD", Page), Verbed("HEAD", Get11(Root1, <<>>, <<HostIs>>))>>,
   <<Verbed("HEAD", Get11(<<"/", "x">>, <<>>, <<HostIs>>))>>,
   <<Verbed("HEAD", Page), Check>>,
   <<Get11(<<"/", "static", "/", "con">>, <<>>, <<HostIs>>)>>,
   <<Get11(<<"/", "static", "/", "x", "/", "..", "/">>, <<>>, <<HostIs>>)>>}

(* Versions and the end of the connection. *)
Lasting ==
  {<<Get11(Root1, Ana, <<>>), Page>>,
   <<Verbed("HEAD", Get11(Static, <<>>, <<>>)), Check>>,
   <<With(<< <<Connection, <<SP, "clo", "se">>>> >>), Page>>,
   <<With(<< <<Connection, <<"clo", "se", "v">>>> >>), Page>>,
   <<Get11(Root1, Ana, <<HostIs, <<Connection, <<SP, "clo", "se">>>> >>), Page>>,
   <<Versioned("HTTP/1.0", Check), Check>>,
   <<Versioned("HTTP/1.0", Page), Page>>,
   <<Versioned("HTTP/1.0", With(<< <<Connection, <<SP, "keep-", "alive">>>> >>)),
     Page>>,
   <<Versioned("HTTP/1.0",
       With(<< <<<<"Proxy-", "Conn", "ection">>, <<SP, "clo", "se">>>> >>)), Page>>,
   <<Versioned("HTTP/0.9", Get11(Root1, Ana, <<>>)), Page>>,
   <<Faulty(Versioned("HTTP/x", Page))>>,
   <<Faulty(Verbed("HEAD", Versioned("HTTP/0.9", Page)))>>,
   <<[Page EXCEPT !.eol = <<LF>>], Page>>}

(* Headers in several parts, folded, and empty. *)
Headed ==
  {<<With(<< <<Other, <<SP, "v", CR, LF, SP, "v">>>>, <<Other, <<>>>>,
             <<Other, <<SP, CR, LF, SP, "v">>>> >>)>>,
   <<[With(<< <<Other, <<SP>>>>, <<Other, <<SP>>>> >>) EXCEPT !.eol = <<LF>>]>>,
   <<Faulty(With(<< <<Other, <<SP>>>>, <<<<"v">>, <<>>>> >>))>>}

(* Bodies. *)
Length(raw) == << <<CL, raw>> >>
Coding(raw) == << <<TE, raw>> >>
TwoChunks ==
  <<"2", ";", "x", CR, LF, "v", "v", CR, LF, "1", CR, LF, "v", CR, LF,
    "0", CR, LF>>
Bodied ==
  {<<WithBody(<<"v", "v">>, <<"v", "v">>, With(Length(<<SP, "2">>))), Page>>,
   <<WithBody(<<"v", "v">>, <<"v", "v">>,
       With(Length(<<SP, "0", "2", CR, LF, SP>>)))>>,
   <<WithBody(<<CR, LF>>, <<>>, With(Length(<<"0", SP>>))), Page>>,
   <<WithBody(TwoChunks \o CRLF, <<"v", "v", "v">>,
       With(Coding(<<SP, "chunk", "ed">>))), Page>>,
   <<[WithBody(TwoChunks, <<"v", "v", "v">>,
        With(Coding(<<"v", ",", SP, "chunk", "ed", SP>>)))
        EXCEPT !.trailer = << <<Other, Here>>, <<Other, Here>> >>]>>,
   <<WithBody(<<"0", "0", SP, CR, LF, CR, LF>>, <<>>,
       With(Coding(<<",", ",", "chunk", "ed">>))), Page>>,
   <<Faulty(WithBody(TwoChunks, <<>>, With(Coding(<<"chunk", "ed", ",", "v">>))))>>,
   <<Faulty(WithBody(TwoChunks, <<>>,
       With(Coding(<<"v", ",", ",", "chunk", "ed">>))))>>,
   <<Faulty(WithBody(TwoChunks, <<>>,
       With(Coding(<<"chunk", "ed">>) \o Length(<<"2">>))))>>,
   <<Faulty(With(Length(<<"2">>) \o Length(<<"2">>)))>>,
   <<Faulty(With(Length(<<SP, "v">>)))>>, <<Faulty(With(Length(<<"1", "v">>)))>>,
   <<Faulty(With(Length(<<"1", SP, "2">>)))>>,
   <<Faulty(WithBody(<<"v", CR, LF>>, <<>>, With(Coding(<<"chunk", "ed">>))))>>}

(* Upgrades, and a client that waits to be asked for the body. *)
Offer(raw) == << <<Connection, <<"Up", "grade">>>>, <<Upgrade, raw>> >>
Asking ==
  {<<Get11(Root1, Ana, <<HostIs>> \o Offer(<<SP, "web", "socket">>)), Page>>,
   <<With(Offer(<<"web", "socket">>)), Page>>,
   <<Get11(Root1, Ana, <<HostIs>> \o Offer(<<SP, "h", "2c">>)), Page>>,
   <<Verbed("HEAD", Get11(Root1, Ana, <<HostIs>> \o Offer(<<"web", "socket">>)))>>,
   <<WithBody(<<"v", "v">>, <<"v", "v">>,
       With(<< <<Expect, <<"100-", "continue">>>> >> \o Length(<<"2">>))), Page>>}

MCToken ==
  MethodToken \cup UrlToken \cup FieldWord \cup Version \cup Hex
    \cup {SP, CR, LF, "?", ";", ",", "HTTP/0.9", "HTTP/x", "v", "clo", "se",
          "keep-", "alive", "chunk", "ed", "web", "socket", "h", "2c",
          "100-", "continue"}
MCTalk == Routed1 \cup Lasting \cup Headed \cup Bodied \cup Asking

=============================================================================
