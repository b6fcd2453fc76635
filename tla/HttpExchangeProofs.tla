-------------------------- MODULE HttpExchangeProofs --------------------------
(***************************************************************************)
(* Proofs about HttpExchange, for every table of rules, every conversation *)
(* and every way it is cut into reads: the client can tell the answers     *)
(* apart (ResponsesFramed), the merged tries find what the list of rules   *)
(* says (RoutesAgree, in the second part), and the strings of a request do *)
(* not depend on the cuts (TextAsRead, in the third).                      *)
(*                                                                         *)
(* One response object serves all the requests of a connection, and each   *)
(* answer leaves something in it.  The invariant says what: between two    *)
(* answers it is Clean, or the client was sent the 400 of a HEAD, which    *)
(* ResponsesFramed excuses (Excused), or nothing is answered any more      *)
(* (Quiet).  That skip_body, which a HEAD sets when its URL is complete, is*)
(* never there for the answer to another request rests on the parser: from *)
(* the end of the URL to the end of the request it keeps the method.       *)
(***************************************************************************)
EXTENDS HttpExchange, SequenceTheorems, FiniteSetTheorems, WellFoundedInduction, TLAPS

(* The objects have their fields, whatever is in them. *)
Fields ==
  /\ {"mark", "over"} \subseteq DOMAIN exec
  /\ {"state", "method", "upgrade", "errno"} \subseteq DOMAIN parser
  /\ {"upgrade"} \subseteq DOMAIN req
  /\ {"place", "open", "closing"} \subseteq DOMAIN conn
  /\ {"code", "body", "length", "file", "completed", "skip_body",
      "manual_length_header"} \subseteq DOMAIN res
  /\ \E S : written \in Seq(S)

MethodStates == {"start", "method"}   \* the method is still being read

MarkFits == exec.mark = "url" => parser.state \in UrlHead \cup InUrl
UpgradeFits == req.upgrade => parser.upgrade

Excused == \E j \in DOMAIN written : written[j].verb = "HEAD" /\ written[j].code = "400"
Quiet ==
  \/ conn.place \notin {"none", "reading", "parsing"}
  \/ parser.errno
  \/ conn.place = "parsing" /\ exec.over /\ conn.closing
Bare(r) ==
  /\ r.body = "empty" /\ r.length = "none" /\ ~r.file
  /\ ~r.completed /\ ~r.manual_length_header
Clean ==
  /\ Bare(res)
  /\ res.skip_body => parser.method = "HEAD" /\ parser.state \notin MethodStates

FramedInv ==
  /\ Fields /\ MarkFits /\ UpgradeFits
  /\ Excused \/ Quiet \/ Clean
  /\ ResponsesFramed

-----------------------------------------------------------------------------
(* The parser.                                                             *)

(* A URL goes on in a state of a URL, or is refused. *)
LEMMA UrlStates ==
  ASSUME NEW state, NEW t
  PROVE  UrlState(state, t) \in UrlHead \cup InUrl \cup {"dead"}
  BY DEF UrlState, UrlHead, InUrl, Server

(* What every action of the parser keeps: the fields of its variables, the *)
(* mark of a URL, the upgrade, and the method behind the method.           *)
Kept ==
  /\ {"mark", "over"} \subseteq DOMAIN exec'
  /\ {"state", "method", "upgrade", "errno"} \subseteq DOMAIN parser'
  /\ {"upgrade"} \subseteq DOMAIN req'
  /\ exec'.mark = "url" => parser'.state \in UrlHead \cup InUrl
  /\ parser'.upgrade = parser.upgrade
  /\ req'.upgrade = req.upgrade
  /\ parser.state \notin MethodStates =>
       parser'.state \notin MethodStates /\ parser'.method = parser.method
  /\ parser.state \in MethodStates => parser'.state \in MethodStates \cup {"spaces_before_url"}

LEMMA ParserKeeps ==
  ASSUME Fields, MarkFits, ParserNext
  PROVE  Kept /\ Calling
<1> USE DEF Fields, MarkFits, Kept, MethodStates, Calling, Reading, At, AtEnd, Ahead, Unmarked, Marked
<1>1. CASE Fail
  BY <1>1 DEF Fail
<1>2. CASE Step
  <2>1. PICK t \in RequestLine \cup HeaderLines \cup ChunkLines :
               /\ parser.state = t[1] /\ Calling
               /\ parser' = [parser EXCEPT !.state = t[3]]
    BY <1>2 DEF Step
  <2>2. /\ t[1] \notin UrlHead \cup InUrl
        /\ t[1] \in MethodStates => t[3] \in MethodStates \cup {"spaces_before_url"}
        /\ t[1] \notin MethodStates => t[3] \notin MethodStates
    <3>1. CASE t \in RequestLine
      BY <3>1 DEF RequestLine, UrlHead, InUrl, Server
    <3>2. CASE t \in HeaderLines
      BY <3>2 DEF HeaderLines, UrlHead, InUrl, Server
    <3>3. CASE t \in ChunkLines
      <4>1. \E c : \/ t = <<"chunk_size", c, "chunk_size_almost_done">>
                   \/ t = <<"chunk_size", c, "chunk_parameters">>
                   \/ t = <<"chunk_parameters", c, "chunk_size_almost_done">>
                   \/ t = <<"chunk_data_done", c, "chunk_size_start">>
        BY <3>3, Zenon DEF ChunkLines
      <4> QED BY <4>1 DEF UrlHead, InUrl, Server
    <3> QED BY <3>1, <3>2, <3>3
  <2> QED BY <1>2, <2>1, <2>2 DEF Step
<1>3. CASE Start
  BY <1>3 DEF Start, UrlHead, InUrl, Server
<1>4. CASE MethodLetter
  BY <1>4 DEF MethodLetter, UrlHead, InUrl, Server
<1>5. CASE UrlStart
  <2>1. UrlState(parser.state, token) \in UrlHead \cup InUrl
    BY <1>5, UrlStates DEF UrlStart, Wrong, BadUrl
  <2>2. parser'.state = UrlState(parser.state, token)
    BY <1>5 DEF UrlStart
  <2> QED BY <1>5, <2>1, <2>2 DEF UrlStart, UrlHead, InUrl, Server
<1>6. CASE UrlChar
  <2>1. UrlState(parser.state, token) \in UrlHead \cup InUrl
    BY <1>6, UrlStates DEF UrlChar, Wrong, BadUrl
  <2>2. parser'.state = UrlState(parser.state, token)
    BY <1>6 DEF UrlChar
  <2> QED BY <1>6, <2>1, <2>2 DEF UrlChar, UrlHead, InUrl, Server
<1>7. CASE HttpVersion
  BY <1>7 DEF HttpVersion, UrlHead, InUrl, Server
<1>8. CASE FieldStart
  BY <1>8 DEF FieldStart
<1>9. CASE EmptyLine
  BY <1>9 DEF EmptyLine, UrlHead, InUrl, Server
<1>10. CASE Field
  BY <1>10 DEF Field, UrlHead, InUrl, Server
<1>11. CASE FieldEnds
  BY <1>11 DEF FieldEnds, OnHeaderField, Filed
<1>12. CASE ValueStart
  BY <1>12 DEF ValueStart
<1>13. CASE Value
  BY <1>13 DEF Value, UrlHead, InUrl, Server
<1>14. CASE ValueEnds
  BY <1>14 DEF ValueEnds, OnHeaderValue
<1>15. CASE Fold
  BY <1>15 DEF Fold, UrlHead, InUrl, Server
<1>16. CASE HeaderDone
  BY <1>16 DEF HeaderDone, UrlHead, InUrl, Server
<1>17. CASE EmptyValue
  BY <1>17 DEF EmptyValue, OnHeaderValue, UrlHead, InUrl, Server
<1>18. CASE BodyFollows
  BY <1>18 DEF BodyFollows, UrlHead, InUrl, Server
<1>19. CASE Body
  BY <1>19 DEF Body, UrlHead, InUrl, Server
<1>20. CASE BodyPart
  BY <1>20 DEF BodyPart, OnBody
<1>21. CASE ChunkSize
  BY <1>21 DEF ChunkSize, UrlHead, InUrl, Server
<1>22. CASE ChunkParameter
  BY <1>22 DEF ChunkParameter
<1>23. CASE ChunkSizeDone
  BY <1>23 DEF ChunkSizeDone, UrlHead, InUrl, Server
<1>24. CASE ChunkData
  BY <1>24 DEF ChunkData
<1>25. CASE ChunkDataDone
  BY <1>25 DEF ChunkDataDone, OnBody
<1> QED
  BY <1>1, <1>2, <1>3, <1>4, <1>5, <1>6, <1>7, <1>8, <1>9, <1>10, <1>11, <1>12,
     <1>13, <1>14, <1>15, <1>16, <1>17, <1>18, <1>19, <1>20, <1>21, <1>22,
     <1>23, <1>24, <1>25
  DEF ParserNext

-----------------------------------------------------------------------------
(* The response.                                                           *)
ResponseFields ==
  {"code", "body", "length", "file", "completed", "skip_body",
   "manual_length_header"}
Announced(r) ==
  \/ r.length = "file" /\ r.file
  \/ r.length = "none" /\ ~r.manual_length_header /\ ~r.file

LEMMA Framing ==
  ASSUME NEW verb, NEW r, Announced(r)
  PROVE  LET w == Written(verb, r) IN w.length = w.follows
  BY DEF Announced, Written

LEMMA WrittenAs ==
  ASSUME NEW verb, NEW r
  PROVE  Written(verb, r).verb = verb /\ Written(verb, r).code = r.code
  BY DEF Written

(* end() announces nothing for a response that has a body to follow. *)
LEMMA EndTold ==
  ASSUME NEW r, ResponseFields \subseteq DOMAIN r, Announced(r), ~r.skip_body
  PROVE  Announced(End(r))
  BY DEF Announced, End, ResponseFields

(* What the kinds of answer make of a clean response. *)
LEMMA RepliesTold ==
  ASSUME NEW r, ResponseFields \subseteq DOMAIN r, Bare(r), ~r.skip_body,
         NEW code, NEW verb, NEW path
  PROVE  /\ Announced(Assigned(r, code))
         /\ Announced(End(Assigned(r, code)))
         /\ Announced(End(Text(r, code)))
         /\ Announced(EarlyReply(r, verb, code))
         /\ Announced(StaticReply(r, path))
<1> USE DEF ResponseFields, Bare
<1>1. /\ Announced(Assigned(r, code)) /\ ~Assigned(r, code).skip_body
      /\ ResponseFields \subseteq DOMAIN Assigned(r, code)
  BY DEF Assigned, Announced
<1>2. /\ Announced(Text(r, code)) /\ ~Text(r, code).skip_body
      /\ ResponseFields \subseteq DOMAIN Text(r, code)
  BY DEF Text, Announced
<1>3. /\ Announced(GetError(r, code)) /\ ~GetError(r, code).skip_body
      /\ ResponseFields \subseteq DOMAIN GetError(r, code)
  BY DEF GetError, Announced
<1>4. LET s == SetStaticFileInfo(r, SanitizeFilename(path))
      IN Announced(s) /\ ~s.skip_body /\ ResponseFields \subseteq DOMAIN s
  BY DEF SetStaticFileInfo, Announced
<1> QED BY <1>1, <1>2, <1>3, <1>4, EndTold DEF EarlyReply, StaticReply

(* Whatever was in it, a response that is cleared has nothing of the answer*)
(* in it but the two flags clear() forgets, which end() resets.            *)
LEMMA Cleared ==
  ASSUME NEW r, ResponseFields \subseteq DOMAIN r
  PROVE  /\ ResponseFields \subseteq DOMAIN Clear(r)
         /\ Clear(r).skip_body = r.skip_body
         /\ Clear(r).manual_length_header = r.manual_length_header
         /\ ~r.manual_length_header => Bare(Clear(r))
         /\ ResponseFields \subseteq DOMAIN Ended(Clear(r))
         /\ Bare(Ended(Clear(r))) /\ ~Ended(Clear(r)).skip_body
  BY DEF Clear, Assigned, Ended, Bare, ResponseFields

LEMMA RepliesKeep ==
  ASSUME NEW r, ResponseFields \subseteq DOMAIN r, NEW code, NEW verb, NEW path
  PROVE  /\ ResponseFields \subseteq DOMAIN End(r)
         /\ ResponseFields \subseteq DOMAIN Assigned(r, code)
         /\ ResponseFields \subseteq DOMAIN SkipBody(r, verb)
         /\ ResponseFields \subseteq DOMAIN EarlyReply(r, verb, code)
         /\ ResponseFields \subseteq DOMAIN StaticReply(r, path)
         /\ ResponseFields \subseteq DOMAIN Text(r, code)
  BY DEF End, Assigned, SkipBody, EarlyReply, StaticReply, GetError, Text,
     SetStaticFileInfo, ResponseFields

LEMMA SkipKeeps ==
  ASSUME NEW r, ResponseFields \subseteq DOMAIN r, Bare(r), NEW verb
  PROVE  /\ Bare(SkipBody(r, verb))
         /\ SkipBody(r, verb).skip_body => r.skip_body \/ verb = "HEAD"
  BY DEF SkipBody, Bare, ResponseFields

-----------------------------------------------------------------------------
(* What has been written.                                                  *)
Excuses(w) == \E j \in DOMAIN w : w[j].verb = "HEAD" /\ w[j].code = "400"
Frames(w) ==
  \A i \in DOMAIN w :
    \/ w[i].length = w[i].follows
    \/ \E j \in 1..i : w[j].verb = "HEAD" /\ (j = i \/ w[j].code = "400")

LEMMA Appended ==
  ASSUME NEW S, NEW w \in Seq(S), NEW e, Frames(w),
         \/ e.length = e.follows
         \/ e.verb = "HEAD"
         \/ Excuses(w)
  PROVE  /\ Append(w, e) \in Seq(S \cup {e})
         /\ Frames(Append(w, e))
         /\ Excuses(w) => Excuses(Append(w, e))
         /\ e.verb = "HEAD" /\ e.code = "400" => Excuses(Append(w, e))
<1> DEFINE n == Len(w)
           s == Append(w, e)
<1>1. w \in Seq(S \cup {e}) /\ n \in Nat /\ DOMAIN w = 1..n
  OBVIOUS
<1>2. /\ s \in Seq(S \cup {e}) /\ DOMAIN s = 1..(n + 1)
      /\ \A i \in 1..n : s[i] = w[i]
      /\ s[n + 1] = e
  BY <1>1
<1>3. Excuses(w) => Excuses(s)
  BY <1>1, <1>2 DEF Excuses
<1>4. e.verb = "HEAD" /\ e.code = "400" => Excuses(s)
  BY <1>1, <1>2 DEF Excuses
<1>5. ASSUME NEW i \in DOMAIN s
      PROVE  \/ s[i].length = s[i].follows
             \/ \E j \in 1..i : s[j].verb = "HEAD" /\ (j = i \/ s[j].code = "400")
  <2>1. CASE i \in 1..n
    <3>1. \A j \in 1..i : s[j] = w[j]
      BY <1>1, <1>2, <2>1
    <3> QED BY <1>1, <1>2, <2>1, <3>1 DEF Frames
  <2>2. CASE i = n + 1
    <3>1. CASE e.length = e.follows
      BY <1>2, <2>2, <3>1
    <3>2. CASE e.verb = "HEAD"
      <4>1. i \in 1..i /\ s[i].verb = "HEAD"
        BY <1>1, <1>2, <2>2, <3>2
      <4> QED BY <4>1
    <3>3. CASE Excuses(w)
      <4>1. PICK j \in DOMAIN w : w[j].verb = "HEAD" /\ w[j].code = "400"
        BY <3>3 DEF Excuses
      <4>2. j \in 1..i /\ s[j].verb = "HEAD" /\ s[j].code = "400"
        BY <4>1, <1>1, <1>2, <2>2
      <4> QED BY <4>2
    <3> QED BY <3>1, <3>2, <3>3
  <2> QED BY <1>1, <1>2, <2>1, <2>2
<1> QED BY <1>2, <1>3, <1>4, <1>5 DEF Frames

LEMMA WroteWell ==
  ASSUME FramedInv, NEW verb, NEW r, written' = Write(verb, r),
         Announced(r) \/ verb = "HEAD" \/ Excused
  PROVE  /\ (\E S : written \in Seq(S))'
         /\ ResponsesFramed'
         /\ Excused => Excused'
         /\ conn.open /\ verb = "HEAD" /\ r.code = "400" => Excused'
<1> DEFINE e == Written(verb, r)
<1>1. PICK S : written \in Seq(S)
  BY DEF FramedInv, Fields
<1>2. Frames(written) /\ (Excused <=> Excuses(written))
  BY DEF FramedInv, ResponsesFramed, Frames, Excused, Excuses
<1>3. (ResponsesFramed' <=> Frames(written')) /\ (Excused' <=> Excuses(written'))
  BY DEF ResponsesFramed, Frames, Excused, Excuses
<1>4. /\ e.verb = verb /\ e.code = r.code
      /\ e.length = e.follows \/ e.verb = "HEAD" \/ Excuses(written)
  BY <1>2, Framing, WrittenAs
<1> HIDE DEF e
<1>5. CASE conn.open
  <2>1. written' = Append(written, e)
    BY <1>5 DEF Write, e
  <2>2. /\ Append(written, e) \in Seq(S \cup {e})
        /\ Frames(Append(written, e))
        /\ Excuses(written) => Excuses(Append(written, e))
        /\ e.verb = "HEAD" /\ e.code = "400" => Excuses(Append(written, e))
    BY <1>1, <1>2, <1>4, Appended
  <2> QED BY <1>2, <1>3, <1>4, <2>1, <2>2
<1>6. CASE ~conn.open
  BY <1>1, <1>2, <1>3, <1>6 DEF Write
<1> QED BY <1>5, <1>6

-----------------------------------------------------------------------------
(* When nothing is answered any more, that is so for good. *)
LEMMA QuietStays ==
  ASSUME FramedInv, ExchangeNext, Quiet
  PROVE  Quiet' /\ written' = written
<1> USE DEF Quiet, FramedInv, Fields
<1>1. CASE SetUp
  BY <1>1 DEF SetUp, NoConnection, parserVars, replyVars
<1>2. CASE Connect
  BY <1>2 DEF Connect, replyVars
<1>3. CASE Read
  BY <1>3 DEF Read, Feed, replyVars
<1>4. CASE ClientLeaves
  BY <1>4 DEF ClientLeaves, parserVars, replyVars
<1>5. CASE Parse
  BY <1>5, ParserKeeps DEF Parse, Calling
<1>6. CASE HandleUrl
  BY <1>6 DEF HandleUrl, UrlEnding, AtEnd, At, Reading, Calling
<1>7. CASE HandleHeader
  BY <1>7 DEF HandleHeader, HeadersEnd, At, Reading, Calling
<1>8. CASE HandleReply
  BY <1>8 DEF HandleReply, Completing, At, Reading, Calling
<1>9. CASE HandleUpgraded
  BY <1>9 DEF HandleUpgraded, Completing, At, Reading, Calling
<1>10. CASE HandleThrows
  BY <1>10 DEF HandleThrows, Completing, At, Reading, Calling
<1>11. CASE ReadDone
  BY <1>11 DEF ReadDone, parserVars, replyVars
<1> QED BY <1>1, <1>2, <1>3, <1>4, <1>5, <1>6, <1>7, <1>8, <1>9, <1>10, <1>11
        DEF ExchangeNext

-----------------------------------------------------------------------------
(* The answers.                                                            *)

LEMMA NewRequestIs == {"upgrade"} \subseteq DOMAIN NewRequest /\ ~NewRequest.upgrade
  BY DEF NewRequest

(* A URL that is answered at once: the reply is announced, for a HEAD whose*)
(* body is kept back the client can tell.                                  *)
LEMMA HandleUrlStep ==
  ASSUME FramedInv, HandleUrl, Excused \/ Clean
  PROVE  FramedInv'
<1> DEFINE url == PathOf(RawSoFar)
           verb == parser.method
           found == HandleInitial(verb, url)
           reply == EarlyReply(res, verb, found.code)
           goesOn == found.code = "none"
<1>1. /\ conn.place = "parsing" /\ UrlEnding
      /\ UrlEnds(goesOn)
      /\ conn' = [conn EXCEPT !.route = found]
      /\ goesOn => res' = SkipBody(res, verb) /\ written' = written
      /\ ~goesOn => res' = Clear(reply) /\ written' = Write(verb, reply)
  BY DEF HandleUrl
<1> HIDE DEF url, verb, found, reply, goesOn
<1>2. /\ parser.state \in UrlHead \cup InUrl /\ parser.state \notin MethodStates
      /\ exec'.mark = "none"
      /\ {"mark", "over"} \subseteq DOMAIN exec'
      /\ {"state", "method", "upgrade", "errno"} \subseteq DOMAIN parser'
      /\ {"upgrade"} \subseteq DOMAIN req'
  <2>1. parser.state \in UrlHead \cup InUrl
    BY <1>1 DEF UrlEnding, FramedInv, MarkFits
  <2>2. exec'.mark = "none" /\ {"mark", "over"} \subseteq DOMAIN exec'
    BY <1>1 DEF UrlEnds, FramedInv, Fields, Unmarked, Ahead
  <2>3. {"state", "method", "upgrade", "errno"} \subseteq DOMAIN parser'
    BY <1>1 DEF UrlEnds, FramedInv, Fields
  <2>4. {"upgrade"} \subseteq DOMAIN req'
    BY <1>1, NewRequestIs DEF UrlEnds, FramedInv, Fields
  <2> QED BY <2>1, <2>2, <2>3, <2>4 DEF UrlHead, InUrl, Server, MethodStates
<1>3. goesOn => /\ parser'.method = parser.method /\ parser'.upgrade = parser.upgrade
                /\ parser'.state \notin MethodStates /\ req'.upgrade = req.upgrade
  BY <1>1, <1>2 DEF UrlEnds, FramedInv, Fields, MethodStates
<1>4. ~goesOn => parser'.errno /\ ~req'.upgrade
  <2>1. ~goesOn => /\ parser' = [parser EXCEPT !.state = "start", !.qs = 0, !.errno = TRUE]
                   /\ req' = NewRequest
    BY <1>1 DEF UrlEnds
  <2> QED BY <2>1, NewRequestIs DEF FramedInv, Fields
<1>5. ResponseFields \subseteq DOMAIN res' /\ {"place", "open", "closing"} \subseteq DOMAIN conn'
  <2>1. ResponseFields \subseteq DOMAIN res
    BY DEF FramedInv, Fields, ResponseFields
  <2>2. /\ ResponseFields \subseteq DOMAIN SkipBody(res, verb)
        /\ ResponseFields \subseteq DOMAIN Clear(reply)
    BY <2>1, RepliesKeep, Cleared DEF reply
  <2> QED BY <1>1, <2>2 DEF FramedInv, Fields
<1>6. CASE goesOn
  <2>1. Clean => Clean'
    <3> SUFFICES ASSUME Clean PROVE Clean'
      OBVIOUS
    <3>1. ResponseFields \subseteq DOMAIN res
      BY DEF FramedInv, Fields, ResponseFields
    <3>2. Bare(res') /\ (res'.skip_body => res.skip_body \/ verb = "HEAD")
      <4>1. Bare(res)
        BY DEF Clean
      <4>2. /\ Bare(SkipBody(res, verb))
            /\ SkipBody(res, verb).skip_body => res.skip_body \/ verb = "HEAD"
        BY <3>1, <4>1, SkipKeeps
      <4> QED BY <1>1, <1>6, <4>2
    <3> QED BY <1>3, <1>6, <3>2 DEF Clean, verb, Bare
  <2>2. Excused => Excused'
    BY <1>1, <1>6 DEF Excused
  <2>3. ResponsesFramed' /\ (\E S : written \in Seq(S))'
    BY <1>1, <1>6 DEF FramedInv, Fields, ResponsesFramed
  <2> QED BY <1>2, <1>3, <1>5, <1>6, <2>1, <2>2, <2>3
          DEF FramedInv, Fields, MarkFits, UpgradeFits, ResponseFields
<1>7. CASE ~goesOn
  <2>1. Announced(reply) \/ verb = "HEAD" \/ Excused
    <3> SUFFICES ASSUME ~Excused, verb # "HEAD" PROVE Announced(reply)
      OBVIOUS
    <3>1. ResponseFields \subseteq DOMAIN res /\ Bare(res) /\ ~res.skip_body
      BY DEF FramedInv, Fields, ResponseFields, Clean, verb
    <3> QED BY <3>1, RepliesTold DEF reply
  <2>2. ResponsesFramed' /\ (\E S : written \in Seq(S))'
    BY <1>1, <1>7, <2>1, WroteWell
  <2>3. Quiet'
    BY <1>4, <1>7 DEF Quiet
  <2> QED BY <1>2, <1>4, <1>5, <1>7, <2>2, <2>3
          DEF FramedInv, Fields, MarkFits, UpgradeFits, ResponseFields
<1> QED BY <1>6, <1>7

(* The kinds of outcome. *)
LEMMA Outcomes ==
  ASSUME NEW verb, NEW url, NEW version, NEW headers, NEW upgrade, NEW route
  PROVE  LET outcome == Outcome(verb, url, version, headers, upgrade, route)
         IN /\ outcome \in {"400", "upgraded", "none", "checked", "301", "404", "handled"}
            /\ outcome \in {"upgraded", "none"} => upgrade
            /\ outcome = "checked" => verb = "GET"
  BY DEF Outcome, Upgrades

(* The answer to a complete request. *)
LEMMA HandleReplyStep ==
  ASSUME FramedInv, HandleReply, Excused \/ Clean
  PROVE  FramedInv'
<1> DEFINE verb == parser.method
           route == conn.route
           outcome == Outcome(verb, req.url, parser.version, req.headers,
                              req.upgrade, route)
<1>1. /\ conn.open /\ outcome \notin {"upgraded", "none"}
      /\ Completing /\ Complete(TRUE)
      /\ \E r \in Reply(outcome, route) :
           /\ written' = Write(verb, r)
           /\ res' = Completed(outcome, r)
           /\ conn' = [conn EXCEPT !.closing = req.close,
                                   !.open = ~(r.file /\ req.close)]
  BY DEF HandleReply, Complete
<1>2. /\ outcome \in {"400", "checked", "301", "404", "handled"}
      /\ outcome = "checked" => verb = "GET"
  BY <1>1, Outcomes
<1> HIDE DEF verb, route, outcome
<1>3. PICK r \in Reply(outcome, route) :
        /\ written' = Write(verb, r)
        /\ res' = Completed(outcome, r)
        /\ conn' = [conn EXCEPT !.closing = req.close,
                                !.open = ~(r.file /\ req.close)]
  BY <1>1
<1>4. ResponseFields \subseteq DOMAIN res
  BY DEF FramedInv, Fields, ResponseFields
<1>5. \/ outcome = "400" /\ r = Assigned(res, "400")
      \/ outcome = "checked" /\ \E code : r = End(Text(res, code))
      \/ /\ outcome \in {"301", "404"}
         /\ r = End(Assigned(res, outcome))
      \/ outcome = "handled" /\ r = StaticReply(res, route.params[1])
  <2>1. CASE outcome = "400"
    BY <1>3, <2>1, Zenon DEF Reply
  <2>2. CASE outcome = "checked"
    <3>1. r \in {End(Text(res, code)) : code \in {"200", "400"}}
      BY <1>3, <2>2 DEF Reply
    <3> QED BY <2>2, <3>1, Zenon
  <2>3. CASE outcome \in {"301", "404", "handled"}
    <3>1. r = RuleReply(res, outcome, route)
      BY <1>3, <2>3 DEF Reply
    <3> QED BY <2>3, <3>1 DEF RuleReply
  <2> QED BY <1>2, <2>1, <2>2, <2>3
<1>6. ResponseFields \subseteq DOMAIN r
  BY <1>4, <1>5, RepliesKeep
<1>7. Announced(r) \/ verb = "HEAD" \/ Excused
  <2> SUFFICES ASSUME ~Excused, verb # "HEAD" PROVE Announced(r)
    OBVIOUS
  <2>1. Bare(res) /\ ~res.skip_body
    BY DEF Clean, verb
  <2> QED BY <1>4, <1>5, <2>1, RepliesTold
<1>8. /\ ResponsesFramed' /\ (\E S : written \in Seq(S))'
      /\ Excused => Excused'
      /\ verb = "HEAD" /\ r.code = "400" => Excused'
  BY <1>1, <1>3, <1>7, WroteWell
<1>9. /\ ResponseFields \subseteq DOMAIN res'
      /\ {"place", "open", "closing"} \subseteq DOMAIN conn'
      /\ {"mark", "over"} \subseteq DOMAIN exec'
      /\ {"state", "method", "upgrade", "errno"} \subseteq DOMAIN parser'
      /\ {"upgrade"} \subseteq DOMAIN req' /\ ~req'.upgrade
  BY <1>1, <1>3, <1>6, Cleared DEF Completed, Complete, FramedInv, Fields, Ahead,
     NewRequest
<1>10. exec'.mark # "url"
  BY <1>1 DEF Complete, Completing, At, FramedInv, Fields, MarkFits, Ahead,
     UrlHead, InUrl, Server
<1>11. Excused' \/ Clean'
  <2> SUFFICES ASSUME ~Excused' PROVE Clean'
    OBVIOUS
  <2>1. Clean /\ Bare(res)
    BY <1>8 DEF Clean
  <2>2. CASE outcome \in {"301", "404", "handled"}
    <3>1. res' = Ended(Clear(r))
      BY <1>3, <2>2 DEF Completed
    <3> QED BY <1>6, <3>1, Cleared DEF Clean, Bare
  <2>3. CASE outcome \in {"400", "checked"}
    <3>1. res' = Clear(r)
      BY <1>3, <2>3 DEF Completed
    <3>2. outcome = "400" => r.code = "400" /\ verb # "HEAD"
      BY <1>4, <1>5, <1>8 DEF Assigned, ResponseFields
    <3>3. verb # "HEAD" /\ ~res.skip_body
      BY <1>2, <2>1, <2>3, <3>2 DEF Clean, verb
    <3>4. ~r.manual_length_header /\ ~r.skip_body
      BY <1>4, <1>5, <2>1, <2>3, <3>3 DEF Assigned, End, Text, ResponseFields, Bare
    <3> QED BY <1>6, <3>1, <3>4, Cleared DEF Clean, Bare
  <2> QED BY <1>2, <2>2, <2>3
<1> QED BY <1>8, <1>9, <1>10, <1>11
        DEF FramedInv, Fields, MarkFits, UpgradeFits, ResponseFields

LEMMA HandleUpgradedStep ==
  ASSUME FramedInv, HandleUpgraded
  PROVE  FramedInv'
<1> DEFINE outcome == Outcome(parser.method, req.url, parser.version, req.headers,
                              req.upgrade, conn.route)
<1>1. /\ conn.place = "parsing" /\ outcome \in {"upgraded", "none"}
      /\ Completing /\ Complete(FALSE)
      /\ conn' = [conn EXCEPT !.closing = TRUE,
                   !.place = IF outcome = "upgraded" THEN "upgraded" ELSE @]
      /\ \/ res' = res
         \/ \E code : res' = End(Assigned(res, code))
      /\ written' = written
  BY DEF HandleUpgraded, Complete
<1>2. parser.upgrade
  BY <1>1, Outcomes DEF FramedInv, UpgradeFits
<1> HIDE DEF outcome
<1>3. /\ exec' = [Ahead EXCEPT !.over = parser.upgrade]
      /\ UNCHANGED <<parser, req>>
  BY <1>1 DEF Complete
<1>4. Quiet'
  BY <1>1, <1>2, <1>3 DEF Quiet, FramedInv, Fields, Ahead
<1>5. ResponseFields \subseteq DOMAIN res'
  <2>1. ResponseFields \subseteq DOMAIN res
    BY DEF FramedInv, Fields, ResponseFields
  <2> QED BY <1>1, <2>1, RepliesKeep
<1> QED BY <1>1, <1>3, <1>4, <1>5
        DEF FramedInv, Fields, MarkFits, UpgradeFits, ResponseFields, ResponsesFramed, Ahead

(* A hundred-continue leaves the response as it was. *)
LEMMA HandleHeaderStep ==
  ASSUME FramedInv, HandleHeader, Excused \/ Clean
  PROVE  FramedInv'
<1>1. /\ HeadersEnd
      /\ res' = res \/ res' = Clear(res)
      /\ UNCHANGED <<conn, written>>
  BY DEF HandleHeader
<1>2. /\ parser.state = "headers_almost_done"
      /\ parser' = [parser EXCEPT !.state = "headers_done",
                                  !.upgrade = "upgrade" \in parser.flags]
      /\ exec' = exec
  BY <1>1 DEF HeadersEnd, At
<1>3. {"upgrade"} \subseteq DOMAIN req' /\ req'.upgrade = parser'.upgrade
  BY <1>1 DEF HeadersEnd, OnHeadersComplete, Filed, FramedInv, Fields
<1>4. ResponseFields \subseteq DOMAIN res
  BY DEF FramedInv, Fields, ResponseFields
<1>5. Clean => Clean'
  <2> SUFFICES ASSUME Clean PROVE Clean'
    OBVIOUS
  <2>1. Bare(res') /\ res'.skip_body = res.skip_body
    BY <1>1, <1>4, Cleared DEF Clean, Bare
  <2> QED BY <1>2, <2>1 DEF Clean, FramedInv, Fields, MethodStates, Bare
<1>6. ResponseFields \subseteq DOMAIN res'
  BY <1>1, <1>4, Cleared
<1>7. MarkFits'
  BY <1>2 DEF FramedInv, MarkFits, Fields, UrlHead, InUrl, Server
<1> QED BY <1>1, <1>2, <1>3, <1>5, <1>6, <1>7
        DEF FramedInv, Fields, UpgradeFits, ResponseFields, ResponsesFramed, Excused

-----------------------------------------------------------------------------
(* The steps that leave the response alone keep what it is. *)
LEMMA OtherSteps ==
  ASSUME FramedInv, UNCHANGED replyVars,
         \/ SetUp \/ Connect \/ Read \/ ClientLeaves
         \/ Parse \/ HandleThrows \/ ReadDone
  PROVE  /\ Fields' /\ MarkFits' /\ UpgradeFits' /\ ResponsesFramed'
         /\ Excused \/ Clean => Excused' \/ Clean'
<1> USE DEF FramedInv, Fields
<1>1. res' = res /\ written' = written
  BY DEF replyVars
<1>2. (Excused => Excused') /\ ResponsesFramed'
  BY <1>1 DEF Excused, ResponsesFramed
<1>3. ASSUME UNCHANGED <<exec, parser, req>>,
             {"place", "open", "closing"} \subseteq DOMAIN conn'
      PROVE  Fields' /\ MarkFits' /\ UpgradeFits' /\ (Clean => Clean')
  BY <1>1, <1>3 DEF MarkFits, UpgradeFits, Clean, Bare
<1>4. CASE SetUp \/ Connect \/ ClientLeaves \/ HandleThrows \/ ReadDone
  <2>1. UNCHANGED <<exec, parser, req>>
    BY <1>4 DEF SetUp, NoConnection, Connect, ClientLeaves, HandleThrows, ReadDone,
       parserVars
  <2>2. {"place", "open", "closing"} \subseteq DOMAIN conn'
    BY <1>4 DEF SetUp, NoConnection, Connect, ClientLeaves, HandleThrows, ReadDone
  <2> QED BY <1>2, <1>3, <2>1, <2>2
<1>5. CASE Read
  <2>1. UNCHANGED <<parser, req>> /\ {"place", "open", "closing"} \subseteq DOMAIN conn'
    BY <1>5 DEF Read, Feed
  <2>2. PICK end : Feed(end)
    BY <1>5 DEF Read
  <2>3. {"mark", "over"} \subseteq DOMAIN exec' /\ MarkFits'
    <3> DEFINE mark == CASE parser.state = "field" -> "field"
                         [] parser.state = "value" -> "value"
                         [] parser.state \in UrlHead \cup InUrl -> "url"
                         [] OTHER -> "none"
    <3>1. mark = "url" => parser.state \in UrlHead \cup InUrl
      OBVIOUS
    <3>2. exec' = [pos |-> exec.end + 1, end |-> end, from |-> exec.end + 1,
                   start |-> 0, over |-> FALSE, mark |-> mark]
      BY <2>2 DEF Feed
    <3> HIDE DEF mark
    <3> QED BY <2>1, <3>1, <3>2 DEF MarkFits
  <2> QED BY <1>1, <1>2, <2>1, <2>3 DEF UpgradeFits, Clean, Bare
<1>6. CASE Parse
  <2>1. Kept /\ UNCHANGED conn
    BY <1>6, ParserKeeps DEF Parse
  <2> QED BY <1>1, <1>2, <2>1 DEF Kept, MarkFits, UpgradeFits, Clean, Bare
<1> QED BY <1>4, <1>5, <1>6

LEMMA NotQuiet ==
  ASSUME HandleUrl \/ HandleHeader \/ HandleReply \/ HandleUpgraded
  PROVE  ~Quiet
  BY DEF HandleUrl, HandleHeader, HandleReply, HandleUpgraded, UrlEnding, HeadersEnd,
     Completing, AtEnd, At, Reading, Calling, Quiet

LEMMA FramedStep ==
  ASSUME FramedInv, [ExchangeNext]_exchangeVars
  PROVE  FramedInv'
<1>1. CASE HandleUrl \/ HandleHeader \/ HandleReply \/ HandleUpgraded
  <2>1. Excused \/ Clean
    BY <1>1, NotQuiet DEF FramedInv
  <2> QED BY <1>1, <2>1, HandleUrlStep, HandleHeaderStep, HandleReplyStep, HandleUpgradedStep
<1>2. CASE SetUp \/ Connect \/ Read \/ ClientLeaves \/ Parse \/ HandleThrows \/ ReadDone
  <2>1. UNCHANGED replyVars /\ ExchangeNext
    BY <1>2 DEF SetUp, NoConnection, Connect, Read, ClientLeaves, Parse, HandleThrows,
       ReadDone, ExchangeNext
  <2>2. Quiet => Quiet'
    BY <2>1, QuietStays
  <2> QED BY <1>2, <2>1, <2>2, OtherSteps DEF FramedInv
<1>3. CASE UNCHANGED exchangeVars
  BY <1>3 DEF exchangeVars, parserVars, replyVars, FramedInv, Fields, MarkFits,
     UpgradeFits, Excused, Quiet, Clean, Bare, ResponsesFramed
<1> QED BY <1>1, <1>2, <1>3 DEF ExchangeNext

LEMMA FramedInit ==
  ASSUME ExchangeInit
  PROVE  FramedInv
<1>1. written \in Seq({}) /\ DOMAIN written = {}
  BY DEF ExchangeInit
<1>2. Fields
  BY <1>1 DEF ExchangeInit, ParserInit, NewRequest, NewResponse, Fields
<1>3. MarkFits /\ UpgradeFits
  BY DEF ExchangeInit, ParserInit, NewRequest, MarkFits, UpgradeFits
<1>4. Clean
  BY DEF ExchangeInit, NewResponse, Clean, Bare
<1> QED BY <1>1, <1>2, <1>3, <1>4 DEF FramedInv, ResponsesFramed

(* The client can tell the answers apart: what follows an answer is what   *)
(* was announced, except to a HEAD, and behind a HEAD refused for want of  *)
(* Host; whatever the requests are, however the reads cut them, and        *)
(* whatever the routes and the files of the server (response::end,         *)
(* complete_request, prepare_buffers, do_write_static).                    *)
THEOREM AnswersFramed == ExchangeSpec => []ResponsesFramed
<1>1. ExchangeInit => FramedInv
  BY FramedInit
<1>2. FramedInv /\ [ExchangeNext]_exchangeVars => FramedInv'
  BY FramedStep
<1>3. FramedInv => ResponsesFramed
  BY DEF FramedInv
<1> QED BY <1>1, <1>2, <1>3, PTL DEF ExchangeSpec


-----------------------------------------------------------------------------
(* Induction and recursion.  The theorems of the library take a predicate  *)
(* or an operator, these a set or a function.                              *)

(* A set of numbers that is not empty has a least one. *)
LEMMA Least ==
  ASSUME NEW T \in SUBSET Nat, T # {}
  PROVE  \E n \in T : \A m \in T : n <= m
<1> DEFINE Less == OpToRel(<, Nat)
<1>1. IsWellFoundedOn(Less, Nat)
  BY NatLessThanWellFounded
<1>2. \A i, j \in Nat : i < j => <<i, j>> \in Less
  BY DEF OpToRel
<1> HIDE DEF Less
<1>3. PICK n \in T : \A m \in T : <<m, n>> \notin Less
  BY <1>1, WFMin
<1>4. ASSUME NEW m \in T PROVE n <= m
  <2>1. m \in Nat /\ n \in Nat /\ ~(m < n)
    BY <1>2, <1>3
  <2> QED BY <2>1
<1> QED BY <1>4

LEMMA MinOf ==
  ASSUME NEW T \in SUBSET Nat, T # {}
  PROVE  Min(T) \in T /\ \A m \in T : Min(T) <= m
<1>1. \E n \in T : \A m \in T : n <= m
  BY Least
<1> QED BY <1>1, Zenon DEF Min

LEMMA SetInduction ==
  ASSUME NEW T, 0 \in T, \A n \in Nat : n \in T => n + 1 \in T
  PROVE  \A n \in Nat : n \in T
<1>1. SUFFICES ASSUME Nat \ T # {} PROVE FALSE
  OBVIOUS
<1>2. PICK n \in Nat \ T : \A m \in Nat \ T : n <= m
  BY <1>1, Least
<1>3. n - 1 \in Nat /\ n - 1 + 1 = n /\ ~(n <= n - 1)
  BY <1>2
<1> QED BY <1>2, <1>3

(* What holds at the first place and goes on from place to place holds up  *)
(* to the last; and the same the other way round, from all places behind.  *)
LEMMA Forward ==
  ASSUME NEW n \in Nat, NEW T, 0 \in T, \A i \in 1..n : i - 1 \in T => i \in T
  PROVE  \A i \in 0..n : i \in T
<1> DEFINE U == {k \in Nat : k <= n => k \in T}
<1>1. 0 \in U
  OBVIOUS
<1>2. ASSUME NEW k \in Nat, k \in U PROVE k + 1 \in U
  <2>1. CASE k + 1 <= n
    <3>1. k + 1 \in 1..n /\ k + 1 - 1 = k /\ k \in T
      BY <1>2, <2>1
    <3> QED BY <3>1
  <2> QED BY <2>1
<1> HIDE DEF U
<1>3. \A k \in Nat : k \in U
  BY <1>1, <1>2, SetInduction
<1> QED BY <1>3 DEF U

LEMMA Backward ==
  ASSUME NEW n \in Nat, NEW T,
         \A i \in 1..n : (\A j \in (i + 1)..n : j \in T) => i \in T
  PROVE  \A i \in 1..n : i \in T
<1> DEFINE U == {k \in Nat : k <= n => \A j \in (n - k + 1)..n : j \in T}
<1>1. 0 \in U
  OBVIOUS
<1>2. ASSUME NEW k \in Nat, k \in U PROVE k + 1 \in U
  <2>1. CASE k + 1 <= n
    <3>1. n - k \in 1..n /\ n - (k + 1) + 1 = n - k
      BY <2>1
    <3>2. \A j \in (n - k + 1)..n : j \in T
      BY <1>2, <2>1
    <3>3. n - k \in T
      BY <3>1, <3>2
    <3>4. \A j \in (n - k)..n : j \in T
      BY <3>1, <3>2, <3>3
    <3> QED BY <3>1, <3>4
  <2> QED BY <2>1
<1> HIDE DEF U
<1>3. n \in U
  BY <1>1, <1>2, SetInduction
<1>4. n - n + 1 = 1
  OBVIOUS
<1> QED BY <1>3, <1>4 DEF U

(* Recursive functions exist: from the first place on, and from the last.  *)
Stays(G, n, S) == \A i \in 1..n : \A s \in S : G[i][s] \in S
StepsBy(G, n, f) == \A i \in 1..n : f[i] = G[i][f[i - 1]]

LEMMA Recursion ==
  ASSUME NEW S, NEW a \in S, NEW n \in Nat, NEW G, Stays(G, n, S)
  PROVE  \E f \in [0..n -> S] : f[0] = a /\ StepsBy(G, n, f)
<1> USE DEF Stays, StepsBy
<1> DEFINE Upto(f, k) == f[0] = a /\ \A i \in 1..k : f[i] = G[i][f[i - 1]]
           T == {k \in Nat : \E f \in [0..k -> S] : Upto(f, k)}
<1>1. 0 \in T
  <2> DEFINE f == [i \in 0..0 |-> a]
  <2>1. f \in [0..0 -> S] /\ Upto(f, 0)
    OBVIOUS
  <2> QED BY <2>1
<1>2. ASSUME NEW i \in 1..n, i - 1 \in T PROVE i \in T
  <2>1. PICK f \in [0..(i - 1) -> S] : Upto(f, i - 1)
    BY <1>2
  <2> DEFINE g == [j \in 0..i |-> IF j = i THEN G[i][f[i - 1]] ELSE f[j]]
  <2>2. i \in Nat /\ i - 1 \in 0..(i - 1) /\ i - 1 \in Nat
    OBVIOUS
  <2>3. g \in [0..i -> S]
    BY <2>2
  <2>4. /\ \A j \in 0..(i - 1) : g[j] = f[j]
        /\ g[i] = G[i][f[i - 1]]
    BY <2>2
  <2> HIDE DEF g
  <2>5. g[0] = a
    BY <2>1, <2>2, <2>4
  <2>6. ASSUME NEW j \in 1..i PROVE g[j] = G[j][g[j - 1]]
    <3>1. j - 1 \in 0..(i - 1) /\ g[j - 1] = f[j - 1]
      BY <2>4
    <3>2. CASE j = i
      BY <2>4, <3>1, <3>2
    <3>3. CASE j # i
      <4>1. j \in 1..(i - 1) /\ j \in 0..(i - 1)
        BY <3>3
      <4> QED BY <2>1, <2>4, <3>1, <4>1
    <3> QED BY <3>2, <3>3
  <2>7. Upto(g, i)
    BY <2>5, <2>6
  <2> HIDE DEF Upto
  <2> QED BY <2>2, <2>3, <2>7
<1> HIDE DEF T
<1>3. n \in T
  BY <1>1, <1>2, Forward
<1> QED BY <1>3 DEF T

Alike(f, g, n) == \A i \in 1..n : f[i - 1] = g[i - 1] => f[i] = g[i]

LEMMA Recursed ==
  ASSUME NEW n \in Nat, NEW f, NEW g, f[0] = g[0], Alike(f, g, n)
  PROVE  \A i \in 0..n : f[i] = g[i]
<1> USE DEF Alike
<1> DEFINE T == {k \in Nat : f[k] = g[k]}
<1>1. 0 \in T
  OBVIOUS
<1>2. ASSUME NEW i \in 1..n, i - 1 \in T PROVE i \in T
  BY <1>2
<1> HIDE DEF T
<1>3. \A i \in 0..n : i \in T
  BY <1>1, <1>2, Forward
<1> QED BY <1>3 DEF T

Goes(G, n, S) == \A i \in 1..n : \A h \in [(i + 1)..n -> S] : G[i][h] \in S
Unrolls(G, n, f) == \A i \in 1..n : f[i] = G[i][[j \in (i + 1)..n |-> f[j]]]

LEMMA BackRecursion ==
  ASSUME NEW S, NEW n \in Nat, NEW G, Goes(G, n, S)
  PROVE  \E f \in [1..n -> S] : Unrolls(G, n, f)
<1> USE DEF Goes, Unrolls
<1> DEFINE Solves(f, k) == \A i \in k..n : f[i] = G[i][[j \in (i + 1)..n |-> f[j]]]
           T == {k \in Nat : k <= n => \E f \in [(n - k + 1)..n -> S] : Solves(f, n - k + 1)}
<1>1. 0 \in T
  <2> DEFINE f == [i \in (n - 0 + 1)..n |-> 0]
  <2>1. f \in [(n - 0 + 1)..n -> S] /\ Solves(f, n - 0 + 1)
    OBVIOUS
  <2> QED BY <2>1
<1>2. ASSUME NEW k \in Nat, k \in T PROVE k + 1 \in T
  <2> SUFFICES ASSUME k + 1 <= n
               PROVE  \E f \in [(n - (k + 1) + 1)..n -> S] : Solves(f, n - (k + 1) + 1)
    OBVIOUS
  <2> DEFINE m == n - k
  <2>1. m \in 1..n /\ n - (k + 1) + 1 = m
    OBVIOUS
  <2>2. PICK f \in [(m + 1)..n -> S] : Solves(f, m + 1)
    BY <1>2
  <2> HIDE DEF m
  <2> DEFINE g == [i \in m..n |-> IF i = m THEN G[m][f] ELSE f[i]]
  <2>3. G[m][f] \in S
    BY <2>1, <2>2
  <2>4. g \in [m..n -> S]
    BY <2>1, <2>2, <2>3
  <2>5. g[m] = G[m][f] /\ \A i \in (m + 1)..n : g[i] = f[i]
    BY <2>1
  <2> HIDE DEF g
  <2>6. ASSUME NEW i \in m..n PROVE g[i] = G[i][[j \in (i + 1)..n |-> g[j]]]
    <3>1. [j \in (i + 1)..n |-> g[j]] = [j \in (i + 1)..n |-> f[j]]
      BY <2>1, <2>5
    <3>2. CASE i = m
      <4>1. f = [j \in (m + 1)..n |-> f[j]]
        BY <2>2
      <4> QED BY <2>5, <3>1, <3>2, <4>1
    <3>3. CASE i # m
      <4>1. i \in (m + 1)..n
        BY <2>1, <3>3
      <4> QED BY <2>2, <2>5, <3>1, <4>1
    <3> QED BY <3>2, <3>3
  <2>7. Solves(g, m)
    BY <2>6
  <2> HIDE DEF Solves
  <2> QED BY <2>1, <2>4, <2>7
<1> HIDE DEF T
<1>3. n \in T
  BY <1>1, <1>2, SetInduction
<1>4. n - n + 1 = 1
  OBVIOUS
<1> QED BY <1>3, <1>4 DEF T

-----------------------------------------------------------------------------
(* Keys and URLs.                                                          *)
Pieces == Seq(STRING)

LEMMA Dropped ==
  ASSUME NEW url \in Pieces, NEW pos \in 0..Len(url)
  PROVE  /\ Drop(url, pos) \in Pieces
         /\ Len(Drop(url, pos)) = Len(url) - pos
         /\ \A i \in 1..(Len(url) - pos) : Drop(url, pos)[i] = url[pos + i]
<1>1. pos \in Nat /\ Len(url) \in Nat /\ pos + 1 \in 1..(Len(url) + 1)
  BY DEF Pieces
<1>2. \A i \in (pos + 1)..Len(url) : url[i] \in STRING
  BY <1>1 DEF Pieces
<1>3. /\ Drop(url, pos) \in Seq(STRING)
      /\ Len(Drop(url, pos)) = Len(url) - (pos + 1) + 1
      /\ \A i \in 1..(Len(url) - (pos + 1) + 1) : Drop(url, pos)[i] = url[pos + 1 + i - 1]
  BY <1>1, <1>2, SubSeqProperties DEF Drop, Pieces
<1> QED BY <1>1, <1>3 DEF Pieces

(* SelectInSeq finds a place, or 0. *)
LEMMA UntilRange ==
  ASSUME NEW I \in SUBSET Nat, NEW url \in Pieces, I \subseteq 1..Len(url)
  PROVE  Until(IF I # {} THEN Min(I) ELSE 0, url) \in 0..Len(url)
<1>1. Len(url) \in Nat
  BY DEF Pieces
<1>2. CASE I = {}
  BY <1>1, <1>2 DEF Until
<1>3. CASE I # {}
  <2>1. Min(I) \in 1..Len(url)
    BY <1>3, MinOf
  <2> QED BY <1>1, <1>3, <2>1 DEF Until
<1> QED BY <1>2, <1>3

(* A key takes no more than there is, and nothing from nothing. *)
LEMMA EatenRange ==
  ASSUME NEW url \in Pieces, NEW key \in Pieces, key # <<>>
  PROVE  Eaten(key, url) \in 0..Len(url)
<1>1. Len(url) \in Nat /\ Len(key) \in Nat
  BY DEF Pieces
<1>2. CASE key = <<"<int>">>
  <2> DEFINE I == {i \in 1..Len(url) : url[i] \notin Digit}
  <2>1. Eaten(key, url) = Until(IF I # {} THEN Min(I) ELSE 0, url)
    BY <1>2 DEF Eaten, SelectInSeq
  <2>2. I \in SUBSET Nat /\ I \subseteq 1..Len(url)
    OBVIOUS
  <2> HIDE DEF I
  <2> QED BY <2>1, <2>2, UntilRange
<1>3. CASE key = <<"<string>">>
  <2> DEFINE I == {i \in 1..Len(url) : url[i] = "/"}
  <2>1. Eaten(key, url) = Until(IF I # {} THEN Min(I) ELSE 0, url)
    BY <1>3 DEF Eaten, SelectInSeq
  <2>2. I \in SUBSET Nat /\ I \subseteq 1..Len(url)
    OBVIOUS
  <2> HIDE DEF I
  <2> QED BY <2>1, <2>2, UntilRange
<1>4. CASE key = <<"<path>">>
  BY <1>1, <1>4 DEF Eaten
<1>5. CASE key \notin {<<"<int>">>, <<"<string>">>, <<"<path>">>}
  <2>1. Eaten(key, url) = IF IsPrefix(key, url) THEN Len(key) ELSE 0
    BY <1>5 DEF Eaten
  <2> QED BY <1>1, <2>1 DEF IsPrefix
<1> QED BY <1>2, <1>3, <1>4, <1>5

LEMMA EatenWithin ==
  ASSUME NEW url \in Pieces, NEW key \in Pieces, key # <<>>, NEW pos \in 0..Len(url)
  PROVE  /\ Eaten(key, Drop(url, pos)) \in Nat
         /\ pos + Eaten(key, Drop(url, pos)) \in 0..Len(url)
<1>1. Eaten(key, Drop(url, pos)) \in 0..Len(Drop(url, pos))
  BY Dropped, EatenRange
<1> QED BY <1>1, Dropped DEF Pieces

LEMMA CaptureText ==
  ASSUME NEW url \in Pieces, NEW key \in Pieces, key # <<>>
  PROVE  Capture(key, url) \in Seq(Pieces)
<1>1. Eaten(key, url) \in 0..Len(url) /\ Len(url) \in Nat
  BY EatenRange DEF Pieces
<1>2. SubSeq(url, 1, Eaten(key, url)) \in Pieces
  <2>1. \A i \in 1..Eaten(key, url) : url[i] \in STRING
    BY <1>1 DEF Pieces
  <2> QED BY <1>1, <2>1, SubSeqProperties DEF Pieces
<1>3. CASE key[1] \in Param
  BY <1>2, <1>3 DEF Capture
<1>4. CASE key[1] \notin Param
  BY <1>4, EmptySeq DEF Capture
<1> QED BY <1>3, <1>4

(* A key without parameters takes itself, if it is what comes next. *)
Comes(key, url, pos) ==
  /\ pos + Len(key) <= Len(url)
  /\ \A i \in 1..Len(key) : url[pos + i] = key[i]

LEMMA EatenPlain ==
  ASSUME NEW url \in Pieces, NEW key \in Pieces, key # <<>>, key[1] \notin Param,
         NEW pos \in 0..Len(url)
  PROVE  /\ Eaten(key, Drop(url, pos)) = IF Comes(key, url, pos) THEN Len(key) ELSE 0
         /\ Capture(key, Drop(url, pos)) = <<>>
<1> DEFINE rest == Drop(url, pos)
<1>1. /\ rest \in Pieces /\ Len(rest) = Len(url) - pos
      /\ \A i \in 1..(Len(url) - pos) : rest[i] = url[pos + i]
  BY Dropped
<1>2. Len(key) \in Nat /\ Len(url) \in Nat /\ Len(rest) \in Nat
  BY <1>1 DEF Pieces
<1>3. key \notin {<<"<int>">>, <<"<string>">>, <<"<path>">>}
  BY DEF Param
<1>4. Eaten(key, rest) = IF IsPrefix(key, rest) THEN Len(key) ELSE 0
  BY <1>3 DEF Eaten
<1> HIDE DEF rest
<1>5. IsPrefix(key, rest) <=> Comes(key, url, pos)
  <2>1. CASE Len(key) <= Len(rest)
    <3>1. /\ SubSeq(key, 1, Len(key)) \in Seq(STRING)
          /\ Len(SubSeq(key, 1, Len(key))) = Len(key)
          /\ \A i \in 1..Len(key) : SubSeq(key, 1, Len(key))[i] = key[i]
      BY <1>2, SubSeqFull DEF Pieces
    <3>2. /\ SubSeq(rest, 1, Len(key)) \in Seq(STRING)
          /\ Len(SubSeq(rest, 1, Len(key))) = Len(key)
          /\ \A i \in 1..Len(key) : SubSeq(rest, 1, Len(key))[i] = rest[i]
      <4>1. \A i \in 1..Len(key) : rest[i] \in STRING
        BY <1>1, <1>2, <2>1 DEF Pieces
      <4> QED BY <1>2, <2>1, <4>1, SubSeqProperties
    <3>3. SubSeq(key, 1, Len(key)) = SubSeq(rest, 1, Len(key))
            <=> \A i \in 1..Len(key) : key[i] = rest[i]
      BY <3>1, <3>2, SeqEqual
    <3>4. \A i \in 1..Len(key) : rest[i] = url[pos + i]
      BY <1>1, <1>2, <2>1
    <3>5. pos + Len(key) <= Len(url)
      BY <1>1, <1>2, <2>1
    <3> QED BY <2>1, <3>3, <3>4, <3>5 DEF IsPrefix, Comes
  <2>2. CASE ~(Len(key) <= Len(rest))
    <3>1. ~(pos + Len(key) <= Len(url))
      BY <1>1, <1>2, <2>2
    <3> QED BY <2>2, <3>1 DEF IsPrefix, Comes
  <2> QED BY <2>1, <2>2
<1>6. Eaten(key, rest) = IF Comes(key, url, pos) THEN Len(key) ELSE 0
  BY <1>4, <1>5
<1>7. Capture(key, rest) = <<>>
  BY DEF Capture
<1> QED BY <1>6, <1>7 DEF rest

(* Two keys put together take what they take one after the other. *)
LEMMA ComesBoth ==
  ASSUME NEW url \in Pieces, NEW key1 \in Pieces, NEW key2 \in Pieces, NEW pos \in Nat
  PROVE  Comes(key1 \o key2, url, pos)
           <=> Comes(key1, url, pos) /\ Comes(key2, url, pos + Len(key1))
<1> DEFINE key == key1 \o key2
           m == Len(key1)
           n == Len(key2)
<1>1. m \in Nat /\ n \in Nat /\ Len(url) \in Nat
  BY DEF Pieces
<1>2. /\ Len(key) = m + n
      /\ \A i \in 1..(m + n) : key[i] = IF i <= m THEN key1[i] ELSE key2[i - m]
  BY ConcatProperties DEF Pieces
<1> HIDE DEF key, m, n
<1>3. ASSUME Comes(key, url, pos)
      PROVE  Comes(key1, url, pos) /\ Comes(key2, url, pos + m)
  <2>1. ASSUME NEW i \in 1..m PROVE url[pos + i] = key1[i]
    BY <1>1, <1>2, <1>3, <2>1 DEF Comes
  <2>2. ASSUME NEW i \in 1..n PROVE url[pos + m + i] = key2[i]
    <3> DEFINE k == m + i
    <3>1. k \in 1..(m + n) /\ ~(k <= m) /\ k - m = i /\ pos + k = pos + m + i
      BY <1>1
    <3> HIDE DEF k
    <3>2. key[k] = key2[i]
      BY <1>2, <3>1
    <3>3. url[pos + k] = key[k]
      BY <1>2, <1>3, <3>1 DEF Comes
    <3> QED BY <3>1, <3>2, <3>3
  <2>3. pos + m + n <= Len(url) /\ pos + m <= Len(url)
    BY <1>1, <1>2, <1>3 DEF Comes
  <2> QED BY <1>1, <2>1, <2>2, <2>3 DEF Comes, m, n
<1>4. ASSUME Comes(key1, url, pos), Comes(key2, url, pos + m)
      PROVE  Comes(key, url, pos)
  <2>1. ASSUME NEW i \in 1..(m + n) PROVE url[pos + i] = key[i]
    <3>1. CASE i <= m
      <4>1. i \in 1..m
        BY <1>1, <3>1
      <4> QED BY <1>2, <1>4, <3>1, <4>1 DEF Comes, m
    <3>2. CASE ~(i <= m)
      <4>1. i - m \in 1..n /\ pos + m + (i - m) = pos + i
        BY <1>1, <3>2
      <4> QED BY <1>2, <1>4, <3>2, <4>1 DEF Comes, n
    <3> QED BY <3>1, <3>2
  <2>2. pos + (m + n) <= Len(url)
    BY <1>1, <1>4 DEF Comes, m, n
  <2> QED BY <1>2, <2>1, <2>2 DEF Comes
<1> QED BY <1>3, <1>4 DEF key, m

-----------------------------------------------------------------------------
(* Find.                                                                   *)
Node == [rule : Nat, key : Pieces, children : SUBSET Nat]
Result == [rule : Nat, params : Seq(Pieces)]
Results(url) == [0..Len(url) -> Result]

(* A trie: every node behind its parent, and with a key. *)
Tree(trie) ==
  /\ trie \in Seq(Node) /\ Len(trie) \in Nat \ {0} /\ DOMAIN trie = 1..Len(trie)
  /\ \A i \in 1..Len(trie) : trie[i] \in Node
  /\ \A i \in 1..Len(trie) : trie[i].children \subseteq (i + 1)..Len(trie)
  /\ \A c \in 2..Len(trie) : trie[c].key # <<>>

(* Two answers that are the same to the caller. *)
Same(r, s) == r.rule = s.rule /\ (r.rule # 0 => r.params = s.params)

LEMMA BestIs ==
  ASSUME NEW C \in SUBSET Nat, NEW rets, DOMAIN rets = C, \A c \in C : rets[c].rule \in Nat
  PROVE  \/ (\A c \in C : rets[c].rule = 0) /\ Best(rets) = NotFound
         \/ \E c \in C :
              /\ rets[c].rule # 0 /\ Best(rets) = rets[c]
              /\ \A d \in C : rets[d].rule # 0 =>
                   \/ rets[c].rule < rets[d].rule
                   \/ rets[c].rule = rets[d].rule /\ c <= d
<1> DEFINE hits == {c \in DOMAIN rets : rets[c].rule # 0}
           IsFirst(c) == \A d \in hits :
                           \/ rets[c].rule < rets[d].rule
                           \/ rets[c].rule = rets[d].rule /\ c <= d
<1>1. CASE hits = {}
  <2>1. Best(rets) = NotFound
    BY <1>1 DEF Best
  <2> QED BY <1>1, <2>1
<1>2. CASE hits # {}
  <2> DEFINE rules1 == {rets[c].rule : c \in hits}
  <2>1. rules1 \in SUBSET Nat /\ rules1 # {}
    BY <1>2
  <2>2. PICK v \in rules1 : \A w \in rules1 : v <= w
    BY <2>1, Least
  <2> DEFINE lowest == {c \in hits : rets[c].rule = v}
  <2>3. lowest \in SUBSET Nat /\ lowest # {}
    BY <2>2
  <2>4. PICK c \in lowest : \A d \in lowest : c <= d
    BY <2>3, Least
  <2>5. c \in hits /\ v \in Nat
    BY <2>1, <2>2, <2>4
  <2>6. ASSUME NEW d \in hits
        PROVE  \/ rets[c].rule < rets[d].rule
               \/ rets[c].rule = rets[d].rule /\ c <= d
    <3>1. rets[d].rule \in rules1 /\ v <= rets[d].rule /\ rets[d].rule \in Nat
      BY <2>2
    <3>2. rets[c].rule = v
      BY <2>4
    <3>3. CASE rets[d].rule = v
      BY <2>4, <3>2, <3>3
    <3>4. CASE rets[d].rule # v
      BY <2>5, <3>1, <3>2, <3>4
    <3> QED BY <3>3, <3>4
  <2>7. \E x \in hits : IsFirst(x)
    <3>1. IsFirst(c)
      BY <2>6, Zenon
    <3> HIDE DEF hits, IsFirst
    <3> QED BY <2>5, <3>1
  <2> DEFINE first == CHOOSE x \in hits : IsFirst(x)
  <2>8. first \in hits /\ IsFirst(first)
    <3> HIDE DEF hits, IsFirst
    <3> QED BY <2>7
  <2>9. Best(rets) = IF hits = {} THEN NotFound ELSE rets[first]
    BY Zenon DEF Best
  <2> QED BY <1>2, <2>8, <2>9
<1> QED BY <1>1, <1>2

LEMMA BestType ==
  ASSUME NEW C \in SUBSET Nat, NEW rets \in [C -> Result]
  PROVE  Best(rets) \in Result
<1>1. NotFound \in Result
  BY EmptySeq DEF NotFound, Result
<1>2. \A c \in C : rets[c] \in Result /\ rets[c].rule \in Nat
  BY DEF Result
<1>3. \/ Best(rets) = NotFound
      \/ \E c \in C : Best(rets) = rets[c]
  BY <1>2, BestIs
<1> QED BY <1>1, <1>2, <1>3

LEMMA BestSame ==
  ASSUME NEW C \in SUBSET Nat, NEW rets \in [C -> Result], NEW others \in [C -> Result],
         \A c \in C : Same(rets[c], others[c])
  PROVE  Same(Best(rets), Best(others))
<1>1. \A c \in C : rets[c].rule \in Nat /\ others[c].rule = rets[c].rule
  BY DEF Result, Same
<1>2. \/ (\A c \in C : rets[c].rule = 0) /\ Best(rets) = NotFound
      \/ \E c \in C :
           /\ rets[c].rule # 0 /\ Best(rets) = rets[c]
           /\ \A d \in C : rets[d].rule # 0 =>
                \/ rets[c].rule < rets[d].rule
                \/ rets[c].rule = rets[d].rule /\ c <= d
  BY <1>1, BestIs
<1>3. \/ (\A c \in C : others[c].rule = 0) /\ Best(others) = NotFound
      \/ \E c \in C :
           /\ others[c].rule # 0 /\ Best(others) = others[c]
           /\ \A d \in C : others[d].rule # 0 =>
                \/ others[c].rule < others[d].rule
                \/ others[c].rule = others[d].rule /\ c <= d
  BY <1>1, BestIs
<1>4. CASE \A c \in C : rets[c].rule = 0
  <2>1. Best(rets) = NotFound /\ Best(others) = NotFound
    BY <1>1, <1>2, <1>3, <1>4
  <2> QED BY <2>1 DEF Same
<1>5. CASE ~\A c \in C : rets[c].rule = 0
  <2>1. PICK c \in C : /\ rets[c].rule # 0 /\ Best(rets) = rets[c]
                       /\ \A d \in C : rets[d].rule # 0 =>
                            \/ rets[c].rule < rets[d].rule
                            \/ rets[c].rule = rets[d].rule /\ c <= d
    BY <1>2, <1>5
  <2>2. PICK e \in C : /\ others[e].rule # 0 /\ Best(others) = others[e]
                       /\ \A d \in C : others[d].rule # 0 =>
                            \/ others[e].rule < others[d].rule
                            \/ others[e].rule = others[d].rule /\ e <= d
    BY <1>1, <1>3, <1>5
  <2>3. \/ rets[c].rule < rets[e].rule
        \/ rets[c].rule = rets[e].rule /\ c <= e
    BY <1>1, <2>1, <2>2
  <2>4. \/ rets[e].rule < rets[c].rule
        \/ rets[e].rule = rets[c].rule /\ e <= c
    BY <1>1, <2>1, <2>2
  <2>5. c = e
    BY <1>1, <2>3, <2>4
  <2> QED BY <2>1, <2>2, <2>5
<1> QED BY <1>4, <1>5

LEMMA EnterType ==
  ASSUME NEW url \in Pieces, NEW key \in Pieces, key # <<>>, NEW pos \in 0..Len(url),
         NEW found \in Results(url)
  PROVE  Enter(key, found, url, pos) \in Result
<1> DEFINE rest == Drop(url, pos)
           ret == found[pos + Eaten(key, rest)]
<1>1. ret \in Result
  BY EatenWithin DEF Results
<1>2. Capture(key, rest) \in Seq(Pieces)
  BY Dropped, CaptureText
<1> HIDE DEF rest, ret
<1>3. Capture(key, rest) \o ret.params \in Seq(Pieces)
  BY <1>1, <1>2, ConcatProperties DEF Result
<1>4. NotFound \in Result
  BY EmptySeq DEF NotFound, Result
<1>5. \/ Enter(key, found, url, pos) = NotFound
      \/ Enter(key, found, url, pos) = [rule |-> ret.rule, params |-> Capture(key, rest) \o ret.params]
  BY DEF Enter, ret, rest
<1>6. [rule |-> ret.rule, params |-> Capture(key, rest) \o ret.params] \in Result
  BY <1>1, <1>3 DEF Result
<1> QED BY <1>4, <1>5, <1>6

(* One node of find(). *)
Entered(trie, url, find, at, pos) ==
  [c \in trie[at].children |-> Enter(trie[c].key, find[c], url, pos)]
Here(trie, url, find, at) ==
  [pos \in 0..Len(url) |->
     IF pos = Len(url) THEN [rule |-> trie[at].rule, params |-> <<>>]
     ELSE Best(Entered(trie, url, find, at, pos))]

LEMMA EnteredType ==
  ASSUME NEW trie, Tree(trie), NEW url \in Pieces, NEW at \in 1..Len(trie),
         NEW find, \A c \in (at + 1)..Len(trie) : find[c] \in Results(url),
         NEW pos \in 0..Len(url)
  PROVE  /\ Entered(trie, url, find, at, pos) \in [trie[at].children -> Result]
         /\ trie[at].children \in SUBSET Nat
<1>1. ASSUME NEW c \in trie[at].children
      PROVE  Enter(trie[c].key, find[c], url, pos) \in Result
  <2>1. c \in (at + 1)..Len(trie) /\ c \in 2..Len(trie) /\ c \in 1..Len(trie)
    BY DEF Tree
  <2>2. trie[c].key \in Pieces /\ trie[c].key # <<>>
    BY <2>1 DEF Tree, Node
  <2> QED BY <2>1, <2>2, EnterType
<1>2. trie[at].children \in SUBSET Nat
  BY DEF Tree, Node
<1> QED BY <1>1, <1>2 DEF Entered

LEMMA HereType ==
  ASSUME NEW trie, Tree(trie), NEW url \in Pieces, NEW at \in 1..Len(trie),
         NEW find, \A c \in (at + 1)..Len(trie) : find[c] \in Results(url)
  PROVE  Here(trie, url, find, at) \in Results(url)
<1>1. ASSUME NEW pos \in 0..Len(url)
      PROVE  Best(Entered(trie, url, find, at, pos)) \in Result
  BY EnteredType, BestType
<1>2. [rule |-> trie[at].rule, params |-> <<>>] \in Result
  BY EmptySeq DEF Result, Tree, Node
<1> QED BY <1>1, <1>2 DEF Here, Results

(* Only the nodes behind matter. *)
LEMMA HereLocal ==
  ASSUME NEW trie, Tree(trie), NEW url \in Pieces, NEW at \in 1..Len(trie),
         NEW f, NEW g, \A c \in (at + 1)..Len(trie) : f[c] = g[c]
  PROVE  Here(trie, url, f, at) = Here(trie, url, g, at)
<1>1. ASSUME NEW pos PROVE Entered(trie, url, f, at, pos) = Entered(trie, url, g, at, pos)
  <2>1. \A c \in trie[at].children : f[c] = g[c]
    BY DEF Tree
  <2> QED BY <2>1 DEF Entered
<1> QED BY <1>1 DEF Here

LEMMA FindSteps ==
  ASSUME NEW trie, Tree(trie), NEW url \in Pieces
  PROVE  \E f \in [1..Len(trie) -> Results(url)] :
           /\ \A at \in 1..Len(trie) : f[at] = Here(trie, url, f, at)
           /\ Find(trie, url) = f[1][0]
<1> DEFINE n == Len(trie)
           S == Results(url)
           G == [i \in 1..n |-> [h \in [(i + 1)..n -> S] |-> Here(trie, url, h, i)]]
           Solves(f) == f = [at \in 1..n |-> Here(trie, url, f, at)]
<1>1. n \in Nat \ {0} /\ DOMAIN trie = 1..n
  BY DEF Tree
<1>2. \A i \in 1..n : \A h \in [(i + 1)..n -> S] : G[i][h] = Here(trie, url, h, i)
  OBVIOUS
<1>3. \A i \in 1..n : \A h \in [(i + 1)..n -> S] : G[i][h] \in S
  <2> HIDE DEF S, G
  <2>1. ASSUME NEW i \in 1..n, NEW h \in [(i + 1)..n -> S] PROVE Here(trie, url, h, i) \in S
    <3>1. \A c \in (i + 1)..n : h[c] \in S
      OBVIOUS
    <3> QED BY <3>1, HereType DEF S
  <2> QED BY <1>2, <2>1
<1> HIDE DEF G, S
<1>4. PICK f \in [1..n -> S] : Unrolls(G, n, f)
  <2>1. n \in Nat /\ Goes(G, n, S)
    BY <1>1, <1>3 DEF Goes
  <2> HIDE DEF n
  <2> QED BY <2>1, BackRecursion
<1>5. ASSUME NEW i \in 1..n PROVE f[i] = Here(trie, url, f, i)
  <2> DEFINE h == [j \in (i + 1)..n |-> f[j]]
  <2>1. h \in [(i + 1)..n -> S] /\ \A c \in (i + 1)..n : h[c] = f[c]
    BY <1>1
  <2>2. f[i] = Here(trie, url, h, i)
    BY <1>2, <1>4, <2>1 DEF Unrolls
  <2> HIDE DEF h
  <2> QED BY <2>1, <2>2, HereLocal
<1>6. Solves(f)
  <2>1. f = [at \in 1..n |-> f[at]]
    BY <1>4
  <2> QED BY <1>5, <2>1
<1> DEFINE find == CHOOSE f1 : Solves(f1)
<1>7. Find(trie, url) = find[1][0]
  <2>1. Find(trie, url) =
          (CHOOSE f1 : f1 = [at \in DOMAIN trie |-> Here(trie, url, f1, at)])[1][0]
    BY Zenon DEF Find, Here, Entered
  <2> QED BY <1>1, <2>1, Zenon
<1>8. Solves(find)
  <2> HIDE DEF Solves
  <2> QED BY <1>6, Zenon
<1> HIDE DEF find
<1>9. \A at \in 1..n : find[at] = Here(trie, url, find, at)
  BY <1>8, Zenon
<1>10. \A i \in 1..n : find[i] = f[i]
  <2> DEFINE T == {i \in 1..n : find[i] = f[i]}
  <2>1. ASSUME NEW i \in 1..n, \A j \in (i + 1)..n : j \in T PROVE i \in T
    <3>1. \A j \in (i + 1)..n : find[j] = f[j]
      BY <2>1
    <3>2. Here(trie, url, find, i) = Here(trie, url, f, i)
      BY <3>1, HereLocal
    <3> QED BY <1>5, <1>9, <3>2
  <2> HIDE DEF T
  <2>2. \A i \in 1..n : i \in T
    BY <1>1, <2>1, Backward
  <2> QED BY <2>2 DEF T
<1>11. Find(trie, url) = f[1][0]
  BY <1>1, <1>7, <1>10
<1> QED BY <1>4, <1>5, <1>11 DEF S

-----------------------------------------------------------------------------
(* What a trie means for a URL: what is read on the way to each node, and  *)
(* the answers of the nodes that end a rule where the URL ends.            *)
ReadSoFar(url) == [ok : BOOLEAN, pos : 0..Len(url), params : Seq(Pieces)]

ReadsAs(trie, url, rd) ==
  /\ Tree(trie)
  /\ \A c \in 2..Len(trie) : Len(trie[c].key) = 1
  /\ \A c \in 2..Len(trie) : \E i \in 1..Len(trie) : c \in trie[i].children
  /\ rd \in [1..Len(trie) -> ReadSoFar(url)]
  /\ rd[1] = Begun
  /\ \A i \in 1..Len(trie) : \A c \in trie[i].children :
       rd[c] = ReadOn(rd[i], trie[c].key, url)

Hit(trie, url, rd, n) == trie[n].rule # 0 /\ rd[n].ok /\ rd[n].pos = Len(url)
Answer(trie, rd, n) == [rule |-> trie[n].rule, params |-> rd[n].params]

Answers(trie, url, rd, H) ==
  /\ \A n \in 1..Len(trie) : Hit(trie, url, rd, n) => Answer(trie, rd, n) \in H
  /\ \A h \in H : \E n \in 1..Len(trie) : Hit(trie, url, rd, n) /\ h = Answer(trie, rd, n)

Means(trie, url, H) == \E rd : ReadsAs(trie, url, rd) /\ Answers(trie, url, rd, H)

LEMMA ReadOnIs ==
  ASSUME NEW last, NEW key, NEW url
  PROVE  /\ ReadOn(last, key, url).ok <=> last.ok /\ Eaten(key, Drop(url, last.pos)) > 0
         /\ ReadOn(last, key, url).pos = last.pos + Eaten(key, Drop(url, last.pos))
  BY DEF ReadOn

LEMMA ReadOnParams ==
  ASSUME NEW last, NEW key, NEW url
  PROVE  ReadOn(last, key, url).params = last.params \o Capture(key, Drop(url, last.pos))
  BY DEF ReadOn

(* An answer of find() on the way is an answer behind what is read there. *)
Behind(rd, at, ret) == [rule |-> ret.rule, params |-> rd[at].params \o ret.params]

LEMMA FoundIsMeant ==
  ASSUME NEW trie, NEW url \in Pieces, NEW rd, ReadsAs(trie, url, rd),
         NEW H, Answers(trie, url, rd, H),
         NEW f \in [1..Len(trie) -> Results(url)],
         \A at \in 1..Len(trie) : f[at] = Here(trie, url, f, at)
  PROVE  \A at \in 1..Len(trie) :
           rd[at].ok /\ f[at][rd[at].pos].rule # 0
             => Behind(rd, at, f[at][rd[at].pos]) \in H
<1> DEFINE n == Len(trie)
           T == {at \in 1..n : rd[at].ok /\ f[at][rd[at].pos].rule # 0
                                 => Behind(rd, at, f[at][rd[at].pos]) \in H}
<1>1. /\ Tree(trie) /\ n \in Nat \ {0}
      /\ \A i \in 1..n : rd[i] \in ReadSoFar(url)
      /\ \A i \in 1..n : \A c \in trie[i].children : rd[c] = ReadOn(rd[i], trie[c].key, url)
  BY DEF ReadsAs, Tree
<1>2. ASSUME NEW at \in 1..n, \A j \in (at + 1)..n : j \in T PROVE at \in T
  <2> DEFINE pos == rd[at].pos
             ret == f[at][pos]
  <2> SUFFICES ASSUME rd[at].ok, ret.rule # 0
               PROVE  Behind(rd, at, ret) \in H
    OBVIOUS
  <2>1. pos \in 0..Len(url) /\ rd[at].params \in Seq(Pieces)
    BY <1>1 DEF ReadSoFar
  <2> HIDE DEF pos, ret
  <2>2. ret = IF pos = Len(url) THEN [rule |-> trie[at].rule, params |-> <<>>]
              ELSE Best(Entered(trie, url, f, at, pos))
    BY <2>1 DEF Here, ret
  <2>3. CASE pos = Len(url)
    <3>1. ret = [rule |-> trie[at].rule, params |-> <<>>]
      BY <2>2, <2>3
    <3>2. rd[at].params \o <<>> = rd[at].params
      BY <2>1, ConcatEmptySeq
    <3>3. Behind(rd, at, ret) = Answer(trie, rd, at)
      BY <3>1, <3>2 DEF Behind, Answer
    <3>4. Hit(trie, url, rd, at)
      BY <2>3, <3>1 DEF Hit, pos
    <3> QED BY <3>3, <3>4 DEF Answers
  <2>4. CASE pos # Len(url)
    <3> DEFINE rets == Entered(trie, url, f, at, pos)
               C == trie[at].children
    <3>1. rets \in [C -> Result] /\ C \in SUBSET Nat
      <4>1. \A c \in (at + 1)..n : f[c] \in Results(url)
        BY <1>1
      <4> QED BY <1>1, <2>1, <4>1, EnteredType
    <3>2. \A c \in C : rets[c] = Enter(trie[c].key, f[c], url, pos)
      BY DEF Entered
    <3>3. ret = Best(rets)
      BY <2>2, <2>4
    <3> HIDE DEF rets, C
    <3>4. PICK c \in C : ret = rets[c]
      <4>1. NotFound.rule = 0
        BY DEF NotFound
      <4>2. \A c \in C : rets[c].rule \in Nat
        BY <3>1 DEF Result
      <4>3. DOMAIN rets = C
        BY <3>1
      <4>4. Best(rets) = NotFound \/ \E c \in C : Best(rets) = rets[c]
        BY <3>1, <4>2, <4>3, BestIs
      <4> QED BY <3>3, <4>1, <4>4
    <3>5. c \in (at + 1)..n /\ c \in 1..n /\ c \in 2..n
      BY <1>1 DEF Tree, C
    <3>6. trie[c].key \in Pieces /\ trie[c].key # <<>>
      BY <1>1, <3>5 DEF Tree, Node
    <3> DEFINE key == trie[c].key
               eaten == Eaten(key, Drop(url, pos))
               took == Capture(key, Drop(url, pos))
               next == f[c][pos + eaten]
    <3>7. eaten \in Nat /\ pos + eaten \in 0..Len(url)
      BY <2>1, <3>6, EatenWithin
    <3>8. took \in Seq(Pieces)
      BY <2>1, <3>6, Dropped, CaptureText
    <3>9. ret = IF eaten = 0 THEN NotFound
                ELSE [rule |-> next.rule, params |-> took \o next.params]
      BY <3>2, <3>4 DEF Enter
    <3>10. next \in Result
      BY <3>5, <3>7 DEF Results
    <3>11. /\ rd[c].ok <=> rd[at].ok /\ eaten > 0
           /\ rd[c].pos = pos + eaten /\ rd[c].params = rd[at].params \o took
      <4>1. rd[c] = ReadOn(rd[at], key, url)
        BY <1>1 DEF C
      <4>2. rd[c].ok <=> rd[at].ok /\ eaten > 0
        BY <4>1, ReadOnIs DEF pos
      <4>3. rd[c].pos = pos + eaten
        BY <4>1, ReadOnIs DEF pos
      <4>4. rd[c].params = rd[at].params \o took
        <5> DEFINE last == rd[at]
                   mine == trie[c].key
        <5> HIDE DEF last, mine
        <5>1. rd[c] = ReadOn(last, mine, url)
          BY <4>1 DEF last, mine, key
        <5>2. rd[c].params = last.params \o Capture(mine, Drop(url, last.pos))
          BY <5>1, ReadOnParams
        <5> QED BY <5>2 DEF last, mine, key, took, pos
      <4> QED BY <4>2, <4>3, <4>4
    <3> HIDE DEF key, eaten, took, next
    <3>12. /\ eaten # 0 /\ eaten > 0
           /\ ret = [rule |-> next.rule, params |-> took \o next.params]
      BY <3>7, <3>9 DEF NotFound
    <3>13. rd[c].ok /\ rd[c].pos = pos + eaten /\ rd[c].params = rd[at].params \o took
      BY <3>11, <3>12
    <3>14. next = f[c][rd[c].pos] /\ next.rule # 0
      BY <3>12, <3>13 DEF next
    <3>15. Behind(rd, c, next) \in H
      <4>1. c \in T
        BY <1>2, <3>5
      <4> QED BY <3>13, <3>14, <4>1
    <3>16. (rd[at].params \o took) \o next.params = rd[at].params \o (took \o next.params)
      <4>1. next.params \in Seq(Pieces)
        BY <3>10 DEF Result
      <4>2. \A s, t, u \in Seq(Pieces) : (s \o t) \o u = s \o (t \o u)
        BY ConcatAssociative
      <4> QED BY <2>1, <3>8, <4>1, <4>2, Zenon
    <3>17. Behind(rd, at, ret) = Behind(rd, c, next)
      BY <3>12, <3>13, <3>16 DEF Behind
    <3> QED BY <3>15, <3>17
  <2> QED BY <2>3, <2>4
<1> HIDE DEF T
<1>3. \A at \in 1..n : at \in T
  BY <1>1, <1>2, Backward
<1> QED BY <1>3 DEF T

LEMMA MeantIsFound ==
  ASSUME NEW trie, NEW url \in Pieces, NEW rd, ReadsAs(trie, url, rd),
         NEW f \in [1..Len(trie) -> Results(url)],
         \A at \in 1..Len(trie) : f[at] = Here(trie, url, f, at),
         NEW k \in 1..Len(trie), Hit(trie, url, rd, k)
  PROVE  f[1][0].rule # 0 /\ f[1][0].rule <= trie[k].rule
<1> DEFINE n == Len(trie)
           v == trie[k].rule
           Low(i) == /\ rd[i].ok
                     /\ f[i][rd[i].pos].rule # 0
                     /\ f[i][rd[i].pos].rule <= v
           U == {i \in 1..n : Low(i)}
<1>1. /\ Tree(trie) /\ n \in Nat \ {0} /\ v \in Nat
      /\ \A i \in 1..n : rd[i] \in ReadSoFar(url)
      /\ \A i \in 1..n : \A c \in trie[i].children : rd[c] = ReadOn(rd[i], trie[c].key, url)
      /\ \A c \in 2..n : \E i \in 1..n : c \in trie[i].children
      /\ rd[1] = Begun
  BY DEF ReadsAs, Tree, Node
<1>2. k \in U
  <2>1. rd[k].ok /\ rd[k].pos = Len(url) /\ v # 0
    BY DEF Hit
  <2>2. rd[k].pos \in 0..Len(url)
    BY <1>1 DEF ReadSoFar
  <2>3. f[k][rd[k].pos] = [rule |-> trie[k].rule, params |-> <<>>]
    BY <2>1, <2>2 DEF Here
  <2> QED BY <1>1, <2>1, <2>3
<1>3. ASSUME NEW c \in U, c # 1 PROVE \E i \in U : i < c
  <2>1. c \in 2..n /\ c \in 1..n
    BY <1>1, <1>3
  <2>2. PICK at \in 1..n : c \in trie[at].children
    BY <1>1, <2>1
  <2>3. c \in (at + 1)..n /\ at < c
    BY <1>1, <2>2 DEF Tree
  <2>4. trie[c].key \in Pieces /\ trie[c].key # <<>>
    BY <1>1, <2>1 DEF Tree, Node
  <2> DEFINE pos == rd[at].pos
             key == trie[c].key
             eaten == Eaten(key, Drop(url, pos))
             next == f[c][pos + eaten]
             rets == Entered(trie, url, f, at, pos)
             C == trie[at].children
  <2>5. pos \in 0..Len(url) /\ Len(url) \in Nat
    BY <1>1 DEF ReadSoFar, Pieces
  <2>6. eaten \in Nat /\ pos + eaten \in 0..Len(url)
    BY <2>4, <2>5, EatenWithin
  <2>7. /\ rd[c].ok <=> rd[at].ok /\ eaten > 0
        /\ rd[c].pos = pos + eaten
    <3>1. rd[c] = ReadOn(rd[at], key, url)
      BY <1>1, <2>2
    <3>2. rd[c].ok <=> rd[at].ok /\ eaten > 0
      BY <3>1, ReadOnIs
    <3>3. rd[c].pos = pos + eaten
      BY <3>1, ReadOnIs
    <3> QED BY <3>2, <3>3
  <2>8. rets \in [C -> Result] /\ C \in SUBSET Nat
    <3>1. \A x \in (at + 1)..n : f[x] \in Results(url)
      BY <1>1
    <3> QED BY <1>1, <2>5, <3>1, EnteredType
  <2>9. rets[c] = Enter(key, f[c], url, pos)
    BY <2>2 DEF Entered
  <2>10. Enter(key, f[c], url, pos).rule = IF eaten = 0 THEN 0 ELSE next.rule
    BY DEF Enter, NotFound
  <2>11. f[at][pos] = IF pos = Len(url) THEN [rule |-> trie[at].rule, params |-> <<>>]
                      ELSE Best(rets)
    BY <2>5 DEF Here
  <2>12. f[at][pos] \in Result
    BY <2>5 DEF Results
  <2> HIDE DEF pos, key, eaten, next, rets
  <2>13. rd[c].ok /\ rd[at].ok /\ eaten > 0
    BY <1>3, <2>7, <1>1 DEF ReadSoFar
  <2>14. next.rule # 0 /\ next.rule <= v
    BY <1>3, <2>7 DEF next
  <2>15. rets[c].rule = next.rule
    BY <2>6, <2>9, <2>10, <2>13
  <2>16. f[at][pos] = Best(rets)
    BY <2>5, <2>6, <2>11, <2>13
  <2>17. f[at][pos].rule # 0 /\ f[at][pos].rule <= next.rule
    <3>1. DOMAIN rets = C /\ \A x \in C : rets[x].rule \in Nat
      BY <2>8 DEF Result
    <3>2. c \in C /\ rets[c].rule # 0
      BY <2>2, <2>14, <2>15
    <3> HIDE DEF C
    <3>3. \E x \in C : /\ rets[x].rule # 0 /\ Best(rets) = rets[x]
                       /\ \A d \in C : rets[d].rule # 0 =>
                            \/ rets[x].rule < rets[d].rule
                            \/ rets[x].rule = rets[d].rule /\ x <= d
      <4>1. C \in SUBSET Nat
        BY <2>8
      <4>2. ~\A x \in C : rets[x].rule = 0
        BY <3>2
      <4> QED BY <3>1, <4>1, <4>2, BestIs
    <3>4. PICK x \in C : /\ rets[x].rule # 0 /\ Best(rets) = rets[x]
                         /\ rets[x].rule <= rets[c].rule
      BY <3>1, <3>2, <3>3
    <3> QED BY <2>15, <2>16, <3>4
  <2>18. f[at][pos].rule <= v
    <3>1. f[at][pos].rule \in Nat /\ next.rule \in Nat
      <4>1. next \in Result
        BY <2>1, <2>6 DEF Results, next
      <4> QED BY <2>12, <4>1 DEF Result
    <3> QED BY <1>1, <2>14, <2>17, <3>1
  <2>19. at \in U
    BY <2>13, <2>17, <2>18 DEF pos
  <2> QED BY <2>3, <2>19
<1>4. U \in SUBSET Nat
  BY <1>1
<1> HIDE DEF U
<1>5. PICK i \in U : \A j \in U : i <= j
  BY <1>2, <1>4, Least
<1>6. i = 1
  BY <1>3, <1>4, <1>5
<1>7. 1 \in U
  BY <1>5, <1>6
<1> QED BY <1>1, <1>7 DEF U, Begun

(* So find() answers with the lowest rule there is. *)
LEMMA FindIsLowest ==
  ASSUME NEW trie, NEW url \in Pieces, NEW H, Means(trie, url, H)
  PROVE  /\ Find(trie, url).rule # 0 => Find(trie, url) \in H
         /\ \A h \in H : Find(trie, url).rule # 0 /\ Find(trie, url).rule <= h.rule
<1>1. PICK rd : ReadsAs(trie, url, rd) /\ Answers(trie, url, rd, H)
  BY DEF Means
<1>2. Tree(trie)
  BY <1>1 DEF ReadsAs
<1>3. PICK f \in [1..Len(trie) -> Results(url)] :
        /\ \A at \in 1..Len(trie) : f[at] = Here(trie, url, f, at)
        /\ Find(trie, url) = f[1][0]
  BY <1>2, FindSteps
<1> DEFINE ret == f[1][0]
<1>4. 1 \in 1..Len(trie) /\ 0 \in 0..Len(url) /\ ret \in Result
  BY <1>2 DEF Tree, Pieces, Results
<1>5. ASSUME ret.rule # 0 PROVE ret \in H
  <2>1. rd[1] = Begun
    BY <1>1 DEF ReadsAs
  <2>2. Behind(rd, 1, ret) \in H
    BY <1>1, <1>3, <1>4, <1>5, <2>1, FoundIsMeant DEF Begun
  <2>3. <<>> \o ret.params = ret.params
    BY <1>4, ConcatEmptySeq DEF Result
  <2>4. Behind(rd, 1, ret) = [rule |-> ret.rule, params |-> ret.params]
    BY <2>1, <2>3 DEF Behind, Begun
  <2>5. ret = [rule |-> ret.rule, params |-> ret.params]
    BY <1>4 DEF Result
  <2> QED BY <2>2, <2>4, <2>5
<1>6. ASSUME NEW h \in H PROVE ret.rule # 0 /\ ret.rule <= h.rule
  <2>1. PICK k \in 1..Len(trie) : Hit(trie, url, rd, k) /\ h = Answer(trie, rd, k)
    BY <1>1 DEF Answers
  <2>2. ret.rule # 0 /\ ret.rule <= trie[k].rule
    BY <1>1, <1>3, <2>1, MeantIsFound
  <2> QED BY <2>1, <2>2 DEF Answer
<1> QED BY <1>3, <1>5, <1>6

-----------------------------------------------------------------------------
(* Optimize: merging a chain of nodes changes no answer.                   *)
LEMMA EnterPlain ==
  ASSUME NEW url \in Pieces, NEW key \in Pieces, key # <<>>, key[1] \notin Param,
         NEW pos \in 0..Len(url), NEW found \in Results(url)
  PROVE  /\ Comes(key, url, pos) => pos + Len(key) \in 1..Len(url)
         /\ Enter(key, found, url, pos)
              = IF Comes(key, url, pos) THEN found[pos + Len(key)] ELSE NotFound
<1> DEFINE rest == Drop(url, pos)
           ret == found[pos + Len(key)]
<1>1. /\ Eaten(key, rest) = IF Comes(key, url, pos) THEN Len(key) ELSE 0
      /\ Capture(key, rest) = <<>>
  BY EatenPlain
<1>2. Len(key) \in Nat \ {0} /\ Len(url) \in Nat
  BY EmptySeq DEF Pieces
<1>3. CASE ~Comes(key, url, pos)
  <2>1. Eaten(key, rest) = 0
    BY <1>1, <1>3
  <2> QED BY <1>3, <2>1 DEF Enter
<1>4. CASE Comes(key, url, pos)
  <2>1. pos + Len(key) \in 1..Len(url) /\ pos + Len(key) \in 0..Len(url)
    BY <1>2, <1>4 DEF Comes
  <2>2. ret \in Result
    BY <2>1 DEF Results
  <2>3. Eaten(key, rest) = Len(key) /\ Eaten(key, rest) # 0
    BY <1>1, <1>2, <1>4
  <2> HIDE DEF rest, ret
  <2>4. Enter(key, found, url, pos) = [rule |-> ret.rule, params |-> <<>> \o ret.params]
    BY <1>1, <2>3 DEF Enter, rest, ret
  <2>5. <<>> \o ret.params = ret.params
    BY <2>2, ConcatEmptySeq DEF Result
  <2>6. ret = [rule |-> ret.rule, params |-> ret.params]
    BY <2>2 DEF Result
  <2>7. Enter(key, found, url, pos) = ret
    BY <2>4, <2>5, <2>6
  <2> QED BY <1>4, <2>1, <2>7 DEF ret
<1> QED BY <1>3, <1>4

LEMMA BestOne ==
  ASSUME NEW c \in Nat, NEW rets \in [{c} -> Result]
  PROVE  Same(Best(rets), rets[c])
<1>1. rets[c] \in Result /\ rets[c].rule \in Nat
  BY DEF Result
<1>2. \/ rets[c].rule = 0 /\ Best(rets) = NotFound
      \/ Best(rets) = rets[c]
  <2> DEFINE C == {c}
  <2>1. C \in SUBSET Nat /\ DOMAIN rets = C /\ (\A d \in C : d = c) /\ c \in C
    OBVIOUS
  <2>2. \A d \in C : rets[d].rule \in Nat
    BY <1>1
  <2> HIDE DEF C
  <2>3. \/ (\A d \in C : rets[d].rule = 0) /\ Best(rets) = NotFound
        \/ \E d \in C : Best(rets) = rets[d]
    BY <2>1, <2>2, BestIs
  <2> QED BY <2>1, <2>3
<1> QED BY <1>1, <1>2 DEF Same, NotFound

(* Two children that answer the same make parents that do. *)
LEMMA EnterSame ==
  ASSUME NEW key, NEW url, NEW pos, NEW f, NEW g,
         LET at == pos + Eaten(key, Drop(url, pos)) IN Same(f[at], g[at])
  PROVE  Same(Enter(key, f, url, pos), Enter(key, g, url, pos))
<1> DEFINE rest == Drop(url, pos)
           r == f[pos + Eaten(key, rest)]
           s == g[pos + Eaten(key, rest)]
<1>1. CASE Eaten(key, rest) = 0
  BY <1>1, Zenon DEF Enter, Same
<1>2. CASE Eaten(key, rest) # 0
  <2>1. Same(r, s)
    OBVIOUS
  <2>2. Enter(key, f, url, pos) = [rule |-> r.rule, params |-> Capture(key, rest) \o r.params]
    BY <1>2, Zenon DEF Enter
  <2>3. Enter(key, g, url, pos) = [rule |-> s.rule, params |-> Capture(key, rest) \o s.params]
    BY <1>2, Zenon DEF Enter
  <2> HIDE DEF r, s, rest
  <2>4. r.rule = s.rule /\ (r.rule # 0 => r.params = s.params)
    BY <2>1 DEF Same
  <2>5. Same([rule |-> r.rule, params |-> Capture(key, rest) \o r.params],
             [rule |-> s.rule, params |-> Capture(key, rest) \o s.params])
    BY <2>4 DEF Same
  <2> QED BY <2>2, <2>3, <2>5
<1> QED BY <1>1, <1>2

(* One node of optimise(). *)
OnlyChild(node) == CHOOSE c \in node.children : TRUE
Merges(trie, i) == trie[i].children # {} /\ IsSimple(trie, trie[i])
Optimized(trie, opt, i) ==
  IF Merges(trie, i)
  THEN [opt[OnlyChild(trie[i])] EXCEPT !.key = trie[i].key \o @]
  ELSE trie[i]

LEMMA OnlyChildIs ==
  ASSUME NEW trie, Tree(trie), NEW i \in 1..Len(trie), Merges(trie, i)
  PROVE  LET c == OnlyChild(trie[i])
         IN /\ trie[i].children = {c}
            /\ c \in (i + 1)..Len(trie) /\ c \in 2..Len(trie)
            /\ trie[i].rule = 0
            /\ i # 1 => trie[i].key[1] \notin Param
            /\ trie[c].key[1] \notin Param
<1> DEFINE c == OnlyChild(trie[i])
<1>1. c \in trie[i].children
  BY Zenon DEF Merges, OnlyChild
<1> HIDE DEF c
<1>2. trie[i].children = {c}
  BY <1>1 DEF Merges, IsSimple
<1>3. c \in (i + 1)..Len(trie) /\ c \in 2..Len(trie)
  BY <1>1 DEF Tree
<1>4. trie[c].key # <<>> /\ (i # 1 => trie[i].key # <<>>)
  <2>1. i # 1 => i \in 2..Len(trie)
    OBVIOUS
  <2> QED BY <1>3, <2>1 DEF Tree
<1>5. trie[i].rule = 0 /\ ~IsParam(trie[i]) /\ ~IsParam(trie[c])
  BY <1>1 DEF Merges, IsSimple
<1> QED BY <1>2, <1>3, <1>4, <1>5 DEF IsParam, c

LEMMA OptimizedNode ==
  ASSUME NEW trie, Tree(trie), NEW i \in 1..Len(trie), Merges(trie, i),
         NEW opt, opt[OnlyChild(trie[i])] \in Node
  PROVE  LET c == OnlyChild(trie[i])
         IN /\ Optimized(trie, opt, i) \in Node
            /\ Optimized(trie, opt, i).rule = opt[c].rule
            /\ Optimized(trie, opt, i).children = opt[c].children
            /\ Optimized(trie, opt, i).key = trie[i].key \o opt[c].key
<1> DEFINE c == OnlyChild(trie[i])
           o == opt[c]
           key == trie[i].key \o o.key
<1>1. o \in Node
  OBVIOUS
<1>2. Optimized(trie, opt, i) = [o EXCEPT !.key = trie[i].key \o o.key]
  BY Zenon DEF Optimized
<1> HIDE DEF o, c
<1>3. key \in Pieces
  <2>1. trie[i].key \in Seq(STRING) /\ o.key \in Seq(STRING)
    BY <1>1 DEF Tree, Node, Pieces
  <2> QED BY <2>1, ConcatProperties DEF Pieces
<1>4. Optimized(trie, opt, i) = [o EXCEPT !.key = key]
  BY <1>2
<1> HIDE DEF key
<1>5. /\ Optimized(trie, opt, i) \in Node
      /\ Optimized(trie, opt, i).rule = o.rule
      /\ Optimized(trie, opt, i).children = o.children
      /\ Optimized(trie, opt, i).key = key
  BY <1>1, <1>3, <1>4 DEF Node
<1> QED BY <1>5 DEF key, o, c

LEMMA OptimizedLocal ==
  ASSUME NEW trie, Tree(trie), NEW i \in 1..Len(trie),
         NEW f, NEW g, \A c \in (i + 1)..Len(trie) : f[c] = g[c]
  PROVE  Optimized(trie, f, i) = Optimized(trie, g, i)
<1>1. CASE Merges(trie, i)
  <2>1. f[OnlyChild(trie[i])] = g[OnlyChild(trie[i])]
    BY <1>1, OnlyChildIs
  <2> QED BY <1>1, <2>1, Zenon DEF Optimized
<1>2. CASE ~Merges(trie, i)
  BY <1>2 DEF Optimized
<1> QED BY <1>1, <1>2

LEMMA OptimizeSteps ==
  ASSUME NEW trie, Tree(trie)
  PROVE  \E f \in [1..Len(trie) -> Node] :
           /\ \A i \in 1..Len(trie) : f[i] = Optimized(trie, f, i)
           /\ Optimize(trie) = [i \in 1..Len(trie) |-> IF i = 1 THEN trie[1] ELSE f[i]]
<1> DEFINE n == Len(trie)
           G == [i \in 1..n |-> [h \in [(i + 1)..n -> Node] |-> Optimized(trie, h, i)]]
           Solves(f) == f = [i \in 1..n |-> Optimized(trie, f, i)]
<1>1. n \in Nat \ {0} /\ DOMAIN trie = 1..n
  BY DEF Tree
<1>2. \A i \in 1..n : \A h \in [(i + 1)..n -> Node] : G[i][h] = Optimized(trie, h, i)
  OBVIOUS
<1>3. \A i \in 1..n : \A h \in [(i + 1)..n -> Node] : G[i][h] \in Node
  <2> HIDE DEF G
  <2>1. ASSUME NEW i \in 1..n, NEW h \in [(i + 1)..n -> Node]
        PROVE  Optimized(trie, h, i) \in Node
    <3>1. CASE Merges(trie, i)
      <4>1. h[OnlyChild(trie[i])] \in Node
        BY <3>1, OnlyChildIs
      <4> QED BY <3>1, <4>1, OptimizedNode
    <3>2. CASE ~Merges(trie, i)
      BY <3>2 DEF Optimized, Tree
    <3> QED BY <3>1, <3>2
  <2> QED BY <1>2, <2>1
<1> HIDE DEF G
<1>4. PICK f \in [1..n -> Node] : Unrolls(G, n, f)
  <2>1. n \in Nat /\ Goes(G, n, Node)
    BY <1>1, <1>3 DEF Goes
  <2> HIDE DEF n
  <2> QED BY <2>1, BackRecursion
<1>5. ASSUME NEW i \in 1..n PROVE f[i] = Optimized(trie, f, i)
  <2> DEFINE h == [j \in (i + 1)..n |-> f[j]]
  <2>1. h \in [(i + 1)..n -> Node] /\ \A c \in (i + 1)..n : h[c] = f[c]
    BY <1>1
  <2>2. f[i] = Optimized(trie, h, i)
    BY <1>2, <1>4, <2>1 DEF Unrolls
  <2> HIDE DEF h
  <2> QED BY <2>1, <2>2, OptimizedLocal
<1>6. Solves(f)
  <2>1. f = [i \in 1..n |-> f[i]]
    BY <1>4
  <2> QED BY <1>5, <2>1
<1> DEFINE opt == CHOOSE f1 : Solves(f1)
<1>7. Optimize(trie) = [i \in 1..n |-> IF i = 1 THEN trie[1] ELSE opt[i]]
  <2>1. Optimize(trie) =
          [i \in DOMAIN trie |-> IF i = 1 THEN trie[1] ELSE
             (CHOOSE f1 : f1 = [j \in DOMAIN trie |-> Optimized(trie, f1, j)])[i]]
    BY Zenon DEF Optimize, Optimized, Merges, OnlyChild
  <2> QED BY <1>1, <2>1, SMTT(30)
<1>8. Solves(opt)
  <2> HIDE DEF Solves
  <2> QED BY <1>6, Zenon
<1> HIDE DEF opt
<1>9. \A i \in 1..n : opt[i] = Optimized(trie, opt, i)
  BY <1>8, Zenon
<1>10. \A i \in 1..n : opt[i] = f[i]
  <2> DEFINE T == {i \in 1..n : opt[i] = f[i]}
  <2>1. ASSUME NEW i \in 1..n, \A j \in (i + 1)..n : j \in T PROVE i \in T
    <3>1. \A j \in (i + 1)..n : opt[j] = f[j]
      BY <2>1
    <3>2. Optimized(trie, opt, i) = Optimized(trie, f, i)
      BY <3>1, OptimizedLocal
    <3> QED BY <1>5, <1>9, <3>2
  <2> HIDE DEF T
  <2>2. \A i \in 1..n : i \in T
    BY <1>1, <2>1, Backward
  <2> QED BY <2>2 DEF T
<1>11. Optimize(trie) = [i \in 1..n |-> IF i = 1 THEN trie[1] ELSE f[i]]
  BY <1>7, <1>10
<1> QED BY <1>4, <1>5, <1>11

LEMMA OptimizedKeys ==
  ASSUME NEW trie, Tree(trie), NEW opt \in [1..Len(trie) -> Node],
         \A i \in 1..Len(trie) : opt[i] = Optimized(trie, opt, i)
  PROVE  \A i \in 1..Len(trie) :
           /\ opt[i].children \subseteq (i + 1)..Len(trie)
           /\ i # 1 => opt[i].key # <<>> /\ opt[i].key[1] = trie[i].key[1]
<1> DEFINE n == Len(trie)
           T == {i \in 1..n : /\ opt[i].children \subseteq (i + 1)..n
                              /\ i # 1 => opt[i].key # <<>> /\ opt[i].key[1] = trie[i].key[1]}
<1>1. n \in Nat
  BY DEF Tree
<1>2. ASSUME NEW i \in 1..n, \A j \in (i + 1)..n : j \in T PROVE i \in T
  <2>1. CASE Merges(trie, i)
    <3> DEFINE c == OnlyChild(trie[i])
               key1 == trie[i].key
               key2 == opt[c].key
    <3>1. c \in (i + 1)..n /\ c \in 1..n
      BY <2>1, OnlyChildIs
    <3>2. opt[i].children = opt[c].children /\ opt[i].key = key1 \o key2
      BY <2>1, <3>1, OptimizedNode, ZenonT(60)
    <3>3. opt[c].children \subseteq (c + 1)..n
      BY <1>2, <3>1
    <3>4. key1 \in Seq(STRING) /\ key2 \in Seq(STRING)
      BY <3>1 DEF Tree, Node, Pieces
    <3> HIDE DEF c, key1, key2
    <3>5. opt[i].children \subseteq (i + 1)..n
      BY <3>1, <3>2, <3>3
    <3>6. ASSUME i # 1 PROVE key1 \o key2 # <<>> /\ (key1 \o key2)[1] = key1[1]
      <4>1. i \in 2..n
        BY <3>6
      <4>2. key1 # <<>>
        BY <4>1 DEF Tree, key1
      <4>3. Len(key1) \in Nat \ {0} /\ Len(key2) \in Nat
        BY <3>4, <4>2, EmptySeq
      <4>4. 1 \in 1..Len(key1) + Len(key2) /\ 1 <= Len(key1)
        BY <4>3
      <4>5. Len(key1 \o key2) = Len(key1) + Len(key2)
        BY <3>4, ConcatProperties
      <4>6. (key1 \o key2)[1] = key1[1]
        BY <3>4, <4>4, ConcatProperties
      <4>7. key1 \o key2 # <<>>
        BY <3>4, <4>2, ConcatEqualIffEmpty
      <4> QED BY <4>6, <4>7
    <3> QED BY <3>2, <3>5, <3>6 DEF key1
  <2>2. CASE ~Merges(trie, i)
    <3>1. opt[i] = trie[i]
      BY <2>2 DEF Optimized
    <3>2. i # 1 => i \in 2..n
      OBVIOUS
    <3> QED BY <3>1, <3>2 DEF Tree
  <2> QED BY <2>1, <2>2
<1> HIDE DEF T
<1>3. \A i \in 1..n : i \in T
  BY <1>1, <1>2, Backward
<1> QED BY <1>3 DEF T

LEMMA OptimizedTree ==
  ASSUME NEW trie, Tree(trie), NEW opt \in [1..Len(trie) -> Node],
         \A i \in 1..Len(trie) : opt[i] = Optimized(trie, opt, i),
         NEW merged, merged = [i \in 1..Len(trie) |-> IF i = 1 THEN trie[1] ELSE opt[i]]
  PROVE  Tree(merged) /\ Len(merged) = Len(trie)
<1> DEFINE n == Len(trie)
<1>1. n \in Nat \ {0} /\ \A i \in 1..n : trie[i] \in Node
  BY DEF Tree
<1>2. merged \in [1..n -> Node]
  BY <1>1
<1>3. merged \in Seq(Node) /\ Len(merged) = n /\ DOMAIN merged = 1..n
  BY <1>1, <1>2
<1>4. \A i \in 1..n : merged[i].children \subseteq (i + 1)..n
  <2>1. 1 \in 1..n /\ trie[1].children \subseteq (1 + 1)..n
    BY <1>1 DEF Tree
  <2> QED BY <1>1, <2>1, OptimizedKeys
<1>5. \A c \in 2..n : merged[c].key # <<>>
  <2>1. \A c \in 2..n : c \in 1..n /\ c # 1
    OBVIOUS
  <2> QED BY <2>1, OptimizedKeys
<1> QED BY <1>1, <1>2, <1>3, <1>4, <1>5 DEF Tree

(* A node that was not merged answers the same if its children do. *)
LEMMA SameHere ==
  ASSUME NEW trie, Tree(trie), NEW merged, Tree(merged), Len(merged) = Len(trie),
         NEW url \in Pieces,
         NEW f \in [1..Len(trie) -> Results(url)], NEW g \in [1..Len(trie) -> Results(url)],
         NEW i \in 1..Len(trie), merged[i].rule = trie[i].rule,
         merged[i].children = trie[i].children,
         \A c \in trie[i].children : \A pos \in 0..Len(url) :
           Same(Enter(merged[c].key, g[c], url, pos), Enter(trie[c].key, f[c], url, pos)),
         f[i] = Here(trie, url, f, i), g[i] = Here(merged, url, g, i),
         NEW pos \in 0..Len(url)
  PROVE  Same(g[i][pos], f[i][pos])
<1>1. CASE pos = Len(url)
  BY <1>1 DEF Here, Same
<1>2. CASE pos # Len(url)
  <2> DEFINE C == trie[i].children
             rets == Entered(merged, url, g, i, pos)
             others == Entered(trie, url, f, i, pos)
  <2>1. others \in [C -> Result] /\ C \in SUBSET Nat
    <3>1. \A c \in (i + 1)..Len(trie) : f[c] \in Results(url)
      BY DEF Tree
    <3> QED BY <3>1, EnteredType
  <2>2. rets \in [C -> Result]
    <3>1. \A c \in (i + 1)..Len(merged) : g[c] \in Results(url)
      BY DEF Tree
    <3> QED BY <3>1, EnteredType
  <2>3. \A c \in C : Same(rets[c], others[c])
    BY DEF Entered
  <2>4. f[i][pos] = Best(others) /\ g[i][pos] = Best(rets)
    BY <1>2 DEF Here
  <2> HIDE DEF C, rets, others
  <2> QED BY <2>1, <2>2, <2>3, <2>4, BestSame
<1> QED BY <1>1, <1>2

(* A merged node answers as it did with its child behind it. *)
LEMMA SameMerged ==
  ASSUME NEW trie, Tree(trie), NEW url \in Pieces, NEW i \in 2..Len(trie), Merges(trie, i),
         NEW key \in Pieces, key # <<>>, key[1] \notin Param,
         NEW f \in [1..Len(trie) -> Results(url)], f[i] = Here(trie, url, f, i),
         NEW found \in Results(url),
         \A pos \in 0..Len(url) :
           LET c == OnlyChild(trie[i])
           IN Same(Enter(key, found, url, pos), Enter(trie[c].key, f[c], url, pos)),
         NEW pos \in 0..Len(url)
  PROVE  Same(Enter(trie[i].key \o key, found, url, pos), Enter(trie[i].key, f[i], url, pos))
<1> DEFINE c == OnlyChild(trie[i])
           own == trie[i].key
           next == pos + Len(own)
<1>1. /\ i \in 1..Len(trie) /\ trie[i].children = {c} /\ c \in (i + 1)..Len(trie)
      /\ trie[i].rule = 0 /\ own[1] \notin Param
  BY OnlyChildIs
<1>2. own \in Pieces /\ own # <<>>
  BY <1>1 DEF Tree, Node
<1>3. f[i] \in Results(url) /\ pos \in Nat
  BY <1>1
<1> HIDE DEF own
<1>4. Len(own) \in Nat \ {0} /\ Len(key) \in Nat \ {0} /\ Len(url) \in Nat
  BY <1>2, EmptySeq DEF Pieces
<1>5. /\ own \o key \in Pieces /\ own \o key # <<>> /\ (own \o key)[1] = own[1]
      /\ Len(own \o key) = Len(own) + Len(key)
  <2>1. own \in Seq(STRING) /\ key \in Seq(STRING)
    BY <1>2 DEF Pieces
  <2>2. 1 \in 1..Len(own) + Len(key) /\ 1 <= Len(own)
    BY <1>4
  <2>3. own \o key \in Pieces /\ Len(own \o key) = Len(own) + Len(key)
    BY <2>1, ConcatProperties DEF Pieces
  <2>4. (own \o key)[1] = own[1]
    BY <2>1, <2>2, ConcatProperties
  <2>5. own \o key # <<>>
    BY <1>2, <2>1, ConcatEqualIffEmpty
  <2> QED BY <2>3, <2>4, <2>5
<1>6. Enter(own \o key, found, url, pos)
        = IF Comes(own, url, pos) /\ Comes(key, url, next)
          THEN found[next + Len(key)] ELSE NotFound
  <2> DEFINE both == own \o key
  <2>1. both \in Pieces /\ both # <<>> /\ both[1] \notin Param
        /\ pos + Len(both) = next + Len(key)
    BY <1>1, <1>3, <1>4, <1>5
  <2>2. Comes(both, url, pos) <=> Comes(own, url, pos) /\ Comes(key, url, next)
    BY <1>2, <1>3, ComesBoth
  <2> HIDE DEF both, next
  <2>3. Enter(both, found, url, pos)
          = IF Comes(both, url, pos) THEN found[pos + Len(both)] ELSE NotFound
    BY <2>1, EnterPlain
  <2> QED BY <2>1, <2>2, <2>3 DEF both
<1>7. /\ Comes(own, url, pos) => next \in 1..Len(url)
      /\ Enter(own, f[i], url, pos)
           = IF Comes(own, url, pos) THEN f[i][next] ELSE NotFound
  BY <1>1, <1>2, <1>3, EnterPlain
<1>8. CASE ~Comes(own, url, pos)
  <2>1. Enter(own \o key, found, url, pos) = NotFound /\ Enter(own, f[i], url, pos) = NotFound
    BY <1>6, <1>7, <1>8
  <2> QED BY <2>1 DEF Same, own
<1>9. CASE Comes(own, url, pos)
  <2>1. next \in 1..Len(url) /\ next \in 0..Len(url)
    BY <1>7, <1>9
  <2> HIDE DEF next
  <2>2. Enter(own, f[i], url, pos) = f[i][next]
    BY <1>7, <1>9
  <2>3. /\ Comes(key, url, next) => next + Len(key) \in 1..Len(url)
        /\ Enter(key, found, url, next)
             = IF Comes(key, url, next) THEN found[next + Len(key)] ELSE NotFound
    BY <2>1, EnterPlain
  <2>4. Enter(own \o key, found, url, pos) = Enter(key, found, url, next)
    BY <1>6, <1>9, <2>3
  <2>5. Same(Enter(key, found, url, next), f[i][next])
    <3>1. CASE next = Len(url)
      <4>1. ~Comes(key, url, next)
        BY <1>4, <2>1, <3>1 DEF Comes
      <4>2. Enter(key, found, url, next).rule = 0
        BY <2>3, <4>1 DEF NotFound
      <4>3. f[i][next].rule = 0
        BY <1>1, <2>1, <3>1 DEF Here
      <4> QED BY <4>2, <4>3 DEF Same
    <3>2. CASE next # Len(url)
      <4> DEFINE rets == Entered(trie, url, f, i, next)
      <4>1. f[i][next] = Best(rets)
        BY <2>1, <3>2 DEF Here
      <4>2. rets \in [trie[i].children -> Result]
        <5>1. \A d \in (i + 1)..Len(trie) : f[d] \in Results(url)
          BY DEF Tree
        <5> QED BY <1>1, <2>1, <5>1, EnteredType
      <4>3. rets[c] = Enter(trie[c].key, f[c], url, next)
        BY <1>1 DEF Entered
      <4>4. Same(Enter(key, found, url, next), rets[c])
        BY <2>1, <4>3
      <4>5. c \in Nat /\ trie[i].children = {c}
        BY <1>1 DEF Tree
      <4> HIDE DEF rets, c
      <4>6. Same(Best(rets), rets[c])
        BY <4>2, <4>5, BestOne
      <4> QED BY <4>1, <4>4, <4>6 DEF Same
    <3> QED BY <3>1, <3>2
  <2> QED BY <2>2, <2>4, <2>5 DEF own
<1> QED BY <1>8, <1>9

(* Merging keeps what find() answers. *)
LEMMA OptimizeKeeps ==
  ASSUME NEW trie, Tree(trie), NEW url \in Pieces
  PROVE  Same(Find(Optimize(trie), url), Find(trie, url))
<1> DEFINE n == Len(trie)
           merged == Optimize(trie)
<1>1. PICK opt \in [1..n -> Node] :
        /\ \A i \in 1..n : opt[i] = Optimized(trie, opt, i)
        /\ merged = [i \in 1..n |-> IF i = 1 THEN trie[1] ELSE opt[i]]
  BY OptimizeSteps
<1> HIDE DEF merged
<1>2. Tree(merged) /\ Len(merged) = n
  BY <1>1, OptimizedTree
<1>3. n \in Nat \ {0}
  BY DEF Tree
<1>4. PICK f \in [1..n -> Results(url)] :
        /\ \A at \in 1..n : f[at] = Here(trie, url, f, at)
        /\ Find(trie, url) = f[1][0]
  BY FindSteps
<1>5. PICK g \in [1..n -> Results(url)] :
        /\ \A at \in 1..n : g[at] = Here(merged, url, g, at)
        /\ Find(merged, url) = g[1][0]
  BY <1>2, FindSteps
<1> DEFINE Enters(i) == \A pos \in 0..Len(url) :
                          Same(Enter(merged[i].key, g[i], url, pos),
                               Enter(trie[i].key, f[i], url, pos))
           T == {i \in 1..n : i # 1 => Enters(i)}
<1>6. ASSUME NEW i \in 1..n, \A j \in (i + 1)..n : j \in T, i = 1 \/ ~Merges(trie, i),
             NEW pos \in 0..Len(url)
      PROVE  Same(g[i][pos], f[i][pos]) /\ merged[i] = trie[i]
  <2>1. merged[i] = trie[i]
    <3>1. CASE i = 1
      BY <1>1, <3>1
    <3>2. CASE i # 1
      <4>1. ~Merges(trie, i)
        BY <1>6, <3>2
      <4>2. opt[i] = trie[i]
        BY <1>1, <4>1 DEF Optimized
      <4> QED BY <1>1, <3>2, <4>2
    <3> QED BY <3>1, <3>2
  <2>2. ASSUME NEW c \in trie[i].children PROVE Enters(c)
    <3>1. c \in (i + 1)..n /\ c # 1
      BY <1>3 DEF Tree
    <3> HIDE DEF Enters
    <3> QED BY <1>6, <3>1
  <2>3. f[i] = Here(trie, url, f, i) /\ g[i] = Here(merged, url, g, i)
    BY <1>4, <1>5
  <2> QED BY <1>2, <2>1, <2>2, <2>3, SameHere
<1>7. ASSUME NEW i \in 1..n, \A j \in (i + 1)..n : j \in T PROVE i \in T
  <2> SUFFICES ASSUME i # 1, NEW pos \in 0..Len(url)
               PROVE  Same(Enter(merged[i].key, g[i], url, pos),
                           Enter(trie[i].key, f[i], url, pos))
    OBVIOUS
  <2>1. i \in 2..n
    OBVIOUS
  <2>2. CASE ~Merges(trie, i)
    <3> DEFINE key == trie[i].key
               at == pos + Eaten(key, Drop(url, pos))
    <3>1. key \in Pieces /\ key # <<>>
      BY <2>1 DEF Tree, Node
    <3>2. at \in 0..Len(url)
      BY <3>1, EatenWithin
    <3>3. Same(g[i][at], f[i][at]) /\ merged[i].key = key
      BY <1>6, <1>7, <2>2, <3>2
    <3> QED BY <3>3, EnterSame
  <2>3. CASE Merges(trie, i)
    <3> DEFINE c == OnlyChild(trie[i])
               key == opt[c].key
    <3>1. c \in (i + 1)..n /\ c \in 2..n /\ c # 1 /\ c \in 1..n /\ trie[c].key[1] \notin Param
      BY <1>3, <2>3, OnlyChildIs
    <3>2. opt[c] \in Node /\ key \in Pieces
      BY <3>1 DEF Node
    <3>3. key # <<>> /\ key[1] \notin Param
      BY <1>1, <3>1, OptimizedKeys, ZenonT(60)
    <3>4. /\ opt[i].rule = opt[c].rule /\ opt[i].children = opt[c].children
          /\ opt[i].key = trie[i].key \o key
      <4>1. opt[i] = Optimized(trie, opt, i)
        BY <1>1
      <4> QED BY <2>3, <3>2, <4>1, OptimizedNode, ZenonT(60)
    <3>5. merged[i] = opt[i] /\ merged[c] = opt[c]
      BY <1>1, <3>1
    <3>6. g[i] = g[c]
      <4>1. ASSUME NEW at PROVE Entered(merged, url, g, i, at) = Entered(merged, url, g, c, at)
        BY <3>4, <3>5 DEF Entered
      <4>2. Here(merged, url, g, i) = Here(merged, url, g, c)
        BY <3>4, <3>5, <4>1 DEF Here
      <4> QED BY <1>5, <3>1, <4>2
    <3>7. Enters(c)
      <4> HIDE DEF Enters
      <4> QED BY <1>7, <3>1
    <3>8. \A at \in 0..Len(url) :
            Same(Enter(key, g[c], url, at), Enter(trie[c].key, f[c], url, at))
      BY <3>5, <3>7
    <3>9. g[c] \in Results(url) /\ f[i] = Here(trie, url, f, i)
      BY <1>4, <3>1
    <3>10. Same(Enter(trie[i].key \o key, g[c], url, pos), Enter(trie[i].key, f[i], url, pos))
      <4> HIDE DEF key
      <4> QED BY <2>1, <2>3, <3>2, <3>3, <3>8, <3>9, SameMerged
    <3> QED BY <3>4, <3>5, <3>6, <3>10
  <2> QED BY <2>2, <2>3
<1> HIDE DEF T
<1>8. \A i \in 1..n : i \in T
  BY <1>3, <1>7, Backward
<1>9. 1 \in 1..n /\ 0 \in 0..Len(url) /\ \A j \in (1 + 1)..n : j \in T
  BY <1>3, <1>8 DEF Pieces
<1>10. Same(g[1][0], f[1][0])
  BY <1>6, <1>9
<1> QED BY <1>4, <1>5, <1>10 DEF merged

-----------------------------------------------------------------------------
(* Add.  The three walks along a pattern: what it reads of a URL, the place*)
(* it ends at in the trie there is, and the trie that is made of it.       *)
LEMMA ReadOnType ==
  ASSUME NEW url \in Pieces, NEW last \in ReadSoFar(url), NEW key \in Pieces, key # <<>>
  PROVE  ReadOn(last, key, url) \in ReadSoFar(url)
<1> DEFINE pos == last.pos
           rest == Drop(url, pos)
           eaten == Eaten(key, rest)
           took == Capture(key, rest)
           params == last.params
<1>1. pos \in 0..Len(url) /\ params \in Seq(Pieces)
  BY DEF ReadSoFar
<1>2. pos + eaten \in 0..Len(url)
  BY <1>1, EatenWithin
<1>3. took \in Seq(Pieces)
  BY <1>1, Dropped, CaptureText
<1>4. ReadOn(last, key, url) = [ok |-> last.ok /\ eaten > 0, pos |-> pos + eaten,
                                params |-> params \o took]
  BY DEF ReadOn
<1> HIDE DEF pos, rest, eaten, took, params
<1>5. params \o took \in Seq(Pieces)
  BY <1>1, <1>3, ConcatProperties
<1>6. (last.ok /\ eaten > 0) \in BOOLEAN
  OBVIOUS
<1> QED BY <1>2, <1>4, <1>5, <1>6 DEF ReadSoFar

LEMMA Singleton ==
  ASSUME NEW S, NEW x \in S
  PROVE  <<x>> \in Seq(S)
OBVIOUS

LEMMA PieceText ==
  ASSUME NEW piece \in STRING
  PROVE  <<piece>> \in Pieces /\ <<piece>> # <<>> /\ Len(<<piece>>) = 1
<1>1. <<piece>> \in Seq(STRING) /\ Len(<<piece>>) = 1
  <2>1. Len(<<piece>>) = 1
    OBVIOUS
  <2> QED BY <2>1, Singleton
<1>2. Len(<<>>) = 0
  BY EmptySeq
<1>3. <<piece>> # <<>>
  BY <1>1, <1>2
<1> QED BY <1>1, <1>3 DEF Pieces

LEMMA ReadBySteps ==
  ASSUME NEW pattern \in Pieces, NEW url \in Pieces
  PROVE  \E f \in [0..Len(pattern) -> ReadSoFar(url)] :
           /\ f[0] = Begun
           /\ \A i \in 1..Len(pattern) : f[i] = ReadOn(f[i - 1], <<pattern[i]>>, url)
           /\ ReadBy(pattern, url) = f[Len(pattern)]
<1> DEFINE n == Len(pattern)
           S == ReadSoFar(url)
           G == [i \in 1..n |-> [r \in S |-> ReadOn(r, <<pattern[i]>>, url)]]
           Solves(f) == f = [i \in 0..n |->
                               IF i = 0 THEN Begun ELSE ReadOn(f[i - 1], <<pattern[i]>>, url)]
<1>1. n \in Nat /\ \A i \in 1..n : pattern[i] \in STRING
  BY DEF Pieces
<1>2. Begun \in S
  BY EmptySeq DEF Begun, ReadSoFar, Pieces
<1>3. ASSUME NEW i \in 1..n, NEW r \in S PROVE ReadOn(r, <<pattern[i]>>, url) \in S
  BY <1>1, PieceText, ReadOnType
<1>4. \A i \in 1..n : \A r \in S : G[i][r] = ReadOn(r, <<pattern[i]>>, url)
  OBVIOUS
<1> HIDE DEF S, G
<1>5. PICK f \in [0..n -> S] : f[0] = Begun /\ StepsBy(G, n, f)
  <2>1. Stays(G, n, S)
    BY <1>3, <1>4 DEF Stays
  <2> HIDE DEF n
  <2> QED BY <1>1, <1>2, <2>1, Recursion
<1>6. \A i \in 1..n : i - 1 \in 0..n /\ i \in 0..n /\ i # 0
  BY <1>1
<1>7. \A i \in 1..n : f[i] = ReadOn(f[i - 1], <<pattern[i]>>, url)
  BY <1>4, <1>5, <1>6 DEF StepsBy
<1>8. Solves(f)
  <2>1. \A i \in 0..n : i # 0 => i \in 1..n
    BY <1>1
  <2>2. f = [i \in 0..n |-> f[i]]
    BY <1>5
  <2> QED BY <1>5, <1>7, <2>1, <2>2
<1> DEFINE read == CHOOSE f1 : Solves(f1)
<1>9. ReadBy(pattern, url) = read[n]
  BY Zenon DEF ReadBy
<1>10. Solves(read)
  <2> HIDE DEF Solves
  <2> QED BY <1>8, Zenon
<1> HIDE DEF read
<1>11. 0 \in 0..n /\ n \in 0..n
  BY <1>1
<1>12. read[0] = Begun /\ \A i \in 1..n : read[i] = ReadOn(read[i - 1], <<pattern[i]>>, url)
  BY <1>6, <1>10, <1>11
<1>13. \A i \in 0..n : read[i] = f[i]
  <2>1. Alike(read, f, n)
    BY <1>7, <1>12 DEF Alike
  <2>2. read[0] = f[0]
    BY <1>5, <1>12
  <2> HIDE DEF n
  <2> QED BY <1>1, <2>1, <2>2, Recursed
<1> QED BY <1>5, <1>7, <1>9, <1>11, <1>13 DEF S

LEMMA ChildAtIs ==
  ASSUME NEW trie, Tree(trie), NEW at \in 1..Len(trie), NEW piece
  PROVE  /\ ChildAt(trie, at, piece) \in 0..Len(trie)
         /\ ChildAt(trie, at, piece) # 0 =>
              /\ ChildAt(trie, at, piece) \in trie[at].children
              /\ trie[ChildAt(trie, at, piece)].key[1] = piece
<1> DEFINE C == {c \in trie[at].children : trie[c].key[1] = piece}
           child == CHOOSE c \in C : TRUE
<1>1. ChildAt(trie, at, piece) = IF C = {} THEN 0 ELSE child
  BY Zenon DEF ChildAt
<1>2. C # {} => child \in C
  <2> HIDE DEF C
  <2> QED BY Zenon
<1>3. C # {} => child \in trie[at].children /\ trie[child].key[1] = piece
  BY <1>2
<1>4. C # {} => child \in 0..Len(trie) /\ child # 0
  BY <1>3 DEF Tree
<1>5. 0 \in 0..Len(trie)
  BY DEF Tree
<1> HIDE DEF C, child
<1> QED BY <1>1, <1>3, <1>4, <1>5

Place(trie, last, piece) == IF last = 0 THEN 0 ELSE ChildAt(trie, last, piece)

LEMMA RuleAtSteps ==
  ASSUME NEW trie, Tree(trie), NEW pattern \in Pieces
  PROVE  \E f \in [0..Len(pattern) -> 0..Len(trie)] :
           /\ f[0] = 1
           /\ \A i \in 1..Len(pattern) : f[i] = Place(trie, f[i - 1], pattern[i])
           /\ RuleAt(trie, pattern)
                = IF f[Len(pattern)] = 0 THEN 0 ELSE trie[f[Len(pattern)]].rule
<1> DEFINE n == Len(pattern)
           S == 0..Len(trie)
           G == [i \in 1..n |-> [at \in S |-> Place(trie, at, pattern[i])]]
           Solves(f) == f = [i \in 0..n |->
                               IF i = 0 THEN 1 ELSE Place(trie, f[i - 1], pattern[i])]
<1>1. n \in Nat
  BY DEF Pieces
<1>2. 1 \in S
  BY DEF Tree
<1>3. ASSUME NEW i \in 1..n, NEW at \in S PROVE Place(trie, at, pattern[i]) \in S
  <2>1. at # 0 => at \in 1..Len(trie)
    BY DEF Tree
  <2>2. 0 \in S
    BY DEF Tree
  <2> QED BY <2>1, <2>2, ChildAtIs DEF Place
<1>4. \A i \in 1..n : \A at \in S : G[i][at] = Place(trie, at, pattern[i])
  OBVIOUS
<1> HIDE DEF S, G
<1>5. PICK f \in [0..n -> S] : f[0] = 1 /\ StepsBy(G, n, f)
  <2>1. Stays(G, n, S)
    BY <1>3, <1>4 DEF Stays
  <2> HIDE DEF n
  <2> QED BY <1>1, <1>2, <2>1, Recursion
<1>6. \A i \in 1..n : i - 1 \in 0..n /\ i \in 0..n /\ i # 0
  BY <1>1
<1>7. \A i \in 1..n : f[i] = Place(trie, f[i - 1], pattern[i])
  BY <1>4, <1>5, <1>6 DEF StepsBy
<1>8. Solves(f)
  <2>1. \A i \in 0..n : i # 0 => i \in 1..n
    BY <1>1
  <2>2. f = [i \in 0..n |-> f[i]]
    BY <1>5
  <2> QED BY <1>5, <1>7, <2>1, <2>2
<1> DEFINE at == CHOOSE f1 : Solves(f1)
<1>9. RuleAt(trie, pattern) = IF at[n] = 0 THEN 0 ELSE trie[at[n]].rule
  BY Zenon DEF RuleAt, Place
<1>10. Solves(at)
  <2> HIDE DEF Solves
  <2> QED BY <1>8, Zenon
<1> HIDE DEF at
<1>11. 0 \in 0..n /\ n \in 0..n
  BY <1>1
<1>12. at[0] = 1 /\ \A i \in 1..n : at[i] = Place(trie, at[i - 1], pattern[i])
  BY <1>6, <1>10, <1>11
<1>13. \A i \in 0..n : at[i] = f[i]
  <2>1. Alike(at, f, n)
    BY <1>7, <1>12 DEF Alike
  <2>2. at[0] = f[0]
    BY <1>5, <1>12
  <2> HIDE DEF n
  <2> QED BY <1>1, <2>1, <2>2, Recursed
<1> QED BY <1>5, <1>7, <1>9, <1>11, <1>13 DEF S

(* A new child. *)
Grown(trie, at, piece) ==
  Append([trie EXCEPT ![at].children = @ \cup {Len(trie) + 1}], Fresh(piece))

LEMMA GrownIs ==
  ASSUME NEW trie, Tree(trie), NEW at \in 1..Len(trie), NEW piece \in STRING
  PROVE  LET next == Grown(trie, at, piece)
             new == Len(trie) + 1
         IN /\ Tree(next) /\ Len(next) = new
            /\ \A i \in 1..Len(trie) :
                 /\ next[i].rule = trie[i].rule /\ next[i].key = trie[i].key
                 /\ next[i].children
                      = IF i = at THEN trie[i].children \cup {new} ELSE trie[i].children
            /\ next[new].rule = 0 /\ next[new].key = <<piece>> /\ next[new].children = {}
<1> DEFINE n == Len(trie)
           new == n + 1
           node == [trie[at] EXCEPT !.children = @ \cup {new}]
           wide == [trie EXCEPT ![at] = node]
           next == Append(wide, Fresh(piece))
<1>1. /\ n \in Nat \ {0} /\ new \in Nat /\ trie \in Seq(Node)
      /\ \A i \in 1..n : trie[i] \in Node
  BY DEF Tree
<1>2. Grown(trie, at, piece) = next
  BY DEF Grown
<1>3. /\ node \in Node /\ node.rule = trie[at].rule /\ node.key = trie[at].key
      /\ node.children = trie[at].children \cup {new}
  BY <1>1 DEF Node
<1>4. /\ Fresh(piece) \in Node /\ Fresh(piece).rule = 0 /\ Fresh(piece).key = <<piece>>
      /\ Fresh(piece).children = {}
  BY PieceText DEF Fresh, Root, Node
<1> HIDE DEF node
<1>5. /\ wide \in Seq(Node) /\ Len(wide) = n
      /\ \A i \in 1..n : wide[i] = IF i = at THEN node ELSE trie[i]
  BY <1>1, <1>3, ExceptSeq
<1> HIDE DEF wide
<1>6. /\ next \in Seq(Node) /\ Len(next) = new
      /\ \A i \in 1..n : next[i] = wide[i]
      /\ next[new] = Fresh(piece)
  <2>1. \A i \in 1..new : next[i] = IF i <= n THEN wide[i] ELSE Fresh(piece)
    BY <1>1, <1>4, <1>5, AppendProperties
  <2>2. next \in Seq(Node) /\ Len(next) = new
    BY <1>1, <1>4, <1>5, AppendProperties
  <2>3. new \in 1..new /\ ~(new <= n) /\ \A i \in 1..n : i \in 1..new /\ i <= n
    BY <1>1
  <2> HIDE DEF new, n, next
  <2> QED BY <2>1, <2>2, <2>3
<1> HIDE DEF next
<1>7. /\ \A i \in 1..n :
           /\ next[i].rule = trie[i].rule /\ next[i].key = trie[i].key
           /\ next[i].children = IF i = at THEN trie[i].children \cup {new} ELSE trie[i].children
      /\ next[new].rule = 0 /\ next[new].key = <<piece>> /\ next[new].children = {}
  BY <1>3, <1>4, <1>5, <1>6
<1>8. Tree(next)
  <2>1. DOMAIN next = 1..Len(next) /\ \A i \in 1..Len(next) : next[i] \in Node
    BY <1>6
  <2>2. ASSUME NEW i \in 1..new PROVE next[i].children \subseteq (i + 1)..new
    <3>1. CASE i = new
      BY <1>7, <3>1
    <3>2. CASE i # new
      <4>1. i \in 1..n /\ trie[i].children \subseteq (i + 1)..n /\ new \in (i + 1)..new
        BY <1>1, <3>2 DEF Tree
      <4>2. (i + 1)..n \subseteq (i + 1)..new
        BY <1>1, <4>1
      <4>3. next[i].children \subseteq trie[i].children \cup {new}
        BY <1>7, <4>1
      <4> HIDE DEF new, n
      <4> QED BY <4>1, <4>2, <4>3
    <3> QED BY <3>1, <3>2
  <2>3. ASSUME NEW c \in 2..new PROVE next[c].key # <<>>
    <3>1. CASE c = new
      BY <1>7, <3>1, PieceText
    <3>2. CASE c # new
      <4>1. c \in 1..n /\ c \in 2..n
        BY <1>1, <3>2
      <4> QED BY <1>7, <4>1 DEF Tree
    <3> QED BY <3>1, <3>2
  <2>4. Len(next) \in Nat \ {0}
    BY <1>1, <1>6
  <2> QED BY <1>6, <2>1, <2>2, <2>3, <2>4 DEF Tree
<1> QED BY <1>2, <1>6, <1>7, <1>8

Places == {s \in [trie : Seq(Node), at : Nat] : Tree(s.trie) /\ s.at \in 1..Len(s.trie)}

LEMMA DescendIs ==
  ASSUME NEW last, NEW piece
  PROVE  Descend(last, piece) =
           IF ChildAt(last.trie, last.at, piece) # 0
           THEN [trie |-> last.trie, at |-> ChildAt(last.trie, last.at, piece)]
           ELSE [trie |-> Grown(last.trie, last.at, piece), at |-> Len(last.trie) + 1]
BY Zenon DEF Descend, Grown

LEMMA DescendType ==
  ASSUME NEW s \in Places, NEW piece \in STRING
  PROVE  Descend(s, piece) \in Places
<1> DEFINE trie == s.trie
           at == s.at
           child == ChildAt(trie, at, piece)
           new == Len(trie) + 1
           next == Grown(trie, at, piece)
<1>1. Tree(trie) /\ at \in 1..Len(trie) /\ Len(trie) \in Nat /\ trie \in Seq(Node)
  BY DEF Places, Tree
<1>2. Descend(s, piece) = IF child # 0 THEN [trie |-> trie, at |-> child]
                          ELSE [trie |-> next, at |-> new]
  BY DescendIs
<1> HIDE DEF trie, at
<1>3. child \in 0..Len(trie)
  BY <1>1, ChildAtIs
<1>4. Tree(next) /\ Len(next) = new /\ next \in Seq(Node)
  <2>1. Tree(next) /\ Len(next) = new
    BY <1>1, GrownIs
  <2> QED BY <2>1 DEF Tree
<1> HIDE DEF child, next
<1>5. CASE child # 0
  BY <1>1, <1>2, <1>3, <1>5 DEF Places
<1>6. CASE child = 0
  <2>1. new \in 1..Len(next) /\ new \in Nat
    BY <1>1, <1>4
  <2> QED BY <1>2, <1>4, <1>6, <2>1 DEF Places
<1> QED BY <1>5, <1>6

Ruled(trie, at, index) == [trie EXCEPT ![at].rule = index]

LEMMA RuledIs ==
  ASSUME NEW trie, Tree(trie), NEW at \in 1..Len(trie), NEW index \in Nat
  PROVE  LET next == Ruled(trie, at, index)
         IN /\ Tree(next) /\ Len(next) = Len(trie)
            /\ \A i \in 1..Len(trie) :
                 /\ next[i].rule = IF i = at THEN index ELSE trie[i].rule
                 /\ next[i].key = trie[i].key /\ next[i].children = trie[i].children
<1> DEFINE n == Len(trie)
           node == [trie[at] EXCEPT !.rule = index]
           next == [trie EXCEPT ![at] = node]
<1>1. n \in Nat \ {0} /\ trie \in Seq(Node) /\ \A i \in 1..n : trie[i] \in Node
  BY DEF Tree
<1>2. Ruled(trie, at, index) = next
  BY DEF Ruled
<1>3. /\ node \in Node /\ node.rule = index /\ node.key = trie[at].key
      /\ node.children = trie[at].children
  BY <1>1 DEF Node
<1> HIDE DEF node
<1>4. /\ next \in Seq(Node) /\ Len(next) = n
      /\ \A i \in 1..n : next[i] = IF i = at THEN node ELSE trie[i]
  BY <1>1, <1>3, ExceptSeq
<1> HIDE DEF next
<1>5. \A i \in 1..n :
        /\ next[i].rule = IF i = at THEN index ELSE trie[i].rule
        /\ next[i].key = trie[i].key /\ next[i].children = trie[i].children
  BY <1>3, <1>4
<1>6. Tree(next)
  <2>1. DOMAIN next = 1..n /\ \A i \in 1..n : next[i] \in Node
    BY <1>4
  <2>2. \A c \in 2..n : c \in 1..n
    OBVIOUS
  <2> QED BY <1>1, <1>4, <1>5, <2>1, <2>2 DEF Tree
<1> QED BY <1>2, <1>4, <1>5, <1>6

Walks(f, trie, pattern) ==
  /\ f \in [0..Len(pattern) -> Places]
  /\ f[0] = [trie |-> trie, at |-> 1]
  /\ \A i \in 1..Len(pattern) : f[i] = Descend(f[i - 1], pattern[i])
EndsIn(f, n, index) == Ruled(f[n].trie, f[n].at, index)

LEMMA AddSteps ==
  ASSUME NEW trie, Tree(trie), NEW pattern \in Pieces, NEW index \in Nat
  PROVE  \E f : /\ Walks(f, trie, pattern)
                /\ Add(trie, pattern, index) = EndsIn(f, Len(pattern), index)
<1> DEFINE n == Len(pattern)
           S == Places
           start == [trie |-> trie, at |-> 1]
           G == [i \in 1..n |-> [s \in S |-> Descend(s, pattern[i])]]
           Solves(f) == f = [i \in 0..n |->
                               IF i = 0 THEN start ELSE Descend(f[i - 1], pattern[i])]
<1>1. n \in Nat /\ \A i \in 1..n : pattern[i] \in STRING
  BY DEF Pieces
<1>2. start \in S
  <2>1. trie \in Seq(Node) /\ 1 \in 1..Len(trie)
    BY DEF Tree
  <2> QED BY <2>1 DEF Places
<1>3. ASSUME NEW i \in 1..n, NEW s \in S PROVE Descend(s, pattern[i]) \in S
  BY <1>1, DescendType
<1>4. \A i \in 1..n : \A s \in S : G[i][s] = Descend(s, pattern[i])
  OBVIOUS
<1> HIDE DEF S, G, start
<1>5. PICK f \in [0..n -> S] : f[0] = start /\ StepsBy(G, n, f)
  <2>1. Stays(G, n, S)
    BY <1>3, <1>4 DEF Stays
  <2> HIDE DEF n
  <2> QED BY <1>1, <1>2, <2>1, Recursion
<1>6. \A i \in 1..n : i - 1 \in 0..n /\ i \in 0..n /\ i # 0
  BY <1>1
<1>7. \A i \in 1..n : f[i] = Descend(f[i - 1], pattern[i])
  BY <1>4, <1>5, <1>6 DEF StepsBy
<1>8. Solves(f)
  <2>1. \A i \in 0..n : i # 0 => i \in 1..n
    BY <1>1
  <2>2. f = [i \in 0..n |-> f[i]]
    BY <1>5
  <2> QED BY <1>5, <1>7, <2>1, <2>2
<1> DEFINE walk == CHOOSE f1 : Solves(f1)
<1>9. Add(trie, pattern, index) = Ruled(walk[n].trie, walk[n].at, index)
  BY Zenon DEF Add, Ruled, start
<1>10. Solves(walk)
  <2> HIDE DEF Solves
  <2> QED BY <1>8, Zenon
<1> HIDE DEF walk
<1>11. 0 \in 0..n /\ n \in 0..n
  BY <1>1
<1>12. walk[0] = start /\ \A i \in 1..n : walk[i] = Descend(walk[i - 1], pattern[i])
  BY <1>6, <1>10, <1>11
<1>13. \A i \in 0..n : walk[i] = f[i]
  <2>1. Alike(walk, f, n)
    BY <1>7, <1>12 DEF Alike
  <2>2. walk[0] = f[0]
    BY <1>5, <1>12
  <2> HIDE DEF n
  <2> QED BY <1>1, <2>1, <2>2, Recursed
<1> QED BY <1>5, <1>7, <1>9, <1>11, <1>13 DEF S, start, Walks, EndsIn

(* What a new child and a new rule mean. *)
MeansAt(trie, url, H, at, reading) ==
  \E rd : ReadsAs(trie, url, rd) /\ Answers(trie, url, rd, H) /\ rd[at] = reading

LEMMA GrownMeans ==
  ASSUME NEW trie, NEW url \in Pieces, NEW rd, ReadsAs(trie, url, rd),
         NEW H, Answers(trie, url, rd, H),
         NEW at \in 1..Len(trie), NEW piece \in STRING
  PROVE  MeansAt(Grown(trie, at, piece), url, H, Len(trie) + 1,
                 ReadOn(rd[at], <<piece>>, url))
<1> DEFINE n == Len(trie)
           new == n + 1
           next == Grown(trie, at, piece)
           last == ReadOn(rd[at], <<piece>>, url)
           rd2 == [i \in 1..new |-> IF i = new THEN last ELSE rd[i]]
<1>1. /\ Tree(trie) /\ n \in Nat \ {0}
      /\ \A c \in 2..n : Len(trie[c].key) = 1
      /\ \A c \in 2..n : \E i \in 1..n : c \in trie[i].children
      /\ \A i \in 1..n : rd[i] \in ReadSoFar(url)
      /\ rd[1] = Begun
      /\ \A i \in 1..n : \A c \in trie[i].children : rd[c] = ReadOn(rd[i], trie[c].key, url)
  BY DEF ReadsAs, Tree
<1>2. /\ Tree(next) /\ Len(next) = new
      /\ \A i \in 1..n :
           /\ next[i].rule = trie[i].rule /\ next[i].key = trie[i].key
           /\ next[i].children = IF i = at THEN trie[i].children \cup {new} ELSE trie[i].children
      /\ next[new].rule = 0 /\ next[new].key = <<piece>> /\ next[new].children = {}
  BY <1>1, GrownIs
<1>3. last \in ReadSoFar(url)
  BY <1>1, PieceText, ReadOnType
<1>4. \A i \in 1..new : i # new => i \in 1..n
  <2>1. n \in Nat
    BY <1>1
  <2> HIDE DEF n
  <2> QED BY <2>1
<1>5. new \in 1..new /\ new \notin 1..n /\ \A i \in 1..n : i \in 1..new /\ i # new
  BY <1>1
<1> HIDE DEF next, last
<1>6. rd2 \in [1..new -> ReadSoFar(url)]
  BY <1>1, <1>3, <1>4
<1>7. rd2[new] = last /\ \A i \in 1..n : rd2[i] = rd[i]
  BY <1>5
<1> HIDE DEF rd2
<1>8. ReadsAs(next, url, rd2)
  <2>1. ASSUME NEW c \in 2..new PROVE Len(next[c].key) = 1
    <3>1. CASE c = new
      BY <1>2, <3>1, PieceText
    <3>2. CASE c # new
      <4>1. c \in 1..n /\ c \in 2..n
        BY <1>1, <3>2
      <4> QED BY <1>1, <1>2, <4>1
    <3> QED BY <3>1, <3>2
  <2>2. ASSUME NEW c \in 2..new PROVE \E i \in 1..new : c \in next[i].children
    <3>1. CASE c = new
      BY <1>2, <1>5, <3>1
    <3>2. CASE c # new
      <4>1. c \in 2..n
        BY <1>1, <3>2
      <4>2. PICK i \in 1..n : c \in trie[i].children
        BY <1>1, <4>1
      <4> QED BY <1>2, <1>5, <4>2
    <3> QED BY <3>1, <3>2
  <2>3. ASSUME NEW i \in 1..new, NEW c \in next[i].children
        PROVE  rd2[c] = ReadOn(rd2[i], next[c].key, url)
    <3>1. i \in 1..n
      BY <1>2, <1>4, <2>3
    <3>2. CASE c \in trie[i].children
      <4>1. c \in 1..n
        BY <1>1, <3>1, <3>2 DEF Tree
      <4> QED BY <1>1, <1>2, <1>7, <3>1, <3>2, <4>1, ZenonT(60)
    <3>3. CASE c \notin trie[i].children
      <4>1. i = at /\ c = new
        BY <1>2, <2>3, <3>1, <3>3
      <4>2. rd2[c] = ReadOn(rd[at], <<piece>>, url)
        BY <1>7, <4>1 DEF last
      <4> QED BY <1>2, <1>7, <4>1, <4>2
    <3> QED BY <3>2, <3>3
  <2>4. rd2[1] = Begun
    BY <1>1, <1>7
  <2> QED BY <1>2, <1>6, <2>1, <2>2, <2>3, <2>4 DEF ReadsAs
<1>9. Answers(next, url, rd2, H)
  <2>1. ASSUME NEW i \in 1..n
        PROVE  /\ Hit(next, url, rd2, i) <=> Hit(trie, url, rd, i)
               /\ Answer(next, rd2, i) = Answer(trie, rd, i)
    BY <1>2, <1>7 DEF Hit, Answer
  <2>2. ~Hit(next, url, rd2, new)
    BY <1>2 DEF Hit
  <2>3. \A i \in 1..n : i \in 1..Len(next)
    BY <1>2, <1>5
  <2>4. \A i \in 1..Len(next) : Hit(next, url, rd2, i) => i \in 1..n
    BY <1>2, <1>4, <2>2
  <2> HIDE DEF n, new
  <2>5. \A i \in 1..n : Hit(trie, url, rd, i) => Answer(trie, rd, i) \in H
    BY DEF Answers, n
  <2>6. \A h \in H : \E i \in 1..n : Hit(trie, url, rd, i) /\ h = Answer(trie, rd, i)
    BY DEF Answers, n
  <2>7. \A i \in 1..Len(next) : Hit(next, url, rd2, i) => Answer(next, rd2, i) \in H
    BY <2>1, <2>4, <2>5, Zenon
  <2>8. \A h \in H : \E i \in 1..Len(next) : Hit(next, url, rd2, i) /\ h = Answer(next, rd2, i)
    BY <2>1, <2>3, <2>6, Zenon
  <2> QED BY <2>7, <2>8, Zenon DEF Answers
<1>10. MeansAt(next, url, H, new, last)
  <2> HIDE DEF new
  <2> QED BY <1>7, <1>8, <1>9, Zenon DEF MeansAt
<1> QED BY <1>10 DEF next, last

LEMMA RuledMeans ==
  ASSUME NEW trie, NEW url \in Pieces, NEW rd, ReadsAs(trie, url, rd),
         NEW H, Answers(trie, url, rd, H),
         NEW at \in 1..Len(trie), trie[at].rule = 0, NEW index \in Nat \ {0}
  PROVE  Means(Ruled(trie, at, index), url,
               H \cup (IF rd[at].ok /\ rd[at].pos = Len(url)
                       THEN {[rule |-> index, params |-> rd[at].params]} ELSE {}))
<1> DEFINE n == Len(trie)
           next == Ruled(trie, at, index)
           answer == [rule |-> index, params |-> rd[at].params]
           Ends == rd[at].ok /\ rd[at].pos = Len(url)
           more == H \cup (IF Ends THEN {answer} ELSE {})
<1>1. Tree(trie)
  BY DEF ReadsAs
<1>2. /\ Tree(next) /\ Len(next) = n
      /\ \A i \in 1..n :
           /\ next[i].rule = IF i = at THEN index ELSE trie[i].rule
           /\ next[i].key = trie[i].key /\ next[i].children = trie[i].children
  BY <1>1, RuledIs
<1>3. n \in Nat /\ \A c \in 2..n : c \in 1..n
  BY <1>1 DEF Tree
<1>4. \A i \in 1..n : \A c \in trie[i].children : c \in 1..n
  BY <1>1 DEF Tree
<1> HIDE DEF next
<1>5. ReadsAs(next, url, rd)
  <2>1. /\ \A c \in 2..n : Len(trie[c].key) = 1
        /\ \A c \in 2..n : \E i \in 1..n : c \in trie[i].children
        /\ rd \in [1..n -> ReadSoFar(url)] /\ rd[1] = Begun
        /\ \A i \in 1..n : \A c \in trie[i].children :
             rd[c] = ReadOn(rd[i], trie[c].key, url)
    BY DEF ReadsAs
  <2> HIDE DEF n
  <2>2. \A c \in 2..n : Len(next[c].key) = 1
    BY <1>2, <1>3, <2>1
  <2>3. \A c \in 2..n : \E i \in 1..n : c \in next[i].children
    BY <1>2, <2>1
  <2>4. \A i \in 1..n : \A c \in next[i].children :
          rd[c] = ReadOn(rd[i], next[c].key, url)
    <3>1. ASSUME NEW i \in 1..n, NEW c \in next[i].children
          PROVE  rd[c] = ReadOn(rd[i], next[c].key, url)
      <4>1. c \in trie[i].children /\ c \in 1..n
        BY <1>2, <1>4, <3>1
      <4>2. next[c].key = trie[c].key
        BY <1>2, <4>1
      <4> QED BY <2>1, <4>1, <4>2
    <3> QED BY <3>1
  <2> QED BY <1>2, <2>1, <2>2, <2>3, <2>4 DEF ReadsAs
<1>6. ASSUME NEW i \in 1..n, i # at
      PROVE  /\ Hit(next, url, rd, i) <=> Hit(trie, url, rd, i)
             /\ Answer(next, rd, i) = Answer(trie, rd, i)
  BY <1>2, <1>6 DEF Hit, Answer
<1>7. /\ Hit(next, url, rd, at) <=> Ends
      /\ Answer(next, rd, at) = answer
      /\ ~Hit(trie, url, rd, at)
  BY <1>2 DEF Hit, Answer
<1>8. Answers(next, url, rd, more)
  <2>1. /\ \A i \in 1..n : Hit(trie, url, rd, i) => Answer(trie, rd, i) \in H
        /\ \A h \in H : \E i \in 1..n : Hit(trie, url, rd, i) /\ h = Answer(trie, rd, i)
    BY DEF Answers
  <2>2. H \subseteq more /\ (Ends => answer \in more)
        /\ \A h \in more : h \in H \/ (Ends /\ h = answer)
    <3> HIDE DEF Ends, answer
    <3> QED OBVIOUS
  <2> HIDE DEF more, n, Ends, answer
  <2>3. \A i \in 1..n : Hit(next, url, rd, i) => Answer(next, rd, i) \in more
    BY <1>6, <1>7, <2>1, <2>2
  <2>4. ASSUME NEW h \in more
        PROVE  \E i \in 1..n : Hit(next, url, rd, i) /\ h = Answer(next, rd, i)
    <3>1. CASE h \in H
      <4>1. PICK i \in 1..n : Hit(trie, url, rd, i) /\ h = Answer(trie, rd, i)
        BY <2>1, <3>1
      <4>2. i # at
        BY <1>7, <4>1
      <4> QED BY <1>6, <4>1, <4>2
    <3>2. CASE Ends /\ h = answer
      <4>1. at \in 1..n
        BY DEF n
      <4> QED BY <1>7, <3>2, <4>1
    <3> QED BY <2>2, <3>1, <3>2
  <2>5. Len(next) = n
    BY <1>2
  <2> QED BY <2>3, <2>4, <2>5 DEF Answers
<1> QED BY <1>5, <1>8 DEF Means, next

(* The three walks go together: as long as the pattern is in the trie the  *)
(* walk of add() changes nothing, and from then on it is at a new node.    *)
Walked(trie, url, H, place, s, reading) ==
  /\ s \in Places
  /\ MeansAt(s.trie, url, H, s.at, reading)
  /\ \/ place # 0 /\ s.trie = trie /\ s.at = place
     \/ place = 0 /\ s.trie[s.at].rule = 0 /\ s.trie[s.at].children = {}

LEMMA WalkedOn ==
  ASSUME NEW trie, NEW url \in Pieces, NEW H, NEW place, NEW s, NEW reading,
         Walked(trie, url, H, place, s, reading), NEW piece \in STRING
  PROVE  Walked(trie, url, H, Place(trie, place, piece), Descend(s, piece),
                ReadOn(reading, <<piece>>, url))
<1> DEFINE old == s.trie
           at == s.at
           child == ChildAt(old, at, piece)
           new == Len(old) + 1
           next == Grown(old, at, piece)
           s2 == Descend(s, piece)
           place2 == Place(trie, place, piece)
<1>1. Tree(old) /\ at \in 1..Len(old) /\ s2 \in Places
  BY DescendType DEF Walked, Places
<1>2. PICK rd : ReadsAs(old, url, rd) /\ Answers(old, url, rd, H) /\ rd[at] = reading
  BY DEF Walked, MeansAt
<1>3. s2 = IF child # 0 THEN [trie |-> old, at |-> child] ELSE [trie |-> next, at |-> new]
  BY DescendIs
<1>4. \/ place # 0 /\ old = trie /\ at = place
      \/ place = 0 /\ old[at].rule = 0 /\ old[at].children = {}
  BY DEF Walked
<1> HIDE DEF old, at, s2
<1>5. CASE child # 0
  <2>1. /\ child \in old[at].children /\ old[child].key[1] = piece
        /\ child \in 0..Len(old)
    BY <1>1, <1>5, ChildAtIs
  <2>2. place # 0 /\ old = trie /\ at = place
    BY <1>4, <2>1
  <2>3. place2 = child
    BY <2>2 DEF Place
  <2> HIDE DEF child, place2
  <2>4. s2.trie = old /\ s2.at = child
    BY <1>3, <1>5
  <2>5. child \in 2..Len(old)
    BY <1>1, <2>1 DEF Tree
  <2>6. old[child].key = <<piece>>
    <3>1. Len(old[child].key) = 1
      BY <1>2, <2>5 DEF ReadsAs
    <3>2. old[child].key \in Seq(STRING) /\ <<piece>> \in Seq(STRING) /\ Len(<<piece>>) = 1
      <4>1. child \in 1..Len(old)
        BY <2>5
      <4> QED BY <1>1, <4>1, PieceText DEF Tree, Node, Pieces
    <3>3. \A i \in 1..1 : old[child].key[i] = <<piece>>[i]
      BY <2>1
    <3> QED BY <3>1, <3>2, <3>3, SeqEqual
  <2>7. rd[child] = ReadOn(reading, <<piece>>, url)
    BY <1>1, <1>2, <2>1, <2>6 DEF ReadsAs
  <2>8. MeansAt(s2.trie, url, H, s2.at, ReadOn(reading, <<piece>>, url))
    BY <1>2, <2>4, <2>7 DEF MeansAt
  <2>9. place2 # 0 /\ s2.trie = trie /\ s2.at = place2
    BY <1>5, <2>2, <2>3, <2>4
  <2> QED BY <1>1, <2>8, <2>9 DEF Walked, s2, place2
<1>6. CASE child = 0
  <2>1. place2 = 0
    BY <1>4, <1>6 DEF Place
  <2> HIDE DEF child, place2
  <2>2. s2.trie = next /\ s2.at = new
    BY <1>3, <1>6
  <2>3. next[new].rule = 0 /\ next[new].children = {}
    BY <1>1, GrownIs
  <2>4. MeansAt(next, url, H, new, ReadOn(reading, <<piece>>, url))
    <3>1. MeansAt(next, url, H, new, ReadOn(rd[at], <<piece>>, url))
      BY <1>1, <1>2, GrownMeans
    <3> QED BY <1>2, <3>1
  <2>5. place2 = 0 /\ s2.trie[s2.at].rule = 0 /\ s2.trie[s2.at].children = {}
    BY <2>1, <2>2, <2>3
  <2> HIDE DEF next, new
  <2> QED BY <1>1, <2>2, <2>4, <2>5 DEF Walked, s2, place2
<1> QED BY <1>5, <1>6

LEMMA AddTree ==
  ASSUME NEW trie, Tree(trie), NEW pattern \in Pieces, NEW index \in Nat
  PROVE  Tree(Add(trie, pattern, index))
<1>1. PICK walk : /\ Walks(walk, trie, pattern)
                  /\ Add(trie, pattern, index) = EndsIn(walk, Len(pattern), index)
  BY AddSteps
<1>2. walk[Len(pattern)] \in Places
  BY <1>1 DEF Walks, Pieces
<1>3. Tree(walk[Len(pattern)].trie) /\ walk[Len(pattern)].at \in 1..Len(walk[Len(pattern)].trie)
  BY <1>2 DEF Places
<1> QED BY <1>1, <1>3, RuledIs DEF EndsIn

(* The answer of a rule, if its pattern matches. *)
Said(pattern, index, url) ==
  IF Matches(pattern, url) THEN {[rule |-> index, params |-> Captures(pattern, url)]} ELSE {}

LEMMA AddMeans ==
  ASSUME NEW trie, NEW url \in Pieces, NEW H, Means(trie, url, H),
         NEW pattern \in Pieces, RuleAt(trie, pattern) = 0, NEW index \in Nat \ {0}
  PROVE  Means(Add(trie, pattern, index), url, H \cup Said(pattern, index, url))
<1> DEFINE n == Len(pattern)
<1>1. PICK rd : ReadsAs(trie, url, rd) /\ Answers(trie, url, rd, H)
  BY DEF Means
<1>2. Tree(trie) /\ rd[1] = Begun
  BY <1>1 DEF ReadsAs
<1>3. PICK place \in [0..n -> 0..Len(trie)] :
        /\ place[0] = 1
        /\ \A i \in 1..n : place[i] = Place(trie, place[i - 1], pattern[i])
        /\ RuleAt(trie, pattern) = IF place[n] = 0 THEN 0 ELSE trie[place[n]].rule
  BY <1>2, RuleAtSteps
<1>4. PICK walk : /\ walk \in [0..n -> Places]
                  /\ walk[0] = [trie |-> trie, at |-> 1]
                  /\ \A i \in 1..n : walk[i] = Descend(walk[i - 1], pattern[i])
                  /\ Add(trie, pattern, index) = Ruled(walk[n].trie, walk[n].at, index)
  <2>1. PICK f : Walks(f, trie, pattern) /\ Add(trie, pattern, index) = EndsIn(f, n, index)
    BY <1>2, AddSteps
  <2> QED BY <2>1, Zenon DEF Walks, EndsIn
<1>5. PICK read \in [0..n -> ReadSoFar(url)] :
        /\ read[0] = Begun
        /\ \A i \in 1..n : read[i] = ReadOn(read[i - 1], <<pattern[i]>>, url)
        /\ ReadBy(pattern, url) = read[n]
  BY ReadBySteps
<1>6. n \in Nat /\ 0 \in 0..n /\ n \in 0..n /\ \A i \in 1..n : pattern[i] \in STRING
  BY DEF Pieces
<1> DEFINE T == {i \in 0..n : Walked(trie, url, H, place[i], walk[i], read[i])}
<1>7. 0 \in T
  <2>1. walk[0] \in Places
    BY <1>4, <1>6
  <2>2. walk[0].trie = trie /\ walk[0].at = 1
    BY <1>4
  <2>3. MeansAt(walk[0].trie, url, H, walk[0].at, read[0])
    BY <1>1, <1>2, <1>5, <2>2 DEF MeansAt
  <2>4. Walked(trie, url, H, place[0], walk[0], read[0])
    BY <1>3, <2>1, <2>2, <2>3 DEF Walked
  <2> QED BY <1>6, <2>4
<1>8. ASSUME NEW i \in 1..n, i - 1 \in T PROVE i \in T
  <2>1. Walked(trie, url, H, place[i - 1], walk[i - 1], read[i - 1])
    BY <1>8
  <2>2. pattern[i] \in STRING
    BY <1>6
  <2>3. Walked(trie, url, H, Place(trie, place[i - 1], pattern[i]),
               Descend(walk[i - 1], pattern[i]), ReadOn(read[i - 1], <<pattern[i]>>, url))
    BY <2>1, <2>2, WalkedOn
  <2>4. Walked(trie, url, H, place[i], walk[i], read[i])
    BY <1>3, <1>4, <1>5, <2>3
  <2>5. i \in 0..n
    BY <1>6
  <2> QED BY <2>4, <2>5
<1> HIDE DEF T, n
<1>9. n \in T
  BY <1>6, <1>7, <1>8, Forward
<1>10. Walked(trie, url, H, place[n], walk[n], read[n])
  BY <1>9 DEF T
<1> DEFINE last == walk[n].trie
           at == walk[n].at
<1>11. PICK rd2 : ReadsAs(last, url, rd2) /\ Answers(last, url, rd2, H) /\ rd2[at] = read[n]
  BY <1>10 DEF Walked, MeansAt
<1>12. last[at].rule = 0 /\ at \in 1..Len(last)
  <2>1. walk[n] \in Places
    BY <1>10 DEF Walked
  <2>2. CASE place[n] # 0
    BY <1>3, <1>10, <2>1, <2>2 DEF Walked, Places
  <2>3. CASE place[n] = 0
    BY <1>10, <2>1, <2>3 DEF Walked, Places
  <2> QED BY <2>2, <2>3
<1> HIDE DEF last, at
<1>13. Means(Ruled(last, at, index), url,
             H \cup (IF rd2[at].ok /\ rd2[at].pos = Len(url)
                     THEN {[rule |-> index, params |-> rd2[at].params]} ELSE {}))
  BY <1>11, <1>12, RuledMeans
<1>14. Said(pattern, index, url) =
         IF rd2[at].ok /\ rd2[at].pos = Len(url)
         THEN {[rule |-> index, params |-> rd2[at].params]} ELSE {}
  BY <1>5, <1>11 DEF Said, Matches, Captures, n
<1>15. Means(Ruled(last, at, index), url, H \cup Said(pattern, index, url))
  BY <1>13, <1>14, Zenon
<1> QED BY <1>4, <1>15 DEF last, at

-----------------------------------------------------------------------------
(* The table of validate().                                                *)
Trees == {t \in Seq(Node) : Tree(t)}
Table == [ok : BOOLEAN, count : [Method -> Nat], trie : [Method -> Trees]]

LEMMA Patterns ==
  ASSUME NEW r \in Rule
  PROVE  /\ r.pattern \in Pieces /\ r.method \in Method /\ Len(r.pattern) \in Nat \ {0}
         /\ HasSlash(r.pattern) => Front(r.pattern) \in Pieces
<1>1. r.pattern \in Seq(STRING) /\ r.pattern # <<>> /\ r.method \in Method
  BY RoutingAssumption
<1>2. Len(r.pattern) \in Nat \ {0}
  BY <1>1, EmptySeq
<1>3. Front(r.pattern) \in Seq(STRING)
  <2>1. \A i \in 1..Len(r.pattern) : r.pattern[i] \in STRING
    BY <1>1
  <2>2. Front(r.pattern) = SubSeq(r.pattern, 1, Len(r.pattern) - 1)
    BY DEF Front
  <2> DEFINE p == r.pattern
             k == Len(p) - 1
  <2>3. k \in Int /\ \A i \in 1..k : p[i] \in STRING
    BY <1>2, <2>1
  <2> HIDE DEF p, k
  <2>4. SubSeq(p, 1, k) \in Seq(STRING)
    BY <2>3, SubSeqProperties
  <2> QED BY <2>2, <2>4 DEF p, k
<1> QED BY <1>1, <1>2, <1>3 DEF Pieces

(* What a rule adds: its trie takes the pattern, and the bare one. *)
Added(trie, r, index) ==
  IF HasSlash(r.pattern) THEN Add(Add(trie, r.pattern, index), Front(r.pattern), Redirect)
  ELSE Add(trie, r.pattern, index)

LEMMA InsertIs ==
  ASSUME NEW t \in Table, NEW r \in Rule
  PROVE  LET m == r.method
             index == t.count[m] + 2
             next == Insert(t, r)
         IN /\ next \in Table
            /\ next.ok => /\ t.ok /\ RuleAt(t.trie[m], r.pattern) = 0
                          /\ HasSlash(r.pattern) =>
                               RuleAt(Add(t.trie[m], r.pattern, index), Front(r.pattern)) = 0
            /\ next.count[m] = t.count[m] + 1
            /\ next.trie[m] = Added(t.trie[m], r, index)
            /\ \A o \in Method \ {m} : next.count[o] = t.count[o] /\ next.trie[o] = t.trie[o]
<1> DEFINE m == r.method
           index == t.count[m] + 2
           next == Insert(t, r)
           ok == /\ t.ok /\ RuleAt(t.trie[m], r.pattern) = 0
                 /\ HasSlash(r.pattern) =>
                      RuleAt(Add(t.trie[m], r.pattern, index), Front(r.pattern)) = 0
           count == [t.count EXCEPT ![m] = @ + 1]
           added == Added(t.trie[m], r, index)
           trie == [t.trie EXCEPT ![m] = added]
<1>1. next = [ok |-> ok, count |-> count, trie |-> trie]
  BY Zenon DEF Insert, Added
<1>2. m \in Method /\ t.count \in [Method -> Nat] /\ t.trie \in [Method -> Trees]
  BY Patterns DEF Table
<1>3. index \in Nat
  BY <1>2
<1>4. added \in Trees
  <2>1. Tree(t.trie[m])
    BY <1>2 DEF Trees
  <2> HIDE DEF index, m
  <2>2. Tree(Add(t.trie[m], r.pattern, index))
    BY <1>3, <2>1, Patterns, AddTree
  <2>3. HasSlash(r.pattern) => Tree(Add(Add(t.trie[m], r.pattern, index), Front(r.pattern), Redirect))
    <3>1. Redirect \in Nat
      BY DEF Redirect
    <3> QED BY <2>2, <3>1, Patterns, AddTree
  <2>4. Tree(added)
    BY <2>2, <2>3 DEF Added
  <2> QED BY <2>4 DEF Trees, Tree
<1> HIDE DEF m, index, added, ok
<1>5. count \in [Method -> Nat] /\ trie \in [Method -> Trees]
  BY <1>2, <1>4
<1>6. /\ count[m] = t.count[m] + 1 /\ trie[m] = added
      /\ \A o \in Method \ {m} : count[o] = t.count[o] /\ trie[o] = t.trie[o]
  BY <1>2
<1>7. ok \in BOOLEAN
  BY DEF ok
<1> HIDE DEF count, trie
<1>8. next \in Table /\ next.count = count /\ next.trie = trie
  BY <1>1, <1>5, <1>7 DEF Table
<1>9. next.ok <=> ok
  BY <1>1, <1>7
<1> HIDE DEF next
<1>10. ok => /\ t.ok /\ RuleAt(t.trie[m], r.pattern) = 0
             /\ HasSlash(r.pattern) =>
                  RuleAt(Add(t.trie[m], r.pattern, index), Front(r.pattern)) = 0
  BY Zenon DEF ok
<1> QED BY <1>6, <1>8, <1>9, <1>10 DEF m, index, next, added

(* The rules of a method among the first k, and the answers they stand for.*)
Upto(k, m) == {j \in 1..k : rules[j].method = m}
Slashless(i, url) ==
  IF HasSlash(rules[i].pattern) THEN Said(Front(rules[i].pattern), Redirect, url) ELSE {}
Speaks(i, url) == Said(rules[i].pattern, Index(i), url) \cup Slashless(i, url)
Heard(k, m, url) == UNION {Speaks(i, url) : i \in Upto(k, m)}

LEMMA UptoFinite ==
  ASSUME NEW k \in Nat, NEW m
  PROVE  IsFiniteSet(Upto(k, m)) /\ Cardinality(Upto(k, m)) \in Nat
<1>1. IsFiniteSet(1..k) /\ Upto(k, m) \in SUBSET (1..k)
  BY FS_Interval DEF Upto
<1>2. IsFiniteSet(Upto(k, m))
  BY <1>1, FS_Subset
<1> QED BY <1>2, FS_CardinalityType

LEMMA UptoStep ==
  ASSUME NEW k \in Nat \ {0}, NEW m
  PROVE  /\ rules[k].method # m => Upto(k, m) = Upto(k - 1, m)
         /\ rules[k].method = m =>
              /\ Upto(k, m) = Upto(k - 1, m) \cup {k}
              /\ Cardinality(Upto(k, m)) = Cardinality(Upto(k - 1, m)) + 1
<1>1. k - 1 \in Nat /\ \A j : j \in 1..k <=> j \in 1..(k - 1) \/ j = k
  OBVIOUS
<1>2. rules[k].method # m => Upto(k, m) = Upto(k - 1, m)
  BY <1>1 DEF Upto
<1>3. rules[k].method = m => Upto(k, m) = Upto(k - 1, m) \cup {k}
  BY <1>1 DEF Upto
<1>4. k \notin Upto(k - 1, m)
  BY DEF Upto
<1>5. Cardinality(Upto(k - 1, m) \cup {k}) = Cardinality(Upto(k - 1, m)) + 1
  BY <1>1, <1>4, UptoFinite, FS_AddElement
<1> QED BY <1>2, <1>3, <1>5

LEMMA MineIs ==
  ASSUME rules \in Seq(Rule)
  PROVE  \A m : Mine(m) = Upto(Len(rules), m)
  BY DEF Mine, Upto

LEMMA IndexIs ==
  ASSUME rules \in Seq(Rule), NEW i \in 1..Len(rules)
  PROVE  Index(i) = 1 + Cardinality(Upto(i, rules[i].method)) /\ Index(i) \in Nat
<1>1. {j \in Mine(rules[i].method) : j <= i} = Upto(i, rules[i].method)
  <2>1. \A j : j \in 1..Len(rules) /\ j <= i <=> j \in 1..i
    OBVIOUS
  <2>2. Mine(rules[i].method) = Upto(Len(rules), rules[i].method)
    BY MineIs
  <2> QED BY <2>1, <2>2 DEF Upto
<1>2. Cardinality(Upto(i, rules[i].method)) \in Nat
  BY UptoFinite
<1>3. Index(i) = 1 + Cardinality(Upto(i, rules[i].method))
  BY <1>1, Zenon DEF Index
<1> QED BY <1>2, <1>3

(* A rule that was added later has the higher index, and none that of a    *)
(* redirect.                                                               *)
LEMMA IndexOrder ==
  ASSUME rules \in Seq(Rule), NEW i \in 1..Len(rules)
  PROVE  /\ Index(i) > Redirect
         /\ \A j \in 1..Len(rules) :
              rules[j].method = rules[i].method /\ i < j => Index(i) < Index(j)
<1> DEFINE m == rules[i].method
<1>1. i \in Nat \ {0} /\ i - 1 \in Nat
  OBVIOUS
<1>2. Cardinality(Upto(i, m)) = Cardinality(Upto(i - 1, m)) + 1
  BY <1>1, UptoStep
<1>3. Cardinality(Upto(i - 1, m)) \in Nat
  BY <1>1, UptoFinite
<1>4. Index(i) > Redirect
  BY <1>2, <1>3, IndexIs DEF Redirect
<1>5. ASSUME NEW j \in 1..Len(rules), rules[j].method = m, i < j
      PROVE  Index(i) < Index(j)
  <2>1. j \in Nat \ {0} /\ j - 1 \in Nat /\ j \in Nat
    OBVIOUS
  <2>2. Upto(i, m) \in SUBSET Upto(j - 1, m)
    <3>1. \A x \in 1..i : x \in 1..(j - 1)
      BY <1>5
    <3> QED BY <3>1 DEF Upto
  <2>3. IsFiniteSet(Upto(j - 1, m)) /\ Cardinality(Upto(j - 1, m)) \in Nat
    BY <2>1, UptoFinite
  <2>4. Cardinality(Upto(i, m)) <= Cardinality(Upto(j - 1, m))
    BY <2>2, <2>3, FS_Subset
  <2>5. Cardinality(Upto(j, m)) = Cardinality(Upto(j - 1, m)) + 1
    BY <1>5, <2>1, UptoStep
  <2>6. Index(i) = 1 + Cardinality(Upto(i, m)) /\ Index(j) = 1 + Cardinality(Upto(j, m))
    BY <1>5, IndexIs
  <2>7. Cardinality(Upto(i, m)) \in Nat
    BY <1>1, UptoFinite
  <2> QED BY <2>3, <2>4, <2>5, <2>6, <2>7
<1> QED BY <1>4, <1>5

(* The lowest of the answers is the one FirstRule gives. *)
LEMMA LowestIsFirst ==
  ASSUME rules \in Seq(Rule), NEW m, NEW url, NEW r \in Result,
         LET H == Heard(Len(rules), m, url)
         IN /\ r.rule # 0 => r \in H
            /\ \A h \in H : r.rule # 0 /\ r.rule <= h.rule
  PROVE  LET first == FirstRule(m, url)
         IN r.rule = first.rule /\ (r.rule > Redirect => r.params = first.params)
<1> DEFINE n == Len(rules)
           H == Heard(n, m, url)
           own == Mine(m)
           M == Matching(m, url)
           first == FirstRule(m, url)
<1>1. /\ own = Upto(n, m) /\ own \subseteq 1..n /\ n \in Nat
      /\ \A i \in own : rules[i].method = m
  BY MineIs DEF Upto
<1>2. \A i \in own : Index(i) \in Nat /\ Index(i) > Redirect
  BY <1>1, IndexIs, IndexOrder
<1>3. \A i, j \in own : i < j => Index(i) < Index(j)
  BY <1>1, IndexOrder
<1>4. ASSUME NEW i \in own, Matches(rules[i].pattern, url)
      PROVE  [rule |-> Index(i), params |-> Captures(rules[i].pattern, url)] \in H
  BY <1>1, <1>4 DEF Heard, Speaks, Said
<1>5. ASSUME Redirected(m, url)
      PROVE  \E h \in H : h.rule = Redirect
  <2>1. PICK i \in own : HasSlash(rules[i].pattern) /\ Matches(Front(rules[i].pattern), url)
    BY <1>5 DEF Redirected
  <2>2. [rule |-> Redirect, params |-> Captures(Front(rules[i].pattern), url)] \in H
    BY <1>1, <2>1 DEF Heard, Speaks, Said, Slashless
  <2> QED BY <2>2
<1>6. ASSUME NEW h \in H
      PROVE  \/ \E i \in M : h = [rule |-> Index(i), params |-> Captures(rules[i].pattern, url)]
             \/ Redirected(m, url) /\ h.rule = Redirect
  <2>1. PICK i \in own : h \in Speaks(i, url)
    BY <1>1 DEF Heard
  <2>2. CASE h \in Said(rules[i].pattern, Index(i), url)
    BY <2>1, <2>2 DEF Said, Matching
  <2>3. CASE h \in Slashless(i, url)
    BY <2>1, <2>3 DEF Said, Slashless, Redirected
  <2> QED BY <2>1, <2>2, <2>3 DEF Speaks
<1>7. M \in SUBSET Nat /\ M \subseteq own
  BY <1>1 DEF Matching
<1>8. r.rule \in Nat
  BY DEF Result
<1>9. (r.rule # 0 => r \in H) /\ \A h \in H : r.rule # 0 /\ r.rule <= h.rule
  OBVIOUS
<1>10. \A i \in M : i \in own /\ Matches(rules[i].pattern, url)
  BY DEF Matching
<1> HIDE DEF H, own, M
<1>11. CASE Redirected(m, url)
  <2>1. r.rule # 0 /\ r.rule <= Redirect
    BY <1>5, <1>9, <1>11
  <2>2. r.rule = Redirect
    BY <1>8, <2>1 DEF Redirect
  <2>3. first = [rule |-> Redirect, params |-> <<>>]
    BY <1>11 DEF FirstRule
  <2> QED BY <2>2, <2>3 DEF Redirect
<1>12. CASE ~Redirected(m, url) /\ M = {}
  <2>1. r.rule = 0
    BY <1>6, <1>9, <1>12
  <2>2. first = NotFound
    BY <1>12 DEF FirstRule, M
  <2> QED BY <2>1, <2>2 DEF NotFound, Redirect
<1>13. CASE ~Redirected(m, url) /\ M # {}
  <2> DEFINE i == Min(M)
  <2>1. i \in M /\ \A j \in M : i <= j
    BY <1>7, <1>13, MinOf
  <2>2. first = [rule |-> Index(i), params |-> Captures(rules[i].pattern, url)]
    BY <1>13, Zenon DEF FirstRule, M
  <2> HIDE DEF i
  <2>3. [rule |-> Index(i), params |-> Captures(rules[i].pattern, url)] \in H
    BY <1>4, <1>10, <2>1
  <2>4. r.rule # 0 /\ r.rule <= Index(i)
    BY <1>9, <2>3
  <2>5. r \in H
    BY <1>9, <2>4
  <2>6. PICK j \in M : r = [rule |-> Index(j), params |-> Captures(rules[j].pattern, url)]
    BY <1>6, <1>13, <2>5
  <2>7. ~(i < j)
    BY <1>2, <1>3, <1>10, <2>1, <2>4, <2>6
  <2>8. i = j
    BY <1>7, <2>1, <2>7
  <2> QED BY <2>2, <2>6, <2>8
<1> QED BY <1>11, <1>12, <1>13

-----------------------------------------------------------------------------
(* Validate: after k rules the trie of a method means what the first k say.*)
Bottom == [ok |-> TRUE, count |-> [m \in Method |-> 0], trie |-> [m \in Method |-> <<Root>>]]
Fills(f) ==
  /\ f \in [0..Len(rules) -> Table]
  /\ f[0] = Bottom
  /\ \A i \in 1..Len(rules) : f[i] = Insert(f[i - 1], rules[i])
Built(f) ==
  IF f[Len(rules)].ok
  THEN /\ phase' = "running"
       /\ tries' = [m \in Method |-> Optimize(f[Len(rules)].trie[m])]
  ELSE /\ phase' = "refused"
       /\ UNCHANGED tries

LEMMA RootMeans ==
  ASSUME NEW url \in Pieces
  PROVE  Tree(<<Root>>) /\ <<Root>> \in Seq(Node) /\ Means(<<Root>>, url, {})
<1>1. Root \in Node /\ Root.children = {} /\ Root.rule = 0
  BY EmptySeq DEF Root, Node, Pieces
<1> DEFINE trie == <<Root>>
<1>2. trie \in Seq(Node) /\ Len(trie) = 1 /\ trie[1] = Root /\ DOMAIN trie = 1..1
  <2>1. Len(trie) = 1 /\ trie[1] = Root /\ DOMAIN trie = 1..1
    OBVIOUS
  <2>2. trie \in Seq(Node)
    BY <1>1, Singleton
  <2> QED BY <2>1, <2>2
<1> HIDE DEF trie
<1>3. \A i \in 1..1 : i = 1
  OBVIOUS
<1>4. Tree(trie)
  BY <1>1, <1>2, <1>3 DEF Tree
<1> DEFINE rd == [i \in 1..1 |-> Begun]
<1>5. Begun \in ReadSoFar(url)
  BY EmptySeq DEF Begun, ReadSoFar, Pieces
<1>6. rd \in [1..1 -> ReadSoFar(url)] /\ rd[1] = Begun
  BY <1>5
<1> HIDE DEF rd
<1>7. ReadsAs(trie, url, rd)
  BY <1>1, <1>2, <1>3, <1>4, <1>6 DEF ReadsAs
<1>8. Answers(trie, url, rd, {})
  BY <1>1, <1>2, <1>3 DEF Answers, Hit
<1>9. Means(trie, url, {})
  BY <1>7, <1>8 DEF Means
<1> QED BY <1>2, <1>4, <1>9 DEF trie

LEMMA ValidateSteps ==
  ASSUME rules \in Seq(Rule), tries = [m \in Method |-> <<Root>>], Validate
  PROVE  \E f : Fills(f) /\ Built(f)
<1> DEFINE n == Len(rules)
           start == [ok |-> TRUE, count |-> [m \in Method |-> 0], trie |-> tries]
           G == [i \in 1..n |-> [t \in Table |-> Insert(t, rules[i])]]
           Solves(f) == f = [i \in 0..n |->
                               IF i = 0 THEN start ELSE Insert(f[i - 1], rules[i])]
<1>1. n \in Nat /\ \A i \in 1..n : rules[i] \in Rule
  OBVIOUS
<1>2. start \in Table /\ start = Bottom
  <2>1. \E url : url \in Pieces
    BY EmptySeq DEF Pieces
  <2>2. <<Root>> \in Trees
    BY <2>1, RootMeans DEF Trees
  <2>3. tries \in [Method -> Trees] /\ [m \in Method |-> 0] \in [Method -> Nat]
    BY <2>2
  <2> QED BY <2>3 DEF Table, Bottom
<1>3. ASSUME NEW i \in 1..n, NEW t \in Table PROVE Insert(t, rules[i]) \in Table
  BY <1>1, InsertIs
<1>4. \A i \in 1..n : \A t \in Table : G[i][t] = Insert(t, rules[i])
  OBVIOUS
<1> HIDE DEF G, start
<1>5. PICK f \in [0..n -> Table] : f[0] = start /\ StepsBy(G, n, f)
  <2>1. Stays(G, n, Table)
    BY <1>3, <1>4 DEF Stays
  <2> HIDE DEF n
  <2> QED BY <1>1, <1>2, <2>1, Recursion
<1>6. \A i \in 1..n : i - 1 \in 0..n /\ i \in 0..n /\ i # 0
  BY <1>1
<1>7. \A i \in 1..n : f[i] = Insert(f[i - 1], rules[i])
  BY <1>4, <1>5, <1>6 DEF StepsBy
<1>8. Solves(f)
  <2>1. \A i \in 0..n : i # 0 => i \in 1..n
    BY <1>1
  <2>2. f = [i \in 0..n |-> f[i]]
    BY <1>5
  <2> QED BY <1>5, <1>7, <2>1, <2>2
<1> DEFINE table == CHOOSE f1 : Solves(f1)
<1>9. Built(table)
  BY Zenon DEF Validate, Built, start
<1>10. Solves(table)
  <2> HIDE DEF Solves
  <2> QED BY <1>8, Zenon
<1> HIDE DEF table
<1>11. 0 \in 0..n /\ n \in 0..n
  BY <1>1
<1>12. table[0] = start /\ \A i \in 1..n : table[i] = Insert(table[i - 1], rules[i])
  BY <1>6, <1>10, <1>11
<1>13. \A i \in 0..n : table[i] = f[i]
  <2>1. Alike(table, f, n)
    BY <1>7, <1>12 DEF Alike
  <2>2. table[0] = f[0]
    BY <1>5, <1>12
  <2> HIDE DEF n
  <2> QED BY <1>1, <2>1, <2>2, Recursed
<1>14. table[n] = f[n]
  BY <1>11, <1>13
<1>15. Built(f)
  BY <1>9, <1>14, Zenon DEF Built
<1>16. Fills(f)
  BY <1>2, <1>5, <1>7 DEF Fills
<1> QED BY <1>15, <1>16

LEMMA TableMeans ==
  ASSUME rules \in Seq(Rule), NEW f, Fills(f), NEW url \in Pieces, f[Len(rules)].ok
  PROVE  \A m \in Method :
           Means(f[Len(rules)].trie[m], url, Heard(Len(rules), m, url))
<1> DEFINE n == Len(rules)
           Counts(k) == \A m \in Method : f[k].count[m] = Cardinality(Upto(k, m))
           Says(k) == \A m \in Method : Means(f[k].trie[m], url, Heard(k, m, url))
           T == {k \in 0..n : f[k].ok => Counts(k) /\ Says(k)}
<1>1. n \in Nat /\ 0 \in 0..n /\ n \in 0..n /\ \A i \in 1..n : rules[i] \in Rule
  OBVIOUS
<1>2. 0 \in T
  <2>1. \A m : Upto(0, m) = {} /\ Heard(0, m, url) = {}
    BY DEF Upto, Heard
  <2>2. \A m \in Method : f[0].count[m] = 0 /\ f[0].trie[m] = <<Root>>
    BY DEF Fills, Bottom
  <2>3. Counts(0)
    BY <2>1, <2>2, FS_EmptySet
  <2>4. Says(0)
    BY <2>1, <2>2, RootMeans
  <2> HIDE DEF Counts, Says
  <2> QED BY <1>1, <2>3, <2>4
<1>3. ASSUME NEW k \in 1..n, k - 1 \in T PROVE k \in T
  <2> SUFFICES ASSUME f[k].ok PROVE Counts(k) /\ Says(k)
    BY <1>1
  <2> DEFINE r == rules[k]
             m == r.method
             last == f[k - 1]
             index == last.count[m] + 2
  <2>1. /\ k \in Nat \ {0} /\ k - 1 \in Nat /\ k - 1 \in 0..n /\ k \in Nat
        /\ r \in Rule /\ last \in Table /\ f[k] = Insert(last, r) /\ m \in Method
    <3>1. k \in Nat \ {0} /\ k - 1 \in Nat /\ k - 1 \in 0..n /\ k \in Nat
      BY <1>1
    <3>2. r \in Rule /\ m \in Method
      BY <1>1, Patterns
    <3>3. last \in Table /\ f[k] = Insert(last, r)
      BY <3>1 DEF Fills
    <3> QED BY <3>1, <3>2, <3>3
  <2>2. /\ last.ok /\ RuleAt(last.trie[m], r.pattern) = 0
        /\ HasSlash(r.pattern) =>
             RuleAt(Add(last.trie[m], r.pattern, index), Front(r.pattern)) = 0
        /\ f[k].count[m] = last.count[m] + 1
        /\ f[k].trie[m] = Added(last.trie[m], r, index)
        /\ \A o \in Method \ {m} : f[k].count[o] = last.count[o] /\ f[k].trie[o] = last.trie[o]
    <3> DEFINE next == Insert(last, r)
    <3> HIDE DEF r, last
    <3>1. /\ next.ok => /\ last.ok /\ RuleAt(last.trie[m], r.pattern) = 0
                        /\ HasSlash(r.pattern) =>
                             RuleAt(Add(last.trie[m], r.pattern, index), Front(r.pattern)) = 0
          /\ next.count[m] = last.count[m] + 1
          /\ next.trie[m] = Added(last.trie[m], r, index)
          /\ \A o \in Method \ {m} : next.count[o] = last.count[o] /\ next.trie[o] = last.trie[o]
      BY <2>1, InsertIs
    <3> HIDE DEF next, index, m
    <3> QED BY <2>1, <3>1 DEF next
  <2>3. Counts(k - 1) /\ Says(k - 1)
    <3> HIDE DEF Counts, Says
    <3> QED BY <1>3, <2>2
  <2>4. \A o \in Method \ {m} : Upto(k, o) = Upto(k - 1, o) /\ Heard(k, o, url) = Heard(k - 1, o, url)
    BY <2>1, UptoStep DEF Heard
  <2>5. /\ Upto(k, m) = Upto(k - 1, m) \cup {k}
        /\ Cardinality(Upto(k, m)) = Cardinality(Upto(k - 1, m)) + 1
    BY <2>1, UptoStep
  <2>6. Heard(k, m, url) = Heard(k - 1, m, url) \cup Speaks(k, url)
    <3>1. \A h : h \in Heard(k, m, url) <=> h \in Heard(k - 1, m, url) \/ h \in Speaks(k, url)
      BY <2>5 DEF Heard
    <3> QED BY <3>1
  <2>7. last.count[m] = Cardinality(Upto(k - 1, m)) /\ last.count[m] \in Nat
    BY <2>1, <2>3 DEF Table
  <2>8. index = Index(k) /\ index \in Nat \ {0}
    <3>1. Index(k) = 1 + Cardinality(Upto(k, m))
      BY <1>3, IndexIs
    <3> QED BY <2>5, <2>7, <3>1
  <2>9. Counts(k)
    <3>1. f[k].count[m] = Cardinality(Upto(k, m))
      BY <2>2, <2>5, <2>7
    <3>2. ASSUME NEW o \in Method \ {m} PROVE f[k].count[o] = Cardinality(Upto(k, o))
      BY <2>2, <2>3, <2>4
    <3> HIDE DEF m
    <3> QED BY <3>1, <3>2
  <2>10. Means(f[k].trie[m], url, Heard(k, m, url))
    <3> DEFINE old == last.trie[m]
               H == Heard(k - 1, m, url)
               own == Said(r.pattern, index, url)
    <3>1. Means(old, url, H)
      BY <2>1, <2>3
    <3>2. Means(Add(old, r.pattern, index), url, H \cup own)
      <4> HIDE DEF index, H
      <4> QED BY <2>1, <2>2, <2>8, <3>1, Patterns, AddMeans
    <3>3. CASE ~HasSlash(r.pattern)
      <4>1. Speaks(k, url) = own
        BY <2>8, <3>3 DEF Speaks, Slashless
      <4>2. f[k].trie[m] = Add(old, r.pattern, index)
        BY <2>2, <3>3 DEF Added
      <4> QED BY <2>6, <3>2, <4>1, <4>2
    <3>4. CASE HasSlash(r.pattern)
      <4> DEFINE bare == Said(Front(r.pattern), Redirect, url)
                 trie == Add(old, r.pattern, index)
                 both == H \cup own
      <4>1. Speaks(k, url) = own \cup bare
        BY <2>8, <3>4 DEF Speaks, Slashless
      <4>2. f[k].trie[m] = Add(trie, Front(r.pattern), Redirect)
        BY <2>2, <3>4 DEF Added
      <4>3. Means(Add(trie, Front(r.pattern), Redirect), url, both \cup bare)
        <5>1. Redirect \in Nat \ {0}
          BY DEF Redirect
        <5>2. Front(r.pattern) \in Pieces /\ RuleAt(trie, Front(r.pattern)) = 0
          BY <2>1, <2>2, <3>4, Patterns
        <5>3. Means(trie, url, both)
          BY <3>2
        <5> HIDE DEF trie, both
        <5> QED BY <5>1, <5>2, <5>3, AddMeans
      <4>4. Heard(k, m, url) = both \cup bare
        <5> HIDE DEF H, own, bare
        <5>1. Heard(k, m, url) = H \cup (own \cup bare)
          BY <2>6, <4>1 DEF H
        <5> QED BY <5>1
      <4> QED BY <4>2, <4>3, <4>4
    <3> QED BY <3>3, <3>4
  <2>11. Says(k)
    <3>1. ASSUME NEW o \in Method \ {m} PROVE Means(f[k].trie[o], url, Heard(k, o, url))
      BY <2>2, <2>3, <2>4
    <3> HIDE DEF m
    <3> QED BY <2>10, <3>1
  <2> QED BY <2>9, <2>11
<1> HIDE DEF T
<1>4. n \in T
  <2> HIDE DEF n
  <2> QED BY <1>1, <1>2, <1>3, Forward
<1> QED BY <1>4 DEF T

-----------------------------------------------------------------------------
(* The routes, from the first rule to the last request.                    *)
TrieInv ==
  /\ rules \in Seq(Rule)
  /\ phase = "setup" => tries = [m \in Method |-> <<Root>>]
  /\ phase = "running" => TrieAgrees

LEMMA TrieInit ==
  ASSUME RoutingInit
  PROVE  TrieInv
<1>1. rules \in Seq(Rule)
  BY EmptySeq DEF RoutingInit
<1> QED BY <1>1 DEF RoutingInit, TrieInv

LEMMA SameRules ==
  ASSUME rules' = rules
  PROVE  \A m, url : FirstRule(m, url)' = FirstRule(m, url)
BY DEF FirstRule, Matching, Mine, Redirected, Index

LEMMA ValidateAgrees ==
  ASSUME TrieInv, Validate, phase' = "running"
  PROVE  TrieAgrees'
<1>1. /\ rules \in Seq(Rule) /\ rules' = rules
      /\ tries = [m \in Method |-> <<Root>>]
  BY DEF TrieInv, Validate
<1>2. PICK f : Fills(f) /\ Built(f)
  BY <1>1, ValidateSteps
<1> DEFINE n == Len(rules)
<1>3. f[n].ok /\ tries' = [m \in Method |-> Optimize(f[n].trie[m])]
  BY <1>2 DEF Built
<1>4. ASSUME NEW m \in {r.method : r \in Rule}, NEW url \in Url
      PROVE  LET found == Lookup(m, url)'
                 first == FirstRule(m, url)'
             IN /\ found.rule = first.rule
                /\ found.rule > Redirect => found.params = first.params
  <2> DEFINE trie == f[n].trie[m]
             H == Heard(n, m, url)
             plain == Find(trie, url)
             found == Find(Optimize(trie), url)
             first == FirstRule(m, url)
  <2>1. m \in Method /\ url \in Pieces
    BY RoutingAssumption DEF Pieces
  <2>2. Means(trie, url, H)
    BY <1>1, <1>2, <1>3, <2>1, TableMeans
  <2>3. Tree(trie)
    BY <2>2 DEF Means, ReadsAs
  <2>4. Same(found, plain)
    BY <2>1, <2>3, OptimizeKeeps
  <2>5. (plain.rule # 0 => plain \in H) /\ \A h \in H : plain.rule # 0 /\ plain.rule <= h.rule
    BY <2>1, <2>2, FindIsLowest
  <2>6. plain \in Result
    <3>1. PICK g \in [1..Len(trie) -> Results(url)] : Find(trie, url) = g[1][0]
      BY <2>1, <2>3, FindSteps
    <3>2. 1 \in 1..Len(trie) /\ 0 \in 0..Len(url)
      BY <2>1, <2>3 DEF Tree, Pieces
    <3> QED BY <3>1, <3>2 DEF Results
  <2> HIDE DEF plain
  <2>7. plain.rule = first.rule /\ (plain.rule > Redirect => plain.params = first.params)
    BY <1>1, <2>5, <2>6, LowestIsFirst
  <2>8. Lookup(m, url)' = found
    BY <1>3, <2>1 DEF Lookup
  <2>9. FirstRule(m, url)' = first
    BY <1>1, SameRules
  <2> HIDE DEF first, found
  <2>10. /\ found.rule = first.rule
         /\ found.rule > Redirect => found.params = first.params
    <3>1. plain.rule \in Nat
      BY <2>6 DEF Result
    <3>2. plain.rule > Redirect => plain.rule # 0
      BY <3>1 DEF Redirect
    <3> QED BY <2>4, <2>7, <3>2 DEF Same
  <2> QED BY <2>8, <2>9, <2>10, Zenon
<1> QED BY <1>4, Zenon DEF TrieAgrees

LEMMA TrieNext ==
  ASSUME TrieInv, RoutingNext \/ UNCHANGED routeVars
  PROVE  TrieInv'
<1>1. CASE AddRule
  <2>1. PICK r \in Rule : rules' = Append(rules, r)
    BY <1>1 DEF AddRule
  <2>2. rules' \in Seq(Rule)
    BY <2>1, AppendProperties DEF TrieInv
  <2>3. phase' = "setup" /\ tries' = tries /\ phase = "setup"
    BY <1>1 DEF AddRule
  <2> QED BY <2>2, <2>3 DEF TrieInv
<1>2. CASE Validate
  <2>1. rules' \in Seq(Rule)
    BY <1>2 DEF Validate, TrieInv
  <2>2. phase' # "setup"
    BY <1>2, Zenon DEF Validate
  <2>3. phase' = "running" => TrieAgrees'
    BY <1>2, ValidateAgrees
  <2> QED BY <2>1, <2>2, <2>3 DEF TrieInv
<1>3. CASE UNCHANGED routeVars
  <2>1. rules' = rules /\ phase' = phase /\ tries' = tries
    BY <1>3 DEF routeVars
  <2>2. TrieAgrees' <=> TrieAgrees
    <3>1. \A m, url : FirstRule(m, url)' = FirstRule(m, url)
      BY <2>1, SameRules
    <3>2. \A m, url : Lookup(m, url)' = Lookup(m, url)
      BY <2>1 DEF Lookup
    <3> QED BY <3>1, <3>2, Zenon DEF TrieAgrees
  <2> QED BY <2>1, <2>2 DEF TrieInv
<1> QED BY <1>1, <1>2, <1>3 DEF RoutingNext

(* The routes answer as the rules were added: once the application runs,   *)
(* the merged trie of a method finds for every URL what reading the list of*)
(* rules would find, whatever the rules and the URLs are (Trie::add,       *)
(* Trie::optimizeNode, Trie::find, Router::validate).                      *)
THEOREM RulesFound == ExchangeSpec => []RoutesAgree
<1>1. ExchangeInit => TrieInv
  BY TrieInit DEF ExchangeInit
<1>2. TrieInv /\ [ExchangeNext]_exchangeVars => TrieInv'
  <2> SUFFICES ASSUME TrieInv, [ExchangeNext]_exchangeVars
               PROVE  RoutingNext \/ UNCHANGED routeVars
    BY TrieNext
  <2> QED
    BY DEF ExchangeNext, exchangeVars, SetUp, Connect, Read, ClientLeaves, Parse, HandleUrl,
       HandleHeader, HandleReply, HandleUpgraded, HandleThrows, ReadDone
<1>3. TrieInv => RoutesAgree
  BY DEF TrieInv, RoutesAgree
<1> QED BY <1>1, <1>2, <1>3, PTL DEF ExchangeSpec


-----------------------------------------------------------------------------
(* The strings of a request.  A string is in two places: what earlier calls*)
(* of the parser collected of it is in the request or the header, what this*)
(* call has read of it is between the mark and the position, and TextNow   *)
(* lays one behind the other.  The invariant, TextInv, says where a mark   *)
(* is, and that what follows a cut is added to what was collected before:  *)
(* header_building_state, which decides between "add to" and "begin anew", *)
(* is right at every cut.  Behind it comes one lemma for each action: the  *)
(* invariant holds again, and the step is one of RequestText, or none.     *)
(*                                                                         *)
(* The variables of the parser have their fields; the types are those the  *)
(* algebra of the strings needs.                                           *)
Mark == {"none", "url", "field", "value", "body"}
TextTypes ==
  /\ wire \in Tokens
  /\ exec \in [pos : Nat \ {0}, end : Nat, mark : Mark, from : Nat \ {0},
               start : Nat, over : BOOLEAN]
  /\ {"state", "method", "index", "version", "flags", "te", "kind", "seen",
      "left", "upgrade", "errno", "qs"} = DOMAIN parser
  /\ parser.left \in Int /\ parser.left >= NoLength
  /\ parser.upgrade \in BOOLEAN
  /\ header \in [building : {0, 1}, field : Tokens, value : Tokens]
  /\ {"raw", "url", "headers", "body", "close", "upgrade"} = DOMAIN req
  /\ req.raw \in Tokens /\ req.body \in Tokens
  /\ {"place", "open", "closing"} \subseteq DOMAIN conn

(* A call reads what it was handed, and the client sent.                   *)
Bounded ==
  /\ exec.from <= exec.pos
  /\ exec.pos <= exec.end + 1
  /\ exec.end <= Len(wire)

(* A mark is set where a string is being read, and only there; a body is   *)
(* read to the end of the tokens, or of the chunk.                         *)
Marking ==
  /\ exec.mark = "url" => parser.state \in UrlHead \cup InUrl
  /\ exec.mark = "field" => parser.state = "field"
  /\ exec.mark = "value" => parser.state = "value"
  /\ exec.mark = "body" =>
       \/ parser.state \in {"body", "chunk_data"} /\ exec.pos > exec.end
       \/ parser.state = "chunk_data_almost_done"
  /\ exec.over => exec.mark = "none"
  /\ exec.pos <= exec.end =>
       /\ parser.state \in UrlHead \cup InUrl => exec.mark = "url"
       /\ parser.state = "field" => exec.mark = "field"
       /\ parser.state = "value" => exec.mark = "value"

(* header_building_state is 1 from the name to the value.  When a call ends*)
(* inside a string, the string was begun in the header.                    *)
ValueBegun == {"value", "header_almost_done", "value_lws", "value_start"}
BeforeValue == {"discard_ws", "discard_ws_almost_done", "discard_lws"}
Building ==
  /\ header.building = 1 =>
       /\ header.value = <<>>
       /\ parser.state \in {"field", "value"} \cup BeforeValue
  /\ parser.state \in BeforeValue => header.building = 1
  /\ parser.state = "field" /\ exec.mark = "none" => header.building = 1
  /\ parser.state \in ValueBegun =>
       \/ header.value # <<>>
       \/ exec.mark = "value" /\ exec.from < exec.pos /\ header.building = 1

(* A value is read on after a blank and is over after a line feed.         *)
Folding ==
  /\ parser.state = "value_start" =>
       exec.pos <= exec.end /\ wire[exec.pos] = SP /\ parser.kind # "length"
  /\ parser.state \in {"value_lws", "discard_lws"} => wire[exec.pos - 1] = LF

(* The length of a body and of a chunk. *)
Counting ==
  /\ parser.kind = "number" =>
       /\ parser.left >= 0
       /\ parser.state \in {"value", "header_almost_done", "value_lws"}
  /\ parser.state \in {"chunk_size", "chunk_parameters", "chunk_size_almost_done"} =>
       parser.left >= 0
  /\ parser.state \in {"body", "chunk_data"} => parser.left > 0

(* Between two calls nothing is marked, and the tokens have been read; a   *)
(* call that returned early is the last, or its request was answered.      *)
Called ==
  /\ conn.place = "none" =>
       /\ wire = <<>> /\ exec.end = 0 /\ exec.pos = 1
       /\ parser.state = "start" /\ parser.left = NoLength
       /\ header = NewHeader /\ req = NewRequest
  /\ conn.place \in {"none", "reading"} =>
       /\ exec.mark = "none" /\ ~parser.errno
       /\ exec.pos = exec.end + 1
       /\ exec.over => parser.state = "start"
  /\ exec.over /\ parser.state # "start" /\ conn.place = "parsing" => conn.closing

TextInv ==
  TextTypes /\ Bounded /\ Marking /\ Building /\ Folding /\ Counting /\ Called
-----------------------------------------------------------------------------
(* What the client sends is a sequence of tokens.                          *)
LEMMA FlattenType ==
  ASSUME NEW X, NEW n \in Nat, NEW seqs \in [1..n -> Seq(X)]
  PROVE  FlattenSeq(seqs) \in Seq(X)
<1>1. Len(seqs) = n
  BY LenProperties
<1>2. CASE n = 0
  BY <1>1, <1>2, EmptySeq DEF FlattenSeq
<1>3. CASE n # 0
  <2> DEFINE Solves(f) == f = [i \in 1..n |-> IF i = 1 THEN seqs[i] ELSE f[i - 1] \o seqs[i]]
             chosen == CHOOSE f : Solves(f)
             G == [i \in 1..n |-> [s \in Seq(X) |-> IF i = 1 THEN seqs[i] ELSE s \o seqs[i]]]
  <2>1. FlattenSeq(seqs) = chosen[n]
    BY <1>1, <1>3 DEF FlattenSeq
  <2>2. Stays(G, n, Seq(X))
    <3>1. ASSUME NEW i \in 1..n, NEW s \in Seq(X) PROVE G[i][s] \in Seq(X)
      BY ConcatProperties
    <3> HIDE DEF G
    <3> QED BY <3>1 DEF Stays
  <2>3. PICK g \in [0..n -> Seq(X)] : StepsBy(G, n, g)
    BY <2>2, EmptySeq, Recursion
  <2> DEFINE h == [i \in 1..n |-> g[i]]
  <2>4. ASSUME NEW i \in 1..n
        PROVE  h[i] = IF i = 1 THEN seqs[i] ELSE h[i - 1] \o seqs[i]
    <3>1. i - 1 \in 0..n /\ g[i - 1] \in Seq(X)
      BY <2>3
    <3>2. g[i] = G[i][g[i - 1]]
      BY <2>3 DEF StepsBy
    <3>3. G[i][g[i - 1]] = IF i = 1 THEN seqs[i] ELSE g[i - 1] \o seqs[i]
      BY <3>1
    <3>4. i # 1 => i - 1 \in 1..n
      OBVIOUS
    <3> HIDE DEF G
    <3> QED BY <3>2, <3>3, <3>4
  <2>5. h = [i \in 1..n |-> h[i]]
    OBVIOUS
  <2> HIDE DEF h, G
  <2>6. Solves(h)
    BY <2>4, <2>5
  <2> HIDE DEF Solves
  <2>7. Solves(chosen)
    BY <2>6, ZenonT(60)
  <2> HIDE DEF chosen
  <2>8. \A i \in 1..n : chosen[i] = IF i = 1 THEN seqs[i] ELSE chosen[i - 1] \o seqs[i]
    BY <2>7, ZenonT(60) DEF Solves
  <2> DEFINE T == {i \in Nat : i = 0 \/ chosen[i] \in Seq(X)}
  <2>9. ASSUME NEW i \in 1..n, i - 1 \in T PROVE i \in T
    <3>1. CASE i = 1
      BY <2>8, <3>1
    <3>2. CASE i # 1
      <4>1. chosen[i - 1] \in Seq(X) /\ seqs[i] \in Seq(X)
        BY <2>9, <3>2
      <4>2. chosen[i - 1] \o seqs[i] \in Seq(X)
        BY <4>1, ConcatProperties
      <4>3. chosen[i] = chosen[i - 1] \o seqs[i]
        BY <2>8, <3>2
      <4>4. i \in Nat
        OBVIOUS
      <4> QED BY <4>2, <4>3, <4>4
    <3> QED BY <3>1, <3>2
  <2>10. 0 \in T
    OBVIOUS
  <2> HIDE DEF T
  <2>11. \A i \in 0..n : i \in T
    BY <2>9, <2>10, Forward
  <2>12. n \in T
    BY <2>11
  <2> QED BY <1>3, <2>1, <2>12 DEF T
<1> QED BY <1>2, <1>3

LEMMA LinesType ==
  ASSUME ExchangeAssumption, NEW headers \in HeaderSeq, NEW eol \in Tokens
  PROVE  Lines(headers, eol) \in Tokens
<1> DEFINE n == Len(headers)
           lines == [i \in DOMAIN headers |->
                       headers[i][1] \o <<":">> \o headers[i][2] \o eol]
<1>1. n \in Nat /\ DOMAIN headers = 1..n
  BY DEF HeaderSeq
<1>2. ASSUME NEW i \in 1..n PROVE lines[i] \in Seq(Token)
  <2>1. headers[i] \in Tokens \X Tokens
    BY <1>1, ElementOfSeq DEF HeaderSeq
  <2>2. headers[i][1] \in Seq(Token) /\ headers[i][2] \in Seq(Token)
        /\ <<":">> \in Seq(Token) /\ eol \in Seq(Token)
    BY <2>1 DEF Tokens, ExchangeAssumption
  <2> QED BY <1>1, <2>2, ConcatProperties
<1>3. lines \in [1..n -> Seq(Token)]
  BY <1>1, <1>2
<1>4. Lines(headers, eol) = FlattenSeq(lines)
  BY DEF Lines
<1> HIDE DEF lines, n
<1> QED BY <1>1, <1>3, <1>4, FlattenType DEF Tokens

LEMMA EncodeType ==
  ASSUME ExchangeAssumption, NEW m \in Message
  PROVE  Encode(m) \in Tokens
<1>1. /\ m.path \in Tokens /\ m.query \in Tokens /\ m.version \in Token
      /\ m.headers \in HeaderSeq /\ m.eol \in Tokens /\ m.tail \in Tokens
      /\ m.trailer \in HeaderSeq /\ m.verb \in Verb
  BY DEF Message
<1>2. Spelling[m.verb] \in Seq(Token)
  <2>1. MethodToken \subseteq Token
    BY DEF ExchangeAssumption
  <2>2. m.verb \in {"GET", "HEAD", "OPTIONS", "POST", "PUT", "PATCH", "PURGE"}
    BY <1>1 DEF Verb, Spelling
  <2>3. /\ Spelling["GET"] = <<"GET">> /\ Spelling["HEAD"] = <<"HEAD">>
        /\ Spelling["OPTIONS"] = <<"OPTIONS">> /\ Spelling["POST"] = <<"P", "O", "ST">>
        /\ Spelling["PUT"] = <<"P", "U", "T">> /\ Spelling["PATCH"] = <<"P", "A", "TCH">>
        /\ Spelling["PURGE"] = <<"P", "U", "R", "GE">>
    BY DEF Spelling
  <2>4. /\ <<"GET">> \in Seq(MethodToken) /\ <<"HEAD">> \in Seq(MethodToken)
        /\ <<"OPTIONS">> \in Seq(MethodToken) /\ <<"P", "O", "ST">> \in Seq(MethodToken)
        /\ <<"P", "U", "T">> \in Seq(MethodToken) /\ <<"P", "A", "TCH">> \in Seq(MethodToken)
        /\ <<"P", "U", "R", "GE">> \in Seq(MethodToken)
    BY DEF MethodToken
  <2>5. Spelling[m.verb] \in Seq(MethodToken)
    BY <2>2, <2>3, <2>4
  <2> HIDE DEF Spelling
  <2> QED BY <2>1, <2>5, SeqMonotonic
<1>3. QueryOf(m) \in Seq(Token)
  <2>1. <<"?">> \in Seq(Token) /\ m.query \in Seq(Token) /\ <<>> \in Seq(Token)
    BY <1>1 DEF Tokens, ExchangeAssumption
  <2> QED BY <2>1, ConcatProperties DEF QueryOf
<1>4. /\ Lines(m.headers, m.eol) \in Seq(Token)
      /\ Lines(m.trailer, m.eol) \in Seq(Token)
  BY <1>1, LinesType DEF Tokens
<1> DEFINE a == IF m.version = "HTTP/0.9" THEN <<>> ELSE <<SP, m.version>>
           z == IF m.trailer = <<>> THEN <<>> ELSE Lines(m.trailer, m.eol) \o m.eol
           l == Lines(m.headers, m.eol)
<1>5. a \in Seq(Token) /\ z \in Seq(Token) /\ <<SP>> \in Seq(Token)
  <2>1. SP \in Token
    BY DEF ExchangeAssumption
  <2>2. <<SP>> \in Seq(Token) /\ <<SP, m.version>> \in Seq(Token) /\ <<>> \in Seq(Token)
    BY <1>1, <2>1
  <2> QED BY <1>1, <1>4, <2>2, ConcatProperties DEF Tokens
<1>6. Encode(m) = Spelling[m.verb] \o <<SP>> \o m.path \o QueryOf(m) \o a \o m.eol
                    \o l \o m.eol \o m.tail \o z
  BY DEF Encode
<1>7. l \in Seq(Token)
  BY <1>4
<1> HIDE DEF a, z, l
<1>8. m.path \in Seq(Token) /\ m.eol \in Seq(Token) /\ m.tail \in Seq(Token)
  BY <1>1 DEF Tokens
<1>9. Spelling[m.verb] \o <<SP>> \o m.path \o QueryOf(m) \o a \in Seq(Token)
  BY <1>2, <1>3, <1>5, <1>8, ConcatProperties
<1> DEFINE b == Spelling[m.verb] \o <<SP>> \o m.path \o QueryOf(m) \o a
<1> HIDE DEF b
<1>10. b \o m.eol \o l \o m.eol \o m.tail \o z \in Seq(Token)
  BY <1>5, <1>7, <1>8, <1>9, ConcatProperties DEF b
<1> QED BY <1>6, <1>10 DEF b, Tokens

LEMMA WireType ==
  ASSUME ExchangeAssumption, Connect
  PROVE  wire' \in Tokens
<1>1. talk' \in Seq(Message)
  BY DEF Connect, ExchangeAssumption
<1> DEFINE n == Len(talk')
           sent == [i \in DOMAIN talk' |-> Encode(talk'[i])]
<1>2. n \in Nat /\ DOMAIN talk' = 1..n
  BY <1>1
<1>3. \A i \in 1..n : Encode(talk'[i]) \in Seq(Token)
  BY <1>1, <1>2, ElementOfSeq, EncodeType DEF Tokens
<1>4. sent \in [1..n -> Seq(Token)]
  BY <1>2, <1>3
<1>5. wire' = FlattenSeq(sent)
  BY DEF Connect
<1> HIDE DEF sent, n
<1> QED BY <1>2, <1>4, <1>5, FlattenType DEF Tokens

-----------------------------------------------------------------------------
(* The tokens since the mark.                                              *)
LEMMA DataType ==
  ASSUME TextTypes, Bounded
  PROVE  Data \in Tokens
<1>1. /\ exec.from \in Int /\ exec.pos - 1 \in Int /\ exec.from >= 1
      /\ exec.pos - 1 <= Len(wire) /\ wire \in Seq(Token)
  BY DEF TextTypes, Bounded, Tokens
<1>2. \A i \in exec.from..(exec.pos - 1) : wire[i] \in Token
  BY <1>1, ElementOfSeq
<1> QED BY <1>1, <1>2, SubSeqProperties DEF Data, Tokens

(* A token that is read. *)
LEMMA TokenType ==
  ASSUME TextTypes, Bounded, exec.pos <= exec.end
  PROVE  token \in Token /\ exec.pos <= Len(wire) /\ Len(wire) \in Nat
<1>1. exec.pos \in 1..Len(wire) /\ wire \in Seq(Token) /\ Len(wire) \in Nat
  BY DEF TextTypes, Bounded, Tokens
<1> QED BY <1>1, ElementOfSeq DEF token

LEMMA DataGrows ==
  ASSUME TextTypes, Bounded, exec.pos <= exec.end,
         wire' = wire, exec'.from = exec.from, exec'.pos = exec.pos + 1
  PROVE  Data' = Append(Data, token)
<1>1. /\ exec.from \in 1..Len(wire) /\ exec.pos \in exec.from..Len(wire)
      /\ wire \in Seq(Token) /\ exec.pos \in Nat
  BY TokenType DEF TextTypes, Bounded, Tokens
<1>2. SubSeq(wire, exec.from, exec.pos)
        = SubSeq(wire, exec.from, exec.pos - 1) \o <<wire[exec.pos]>>
  BY <1>1, SubSeqRecursiveSecond
<1>3. Data \in Seq(Token) /\ token \in Token
  BY DataType, TokenType DEF Tokens
<1>4. Append(Data, token) = Data \o <<token>>
  BY <1>3, AppendIsConcat
<1>5. exec'.pos - 1 = exec.pos
  BY <1>1
<1>6. Data' = SubSeq(wire, exec.from, exec.pos)
  <2>1. Data' = SubSeq(wire', exec'.from, exec'.pos - 1)
    BY DEF Data
  <2> QED BY <1>5, <2>1
<1> QED BY <1>2, <1>4, <1>6 DEF Data, token

LEMMA DataBegins ==
  ASSUME TextTypes, Bounded, exec.pos <= exec.end,
         wire' = wire, exec'.from = exec.pos, exec'.pos = exec.pos + 1
  PROVE  Data' = <<token>>
<1>1. exec.pos \in Int /\ exec.pos + 1 - 1 = exec.pos
  BY DEF TextTypes
<1>2. Data' = SubSeq(wire, exec.pos, exec.pos)
  BY <1>1 DEF Data
<1>3. \A i \in exec.pos..exec.pos : wire[i] \in Token
  BY <1>1, TokenType DEF token
<1>4. /\ SubSeq(wire, exec.pos, exec.pos) \in Seq(Token)
      /\ Len(SubSeq(wire, exec.pos, exec.pos)) = 1
      /\ SubSeq(wire, exec.pos, exec.pos)[1] = wire[exec.pos]
  BY <1>1, <1>3, SubSeqProperties
<1> DEFINE s == SubSeq(wire, exec.pos, exec.pos)
<1>5. <<token>> \in Seq(Token) /\ Len(<<token>>) = 1 /\ <<token>>[1] = token
  BY TokenType
<1>6. s[1] = token
  BY <1>4 DEF token
<1> HIDE DEF s
<1>7. \A i \in 1..1 : s[i] = <<token>>[i]
  BY <1>5, <1>6
<1>8. s = <<token>>
  <2>1. s \in Seq(Token) /\ Len(s) = 1
    BY <1>4 DEF s
  <2> QED BY <1>5, <1>7, <2>1, SeqEqual
<1> QED BY <1>2, <1>8 DEF s

LEMMA DataNone ==
  ASSUME TextTypes, exec.from = exec.pos
  PROVE  Data = <<>>
<1>1. exec.from \in Int /\ exec.pos - 1 \in Int /\ exec.pos - 1 < exec.from
  BY DEF TextTypes
<1> QED BY <1>1, SubSeqEmpty DEF Data

LEMMA DataSome ==
  ASSUME TextTypes, Bounded, exec.from < exec.pos
  PROVE  Data # <<>>
<1>1. /\ exec.from \in Int /\ exec.pos - 1 \in Int /\ exec.from >= 1
      /\ exec.from <= exec.pos - 1
      /\ exec.pos - 1 <= Len(wire) /\ wire \in Seq(Token)
  BY DEF TextTypes, Bounded, Tokens
<1>2. \A i \in exec.from..(exec.pos - 1) : wire[i] \in Token
  BY <1>1, ElementOfSeq
<1>3. Len(Data) >= 1
  BY <1>1, <1>2, SubSeqProperties DEF Data
<1> QED BY <1>3, EmptySeq

-----------------------------------------------------------------------------
(* A step on one token, or on none, that collects nothing: what it does to *)
(* the state is all there is to it.                                        *)
ReadingString == UrlHead \cup InUrl \cup {"field", "value", "chunk_data_almost_done"}
Plain ==
  /\ conn.place = "parsing" /\ UNCHANGED <<wire, header, req, conn>>
  /\ exec' = exec \/ exec' = Ahead
  /\ exec.pos <= exec.end /\ ~exec.over /\ ~parser.errno
  /\ "message_done" \notin {parser.state, parser'.state}
  /\ DOMAIN parser' = DOMAIN parser
  /\ {parser.state, parser'.state} \cap ReadingString = {}
  /\ parser.state \in BeforeValue <=> parser'.state \in BeforeValue
  /\ parser'.state \in ValueBegun => parser.state \in ValueBegun
  /\ parser'.state = "value_start" =>
       exec' = exec /\ token = SP /\ parser'.kind # "length"
  /\ parser'.state \in {"value_lws", "discard_lws"} => exec' = Ahead /\ token = LF
  /\ parser'.kind = "number" => /\ parser.kind = "number"
                                /\ parser'.left = parser.left
                                /\ parser'.state = "value_lws"
  /\ parser'.left \in Int /\ parser'.left >= NoLength
  /\ parser'.state \in {"chunk_size", "chunk_parameters", "chunk_size_almost_done"} =>
       parser'.left >= 0
  /\ parser'.state \in {"body", "chunk_data"} => parser'.left > 0
  /\ parser'.errno = parser.errno /\ parser'.upgrade = parser.upgrade

LEMMA PlainUnmarked ==
  ASSUME TextInv, Plain
  PROVE  exec.mark = "none" /\ exec'.mark = "none"
<1>1. exec.mark = "none"
  BY DEF TextInv, TextTypes, Marking, Plain, Mark, ReadingString
<1> QED BY <1>1 DEF Plain, Ahead, TextInv, TextTypes

LEMMA PlainKeeps ==
  ASSUME TextInv, Plain
  PROVE  TextInv'
<1> USE DEF TextInv
<1>1. exec.mark = "none" /\ exec'.mark = "none"
  BY PlainUnmarked
<1>2. /\ exec' \in [pos : Nat \ {0}, end : Nat, mark : Mark, from : Nat \ {0},
                    start : Nat, over : BOOLEAN]
      /\ exec'.pos = exec.pos \/ exec'.pos = exec.pos + 1
      /\ exec'.end = exec.end /\ exec'.from = exec.from /\ exec'.over = exec.over
  BY DEF Plain, TextTypes, Ahead
<1>3. exec' = Ahead => exec'.pos = exec.pos + 1
  BY DEF Ahead, TextTypes
<1>4. TextTypes'
  BY <1>2 DEF Plain, TextTypes
<1>5. Bounded'
  BY <1>2 DEF Plain, Bounded, TextTypes
<1>6. Marking'
  BY <1>1 DEF Plain, Marking, ReadingString
<1>7. Building'
  BY <1>1 DEF Plain, Building, ReadingString
<1>8. Folding'
  <2>1. parser'.state = "value_start" => exec'.pos <= exec'.end /\ wire'[exec'.pos] = SP
    BY DEF Plain, token
  <2>2. exec' = Ahead => wire'[exec'.pos - 1] = token
    <3>1. exec' = Ahead => exec'.pos - 1 = exec.pos
      BY <1>3 DEF TextTypes
    <3> QED BY <3>1 DEF Plain, token
  <2> QED BY <2>1, <2>2 DEF Plain, Folding
<1>9. Counting'
  BY DEF Plain, Counting
<1>10. Called'
  BY <1>2 DEF Plain, Called
<1> QED BY <1>4, <1>5, <1>6, <1>7, <1>8, <1>9, <1>10

(* The parts the states belong to. *)
LEMMA Parts ==
  /\ PartOf("start") = "method" /\ PartOf("method") = "method"
  /\ PartOf("spaces_before_url") = "gap"
  /\ \A s \in UrlHead \cup InUrl : PartOf(s) = "url"
  /\ \A s \in {"http_start", "http_end", "line_almost_done"} : PartOf(s) = "version"
  /\ PartOf("field_start") = "lines" /\ PartOf("field") = "name"
  /\ \A s \in BeforeValue \cup ValueBegun : PartOf(s) = "value"
  /\ PartOf("headers_almost_done") = "blank" /\ PartOf("headers_done") = "headed"
  /\ PartOf("body") = "body" /\ PartOf("chunk_data") = "body"
  /\ PartOf("message_done") = "whole"
  /\ \A s \in {"chunk_size_start", "chunk_size", "chunk_parameters",
               "chunk_size_almost_done", "chunk_data_almost_done",
               "chunk_data_done"} : PartOf(s) = "sizes"
  BY DEF PartOf, UrlHead, InUrl, Server, BeforeValue, ValueBegun

(* Only the last token of a body stands in the way of the position. *)
LEMMA Whole ==
  ASSUME NEW state, PartOf(state) = "whole"
  PROVE  state = "message_done"
  BY DEF PartOf

LEMMA PartIs ==
  ASSUME ~parser.errno, ~exec.over \/ parser.state = "start",
         parser.state # "message_done"
  PROVE  TextPart = PartOf(parser.state) /\ TextPos = exec.pos
<1>1. TextPart = PartOf(parser.state)
  BY DEF TextPart
<1>2. TextPart # "whole"
  BY <1>1, Whole
<1> QED BY <1>1, <1>2 DEF TextPos

LEMMA PartBecomes ==
  ASSUME ~parser'.errno, ~exec'.over \/ parser'.state = "start",
         parser'.state # "message_done"
  PROVE  TextPart' = PartOf(parser'.state) /\ TextPos' = exec'.pos
<1>1. TextPart' = PartOf(parser'.state)
  BY DEF TextPart
<1>2. TextPart' # "whole"
  BY <1>1, Whole
<1> QED BY <1>1, <1>2 DEF TextPos

(* Nothing is collected by the step. *)
TextStays == UNCHANGED <<wire, TextNow>>

LEMMA Unheld ==
  ASSUME exec.mark = "none"
  PROVE  TextNow = [raw |-> req.raw \o <<>>, name |-> header.field \o <<>>,
                    value |-> header.value \o <<>>, headers |-> req.headers,
                    body |-> req.body \o <<>>]
  BY ZenonT(60) DEF TextNow, Pending, Name, HeaderValue, Headers, NewName

LEMMA UnheldThen ==
  ASSUME exec'.mark = "none"
  PROVE  TextNow' = [raw |-> req'.raw \o <<>>, name |-> header'.field \o <<>>,
                     value |-> header'.value \o <<>>, headers |-> req'.headers,
                     body |-> req'.body \o <<>>]
  BY ZenonT(60) DEF TextNow, Pending, Name, HeaderValue, Headers, NewName

(* The strings of the text, each by its name; now, and behind a step.      *)
LEMMA Strings ==
  /\ TextNow.raw = req.raw \o Pending("url") /\ TextNow.name = Name
  /\ TextNow.value = HeaderValue /\ TextNow.headers = Headers
  /\ TextNow.body = req.body \o Pending("body")
<1>1. ASSUME NEW a, NEW b, NEW c, NEW d, NEW e, NEW r,
             r = [raw |-> a, name |-> b, value |-> c, headers |-> d, body |-> e]
      PROVE  r.raw = a /\ r.name = b /\ r.value = c /\ r.headers = d /\ r.body = e
  BY <1>1
<1> QED BY <1>1, ZenonT(60) DEF TextNow

LEMMA StringsThen ==
  /\ TextNow'.raw = req'.raw \o Pending("url")' /\ TextNow'.name = Name'
  /\ TextNow'.value = HeaderValue' /\ TextNow'.headers = Headers'
  /\ TextNow'.body = req'.body \o Pending("body")'
<1>1. ASSUME NEW a, NEW b, NEW c, NEW d, NEW e, NEW r,
             r = [raw |-> a, name |-> b, value |-> c, headers |-> d, body |-> e]
      PROVE  r.raw = a /\ r.name = b /\ r.value = c /\ r.headers = d /\ r.body = e
  BY <1>1
<1> QED BY <1>1, ZenonT(60) DEF TextNow

LEMMA Shapes ==
  /\ TextNow = [raw |-> TextNow.raw, name |-> TextNow.name, value |-> TextNow.value,
                headers |-> TextNow.headers, body |-> TextNow.body]
  /\ TextNow' = [raw |-> TextNow'.raw, name |-> TextNow'.name, value |-> TextNow'.value,
                 headers |-> TextNow'.headers, body |-> TextNow'.body]
<1>1. TextNow = [raw |-> TextNow.raw, name |-> TextNow.name, value |-> TextNow.value,
                headers |-> TextNow.headers, body |-> TextNow.body]
  BY Strings, ZenonT(60) DEF TextNow
<1>2. TextNow' = [raw |-> TextNow'.raw, name |-> TextNow'.name, value |-> TextNow'.value,
                 headers |-> TextNow'.headers, body |-> TextNow'.body]
  BY StringsThen, ZenonT(60) DEF TextNow
<1> QED BY <1>1, <1>2

(* A record of strings that differs from another in some of them. *)
TextOf(a, b, c, d, e) == [raw |-> a, name |-> b, value |-> c, headers |-> d, body |-> e]
Texts(t) == \E a, b, c, d, e : t = TextOf(a, b, c, d, e)

WithRaw(r, x) == [r EXCEPT !.raw = x]
WithName(r, x) == [r EXCEPT !.name = x]
WithValue(r, x) == [r EXCEPT !.value = x]
WithBody(r, x) == [r EXCEPT !.body = x]
WithHeader(r, x, y, z) == [r EXCEPT !.headers = x, !.name = y, !.value = z]

LEMMA TextExcept ==
  ASSUME NEW a, NEW b, NEW c, NEW d, NEW e, NEW x, NEW y, NEW z
  PROVE  /\ WithRaw(TextOf(a, b, c, d, e), x) = TextOf(x, b, c, d, e)
         /\ WithName(TextOf(a, b, c, d, e), x) = TextOf(a, x, c, d, e)
         /\ WithValue(TextOf(a, b, c, d, e), x) = TextOf(a, b, x, d, e)
         /\ WithBody(TextOf(a, b, c, d, e), x) = TextOf(a, b, c, d, x)
         /\ WithHeader(TextOf(a, b, c, d, e), x, y, z) = TextOf(a, y, z, x, e)
<1>1. /\ WithRaw(TextOf(a, b, c, d, e), x) = TextOf(x, b, c, d, e)
      /\ WithName(TextOf(a, b, c, d, e), x) = TextOf(a, x, c, d, e)
      /\ WithValue(TextOf(a, b, c, d, e), x) = TextOf(a, b, x, d, e)
      /\ WithBody(TextOf(a, b, c, d, e), x) = TextOf(a, b, c, d, x)
  BY DEF TextOf, WithRaw, WithName, WithValue, WithBody
<1> DEFINE v == [TextOf(a, b, c, d, e) EXCEPT !.headers = x, !.name = y, !.value = z]
           w == TextOf(a, y, z, x, e)
           S == {"raw", "name", "value", "headers", "body"}
<1>2. v.raw = a /\ v.name = y /\ v.value = z /\ v.headers = x /\ v.body = e
  BY DEF TextOf
<1>3. w.raw = a /\ w.name = y /\ w.value = z /\ w.headers = x /\ w.body = e
  BY DEF TextOf
<1>4. v = [i \in S |-> v[i]]
  BY DEF TextOf
<1>5. w = [i \in S |-> w[i]]
  BY DEF TextOf
<1>6. \A i \in S : v[i] = w[i]
  <2> HIDE DEF v, w
  <2> QED BY <1>2, <1>3
<1> HIDE DEF v, w, S
<1>7. [i \in S |-> v[i]] = [i \in S |-> w[i]]
  BY <1>6
<1>8. v = w
  BY <1>4, <1>5, <1>7, ZenonT(60)
<1> QED BY <1>1, <1>8, ZenonT(60) DEF v, w, WithHeader

LEMMA TextFields ==
  ASSUME NEW a, NEW b, NEW c, NEW d, NEW e
  PROVE  LET t == TextOf(a, b, c, d, e)
         IN t.raw = a /\ t.name = b /\ t.value = c /\ t.headers = d /\ t.body = e
  BY DEF TextOf

Differ(t, u) ==
  /\ u.name = t.name /\ u.value = t.value /\ u.headers = t.headers /\ u.body = t.body
       => u = WithRaw(t, u.raw)
  /\ u.raw = t.raw /\ u.value = t.value /\ u.headers = t.headers /\ u.body = t.body
       => u = WithName(t, u.name)
  /\ u.raw = t.raw /\ u.name = t.name /\ u.headers = t.headers /\ u.body = t.body
       => u = WithValue(t, u.value)
  /\ u.raw = t.raw /\ u.name = t.name /\ u.value = t.value /\ u.headers = t.headers
       => u = WithBody(t, u.body)
  /\ u.raw = t.raw /\ u.body = t.body
       => u = WithHeader(t, u.headers, u.name, u.value)

LEMMA TextsDiffer ==
  ASSUME NEW t, NEW u, Texts(t), Texts(u)
  PROVE  Differ(t, u)
<1>1. PICK a, b, c, d, e : t = TextOf(a, b, c, d, e)
  BY DEF Texts
<1>2. PICK f, g, h, i, j : u = TextOf(f, g, h, i, j)
  BY DEF Texts
<1>3. /\ t.raw = a /\ t.name = b /\ t.value = c /\ t.headers = d /\ t.body = e
      /\ u.raw = f /\ u.name = g /\ u.value = h /\ u.headers = i /\ u.body = j
  BY <1>1, <1>2, TextFields
<1>4. \A x, y, z :
        /\ WithRaw(t, x) = TextOf(x, b, c, d, e)
        /\ WithName(t, x) = TextOf(a, x, c, d, e)
        /\ WithValue(t, x) = TextOf(a, b, x, d, e)
        /\ WithBody(t, x) = TextOf(a, b, c, d, x)
        /\ WithHeader(t, x, y, z) = TextOf(a, y, z, x, e)
  BY <1>1, TextExcept
<1>5. /\ g = b /\ h = c /\ i = d /\ j = e => u = WithRaw(t, f)
      /\ f = a /\ h = c /\ i = d /\ j = e => u = WithName(t, g)
      /\ f = a /\ g = b /\ i = d /\ j = e => u = WithValue(t, h)
      /\ f = a /\ g = b /\ h = c /\ i = d => u = WithBody(t, j)
      /\ f = a /\ j = e => u = WithHeader(t, i, g, h)
      /\ f = a /\ g = b /\ h = c /\ i = d /\ j = e => u = t
  BY <1>1, <1>2, <1>4
<1>6. u.name = t.name /\ u.value = t.value /\ u.headers = t.headers /\ u.body = t.body
       => u = WithRaw(t, u.raw)
  BY <1>3, <1>5
<1>7. u.raw = t.raw /\ u.value = t.value /\ u.headers = t.headers /\ u.body = t.body
       => u = WithName(t, u.name)
  BY <1>3, <1>5
<1>8. u.raw = t.raw /\ u.name = t.name /\ u.headers = t.headers /\ u.body = t.body
       => u = WithValue(t, u.value)
  BY <1>3, <1>5
<1>9. u.raw = t.raw /\ u.name = t.name /\ u.value = t.value /\ u.headers = t.headers
       => u = WithBody(t, u.body)
  BY <1>3, <1>5
<1>10. u.raw = t.raw /\ u.body = t.body
       => u = WithHeader(t, u.headers, u.name, u.value)
  BY <1>3, <1>5
<1> QED BY <1>6, <1>7, <1>8, <1>9, <1>10, ZenonT(60) DEF Differ

LEMMA Differs == Differ(TextNow, TextNow')
<1>1. Texts(TextNow) /\ Texts(TextNow')
  BY Shapes, ZenonT(60) DEF Texts, TextOf
<1> HIDE DEF TextNow
<1> QED BY <1>1, TextsDiffer

LEMMA Unchanged ==
  ASSUME TextNow'.raw = TextNow.raw, TextNow'.name = TextNow.name,
         TextNow'.value = TextNow.value, TextNow'.headers = TextNow.headers,
         TextNow'.body = TextNow.body
  PROVE  TextNow' = TextNow
  BY Shapes, ZenonT(60)

LEMMA PlainText ==
  ASSUME TextInv, Plain
  PROVE  /\ TextStays
         /\ TextPart = PartOf(parser.state) /\ TextPart' = PartOf(parser'.state)
         /\ TextPos = exec.pos /\ TextPos' = exec'.pos
<1>1. exec.mark = "none" /\ exec'.mark = "none"
  BY PlainUnmarked
<1>2. header' = header /\ req' = req /\ wire' = wire
  BY DEF Plain
<1>3. TextNow' = TextNow
  BY <1>1, <1>2, Unheld, UnheldThen, ZenonT(60)
<1>4. exec'.over = exec.over
  BY DEF Plain, Ahead, TextInv, TextTypes
<1>5. ~parser'.errno /\ ~parser.errno /\ ~exec.over /\ ~exec'.over
      /\ parser.state # "message_done" /\ parser'.state # "message_done"
  BY <1>4 DEF Plain
<1> QED BY <1>2, <1>3, <1>5, PartIs, PartBecomes DEF TextStays

LEMMA PlainReads ==
  ASSUME TextInv, Plain
  PROVE  /\ exec' = Ahead => Stream!Reads(1)
         /\ exec' = exec => Stream!Stays
         /\ Stream!Coming = token /\ wire[TextPos - 1] = wire[exec.pos - 1]
<1>1. TextPos = exec.pos /\ TextPos' = exec'.pos /\ wire' = wire
  BY PlainText DEF Plain
<1>2. exec.pos <= Len(wire) /\ exec.pos \in Nat
  BY DEF TextInv, TextTypes, Bounded, Plain, Tokens
<1>3. exec' = Ahead => exec'.pos = exec.pos + 1
  BY DEF Ahead, TextInv, TextTypes
<1>4. exec.pos + 1 - 1 <= Len(wire)
  BY <1>2
<1> QED BY <1>1, <1>2, <1>3, <1>4 DEF Stream!Reads, Stream!Stays, Stream!Coming, token

(* What a step of the code is to the text: a step of it, or none. *)
TextView == <<wire, TextPos, TextPart, parser.left, TextNow>>
TextMoves == [Stream!TextNext]_TextView

(* A token that is not collected is passed. *)
LEMMA Passed ==
  ASSUME TextInv, Plain, exec' = Ahead,
         NEW p, NEW q, p = PartOf(parser.state), q = PartOf(parser'.state),
         <<p, q>> \in Stream!Leads,
         p = "gap" => token = "SP", q = "gap" => token = "SP",
         p = "lines" => token = "CR", p \notin {"url", "name"},
         p \notin {"method", "sizes"} => parser'.left = parser.left,
         q = "body" => parser'.left > 0
  PROVE  Stream!Pass
<1>1. TextPart = p /\ TextPart' = q /\ TextNow' = TextNow
  BY PlainText DEF TextStays
<1>2. Stream!Reads(1) /\ Stream!Coming = token
  BY PlainReads
<1>3. Stream!Separates
  BY <1>1, <1>2 DEF Stream!Separates
<1> HIDE DEF Stream!Reads, Stream!Separates
<1> QED BY <1>1, <1>2, <1>3 DEF Stream!Pass

(* The steps that collect nothing, one by one. *)
Parsing == TextInv /\ conn.place = "parsing" /\ UNCHANGED conn

LEMMA Onwards == \* the fields of exec behind a step
  ASSUME TextInv
  PROVE  /\ Ahead.pos = exec.pos + 1 /\ Ahead.end = exec.end
         /\ Ahead.mark = exec.mark /\ Ahead.from = exec.from
         /\ Ahead.over = exec.over /\ Ahead # exec
  BY DEF TextInv, TextTypes, Ahead

(* Every state is entered and left as Plain says, for the steps of a table.*)
PlainMove(s, c, t) ==
  /\ {s, t} \cap (ReadingString \cup {"message_done", "value_start", "body", "chunk_data"}) = {}
  /\ s \in BeforeValue <=> t \in BeforeValue
  /\ t \in ValueBegun => s \in ValueBegun
  /\ t \in {"value_lws", "discard_lws"} => c = LF
  /\ t \in {"chunk_size", "chunk_parameters", "chunk_size_almost_done"} =>
       s \in {"chunk_size", "chunk_parameters"}
  /\ s = "header_almost_done" => t = "value_lws"
  /\ s \notin {"value", "value_lws"}
LeadOn(s, c, t) ==
  \/ PartOf(s) = "value" /\ PartOf(t) = "value" /\ c \in {CR, LF}
  \/ PartOf(s) = "value" /\ PartOf(t) = "value" /\ s \in BeforeValue /\ c = SP
  \/ /\ <<PartOf(s), PartOf(t)>> \in Stream!Leads
     /\ PartOf(s) = "gap" => c = SP
     /\ PartOf(t) = "gap" => c = SP
     /\ PartOf(s) = "lines" => c = CR
     /\ PartOf(s) \notin {"url", "name"}
     /\ PartOf(t) # "body"

LEMMA ChunkMoves ==
  ASSUME NEW t \in ChunkLines
  PROVE  \E c : \/ t = <<"chunk_size", c, "chunk_size_almost_done">>
               \/ t = <<"chunk_size", c, "chunk_parameters">>
               \/ t = <<"chunk_parameters", c, "chunk_size_almost_done">>
               \/ t = <<"chunk_data_done", c, "chunk_size_start">>
  BY ZenonT(60) DEF ChunkLines

LEMMA TableMoves ==
  ASSUME NEW t \in RequestLine \cup HeaderLines \cup ChunkLines
  PROVE  PlainMove(t[1], t[2], t[3])
<1> USE DEF PlainMove, ReadingString, UrlHead, InUrl, Server, BeforeValue, ValueBegun, CR, LF, SP
<1>1. CASE t \in RequestLine
  BY <1>1 DEF RequestLine
<1>2. CASE t \in HeaderLines
  BY <1>2 DEF HeaderLines
<1>3. CASE t \in ChunkLines
  BY <1>3, ChunkMoves
<1> QED BY <1>1, <1>2, <1>3

LEMMA TableLeads ==
  ASSUME NEW t \in RequestLine \cup HeaderLines \cup ChunkLines
  PROVE  LeadOn(t[1], t[2], t[3])
<1> USE Parts DEF LeadOn, Stream!Leads, BeforeValue, ValueBegun, CR, LF, SP
<1>1. CASE t \in RequestLine
  BY <1>1 DEF RequestLine
<1>2. CASE t \in HeaderLines
  BY <1>2 DEF HeaderLines
<1>3. CASE t \in ChunkLines
  BY <1>3, ChunkMoves
<1> QED BY <1>1, <1>2, <1>3


LEMMA StepText ==
  ASSUME Parsing, Step
  PROVE  Plain /\ TextMoves
<1> USE DEF Parsing
<1>1. PICK t \in RequestLine \cup HeaderLines \cup ChunkLines :
             At(t[1]) /\ token = t[2] /\ parser' = [parser EXCEPT !.state = t[3]]
  BY DEF Step
<1>2. PlainMove(t[1], t[2], t[3])
  BY TableMoves
<1>3. LeadOn(t[1], t[2], t[3])
  BY TableLeads
<1> HIDE DEF RequestLine, HeaderLines, ChunkLines
<1>4. /\ exec' = Ahead /\ UNCHANGED <<wire, header, req, conn>>
      /\ exec.pos <= exec.end /\ ~exec.over /\ ~parser.errno
      /\ parser.state = t[1] /\ conn.place = "parsing"
  BY <1>1 DEF Step, At, Reading, Calling
<1>5. /\ DOMAIN parser' = DOMAIN parser /\ parser'.state = t[3]
      /\ parser'.kind = parser.kind /\ parser'.left = parser.left
      /\ parser'.errno = parser.errno /\ parser'.upgrade = parser.upgrade
  BY <1>1 DEF TextInv, TextTypes
<1>6. Plain
  <2>1. Ahead # exec
    BY Onwards
  <2>2. parser'.left \in Int /\ parser'.left >= NoLength
    BY <1>5 DEF TextInv, TextTypes
  <2>3. parser'.kind = "number" => t[3] = "value_lws" /\ t[1] = "header_almost_done"
    BY <1>2, <1>4, <1>5 DEF PlainMove, TextInv, Counting
  <2>4. t[3] \in {"chunk_size", "chunk_parameters", "chunk_size_almost_done"} =>
          parser'.left >= 0
    BY <1>2, <1>4, <1>5 DEF PlainMove, TextInv, Counting
  <2>5. {t[1], t[3]} \cap ReadingString = {} /\ "message_done" \notin {t[1], t[3]}
    BY <1>2 DEF PlainMove
  <2> HIDE DEF ReadingString
  <2> QED BY <1>1, <1>2, <1>4, <1>5, <2>2, <2>3, <2>4, <2>5 DEF Plain, PlainMove
<1>7. /\ TextStays /\ TextPart = PartOf(t[1]) /\ TextPart' = PartOf(t[3])
      /\ Stream!Reads(1) /\ Stream!Coming = token
  BY <1>4, <1>5, <1>6, PlainText, PlainReads
<1>8. CASE PartOf(t[1]) = "value"
  <2>1. PartOf(t[3]) = "value"
    BY <1>3, <1>8 DEF LeadOn, Stream!Leads
  <2>2. token \in {CR, LF} \/ (t[1] \in BeforeValue /\ token = SP)
    BY <1>1, <1>3, <1>8 DEF LeadOn, Stream!Leads
  <2>3. t[1] \in BeforeValue => TextNow.value = <<>>
    <3>1. exec.mark = "none"
      BY <1>6, PlainUnmarked
    <3>2. TextNow.value = header.value \o <<>>
      BY <3>1, Strings, ZenonT(60) DEF HeaderValue, NewName, Pending
    <3>3. t[1] \in BeforeValue => header.value = <<>>
      BY <1>4 DEF TextInv, Building, BeforeValue
    <3> QED BY <3>2, <3>3, EmptySeq
  <2>4. Stream!TakeValue
    BY <1>7, <1>8, <2>1, <2>2, <2>3 DEF Stream!TakeValue, Stream!Break, TextStays, CR, LF, SP
  <2> QED BY <1>6, <2>4 DEF TextMoves, Stream!TextNext
<1>9. CASE PartOf(t[1]) # "value"
  <2>1. Stream!Pass
    BY <1>1, <1>3, <1>4, <1>5, <1>6, <1>9, Passed DEF LeadOn, CR, SP
  <2> QED BY <1>6, <2>1 DEF TextMoves, Stream!TextNext
<1> QED BY <1>8, <1>9

(* Between two strings: no state of a string, no mark.                     *)
LEMMA StartText ==
  ASSUME Parsing, Start
  PROVE  Plain /\ TextMoves
<1> USE DEF Parsing
<1>1. /\ exec' = Ahead /\ UNCHANGED <<wire, header, req, conn>>
      /\ exec.pos <= exec.end /\ ~exec.over /\ ~parser.errno
      /\ parser.state = "start" /\ conn.place = "parsing"
  BY DEF Start, At, Reading, Calling
<1>2. /\ DOMAIN parser' = DOMAIN parser /\ parser'.state = "method"
      /\ parser'.kind = parser.kind /\ parser'.left = -1
      /\ parser'.errno = parser.errno /\ parser'.upgrade = parser.upgrade
  BY DEF Start, TextInv, TextTypes, NoLength
<1>3. parser.kind # "number"
  BY <1>1 DEF TextInv, Counting
<1>4. Plain
  BY <1>1, <1>2, <1>3, Onwards
  DEF Plain, ReadingString, UrlHead, InUrl, Server, BeforeValue, ValueBegun, NoLength
<1>5. <<"method", "method">> \in Stream!Leads
  BY DEF Stream!Leads
<1>6. Stream!Pass
  BY <1>1, <1>2, <1>4, <1>5, Passed, Parts
<1> QED BY <1>4, <1>6 DEF TextMoves, Stream!TextNext

LEMMA MethodLetterText ==
  ASSUME Parsing, MethodLetter
  PROVE  Plain /\ TextMoves
<1> USE DEF Parsing
<1>1. /\ exec' = Ahead /\ UNCHANGED <<wire, header, req, conn>>
      /\ exec.pos <= exec.end /\ ~exec.over /\ ~parser.errno
      /\ parser.state = "method" /\ conn.place = "parsing"
  BY DEF MethodLetter, At, Reading, Calling
<1>2. /\ DOMAIN parser' = DOMAIN parser /\ parser'.state = "method"
      /\ parser'.kind = parser.kind /\ parser'.left = parser.left
      /\ parser'.errno = parser.errno /\ parser'.upgrade = parser.upgrade
  BY <1>1 DEF MethodLetter, TextInv, TextTypes
<1>3. parser.kind # "number"
  BY <1>1 DEF TextInv, Counting
<1>4. parser'.left \in Int /\ parser'.left >= NoLength
  BY <1>2 DEF TextInv, TextTypes
<1>5. Plain
  BY <1>1, <1>2, <1>3, <1>4, Onwards
  DEF Plain, ReadingString, UrlHead, InUrl, Server, BeforeValue, ValueBegun
<1>6. <<"method", "method">> \in Stream!Leads
  BY DEF Stream!Leads
<1>7. Stream!Pass
  BY <1>1, <1>2, <1>5, <1>6, Passed, Parts
<1> QED BY <1>5, <1>7 DEF TextMoves, Stream!TextNext

LEMMA HttpVersionText ==
  ASSUME Parsing, HttpVersion
  PROVE  Plain /\ TextMoves
<1> USE DEF Parsing
<1>1. /\ exec' = Ahead /\ UNCHANGED <<wire, header, req, conn>>
      /\ exec.pos <= exec.end /\ ~exec.over /\ ~parser.errno
      /\ parser.state = "http_start" /\ conn.place = "parsing"
  BY DEF HttpVersion, At, Reading, Calling
<1>2. /\ DOMAIN parser' = DOMAIN parser /\ parser'.state = "http_end"
      /\ parser'.kind = parser.kind /\ parser'.left = parser.left
      /\ parser'.errno = parser.errno /\ parser'.upgrade = parser.upgrade
  BY <1>1 DEF HttpVersion, TextInv, TextTypes
<1>3. parser.kind # "number"
  BY <1>1 DEF TextInv, Counting
<1>4. parser'.left \in Int /\ parser'.left >= NoLength
  BY <1>2 DEF TextInv, TextTypes
<1>5. Plain
  BY <1>1, <1>2, <1>3, <1>4, Onwards
  DEF Plain, ReadingString, UrlHead, InUrl, Server, BeforeValue, ValueBegun
<1>6. <<"version", "version">> \in Stream!Leads
  BY DEF Stream!Leads
<1>7. Stream!Pass
  BY <1>1, <1>2, <1>5, <1>6, Passed, Parts
<1> QED BY <1>5, <1>7 DEF TextMoves, Stream!TextNext

LEMMA EmptyLineText ==
  ASSUME Parsing, EmptyLine
  PROVE  Plain /\ TextMoves
<1> USE DEF Parsing
<1>1. /\ exec' = exec /\ UNCHANGED <<wire, header, req, conn>>
      /\ exec.pos <= exec.end /\ ~exec.over /\ ~parser.errno
      /\ parser.state = "field_start" /\ conn.place = "parsing" /\ token = LF
  BY DEF EmptyLine, At, Reading, Calling
<1>2. /\ DOMAIN parser' = DOMAIN parser /\ parser'.state = "headers_almost_done"
      /\ parser'.kind = parser.kind /\ parser'.left = parser.left
      /\ parser'.errno = parser.errno /\ parser'.upgrade = parser.upgrade
  BY <1>1 DEF EmptyLine, TextInv, TextTypes
<1>3. parser.kind # "number"
  BY <1>1 DEF TextInv, Counting
<1>4. parser'.left \in Int /\ parser'.left >= NoLength
  BY <1>2 DEF TextInv, TextTypes
<1>5. Plain
  BY <1>1, <1>2, <1>3, <1>4
  DEF Plain, ReadingString, UrlHead, InUrl, Server, BeforeValue, ValueBegun
<1>6. /\ TextStays /\ TextPart = "lines" /\ TextPart' = "blank"
      /\ Stream!Stays /\ Stream!Coming = "LF"
  BY <1>1, <1>2, <1>5, PlainText, PlainReads, Parts DEF LF
<1>7. Stream!EmptyLine
  BY <1>2, <1>6 DEF Stream!EmptyLine, TextStays
<1> QED BY <1>5, <1>7 DEF TextMoves, Stream!TextNext

LEMMA FoldText ==
  ASSUME Parsing, Fold
  PROVE  Plain /\ TextMoves
<1> USE DEF Parsing
<1>1. /\ exec' = exec /\ UNCHANGED <<wire, header, req, conn>>
      /\ exec.pos <= exec.end /\ ~exec.over /\ ~parser.errno
      /\ parser.state = "value_lws" /\ conn.place = "parsing" /\ token = SP
  BY DEF Fold, At, Reading, Calling
<1>2. /\ DOMAIN parser' = DOMAIN parser /\ parser'.state = "value_start"
      /\ parser'.kind \in {"number_ws", "encoding", "general"}
      /\ parser'.left = parser.left /\ parser'.errno = parser.errno /\ parser'.upgrade = parser.upgrade
  BY <1>1 DEF Fold, TextInv, TextTypes
<1>3. parser'.left \in Int /\ parser'.left >= NoLength
  BY <1>2 DEF TextInv, TextTypes
<1>4. Plain
  BY <1>1, <1>2, <1>3
  DEF Plain, ReadingString, UrlHead, InUrl, Server, BeforeValue, ValueBegun
<1>5. PartOf("value_lws") = PartOf("value_start")
  BY Parts DEF ValueBegun
<1>6. UNCHANGED TextView
  BY <1>1, <1>2, <1>4, <1>5, PlainText DEF TextView, TextStays
<1> QED BY <1>4, <1>6 DEF TextMoves

LEMMA HeaderDoneText ==
  ASSUME Parsing, HeaderDone
  PROVE  Plain /\ TextMoves
<1> USE DEF Parsing
<1>1. /\ exec' = exec /\ UNCHANGED <<wire, header, req, conn>>
      /\ exec.pos <= exec.end /\ ~exec.over /\ ~parser.errno
      /\ parser.state = "value_lws" /\ conn.place = "parsing" /\ token # SP
  BY DEF HeaderDone, At, Reading, Calling
<1>2. /\ DOMAIN parser' = DOMAIN parser /\ parser'.state = "field_start"
      /\ parser'.kind = "general"
      /\ parser'.left = parser.left /\ parser'.errno = parser.errno /\ parser'.upgrade = parser.upgrade
  BY <1>1 DEF HeaderDone, TextInv, TextTypes
<1>3. parser'.left \in Int /\ parser'.left >= NoLength
  BY <1>2 DEF TextInv, TextTypes
<1>4. Plain
  BY <1>1, <1>2, <1>3
  DEF Plain, ReadingString, UrlHead, InUrl, Server, BeforeValue, ValueBegun
<1>5. PartOf("value_lws") = "value" /\ PartOf("field_start") = "lines"
  BY Parts DEF ValueBegun
<1>6. /\ TextStays /\ TextPart = "value" /\ TextPart' = "lines"
      /\ Stream!Stays /\ Stream!Coming # "SP" /\ wire[TextPos - 1] = "LF"
  BY <1>1, <1>2, <1>4, <1>5, PlainText, PlainReads DEF SP, LF, TextInv, Folding
<1>7. Stream!EndLine
  BY <1>2, <1>6 DEF Stream!EndLine, TextStays
<1> QED BY <1>4, <1>7 DEF TextMoves, Stream!TextNext

LEMMA BodyFollowsText ==
  ASSUME Parsing, BodyFollows
  PROVE  Plain /\ TextMoves
<1> USE DEF Parsing
<1>1. /\ exec' = Ahead /\ UNCHANGED <<wire, header, req, conn>>
      /\ exec.pos <= exec.end /\ ~exec.over /\ ~parser.errno
      /\ parser.state = "headers_done" /\ conn.place = "parsing" /\ ~NoBody
  BY DEF BodyFollows, At, Reading, Calling
<1>2. /\ DOMAIN parser' = DOMAIN parser
      /\ \/ parser'.state = "chunk_size_start" 
         \/ parser'.state = "body" /\ "chunked" \notin parser.flags
      /\ parser'.kind = parser.kind
      /\ parser'.left = parser.left /\ parser'.errno = parser.errno /\ parser'.upgrade = parser.upgrade
  BY <1>1 DEF BodyFollows, TextInv, TextTypes
<1>3. parser'.left \in Int /\ parser'.left >= NoLength
  BY <1>2 DEF TextInv, TextTypes
<1>4. parser'.state = "body" => parser'.left > 0
  BY <1>1, <1>2, <1>3 DEF NoBody, NoLength
<1>5. parser.kind # "number"
  BY <1>1 DEF TextInv, Counting
<1>6. Plain
  BY <1>1, <1>2, <1>3, <1>4, <1>5, Onwards
  DEF Plain, ReadingString, UrlHead, InUrl, Server, BeforeValue, ValueBegun
<1>7. PartOf("chunk_size_start") = "sizes"
  BY Parts
<1>8. <<"headed", "sizes">> \in Stream!Leads /\ <<"headed", "body">> \in Stream!Leads
  BY DEF Stream!Leads
<1>9. Stream!Pass
  BY <1>1, <1>2, <1>4, <1>6, <1>7, <1>8, Passed, Parts
<1> QED BY <1>6, <1>9 DEF TextMoves, Stream!TextNext

LEMMA NumberType == \A d \in Hex : Number[d] \in Nat
  BY DEF Number, Hex

LEMMA ChunkSizeText ==
  ASSUME Parsing, ChunkSize
  PROVE  Plain /\ TextMoves
<1> USE DEF Parsing
<1>1. /\ exec' = Ahead /\ UNCHANGED <<wire, header, req, conn>>
      /\ exec.pos <= exec.end /\ ~exec.over /\ ~parser.errno
      /\ parser.state \in {"chunk_size", "chunk_size_start"} /\ conn.place = "parsing"
  BY DEF ChunkSize, At, Reading, Calling
<1>2. /\ DOMAIN parser' = DOMAIN parser /\ parser'.state = "chunk_size"
      /\ parser'.kind = parser.kind /\ parser'.errno = parser.errno /\ parser'.upgrade = parser.upgrade
  BY <1>1 DEF ChunkSize, TextInv, TextTypes
<1>3. parser'.left \in Int /\ parser'.left >= 0
  <2>1. Number[token] \in Nat
    BY NumberType DEF ChunkSize
  <2>2. parser'.left = IF parser.state = "chunk_size" THEN 16 * parser.left + Number[token]
                       ELSE Number[token]
    BY DEF ChunkSize, TextInv, TextTypes
  <2>3. parser.left \in Int /\ (parser.state = "chunk_size" => parser.left >= 0)
    BY DEF TextInv, TextTypes, Counting
  <2> QED BY <2>1, <2>2, <2>3
<1>4. parser.kind # "number"
  BY <1>1 DEF TextInv, Counting
<1>5. Plain
  BY <1>1, <1>2, <1>3, <1>4, Onwards
  DEF Plain, ReadingString, UrlHead, InUrl, Server, BeforeValue, ValueBegun, NoLength
<1>6. PartOf(parser.state) = "sizes" /\ PartOf("chunk_size") = "sizes"
  BY <1>1, Parts
<1>7. <<"sizes", "sizes">> \in Stream!Leads
  BY DEF Stream!Leads
<1>8. Stream!Pass
  BY <1>1, <1>2, <1>5, <1>6, <1>7, Passed
<1> QED BY <1>5, <1>8 DEF TextMoves, Stream!TextNext

LEMMA ChunkParameterText ==
  ASSUME Parsing, ChunkParameter
  PROVE  Plain /\ TextMoves
<1> USE DEF Parsing
<1>1. /\ exec' = Ahead /\ UNCHANGED <<wire, header, req, conn>> /\ parser' = parser
      /\ exec.pos <= exec.end /\ ~exec.over /\ ~parser.errno
      /\ parser.state = "chunk_parameters" /\ conn.place = "parsing"
  BY DEF ChunkParameter, At, Reading, Calling
<1>2. parser.kind # "number" /\ parser.left \in Int /\ parser.left >= NoLength
      /\ parser.left >= 0
  BY <1>1 DEF TextInv, Counting, TextTypes
<1>3. Plain
  BY <1>1, <1>2, Onwards
  DEF Plain, ReadingString, UrlHead, InUrl, Server, BeforeValue, ValueBegun
<1>4. PartOf("chunk_parameters") = "sizes"
  BY Parts
<1>5. <<"sizes", "sizes">> \in Stream!Leads
  BY DEF Stream!Leads
<1>6. Stream!Pass
  BY <1>1, <1>3, <1>4, <1>5, Passed
<1> QED BY <1>3, <1>6 DEF TextMoves, Stream!TextNext

LEMMA ChunkSizeDoneText ==
  ASSUME Parsing, ChunkSizeDone
  PROVE  Plain /\ TextMoves
<1> USE DEF Parsing
<1>1. /\ exec' = Ahead /\ UNCHANGED <<wire, header, req, conn>>
      /\ exec.pos <= exec.end /\ ~exec.over /\ ~parser.errno
      /\ parser.state = "chunk_size_almost_done" /\ conn.place = "parsing"
  BY DEF ChunkSizeDone, At, Reading, Calling
<1>2. /\ DOMAIN parser' = DOMAIN parser
      /\ \/ parser'.state = "field_start"
         \/ parser'.state = "chunk_data" /\ parser.left # 0
      /\ parser'.kind = parser.kind /\ parser'.left = parser.left
      /\ parser'.errno = parser.errno /\ parser'.upgrade = parser.upgrade
  BY <1>1 DEF ChunkSizeDone, TextInv, TextTypes
<1>3. /\ parser'.left \in Int /\ parser'.left >= 0 /\ parser.kind # "number"
      /\ parser'.state = "chunk_data" => parser'.left > 0
  BY <1>1, <1>2 DEF TextInv, TextTypes, Counting
<1>4. Plain
  BY <1>1, <1>2, <1>3, Onwards
  DEF Plain, ReadingString, UrlHead, InUrl, Server, BeforeValue, ValueBegun, NoLength
<1>5. PartOf("chunk_size_almost_done") = "sizes"
  BY Parts
<1>6. <<"sizes", "lines">> \in Stream!Leads /\ <<"sizes", "body">> \in Stream!Leads
  BY DEF Stream!Leads
<1>7. Stream!Pass
  BY <1>1, <1>2, <1>3, <1>4, <1>5, <1>6, Passed, Parts
<1> QED BY <1>4, <1>7 DEF TextMoves, Stream!TextNext

-----------------------------------------------------------------------------
(* A step on a token that belongs to a string: the first of one, or of what*)
(* is read of it in this call, sets the mark.                              *)
Gathered == IF exec.mark = "none" THEN <<>> ELSE Data
Gathers(mark, before, within) ==
  /\ conn.place = "parsing" /\ UNCHANGED <<wire, header, req, conn>>
  /\ exec.pos <= exec.end /\ ~exec.over /\ ~parser.errno
  /\ \/ exec.mark = "none" /\ parser.state \in before /\ exec'.from = exec.pos
     \/ exec.mark = mark /\ parser.state \in within /\ exec'.from = exec.from
  /\ exec' \in [pos : Nat \ {0}, end : Nat, mark : Mark, from : Nat \ {0},
                start : Nat, over : BOOLEAN]
  /\ exec'.pos = exec.pos + 1 /\ exec'.end = exec.end /\ ~exec'.over
  /\ exec'.mark = mark
  /\ DOMAIN parser' = DOMAIN parser /\ parser'.errno = parser.errno /\ parser'.upgrade = parser.upgrade
  /\ parser'.state \in within
  /\ parser'.left \in Int /\ parser'.left >= NoLength
  /\ parser'.kind = "number" => parser'.state = "value" /\ parser'.left >= 0

GathersUrl == Gathers("url", {"spaces_before_url"}, UrlHead \cup InUrl)
GathersField == Gathers("field", {"field_start"}, {"field"})
GathersValue == Gathers("value", {"discard_ws", "value_start"}, {"value"})

LEMMA GathersKeep ==
  ASSUME TextInv, GathersUrl \/ GathersField \/ GathersValue
  PROVE  TextInv'
<1> USE DEF TextInv, GathersUrl, GathersField, GathersValue, Gathers
<1>1. TextTypes'
  BY DEF TextTypes
<1>2. Bounded'
  BY DEF Bounded, TextTypes
<1>3. Marking'
  <2>1. CASE GathersUrl
    BY <2>1 DEF Marking, UrlHead, InUrl, Server
  <2>2. CASE GathersField
    BY <2>2 DEF Marking, UrlHead, InUrl, Server
  <2>3. CASE GathersValue
    BY <2>3 DEF Marking, UrlHead, InUrl, Server
  <2> QED BY <2>1, <2>2, <2>3
<1>4. Building'
  <2>1. CASE GathersUrl
    BY <2>1 DEF Building, UrlHead, InUrl, Server, BeforeValue, ValueBegun
  <2>2. CASE GathersField
    BY <2>2 DEF Building, BeforeValue, ValueBegun
  <2>3. CASE GathersValue
    <3>1. exec'.from < exec'.pos
      BY <2>3 DEF TextTypes, Bounded
    <3>2. header.building = 1 \/ header.value # <<>>
      BY <2>3 DEF Building, BeforeValue, ValueBegun
    <3> QED BY <2>3, <3>1, <3>2 DEF Building, BeforeValue, ValueBegun
  <2> QED BY <2>1, <2>2, <2>3
<1>5. Folding'
  BY DEF Folding, UrlHead, InUrl, Server
<1>6. Counting'
  BY DEF Counting, UrlHead, InUrl, Server
<1>7. Called'
  BY DEF Called
<1> QED BY <1>1, <1>2, <1>3, <1>4, <1>5, <1>6, <1>7

(* What is gathered, the token is added to.                                *)
LEMMA GatheredGrows ==
  ASSUME TextInv, GathersUrl \/ GathersField \/ GathersValue
  PROVE  /\ Gathered \in Tokens /\ token \in Token
         /\ Data' = Append(Gathered, token)
         /\ Data' \in Tokens
<1> USE DEF GathersUrl, GathersField, GathersValue, Gathers
<1>1. TextTypes /\ Bounded /\ wire' = wire /\ exec'.pos = exec.pos + 1
      /\ exec.pos <= exec.end /\ "url" # "none" /\ "field" # "none" /\ "value" # "none"
  BY DEF TextInv
<1>2. Data \in Tokens /\ token \in Token
  BY <1>1, DataType, TokenType
<1>3. CASE exec.mark = "none"
  <2>1. Gathered = <<>>
    BY <1>3 DEF Gathered
  <2>2. exec'.from = exec.pos
    BY <1>3
  <2>3. Data' = <<token>>
    BY <1>1, <2>2, DataBegins
  <2>4. Append(<<>>, token) = <<token>> /\ <<token>> \in Seq(Token) /\ <<>> \in Seq(Token)
    BY <1>2
  <2> QED BY <1>2, <2>1, <2>3, <2>4 DEF Tokens
<1>4. CASE exec.mark # "none"
  <2>1. Gathered = Data
    BY <1>4 DEF Gathered
  <2>2. exec'.from = exec.from
    BY <1>4
  <2>3. Data' = Append(Data, token)
    BY <1>1, <2>2, DataGrows
  <2>4. Append(Data, token) \in Seq(Token)
    BY <1>2, AppendProperties DEF Tokens
  <2> QED BY <1>2, <2>1, <2>3, <2>4 DEF Tokens
<1> QED BY <1>3, <1>4

LEMMA MarkedIs ==
  ASSUME TextInv, NEW mark \in Mark
  PROVE  /\ Marked(mark) \in [pos : Nat \ {0}, end : Nat, mark : Mark, from : Nat \ {0},
                              start : Nat, over : BOOLEAN]
         /\ Marked(mark).pos = exec.pos + 1 /\ Marked(mark).end = exec.end
         /\ Marked(mark).over = exec.over /\ Marked(mark).mark = mark
         /\ Marked(mark).from = exec.pos
<1>1. /\ Ahead \in [pos : Nat \ {0}, end : Nat, mark : Mark, from : Nat \ {0},
                    start : Nat, over : BOOLEAN]
      /\ exec.pos \in Nat \ {0}
  BY DEF Ahead, TextInv, TextTypes
<1> QED BY <1>1, Onwards DEF Marked

LEMMA AppendedTo ==
  ASSUME NEW s \in Tokens, NEW t \in Tokens, NEW c \in Token
  PROVE  s \o Append(t, c) = Append(s \o t, c)
<1>1. s \in Seq(Token) /\ t \in Seq(Token) /\ <<c>> \in Seq(Token) /\ s \o t \in Seq(Token)
  BY ConcatProperties DEF Tokens
<1>2. Append(t, c) = t \o <<c>> /\ Append(s \o t, c) = (s \o t) \o <<c>>
  BY <1>1, AppendIsConcat
<1> QED BY <1>1, <1>2, ConcatAssociative

LEMMA GathersAt ==
  ASSUME TextInv, GathersUrl \/ GathersField \/ GathersValue
  PROVE  /\ TextPos = exec.pos /\ TextPos' = exec.pos + 1
         /\ TextPart = PartOf(parser.state) /\ TextPart' = PartOf(parser'.state)
         /\ Stream!Reads(1) /\ Stream!Coming = token
<1> USE DEF GathersUrl, GathersField, GathersValue, Gathers
<1>1. ~parser.errno /\ ~exec.over /\ ~parser'.errno /\ ~exec'.over
      /\ parser.state # "message_done" /\ parser'.state # "message_done"
      /\ exec'.pos = exec.pos + 1
  BY DEF UrlHead, InUrl, Server
<1>2. /\ TextPos = exec.pos /\ TextPos' = exec.pos + 1
      /\ TextPart = PartOf(parser.state) /\ TextPart' = PartOf(parser'.state)
  BY <1>1, PartIs, PartBecomes
<1>3. exec.pos + 1 - 1 <= Len(wire) /\ wire' = wire
  BY DEF TextInv, TextTypes, Bounded, Tokens
<1> QED BY <1>2, <1>3 DEF Stream!Reads, Stream!Coming, token

(* The URL.                                                                *)
LEMMA UrlGathered ==
  ASSUME TextInv, GathersUrl
  PROVE  /\ TextNow' = [TextNow EXCEPT !.raw = Append(@, token)]
         /\ PartOf(parser.state) \in {"gap", "url"} /\ PartOf(parser'.state) = "url"
<1> USE DEF GathersUrl, Gathers
<1>1. exec'.mark = "url" /\ exec.mark \in {"none", "url"} /\ header' = header /\ req' = req
  OBVIOUS
<1>2. /\ Gathered \in Tokens /\ token \in Token /\ req.raw \in Tokens
      /\ Data' = Append(Gathered, token)
  BY GatheredGrows DEF TextInv, TextTypes
<1>3. Pending("url") = Gathered /\ Pending("url")' = Data'
  BY <1>1, ZenonT(60) DEF Pending, Gathered
<1>4. Pending("body") = <<>> /\ Pending("body")' = <<>>
      /\ Name' = Name /\ HeaderValue' = HeaderValue /\ Headers' = Headers
  <2>1. exec.mark \notin {"body", "field", "value"} /\ exec'.mark \notin {"body", "field", "value"}
    BY <1>1
  <2> QED BY <1>1, <2>1, ZenonT(60) DEF Pending, NewName, Name, HeaderValue, Headers
<1>5. req.raw \o Append(Gathered, token) = Append(req.raw \o Gathered, token)
  BY <1>2, AppendedTo, ZenonT(60)
<1>6. TextNow' = [TextNow EXCEPT !.raw = Append(@, token)]
  <2>1. TextNow'.raw = Append(TextNow.raw, token)
    BY <1>1, <1>2, <1>3, <1>5, Strings, StringsThen, ZenonT(60)
  <2>2. TextNow'.name = TextNow.name
    BY <1>4, Strings, StringsThen, ZenonT(60)
  <2>3. TextNow'.value = TextNow.value
    BY <1>4, Strings, StringsThen, ZenonT(60)
  <2>4. TextNow'.headers = TextNow.headers
    BY <1>4, Strings, StringsThen, ZenonT(60)
  <2>5. TextNow'.body = TextNow.body
    BY <1>1, <1>4, Strings, StringsThen, ZenonT(60)
  <2> QED BY <2>1, <2>2, <2>3, <2>4, <2>5, Differs, ZenonT(60)
          DEF Differ, WithRaw, WithName, WithHeader
<1>7. PartOf(parser.state) \in {"gap", "url"} /\ PartOf(parser'.state) = "url"
  BY Parts
<1> QED BY <1>6, <1>7

LEMMA UrlTaken ==
  ASSUME TextInv, GathersUrl, token \notin {SP, CR, LF}, parser'.left = parser.left
  PROVE  TextInv' /\ TextMoves
<1>1. /\ TextPart \in {"gap", "url"} /\ TextPart' = "url"
      /\ Stream!Reads(1) /\ Stream!Coming = token
  BY GathersAt, UrlGathered
<1>2. Stream!TakeUrl
  BY <1>1, UrlGathered DEF Stream!TakeUrl, Stream!Break, SP, CR, LF
<1> QED BY <1>2, GathersKeep DEF TextMoves, Stream!TextNext

LEMMA UrlStartText ==
  ASSUME Parsing, UrlStart
  PROVE  TextInv' /\ TextMoves
<1> USE DEF Parsing
<1>1. /\ exec.pos <= exec.end /\ ~exec.over /\ ~parser.errno /\ ~Wrong
      /\ parser.state = "spaces_before_url" /\ token # SP
      /\ exec' = [Marked("url") EXCEPT !.start = IF @ = 0 THEN exec.pos ELSE @]
  BY DEF UrlStart, At, Reading, Calling
<1>2. exec.mark = "none"
  BY <1>1 DEF TextInv, TextTypes, Marking, Mark, UrlHead, InUrl, Server
<1>3. /\ exec' \in [pos : Nat \ {0}, end : Nat, mark : Mark, from : Nat \ {0},
                    start : Nat, over : BOOLEAN]
      /\ exec'.pos = exec.pos + 1 /\ exec'.end = exec.end /\ ~exec'.over
      /\ exec'.mark = "url" /\ exec'.from = exec.pos
  <2>1. PICK n \in Nat : exec' = [Marked("url") EXCEPT !.start = n]
    BY <1>1, MarkedIs DEF TextInv, TextTypes, Mark
  <2>2. "url" \in Mark
    BY DEF Mark
  <2> QED BY <1>1, <2>1, <2>2, MarkedIs
<1>4. UrlState("spaces_before_url", token) # "dead"
  BY <1>1 DEF Wrong, BadUrl
<1>5. parser'.state \in UrlHead \cup InUrl
  BY <1>1, <1>4, UrlStates DEF UrlStart, TextInv, TextTypes
<1>6. /\ DOMAIN parser' = DOMAIN parser /\ parser'.errno = parser.errno /\ parser'.upgrade = parser.upgrade
      /\ parser'.left = parser.left /\ parser'.kind = parser.kind
  BY DEF UrlStart, TextInv, TextTypes
<1>7. parser.kind # "number"
  BY <1>1 DEF TextInv, Counting
<1>8. token \notin {CR, LF}
  BY <1>4 DEF UrlState, Letters, CR, LF, Server, InUrl
<1>9. GathersUrl
  BY <1>1, <1>2, <1>3, <1>5, <1>6, <1>7
  DEF GathersUrl, Gathers, UrlStart, TextInv, TextTypes
<1> QED BY <1>1, <1>6, <1>8, <1>9, UrlTaken

LEMMA UrlCharText ==
  ASSUME Parsing, UrlChar
  PROVE  TextInv' /\ TextMoves
<1> USE DEF Parsing
<1>1. /\ exec.pos <= exec.end /\ ~exec.over /\ ~parser.errno /\ ~Wrong
      /\ parser.state \in UrlHead \cup InUrl /\ token \notin {SP, CR, LF}
      /\ exec' = Ahead
  BY DEF UrlChar, At, Reading, Calling
<1>2. exec.mark = "url"
  BY <1>1 DEF TextInv, Marking
<1>3. /\ exec' \in [pos : Nat \ {0}, end : Nat, mark : Mark, from : Nat \ {0},
                    start : Nat, over : BOOLEAN]
      /\ exec'.pos = exec.pos + 1 /\ exec'.end = exec.end /\ ~exec'.over
      /\ exec'.mark = "url" /\ exec'.from = exec.from
  BY <1>1, <1>2 DEF Ahead, TextInv, TextTypes, Mark
<1>4. UrlState(parser.state, token) # "dead"
  BY <1>1 DEF Wrong, BadUrl
<1>5. /\ DOMAIN parser' = DOMAIN parser /\ parser'.errno = parser.errno /\ parser'.upgrade = parser.upgrade
      /\ parser'.left = parser.left /\ parser'.kind = parser.kind
      /\ parser'.state = UrlState(parser.state, token)
  BY DEF UrlChar, TextInv, TextTypes
<1>6. parser'.state \in UrlHead \cup InUrl
  BY <1>4, <1>5, UrlStates
<1>7. parser.kind # "number"
  BY <1>1 DEF TextInv, Counting, UrlHead, InUrl, Server
<1>8. GathersUrl
  BY <1>1, <1>2, <1>3, <1>5, <1>6, <1>7
  DEF GathersUrl, Gathers, UrlChar, TextInv, TextTypes
<1> QED BY <1>1, <1>5, <1>8, UrlTaken

(* A header's name.                                                        *)
LEMMA FieldTaken ==
  ASSUME TextInv, GathersField, token \in FieldWord \/ token \notin {":", CR, LF},
         parser'.left = parser.left
  PROVE  TextInv' /\ TextMoves
<1> USE DEF GathersField, Gathers
<1>1. exec'.mark = "field" /\ exec.mark \in {"none", "field"} /\ header' = header /\ req' = req
  OBVIOUS
<1>2. token \notin {":", CR, LF}
  BY DEF FieldWord, CR, LF
<1>3. /\ Gathered \in Tokens /\ token \in Token /\ header.field \in Tokens
      /\ Data' = Append(Gathered, token)
  BY GatheredGrows DEF TextInv, TextTypes
<1>4. /\ Stream!Reads(1) /\ Stream!Coming = token
      /\ TextPart = PartOf(parser.state) /\ TextPart' = PartOf(parser'.state)
  BY GathersAt
<1>5. /\ TextNow.raw = req.raw \o <<>> /\ TextNow.body = req.body \o <<>>
      /\ TextNow'.raw = req.raw \o <<>> /\ TextNow'.body = req.body \o <<>>
  <2>1. exec.mark \notin {"url", "body"} /\ exec'.mark \notin {"url", "body"}
    BY <1>1
  <2> QED BY <1>1, <2>1, Strings, StringsThen, ZenonT(60) DEF Pending
<1>6. CASE exec.mark = "none"
  <2>1. parser.state = "field_start" /\ header.building = 0
    <3>1. parser.state = "field_start"
      BY <1>6
    <3> QED BY <3>1 DEF TextInv, Building, TextTypes, BeforeValue
  <2>2. NewName' /\ ~NewName
    BY <1>1, <1>6, <2>1 DEF NewName
  <2>3. TextNow.value = header.value /\ TextNow.name = header.field
        /\ TextNow.headers = req.headers
    <3>1. /\ TextNow.value = header.value \o <<>> /\ TextNow.name = header.field \o <<>>
          /\ TextNow.headers = req.headers
      BY <1>6, <2>2, Strings, ZenonT(60) DEF HeaderValue, Name, Headers, Pending
    <3>2. header.value \in Seq(Token) /\ header.field \in Seq(Token)
      BY DEF TextInv, TextTypes, Tokens
    <3> QED BY <3>1, <3>2, ConcatEmptySeq
  <2>4. Data' = <<token>>
    BY <1>3, <1>6 DEF Gathered
  <2>5. TextNow'.name = <<token>> /\ TextNow'.value = <<>>
        /\ TextNow'.headers = IF header.value # <<>> THEN Filed.headers ELSE req.headers
    <3>1. Filed' = Filed
      BY <1>1, ZenonT(60) DEF Filed
    <3> QED BY <1>1, <2>2, <2>4, <3>1, Strings, StringsThen, ZenonT(60) DEF HeaderValue, Name, Headers
  <2>6. Filed.headers = Append(req.headers, <<header.field, header.value>>)
    BY DEF Filed, TextInv, TextTypes
  <2>7. TextNow' = [TextNow EXCEPT
           !.headers = IF TextNow.value = <<>> THEN @ ELSE Append(@, Stream!Header(TextNow)),
           !.name = <<token>>, !.value = <<>>]
    <3>1. Stream!Header(TextNow) = <<header.field, header.value>>
      BY <2>3 DEF Stream!Header
    <3>2. TextNow'.headers = IF TextNow.value = <<>> THEN TextNow.headers
                             ELSE Append(TextNow.headers, Stream!Header(TextNow))
      BY <2>3, <2>5, <2>6, <3>1
    <3>3. TextNow'.raw = TextNow.raw /\ TextNow'.body = TextNow.body
      BY <1>5
    <3> QED BY <2>5, <3>2, <3>3, Differs, ZenonT(60) DEF Differ, WithRaw, WithName, WithHeader
  <2>8. PartOf(parser.state) = "lines" /\ PartOf(parser'.state) = "name"
    BY <1>6, Parts
  <2>9. Stream!BeginName
    BY <1>2, <1>4, <2>7, <2>8 DEF Stream!BeginName, Stream!Break, CR, LF
  <2> QED BY <2>9, GathersKeep DEF TextMoves, Stream!TextNext
<1>7. CASE exec.mark = "field"
  <2>1. NewName' = NewName
    BY <1>1, <1>7 DEF NewName
  <2>2. Gathered = Data /\ Data \in Tokens /\ Data' = Append(Data, token)
    BY <1>3, <1>7 DEF Gathered
  <2>3. TextNow'.name = Append(TextNow.name, token)
    <3>1. CASE NewName
      <4>1. TextNow.name = Data /\ TextNow'.name = Data'
        BY <2>1, <3>1, Strings, StringsThen, ZenonT(60) DEF Name
      <4> QED BY <2>2, <4>1
    <3>2. CASE ~NewName
      <4>1. TextNow.name = header.field \o Data /\ TextNow'.name = header.field \o Data'
        BY <1>1, <1>7, <2>1, <3>2, Strings, StringsThen, ZenonT(60) DEF Name, Pending
      <4>2. header.field \o Append(Data, token) = Append(header.field \o Data, token)
        BY <1>3, <2>2, AppendedTo, ZenonT(60)
      <4> QED BY <2>2, <4>1, <4>2, ZenonT(60)
    <3> QED BY <3>1, <3>2
  <2>4. TextNow'.value = TextNow.value /\ TextNow'.headers = TextNow.headers
    <3>1. Filed' = Filed
      BY <1>1, ZenonT(60) DEF Filed
    <3>2. exec.mark # "value" /\ exec'.mark # "value"
      BY <1>1
    <3> QED BY <1>1, <2>1, <3>1, <3>2, Strings, StringsThen, ZenonT(60) DEF HeaderValue, Headers, Pending
  <2>5. TextNow' = [TextNow EXCEPT !.name = Append(@, token)]
    <3>1. TextNow'.raw = TextNow.raw /\ TextNow'.body = TextNow.body
      BY <1>5
    <3> QED BY <2>3, <2>4, <3>1, Differs, ZenonT(60) DEF Differ, WithRaw, WithName, WithHeader
  <2>6. PartOf(parser.state) = "name" /\ PartOf(parser'.state) = "name"
    BY <1>7, Parts
  <2>7. Stream!TakeName
    BY <1>2, <1>4, <2>5, <2>6 DEF Stream!TakeName
  <2> QED BY <2>7, GathersKeep DEF TextMoves, Stream!TextNext
<1> QED BY <1>1, <1>6, <1>7

LEMMA FieldStartText ==
  ASSUME Parsing, FieldStart
  PROVE  TextInv' /\ TextMoves
<1> USE DEF Parsing
<1>1. /\ exec.pos <= exec.end /\ ~exec.over /\ ~parser.errno
      /\ parser.state = "field_start" /\ token \in FieldWord
      /\ exec' = Marked("field") /\ UNCHANGED <<wire, header, req, conn>>
  BY DEF FieldStart, At, Reading, Calling
<1>2. exec.mark = "none"
  BY <1>1 DEF TextInv, TextTypes, Marking, Mark, UrlHead, InUrl, Server
<1>3. /\ exec' \in [pos : Nat \ {0}, end : Nat, mark : Mark, from : Nat \ {0},
                    start : Nat, over : BOOLEAN]
      /\ exec'.pos = exec.pos + 1 /\ exec'.end = exec.end /\ ~exec'.over
      /\ exec'.mark = "field" /\ exec'.from = exec.pos
  <2>1. "field" \in Mark
    BY DEF Mark
  <2> QED BY <1>1, <2>1, MarkedIs
<1>4. /\ DOMAIN parser' = DOMAIN parser /\ parser'.errno = parser.errno /\ parser'.upgrade = parser.upgrade
      /\ parser'.left = parser.left /\ parser'.kind = parser.kind
      /\ parser'.state = "field"
  BY DEF FieldStart, TextInv, TextTypes
<1>5. parser.kind # "number"
  BY <1>1 DEF TextInv, Counting
<1>6. GathersField
  BY <1>1, <1>2, <1>3, <1>4, <1>5 DEF GathersField, Gathers, TextInv, TextTypes
<1> QED BY <1>1, <1>4, <1>6, FieldTaken

LEMMA FieldText ==
  ASSUME Parsing, Field
  PROVE  TextInv' /\ TextMoves
<1> USE DEF Parsing
<1>1. /\ exec.pos <= exec.end /\ ~exec.over /\ ~parser.errno
      /\ parser.state = "field" /\ token \in FieldWord
      /\ exec' = Ahead /\ UNCHANGED <<wire, header, req, conn>>
  BY DEF Field, At, Reading, Calling
<1>2. exec.mark = "field"
  BY <1>1 DEF TextInv, Marking
<1>3. /\ exec' \in [pos : Nat \ {0}, end : Nat, mark : Mark, from : Nat \ {0},
                    start : Nat, over : BOOLEAN]
      /\ exec'.pos = exec.pos + 1 /\ exec'.end = exec.end /\ ~exec'.over
      /\ exec'.mark = "field" /\ exec'.from = exec.from
  BY <1>1, <1>2 DEF Ahead, TextInv, TextTypes, Mark
<1>4. /\ DOMAIN parser' = DOMAIN parser /\ parser'.errno = parser.errno /\ parser'.upgrade = parser.upgrade
      /\ parser'.left = parser.left /\ parser'.kind = parser.kind
      /\ parser'.state = "field"
  BY <1>1 DEF Field, TextInv, TextTypes
<1>5. parser.kind # "number"
  BY <1>1 DEF TextInv, Counting
<1>6. GathersField
  BY <1>1, <1>2, <1>3, <1>4, <1>5 DEF GathersField, Gathers, TextInv, TextTypes
<1> QED BY <1>1, <1>4, <1>6, FieldTaken

(* A header's value.                                                       *)
LEMMA ValueTaken ==
  ASSUME TextInv, GathersValue, token \notin {CR, LF},
         parser.state = "discard_ws" => token # SP
  PROVE  TextInv' /\ TextMoves
<1> USE DEF GathersValue, Gathers
<1>1. /\ exec'.mark = "value" /\ exec.mark \in {"none", "value"}
      /\ header' = header /\ req' = req
      /\ NewName = FALSE /\ NewName' = FALSE
  BY DEF NewName
<1>2. /\ Gathered \in Tokens /\ token \in Token /\ header.value \in Tokens
      /\ Data' = Append(Gathered, token)
  BY GatheredGrows DEF TextInv, TextTypes
<1>3. /\ Stream!Reads(1) /\ Stream!Coming = token
      /\ TextPart = PartOf(parser.state) /\ TextPart' = PartOf(parser'.state)
  BY GathersAt
<1>4. TextPart = "value" /\ TextPart' = "value"
  BY <1>3, Parts DEF BeforeValue, ValueBegun
<1>5. /\ TextNow'.raw = TextNow.raw /\ TextNow'.body = TextNow.body
      /\ TextNow'.name = TextNow.name /\ TextNow'.headers = TextNow.headers
  <2>1. /\ exec.mark \notin {"url", "body", "field"}
        /\ exec'.mark \notin {"url", "body", "field"}
    BY <1>1
  <2> QED BY <1>1, <2>1, Strings, StringsThen, ZenonT(60) DEF Pending, Name, Headers
<1>6. header.building = 1 => header.value = <<>>
  BY DEF TextInv, Building
<1>7. /\ TextNow.value = header.value \o Gathered
      /\ TextNow'.value = header.value \o Data'
  <2>1. Data' \in Seq(Token) /\ Gathered \in Seq(Token)
    BY GatheredGrows DEF Tokens
  <2>2. Gathered = Pending("value")
    BY <1>1, ZenonT(60) DEF Gathered, Pending
  <2>3. Data' = Pending("value")'
    BY <1>1, ZenonT(60) DEF Pending
  <2>4. CASE header.building = 1
    <3>1. header.value = <<>> /\ header.value \o Data' = Data'
          /\ header.value \o Gathered = Gathered
      BY <1>6, <2>1, <2>4, ConcatEmptySeq
    <3>2. TextNow'.value = Data'
      BY <1>1, <2>4, StringsThen, ZenonT(60) DEF HeaderValue
    <3>3. CASE exec.mark = "value"
      <4>1. TextNow.value = Data /\ Gathered = Data
        BY <1>1, <2>2, <2>4, <3>3, Strings, ZenonT(60) DEF HeaderValue, Pending
      <4> QED BY <3>1, <3>2, <4>1
    <3>4. CASE exec.mark # "value"
      <4>1. TextNow.value = header.value \o Gathered
        BY <1>1, <2>2, <3>4, Strings, ZenonT(60) DEF HeaderValue
      <4> QED BY <3>1, <3>2, <4>1
    <3> QED BY <3>3, <3>4
  <2>5. CASE header.building # 1
    <3>1. TextNow.value = header.value \o Pending("value")
      BY <1>1, <2>5, Strings, ZenonT(60) DEF HeaderValue
    <3>2. TextNow'.value = header.value \o Pending("value")'
      BY <1>1, <2>5, StringsThen, ZenonT(60) DEF HeaderValue
    <3> QED BY <2>2, <2>3, <3>1, <3>2
  <2> QED BY <2>4, <2>5
<1>8. TextNow'.value = Append(TextNow.value, token)
  <2>1. header.value \o Append(Gathered, token) = Append(header.value \o Gathered, token)
    BY <1>2, AppendedTo, ZenonT(60)
  <2> QED BY <1>2, <1>7, <2>1, ZenonT(60)
<1>9. token = SP => TextNow.value # <<>>
  <2>1. ASSUME token = SP PROVE header.value # <<>> \/ Gathered # <<>>
    <3>1. parser.state \in ValueBegun
      BY <2>1 DEF ValueBegun
    <3>2. CASE header.value # <<>>
      BY <3>2
    <3>3. CASE exec.mark = "value" /\ exec.from < exec.pos
      BY <3>3, DataSome DEF Gathered, TextInv
    <3> QED BY <3>1, <3>2, <3>3 DEF TextInv, Building
  <2>2. header.value \in Seq(Token) /\ Gathered \in Seq(Token)
    BY <1>2 DEF Tokens
  <2> QED BY <1>7, <2>1, <2>2, ConcatEqualIffEmpty
<1>10. TextNow' = [TextNow EXCEPT !.value = Append(@, token)]
  BY <1>5, <1>8, Differs, ZenonT(60) DEF Differ, WithValue
<1>11. Stream!TakeValue
  BY <1>3, <1>4, <1>9, <1>10 DEF Stream!TakeValue, Stream!Break, CR, LF, SP
<1> QED BY <1>11, GathersKeep DEF TextMoves, Stream!TextNext

LEMMA ValueStartText ==
  ASSUME Parsing, ValueStart
  PROVE  TextInv' /\ TextMoves
<1> USE DEF Parsing
<1>1. /\ exec.pos <= exec.end /\ ~exec.over /\ ~parser.errno /\ ~Wrong
      /\ \/ parser.state = "discard_ws" /\ token \notin {SP, CR, LF}
         \/ parser.state = "value_start"
      /\ exec' = Marked("value") /\ UNCHANGED <<wire, header, req, conn>>
  BY DEF ValueStart, At, Reading, Calling
<1>2. exec.mark = "none"
  BY <1>1 DEF TextInv, TextTypes, Marking, Mark, UrlHead, InUrl, Server
<1>3. /\ exec' \in [pos : Nat \ {0}, end : Nat, mark : Mark, from : Nat \ {0},
                    start : Nat, over : BOOLEAN]
      /\ exec'.pos = exec.pos + 1 /\ exec'.end = exec.end /\ ~exec'.over
      /\ exec'.mark = "value" /\ exec'.from = exec.pos
  <2>1. "value" \in Mark
    BY DEF Mark
  <2> QED BY <1>1, <2>1, MarkedIs
<1>4. /\ DOMAIN parser' = DOMAIN parser /\ parser'.errno = parser.errno /\ parser'.upgrade = parser.upgrade
      /\ parser'.left = IF parser.kind = "length" THEN Number[token] ELSE parser.left
      /\ parser'.kind = CASE parser.kind = "upgrade" -> "general"
                     [] parser.kind = "length" -> "number"
                     [] OTHER -> parser.kind
      /\ parser'.state = "value"
  BY DEF ValueStart, TextInv, TextTypes
<1>5. parser.kind # "number"
  BY <1>1 DEF TextInv, Counting
<1>6. parser.kind = "length" => Number[token] \in Nat
  <2>1. parser.kind = "length" => parser.state = "discard_ws"
    BY <1>1 DEF TextInv, Folding
  <2>2. parser.kind = "length" => token \in Hex
    BY <1>1, <2>1 DEF Wrong
  <2> QED BY <2>2, NumberType
<1>7. /\ parser'.left \in Int /\ parser'.left >= NoLength
      /\ parser'.kind = "number" => parser'.left >= 0
  BY <1>4, <1>5, <1>6 DEF TextInv, TextTypes, NoLength
<1>8. GathersValue
  BY <1>1, <1>2, <1>3, <1>4, <1>7 DEF GathersValue, Gathers
<1>9. parser.state = "value_start" => token = SP
  BY DEF TextInv, Folding, token
<1>10. token \notin {CR, LF}
  BY <1>1, <1>9 DEF SP, CR, LF
<1> QED BY <1>1, <1>8, <1>10, ValueTaken

LEMMA ValueText ==
  ASSUME Parsing, Value
  PROVE  TextInv' /\ TextMoves
<1> USE DEF Parsing
<1>1. /\ exec.pos <= exec.end /\ ~exec.over /\ ~parser.errno /\ ~Wrong
      /\ parser.state = "value" /\ token \notin {CR, LF}
      /\ exec' = Ahead /\ UNCHANGED <<wire, header, req, conn>>
  BY DEF Value, At, Reading, Calling
<1>2. exec.mark = "value"
  BY <1>1 DEF TextInv, Marking
<1>3. /\ exec' \in [pos : Nat \ {0}, end : Nat, mark : Mark, from : Nat \ {0},
                    start : Nat, over : BOOLEAN]
      /\ exec'.pos = exec.pos + 1 /\ exec'.end = exec.end /\ ~exec'.over
      /\ exec'.mark = "value" /\ exec'.from = exec.from
  BY <1>1, <1>2 DEF Ahead, TextInv, TextTypes, Mark
<1>4. /\ DOMAIN parser' = DOMAIN parser /\ parser'.errno = parser.errno /\ parser'.upgrade = parser.upgrade
      /\ parser'.left = IF parser.kind = "number" /\ token # SP
                        THEN 10 * parser.left + Number[token] ELSE parser.left
      /\ parser'.kind = "number" => parser.kind = "number"
      /\ parser'.state = "value"
  BY <1>1 DEF Value, TextInv, TextTypes
<1>5. /\ parser'.left \in Int /\ parser'.left >= NoLength
      /\ parser'.kind = "number" => parser'.left >= 0
  <2>1. /\ parser.left \in Int /\ parser.left >= -1
        /\ parser.kind = "number" => parser.left >= 0
    BY DEF TextInv, TextTypes, Counting, NoLength
  <2>2. parser.kind = "number" /\ token # SP => Number[token] \in Nat
    <3>1. parser.kind = "number" /\ token # SP => token \in Hex
      BY <1>1 DEF Wrong
    <3> QED BY <3>1, NumberType
  <2> QED BY <1>4, <2>1, <2>2 DEF NoLength
<1>6. GathersValue
  BY <1>1, <1>2, <1>3, <1>4, <1>5 DEF GathersValue, Gathers
<1> QED BY <1>1, <1>6, ValueTaken

-----------------------------------------------------------------------------
(* A body.  What there is of it in this call is taken at once.             *)
LEMMA PortionIs ==
  ASSUME TextInv, exec.pos <= exec.end, parser.left > 0
  PROVE  /\ Portion \in 1..parser.left
         /\ exec.pos + Portion <= exec.end + 1
         /\ Portion < parser.left => exec.pos + Portion = exec.end + 1
<1> DEFINE rest == exec.end - exec.pos + 1
<1>1. rest \in Nat /\ rest >= 1 /\ parser.left \in Nat /\ exec.pos \in Nat /\ exec.end \in Nat
  BY DEF TextInv, TextTypes
<1>2. Portion = Min({parser.left, rest})
  BY DEF Portion
<1> HIDE DEF rest
<1>3. Portion \in {parser.left, rest} /\ Portion <= parser.left /\ Portion <= rest
  BY <1>1, <1>2, MinOf
<1>4. Portion \in 1..parser.left /\ (Portion < parser.left => Portion = rest)
  BY <1>1, <1>3
<1> QED BY <1>1, <1>3, <1>4 DEF rest

LEMMA StretchType ==
  ASSUME TextInv, NEW n \in Nat, n >= 1, exec.pos + n <= exec.end + 1
  PROVE  SubSeq(wire, exec.pos, exec.pos + n - 1) \in Tokens
<1>1. /\ exec.pos \in Int /\ exec.pos >= 1 /\ exec.pos + n - 1 \in Int
      /\ exec.pos + n - 1 <= Len(wire) /\ wire \in Seq(Token)
  BY SMTT(30) DEF TextInv, TextTypes, Bounded, Tokens
<1>2. \A i \in exec.pos..(exec.pos + n - 1) : wire[i] \in Token
  BY <1>1, ElementOfSeq
<1> QED BY <1>1, <1>2, SubSeqProperties DEF Tokens

(* The step of the code: it takes n tokens, into the request or behind the *)
(* mark.                                                                   *)
Takes(n) ==
  /\ conn.place = "parsing" /\ UNCHANGED <<wire, header, conn>>
  /\ exec.pos <= exec.end /\ ~exec.over /\ ~parser.errno
  /\ parser.state \in {"body", "chunk_data"} /\ exec.mark = "none"
  /\ n \in 1..parser.left /\ exec.pos + n <= exec.end + 1
  /\ exec' \in [pos : Nat \ {0}, end : Nat, mark : Mark, from : Nat \ {0},
                start : Nat, over : BOOLEAN]
  /\ exec'.end = exec.end /\ ~exec'.over
  /\ DOMAIN parser' = DOMAIN parser /\ parser'.kind = parser.kind
  /\ parser'.errno = parser.errno /\ parser'.upgrade = parser.upgrade
  /\ parser'.left = parser.left - n
  /\ \/ /\ parser'.state \in {"body", "chunk_data"}
        /\ parser'.left > 0 /\ exec'.pos > exec.end
        /\ exec'.mark = "body" /\ exec'.from = exec.pos
        /\ exec'.pos = exec.pos + n /\ req' = req
     \/ /\ parser'.state = "chunk_data_almost_done" /\ parser'.left = 0
        /\ exec'.mark = "body" /\ exec'.from = exec.pos
        /\ exec'.pos = exec.pos + n /\ req' = req
     \/ /\ parser'.state = "message_done" /\ parser'.left = 0
        /\ exec'.mark = "none" /\ exec'.from = exec.from
        /\ exec'.pos = exec.pos + n - 1
        /\ req' = [req EXCEPT !.body = @ \o SubSeq(wire, exec.pos, exec.pos + n - 1)]

LEMMA TakesOf ==
  ASSUME TextInv, NEW n, Takes(n)
  PROVE  /\ n \in Nat /\ n >= 1 /\ exec.pos \in Nat /\ parser.left \in Nat
         /\ parser'.left = parser.left - n
         /\ parser'.left \in Int /\ parser'.left >= 0
<1>1. parser.left \in Int /\ exec.pos \in Nat
  BY DEF TextInv, TextTypes
<1>2. n \in 1..parser.left /\ parser'.left = parser.left - n
  BY DEF Takes
<1> QED BY <1>1, <1>2

LEMMA TakenBody ==
  ASSUME TextInv, NEW n, Takes(n)
  PROVE  LET s == SubSeq(wire, exec.pos, exec.pos + n - 1)
         IN /\ s \in Seq(Token) /\ req.body \in Seq(Token) /\ req.body \o <<>> = req.body
            /\ req.body \o s \in Seq(Token) /\ (req.body \o s) \o <<>> = req.body \o s
            /\ req' = req \/ req' = [req EXCEPT !.body = req.body \o s]
<1> DEFINE s == SubSeq(wire, exec.pos, exec.pos + n - 1)
<1>1. n \in Nat /\ n >= 1 /\ exec.pos + n <= exec.end + 1
  BY TakesOf DEF Takes
<1>2. s \in Seq(Token) /\ req.body \in Seq(Token)
  BY <1>1, StretchType DEF Tokens, TextInv, TextTypes
<1>3. req' = req \/ req' = [req EXCEPT !.body = req.body \o s]
  BY DEF Takes
<1> HIDE DEF s
<1>4. req.body \o s \in Seq(Token)
  BY <1>2, ConcatProperties
<1>5. req.body \o <<>> = req.body /\ (req.body \o s) \o <<>> = req.body \o s
  BY <1>2, <1>4, ConcatEmptySeq
<1> QED BY <1>2, <1>3, <1>4, <1>5, ZenonT(60) DEF s

LEMMA TakenRequest ==
  ASSUME TextInv, NEW n, Takes(n)
  PROVE  /\ {"raw", "url", "headers", "body", "close", "upgrade"} = DOMAIN req'
         /\ req'.raw = req.raw /\ req'.headers = req.headers
         /\ req'.raw \in Tokens /\ req'.body \in Tokens
<1> DEFINE b == req.body \o SubSeq(wire, exec.pos, exec.pos + n - 1)
<1>1. b \in Tokens /\ (req' = req \/ req' = [req EXCEPT !.body = b])
  BY TakenBody DEF Tokens
<1> HIDE DEF b
<1> QED BY <1>1 DEF TextInv, TextTypes

LEMMA TakesKeep ==
  ASSUME TextInv, NEW n, Takes(n)
  PROVE  TextInv'
<1> USE DEF TextInv
<1>1. n \in Nat /\ n >= 1 /\ parser'.left >= 0 /\ parser'.left \in Int
      /\ exec.pos \in Nat
  BY TakesOf
<1>2. TextTypes'
  <2>1. /\ wire' = wire /\ header' = header /\ conn' = conn
        /\ exec' \in [pos : Nat \ {0}, end : Nat, mark : Mark, from : Nat \ {0},
                      start : Nat, over : BOOLEAN]
        /\ DOMAIN parser' = DOMAIN parser /\ parser'.upgrade = parser.upgrade
    BY DEF Takes
  <2> QED BY <1>1, <2>1, TakenRequest DEF TextTypes, NoLength
<1>3. /\ exec'.end = exec.end /\ exec'.from \in {exec.pos, exec.from}
      /\ exec'.pos \in {exec.pos + n, exec.pos + n - 1}
      /\ exec'.from = exec.pos => exec'.pos = exec.pos + n \/ exec.from = exec.pos
      /\ wire' = wire /\ exec.pos + n <= exec.end + 1
  BY DEF Takes
<1>4. Bounded'
  BY <1>1, <1>3 DEF Bounded, TextTypes
<1>5. /\ conn.place = "parsing" /\ conn' = conn /\ header' = header /\ ~exec'.over
      /\ parser.state \in {"body", "chunk_data"} /\ parser'.kind = parser.kind
      /\ \/ /\ parser'.state \in {"body", "chunk_data"} /\ parser'.left > 0
            /\ exec'.mark = "body" /\ exec'.pos > exec.end
         \/ parser'.state = "chunk_data_almost_done" /\ exec'.mark = "body"
         \/ parser'.state = "message_done" /\ exec'.mark = "none"
  BY DEF Takes
<1>6. Marking'
  BY <1>3, <1>5 DEF Marking, UrlHead, InUrl, Server
<1>7. Building'
  BY <1>5 DEF Building, BeforeValue, ValueBegun
<1>8. Folding'
  BY <1>5 DEF Folding
<1>9. Counting'
  BY <1>5 DEF Counting
<1>10. Called'
  BY <1>5 DEF Called
<1> QED BY <1>2, <1>4, <1>6, <1>7, <1>8, <1>9, <1>10

LEMMA TakesText ==
  ASSUME TextInv, NEW n, Takes(n)
  PROVE  TextInv' /\ TextMoves
<1> USE DEF Takes
<1> DEFINE s == SubSeq(wire, exec.pos, exec.pos + n - 1)
<1>1. n \in Nat /\ n >= 1 /\ exec.pos \in Nat
  BY TakesOf
<1>2. /\ s \in Seq(Token) /\ req.body \in Seq(Token) /\ req.body \o <<>> = req.body
      /\ req.body \o s \in Seq(Token) /\ (req.body \o s) \o <<>> = req.body \o s
  BY TakenBody
<1>3. TextPos = exec.pos /\ TextPart = "body"
  <2>1. ~parser.errno /\ ~exec.over /\ parser.state # "message_done"
    OBVIOUS
  <2> QED BY <2>1, PartIs, Parts
<1>4. /\ TextPos' = exec.pos + n
      /\ \/ TextPart' = "body" /\ parser'.left > 0
         \/ TextPart' \in {"sizes", "whole"} /\ parser'.left = 0
  <2>1. CASE parser'.state = "message_done"
    <3>1. TextPart' = "whole"
      BY <2>1, Parts DEF TextPart
    <3>2. exec'.pos = exec.pos + n - 1
      BY <2>1
    <3>3. TextPos' = exec'.pos + 1
      BY <3>1 DEF TextPos
    <3> QED BY <1>1, <2>1, <3>1, <3>2, <3>3
  <2>2. CASE parser'.state # "message_done"
    <3>1. ~parser'.errno /\ ~exec'.over
      OBVIOUS
    <3>2. TextPart' = PartOf(parser'.state) /\ TextPos' = exec'.pos
      BY <2>2, <3>1, PartBecomes
    <3> QED BY <2>2, <3>2, Parts
  <2> QED BY <2>1, <2>2
<1>5. TextNow.body = req.body
  <2>1. TextNow.body = req.body \o <<>>
    BY Strings, ZenonT(60) DEF Pending
  <2> QED BY <1>2, <2>1
<1>6. TextNow'.body = req.body \o s
  <2>1. CASE exec'.mark = "body"
    <3>1. exec'.from = exec.pos /\ exec'.pos - 1 = exec.pos + n - 1 /\ req' = req
          /\ wire' = wire
      BY <1>1, <2>1
    <3>2. Data' = SubSeq(wire', exec'.from, exec'.pos - 1)
      BY DEF Data
    <3>3. Data' = s
      BY <3>1, <3>2
    <3>4. TextNow'.body = req'.body \o Data'
      BY <2>1, StringsThen, ZenonT(60) DEF Pending
    <3> QED BY <3>1, <3>3, <3>4, ZenonT(60)
  <2>2. CASE exec'.mark = "none"
    <3>1. TextNow'.body = req'.body \o <<>>
      BY <2>2, StringsThen, ZenonT(60) DEF Pending
    <3>2. req' = [req EXCEPT !.body = req.body \o s]
      BY <2>2
    <3>3. req'.body = req.body \o s
      <4> HIDE DEF s
      <4> QED BY <3>2 DEF TextInv, TextTypes
    <3> QED BY <1>2, <3>1, <3>3, ZenonT(60)
  <2> QED BY <2>1, <2>2
<1>7. /\ TextNow'.raw = TextNow.raw /\ TextNow'.name = TextNow.name
      /\ TextNow'.value = TextNow.value /\ TextNow'.headers = TextNow.headers
  <2>1. exec'.mark \notin {"url", "field", "value"} /\ exec.mark \notin {"url", "field", "value"}
    OBVIOUS
  <2>2. req'.raw = req.raw /\ req'.headers = req.headers
    BY TakenRequest
  <2>3. header' = header
    OBVIOUS
  <2>4. TextNow'.raw = TextNow.raw
    BY <2>1, <2>2, Strings, StringsThen, ZenonT(60) DEF Pending
  <2>5. NewName = FALSE /\ NewName' = FALSE
    BY <2>1 DEF NewName
  <2>6. TextNow'.name = TextNow.name /\ TextNow'.value = TextNow.value
    BY <2>1, <2>3, <2>5, Strings, StringsThen, ZenonT(60) DEF Pending, Name, HeaderValue
  <2>7. TextNow'.headers = TextNow.headers
    BY <2>2, <2>5, Strings, StringsThen, ZenonT(60) DEF Headers
  <2> QED BY <2>4, <2>6, <2>7
<1>8. TextNow' = [TextNow EXCEPT !.body = @ \o SubSeq(wire, TextPos, TextPos + n - 1)]
  <2>1. TextNow'.body = TextNow.body \o SubSeq(wire, TextPos, TextPos + n - 1)
    BY <1>3, <1>5, <1>6
  <2> QED BY <1>7, <2>1, Differs, ZenonT(60) DEF Differ, WithBody
<1>9. Stream!Reads(n)
  <2>1. exec.pos + n - 1 <= Len(wire) /\ wire' = wire
    BY <1>1 DEF TextInv, TextTypes, Bounded, Tokens
  <2> QED BY <1>3, <1>4, <2>1 DEF Stream!Reads
<1>10. Stream!TakeBody
  <2>1. n \in 1..parser.left /\ parser'.left = parser.left - n
    OBVIOUS
  <2> HIDE DEF Stream!Reads, s
  <2>2. \E k \in 1..parser.left :
          /\ Stream!Reads(k)
          /\ parser'.left = parser.left - k
          /\ TextNow' = [TextNow EXCEPT !.body = @ \o SubSeq(wire, TextPos, TextPos + k - 1)]
    BY <1>8, <1>9, <2>1, ZenonT(60)
  <2>3. IF parser'.left = 0 THEN TextPart' \in {"sizes", "whole"} ELSE TextPart' = "body"
    BY <1>4
  <2> QED BY <1>3, <2>2, <2>3, ZenonT(60) DEF Stream!TakeBody
<1> QED BY <1>10, TakesKeep DEF TextMoves, Stream!TextNext

LEMMA BodyText ==
  ASSUME Parsing, Body
  PROVE  TextInv' /\ TextMoves
<1> USE DEF Parsing
<1>1. /\ exec.pos <= exec.end /\ ~exec.over /\ ~parser.errno
      /\ parser.state = "body" /\ UNCHANGED <<wire, header, conn>>
  BY DEF Body, At, Reading, Calling
<1>2. exec.mark = "none" /\ parser.left > 0
  <2>1. exec.mark \in Mark /\ exec.pos \in Nat /\ exec.end \in Nat
    BY DEF TextInv, TextTypes
  <2>2. exec.mark = "none"
    BY <1>1, <2>1 DEF TextInv, Marking, Mark, UrlHead, InUrl, Server
  <2>3. parser.left > 0
    BY <1>1 DEF TextInv, Counting
  <2> QED BY <2>2, <2>3
<1>3. /\ Portion \in 1..parser.left /\ exec.pos + Portion <= exec.end + 1
      /\ Portion < parser.left => exec.pos + Portion = exec.end + 1
  BY <1>1, <1>2, PortionIs
<1> DEFINE n == Portion
           s == SubSeq(wire, exec.pos, exec.pos + Portion - 1)
<1>4. /\ DOMAIN parser' = DOMAIN parser /\ parser'.kind = parser.kind
      /\ parser'.errno = parser.errno /\ parser'.upgrade = parser.upgrade
      /\ parser'.left = IF n < parser.left THEN parser.left - n ELSE 0
      /\ parser'.state = IF n < parser.left THEN "body" ELSE "message_done"
  <2>1. CASE Portion < parser.left
    <3>1. parser' = [parser EXCEPT !.left = parser.left - Portion]
      BY <2>1 DEF Body
    <3> QED BY <1>1, <2>1, <3>1 DEF TextInv, TextTypes
  <2>2. CASE ~(Portion < parser.left)
    <3>1. parser' = [parser EXCEPT !.left = 0, !.state = "message_done"]
      BY <2>2 DEF Body
    <3> QED BY <2>2, <3>1 DEF TextInv, TextTypes
  <2> QED BY <2>1, <2>2
<1>5. /\ exec' = IF n < parser.left THEN [Marked("body") EXCEPT !.pos = exec.pos + n]
                 ELSE [exec EXCEPT !.pos = exec.pos + n - 1]
      /\ req' = IF n < parser.left THEN req ELSE [req EXCEPT !.body = @ \o s]
  BY DEF Body, TextInv, TextTypes
<1> HIDE DEF n
<1>6. n \in Nat /\ n >= 1 /\ n <= parser.left /\ parser.left \in Nat /\ exec.pos \in Nat \ {0}
      /\ "body" \in Mark /\ exec.end \in Nat
  BY <1>3 DEF n, TextInv, TextTypes, Mark
<1>7. exec.pos + n \in Nat \ {0} /\ exec.pos + n - 1 \in Nat \ {0}
  BY <1>6
<1>8. CASE n < parser.left
  <2>1. exec' = [Marked("body") EXCEPT !.pos = exec.pos + n]
    BY <1>5, <1>8
  <2>2. /\ exec' \in [pos : Nat \ {0}, end : Nat, mark : Mark, from : Nat \ {0},
                      start : Nat, over : BOOLEAN]
        /\ exec'.end = exec.end /\ ~exec'.over /\ exec'.mark = "body"
        /\ exec'.from = exec.pos /\ exec'.pos = exec.pos + n
    BY <1>1, <1>6, <1>7, <2>1, MarkedIs
  <2>3. parser'.left > 0 /\ exec'.pos > exec.end /\ parser'.left = parser.left - n
    BY <1>3, <1>4, <1>6, <1>8, <2>2 DEF n
  <2>4. Takes(n)
    BY <1>1, <1>2, <1>3, <1>4, <1>5, <1>8, <2>2, <2>3 DEF Takes, n
  <2> QED BY <2>4, TakesText
<1>9. CASE ~(n < parser.left)
  <2>1. exec' = [exec EXCEPT !.pos = exec.pos + n - 1]
    BY <1>5, <1>9
  <2>2. /\ exec' \in [pos : Nat \ {0}, end : Nat, mark : Mark, from : Nat \ {0},
                      start : Nat, over : BOOLEAN]
        /\ exec'.end = exec.end /\ ~exec'.over /\ exec'.mark = "none"
        /\ exec'.from = exec.from /\ exec'.pos = exec.pos + n - 1
    BY <1>1, <1>2, <1>7, <2>1 DEF TextInv, TextTypes
  <2>3. parser'.left = 0 /\ parser'.left = parser.left - n
    BY <1>4, <1>6, <1>9
  <2>4. req' = [req EXCEPT !.body = @ \o SubSeq(wire, exec.pos, exec.pos + n - 1)]
    BY <1>5, <1>9 DEF n
  <2>5. Takes(n)
    BY <1>1, <1>2, <1>3, <1>4, <1>9, <2>2, <2>3, <2>4 DEF Takes, n
  <2> QED BY <2>5, TakesText
<1> QED BY <1>8, <1>9

LEMMA ChunkDataText ==
  ASSUME Parsing, ChunkData
  PROVE  TextInv' /\ TextMoves
<1> USE DEF Parsing
<1>1. /\ exec.pos <= exec.end /\ ~exec.over /\ ~parser.errno
      /\ parser.state = "chunk_data" /\ UNCHANGED <<wire, header, req, conn>>
  BY DEF ChunkData, At, Reading, Calling
<1>2. exec.mark = "none" /\ parser.left > 0
  <2>1. exec.mark \in Mark /\ exec.pos \in Nat /\ exec.end \in Nat
    BY DEF TextInv, TextTypes
  <2>2. exec.mark = "none"
    BY <1>1, <2>1 DEF TextInv, Marking, Mark, UrlHead, InUrl, Server
  <2>3. parser.left > 0
    BY <1>1 DEF TextInv, Counting
  <2> QED BY <2>2, <2>3
<1>3. /\ Portion \in 1..parser.left /\ exec.pos + Portion <= exec.end + 1
      /\ Portion < parser.left => exec.pos + Portion = exec.end + 1
  BY <1>1, <1>2, PortionIs
<1> DEFINE n == Portion
<1>4. /\ DOMAIN parser' = DOMAIN parser /\ parser'.kind = parser.kind
      /\ parser'.errno = parser.errno /\ parser'.upgrade = parser.upgrade
      /\ parser'.left = parser.left - n
      /\ parser'.state = IF n = parser.left THEN "chunk_data_almost_done" ELSE "chunk_data"
  BY <1>1 DEF ChunkData, TextInv, TextTypes
<1>5. exec' = [Marked("body") EXCEPT !.pos = exec.pos + n]
  BY DEF ChunkData
<1> HIDE DEF n
<1>6. n \in Nat /\ n >= 1 /\ n <= parser.left /\ parser.left \in Nat /\ exec.pos \in Nat \ {0}
      /\ "body" \in Mark /\ exec.end \in Nat
  BY <1>3 DEF n, TextInv, TextTypes, Mark
<1>7. exec.pos + n \in Nat \ {0}
  BY <1>6
<1>8. /\ exec' \in [pos : Nat \ {0}, end : Nat, mark : Mark, from : Nat \ {0},
                    start : Nat, over : BOOLEAN]
      /\ exec'.end = exec.end /\ ~exec'.over /\ exec'.mark = "body"
      /\ exec'.from = exec.pos /\ exec'.pos = exec.pos + n
  BY <1>1, <1>5, <1>6, <1>7, MarkedIs
<1>9. \/ /\ parser'.state = "chunk_data" /\ parser'.left > 0 /\ exec'.pos > exec.end
      \/ /\ parser'.state = "chunk_data_almost_done" /\ parser'.left = 0
  BY <1>3, <1>4, <1>6, <1>8 DEF n
<1>10. Takes(n)
  BY <1>1, <1>2, <1>3, <1>4, <1>8, <1>9 DEF Takes, n
<1> QED BY <1>10, TakesText

-----------------------------------------------------------------------------
(* A string, or what there is of it in this call, is handed to a callback: *)
(* the mark is gone, and nothing is lost.                                  *)
HeaderType(h) == h \in [building : {0, 1}, field : Tokens, value : Tokens]
RequestType(r) ==
  /\ {"raw", "url", "headers", "body", "close", "upgrade"} = DOMAIN r
  /\ r.raw \in Tokens /\ r.body \in Tokens

LEMMA UnmarkedIs ==
  ASSUME TextInv
  PROVE  LET E == [pos : Nat \ {0}, end : Nat, mark : Mark, from : Nat \ {0},
                   start : Nat, over : BOOLEAN]
         IN /\ Unmarked(exec) \in E /\ Unmarked(Ahead) \in E
            /\ Unmarked(exec).mark = "none" /\ Unmarked(Ahead).mark = "none"
            /\ Unmarked(exec).end = exec.end /\ Unmarked(Ahead).end = exec.end
            /\ Unmarked(exec).from = exec.from /\ Unmarked(Ahead).from = exec.from
            /\ Unmarked(exec).over = exec.over /\ Unmarked(Ahead).over = exec.over
            /\ Unmarked(exec).pos = exec.pos /\ Unmarked(Ahead).pos = exec.pos + 1
<1>1. /\ Ahead \in [pos : Nat \ {0}, end : Nat, mark : Mark, from : Nat \ {0},
                    start : Nat, over : BOOLEAN]
      /\ exec \in [pos : Nat \ {0}, end : Nat, mark : Mark, from : Nat \ {0},
                   start : Nat, over : BOOLEAN]
      /\ "none" \in Mark
  BY DEF Ahead, TextInv, TextTypes, Mark
<1> QED BY <1>1, Onwards DEF Unmarked

Flushes ==
  /\ conn.place = "parsing" /\ conn'.place = "parsing" /\ DOMAIN conn' = DOMAIN conn
  /\ wire' = wire /\ ~exec.over
  /\ \/ exec' = Unmarked(exec)
     \/ exec' = Unmarked(Ahead) /\ exec.pos <= exec.end
  /\ DOMAIN parser' = DOMAIN parser
  /\ parser'.left = parser.left /\ parser'.upgrade = parser.upgrade
  /\ HeaderType(header') /\ RequestType(req')
  /\ exec'.pos > exec.end \/ parser'.state \notin ReadingString

LEMMA FlushesKeep ==
  ASSUME TextInv, Flushes
  PROVE  TextTypes' /\ Bounded' /\ Marking' /\ Called'
<1>1. /\ exec' \in [pos : Nat \ {0}, end : Nat, mark : Mark, from : Nat \ {0},
                    start : Nat, over : BOOLEAN]
      /\ exec'.mark = "none" /\ exec'.end = exec.end /\ exec'.from = exec.from
      /\ ~exec'.over
      /\ \/ exec'.pos = exec.pos
         \/ exec'.pos = exec.pos + 1 /\ exec.pos <= exec.end
  BY UnmarkedIs DEF Flushes
<1>2. /\ conn.place = "parsing" /\ conn'.place = "parsing" /\ DOMAIN conn' = DOMAIN conn
      /\ wire' = wire /\ DOMAIN parser' = DOMAIN parser
      /\ parser'.left = parser.left /\ parser'.upgrade = parser.upgrade
      /\ exec'.pos > exec.end \/ parser'.state \notin ReadingString
  BY DEF Flushes
<1>3. TextTypes'
  <2>1. HeaderType(header') /\ RequestType(req')
    BY DEF Flushes
  <2> QED BY <1>1, <1>2, <2>1 DEF TextTypes, TextInv, HeaderType, RequestType
<1>4. Bounded'
  BY <1>1, <1>2 DEF TextInv, TextTypes, Bounded
<1>5. Marking'
  <2>1. exec'.pos \in Int /\ exec'.end \in Int
    BY <1>1
  <2> QED BY <1>1, <1>2, <2>1 DEF Marking, ReadingString
<1>6. Called'
  BY <1>1, <1>2 DEF Called
<1> QED BY <1>3, <1>4, <1>5, <1>6

(* The URL. *)
LEMMA UrlEndingIs ==
  ASSUME TextInv, UrlEnding
  PROVE  /\ exec.mark = "url" /\ parser.state \in UrlHead \cup InUrl
         /\ ~exec.over /\ ~parser.errno
         /\ ~AtEnd => /\ exec.pos <= exec.end /\ token \in {SP, CR, LF}
                      /\ parser.state \in InUrl
         /\ AtEnd => exec.pos > exec.end
         /\ header.building = 0 /\ parser.kind # "number"
         /\ TextPart = "url" /\ TextPos = exec.pos
         /\ RawSoFar \in Tokens
<1>1. exec.mark = "url" /\ parser.state \in UrlHead \cup InUrl
  BY DEF UrlEnding, TextInv, Marking
<1>2. /\ ~exec.over /\ ~parser.errno
      /\ ~AtEnd => /\ exec.pos <= exec.end /\ token \in {SP, CR, LF}
                   /\ parser.state \in InUrl
      /\ AtEnd => exec.pos > exec.end
  BY DEF UrlEnding, AtEnd, At, Reading, Calling
<1>3. header.building = 0 /\ parser.kind # "number"
  <2>1. parser.state \notin {"field", "value", "header_almost_done", "value_lws"} \cup BeforeValue
    BY <1>1 DEF UrlHead, InUrl, Server, BeforeValue
  <2> QED BY <2>1 DEF TextInv, TextTypes, Building, Counting
<1>4. TextPart = "url" /\ TextPos = exec.pos
  <2>1. parser.state # "message_done"
    BY <1>1 DEF UrlHead, InUrl, Server
  <2> QED BY <1>1, <1>2, <2>1, PartIs, Parts
<1>5. RawSoFar \in Tokens
  <2>1. Data \in Seq(Token) /\ req.raw \in Seq(Token)
    BY DataType DEF TextInv, TextTypes, Tokens
  <2> QED BY <2>1, ConcatProperties DEF RawSoFar, Tokens
<1> QED BY <1>1, <1>2, <1>3, <1>4, <1>5

LEMMA UrlEndsKeep ==
  ASSUME TextInv, UrlEnds(TRUE) \/ UrlEnds(FALSE),
         conn.place = "parsing", conn'.place = "parsing", DOMAIN conn' = DOMAIN conn
  PROVE  TextInv'
<1>1. UrlEnding
  BY DEF UrlEnds
<1>2. /\ wire' = wire
      /\ \/ AtEnd /\ exec' = Unmarked(exec) /\ exec.pos > exec.end /\ parser' = parser
            /\ header' = header /\ req' = [req EXCEPT !.raw = RawSoFar, !.url = PathOf(RawSoFar)]
         \/ /\ exec.pos <= exec.end /\ exec' = Unmarked(Ahead)
            /\ DOMAIN parser' = DOMAIN parser /\ parser'.left = parser.left
            /\ parser'.upgrade = parser.upgrade /\ parser'.kind = parser.kind
            /\ parser'.state \in {"http_start", "line_almost_done", "field_start"}
            /\ header' = header /\ req' = [req EXCEPT !.raw = RawSoFar, !.url = PathOf(RawSoFar)]
         \/ /\ exec' = Unmarked(exec) \/ (exec.pos <= exec.end /\ exec' = Unmarked(Ahead))
            /\ DOMAIN parser' = DOMAIN parser /\ parser'.left = parser.left
            /\ parser'.upgrade = parser.upgrade /\ parser'.kind = parser.kind
            /\ parser'.state = "start"
            /\ header' = NewHeader /\ req' = NewRequest
  <2>1. CASE UrlEnds(FALSE)
    <3>1. parser' = [parser EXCEPT !.state = "start", !.qs = 0, !.errno = TRUE]
          /\ header' = NewHeader /\ req' = NewRequest /\ wire' = wire
          /\ exec' = Unmarked(IF AtEnd THEN exec ELSE Ahead)
      BY <2>1 DEF UrlEnds
    <3>2. exec' = Unmarked(exec) \/ (exec.pos <= exec.end /\ exec' = Unmarked(Ahead))
      BY <1>1, <3>1, UrlEndingIs
    <3> QED BY <3>1, <3>2 DEF TextInv, TextTypes
  <2>2. CASE UrlEnds(TRUE)
    <3>1. /\ header' = header /\ wire' = wire
          /\ req' = [req EXCEPT !.raw = RawSoFar, !.url = PathOf(RawSoFar)]
          /\ exec' = Unmarked(IF AtEnd THEN exec ELSE Ahead)
      BY <2>2 DEF UrlEnds
    <3>2. CASE AtEnd
      <4>1. parser' = parser
        BY <2>2, <3>2 DEF UrlEnds
      <4> QED BY <1>1, <3>1, <3>2, <4>1, UrlEndingIs
    <3>3. CASE ~AtEnd
      <4>1. exec.pos <= exec.end /\ exec' = Unmarked(Ahead)
        BY <1>1, <3>1, <3>3, UrlEndingIs
      <4>2. \/ parser' = [parser EXCEPT !.state = "http_start"]
            \/ parser' = [parser EXCEPT !.version = "HTTP/0.9", !.state = "line_almost_done"]
            \/ parser' = [parser EXCEPT !.version = "HTTP/0.9", !.state = "field_start"]
        BY <2>2, <3>3 DEF UrlEnds
      <4> QED BY <3>1, <4>1, <4>2, ZenonT(60) DEF TextInv, TextTypes
    <3> QED BY <3>2, <3>3
  <2> QED BY <2>1, <2>2
<1>3. HeaderType(header') /\ RequestType(req')
  <2>1. HeaderType(header) /\ HeaderType(NewHeader)
    BY DEF HeaderType, TextInv, TextTypes, NewHeader, Tokens
  <2>2. RequestType(NewRequest)
    BY DEF RequestType, NewRequest, Tokens
  <2>3. RequestType([req EXCEPT !.raw = RawSoFar, !.url = PathOf(RawSoFar)])
    <3>1. RawSoFar \in Tokens
      BY <1>1, UrlEndingIs
    <3> QED BY <3>1 DEF RequestType, TextInv, TextTypes
  <2> QED BY <1>2, <2>1, <2>2, <2>3
<1>4. Flushes
  <2>1. exec'.pos > exec.end \/ parser'.state \notin ReadingString
    BY <1>2, UnmarkedIs DEF ReadingString, UrlHead, InUrl, Server
  <2> QED BY <1>1, <1>2, <1>3, <2>1, UrlEndingIs DEF Flushes
<1>5. parser.state \in UrlHead \cup InUrl /\ header.building = 0 /\ parser.kind # "number"
  BY <1>1, UrlEndingIs
<1>6. Building' /\ Folding' /\ Counting'
  <2>1. header'.building = 0
    BY <1>2, <1>5 DEF NewHeader
  <2>2. parser'.state \in UrlHead \cup InUrl \cup {"http_start", "line_almost_done", "field_start", "start"}
    BY <1>2, <1>5
  <2>3. parser'.kind # "number"
    BY <1>2, <1>5
  <2> QED BY <2>1, <2>2, <2>3
          DEF Building, Folding, Counting, BeforeValue, ValueBegun, UrlHead, InUrl, Server
<1> QED BY <1>4, <1>6, FlushesKeep DEF TextInv

LEMMA HandleUrlText ==
  ASSUME TextInv, HandleUrl
  PROVE  TextInv' /\ TextMoves
<1> DEFINE found == HandleInitial(parser.method, PathOf(RawSoFar))
<1>1. /\ UrlEnding /\ UrlEnds(found.code = "none") /\ conn.place = "parsing"
      /\ conn' = [conn EXCEPT !.route = found]
  BY DEF HandleUrl
<1> HIDE DEF found
<1>2. conn'.place = "parsing" /\ DOMAIN conn' = DOMAIN conn
  BY <1>1 DEF TextInv, TextTypes
<1>3. UrlEnds(TRUE) \/ UrlEnds(FALSE)
  <2>1. (found.code = "none") \in BOOLEAN
    OBVIOUS
  <2> QED BY <1>1, <2>1
<1>4. TextInv'
  BY <1>1, <1>2, <1>3, UrlEndsKeep
<1>5. exec'.mark = "none" /\ wire' = wire /\ ~exec'.over
  BY <1>1, <1>3, UnmarkedIs, UrlEndingIs DEF UrlEnds
<1>6. CASE UrlEnds(TRUE)
  <2>1. /\ header' = header /\ req'.raw = RawSoFar
        /\ req'.headers = req.headers /\ req'.body = req.body
    BY <1>6 DEF UrlEnds, TextInv, TextTypes
  <2>2. /\ TextNow'.name = TextNow.name /\ TextNow'.value = TextNow.value
        /\ TextNow'.headers = TextNow.headers /\ TextNow'.body = TextNow.body
    <3>1. exec.mark \notin {"body", "field", "value"}
      BY <1>1, UrlEndingIs
    <3>2. NewName = FALSE /\ NewName' = FALSE
      BY <1>5, <3>1 DEF NewName
    <3> QED BY <1>5, <2>1, <3>1, <3>2, Strings, StringsThen, ZenonT(60)
            DEF Pending, Name, HeaderValue, Headers
  <2>3. TextNow'.raw = TextNow.raw
    <3>1. TextNow.raw = RawSoFar
      BY <1>1, UrlEndingIs, Strings, ZenonT(60) DEF RawSoFar, Pending
    <3>2. TextNow'.raw = RawSoFar \o <<>>
      BY <1>5, <2>1, StringsThen, ZenonT(60) DEF Pending
    <3>3. RawSoFar \in Seq(Token)
      BY <1>1, UrlEndingIs DEF Tokens
    <3> QED BY <3>1, <3>2, <3>3, ConcatEmptySeq
  <2>4. TextNow' = TextNow
    BY <2>2, <2>3, Unchanged
  <2>5. CASE AtEnd
    <3>1. parser' = parser /\ exec'.pos = exec.pos
      BY <1>6, <2>5, UnmarkedIs DEF UrlEnds
    <3>2. ~parser.errno /\ ~exec.over /\ parser.state # "message_done"
      BY <1>1, UrlEndingIs DEF UrlHead, InUrl, Server
    <3>3. TextPart' = TextPart /\ TextPos' = TextPos
      BY <1>5, <3>1, <3>2, PartIs, PartBecomes
    <3> QED BY <1>4, <1>5, <2>4, <3>1, <3>3 DEF TextMoves, TextView
  <2>6. CASE ~AtEnd
    <3>1. /\ parser'.errno = parser.errno /\ parser'.left = parser.left
          /\ parser'.state \in {"http_start", "line_almost_done", "field_start"}
          /\ exec'.pos = exec.pos + 1
      <4>1. \/ parser' = [parser EXCEPT !.state = "http_start"]
            \/ parser' = [parser EXCEPT !.version = "HTTP/0.9", !.state = "line_almost_done"]
            \/ parser' = [parser EXCEPT !.version = "HTTP/0.9", !.state = "field_start"]
        BY <1>6, <2>6 DEF UrlEnds
      <4>2. exec' = Unmarked(Ahead)
        BY <1>6, <2>6 DEF UrlEnds
      <4> QED BY <4>1, <4>2, UnmarkedIs, ZenonT(60) DEF TextInv, TextTypes
    <3>2. TextPart' \in {"version", "lines"} /\ TextPos' = exec.pos + 1
      <4>1. ~parser'.errno /\ ~exec'.over /\ parser'.state # "message_done"
        BY <1>1, <1>5, <3>1, UrlEndingIs
      <4> QED BY <3>1, <4>1, PartBecomes, Parts
    <3>3. /\ TextPart = "url" /\ TextPos = exec.pos /\ token \in {SP, CR, LF}
          /\ exec.pos <= exec.end
      BY <1>1, <2>6, UrlEndingIs
    <3>4. Stream!Reads(1) /\ Stream!Coming = token
      <4>1. exec.pos + 1 - 1 <= Len(wire)
        BY <3>3 DEF TextInv, TextTypes, Bounded, Tokens
      <4> QED BY <1>5, <3>2, <3>3, <4>1 DEF Stream!Reads, Stream!Coming, token
    <3>5. <<"url", "version">> \in Stream!Leads /\ <<"url", "lines">> \in Stream!Leads
      BY DEF Stream!Leads
    <3>6. Stream!Separates
      BY <3>3, <3>4 DEF Stream!Separates, Stream!Break, SP, CR, LF
    <3> HIDE DEF Stream!Reads, Stream!Separates, Stream!Leads
    <3>7. Stream!Pass
      BY <2>4, <3>1, <3>2, <3>3, <3>4, <3>5, <3>6 DEF Stream!Pass
    <3> QED BY <1>4, <3>7 DEF TextMoves, Stream!TextNext
  <2> QED BY <2>5, <2>6
<1>7. CASE UrlEnds(FALSE)
  <2>1. /\ parser'.errno /\ parser'.left = parser.left
        /\ header' = NewHeader /\ req' = NewRequest
        /\ exec'.pos \in {exec.pos, exec.pos + 1}
    BY <1>7, UnmarkedIs DEF UrlEnds, TextInv, TextTypes
  <2>2. TextPart' = "refused"
    BY <2>1 DEF TextPart
  <2>3. TextPos' = exec'.pos
    BY <2>2 DEF TextPos
  <2>4. TextNow' = Stream!NoText
    <3>1. TextNow' = [raw |-> NewRequest.raw \o <<>>, name |-> NewHeader.field \o <<>>,
                      value |-> NewHeader.value \o <<>>, headers |-> NewRequest.headers,
                      body |-> NewRequest.body \o <<>>]
      BY <1>5, <2>1, UnheldThen, ZenonT(60)
    <3>2. /\ NewRequest.raw \o <<>> = <<>> /\ NewHeader.field \o <<>> = <<>>
          /\ NewHeader.value \o <<>> = <<>> /\ NewRequest.headers = <<>>
          /\ NewRequest.body \o <<>> = <<>>
      BY DEF NewRequest, NewHeader
    <3> QED BY <3>1, <3>2, ZenonT(60) DEF Stream!NoText
  <2>5. TextPart = "url" /\ TextPos = exec.pos
    BY <1>1, UrlEndingIs
  <2>6. Stream!Refuse
    BY <1>5, <2>1, <2>2, <2>3, <2>4, <2>5 DEF Stream!Refuse
  <2> QED BY <1>4, <2>6 DEF TextMoves, Stream!TextNext
<1> QED BY <1>3, <1>6, <1>7

(* A name.                                                                 *)
LEMMA FieldEndsText ==
  ASSUME Parsing, FieldEnds
  PROVE  TextInv' /\ TextMoves
<1> USE DEF Parsing
<1>1. /\ exec.mark = "field" /\ parser.state = "field" /\ wire' = wire
      /\ ~exec.over /\ ~parser.errno /\ conn.place = "parsing"
      /\ \/ AtEnd /\ exec.pos > exec.end /\ exec' = Unmarked(exec) /\ parser' = parser
         \/ /\ exec.pos <= exec.end /\ token = ":" /\ exec' = Unmarked(Ahead)
            /\ parser' = [parser EXCEPT !.state = "discard_ws",
                            !.kind = KindOfField(parser.seen), !.seen = <<>>]
  BY DEF FieldEnds, AtEnd, At, Reading, Calling, TextInv, Marking
<1>2. \/ exec.pos > exec.end /\ exec' = Unmarked(exec) /\ parser' = parser
      \/ /\ exec.pos <= exec.end /\ token = ":" /\ exec' = Unmarked(Ahead)
         /\ DOMAIN parser' = DOMAIN parser /\ parser'.state = "discard_ws"
         /\ parser'.kind \in {"connection", "length", "encoding", "upgrade", "general"}
         /\ parser'.left = parser.left /\ parser'.errno = parser.errno
         /\ parser'.upgrade = parser.upgrade
  BY <1>1, ZenonT(60) DEF TextInv, TextTypes, KindOfField
<1>3. parser.kind # "number"
  BY <1>1 DEF TextInv, Counting
<1>4. Data \in Tokens /\ header.field \in Tokens /\ header.field \o Data \in Tokens
      /\ <<>> \in Tokens
  <2>1. Data \in Seq(Token) /\ header.field \in Seq(Token)
    BY DataType DEF TextInv, TextTypes, Tokens
  <2> QED BY <2>1, ConcatProperties, EmptySeq DEF Tokens
<1>5. \/ /\ header.building = 0
         /\ header' = [building |-> 1, field |-> Data, value |-> <<>>]
         /\ req' = IF header.value # <<>> THEN Filed ELSE req
      \/ /\ header.building = 1 /\ header.value = <<>>
         /\ header' = [header EXCEPT !.field = header.field \o Data] /\ req' = req
  BY <1>1 DEF FieldEnds, OnHeaderField, TextInv, TextTypes, Building
<1> DEFINE whole == header.field \o Data
           first == Data
<1>6. HeaderType(header') /\ header'.building = 1 /\ header'.value = <<>>
  <2>1. whole \in Tokens /\ first \in Tokens /\ <<>> \in Tokens
    BY <1>4
  <2>2. \/ header' = [building |-> 1, field |-> first, value |-> <<>>]
        \/ header.value = <<>> /\ header.building = 1 /\ header' = [header EXCEPT !.field = whole]
    BY <1>5
  <2> HIDE DEF whole, first
  <2> QED BY <2>1, <2>2 DEF HeaderType, TextInv, TextTypes
<1>7. RequestType(req') /\ req'.raw = req.raw /\ req'.body = req.body
  <2>1. req' = Filed \/ req' = req
    BY <1>5
  <2> QED BY <2>1 DEF Filed, RequestType, TextInv, TextTypes
<1>8. Flushes
  <2>1. exec'.pos > exec.end \/ parser'.state \notin ReadingString
    BY <1>2, UnmarkedIs DEF ReadingString, UrlHead, InUrl, Server
  <2> QED BY <1>1, <1>2, <1>6, <1>7, <2>1 DEF Flushes
<1>9. TextInv'
  <2>1. parser'.state \in {"field", "discard_ws"} /\ parser'.kind # "number"
    BY <1>1, <1>2, <1>3
  <2>2. Building' /\ Folding' /\ Counting'
    BY <1>6, <2>1 DEF Building, Folding, Counting, BeforeValue, ValueBegun
  <2> QED BY <1>8, <2>2, FlushesKeep DEF TextInv
<1>10. exec'.mark = "none" /\ ~exec'.over /\ NewName' = FALSE
  BY <1>1, UnmarkedIs DEF NewName
<1>11. TextNow'.raw = TextNow.raw /\ TextNow'.body = TextNow.body
  <2>1. exec.mark \notin {"url", "body"}
    BY <1>1
  <2> QED BY <1>7, <1>10, <2>1, Strings, StringsThen, ZenonT(60) DEF Pending
<1>12. TextNow'.value = TextNow.value
  <2>1. TextNow.value = <<>>
    <3>1. CASE header.building = 0
      BY <1>1, <3>1, Strings, ZenonT(60) DEF HeaderValue, NewName
    <3>2. CASE header.building = 1
      <4>1. ~NewName /\ header.value = <<>>
        BY <1>5, <3>2 DEF NewName
      <4>2. TextNow.value = header.value \o <<>>
        BY <1>1, <4>1, Strings, ZenonT(60) DEF HeaderValue, Pending
      <4> QED BY <4>1, <4>2, EmptySeq
    <3> QED BY <1>5, <3>1, <3>2
  <2>2. TextNow'.value = header'.value \o <<>>
    BY <1>10, StringsThen, ZenonT(60) DEF HeaderValue, Pending
  <2> QED BY <1>6, <2>1, <2>2, EmptySeq
<1>13. TextNow'.name = TextNow.name
  <2>1. TextNow'.name = header'.field \o <<>>
    BY <1>10, StringsThen, ZenonT(60) DEF Name, Pending
  <2>2. CASE header.building = 0
    <3>1. TextNow.name = Data
      BY <1>1, <2>2, Strings, ZenonT(60) DEF Name, NewName
    <3>2. header'.field = first
      <4>1. header' = [building |-> 1, field |-> first, value |-> <<>>]
        BY <1>5, <2>2
      <4> HIDE DEF first
      <4> QED BY <4>1
    <3>3. Data \o <<>> = Data
      BY <1>4, ConcatEmptySeq DEF Tokens
    <3> QED BY <2>1, <3>1, <3>2, <3>3
  <2>3. CASE header.building = 1
    <3>1. NewName = FALSE
      BY <2>3 DEF NewName
    <3>2. TextNow.name = whole
      BY <1>1, <3>1, Strings, ZenonT(60) DEF Name, Pending
    <3>3. header'.field = whole
      <4>1. header' = [header EXCEPT !.field = whole]
        BY <1>5, <2>3
      <4> HIDE DEF whole
      <4> QED BY <4>1 DEF TextInv, TextTypes
    <3>4. whole \o <<>> = whole
      BY <1>4, ConcatEmptySeq DEF Tokens
    <3> QED BY <2>1, <3>2, <3>3, <3>4, ZenonT(60)
  <2> QED BY <1>5, <2>2, <2>3
<1>14. TextNow'.headers = TextNow.headers
  <2>1. TextNow'.headers = req'.headers
    BY <1>10, StringsThen, ZenonT(60) DEF Headers
  <2>2. TextNow.headers = req'.headers
    <3>1. CASE header.building = 0
      <4>1. req' = IF header.value # <<>> THEN Filed ELSE req
        BY <1>5, <3>1
      <4>2. TextNow.headers = IF header.value # <<>> THEN Filed.headers ELSE req.headers
        BY <1>1, <3>1, Strings, ZenonT(60) DEF Headers, NewName
      <4> QED BY <4>1, <4>2
    <3>2. CASE header.building = 1
      <4>1. req' = req /\ NewName = FALSE
        BY <1>5, <3>2 DEF NewName
      <4> QED BY <4>1, Strings, ZenonT(60) DEF Headers
    <3> QED BY <1>5, <3>1, <3>2
  <2> QED BY <2>1, <2>2
<1>15. TextNow' = TextNow
  BY <1>11, <1>12, <1>13, <1>14, Unchanged
<1>16. TextPart = "name" /\ TextPos = exec.pos
  BY <1>1, PartIs, Parts
<1>17. CASE exec.pos > exec.end /\ exec' = Unmarked(exec) /\ parser' = parser
  <2>1. TextPart' = TextPart /\ TextPos' = TextPos
    BY <1>1, <1>10, <1>16, <1>17, PartIs, PartBecomes, UnmarkedIs
  <2> QED BY <1>1, <1>9, <1>15, <1>17, <2>1 DEF TextMoves, TextView
<1>18. CASE exec.pos <= exec.end /\ token = ":" /\ exec' = Unmarked(Ahead)
  <2>1. parser'.state = "discard_ws" /\ ~parser'.errno /\ parser'.left = parser.left
    BY <1>1, <1>2, <1>18 DEF TextInv, TextTypes
  <2>2. TextPart' = "value" /\ TextPos' = exec.pos + 1
    BY <1>10, <1>18, <2>1, PartBecomes, Parts, UnmarkedIs DEF BeforeValue
  <2>3. Stream!Reads(1) /\ Stream!Coming = ":"
    <3>1. exec.pos + 1 - 1 <= Len(wire)
      BY <1>18 DEF TextInv, TextTypes, Bounded, Tokens
    <3> QED BY <1>1, <1>16, <1>18, <2>2, <3>1 DEF Stream!Reads, Stream!Coming, token
  <2>4. Stream!Separates /\ <<"name", "value">> \in Stream!Leads
    BY <1>16, <2>3 DEF Stream!Separates, Stream!Leads
  <2> HIDE DEF Stream!Reads, Stream!Separates, Stream!Leads
  <2>5. Stream!Pass
    BY <1>15, <1>16, <2>1, <2>2, <2>3, <2>4 DEF Stream!Pass
  <2> QED BY <1>9, <2>5 DEF TextMoves, Stream!TextNext
<1> QED BY <1>2, <1>17, <1>18

(* A value.                                                                *)
LEMMA ValueFlushed ==
  ASSUME TextInv, OnHeaderValue(Data), exec.mark = "value", parser.state = "value"
  PROVE  /\ HeaderType(header') /\ header'.building = 0 /\ req' = req
         /\ header'.value = TextNow.value /\ header'.field = header.field
         /\ header'.value # <<>> /\ header'.value \in Seq(Token)
<1>1. Data \in Seq(Token) /\ header.value \in Seq(Token)
  BY DataType DEF TextInv, TextTypes, Tokens
<1>2. /\ header.building \in {0, 1}
      /\ header.building = 1 => header.value = <<>>
  BY DEF TextInv, TextTypes, Building
<1> DEFINE w == IF header.building = 0 THEN header.value \o Data ELSE Data
<1>3. w \in Seq(Token)
  BY <1>1, ConcatProperties
<1>4. TextNow.value = w
  <2>1. NewName = FALSE
    BY DEF NewName
  <2>2. CASE header.building = 1
    <3>1. TextNow.value = Data
      BY <2>1, <2>2, Strings, ZenonT(60) DEF HeaderValue
    <3> QED BY <2>2, <3>1
  <2>3. CASE header.building = 0
    <3>1. header.building # 1
      BY <2>3
    <3>2. TextNow.value = header.value \o Data
      BY <2>1, <3>1, Strings, ZenonT(60) DEF HeaderValue, Pending
    <3> QED BY <2>3, <3>2
  <2> QED BY <1>2, <2>2, <2>3
<1>5. w # <<>>
  <2>1. header.value # <<>> \/ (exec.from < exec.pos /\ header.building = 1)
    BY DEF TextInv, Building, ValueBegun
  <2>2. CASE header.value # <<>>
    <3>1. header.building = 0 /\ header.value \o Data # <<>>
      BY <1>1, <1>2, <2>2, ConcatEqualIffEmpty
    <3> QED BY <3>1
  <2>3. CASE exec.from < exec.pos /\ header.building = 1
    BY <2>3, DataSome DEF TextInv
  <2> QED BY <2>1, <2>2, <2>3
<1>6. header' = [header EXCEPT !.building = 0, !.value = w] /\ req' = req
  BY <1>2 DEF OnHeaderValue, TextInv, TextTypes
<1> HIDE DEF w
<1> QED BY <1>3, <1>4, <1>5, <1>6 DEF HeaderType, TextInv, TextTypes, Tokens

LEMMA ValueEndsText ==
  ASSUME Parsing, ValueEnds
  PROVE  TextInv' /\ TextMoves
<1> USE DEF Parsing
<1>1. /\ exec.mark = "value" /\ parser.state = "value" /\ wire' = wire
      /\ ~exec.over /\ ~parser.errno /\ conn.place = "parsing" /\ OnHeaderValue(Data)
      /\ \/ exec.pos > exec.end /\ exec' = Unmarked(exec) /\ parser' = parser
         \/ /\ exec.pos <= exec.end
            /\ \/ token = CR /\ exec' = Unmarked(Ahead)
               \/ token = LF /\ exec' = Unmarked(exec)
            /\ parser' = [parser EXCEPT !.state = "header_almost_done"]
  BY DEF ValueEnds, AtEnd, At, Reading, Calling, TextInv, Marking, CR, LF
<1>2. /\ DOMAIN parser' = DOMAIN parser /\ parser'.kind = parser.kind
      /\ parser'.left = parser.left /\ parser'.errno = parser.errno
      /\ parser'.upgrade = parser.upgrade
      /\ \/ exec.pos > exec.end /\ parser'.state = "value"
         \/ parser'.state = "header_almost_done"
  BY <1>1 DEF TextInv, TextTypes
<1>3. /\ HeaderType(header') /\ header'.building = 0 /\ req' = req
      /\ header'.value = TextNow.value /\ header'.field = header.field
      /\ header'.value # <<>> /\ header'.value \in Seq(Token)
  BY <1>1, ValueFlushed
<1>4. Flushes
  <2>1. exec'.pos > exec.end \/ parser'.state \notin ReadingString
    BY <1>1, <1>2, UnmarkedIs DEF ReadingString, UrlHead, InUrl, Server
  <2>2. RequestType(req')
    BY <1>3 DEF RequestType, TextInv, TextTypes
  <2> QED BY <1>1, <1>2, <1>3, <2>1, <2>2 DEF Flushes
<1>5. TextInv'
  <2>1. parser'.state \in {"value", "header_almost_done"}
    BY <1>2
  <2>2. parser.kind = "number" => parser.left >= 0
    BY DEF TextInv, Counting
  <2>3. Building' /\ Folding' /\ Counting'
    BY <1>2, <1>3, <2>1, <2>2 DEF Building, Folding, Counting, BeforeValue, ValueBegun
  <2> QED BY <1>4, <2>3, FlushesKeep DEF TextInv
<1>6. exec'.mark = "none" /\ ~exec'.over
  BY <1>1, UnmarkedIs
<1>7. TextNow' = TextNow
  <2>1. /\ TextNow'.raw = TextNow.raw /\ TextNow'.name = TextNow.name
        /\ TextNow'.headers = TextNow.headers /\ TextNow'.body = TextNow.body
    <3>1. exec.mark \notin {"url", "body", "field"}
      BY <1>1
    <3>2. NewName = FALSE /\ NewName' = FALSE
      BY <1>6, <3>1 DEF NewName
    <3> QED BY <1>3, <1>6, <3>1, <3>2, Strings, StringsThen, ZenonT(60)
            DEF Pending, Name, Headers
  <2>2. TextNow'.value = header'.value \o <<>>
    <3>1. NewName' = FALSE
      BY <1>6 DEF NewName
    <3> QED BY <1>6, <3>1, StringsThen, ZenonT(60) DEF HeaderValue, Pending
  <2>3. TextNow'.value = TextNow.value
    BY <1>3, <2>2, ConcatEmptySeq
  <2> QED BY <2>1, <2>3, Unchanged
<1>8. /\ TextPart = "value" /\ TextPos = exec.pos
      /\ TextPart' = "value" /\ TextPos' = exec'.pos
  <2>1. ~parser'.errno
    BY <1>1, <1>2
  <2>2. PartOf("value") = "value" /\ PartOf("header_almost_done") = "value"
    BY Parts DEF ValueBegun
  <2> QED BY <1>1, <1>2, <1>6, <2>1, <2>2, PartIs, PartBecomes
<1>9. CASE exec'.pos = exec.pos
  BY <1>1, <1>2, <1>5, <1>7, <1>8, <1>9 DEF TextMoves, TextView
<1>10. CASE exec.pos <= exec.end /\ token = CR /\ exec' = Unmarked(Ahead)
  <2>1. exec'.pos = exec.pos + 1 /\ exec.pos + 1 - 1 <= Len(wire)
    BY <1>10, UnmarkedIs, SMTT(30) DEF TextInv, TextTypes, Bounded, Tokens
  <2>2. Stream!Reads(1) /\ Stream!Coming = token
    BY <1>1, <1>8, <2>1 DEF Stream!Reads, Stream!Coming, token
  <2>3. Stream!TakeValue
    BY <1>7, <1>8, <1>10, <2>2 DEF Stream!TakeValue, Stream!Break, CR
  <2> QED BY <1>5, <2>3 DEF TextMoves, Stream!TextNext
<1> QED BY <1>1, <1>9, <1>10, UnmarkedIs

LEMMA EmptyValueText ==
  ASSUME Parsing, EmptyValue
  PROVE  TextInv' /\ TextMoves
<1> USE DEF Parsing
<1>1. /\ exec.pos <= exec.end /\ ~exec.over /\ ~parser.errno
      /\ parser.state = "discard_lws" /\ token # SP
      /\ conn.place = "parsing" /\ conn' = conn /\ wire' = wire /\ exec' = exec
      /\ OnHeaderValue(<<>>)
  BY DEF EmptyValue, At, Reading, Calling
<1>2. /\ DOMAIN parser' = DOMAIN parser /\ parser'.state = "field_start"
      /\ parser'.kind = "general" /\ parser'.upgrade = parser.upgrade
      /\ parser'.left = parser.left /\ parser'.errno = parser.errno
  BY DEF EmptyValue, TextInv, TextTypes
<1>3. header.building = 1 /\ header.value = <<>>
  BY <1>1 DEF TextInv, Building, BeforeValue
<1>4. exec.mark = "none"
  BY <1>1 DEF TextInv, TextTypes, Marking, Mark, UrlHead, InUrl, Server
<1>5. /\ HeaderType(header') /\ header'.building = 0 /\ header'.value = <<>>
      /\ header'.field = header.field /\ req' = req
  <2>1. header' = [header EXCEPT !.building = 0, !.value = <<>>] /\ req' = req
    BY <1>1, <1>3 DEF OnHeaderValue
  <2>2. <<>> \in Tokens
    BY EmptySeq DEF Tokens
  <2> QED BY <2>1, <2>2 DEF HeaderType, TextInv, TextTypes
<1>6. TextInv'
  <2>1. TextTypes'
    BY <1>1, <1>2, <1>5 DEF TextInv, TextTypes, HeaderType
  <2>2. Bounded' /\ Called'
    BY <1>1 DEF TextInv, Bounded, Called
  <2>3. Marking'
    BY <1>1, <1>2, <1>4 DEF Marking, UrlHead, InUrl, Server
  <2>4. Building' /\ Folding' /\ Counting'
    BY <1>2, <1>5 DEF Building, Folding, Counting, BeforeValue, ValueBegun
  <2> QED BY <2>1, <2>2, <2>3, <2>4 DEF TextInv
<1>7. TextNow' = TextNow
  <2>1. exec'.mark = "none" /\ header'.value = header.value
    BY <1>1, <1>3, <1>4, <1>5
  <2> QED BY <1>4, <1>5, <2>1, Unheld, UnheldThen, ZenonT(60)
<1>8. /\ TextPart = "value" /\ TextPart' = "lines" /\ TextPos = exec.pos /\ TextPos' = exec.pos
  <2>1. ~parser'.errno /\ ~exec'.over
    BY <1>1, <1>2
  <2> QED BY <1>1, <1>2, <2>1, PartIs, PartBecomes, Parts DEF BeforeValue
<1>9. Stream!Stays /\ Stream!Coming # "SP" /\ wire[TextPos - 1] = "LF"
  <2>1. exec.pos <= Len(wire)
    BY <1>1 DEF TextInv, TextTypes, Bounded, Tokens
  <2> QED BY <1>1, <1>8, <2>1 DEF Stream!Stays, Stream!Coming, token, SP, LF, TextInv, Folding
<1>10. Stream!EndLine
  BY <1>2, <1>7, <1>8, <1>9 DEF Stream!EndLine
<1> QED BY <1>6, <1>10 DEF TextMoves, Stream!TextNext

-----------------------------------------------------------------------------
(* What is collected stands where the strings and the mark do. *)
LEMMA StringsStand ==
  ASSUME UNCHANGED <<wire, exec, header, req>>
  PROVE  TextNow' = TextNow
<1>1. Data' = Data /\ NewName' = NewName /\ Filed' = Filed /\ exec' = exec
      /\ header' = header /\ req' = req
  BY DEF Data, NewName, Filed
<1>2. /\ Pending("url")' = Pending("url") /\ Pending("field")' = Pending("field")
      /\ Pending("value")' = Pending("value") /\ Pending("body")' = Pending("body")
  BY <1>1, ZenonT(60) DEF Pending
<1>3. Name' = Name
  BY <1>1, <1>2, ZenonT(60) DEF Name
<1>4. HeaderValue' = HeaderValue
  BY <1>1, <1>2, ZenonT(60) DEF HeaderValue
<1>5. Headers' = Headers
  BY <1>1, ZenonT(60) DEF Headers
<1> QED BY <1>1, <1>2, <1>3, <1>4, <1>5, ZenonT(60) DEF TextNow

(* A body.                                                                 *)
LEMMA BodyFlushed ==
  ASSUME TextInv, OnBody
  PROVE  /\ RequestType(req') /\ req'.raw = req.raw /\ req'.headers = req.headers
         /\ req'.body = req.body \o Data /\ req'.body \in Seq(Token)
<1>1. Data \in Seq(Token) /\ req.body \in Seq(Token)
  BY DataType DEF TextInv, TextTypes, Tokens
<1> DEFINE b == req.body \o Data
<1>2. b \in Seq(Token)
  BY <1>1, ConcatProperties
<1>3. req' = [req EXCEPT !.body = b]
  BY DEF OnBody
<1> HIDE DEF b
<1>4. /\ RequestType(req') /\ req'.raw = req.raw /\ req'.headers = req.headers
      /\ req'.body = b
  BY <1>2, <1>3 DEF RequestType, TextInv, TextTypes, Tokens
<1> QED BY <1>2, <1>4 DEF b

LEMMA BodyPlaced ==
  ASSUME TextInv, OnBody, header' = header, exec.mark = "body", exec'.mark = "none"
  PROVE  TextNow' = TextNow
<1>1. /\ req'.raw = req.raw /\ req'.headers = req.headers
      /\ req'.body = req.body \o Data /\ req'.body \in Seq(Token)
  BY BodyFlushed
<1>2. TextNow'.raw = TextNow.raw /\ TextNow'.name = TextNow.name
      /\ TextNow'.value = TextNow.value /\ TextNow'.headers = TextNow.headers
  <2>1. exec.mark \notin {"url", "field", "value"} /\ NewName = FALSE /\ NewName' = FALSE
    BY DEF NewName
  <2> QED BY <1>1, <2>1, Strings, StringsThen, ZenonT(60)
          DEF Pending, Name, HeaderValue, Headers
<1>3. TextNow'.body = TextNow.body
  <2>1. TextNow.body = req.body \o Data
    BY Strings, ZenonT(60) DEF Pending
  <2>2. TextNow'.body = req'.body \o <<>>
    BY StringsThen, ZenonT(60) DEF Pending
  <2> QED BY <1>1, <2>1, <2>2, ConcatEmptySeq
<1> QED BY <1>2, <1>3, Unchanged

LEMMA BodyPartText ==
  ASSUME Parsing, BodyPart
  PROVE  TextInv' /\ TextMoves
<1> USE DEF Parsing
<1>1. /\ exec.pos > exec.end /\ ~exec.over /\ ~parser.errno /\ exec.mark = "body"
      /\ conn.place = "parsing" /\ conn' = conn /\ OnBody
      /\ exec' = Unmarked(exec) /\ wire' = wire /\ parser' = parser /\ header' = header
  BY DEF BodyPart, AtEnd, Calling
<1>2. exec'.mark = "none" /\ ~exec'.over /\ exec'.pos = exec.pos /\ exec'.end = exec.end
  BY <1>1, UnmarkedIs
<1>3. parser.state \in {"body", "chunk_data", "chunk_data_almost_done"}
  BY <1>1 DEF TextInv, Marking
<1>4. Flushes
  <2>1. HeaderType(header') /\ RequestType(req')
    BY <1>1, BodyFlushed DEF HeaderType, TextInv, TextTypes
  <2> QED BY <1>1, <1>2, <2>1 DEF Flushes
<1>5. TextInv'
  <2>1. Building' /\ Folding' /\ Counting'
    BY <1>1, <1>3 DEF TextInv, Building, Folding, Counting, BeforeValue, ValueBegun
  <2> QED BY <1>4, <2>1, FlushesKeep DEF TextInv
<1>6. TextNow' = TextNow
  BY <1>1, <1>2, BodyPlaced
<1>7. TextPart' = TextPart /\ TextPos' = TextPos
  BY <1>1, <1>2, <1>3, PartIs, PartBecomes
<1> QED BY <1>1, <1>5, <1>6, <1>7 DEF TextMoves, TextView

LEMMA ChunkDataDoneText ==
  ASSUME Parsing, ChunkDataDone
  PROVE  TextInv' /\ TextMoves
<1> USE DEF Parsing
<1>1. /\ exec.pos <= exec.end /\ ~exec.over /\ ~parser.errno
      /\ parser.state = "chunk_data_almost_done"
      /\ conn.place = "parsing" /\ conn' = conn
      /\ IF exec.mark = "body" THEN OnBody ELSE req' = req
      /\ exec' = Unmarked(Ahead) /\ wire' = wire /\ header' = header
  BY DEF ChunkDataDone, At, Reading, Calling
<1>2. /\ DOMAIN parser' = DOMAIN parser /\ parser'.state = "chunk_data_done"
      /\ parser'.kind = parser.kind /\ parser'.left = parser.left
      /\ parser'.errno = parser.errno /\ parser'.upgrade = parser.upgrade
  BY DEF ChunkDataDone, TextInv, TextTypes
<1>3. /\ exec'.mark = "none" /\ ~exec'.over /\ exec'.pos = exec.pos + 1
      /\ exec.mark \in {"none", "body"}
  BY <1>1, UnmarkedIs DEF TextInv, TextTypes, Marking, Mark, UrlHead, InUrl, Server
<1>4. Flushes
  <2>1. HeaderType(header')
    BY <1>1 DEF HeaderType, TextInv, TextTypes
  <2>2. RequestType(req')
    <3>1. CASE exec.mark = "body"
      BY <1>1, <3>1, BodyFlushed
    <3>2. CASE exec.mark # "body"
      BY <1>1, <3>2 DEF RequestType, TextInv, TextTypes
    <3> QED BY <3>1, <3>2
  <2>3. parser'.state \notin ReadingString
    BY <1>2 DEF ReadingString, UrlHead, InUrl, Server
  <2> QED BY <1>1, <1>2, <2>1, <2>2, <2>3 DEF Flushes
<1>5. TextInv'
  <2>1. Building' /\ Folding' /\ Counting'
    BY <1>1, <1>2 DEF TextInv, Building, Folding, Counting, BeforeValue, ValueBegun
  <2> QED BY <1>4, <2>1, FlushesKeep DEF TextInv
<1>6. TextNow' = TextNow
  <2>1. CASE exec.mark = "body"
    BY <1>1, <1>3, <2>1, BodyPlaced
  <2>2. CASE exec.mark = "none"
    <3>1. req' = req
      BY <1>1, <2>2
    <3> QED BY <1>1, <1>3, <2>2, <3>1, Unheld, UnheldThen, ZenonT(60)
  <2> QED BY <1>3, <2>1, <2>2
<1>7. TextPart = "sizes" /\ TextPart' = "sizes" /\ TextPos = exec.pos /\ TextPos' = exec.pos + 1
  <2>1. ~parser'.errno
    BY <1>1, <1>2
  <2> QED BY <1>1, <1>2, <1>3, <2>1, PartIs, PartBecomes, Parts
<1>8. Stream!Reads(1)
  <2>1. exec.pos + 1 - 1 <= Len(wire)
    BY <1>1 DEF TextInv, TextTypes, Bounded, Tokens
  <2> QED BY <1>1, <1>7, <2>1 DEF Stream!Reads
<1>9. <<"sizes", "sizes">> \in Stream!Leads /\ Stream!Separates
  BY <1>7 DEF Stream!Leads, Stream!Separates
<1>10. Stream!Pass
  BY <1>2, <1>6, <1>7, <1>8, <1>9 DEF Stream!Pass
<1> QED BY <1>5, <1>10 DEF TextMoves, Stream!TextNext

-----------------------------------------------------------------------------
(* A token that has no place is where the text ends. *)
LEMMA FailText ==
  ASSUME Parsing, Fail
  PROVE  TextInv' /\ TextMoves
<1> USE DEF Parsing
<1>1. /\ exec.pos <= exec.end /\ ~exec.over /\ ~parser.errno /\ Wrong
      /\ conn.place = "parsing" /\ conn' = conn
      /\ exec' = exec /\ wire' = wire /\ header' = header /\ req' = req
  BY DEF Fail, Reading, Calling
<1>2. /\ DOMAIN parser' = DOMAIN parser /\ parser'.state = parser.state
      /\ parser'.kind = parser.kind /\ parser'.left = parser.left
      /\ parser'.errno /\ parser'.upgrade = parser.upgrade
  BY DEF Fail, TextInv, TextTypes
<1>3. parser.state # "message_done"
  BY <1>1 DEF Wrong, OutOfPlace, LineFollows, HeaderFollows, ChunkFollows,
         BadUrl, UrlHead, InUrl, Server
<1>4. TextInv'
  <2>1. TextTypes' /\ Bounded' /\ Marking'
    BY <1>1, <1>2 DEF TextInv, TextTypes, Bounded, Marking
  <2>2. Building' /\ Called'
    BY <1>1, <1>2 DEF TextInv, Building, Called
  <2>3. Folding' /\ Counting'
    <3>1. parser.state = "value_start" => wire[exec.pos] = SP /\ parser.kind # "length"
      BY DEF TextInv, Folding
    <3> QED BY <1>1, <1>2 DEF TextInv, Folding, Counting
  <2> QED BY <2>1, <2>2, <2>3 DEF TextInv
<1>5. TextNow' = TextNow
  BY <1>1, StringsStand
<1>6. TextPart' = "refused"
  BY <1>2 DEF TextPart
<1>7. TextPos' = exec.pos /\ TextPos = exec.pos
  <2>1. TextPos' = exec'.pos
    BY <1>6 DEF TextPos
  <2> QED BY <1>1, <1>3, <2>1, PartIs
<1>8. Stream!Refuse
  BY <1>1, <1>2, <1>5, <1>6, <1>7 DEF Stream!Refuse
<1> QED BY <1>4, <1>8 DEF TextMoves, Stream!TextNext

(* The headers are complete. *)
LEMMA HandleHeaderText ==
  ASSUME TextInv, HandleHeader
  PROVE  TextInv' /\ TextMoves
<1>1. /\ exec.pos <= exec.end /\ ~exec.over /\ ~parser.errno /\ ~Wrong
      /\ parser.state = "headers_almost_done"
      /\ conn.place = "parsing" /\ conn' = conn /\ exec' = exec /\ wire' = wire
      /\ OnHeadersComplete(parser'.upgrade)
  BY DEF HandleHeader, HeadersEnd, At, Reading, Calling
<1>2. /\ DOMAIN parser' = DOMAIN parser /\ parser'.state = "headers_done"
      /\ parser'.kind = parser.kind /\ parser'.left = parser.left
      /\ parser'.errno = parser.errno /\ parser'.upgrade \in BOOLEAN
  BY DEF HandleHeader, HeadersEnd, TextInv, TextTypes
<1>3. token = LF
  BY <1>1 DEF Wrong, OutOfPlace, HeaderFollows
<1>4. exec.mark = "none" /\ header.building = 0 /\ parser.kind # "number"
  <2>1. exec.mark = "none"
    BY <1>1 DEF TextInv, TextTypes, Marking, Mark, UrlHead, InUrl, Server
  <2>2. header.building = 0
    BY <1>1 DEF TextInv, TextTypes, Building, BeforeValue
  <2>3. parser.kind # "number"
    BY <1>1 DEF TextInv, Counting
  <2> QED BY <2>1, <2>2, <2>3
<1>5. /\ HeaderType(header') /\ header'.building = 0
      /\ header'.field = <<>> /\ header'.value = <<>>
  <2>1. header' = [header EXCEPT !.field = <<>>, !.value = <<>>]
    BY <1>1 DEF OnHeadersComplete
  <2>2. <<>> \in Tokens
    BY EmptySeq DEF Tokens
  <2> QED BY <1>4, <2>1, <2>2 DEF HeaderType, TextInv, TextTypes
<1>6. /\ RequestType(req') /\ req'.raw = req.raw /\ req'.body = req.body
      /\ req'.headers = IF header.field = <<>> THEN req.headers
                        ELSE Append(req.headers, <<header.field, header.value>>)
  <2> DEFINE close == CloseConnection(parser.version, parser.flags)
             up == parser'.upgrade
             h == Append(req.headers, <<header.field, header.value>>)
  <2>1. \/ header.field = <<>> /\ req' = [req EXCEPT !.upgrade = up, !.close = close]
        \/ /\ header.field # <<>>
           /\ req' = [[req EXCEPT !.headers = h] EXCEPT !.upgrade = up, !.close = close]
    BY <1>1 DEF OnHeadersComplete, Filed
  <2> HIDE DEF close, up, h
  <2>2. /\ RequestType(req') /\ req'.raw = req.raw /\ req'.body = req.body
        /\ req'.headers = IF header.field = <<>> THEN req.headers ELSE h
    BY <2>1 DEF RequestType, TextInv, TextTypes
  <2> QED BY <2>2 DEF h
<1>7. TextInv'
  <2>1. TextTypes'
    BY <1>1, <1>2, <1>5, <1>6 DEF TextInv, TextTypes, HeaderType, RequestType
  <2>2. Bounded' /\ Called'
    BY <1>1 DEF TextInv, Bounded, Called
  <2>3. Marking'
    BY <1>1, <1>2, <1>4 DEF Marking, UrlHead, InUrl, Server
  <2>4. Building' /\ Folding' /\ Counting'
    BY <1>2, <1>4, <1>5 DEF Building, Folding, Counting, BeforeValue, ValueBegun
  <2> QED BY <2>1, <2>2, <2>3, <2>4 DEF TextInv
<1>8. /\ TextNow.raw = req.raw \o <<>> /\ TextNow.body = req.body \o <<>>
      /\ TextNow.name = header.field /\ TextNow.value = header.value
      /\ TextNow.headers = req.headers
  <2>1. NewName = FALSE
    BY <1>4 DEF NewName
  <2>2. /\ TextNow.raw = req.raw \o <<>> /\ TextNow.body = req.body \o <<>>
        /\ TextNow.name = header.field \o <<>> /\ TextNow.value = header.value \o <<>>
        /\ TextNow.headers = req.headers
    BY <1>4, <2>1, Strings, ZenonT(60) DEF Pending, Name, HeaderValue, Headers
  <2>3. header.field \in Seq(Token) /\ header.value \in Seq(Token)
    BY DEF TextInv, TextTypes, Tokens
  <2> QED BY <2>2, <2>3, ConcatEmptySeq
<1>9. /\ TextNow'.raw = TextNow.raw /\ TextNow'.body = TextNow.body
      /\ TextNow'.name = <<>> /\ TextNow'.value = <<>>
      /\ TextNow'.headers = req'.headers
  <2>1. exec'.mark = "none"
    BY <1>1, <1>4
  <2>2. NewName' = FALSE
    BY <2>1 DEF NewName
  <2>3. /\ TextNow'.raw = req'.raw \o <<>> /\ TextNow'.body = req'.body \o <<>>
        /\ TextNow'.name = header'.field \o <<>> /\ TextNow'.value = header'.value \o <<>>
        /\ TextNow'.headers = req'.headers
    BY <2>1, <2>2, StringsThen, ZenonT(60) DEF Pending, Name, HeaderValue, Headers
  <2> QED BY <1>5, <1>6, <1>8, <2>3, EmptySeq
<1>10. /\ TextPart = "blank" /\ TextPart' = "headed" /\ TextPos = exec.pos /\ TextPos' = exec.pos
  <2>1. ~parser'.errno /\ ~exec'.over
    BY <1>1, <1>2
  <2> QED BY <1>1, <1>2, <2>1, PartIs, PartBecomes, Parts
<1>11. Stream!Stays /\ Stream!Coming = "LF"
  <2>1. exec.pos <= Len(wire)
    BY <1>1 DEF TextInv, TextTypes, Bounded, Tokens
  <2> QED BY <1>1, <1>3, <1>10, <2>1 DEF Stream!Stays, Stream!Coming, token, LF
<1>12. TextNow' = [TextNow EXCEPT
         !.headers = IF TextNow.name = <<>> THEN @ ELSE Append(@, Stream!Header(TextNow)),
         !.name = <<>>, !.value = <<>>]
  <2>1. Stream!Header(TextNow) = <<header.field, header.value>>
    BY <1>8 DEF Stream!Header
  <2>2. TextNow'.headers = IF TextNow.name = <<>> THEN TextNow.headers
                           ELSE Append(TextNow.headers, Stream!Header(TextNow))
    BY <1>6, <1>8, <1>9, <2>1
  <2> QED BY <1>9, <2>2, Differs, ZenonT(60) DEF Differ, WithHeader
<1>13. Stream!EndHeaders
  BY <1>2, <1>10, <1>11, <1>12 DEF Stream!EndHeaders
<1> QED BY <1>7, <1>13 DEF TextMoves, Stream!TextNext

-----------------------------------------------------------------------------
(* A request is complete: nothing of it is pending. *)
LEMMA CompletingIs ==
  ASSUME TextInv, Completing
  PROVE  /\ exec.pos <= exec.end /\ ~exec.over /\ ~parser.errno
         /\ parser.state \in {"headers_done", "headers_almost_done", "message_done"}
         /\ exec.mark = "none" /\ header.building = 0 /\ parser.kind # "number"
<1>1. /\ exec.pos <= exec.end /\ ~exec.over /\ ~parser.errno
      /\ parser.state \in {"headers_done", "headers_almost_done", "message_done"}
  BY DEF Completing, At, Reading, Calling
<1>2. exec.mark = "none"
  BY <1>1 DEF TextInv, TextTypes, Marking, Mark, UrlHead, InUrl, Server
<1>3. header.building = 0
  BY <1>1 DEF TextInv, TextTypes, Building, BeforeValue
<1>4. parser.kind # "number"
  BY <1>1 DEF TextInv, Counting
<1> QED BY <1>1, <1>2, <1>3, <1>4

(* The part behind which it is complete, and the position. *)
LEMMA CompleteAt ==
  ASSUME TextInv, Completing, exec'.pos = exec.pos + 1, wire' = wire,
         TextPos' = exec'.pos
  PROVE  \/ TextPart \in {"headed", "blank"} /\ Stream!Reads(1)
         \/ TextPart = "whole" /\ wire' = wire /\ TextPos' = TextPos
<1>1. /\ exec.pos <= exec.end /\ ~exec.over /\ ~parser.errno
      /\ parser.state \in {"headers_done", "headers_almost_done", "message_done"}
  BY CompletingIs
<1>2. CASE parser.state = "message_done"
  <2>1. TextPart = "whole"
    BY <1>1, <1>2, Parts DEF TextPart
  <2>2. TextPos = exec.pos + 1
    BY <2>1 DEF TextPos
  <2> QED BY <2>1, <2>2
<1>3. CASE parser.state # "message_done"
  <2>1. TextPart \in {"headed", "blank"} /\ TextPos = exec.pos
    BY <1>1, <1>3, PartIs, Parts
  <2>2. exec.pos + 1 - 1 <= Len(wire)
    BY <1>1 DEF TextInv, TextTypes, Bounded, Tokens
  <2> QED BY <2>1, <2>2 DEF Stream!Reads
<1> QED BY <1>2, <1>3

LEMMA CompleteExec ==
  ASSUME TextInv, Completing, exec' = [Ahead EXCEPT !.over = parser.upgrade]
  PROVE  /\ exec' \in [pos : Nat \ {0}, end : Nat, mark : Mark, from : Nat \ {0},
                       start : Nat, over : BOOLEAN]
         /\ exec'.pos = exec.pos + 1 /\ exec'.end = exec.end
         /\ exec'.from = exec.from /\ exec'.mark = "none"
         /\ exec'.over = parser.upgrade
<1>1. /\ Ahead \in [pos : Nat \ {0}, end : Nat, mark : Mark, from : Nat \ {0},
                    start : Nat, over : BOOLEAN]
      /\ parser.upgrade \in BOOLEAN
  BY DEF Ahead, TextInv, TextTypes
<1> QED BY <1>1, Onwards, CompletingIs

(* A request that is answered is handed over, and nothing of it is left. *)
LEMMA HandleReplyText ==
  ASSUME TextInv, HandleReply
  PROVE  TextInv' /\ TextMoves
<1>1. /\ Completing /\ conn.place = "parsing"
      /\ exec' = [Ahead EXCEPT !.over = parser.upgrade]
      /\ parser' = [parser EXCEPT !.state = "start", !.qs = 0]
      /\ header' = NewHeader /\ req' = NewRequest /\ wire' = wire
  BY DEF HandleReply, Complete
<1>2. conn'.place = "parsing" /\ DOMAIN conn' = DOMAIN conn
  <2> DEFINE O == Outcome(parser.method, req.url, parser.version, req.headers,
                          req.upgrade, conn.route)
  <2>1. \E r \in Reply(O, conn.route) :
          conn' = [conn EXCEPT !.closing = req.close, !.open = ~(r.file /\ req.close)]
    BY DEF HandleReply
  <2> HIDE DEF O
  <2> QED BY <1>1, <2>1 DEF TextInv, TextTypes
<1>3. /\ exec.pos <= exec.end /\ ~exec.over /\ ~parser.errno
      /\ parser.state \in {"headers_done", "headers_almost_done", "message_done"}
      /\ parser.kind # "number"
  BY <1>1, CompletingIs
<1>4. /\ exec' \in [pos : Nat \ {0}, end : Nat, mark : Mark, from : Nat \ {0},
                    start : Nat, over : BOOLEAN]
      /\ exec'.pos = exec.pos + 1 /\ exec'.end = exec.end
      /\ exec'.from = exec.from /\ exec'.mark = "none"
  BY <1>1, CompleteExec
<1>5. /\ DOMAIN parser' = DOMAIN parser /\ parser'.state = "start"
      /\ parser'.kind = parser.kind /\ parser'.left = parser.left
      /\ parser'.errno = parser.errno /\ parser'.upgrade = parser.upgrade
  BY <1>1 DEF TextInv, TextTypes
<1>6. TextInv'
  <2>1. <<>> \in Tokens
    BY EmptySeq DEF Tokens
  <2>2. TextTypes'
    BY <1>1, <1>2, <1>4, <1>5, <2>1 DEF TextInv, TextTypes, NewHeader, NewRequest
  <2>3. Bounded'
    BY <1>1, <1>3, <1>4 DEF TextInv, TextTypes, Bounded
  <2>4. Marking'
    BY <1>4, <1>5 DEF Marking, UrlHead, InUrl, Server
  <2>5. Building' /\ Folding' /\ Counting'
    BY <1>1, <1>3, <1>5 DEF Building, Folding, Counting, BeforeValue, ValueBegun, NewHeader
  <2>6. Called'
    BY <1>2, <1>5 DEF Called
  <2> QED BY <2>2, <2>3, <2>4, <2>5, <2>6 DEF TextInv
<1>7. TextNow' = Stream!NoText
  <2>1. TextNow' = [raw |-> req'.raw \o <<>>, name |-> header'.field \o <<>>,
                    value |-> header'.value \o <<>>, headers |-> req'.headers,
                    body |-> req'.body \o <<>>]
    BY <1>4, UnheldThen
  <2>2. /\ req'.raw = <<>> /\ req'.headers = <<>> /\ req'.body = <<>>
        /\ header'.field = <<>> /\ header'.value = <<>>
    BY <1>1 DEF NewRequest, NewHeader
  <2>3. <<>> \o <<>> = <<>>
    OBVIOUS
  <2> QED BY <2>1, <2>2, <2>3, ZenonT(60) DEF Stream!NoText
<1>8. TextPart' = "method" /\ TextPos' = exec'.pos
  <2>1. ~parser'.errno /\ parser'.state = "start"
    BY <1>3, <1>5
  <2> QED BY <2>1, PartBecomes, Parts
<1>9. \/ TextPart \in {"headed", "blank"} /\ Stream!Reads(1)
      \/ TextPart = "whole" /\ wire' = wire /\ TextPos' = TextPos
  BY <1>1, <1>4, <1>8, CompleteAt
<1> HIDE DEF Stream!Reads, Stream!NoText
<1>10. Stream!HandOver
  BY <1>5, <1>7, <1>8, <1>9 DEF Stream!HandOver
<1> QED BY <1>6, <1>10 DEF TextMoves, Stream!TextNext

(* An upgrade ends the text: nobody reads on. *)
LEMMA HandleUpgradedText ==
  ASSUME TextInv, UpgradeFits, HandleUpgraded
  PROVE  TextInv' /\ TextMoves
<1>1. /\ Completing /\ conn.place = "parsing"
      /\ exec' = [Ahead EXCEPT !.over = parser.upgrade]
      /\ parser' = parser /\ header' = header /\ req' = req /\ wire' = wire
  BY DEF HandleUpgraded, Complete
<1>2. parser.upgrade
  <2>1. Outcome(parser.method, req.url, parser.version, req.headers,
                req.upgrade, conn.route) \in {"upgraded", "none"}
    BY DEF HandleUpgraded
  <2>2. req.upgrade
    BY <2>1, Outcomes
  <2> QED BY <2>2 DEF UpgradeFits
<1>3. /\ conn'.place \in {"parsing", "upgraded"} /\ conn'.closing
      /\ DOMAIN conn' = DOMAIN conn
  <2> DEFINE O == Outcome(parser.method, req.url, parser.version, req.headers,
                          req.upgrade, conn.route)
  <2>1. conn' = [conn EXCEPT !.closing = TRUE,
                   !.place = IF O = "upgraded" THEN "upgraded" ELSE @]
    BY DEF HandleUpgraded
  <2> HIDE DEF O
  <2> QED BY <1>1, <2>1 DEF TextInv, TextTypes
<1>4. /\ exec.pos <= exec.end /\ ~parser.errno /\ exec.mark = "none"
      /\ parser.state \in {"headers_done", "headers_almost_done", "message_done"}
  BY <1>1, CompletingIs
<1>5. /\ exec' \in [pos : Nat \ {0}, end : Nat, mark : Mark, from : Nat \ {0},
                    start : Nat, over : BOOLEAN]
      /\ exec'.pos = exec.pos + 1 /\ exec'.end = exec.end
      /\ exec'.from = exec.from /\ exec'.mark = "none" /\ exec'.over
  BY <1>1, <1>2, CompleteExec
<1>6. TextInv'
  <2>1. TextTypes'
    BY <1>1, <1>3, <1>5 DEF TextInv, TextTypes
  <2>2. Bounded'
    BY <1>1, <1>4, <1>5 DEF TextInv, TextTypes, Bounded
  <2>3. Marking'
    BY <1>1, <1>4, <1>5 DEF Marking, UrlHead, InUrl, Server
  <2>4. Building' /\ Folding' /\ Counting'
    BY <1>1, <1>4 DEF TextInv, Building, Folding, Counting, BeforeValue, ValueBegun
  <2>5. Called'
    BY <1>3 DEF Called
  <2> QED BY <2>1, <2>2, <2>3, <2>4, <2>5 DEF TextInv
<1>7. TextNow' = TextNow
  BY <1>1, <1>4, <1>5, Unheld, UnheldThen, ZenonT(60)
<1>8. TextPart' = "handed"
  BY <1>1, <1>4, <1>5 DEF TextPart
<1>9. TextPos' = exec'.pos
  BY <1>8 DEF TextPos
<1>10. \/ TextPart \in {"headed", "blank"} /\ Stream!Reads(1)
       \/ TextPart = "whole" /\ wire' = wire /\ TextPos' = TextPos
  BY <1>1, <1>5, <1>9, CompleteAt
<1> HIDE DEF Stream!Reads
<1>11. Stream!HandOver
  BY <1>1, <1>7, <1>8, <1>10 DEF Stream!HandOver
<1> QED BY <1>6, <1>11 DEF TextMoves, Stream!TextNext

-----------------------------------------------------------------------------
(* What does not involve the parser is nothing to the text. *)
LEMMA AsideText ==
  ASSUME TextInv, UNCHANGED parserVars,
         {"place", "open", "closing"} \subseteq DOMAIN conn', Called'
  PROVE  TextInv' /\ TextMoves
<1>1. wire' = wire /\ exec' = exec /\ parser' = parser /\ header' = header /\ req' = req
  BY DEF parserVars
<1>2. TextInv'
  <2>1. TextTypes' /\ Bounded'
    BY <1>1 DEF TextInv, TextTypes, Bounded
  <2>2. Marking' /\ Building' /\ Folding' /\ Counting'
    BY <1>1 DEF TextInv, Marking, Building, Folding, Counting
  <2> QED BY <2>1, <2>2 DEF TextInv
<1>3. TextNow' = TextNow
  BY <1>1, StringsStand
<1>4. TextPart' = TextPart
  BY <1>1, ZenonT(60) DEF TextPart
<1>5. TextPos' = TextPos
  BY <1>1, <1>4, ZenonT(60) DEF TextPos
<1> QED BY <1>1, <1>2, <1>3, <1>4, <1>5 DEF TextMoves, TextView

LEMMA SetUpText ==
  ASSUME TextInv, SetUp
  PROVE  TextInv' /\ TextMoves
<1>1. UNCHANGED parserVars /\ conn' = conn
  BY DEF SetUp, NoConnection
<1>2. wire' = wire /\ exec' = exec /\ parser' = parser /\ header' = header /\ req' = req
  BY <1>1 DEF parserVars
<1>3. Called'
  BY <1>1, <1>2 DEF TextInv, Called
<1> QED BY <1>1, <1>3, AsideText DEF TextInv, TextTypes

LEMMA LeavingText ==
  ASSUME TextInv, ClientLeaves \/ HandleThrows
  PROVE  TextInv' /\ TextMoves
<1>1. /\ UNCHANGED parserVars
      /\ conn' = [conn EXCEPT !.place = "gone"] \/ conn' = [conn EXCEPT !.place = "closed"]
  BY DEF ClientLeaves, HandleThrows
<1>2. conn'.place \in {"gone", "closed"} /\ DOMAIN conn' = DOMAIN conn
  BY <1>1 DEF TextInv, TextTypes
<1>3. Called'
  BY <1>2 DEF Called
<1> QED BY <1>1, <1>2, <1>3, AsideText DEF TextInv, TextTypes

(* A call that is followed by another has read all it was handed. *)
LEMMA ReadDoneText ==
  ASSUME TextInv, ReadDone
  PROVE  TextInv' /\ TextMoves
<1>1. /\ UNCHANGED parserVars /\ conn.place = "parsing"
      /\ parser.errno \/ exec.over \/ exec.mark = "none"
  BY DEF ReadDone
<1>2. /\ conn'.place \in {"reading", "closed"} /\ DOMAIN conn' = DOMAIN conn
      /\ conn'.place = "reading" => ~parser.errno /\ exec.pos > exec.end /\ ~conn.closing
  BY DEF ReadDone, TextInv, TextTypes
<1>3. parser' = parser /\ exec' = exec
  BY <1>1 DEF parserVars
<1>4. Called'
  <2>1. SUFFICES ASSUME conn'.place = "reading"
                 PROVE  /\ exec.mark = "none" /\ ~parser.errno
                        /\ exec.pos = exec.end + 1
                        /\ exec.over => parser.state = "start"
    BY <1>2, <1>3 DEF Called
  <2>2. ~parser.errno /\ exec.pos > exec.end /\ ~conn.closing
    BY <1>2, <2>1
  <2>3. exec.mark = "none"
    BY <1>1, <2>2 DEF TextInv, Marking
  <2>4. exec.pos = exec.end + 1
    BY <2>2 DEF TextInv, TextTypes, Bounded
  <2>5. exec.over => parser.state = "start"
    BY <1>1, <2>2 DEF TextInv, Called
  <2> QED BY <2>2, <2>3, <2>4, <2>5
<1> QED BY <1>1, <1>2, <1>4, AsideText DEF TextInv, TextTypes

(* The client comes with all it is going to say. *)
LEMMA ConnectText ==
  ASSUME ExchangeAssumption, TextInv, Connect
  PROVE  TextInv' /\ TextMoves
<1>1. /\ exec' = exec /\ parser' = parser /\ header' = header /\ req' = req
      /\ conn.place = "none" /\ conn' = [conn EXCEPT !.place = "reading"]
  BY DEF Connect
<1>2. conn'.place = "reading" /\ DOMAIN conn' = DOMAIN conn
  BY <1>1 DEF TextInv, TextTypes
<1>3. /\ wire = <<>> /\ exec.end = 0 /\ exec.pos = 1 /\ parser.state = "start"
      /\ exec.mark = "none" /\ ~parser.errno
  BY <1>1 DEF TextInv, Called
<1>4. wire' \in Tokens
  BY WireType
<1>5. TextInv'
  <2>1. TextTypes'
    BY <1>1, <1>2, <1>4 DEF TextInv, TextTypes
  <2>2. Bounded'
    BY <1>1, <1>3, <1>4 DEF TextInv, TextTypes, Bounded, Tokens
  <2>3. Marking' /\ Building' /\ Counting'
    BY <1>1 DEF TextInv, Marking, Building, Counting
  <2>4. Folding'
    BY <1>1, <1>3 DEF Folding
  <2>5. Called'
    BY <1>1, <1>2, <1>3 DEF TextInv, Called
  <2> QED BY <2>1, <2>2, <2>3, <2>4, <2>5 DEF TextInv
<1>6. TextNow' = TextNow
  BY <1>1, <1>3, Unheld, UnheldThen, ZenonT(60)
<1>7. TextPart' = TextPart
  BY <1>1, ZenonT(60) DEF TextPart
<1>8. TextPos' = TextPos /\ TextPos = 1
  <2>1. TextPos = exec.pos
    BY <1>3, PartIs
  <2>2. TextPos' = TextPos
    BY <1>1, <1>7, ZenonT(60) DEF TextPos
  <2> QED BY <1>3, <2>1, <2>2
<1>9. Stream!Sends
  BY <1>1, <1>3, <1>6, <1>7, <1>8 DEF Stream!Sends
<1> QED BY <1>5, <1>9 DEF TextMoves, Stream!TextNext

(* The next tokens are handed over: a string goes on where it was left.    *)
LEMMA ReadText ==
  ASSUME TextInv, Read
  PROVE  TextInv' /\ TextMoves
<1>1. PICK end \in (exec.end + 1)..Len(wire) :
        /\ Feed(end)
        /\ \E n : conn' = [conn EXCEPT !.place = "parsing", !.misread = n]
  BY DEF Read
<1>2. /\ wire' = wire /\ parser' = parser /\ header' = header /\ req' = req
      /\ conn.place = "reading"
  BY <1>1 DEF Feed, Read
<1>3. conn'.place = "parsing" /\ DOMAIN conn' = DOMAIN conn
  BY <1>1 DEF TextInv, TextTypes
<1>4. /\ exec.mark = "none" /\ ~parser.errno /\ exec.pos = exec.end + 1
      /\ exec.over => parser.state = "start"
  BY <1>2 DEF TextInv, Called
<1>5. exec.end \in Nat /\ Len(wire) \in Nat /\ end \in Nat /\ exec.end < end
      /\ end <= Len(wire)
  BY DEF TextInv, TextTypes, Tokens
<1>6. /\ exec'.pos = exec.pos /\ exec'.from = exec.pos /\ exec'.end = end
      /\ exec'.over = FALSE /\ exec'.start = 0
      /\ exec'.mark = CASE parser.state = "field" -> "field"
                        [] parser.state = "value" -> "value"
                        [] parser.state \in UrlHead \cup InUrl -> "url"
                        [] OTHER -> "none"
  BY <1>1, <1>4 DEF Feed
<1>7. /\ parser.state \in UrlHead \cup InUrl <=> exec'.mark = "url"
      /\ parser.state = "field" <=> exec'.mark = "field"
      /\ parser.state = "value" <=> exec'.mark = "value"
      /\ exec'.mark \in {"none", "url", "field", "value"}
  BY <1>6 DEF UrlHead, InUrl, Server
<1>8. exec' \in [pos : Nat \ {0}, end : Nat, mark : Mark, from : Nat \ {0},
                start : Nat, over : BOOLEAN]
  <2> DEFINE m == CASE parser.state = "field" -> "field"
                    [] parser.state = "value" -> "value"
                    [] parser.state \in UrlHead \cup InUrl -> "url"
                    [] OTHER -> "none"
  <2>1. exec' = [pos |-> exec.end + 1, end |-> end, from |-> exec.end + 1,
                 start |-> 0, over |-> FALSE, mark |-> m]
    BY <1>1 DEF Feed
  <2>2. m \in Mark
    BY DEF Mark
  <2> HIDE DEF m
  <2> QED BY <1>5, <2>1, <2>2
<1>9. /\ exec'.mark = "field" => header.building = 1
      /\ parser.state \in ValueBegun => header.value # <<>> /\ header.building = 0
  BY <1>4, <1>7 DEF TextInv, TextTypes, Building
<1>10. TextInv'
  <2>1. TextTypes'
    BY <1>2, <1>3, <1>8 DEF TextInv, TextTypes
  <2>2. Bounded'
    BY <1>2, <1>4, <1>5, <1>6 DEF Bounded
  <2>3. Marking'
    BY <1>2, <1>6, <1>7 DEF Marking
  <2>4. Building'
    BY <1>2, <1>7, <1>9 DEF TextInv, Building
  <2>5. Folding'
    <3>1. parser.state # "value_start"
      BY <1>4, <1>5 DEF TextInv, Folding
    <3> QED BY <1>2, <1>6, <3>1 DEF TextInv, Folding
  <2>6. Counting'
    BY <1>2 DEF TextInv, Counting
  <2>7. Called'
    BY <1>3, <1>6 DEF Called
  <2> QED BY <2>1, <2>2, <2>3, <2>4, <2>5, <2>6, <2>7 DEF TextInv
<1>11. Data' = <<>>
  <2>1. Data' = SubSeq(wire', exec'.from, exec'.pos - 1)
    BY DEF Data
  <2>2. exec'.from \in Int /\ exec'.pos - 1 \in Int /\ exec'.pos - 1 < exec'.from
    BY <1>4, <1>5, <1>6
  <2> QED BY <2>1, <2>2, SubSeqEmpty
<1>12. TextNow' = TextNow
  <2>1. /\ Pending("url")' = <<>> /\ Pending("field")' = <<>>
        /\ Pending("value")' = <<>> /\ Pending("body")' = <<>>
    BY <1>11, ZenonT(60) DEF Pending
  <2>2. NewName' = FALSE
    BY <1>2, <1>9 DEF NewName
  <2>3. Name' = header'.field \o <<>>
    BY <2>1, <2>2, ZenonT(60) DEF Name
  <2>4. ~(exec'.mark = "value" /\ header'.building = 1)
    BY <1>2, <1>7, <1>9 DEF ValueBegun
  <2>5. HeaderValue' = header'.value \o <<>>
    BY <2>1, <2>2, <2>4, ZenonT(60) DEF HeaderValue
  <2>6. Headers' = req'.headers
    BY <2>2, ZenonT(60) DEF Headers
  <2>7. TextNow' = [raw |-> req'.raw \o <<>>, name |-> header'.field \o <<>>,
                    value |-> header'.value \o <<>>, headers |-> req'.headers,
                    body |-> req'.body \o <<>>]
    BY <2>1, <2>3, <2>5, <2>6, ZenonT(60) DEF TextNow
  <2> QED BY <1>2, <1>4, <2>7, Unheld, ZenonT(60)
<1>13. TextPart' = TextPart
  <2>1. TextPart = PartOf(parser.state)
    BY <1>4 DEF TextPart
  <2>2. TextPart' = PartOf(parser'.state)
    BY <1>2, <1>4, <1>6 DEF TextPart
  <2> QED BY <1>2, <2>1, <2>2
<1>14. TextPos' = TextPos
  BY <1>6, <1>13, ZenonT(60) DEF TextPos
<1> QED BY <1>2, <1>10, <1>12, <1>13, <1>14 DEF TextMoves, TextView

-----------------------------------------------------------------------------
(* A step of the parser, of whatever kind. *)
LEMMA ParseText ==
  ASSUME TextInv, Parse
  PROVE  TextInv' /\ TextMoves
<1>1. Parsing /\ ParserNext
  BY DEF Parse, Parsing
<1>2. CASE Step \/ Start \/ MethodLetter \/ HttpVersion \/ EmptyLine \/ Fold
             \/ HeaderDone \/ BodyFollows \/ ChunkSize \/ ChunkParameter
             \/ ChunkSizeDone
  <2>1. Plain /\ TextMoves
    BY <1>1, <1>2,
      StepText, StartText, MethodLetterText, HttpVersionText, EmptyLineText,
      FoldText, HeaderDoneText, BodyFollowsText, ChunkSizeText,
      ChunkParameterText, ChunkSizeDoneText
  <2> QED BY <2>1, PlainKeeps
<1>3. CASE Fail \/ UrlStart \/ UrlChar \/ FieldStart \/ Field \/ FieldEnds
             \/ ValueStart \/ Value \/ ValueEnds \/ EmptyValue \/ Body
             \/ BodyPart \/ ChunkData \/ ChunkDataDone
  BY <1>1, <1>3,
      FailText, UrlStartText, UrlCharText, FieldStartText, FieldText,
      FieldEndsText, ValueStartText, ValueText, ValueEndsText, EmptyValueText,
      BodyText, BodyPartText, ChunkDataText, ChunkDataDoneText
<1> QED BY <1>1, <1>2, <1>3 DEF ParserNext

LEMMA TextStep ==
  ASSUME ExchangeAssumption, UpgradeFits, TextInv, [ExchangeNext]_exchangeVars
  PROVE  TextInv' /\ TextMoves
<1>1. CASE UNCHANGED exchangeVars
  <2>1. UNCHANGED parserVars /\ conn' = conn
    BY <1>1 DEF exchangeVars
  <2>2. parser' = parser /\ exec' = exec /\ wire' = wire /\ header' = header /\ req' = req
    BY <2>1 DEF parserVars
  <2>3. Called'
    BY <2>1, <2>2 DEF TextInv, Called
  <2> QED BY <2>1, <2>3, AsideText DEF TextInv, TextTypes
<1>2. CASE SetUp \/ Connect \/ Read \/ ClientLeaves \/ HandleThrows \/ ReadDone
  BY <1>2, SetUpText, ConnectText, ReadText, LeavingText, ReadDoneText
<1>3. CASE Parse \/ HandleUrl \/ HandleHeader \/ HandleReply \/ HandleUpgraded
  BY <1>3, ParseText, HandleUrlText, HandleHeaderText, HandleReplyText, HandleUpgradedText
<1> QED BY <1>1, <1>2, <1>3 DEF ExchangeNext

LEMMA TextBegins ==
  ASSUME ExchangeInit
  PROVE  TextInv /\ Stream!TextInit
<1>1. /\ wire = <<>> /\ conn.place = "none"
      /\ {"place", "open", "closing"} \subseteq DOMAIN conn
      /\ header = NewHeader /\ req = NewRequest
      /\ exec = [pos |-> 1, end |-> 0, mark |-> "none", from |-> 1, start |-> 0,
                 over |-> FALSE]
  BY DEF ExchangeInit, ParserInit
<1>2. /\ {"state", "method", "index", "version", "flags", "te", "kind", "seen",
           "left", "upgrade", "errno", "qs"} = DOMAIN parser
      /\ parser.state = "start" /\ parser.kind = "general" /\ parser.left = NoLength
      /\ parser.upgrade = FALSE /\ parser.errno = FALSE
  BY DEF ExchangeInit, ParserInit
<1>3. TextInv
  <2>1. <<>> \in Tokens
    BY EmptySeq DEF Tokens
  <2>2. TextTypes
    <3>1. exec \in [pos : Nat \ {0}, end : Nat, mark : Mark, from : Nat \ {0},
                    start : Nat, over : BOOLEAN]
      BY <1>1 DEF Mark
    <3>2. header \in [building : {0, 1}, field : Tokens, value : Tokens]
      BY <1>1, <2>1 DEF NewHeader
    <3>3. /\ {"raw", "url", "headers", "body", "close", "upgrade"} = DOMAIN req
          /\ req.raw \in Tokens /\ req.body \in Tokens
      BY <1>1, <2>1 DEF NewRequest
    <3>4. parser.left \in Int /\ parser.left >= NoLength
      BY <1>2 DEF NoLength
    <3> HIDE DEF Mark
    <3> QED BY <1>1, <1>2, <2>1, <3>1, <3>2, <3>3, <3>4 DEF TextTypes
  <2>3. Bounded
    BY <1>1 DEF Bounded
  <2>4. Marking /\ Building /\ Folding /\ Counting
    BY <1>1, <1>2 DEF Marking, Building, Folding, Counting, UrlHead, InUrl, Server,
       BeforeValue, ValueBegun, NewHeader
  <2>5. Called
    BY <1>1, <1>2 DEF Called
  <2> QED BY <2>2, <2>3, <2>4, <2>5 DEF TextInv
<1>4. TextPart = "method" /\ TextPos = 1
  BY <1>1, <1>2, PartIs, Parts
<1>5. TextNow = Stream!NoText
  <2>1. TextNow = [raw |-> req.raw \o <<>>, name |-> header.field \o <<>>,
                   value |-> header.value \o <<>>, headers |-> req.headers,
                   body |-> req.body \o <<>>]
    BY <1>1, Unheld
  <2>2. /\ req.raw = <<>> /\ req.headers = <<>> /\ req.body = <<>>
        /\ header.field = <<>> /\ header.value = <<>>
    BY <1>1 DEF NewRequest, NewHeader
  <2>3. <<>> \o <<>> = <<>>
    OBVIOUS
  <2> QED BY <2>1, <2>2, <2>3, ZenonT(60) DEF Stream!NoText
<1> HIDE DEF Stream!NoText
<1> QED BY <1>1, <1>2, <1>3, <1>4, <1>5 DEF Stream!TextInit, NoLength

(* What the strings rest on, in every state.  Between two calls nothing is *)
(* marked, a name or a value that was cut has been begun in the header, and*)
(* a call that returned early is not followed by another, unless it        *)
(* answered its request; within a call a mark stands where its string is   *)
(* being read, and nowhere else (http_parser_execute, its CALLBACK_DATA and*)
(* MARK, and the callbacks of parser.h).                                   *)
THEOREM MarksFit == ExchangeSpec => []TextInv
<1>1. ExchangeInit => FramedInv /\ TextInv
  BY FramedInit, TextBegins
<1>2. FramedInv /\ TextInv /\ [ExchangeNext]_exchangeVars => FramedInv' /\ TextInv'
  BY ExchangeAssumption, FramedStep, TextStep DEF FramedInv
<1> QED BY <1>1, <1>2, PTL DEF ExchangeSpec

(* Wherever the reads cut the bytes, and whatever the client sends, each   *)
(* token is collected once, in order, into the string it belongs to: the   *)
(* exchange implements RequestText, which knows no reads                   *)
(* (http_parser_execute, on_url to on_message_complete of parser.h).       *)
THEOREM TextCollected == ExchangeSpec => TextAsRead
<1>1. ExchangeInit => FramedInv /\ TextInv /\ Stream!TextInit
  BY FramedInit, TextBegins
<1>2. FramedInv /\ TextInv /\ [ExchangeNext]_exchangeVars =>
        FramedInv' /\ TextInv' /\ [Stream!TextNext]_TextView
  BY ExchangeAssumption, FramedStep, TextStep DEF FramedInv, TextMoves
<1> QED BY <1>1, <1>2, PTL
        DEF ExchangeSpec, TextAsRead, Stream!TextSpec, TextView

ShownIsText ==
  Completing =>
    \A outcome :
      Shown(outcome) =
        Final(outcome, parser.method, req.url, TextNow.raw, TextNow.headers,
              TextNow.body, conn.route)

(* What a handler is shown of the URL, of the headers and of the body is   *)
(* what has been collected, all of it: when a request is complete, no      *)
(* string of it is pending (handle() of http_connection.h).                *)
THEOREM TextShown == ExchangeSpec => []ShownIsText
<1>1. ASSUME TextInv PROVE ShownIsText
  <2>1. SUFFICES ASSUME Completing
                 PROVE  /\ req.raw = TextNow.raw /\ req.body = TextNow.body
                        /\ req.headers = TextNow.headers
    BY ZenonT(60) DEF ShownIsText, Shown
  <2>2. exec.mark = "none"
    BY <1>1, <2>1, CompletingIs
  <2>3. /\ TextNow.raw = req.raw \o <<>> /\ TextNow.body = req.body \o <<>>
        /\ TextNow.headers = req.headers
    BY <2>2, Strings, ZenonT(60) DEF Pending, Headers, NewName
  <2>4. req.raw \in Seq(Token) /\ req.body \in Seq(Token)
    BY <1>1 DEF TextInv, TextTypes, Tokens
  <2> QED BY <2>3, <2>4, ConcatEmptySeq
<1> QED BY <1>1, MarksFit, PTL

=============================================================================
