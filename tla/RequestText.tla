----------------------------- MODULE RequestText -----------------------------
(***************************************************************************)
(* What the callbacks of the request parser promise whoever collects a     *)
(* request from them (crow/http_parser_merged.h: each may be called many   *)
(* times for one string): the strings of a request are put together from   *)
(* the tokens of the client one by one, each token once and in order, and  *)
(* where one string ends and the next begins is told by the tokens.  There *)
(* are no reads here, and no token is ever looked at again.                *)
(*                                                                         *)
(* HttpExchange, where the bytes come in reads that end anywhere, is shown *)
(* to keep the promise.                                                    *)
(***************************************************************************)
EXTENDS Integers, Sequences

VARIABLES
  wire,  \* the tokens the client sends
  pos,   \* the next one
  part,  \* the part of a request it belongs to
  left,  \* the tokens a body still lacks
  text   \* what has been collected of the request

(* The parts that are not collected: the method, the blanks behind it, the *)
(* version, what stands before a header and behind the last one, the sizes *)
(* of chunks; and where a body is complete, nobody has taken the request,  *)
(* or it was refused.                                                      *)
Collected == {"url", "name", "value", "body"}
Part == Collected \cup
  {"method", "gap", "version", "lines", "blank", "headed", "sizes", "whole",
   "handed", "refused"}

Break == {"CR", "LF"}
NoText == [raw |-> <<>>, name |-> <<>>, value |-> <<>>, headers |-> <<>>,
           body |-> <<>>]
Header(t) == <<t.name, t.value>>

TextInit ==
  /\ wire = <<>> /\ pos = 1
  /\ part = "method" /\ left = -1
  /\ text = NoText

(* The client is there, and what it is going to say. *)
Sends ==
  /\ wire = <<>> /\ pos = 1
  /\ UNCHANGED <<pos, part, left, text>>

Reads(n) == pos + n - 1 <= Len(wire) /\ pos' = pos + n /\ UNCHANGED wire
Stays == pos <= Len(wire) /\ UNCHANGED <<wire, pos>>
Coming == wire[pos]

(* A token that is not collected, and where it leads. *)
Leads ==
  {<<"method", "method">>, <<"method", "gap">>, <<"gap", "gap">>,
   <<"url", "version">>, <<"url", "lines">>, <<"version", "version">>,
   <<"version", "lines">>, <<"lines", "blank">>, <<"name", "value">>,
   <<"headed", "sizes">>, <<"headed", "body">>, <<"sizes", "sizes">>,
   <<"sizes", "body">>, <<"sizes", "lines">>}
Separates ==
  CASE part = "gap" -> Coming = "SP"
    [] part = "url" -> Coming \in Break \cup {"SP"}
    [] part = "lines" -> Coming = "CR"
    [] part = "name" -> Coming = ":"
    [] OTHER -> TRUE

Pass ==
  /\ Reads(1) /\ Separates
  /\ <<part, part'>> \in Leads
  /\ part' = "gap" => Coming = "SP"
  /\ part \notin {"method", "sizes"} => UNCHANGED left
  /\ part' = "body" => left' > 0
  /\ UNCHANGED text

(* The URL, behind the blanks: everything up to the next one. *)
TakeUrl ==
  /\ part \in {"gap", "url"} /\ Reads(1)
  /\ Coming \notin Break \cup {"SP"}
  /\ part' = "url"
  /\ text' = [text EXCEPT !.raw = Append(@, Coming)]
  /\ UNCHANGED left

(* A header begins: the one before it is complete, and counts unless its   *)
(* value is empty.                                                         *)
BeginName ==
  /\ part = "lines" /\ Reads(1)
  /\ Coming \notin Break
  /\ part' = "name"
  /\ text' = [text EXCEPT
       !.headers = IF text.value = <<>> THEN @ ELSE Append(@, Header(text)),
       !.name = <<Coming>>, !.value = <<>>]
  /\ UNCHANGED left

TakeName ==
  /\ part = "name" /\ Reads(1)
  /\ Coming # ":"
  /\ part' = "name"
  /\ text' = [text EXCEPT !.name = Append(@, Coming)]
  /\ UNCHANGED left

(* A value, without the blanks before it and without line breaks. *)
TakeValue ==
  /\ part = "value" /\ Reads(1)
  /\ part' = "value"
  /\ text' = IF Coming \in Break \/ (Coming = "SP" /\ text.value = <<>>)
             THEN text
             ELSE [text EXCEPT !.value = Append(@, Coming)]

(* A header ends with its line, unless a blank continues it there. *)
EndLine ==
  /\ part = "value" /\ Stays
  /\ wire[pos - 1] = "LF" /\ Coming # "SP"
  /\ part' = "lines"
  /\ UNCHANGED <<left, text>>

(* The headers end with an empty line, behind which the last header counts *)
(* whatever its value.                                                     *)
EmptyLine ==
  /\ part = "lines" /\ Stays
  /\ Coming = "LF"
  /\ part' = "blank"
  /\ UNCHANGED <<left, text>>

EndHeaders ==
  /\ part = "blank" /\ Stays
  /\ Coming = "LF"
  /\ part' = "headed"
  /\ text' = [text EXCEPT
       !.headers = IF text.name = <<>> THEN @ ELSE Append(@, Header(text)),
       !.name = <<>>, !.value = <<>>]
  /\ UNCHANGED left

(* A body, or a chunk of it: as many tokens as were announced. *)
TakeBody ==
  /\ part = "body"
  /\ \E n \in 1..left :
       /\ Reads(n)
       /\ left' = left - n
       /\ text' = [text EXCEPT !.body = @ \o SubSeq(wire, pos, pos + n - 1)]
  /\ IF left' = 0 THEN part' \in {"sizes", "whole"} ELSE part' = "body"

(* The request is complete, and handed to a handler as it is; nothing of it*)
(* is left for the next one.                                               *)
HandOver ==
  /\ \/ part \in {"headed", "blank"} /\ Reads(1)
     \/ part = "whole" /\ UNCHANGED <<wire, pos>>
  /\ \/ part' = "method" /\ text' = NoText
     \/ part' = "handed" /\ text' = text
  /\ UNCHANGED left

(* A token that has no place here; or a URL that is answered at once. *)
Refuse ==
  /\ part' = "refused"
  /\ \/ UNCHANGED <<pos, text>>
     \/ part = "url" /\ pos' \in {pos, pos + 1} /\ text' = NoText
  /\ UNCHANGED <<wire, left>>

TextNext ==
  \/ Sends \/ Pass \/ TakeUrl \/ BeginName \/ TakeName \/ TakeValue \/ EndLine
  \/ EmptyLine \/ EndHeaders \/ TakeBody \/ HandOver \/ Refuse

TextSpec == TextInit /\ [][TextNext]_<<wire, pos, part, left, text>>

=============================================================================
