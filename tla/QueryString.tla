----------------------------- MODULE QueryString -----------------------------
(***************************************************************************)
(* The parameters of a URL (crow::query_string, crow/query_string.h): what *)
(* req.url_params.get("name") gives the middleware and the accept handler. *)
(* A URL is a sequence of tokens; "#", which the parser refuses in a URL,  *)
(* is left out.                                                            *)
(***************************************************************************)
EXTENDS Naturals, Sequences, FiniteSets, FiniteSetsExt, SequencesExt

CONSTANT MaxPairs   \* MAX_KEY_VALUE_PAIRS_COUNT (256)

(* The null pointer of `get`: a value no URL spells. *)
Missing == <<"NULL">>

Before(tokens, mark) ==
  LET i == SelectInSeq(tokens, LAMBDA t : t = mark)
  IN IF i = 0 THEN tokens ELSE SubSeq(tokens, 1, i - 1)

After(tokens, mark) ==
  LET i == SelectInSeq(tokens, LAMBDA t : t = mark)
  IN IF i = 0 THEN <<>> ELSE SubSeq(tokens, i + 1, Len(tokens))

(* A plus is a blank and an escape its character; an escape without two    *)
(* digits ends a value, and makes a name unlike any other.                 *)
BadEscape == "%"
Unescaped(token) ==
  CASE token = "+" -> "SP"
    [] token = "n%61me" -> "name"
    [] OTHER -> token

Decode(raw) ==
  LET kept == Before(raw, BadEscape)
  IN [i \in DOMAIN kept |-> Unescaped(kept[i])]

SameName(name, raw) ==
  /\ Len(raw) = Len(name)
  /\ \A i \in DOMAIN name : Unescaped(raw[i]) = name[i]

(* qs_parse: a pair starts behind the first "?" and behind every later "&",*)
(* up to the limit.                                                        *)
PairStarts(raw) ==
  LET q == SelectInSeq(raw, LAMBDA t : t = "?")
      all == IF q = 0 THEN {}
             ELSE {i + 1 : i \in {i \in q..Len(raw) : i = q \/ raw[i] = "&"}}
  IN {i \in all : Cardinality({j \in all : j < i}) < MaxPairs}

Pair(raw, start) == Before(SubSeq(raw, start, Len(raw)), "&")

(* qs_k2v over the decoded pairs: the first pair of that name decides, its *)
(* value ends at a second "=", and a pair without one has an empty value.  *)
Get(raw, name) ==
  LET named == {i \in PairStarts(raw) : SameName(name, Before(Pair(raw, i), "="))}
  IN IF named = {} THEN Missing
     ELSE Decode(Before(After(Pair(raw, Min(named)), "="), "="))

=============================================================================
