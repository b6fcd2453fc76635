------------------------------- MODULE Routing -------------------------------
(***************************************************************************)
(* The routes of an application (crow/routing.h).  Every method has a trie *)
(* of the patterns added for it; when the application starts to run, the   *)
(* chains of the trie are merged, and a request then walks the merged trie *)
(* and takes the matching rule that was added first.                       *)
(*                                                                         *)
(* A pattern and a URL are sequences of pieces: characters, or words that  *)
(* stand for several, and in a pattern the parameters below.  Left out:    *)
(* blueprints, catch-all rules, unsigned and floating parameters (read the *)
(* way integers are), signs and the overflow of an integer, and OPTIONS of *)
(* every path (the target "/*").                                           *)
(***************************************************************************)
EXTENDS Naturals, Sequences, FiniteSets, FiniteSetsExt, SequencesExt

CONSTANTS
  Rule,     \* the rules an application may add: [pattern, method, kind]
  MaxRules, \* bound on how many it adds
  Url       \* the URLs the routes are compared on

Method == {"GET", "HEAD", "POST", "OPTIONS", "PUT", "PATCH", "PURGE"}
Param == {"<int>", "<string>", "<path>"}
Digit == {"0", "1", "2"}

ASSUME RoutingAssumption ==
  /\ \A r \in Rule : /\ r.method \in Method
                     /\ r.kind \in {"websocket", "handler"}
                     /\ r.pattern \in Seq(STRING) \ {<<>>}
                     /\ r.pattern[1] = "/"
  /\ Url \subseteq Seq(STRING)

VARIABLES
  rules,   \* the rules of the application, in the order they were added
  phase,   \* "setup", then "running", or "refused": validate() threw
  tries    \* the trie of each method

routeVars == <<rules, phase, tries>>

Redirect == 1                  \* RULE_SPECIAL_REDIRECT_SLASH

(* A trie is the sequence of its nodes, the head first and every node      *)
(* behind its parent; the children of a node are the places they have in   *)
(* it, which are in the order they were added.                             *)
Root == [rule |-> 0, key |-> <<>>, children |-> {}]
Fresh(piece) == [Root EXCEPT !.key = <<piece>>]
IsParam(node) == node.key # <<>> /\ node.key[1] \in Param

ChildAt(trie, at, piece) ==    \* 0 if there is none
  LET children == {c \in trie[at].children : trie[c].key[1] = piece}
  IN IF children = {} THEN 0 ELSE CHOOSE c \in children : TRUE

RuleAt(trie, pattern) ==       \* the rule of the node add() would end at
  LET at[i \in 0..Len(pattern)] ==
        IF i = 0 THEN 1
        ELSE IF at[i - 1] = 0 THEN 0
        ELSE ChildAt(trie, at[i - 1], pattern[i])
      end == at[Len(pattern)]
  IN IF end = 0 THEN 0 ELSE trie[end].rule

(* One turn of the loop in add(): to the child with this piece, or to a new*)
(* one.                                                                    *)
Descend(last, piece) ==
  LET child == ChildAt(last.trie, last.at, piece)
      new == Len(last.trie) + 1
  IN IF child # 0 THEN [trie |-> last.trie, at |-> child]
     ELSE [trie |-> Append([last.trie EXCEPT ![last.at].children = @ \cup {new}],
                           Fresh(piece)),
           at |-> new]

Add(trie, pattern, index) ==
  LET walk[i \in 0..Len(pattern)] ==
        IF i = 0 THEN [trie |-> trie, at |-> 1] ELSE Descend(walk[i - 1], pattern[i])
      end == walk[Len(pattern)]
  IN [end.trie EXCEPT ![end.at].rule = index]

IsSimpleOnlyChild(trie, node) ==  \* mutant: a node that ends a rule is merged too
  /\ ~IsParam(node)
  /\ \A c, d \in node.children : c = d
  /\ \A c \in node.children : ~IsParam(trie[c])

IsSimple(trie, node) ==
  /\ node.rule = 0
  /\ ~IsParam(node)
  /\ \A c, d \in node.children : c = d
  /\ \A c \in node.children : ~IsParam(trie[c])

(* A simple node becomes its child, with the keys put together; the place  *)
(* of the child is left behind.  The head itself is never merged.          *)
Optimize(trie) ==
  LET optimizeNode[i \in DOMAIN trie] ==
        LET node == trie[i]
            child == CHOOSE c \in node.children : TRUE
        IN IF node.children # {} /\ IsSimple(trie, node)
           THEN [optimizeNode[child] EXCEPT !.key = node.key \o @]
           ELSE node
  IN [i \in DOMAIN trie |-> IF i = 1 THEN trie[1] ELSE optimizeNode[i]]

(* internal_add_rule_object: the index of a rule is its place among the    *)
(* rules of its method, behind the two indexes with a meaning of their own;*)
(* "/about/" answers "/about" with a redirect.                             *)
HasSlash(pattern) == Len(pattern) > 1 /\ Last(pattern) = "/"

Insert(table, r) ==
  LET index == table.count[r.method] + 2
      trie == Add(table.trie[r.method], r.pattern, index)
      bare == Front(r.pattern)
  IN [ok |-> /\ table.ok
             /\ RuleAt(table.trie[r.method], r.pattern) = 0
             /\ HasSlash(r.pattern) => RuleAt(trie, bare) = 0,
      count |-> [table.count EXCEPT ![r.method] = @ + 1],
      trie |-> [table.trie EXCEPT ![r.method] =
                  IF HasSlash(r.pattern) THEN Add(trie, bare, Redirect)
                  ELSE trie]]

-----------------------------------------------------------------------------
(* How much of the URL a key takes: an integer all the digits, a string up *)
(* to the next slash, a path the rest; 0 when the key does not match.      *)
Until(stop, url) == IF stop = 0 THEN Len(url) ELSE stop - 1

Eaten(key, url) ==
  CASE key = <<"<int>">>    -> Until(SelectInSeq(url, LAMBDA c : c \notin Digit), url)
    [] key = <<"<string>">> -> Until(SelectInSeq(url, LAMBDA c : c = "/"), url)
    [] key = <<"<path>">>   -> Len(url)
    [] OTHER -> IF IsPrefix(key, url) THEN Len(key) ELSE 0

Drop(url, n) == SubSeq(url, n + 1, Len(url))
Capture(key, url) ==
  IF key[1] \in Param THEN <<SubSeq(url, 1, Eaten(key, url))>> ELSE <<>>

(* What find() makes of the children it tried: the lowest rule, the first  *)
(* child of several with the same (update_found).                          *)
NotFound == [rule |-> 0, params |-> <<>>]
Best(rets) ==
  LET hits == {c \in DOMAIN rets : rets[c].rule # 0}
      first == CHOOSE c \in hits : \A d \in hits :
                 \/ rets[c].rule < rets[d].rule
                 \/ rets[c].rule = rets[d].rule /\ c <= d
  IN IF hits = {} THEN NotFound ELSE rets[first]

(* Into a child, if its key is what comes next; `found` is what find() has *)
(* found in it behind every part of the URL.                               *)
Enter(key, found, url, pos) ==
  LET rest == Drop(url, pos)
      ret == found[pos + Eaten(key, rest)]
  IN IF Eaten(key, rest) = 0 THEN NotFound
     ELSE [rule |-> ret.rule, params |-> Capture(key, rest) \o ret.params]

Find(trie, url) ==
  LET find[at \in DOMAIN trie] ==
        [pos \in 0..Len(url) |->
           IF pos = Len(url) THEN [rule |-> trie[at].rule, params |-> <<>>]
           ELSE Best([c \in trie[at].children |->
                        Enter(trie[c].key, find[c], url, pos)])]
  IN find[1][0]

Lookup(method, url) == Find(tries[method], url)

(* Router::handle_initial, asked when the URL of a request is complete, or *)
(* ends with the bytes read so far.  A code other than 0 is the answer and *)
(* the end of the request.                                                 *)
Routed(method, found) ==
  [code |-> "none", method |-> method, rule |-> found.rule,
   params |-> found.params]
Unrouted(code) ==
  [code |-> code, method |-> "none", rule |-> 0, params |-> <<>>]
InSomeMethod(url) == \E m \in Method : Lookup(m, url).rule # 0
ErrorFor(url) == IF InSomeMethod(url) THEN "405" ELSE "404"

HandleInitial(method, url) ==
  LET own == Lookup(method, url)
      get == Lookup("GET", url)
  IN CASE method = "OPTIONS" ->
            Unrouted(IF InSomeMethod(url) THEN "204" ELSE "404")
       [] method # "OPTIONS" /\ own.rule # 0 -> Routed(method, own)
       [] method = "HEAD" /\ own.rule = 0 ->
            IF get.rule # 0 THEN Routed("GET", get) ELSE Unrouted("404")
       [] method \notin {"OPTIONS", "HEAD"} /\ own.rule = 0 ->
            Unrouted(ErrorFor(url))

Mine(method) == {i \in DOMAIN rules : rules[i].method = method}
Index(i) == 1 + Cardinality({j \in Mine(rules[i].method) : j <= i})
KindOf(method, index) ==
  rules[CHOOSE i \in Mine(method) : Index(i) = index].kind

(* Router::handle_upgrade: only a websocket rule of the request's own      *)
(* method takes an upgrade over.  The other codes are set in the response, *)
(* but nobody writes it.                                                   *)
HandleUpgrade(method, url) ==
  LET own == Lookup(method, url).rule
  IN CASE own = 0 -> ErrorFor(url)
       [] own = Redirect -> "301"
       [] own > Redirect ->
            IF KindOf(method, own) = "websocket" THEN "101" ELSE "404"

-----------------------------------------------------------------------------
RoutingInit ==
  /\ rules = <<>>
  /\ phase = "setup"
  /\ tries = [m \in Method |-> <<Root>>]

(* CROW_ROUTE, CROW_WEBSOCKET_ROUTE; add_static_dir when run() begins. *)
AddRule ==
  /\ phase = "setup"
  /\ Len(rules) < MaxRules
  /\ \E r \in Rule : rules' = Append(rules, r)
  /\ UNCHANGED <<phase, tries>>

(* Router::validate, when run() begins: every rule is added to the trie of *)
(* its method; a pattern that is taken throws, and run() with it.  Then    *)
(* the tries are optimised.                                                *)
Validate ==
  /\ phase = "setup"
  /\ LET table[i \in 0..Len(rules)] ==
           IF i = 0
           THEN [ok |-> TRUE, count |-> [m \in Method |-> 0], trie |-> tries]
           ELSE Insert(table[i - 1], rules[i])
         full == table[Len(rules)]
     IN IF full.ok
        THEN /\ phase' = "running"
             /\ tries' = [m \in Method |-> Optimize(full.trie[m])]
        ELSE /\ phase' = "refused"
             /\ UNCHANGED tries
  /\ UNCHANGED rules

RoutingNext == AddRule \/ Validate

-----------------------------------------------------------------------------
(* What the rules say, without a trie: a pattern is read piece by piece.   *)
Begun == [ok |-> TRUE, pos |-> 0, params |-> <<>>]
ReadOn(last, key, url) ==
  LET rest == Drop(url, last.pos)
  IN [ok |-> last.ok /\ Eaten(key, rest) > 0,
      pos |-> last.pos + Eaten(key, rest),
      params |-> last.params \o Capture(key, rest)]

ReadBy(pattern, url) ==
  LET read[i \in 0..Len(pattern)] ==
        IF i = 0 THEN Begun ELSE ReadOn(read[i - 1], <<pattern[i]>>, url)
  IN read[Len(pattern)]

Matches(pattern, url) ==
  LET taken == ReadBy(pattern, url)
  IN taken.ok /\ taken.pos = Len(url)
Captures(pattern, url) == ReadBy(pattern, url).params

Matching(method, url) == {i \in Mine(method) : Matches(rules[i].pattern, url)}
Redirected(method, url) ==
  \E i \in Mine(method) :
    HasSlash(rules[i].pattern) /\ Matches(Front(rules[i].pattern), url)

FirstRule(method, url) ==
  LET first == Min(Matching(method, url))
  IN IF Redirected(method, url) THEN [rule |-> Redirect, params |-> <<>>]
     ELSE IF Matching(method, url) = {} THEN NotFound
     ELSE [rule |-> Index(first), params |-> Captures(rules[first].pattern, url)]

TrieAgrees ==
  \A m \in {r.method : r \in Rule}, url \in Url :
    LET found == Lookup(m, url)
        first == FirstRule(m, url)
    IN /\ found.rule = first.rule
       /\ found.rule > Redirect => found.params = first.params

=============================================================================
