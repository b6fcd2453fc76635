---------------------------- MODULE ConnectionLife ----------------------------
(***************************************************************************)
(* What Crow promises to the handlers of a websocket route about the life  *)
(* of one connection object.  The open handler takes or refuses it; the    *)
(* close handler may run any number of times after that, and runs at least *)
(* once before the object is deleted; an address can be used again only    *)
(* after the deletion.                                                     *)
(*                                                                         *)
(* Registry is written on this promise (its variable `phase` moves by      *)
(* these steps); WsConnection, which models Crow's code, is shown to keep  *)
(* it.                                                                     *)
(***************************************************************************)
CONSTANT Conn
VARIABLE life

Life == {"free", "open", "rejected", "closed"}

LifeInit == life = [c \in Conn |-> "free"]

Moves(c, from, to) ==
  /\ life[c] \in from
  /\ life' = [life EXCEPT ![c] = to]

Opens(c) == Moves(c, {"free"}, "open") \/ Moves(c, {"free"}, "rejected")

ClosesOnce(c) == Moves(c, Life \ {"free"}, "closed")

Deletes(c) == Moves(c, {"closed"}, "free")

LifeNext == \E c \in Conn : Opens(c) \/ ClosesOnce(c) \/ Deletes(c)

LifeSpec == LifeInit /\ [][LifeNext]_life
=============================================================================
