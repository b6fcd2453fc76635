----------------------------- MODULE MCMessaging -----------------------------
(* Model checking Messaging.                                                *)
EXTENDS Messaging

Symmetry == Permutations(User) \cup Permutations(Conn)

(* Chat messages to everybody and to each user, while users pretend to be   *)
(* disconnected.                                                            *)
Chatting ==
  {r \in AnyRequest : r.op = "chat" \/ (r.op = "status" /\ r.status = "DISCONNECTED")}

(* Messages and history requests for every kind of chat. *)
Reading == {r \in AnyRequest : r.op \in {"chat", "history"}}

=============================================================================
