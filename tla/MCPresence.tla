----------------------------- MODULE MCPresence -----------------------------
(* Model checking Presence.  The names and the connection objects (with the *)
(* threads named after them) are interchangeable, but for Desconocido.      *)
EXTENDS Presence, TLC

Symmetry == Permutations(User \ {Desconocido}) \cup Permutations(Conn)

(* Enough requests to reach every status: INACTIVO and ACTIVO come about by *)
(* the monitor, by chat messages and by joining.                            *)
Few ==
  {r \in AnyRequest : \/ r.op = "message"
                      \/ r.op = "change" /\ r.status \in {"OCUPADO", InvalidStatus}}

(* `told` is only ever written to, so that states which differ in it alone  *)
(* have the same futures in the other variables, and of it ViewsSettle asks *)
(* only who is wrongly shown as ACTIVO or OCUPADO.  PresenceTypeOK reads    *)
(* all of `told`; there the run is no full check, and PresenceTypeCorrect,  *)
(* which knows no view, is the proof.                                       *)
Shown(d, u) ==
  IF u # Desconocido /\ told[d][u] \in {"ACTIVO", "OCUPADO"} /\ ~Owns(d, u)
    THEN told[d][u]
    ELSE Absent

Settled == <<regvars, threadvars, [d \in Conn |-> [u \in User |-> Shown(d, u)]]>>
=============================================================================
