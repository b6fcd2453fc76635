------------------------------ MODULE Admission ------------------------------
(***************************************************************************)
(* ValidateMiddleware (src/include/validate_middleware.h): before it opens *)
(* a websocket, a client may ask with a plain GET / whether it could enter *)
(* under a name.  The answer is worked out under `connections_mutex` and   *)
(* changes nothing, so it is a function of the registry.  It goes by the   *)
(* status of the entry, where on_open goes by the connection pointer.      *)
(***************************************************************************)
EXTENDS Registry

CONSTANT LongName  \* stands for every name of more than 20 bytes

ASSUME AdmissionAssumption == LongName \notin User \cup {BadName}

(* What may be asked for: the names on_open accepts, those it refuses and  *)
(* the middleware too (none, "", "~"), and those only on_open refuses.     *)
Asked == User \cup {BadName, LongName}

VerdictByEntry(name) ==  \* mutant: refuses every name that has an entry
  IF name = BadName THEN "invalid"
  ELSE IF name \in User /\ Registered(name) THEN "taken" ELSE "OK"

Taken(name) ==
  /\ name \in User
  /\ Registered(name)
  /\ connections[name].status # "DISCONNECTED"

Verdict(name) ==
  IF name = BadName THEN "invalid" ELSE IF Taken(name) THEN "taken" ELSE "OK"

(* The test of on_open, at the same moment. *)
Refused(name) ==
  name \notin User \/ Connected(name)

-----------------------------------------------------------------------------
(* The check turns nobody away whom on_open would let in: a name it calls  *)
(* taken has a live connection at that moment, although the check never    *)
(* looks at the connection.  It takes on_close, update_status and the      *)
(* monitor together to keep it so, and it fails for "Desconocido", whose   *)
(* status others may change while it is away.  The converse fails for all: *)
(* after opcode 3 with status 0 a connected name is "OK", and so is one    *)
(* that is too long.                                                       *)
NoFalseRefusal ==
  \A name \in Asked \ {Desconocido} : Verdict(name) # "OK" => Refused(name)

=============================================================================
