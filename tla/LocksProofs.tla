---------------------------- MODULE LocksProofs ----------------------------
(***************************************************************************)
(* Proofs about the mutexes: of Locks, for any number of handlers, that    *)
(* they are taken in order and nobody waits for a task with one in hand;   *)
(* of Logger, for any lines and any number of them, that no line is lost   *)
(* and the consumer never sleeps on work.                                  *)
(*                                                                         *)
(* The programs are judged piece by piece, as in a logic of programs:      *)
(* Orderly(p, H, K) says that p, begun with the locks H, keeps to the      *)
(* rules and ends with the locks K.  The invariant is that this is so of   *)
(* what every thread has still to do, with H the locks it holds and K      *)
(* none.                                                                   *)
(***************************************************************************)
EXTENDS Locks, Logger, SequenceTheorems, TLAPS

Op == [do : {"lock", "unlock"}, lock : Lock] \cup {Spawn, Join}

(* One operation, from the locks A to the locks B. *)
Allowed(o, A, B) ==
  \/ o.do = "lock" /\ (\A l \in A : Rank(l) < Rank(o.lock)) /\ B = A \cup {o.lock}
  \/ o.do = "unlock" /\ o.lock \in A /\ B = A \ {o.lock}
  \/ o.do \in {"spawn", "join"} /\ A = {} /\ B = {}

(* A task is waited for as soon as it is started. *)
Paired(p) == \A k \in 1 .. Len(p) : p[k].do = "spawn" => k < Len(p) /\ p[k + 1].do = "join"

(* held[k] is held before the k-th operation. *)
Accounts(held, p, H, K) ==
  /\ held[1] = H
  /\ held[Len(p) + 1] = K
  /\ \A k \in 1 .. Len(p) : Allowed(p[k], held[k], held[k + 1])

Orderly(p, H, K) ==
  /\ p \in Seq(Op)
  /\ Paired(p)
  /\ \E held \in [1 .. Len(p) + 1 -> SUBSET Lock] : Accounts(held, p, H, K)

-----------------------------------------------------------------------------
(* The rules of the logic.                                                 *)

LEMMA Nothing ==
  ASSUME NEW H \in SUBSET Lock PROVE Orderly(<<>>, H, H)
<1> DEFINE held == [k \in 1 .. 1 |-> H]
<1>1. <<>> \in Seq(Op) /\ Len(<<>>) = 0
  OBVIOUS
<1>2. held \in [1 .. 0 + 1 -> SUBSET Lock] /\ held[1] = H /\ held[0 + 1] = H
  OBVIOUS
<1> HIDE DEF held
<1>3. Accounts(held, <<>>, H, H)
  BY <1>1, <1>2 DEF Accounts
<1> QED
  BY <1>1, <1>2, <1>3 DEF Orderly, Paired

LEMMA Single ==
  ASSUME NEW o \in Op, o.do # "spawn", NEW A \in SUBSET Lock, NEW B \in SUBSET Lock,
         Allowed(o, A, B)
  PROVE  Orderly(<<o>>, A, B)
<1> DEFINE held == [k \in 1 .. 2 |-> IF k = 1 THEN A ELSE B]
<1>1. <<o>> \in Seq(Op) /\ Len(<<o>>) = 1 /\ <<o>>[1] = o
  OBVIOUS
<1>2. held \in [1 .. 1 + 1 -> SUBSET Lock] /\ held[1] = A /\ held[1 + 1] = B
  OBVIOUS
<1> HIDE DEF held
<1>3. Accounts(held, <<o>>, A, B)
  BY <1>1, <1>2 DEF Accounts
<1> QED
  BY <1>1, <1>2, <1>3 DEF Orderly, Paired

(* std::async and the wait for it, with no mutex in hand. *)
LEMMA Waiting == Orderly(<<Spawn, Join>>, {}, {})
<1> DEFINE held == [k \in 1 .. 3 |-> {}]
<1>1. <<Spawn, Join>> \in Seq(Op) /\ Len(<<Spawn, Join>>) = 2
  BY DEF Op
<1>2. <<Spawn, Join>>[1].do = "spawn" /\ <<Spawn, Join>>[2].do = "join"
  BY DEF Spawn, Join
<1>3. /\ held \in [1 .. 2 + 1 -> SUBSET Lock]
      /\ \A k \in 1 .. 3 : held[k] = {}
  OBVIOUS
<1> HIDE DEF held
<1>4. Accounts(held, <<Spawn, Join>>, {}, {})
  BY <1>1, <1>2, <1>3 DEF Accounts, Allowed
<1>5. Paired(<<Spawn, Join>>)
  BY <1>1, <1>2 DEF Paired
<1> QED
  BY <1>1, <1>3, <1>4, <1>5 DEF Orderly

(* One piece after the other. *)
LEMMA Composed ==
  ASSUME NEW p, NEW q, NEW A, NEW B, NEW C, Orderly(p, A, B), Orderly(q, B, C)
  PROVE  Orderly(p \o q, A, C)
<1>1. p \in Seq(Op) /\ q \in Seq(Op)
  BY DEF Orderly
<1>2. PICK f \in [1 .. Len(p) + 1 -> SUBSET Lock] : Accounts(f, p, A, B)
  BY DEF Orderly
<1>3. PICK g \in [1 .. Len(q) + 1 -> SUBSET Lock] : Accounts(g, q, B, C)
  BY DEF Orderly
<1> DEFINE r == p \o q
           m == Len(p)
           n == Len(q)
           held == [k \in 1 .. m + n + 1 |-> IF k <= m THEN f[k] ELSE g[k - m]]
<1>4. m \in Nat /\ n \in Nat
  BY <1>1
<1>5. /\ r \in Seq(Op) /\ Len(r) = m + n
      /\ \A k \in 1 .. m : r[k] = p[k]
      /\ \A k \in 1 .. n : r[m + k] = q[k]
  <2>1. r \in Seq(Op)
    BY <1>1
  <2>2. Len(r) = m + n
    BY <1>1
  <2>3. ASSUME NEW k \in 1 .. m PROVE r[k] = p[k]
    BY <1>1
  <2>4. ASSUME NEW k \in 1 .. n PROVE r[m + k] = q[k]
    BY <1>1
  <2> QED
    BY <2>1, <2>2, <2>3, <2>4
<1> HIDE DEF r, m, n
<1>6. f[m + 1] = g[1]
  BY <1>2, <1>3 DEF Accounts, m
<1>7. /\ \A k \in 1 .. m + 1 : held[k] = f[k]
      /\ \A k \in 1 .. n + 1 : held[m + k] = g[k]
  BY <1>4, <1>6
<1>8. held \in [1 .. m + n + 1 -> SUBSET Lock]
  BY <1>2, <1>3, <1>4 DEF m, n
<1> HIDE DEF held
<1>9. ASSUME NEW k \in 1 .. m + n
      PROVE  /\ Allowed(r[k], held[k], held[k + 1])
             /\ r[k].do = "spawn" => k < m + n /\ r[k + 1].do = "join"
  <2>1. CASE k \in 1 .. m
    <3>1. Allowed(p[k], f[k], f[k + 1])
      BY <1>2, <2>1 DEF Accounts, m
    <3>2. held[k] = f[k] /\ held[k + 1] = f[k + 1] /\ r[k] = p[k]
      <4>1. k \in 1 .. m + 1 /\ k + 1 \in 1 .. m + 1
        BY <1>4, <2>1
      <4>2. held[k] = f[k] /\ held[k + 1] = f[k + 1]
        BY <1>7, <4>1
      <4>3. r[k] = p[k]
        BY <1>5, <2>1
      <4> QED
        BY <4>2, <4>3
    <3>3. p[k].do = "spawn" => k < m /\ p[k + 1].do = "join"
      BY <2>1 DEF Orderly, Paired, m
    <3>4. k < m => r[k + 1] = p[k + 1]
      <4>1. k < m => k + 1 \in 1 .. m
        BY <1>4, <2>1
      <4>2. \A i \in 1 .. m : r[i] = p[i]
        BY <1>5
      <4> QED
        BY <4>1, <4>2
    <3> QED
      BY <1>4, <2>1, <3>1, <3>2, <3>3, <3>4
  <2>2. CASE k \in m + 1 .. m + n
    <3>1. PICK i \in 1 .. n : k = m + i
      <4>1. k - m \in 1 .. n /\ k = m + (k - m)
        BY <1>4, <2>2
      <4> QED
        BY <4>1
    <3>2. Allowed(q[i], g[i], g[i + 1])
      BY <1>3 DEF Accounts, n
    <3>3. held[k] = g[i] /\ held[k + 1] = g[i + 1] /\ r[k] = q[i]
      <4>1. held[m + (i + 1)] = g[i + 1] /\ m + (i + 1) = k + 1
        BY <1>4, <1>7, <3>1
      <4> QED
        BY <1>4, <1>5, <1>7, <3>1, <4>1
    <3>4. q[i].do = "spawn" => i < n /\ q[i + 1].do = "join"
      BY DEF Orderly, Paired, n
    <3>5. i < n => r[k + 1] = q[i + 1]
      <4>1. i < n => r[m + (i + 1)] = q[i + 1] /\ m + (i + 1) = k + 1
        BY <1>4, <1>5, <3>1
      <4> QED
        BY <4>1
    <3> QED
      BY <1>4, <3>1, <3>2, <3>3, <3>4, <3>5
  <2> QED
    BY <1>4, <2>1, <2>2
<1>10. held[1] = A /\ held[m + n + 1] = C
  <2>1. f[1] = A /\ g[n + 1] = C
    BY <1>2, <1>3 DEF Accounts, n
  <2>2. held[1] = f[1] /\ held[m + (n + 1)] = g[n + 1] /\ m + (n + 1) = m + n + 1
    BY <1>4, <1>7
  <2> QED
    BY <2>1, <2>2
<1>11. Orderly(r, A, C)
  BY <1>4, <1>5, <1>8, <1>9, <1>10 DEF Orderly, Accounts, Paired
<1> QED
  BY <1>11 DEF r

(* What is left of an orderly program is orderly, from the locks that its  *)
(* first operation leaves.                                                 *)
LEMMA Rest ==
  ASSUME NEW p, NEW H, NEW K, Orderly(p, H, K), p # <<>>
  PROVE  /\ Head(p) \in Op /\ Tail(p) \in Seq(Op)
         /\ \E B \in SUBSET Lock : Allowed(Head(p), H, B) /\ Orderly(Tail(p), B, K)
<1>1. p \in Seq(Op) /\ Paired(p)
  BY DEF Orderly
<1>2. PICK f \in [1 .. Len(p) + 1 -> SUBSET Lock] : Accounts(f, p, H, K)
  BY DEF Orderly
<1> DEFINE r == Tail(p)
           m == Len(r)
           held == [k \in 1 .. m + 1 |-> f[k + 1]]
<1>3. /\ Head(p) = p[1] /\ Head(p) \in Op
      /\ r \in Seq(Op)
      /\ m \in Nat /\ Len(p) = m + 1
  BY <1>1
<1>4. ASSUME NEW k \in 1 .. m PROVE r[k] = p[k + 1]
  BY <1>1
<1> HIDE DEF r, m
<1>5. /\ held \in [1 .. m + 1 -> SUBSET Lock]
      /\ \A k \in 1 .. m + 1 : held[k] = f[k + 1]
  BY <1>2, <1>3
<1> HIDE DEF held
<1>6. Allowed(Head(p), H, f[2]) /\ f[2] \in SUBSET Lock
  <2>1. 1 \in 1 .. Len(p) /\ 2 \in 1 .. Len(p) + 1 /\ 1 + 1 = 2
    BY <1>3
  <2> QED
    BY <1>2, <1>3, <2>1 DEF Accounts
<1>7. held[1] = f[2] /\ held[m + 1] = K
  <2>1. 1 \in 1 .. m + 1 /\ m + 1 \in 1 .. m + 1 /\ 1 + 1 = 2
    BY <1>3
  <2>2. f[(m + 1) + 1] = K
    BY <1>2, <1>3 DEF Accounts
  <2> QED
    BY <1>5, <2>1, <2>2
<1>8. ASSUME NEW k \in 1 .. m
      PROVE  /\ Allowed(r[k], held[k], held[k + 1])
             /\ r[k].do = "spawn" => k < m /\ r[k + 1].do = "join"
  <2>1. k \in 1 .. m + 1 /\ k + 1 \in 1 .. m + 1 /\ k + 1 \in 1 .. Len(p)
    BY <1>3
  <2>2. Allowed(p[k + 1], f[k + 1], f[(k + 1) + 1])
    BY <1>2, <2>1 DEF Accounts
  <2>3. held[k] = f[k + 1] /\ held[k + 1] = f[(k + 1) + 1] /\ r[k] = p[k + 1]
    BY <1>4, <1>5, <2>1
  <2>4. p[k + 1].do = "spawn" => k + 1 < m + 1 /\ p[(k + 1) + 1].do = "join"
    BY <1>1, <1>3, <2>1 DEF Paired
  <2>5. k + 1 < m + 1 => k < m /\ r[k + 1] = p[(k + 1) + 1]
    <3>1. k + 1 < m + 1 => k < m /\ k + 1 \in 1 .. m
      BY <1>3
    <3> QED
      BY <1>4, <3>1
  <2> QED
    BY <2>2, <2>3, <2>4, <2>5
<1>9. Orderly(r, f[2], K)
  BY <1>3, <1>5, <1>7, <1>8 DEF Orderly, Accounts, Paired, m
<1> QED
  BY <1>3, <1>6, <1>9 DEF r

(* A program that is over leaves the locks it had. *)
LEMMA Over ==
  ASSUME NEW H, NEW K, Orderly(<<>>, H, K) PROVE H = K
  BY DEF Orderly, Accounts

-----------------------------------------------------------------------------
(* What each thread does is orderly, from no lock to no lock.              *)

LEMMA WithinOrderly ==
  ASSUME NEW l \in Lock, NEW A \in SUBSET Lock, \A k \in A : Rank(k) < Rank(l),
         NEW body, Orderly(body, A \cup {l}, A \cup {l})
  PROVE  Orderly(Within(l, body), A, A)
<1>1. l \notin A
  BY DEF Rank
<1>2. Acquire(l) \in Op /\ Release(l) \in Op
  BY DEF Acquire, Release, Op
<1>3. Orderly(<<Acquire(l)>>, A, A \cup {l})
  BY <1>2, Single DEF Acquire, Allowed
<1>4. Orderly(<<Release(l)>>, A \cup {l}, A)
  BY <1>1, <1>2, Single DEF Release, Allowed
<1>5. Orderly(<<Acquire(l)>> \o body, A, A \cup {l})
  BY <1>3, Composed
<1>6. Orderly((<<Acquire(l)>> \o body) \o <<Release(l)>>, A, A)
  BY <1>4, <1>5, Composed
<1> QED
  BY <1>6 DEF Within

InConnections == {"connections_mutex"}

LEMMA LogOrderly ==
  ASSUME NEW A \in {{}, InConnections}
  PROVE  Orderly(Log, A, A) /\ Orderly(Flag, A, A)
<1>1. A \in SUBSET Lock /\ "queueMutex" \in Lock /\ "inactivity_mutex" \in Lock
  BY DEF InConnections, Lock
<1>2. \A k \in A : Rank(k) < Rank("queueMutex") /\ Rank(k) < Rank("inactivity_mutex")
  BY DEF InConnections, Rank
<1>3. Orderly(<<>>, A \cup {"queueMutex"}, A \cup {"queueMutex"})
  BY <1>1, Nothing
<1>4. Orderly(<<>>, A \cup {"inactivity_mutex"}, A \cup {"inactivity_mutex"})
  BY <1>1, Nothing
<1> QED
  BY <1>1, <1>2, <1>3, <1>4, WithinOrderly DEF Log, Flag

LEMMA ConnectionsOrderly ==
  ASSUME NEW body, Orderly(body, InConnections, InConnections)
  PROVE  Orderly(Connections(body), {}, {})
<1>1. "connections_mutex" \in Lock /\ {} \in SUBSET Lock
      /\ {} \cup {"connections_mutex"} = InConnections
  BY DEF Lock, InConnections
<1> QED
  BY <1>1, WithinOrderly DEF Connections

LEMMA HelpersOrderly ==
  /\ Orderly(<<>>, {}, {})
  /\ Orderly(Log, {}, {})
  /\ Orderly(Flag, {}, {})
  /\ Orderly(Connections(<<>>), {}, {})
  /\ Orderly(Connections(Log), {}, {})
  /\ Orderly(Connections(Log \o Flag), {}, {})
<1>1. InConnections \in SUBSET Lock /\ {} \in SUBSET Lock
  BY DEF InConnections, Lock
<1>2. Orderly(<<>>, InConnections, InConnections) /\ Orderly(<<>>, {}, {})
  BY <1>1, Nothing
<1>3. Orderly(Log, InConnections, InConnections) /\ Orderly(Flag, InConnections, InConnections)
  BY LogOrderly
<1>4. Orderly(Log \o Flag, InConnections, InConnections)
  BY <1>3, Composed
<1> QED
  BY <1>2, <1>3, <1>4, LogOrderly, ConnectionsOrderly

(* The programs of the threads, one by one. *)
LEMMA ProgramsOrderly ==
  /\ Orderly(task, {}, {})
  /\ \A t \in Thread : \A p \in Programs(t) : Orderly(p, {}, {})
<1> DEFINE L == Log
           C == Connections(Log)
           Empty == Connections(<<>>)
           Idle(p) == Orderly(p, {}, {})
<1>1. Idle(<<>>) /\ Idle(L) /\ Idle(Flag) /\ Idle(C) /\ Idle(Empty)
      /\ Idle(Connections(Log \o Flag)) /\ Idle(<<Spawn, Join>>)
  BY HelpersOrderly, Waiting
<1>2. ASSUME NEW p, NEW q, Idle(p), Idle(q) PROVE Idle(p \o q)
  BY <1>2, Composed
<1> HIDE DEF L, C, Empty, Idle
<1>3. Idle(notify) /\ Idle(update_status)
  <2>1. Idle(notify)
    BY <1>1 DEF notify, C
  <2> QED
    BY <1>1, <1>2, <2>1 DEF update_status, C
<1>4. Idle(on_open)
  <2>1. Idle(C \o L)
    BY <1>1, <1>2
  <2>2. Idle((C \o L) \o C)
    BY <1>1, <1>2, <2>1
  <2>3. Idle(((C \o L) \o C) \o L)
    BY <1>1, <1>2, <2>2
  <2>4. Idle((((C \o L) \o C) \o L) \o notify)
    BY <1>2, <1>3, <2>3
  <2> QED
    BY <2>4 DEF on_open, C, L
<1>5. Idle(on_close)
  BY <1>1, <1>2, <1>3 DEF on_close, C
<1>6. Idle(task)
  <2>1. Idle(L \o C)
    BY <1>1, <1>2
  <2>2. Idle((L \o C) \o L)
    BY <1>1, <1>2, <2>1
  <2> QED
    BY <2>2 DEF task, C, L
<1>7. Idle(monitor)
  <2>1. Idle(Connections(Log \o Flag) \o notify)
    BY <1>1, <1>2, <1>3
  <2>2. Idle((Connections(Log \o Flag) \o notify) \o Flag)
    BY <1>1, <1>2, <2>1
  <2> QED
    BY <2>2 DEF monitor
<1>8. Idle(cleanup) /\ Idle(log_consumer)
  BY <1>1 DEF cleanup, log_consumer, C, L, Log
<1>9. ASSUME NEW w \in {list_or_info, change_status, send_message, refuse_message, get_history}
      PROVE  Idle(w)
  <2>1. Idle(list_or_info)
    BY <1>1 DEF list_or_info, C
  <2>2. Idle(change_status)
    <3>1. Idle(Empty \o L)
      BY <1>1, <1>2
    <3>2. Idle((Empty \o L) \o update_status)
      BY <1>2, <1>3, <3>1
    <3> QED
      BY <3>2 DEF change_status, Empty, L
  <2>3. Idle(send_message)
    BY <1>1, <1>2 DEF send_message, Empty
  <2>4. Idle(get_history)
    BY <1>1, <1>2 DEF get_history, Empty, L
  <2>5. Idle(refuse_message)
    BY <1>1 DEF refuse_message, C
  <2> QED
    BY <2>1, <2>2, <2>3, <2>4, <2>5
<1>10. ASSUME NEW p \in on_message PROVE Idle(p)
  <2> DEFINE First == {<<>>, update_status}
             Works == {list_or_info, change_status, send_message, refuse_message, get_history}
             Whole(reactivation, work) == Log \o Connections(Log) \o reactivation \o Log \o work
  <2>1. on_message = {Whole(reactivation, work) : reactivation \in First, work \in Works}
    BY DEF on_message
  <2> HIDE DEF First, Works, Whole
  <2>2. PICK reactivation \in First, work \in Works : p = Whole(reactivation, work)
    BY <2>1
  <2>3. /\ reactivation \in {<<>>, update_status}
        /\ work \in {list_or_info, change_status, send_message, refuse_message, get_history}
        /\ p = Log \o Connections(Log) \o reactivation \o Log \o work
    BY <2>2 DEF First, Works, Whole
  <2>4. Idle(reactivation) /\ Idle(work)
    BY <1>1, <1>3, <1>9, <2>3
  <2>5. Idle(L \o C)
    BY <1>1, <1>2
  <2>6. Idle((L \o C) \o reactivation)
    BY <1>2, <2>4, <2>5
  <2>7. Idle(((L \o C) \o reactivation) \o L)
    BY <1>1, <1>2, <2>6
  <2>8. Idle((((L \o C) \o reactivation) \o L) \o work)
    BY <1>2, <2>4, <2>7
  <2> QED
    BY <2>3, <2>8 DEF C, L
<1>11. ASSUME NEW t \in Thread, NEW p \in Programs(t) PROVE Idle(p)
  <2>1. p \in Handlers \cup {monitor, cleanup, log_consumer}
    BY DEF Programs
  <2> QED
    BY <1>4, <1>5, <1>7, <1>8, <1>10, <2>1 DEF Handlers
<1> QED
  BY <1>6, <1>11 DEF Idle

-----------------------------------------------------------------------------
(* The invariant.                                                          *)

LocksBase ==
  /\ owner \in [Lock -> Thread \cup {NoThread}]
  /\ DOMAIN rest = Thread
  /\ rest = [t \in Thread |-> rest[t]]

(* Every thread will keep to the rules and let go of what it holds. *)
AllOrderly == \A t \in Thread : Orderly(rest[t], Held(t), {})

(* A task runs only while its handler waits for it. *)
TaskAwaited == \A h \in Handler : rest[[of |-> h]] # <<>> => At(h, "join")

LocksInv == LocksBase /\ AllOrderly /\ TaskAwaited

LEMMA Threads ==
  /\ \A h \in Handler : h \in Thread /\ [of |-> h] \in Thread /\ [of |-> h] # h
  /\ \A g, h \in Handler : [of |-> h] # g /\ ([of |-> g] = [of |-> h] => g = h)
  /\ \A h \in Handler : Programs([of |-> h]) = {}
<1>1. ASSUME NEW h \in Handler PROVE [of |-> h] \in Task
  BY DEF Task
<1>2. ASSUME NEW g \in Handler, NEW h \in Handler, [of |-> g] = [of |-> h] PROVE g = h
  <2>1. [of |-> g].of = g /\ [of |-> h].of = h
    OBVIOUS
  <2> QED
    BY <1>2, <2>1
<1>3. ASSUME NEW h \in Handler PROVE Programs([of |-> h]) = {}
  BY <1>1, LocksAssumption DEF Programs, Background
<1> QED
  BY <1>1, <1>2, <1>3, LocksAssumption DEF Thread

(* What the first operation of a thread that is about to act can be. *)
LEMMA Acting ==
  ASSUME LocksInv, NEW t \in Thread, rest[t] # <<>>
  PROVE  /\ Head(rest[t]) \in Op
         /\ Tail(rest[t]) \in Seq(Op)
         /\ \E B \in SUBSET Lock : /\ Allowed(Head(rest[t]), Held(t), B)
                                  /\ Orderly(Tail(rest[t]), B, {})
  BY Rest DEF LocksInv, AllOrderly

LEMMA InitInv == Init => LocksInv
<1> SUFFICES ASSUME Init PROVE LocksInv
  OBVIOUS
<1>1. ASSUME NEW t \in Thread PROVE Held(t) = {}
  BY LocksAssumption DEF Init, Held
<1>2. Orderly(<<>>, {}, {})
  BY HelpersOrderly
<1> QED
  BY <1>1, <1>2, Threads DEF Init, LocksInv, LocksBase, AllOrderly, TaskAwaited

LEMMA BeginInv ==
  ASSUME LocksInv, NEW t \in Thread, Begin(t) PROVE LocksInv'
<1>1. PICK p \in Programs(t) : rest' = [rest EXCEPT ![t] = p]
  BY DEF Begin
<1>2. Orderly(p, {}, {})
  BY ProgramsOrderly
<1>3. Held(t) = {}
  BY Over DEF Begin, LocksInv, AllOrderly
<1>4. LocksBase'
  BY <1>1 DEF Begin, LocksInv, LocksBase
<1>5. ASSUME NEW u \in Thread PROVE Orderly(rest'[u], Held(u)', {})
  BY <1>1, <1>2, <1>3 DEF Begin, LocksInv, LocksBase, AllOrderly, Held
<1>6. ASSUME NEW h \in Handler, rest'[[of |-> h]] # <<>> PROVE At(h, "join")'
  <2>1. t # [of |-> h]
    BY Threads
  <2>2. At(h, "join")
    BY <1>1, <1>6, <2>1, Threads DEF LocksInv, LocksBase, TaskAwaited
  <2>3. t # h
    BY <2>2 DEF Begin, At
  <2> QED
    BY <1>1, <2>2, <2>3, Threads DEF LocksInv, LocksBase, At
<1> QED
  BY <1>4, <1>5, <1>6 DEF LocksInv, AllOrderly, TaskAwaited

(* Locking and unlocking do not disturb who waits for whom. *)
LEMMA StillAwaited ==
  ASSUME LocksInv, NEW t \in Thread, At(t, "lock") \/ At(t, "unlock"),
         rest' = [rest EXCEPT ![t] = Tail(@)]
  PROVE  TaskAwaited'
<1>1. ASSUME NEW h \in Handler, rest'[[of |-> h]] # <<>> PROVE At(h, "join")'
  <2>1. rest[[of |-> h]] # <<>>
    <3>1. CASE t = [of |-> h]
      BY <3>1 DEF At
    <3>2. CASE t # [of |-> h]
      BY <1>1, <3>2, Threads DEF LocksInv, LocksBase
    <3> QED
      BY <3>1, <3>2
  <2>2. At(h, "join")
    BY <2>1 DEF LocksInv, TaskAwaited
  <2>3. t # h
    BY <2>2 DEF At
  <2> QED
    BY <2>2, <2>3, Threads DEF LocksInv, LocksBase, At
<1> QED
  BY <1>1 DEF TaskAwaited

LEMMA TakeLockInv ==
  ASSUME LocksInv, NEW t \in Thread, TakeLock(t) PROVE LocksInv'
<1> DEFINE l == Head(rest[t]).lock
<1>1. PICK B \in SUBSET Lock : Allowed(Head(rest[t]), Held(t), B) /\ Orderly(Tail(rest[t]), B, {})
  BY Acting DEF TakeLock, At
<1>2. l \in Lock /\ B = Held(t) \cup {l}
  <2>1. Head(rest[t]).do = "lock" /\ Head(rest[t]) \in Op
    BY Acting DEF TakeLock, At
  <2>2. l \in Lock
    BY <2>1 DEF Op, Spawn, Join
  <2> QED
    BY <1>1, <2>1, <2>2 DEF Allowed
<1>3. /\ owner' = [owner EXCEPT ![l] = t]
      /\ owner[l] = NoThread
      /\ rest' = [rest EXCEPT ![t] = Tail(@)]
  BY DEF TakeLock
<1> HIDE DEF l
<1>4. LocksBase'
  BY <1>2, <1>3 DEF LocksInv, LocksBase
<1>5. Held(t)' = B
  BY <1>2, <1>3 DEF Held, LocksInv, LocksBase
<1>6. ASSUME NEW u \in Thread, u # t PROVE Held(u)' = Held(u)
  BY <1>2, <1>3, <1>6, LocksAssumption DEF Held, LocksInv, LocksBase
<1>7. ASSUME NEW u \in Thread PROVE Orderly(rest'[u], Held(u)', {})
  <2>1. CASE u = t
    BY <1>1, <1>3, <1>5, <2>1 DEF LocksInv, LocksBase
  <2>2. CASE u # t
    BY <1>3, <1>6, <2>2 DEF LocksInv, LocksBase, AllOrderly
  <2> QED
    BY <2>1, <2>2
<1>8. TaskAwaited'
  BY <1>3, StillAwaited DEF TakeLock
<1> QED
  BY <1>4, <1>7, <1>8 DEF LocksInv, AllOrderly

LEMMA DropLockInv ==
  ASSUME LocksInv, NEW t \in Thread, DropLock(t) PROVE LocksInv'
<1> DEFINE l == Head(rest[t]).lock
<1>1. PICK B \in SUBSET Lock : Allowed(Head(rest[t]), Held(t), B) /\ Orderly(Tail(rest[t]), B, {})
  BY Acting DEF DropLock, At
<1>2. l \in Held(t) /\ l \in Lock /\ B = Held(t) \ {l}
  BY <1>1 DEF DropLock, At, Allowed, Held
<1>3. /\ owner' = [owner EXCEPT ![l] = NoThread]
      /\ owner[l] = t
      /\ rest' = [rest EXCEPT ![t] = Tail(@)]
  BY <1>2 DEF DropLock, Held
<1> HIDE DEF l
<1>4. LocksBase'
  BY <1>2, <1>3 DEF LocksInv, LocksBase
<1>5. Held(t)' = B
  BY <1>2, <1>3, LocksAssumption DEF Held, LocksInv, LocksBase
<1>6. ASSUME NEW u \in Thread, u # t PROVE Held(u)' = Held(u)
  BY <1>2, <1>3, <1>6, LocksAssumption DEF Held, LocksInv, LocksBase
<1>7. ASSUME NEW u \in Thread PROVE Orderly(rest'[u], Held(u)', {})
  <2>1. CASE u = t
    BY <1>1, <1>3, <1>5, <2>1 DEF LocksInv, LocksBase
  <2>2. CASE u # t
    BY <1>3, <1>6, <2>2 DEF LocksInv, LocksBase, AllOrderly
  <2> QED
    BY <2>1, <2>2
<1>8. TaskAwaited'
  BY <1>3, StillAwaited DEF DropLock
<1> QED
  BY <1>4, <1>7, <1>8 DEF LocksInv, AllOrderly

(* A task that is started was not running: its handler was not waiting.    *)
(* The handler waits for it next.                                          *)
LEMMA StartTaskInv ==
  ASSUME LocksInv, NEW h \in Handler, StartTask(h) PROVE LocksInv'
<1> DEFINE k == [of |-> h]
<1>1. h \in Thread /\ k \in Thread /\ k # h
  BY Threads
<1>2. At(h, "spawn") /\ rest' = [rest EXCEPT ![h] = Tail(@), ![k] = task] /\ owner' = owner
  BY DEF StartTask
<1>3. PICK B \in SUBSET Lock : Allowed(Head(rest[h]), Held(h), B) /\ Orderly(Tail(rest[h]), B, {})
  BY <1>1, <1>2, Acting DEF At
<1>4. Held(h) = {} /\ B = {}
  BY <1>2, <1>3 DEF At, Allowed
<1>5. Held(k) = {}
  <2>1. rest[k] = <<>>
    BY <1>2 DEF At, LocksInv, TaskAwaited
  <2> QED
    BY <1>1, <2>1, Over DEF LocksInv, AllOrderly
<1>6. Len(Tail(rest[h])) > 0 /\ Head(Tail(rest[h])).do = "join"
  <2>1. rest[h] \in Seq(Op) /\ Paired(rest[h])
    BY <1>1 DEF LocksInv, AllOrderly, Orderly
  <2>2. rest[h] # <<>> /\ Len(rest[h]) > 0 /\ rest[h][1].do = "spawn"
    BY <1>2, <2>1 DEF At
  <2>3. 1 < Len(rest[h]) /\ rest[h][1 + 1].do = "join"
    BY <2>1, <2>2 DEF Paired
  <2> QED
    BY <2>1, <2>3
<1> HIDE DEF k
<1>7. LocksBase'
  BY <1>1, <1>2 DEF LocksInv, LocksBase
<1>8. ASSUME NEW u \in Thread PROVE Orderly(rest'[u], Held(u)', {})
  <2>1. Held(u)' = Held(u)
    BY <1>2 DEF Held
  <2>2. CASE u = h
    BY <1>1, <1>2, <1>3, <1>4, <2>1, <2>2 DEF LocksInv, LocksBase
  <2>3. CASE u = k
    BY <1>1, <1>2, <1>5, <2>1, <2>3, ProgramsOrderly DEF LocksInv, LocksBase
  <2>4. CASE u # h /\ u # k
    BY <1>2, <2>1, <2>4 DEF LocksInv, LocksBase, AllOrderly
  <2> QED
    BY <2>2, <2>3, <2>4
<1>9. ASSUME NEW g \in Handler, rest'[[of |-> g]] # <<>> PROVE At(g, "join")'
  <2>1. CASE g = h
    <3>1. rest'[h] = Tail(rest[h])
      BY <1>1, <1>2 DEF LocksInv, LocksBase
    <3>2. Tail(rest[h]) # <<>>
      <4>1. ASSUME NEW r \in Seq(Op), Len(r) > 0 PROVE r # <<>>
        BY <4>1
      <4> QED
        BY <1>3, <1>6, <4>1 DEF Orderly
    <3> QED
      BY <1>6, <2>1, <3>1, <3>2 DEF At
  <2>2. CASE g # h
    <3>1. [of |-> g] \in Thread /\ [of |-> g] # k /\ [of |-> g] # h /\ g # k /\ g \in Thread
      BY <2>2, Threads DEF k
    <3>2. rest'[[of |-> g]] = rest[[of |-> g]] /\ rest'[g] = rest[g]
      BY <1>2, <2>2, <3>1 DEF LocksInv, LocksBase
    <3> QED
      BY <1>9, <3>2 DEF LocksInv, TaskAwaited, At
  <2> QED
    BY <2>1, <2>2
<1> QED
  BY <1>7, <1>8, <1>9 DEF LocksInv, AllOrderly, TaskAwaited

LEMMA JoinTaskInv ==
  ASSUME LocksInv, NEW h \in Handler, JoinTask(h) PROVE LocksInv'
<1>1. h \in Thread /\ At(h, "join") /\ rest[[of |-> h]] = <<>>
      /\ rest' = [rest EXCEPT ![h] = Tail(@)] /\ owner' = owner
  BY Threads DEF JoinTask
<1>2. PICK B \in SUBSET Lock : Allowed(Head(rest[h]), Held(h), B) /\ Orderly(Tail(rest[h]), B, {})
  BY <1>1, Acting DEF At
<1>3. Held(h) = {} /\ B = {}
  BY <1>1, <1>2 DEF At, Allowed
<1>4. LocksBase'
  BY <1>1 DEF LocksInv, LocksBase
<1>5. ASSUME NEW u \in Thread PROVE Orderly(rest'[u], Held(u)', {})
  <2>1. Held(u)' = Held(u)
    BY <1>1 DEF Held
  <2>2. CASE u = h
    BY <1>1, <1>2, <1>3, <2>1, <2>2 DEF LocksInv, LocksBase
  <2>3. CASE u # h
    BY <1>1, <2>1, <2>3 DEF LocksInv, LocksBase, AllOrderly
  <2> QED
    BY <2>2, <2>3
<1>6. ASSUME NEW g \in Handler, rest'[[of |-> g]] # <<>> PROVE At(g, "join")'
  <2>1. [of |-> g] \in Thread /\ [of |-> g] # h /\ g \in Thread
    BY Threads
  <2>2. rest'[[of |-> g]] = rest[[of |-> g]]
    BY <1>1, <2>1 DEF LocksInv, LocksBase
  <2>3. g # h
    BY <1>1, <1>6, <2>2
  <2>4. rest'[g] = rest[g]
    BY <1>1, <2>1, <2>3 DEF LocksInv, LocksBase
  <2> QED
    BY <1>6, <2>2, <2>4 DEF LocksInv, TaskAwaited, At
<1> QED
  BY <1>4, <1>5, <1>6 DEF LocksInv, AllOrderly, TaskAwaited

LEMMA NextInv == LocksInv /\ [Next]_vars => LocksInv'
<1> SUFFICES ASSUME LocksInv, [Next]_vars PROVE LocksInv'
  OBVIOUS
<1>1. ASSUME NEW t \in Thread, Begin(t) PROVE LocksInv'
  BY <1>1, BeginInv
<1>2. ASSUME NEW t \in Thread, TakeLock(t) PROVE LocksInv'
  BY <1>2, TakeLockInv
<1>3. ASSUME NEW t \in Thread, DropLock(t) PROVE LocksInv'
  BY <1>3, DropLockInv
<1>4. ASSUME NEW h \in Handler, StartTask(h) PROVE LocksInv'
  BY <1>4, StartTaskInv
<1>5. ASSUME NEW h \in Handler, JoinTask(h) PROVE LocksInv'
  BY <1>5, JoinTaskInv
<1>6. CASE UNCHANGED vars
  BY <1>6 DEF vars, LocksInv, LocksBase, AllOrderly, TaskAwaited, Held, At
<1> QED
  BY <1>1, <1>2, <1>3, <1>4, <1>5, <1>6 DEF Next, Advance

LEMMA Invariant == Spec => []LocksInv
<1> QED
  BY InitInv, NextInv, PTL DEF Spec

-----------------------------------------------------------------------------
(* Whoever asks for a mutex holds only mutexes of a lower rank, with any   *)
(* number of handlers and tasks: no cycle of threads can wait for each     *)
(* other's mutexes.                                                        *)
THEOREM LockOrderCorrect == Spec => []LockOrder
<1>1. LocksInv => LockOrder
  <2> SUFFICES ASSUME LocksInv, NEW t \in Thread, At(t, "lock")
               PROVE  \A l \in Held(t) : Rank(l) < Rank(Head(rest[t]).lock)
    BY DEF LockOrder
  <2>1. PICK B \in SUBSET Lock : Allowed(Head(rest[t]), Held(t), B)
    BY Acting DEF At
  <2> QED
    BY <2>1 DEF At, Allowed
<1> QED
  BY <1>1, Invariant, PTL

(* Nobody starts a delivery task, or waits for one, with a mutex in hand:  *)
(* the task can always get the two it needs.                               *)
THEOREM EmptyHandedCorrect == Spec => []WaitsEmptyHanded
<1>1. LocksInv => WaitsEmptyHanded
  <2> SUFFICES ASSUME LocksInv, NEW h \in Handler, At(h, "join") \/ At(h, "spawn")
               PROVE  Held(h) = {}
    BY DEF WaitsEmptyHanded
  <2>1. PICK B \in SUBSET Lock : Allowed(Head(rest[h]), Held(h), B)
    BY Threads, Acting DEF At
  <2> QED
    BY <2>1 DEF At, Allowed
<1> QED
  BY <1>1, Invariant, PTL

-----------------------------------------------------------------------------
(* The logger.                                                             *)
LEMMA LoggerTypeInit == LogInit => LoggerTypeOK
  BY EmptySeq DEF LogInit, LoggerTypeOK, Place

LEMMA LoggerTypeStep == LoggerTypeOK /\ [LogNext]_logVars => LoggerTypeOK'
<1> SUFFICES ASSUME LoggerTypeOK, [LogNext]_logVars PROVE LoggerTypeOK'
  OBVIOUS
<1> USE DEF LoggerTypeOK, Place
<1>1. ASSUME NEW m \in Line, log(m) PROVE LoggerTypeOK'
  BY <1>1, AppendProperties DEF log, Notified
<1>2. CASE startLogging
  BY <1>2 DEF startLogging
<1>3. CASE StopFlag
  BY <1>3 DEF StopFlag
<1>4. CASE StopNotify
  BY <1>4 DEF StopNotify, Notified
<1>5. CASE TestRunning
  BY <1>5 DEF TestRunning
<1>6. CASE Pass
  BY <1>6, ConcatProperties, EmptySeq DEF Pass
<1>7. CASE Commit
  BY <1>7 DEF Commit
<1>8. CASE Sleep
  BY <1>8 DEF Sleep
<1>9. CASE SpuriousWakeup
  BY <1>9 DEF SpuriousWakeup
<1>10. CASE UNCHANGED logVars
  BY <1>10 DEF logVars
<1> QED
  BY <1>1, <1>2, <1>3, <1>4, <1>5, <1>6, <1>7, <1>8, <1>9, <1>10 DEF LogNext, processLogs

(* The queue, the file and the places of the threads keep their types.     *)
THEOREM LoggerTypeCorrect == LogSpec => []LoggerTypeOK
  BY LoggerTypeInit, LoggerTypeStep, PTL DEF LogSpec

-----------------------------------------------------------------------------
(* No line is lost, duplicated or reordered: log() appends to both sides,  *)
(* a pass only moves lines from the queue to the file.                     *)
LEMMA NothingLostStep == LoggerTypeOK /\ NothingLost /\ [LogNext]_logVars => NothingLost'
<1> SUFFICES ASSUME LoggerTypeOK, NothingLost, [LogNext]_logVars PROVE NothingLost'
  OBVIOUS
<1> USE DEF LoggerTypeOK, NothingLost
<1>1. ASSUME NEW m \in Line, log(m) PROVE NothingLost'
  <2>1. Append(file \o logQueue, m) = file \o Append(logQueue, m)
    BY AppendIsConcat, ConcatAssociative, ConcatProperties, AppendProperties
  <2> QED
    BY <1>1, <2>1 DEF log
<1>2. CASE Pass
  <2>1. file' \o <<>> = file'
    BY <1>2, ConcatEmptySeq, ConcatProperties DEF Pass
  <2> QED
    BY <1>2, <2>1 DEF Pass
<1>3. CASE startLogging \/ StopFlag \/ StopNotify \/ TestRunning \/ Commit \/ Sleep
             \/ SpuriousWakeup \/ UNCHANGED logVars
  BY <1>3 DEF startLogging, StopFlag, StopNotify, TestRunning, Commit, Sleep,
              SpuriousWakeup, logVars
<1> QED
  BY <1>1, <1>2, <1>3 DEF LogNext, processLogs

(* Every line is in the file or still queued, once and in order, whatever  *)
(* the producers, the consumer and the shutdown do.                        *)
THEOREM NothingLostCorrect == LogSpec => []NothingLost
<1>1. LogInit => NothingLost
  BY ConcatEmptySeq, EmptySeq DEF LogInit, NothingLost
<1> QED
  BY <1>1, LoggerTypeInit, LoggerTypeStep, NothingLostStep, PTL DEF LogSpec

-----------------------------------------------------------------------------
(* Between the evaluation of the wait's predicate and the sleep the        *)
(* consumer holds the mutex, so log() cannot come in between; when it is   *)
(* asleep log() wakes it.                                                  *)
LEMMA NoSleepStep == NoSleepOnWork /\ [LogNext]_logVars => NoSleepOnWork'
<1> SUFFICES ASSUME NoSleepOnWork, [LogNext]_logVars PROVE NoSleepOnWork'
  OBVIOUS
<1> USE DEF NoSleepOnWork
<1>1. ASSUME NEW m \in Line, log(m) PROVE NoSleepOnWork'
  BY <1>1 DEF log, MutexFree, Notified
<1>2. CASE Commit
  BY <1>2 DEF Commit, Work
<1>3. CASE Sleep
  BY <1>3 DEF Sleep
<1>4. CASE startLogging \/ TestRunning \/ Pass \/ SpuriousWakeup
  BY <1>4 DEF startLogging, TestRunning, Pass, SpuriousWakeup
<1>5. CASE StopFlag \/ StopNotify \/ UNCHANGED logVars
  BY <1>5 DEF StopFlag, StopNotify, Notified, logVars
<1> QED
  BY <1>1, <1>2, <1>3, <1>4, <1>5 DEF LogNext, processLogs

(* The consumer never sleeps while lines wait: no notification of log() is *)
(* lost.                                                                   *)
THEOREM NoSleepCorrect == LogSpec => []NoSleepOnWork
<1>1. LogInit => NoSleepOnWork
  BY DEF LogInit, NoSleepOnWork
<1> QED
  BY <1>1, NoSleepStep, PTL DEF LogSpec

=============================================================================
