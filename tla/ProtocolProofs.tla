--------------------------- MODULE ProtocolProofs ---------------------------
(***************************************************************************)
(* Proofs about Protocol, for any names, texts and size of a byte: in every*)
(* registry the server can get into, the frames read back as what they were*)
(* made from, and a request that is cut short does nothing.                *)
(*                                                                         *)
(* A frame is a sequence of parts laid one behind another (Laid, Holds),   *)
(* and a reader finds the part that lies where it looks (ReadText,         *)
(* ReadByte).  The frames with a count are recursive functions of their    *)
(* items, on both sides: FlattenSeq writes them, ItemsIn reads them.  That *)
(* such a function exists is shown by giving it (FlattenExists, ItemsByte),*)
(* and what it is by induction on the number of items (SetInduction, from  *)
(* the well-foundedness of <).  No bound on the number of users is needed, *)
(* but that it is finite is: ListedFinite.                                 *)
(***************************************************************************)
EXTENDS Protocol, RegistryProofs, SequenceTheorems, FiniteSetTheorems

-----------------------------------------------------------------------------
(* Induction.  The library's theorem takes a predicate, this one a set.    *)
LEMMA SetInduction ==
  ASSUME NEW T, 0 \in T, \A n \in Nat : n \in T => n + 1 \in T
  PROVE  \A n \in Nat : n \in T
<1> DEFINE Less == OpToRel(<, Nat)
           Rest == Nat \ T
<1>1. IsWellFoundedOn(Less, Nat)
  BY NatLessThanWellFounded
<1>2. \A i, j \in Nat : i < j => <<i, j>> \in Less
  BY DEF OpToRel
<1> HIDE DEF Less
<1>3. SUFFICES ASSUME Rest # {} PROVE FALSE
  OBVIOUS
<1>4. PICK n \in Rest : \A m \in Rest : <<m, n>> \notin Less
  <2>1. Rest \subseteq Nat
    OBVIOUS
  <2> HIDE DEF Rest
  <2> QED
    BY <1>1, <1>3, <2>1, WFMin
<1>5. n \in Nat \ {0}
  OBVIOUS
<1>6. n - 1 \in Nat /\ n - 1 < n /\ n - 1 + 1 = n
  BY <1>5
<1>7. n - 1 \in Rest
  BY <1>5, <1>6
<1> QED
  BY <1>2, <1>4, <1>5, <1>6, <1>7

(* Two recursive functions that begin alike and go on alike are alike.     *)
LEMMA SameSteps ==
  ASSUME NEW n \in Nat, NEW f, NEW g, f[0] = g[0],
         \A i \in 1 .. n : f[i - 1] = g[i - 1] => f[i] = g[i]
  PROVE  f[n] = g[n]
<1> DEFINE T == {k \in Nat : k <= n => f[k] = g[k]}
<1>1. 0 \in T
  OBVIOUS
<1>2. ASSUME NEW k \in Nat, k \in T PROVE k + 1 \in T
  <2>1. CASE k + 1 <= n
    <3>1. k + 1 \in 1 .. n /\ k + 1 - 1 = k /\ f[k] = g[k]
      BY <1>2, <2>1
    <3> QED
      BY <3>1
  <2> QED
    BY <2>1
<1> HIDE DEF T
<1>3. n \in T
  BY <1>1, <1>2, SetInduction
<1> QED
  BY <1>3 DEF T

-----------------------------------------------------------------------------
(* FlattenSeq.                                                             *)

(* Its recursive definition has a solution, for every number of sequences. *)
LEMMA FlattenExists ==
  ASSUME NEW seqs, NEW n \in Nat
  PROVE  \E f : f = [i \in 1 .. n |-> IF i = 1 THEN seqs[i] ELSE f[i - 1] \o seqs[i]]
<1> DEFINE Solves(f, k) ==
             f = [i \in 1 .. k |-> IF i = 1 THEN seqs[i] ELSE f[i - 1] \o seqs[i]]
           T == {k \in Nat : \E f : Solves(f, k)}
<1>1. 0 \in T
  <2> DEFINE empty == [i \in 1 .. 0 |-> seqs[i]]
  <2>1. Solves(empty, 0)
    OBVIOUS
  <2> QED
    BY <2>1
<1>2. ASSUME NEW k \in Nat, k \in T PROVE k + 1 \in T
  <2>1. PICK f : Solves(f, k)
    BY <1>2
  <2> DEFINE g == [i \in 1 .. k + 1 |-> IF i = 1 THEN seqs[i] ELSE f[i - 1] \o seqs[i]]
  <2>2. ASSUME NEW i \in 1 .. k PROVE g[i] = f[i]
    <3>1. f[i] = IF i = 1 THEN seqs[i] ELSE f[i - 1] \o seqs[i]
      BY <2>1, Zenon
    <3>2. i \in 1 .. k + 1
      OBVIOUS
    <3> QED
      BY <3>1, <3>2
  <2>3. ASSUME NEW i \in 1 .. k + 1
        PROVE  g[i] = IF i = 1 THEN seqs[i] ELSE g[i - 1] \o seqs[i]
    <3>1. CASE i = 1
      BY <3>1
    <3>2. CASE i # 1
      <4>1. i - 1 \in 1 .. k
        BY <3>2
      <4>2. g[i - 1] = f[i - 1]
        BY <2>2, <4>1
      <4> QED
        BY <3>2, <4>2
    <3> QED
      BY <3>1, <3>2
  <2>4. g = [i \in 1 .. k + 1 |-> g[i]]
    OBVIOUS
  <2> HIDE DEF g
  <2>5. Solves(g, k + 1)
    BY <2>3, <2>4
  <2>6. \E h : Solves(h, k + 1)
    BY <2>5, Zenon
  <2>7. k + 1 \in Nat
    OBVIOUS
  <2> HIDE DEF Solves
  <2> QED
    BY <2>6, <2>7
<1> HIDE DEF T
<1>3. n \in T
  BY <1>1, <1>2, SetInduction
<1> QED
  BY <1>3 DEF T

LEMMA FlattenSteps ==
  ASSUME NEW seqs, Len(seqs) \in Nat, Len(seqs) # 0
  PROVE  \E f : /\ FlattenSeq(seqs) = f[Len(seqs)]
                /\ f = [i \in 1 .. Len(seqs) |->
                          IF i = 1 THEN seqs[i] ELSE f[i - 1] \o seqs[i]]
<1>1. PICK f : f = [i \in 1 .. Len(seqs) |-> IF i = 1 THEN seqs[i] ELSE f[i - 1] \o seqs[i]]
  BY FlattenExists
<1> QED
  BY <1>1 DEF FlattenSeq

(* The sequences of seqs lie in s one behind another, the i-th of them from*)
(* where the one before ends, which at tells.                              *)
Laid(s, seqs, n, at) ==
  /\ at \in [0 .. n -> Nat]
  /\ at[0] = 0
  /\ at[n] = Len(s)
  /\ \A i \in 1 .. n :
       /\ at[i] = at[i - 1] + Len(seqs[i])
       /\ at[i] <= Len(s)
       /\ \A j \in 1 .. Len(seqs[i]) : s[at[i - 1] + j] = seqs[i][j]

LEMMA LaidOne ==
  ASSUME NEW X, NEW s \in Seq(X), NEW seqs, seqs[1] = s
  PROVE  Laid(s, seqs, 1, [i \in 0 .. 1 |-> IF i = 0 THEN 0 ELSE Len(s)])
  BY LenProperties DEF Laid

LEMMA LaidMore ==
  ASSUME NEW X, NEW s \in Seq(X), NEW seqs, NEW n \in Nat, NEW at, Laid(s, seqs, n, at),
         seqs[n + 1] \in Seq(X)
  PROVE  Laid(s \o seqs[n + 1], seqs, n + 1,
              [i \in 0 .. n + 1 |-> IF i <= n THEN at[i] ELSE Len(s \o seqs[n + 1])])
<1> DEFINE t == s \o seqs[n + 1]
           to == [i \in 0 .. n + 1 |-> IF i <= n THEN at[i] ELSE Len(t)]
<1>1. /\ t \in Seq(X) /\ Len(s) \in Nat /\ Len(seqs[n + 1]) \in Nat
      /\ Len(t) = Len(s) + Len(seqs[n + 1])
      /\ \A i \in 1 .. Len(s) : t[i] = s[i]
      /\ \A i \in 1 .. Len(seqs[n + 1]) : t[Len(s) + i] = seqs[n + 1][i]
  BY ConcatProperties, LenProperties
<1> HIDE DEF t
<1>2. to \in [0 .. n + 1 -> Nat] /\ to[0] = 0 /\ to[n + 1] = Len(t)
  BY <1>1 DEF Laid
<1>3. ASSUME NEW i \in 1 .. n + 1
      PROVE  /\ to[i] = to[i - 1] + Len(seqs[i])
             /\ to[i] <= Len(t)
             /\ \A j \in 1 .. Len(seqs[i]) : t[to[i - 1] + j] = seqs[i][j]
  <2>1. CASE i = n + 1
    <3>1. to[i] = Len(t) /\ to[i - 1] = Len(s)
      BY <2>1 DEF Laid
    <3> HIDE DEF to
    <3> QED
      BY <1>1, <2>1, <3>1
  <2>2. CASE i # n + 1
    <3>1. i \in 1 .. n /\ i - 1 \in 0 .. n
      BY <2>2
    <3>2. to[i] = at[i] /\ to[i - 1] = at[i - 1]
      BY <3>1
    <3>3. /\ at[i] = at[i - 1] + Len(seqs[i]) /\ at[i] <= Len(s)
          /\ \A j \in 1 .. Len(seqs[i]) : s[at[i - 1] + j] = seqs[i][j]
      BY <3>1 DEF Laid
    <3>4. at[i] \in Nat /\ at[i - 1] \in Nat
      BY <3>1 DEF Laid
    <3> HIDE DEF to
    <3>5. to[i] <= Len(t)
      BY <1>1, <3>2, <3>3, <3>4
    <3>6. ASSUME NEW j \in 1 .. Len(seqs[i]) PROVE t[to[i - 1] + j] = seqs[i][j]
      <4>1. at[i - 1] + j \in 1 .. Len(s)
        BY <1>1, <3>3, <3>4
      <4> QED
        BY <1>1, <3>2, <3>3, <4>1
    <3> QED
      BY <3>2, <3>3, <3>5, <3>6
  <2> QED
    BY <2>1, <2>2
<1> QED
  BY <1>2, <1>3 DEF Laid, t

LEMMA FlattenLaid ==
  ASSUME NEW X, NEW n \in Nat, NEW seqs \in [1 .. n -> Seq(X)]
  PROVE  FlattenSeq(seqs) \in Seq(X) /\ \E at : Laid(FlattenSeq(seqs), seqs, n, at)
<1>1. Len(seqs) = n
  BY LenProperties
<1>2. CASE n = 0
  <2>1. FlattenSeq(seqs) = seqs /\ seqs = <<>>
    BY <1>1, <1>2, EmptySeq DEF FlattenSeq
  <2>2. Laid(<<>>, seqs, 0, [i \in 0 .. 0 |-> 0])
    BY EmptySeq DEF Laid
  <2> QED
    BY <1>2, <2>1, <2>2, EmptySeq
<1>3. CASE n # 0
  <2>1. PICK f : /\ FlattenSeq(seqs) = f[n]
                 /\ f = [i \in 1 .. n |-> IF i = 1 THEN seqs[i] ELSE f[i - 1] \o seqs[i]]
    BY <1>1, <1>3, FlattenSteps
  <2>2. \A i \in 1 .. n : f[i] = IF i = 1 THEN seqs[i] ELSE f[i - 1] \o seqs[i]
    BY <2>1, Zenon
  <2> DEFINE Good(k) == f[k] \in Seq(X) /\ \E at : Laid(f[k], seqs, k, at)
             T == {k \in Nat : k + 1 <= n => Good(k + 1)}
  <2>3. 0 \in T
    <3>1. 1 \in 1 .. n /\ f[1] = seqs[1]
      BY <1>3, <2>2
    <3>2. Good(1)
      BY <3>1, LaidOne
    <3> QED
      BY <3>2
  <2>4. ASSUME NEW m \in 1 .. n - 1, Good(m) PROVE Good(m + 1)
    <3>1. PICK at : Laid(f[m], seqs, m, at)
      BY <2>4
    <3>2. m \in Nat /\ m + 1 \in 1 .. n /\ m + 1 - 1 = m /\ m + 1 # 1
      OBVIOUS
    <3>3. f[m + 1] = f[m] \o seqs[m + 1]
      <4> DEFINE k == m + 1
      <4>1. k \in 1 .. n /\ k # 1 /\ k - 1 = m
        BY <3>2
      <4> HIDE DEF k
      <4>2. f[k] = f[m] \o seqs[k]
        BY <2>2, <4>1
      <4> QED
        BY <4>2 DEF k
    <3>4. seqs[m + 1] \in Seq(X) /\ f[m] \in Seq(X)
      BY <2>4, <3>2
    <3>5. f[m + 1] \in Seq(X)
      BY <3>3, <3>4, ConcatProperties
    <3>6. \E to : Laid(f[m] \o seqs[m + 1], seqs, m + 1, to)
      BY <3>1, <3>2, <3>4, LaidMore, Zenon
    <3> QED
      BY <3>3, <3>5, <3>6, Zenon
  <2>5. ASSUME NEW k \in Nat, k \in T PROVE k + 1 \in T
    <3>1. CASE k + 1 + 1 <= n
      <4>1. k + 1 \in 1 .. n - 1 /\ Good(k + 1)
        BY <2>5, <3>1
      <4>2. Good(k + 1 + 1)
        BY <2>4, <4>1
      <4> HIDE DEF Good
      <4> QED
        BY <4>2
    <3>2. CASE ~(k + 1 + 1 <= n)
      BY <3>2
    <3> QED
      BY <3>1, <3>2
  <2> HIDE DEF T
  <2>6. n - 1 \in Nat /\ n - 1 + 1 = n
    BY <1>3
  <2>7. n - 1 \in T
    BY <2>3, <2>5, <2>6, SetInduction
  <2>8. Good(n)
    <3> HIDE DEF Good
    <3> QED
      BY <2>6, <2>7 DEF T
  <2> QED
    BY <2>1, <2>8
<1> QED
  BY <1>2, <1>3

-----------------------------------------------------------------------------
(* Frames and what lies in them.                                           *)
Bytes == Nat \cup Char

(* s lies in d behind the first o bytes. *)
Holds(d, o, s) ==
  /\ o + Len(s) <= Len(d)
  /\ \A i \in 1 .. Len(s) : d[o + i] = s[i]

LEMMA ConcatHolds ==
  ASSUME NEW X, NEW s \in Seq(X), NEW t \in Seq(X)
  PROVE  /\ s \o t \in Seq(X)
         /\ Len(s \o t) = Len(s) + Len(t)
         /\ Holds(s \o t, 0, s)
         /\ Holds(s \o t, Len(s), t)
<1>1. /\ s \o t \in Seq(X) /\ Len(s) \in Nat /\ Len(t) \in Nat
      /\ Len(s \o t) = Len(s) + Len(t)
      /\ \A i \in 1 .. Len(s) : (s \o t)[i] = s[i]
      /\ \A i \in 1 .. Len(t) : (s \o t)[Len(s) + i] = t[i]
  BY ConcatProperties, LenProperties
<1>2. Holds(s \o t, 0, s)
  <2>1. \A i \in 1 .. Len(s) : 0 + i = i
    OBVIOUS
  <2> QED
    BY <1>1, <2>1 DEF Holds
<1> QED
  BY <1>1, <1>2 DEF Holds

LEMMA HoldsPart ==
  ASSUME NEW X, NEW d \in Seq(X), NEW s \in Seq(X), NEW t \in Seq(X),
         NEW o \in Nat, NEW p \in Nat, Holds(d, o, s), Holds(s, p, t)
  PROVE  Holds(d, o + p, t)
<1>1. Len(d) \in Nat /\ Len(s) \in Nat /\ Len(t) \in Nat
  BY LenProperties
<1>2. ASSUME NEW i \in 1 .. Len(t) PROVE d[o + p + i] = t[i]
  <2>1. p + i \in 1 .. Len(s) /\ s[p + i] = t[i]
    BY <1>1 DEF Holds
  <2>2. o + (p + i) = o + p + i
    BY <1>1
  <2> QED
    BY <2>1, <2>2 DEF Holds
<1> QED
  BY <1>1, <1>2 DEF Holds

(* What was written by String8 is read by read_string_8, which returns the *)
(* offset behind it; unless the frame was cut before its end, when it      *)
(* throws.                                                                 *)
LEMMA String8Type ==
  ASSUME NEW text \in Seq(Bytes)
  PROVE  /\ String8(text) \in Seq(Bytes)
         /\ Len(String8(text)) = 1 + Len(text)
         /\ Len(text) < Byte => String8(text)[1] = Len(text)
         /\ Holds(String8(text), 1, text)
<1>1. Len(text) \in Nat /\ Len(text) % Byte \in Nat
  BY LenProperties, ProtocolAssumption
<1>2. Size(Len(text)) \in Seq(Bytes) /\ Len(Size(Len(text))) = 1
        /\ Size(Len(text))[1] = Len(text) % Byte
  BY <1>1 DEF Size, Bytes
<1>3. Len(text) < Byte => Len(text) % Byte = Len(text)
  BY <1>1, ProtocolAssumption
<1> HIDE DEF Size
<1>4. String8(text)[1] = Size(Len(text))[1]
  <2> DEFINE head == Size(Len(text))
  <2>1. head \in Seq(Bytes) /\ 1 \in 1 .. Len(head) /\ 0 + 1 = 1
    BY <1>2
  <2> HIDE DEF head
  <2>2. Holds(head \o text, 0, head)
    BY <2>1, ConcatHolds
  <2>3. (head \o text)[1] = head[1]
    BY <2>1, <2>2 DEF Holds
  <2> QED
    BY <2>3 DEF String8, head
<1> QED
  BY <1>2, <1>3, <1>4, ConcatHolds DEF String8

(* d is frame, or what is left of it when its end is cut off. *)
StartOf(d, frame) ==
  /\ d \in Seq(Bytes) /\ frame \in Seq(Bytes)
  /\ Len(d) <= Len(frame)
  /\ \A i \in 1 .. Len(d) : d[i] = frame[i]

LEMMA ReadText ==
  ASSUME NEW d, NEW frame, StartOf(d, frame), NEW o \in Nat,
         NEW text \in Seq(Bytes), Len(text) < Byte,
         Holds(frame, o, String8(text))
  PROVE  ReadString8(d, o) =
           IF o + 1 + Len(text) <= Len(d) THEN Got(text, o + 1 + Len(text)) ELSE Throws
<1> DEFINE n == Len(text)
           end == o + 1 + n
<1>1. n \in Nat /\ Len(d) \in Nat /\ Len(frame) \in Nat
  BY LenProperties DEF StartOf
<1>2. /\ String8(text) \in Seq(Bytes) /\ Len(String8(text)) = 1 + n
      /\ String8(text)[1] = n /\ Holds(String8(text), 1, text)
  BY String8Type
<1>3. Holds(frame, o + 1, text) /\ frame[o + 1] = n
  <2>1. Holds(frame, o + 1, text)
    BY <1>2, HoldsPart DEF StartOf
  <2> QED
    BY <1>1, <1>2, <2>1 DEF Holds
<1> HIDE DEF n
<1>4. CASE o >= Len(d)
  BY <1>1, <1>4 DEF ReadString8, ReadUint8, Throws
<1>5. CASE ~(o >= Len(d))
  <2>1. o + 1 \in 1 .. Len(d) /\ d[o + 1] = n
    BY <1>1, <1>3, <1>5 DEF StartOf
  <2>2. ReadUint8(d, o) = Got(n, o + 1)
    BY <1>5, <2>1 DEF ReadUint8
  <2>3. ReadString8(d, o) =
          IF end > Len(d) THEN Throws ELSE Got(SubSeq(d, o + 1 + 1, end), end)
    BY <2>2 DEF ReadString8, Got
  <2>4. ASSUME end <= Len(d) PROVE SubSeq(d, o + 1 + 1, end) = text
    <3> DEFINE part == SubSeq(d, o + 1 + 1, end)
    <3>1. \A i \in o + 1 + 1 .. end : d[i] \in Bytes
      <4>1. \A i \in 1 .. Len(d) : d[i] \in Bytes
        BY ElementOfSeq DEF StartOf
      <4> QED
        BY <1>1, <2>4, <4>1
    <3>2. /\ part \in Seq(Bytes)
          /\ Len(part) = IF o + 1 + 1 <= end THEN end - (o + 1 + 1) + 1 ELSE 0
          /\ \A i \in 1 .. end - (o + 1 + 1) + 1 : part[i] = d[o + 1 + 1 + i - 1]
      BY <1>1, <3>1, SubSeqProperties
    <3> HIDE DEF part
    <3>3. Len(part) = n
      BY <1>1, <3>2
    <3>4. ASSUME NEW i \in 1 .. n PROVE part[i] = text[i]
      <4>1. i \in 1 .. end - (o + 1 + 1) + 1 /\ o + 1 + 1 + i - 1 = o + 1 + i
        BY <1>1
      <4>2. part[i] = d[o + 1 + i]
        BY <3>2, <4>1
      <4>3. o + 1 + i \in 1 .. Len(d)
        BY <1>1, <2>4
      <4>4. d[o + 1 + i] = frame[o + 1 + i]
        BY <4>3 DEF StartOf
      <4>5. frame[o + 1 + i] = text[i]
        BY <1>3 DEF Holds, n
      <4> QED
        BY <4>2, <4>4, <4>5
    <3>5. part = text
      BY <3>2, <3>3, <3>4, SeqEqual DEF n
    <3> QED
      BY <3>5 DEF part
  <2>5. end \in Nat /\ end = o + 1 + Len(text)
    BY <1>1 DEF n
  <2> HIDE DEF end
  <2>6. CASE end <= Len(d)
    <3>1. ~(end > Len(d))
      BY <1>1, <2>5, <2>6
    <3> QED
      BY <2>3, <2>4, <2>5, <2>6, <3>1
  <2>7. CASE ~(end <= Len(d))
    <3>1. end > Len(d)
      BY <1>1, <2>5, <2>7
    <3> QED
      BY <2>3, <2>5, <2>7, <3>1
  <2> QED
    BY <2>6, <2>7
<1> QED
  BY <1>4, <1>5

LEMMA ReadByte ==
  ASSUME NEW d, NEW frame, StartOf(d, frame), NEW o \in Nat,
         NEW b, Holds(frame, o, <<b>>)
  PROVE  ReadUint8(d, o) = IF o < Len(d) THEN Got(b, o + 1) ELSE Throws
<1>1. Len(d) \in Nat /\ Len(frame) \in Nat
  BY LenProperties DEF StartOf
<1>2. Len(<<b>>) = 1 /\ <<b>>[1] = b
  OBVIOUS
<1>3. frame[o + 1] = b
  BY <1>2 DEF Holds
<1>4. o < Len(d) => d[o + 1] = frame[o + 1]
  BY <1>1 DEF StartOf
<1> QED
  BY <1>1, <1>3, <1>4 DEF ReadUint8

(* What a frame with this opcode does. *)
LEMMA Dispatch ==
  ASSUME NEW sender, NEW data, NEW order, NEW code \in 1 .. 5,
         ReadUint8(data, 0) = Got(code, 1)
  PROVE  LET name == ReadString8(data, 1)
             raw == ReadUint8(data, name.offset)
             text == ReadString8(data, name.offset)
             does == OnFrame(sender, data, order)
         IN /\ code = 1 => does = [reply |-> HandleListUsers(order)]
            /\ code # 1 /\ ~name.ok => does = Ignored
            /\ code = 2 /\ name.ok => does = [reply |-> HandleGetUserInfo(name.value)]
            /\ code = 3 /\ name.ok =>
                 does = IF raw.ok THEN HandleChangeStatus(sender, name.value, raw.value)
                        ELSE Ignored
            /\ code = 4 /\ name.ok =>
                 does = IF text.ok THEN HandleSendMessage(name.value, text.value)
                        ELSE Ignored
            /\ code = 5 /\ name.ok => does = [history |-> name.value]
<1>1. ReadUint8(data, 0).ok /\ ReadUint8(data, 0).value = code /\ ReadUint8(data, 0).offset = 1
  BY DEF Got
<1>2. CASE code = 1
  BY <1>1, <1>2 DEF OnFrame
<1>3. CASE code = 2
  BY <1>1, <1>3 DEF OnFrame
<1>4. CASE code = 3
  BY <1>1, <1>4 DEF OnFrame
<1>5. CASE code = 4
  BY <1>1, <1>5 DEF OnFrame
<1>6. CASE code = 5
  BY <1>1, <1>6 DEF OnFrame
<1> QED
  BY <1>2, <1>3, <1>4, <1>5, <1>6

LEMMA EmptyIgnored ==
  ASSUME NEW sender, NEW data, NEW order, ReadUint8(data, 0) = Throws
  PROVE  OnFrame(sender, data, order) = Ignored
  BY DEF Throws, OnFrame

-----------------------------------------------------------------------------
(* Requests.                                                               *)

LEMMA TextType ==
  ASSUME NEW u \in User
  PROVE  Text[u] \in Seq(Bytes) /\ Len(Text[u]) \in Nat \ {0} /\ Len(Text[u]) < Byte
<1>1. Seq(Char) \subseteq Seq(Bytes)
  BY SeqMonotonic DEF Bytes
<1> QED
  BY <1>1, ProtocolAssumption

(* A request: its opcode, the name it is about, and what is behind it. *)
Request(code, u, rest) == <<code>> \o String8(Text[u]) \o rest
Raw(b) == <<b>>

LEMMA RequestType ==
  ASSUME NEW code \in Nat, NEW u \in User, NEW rest \in Seq(Bytes)
  PROVE  Request(code, u, rest) \in Seq(Bytes)
<1> DEFINE first == <<code>>
<1>1. first \in Seq(Bytes)
  BY DEF Bytes
<1> HIDE DEF first
<1>2. first \o String8(Text[u]) \o rest \in Seq(Bytes)
  BY <1>1, TextType, String8Type, ConcatProperties
<1> QED
  BY <1>2 DEF Request, first

(* What is read at the beginning of a request, whole or cut.               *)
LEMMA RequestReads ==
  ASSUME NEW code \in Nat, NEW u \in User, NEW rest \in Seq(Bytes),
         NEW d, StartOf(d, Request(code, u, rest))
  PROVE  LET frame == Request(code, u, rest)
             behind == 2 + Len(Text[u])
         IN /\ ReadUint8(d, 0) = IF 0 < Len(d) THEN Got(code, 1) ELSE Throws
            /\ ReadString8(d, 1) =
                 IF behind <= Len(d) THEN Got(Text[u], behind) ELSE Throws
            /\ Holds(frame, behind, rest)
            /\ frame \in Seq(Bytes) /\ Len(frame) = behind + Len(rest)
<1> DEFINE text == Text[u]
           name == String8(text)
           first == <<code>>
           begin == first \o name
           frame == begin \o rest
<1>1. text \in Seq(Bytes) /\ Len(text) \in Nat /\ Len(text) < Byte
  BY TextType
<1> HIDE DEF text
<1>2. name \in Seq(Bytes) /\ Len(name) = 1 + Len(text)
  BY <1>1, String8Type
<1> HIDE DEF name
<1>3. first \in Seq(Bytes) /\ Len(first) = 1
  BY DEF Bytes
<1>4. StartOf(d, frame)
  BY DEF text, name, Request
<1>5. first = <<code>>
  OBVIOUS
<1> HIDE DEF first
<1>6. begin \in Seq(Bytes) /\ Len(begin) = 1 + Len(name)
        /\ Holds(begin, 0, first) /\ Holds(begin, Len(first), name)
  BY <1>2, <1>3, ConcatHolds
<1> HIDE DEF begin
<1>7. frame \in Seq(Bytes) /\ Len(frame) = Len(begin) + Len(rest)
        /\ Holds(frame, 0, begin) /\ Holds(frame, Len(begin), rest)
  BY <1>6, ConcatHolds
<1> HIDE DEF frame
<1>8. Holds(frame, 0 + 0, first) /\ Holds(frame, 0 + 1, name)
  BY <1>2, <1>3, <1>6, <1>7, HoldsPart
<1>9. 0 + 0 = 0 /\ 0 + 1 = 1 /\ 1 + 1 + Len(text) = 2 + Len(text)
        /\ Len(begin) = 2 + Len(text) /\ 1 \in Nat /\ 0 \in Nat
  BY <1>1, <1>2, <1>6
<1>10. ReadUint8(d, 0) = IF 0 < Len(d) THEN Got(code, 0 + 1) ELSE Throws
  BY <1>4, <1>5, <1>8, <1>9, ReadByte
<1>11. ReadString8(d, 1) =
         IF 1 + 1 + Len(text) <= Len(d) THEN Got(text, 1 + 1 + Len(text)) ELSE Throws
  <2>1. Holds(frame, 1, String8(text))
    BY <1>8, <1>9 DEF name
  <2> QED
    BY <1>1, <1>4, <1>9, <2>1, ReadText
<1>12. ReadUint8(d, 0) = IF 0 < Len(d) THEN Got(code, 1) ELSE Throws
  BY <1>9, <1>10
<1>13. ReadString8(d, 1) =
         IF 2 + Len(text) <= Len(d) THEN Got(text, 2 + Len(text)) ELSE Throws
  BY <1>9, <1>11
<1>14. Holds(frame, 2 + Len(text), rest) /\ frame \in Seq(Bytes)
         /\ Len(frame) = 2 + Len(text) + Len(rest)
  BY <1>7, <1>9
<1> QED
  BY <1>12, <1>13, <1>14 DEF text, name, first, begin, frame, Request

(* A request is the start of itself, and so is what a cut leaves of it.    *)
LEMMA CutStart ==
  ASSUME NEW frame \in Seq(Bytes), NEW n \in 0 .. Len(frame)
  PROVE  StartOf(SubSeq(frame, 1, n), frame) /\ Len(SubSeq(frame, 1, n)) = n
<1>1. Len(frame) \in Nat /\ \A i \in 1 .. n : frame[i] \in Bytes
  BY LenProperties, ElementOfSeq
<1>2. /\ SubSeq(frame, 1, n) \in Seq(Bytes)
      /\ Len(SubSeq(frame, 1, n)) = IF 1 <= n THEN n - 1 + 1 ELSE 0
      /\ \A i \in 1 .. n - 1 + 1 : SubSeq(frame, 1, n)[i] = frame[1 + i - 1]
  BY <1>1, SubSeqProperties
<1> QED
  BY <1>1, <1>2 DEF StartOf

LEMMA WholeStart ==
  ASSUME NEW frame \in Seq(Bytes)
  PROVE  StartOf(frame, frame)
  BY LenProperties DEF StartOf

(* The four requests that name somebody.                                   *)
LEMMA Asking ==
  ASSUME NEW u \in User, NEW raw \in Nat, NEW text \in Seq(Bytes)
  PROVE  /\ AskInfo(u) = Request(2, u, <<>>)
         /\ AskChange(u, raw) = Request(3, u, Raw(raw))
         /\ AskSend(u, text) = Request(4, u, String8(text))
         /\ AskHistory(u) = Request(5, u, <<>>)
         /\ <<>> \in Seq(Bytes) /\ Raw(raw) \in Seq(Bytes) /\ String8(text) \in Seq(Bytes)
<1>1. String8(Text[u]) \in Seq(Bytes) /\ String8(text) \in Seq(Bytes)
  BY TextType, String8Type
<1>2. ASSUME NEW code \in Nat
      PROVE  <<code>> \o String8(Text[u]) = Request(code, u, <<>>)
  <2> DEFINE first == <<code>>
  <2>1. first \in Seq(Bytes)
    BY DEF Bytes
  <2> HIDE DEF first
  <2>2. first \o String8(Text[u]) \in Seq(Bytes)
    BY <1>1, <2>1, ConcatProperties
  <2>3. first \o String8(Text[u]) = first \o String8(Text[u]) \o <<>>
    BY <2>2, ConcatEmptySeq
  <2> QED
    BY <2>3 DEF first, Request
<1>3. Raw(raw) \in Seq(Bytes)
  BY DEF Bytes, Raw
<1> QED
  BY <1>1, <1>2, <1>3, EmptySeq DEF AskInfo, AskChange, AskSend, AskHistory, Request, Raw

(* What a request with this opcode has behind the name. *)
Fits(code, rest) ==
  \/ code \in {2, 5} /\ rest = <<>>
  \/ code = 3 /\ \E b : rest = Raw(b)
  \/ code = 4 /\ \E text \in Seq(Bytes) : Len(text) < Byte /\ rest = String8(text)

LEMMA CutRequest ==
  ASSUME NEW code \in 2 .. 5, NEW u \in User, NEW rest \in Seq(Bytes), Fits(code, rest),
         NEW f \in Cut(Request(code, u, rest)), NEW sender, NEW order
  PROVE  OnFrame(sender, f, order) = Ignored
<1> DEFINE frame == Request(code, u, rest)
           behind == 2 + Len(Text[u])
<1>1. frame \in Seq(Bytes)
  BY RequestType
<1>2. PICK n \in 0 .. (Len(frame) - 1) : f = SubSeq(frame, 1, n)
  BY DEF Cut
<1>3. Len(frame) \in Nat /\ n \in 0 .. Len(frame) /\ n < Len(frame)
  BY <1>1, LenProperties
<1> HIDE DEF frame
<1>4. StartOf(f, frame) /\ Len(f) = n
  BY <1>1, <1>2, <1>3, CutStart
<1>5. /\ ReadUint8(f, 0) = IF 0 < n THEN Got(code, 1) ELSE Throws
      /\ ReadString8(f, 1) = IF behind <= n THEN Got(Text[u], behind) ELSE Throws
      /\ Holds(frame, behind, rest)
      /\ Len(frame) = behind + Len(rest)
  BY <1>4, RequestReads DEF frame
<1>6. behind \in Nat /\ Len(rest) \in Nat
  BY TextType, LenProperties
<1> HIDE DEF behind
<1>7. CASE ~(0 < n)
  BY <1>5, <1>7, EmptyIgnored
<1>8. CASE 0 < n /\ ~(behind <= n)
  <2>1. ReadUint8(f, 0) = Got(code, 1) /\ ~ReadString8(f, 1).ok /\ code # 1 /\ code \in 1 .. 5
    BY <1>5, <1>8 DEF Throws
  <2> QED
    BY <2>1, Dispatch
<1>9. CASE 0 < n /\ behind <= n
  <2>1. ReadUint8(f, 0) = Got(code, 1) /\ code \in 1 .. 5
    BY <1>5, <1>9
  <2>2. /\ ReadString8(f, 1).ok /\ ReadString8(f, 1).offset = behind
    BY <1>5, <1>9 DEF Got
  <2>3. CASE code \in {2, 5} /\ rest = <<>>
    <3>1. Len(rest) = 0
      BY <2>3, EmptySeq
    <3> QED
      BY <1>3, <1>5, <1>6, <1>9, <3>1
  <2>4. ASSUME code = 3, NEW b, rest = Raw(b)
        PROVE  OnFrame(sender, f, order) = Ignored
    <3>1. Len(rest) = 1 /\ Holds(frame, behind, <<b>>)
      BY <1>5, <2>4 DEF Raw
    <3>2. ~(behind < n)
      BY <1>3, <1>5, <1>6, <3>1
    <3>3. ~ReadUint8(f, behind).ok
      BY <1>4, <1>6, <3>1, <3>2, ReadByte DEF Throws
    <3> QED
      BY <2>1, <2>2, <2>4, <3>3, Dispatch
  <2>5. ASSUME code = 4, NEW text \in Seq(Bytes), Len(text) < Byte, rest = String8(text)
        PROVE  OnFrame(sender, f, order) = Ignored
    <3>1. Len(rest) = 1 + Len(text) /\ Holds(frame, behind, String8(text))
      BY <1>5, <2>5, String8Type
    <3>2. ~(behind + 1 + Len(text) <= n)
      BY <1>3, <1>5, <1>6, <3>1
    <3>3. ReadString8(f, behind) = Throws
      BY <1>4, <1>6, <2>5, <3>1, <3>2, ReadText
    <3>4. ~ReadString8(f, behind).ok
      BY <3>3 DEF Throws
    <3> QED
      BY <2>1, <2>2, <2>5, <3>4, Dispatch
  <2> QED
    BY <2>3, <2>4, <2>5 DEF Fits
<1> QED
  BY <1>7, <1>8, <1>9

(* A request cut short anywhere does nothing, whoever sends it, whatever   *)
(* the registry holds.                                                     *)
LEMMA CutCorrect == CutIgnored
<1> SUFFICES ASSUME NEW u \in User, NEW sender \in User,
                    NEW f \in Cut(AskList) \cup Cut(AskInfo(u)) \cup Cut(AskChange(u, 1))
                               \cup Cut(AskSend(u, Text[u])) \cup Cut(AskHistory(u))
             PROVE  OnFrame(sender, f, SetToSeq(Listed)) = Ignored
  BY DEF CutIgnored, Truncated, Senders
<1>1. CASE f \in Cut(AskList)
  <2>1. f = SubSeq(<<1>>, 1, 0)
    BY <1>1 DEF Cut, AskList
  <2>2. <<1>> \in Seq(Bytes) /\ 0 \in 0 .. Len(<<1>>)
    BY DEF Bytes
  <2>3. Len(f) = 0
    BY <2>1, <2>2, CutStart
  <2>4. ReadUint8(f, 0) = Throws
    BY <2>3 DEF ReadUint8
  <2> QED
    BY <2>4, EmptyIgnored
<1>2. CASE f \in Cut(AskInfo(u))
  <2>1. f \in Cut(Request(2, u, <<>>)) /\ <<>> \in Seq(Bytes)
    BY <1>2, TextType, Asking
  <2>2. 2 \in 2 .. 5 /\ Fits(2, <<>>)
    BY DEF Fits
  <2> QED
    BY <2>1, <2>2, CutRequest, Zenon
<1>3. CASE f \in Cut(AskChange(u, 1))
  <2>1. f \in Cut(Request(3, u, Raw(1))) /\ Raw(1) \in Seq(Bytes)
    BY <1>3, TextType, Asking
  <2>2. 3 \in 2 .. 5 /\ Fits(3, Raw(1))
    BY DEF Fits
  <2> QED
    BY <2>1, <2>2, CutRequest, Zenon
<1>4. CASE f \in Cut(AskSend(u, Text[u]))
  <2>1. f \in Cut(Request(4, u, String8(Text[u]))) /\ String8(Text[u]) \in Seq(Bytes)
    BY <1>4, TextType, Asking
  <2>2. 4 \in 2 .. 5 /\ Fits(4, String8(Text[u]))
    BY TextType DEF Fits
  <2> QED
    BY <2>1, <2>2, CutRequest, Zenon
<1>5. CASE f \in Cut(AskHistory(u))
  <2>1. f \in Cut(Request(5, u, <<>>)) /\ <<>> \in Seq(Bytes)
    BY <1>5, TextType, Asking
  <2>2. 5 \in 2 .. 5 /\ Fits(5, <<>>)
    BY DEF Fits
  <2> QED
    BY <2>1, <2>2, CutRequest, Zenon
<1> QED
  BY <1>1, <1>2, <1>3, <1>4, <1>5

-----------------------------------------------------------------------------
(* What a user asks is what happens.                                       *)

(* The whole of a request is read: its opcode, the name, and what is behind*)
(* it.                                                                     *)
LEMMA NameRead ==
  ASSUME NEW code \in Nat, NEW u \in User, NEW rest \in Seq(Bytes)
  PROVE  LET frame == Request(code, u, rest)
             behind == 2 + Len(Text[u])
         IN /\ ReadUint8(frame, 0) = Got(code, 1)
            /\ ReadString8(frame, 1) = Got(Text[u], behind)
            /\ ReadString8(frame, 1).offset = behind
            /\ StartOf(frame, frame)
            /\ Holds(frame, behind, rest)
            /\ Len(frame) = behind + Len(rest)
<1> DEFINE frame == Request(code, u, rest)
           behind == 2 + Len(Text[u])
<1>1. StartOf(frame, frame)
  BY RequestType, WholeStart
<1> HIDE DEF frame
<1>2. /\ ReadUint8(frame, 0) = IF 0 < Len(frame) THEN Got(code, 1) ELSE Throws
      /\ ReadString8(frame, 1) =
           IF behind <= Len(frame) THEN Got(Text[u], behind) ELSE Throws
      /\ Holds(frame, behind, rest)
      /\ Len(frame) = behind + Len(rest)
  BY <1>1, RequestReads DEF frame
<1>3. behind \in Nat /\ 0 < behind /\ Len(rest) \in Nat
  BY TextType, LenProperties
<1> HIDE DEF behind
<1>4. 0 < Len(frame) /\ behind <= Len(frame)
  BY <1>2, <1>3
<1>5. ReadString8(frame, 1).offset = behind
  BY <1>2, <1>4 DEF Got
<1> QED
  BY <1>1, <1>2, <1>4, <1>5 DEF behind, frame

LEMMA NameDone ==
  ASSUME NEW code \in Nat, NEW u \in User, NEW rest \in Seq(Bytes)
  PROVE  LET frame == Request(code, u, rest)
         IN /\ ReadUint8(frame, 0) = Got(code, 1)
            /\ ReadString8(frame, 1).ok /\ ReadString8(frame, 1).value = Text[u]
  BY NameRead DEF Got

LEMMA ByteDone ==
  ASSUME NEW code \in Nat, NEW u \in User, NEW b \in Nat
  PROVE  LET frame == Request(code, u, Raw(b))
             raw == ReadUint8(frame, ReadString8(frame, 1).offset)
         IN raw.ok /\ raw.value = b
<1> DEFINE frame == Request(code, u, Raw(b))
           behind == 2 + Len(Text[u])
<1>1. Raw(b) \in Seq(Bytes) /\ Len(Raw(b)) = 1 /\ behind \in Nat
  BY TextType DEF Raw, Bytes
<1>2. /\ ReadString8(frame, 1).offset = behind
      /\ StartOf(frame, frame) /\ Holds(frame, behind, Raw(b))
      /\ Len(frame) = behind + Len(Raw(b))
  BY <1>1, NameRead
<1> HIDE DEF behind, frame
<1>3. behind < Len(frame) /\ Holds(frame, behind, <<b>>)
  BY <1>1, <1>2 DEF Raw
<1>4. ReadUint8(frame, behind) = Got(b, behind + 1)
  BY <1>1, <1>2, <1>3, ReadByte
<1> QED
  BY <1>2, <1>4 DEF Got, frame

LEMMA TextDone ==
  ASSUME NEW code \in Nat, NEW u \in User, NEW text \in Seq(Bytes), Len(text) < Byte
  PROVE  LET frame == Request(code, u, String8(text))
             second == ReadString8(frame, ReadString8(frame, 1).offset)
         IN second.ok /\ second.value = text
<1> DEFINE frame == Request(code, u, String8(text))
           behind == 2 + Len(Text[u])
<1>1. /\ String8(text) \in Seq(Bytes) /\ Len(String8(text)) = 1 + Len(text)
      /\ behind \in Nat /\ Len(text) \in Nat
  BY TextType, String8Type, LenProperties
<1>2. /\ ReadString8(frame, 1).offset = behind
      /\ StartOf(frame, frame) /\ Holds(frame, behind, String8(text))
      /\ Len(frame) = behind + Len(String8(text))
  BY <1>1, NameRead
<1> HIDE DEF behind, frame
<1>3. behind + 1 + Len(text) <= Len(frame)
  BY <1>1, <1>2
<1>4. ReadString8(frame, behind) = Got(text, behind + 1 + Len(text))
  BY <1>1, <1>2, <1>3, ReadText
<1> QED
  BY <1>2, <1>4 DEF Got, frame

(* A status is known by its byte. *)
LEMMA StatusBytes ==
  ASSUME NEW s \in Status
  PROVE  /\ UserStatusToByte[s] \in 0 .. 3
         /\ (CHOOSE t \in Status : UserStatusToByte[t] = UserStatusToByte[s]) = s
<1>1. /\ UserStatusToByte["DISCONNECTED"] = 0 /\ UserStatusToByte["ACTIVO"] = 1
      /\ UserStatusToByte["OCUPADO"] = 2 /\ UserStatusToByte["INACTIVO"] = 3
  BY DEF UserStatusToByte
<1>2. \A t \in Status : UserStatusToByte[t] = UserStatusToByte[s] => t = s
  BY <1>1 DEF Status
<1>3. UserStatusToByte[s] \in 0 .. 3
  BY <1>1 DEF Status
<1> QED
  BY <1>2, <1>3

(* A status asked for is set for the user's own name, and refused for any  *)
(* other.                                                                  *)
LEMMA RepliesCorrect == RepliesTrue
<1> SUFFICES ASSUME NEW u \in User, NEW sender \in User
             PROVE  LET Does(data) == OnFrame(sender, data, SetToSeq(Listed))
    IN /\ Does(AskInfo(u)).reply =
            IF u \in Listed THEN StatusFrame(52, u) ELSE SendError(1)
       /\ \A s \in Status :
            Does(AskChange(u, UserStatusToByte[s])) =
              IF u = sender THEN [set |-> s] ELSE [reply |-> SendError(2)]
       /\ Does(AskSend(u, Text[sender])) = [send |-> <<Text[u], Text[sender]>>]
       /\ Does(AskSend(u, <<>>)) = [reply |-> SendError(3)]
       /\ Does(AskHistory(u)) = [history |-> Text[u]]
  BY DEF RepliesTrue, Senders
<1> DEFINE order == SetToSeq(Listed)
           Does(data) == OnFrame(sender, data, order)
<1> HIDE DEF order
<1>1. Does(AskInfo(u)).reply = IF u \in Listed THEN StatusFrame(52, u) ELSE SendError(1)
  <2>1. /\ ReadUint8(AskInfo(u), 0) = Got(2, 1)
        /\ ReadString8(AskInfo(u), 1).ok /\ ReadString8(AskInfo(u), 1).value = Text[u]
    <3>1. AskInfo(u) = Request(2, u, <<>>) /\ <<>> \in Seq(Bytes)
      BY Asking, TextType
    <3>2. 2 \in Nat
      OBVIOUS
    <3> DEFINE frame == Request(2, u, <<>>)
    <3>3. /\ ReadUint8(frame, 0) = Got(2, 1)
          /\ ReadString8(frame, 1).ok /\ ReadString8(frame, 1).value = Text[u]
      BY <3>1, <3>2, NameDone, Zenon
    <3> HIDE DEF frame
    <3> QED
      BY <3>1, <3>3 DEF frame
  <2>2. Does(AskInfo(u)) = [reply |-> HandleGetUserInfo(Text[u])]
    BY <2>1, Dispatch
  <2>3. \A v \in User : Text[v] = Text[u] => v = u
    BY ProtocolAssumption
  <2>4. CASE u \in Listed
    <3>1. Named(Text[u]) = {u}
      BY <2>3, <2>4 DEF Named, Listed
    <3>2. HandleGetUserInfo(Text[u]) = StatusFrame(52, u)
      BY <3>1 DEF HandleGetUserInfo, StatusFrame
    <3> QED
      BY <2>2, <2>4, <3>2
  <2>5. CASE u \notin Listed
    <3>1. Named(Text[u]) = {}
      BY <2>3, <2>5 DEF Named, Listed
    <3> QED
      BY <2>2, <2>5, <3>1 DEF HandleGetUserInfo
  <2> QED
    BY <2>4, <2>5
<1>2. ASSUME NEW s \in Status
      PROVE  Does(AskChange(u, UserStatusToByte[s])) =
               IF u = sender THEN [set |-> s] ELSE [reply |-> SendError(2)]
  <2> DEFINE raw == UserStatusToByte[s]
             frame == AskChange(u, raw)
  <2>1. raw \in 0 .. 3 /\ (CHOOSE t \in Status : UserStatusToByte[t] = raw) = s
    BY StatusBytes
  <2> HIDE DEF raw
  <2>7. raw \in Nat
    BY <2>1
  <2>2. frame = Request(3, u, Raw(raw)) /\ Raw(raw) \in Seq(Bytes)
    BY <2>7, Asking, TextType
  <2> HIDE DEF frame
  <2>3. /\ ReadUint8(frame, 0) = Got(3, 1)
        /\ ReadString8(frame, 1).ok /\ ReadString8(frame, 1).value = Text[u]
        /\ ReadUint8(frame, ReadString8(frame, 1).offset).ok
        /\ ReadUint8(frame, ReadString8(frame, 1).offset).value = raw
    BY <2>2, <2>7, NameDone, ByteDone
  <2>4. Does(frame) = HandleChangeStatus(sender, Text[u], raw)
    BY <2>3, Dispatch
  <2>5. Text[u] = Text[sender] <=> u = sender
    BY ProtocolAssumption
  <2>6. HandleChangeStatus(sender, Text[u], raw) =
          IF u = sender THEN [set |-> s] ELSE [reply |-> SendError(2)]
    BY <2>1, <2>5 DEF HandleChangeStatus
  <2> QED
    BY <2>4, <2>6 DEF frame, raw
<1>3. ASSUME NEW text \in Seq(Bytes), Len(text) < Byte
      PROVE  Does(AskSend(u, text)) = HandleSendMessage(Text[u], text)
  <2> DEFINE frame == AskSend(u, text)
  <2>1. frame = Request(4, u, String8(text)) /\ String8(text) \in Seq(Bytes)
    BY Asking
  <2> HIDE DEF frame
  <2>2. /\ ReadUint8(frame, 0) = Got(4, 1)
        /\ ReadString8(frame, 1).ok /\ ReadString8(frame, 1).value = Text[u]
        /\ ReadString8(frame, ReadString8(frame, 1).offset).ok
        /\ ReadString8(frame, ReadString8(frame, 1).offset).value = text
    BY <1>3, <2>1, NameDone, TextDone
  <2>3. Does(frame) = HandleSendMessage(Text[u], text)
    BY <2>2, Dispatch
  <2> QED
    BY <2>3 DEF frame
<1>4. Does(AskSend(u, Text[sender])) = [send |-> <<Text[u], Text[sender]>>]
  <2>1. Text[sender] # <<>>
    BY TextType, EmptySeq
  <2> QED
    BY <1>3, <2>1, TextType DEF HandleSendMessage
<1>5. Does(AskSend(u, <<>>)) = [reply |-> SendError(3)]
  <2>1. <<>> \in Seq(Bytes) /\ Len(<<>>) < Byte
    BY EmptySeq, ProtocolAssumption
  <2> QED
    BY <1>3, <2>1 DEF HandleSendMessage
<1>6. Does(AskHistory(u)) = [history |-> Text[u]]
  <2>1. AskHistory(u) = Request(5, u, <<>>) /\ <<>> \in Seq(Bytes)
    BY Asking, TextType
  <2>2. /\ ReadUint8(AskHistory(u), 0) = Got(5, 1)
        /\ ReadString8(AskHistory(u), 1).ok /\ ReadString8(AskHistory(u), 1).value = Text[u]
    <3>1. 5 \in Nat
      OBVIOUS
    <3> DEFINE frame == Request(5, u, <<>>)
    <3>2. /\ ReadUint8(frame, 0) = Got(5, 1)
          /\ ReadString8(frame, 1).ok /\ ReadString8(frame, 1).value = Text[u]
      BY <2>1, <3>1, NameDone, Zenon
    <3> HIDE DEF frame
    <3> QED
      BY <2>1, <3>2 DEF frame
  <2> QED
    BY <2>2, Dispatch
<1> QED
  BY <1>1, <1>2, <1>4, <1>5, <1>6 DEF order

-----------------------------------------------------------------------------
(* A client that reads a frame of items.  If the i-th of n items lies where*)
(* the one before ends, these are the items it finds.                      *)

LEMMA EmptyItems ==
  ASSUME NEW item(_)
  PROVE  [j \in 1 .. 0 |-> item(j)] = <<>>
  BY EmptySeq

LEMMA AppendItem ==
  ASSUME NEW item(_), NEW i \in Nat \ {0}
  PROVE  Append([j \in 1 .. i - 1 |-> item(j)], item(i)) = [j \in 1 .. i |-> item(j)]
  OBVIOUS

(* The i-th of n items starts at o[i - 1], its second part at p[i]. *)
FoundBytes(frame, n, o, p, items) ==
  /\ frame[2] = n /\ o[0] = 2
  /\ \A i \in 1 .. n : /\ ReadString8(frame, o[i - 1]) = Got(items[i][1], p[i])
                       /\ ReadUint8(frame, p[i]) = Got(items[i][2], o[i])
FoundTexts(frame, n, o, p, items) ==
  /\ frame[2] = n /\ o[0] = 2
  /\ \A i \in 1 .. n : /\ ReadString8(frame, o[i - 1]) = Got(items[i][1], p[i])
                       /\ ReadString8(frame, p[i]) = Got(items[i][2], o[i])

ItemsWithByte(frame) == ItemsIn(frame, ReadUint8)
ItemsWithText(frame) == ItemsIn(frame, ReadString8)
Items(n, items) == [i \in 1 .. n |-> <<items[i][1], items[i][2]>>]

LEMMA ItemsByte ==
  ASSUME NEW frame, NEW n \in Nat, NEW o, NEW p, NEW items, FoundBytes(frame, n, o, p, items)
  PROVE  ItemsWithByte(frame) = Items(n, items)
<1> DEFINE item(i) == <<items[i][1], items[i][2]>>
           Next(last) == LET first == ReadString8(frame, last.at)
                             second == ReadUint8(frame, first.offset)
                         IN [at |-> second.offset,
                             items |-> Append(last.items, <<first.value, second.value>>)]
           Start == [at |-> 2, items |-> <<>>]
           Solves(f) == f = [i \in 0 .. n |-> IF i = 0 THEN Start ELSE Next(f[i - 1])]
           known == [i \in 0 .. n |-> [at |-> o[i], items |-> [j \in 1 .. i |-> item(j)]]]
           read == CHOOSE f : Solves(f)
<1>1. ItemsWithByte(frame) = read[n].items
  BY DEF ItemsIn, ItemsWithByte, FoundBytes
<1>2. ASSUME NEW i \in 1 .. n PROVE known[i] = Next(known[i - 1])
  <2>1. i - 1 \in 0 .. n /\ i \in 0 .. n
    OBVIOUS
  <2>2. known[i - 1].at = o[i - 1] /\ known[i - 1].items = [j \in 1 .. i - 1 |-> item(j)]
    BY <2>1
  <2>3. known[i] = [at |-> o[i], items |-> [j \in 1 .. i |-> item(j)]]
    BY <2>1
  <2> HIDE DEF known
  <2>4. Next(known[i - 1]) = [at |-> o[i], items |-> Append(known[i - 1].items, item(i))]
    <3> DEFINE first == ReadString8(frame, o[i - 1])
               second == ReadUint8(frame, p[i])
    <3>1. first = Got(items[i][1], p[i]) /\ second = Got(items[i][2], o[i])
      BY DEF FoundBytes
    <3> HIDE DEF first, second
    <3>2. /\ first.value = items[i][1] /\ first.offset = p[i]
          /\ second.value = items[i][2] /\ second.offset = o[i]
      BY <3>1 DEF Got
    <3> QED
      BY <2>2, <3>2 DEF first, second
  <2>5. Append([j \in 1 .. i - 1 |-> item(j)], item(i)) = [j \in 1 .. i |-> item(j)]
    <3> HIDE DEF item
    <3> QED
      BY AppendItem
  <2> QED
    BY <2>2, <2>3, <2>4, <2>5
<1>3. known[0] = Start
  <2>1. known[0] = [at |-> 2, items |-> [j \in 1 .. 0 |-> item(j)]]
    BY DEF FoundBytes
  <2> QED
    BY <2>1, EmptyItems
<1> HIDE DEF Next, Start
<1>4. Solves(known)
  <2>1. known = [i \in 0 .. n |-> known[i]]
    OBVIOUS
  <2> HIDE DEF known
  <2>2. \A i \in 0 .. n : known[i] = IF i = 0 THEN Start ELSE Next(known[i - 1])
    BY <1>2, <1>3
  <2> QED
    BY <2>1, <2>2
<1>5. Solves(read)
  BY <1>4, Zenon
<1> HIDE DEF read
<1>6. \A i \in 0 .. n : read[i] = IF i = 0 THEN Start ELSE Next(read[i - 1])
  BY <1>5, Zenon
<1>7. read[0] = known[0]
  BY <1>3, <1>6
<1>8. ASSUME NEW i \in 1 .. n, read[i - 1] = known[i - 1] PROVE read[i] = known[i]
  <2>1. i \in 0 .. n /\ i # 0
    OBVIOUS
  <2> HIDE DEF known
  <2>2. read[i] = Next(read[i - 1])
    BY <1>6, <2>1
  <2> QED
    BY <1>2, <1>8, <2>2
<1>9. read[n] = known[n]
  <2> HIDE DEF known
  <2> QED
    BY <1>7, <1>8, SameSteps
<1>10. known[n].items = [j \in 1 .. n |-> item(j)]
  <2>1. n \in 0 .. n
    OBVIOUS
  <2> QED
    BY <2>1
<1> QED
  BY <1>1, <1>9, <1>10 DEF Items

LEMMA ItemsText ==
  ASSUME NEW frame, NEW n \in Nat, NEW o, NEW p, NEW items, FoundTexts(frame, n, o, p, items)
  PROVE  ItemsWithText(frame) = Items(n, items)
<1> DEFINE item(i) == <<items[i][1], items[i][2]>>
           Next(last) == LET first == ReadString8(frame, last.at)
                             second == ReadString8(frame, first.offset)
                         IN [at |-> second.offset,
                             items |-> Append(last.items, <<first.value, second.value>>)]
           Start == [at |-> 2, items |-> <<>>]
           Solves(f) == f = [i \in 0 .. n |-> IF i = 0 THEN Start ELSE Next(f[i - 1])]
           known == [i \in 0 .. n |-> [at |-> o[i], items |-> [j \in 1 .. i |-> item(j)]]]
           read == CHOOSE f : Solves(f)
<1>1. ItemsWithText(frame) = read[n].items
  BY DEF ItemsIn, ItemsWithText, FoundTexts
<1>2. ASSUME NEW i \in 1 .. n PROVE known[i] = Next(known[i - 1])
  <2>1. i - 1 \in 0 .. n /\ i \in 0 .. n
    OBVIOUS
  <2>2. known[i - 1].at = o[i - 1] /\ known[i - 1].items = [j \in 1 .. i - 1 |-> item(j)]
    BY <2>1
  <2>3. known[i] = [at |-> o[i], items |-> [j \in 1 .. i |-> item(j)]]
    BY <2>1
  <2> HIDE DEF known
  <2>4. Next(known[i - 1]) = [at |-> o[i], items |-> Append(known[i - 1].items, item(i))]
    <3> DEFINE first == ReadString8(frame, o[i - 1])
               second == ReadString8(frame, p[i])
    <3>1. first = Got(items[i][1], p[i]) /\ second = Got(items[i][2], o[i])
      BY DEF FoundTexts
    <3> HIDE DEF first, second
    <3>2. /\ first.value = items[i][1] /\ first.offset = p[i]
          /\ second.value = items[i][2] /\ second.offset = o[i]
      BY <3>1 DEF Got
    <3> QED
      BY <2>2, <3>2 DEF first, second
  <2>5. Append([j \in 1 .. i - 1 |-> item(j)], item(i)) = [j \in 1 .. i |-> item(j)]
    <3> HIDE DEF item
    <3> QED
      BY AppendItem
  <2> QED
    BY <2>2, <2>3, <2>4, <2>5
<1>3. known[0] = Start
  <2>1. known[0] = [at |-> 2, items |-> [j \in 1 .. 0 |-> item(j)]]
    BY DEF FoundTexts
  <2> QED
    BY <2>1, EmptyItems
<1> HIDE DEF Next, Start
<1>4. Solves(known)
  <2>1. known = [i \in 0 .. n |-> known[i]]
    OBVIOUS
  <2> HIDE DEF known
  <2>2. \A i \in 0 .. n : known[i] = IF i = 0 THEN Start ELSE Next(known[i - 1])
    BY <1>2, <1>3
  <2> QED
    BY <2>1, <2>2
<1>5. Solves(read)
  BY <1>4, Zenon
<1> HIDE DEF read
<1>6. \A i \in 0 .. n : read[i] = IF i = 0 THEN Start ELSE Next(read[i - 1])
  BY <1>5, Zenon
<1>7. read[0] = known[0]
  BY <1>3, <1>6
<1>8. ASSUME NEW i \in 1 .. n, read[i - 1] = known[i - 1] PROVE read[i] = known[i]
  <2>1. i \in 0 .. n /\ i # 0
    OBVIOUS
  <2> HIDE DEF known
  <2>2. read[i] = Next(read[i - 1])
    BY <1>6, <2>1
  <2> QED
    BY <1>2, <1>8, <2>2
<1>9. read[n] = known[n]
  <2> HIDE DEF known
  <2> QED
    BY <1>7, <1>8, SameSteps
<1>10. known[n].items = [j \in 1 .. n |-> item(j)]
  <2>1. n \in 0 .. n
    OBVIOUS
  <2> QED
    BY <2>1
<1> QED
  BY <1>1, <1>9, <1>10 DEF Items

-----------------------------------------------------------------------------
(* The items of a frame.  What is written behind the opcode and the count  *)
(* lies from the third byte on, one item behind another.                   *)
Counted(code, n, seqs) == <<code>> \o Size(n) \o FlattenSeq(seqs)

LEMMA CountedReads ==
  ASSUME NEW code \in Nat, NEW n \in Nat, NEW m \in Nat, NEW seqs \in [1 .. m -> Seq(Bytes)]
  PROVE  LET frame == Counted(code, n, seqs)
         IN /\ StartOf(frame, frame)
            /\ frame[2] = n % Byte
            /\ \E o \in [0 .. m -> Nat] :
                 /\ o[0] = 2
                 /\ \A i \in 1 .. m : /\ o[i] = o[i - 1] + Len(seqs[i])
                                     /\ o[i] <= Len(frame)
                                     /\ Holds(frame, o[i - 1], seqs[i])
<1> DEFINE first == <<code>>
           size == Size(n)
           head == first \o size
           body == FlattenSeq(seqs)
           frame == head \o body
<1>1. first \in Seq(Bytes) /\ Len(first) = 1
  BY DEF Bytes
<1>2. size \in Seq(Bytes) /\ Len(size) = 1 /\ size[1] = n % Byte
  <2>1. n % Byte \in Nat
    BY ProtocolAssumption
  <2> QED
    BY <2>1 DEF Size, Bytes
<1>3. body \in Seq(Bytes) /\ \E at : Laid(body, seqs, m, at)
  BY FlattenLaid
<1> HIDE DEF first, size, body
<1>4. head \in Seq(Bytes) /\ Len(head) = 2 /\ Holds(head, 1, size)
  <2>1. /\ head \in Seq(Bytes) /\ Len(head) = Len(first) + Len(size)
        /\ Holds(head, Len(first), size)
    BY <1>1, <1>2, ConcatHolds
  <2> QED
    BY <1>1, <1>2, <2>1
<1> HIDE DEF head
<1>5. frame \in Seq(Bytes) /\ Len(frame) = 2 + Len(body) /\ Holds(frame, 2, body)
        /\ Holds(frame, 0, head)
  BY <1>3, <1>4, ConcatHolds
<1> HIDE DEF frame
<1>6. StartOf(frame, frame)
  BY <1>5, WholeStart
<1>7. frame[2] = n % Byte
  <2>1. 2 \in 1 .. Len(head) /\ 0 + 2 = 2 /\ 1 \in 1 .. Len(size) /\ 1 + 1 = 2
    BY <1>2, <1>4
  <2>2. frame[2] = head[2]
    BY <1>5, <2>1 DEF Holds
  <2>3. head[2] = size[1]
    BY <1>4, <2>1 DEF Holds
  <2> QED
    BY <1>2, <2>2, <2>3
<1>8. PICK at : Laid(body, seqs, m, at)
  BY <1>3
<1> DEFINE o == [i \in 0 .. m |-> 2 + at[i]]
<1>9. o \in [0 .. m -> Nat] /\ o[0] = 2
  BY <1>8 DEF Laid
<1>10. ASSUME NEW i \in 1 .. m
       PROVE  /\ o[i] = o[i - 1] + Len(seqs[i])
              /\ o[i] <= Len(frame)
              /\ Holds(frame, o[i - 1], seqs[i])
  <2>1. i \in 0 .. m /\ i - 1 \in 0 .. m
    OBVIOUS
  <2>2. o[i] = 2 + at[i] /\ o[i - 1] = 2 + at[i - 1]
    BY <2>1
  <2> HIDE DEF o
  <2>3. /\ at[i] \in Nat /\ at[i - 1] \in Nat
        /\ at[i] = at[i - 1] + Len(seqs[i])
        /\ at[i] <= Len(body)
        /\ \A j \in 1 .. Len(seqs[i]) : body[at[i - 1] + j] = seqs[i][j]
    BY <1>8, <2>1 DEF Laid
  <2>4. Len(body) \in Nat /\ Len(seqs[i]) \in Nat /\ seqs[i] \in Seq(Bytes)
    BY <1>3, LenProperties
  <2>5. Holds(body, at[i - 1], seqs[i])
    BY <2>3 DEF Holds
  <2>6. 2 \in Nat
    OBVIOUS
  <2>7. Holds(frame, 2 + at[i - 1], seqs[i])
    BY <1>3, <1>5, <2>3, <2>4, <2>5, <2>6, HoldsPart
  <2>8. Holds(frame, o[i - 1], seqs[i])
    BY <2>2, <2>7, Zenon
  <2>9. o[i] = o[i - 1] + Len(seqs[i]) /\ o[i] <= Len(frame)
    BY <1>5, <2>2, <2>3, <2>4
  <2> QED
    BY <2>8, <2>9, Zenon
<1> HIDE DEF o
<1>11. \E w \in [0 .. m -> Nat] :
         /\ w[0] = 2
         /\ \A i \in 1 .. m : /\ w[i] = w[i - 1] + Len(seqs[i])
                             /\ w[i] <= Len(frame)
                             /\ Holds(frame, w[i - 1], seqs[i])
  BY <1>9, <1>10
<1> QED
  BY <1>6, <1>7, <1>11 DEF frame, head, body, first, size, Counted

(* An entry: a name and a byte. *)
NameByte(text, b) == String8(text) \o <<b>>

LEMMA NameByteType ==
  ASSUME NEW text \in Seq(Bytes), Len(text) < Byte, NEW b \in Nat
  PROVE  NameByte(text, b) \in Seq(Bytes) /\ Len(NameByte(text, b)) = 2 + Len(text)
         /\ Holds(NameByte(text, b), 0, String8(text))
         /\ Holds(NameByte(text, b), 1 + Len(text), <<b>>)
<1> DEFINE last == <<b>>
<1>1. last \in Seq(Bytes) /\ Len(last) = 1
  BY DEF Bytes
<1> HIDE DEF last
<1>2. String8(text) \in Seq(Bytes) /\ Len(String8(text)) = 1 + Len(text) /\ Len(text) \in Nat
  BY String8Type, LenProperties
<1>3. /\ String8(text) \o last \in Seq(Bytes)
      /\ Len(String8(text) \o last) = 1 + Len(text) + 1
      /\ Holds(String8(text) \o last, 0, String8(text))
      /\ Holds(String8(text) \o last, 1 + Len(text), last)
  <2> DEFINE s == String8(text)
  <2>1. s \in Seq(Bytes) /\ Len(s) = 1 + Len(text)
    BY <1>2
  <2> HIDE DEF s
  <2>2. /\ s \o last \in Seq(Bytes) /\ Len(s \o last) = Len(s) + Len(last)
        /\ Holds(s \o last, 0, s) /\ Holds(s \o last, Len(s), last)
    BY <1>1, <2>1, ConcatHolds
  <2> QED
    BY <1>1, <2>1, <2>2 DEF s
<1>4. 1 + Len(text) + 1 = 2 + Len(text)
  BY <1>2
<1> QED
  BY <1>3, <1>4 DEF NameByte, last

LEMMA NameByteReads ==
  ASSUME NEW frame, StartOf(frame, frame), NEW o \in Nat,
         NEW text \in Seq(Bytes), Len(text) < Byte, NEW b \in Nat,
         Holds(frame, o, NameByte(text, b))
  PROVE  /\ ReadString8(frame, o) = Got(text, o + 1 + Len(text))
         /\ ReadUint8(frame, o + 1 + Len(text)) = Got(b, o + Len(NameByte(text, b)))
<1> DEFINE entry == NameByte(text, b)
           last == <<b>>
<1>1. /\ entry \in Seq(Bytes) /\ Len(entry) = 2 + Len(text)
      /\ Holds(entry, 0, String8(text)) /\ Holds(entry, 1 + Len(text), last)
  BY NameByteType
<1>2. last \in Seq(Bytes) /\ Len(last) = 1
  BY DEF Bytes
<1> HIDE DEF entry
<1>3. /\ Len(text) \in Nat /\ Len(frame) \in Nat /\ o + Len(entry) <= Len(frame)
      /\ frame \in Seq(Bytes) /\ String8(text) \in Seq(Bytes)
      /\ 0 \in Nat /\ 1 + Len(text) \in Nat
  <2>1. Len(text) \in Nat /\ Len(frame) \in Nat /\ frame \in Seq(Bytes)
    BY LenProperties DEF StartOf
  <2>2. Holds(frame, o, entry)
    BY DEF entry
  <2> QED
    BY <2>1, <2>2, String8Type DEF Holds
<1>4. Holds(frame, o + 0, String8(text))
  BY <1>1, <1>3, HoldsPart DEF entry
<1> HIDE DEF last
<1>5. Holds(frame, o + (1 + Len(text)), last)
  BY <1>1, <1>2, <1>3, HoldsPart DEF entry
<1>6. /\ o + 0 = o /\ o + (1 + Len(text)) = o + 1 + Len(text)
      /\ o + 1 + Len(text) <= Len(frame) /\ o + 1 + Len(text) < Len(frame)
      /\ o + 1 + Len(text) \in Nat /\ o + 1 + Len(text) + 1 = o + Len(entry)
  BY <1>1, <1>3
<1>7. ReadString8(frame, o) = Got(text, o + 1 + Len(text))
  BY <1>4, <1>6, ReadText
<1>8. Holds(frame, o + 1 + Len(text), <<b>>)
  BY <1>5, <1>6 DEF last
<1>9. ReadUint8(frame, o + 1 + Len(text)) = Got(b, o + 1 + Len(text) + 1)
  <2> DEFINE p == o + 1 + Len(text)
  <2>1. p \in Nat /\ p < Len(frame) /\ Holds(frame, p, <<b>>)
    BY <1>6, <1>8
  <2> HIDE DEF p
  <2>2. ReadUint8(frame, p) = Got(b, p + 1)
    BY <2>1, ReadByte
  <2> QED
    BY <2>2 DEF p
<1> QED
  BY <1>6, <1>7, <1>9 DEF entry

(* A message: two texts. *)
Pair(first, second) == String8(first) \o String8(second)

LEMMA PairType ==
  ASSUME NEW first \in Seq(Bytes), Len(first) < Byte,
         NEW second \in Seq(Bytes), Len(second) < Byte
  PROVE  Pair(first, second) \in Seq(Bytes)
         /\ Len(Pair(first, second)) = 2 + Len(first) + Len(second)
         /\ Holds(Pair(first, second), 0, String8(first))
         /\ Holds(Pair(first, second), 1 + Len(first), String8(second))
<1>1. /\ String8(first) \in Seq(Bytes) /\ Len(String8(first)) = 1 + Len(first)
      /\ String8(second) \in Seq(Bytes) /\ Len(String8(second)) = 1 + Len(second)
      /\ Len(first) \in Nat /\ Len(second) \in Nat
  BY String8Type, LenProperties
<1>2. /\ String8(first) \o String8(second) \in Seq(Bytes)
      /\ Len(String8(first) \o String8(second)) = 1 + Len(first) + (1 + Len(second))
      /\ Holds(String8(first) \o String8(second), 0, String8(first))
      /\ Holds(String8(first) \o String8(second), 1 + Len(first), String8(second))
  BY <1>1, ConcatHolds
<1>3. 1 + Len(first) + (1 + Len(second)) = 2 + Len(first) + Len(second)
  BY <1>1
<1> QED
  BY <1>2, <1>3 DEF Pair

LEMMA PairReads ==
  ASSUME NEW frame, StartOf(frame, frame), NEW o \in Nat,
         NEW first \in Seq(Bytes), Len(first) < Byte,
         NEW second \in Seq(Bytes), Len(second) < Byte,
         Holds(frame, o, Pair(first, second))
  PROVE  /\ ReadString8(frame, o) = Got(first, o + 1 + Len(first))
         /\ ReadString8(frame, o + 1 + Len(first)) = Got(second, o + Len(Pair(first, second)))
<1> DEFINE pair == Pair(first, second)
<1>1. /\ pair \in Seq(Bytes) /\ Len(pair) = 2 + Len(first) + Len(second)
      /\ Holds(pair, 0, String8(first)) /\ Holds(pair, 1 + Len(first), String8(second))
  BY PairType
<1> HIDE DEF pair
<1>2. /\ Len(first) \in Nat /\ Len(second) \in Nat /\ Len(frame) \in Nat
      /\ o + Len(pair) <= Len(frame) /\ frame \in Seq(Bytes)
      /\ String8(first) \in Seq(Bytes) /\ String8(second) \in Seq(Bytes)
      /\ 0 \in Nat /\ 1 + Len(first) \in Nat
  <2>1. /\ Len(first) \in Nat /\ Len(second) \in Nat
        /\ Len(frame) \in Nat /\ frame \in Seq(Bytes)
    BY LenProperties DEF StartOf
  <2>2. Holds(frame, o, pair)
    BY DEF pair
  <2> QED
    BY <2>1, <2>2, String8Type DEF Holds
<1>3. Holds(frame, o + 0, String8(first)) /\ Holds(frame, o + (1 + Len(first)), String8(second))
  BY <1>1, <1>2, HoldsPart DEF pair
<1>4. /\ o + 0 = o /\ o + (1 + Len(first)) = o + 1 + Len(first)
      /\ o + 1 + Len(first) <= Len(frame)
      /\ o + 1 + Len(first) \in Nat
      /\ o + 1 + Len(first) + 1 + Len(second) <= Len(frame)
      /\ o + 1 + Len(first) + 1 + Len(second) = o + Len(pair)
  BY <1>1, <1>2
<1>5. ReadString8(frame, o) = Got(first, o + 1 + Len(first))
  BY <1>3, <1>4, ReadText
<1>6. ReadString8(frame, o + 1 + Len(first)) =
        Got(second, o + 1 + Len(first) + 1 + Len(second))
  <2> DEFINE p == o + 1 + Len(first)
  <2>1. /\ p \in Nat /\ p + 1 + Len(second) <= Len(frame)
        /\ Holds(frame, p, String8(second))
    BY <1>3, <1>4
  <2> HIDE DEF p
  <2>2. ReadString8(frame, p) = Got(second, p + 1 + Len(second))
    BY <2>1, ReadText
  <2> QED
    BY <2>2 DEF p
<1> QED
  BY <1>4, <1>5, <1>6 DEF pair

-----------------------------------------------------------------------------
(* The list of the users.                                                  *)

LEMMA EntryBytes ==
  ASSUME TypeOK, NEW u \in Listed
  PROVE  LET b == UserStatusToByte[connections[u].status]
         IN /\ u \in User /\ b \in Nat
            /\ User8(u) = NameByte(Text[u], b)
            /\ TrueEntry(u) = <<Text[u], b>>
            /\ User8(u) \in Seq(Bytes)
<1>1. u \in User /\ connections[u].status \in Status
  BY DEF Listed, Registered, TypeOK, Entry
<1> DEFINE b == UserStatusToByte[connections[u].status]
<1>2. b \in Nat
  BY <1>1, StatusBytes
<1>3. User8(u) = NameByte(Text[u], b) /\ TrueEntry(u) = <<Text[u], b>>
  BY DEF User8, NameByte, TrueEntry
<1> HIDE DEF b
<1>4. NameByte(Text[u], b) \in Seq(Bytes)
  BY <1>1, <1>2, TextType, NameByteType
<1> QED
  BY <1>1, <1>2, <1>3, <1>4 DEF b

LEMMA ListAsked ==
  ASSUME NEW sender, NEW order
  PROVE  OnFrame(sender, AskList, order).reply = HandleListUsers(order)
<1>1. Len(AskList) = 1 /\ AskList[0 + 1] = 1
  BY DEF AskList
<1>2. ReadUint8(AskList, 0) = Got(1, 1)
  BY <1>1 DEF ReadUint8
<1>3. 1 \in 1 .. 5
  OBVIOUS
<1> QED
  BY <1>2, <1>3, Dispatch

(* The client finds the true entries of the first users of the list, in the*)
(* order the server walked them, as many as the byte that counts them says.*)
LEMMA ListRead ==
  ASSUME TypeOK, IsFiniteSet(Listed), NEW order \in SetToSeqs(Listed), NEW sender
  PROVE  FoundInList(sender, order) =
           [i \in 1..(Len(order) % Byte) |-> TrueEntry(order[i])]
<1> DEFINE m == Cardinality(Listed)
<1>1. m \in Nat /\ order \in [1 .. m -> Listed]
  BY FS_CardinalityType DEF SetToSeqs
<1> HIDE DEF m
<1>2. Len(order) = m /\ DOMAIN order = 1 .. m
  BY <1>1
<1> DEFINE seqs == [i \in DOMAIN order |-> User8(order[i])]
           n == m % Byte
           byte(i) == UserStatusToByte[connections[order[i]].status]
<1>3. ASSUME NEW i \in 1 .. m
      PROVE  /\ order[i] \in User /\ byte(i) \in Nat
             /\ seqs[i] = NameByte(Text[order[i]], byte(i))
             /\ TrueEntry(order[i]) = <<Text[order[i]], byte(i)>>
             /\ seqs[i] \in Seq(Bytes)
  <2>1. order[i] \in Listed /\ seqs[i] = User8(order[i])
    BY <1>1, <1>2
  <2> HIDE DEF seqs
  <2> QED
    BY <2>1, EntryBytes
<1>4. seqs \in [1 .. m -> Seq(Bytes)]
  <2>1. seqs = [i \in 1 .. m |-> seqs[i]]
    BY <1>2
  <2> HIDE DEF seqs
  <2> QED
    BY <1>3, <2>1
<1>5. HandleListUsers(order) = Counted(51, m, seqs)
  BY <1>2 DEF HandleListUsers, Counted
<1> HIDE DEF seqs
<1> DEFINE frame == Counted(51, m, seqs)
<1>6. 51 \in Nat
  OBVIOUS
<1>7. /\ StartOf(frame, frame) /\ frame[2] = n
      /\ \E o \in [0 .. m -> Nat] :
           /\ o[0] = 2
           /\ \A i \in 1 .. m : /\ o[i] = o[i - 1] + Len(seqs[i])
                               /\ o[i] <= Len(frame)
                               /\ Holds(frame, o[i - 1], seqs[i])
  BY <1>1, <1>4, <1>6, CountedReads
<1> HIDE DEF frame
<1>8. PICK o \in [0 .. m -> Nat] :
        /\ o[0] = 2
        /\ \A i \in 1 .. m : /\ o[i] = o[i - 1] + Len(seqs[i])
                            /\ o[i] <= Len(frame)
                            /\ Holds(frame, o[i - 1], seqs[i])
  BY <1>7
<1>9. n \in Nat /\ n <= m
  <2>1. Byte \in Nat /\ Byte > 0
    BY ProtocolAssumption
  <2>2. n \in Nat /\ n < Byte
    BY <1>1, <2>1
  <2>3. m < Byte => n = m
    BY <1>1, <2>1
  <2> HIDE DEF n
  <2> QED
    BY <1>1, <2>1, <2>2, <2>3
<1> HIDE DEF n
<1> DEFINE p == [i \in 1 .. m |-> o[i - 1] + 1 + Len(Text[order[i]])]
           items == [i \in 1 .. m |-> <<Text[order[i]], byte(i)>>]
<1>10. ASSUME NEW i \in 1 .. n
       PROVE  /\ ReadString8(frame, o[i - 1]) = Got(items[i][1], p[i])
              /\ ReadUint8(frame, p[i]) = Got(items[i][2], o[i])
  <2>1. i \in 1 .. m /\ i - 1 \in 0 .. m
    BY <1>1, <1>9
  <2>2. /\ items[i][1] = Text[order[i]] /\ items[i][2] = byte(i)
        /\ p[i] = o[i - 1] + 1 + Len(Text[order[i]])
    BY <2>1
  <2> HIDE DEF items, p
  <2>3. /\ order[i] \in User /\ byte(i) \in Nat
        /\ seqs[i] = NameByte(Text[order[i]], byte(i))
    BY <1>3, <2>1
  <2> HIDE DEF byte
  <2>4. /\ o[i] = o[i - 1] + Len(seqs[i]) /\ Holds(frame, o[i - 1], seqs[i])
        /\ o[i - 1] \in Nat
    BY <1>8, <2>1
  <2>5. Text[order[i]] \in Seq(Bytes) /\ Len(Text[order[i]]) < Byte
    BY <2>3, TextType
  <2> DEFINE text == Text[order[i]]
             b == byte(i)
             at == o[i - 1]
  <2>6. /\ text \in Seq(Bytes) /\ Len(text) < Byte /\ b \in Nat /\ at \in Nat
        /\ Holds(frame, at, NameByte(text, b))
    BY <2>3, <2>4, <2>5
  <2> HIDE DEF text, b, at
  <2>7. /\ ReadString8(frame, at) = Got(text, at + 1 + Len(text))
        /\ ReadUint8(frame, at + 1 + Len(text)) = Got(b, at + Len(NameByte(text, b)))
    BY <1>7, <2>6, NameByteReads
  <2> QED
    BY <2>2, <2>3, <2>4, <2>7 DEF text, b, at
<1>11. ItemsWithByte(frame) = Items(n, items)
  <2> HIDE DEF items, p
  <2>1. FoundBytes(frame, n, o, p, items)
    BY <1>7, <1>8, <1>10 DEF FoundBytes
  <2> QED
    BY <1>9, <2>1, ItemsByte
<1>12. ASSUME NEW i \in 1 .. n PROVE <<items[i][1], items[i][2]>> = TrueEntry(order[i])
  <2>1. i \in 1 .. m
    BY <1>1, <1>9
  <2>2. items[i][1] = Text[order[i]] /\ items[i][2] = byte(i)
    BY <2>1
  <2> HIDE DEF items, byte
  <2> QED
    BY <1>3, <2>1, <2>2
<1> HIDE DEF items
<1>13. ItemsIn(frame, ReadUint8) = [i \in 1 .. n |-> TrueEntry(order[i])]
  BY <1>11, <1>12 DEF ItemsWithByte, Items
<1> QED
  BY <1>2, <1>5, <1>13, ListAsked DEF n, frame, FoundInList

(* The server walks every entry once.                                      *)
LEMMA OrderWalksAll ==
  ASSUME IsFiniteSet(Listed), NEW order \in SetToSeqs(Listed)
  PROVE  /\ Len(order) \in Nat
         /\ \A i \in 1..Len(order) : order[i] \in Listed
         /\ \A i, j \in 1..Len(order) : order[i] = order[j] => i = j
         /\ \A u \in Listed : \E i \in 1..Len(order) : order[i] = u
<1> DEFINE m == Cardinality(Listed)
<1>1. /\ m \in Nat /\ order \in [1..m -> Listed]
      /\ \A i, j \in 1..m : order[i] = order[j] => i = j
  BY FS_CardinalityType DEF SetToSeqs
<1>2. order \in Injection(1..m, Listed)
  BY <1>1 DEF Injection, IsInjective
<1>3. IsFiniteSet(1..m) /\ Cardinality(1..m) = m
  BY <1>1, FS_Interval
<1> HIDE DEF m
<1>4. order \in Surjection(1..m, Listed)
  BY <1>2, <1>3, FS_Injection DEF m
<1>5. \A u \in Listed : \E i \in 1..m : order[i] = u
  BY <1>4 DEF Surjection
<1>6. Len(order) = m
  BY <1>1
<1> QED
  BY <1>1, <1>5, <1>6

(* Only true entries, no name twice, and every connected user if their     *)
(* number fits a byte.                                                     *)
LEMMA ListCorrect ==
  ASSUME TypeOK, IsFiniteSet(Listed) PROVE ListTrue
<1> SUFFICES ASSUME NEW order \in SetToSeqs(Listed), NEW sender \in User
             PROVE  LET found == FoundInList(sender, order)
                    IN /\ \A i \in DOMAIN found : \E u \in Listed : found[i] = TrueEntry(u)
                       /\ \A i, j \in DOMAIN found : found[i][1] = found[j][1] => i = j
                       /\ Len(order) < Byte =>
                            \A u \in User : Connected(u) =>
                              \E i \in DOMAIN found : found[i] = TrueEntry(u)
  BY DEF ListTrue, Senders
<1> DEFINE m == Len(order)
           n == m % Byte
           found == FoundInList(sender, order)
<1>1. /\ m \in Nat
      /\ \A i \in 1..m : order[i] \in Listed
      /\ \A i, j \in 1..m : order[i] = order[j] => i = j
      /\ \A u \in Listed : \E i \in 1..m : order[i] = u
  BY OrderWalksAll
<1>2. found = [i \in 1..n |-> TrueEntry(order[i])]
  BY ListRead
<1> HIDE DEF found, m
<1>3. n \in Nat /\ n <= m /\ (m < Byte => n = m)
  <2>1. Byte \in Nat /\ Byte > 0
    BY ProtocolAssumption
  <2>2. n \in Nat /\ n < Byte
    BY <1>1, <2>1
  <2>3. m < Byte => n = m
    BY <1>1, <2>1
  <2> HIDE DEF n
  <2> QED
    BY <1>1, <2>1, <2>2, <2>3
<1> HIDE DEF n
<1>4. \A i \in 1..n : i \in 1..m
  BY <1>1, <1>3
<1>5. \A i \in 1..n : found[i] = TrueEntry(order[i]) /\ order[i] \in Listed
  BY <1>1, <1>2, <1>4
<1>6. DOMAIN found = 1..n
  BY <1>2
<1>7. ASSUME NEW i \in 1..n, NEW j \in 1..n, found[i][1] = found[j][1] PROVE i = j
  <2>1. Text[order[i]] = Text[order[j]]
    BY <1>5, <1>7 DEF TrueEntry
  <2>2. order[i] \in User /\ order[j] \in User
    BY <1>5 DEF Listed
  <2>3. order[i] = order[j]
    BY <2>1, <2>2, ProtocolAssumption
  <2> QED
    BY <1>1, <1>4, <2>3
<1>8. ASSUME m < Byte, NEW u \in User, Connected(u)
      PROVE  \E i \in 1..n : found[i] = TrueEntry(u)
  <2>1. u \in Listed /\ n = m
    BY <1>3, <1>8 DEF Listed, Connected
  <2>2. PICK i \in 1..m : order[i] = u
    BY <1>1, <2>1
  <2> QED
    BY <1>5, <2>1, <2>2
<1> QED
  BY <1>5, <1>6, <1>7, <1>8 DEF m, found

-----------------------------------------------------------------------------
(* Histories and notifications.                                            *)

LEMMA MinOfTwo ==
  ASSUME NEW a \in Nat, NEW b \in Nat
  PROVE  Min({a, b}) = IF a <= b THEN a ELSE b
<1> DEFINE least == IF a <= b THEN a ELSE b
           Least(x) == x \in {a, b} /\ \A y \in {a, b} : x <= y
<1>1. Least(least)
  OBVIOUS
<1>2. \A x : Least(x) => x = least
  OBVIOUS
<1>3. Min({a, b}) = CHOOSE x : Least(x)
  BY DEF Min
<1> HIDE DEF Least, least
<1>4. Least(CHOOSE x : Least(x))
  BY <1>1, Zenon
<1> QED
  BY <1>2, <1>3, <1>4 DEF least

(* A notification is its opcode and what it tells. *)
Notice(code, told) == <<code>> \o told

LEMMA NoticeHolds ==
  ASSUME NEW code \in Nat, NEW told \in Seq(Bytes)
  PROVE  StartOf(Notice(code, told), Notice(code, told)) /\ Holds(Notice(code, told), 1, told)
<1> DEFINE first == <<code>>
<1>1. first \in Seq(Bytes) /\ Len(first) = 1
  BY DEF Bytes
<1> HIDE DEF first
<1>2. first \o told \in Seq(Bytes) /\ Holds(first \o told, Len(first), told)
  BY <1>1, ConcatHolds
<1>3. StartOf(first \o told, first \o told)
  BY <1>2, WholeStart
<1> QED
  BY <1>1, <1>2, <1>3 DEF Notice, first

LEMMA MessageBytes ==
  ASSUME NEW m \in Message
  PROVE  /\ m = <<m[1], m[2]>>
         /\ m[1] \in Seq(Bytes) /\ Len(m[1]) < Byte
         /\ m[2] \in Seq(Bytes) /\ Len(m[2]) < Byte
         /\ Message8(m) = Pair(m[1], m[2]) /\ Message8(m) \in Seq(Bytes)
<1>1. PICK u \in User, v \in User : m[1] = Text[u] /\ m[2] = Text[v]
  BY DEF Message
<1>2. m = <<m[1], m[2]>>
  BY DEF Message
<1>3. /\ m[1] \in Seq(Bytes) /\ Len(m[1]) < Byte
      /\ m[2] \in Seq(Bytes) /\ Len(m[2]) < Byte
  BY <1>1, TextType
<1>4. Message8(m) = Pair(m[1], m[2])
  BY DEF Message8, Pair
<1> QED
  BY <1>2, <1>3, <1>4, PairType

(* A message that arrives is the message that was sent.                    *)
LEMMA MessageRead ==
  ASSUME NEW m \in Message
  PROVE  ReadString8(MessageFrame(m), 1).value = m[1]
<1> DEFINE pair == Pair(m[1], m[2])
           frame == Notice(55, pair)
<1>1. /\ m[1] \in Seq(Bytes) /\ Len(m[1]) < Byte
      /\ m[2] \in Seq(Bytes) /\ Len(m[2]) < Byte
      /\ pair \in Seq(Bytes) /\ MessageFrame(m) = frame
  BY MessageBytes DEF MessageFrame, Notice
<1>2. 55 \in Nat /\ 1 \in Nat
  OBVIOUS
<1> HIDE DEF pair
<1>3. StartOf(frame, frame) /\ Holds(frame, 1, pair)
  BY <1>1, <1>2, NoticeHolds
<1> HIDE DEF frame
<1> DEFINE first == m[1]
           second == m[2]
<1>4. /\ first \in Seq(Bytes) /\ Len(first) < Byte
      /\ second \in Seq(Bytes) /\ Len(second) < Byte
      /\ Holds(frame, 1, Pair(first, second))
  BY <1>1, <1>3 DEF pair
<1> HIDE DEF first, second
<1>5. ReadString8(frame, 1) = Got(first, 1 + 1 + Len(first))
  BY <1>2, <1>3, <1>4, PairReads
<1> QED
  BY <1>1, <1>5 DEF Got, first

(* A notification of a user tells its name and its status.                 *)
LEMMA StatusRead ==
  ASSUME TypeOK, NEW u \in Listed, NEW opcode \in Nat
  PROVE  LET frame == StatusFrame(opcode, u)
             name == ReadString8(frame, 1)
         IN <<name.value, ReadUint8(frame, name.offset).value>> = TrueEntry(u)
<1> DEFINE text == Text[u]
           b == UserStatusToByte[connections[u].status]
           entry == NameByte(text, b)
           frame == Notice(opcode, entry)
<1>1. /\ u \in User /\ b \in Nat /\ TrueEntry(u) = <<text, b>>
      /\ User8(u) = entry /\ entry \in Seq(Bytes)
  BY EntryBytes
<1>2. StatusFrame(opcode, u) = frame
  BY <1>1 DEF StatusFrame, Notice
<1>3. text \in Seq(Bytes) /\ Len(text) < Byte
  BY <1>1, TextType
<1> HIDE DEF text, b
<1>4. StartOf(frame, frame) /\ Holds(frame, 1, entry)
  <2> HIDE DEF entry
  <2> QED
    BY <1>1, NoticeHolds
<1> HIDE DEF frame
<1>5. 1 \in Nat
  OBVIOUS
<1>6. /\ ReadString8(frame, 1) = Got(text, 1 + 1 + Len(text))
      /\ ReadUint8(frame, 1 + 1 + Len(text)) = Got(b, 1 + Len(NameByte(text, b)))
  BY <1>1, <1>3, <1>4, <1>5, NameByteReads
<1>7. /\ ReadString8(frame, 1).value = text
      /\ ReadString8(frame, 1).offset = 1 + 1 + Len(text)
      /\ ReadUint8(frame, 1 + 1 + Len(text)).value = b
  BY <1>6 DEF Got
<1> QED
  BY <1>1, <1>2, <1>7

(* A history reads back message by message, the first of them up to what a *)
(* byte can count to.                                                      *)
LEMMA HistoryRead ==
  ASSUME NEW k \in Nat, NEW messages \in [1 .. k -> Message]
  PROVE  ItemsIn(HistoryFrame(messages), ReadString8) =
           SubSeq(messages, 1, Min({k, Byte - 1}))
<1> DEFINE n == Min({k, Byte - 1})
<1>1. n \in Nat /\ n <= k /\ n < Byte /\ n % Byte = n
  <2>1. Byte \in Nat /\ Byte - 1 \in Nat /\ Byte - 1 < Byte
    BY ProtocolAssumption
  <2>2. n = IF k <= Byte - 1 THEN k ELSE Byte - 1
    BY <2>1, MinOfTwo
  <2> HIDE DEF n
  <2>3. n \in Nat /\ n <= k /\ n < Byte
    BY <2>1, <2>2
  <2> QED
    BY <2>1, <2>3
<1>2. Len(messages) = k
  OBVIOUS
<1> DEFINE seqs == [i \in 1 .. n |-> Message8(messages[i])]
           frame == Counted(56, n, seqs)
<1>3. HistoryFrame(messages) = frame
  BY <1>2 DEF HistoryFrame, Counted
<1> HIDE DEF n
<1>4. ASSUME NEW i \in 1 .. n
      PROVE  LET m == messages[i]
             IN /\ m \in Message
                /\ m = <<m[1], m[2]>>
                /\ m[1] \in Seq(Bytes) /\ Len(m[1]) < Byte
                /\ m[2] \in Seq(Bytes) /\ Len(m[2]) < Byte
                /\ seqs[i] = Pair(m[1], m[2]) /\ seqs[i] \in Seq(Bytes)
  <2>1. messages[i] \in Message /\ seqs[i] = Message8(messages[i])
    BY <1>1
  <2> HIDE DEF seqs
  <2> QED
    BY <2>1, MessageBytes
<1>5. seqs \in [1 .. n -> Seq(Bytes)]
  <2>1. seqs = [i \in 1 .. n |-> seqs[i]]
    OBVIOUS
  <2> HIDE DEF seqs
  <2> QED
    BY <1>4, <2>1
<1>6. 56 \in Nat
  OBVIOUS
<1> HIDE DEF seqs
<1>7. /\ StartOf(frame, frame) /\ frame[2] = n
      /\ \E o \in [0 .. n -> Nat] :
           /\ o[0] = 2
           /\ \A i \in 1 .. n : /\ o[i] = o[i - 1] + Len(seqs[i])
                               /\ o[i] <= Len(frame)
                               /\ Holds(frame, o[i - 1], seqs[i])
  BY <1>1, <1>5, <1>6, CountedReads
<1> HIDE DEF frame
<1>8. PICK o \in [0 .. n -> Nat] :
        /\ o[0] = 2
        /\ \A i \in 1 .. n : /\ o[i] = o[i - 1] + Len(seqs[i])
                            /\ o[i] <= Len(frame)
                            /\ Holds(frame, o[i - 1], seqs[i])
  BY <1>7
<1> DEFINE p == [i \in 1 .. n |-> o[i - 1] + 1 + Len(messages[i][1])]
<1>9. ASSUME NEW i \in 1 .. n
      PROVE  /\ ReadString8(frame, o[i - 1]) = Got(messages[i][1], p[i])
             /\ ReadString8(frame, p[i]) = Got(messages[i][2], o[i])
  <2> DEFINE first == messages[i][1]
             second == messages[i][2]
             at == o[i - 1]
  <2>1. p[i] = at + 1 + Len(first)
    OBVIOUS
  <2> HIDE DEF p
  <2>2. i - 1 \in 0 .. n
    BY <1>1
  <2>3. /\ first \in Seq(Bytes) /\ Len(first) < Byte
        /\ second \in Seq(Bytes) /\ Len(second) < Byte
        /\ seqs[i] = Pair(first, second)
    BY <1>4
  <2>4. /\ at \in Nat /\ o[i] = at + Len(seqs[i]) /\ Holds(frame, at, seqs[i])
    BY <1>8, <2>2
  <2> HIDE DEF first, second, at
  <2>5. /\ ReadString8(frame, at) = Got(first, at + 1 + Len(first))
        /\ ReadString8(frame, at + 1 + Len(first)) = Got(second, at + Len(Pair(first, second)))
    BY <1>7, <2>3, <2>4, PairReads
  <2> QED
    BY <2>1, <2>3, <2>4, <2>5 DEF first, second, at
<1>10. ItemsWithText(frame) = Items(n, messages)
  <2> HIDE DEF p
  <2>1. FoundTexts(frame, n, o, p, messages)
    BY <1>7, <1>8, <1>9 DEF FoundTexts
  <2> QED
    BY <1>1, <2>1, ItemsText
<1>11. Items(n, messages) = [i \in 1 .. n |-> messages[i]]
  BY <1>4 DEF Items
<1>12. SubSeq(messages, 1, n) = [i \in 1 .. n |-> messages[i]]
  <2>1. messages \in Seq(Message) /\ n \in 0 .. Len(messages)
    BY <1>1, <1>2
  <2> QED
    BY <2>1, SubSeqRestrict DEF Restrict
<1> QED
  BY <1>3, <1>10, <1>11, <1>12 DEF ItemsWithText, n

LEMMA MessagesCorrect == MessagesTrue
<1>1. \A k \in 0 .. Byte : \A messages \in [1 .. k -> Message] :
        ItemsIn(HistoryFrame(messages), ReadString8) =
          SubSeq(messages, 1, Min({k, Byte - 1}))
  <2>1. 0 .. Byte \subseteq Nat
    BY ProtocolAssumption
  <2> QED
    BY <2>1, HistoryRead
<1>2. \A m \in Message : ReadString8(MessageFrame(m), 1).value = m[1]
  BY MessageRead
<1> QED
  BY <1>1, <1>2 DEF MessagesTrue

LEMMA NoticesCorrect ==
  ASSUME TypeOK PROVE NoticesTrue
  BY StatusRead DEF NoticesTrue

-----------------------------------------------------------------------------
(* The registry never holds infinitely many entries, however many names    *)
(* there are: it starts empty, and a step adds one entry at most.          *)
ListedFinite == IsFiniteSet(Listed)

LEMMA ListedInit == RegInit => ListedFinite
<1> SUFFICES ASSUME RegInit PROVE ListedFinite
  OBVIOUS
<1>1. Listed = {}
  BY DEF RegInit, Listed, Registered
<1> QED
  BY <1>1, FS_EmptySet DEF ListedFinite

LEMMA ListedStep == TypeOK /\ ListedFinite /\ [RegNext]_regvars => ListedFinite'
<1> SUFFICES ASSUME TypeOK, ListedFinite, [RegNext]_regvars PROVE ListedFinite'
  OBVIOUS
<1>1. ASSUME NEW x, \A u \in User : connections[u] = Absent /\ u # x => connections'[u] = Absent
      PROVE  ListedFinite'
  <2>1. Listed' \subseteq Listed \cup {x}
    BY <1>1 DEF Listed, Registered
  <2>2. IsFiniteSet(Listed \cup {x})
    BY FS_AddElement DEF ListedFinite
  <2> QED
    BY <2>1, <2>2, FS_Subset DEF ListedFinite
<1>2. ASSUME \A u \in User : connections[u] = Absent => connections'[u] = Absent
      PROVE  ListedFinite'
  BY <1>1, <1>2
<1>3. ASSUME NEW c \in Conn, NEW u \in User \cup {BadName}, Reject(c, u)
      PROVE  ListedFinite'
  BY <1>2, <1>3 DEF Reject
<1>4. ASSUME NEW c \in Conn, NEW u \in User, Join(c, u)
      PROVE  ListedFinite'
  <2>1. \A v \in User : connections[v] = Absent /\ v # u => connections'[v] = Absent
    BY <1>4 DEF Join, TypeOK
  <2> QED
    BY <1>1, <2>1
<1>5. ASSUME NEW c \in Conn, Touch(c)
      PROVE  ListedFinite'
  BY <1>2, <1>5 DEF Touch, Owns, Registered
<1>6. ASSUME NEW c \in Conn, NEW s \in Status, UpdateStatus(c, s)
      PROVE  ListedFinite'
  BY <1>2, <1>6 DEF UpdateStatus, SetStatus, Registered
<1>7. ASSUME NEW c \in Conn, Close(c)
      PROVE  ListedFinite'
  <2>1. CASE UNCHANGED connections
    BY <1>2, <2>1
  <2>2. ASSUME NEW u \in Owned(c),
               connections' = [connections EXCEPT ![u].status = "DISCONNECTED",
                                                 ![u].conn = NoConn]
        PROVE  ListedFinite'
    <3>1. connections[u] # Absent
      BY DEF Owned, Owns, Registered
    <3>2. \A v \in User : connections[v] = Absent => connections'[v] = Absent
      BY <2>2, <3>1 DEF TypeOK
    <3> QED
      BY <1>2, <3>2
  <2> QED
    BY <1>7, <2>1, <2>2 DEF Close
<1>8. ASSUME NEW c \in Conn, Destroy(c)
      PROVE  ListedFinite'
  BY <1>2, <1>8 DEF Destroy
<1>9. CASE MarkInactive
  BY <1>2, <1>9 DEF MarkInactive, Idle, Connected, Registered
<1>10. CASE Cleanup
  BY <1>2, <1>10 DEF Cleanup
<1>11. ASSUME NEW u \in User, Minute(u)
       PROVE  ListedFinite'
  <2>1. \A v \in User : connections[v] = Absent => connections'[v] = Absent
    BY <1>11 DEF Minute, Registered, TypeOK
  <2> QED
    BY <1>2, <2>1
<1>12. CASE UNCHANGED regvars
  BY <1>2, <1>12 DEF regvars
<1> QED
  BY <1>3, <1>4, <1>5, <1>6, <1>7, <1>8, <1>9, <1>10, <1>11, <1>12 DEF RegNext

LEMMA FramesHold == TypeOK /\ ListedFinite => FramesReadBack
  BY ListCorrect, RepliesCorrect, CutCorrect, MessagesCorrect, NoticesCorrect
     DEF ListedFinite, FramesReadBack

(* Whatever the registry has become, the frames mean to both ends what they*)
(* say: a list read by the count it announces has only true entries, a     *)
(* request does what it asks, one that is cut short does nothing, and      *)
(* histories and notifications read back.                                  *)
THEOREM FramesCorrect == RegSpec => []FramesReadBack
<1>1. RegInit => TypeOK /\ ListedFinite
  BY TypeInit, ListedInit
<1>2. TypeOK /\ ListedFinite /\ [RegNext]_regvars => (TypeOK /\ ListedFinite)'
  BY TypeStep, ListedStep
<1> QED
  BY <1>1, <1>2, FramesHold, PTL DEF RegSpec

=============================================================================
