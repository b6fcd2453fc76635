----------------------------- MODULE MCRegistry -----------------------------
(* Model checking Registry, Admission and Protocol: names and connections *)
(* are interchangeable (Desconocido is left out of the permutations).     *)
EXTENDS Admission, Protocol, TLC

MCText == [u \in User |-> <<u>>]

Symmetry == Permutations(User \ {Desconocido}) \cup Permutations(Conn)
=============================================================================
