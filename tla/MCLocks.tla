------------------------------- MODULE MCLocks -------------------------------
(* Model checking Locks.                                                    *)
EXTENDS Locks
=============================================================================
