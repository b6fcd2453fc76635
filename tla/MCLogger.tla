------------------------------ MODULE MCLogger ------------------------------
(* Model checking Logger.                                                   *)
EXTENDS Logger
=============================================================================
