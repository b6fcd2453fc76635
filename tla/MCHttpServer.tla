---------------------------- MODULE MCHttpServer ----------------------------
(* Model checking HttpServer: two workers and three connection objects, so *)
(* that connections share a worker and its timer, and five accepts, so     *)
(* that three of them are given to the first worker one after another.     *)
EXTENDS HttpServer, TLC

(* The liveness property for one of the objects: they are interchangeable, *)
(* and one keeps the run short.                                            *)
(* A client that connects and then says nothing is disconnected, unless    *)
(* its deadline was cancelled by another connection or the server stops.   *)
OneIdleIsClosed == IdleIsClosed(CHOOSE c \in Conn : TRUE)
=============================================================================
