--------------------------- MODULE MCLogicSystem ---------------------------
(***************************************************************************)
(* Instances of LogicSystem for TLC: two I/O threads, three messages of    *)
(* which one has an id nobody registered.  Two threads are the least that  *)
(* can race with each other as well as with the worker; three messages let *)
(* the queue hold one, two and three, so that the 0-to-1 notification is   *)
(* both taken and skipped.                                                 *)
(***************************************************************************)
EXTENDS LogicSystem

CONSTANTS p1, p2, m1, m2, m3

MCProducers == {p1, p2}
MCMsgs == {m1, m2, m3}
MCHello == {m1, m2}
=============================================================================
