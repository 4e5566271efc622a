------------------------------ MODULE MCSession ------------------------------
(***************************************************************************)
(* The two directions of a session, side by side: each behaviour runs one  *)
(* of them, and the other one stands still and owes no fairness.  (They    *)
(* share the socket only, whose end either of them meets by itself.)       *)
(*                                                                         *)
(* Input: heads of four bytes as in const.h, a buffer of nine, and shorts  *)
(* of five bits.  The first stream has bodies of 1, 0, 6, 9 and 2 bytes,   *)
(* the last with an illegal id: a read may end anywhere in a head or a     *)
(* body and may hold two whole messages, or the ends of two messages       *)
(* around a third.  The others end with a length that is illegal (12),     *)
(* that is negative (20 is -12) and that is -1 (31).                       *)
(*                                                                         *)
(* Output: two sending threads beside the I/O thread, four messages and    *)
(* room for one or two, so that the queue gets empty, gets full and drops  *)
(* a message in one behaviour.                                             *)
(***************************************************************************)
EXTENDS FrameReader, SendQueue

CONSTANTS s1, s2, m1, m2, m3, m4

MCIllegalId == [start |-> <<0, 5, 9, 19, 32, 38>>, badId |-> {5}]
MCStreams == {MCIllegalId,
              [start |-> <<0, 4, 9, 25, 30>>, badId |-> {}],
              [start |-> <<0, 6, 30, 34>>,    badId |-> {}],
              [start |-> <<0, 4, 39, 44>>,    badId |-> {}]}

MCSenders == {s1, s2}
MCMsgs == {m1, m2, m3, m4}

-----------------------------------------------------------------------------
VARIABLE side

sessionVars == <<side, vars, queueVars>>

SessionInit == /\ side \in {"input", "output"}
               /\ side = "output" => stream = MCIllegalId
               /\ Init /\ QueueInit

InputStep == side = "input" /\ Next /\ UNCHANGED <<side, queueVars>>
OutputStep == side = "output" /\ QueueNext /\ UNCHANGED <<side, vars>>
SessionNext == InputStep \/ OutputStep

SessionSpec == /\ SessionInit /\ [][SessionNext]_sessionVars
               /\ side = "input" => Fairness
               /\ side = "output" => QueueFairness

\* Every message that comes in is delivered in the end (see AllDelivered).
InputDelivered == side = "input" => AllDelivered
=============================================================================
