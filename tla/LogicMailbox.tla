---------------------------- MODULE LogicMailbox ----------------------------
(***************************************************************************)
(* What the network layer of the servers may rely on when it hands a       *)
(* message to the logic layer (LogicSystem::PostMsgToQue): messages are    *)
(* consumed one at a time in the order in which they were posted, each of  *)
(* them once; a message with a registered id is answered, a message with   *)
(* an id nobody registered is dropped; every message posted is consumed in *)
(* the end; and the consumer leaves only when nothing is left.             *)
(*                                                                         *)
(* The three servers with a logic layer have a copy of it each, alike but  *)
(* for the lock in PostMsgToQue.                                           *)
(*                                                                         *)
(* There are no threads here, no lock and no condition variable: those are *)
(* the business of LogicSystem, which implements this specification.       *)
(***************************************************************************)
EXTENDS Naturals, Sequences

CONSTANTS Msgs,  (* the messages the sessions may post                     *)
          Hello  (* those whose id has a callback (MSG_HELLO_WORD)         *)

VARIABLES posted,   (* the messages posted so far, oldest first            *)
          taken,    (* how many of them have been consumed                 *)
          replied,  (* the messages whose callback ran, oldest first       *)
          left      (* has the consumer left for good?                     *)

vars == <<posted, taken, replied, left>>

Init == /\ posted = <<>>
        /\ taken = 0
        /\ replied = <<>>
        /\ left = FALSE

Post(m) == /\ ~left
           /\ posted' = Append(posted, m)
           /\ UNCHANGED <<taken, replied, left>>

Consume == /\ taken < Len(posted)
           /\ taken' = taken + 1
           /\ replied' = IF posted[taken + 1] \in Hello
                         THEN Append(replied, posted[taken + 1])
                         ELSE replied
           /\ UNCHANGED <<posted, left>>

Leave == /\ ~left
         /\ taken = Len(posted)
         /\ left' = TRUE
         /\ UNCHANGED <<posted, taken, replied>>

Next == (\E m \in Msgs : Post(m)) \/ Consume \/ Leave

SafeSpec == Init /\ [][Next]_vars

Spec == SafeSpec /\ WF_vars(Consume)
=============================================================================
