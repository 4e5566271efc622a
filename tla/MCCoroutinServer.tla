-------------------------- MODULE MCCoroutinServer --------------------------
(***************************************************************************)
(* The two parts of CoroutinServer in which its threads meet, side by      *)
(* side: each behaviour runs one of them, and the other one stands still   *)
(* and owes no fairness.                                                   *)
(*                                                                         *)
(*   "logic"     the logic layer and the threads that post to it           *)
(*   "lifetime"  a session, its owners and its coroutine                   *)
(***************************************************************************)
EXTENDS MCLogicSystem, SessionLifetime

VARIABLE part

serverVars == <<part, vars, lifeVars>>

ServerInit == part \in {"logic", "lifetime"} /\ Init /\ LifeInit

LogicStep == part = "logic" /\ Next /\ UNCHANGED <<part, lifeVars>>
LifetimeStep == part = "lifetime" /\ LifeNext /\ UNCHANGED <<part, vars>>
ServerNext == LogicStep \/ LifetimeStep

ServerSpec == /\ ServerInit /\ [][ServerNext]_serverVars
              /\ part = "logic" => Fairness
              /\ part = "lifetime" => LifeFairness
=============================================================================
