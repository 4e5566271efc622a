--------------------------- MODULE SessionOutput ---------------------------
(***************************************************************************)
(* What a session promises to whoever calls CSession::Send: the messages   *)
(* it accepts go out whole, in the order in which they were accepted, all  *)
(* of them as long as the connection is up; and it accepts no more than it *)
(* has room for.  No locks, handlers or partial writes here.  SendQueue    *)
(* implements this specification at the grain of the lock, for the copy in *)
(* CoroutinServer (the copy in the thread pool server has the same locks,  *)
(* and runs HandleWrite in its strand); CallbackSession does handler by    *)
(* handler, for the servers with callbacks whose queue has a limit.        *)
(***************************************************************************)
EXTENDS Naturals, Sequences

CONSTANTS Msgs,     (* the messages given to Send                          *)
          Room      (* how many may be accepted and not yet gone out       *)

VARIABLES accepted,  (* the messages accepted so far, oldest first         *)
          sent,      (* how many of them have gone out                     *)
          up         (* is the connection up?                              *)

vars == <<accepted, sent, up>>

Init == accepted = <<>> /\ sent = 0 /\ up = TRUE

Accept(m) == /\ Len(accepted) - sent < Room
             /\ accepted' = Append(accepted, m)
             /\ UNCHANGED <<sent, up>>

Transmit == /\ up
            /\ sent < Len(accepted)
            /\ sent' = sent + 1
            /\ UNCHANGED <<accepted, up>>

GoDown == up /\ up' = FALSE /\ UNCHANGED <<accepted, sent>>

Next == (\E m \in Msgs : Accept(m)) \/ Transmit \/ GoDown

SafeSpec == Init /\ [][Next]_vars

Fairness == WF_vars(Transmit)

Spec == SafeSpec /\ Fairness
=============================================================================
