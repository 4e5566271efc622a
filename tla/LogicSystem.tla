---------------------------- MODULE LogicSystem ----------------------------
(***************************************************************************)
(* The logic layer: LogicSystem.cpp.  Sessions, running on the threads of  *)
(* the I/O pool, post messages to one queue; one worker thread (DealMsg)   *)
(* takes them out and runs the callback registered for their id.  The      *)
(* queue is guarded by _mutex, the worker sleeps on the condition variable *)
(* _consume, and the destructor stops the worker and joins it.             *)
(*                                                                         *)
(* Three servers of the repository hold a copy of this class, and differ   *)
(* in two ways that matter here:                                           *)
(*  - CoroutinServer has PostMsgToQue lock _mutex.  The two earlier ones   *)
(*    write  std::unique_lock<std::mutex> unique_lk(mutex);  where mutex,  *)
(*    without an underscore, is the TYPE std::mutex: the line declares a   *)
(*    function and locks nothing.  PostLocks tells them apart.             *)
(*  - CoroutinServer stops the pool, joining its threads, before static    *)
(*    objects are destroyed, and async_server_IOThreadPool would, if its   *)
(*    signal handler ever ran.  In async_server_add_logical_layer main     *)
(*    returns without doing so.  PoolStops tells them apart.               *)
(***************************************************************************)
EXTENDS Naturals, Sequences

CONSTANTS Producers,  (* the I/O threads that run the sessions             *)
          Msgs,       (* the messages the peers send                       *)
          Hello,      (* those whose id is in _fun_callbacks               *)
          PostLocks,  (* does PostMsgToQue hold _mutex?                    *)
          PoolStops   (* are the I/O threads joined before ~LogicSystem?   *)

ASSUME ProducersAssumption == "worker" \notin Producers /\ "free" \notin Producers
ASSUME MsgsAssumption == "none" \notin Msgs
ASSUME HelloAssumption == Hello \subseteq Msgs
ASSUME ModeAssumption == PostLocks \in BOOLEAN /\ PoolStops \in BOOLEAN

VARIABLES
  msg_que,  (* _msg_que                                                    *)
  mutex,    (* the owner of _mutex: a producer, "worker" or "free"         *)
  pc,       (* where each producer is in PostMsgToQue                      *)
  node,     (* the message each producer is posting, or "none"             *)
  worker,   (* where the worker is in DealMsg                              *)
  dtor,     (* where the main thread is in ~LogicSystem                    *)
  todo,     (* the messages the peers have not sent yet                    *)
  posted,   (* history: the messages pushed, in that order                 *)
  replied   (* history: the messages whose callback ran                    *)

vars == <<msg_que, mutex, pc, node, worker, dtor, todo, posted, replied>>

\* ~LogicSystem sets _b_stop before anything else, and nothing resets it.
b_stop == dtor # "alive"

\* The constructor has run: the callbacks are registered, the worker runs.
Init == /\ msg_que = <<>>
        /\ mutex = "free"
        /\ pc = [p \in Producers |-> "idle"]
        /\ node = [p \in Producers |-> "none"]
        /\ worker = "start"
        /\ dtor = "alive"
        /\ todo = Msgs
        /\ posted = <<>>
        /\ replied = <<>>

-----------------------------------------------------------------------------
(* Data races.  Two threads race when both are about to touch _msg_que and *)
(* one of them is about to change it.                                      *)

ProducerAccess == {"push", "size"}
WorkerAccess == {"check", "deal", "drain"}

Racing(p) ==
  /\ pc[p] \in ProducerAccess
  /\ \/ worker \in WorkerAccess /\ (pc[p] = "push" \/ worker # "check")
     \/ \E q \in Producers \ {p} : /\ pc[q] \in ProducerAccess
                                   /\ "push" \in {pc[p], pc[q]}

\* A push that races is undefined: it may take effect, or be lost because
\* another push wrote the same slot or a pop wrote the size over its own.
PushOutcomes(p) ==
  {Append(msg_que, node[p])} \cup (IF Racing(p) THEN {msg_que} ELSE {})

-----------------------------------------------------------------------------
(* PostMsgToQue, on the I/O thread of the session.                         *)

\* The session has read message m and calls PostMsgToQue.
\* Mutant: the declaration that looks like a lock.
Enter_Unlocked(p, m) ==
  /\ pc[p] = "idle"
  /\ m \in todo
  /\ todo' = todo \ {m}
  /\ node' = [node EXCEPT ![p] = m]
  /\ pc' = [pc EXCEPT ![p] = "push"]
  /\ UNCHANGED <<msg_que, mutex, worker, dtor, posted, replied>>

Enter(p, m) ==
  /\ pc[p] = "idle"
  /\ m \in todo
  /\ PostLocks => mutex = "free"
  /\ mutex' = IF PostLocks THEN p ELSE mutex
  /\ todo' = todo \ {m}
  /\ node' = [node EXCEPT ![p] = m]
  /\ pc' = [pc EXCEPT ![p] = "push"]
  /\ UNCHANGED <<msg_que, worker, dtor, posted, replied>>

Push(p) ==
  /\ pc[p] = "push"
  /\ msg_que' \in PushOutcomes(p)
  /\ posted' = Append(posted, node[p])
  /\ node' = [node EXCEPT ![p] = "none"]
  /\ pc' = [pc EXCEPT ![p] = "size"]
  /\ UNCHANGED <<mutex, worker, dtor, todo, replied>>

\* Mutant: the size compared is the one before the push.
Size_Before(p) ==
  /\ pc[p] = "size"
  /\ mutex' = IF PostLocks THEN "free" ELSE mutex
  /\ pc' = [pc EXCEPT ![p] = IF Len(msg_que) = 0 THEN "notify" ELSE "idle"]
  /\ UNCHANGED <<msg_que, node, worker, dtor, todo, posted, replied>>

\* The size is read under the lock, which is released on either branch.
Size(p) ==
  /\ pc[p] = "size"
  /\ mutex' = IF PostLocks THEN "free" ELSE mutex
  /\ pc' = [pc EXCEPT ![p] = IF Len(msg_que) = 1 THEN "notify" ELSE "idle"]
  /\ UNCHANGED <<msg_que, node, worker, dtor, todo, posted, replied>>

\* notify_one on _consume: only the worker ever waits on it.
Woken == IF worker = "asleep" THEN "woken" ELSE worker

Notify(p) ==
  /\ pc[p] = "notify"
  /\ worker' = Woken
  /\ pc' = [pc EXCEPT ![p] = "idle"]
  /\ UNCHANGED <<msg_que, mutex, node, dtor, todo, posted, replied>>

\* The I/O thread ends, and AsioIOServicePool::Stop joins it.
End(p) ==
  /\ pc[p] = "idle"
  /\ pc' = [pc EXCEPT ![p] = "joined"]
  /\ UNCHANGED <<msg_que, mutex, node, worker, dtor, todo, posted, replied>>

-----------------------------------------------------------------------------
(* DealMsg, on the worker thread.                                          *)

\* Mutant: "if" instead of "while" around the wait.
Lock_NoRecheck ==
  /\ worker \in {"start", "woken"}
  /\ mutex = "free"
  /\ mutex' = "worker"
  /\ worker' = IF worker = "woken" THEN "test" ELSE "check"
  /\ UNCHANGED <<msg_que, pc, node, dtor, todo, posted, replied>>

Lock ==
  /\ worker \in {"start", "woken"}
  /\ mutex = "free"
  /\ mutex' = "worker"
  /\ worker' = "check"
  /\ UNCHANGED <<msg_que, pc, node, dtor, todo, posted, replied>>

\* while (_msg_que.empty() && !_b_stop)
Check ==
  /\ worker = "check"
  /\ worker' = IF msg_que = <<>> /\ ~b_stop THEN "wait" ELSE "test"
  /\ UNCHANGED <<msg_que, mutex, pc, node, dtor, todo, posted, replied>>

\* Mutant: sleeping with the lock held.
Wait_KeepsLock ==
  /\ worker = "wait"
  /\ worker' = "asleep"
  /\ UNCHANGED <<msg_que, mutex, pc, node, dtor, todo, posted, replied>>

\* _consume.wait releases _mutex and goes to sleep in one step.
Wait ==
  /\ worker = "wait"
  /\ mutex' = "free"
  /\ worker' = "asleep"
  /\ UNCHANGED <<msg_que, pc, node, dtor, todo, posted, replied>>

\* A condition variable may wake up spuriously.
SpuriousWake ==
  /\ worker = "asleep"
  /\ worker' = "woken"
  /\ UNCHANGED <<msg_que, mutex, pc, node, dtor, todo, posted, replied>>

Test ==
  /\ worker = "test"
  /\ worker' = IF b_stop THEN "drain" ELSE "deal"
  /\ UNCHANGED <<msg_que, mutex, pc, node, dtor, todo, posted, replied>>

\* Mutant: "continue" without the pop for an id that is not registered.
Consume_KeepsUnknown ==
  /\ msg_que # <<>>
  /\ msg_que' = IF Head(msg_que) \in Hello THEN Tail(msg_que) ELSE msg_que
  /\ replied' = IF Head(msg_que) \in Hello
                THEN Append(replied, Head(msg_que))
                ELSE replied

\* The callback runs with _mutex held, before the message is popped; a
\* message whose id nobody registered is only popped.
Consume ==
  /\ msg_que # <<>>
  /\ msg_que' = Tail(msg_que)
  /\ replied' = IF Head(msg_que) \in Hello
                THEN Append(replied, Head(msg_que))
                ELSE replied

Deal ==
  /\ worker = "deal"
  /\ Consume
  /\ mutex' = "free"
  /\ worker' = "start"
  /\ UNCHANGED <<pc, node, dtor, todo, posted>>

\* Stopped: empty the queue, one message per iteration, then leave.
DrainOne ==
  /\ worker = "drain"
  /\ Consume
  /\ UNCHANGED <<mutex, pc, node, worker, dtor, todo, posted>>

\* Mutant: leave at once when stopped.
DrainEnd_AtOnce ==
  /\ worker = "drain"
  /\ mutex' = "free"
  /\ worker' = "exited"
  /\ UNCHANGED <<msg_que, pc, node, dtor, todo, posted, replied>>

DrainEnd ==
  /\ worker = "drain"
  /\ msg_que = <<>>
  /\ mutex' = "free"
  /\ worker' = "exited"
  /\ UNCHANGED <<msg_que, pc, node, dtor, todo, posted, replied>>

-----------------------------------------------------------------------------
(* ~LogicSystem, on the main thread.                                       *)

\* _b_stop is set without _mutex.
Stop ==
  /\ dtor = "alive"
  /\ PoolStops => \A p \in Producers : pc[p] = "joined"
  /\ dtor' = "stopped"
  /\ UNCHANGED <<msg_que, mutex, pc, node, worker, todo, posted, replied>>

StopNotify ==
  /\ dtor = "stopped"
  /\ dtor' = "notified"
  /\ worker' = Woken
  /\ UNCHANGED <<msg_que, mutex, pc, node, todo, posted, replied>>

Join ==
  /\ dtor = "notified"
  /\ worker = "exited"
  /\ dtor' = "destroyed"
  /\ UNCHANGED <<msg_que, mutex, pc, node, worker, todo, posted, replied>>

-----------------------------------------------------------------------------
Producer(p) == (\E m \in Msgs : Enter(p, m)) \/ Push(p) \/ Size(p) \/ Notify(p)

Worker == Lock \/ Check \/ Wait \/ Test \/ Deal \/ DrainOne \/ DrainEnd

Destructor == StopNotify \/ Join

Next == \/ \E p \in Producers : Producer(p) \/ End(p)
        \/ Worker
        \/ SpuriousWake
        \/ Stop
        \/ Destructor

SafeSpec == Init /\ [][Next]_vars

\* The scheduler runs every thread that can go on.  Peers send a finite
\* number of messages, so weak fairness is enough for whoever waits for
\* _mutex.  Nobody has to stop the server, end an I/O thread or wake the
\* worker up without a reason.
Fairness == /\ \A p \in Producers : WF_vars(Push(p) \/ Size(p) \/ Notify(p))
            /\ WF_vars(Worker)
            /\ WF_vars(Destructor)

Spec == SafeSpec /\ Fairness

-----------------------------------------------------------------------------
(* Properties.                                                             *)

\* The state is well formed, and _mutex is owned by the worker exactly at
\* the points of DealMsg between taking unique_lk and releasing it.
WorkerLocked == {"check", "wait", "test", "deal", "drain"}

TypeOK ==
  /\ msg_que \in Seq(Msgs)
  /\ mutex \in Producers \cup {"worker", "free"}
  /\ pc \in [Producers -> {"idle", "push", "size", "notify", "joined"}]
  /\ node \in [Producers -> Msgs \cup {"none"}]
  /\ \A p \in Producers : pc[p] = "push" <=> node[p] # "none"
  /\ worker \in WorkerLocked \cup {"start", "asleep", "woken", "exited"}
  /\ dtor \in {"alive", "stopped", "notified", "destroyed"}
  /\ todo \subseteq Msgs
  /\ posted \in Seq(Msgs)
  /\ replied \in Seq(Hello)
  /\ mutex = "worker" <=> worker \in WorkerLocked

\* No two threads are about to touch _msg_que when one of them changes it.
NoDataRace == \A p \in Producers : ~Racing(p)

\* The worker does not sleep beside a message unless somebody is on the way
\* to wake it up ("if the queue is empty, block on the condition variable":
\* the notification is sent only when the size goes from 0 to 1).
NoLostWakeup ==
  worker = "asleep" /\ msg_que # <<>> =>
    \E p \in Producers : \/ pc[p] = "notify"
                         \/ pc[p] = "size" /\ Len(msg_que) = 1

\* After the wait loop DealMsg calls front() without looking at the queue
\* again: it must not be empty then.
FrontNotEmpty == worker = "deal" => msg_que # <<>>

\* "Execute all the logic, then leave the loop": when the worker has left,
\* nothing posted, then or later, is left behind.
ExitDrained ==
  worker = "exited" => msg_que = <<>> /\ \A p \in Producers : node[p] = "none"

\* The queue, the lock and the condition variable together are a mailbox:
\* messages are consumed once each, in the order of the pushes, every one of
\* them in the end, and the worker leaves when nothing is left.
Mailbox == INSTANCE LogicMailbox
           WITH taken <- Len(posted) - Len(msg_que), left <- (worker = "exited")

MailboxSafe == Mailbox!SafeSpec
MailboxSpec == Mailbox!Spec

\* A LogicSystem that is told to stop gets its worker to leave, and the
\* destructor returns.
StopEnds == dtor = "stopped" ~> dtor = "destroyed"
=============================================================================
