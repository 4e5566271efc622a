------------------------- MODULE LogicSystemProofs -------------------------
(***************************************************************************)
(* Theorems about the logic layer, for any number of I/O threads and any   *)
(* set of messages.                                                        *)
(***************************************************************************)
EXTENDS LogicSystem, TLAPS

\* With PostLocks, the owner of _mutex is whoever is between Enter and Size.
Owner == PostLocks => \A p \in Producers : pc[p] \in {"push", "size"} <=> mutex = p

\* What the worker knows of the queue at the points where it owns _mutex:
\* the predicate of the wait loop still holds after it was evaluated.
WorkerKnows ==
  /\ worker = "wait" => msg_que = <<>>
  /\ worker = "test" /\ ~b_stop => msg_que # <<>>
  /\ worker = "deal" => msg_que # <<>>

\* The worker leaves only once it was told to stop and the queue is empty,
\* and when the I/O threads are joined first nobody can post from then on.
Stopping ==
  /\ b_stop => \A p \in Producers : pc[p] = "joined"
  /\ worker \in {"drain", "exited"} => b_stop
  /\ worker = "exited" => msg_que = <<>>

\* The type invariant and what it rests on, whatever the server.
TInv == TypeOK /\ Owner

\* The inductive invariant of a server whose PostMsgToQue locks.
IInv == TInv /\ WorkerKnows /\ NoLostWakeup

\* The inductive invariant of a server that joins its I/O threads.
SInv == TInv /\ Stopping

\* The queue is what was posted last: nothing is lost, doubled or reordered.
Suffix ==
  /\ Len(msg_que) <= Len(posted)
  /\ \A i \in 1 .. Len(msg_que) :
       msg_que[i] = posted[Len(posted) - Len(msg_que) + i]

-----------------------------------------------------------------------------
LEMMA TInvInit == Init => TInv
BY HelloAssumption, ProducersAssumption DEF Init, TInv, TypeOK, Owner, WorkerLocked

\* Consume keeps the sequences well formed.
LEMMA ConsumeType ==
  ASSUME TypeOK, Consume
  PROVE  msg_que' \in Seq(Msgs) /\ replied' \in Seq(Hello)
BY DEF TypeOK, Consume

LEMMA TInvNext == TInv /\ [Next]_vars => TInv'
<1> SUFFICES ASSUME TInv, [Next]_vars PROVE TInv'
  OBVIOUS
<1> USE ProducersAssumption, MsgsAssumption, ModeAssumption
        DEF TInv, TypeOK, Owner, WorkerLocked
<1>1. ASSUME NEW p \in Producers, NEW m \in Msgs, Enter(p, m) PROVE TInv'
  BY <1>1 DEF Enter
<1>2. ASSUME NEW p \in Producers, Push(p) PROVE TInv'
  <2>1. node[p] \in Msgs
    BY <1>2 DEF Push
  <2>2. msg_que' = Append(msg_que, node[p]) \/ msg_que' = msg_que
    BY <1>2 DEF Push, PushOutcomes
  <2>3. msg_que' \in Seq(Msgs) /\ posted' \in Seq(Msgs)
    <3>1. msg_que \in Seq(Msgs) /\ posted \in Seq(Msgs)
      OBVIOUS
    <3>2. \A s \in Seq(Msgs) : Append(s, node[p]) \in Seq(Msgs)
      BY <2>1
    <3> HIDE DEF TInv, TypeOK
    <3> QED
      BY <1>2, <2>2, <3>1, <3>2 DEF Push
  <2> QED
    BY <1>2, <2>3 DEF Push
<1>3. ASSUME NEW p \in Producers, Size(p) PROVE TInv'
  BY <1>3 DEF Size
<1>4. ASSUME NEW p \in Producers, Notify(p) PROVE TInv'
  BY <1>4 DEF Notify, Woken
<1>5. ASSUME NEW p \in Producers, End(p) PROVE TInv'
  BY <1>5 DEF End
<1>6. CASE Lock
  BY <1>6 DEF Lock
<1>7. CASE Check
  BY <1>7 DEF Check
<1>8. CASE Wait
  BY <1>8 DEF Wait
<1>9. CASE SpuriousWake
  BY <1>9 DEF SpuriousWake
<1>10. CASE Test
  BY <1>10 DEF Test
<1>11. CASE Deal
  BY <1>11, ConsumeType DEF Deal
<1>12. CASE DrainOne
  BY <1>12, ConsumeType DEF DrainOne
<1>13. CASE DrainEnd
  BY <1>13 DEF DrainEnd
<1>14. CASE Stop \/ StopNotify \/ Join
  BY <1>14 DEF Stop, StopNotify, Join, Woken
<1>15. CASE UNCHANGED vars
  BY <1>15 DEF vars
<1> QED
  BY <1>1, <1>2, <1>3, <1>4, <1>5, <1>6, <1>7, <1>8, <1>9, <1>10, <1>11,
     <1>12, <1>13, <1>14, <1>15 DEF Next, Producer, Worker, Destructor

\* Whatever the server, the state is well formed and the worker owns _mutex
\* exactly from the lock of DealMsg to its release.
THEOREM TypeCorrect == Spec => []TypeOK
<1>1. SafeSpec => []TInv
  BY TInvInit, TInvNext, PTL DEF SafeSpec
<1>2. TInv => TypeOK
  BY DEF TInv
<1> QED
  BY <1>1, <1>2, PTL DEF Spec

-----------------------------------------------------------------------------
(* What the lock gives.                                                    *)

\* Whoever is about to touch _msg_que owns _mutex, so no two of them exist.
LEMMA LockExcludes == PostLocks /\ TInv => NoDataRace
BY ProducersAssumption
   DEF TInv, TypeOK, Owner, NoDataRace, Racing, ProducerAccess, WorkerAccess,
       WorkerLocked

LEMMA IInvInit == Init => IInv
BY TInvInit DEF Init, IInv, WorkerKnows, NoLostWakeup

LEMMA IInvNext == PostLocks /\ IInv /\ [Next]_vars => IInv'
<1> SUFFICES ASSUME PostLocks, IInv, [Next]_vars
             PROVE  WorkerKnows' /\ NoLostWakeup'
  BY TInvNext DEF IInv
<1> USE ProducersAssumption
        DEF IInv, TInv, TypeOK, Owner, WorkerKnows, NoLostWakeup, WorkerLocked,
            b_stop
<1> DEFINE Goal == WorkerKnows' /\ NoLostWakeup'
<1>1. ASSUME NEW p \in Producers, NEW m \in Msgs, Enter(p, m) PROVE Goal
  BY <1>1 DEF Enter
<1>2. ASSUME NEW p \in Producers, Push(p) PROVE Goal
  <2>1. ~Racing(p)
    BY LockExcludes DEF NoDataRace
  <2>2. msg_que' = Append(msg_que, node[p]) /\ pc' = [pc EXCEPT ![p] = "size"]
    BY <1>2, <2>1 DEF Push, PushOutcomes
  <2>3. mutex = p /\ worker \notin WorkerLocked /\ worker' = worker
    BY <1>2 DEF Push
  <2>4. WorkerKnows'
    BY <2>3
  <2>5. ASSUME worker' = "asleep", msg_que' # <<>> PROVE NoLostWakeup'
    <3>1. CASE msg_que = <<>>
      BY <3>1, <2>2
    <3>2. CASE msg_que # <<>>
      <4>1. PICK q \in Producers : pc[q] \in {"notify", "size"}
        BY <3>2, <2>3, <2>5
      <4>2. pc[p] = "push" /\ q # p
        BY <1>2, <4>1 DEF Push
      <4>3. pc[q] = "notify"
        BY <4>1, <4>2, <2>3
      <4> QED
        BY <4>2, <4>3, <2>2
    <3> QED
      BY <3>1, <3>2
  <2> QED
    BY <2>4, <2>5
<1>3. ASSUME NEW p \in Producers, Size(p) PROVE Goal
  BY <1>3 DEF Size
<1>4. ASSUME NEW p \in Producers, Notify(p) PROVE Goal
  BY <1>4 DEF Notify, Woken
<1>5. ASSUME NEW p \in Producers, End(p) PROVE Goal
  BY <1>5 DEF End
<1>6. CASE Lock
  BY <1>6 DEF Lock
<1>7. CASE Check
  BY <1>7 DEF Check
<1>8. CASE Wait
  BY <1>8 DEF Wait
<1>9. CASE SpuriousWake
  BY <1>9 DEF SpuriousWake
<1>10. CASE Test
  BY <1>10 DEF Test
<1>11. CASE Deal \/ DrainOne \/ DrainEnd
  BY <1>11 DEF Deal, DrainOne, DrainEnd
<1>12. CASE Stop \/ StopNotify \/ Join
  BY <1>12 DEF Stop, StopNotify, Join, Woken
<1>13. CASE UNCHANGED vars
  BY <1>13 DEF vars
<1> QED
  BY <1>1, <1>2, <1>3, <1>4, <1>5, <1>6, <1>7, <1>8, <1>9, <1>10, <1>11,
     <1>12, <1>13 DEF Next, Producer, Worker, Destructor

LEMMA IInvAlways == ASSUME PostLocks PROVE SafeSpec => []IInv
BY PostLocks, IInvInit, IInvNext, PTL DEF SafeSpec

\* With the lock of CoroutinServer no push or pop of _msg_que races.
THEOREM RaceFree == ASSUME PostLocks PROVE Spec => []NoDataRace
<1>1. IInv => NoDataRace
  BY PostLocks, LockExcludes DEF IInv
<1> QED
  BY IInvAlways, <1>1, PTL DEF Spec

\* With the lock, notifying only when the size becomes 1 loses no wake-up.
THEOREM NoWakeupLost == ASSUME PostLocks PROVE Spec => []NoLostWakeup
<1>1. IInv => NoLostWakeup
  BY DEF IInv
<1> QED
  BY IInvAlways, <1>1, PTL DEF Spec

\* With the lock, DealMsg never calls front() on an empty queue.
THEOREM FrontIsThere == ASSUME PostLocks PROVE Spec => []FrontNotEmpty
<1>1. IInv => FrontNotEmpty
  BY DEF IInv, WorkerKnows, FrontNotEmpty
<1> QED
  BY IInvAlways, <1>1, PTL DEF Spec

-----------------------------------------------------------------------------
(* What joining the I/O threads gives.                                     *)

LEMMA SInvInit == Init => SInv
BY TInvInit DEF Init, SInv, Stopping, b_stop

LEMMA SInvNext == PoolStops /\ SInv /\ [Next]_vars => SInv'
<1> SUFFICES ASSUME PoolStops, SInv, [Next]_vars PROVE Stopping'
  BY TInvNext DEF SInv
<1> USE DEF SInv, TInv, TypeOK, Stopping, b_stop, WorkerLocked
<1>1. ASSUME NEW p \in Producers,
             (\E m \in Msgs : Enter(p, m)) \/ Push(p) \/ Size(p) \/ Notify(p)
      PROVE  Stopping'
  BY <1>1 DEF Enter, Push, Size, Notify, Woken
<1>2. ASSUME NEW p \in Producers, End(p) PROVE Stopping'
  BY <1>2 DEF End
<1>3. CASE Lock \/ Check \/ Wait \/ SpuriousWake \/ Test
  BY <1>3 DEF Lock, Check, Wait, SpuriousWake, Test
<1>4. CASE Deal \/ DrainOne \/ DrainEnd
  BY <1>4 DEF Deal, DrainOne, DrainEnd
<1>5. CASE Stop \/ StopNotify \/ Join
  BY <1>5 DEF Stop, StopNotify, Join, Woken
<1>6. CASE UNCHANGED vars
  BY <1>6 DEF vars
<1> QED
  BY <1>1, <1>2, <1>3, <1>4, <1>5, <1>6 DEF Next, Producer, Worker, Destructor

LEMMA SInvAlways == ASSUME PoolStops PROVE SafeSpec => []SInv
BY PoolStops, SInvInit, SInvNext, PTL DEF SafeSpec

\* A server that joins its I/O threads first leaves no message behind.
THEOREM NothingLeft == ASSUME PoolStops PROVE Spec => []ExitDrained
<1>1. SInv => ExitDrained
  BY DEF SInv, TInv, TypeOK, Stopping, ExitDrained
<1> QED
  BY SInvAlways, <1>1, PTL DEF Spec

-----------------------------------------------------------------------------
(* The logic layer implements the mailbox.                                 *)

\* The inductive invariant of a server that locks and joins.
MInv == IInv /\ SInv /\ Suffix

\* Consuming the head of the queue is consuming the next message posted.
LEMMA ConsumeIsNext ==
  ASSUME TypeOK, Suffix, Consume, posted' = posted
  PROVE  /\ Suffix'
         /\ Len(msg_que') = Len(msg_que) - 1
         /\ Head(msg_que) = posted[Len(posted) - Len(msg_que) + 1]
         /\ Len(posted) - Len(msg_que) < Len(posted)
<1>1. Len(msg_que) \in Nat /\ Len(msg_que) > 0 /\ Len(posted) \in Nat
  BY DEF TypeOK, Consume
<1>2. /\ Len(msg_que') = Len(msg_que) - 1
      /\ \A i \in 1 .. Len(msg_que') : msg_que'[i] = msg_que[i + 1]
  BY DEF TypeOK, Consume
<1>3. Head(msg_que) = msg_que[1]
  BY DEF TypeOK, Consume
<1>4. Suffix'
  BY <1>1, <1>2 DEF Suffix
<1> QED
  BY <1>1, <1>2, <1>3, <1>4 DEF Suffix

\* Posting is appending both to the queue and to what was posted.
LEMMA PushIsPost ==
  ASSUME PostLocks, TInv, Suffix, NEW p \in Producers, Push(p)
  PROVE  /\ Suffix'
         /\ node[p] \in Msgs
         /\ Len(posted') - Len(msg_que') = Len(posted) - Len(msg_que)
<1>1. node[p] \in Msgs
  BY DEF Push, TInv, TypeOK
<1>2. msg_que' = Append(msg_que, node[p]) /\ posted' = Append(posted, node[p])
  BY LockExcludes DEF Push, PushOutcomes, NoDataRace
<1>3. msg_que \in Seq(Msgs) /\ posted \in Seq(Msgs)
  BY DEF TInv, TypeOK
<1>4. /\ Len(msg_que) \in Nat /\ Len(posted) \in Nat
      /\ Len(msg_que') = Len(msg_que) + 1
      /\ Len(posted') = Len(posted) + 1
      /\ \A i \in 1 .. Len(msg_que) : msg_que'[i] = msg_que[i]
      /\ \A i \in 1 .. Len(posted) : posted'[i] = posted[i]
      /\ msg_que'[Len(msg_que) + 1] = node[p]
      /\ posted'[Len(posted) + 1] = node[p]
  BY <1>1, <1>2, <1>3
<1>5. ASSUME NEW i \in 1 .. Len(msg_que')
      PROVE  msg_que'[i] = posted'[Len(posted') - Len(msg_que') + i]
  <2>1. CASE i = Len(msg_que) + 1
    BY <1>4, <2>1
  <2>2. CASE i \in 1 .. Len(msg_que)
    <3>1. Len(posted) - Len(msg_que) + i \in 1 .. Len(posted)
      BY <1>4, <2>2 DEF Suffix
    <3> QED
      BY <1>4, <2>2, <3>1 DEF Suffix
  <2> QED
    BY <1>4, <2>1, <2>2
<1>6. Suffix'
  BY <1>4, <1>5 DEF Suffix
<1> QED
  BY <1>1, <1>4, <1>6

LEMMA MInvInit == Init => MInv /\ Mailbox!Init
<1> SUFFICES ASSUME Init PROVE MInv /\ Mailbox!Init
  OBVIOUS
<1>1. Suffix
  BY DEF Init, Suffix
<1>2. Mailbox!Init
  BY DEF Init, Mailbox!Init
<1> QED
  BY <1>1, <1>2, IInvInit, SInvInit DEF MInv

\* Every step keeps the invariant and is a step of the mailbox or a stutter.
LEMMA MInvNext ==
  ASSUME PostLocks, PoolStops, MInv, [Next]_vars
  PROVE  MInv' /\ [Mailbox!Next]_(Mailbox!vars)
<1> SUFFICES Suffix' /\ [Mailbox!Next]_(Mailbox!vars)
  BY IInvNext, SInvNext DEF MInv
<1> DEFINE Goal == Suffix' /\ [Mailbox!Next]_(Mailbox!vars)
<1> USE DEF Mailbox!Next, Mailbox!vars
<1>1. TInv /\ TypeOK /\ Suffix /\ Stopping
  BY DEF MInv, IInv, SInv, TInv
<1>2. ASSUME UNCHANGED <<msg_que, posted, replied>>,
             worker' = "exited" <=> worker = "exited"
      PROVE  Goal
  BY <1>1, <1>2 DEF Suffix
<1>3. ASSUME NEW p \in Producers, Push(p) PROVE Goal
  <2>1. worker # "exited"
    BY <1>1, <1>3 DEF Push, Stopping, TypeOK
  <2>2. Mailbox!Post(node[p])
    BY <1>1, <1>3, <2>1, PushIsPost DEF Push, Mailbox!Post
  <2> QED
    BY <1>1, <1>3, <2>2, PushIsPost
<1>4. ASSUME NEW p \in Producers,
             (\E m \in Msgs : Enter(p, m)) \/ Size(p) \/ Notify(p) \/ End(p)
      PROVE  Goal
  BY <1>2, <1>4 DEF Enter, Size, Notify, End, Woken
<1>5. CASE Lock \/ Check \/ Wait \/ SpuriousWake \/ Test
  BY <1>2, <1>5 DEF Lock, Check, Wait, SpuriousWake, Test
<1>6. CASE Deal \/ DrainOne
  <2>1. Consume /\ posted' = posted /\ worker # "exited" /\ worker' # "exited"
    BY <1>6 DEF Deal, DrainOne
  <2>2. Len(posted) \in Nat /\ Len(msg_que) \in Nat
    BY <1>1 DEF TypeOK
  <2>3. Mailbox!Consume
    BY <1>1, <2>1, <2>2, ConsumeIsNext DEF Mailbox!Consume, Consume
  <2> QED
    BY <1>1, <2>1, <2>3, ConsumeIsNext
<1>7. CASE DrainEnd
  <2>1. Len(posted) \in Nat /\ Len(msg_que) = 0
    BY <1>1, <1>7 DEF TypeOK, DrainEnd
  <2>2. Mailbox!Leave
    BY <1>7, <2>1 DEF DrainEnd, Mailbox!Leave
  <2> QED
    BY <1>1, <1>7, <2>2 DEF DrainEnd, Suffix
<1>8. CASE Stop \/ StopNotify \/ Join
  BY <1>2, <1>8 DEF Stop, StopNotify, Join, Woken
<1>9. CASE UNCHANGED vars
  BY <1>2, <1>9 DEF vars
<1> QED
  BY <1>3, <1>4, <1>5, <1>6, <1>7, <1>8, <1>9
     DEF Next, Producer, Worker, Destructor

\* The lock and the joined threads together make the logic layer a mailbox:
\* messages are consumed once each, in the order in which they were posted.
THEOREM ImplementsMailbox ==
  ASSUME PostLocks, PoolStops PROVE Spec => MailboxSafe
<1>1. SafeSpec => MailboxSafe
  BY PostLocks, PoolStops, MInvInit, MInvNext, PTL
  DEF SafeSpec, MailboxSafe, Mailbox!SafeSpec
<1> QED
  BY <1>1, PTL DEF Spec
=============================================================================
