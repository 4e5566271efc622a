--------------------------- MODULE ApiSessionProofs ---------------------------
(***************************************************************************)
(* The order of the bytes that the Session of AsyncApi puts on the wire.   *)
(*                                                                         *)
(* All three generations work on one message at a time, the Front: what is *)
(* out of it is what its node counts (cur) and what a completion carries   *)
(* whose handler is still to run.  The one write under way, if any, starts *)
(* right behind that.  In "err" this holds as long as no message was       *)
(* handed over during a write.                                             *)
(***************************************************************************)
EXTENDS ApiSession, SequenceTheorems, TLAPS

Ops == [m : Msgs, off : Int, len : Int, mine : Msgs, alive : BOOLEAN]
Dones == [ec : BOOLEAN, n : Nat, mine : Msgs]
Octets == [m : Msgs, i : Int, right : BOOLEAN]

\* What the operations and completions are made of.
Shapes ==
  /\ ops \in Seq(Ops) /\ done \in Seq(Dones) /\ wire \in Seq(Octets)
  /\ kind = "err" => queue = <<>> /\ ~failed
  /\ kind = "err" /\ Busy => node \in Msgs /\ node = called
  /\ \A j \in DOMAIN done : done[j].ec => conn = "down" /\ done[j].n = 0

\* The message being written; if there is none, the one to come.
Front == IF kind # "err" THEN called - Len(queue) + 1
         ELSE IF Busy THEN called ELSE called + 1

\* How much of it the handlers know to be out, and what they have not heard of.
Counted == IF Front \in Msgs THEN cur[Front] ELSE 0
Unheard == IF done = <<>> THEN 0 ELSE done[1].n

\* The queue holds the last messages; nothing is counted of those behind
\* the front, nor of any in "all", which counts none.
Consecutive == \A i \in DOMAIN queue : queue[i] = Front + i - 1
Untouched == /\ \A m \in Msgs : m > Front => cur[m] = 0
             /\ Front > called => Counted = 0
             /\ kind = "all" => \A m \in Msgs : cur[m] = 0

\* At most one write, of the rest of the front.
OneOp ==
  /\ Len(ops) + Len(done) <= 1
  /\ Busy => Front <= called /\ Counted < MsgLen
  /\ ops # <<>> => /\ ops[1].m = Front /\ ops[1].mine = Front
                   /\ ops[1].off = Counted /\ ops[1].len = MsgLen - Counted
                   /\ ~ops[1].alive => kind # "err" /\ Counted = 0
  /\ done # <<>> => /\ done[1].mine = Front /\ done[1].n <= MsgLen - Counted
                    /\ ~done[1].ec => done[1].n >= 1

\* How far the wire is.
Reached ==
  /\ \A j \in DOMAIN wire : \/ wire[j].m < Front
                            \/ wire[j].m = Front /\ wire[j].i \in 1 .. Counted + Unheard
  /\ kind # "all" => Len(wire) = (Front - 1) * MsgLen + Counted + Unheard

Core == Consecutive /\ Untouched /\ OneOp /\ Reached /\ OrderKept

AInv == TypeOK /\ Shapes /\ (~overlap => Core)

-----------------------------------------------------------------------------
(* Numbers and short sequences.                                            *)

\* Byte b of message a + 1, counted from 0, by its place in the stream.
LEMMA Place ==
  ASSUME NEW a \in Nat, NEW b \in 0 .. MsgLen - 1
  PROVE  (a * MsgLen + b) \div MsgLen = a /\ (a * MsgLen + b) % MsgLen = b
BY ApiSizesAssumption

LEMMA OneElement ==
  ASSUME NEW S, NEW seq \in Seq(S), Len(seq) <= 1, seq # <<>>
  PROVE  /\ Len(seq) = 1 /\ DOMAIN seq = {1} /\ seq[1] \in S
         /\ Head(seq) = seq[1] /\ Tail(seq) = <<>>
<1>1. Len(seq) = 1
  <2>1. Len(seq) \in Nat \ {0}
    BY EmptySeq
  <2> QED
    BY <2>1
<1>2. DOMAIN seq = {1} /\ seq[1] \in S /\ Head(seq) = seq[1]
  BY <1>1
<1>3. Tail(seq) = <<>>
  <2>1. Tail(seq) \in Seq(S) /\ Len(Tail(seq)) = 0
    BY <1>1, HeadTailProperties
  <2> QED
    BY <2>1, EmptySeq
<1> QED
  BY <1>1, <1>2, <1>3

-----------------------------------------------------------------------------
\* What the parts of the invariant say of the front.
LEMMA FrontFacts ==
  ASSUME TypeOK, Shapes, Core
  PROVE  /\ Front \in Nat /\ Front >= 1 /\ Front <= called + 1
         /\ called \in 0 .. MaxMsgs /\ MsgLen \in Nat /\ MsgLen >= 1
         /\ Counted \in Nat /\ Unheard \in Nat
         /\ Busy => Front \in Msgs /\ Counted = cur[Front]
         /\ queue # <<>> => Head(queue) = Front /\ Front \in Msgs
<1>1. called \in 0 .. MaxMsgs /\ MsgLen \in Nat /\ MsgLen >= 1 /\ MaxMsgs \in Nat
      /\ queue \in Seq(Msgs) /\ Len(queue) \in Nat /\ cur \in [Msgs -> Nat]
  BY ApiSizesAssumption DEF TypeOK
<1>2. queue # <<>> => Len(queue) >= 1 /\ Head(queue) = queue[1] /\ queue[1] = Front
                      /\ queue[1] \in Msgs
  <2> SUFFICES ASSUME queue # <<>>
               PROVE  Len(queue) >= 1 /\ Head(queue) = queue[1] /\ queue[1] = Front
                      /\ queue[1] \in Msgs
    OBVIOUS
  <2>1. Len(queue) >= 1 /\ 1 \in DOMAIN queue /\ Head(queue) = queue[1] /\ queue[1] \in Msgs
    BY <1>1, EmptySeq
  <2>2. queue[1] = Front + 1 - 1
    BY <2>1 DEF Core, Consecutive
  <2>3. Front \in Int
    BY <1>1 DEF Front
  <2> QED
    BY <2>1, <2>2, <2>3
<1>3. Front \in Nat /\ Front >= 1 /\ Front <= called + 1
  <2>1. CASE kind = "err"
    <3>1. Busy => called \in Msgs
      BY <2>1 DEF Shapes
    <3> QED
      BY <1>1, <2>1, <3>1 DEF Front, Msgs
  <2>2. CASE kind # "err" /\ queue = <<>>
    BY <1>1, <2>2 DEF Front
  <2>3. CASE kind # "err" /\ queue # <<>>
    <3>1. Front = called - Len(queue) + 1
      BY <2>3 DEF Front
    <3> HIDE DEF Front
    <3> QED
      BY <1>1, <1>2, <2>3, <3>1 DEF Msgs
  <2> QED
    BY <2>1, <2>2, <2>3
<1>4. Counted \in Nat
  BY <1>1 DEF Counted
<1>5. Unheard \in Nat
  <2>1. CASE done # <<>>
    <3>1. done[1] \in Dones
      BY <2>1, EmptySeq DEF Shapes
    <3> QED
      BY <2>1, <3>1 DEF Unheard, Dones
  <2> QED
    BY <2>1 DEF Unheard
<1>6. Busy => Front \in Msgs /\ Counted = cur[Front]
  <2> HIDE DEF Front
  <2>1. Busy => Front <= called
    BY DEF Core, OneOp
  <2> QED
    BY <1>1, <1>3, <2>1 DEF Counted, Msgs
<1> QED
  BY <1>1, <1>2, <1>3, <1>4, <1>5, <1>6

\* Nothing is under way at the start.
LEMMA InitAInv ==
  ASSUME ApiInit
  PROVE  AInv
<1>1. TypeOK
  <2>1. /\ kind \in Kinds /\ conn = "new" /\ called = 0 /\ node = 0 /\ pending = FALSE
        /\ queue = <<>> /\ ops = <<>> /\ done = <<>> /\ recv_pending = FALSE
        /\ got = 0 /\ arrived = 0 /\ overlap = FALSE /\ failed = FALSE
    BY DEF ApiInit
  <2>2. queue \in Seq(Msgs) /\ Len(ops) = 0 /\ Len(done) = 0
    BY <2>1, EmptySeq
  <2>3. cur \in [Msgs -> Nat]
    BY DEF ApiInit
  <2>4. pending = (queue # <<>>)
    BY <2>1
  <2>5. kind # "err" => /\ Len(ops) + Len(done) = IF pending /\ ~failed THEN 1 ELSE 0
                        /\ failed => pending /\ conn = "down"
    BY <2>1, <2>2
  <2>6. /\ conn \in {"new", "up", "down"} /\ called \in 0 .. MaxMsgs /\ node \in 0 .. MaxMsgs
        /\ got \in 0 .. RECVSIZE /\ arrived \in 0 .. MaxBytes
    BY <2>1, ApiSizesAssumption
  <2>7. recv_pending \in BOOLEAN /\ overlap \in BOOLEAN /\ failed \in BOOLEAN
    BY <2>1
  <2> QED
    BY <2>1, <2>2, <2>3, <2>4, <2>5, <2>6, <2>7 DEF TypeOK
<1>2. Shapes
  BY EmptySeq DEF ApiInit, Shapes, Busy
<1>3. Front = 1 /\ Counted = 0 /\ Unheard = 0 /\ ~Busy
  BY DEF ApiInit, Front, Counted, Unheard, Busy
<1>4. Core
  <2>1. Consecutive /\ Untouched
    BY <1>3 DEF ApiInit, Consecutive, Untouched
  <2>2. OneOp
    BY <1>3 DEF ApiInit, OneOp
  <2>3. Reached
    BY <1>3, ApiSizesAssumption DEF ApiInit, Reached
  <2>4. OrderKept
    BY DEF ApiInit, OrderKept
  <2> QED
    BY <2>1, <2>2, <2>3, <2>4 DEF Core
<1> QED
  BY <1>1, <1>2, <1>4 DEF AInv

\* Steps that leave the writing alone keep what is said of it.
LEMMA WritingKept ==
  ASSUME AInv, TypeOK', UNCHANGED <<kind, writing>>, conn = "down" => conn' = "down"
  PROVE  AInv'
<1>1. Front' = Front /\ Counted' = Counted /\ Unheard' = Unheard /\ Busy' = Busy
  BY DEF writing, Front, Counted, Unheard, Busy
<1>2. Shapes'
  BY <1>1 DEF AInv, Shapes, writing
<1>3. ASSUME Core
      PROVE  Core'
  <2>1. Consecutive' /\ Untouched'
    BY <1>1, <1>3 DEF Core, Consecutive, Untouched, writing
  <2>2. OneOp'
    BY <1>1, <1>3 DEF Core, OneOp, writing
  <2>3. Reached' /\ OrderKept'
    BY <1>1, <1>3 DEF Core, Reached, OrderKept, writing
  <2> QED
    BY <2>1, <2>2, <2>3 DEF Core
<1> QED
  BY <1>2, <1>3 DEF AInv, writing

-----------------------------------------------------------------------------
(* The methods of the owner.                                               *)

LEMMA ErrStep ==
  ASSUME AInv, WriteToSocketErr
  PROVE  AInv'
<1> DEFINE op == Write(called', 0, called', TRUE)
<1>1. /\ kind = "err" /\ called' = called + 1 /\ called' \in Msgs /\ node' = called'
      /\ ops' = Append(ops, op)
      /\ overlap' = (overlap \/ Busy)
      /\ UNCHANGED <<kind, conn, queue, cur, pending, done, wire, failed, reading>>
  BY ApiSizesAssumption DEF WriteToSocketErr, Calls, Busy, AInv, TypeOK, Msgs
<1>2. op \in Ops /\ op = [m |-> called', off |-> 0, len |-> MsgLen, mine |-> called',
                          alive |-> TRUE]
  BY <1>1, ApiSizesAssumption DEF Write, Ops
<1> HIDE DEF op
<1>3. ops' \in Seq(Ops) /\ ops' # <<>>
  BY <1>1, <1>2 DEF AInv, Shapes
<1>4. TypeOK'
  BY <1>1 DEF AInv, TypeOK, Msgs, reading, Calls
<1>5. Shapes'
  BY <1>1, <1>3 DEF AInv, Shapes
<1>6. ASSUME ~overlap'
      PROVE  Core'
  <2>1. ~overlap /\ ~Busy /\ ops = <<>> /\ done = <<>> /\ Core
    BY <1>1, <1>6 DEF Busy, AInv
  <2>2. ops' = <<op>> /\ ops'[1] = op /\ Len(ops') = 1 /\ done' = <<>> /\ Busy'
    BY <1>1, <2>1 DEF Busy
  <2>3. Front = called + 1 /\ Front' = called + 1 /\ called \in Nat
    BY <1>1, <2>1, <2>2 DEF Front, AInv, TypeOK
  <2>4. Counted = 0
    BY <2>1, <2>3 DEF Core, Untouched
  <2>5. Counted' = Counted /\ Unheard = 0 /\ Unheard' = 0
    <3> HIDE DEF Front
    <3> QED
      BY <1>1, <2>1, <2>2, <2>3 DEF Counted, Unheard
  <2> HIDE DEF Front, Counted, Unheard
  <2>6. Consecutive' /\ Untouched'
    BY <1>1, <2>1, <2>3, <2>4, <2>5 DEF Core, Consecutive, Untouched
  <2>7. OneOp'
    BY <1>1, <1>2, <2>2, <2>3, <2>4, <2>5, ApiSizesAssumption DEF OneOp
  <2>8. Reached' /\ OrderKept'
    BY <1>1, <1>6, <2>1, <2>3, <2>5 DEF Core, Reached, OrderKept
  <2> QED
    BY <2>6, <2>7, <2>8 DEF Core
<1> QED
  BY <1>4, <1>5, <1>6 DEF AInv

LEMMA EnqueueStep ==
  ASSUME AInv, kind # "err", Enqueue
  PROVE  AInv'
<1> DEFINE op == Write(called', 0, called', FALSE)
<1>1. /\ called' = called + 1 /\ called' \in Msgs /\ called \in Nat
      /\ queue \in Seq(Msgs) /\ queue' = Append(queue, called') /\ pending' = TRUE
      /\ ops' = IF pending THEN ops ELSE Append(ops, op)
      /\ UNCHANGED <<kind, conn, node, cur, done, wire, overlap, failed, reading>>
  BY ApiSizesAssumption DEF Enqueue, Calls, AInv, TypeOK, Msgs
<1>2. op \in Ops /\ op = [m |-> called', off |-> 0, len |-> MsgLen, mine |-> called',
                          alive |-> FALSE]
  BY <1>1, ApiSizesAssumption DEF Write, Ops
<1> HIDE DEF op
<1>3. /\ queue' \in Seq(Msgs) /\ Len(queue') = Len(queue) + 1 /\ queue' # <<>>
      /\ \A i \in 1 .. Len(queue) : queue'[i] = queue[i]
      /\ queue'[Len(queue) + 1] = called' /\ Len(queue) \in Nat
  BY <1>1
<1>4. /\ pending = (queue # <<>>)
      /\ Len(ops) + Len(done) = IF pending /\ ~failed THEN 1 ELSE 0
      /\ failed => pending /\ conn = "down"
      /\ ops \in Seq(Ops) /\ done \in Seq(Dones)
  BY DEF AInv, TypeOK, Shapes
<1>5. ~pending => ops = <<>> /\ done = <<>> /\ ~failed
  <2>1. ~pending => Len(ops) = 0 /\ Len(done) = 0
    BY <1>4
  <2> QED
    BY <1>4, <2>1, EmptySeq
<1>6. /\ ops' \in Seq(Ops)
      /\ Len(ops') + Len(done') = IF pending' /\ ~failed' THEN 1 ELSE 0
  <2>1. CASE pending
    BY <1>1, <1>4, <2>1
  <2>2. CASE ~pending
    BY <1>1, <1>2, <1>4, <1>5, <2>2
  <2> QED
    BY <2>1, <2>2
<1>7. TypeOK'
  <2>1. pending' = (queue' # <<>>)
    BY <1>1, <1>3
  <2>2. failed' => pending' /\ conn' = "down"
    BY <1>1, <1>4
  <2>3. called' \in 0 .. MaxMsgs
    BY <1>1 DEF Msgs
  <2>4. queue' \in Seq(Msgs) /\ cur' \in [Msgs -> Nat] /\ node' \in 0 .. MaxMsgs
    BY <1>1, <1>3 DEF AInv, TypeOK
  <2> QED
    BY <1>1, <1>6, <2>1, <2>2, <2>3, <2>4 DEF AInv, TypeOK, reading
<1>8. Shapes'
  BY <1>1, <1>6 DEF AInv, Shapes
<1>9. ASSUME ~overlap'
      PROVE  Core'
  <2>1. Core
    BY <1>1, <1>9 DEF AInv
  <2>2. /\ Front = called - Len(queue) + 1
        /\ Front' = called - Len(queue) + 1
    BY <1>1, <1>3 DEF Front
  <2>3. Front' = Front /\ Front \in Nat
    BY <2>1, <2>2, FrontFacts DEF AInv
  <2>4. Counted' = Counted /\ Unheard' = Unheard
    <3> HIDE DEF Front
    <3> QED
      BY <1>1, <2>3 DEF Counted, Unheard
  <2>5. ~pending => Front = called' /\ Counted = 0
    <3>1. ~pending => Front = called + 1
      <4>1. ~pending => Len(queue) = 0
        BY <1>4
      <4> HIDE DEF Front
      <4> QED
        BY <1>1, <2>2, <4>1
    <3> HIDE DEF Front, Counted
    <3> QED
      BY <1>1, <2>1, <3>1 DEF Core, Untouched
  <2> HIDE DEF Front, Counted, Unheard
  <2>6. Consecutive'
    <3>1. DOMAIN queue' = 1 .. Len(queue) + 1 /\ DOMAIN queue = 1 .. Len(queue)
      BY <1>1, <1>3
    <3>2. ASSUME NEW i \in 1 .. Len(queue) + 1
          PROVE  queue'[i] = Front + i - 1
      <4>1. CASE i \in 1 .. Len(queue)
        BY <1>3, <2>1, <3>1, <4>1 DEF Core, Consecutive
      <4>2. CASE i = Len(queue) + 1
        BY <1>1, <1>3, <2>2, <2>3, <4>2
      <4> QED
        BY <1>3, <4>1, <4>2
    <3> QED
      BY <2>3, <3>1, <3>2 DEF Consecutive
  <2>7. Untouched'
    BY <1>1, <2>1, <2>3, <2>4 DEF Core, Untouched
  <2>8. OneOp'
    <3>1. CASE pending
      BY <1>1, <2>1, <2>3, <2>4, <3>1 DEF Core, OneOp, Busy
    <3>2. CASE ~pending
      <4>1. ops' = <<op>> /\ ops'[1] = op /\ Len(ops') = 1 /\ done' = <<>>
        BY <1>1, <1>5, <3>2
      <4>2. Front <= called'
        BY <1>1, <2>5, <3>2
      <4> QED
        BY <1>1, <1>2, <2>3, <2>4, <2>5, <3>2, <4>1, <4>2, ApiSizesAssumption DEF OneOp
    <3> QED
      BY <3>1, <3>2
  <2>9. Reached' /\ OrderKept'
    BY <1>1, <1>9, <2>1, <2>3, <2>4 DEF Core, Reached, OrderKept
  <2> QED
    BY <2>6, <2>7, <2>8, <2>9 DEF Core
<1> QED
  BY <1>7, <1>8, <1>9 DEF AInv

-----------------------------------------------------------------------------
(* The handlers.                                                           *)

\* Where one completion waits, nothing else is under way.
LEMMA OneDone ==
  ASSUME TypeOK, Shapes, Len(ops) + Len(done) <= 1, done # <<>>
  PROVE  /\ ops = <<>> /\ Len(done) = 1 /\ Head(done) = done[1] /\ Tail(done) = <<>>
         /\ done[1] \in Dones
<1>1. ops \in Seq(Ops) /\ done \in Seq(Dones) /\ Len(done) \in Nat \ {0} /\ Len(ops) \in Nat
  BY EmptySeq DEF Shapes
<1>2. Len(done) <= 1 /\ Len(ops) = 0
  BY <1>1
<1>3. ops = <<>>
  BY <1>1, <1>2, EmptySeq
<1> QED
  BY <1>1, <1>2, <1>3, OneElement

\* In the two queues one thing is under way at a time.
LEMMA QueueBusy ==
  ASSUME TypeOK, Shapes, kind # "err", ops # <<>> \/ done # <<>>
  PROVE  Len(ops) + Len(done) = 1 /\ pending /\ ~failed /\ queue # <<>>
<1>1. Len(ops) + Len(done) > 0
  BY EmptySeq DEF Shapes
<1>2. Len(ops) + Len(done) = IF pending /\ ~failed THEN 1 ELSE 0
  BY DEF TypeOK
<1>3. pending /\ ~failed /\ Len(ops) + Len(done) = 1
  BY <1>1, <1>2
<1> QED
  BY <1>3 DEF TypeOK

\* The front goes, having been counted to its end where it is counted.
LEMMA StartNextStep ==
  ASSUME AInv, kind # "err", done # <<>>, done' = Tail(done), StartNext,
         cur' \in [Msgs -> Nat], \A m \in Msgs : m # Head(queue) => cur'[m] = cur[m],
         kind = "all" => cur' = cur,
         ~overlap /\ kind # "all" => Counted + Unheard = MsgLen,
         UNCHANGED <<kind, conn, called, node, wire, overlap, failed, reading>>
  PROVE  AInv'
<1> DEFINE op == Write(Head(queue'), cur[Head(queue')], Head(queue'), TRUE)
<1>1. /\ Len(ops) + Len(done) = 1 /\ pending /\ ~failed /\ queue # <<>>
      /\ ops = <<>> /\ done' = <<>> /\ ops \in Seq(Ops)
  BY QueueBusy, OneDone DEF AInv, Shapes
<1>2. /\ queue \in Seq(Msgs) /\ Len(queue) \in Nat /\ Len(queue) >= 1
      /\ queue' = Tail(queue) /\ queue' \in Seq(Msgs) /\ Len(queue') = Len(queue) - 1
      /\ \A i \in 1 .. Len(queue') : queue'[i] = queue[i + 1]
  <2>1. queue \in Seq(Msgs)
    BY DEF AInv, TypeOK
  <2> QED
    BY <1>1, <2>1, EmptySeq, HeadTailProperties DEF StartNext
<1>3. /\ pending' = (queue' # <<>>)
      /\ ops' = IF queue' = <<>> THEN ops ELSE Append(ops, op)
  BY DEF StartNext
<1>4. queue' # <<>> => Head(queue') \in Msgs /\ Head(queue') = queue'[1] /\ Len(queue') >= 1
  BY <1>2, EmptySeq
<1>5. cur \in [Msgs -> Nat] /\ MsgLen \in Nat /\ MsgLen >= 1 /\ called \in 0 .. MaxMsgs
  BY ApiSizesAssumption DEF AInv, TypeOK
<1>6. queue' # <<>> => op \in Ops
  BY <1>4, <1>5 DEF Write, Ops
<1>7. /\ op.m = Head(queue') /\ op.off = cur[Head(queue')] /\ op.len = MsgLen - op.off
      /\ op.mine = Head(queue') /\ op.alive = TRUE
  BY DEF Write
<1> HIDE DEF op
<1>8. /\ queue' = <<>> => ops' = <<>>
      /\ queue' # <<>> => ops' = <<op>> /\ ops'[1] = op /\ Len(ops') = 1
      /\ ops' \in Seq(Ops) /\ Len(ops') = IF pending' THEN 1 ELSE 0
  <2>1. CASE queue' = <<>>
    BY <1>1, <1>3, <2>1
  <2>2. CASE queue' # <<>>
    <3>1. ops' = <<op>>
      BY <1>1, <1>3, <2>2
    <3>2. pending'
      BY <1>3, <2>2
    <3> QED
      BY <1>6, <2>2, <3>1, <3>2
  <2> QED
    BY <2>1, <2>2
<1>9. TypeOK'
  <2>1. Len(ops') + Len(done') = IF pending' /\ ~failed' THEN 1 ELSE 0
    <3>1. Len(done') = 0 /\ ~failed'
      BY <1>1
    <3>2. CASE pending'
      BY <1>8, <3>1, <3>2
    <3>3. CASE ~pending'
      BY <1>8, <3>1, <3>3
    <3> QED
      BY <3>2, <3>3
  <2>2. failed' => pending' /\ conn' = "down"
    BY <1>1
  <2> QED
    BY <1>2, <1>3, <2>1, <2>2 DEF AInv, TypeOK, reading
<1>10. Shapes'
  BY <1>1, <1>8 DEF AInv, Shapes
<1>11. ASSUME ~overlap'
       PROVE  Core'
  <2>1. Core /\ ~overlap
    BY <1>11 DEF AInv
  <2>2. Front' = Front + 1 /\ Front' = called - Len(queue') + 1 /\ Front \in Msgs
        /\ Head(queue) = Front /\ Front >= 1 /\ Front <= called /\ Counted = cur[Front] /\ Unheard \in Nat /\ Counted \in Nat
    <3>1. Front = called - Len(queue) + 1 /\ Front' = called - (Len(queue) - 1) + 1
      BY <1>2 DEF Front
    <3>2. Front \in Msgs /\ Head(queue) = Front /\ Front >= 1 /\ Counted = cur[Front]
          /\ Unheard \in Nat /\ Counted \in Nat
      BY <1>1, <2>1, FrontFacts DEF AInv, Busy
    <3> HIDE DEF Front
    <3> QED
      BY <1>2, <1>5, <3>1, <3>2
  <2>3. Counted' = 0 /\ Unheard' = 0
    <3>1. Front + 1 \in Msgs => cur'[Front + 1] = 0
      <4>1. Front + 1 \in Msgs => cur[Front + 1] = 0
        BY <2>1, <2>2 DEF Core, Untouched, Msgs
      <4> HIDE DEF Front
      <4> QED
        BY <2>2, <4>1 DEF Msgs
    <3> HIDE DEF Front
    <3> QED
      BY <1>1, <2>2, <3>1 DEF Counted, Unheard
  <2> HIDE DEF Front, Counted, Unheard
  <2>4. queue' # <<>> => Head(queue') = Front' /\ Front' <= called'
    <3>1. queue' # <<>> => queue'[1] = queue[2] /\ 2 \in DOMAIN queue
      BY <1>2, <1>4
    <3>2. queue' # <<>> => queue[2] = Front + 2 - 1
      BY <2>1, <3>1 DEF Core, Consecutive
    <3>3. queue' # <<>> => Front' <= called
      BY <1>2, <1>4, <1>5, <2>2
    <3>4. Front + 2 - 1 = Front + 1
      BY <2>2 DEF Msgs
    <3> QED
      BY <1>4, <2>2, <3>1, <3>2, <3>3, <3>4
  <2>5. Consecutive'
    <3>1. ASSUME NEW i \in 1 .. Len(queue')
          PROVE  queue'[i] = Front' + i - 1
      <4>1. i + 1 \in DOMAIN queue /\ queue'[i] = queue[i + 1]
        BY <1>2
      <4>2. queue[i + 1] = Front + (i + 1) - 1
        BY <2>1, <4>1 DEF Core, Consecutive
      <4> QED
        BY <2>2, <4>1, <4>2 DEF Msgs
    <3> QED
      BY <1>2, <3>1 DEF Consecutive
  <2>6. Untouched'
    <3>1. ASSUME NEW m \in Msgs, m > Front + 1
          PROVE  cur'[m] = 0
      BY <2>1, <2>2, <3>1 DEF Core, Untouched, Msgs
    <3>2. kind' = "all" => \A m \in Msgs : cur'[m] = 0
      BY <2>1 DEF Core, Untouched
    <3> QED
      BY <2>2, <2>3, <3>1, <3>2 DEF Untouched
  <2>7. OneOp'
    <3>1. CASE queue' = <<>>
      BY <1>1, <1>8, <3>1 DEF OneOp, Busy
    <3>2. CASE queue' # <<>>
      <4>1. cur[Front'] = 0 /\ Front' \in Msgs
        BY <1>4, <2>1, <2>2, <2>4, <3>2 DEF Core, Untouched, Msgs
      <4>2. op.m = Front' /\ op.mine = Front' /\ op.off = 0 /\ op.len = MsgLen /\ op.alive
        BY <1>5, <1>7, <2>4, <3>2, <4>1
      <4>3. ops'[1] = op /\ Len(ops') + Len(done') <= 1 /\ done' = <<>>
        <5>1. ops'[1] = op
          BY <1>8, <3>2
        <5>2. Len(ops') = 1
          BY <1>8, <3>2
        <5>3. done' = <<>>
          BY <1>1
        <5>4. Len(ops') + Len(done') <= 1
          <6>1. Len(ops') + Len(done') = IF pending' /\ ~failed' THEN 1 ELSE 0
            BY <1>9 DEF TypeOK
          <6> QED
            BY <6>1
        <5> QED
          BY <5>1, <5>3, <5>4
      <4>4. Front' <= called' /\ Counted' < MsgLen /\ MsgLen = MsgLen - Counted'
        BY <1>5, <2>3, <2>4, <3>2
      <4> QED
        BY <2>3, <4>2, <4>3, <4>4 DEF OneOp
    <3> QED
      BY <3>1, <3>2
  <2>8. Reached'
    <3>1. \A j \in DOMAIN wire : wire[j].m < Front'
      <4> TAKE j \in DOMAIN wire
      <4>0. wire[j] \in Octets
        BY DEF AInv, Shapes
      <4>1. wire[j].m <= Front /\ wire[j].m \in Int
        <5>1. wire[j].m \in Int
          BY <4>0 DEF Octets, Msgs
        <5>2. wire[j].m < Front \/ wire[j].m = Front
          BY <2>1 DEF Core, Reached
        <5> QED
          BY <2>2, <5>1, <5>2 DEF Msgs
      <4> QED
        BY <2>2, <4>1 DEF Msgs
    <3>2. kind # "all" => Len(wire) = (Front' - 1) * MsgLen
      <4>1. kind # "all" => Len(wire) = (Front - 1) * MsgLen + Counted + Unheard
                            /\ Counted + Unheard = MsgLen
        BY <2>1 DEF Core, Reached
      <4>2. (Front - 1) * MsgLen + MsgLen = Front * MsgLen /\ Front' - 1 = Front
        BY <1>5, <2>2 DEF Msgs
      <4>3. (Front - 1) * MsgLen \in Int
        BY <1>5, <2>2 DEF Msgs
      <4> DEFINE before == (Front - 1) * MsgLen
      <4> HIDE DEF before
      <4>4. before + Counted + Unheard = before + (Counted + Unheard)
        BY <2>2, <4>3 DEF before
      <4> QED
        BY <4>1, <4>2, <4>4 DEF before
    <3> QED
      BY <1>5, <2>2, <2>3, <3>1, <3>2 DEF Reached, Msgs
  <2>9. OrderKept'
    BY <1>11, <2>1 DEF Core, OrderKept
  <2> QED
    BY <2>5, <2>6, <2>7, <2>8, <2>9 DEF Core
<1> QED
  BY <1>9, <1>10, <1>11 DEF AInv

\* The handler of "queue": the rest of the front, or the next one.
LEMMA WrietStep ==
  ASSUME AInv, WrietCallBack
  PROVE  AInv'
<1> DEFINE m == Head(queue)
           n == Head(done).n
           rest == Write(m, cur'[m], m, TRUE)
<1>1. /\ kind = "queue" /\ done # <<>> /\ done' = Tail(done) /\ ~Head(done).ec
      /\ cur' = [cur EXCEPT ![m] = @ + n]
      /\ IF cur'[m] < MsgLen
         THEN ops' = Append(ops, rest) /\ UNCHANGED <<queue, pending>>
         ELSE StartNext
      /\ UNCHANGED <<kind, conn, called, node, wire, overlap, failed, reading>>
  BY DEF WrietCallBack, Completed
<1>2. /\ Len(ops) + Len(done) = 1 /\ pending /\ ~failed /\ queue # <<>>
      /\ ops = <<>> /\ done' = <<>> /\ Head(done) = done[1] /\ done[1] \in Dones
  BY <1>1, QueueBusy, OneDone DEF AInv
<1>3. /\ m \in Msgs /\ n \in Nat /\ cur \in [Msgs -> Nat] /\ MsgLen \in Nat /\ MsgLen >= 1
  <2>1. queue \in Seq(Msgs) /\ cur \in [Msgs -> Nat]
    BY DEF AInv, TypeOK
  <2>2. Head(queue) \in Msgs
    BY <1>2, <2>1, HeadTailProperties
  <2> QED
    BY <1>2, <2>1, <2>2, ApiSizesAssumption DEF Dones
<1>4. /\ cur' \in [Msgs -> Nat] /\ cur'[m] = cur[m] + n
      /\ \A o \in Msgs : o # m => cur'[o] = cur[o]
  <2> HIDE DEF m, n
  <2> QED
    BY <1>1, <1>3
<1>5. ~overlap => /\ Core /\ Front = m /\ Counted = cur[m] /\ Unheard = n
                  /\ Front \in Msgs /\ Front <= called /\ n <= MsgLen - cur[m] /\ n >= 1
  <2> SUFFICES ASSUME ~overlap
               PROVE  /\ Core /\ Front = m /\ Counted = cur[m] /\ Unheard = n
                      /\ Front \in Msgs /\ Front <= called /\ n <= MsgLen - cur[m] /\ n >= 1
    OBVIOUS
  <2>1. Core
    BY DEF AInv
  <2>2. Front = m /\ Counted = cur[Front] /\ Front \in Msgs
    BY <1>1, <1>2, <2>1, FrontFacts DEF AInv, Busy
  <2>3. Unheard = n
    BY <1>1, <1>2 DEF Unheard
  <2>4. Front <= called /\ done[1].n <= MsgLen - Counted /\ (~done[1].ec => done[1].n >= 1)
    BY <1>1, <2>1 DEF Core, OneOp, Busy
  <2> QED
    BY <1>1, <1>2, <2>1, <2>2, <2>3, <2>4
<1>6. CASE cur'[m] < MsgLen
  <2>1. rest \in Ops /\ rest = [m |-> m, off |-> cur'[m], len |-> MsgLen - cur'[m],
                                mine |-> m, alive |-> TRUE]
    BY <1>3, <1>4 DEF Write, Ops
  <2>2. /\ ops' = <<rest>> /\ ops' \in Seq(Ops) /\ Len(ops') = 1 /\ ops'[1] = rest
        /\ UNCHANGED <<queue, pending>>
    <3> HIDE DEF rest
    <3>1. ops' = <<rest>> /\ UNCHANGED <<queue, pending>>
      BY <1>1, <1>2, <1>6
    <3> QED
      BY <2>1, <3>1
  <2> HIDE DEF rest
  <2>3. Len(ops') + Len(done') = 1
    <3>1. Len(done') = 0
      BY <1>2
    <3> QED
      BY <2>2, <3>1
  <2>4. TypeOK'
    <3>1. Len(ops') + Len(done') = IF pending' /\ ~failed' THEN 1 ELSE 0
      BY <1>1, <1>2, <2>2, <2>3
    <3>2. pending' = (queue' # <<>>) /\ (failed' => pending' /\ conn' = "down")
      BY <1>1, <1>2, <2>2
    <3> QED
      BY <1>1, <1>4, <2>2, <3>1, <3>2 DEF AInv, TypeOK, reading
  <2>5. Shapes'
    BY <1>1, <1>2, <2>2 DEF AInv, Shapes
  <2>6. ASSUME ~overlap'
        PROVE  Core'
    <3>1. ~overlap /\ Core /\ Front = m /\ Counted = cur[m] /\ Unheard = n
          /\ Front \in Msgs /\ Front <= called
      BY <1>1, <1>5, <2>6
    <3>2. Front' = Front
      BY <1>1, <2>2 DEF Front
    <3>3. Counted' = cur'[m] /\ Unheard' = 0
      <4> HIDE DEF Front, m
      <4> QED
        BY <1>2, <3>1, <3>2 DEF Counted, Unheard
    <3>4. Counted' + Unheard' = Counted + Unheard /\ Counted' \in Nat
      <4> HIDE DEF Front, m, n, Counted, Unheard
      <4> QED
        BY <1>3, <1>4, <3>1, <3>3
    <3> HIDE DEF Front, Counted, Unheard, m, n
    <3>5. Consecutive'
      BY <2>2, <3>1, <3>2 DEF Core, Consecutive
    <3>6. Untouched'
      <4>1. ASSUME NEW o \in Msgs, o > Front
            PROVE  cur'[o] = 0
        <5>1. cur[o] = 0
          BY <3>1, <4>1 DEF Core, Untouched
        <5>2. o # m
          BY <3>1, <4>1 DEF Msgs
        <5> QED
          BY <1>4, <5>1, <5>2
      <4>2. ~(Front' > called')
        <5>1. Front \in Int /\ called \in Int
          BY <3>1 DEF Msgs, AInv, TypeOK
        <5> QED
          BY <1>1, <3>1, <3>2, <5>1
      <4>3. kind' # "all"
        BY <1>1
      <4> QED
        BY <3>2, <4>1, <4>2, <4>3 DEF Untouched
    <3>7. OneOp'
      <4>0. Len(ops') + Len(done') <= 1
        BY <2>3
      <4>1. done' = <<>>
        BY <1>2
      <4>2. Front' <= called' /\ Counted' < MsgLen
        BY <1>1, <1>6, <3>1, <3>2, <3>3
      <4>3. /\ ops'[1].m = Front' /\ ops'[1].mine = Front' /\ ops'[1].off = Counted'
            /\ ops'[1].len = MsgLen - Counted' /\ ops'[1].alive
        BY <2>1, <2>2, <3>1, <3>2, <3>3
      <4> QED
        BY <4>0, <4>1, <4>2, <4>3 DEF OneOp
    <3>8. Reached'
      <4>1. \A j \in DOMAIN wire : \/ wire[j].m < Front
                                   \/ wire[j].m = Front /\ wire[j].i \in 1 .. Counted' + Unheard'
        BY <3>1, <3>4 DEF Core, Reached
      <4>2. Len(wire) = (Front - 1) * MsgLen + Counted' + Unheard'
        <5>1. Len(wire) = (Front - 1) * MsgLen + Counted + Unheard
          BY <1>1, <3>1 DEF Core, Reached
        <5>2. (Front - 1) * MsgLen \in Int /\ Unheard = n /\ n \in Nat /\ Counted = cur[m]
              /\ cur[m] \in Nat
          BY <1>3, <3>1 DEF Msgs
        <5> DEFINE before == (Front - 1) * MsgLen
        <5> HIDE DEF before
        <5>3. before + Counted + Unheard = before + Counted' + Unheard'
          BY <3>3, <3>4, <5>2 DEF before
        <5> QED
          BY <5>1, <5>3 DEF before
      <4> QED
        BY <1>1, <3>2, <4>1, <4>2 DEF Reached
    <3>9. OrderKept'
      BY <1>1, <3>1 DEF Core, OrderKept
    <3> QED
      BY <3>5, <3>6, <3>7, <3>8, <3>9 DEF Core
  <2> QED
    BY <2>4, <2>5, <2>6 DEF AInv
<1>7. CASE ~(cur'[m] < MsgLen)
  <2>1. StartNext
    BY <1>1, <1>7
  <2>2. ~overlap => Counted + Unheard = MsgLen
    <3> HIDE DEF m, n, Front
    <3> QED
      BY <1>3, <1>4, <1>5, <1>7
  <2>3. kind # "err" /\ kind # "all"
    BY <1>1
  <2> QED
    BY <1>1, <1>4, <2>1, <2>2, <2>3, StartNextStep
<1> QED
  BY <1>6, <1>7

\* That of "all" goes on to the next message in any case.
LEMMA WriteAllStep ==
  ASSUME AInv, WriteAllCallBack
  PROVE  AInv'
<1>1. /\ kind = "all" /\ done # <<>> /\ done' = Tail(done) /\ StartNext
      /\ cur \in [Msgs -> Nat]
      /\ UNCHANGED <<kind, conn, called, node, cur, wire, overlap, failed, reading>>
  BY DEF WriteAllCallBack, Completed, AInv, TypeOK
<1> QED
  BY <1>1, StartNextStep

\* After an error nothing is under way any more.
LEMMA WriteErrorStep ==
  ASSUME AInv, WriteError
  PROVE  AInv'
<1>1. /\ kind # "err" /\ done # <<>> /\ done' = Tail(done) /\ Head(done).ec /\ failed' = TRUE
      /\ UNCHANGED <<kind, conn, called, node, queue, cur, pending, ops, wire, overlap,
                     reading>>
  BY DEF WriteError, Completed
<1>2. /\ pending /\ queue # <<>> /\ ops = <<>> /\ done' = <<>> /\ Head(done) = done[1]
      /\ done[1] \in Dones /\ 1 \in DOMAIN done
  <2>1. /\ Len(ops) + Len(done) = 1 /\ pending /\ queue # <<>>
    BY <1>1, QueueBusy DEF AInv
  <2>2. /\ ops = <<>> /\ Len(done) = 1 /\ done' = <<>> /\ Head(done) = done[1]
        /\ done[1] \in Dones
    BY <1>1, <2>1, OneDone DEF AInv
  <2>3. 1 \in DOMAIN done
    BY <2>2 DEF AInv, Shapes
  <2> QED
    BY <2>1, <2>2, <2>3
<1>3. conn = "down" /\ done[1].n = 0
  BY <1>1, <1>2 DEF AInv, Shapes
<1>4. Len(ops') = 0 /\ Len(done') = 0 /\ Unheard = 0 /\ Unheard' = 0 /\ ~Busy'
  BY <1>1, <1>2, <1>3 DEF Unheard, Busy
<1>5. TypeOK'
  <2>1. Len(ops') + Len(done') = IF pending' /\ ~failed' THEN 1 ELSE 0
    BY <1>1, <1>4
  <2>2. /\ pending' = (queue' # <<>>) /\ (failed' => pending' /\ conn' = "down")
        /\ failed' \in BOOLEAN
    BY <1>1, <1>2, <1>3
  <2> QED
    BY <1>1, <2>1, <2>2 DEF AInv, TypeOK, reading
<1>6. Shapes'
  BY <1>1, <1>2, EmptySeq DEF AInv, Shapes
<1>7. ASSUME ~overlap'
      PROVE  Core'
  <2>1. Core
    BY <1>1, <1>7 DEF AInv
  <2>2. Front' = Front
    BY <1>1 DEF Front
  <2>3. Counted' = Counted
    BY <1>1, <2>2 DEF Counted
  <2> HIDE DEF Front, Counted, Unheard
  <2>4. Consecutive' /\ Untouched'
    BY <1>1, <2>1, <2>2, <2>3 DEF Core, Consecutive, Untouched
  <2>5. OneOp'
    BY <1>1, <1>2, <1>4, <2>1, <2>2, <2>3 DEF Core, OneOp
  <2>6. Reached' /\ OrderKept'
    BY <1>1, <1>4, <2>1, <2>2, <2>3 DEF Core, Reached, OrderKept
  <2> QED
    BY <2>4, <2>5, <2>6 DEF Core
<1> QED
  BY <1>5, <1>6, <1>7 DEF AInv

\* The handler of "err": the rest of the current node, or nothing more.
LEMMA WriteErrStep ==
  ASSUME AInv, WriteCallBackErr
  PROVE  AInv'
<1> DEFINE d == Head(done)
           rest == Write(node, cur'[node], node, TRUE)
<1>1. /\ kind = "err" /\ done # <<>> /\ done' = Tail(done)
      /\ IF d.n + cur[d.mine] < MsgLen
         THEN cur' = [cur EXCEPT ![node] = @ + d.n] /\ ops' = Append(ops, rest)
         ELSE UNCHANGED <<cur, ops>>
      /\ UNCHANGED <<kind, conn, called, node, queue, pending, wire, overlap, failed,
                     reading>>
  BY DEF WriteCallBackErr
<1>2. /\ node \in Msgs /\ node = called /\ cur \in [Msgs -> Nat]
      /\ MsgLen \in Nat /\ MsgLen >= 1 /\ Busy
  BY <1>1, ApiSizesAssumption DEF AInv, TypeOK, Shapes, Busy
<1>3. /\ done \in Seq(Dones) /\ ops \in Seq(Ops) /\ d = done[1] /\ d \in Dones
      /\ done' \in Seq(Dones)
      /\ \A j \in DOMAIN done' : j + 1 \in DOMAIN done /\ done'[j] = done[j + 1]
  <2>1. done \in Seq(Dones) /\ ops \in Seq(Ops)
    BY DEF AInv, Shapes
  <2>2. Len(done) \in Nat \ {0}
    BY <1>1, <2>1, EmptySeq
  <2> QED
    BY <1>1, <2>1, <2>2, HeadTailProperties
<1>4. d.n \in Nat
  <2> HIDE DEF d
  <2> QED
    BY <1>3 DEF Dones
<1>5. CASE d.n + cur[d.mine] < MsgLen
  <2>1. /\ cur' \in [Msgs -> Nat] /\ cur'[node] = cur[node] + d.n
        /\ \A o \in Msgs : o # node => cur'[o] = cur[o]
    <3> HIDE DEF d, rest
    <3> QED
      BY <1>1, <1>2, <1>4, <1>5
  <2>2. rest \in Ops /\ rest = [m |-> node, off |-> cur'[node], len |-> MsgLen - cur'[node],
                                mine |-> node, alive |-> TRUE]
    BY <1>2, <2>1 DEF Write, Ops
  <2>3. ops' = Append(ops, rest)
    BY <1>1, <1>5
  <2> HIDE DEF rest, d
  <2>4. ops' \in Seq(Ops) /\ ops' # <<>>
    <3>1. ops \in Seq(Ops) /\ rest \in Ops
      BY <1>3, <2>2
    <3> QED
      BY <2>3, <3>1, AppendProperties
  <2>5. TypeOK'
    BY <1>1, <2>1 DEF AInv, TypeOK, reading
  <2>6. Shapes'
    <3>1. Busy' /\ node' \in Msgs /\ node' = called'
      BY <1>1, <1>2, <2>4 DEF Busy
    <3>2. \A j \in DOMAIN done' : done'[j].ec => conn' = "down" /\ done'[j].n = 0
      BY <1>1, <1>3 DEF AInv, Shapes
    <3> QED
      BY <1>1, <1>3, <2>4, <3>1, <3>2 DEF AInv, Shapes
  <2>7. ASSUME ~overlap'
        PROVE  Core'
    <3>1. /\ Core /\ ops = <<>> /\ done' = <<>> /\ Front \in Msgs /\ Front <= called
          /\ Counted = cur[Front] /\ Unheard = d.n /\ d.mine = Front /\ Front = node
      <4>1. Core
        BY <1>1, <2>7 DEF AInv
      <4>2. ops = <<>> /\ done' = <<>>
        BY <1>1, <4>1, OneDone DEF AInv, Core, OneOp
      <4>3. Front = called
        BY <1>1, <1>2 DEF Front
      <4>4. Counted = cur[Front] /\ Unheard = d.n
        BY <1>1, <1>2, <1>3, <4>3 DEF Counted, Unheard
      <4>5. d.mine = Front
        BY <1>1, <1>3, <4>1 DEF Core, OneOp
      <4>6. Front <= called
        BY <1>2, <4>1 DEF Core, OneOp
      <4> QED
        BY <1>2, <4>1, <4>2, <4>3, <4>4, <4>5, <4>6
    <3>2. Front' = Front
      <4>1. Front' = called'
        BY <1>1, <2>4 DEF Front, Busy
      <4>2. Front = called
        BY <1>1, <1>2 DEF Front
      <4> QED
        BY <1>1, <4>1, <4>2
    <3>3. Counted' = cur'[node] /\ Unheard' = 0
      <4> HIDE DEF Front
      <4> QED
        BY <3>1, <3>2 DEF Counted, Unheard
    <3>4. Counted' = Counted + Unheard /\ Counted' \in Nat /\ Counted' < MsgLen
      <4> HIDE DEF Front, Counted, Unheard
      <4> QED
        BY <1>2, <1>4, <1>5, <2>1, <3>1, <3>3
    <3>5. ops' = <<rest>> /\ ops'[1] = rest /\ Len(ops') = 1 /\ Len(done') = 0
      BY <2>3, <3>1
    <3> HIDE DEF Front, Counted, Unheard
    <3>6. Consecutive'
      BY <1>1, <3>1, <3>2 DEF Core, Consecutive
    <3>7. Untouched'
      <4>1. ASSUME NEW o \in Msgs, o > Front
            PROVE  cur'[o] = 0
        <5>1. cur[o] = 0
          BY <3>1, <4>1 DEF Core, Untouched
        <5>2. o # node
          BY <3>1, <4>1 DEF Msgs
        <5> QED
          BY <2>1, <5>1, <5>2
      <4>2. ~(Front' > called')
        <5>1. Front \in Int /\ called \in Int
          BY <1>2, <3>1 DEF Msgs
        <5> QED
          BY <1>1, <3>1, <3>2, <5>1
      <4>3. kind' # "all"
        BY <1>1
      <4> QED
        BY <3>2, <4>1, <4>2, <4>3 DEF Untouched
    <3>8. OneOp'
      <4>1. Len(ops') + Len(done') <= 1
        BY <3>5
      <4>2. Front' <= called' /\ Counted' < MsgLen
        BY <1>1, <3>1, <3>2, <3>4
      <4>3. /\ ops'[1].m = Front' /\ ops'[1].mine = Front' /\ ops'[1].off = Counted'
            /\ ops'[1].len = MsgLen - Counted' /\ ops'[1].alive
        BY <2>2, <3>1, <3>2, <3>3, <3>5
      <4> QED
        BY <3>1, <4>1, <4>2, <4>3 DEF OneOp
    <3>9. Reached'
      <4>1. Counted' + Unheard' = Counted + Unheard
        BY <3>3, <3>4
      <4>2. \A j \in DOMAIN wire : \/ wire[j].m < Front
                                   \/ wire[j].m = Front /\ wire[j].i \in 1 .. Counted' + Unheard'
        BY <3>1, <4>1 DEF Core, Reached
      <4>3. Len(wire) = (Front - 1) * MsgLen + Counted' + Unheard'
        <5>1. Len(wire) = (Front - 1) * MsgLen + Counted + Unheard
          BY <1>1, <3>1 DEF Core, Reached
        <5>2. (Front - 1) * MsgLen \in Int /\ Counted \in Nat /\ Unheard \in Nat
          BY <1>2, <1>4, <3>1 DEF Msgs
        <5> DEFINE before == (Front - 1) * MsgLen
        <5> HIDE DEF before
        <5>3. before + Counted + Unheard = before + Counted' + Unheard'
          BY <3>3, <3>4, <5>2 DEF before
        <5> QED
          BY <5>1, <5>3 DEF before
      <4> QED
        BY <1>1, <3>2, <4>2, <4>3 DEF Reached
    <3>10. OrderKept'
      BY <1>1, <2>7, <3>1 DEF Core, OrderKept
    <3> QED
      BY <3>6, <3>7, <3>8, <3>9, <3>10 DEF Core
  <2> QED
    BY <2>5, <2>6, <2>7 DEF AInv
<1>6. CASE ~(d.n + cur[d.mine] < MsgLen)
  <2>1. UNCHANGED <<cur, ops>>
    BY <1>1, <1>6
  <2> HIDE DEF d, rest
  <2>2. TypeOK'
    BY <1>1, <2>1 DEF AInv, TypeOK, reading
  <2>3. Shapes'
    <3>1. \A j \in DOMAIN done' : done'[j].ec => conn' = "down" /\ done'[j].n = 0
      BY <1>1, <1>3 DEF AInv, Shapes
    <3> QED
      BY <1>1, <1>2, <1>3, <2>1, <3>1 DEF AInv, Shapes
  <2>4. ASSUME ~overlap'
        PROVE  Core'
    <3>1. Core
      BY <1>1, <2>4 DEF AInv
    <3>2. ops = <<>> /\ done' = <<>> /\ ~Busy'
      BY <1>1, <2>1, <3>1, OneDone DEF AInv, Core, OneOp, Busy
    <3>3. Front = called /\ Front' = called + 1
      BY <1>1, <1>2, <3>2 DEF Front
    <3>4. Counted = cur[Front] /\ Unheard = d.n /\ Counted \in Nat
      BY <1>1, <1>2, <1>3, <3>3 DEF Counted, Unheard
    <3>5. d.mine = Front /\ d.n <= MsgLen - Counted
      BY <1>1, <1>3, <3>1 DEF Core, OneOp
    <3>6. Counted + Unheard = MsgLen
      <4> HIDE DEF Front, Counted, Unheard
      <4> QED
        BY <1>2, <1>4, <1>6, <3>4, <3>5
    <3>7. Counted' = 0 /\ Unheard' = 0
      <4>1. Front' \in Msgs => cur[Front'] = 0
        <5>1. Front' > Front
          BY <1>2, <3>3 DEF Msgs
        <5> HIDE DEF Front
        <5> QED
          BY <3>1, <5>1 DEF Core, Untouched
      <4> HIDE DEF Front
      <4> QED
        BY <2>1, <3>2, <4>1 DEF Counted, Unheard
    <3> HIDE DEF Front, Counted, Unheard
    <3>8. Consecutive'
      <4>1. queue' = <<>>
        BY <1>1 DEF AInv, Shapes
      <4> QED
        BY <4>1 DEF Consecutive
    <3>9. Untouched'
      <4>1. ASSUME NEW o \in Msgs, o > Front'
            PROVE  cur[o] = 0
        <5>1. o > Front
          BY <1>2, <3>3, <4>1 DEF Msgs
        <5> QED
          BY <3>1, <5>1 DEF Core, Untouched
      <4>2. kind' # "all"
        BY <1>1
      <4> QED
        BY <2>1, <3>7, <4>1, <4>2 DEF Untouched
    <3>10. OneOp'
      BY <2>1, <3>2 DEF OneOp, Busy
    <3>11. Reached'
      <4>1. \A j \in DOMAIN wire : wire[j].m < Front'
        <5> TAKE j \in DOMAIN wire
        <5>1. wire[j].m \in Int
          <6>1. wire[j] \in Octets
            BY DEF AInv, Shapes
          <6> QED
            BY <6>1 DEF Octets, Msgs
        <5>2. wire[j].m < Front \/ wire[j].m = Front
          BY <3>1 DEF Core, Reached
        <5> QED
          BY <1>2, <3>3, <5>1, <5>2 DEF Msgs
      <4>2. Len(wire) = (Front' - 1) * MsgLen
        <5>1. Len(wire) = (Front - 1) * MsgLen + Counted + Unheard
          BY <1>1, <3>1 DEF Core, Reached
        <5>2. (Front - 1) * MsgLen + MsgLen = Front * MsgLen /\ Front' - 1 = Front
          BY <1>2, <3>3 DEF Msgs
        <5>3. (Front - 1) * MsgLen \in Int /\ Unheard \in Nat
          BY <1>2, <1>4, <3>3, <3>4 DEF Msgs
        <5> DEFINE before == (Front - 1) * MsgLen
        <5> HIDE DEF before
        <5>4. before + Counted + Unheard = before + (Counted + Unheard)
          BY <3>4, <5>3 DEF before
        <5> QED
          BY <3>6, <5>1, <5>2, <5>4 DEF before
      <4>3. Front' * MsgLen \in Int /\ (Front' - 1) * MsgLen \in Int
        BY <1>2, <3>3 DEF Msgs
      <4> QED
        BY <1>1, <3>7, <4>1, <4>2, <4>3 DEF Reached
    <3>12. OrderKept'
      BY <1>1, <2>4, <3>1 DEF Core, OrderKept
    <3> QED
      BY <3>8, <3>9, <3>10, <3>11, <3>12 DEF Core
  <2> QED
    BY <2>2, <2>3, <2>4 DEF AInv
<1> QED
  BY <1>5, <1>6

-----------------------------------------------------------------------------
(* asio and the peer.                                                      *)

\* Some bytes go out: they continue the front where it was.
LEMMA TransferStep ==
  ASSUME AInv, NEW k \in 0 .. MsgLen, Transfer(k)
  PROVE  AInv'
<1> DEFINE op == Head(ops)
           heard == [ec |-> FALSE, n |-> k, mine |-> op.mine]
           More(right) == [i \in 1 .. k |-> Byte(op.m, op.off + i, right)]
<1>1. PICK right \in {op.len >= 0, op.alive /\ op.len >= 0} : wire' = wire \o More(right)
  BY DEF Transfer
<1> DEFINE more == More(right)
<1>2. /\ conn = "up" /\ ops # <<>> /\ ops' = Tail(ops) /\ done' = Append(done, heard)
      /\ k <= op.len \/ (op.len < 0 /\ k = 1)
      /\ k > 0 \/ op.len = 0
      /\ UNCHANGED <<kind, conn, called, node, queue, cur, pending, overlap, failed,
                     reading>>
  BY DEF Transfer
<1>3. /\ op \in Ops /\ op = ops[1] /\ ops' \in Seq(Ops) /\ Len(ops') = Len(ops) - 1
      /\ ops \in Seq(Ops) /\ Len(ops) \in Nat \ {0}
  <2>1. ops \in Seq(Ops)
    BY DEF AInv, Shapes
  <2>2. Len(ops) \in Nat \ {0}
    BY <1>2, <2>1, EmptySeq
  <2> QED
    BY <1>2, <2>1, <2>2, HeadTailProperties
<1>4. /\ op.m \in Msgs /\ op.off \in Int /\ op.len \in Int /\ op.mine \in Msgs
      /\ op.alive \in BOOLEAN /\ right \in BOOLEAN /\ k \in Nat
  <2> HIDE DEF op
  <2>1. op.m \in Msgs /\ op.off \in Int /\ op.len \in Int /\ op.mine \in Msgs
        /\ op.alive \in BOOLEAN
    BY <1>3 DEF Ops
  <2>2. right \in BOOLEAN
    <3>1. (op.len >= 0) \in BOOLEAN /\ (op.alive /\ op.len >= 0) \in BOOLEAN
      OBVIOUS
    <3> QED
      BY <1>1, <3>1
  <2>3. k \in Nat
    BY ApiSizesAssumption
  <2> QED
    BY <2>1, <2>2, <2>3
<1> HIDE DEF op
<1>5. heard \in Dones /\ heard.ec = FALSE /\ heard.n = k /\ heard.mine = op.mine
  BY <1>4 DEF Dones
<1> HIDE DEF heard
<1>6. /\ more \in Seq(Octets) /\ Len(more) = k
      /\ \A t \in 1 .. k : more[t].m = op.m /\ more[t].i = op.off + t /\ more[t].right = right
  <2>1. \A t \in 1 .. k : more[t] = [m |-> op.m, i |-> op.off + t, right |-> right]
    BY DEF Byte
  <2>2. \A t \in 1 .. k : more[t] \in Octets
    <3> TAKE t \in 1 .. k
    <3>1. op.off + t \in Int
      BY <1>4
    <3>2. [m |-> op.m, i |-> op.off + t, right |-> right] \in Octets
      BY <1>4, <3>1 DEF Octets
    <3>3. more[t] = [m |-> op.m, i |-> op.off + t, right |-> right]
      BY <2>1
    <3> HIDE DEF more
    <3> QED
      BY <3>2, <3>3
  <2>3. more \in [1 .. k -> Octets]
    <3>1. more = [t \in 1 .. k |-> more[t]]
      OBVIOUS
    <3> HIDE DEF more
    <3> QED
      BY <2>2, <3>1
  <2>4. more \in Seq(Octets) /\ Len(more) = k
    <3> HIDE DEF more
    <3> QED
      BY <1>4, <2>3
  <2> HIDE DEF more
  <2> QED
    BY <2>1, <2>4
<1>7. wire' = wire \o more
  BY <1>1
<1> HIDE DEF more
<1>8. /\ wire \in Seq(Octets) /\ wire' \in Seq(Octets) /\ Len(wire) \in Nat
      /\ Len(wire') = Len(wire) + k
      /\ \A j \in 1 .. Len(wire) : wire'[j] = wire[j]
      /\ \A t \in 1 .. k : wire'[Len(wire) + t] = more[t]
  <2>1. wire \in Seq(Octets)
    BY DEF AInv, Shapes
  <2>2. /\ wire \o more \in Seq(Octets) /\ Len(wire \o more) = Len(wire) + Len(more)
        /\ \A j \in 1 .. Len(wire) + Len(more) :
             (wire \o more)[j] = IF j <= Len(wire) THEN wire[j] ELSE more[j - Len(wire)]
        /\ Len(wire) \in Nat
    <3>1. more \in Seq(Octets)
      BY <1>6
    <3>2. Len(wire) \in Nat
      BY <2>1
    <3>3. /\ wire \o more \in Seq(Octets) /\ Len(wire \o more) = Len(wire) + Len(more)
          /\ \A j \in 1 .. Len(wire) + Len(more) :
               (wire \o more)[j] = IF j <= Len(wire) THEN wire[j] ELSE more[j - Len(wire)]
      BY <2>1, <3>1, ConcatProperties
    <3> QED
      BY <3>2, <3>3
  <2>3. ASSUME NEW j \in 1 .. Len(wire)
        PROVE  wire'[j] = wire[j]
    <3>1. j \in 1 .. Len(wire) + Len(more) /\ j <= Len(wire)
      BY <1>4, <1>6, <2>2
    <3> QED
      BY <1>7, <2>2, <3>1
  <2>4. ASSUME NEW t \in 1 .. k
        PROVE  wire'[Len(wire) + t] = more[t]
    <3>1. /\ Len(wire) + t \in 1 .. Len(wire) + Len(more) /\ ~(Len(wire) + t <= Len(wire))
          /\ (Len(wire) + t) - Len(wire) = t
      BY <1>4, <1>6, <2>2
    <3> QED
      BY <1>7, <2>2, <3>1
  <2> QED
    BY <1>6, <1>7, <2>1, <2>2, <2>3, <2>4
<1>9. /\ done \in Seq(Dones) /\ done' \in Seq(Dones) /\ Len(done') = Len(done) + 1
      /\ \A j \in DOMAIN done' : done'[j] = heard \/ (j \in DOMAIN done /\ done'[j] = done[j])
      /\ done' # <<>>
  <2>1. done \in Seq(Dones)
    BY DEF AInv, Shapes
  <2> QED
    BY <1>2, <1>5, <2>1
<1>10. TypeOK'
  <2>1. Len(ops') + Len(done') = Len(ops) + Len(done)
    BY <1>3, <1>9
  <2> QED
    BY <1>2, <2>1 DEF AInv, TypeOK, reading
<1>11. Shapes'
  <2>1. Busy /\ Busy'
    BY <1>2, <1>9 DEF Busy
  <2>2. \A j \in DOMAIN done' : done'[j].ec => conn' = "down" /\ done'[j].n = 0
    BY <1>2, <1>5, <1>9 DEF AInv, Shapes
  <2> QED
    BY <1>2, <1>3, <1>8, <1>9, <2>1, <2>2 DEF AInv, Shapes
<1>12. ASSUME ~overlap'
       PROVE  Core'
  <2>1. Core
    BY <1>2, <1>12 DEF AInv
  <2>2. /\ ops' = <<>> /\ done = <<>> /\ done'[1] = heard /\ Busy /\ Busy'
    <3>1. Len(ops) + Len(done) <= 1 /\ Len(done) \in Nat
      BY <1>9, <2>1 DEF Core, OneOp
    <3>2. Len(ops') = 0 /\ Len(done) = 0
      BY <1>3, <3>1
    <3>3. ops' = <<>> /\ done = <<>>
      BY <1>3, <1>9, <3>2, EmptySeq
    <3> QED
      BY <1>2, <1>9, <3>3 DEF Busy
  <2>3. /\ Front \in Msgs /\ Front <= called /\ Counted \in Nat /\ Counted < MsgLen
        /\ op.m = Front /\ op.mine = Front /\ op.off = Counted /\ op.len = MsgLen - Counted
        /\ ~op.alive => kind # "err" /\ Counted = 0
    BY <1>2, <1>3, <2>1, <2>2, FrontFacts DEF AInv, Core, OneOp
  <2>4. Front' = Front /\ Counted' = Counted
    <3>1. Front' = Front
      BY <1>2, <2>2 DEF Front
    <3> HIDE DEF Front
    <3> QED
      BY <1>2, <3>1 DEF Counted
  <2>5. Unheard = 0 /\ Unheard' = k
    BY <1>5, <1>9, <2>2 DEF Unheard
  <2>6. MsgLen \in Nat
    BY ApiSizesAssumption
  <2> HIDE DEF Front, Counted, Unheard
  <2>7. k >= 1 /\ k <= MsgLen - Counted
    BY <1>2, <1>4, <2>3, <2>6
  <2>8. Consecutive' /\ Untouched'
    BY <1>2, <2>1, <2>4 DEF Core, Consecutive, Untouched
  <2>9. OneOp'
    <3>1. Len(ops') + Len(done') <= 1
      <4>1. Len(ops) + Len(done) <= 1
        BY <2>1 DEF Core, OneOp
      <4> QED
        BY <1>3, <1>9, <4>1
    <3>2. Front' <= called' /\ Counted' < MsgLen
      BY <1>2, <2>3, <2>4
    <3>3. done'[1].mine = Front' /\ done'[1].n <= MsgLen - Counted' /\ done'[1].n >= 1
      BY <1>5, <2>2, <2>3, <2>4, <2>7
    <3> QED
      BY <2>2, <3>1, <3>2, <3>3 DEF OneOp
  \* Every place of the wire is an old one or one of the new bytes.
  <2>10. /\ \A j \in DOMAIN wire' : \/ j \in DOMAIN wire /\ wire'[j] = wire[j]
                                   \/ \E t \in 1 .. k : j = Len(wire) + t /\ wire'[j] = more[t]
         /\ DOMAIN wire = 1 .. Len(wire) /\ DOMAIN wire' = 1 .. Len(wire) + k
    <3>1. DOMAIN wire = 1 .. Len(wire) /\ DOMAIN wire' = 1 .. Len(wire) + k
      BY <1>8
    <3>2. ASSUME NEW j \in 1 .. Len(wire) + k, j \notin 1 .. Len(wire)
          PROVE  j - Len(wire) \in 1 .. k /\ j = Len(wire) + (j - Len(wire))
      BY <1>4, <1>8, <3>2
    <3>3. ASSUME NEW j \in DOMAIN wire'
          PROVE  \/ j \in DOMAIN wire /\ wire'[j] = wire[j]
                 \/ \E t \in 1 .. k : j = Len(wire) + t /\ wire'[j] = more[t]
      <4>1. CASE j \in 1 .. Len(wire)
        BY <1>8, <3>1, <4>1
      <4>2. CASE j \notin 1 .. Len(wire)
        <5>1. j - Len(wire) \in 1 .. k /\ j = Len(wire) + (j - Len(wire))
          BY <3>1, <3>2, <4>2
        <5>2. wire'[Len(wire) + (j - Len(wire))] = more[j - Len(wire)]
          BY <1>8, <5>1
        <5> QED
          BY <5>1, <5>2
      <4> QED
        BY <4>1, <4>2
    <3> QED
      BY <3>1, <3>3
  <2>11. \A t \in 1 .. k : /\ more[t].m = Front /\ more[t].i = Counted + t
                           /\ more[t].right = right
    BY <1>6, <2>3
  <2>12. \A j \in DOMAIN wire : \/ wire[j].m < Front
                                \/ wire[j].m = Front /\ wire[j].i \in 1 .. Counted
    BY <2>1, <2>3, <2>5 DEF Core, Reached
  <2>13. kind # "all" => Len(wire) = (Front - 1) * MsgLen + Counted
    <3>1. kind # "all" => Len(wire) = (Front - 1) * MsgLen + Counted + Unheard
      BY <2>1 DEF Core, Reached
    <3>2. (Front - 1) * MsgLen \in Int
      BY <2>3, <2>6 DEF Msgs
    <3> DEFINE before == (Front - 1) * MsgLen
    <3> HIDE DEF before
    <3>3. before + Counted + Unheard = before + Counted
      BY <2>3, <2>5, <3>2 DEF before
    <3> QED
      BY <3>1, <3>3 DEF before
  <2>14. Reached'
    <3>1. ASSUME NEW j \in DOMAIN wire'
          PROVE  \/ wire'[j].m < Front
                 \/ wire'[j].m = Front /\ wire'[j].i \in 1 .. Counted + k
      <4>1. CASE j \in DOMAIN wire /\ wire'[j] = wire[j]
        <5>1. 1 .. Counted \subseteq 1 .. Counted + k
          BY <1>4, <2>3
        <5> QED
          BY <2>12, <4>1, <5>1
      <4>2. ASSUME NEW t \in 1 .. k, wire'[j] = more[t]
            PROVE  wire'[j].m = Front /\ wire'[j].i \in 1 .. Counted + k
        <5>1. Counted + t \in 1 .. Counted + k
          BY <1>4, <2>3
        <5> QED
          BY <2>11, <4>2, <5>1
      <4> QED
        BY <2>10, <4>1, <4>2
    <3>2. kind # "all" => Len(wire') = (Front - 1) * MsgLen + Counted + k
      <4>1. (Front - 1) * MsgLen \in Int
        BY <2>3, <2>6 DEF Msgs
      <4> DEFINE before == (Front - 1) * MsgLen
      <4> HIDE DEF before
      <4> QED
        BY <1>4, <1>8, <2>3, <2>13, <4>1 DEF before
    <3> QED
      BY <1>2, <2>4, <2>5, <3>1, <3>2 DEF Reached
  <2>15. OrderKept'
    <3> SUFFICES ASSUME NEW j \in DOMAIN wire'
                 PROVE  /\ \A i \in 1 .. j - 1 : Before(wire'[i], wire'[j])
                        /\ kind # "all" => /\ wire'[j].m = ((j - 1) \div MsgLen) + 1
                                           /\ wire'[j].i = ((j - 1) % MsgLen) + 1
                        /\ ~wire'[j].right =>
                             /\ kind # "err"
                             /\ \A i \in 1 .. j - 1 :
                                  wire'[i].m = wire'[j].m => ~wire'[i].right
      BY <1>2 DEF OrderKept
    <3>1. CASE j \in DOMAIN wire /\ wire'[j] = wire[j]
      <4>1. \A i \in 1 .. j - 1 : i \in 1 .. Len(wire)
        BY <1>8, <2>10, <3>1
      <4>2. \A i \in 1 .. j - 1 : wire'[i] = wire[i]
        BY <1>8, <4>1
      <4>3. /\ \A i \in 1 .. j - 1 : Before(wire[i], wire[j])
            /\ kind # "all" => /\ wire[j].m = ((j - 1) \div MsgLen) + 1
                               /\ wire[j].i = ((j - 1) % MsgLen) + 1
            /\ ~wire[j].right => /\ kind # "err"
                                 /\ \A i \in 1 .. j - 1 :
                                      wire[i].m = wire[j].m => ~wire[i].right
        BY <1>2, <1>12, <2>1, <3>1 DEF Core, OrderKept
      <4> QED
        BY <3>1, <4>2, <4>3
    <3>2. ASSUME NEW t \in 1 .. k, j = Len(wire) + t, wire'[j] = more[t]
          PROVE  /\ \A i \in 1 .. j - 1 : Before(wire'[i], wire'[j])
                 /\ kind # "all" => /\ wire'[j].m = ((j - 1) \div MsgLen) + 1
                                    /\ wire'[j].i = ((j - 1) % MsgLen) + 1
                 /\ ~wire'[j].right =>
                      /\ kind # "err"
                      /\ \A i \in 1 .. j - 1 : wire'[i].m = wire'[j].m => ~wire'[i].right
      <4>0. wire'[j].m = Front /\ wire'[j].i = Counted + t /\ wire'[j].right = right
            /\ t \in Nat /\ t >= 1
        BY <1>4, <2>11, <3>2
      <4>1. ASSUME NEW i \in 1 .. j - 1
            PROVE  \/ i \in DOMAIN wire /\ wire'[i] = wire[i]
                   \/ \E s \in 1 .. k : s < t /\ wire'[i] = more[s]
        <5>1. i \in 1 .. Len(wire) + k
          BY <1>4, <1>8, <3>2
        <5>2. CASE i \in DOMAIN wire /\ wire'[i] = wire[i]
          BY <5>2
        <5>3. ASSUME NEW s \in 1 .. k, i = Len(wire) + s, wire'[i] = more[s]
              PROVE  s < t
          BY <1>4, <1>8, <3>2, <5>3
        <5> QED
          BY <2>10, <5>1, <5>2, <5>3
      <4>2. ASSUME NEW i \in 1 .. j - 1
            PROVE  Before(wire'[i], wire'[j])
        <5>1. CASE i \in DOMAIN wire /\ wire'[i] = wire[i]
          <6>1. wire[i].m < Front \/ (wire[i].m = Front /\ wire[i].i \in 1 .. Counted)
            BY <2>12, <5>1
          <6>2. \A c \in 1 .. Counted : c < Counted + t
            BY <2>3, <4>0
          <6> QED
            BY <4>0, <5>1, <6>1, <6>2 DEF Before
        <5>2. ASSUME NEW s \in 1 .. k, s < t, wire'[i] = more[s]
              PROVE  Before(wire'[i], wire'[j])
          <6>1. more[s].m = Front /\ more[s].i = Counted + s
            BY <2>11
          <6>2. Counted + s < Counted + t
            BY <2>3, <4>0, <5>2
          <6> QED
            BY <4>0, <5>2, <6>1, <6>2 DEF Before
        <5> QED
          BY <4>1, <5>1, <5>2
      <4>3. ASSUME kind # "all"
            PROVE  /\ wire'[j].m = ((j - 1) \div MsgLen) + 1
                   /\ wire'[j].i = ((j - 1) % MsgLen) + 1
        <5>1. Front - 1 \in Nat /\ Counted + t - 1 \in 0 .. MsgLen - 1
          BY <1>4, <2>3, <2>6, <2>7, <4>0 DEF Msgs
        <5>2. j - 1 = (Front - 1) * MsgLen + (Counted + t - 1)
          <6>1. (Front - 1) * MsgLen \in Int /\ Len(wire) = (Front - 1) * MsgLen + Counted
            BY <2>3, <2>6, <2>13, <4>3 DEF Msgs
          <6> DEFINE before == (Front - 1) * MsgLen
          <6> HIDE DEF before
          <6> QED
            BY <2>3, <3>2, <4>0, <6>1 DEF before
        <5>3. (j - 1) \div MsgLen = Front - 1 /\ (j - 1) % MsgLen = Counted + t - 1
          BY <5>1, <5>2, Place
        <5> QED
          BY <2>3, <4>0, <5>3 DEF Msgs
      <4>4. ASSUME ~wire'[j].right
            PROVE  /\ kind # "err"
                   /\ \A i \in 1 .. j - 1 : wire'[i].m = wire'[j].m => ~wire'[i].right
        <5>1. ~right
          BY <4>0, <4>4
        <5>2. ~op.alive
          <6>1. op.len >= 0
            BY <2>3, <2>6
          <6> QED
            BY <1>1, <5>1, <6>1
        <5>3. kind # "err" /\ Counted = 0
          BY <2>3, <5>2
        <5>4. ASSUME NEW i \in 1 .. j - 1, wire'[i].m = wire'[j].m
              PROVE  ~wire'[i].right
          <6>1. CASE i \in DOMAIN wire /\ wire'[i] = wire[i]
            <7>1. ~(wire[i].m < Front) /\ wire[i].i \notin 1 .. Counted
              BY <2>3, <4>0, <5>3, <5>4, <6>1 DEF Msgs
            <7> QED
              BY <2>12, <6>1, <7>1
          <6>2. ASSUME NEW s \in 1 .. k, wire'[i] = more[s]
                PROVE  ~wire'[i].right
            BY <2>11, <5>1, <6>2
          <6> QED
            BY <4>1, <6>1, <6>2
        <5> QED
          BY <5>3, <5>4
      <4> QED
        BY <4>2, <4>3, <4>4
    <3> QED
      BY <2>10, <3>1, <3>2
  <2> QED
    BY <2>8, <2>9, <2>14, <2>15 DEF Core
<1> QED
  BY <1>10, <1>11, <1>12 DEF AInv

\* The write under way ends in an error: nothing goes out.
LEMMA WriteFailsStep ==
  ASSUME AInv, WriteFails
  PROVE  AInv'
<1> DEFINE op == Head(ops)
           heard == [ec |-> TRUE, n |-> 0, mine |-> op.mine]
<1>1. /\ conn = "down" /\ ops # <<>> /\ ops' = Tail(ops) /\ done' = Append(done, heard)
      /\ UNCHANGED <<kind, conn, called, node, queue, cur, pending, wire, overlap, failed,
                     reading>>
  BY DEF WriteFails
<1>2. /\ op \in Ops /\ op = ops[1] /\ ops' \in Seq(Ops) /\ Len(ops') = Len(ops) - 1
      /\ ops \in Seq(Ops) /\ Len(ops) \in Nat \ {0}
  <2>1. ops \in Seq(Ops)
    BY DEF AInv, Shapes
  <2>2. Len(ops) \in Nat \ {0}
    BY <1>1, <2>1, EmptySeq
  <2> QED
    BY <1>1, <2>1, <2>2, HeadTailProperties
<1> HIDE DEF op
<1>3. heard \in Dones /\ heard.ec /\ heard.n = 0 /\ heard.mine = op.mine
  BY <1>2 DEF Dones, Ops
<1> HIDE DEF heard
<1>4. /\ done \in Seq(Dones) /\ done' \in Seq(Dones) /\ Len(done') = Len(done) + 1
      /\ \A j \in DOMAIN done' : done'[j] = heard \/ (j \in DOMAIN done /\ done'[j] = done[j])
      /\ done' # <<>>
  <2>1. done \in Seq(Dones)
    BY DEF AInv, Shapes
  <2> QED
    BY <1>1, <1>3, <2>1
<1>5. TypeOK'
  <2>1. Len(ops') + Len(done') = Len(ops) + Len(done)
    BY <1>2, <1>4
  <2> QED
    BY <1>1, <2>1 DEF AInv, TypeOK, reading
<1>6. Shapes'
  <2>1. Busy /\ Busy'
    BY <1>1, <1>4 DEF Busy
  <2>2. \A j \in DOMAIN done' : done'[j].ec => conn' = "down" /\ done'[j].n = 0
    BY <1>1, <1>3, <1>4 DEF AInv, Shapes
  <2> QED
    BY <1>1, <1>2, <1>4, <2>1, <2>2 DEF AInv, Shapes
<1>7. ASSUME ~overlap'
      PROVE  Core'
  <2>1. Core
    BY <1>1, <1>7 DEF AInv
  <2>2. ops' = <<>> /\ done = <<>> /\ done'[1] = heard /\ Busy /\ Busy'
    <3>1. Len(ops) + Len(done) <= 1 /\ Len(done) \in Nat
      BY <1>4, <2>1 DEF Core, OneOp
    <3>2. Len(ops') = 0 /\ Len(done) = 0
      BY <1>2, <3>1
    <3>3. ops' = <<>> /\ done = <<>>
      BY <1>2, <1>4, <3>2, EmptySeq
    <3> QED
      BY <1>1, <1>4, <3>3 DEF Busy
  <2>3. /\ Front <= called /\ Counted \in Nat /\ Counted < MsgLen /\ op.mine = Front
        /\ MsgLen \in Nat
    BY <1>1, <1>2, <2>1, <2>2, FrontFacts DEF AInv, Core, OneOp
  <2>4. Front' = Front /\ Counted' = Counted
    <3>1. Front' = Front
      BY <1>1, <2>2 DEF Front
    <3> HIDE DEF Front
    <3> QED
      BY <1>1, <3>1 DEF Counted
  <2>5. Unheard = 0 /\ Unheard' = 0
    BY <1>3, <1>4, <2>2 DEF Unheard
  <2> HIDE DEF Front, Counted, Unheard
  <2>6. Consecutive' /\ Untouched'
    BY <1>1, <2>1, <2>4 DEF Core, Consecutive, Untouched
  <2>7. OneOp'
    <3>1. Len(ops') + Len(done') <= 1
      <4>1. Len(ops) + Len(done) <= 1
        BY <2>1 DEF Core, OneOp
      <4> QED
        BY <1>2, <1>4, <4>1
    <3>2. Front' <= called' /\ Counted' < MsgLen
      BY <1>1, <2>3, <2>4
    <3>3. done'[1].mine = Front' /\ done'[1].n <= MsgLen - Counted' /\ done'[1].ec
      BY <1>3, <2>2, <2>3, <2>4
    <3> QED
      BY <2>2, <3>1, <3>2, <3>3 DEF OneOp
  <2>8. Reached' /\ OrderKept'
    BY <1>1, <2>1, <2>4, <2>5 DEF Core, Reached, OrderKept
  <2> QED
    BY <2>6, <2>7, <2>8 DEF Core
<1> QED
  BY <1>5, <1>6, <1>7 DEF AInv

\* The reads, the connection.
LEMMA OtherStep ==
  ASSUME AInv, ConnectSession \/ PeerGoes \/ ReadFromSocket \/ ReadCompletes
  PROVE  AInv'
<1>1. UNCHANGED <<kind, writing>> /\ (conn = "down" => conn' = "down")
  BY DEF ConnectSession, PeerGoes, ReadFromSocket, ReadCompletes, ReadCallBack
<1>2. /\ conn' \in {"new", "up", "down"} /\ recv_pending' \in BOOLEAN
      /\ got' \in 0 .. RECVSIZE /\ arrived' \in 0 .. MaxBytes
  <2>1. /\ conn \in {"new", "up", "down"} /\ recv_pending \in BOOLEAN
        /\ got \in 0 .. RECVSIZE /\ arrived \in 0 .. MaxBytes
    BY DEF AInv, TypeOK
  <2>2. CASE ConnectSession
    BY <2>1, <2>2 DEF ConnectSession, reading
  <2>3. CASE PeerGoes
    BY <2>1, <2>3 DEF PeerGoes, reading
  <2>4. CASE ReadFromSocket
    BY <2>1, <2>4, ApiSizesAssumption DEF ReadFromSocket
  <2>5. CASE ReadCompletes
    <3>1. PICK n \in Nat : n <= RECVSIZE - got /\ arrived + n <= MaxBytes /\ ReadCallBack(n)
      <4>1. CASE \E n \in 1 .. RECVSIZE - got : arrived + n <= MaxBytes /\ ReadCallBack(n)
        BY <2>1, <4>1, ApiSizesAssumption
      <4>2. CASE ReadCallBack(0)
        BY <2>1, <4>2, ApiSizesAssumption
      <4> QED
        BY <2>5, <4>1, <4>2 DEF ReadCompletes
    <3>2. got' = got + n /\ arrived' = arrived + n /\ conn' = conn
          /\ recv_pending' \in BOOLEAN
      BY <3>1 DEF ReadCallBack
    <3>3. got + n \in 0 .. RECVSIZE /\ arrived + n \in 0 .. MaxBytes
      BY <2>1, <3>1, ApiSizesAssumption
    <3> QED
      BY <2>1, <3>2, <3>3
  <2> QED
    BY <2>2, <2>3, <2>4, <2>5
<1>3. TypeOK'
  BY <1>1, <1>2 DEF AInv, TypeOK, writing
<1> QED
  BY <1>1, <1>3, WritingKept

LEMMA NextAInv ==
  ASSUME AInv, [ApiNext]_apiVars
  PROVE  AInv'
<1>1. CASE WriteToSocketErr
  BY <1>1, ErrStep
<1>2. CASE WriteToSocket \/ WriteAllToSocket
  BY <1>2, EnqueueStep DEF WriteToSocket, WriteAllToSocket
<1>3. CASE WriteCallBack
  BY <1>3, WriteErrStep, WrietStep, WriteAllStep, WriteErrorStep DEF WriteCallBack
<1>4. CASE WriteCompletes
  BY <1>4, TransferStep, WriteFailsStep DEF WriteCompletes
<1>5. CASE ConnectSession \/ PeerGoes \/ ReadFromSocket \/ ReadAllFromSocket \/ ReadCompletes
  BY <1>5, OtherStep DEF ReadAllFromSocket
<1>6. CASE UNCHANGED apiVars
  <2>1. UNCHANGED <<kind, writing>> /\ conn' = conn /\ TypeOK'
    BY <1>6 DEF apiVars, writing, reading, AInv, TypeOK
  <2> QED
    BY <2>1, WritingKept
<1> QED
  BY <1>1, <1>2, <1>3, <1>4, <1>5, <1>6 DEF ApiNext

-----------------------------------------------------------------------------
\* The state is well formed, and _send_pending (Session.h) means what its
\* name says, however many messages of whatever length the owner writes and
\* wherever the peer leaves.
THEOREM TypeCorrect == ApiSafeSpec => []TypeOK
<1>1. ApiInit => AInv
  BY InitAInv
<1>2. AInv /\ [ApiNext]_apiVars => AInv'
  BY NextAInv
<1>3. AInv => TypeOK
  BY DEF AInv
<1> QED
  BY <1>1, <1>2, <1>3, PTL DEF ApiSafeSpec

\* The call backs of the three generations (Session.cpp) put the messages on
\* the wire in the order of the calls and byte by byte; "all" may leave out
\* the end of a message, the first bytes of a burst may be wrong in the two
\* queues, and the node of "err" keeps order until a message overlaps.
THEOREM OrderedOut == ApiSafeSpec => []OrderKept
<1>1. ApiInit => AInv
  BY InitAInv
<1>2. AInv /\ [ApiNext]_apiVars => AInv'
  BY NextAInv
<1>3. AInv => OrderKept
  <2>1. ASSUME AInv, overlap
        PROVE  OrderKept
    BY <2>1 DEF OrderKept
  <2>2. ASSUME AInv, ~overlap
        PROVE  OrderKept
    BY <2>2 DEF AInv, Core
  <2> QED
    BY <2>1, <2>2
<1> QED
  BY <1>1, <1>2, <1>3, PTL DEF ApiSafeSpec

-----------------------------------------------------------------------------
(* The reads.                                                              *)

\* What arrived is full nodes and what the current node holds.
RInv == /\ TypeOK
        /\ IF recv_pending THEN got < RECVSIZE ELSE got \in {0, RECVSIZE}
        /\ \E q \in Nat : arrived = q * RECVSIZE + got

LEMMA WholeNodes ==
  ASSUME NEW q \in Nat
  PROVE  (q * RECVSIZE) % RECVSIZE = 0 /\ (q * RECVSIZE + RECVSIZE) % RECVSIZE = 0
BY ApiSizesAssumption

\* A read starts an empty node, or adds to the one it has.
LEMMA ReadStep ==
  ASSUME RInv, TypeOK', ReadFromSocket \/ ReadCompletes
  PROVE  RInv'
<1>1. PICK q \in Nat : arrived = q * RECVSIZE + got
  BY DEF RInv
<1>2. got \in Nat /\ RECVSIZE \in Nat /\ RECVSIZE >= 1 /\ q * RECVSIZE \in Nat
  BY ApiSizesAssumption DEF RInv, TypeOK
<1>3. CASE ReadFromSocket
  <2>1. got \in {0, RECVSIZE} /\ got' = 0 /\ arrived' = arrived /\ recv_pending'
    BY <1>3 DEF ReadFromSocket, RInv
  <2>2. \E p \in Nat : arrived = p * RECVSIZE
    <3>1. CASE got = 0
      BY <1>1, <1>2, <3>1
    <3>2. CASE got = RECVSIZE
      <4>1. q * RECVSIZE + RECVSIZE = (q + 1) * RECVSIZE /\ q + 1 \in Nat
        BY <1>2
      <4> QED
        BY <1>1, <3>2, <4>1
    <3> QED
      BY <2>1, <3>1, <3>2
  <2>3. PICK p \in Nat : arrived = p * RECVSIZE
    BY <2>2
  <2>4. arrived' = p * RECVSIZE + got'
    BY <1>2, <2>1, <2>3
  <2> QED
    BY <1>2, <2>1, <2>4 DEF RInv
<1>4. CASE ReadCompletes
  <2>1. PICK n \in Nat : n <= RECVSIZE - got /\ ReadCallBack(n)
    <3>1. CASE \E n \in 1 .. RECVSIZE - got : ReadCallBack(n)
      BY <1>2, <3>1
    <3>2. CASE ReadCallBack(0)
      <4>1. 0 <= RECVSIZE - got
        BY <1>2 DEF RInv, TypeOK
      <4> QED
        BY <3>2, <4>1
    <3> QED
      BY <1>4, <3>1, <3>2 DEF ReadCompletes
  <2>2. got' = got + n /\ arrived' = arrived + n /\ recv_pending' = (got' < RECVSIZE)
    BY <2>1 DEF ReadCallBack
  <2>3. got + n <= RECVSIZE
    BY <1>2, <2>1
  <2>4. IF recv_pending' THEN got' < RECVSIZE ELSE got' \in {0, RECVSIZE}
    <3>1. CASE got' < RECVSIZE
      BY <2>2, <3>1
    <3>2. CASE ~(got' < RECVSIZE)
      <4>1. got' = RECVSIZE
        BY <1>2, <2>2, <2>3, <3>2
      <4> QED
        BY <2>2, <3>2, <4>1
    <3> QED
      BY <3>1, <3>2
  <2>5. arrived' = q * RECVSIZE + got'
    <3> DEFINE before == q * RECVSIZE
    <3> HIDE DEF before
    <3> QED
      BY <1>1, <1>2, <2>2 DEF before
  <2> QED
    BY <2>4, <2>5 DEF RInv
<1> QED
  BY <1>3, <1>4

\* The reads of either kind (ReadCallBack, Session.cpp:115): where none is
\* pending, what arrived is a number of whole nodes, for nodes of any size.
THEOREM ReadsFill == ApiSafeSpec => []ReadsWhole
<1>1. TypeOK /\ ApiInit => RInv
  <2>1. ASSUME TypeOK, ApiInit
        PROVE  RInv
    <3>1. ~recv_pending /\ got = 0 /\ arrived = 0
      BY <2>1 DEF ApiInit
    <3>2. arrived = 0 * RECVSIZE + got
      BY <3>1, ApiSizesAssumption
    <3> QED
      BY <2>1, <3>1, <3>2 DEF RInv
  <2> QED
    BY <2>1
<1>2. RInv /\ TypeOK' /\ [ApiNext]_apiVars => RInv'
  <2>1. ASSUME RInv, TypeOK', [ApiNext]_apiVars
        PROVE  RInv'
    <3>1. CASE ReadFromSocket \/ ReadAllFromSocket \/ ReadCompletes
      BY <2>1, <3>1, ReadStep DEF ReadAllFromSocket
    <3>2. CASE ~(ReadFromSocket \/ ReadAllFromSocket \/ ReadCompletes)
      <4>1. UNCHANGED reading
        BY <2>1, <3>2
           DEF ApiNext, ConnectSession, WriteToSocketErr, WriteToSocket, WriteAllToSocket, Enqueue,
               WriteCallBack, WriteCallBackErr, WrietCallBack, WriteAllCallBack, WriteError,
               WriteCompletes, Transfer, WriteFails, PeerGoes, apiVars
      <4> QED
        BY <2>1, <4>1 DEF RInv, reading
    <3> QED
      BY <3>1, <3>2
  <2> QED
    BY <2>1
<1>3. RInv => ReadsWhole
  <2>1. ASSUME RInv, ~recv_pending
        PROVE  arrived % RECVSIZE = 0
    <3>1. PICK q \in Nat : arrived = q * RECVSIZE + got
      BY <2>1 DEF RInv
    <3>2. q * RECVSIZE + 0 = q * RECVSIZE
      BY ApiSizesAssumption
    <3>3. got \in {0, RECVSIZE}
      BY <2>1 DEF RInv
    <3> QED
      BY <3>1, <3>2, <3>3, WholeNodes
  <2> QED
    BY <2>1 DEF ReadsWhole
<1> QED
  BY <1>1, <1>2, <1>3, TypeCorrect, PTL DEF ApiSafeSpec
===============================================================================
