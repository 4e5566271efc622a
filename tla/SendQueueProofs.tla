-------------------------- MODULE SendQueueProofs --------------------------
(***************************************************************************)
(* Theorems about the output side of a session, for any senders, messages  *)
(* and limit.                                                              *)
(***************************************************************************)
EXTENDS SendQueue, SequenceTheorems, TLAPS

\* How many of the accepted messages were popped.
popped == Len(accepted) - Len(send_que)

Types == QueueTypeOK /\ pc["io"] # "sized"

\* The size a sender has read is still the size of the queue.
SizeFresh == \A s \in Senders : pc[s] = "sized" => size[s] = Len(send_que)

\* The queue holds the last of the accepted messages.
Suffix == /\ popped \in Nat
          /\ \A i \in 1 .. Len(send_que) : send_que[i] = accepted[popped + i]

\* OneWriter, with at most one element in writes and done said as such.
Writer ==
  /\ \A t, u \in Starting : t = u
  /\ Len(writes) <= 1 /\ Len(done) <= 1
  /\ writes = <<>> \/ done = <<>>
  /\ Starting # {} => writes = <<>> /\ done = <<>>
  /\ send_que = <<>> => Starting = {} /\ writes = <<>> /\ done = <<>>
  /\ socket = "open" /\ send_que # <<>> =>
       Starting # {} \/ writes # <<>> \/ done # <<>>
  /\ done # <<>> /\ done[1] = "error" => socket # "open"

AtFront ==
  /\ writes # <<>> => writes[1].msg = send_que[1]
  /\ \A t \in Starting : node[t] = send_que[1]

\* How far the output is: two pieces for each message popped, and what went
\* out of the front one.
Progress ==
  /\ Len(wire) >= 2 * popped
  /\ Starting # {} \/ send_que = <<>> => Len(wire) = 2 * popped
  /\ writes # <<>> => Len(wire) = 2 * popped + writes[1].pieces
  /\ done # <<>> /\ done[1] = "ok" => Len(wire) = 2 * popped + 2

QInv == /\ Types /\ SizeFresh /\ Suffix /\ Writer /\ AtFront /\ Progress
        /\ FramesInOrder /\ Bounded

-----------------------------------------------------------------------------
LEMMA RemoveOnly ==
  ASSUME NEW S, NEW seq \in Seq(S), Len(seq) = 1
  PROVE  RemoveAt(seq, 1) = <<>>
BY DEF RemoveAt

\* writes and done are such sequences.
LEMMA OneElement ==
  ASSUME NEW S, NEW seq \in Seq(S), Len(seq) <= 1, seq # <<>>
  PROVE  /\ Len(seq) = 1 /\ DOMAIN seq = {1} /\ seq[1] \in S
         /\ Tail(seq) = <<>>
<1>1. Len(seq) = 1
  <2>1. Len(seq) \in Nat \ {0}
    BY EmptySeq
  <2> QED
    BY <2>1
<1>2. DOMAIN seq = {1} /\ seq[1] \in S
  BY <1>1
<1>3. Tail(seq) = <<>>
  <2>1. Tail(seq) \in Seq(S) /\ Len(Tail(seq)) = 0
    BY <1>1, HeadTailProperties
  <2> QED
    BY <2>1, EmptySeq
<1> QED
  BY <1>1, <1>2, <1>3

LEMMA QInvInit == QueueInit => QInv
<1> SUFFICES ASSUME QueueInit PROVE QInv
  OBVIOUS
<1>1. Types
  BY SendersAssumption, MsgsAssumption DEF QueueInit, Types, QueueTypeOK, Threads
<1>2. popped = 0
  BY DEF QueueInit, popped
<1>3. Starting = {}
  BY DEF QueueInit, Starting, Threads
<1>4. SizeFresh /\ Suffix
  BY <1>2 DEF QueueInit, SizeFresh, Suffix, Threads
<1>5. Writer /\ AtFront
  BY <1>3 DEF QueueInit, Writer, AtFront
<1>6. Progress
  BY <1>2, <1>3 DEF QueueInit, Progress
<1>7. FramesInOrder /\ Bounded
  BY MaxAssumption DEF QueueInit, FramesInOrder, Bounded
<1> QED
  BY <1>1, <1>4, <1>5, <1>6, <1>7 DEF QInv

\* What the two halves of QInv about queue and output say is not disturbed by
\* a step that leaves the queue and the history of both alone.
LEMMA QueueKept ==
  ASSUME QInv, UNCHANGED <<send_que, accepted, wire>>
  PROVE  Suffix' /\ FramesInOrder' /\ Bounded' /\ popped' = popped
BY DEF QInv, Suffix, FramesInOrder, Bounded, popped

LEMMA SendEnterStep ==
  ASSUME QInv, NEW s \in Senders, NEW m \in Msgs, SendEnter(s, m)
  PROVE  QInv'
<1>1. /\ pc[s] = "idle" /\ send_lock = "free" /\ send_lock' = s
      /\ size' = [size EXCEPT ![s] = Len(send_que)]
      /\ node' = [node EXCEPT ![s] = m] /\ pc' = [pc EXCEPT ![s] = "sized"]
      /\ todo' = todo \ {m}
      /\ UNCHANGED <<send_que, writes, done, socket, accepted, wire>>
  BY DEF SendEnter
<1>2. /\ pc \in [Threads -> {"idle", "sized", "write"}]
      /\ node \in [Threads -> Msgs \cup {"none"}]
      /\ size \in [Senders -> Nat] /\ send_que \in Seq(Msgs)
      /\ s \in Threads /\ s # "io" /\ m # "none"
  BY SendersAssumption, MsgsAssumption DEF QInv, Types, QueueTypeOK, Threads
<1>3. Types'
  <2>1. /\ \A t \in Threads : pc'[t] = "idle" <=> node'[t] = "none"
        /\ \A t \in Senders : pc'[t] = "sized" <=> send_lock' = t
    BY <1>1, <1>2, SendersAssumption DEF QInv, Types, QueueTypeOK, Threads
  <2>2. /\ pc' \in [Threads -> {"idle", "sized", "write"}]
        /\ node' \in [Threads -> Msgs \cup {"none"}]
        /\ size' \in [Senders -> Nat] /\ pc'["io"] # "sized"
        /\ send_lock' \in Senders \cup {"free"} /\ todo' \subseteq Msgs
    BY <1>1, <1>2 DEF QInv, Types, QueueTypeOK, Threads
  <2> QED
    BY <1>1, <2>1, <2>2 DEF QInv, Types, QueueTypeOK
<1>4. Starting' = Starting /\ \A t \in Starting : node'[t] = node[t]
  BY <1>1, <1>2 DEF Starting
<1>5. SizeFresh'
  BY <1>1, <1>2 DEF QInv, SizeFresh, Types, Threads
<1>6. Suffix' /\ FramesInOrder' /\ Bounded' /\ popped' = popped
  BY <1>1, QueueKept
<1>7. Writer' /\ AtFront' /\ Progress'
  BY <1>1, <1>4, <1>6 DEF QInv, Writer, AtFront, Progress
<1> QED
  BY <1>3, <1>5, <1>6, <1>7 DEF QInv

LEMMA SendDropStep ==
  ASSUME QInv, NEW s \in Senders, SendDrop(s)
  PROVE  QInv'
<1>1. /\ pc[s] = "sized" /\ send_lock' = "free"
      /\ node' = [node EXCEPT ![s] = "none"] /\ pc' = [pc EXCEPT ![s] = "idle"]
      /\ UNCHANGED <<send_que, size, writes, done, socket, todo, accepted, wire>>
  BY DEF SendDrop
<1>2. /\ pc \in [Threads -> {"idle", "sized", "write"}]
      /\ node \in [Threads -> Msgs \cup {"none"}]
      /\ s \in Threads /\ s # "io" /\ send_lock = s
  BY <1>1, SendersAssumption DEF QInv, Types, QueueTypeOK, Threads
<1>3. Types'
  <2>1. /\ \A t \in Threads : pc'[t] = "idle" <=> node'[t] = "none"
        /\ \A t \in Senders : pc'[t] = "sized" <=> send_lock' = t
    BY <1>1, <1>2, SendersAssumption DEF QInv, Types, QueueTypeOK, Threads
  <2>2. /\ pc' \in [Threads -> {"idle", "sized", "write"}]
        /\ node' \in [Threads -> Msgs \cup {"none"}] /\ pc'["io"] # "sized"
    BY <1>1, <1>2 DEF QInv, Types, Threads
  <2> QED
    BY <1>1, <2>1, <2>2 DEF QInv, Types, QueueTypeOK
<1>4. Starting' = Starting /\ \A t \in Starting : node'[t] = node[t]
  BY <1>1, <1>2 DEF Starting
<1>5. SizeFresh'
  BY <1>1, <1>2 DEF QInv, SizeFresh, Types, Threads
<1>6. Suffix' /\ FramesInOrder' /\ Bounded' /\ popped' = popped
  BY <1>1, QueueKept
<1>7. Writer' /\ AtFront' /\ Progress'
  BY <1>1, <1>4, <1>6 DEF QInv, Writer, AtFront, Progress
<1> QED
  BY <1>3, <1>5, <1>6, <1>7 DEF QInv

LEMMA SendPushStep ==
  ASSUME QInv, NEW s \in Senders, SendPush(s)
  PROVE  QInv'
<1>1. /\ pc[s] = "sized" /\ size[s] <= MAX_SENDQUE /\ send_lock' = "free"
      /\ send_que' = Append(send_que, node[s])
      /\ accepted' = Append(accepted, node[s])
      /\ node' = [node EXCEPT ![s] = IF size[s] > 0 THEN "none"
                                                    ELSE Head(send_que')]
      /\ pc' = [pc EXCEPT ![s] = IF size[s] > 0 THEN "idle" ELSE "write"]
      /\ UNCHANGED <<size, writes, done, socket, todo, wire>>
  BY DEF SendPush
<1>2. /\ pc \in [Threads -> {"idle", "sized", "write"}]
      /\ node \in [Threads -> Msgs \cup {"none"}]
      /\ s \in Threads /\ s # "io" /\ send_lock = s
      /\ node[s] \in Msgs /\ node[s] # "none"
      /\ send_que \in Seq(Msgs) /\ accepted \in Seq(Msgs)
      /\ size[s] = Len(send_que) /\ MAX_SENDQUE \in Nat
  BY <1>1, SendersAssumption, MsgsAssumption, MaxAssumption
     DEF QInv, Types, QueueTypeOK, SizeFresh, Threads
<1>3. /\ send_que' \in Seq(Msgs) /\ accepted' \in Seq(Msgs)
      /\ Len(send_que') = Len(send_que) + 1
      /\ Len(accepted') = Len(accepted) + 1
      /\ popped' = popped /\ popped \in Nat /\ send_que' # <<>>
  BY <1>1, <1>2 DEF QInv, Suffix, popped
<1>4. /\ send_que # <<>> => send_que'[1] = send_que[1]
      /\ send_que = <<>> => send_que'[1] = node[s] /\ size[s] = 0
      /\ send_que # <<>> => size[s] > 0
      /\ Head(send_que') = send_que'[1]
  BY <1>1, <1>2, <1>3
<1>5. Types'
  <2>1. Head(send_que') \in Msgs
    BY <1>3
  <2>2. /\ pc' \in [Threads -> {"idle", "sized", "write"}]
        /\ node' \in [Threads -> Msgs \cup {"none"}] /\ pc'["io"] # "sized"
    BY <1>1, <1>2, <2>1 DEF QInv, Types, Threads
  <2>3. /\ \A t \in Threads : pc'[t] = "idle" <=> node'[t] = "none"
        /\ \A t \in Senders : pc'[t] = "sized" <=> send_lock' = t
    BY <1>1, <1>2, <2>1, SendersAssumption, MsgsAssumption
       DEF QInv, Types, QueueTypeOK, Threads
  <2> QED
    BY <1>1, <1>3, <2>2, <2>3 DEF QInv, Types, QueueTypeOK
<1>6. SizeFresh'
  BY <1>1, <1>2 DEF QInv, SizeFresh, Types, QueueTypeOK, Threads
<1>7. Suffix'
  <2>1. \A i \in 1 .. Len(send_que') : send_que'[i] = accepted'[popped + i]
    <3> TAKE i \in 1 .. Len(send_que')
    <3>1. CASE i = Len(send_que) + 1
      BY <1>1, <1>2, <1>3, <3>1 DEF popped
    <3>2. CASE i # Len(send_que) + 1
      <4>1. i \in 1 .. Len(send_que) /\ popped + i \in 1 .. Len(accepted)
        BY <1>2, <1>3, <3>2 DEF popped
      <4> QED
        BY <1>1, <1>2, <4>1 DEF QInv, Suffix
    <3> QED
      BY <3>1, <3>2
  <2> HIDE DEF popped
  <2> QED
    BY <1>3, <2>1 DEF Suffix
<1>8. Bounded'
  BY <1>1, <1>2, <1>3 DEF Bounded
<1>9. CASE send_que = <<>>
  <2>1. /\ Starting = {} /\ writes = <<>> /\ done = <<>>
        /\ Len(wire) = 2 * popped
    BY <1>9 DEF QInv, Writer, Progress
  <2>2. Starting' = {s} /\ node'[s] = send_que'[1]
    BY <1>1, <1>2, <1>4, <1>9, <2>1 DEF Starting
  <2>3. Writer' /\ AtFront' /\ Progress'
    BY <1>1, <1>3, <2>1, <2>2 DEF Writer, AtFront, Progress
  <2>4. FramesInOrder'
    BY <1>1, <1>2 DEF QInv, FramesInOrder
  <2> QED
    BY <1>5, <1>6, <1>7, <1>8, <2>3, <2>4 DEF QInv
<1>10. CASE send_que # <<>>
  <2>1. Starting' = Starting /\ \A t \in Starting : node'[t] = node[t]
    BY <1>1, <1>2, <1>4, <1>10 DEF Starting
  <2>2. Writer' /\ AtFront' /\ Progress'
    BY <1>1, <1>3, <1>4, <1>10, <2>1 DEF QInv, Writer, AtFront, Progress
  <2>3. FramesInOrder'
    BY <1>1, <1>2 DEF QInv, FramesInOrder
  <2> QED
    BY <1>5, <1>6, <1>7, <1>8, <2>2, <2>3 DEF QInv
<1> QED
  BY <1>9, <1>10

LEMMA StartWriteStep ==
  ASSUME QInv, NEW t \in Threads, StartWrite(t)
  PROVE  QInv'
<1>1. /\ pc[t] = "write"
      /\ writes' = Append(writes, [msg |-> node[t], pieces |-> 0])
      /\ node' = [node EXCEPT ![t] = "none"] /\ pc' = [pc EXCEPT ![t] = "idle"]
      /\ UNCHANGED <<send_que, send_lock, size, done, socket, todo, accepted, wire>>
  BY DEF StartWrite
<1>2. /\ pc \in [Threads -> {"idle", "sized", "write"}]
      /\ node \in [Threads -> Msgs \cup {"none"}] /\ node[t] \in Msgs
  BY <1>1 DEF QInv, Types, QueueTypeOK
<1>3. /\ t \in Starting /\ writes = <<>> /\ done = <<>> /\ send_que # <<>>
      /\ node[t] = send_que[1] /\ Len(wire) = 2 * popped
      /\ \A u \in Starting : u = t
  BY <1>1 DEF QInv, Writer, AtFront, Progress, Starting
<1>4. /\ writes' = <<[msg |-> send_que[1], pieces |-> 0]>>
      /\ Len(writes') = 1 /\ writes' # <<>> /\ Starting' = {}
      /\ writes'[1].msg = send_que[1] /\ writes'[1].pieces = 0
  BY <1>1, <1>2, <1>3 DEF Starting
<1>5. Types'
  <2>1. writes' \in Seq([msg : Msgs, pieces : 0 .. 2])
    BY <1>2, <1>3, <1>4
  <2>2. /\ pc' \in [Threads -> {"idle", "sized", "write"}]
        /\ node' \in [Threads -> Msgs \cup {"none"}] /\ pc'["io"] # "sized"
    BY <1>1, <1>2 DEF QInv, Types, Threads
  <2>3. /\ \A u \in Threads : pc'[u] = "idle" <=> node'[u] = "none"
        /\ \A u \in Senders : pc'[u] = "sized" <=> send_lock' = u
    BY <1>1, <1>2 DEF QInv, Types, QueueTypeOK, Threads
  <2> QED
    BY <1>1, <2>1, <2>2, <2>3 DEF QInv, Types, QueueTypeOK
<1>6. SizeFresh'
  BY <1>1, <1>2 DEF QInv, SizeFresh, Types, QueueTypeOK, Threads
<1>7. Suffix' /\ FramesInOrder' /\ Bounded' /\ popped' = popped
  BY <1>1, QueueKept
<1>8. popped \in Nat
  BY DEF QInv, Suffix
<1>9. Writer' /\ AtFront' /\ Progress'
  BY <1>1, <1>3, <1>4, <1>7, <1>8 DEF Writer, AtFront, Progress
<1> QED
  BY <1>5, <1>6, <1>7, <1>9 DEF QInv

LEMMA HandleWriteOkStep ==
  ASSUME QInv, HandleWriteOk
  PROVE  QInv'
<1>1. /\ pc["io"] = "idle" /\ done # <<>> /\ done[1] = "ok" /\ done' = Tail(done)
      /\ send_lock = "free" /\ send_que' = Tail(send_que)
      /\ pc' = [pc EXCEPT !["io"] = IF send_que' # <<>> THEN "write" ELSE "idle"]
      /\ node' = [node EXCEPT !["io"] = IF send_que' # <<>> THEN Head(send_que')
                                                            ELSE "none"]
      /\ UNCHANGED <<send_lock, size, writes, socket, todo, accepted, wire>>
  BY DEF HandleWriteOk, QInv, Types, QueueTypeOK
<1>2. /\ pc \in [Threads -> {"idle", "sized", "write"}]
      /\ node \in [Threads -> Msgs \cup {"none"}] /\ "io" \in Threads
      /\ done \in Seq({"ok", "error"}) /\ send_que \in Seq(Msgs)
      /\ accepted \in Seq(Msgs)
  BY DEF QInv, Types, QueueTypeOK, Threads
<1>3. /\ writes = <<>> /\ send_que # <<>> /\ Starting = {}
      /\ Len(wire) = 2 * popped + 2
  BY <1>1 DEF QInv, Writer, Progress
<1>4. done' = <<>>
  BY <1>1, <1>2, OneElement DEF QInv, Writer
<1>5. /\ send_que' \in Seq(Msgs) /\ Len(send_que') = Len(send_que) - 1
      /\ \A i \in 1 .. Len(send_que') : send_que'[i] = send_que[i + 1]
      /\ popped' = popped + 1 /\ popped \in Nat /\ popped' \in Nat
  <2>1. send_que' = Tail(send_que) /\ accepted' = accepted
    BY <1>1
  <2>2. /\ send_que' \in Seq(Msgs) /\ Len(send_que') = Len(send_que) - 1
        /\ \A i \in 1 .. Len(send_que') : send_que'[i] = send_que[i + 1]
    BY <1>2, <1>3, <2>1
  <2>3. popped \in Nat
    BY DEF QInv, Suffix, popped
  <2>4. popped' = popped + 1
    BY <1>2, <2>1, <2>2 DEF popped
  <2> QED
    BY <2>2, <2>3, <2>4
<1>6. send_que' # <<>> => Head(send_que') = send_que'[1] /\ send_que'[1] \in Msgs
  BY <1>5
<1>7. Types'
  <2>1. /\ pc' \in [Threads -> {"idle", "sized", "write"}]
        /\ node' \in [Threads -> Msgs \cup {"none"}] /\ pc'["io"] # "sized"
    BY <1>1, <1>2, <1>6
  <2>2. /\ \A t \in Threads : pc'[t] = "idle" <=> node'[t] = "none"
        /\ \A t \in Senders : pc'[t] = "sized" <=> send_lock' = t
    BY <1>1, <1>2, <1>6, SendersAssumption, MsgsAssumption
       DEF QInv, Types, QueueTypeOK, Threads
  <2>3. done' \in Seq({"ok", "error"})
    BY <1>4
  <2> QED
    BY <1>1, <1>5, <2>1, <2>2, <2>3 DEF QInv, Types, QueueTypeOK
<1>8. SizeFresh'
  BY <1>1, <1>2, SendersAssumption DEF QInv, SizeFresh, Types, QueueTypeOK, Threads
<1>9. Suffix'
  <2>1. \A i \in 1 .. Len(send_que') : send_que'[i] = accepted'[popped' + i]
    <3> TAKE i \in 1 .. Len(send_que')
    <3>1. /\ i + 1 \in 1 .. Len(send_que) /\ send_que'[i] = send_que[i + 1]
          /\ popped' + i = popped + (i + 1)
      BY <1>2, <1>3, <1>5
    <3> HIDE DEF popped
    <3> QED
      BY <1>1, <3>1 DEF QInv, Suffix
  <2> QED
    BY <1>5, <2>1 DEF Suffix
<1>10. Bounded' /\ FramesInOrder'
  BY <1>1, <1>2, <1>5, MaxAssumption DEF QInv, Bounded, FramesInOrder
<1>11. Starting' = IF send_que' # <<>> THEN {"io"} ELSE {}
  BY <1>1, <1>2, <1>3 DEF Starting
<1>12. send_que' # <<>> => node'["io"] = send_que'[1]
  BY <1>1, <1>2, <1>6
<1>13. Writer' /\ AtFront' /\ Progress'
  <2>1. /\ writes' = <<>> /\ wire' = wire /\ Starting' \subseteq {"io"}
        /\ send_que' = <<>> => Starting' = {}
        /\ send_que' # <<>> => Starting' = {"io"}
        /\ Len(<<>>) = 0
    BY <1>1, <1>3, <1>11
  <2>2. Writer'
    BY <1>4, <2>1 DEF Writer
  <2>3. AtFront'
    BY <1>12, <2>1 DEF AtFront
  <2>4. Len(wire') = 2 * popped'
    BY <1>3, <1>5, <2>1
  <2>5. Progress'
    <3> HIDE DEF popped
    <3> QED
      BY <1>4, <1>5, <2>1, <2>4 DEF Progress
  <2> QED
    BY <2>2, <2>3, <2>5
<1> QED
  BY <1>7, <1>8, <1>9, <1>10, <1>13 DEF QInv

\* What only concerns the socket: the failed write, Close() and the peer.
LEMMA SocketStep ==
  ASSUME QInv, socket' \in {"broken", "closed"},
         \/ done' = done
         \/ done # <<>> /\ done[1] = "error" /\ done' = Tail(done),
         UNCHANGED <<send_que, send_lock, pc, size, node, writes, todo, accepted, wire>>
  PROVE  QInv'
<1>1. done \in Seq({"ok", "error"}) /\ Len(done) <= 1
  BY DEF QInv, Types, QueueTypeOK, Writer
<1>2. \/ done' = done
      \/ done # <<>> /\ done' = <<>>
  BY <1>1, OneElement
<1>3. Types'
  <2>1. done' \in Seq({"ok", "error"})
    BY <1>1, <1>2
  <2> QED
    BY <2>1 DEF QInv, Types, QueueTypeOK
<1>4. Starting' = Starting /\ SizeFresh'
  BY DEF QInv, Starting, SizeFresh
<1>5. Suffix' /\ FramesInOrder' /\ Bounded' /\ popped' = popped
  BY QueueKept
<1>6. AtFront'
  BY <1>4 DEF QInv, AtFront
<1>7. Writer'
  BY <1>1, <1>2, <1>4 DEF QInv, Writer
<1>8. Progress'
  BY <1>2, <1>4, <1>5 DEF QInv, Progress
<1> QED
  BY <1>3, <1>4, <1>5, <1>6, <1>7, <1>8 DEF QInv

\* The piece that follows the Len(wire) pieces that went out.
LEMMA PieceIndex ==
  ASSUME NEW p \in Nat, NEW c \in {0, 1}
  PROVE  /\ (2 * p + c + 1 + 1) \div 2 = p + 1
         /\ 2 - ((2 * p + c + 1) % 2) = c + 1
<1>1. CASE c = 0
  BY <1>1
<1>2. CASE c = 1
  BY <1>2
<1> QED
  BY <1>1, <1>2

LEMMA WritePieceStep ==
  ASSUME QInv, NEW i \in DOMAIN writes, WritePiece(i)
  PROVE  QInv'
<1>1. /\ writes \in Seq([msg : Msgs, pieces : 0 .. 2]) /\ Len(writes) <= 1
      /\ wire \in Seq(Msgs \X {1, 2}) /\ send_que \in Seq(Msgs)
      /\ accepted \in Seq(Msgs)
  BY DEF QInv, Types, QueueTypeOK, Writer
<1>2. /\ i = 1 /\ Len(writes) = 1 /\ writes # <<>>
      /\ writes[1] \in [msg : Msgs, pieces : 0 .. 2]
  <2>1. writes # <<>>
    BY <1>1
  <2>2. /\ Len(writes) = 1 /\ DOMAIN writes = {1}
        /\ writes[1] \in [msg : Msgs, pieces : 0 .. 2]
    BY <1>1, <2>1, OneElement
  <2> QED
    BY <2>1, <2>2
<1> DEFINE c == writes[1].pieces
<1>3. /\ socket = "open" /\ c < 2 /\ c \in {0, 1}
      /\ writes' = [writes EXCEPT ![1].pieces = c + 1]
      /\ wire' = Append(wire, <<writes[1].msg, c + 1>>)
      /\ UNCHANGED <<send_que, send_lock, pc, size, node, done, socket, todo, accepted>>
  BY <1>2 DEF WritePiece
<1>4. /\ done = <<>> /\ Starting = {} /\ send_que # <<>>
      /\ writes[1].msg = send_que[1] /\ Len(wire) = 2 * popped + c
      /\ popped \in Nat
  BY <1>2 DEF QInv, Writer, AtFront, Progress, Suffix
<1>5. /\ writes' \in Seq([msg : Msgs, pieces : 0 .. 2]) /\ Len(writes') = 1
      /\ writes' # <<>> /\ writes'[1].pieces = c + 1
      /\ writes'[1].msg = send_que[1]
  <2>1. writes' = [writes EXCEPT ![1] = [msg |-> writes[1].msg, pieces |-> c + 1]]
    <3>1. [writes[1] EXCEPT !.pieces = c + 1]
            = [msg |-> writes[1].msg, pieces |-> c + 1]
      BY <1>2
    <3>2. writes' = [writes EXCEPT ![1] = [writes[1] EXCEPT !.pieces = c + 1]]
      BY <1>3
    <3> QED
      BY <3>1, <3>2
  <2>2. [msg |-> writes[1].msg, pieces |-> c + 1] \in [msg : Msgs, pieces : 0 .. 2]
    BY <1>2, <1>3
  <2> HIDE DEF c
  <2> QED
    BY <1>1, <1>2, <1>4, <2>1, <2>2
<1>6. Len(wire') = 2 * popped + (c + 1) /\ wire' \in Seq(Msgs \X {1, 2})
  BY <1>1, <1>2, <1>3, <1>4
<1>7. Types'
  BY <1>3, <1>5, <1>6 DEF QInv, Types, QueueTypeOK
<1>8. Starting' = Starting /\ SizeFresh'
  BY <1>3 DEF QInv, Starting, SizeFresh
<1>9. Suffix' /\ Bounded' /\ popped' = popped
  BY <1>3 DEF QInv, Suffix, Bounded, popped
<1>10. Writer' /\ AtFront' /\ Progress'
  <2> HIDE DEF c, popped
  <2>1. done' = <<>> /\ Starting' = {} /\ send_que' = send_que /\ Len(<<>>) = 0
    BY <1>3, <1>4, <1>8
  <2>2. Writer' /\ AtFront'
    <3>1. Len(writes') <= 1
      BY <1>5
    <3>2. socket' = "open"
      BY <1>2 DEF WritePiece
    <3> QED
      BY <1>4, <1>5, <2>1, <3>1, <3>2 DEF Writer, AtFront
  <2>3. Progress'
    BY <1>3, <1>4, <1>5, <1>6, <1>9, <2>1 DEF Progress
  <2> QED
    BY <2>2, <2>3
<1>11. FramesInOrder'
  <2>1. /\ popped + 1 \in 1 .. Len(accepted)
        /\ accepted[popped + 1] = writes[1].msg
    BY <1>1, <1>4 DEF QInv, Suffix, popped
  <2>2. ASSUME NEW j \in DOMAIN wire'
        PROVE  /\ (j + 1) \div 2 \in DOMAIN accepted'
               /\ wire'[j] = <<accepted'[(j + 1) \div 2], 2 - (j % 2)>>
    <3>1. CASE j \in 1 .. Len(wire)
      <4>1. wire'[j] = wire[j]
        BY <1>1, <1>2, <1>3, <3>1
      <4>2. j \in DOMAIN wire
        BY <1>1, <3>1
      <4> QED
        BY <1>3, <4>1, <4>2 DEF QInv, FramesInOrder
    <3>2. CASE j = Len(wire) + 1
      <4>1. wire'[j] = <<writes[1].msg, c + 1>>
        BY <1>1, <1>2, <1>3, <3>2
      <4>2. j = 2 * popped + c + 1
        BY <1>4, <3>2
      <4>3. (j + 1) \div 2 = popped + 1 /\ 2 - (j % 2) = c + 1
        <5> HIDE DEF c, popped
        <5> QED
          BY <1>3, <1>4, <4>2, PieceIndex
      <4> HIDE DEF c, popped
      <4>4. accepted' = accepted /\ DOMAIN accepted = 1 .. Len(accepted)
        BY <1>1, <1>3
      <4>5. accepted'[popped + 1] = writes[1].msg /\ popped + 1 \in DOMAIN accepted'
        BY <2>1, <4>4
      <4> QED
        BY <4>1, <4>3, <4>5
    <3>3. Len(wire') = Len(wire) + 1
      BY <1>1, <1>2, <1>3
    <3> QED
      BY <1>1, <1>6, <3>1, <3>2, <3>3
  <2> QED
    BY <2>2 DEF FramesInOrder
<1> QED
  BY <1>7, <1>8, <1>9, <1>10, <1>11 DEF QInv

LEMMA WriteCompletesStep ==
  ASSUME QInv, NEW i \in DOMAIN writes, WriteCompletes(i)
  PROVE  QInv'
<1>1. /\ writes \in Seq([msg : Msgs, pieces : 0 .. 2]) /\ Len(writes) <= 1
      /\ done \in Seq({"ok", "error"})
  BY DEF QInv, Types, QueueTypeOK, Writer
<1>2. /\ i = 1 /\ Len(writes) = 1 /\ writes # <<>>
      /\ writes[1] \in [msg : Msgs, pieces : 0 .. 2]
  <2>1. writes # <<>>
    BY <1>1
  <2>2. /\ Len(writes) = 1 /\ DOMAIN writes = {1}
        /\ writes[1] \in [msg : Msgs, pieces : 0 .. 2]
    BY <1>1, <2>1, OneElement
  <2> QED
    BY <2>1, <2>2
<1>3. /\ writes[1].pieces = 2 \/ socket # "open"
      /\ writes' = <<>>
      /\ done' = Append(done, IF writes[1].pieces < 2 THEN "error" ELSE "ok")
      /\ UNCHANGED <<send_que, send_lock, pc, size, node, socket, todo, accepted, wire>>
  <2>1. RemoveAt(writes, 1) = <<>>
    BY <1>1, <1>2, RemoveOnly
  <2> QED
    BY <1>2, <2>1 DEF WriteCompletes
<1>4. /\ done = <<>> /\ Starting = {} /\ send_que # <<>>
      /\ Len(wire) = 2 * popped + writes[1].pieces /\ popped \in Nat
  BY <1>2 DEF QInv, Writer, Progress, Suffix
<1>5. /\ done' = <<IF writes[1].pieces < 2 THEN "error" ELSE "ok">>
      /\ Len(done') = 1 /\ done' # <<>> /\ done' \in Seq({"ok", "error"})
  BY <1>1, <1>3, <1>4
<1>6. done'[1] = IF writes[1].pieces < 2 THEN "error" ELSE "ok"
  BY <1>5
<1>7. Types'
  BY <1>3, <1>5 DEF QInv, Types, QueueTypeOK
<1>8. Starting' = Starting /\ SizeFresh'
  BY <1>3 DEF QInv, Starting, SizeFresh
<1>9. Suffix' /\ FramesInOrder' /\ Bounded' /\ popped' = popped
  BY <1>3, QueueKept
<1>10. Writer' /\ AtFront' /\ Progress'
  <2>1. writes[1].pieces < 2 \/ writes[1].pieces = 2
    BY <1>2
  <2> HIDE DEF popped
  <2> QED
    BY <1>2, <1>3, <1>4, <1>5, <1>6, <1>8, <1>9, <2>1
       DEF Writer, AtFront, Progress
<1> QED
  BY <1>7, <1>8, <1>9, <1>10 DEF QInv

\* One step per action: the session keeps the invariant.
LEMMA QInvNext == QInv /\ [QueueNext]_queueVars => QInv'
<1> SUFFICES ASSUME QInv, [QueueNext]_queueVars PROVE QInv'
  OBVIOUS
<1>1. ASSUME NEW s \in Senders, Send(s) PROVE QInv'
  BY <1>1, SendEnterStep, SendDropStep, SendPushStep DEF Send
<1>2. ASSUME NEW t \in Threads, StartWrite(t) PROVE QInv'
  BY <1>2, StartWriteStep
<1>3. CASE HandleWrite
  <2>1. CASE HandleWriteOk
    BY <2>1, HandleWriteOkStep
  <2>2. CASE HandleWriteError
    <3>1. Head(done) = done[1]
      BY <2>2 DEF HandleWriteError, QInv, Types, QueueTypeOK
    <3> QED
      BY <2>2, <3>1, SocketStep DEF HandleWriteError
  <2> QED
    BY <1>3, <2>1, <2>2 DEF HandleWrite
<1>4. CASE AsyncWrite
  BY <1>4, WritePieceStep, WriteCompletesStep DEF AsyncWrite
<1>5. CASE ReaderClose
  BY <1>5, SocketStep DEF ReaderClose
<1>6. CASE PeerBreaks
  BY <1>6, SocketStep DEF PeerBreaks
<1>7. CASE UNCHANGED queueVars
  <2>1. popped' = popped /\ Starting' = Starting
    BY <1>7 DEF queueVars, popped, Starting
  <2>2. Types' /\ Suffix' /\ Bounded'
    BY <1>7, <2>1 DEF queueVars, QInv, Types, QueueTypeOK, Suffix, Bounded
  <2>3. SizeFresh'
    BY <1>7 DEF queueVars, QInv, SizeFresh
  <2>4. Writer' /\ AtFront'
    BY <1>7, <2>1 DEF queueVars, QInv, Writer, AtFront
  <2>5. Progress' /\ FramesInOrder'
    BY <1>7, <2>1 DEF queueVars, QInv, Progress, FramesInOrder
  <2> QED
    BY <2>2, <2>3, <2>4, <2>5 DEF QInv
<1> QED
  BY <1>1, <1>2, <1>3, <1>4, <1>5, <1>6, <1>7 DEF QueueNext

THEOREM QueueInvariant == QueueSafeSpec => []QInv
<1> QED
  BY QInvInit, QInvNext, PTL DEF QueueSafeSpec

-----------------------------------------------------------------------------
THEOREM TypeCorrect == QueueSafeSpec => []QueueTypeOK
<1>1. QInv => QueueTypeOK
  BY DEF QInv, Types
<1> QED
  BY <1>1, QueueInvariant, PTL

\* At most one write is under way on the socket, and as long as the
\* connection is up one is under way whenever the queue is not empty.
THEOREM WritesOneByOne == QueueSafeSpec => []OneWriter
<1>1. QInv => OneWriter
  <2> SUFFICES ASSUME QInv PROVE OneWriter
    OBVIOUS
  <2>1. writes \in Seq([msg : Msgs, pieces : 0 .. 2]) /\ done \in Seq({"ok", "error"})
    BY DEF QInv, Types, QueueTypeOK
  <2>2. writes = <<>> <=> Running = {}
    BY <2>1, EmptySeq, LenProperties DEF Running
  <2>3. Len(writes) + Len(done) <= 1
    BY <2>1 DEF QInv, Writer
  <2>4. done # <<>> /\ socket = "open" => Completed # {}
    <3> SUFFICES ASSUME done # <<>>, socket = "open" PROVE 1 \in Completed
      OBVIOUS
    <3>1. DOMAIN done = {1} /\ done[1] \in {"ok", "error"}
      BY <2>1, OneElement DEF QInv, Writer
    <3> QED
      BY <3>1 DEF QInv, Writer, Completed
  <2> QED
    BY <2>2, <2>3, <2>4 DEF QInv, Writer, OneWriter
<1> QED
  BY <1>1, QueueInvariant, PTL

\* The node whose buffer a write uses is at the front of the queue, which
\* keeps it alive, from before the write starts until its handler has run.
THEOREM BufferKept == QueueSafeSpec => []BufferAlive
<1>1. QInv => BufferAlive
  <2> SUFFICES ASSUME QInv PROVE BufferAlive
    OBVIOUS
  <2>1. /\ writes \in Seq([msg : Msgs, pieces : 0 .. 2])
        /\ Len(writes) <= 1 /\ send_que \in Seq(Msgs)
    BY DEF QInv, Types, QueueTypeOK, Writer
  <2>2. send_que # <<>> => Head(send_que) = send_que[1]
    BY <2>1
  <2>3. ASSUME NEW i \in Running
        PROVE  send_que # <<>> /\ writes[i].msg = Head(send_que)
    <3>1. writes # <<>>
      BY <2>1, <2>3 DEF Running
    <3>2. i = 1
      BY <2>1, <2>3, <3>1, OneElement DEF Running
    <3> QED
      BY <2>2, <3>1, <3>2 DEF QInv, Writer, AtFront
  <2>4. \A t \in Starting : send_que # <<>> /\ node[t] = Head(send_que)
    BY <2>2 DEF QInv, Writer, AtFront
  <2> QED
    BY <2>3, <2>4 DEF BufferAlive
<1> QED
  BY <1>1, QueueInvariant, PTL

\* What went out is the accepted messages, whole and in order, however many
\* threads send at once.
THEOREM NothingMixed == QueueSafeSpec => []FramesInOrder
<1>1. QInv => FramesInOrder
  BY DEF QInv
<1> QED
  BY <1>1, QueueInvariant, PTL

\* The queue holds at most MAX_SENDQUE + 1 messages.
THEOREM QueueBounded == QueueSafeSpec => []Bounded
<1>1. QInv => Bounded
  BY DEF QInv
<1> QED
  BY <1>1, QueueInvariant, PTL

-----------------------------------------------------------------------------
(* The session implements the output channel.                              *)

LEMMA Halves ==
  ASSUME NEW p \in Nat, NEW c \in {0, 1}
  PROVE  (2 * p + c) \div 2 = p
<1>1. CASE c = 0
  BY <1>1
<1>2. CASE c = 1
  BY <1>2
<1> QED
  BY <1>1, <1>2

\* Frames are transmitted when the second of their pieces goes out; a
\* message is accepted by the push; the rest changes nothing the abstract
\* channel sees.
LEMMA StepIsAbstract ==
  QInv /\ [QueueNext]_queueVars => [Output!Next]_Output!vars
<1> SUFFICES ASSUME QInv, [QueueNext]_queueVars
             PROVE  Output!Next \/ UNCHANGED Output!vars
  OBVIOUS
<1> DEFINE sent == Len(wire) \div 2
<1>1. /\ accepted \in Seq(Msgs) /\ wire \in Seq(Msgs \X {1, 2})
      /\ send_que \in Seq(Msgs) /\ popped \in Nat
      /\ socket \in {"open", "broken", "closed"} /\ MAX_SENDQUE \in Nat
  BY MaxAssumption DEF QInv, Types, QueueTypeOK, Suffix
<1>2. CASE UNCHANGED <<accepted, wire, socket>>
  BY <1>2 DEF Output!vars
<1>3. ASSUME NEW s \in Senders, SendPush(s) PROVE Output!Next
  <2>1. /\ accepted' = Append(accepted, node[s]) /\ wire' = wire
        /\ socket' = socket /\ size[s] <= MAX_SENDQUE /\ pc[s] = "sized"
    BY <1>3 DEF SendPush
  <2>2. size[s] = Len(send_que) /\ node[s] \in Msgs
    BY <2>1, SendersAssumption DEF QInv, Types, QueueTypeOK, SizeFresh, Threads
  <2>3. sent >= popped
    BY <1>1 DEF QInv, Progress
  <2>4. Len(accepted) - sent < MAX_SENDQUE + 1
    BY <1>1, <2>1, <2>2, <2>3 DEF popped
  <2>5. Output!Accept(node[s])
    BY <2>1, <2>4 DEF Output!Accept
  <2> QED
    BY <2>2, <2>5 DEF Output!Next
<1>4. ASSUME NEW i \in DOMAIN writes, WritePiece(i)
      PROVE  Output!Next \/ UNCHANGED Output!vars
  <2>1. /\ writes \in Seq([msg : Msgs, pieces : 0 .. 2]) /\ Len(writes) <= 1
        /\ writes # <<>>
    BY <1>4 DEF QInv, Types, QueueTypeOK, Writer
  <2>2. i = 1 /\ writes[1] \in [msg : Msgs, pieces : 0 .. 2]
    <3>1. DOMAIN writes = {1} /\ writes[1] \in [msg : Msgs, pieces : 0 .. 2]
      BY <2>1, OneElement
    <3> QED
      BY <1>4, <3>1
  <2> DEFINE c == writes[1].pieces
  <2>3. c \in {0, 1}
    <3>1. writes[1].pieces < 2
      BY <1>4, <2>2 DEF WritePiece
    <3> QED
      BY <2>2, <3>1
  <2>4. /\ socket = "open" /\ socket' = socket /\ accepted' = accepted
        /\ \E e \in Msgs \X {1, 2} : wire' = Append(wire, e)
    <3>1. /\ socket = "open" /\ socket' = socket /\ accepted' = accepted
          /\ wire' = Append(wire, <<writes[1].msg, c + 1>>)
      BY <1>4, <2>2 DEF WritePiece
    <3>2. <<writes[1].msg, c + 1>> \in Msgs \X {1, 2}
      BY <2>2, <2>3
    <3> QED
      BY <3>1, <3>2
  <2>5. Len(wire) = 2 * popped + c /\ Len(wire') = Len(wire) + 1
    BY <1>1, <2>1, <2>4 DEF QInv, Progress
  <2>6. sent = popped
    <3> HIDE DEF popped, c
    <3> QED
      BY <1>1, <2>3, <2>5, Halves
  <2>7. CASE c = 0
    <3>1. sent' = popped
      <4>1. Len(wire') = 2 * popped + 1
        BY <1>1, <2>5, <2>7
      <4> HIDE DEF popped, c
      <4> QED
        BY <1>1, <4>1, Halves
    <3> QED
      BY <2>4, <2>6, <3>1 DEF Output!vars
  <2>8. CASE c = 1
    <3>1. sent' = popped + 1
      <4>1. Len(wire') = 2 * (popped + 1) + 0 /\ popped + 1 \in Nat
        BY <1>1, <2>5, <2>8
      <4> HIDE DEF popped, c
      <4> QED
        BY <4>1, Halves
    <3>2. sent < Len(accepted)
      <4>1. send_que # <<>>
        BY <2>1 DEF QInv, Writer
      <4>2. Len(send_que) > 0
        BY <1>1, <4>1, EmptySeq
      <4> QED
        BY <1>1, <2>6, <4>2 DEF popped
    <3>3. Output!Transmit
      BY <2>4, <2>6, <3>1, <3>2 DEF Output!Transmit
    <3> QED
      BY <3>3 DEF Output!Next
  <2> QED
    BY <2>3, <2>7, <2>8
<1>5. ASSUME socket' \in {"broken", "closed"}, UNCHANGED <<accepted, wire>>
      PROVE  Output!Next \/ UNCHANGED Output!vars
  <2>1. CASE socket = "open"
    BY <1>5, <2>1 DEF Output!GoDown, Output!Next
  <2>2. CASE socket # "open"
    BY <1>1, <1>5, <2>2 DEF Output!vars
  <2> QED
    BY <2>1, <2>2
<1>6. ASSUME NEW s \in Senders, Send(s)
      PROVE  Output!Next \/ UNCHANGED Output!vars
  BY <1>2, <1>3, <1>6 DEF Send, SendEnter, SendDrop
<1>7. ASSUME NEW t \in Threads, StartWrite(t)
      PROVE  Output!Next \/ UNCHANGED Output!vars
  BY <1>2, <1>7 DEF StartWrite
<1>8. CASE HandleWrite
  BY <1>2, <1>5, <1>8 DEF HandleWrite, HandleWriteOk, HandleWriteError
<1>9. CASE AsyncWrite
  BY <1>2, <1>4, <1>9 DEF AsyncWrite, WriteCompletes
<1>10. CASE ReaderClose \/ PeerBreaks
  BY <1>5, <1>10 DEF ReaderClose, PeerBreaks
<1>11. CASE UNCHANGED queueVars
  BY <1>2, <1>11 DEF queueVars
<1> QED
  BY <1>6, <1>7, <1>8, <1>9, <1>10, <1>11 DEF QueueNext

\* Every step of Send, HandleWrite, async_write and the peer is a step of the
\* channel that accepts a message when there is room, transmits the next one
\* whole while the connection is up, and does nothing else.
THEOREM ImplementsOutput == QueueSafeSpec => Output!SafeSpec
<1>1. QueueInit => Output!Init
  <2> SUFFICES ASSUME QueueInit PROVE Output!Init
    OBVIOUS
  <2>1. Len(wire) = 2 * 0 + 0
    BY DEF QueueInit
  <2>2. Len(wire) \div 2 = 0
    BY <2>1, Halves
  <2> QED
    BY <2>2 DEF QueueInit, Output!Init
<1> QED
  BY <1>1, StepIsAbstract, QueueInvariant, PTL DEF QueueSafeSpec, Output!SafeSpec
=============================================================================
