------------------------- MODULE FrameReaderProofs -------------------------
(***************************************************************************)
(* Theorems about the input side of a session, for any messages and any    *)
(* way their bytes are cut into reads.                                     *)
(***************************************************************************)
EXTENDS FrameReader, TLAPS

\* The message whose bytes are being collected.
k == Len(delivered) + 1

\* The next byte of the stream that the handler has not moved.
pos == base + copy_len

\* The filled part of a node is the bytes of the stream from position p on.
HoldsFrom(node, p) == /\ node.intact
                      /\ node.cur_len > 0 => node.from = p

\* What the nodes hold is exactly the bytes between the end of what was
\* delivered and pos, and there is always something missing.
Collecting ==
  IF b_head_parse
  THEN /\ k <= N
       /\ body.total = BodyLen(k)
       /\ body.cur_len < body.total
       /\ HoldsFrom(body, Start[k] + HEAD_TOTAL_LEN)
       /\ pos = Start[k] + HEAD_TOTAL_LEN + body.cur_len
       /\ ~Illegal(k) /\ ~Throws(k) /\ ~NoRoom(k)
  ELSE /\ head.cur_len < HEAD_TOTAL_LEN
       /\ HoldsFrom(head, Start[k])
       /\ pos = Start[k] + head.cur_len

\* As long as no head has said -1, what is delivered is right, and the nodes
\* hold the beginning of the next message.
Reading == /\ delivered \in Seq(Node)
           /\ InOrder
           /\ handler \in {"waiting", "loop"} => Collecting

RInv ==
  /\ TypeOK
  /\ handler = "waiting" => bytes_transferred = 0
  /\ NeverDeaf
  /\ ~NoRoomRead => Reading
  /\ NoRoomRead => b_head_parse /\ body.total = -1

-----------------------------------------------------------------------------
\* Messages begin at different places, in order, and the code reads a length
\* that is legal, or -1 at least, as it was sent.
LEMMA StreamFacts ==
  ASSUME stream \in Streams
  PROVE  /\ \A i \in 1 .. N + 1 : Start[i] \in Nat
         /\ Start[1] = 0
         /\ \A i \in 1 .. N : Start[i + 1] >= Start[i] + HEAD_TOTAL_LEN
         /\ \A i \in 1 .. N + 1 : Start[i] <= Start[N + 1]
         /\ \A i, j \in 1 .. N + 1 : Start[i] = Start[j] => i = j
         /\ \A i, j \in 1 .. N + 1 : i < j => Start[i] + HEAD_TOTAL_LEN <= Start[j]
         /\ \A i \in 1 .. N : BodyLen(i) \in Nat
         /\ \A i \in 1 .. N : ~Illegal(i) /\ ~Throws(i) /\ ~NoRoom(i) =>
                               HeadLen(i) = BodyLen(i)
         /\ HEAD_TOTAL_LEN \in Nat /\ HEAD_TOTAL_LEN > 0
         /\ N \in Nat
<1>1. /\ HEAD_TOTAL_LEN \in Nat /\ HEAD_TOTAL_LEN > 0 /\ SHORT \in Nat
      /\ MAX_LENGTH \in Nat /\ MAX_LENGTH < SHORT
  BY SizeAssumption
<1>2. Start \in Seq(Nat) /\ Len(Start) > 0 /\ N = Len(Start) - 1
  BY StreamAssumption DEF Start, N
<1>3. N \in Nat /\ \A i \in 1 .. N + 1 : Start[i] \in Nat
  <2>1. Len(Start) \in Nat /\ N + 1 = Len(Start)
    BY <1>2
  <2> QED
    BY <1>2, <2>1
<1>4. \A i, j \in 1 .. N + 1 : i < j => Start[i] + HEAD_TOTAL_LEN <= Start[j]
  BY StreamAssumption DEF Start, N
<1>5. \A i \in 1 .. N : Start[i + 1] >= Start[i] + HEAD_TOTAL_LEN
  BY <1>1, <1>3, <1>4
<1>6. \A i \in 1 .. N + 1 : Start[i] <= Start[N + 1]
  BY <1>1, <1>3, <1>4
<1>7. \A i, j \in 1 .. N + 1 : Start[i] = Start[j] => i = j
  BY <1>1, <1>3, <1>4
<1>8. \A i \in 1 .. N : BodyLen(i) \in Nat
  BY <1>1, <1>3, <1>5 DEF BodyLen
<1>9. ASSUME NEW i \in 1 .. N, ~Illegal(i), ~Throws(i), ~NoRoom(i)
      PROVE  HeadLen(i) = BodyLen(i)
  <2>1. BodyLen(i) \in Nat /\ HeadLen(i) \in Int /\ HeadLen(i) >= 0
    <3>1. BodyLen(i) \in Nat
      BY <1>8
    <3>2. HeadLen(i) \in Int
      BY <1>1, <3>1 DEF HeadLen, Signed
    <3> QED
      BY <1>9, <3>1, <3>2 DEF Illegal, Throws, NoRoom
  <2>2. Start[i + 1] < Start[i] + HEAD_TOTAL_LEN + 2 * SHORT
    BY StreamAssumption DEF Start, N
  <2>3. BodyLen(i) < 2 * SHORT
    <3>1. Start[i] \in Nat /\ Start[i + 1] \in Nat
      BY <1>3
    <3> QED
      BY <1>1, <2>2, <3>1 DEF BodyLen
  <2> QED
    BY <1>1, <2>1, <2>3 DEF HeadLen, Signed
<1>10. Start[1] = 0
  BY StreamAssumption DEF Start
<1> QED
  BY <1>1, <1>3, <1>4, <1>5, <1>6, <1>7, <1>8, <1>9, <1>10

LEMMA StartFacts ==
  ASSUME RInv
  PROVE  /\ \A i \in 1 .. N + 1 : Start[i] \in Nat
         /\ Start[1] = 0
         /\ \A i \in 1 .. N : Start[i + 1] >= Start[i] + HEAD_TOTAL_LEN
         /\ \A i \in 1 .. N + 1 : Start[i] <= Start[N + 1]
         /\ \A i, j \in 1 .. N + 1 : Start[i] = Start[j] => i = j
         /\ \A i, j \in 1 .. N + 1 : i < j => Start[i] + HEAD_TOTAL_LEN <= Start[j]
         /\ \A i \in 1 .. N : BodyLen(i) \in Nat
         /\ \A i \in 1 .. N : ~Illegal(i) /\ ~Throws(i) /\ ~NoRoom(i) =>
                               HeadLen(i) = BodyLen(i)
         /\ HEAD_TOTAL_LEN \in Nat /\ HEAD_TOTAL_LEN > 0
         /\ N \in Nat
<1>1. stream \in Streams
  BY DEF RInv, TypeOK
<1> QED
  BY <1>1, StreamFacts

\* What is said of the stream stays true while the stream is the same.
LEMMA SameStream ==
  ASSUME stream' = stream
  PROVE  /\ Start' = Start /\ N' = N
         /\ \A i : BodyLen(i)' = BodyLen(i)
         /\ \A i : Body(i)' = Body(i)
         /\ \A i : (Illegal(i)' <=> Illegal(i)) /\ (Throws(i)' <=> Throws(i))
         /\ \A i : (NoRoom(i)' <=> NoRoom(i))
  BY DEF Start, N, BadId, BodyLen, Body, HeadLen, Signed, Illegal, Throws, NoRoom

\* What the handler has of the stream, and no message before k is without room.
LEMMA Before ==
  ASSUME RInv, ~NoRoomRead, handler \in {"waiting", "loop"}
  PROVE  /\ k \in 1 .. N + 1 /\ Len(delivered) \in Nat
         /\ pos \in Nat /\ pos = recvd - bytes_transferred
         /\ \A i \in 1 .. N : i < k => ~NoRoom(i)
<1>1. Reading /\ Collecting /\ InOrder
  BY DEF RInv, Reading
<1>2. k \in 1 .. N + 1 /\ Len(delivered) \in Nat
  BY <1>1, StartFacts DEF Reading, InOrder, k
<1>3. pos \in Nat /\ pos = recvd - bytes_transferred
  BY StartFacts DEF RInv, TypeOK, pos
<1>4. Start[k] \in Nat /\ pos >= Start[k]
  <2>1. head.cur_len \in Nat /\ body.cur_len \in Nat
    BY DEF RInv, TypeOK, NodeOK, Node
  <2>2. Start[k] \in Nat
    BY <1>2, StartFacts
  <2> QED
    BY <1>1, <2>1, <2>2, StartFacts DEF Collecting
<1>5. ASSUME NEW i \in 1 .. N, i < k, NoRoom(i) PROVE FALSE
  <2>1. Start[i] + HEAD_TOTAL_LEN <= Start[k]
    <3> HIDE DEF k
    <3>1. i \in 1 .. N + 1
      BY StartFacts
    <3> QED
      BY <1>2, <1>5, <3>1, StartFacts
  <2>2. Start[i] \in Nat
    BY StartFacts
  <2>3. Start[i] + HEAD_TOTAL_LEN <= base + copy_len
    BY <1>3, <1>4, <2>1, <2>2, StartFacts DEF pos
  <2> QED
    BY <1>5, <2>3 DEF NoRoomRead
<1> QED
  BY <1>2, <1>3, <1>5

\* No head said -1 in a step that does not move past the head of message j,
\* when all messages before j have room.
LEMMA NotYet ==
  ASSUME RInv, stream' = stream, NEW j \in 1 .. N + 1, pos' \in Nat,
         \A i \in 1 .. N : i < j => ~NoRoom(i),
         j <= N => pos' < Start[j] + HEAD_TOTAL_LEN
  PROVE  ~NoRoomRead'
<1> SUFFICES ASSUME NEW i \in 1 .. N, NoRoom(i),
                    Start[i] + HEAD_TOTAL_LEN <= pos'
             PROVE  FALSE
  BY SameStream DEF NoRoomRead, pos
<1>1. i >= j /\ j <= N
  BY StartFacts
<1>2. Start[i] \in Nat /\ Start[j] \in Nat /\ Start[i] >= Start[j]
  <2>1. i \in 1 .. N + 1
    BY StartFacts
  <2>2. Start[i] \in Nat /\ Start[j] \in Nat
    BY <2>1, StartFacts
  <2>3. CASE i = j
    BY <2>2, <2>3
  <2>4. CASE i > j
    BY <2>1, <2>2, <2>4, StartFacts
  <2> QED
    BY <1>1, <2>2, <2>3, <2>4
<1> QED
  BY <1>1, <1>2, StartFacts

\* What was delivered stays right.
LEMMA InOrderKept ==
  ASSUME stream' = stream, delivered' = delivered, ~NoRoomRead, InOrder
  PROVE  InOrder'
  BY SameStream DEF InOrder

\* A byte that is left belongs to message k: there is such a message.
LEMMA MessageLeft ==
  ASSUME RInv, Looping, ~NoRoomRead
  PROVE  k \in 1 .. N
<1>1. k \in Nat /\ k >= 1 /\ k <= N + 1
  BY Before, StartFacts DEF Looping
<1>2. pos = recvd - bytes_transferred /\ pos < Start[N + 1]
  <2>1. Start[N + 1] \in Nat
    BY StartFacts
  <2> QED
    BY <2>1, Before DEF RInv, TypeOK, Looping
<1>3. Collecting
  BY DEF RInv, Reading, Looping
<1>4. CASE b_head_parse
  BY <1>1, <1>3, <1>4, StartFacts DEF Collecting
<1>5. CASE ~b_head_parse
  <2>1. k # N + 1
    BY <1>2, <1>3, <1>5, StartFacts DEF Collecting, RInv, TypeOK, NodeOK, Node
  <2> QED
    BY <1>1, <2>1, StartFacts
<1> QED
  BY <1>4, <1>5 DEF RInv, TypeOK

\* What the steps of the loop take for granted.
LEMMA LoopFacts ==
  ASSUME RInv, Looping, ~NoRoomRead
  PROVE  /\ k \in 1 .. N /\ k + 1 \in 1 .. N + 1
         /\ Start[k] \in Nat /\ Start[k + 1] \in Nat
         /\ BodyLen(k) \in Nat
         /\ bytes_transferred \in Nat /\ base \in Nat /\ copy_len \in Nat
         /\ NodeOK(head) /\ head.total = HEAD_TOTAL_LEN /\ NodeOK(body)
         /\ head \in Node /\ head.cur_len \in Nat
         /\ body \in Node /\ body.cur_len \in Nat /\ body.cur_len <= body.total
<1>1. k \in 1 .. N
  BY MessageLeft
<1>2. /\ Start[k] \in Nat /\ Start[k + 1] \in Nat /\ BodyLen(k) \in Nat
      /\ k + 1 \in 1 .. N + 1
  <2> HIDE DEF k
  <2>1. k \in 1 .. N + 1 /\ k + 1 \in 1 .. N + 1
    BY <1>1, StartFacts
  <2> QED
    BY <1>1, <2>1, StartFacts
<1>3. /\ bytes_transferred \in Nat /\ base \in Nat /\ copy_len \in Nat
      /\ NodeOK(head) /\ head.total = HEAD_TOTAL_LEN /\ NodeOK(body)
  BY DEF RInv, TypeOK
<1>4. /\ head \in Node /\ head.cur_len \in Nat
      /\ body \in Node /\ body.cur_len \in Nat /\ body.cur_len <= body.total
  BY <1>3 DEF NodeOK, Node
<1> QED
  BY <1>1, <1>2, <1>3, <1>4

\* Copying the bytes that follow keeps a node in order.
LEMMA CopyHolds ==
  ASSUME NEW node \in Node, NEW n \in Nat, NEW p \in Nat,
         base \in Nat, copy_len \in Nat,
         HoldsFrom(node, p), pos = p + node.cur_len
  PROVE  Copy(node, n) = [total |-> node.total, cur_len |-> node.cur_len + n,
                          from |-> p, intact |-> TRUE]
<1>1. node.cur_len \in Nat /\ node.from \in Nat
  BY DEF Node
<1>2. (IF node.cur_len = 0 THEN base + copy_len ELSE node.from) = p
  BY <1>1 DEF pos, HoldsFrom
<1>3. (node.cur_len > 0 =>
         node.intact /\ base + copy_len = node.from + node.cur_len) = TRUE
  BY <1>1 DEF pos, HoldsFrom
<1> QED
  BY <1>2, <1>3, Zenon DEF Copy
\* A complete head is the head of message k.
LEMMA HeadOfK ==
  ASSUME RInv, Looping, ~NoRoomRead, ~b_head_parse
  PROVE  /\ head_remain \in Nat /\ head_remain > 0
         /\ pos + head_remain = Start[k] + HEAD_TOTAL_LEN
         /\ Parsed = k
         /\ msg_len = HeadLen(k)
<1>1. k \in 1 .. N /\ Start[k] \in Nat
  BY LoopFacts
<1>2. Collecting /\ head \in Node /\ head.cur_len \in Nat
      /\ base \in Nat /\ copy_len \in Nat
  BY DEF RInv, Reading, Looping, TypeOK, NodeOK, Node
<1>3. /\ head_remain \in Nat /\ head_remain > 0
      /\ pos + head_remain = Start[k] + HEAD_TOTAL_LEN
      /\ pos = Start[k] + head.cur_len
      /\ HoldsFrom(head, Start[k])
  BY <1>1, <1>2, StartFacts DEF head_remain, Collecting
<1> DEFINE h == Copy(head, head_remain)
<1>4. h = [total |-> head.total, cur_len |-> head.cur_len + head_remain,
           from |-> Start[k], intact |-> TRUE]
  BY <1>1, <1>2, <1>3, CopyHolds
<1>5. h.from = Start[k] /\ h.intact = TRUE
  BY <1>4
<1>6. {i \in 1 .. N : h.intact /\ Start[i] = h.from} = {k}
  <2> HIDE DEF h, k
  <2>1. \A i \in 1 .. N : Start[i] = Start[k] => i = k
    <3>1. \A i \in 1 .. N : i \in 1 .. N + 1
      BY StartFacts
    <3> QED
      BY <1>1, <3>1, StartFacts
  <2> QED
    BY <1>1, <1>5, <2>1
<1>7. Parsed = k
  <2> HIDE DEF k
  <2>1. (CHOOSE i \in {k} : TRUE) = k
    OBVIOUS
  <2>2. {k} # {}
    OBVIOUS
  <2> QED
    BY <1>6, <2>1, <2>2 DEF Parsed
<1>8. msg_len = HeadLen(k)
  BY <1>1, <1>7 DEF msg_len
<1> QED
  BY <1>3, <1>7, <1>8

\* Delivering message k, whole, begins message k + 1.
LEMMA DeliverStep ==
  ASSUME RInv, Looping, ~NoRoomRead, stream' = stream,
         NEW n \in Nat, n <= bytes_transferred,
         ~Illegal(k), ~Throws(k), ~NoRoom(k),
         pos + n = Start[k + 1], Deliver(Body(k), n)
  PROVE  RInv'
<1>1. k \in 1 .. N /\ k + 1 \in 1 .. N + 1 /\ Len(delivered) \in Nat
      /\ \A i \in 1 .. N : i < k => ~NoRoom(i)
  BY LoopFacts, Before DEF Looping
<1>2. Body(k) \in Node /\ NodeOK(Body(k)) /\ Body(k).cur_len <= Body(k).total
  <2>1. BodyLen(k) \in Nat /\ Start[k] + HEAD_TOTAL_LEN \in Nat
    BY LoopFacts, StartFacts
  <2> HIDE DEF k
  <2>2. Body(k) \in Node /\ Body(k).cur_len <= Body(k).total
    BY <2>1 DEF Body, Node
  <2> QED
    BY <2>2 DEF NodeOK
<1>3. delivered' = Append(delivered, Body(k)) /\ delivered \in Seq(Node)
      /\ InOrder
  BY DEF Deliver, RInv, Reading, Looping
<1>4. k' = k + 1 /\ delivered' \in Seq(Node)
  BY <1>2, <1>3 DEF k
<1>5. InOrder'
  <2>1. Len(delivered') = k /\ delivered'[k] = Body(k)
    BY <1>2, <1>3 DEF k
  <2>2. \A i \in 1 .. Len(delivered) :
          /\ delivered'[i] = delivered[i] /\ delivered[i] = Body(i)
          /\ ~Illegal(i) /\ ~Throws(i)
    BY <1>2, <1>3 DEF InOrder
  <2>3. \A i \in 1 .. k : i = k \/ i \in 1 .. Len(delivered)
    BY <1>1 DEF k
  <2>4. \A i \in 1 .. k : delivered'[i] = Body(i) /\ ~Illegal(i) /\ ~Throws(i)
    BY <2>1, <2>2, <2>3
  <2>5. DOMAIN delivered' = 1 .. k /\ k <= N
    BY <1>1, <1>4, <2>1
  <2> HIDE DEF k
  <2> QED
    BY <2>1, <2>4, <2>5, SameStream DEF InOrder
<1>6. /\ recvd' = recvd /\ base' = base
      /\ copy_len' = copy_len + n
      /\ bytes_transferred' = bytes_transferred - n
      /\ b_head_parse' = FALSE
      /\ head' = NewNode(HEAD_TOTAL_LEN) /\ body' = Body(k)
      /\ handler' = IF bytes_transferred' = 0 THEN "waiting" ELSE handler
      /\ session' = session /\ handler = "loop"
  BY DEF Deliver, Moved, ReadMore, Looping
<1>7. /\ base \in Nat /\ copy_len \in Nat /\ bytes_transferred \in Nat
      /\ base + copy_len + bytes_transferred = recvd
  BY DEF RInv, TypeOK
<1>8. /\ head'.total = HEAD_TOTAL_LEN /\ head'.cur_len = 0
      /\ head'.intact /\ head' \in Node
  BY <1>6, StartFacts DEF NewNode, Node
<1>9. TypeOK'
  <2>1. /\ recvd' \in 0 .. Start'[N' + 1] /\ b_head_parse' \in BOOLEAN
        /\ handler' \in {"waiting", "loop", "stopped", "crashed"}
        /\ session' \in {"open", "cleared", "closed", "gone"}
        /\ stream' \in Streams
    BY <1>6, SameStream DEF RInv, TypeOK
  <2>2. /\ base' \in Nat /\ copy_len' \in Nat /\ bytes_transferred' \in Nat
        /\ base' + copy_len' + bytes_transferred' = recvd'
    BY <1>6, <1>7
  <2>3. NodeOK(body)'
    BY <1>2, <1>6 DEF NodeOK, Node
  <2>4. NodeOK(head)'
    BY <1>8, StartFacts DEF NodeOK, Node
  <2> QED
    BY <1>8, <2>1, <2>2, <2>3, <2>4 DEF TypeOK
<1>10. pos' = Start[k + 1] /\ Start[k + 1] \in Nat
  BY <1>1, <1>6, <1>7, StartFacts DEF pos
<1>11. Collecting'
  <2>1. pos' = Start'[k'] + head'.cur_len
    BY <1>4, <1>8, <1>10, SameStream
  <2> HIDE DEF k, pos
  <2> QED
    BY <1>6, <1>8, <2>1, StartFacts DEF Collecting, HoldsFrom
<1>12. ~NoRoomRead'
  <2> HIDE DEF k, pos
  <2>1. \A i \in 1 .. N : i < k + 1 => ~NoRoom(i)
    <3>1. \A i \in 1 .. N : i < k + 1 => i < k \/ i = k
      BY <1>1
    <3> QED
      BY <1>1, <3>1
  <2>2. pos' < Start[k + 1] + HEAD_TOTAL_LEN
    BY <1>10, StartFacts
  <2> QED
    BY <1>1, <1>10, <2>1, <2>2, NotYet
<1>13. NeverDeaf' /\ (handler' = "waiting" => bytes_transferred' = 0)
  BY <1>6, <1>7 DEF NeverDeaf
<1> QED
  BY <1>4, <1>5, <1>9, <1>11, <1>12, <1>13 DEF RInv, Reading

\* The handler keeps a part of message k, used all its bytes and returns.
LEMMA PartialStep ==
  ASSUME RInv, Looping, ~NoRoomRead, stream' = stream,
         Moved(bytes_transferred), ReadMore, delivered' = delivered,
         head' \in Node, head'.cur_len <= HEAD_TOTAL_LEN,
         head'.total = HEAD_TOTAL_LEN,
         body' \in Node, body'.cur_len <= body'.total,
         b_head_parse' \in BOOLEAN, Collecting', ~NoRoomRead'
  PROVE  RInv'
<1>1. /\ base' = base /\ recvd' = recvd /\ copy_len' \in Nat
      /\ bytes_transferred' = 0 /\ handler' = "waiting" /\ session' = session
      /\ base' + copy_len' + bytes_transferred' = recvd'
  BY DEF RInv, TypeOK, Moved, ReadMore
<1>2. TypeOK'
  <2>1. /\ recvd' \in 0 .. Start'[N' + 1] /\ base' \in Nat
        /\ session' \in {"open", "cleared", "closed", "gone"}
        /\ stream' \in Streams
    BY <1>1, SameStream DEF RInv, TypeOK
  <2>2. NodeOK(head)' /\ NodeOK(body)'
    BY DEF NodeOK, Node
  <2> QED
    BY <1>1, <2>1, <2>2 DEF TypeOK
<1>3. InOrder' /\ delivered' \in Seq(Node)'
  BY InOrderKept DEF RInv, Reading, Node
<1> QED
  BY <1>1, <1>2, <1>3 DEF RInv, Reading, NeverDeaf

LEMMA RInvInit == Init => RInv
<1> SUFFICES ASSUME Init PROVE RInv
  OBVIOUS
<1>1. stream \in Streams
  BY DEF Init
<1>2. 1 \in 1 .. N + 1 /\ N + 1 \in 1 .. N + 1 /\ Start[1] = 0
      /\ HEAD_TOTAL_LEN \in Nat /\ HEAD_TOTAL_LEN > 0
      /\ \A i \in 1 .. N + 1 : Start[i] \in Nat
  BY <1>1, StreamFacts
<1>3. TypeOK
  <2>1. recvd \in 0 .. Start[N + 1]
    BY <1>2 DEF Init
  <2>2. NodeOK(head) /\ head.total = HEAD_TOTAL_LEN /\ NodeOK(body)
    BY <1>2 DEF Init, NodeOK, Node, NewNode
  <2>3. /\ handler \in {"waiting", "loop", "stopped", "crashed"}
        /\ base \in Nat /\ copy_len \in Nat /\ bytes_transferred \in Nat
        /\ base + copy_len + bytes_transferred = recvd
        /\ session \in {"open", "cleared", "closed", "gone"}
    <3>1. /\ handler = "waiting" /\ session = "open"
          /\ recvd = 0 /\ base = 0 /\ copy_len = 0 /\ bytes_transferred = 0
      BY DEF Init
    <3> QED
      BY <3>1
  <2>4. b_head_parse \in BOOLEAN
    BY Zenon DEF Init
  <2> QED
    BY <1>1, <2>1, <2>2, <2>3, <2>4 DEF TypeOK
<1>4. delivered = <<>> /\ Len(delivered) = 0
  BY DEF Init
<1>5. Collecting
  <2>1. /\ ~b_head_parse /\ head.cur_len = 0 /\ head.intact
        /\ base = 0 /\ copy_len = 0
    BY DEF Init, NewNode
  <2> QED
    BY <1>2, <1>4, <2>1 DEF Collecting, HoldsFrom, k, pos
<1>6. InOrder /\ delivered \in Seq(Node)
  BY <1>1, <1>4, StreamFacts DEF InOrder
<1>7. ~NoRoomRead
  <2> SUFFICES ASSUME NEW i \in 1 .. N, Start[i] + HEAD_TOTAL_LEN <= 0
               PROVE  FALSE
    BY DEF Init, NoRoomRead
  <2>1. i \in 1 .. N + 1
    BY <1>1, StreamFacts
  <2> QED
    BY <1>2, <2>1
<1> QED
  BY <1>3, <1>5, <1>6, <1>7 DEF Init, RInv, Reading, NeverDeaf

\* The first part of a message after its head.
LEMMA HeadThenPartialStep ==
  ASSUME RInv, ~NoRoomRead, stream' = stream, HeadThenPartial
  PROVE  RInv'
<1>1. /\ Looping /\ ~b_head_parse /\ bytes_transferred >= head_remain
      /\ ~(Parsed # 0 /\ (Illegal(Parsed) \/ Throws(Parsed)))
      /\ Below(bytes_transferred - head_remain, msg_len)
      /\ body' = AfterHead(bytes_transferred - head_remain)
      /\ Moved(bytes_transferred) /\ b_head_parse' = TRUE /\ ReadMore
      /\ head' = head /\ delivered' = delivered
  BY DEF HeadThenPartial, HeadLegal, HeadComplete
<1>2. /\ k \in 1 .. N /\ k + 1 \in 1 .. N + 1
      /\ Start[k] \in Nat /\ Start[k + 1] \in Nat /\ BodyLen(k) \in Nat
      /\ bytes_transferred \in Nat /\ base \in Nat /\ copy_len \in Nat
      /\ head \in Node /\ head.cur_len <= HEAD_TOTAL_LEN
      /\ head.cur_len \in Nat /\ head.total = HEAD_TOTAL_LEN
  BY <1>1, LoopFacts DEF NodeOK
<1>3. /\ head_remain \in Nat /\ msg_len = HeadLen(k)
      /\ ~Illegal(k) /\ ~Throws(k)
      /\ pos + head_remain = Start[k] + HEAD_TOTAL_LEN
  <2> HIDE DEF k
  <2>1. Parsed = k /\ k # 0
    BY <1>1, <1>2, HeadOfK
  <2> QED
    BY <1>1, <2>1, HeadOfK
<1> DEFINE got == bytes_transferred - head_remain
<1>4. got \in Nat
  BY <1>1, <1>2, <1>3
<1>5. body' = [total |-> HeadLen(k), cur_len |-> got,
               from |-> Start[k] + HEAD_TOTAL_LEN, intact |-> TRUE]
  <2>1. base + copy_len + head_remain = Start[k] + HEAD_TOTAL_LEN
    BY <1>3 DEF pos
  <2> HIDE DEF k
  <2> QED
    BY <1>1, <1>3, <2>1 DEF AfterHead
<1>6. /\ k' = k /\ pos' = pos + bytes_transferred
      /\ pos' = Start[k] + HEAD_TOTAL_LEN + got /\ pos' \in Nat
  <2>1. k' = k /\ pos' = pos + bytes_transferred
    BY <1>1, <1>2 DEF k, pos, Moved, ReadMore
  <2>2. pos' = Start[k] + HEAD_TOTAL_LEN + got /\ pos' \in Nat
    BY <1>2, <1>3, <2>1, StartFacts DEF pos
  <2> QED
    BY <2>1, <2>2
<1>7. CASE NoRoom(k)
  <2>1. NoRoomRead'
    <3>1. Start[k] + HEAD_TOTAL_LEN <= pos'
      BY <1>2, <1>4, <1>6, StartFacts
    <3> HIDE DEF k
    <3> QED
      BY <1>2, <1>7, <3>1, SameStream DEF NoRoomRead, pos
  <2>2. HeadLen(k) = -1
    BY <1>7 DEF NoRoom
  <2>3. body' \in Node /\ body'.total = -1
    <3> HIDE DEF k, got
    <3>1. Start[k] + HEAD_TOTAL_LEN \in Nat
      BY <1>2, StartFacts
    <3> QED
      BY <1>4, <1>5, <2>2, <3>1 DEF Node
  <2>4. /\ base' = base /\ recvd' = recvd /\ copy_len' \in Nat
        /\ bytes_transferred' = 0 /\ handler' = "waiting" /\ session' = session
        /\ base' + copy_len' + bytes_transferred' = recvd'
    BY <1>1 DEF RInv, TypeOK, Moved, ReadMore
  <2>5. TypeOK'
    <3>1. /\ recvd' \in 0 .. Start'[N' + 1] /\ base' \in Nat
          /\ session' \in {"open", "cleared", "closed", "gone"}
          /\ stream' \in Streams
      BY <2>4, SameStream DEF RInv, TypeOK
    <3>2. NodeOK(head)' /\ NodeOK(body)'
      BY <1>1, <1>2, <2>1, <2>3 DEF NodeOK, Node
    <3> QED
      BY <1>1, <1>2, <2>4, <3>1, <3>2 DEF TypeOK
  <2> QED
    BY <1>1, <2>1, <2>3, <2>4, <2>5 DEF RInv, NeverDeaf
<1>8. CASE ~NoRoom(k)
  <2>1. HeadLen(k) = BodyLen(k)
    <3> HIDE DEF k
    <3> QED
      BY <1>2, <1>3, <1>8, StartFacts
  <2>2. got < BodyLen(k)
    BY <1>1, <1>2, <1>3, <2>1 DEF Below
  <2>3. /\ body' \in Node /\ body'.cur_len <= body'.total
        /\ body'.total = BodyLen(k) /\ body'.cur_len = got
        /\ body'.from = Start[k] + HEAD_TOTAL_LEN /\ body'.intact
    <3> HIDE DEF k, got
    <3>1. Start[k] + HEAD_TOTAL_LEN \in Nat
      BY <1>2, StartFacts
    <3> QED
      BY <1>2, <1>4, <1>5, <2>1, <2>2, <3>1 DEF Node
  <2>4. Collecting'
    <3> HIDE DEF k, pos, got
    <3>1. /\ BodyLen(k)' = BodyLen(k) /\ Start' = Start /\ N' = N
          /\ ~Illegal(k)' /\ ~Throws(k)' /\ ~NoRoom(k)'
      BY <1>3, <1>6, <1>8, SameStream
    <3> QED
      BY <1>1, <1>2, <1>6, <2>2, <2>3, <3>1, <1>3, <1>8, SameStream
         DEF Collecting, HoldsFrom
  <2>5. ~NoRoomRead'
    <3> HIDE DEF k, pos, got
    <3>1. \A i \in 1 .. N : i < k + 1 => ~NoRoom(i)
      <4>1. \A i \in 1 .. N : i < k + 1 => i < k \/ i = k
        BY <1>2
      <4> QED
        BY <1>1, <1>8, <4>1, Before DEF Looping
    <3>2. pos' < Start[k + 1] + HEAD_TOTAL_LEN
      BY <1>2, <1>4, <1>6, <2>2, StartFacts DEF BodyLen
    <3> QED
      BY <1>2, <1>6, <3>1, <3>2, NotYet
  <2> HIDE DEF k, got
  <2> QED
    BY <1>1, <1>2, <2>3, <2>4, <2>5, PartialStep
<1> QED
  BY <1>7, <1>8

\* As long as no head has said -1, one step per action.
LEMMA ReadingNext ==
  ASSUME RInv, ~NoRoomRead, Next PROVE RInv'
<1>0. stream' = stream
  BY DEF Next, AsyncReadSome, HandleRead
<1>1. ASSUME NEW n \in 1 .. MAX_LENGTH, Receive(n) PROVE RInv'
  <2>1. /\ handler = "waiting" /\ recvd + n <= Start[N + 1]
        /\ handler' = "loop" /\ base' = recvd /\ recvd' = recvd + n
        /\ copy_len' = 0 /\ bytes_transferred' = n
        /\ b_head_parse' = b_head_parse /\ head' = head /\ body' = body
        /\ delivered' = delivered /\ session' = session
    BY <1>1 DEF Receive
  <2>2. n \in Nat /\ n > 0 /\ recvd \in Nat /\ Start[N + 1] \in Nat
    BY SizeAssumption, StartFacts DEF RInv, TypeOK
  <2>3. pos' = pos /\ pos \in Nat
    BY <2>1, <2>2 DEF RInv, TypeOK, pos
  <2>4. ~NoRoomRead'
    BY <1>0, <2>3, SameStream DEF NoRoomRead, pos
  <2>5. TypeOK'
    <3>1. recvd' \in 0 .. Start'[N' + 1]
      BY <1>0, <2>1, <2>2, SameStream
    <3>2. NodeOK(head)' /\ NodeOK(body)'
      BY <2>1 DEF RInv, TypeOK, NodeOK, Node
    <3> QED
      BY <1>0, <2>1, <2>2, <3>1, <3>2 DEF RInv, TypeOK
  <2>6. Collecting'
    <3>1. Collecting
      BY <2>1 DEF RInv, Reading
    <3> QED
      BY <1>0, <2>1, <2>3, <3>1, SameStream DEF Collecting, HoldsFrom, k
  <2>7. InOrder' /\ delivered' \in Seq(Node)'
    BY <1>0, <2>1, InOrderKept DEF RInv, Reading, Node
  <2> QED
    BY <2>1, <2>2, <2>4, <2>5, <2>6, <2>7 DEF RInv, Reading, NeverDeaf
<1>2. CASE ReadError
  <2>1. /\ handler' = "stopped" /\ session' \in {"gone", "closed"}
        /\ recvd' = recvd /\ base' = base /\ copy_len' = copy_len
        /\ bytes_transferred' = bytes_transferred
        /\ b_head_parse' = b_head_parse /\ head' = head /\ body' = body
        /\ delivered' = delivered
    BY <1>2 DEF ReadError
  <2>2. ~NoRoomRead'
    BY <1>0, <2>1, SameStream DEF NoRoomRead
  <2>3. TypeOK'
    BY <1>0, <2>1, SameStream DEF RInv, TypeOK, NodeOK, Node
  <2>4. InOrder' /\ delivered' \in Seq(Node)'
    BY <1>0, <2>1, InOrderKept DEF RInv, Reading, Node
  <2> QED
    BY <2>1, <2>2, <2>3, <2>4 DEF RInv, Reading, NeverDeaf
<1>3. CASE HeadPartial
  <2>1. /\ Looping /\ ~b_head_parse /\ bytes_transferred < head_remain
        /\ b_head_parse' = b_head_parse /\ body' = body
        /\ delivered' = delivered
        /\ Moved(bytes_transferred) /\ ReadMore
        /\ head' = Copy(head, bytes_transferred)
    BY <1>3 DEF HeadPartial
  <2>2. /\ k \in 1 .. N /\ k \in 1 .. N + 1 /\ Start[k] \in Nat
        /\ bytes_transferred \in Nat /\ base \in Nat /\ copy_len \in Nat
        /\ head \in Node /\ head.cur_len \in Nat /\ head.total = HEAD_TOTAL_LEN
        /\ body \in Node /\ body.cur_len <= body.total
    BY <2>1, LoopFacts, StartFacts
  <2>3. HoldsFrom(head, Start[k]) /\ pos = Start[k] + head.cur_len
    BY <2>1 DEF RInv, Reading, Collecting, Looping
  <2>4. head' = [total |-> HEAD_TOTAL_LEN,
                 cur_len |-> head.cur_len + bytes_transferred,
                 from |-> Start[k], intact |-> TRUE]
    <3> HIDE DEF k
    <3> QED
      BY <2>1, <2>2, <2>3, CopyHolds
  <2>5. head.cur_len + bytes_transferred < HEAD_TOTAL_LEN
    BY <2>1, <2>2, StartFacts DEF head_remain
  <2>6. head' \in Node /\ head'.total = HEAD_TOTAL_LEN
        /\ head'.cur_len <= HEAD_TOTAL_LEN
    BY <2>2, <2>4, <2>5, StartFacts DEF Node
  <2>7. k' = k /\ pos' = pos + bytes_transferred
        /\ pos' = Start[k] + head'.cur_len
    <3>1. k' = k /\ pos' = pos + bytes_transferred
      BY <2>1, <2>2 DEF k, pos, Moved, ReadMore
    <3>2. pos' = Start[k] + head'.cur_len
      BY <2>2, <2>3, <2>4, <3>1 DEF pos
    <3> QED
      BY <3>1, <3>2
  <2>8. Collecting'
    <3>1. HoldsFrom(head', Start[k]) /\ head'.cur_len < HEAD_TOTAL_LEN
      BY <2>4, <2>5 DEF HoldsFrom
    <3> HIDE DEF k, pos
    <3> QED
      BY <1>0, <2>1, <2>7, <3>1, SameStream DEF Collecting, HoldsFrom
  <2>9. ~NoRoomRead'
    <3> HIDE DEF k, pos
    <3>1. pos' \in Nat /\ pos' < Start[k] + HEAD_TOTAL_LEN
      BY <2>2, <2>4, <2>5, <2>7, StartFacts
    <3> QED
      BY <1>0, <2>1, <2>2, <3>1, Before, NotYet DEF Looping
  <2> QED
    BY <1>0, <2>1, <2>2, <2>6, <2>8, <2>9, PartialStep DEF RInv, TypeOK
<1>4. CASE HeadIllegal \/ HeadThrows
  <2>1. /\ Looping /\ ~b_head_parse /\ bytes_transferred >= head_remain
        /\ Parsed # 0 /\ handler' = "stopped"
        /\ \/ Illegal(Parsed) /\ session' = "cleared"
           \/ Throws(Parsed) /\ session' = session
        /\ Moved(head_remain)
        /\ recvd' = recvd /\ base' = base /\ b_head_parse' = b_head_parse
        /\ head' = head /\ body' = body /\ delivered' = delivered
    BY <1>4 DEF HeadIllegal, HeadThrows, HeadComplete
  <2>2. /\ k \in 1 .. N /\ k + 1 \in 1 .. N + 1
        /\ Start[k] \in Nat /\ Start[k + 1] \in Nat
        /\ bytes_transferred \in Nat /\ base \in Nat /\ copy_len \in Nat
    BY <2>1, LoopFacts
  <2>3. /\ head_remain \in Nat /\ Parsed = k
        /\ pos + head_remain = Start[k] + HEAD_TOTAL_LEN
    <3> HIDE DEF k
    <3> QED
      BY <2>1, HeadOfK
  <2>4. ~NoRoom(k)
    <3> HIDE DEF k
    <3>1. HeadLen(k) \in Int /\ MAX_LENGTH \in Nat
      BY <2>2, StartFacts, SizeAssumption DEF HeadLen, Signed
    <3> QED
      BY <2>1, <2>3, <3>1 DEF Illegal, Throws, NoRoom
  <2>5. pos' = pos + head_remain /\ pos' \in Nat
    BY <2>1, <2>2, <2>3 DEF pos, Moved
  <2>6. ~NoRoomRead'
    <3> HIDE DEF k, pos
    <3>1. \A i \in 1 .. N : i < k + 1 => ~NoRoom(i)
      <4>1. \A i \in 1 .. N : i < k + 1 => i < k \/ i = k
        BY <2>2
      <4> QED
        BY <2>1, <2>4, <4>1, Before DEF Looping
    <3>2. pos' < Start[k + 1] + HEAD_TOTAL_LEN
      BY <2>2, <2>3, <2>5, StartFacts
    <3> QED
      BY <1>0, <2>2, <2>5, <3>1, <3>2, NotYet
  <2>7. TypeOK'
    <3>1. base' \in Nat /\ copy_len' \in Nat /\ bytes_transferred' \in Nat
          /\ base' + copy_len' + bytes_transferred' = recvd'
      BY <2>1, <2>3 DEF RInv, TypeOK, Moved
    <3>2. NodeOK(head)' /\ NodeOK(body)'
      BY <2>1 DEF RInv, TypeOK, NodeOK, Node
    <3>3. recvd' \in 0 .. Start'[N' + 1] /\ stream' \in Streams
      BY <1>0, <2>1, SameStream DEF RInv, TypeOK
    <3> QED
      BY <2>1, <3>1, <3>2, <3>3 DEF RInv, TypeOK
  <2>8. InOrder' /\ delivered' \in Seq(Node)'
    BY <1>0, <2>1, InOrderKept DEF RInv, Reading, Node, Looping
  <2>9. NeverDeaf'
    <3>1. Len(delivered) < N /\ Len(delivered) + 1 = k /\ Len(delivered) \in Nat
      <4>1. Len(delivered) \in Nat
        BY <2>1, Before DEF Looping
      <4> QED
        BY <2>2, <4>1, StartFacts DEF k
    <3>2. session' = "open" => Throws(k)
      BY <2>1, <2>3
    <3>3. N' = N /\ (Throws(k)' <=> Throws(k)) /\ Len(delivered') + 1 = k
      BY <1>0, <2>1, <3>1, SameStream DEF k
    <3>4. handler' = "stopped" /\ Len(delivered') = Len(delivered)
      BY <2>1
    <3>5. Len(delivered') < N'
      BY <3>1, <3>3, <3>4
    <3>6. session' = "open" => Throws(Len(delivered) + 1)'
      <4>1. \A i : (Throws(i)' <=> Throws(i))
        BY <1>0, SameStream
      <4>2. Throws(Len(delivered) + 1)' <=> Throws(Len(delivered) + 1)
        BY <2>1, <1>0 DEF Throws, HeadLen, BodyLen, Signed, Start, BadId
      <4> QED
        BY <3>1, <3>2, <4>2
    <3> QED
      BY <3>4, <3>5, <3>6 DEF NeverDeaf
  <2> QED
    BY <2>1, <2>6, <2>7, <2>8, <2>9 DEF RInv, Reading
<1>5. CASE HeadThenPartial
  BY <1>0, <1>5, HeadThenPartialStep
<1>6. CASE HeadThenWhole
  <2>1. /\ Looping /\ ~b_head_parse /\ bytes_transferred >= head_remain
        /\ ~(Parsed # 0 /\ (Illegal(Parsed) \/ Throws(Parsed)))
        /\ ~Below(bytes_transferred - head_remain, msg_len)
        /\ Deliver(AfterHead(msg_len), head_remain + msg_len)
    BY <1>6 DEF HeadThenWhole, HeadLegal, HeadComplete
  <2>2. /\ k \in 1 .. N /\ Start[k] \in Nat /\ BodyLen(k) \in Nat
        /\ Start[k + 1] \in Nat
        /\ bytes_transferred \in Nat /\ base \in Nat /\ copy_len \in Nat
    BY <2>1, LoopFacts
  <2>3. /\ head_remain \in Nat /\ ~Illegal(k) /\ ~Throws(k)
        /\ msg_len = HeadLen(k)
        /\ pos + head_remain = Start[k] + HEAD_TOTAL_LEN
    <3> HIDE DEF k
    <3>1. Parsed = k /\ k # 0
      BY <2>1, <2>2, HeadOfK
    <3> QED
      BY <2>1, <3>1, HeadOfK
  <2>4. ~NoRoom(k)
    BY <2>1, <2>3 DEF Below, NoRoom
  <2>5. msg_len = BodyLen(k) /\ bytes_transferred - head_remain >= BodyLen(k)
    <3>1. HeadLen(k) = BodyLen(k)
      <4> HIDE DEF k
      <4> QED
        BY <2>2, <2>3, <2>4, StartFacts
    <3> HIDE DEF k
    <3> QED
      BY <2>1, <2>2, <2>3, <3>1 DEF Below
  <2>6. AfterHead(msg_len) = Body(k)
    <3>1. base + copy_len + head_remain = Start[k] + HEAD_TOTAL_LEN
      BY <2>3 DEF pos
    <3> HIDE DEF k
    <3> QED
      BY <2>5, <3>1 DEF AfterHead, Body
  <2>7. /\ head_remain + msg_len \in Nat
        /\ head_remain + msg_len <= bytes_transferred
        /\ pos + (head_remain + msg_len) = Start[k + 1]
    <3>1. HEAD_TOTAL_LEN \in Nat
          /\ BodyLen(k) = Start[k + 1] - (Start[k] + HEAD_TOTAL_LEN)
      BY StartFacts DEF BodyLen
    <3>2. pos \in Nat
      BY <2>2 DEF pos
    <3> HIDE DEF k, pos
    <3> QED
      BY <2>2, <2>3, <2>5, <3>1, <3>2
  <2>8. Deliver(Body(k), head_remain + msg_len)
    BY <2>1, <2>6
  <2> HIDE DEF k
  <2> QED
    BY <1>0, <2>1, <2>3, <2>4, <2>7, <2>8, DeliverStep
<1>7. CASE BodyPartial
  <2>1. /\ Looping /\ b_head_parse /\ Below(bytes_transferred, remain_msg)
        /\ body' = Copy(body, bytes_transferred)
        /\ Moved(bytes_transferred) /\ ReadMore
        /\ b_head_parse' = b_head_parse /\ head' = head
        /\ delivered' = delivered
    BY <1>7 DEF BodyPartial
  <2>2. /\ k \in 1 .. N /\ k + 1 \in 1 .. N + 1
        /\ Start[k] \in Nat /\ BodyLen(k) \in Nat /\ Start[k + 1] \in Nat
        /\ bytes_transferred \in Nat /\ base \in Nat /\ copy_len \in Nat
        /\ head \in Node /\ head.cur_len <= HEAD_TOTAL_LEN
        /\ head.total = HEAD_TOTAL_LEN
        /\ body \in Node /\ body.cur_len \in Nat
    BY <2>1, LoopFacts DEF NodeOK
  <2> DEFINE p == Start[k] + HEAD_TOTAL_LEN
  <2>3. /\ body.total = BodyLen(k) /\ body.cur_len < body.total /\ p \in Nat
        /\ ~Illegal(k) /\ ~Throws(k) /\ ~NoRoom(k)
        /\ HoldsFrom(body, p) /\ pos = p + body.cur_len
    BY <2>1, <2>2, StartFacts DEF RInv, Reading, Collecting, Looping
  <2>4. body' = [total |-> BodyLen(k),
                 cur_len |-> body.cur_len + bytes_transferred,
                 from |-> p, intact |-> TRUE]
    <3> HIDE DEF k, p
    <3> QED
      BY <2>1, <2>2, <2>3, CopyHolds
  <2>5. body.cur_len + bytes_transferred < BodyLen(k)
    <3> HIDE DEF k, p
    <3> QED
      BY <2>1, <2>2, <2>3 DEF remain_msg, Below
  <2>6. /\ body' \in Node /\ body'.cur_len <= body'.total
        /\ body'.total = BodyLen(k) /\ body'.from = p /\ body'.intact
        /\ body'.cur_len = body.cur_len + bytes_transferred
    <3> HIDE DEF k, p
    <3> QED
      BY <2>2, <2>3, <2>4, <2>5 DEF Node
  <2>7. k' = k /\ pos' = p + body'.cur_len /\ pos' \in Nat
    <3>1. k' = k /\ pos' = pos + bytes_transferred
      BY <2>1, <2>2 DEF k, pos, Moved, ReadMore
    <3>2. pos' = p + body'.cur_len
      <4> HIDE DEF k, pos, p
      <4>1. pos = p + body.cur_len /\ pos' = pos + bytes_transferred
        BY <2>3, <3>1
      <4> QED
        BY <2>2, <2>3, <2>6, <4>1
    <3> HIDE DEF k, pos, p
    <3> QED
      BY <2>2, <2>3, <2>6, <3>1, <3>2
  <2>8. Collecting'
    <3>1. b_head_parse' = TRUE /\ p = Start[k] + HEAD_TOTAL_LEN
      BY <2>1 DEF RInv, TypeOK
    <3> HIDE DEF k, pos, p
    <3> QED
      BY <1>0, <2>2, <2>3, <2>5, <2>6, <2>7, <3>1, SameStream
         DEF Collecting, HoldsFrom
  <2>9. ~NoRoomRead'
    <3>1. p = Start[k] + HEAD_TOTAL_LEN /\ HEAD_TOTAL_LEN \in Nat
          /\ BodyLen(k) = Start[k + 1] - p
      BY StartFacts DEF BodyLen
    <3> HIDE DEF k, pos, p
    <3>2. \A i \in 1 .. N : i < k + 1 => ~NoRoom(i)
      <4>1. \A i \in 1 .. N : i < k + 1 => i < k \/ i = k
        BY <2>2
      <4> QED
        BY <2>1, <2>3, <4>1, Before DEF Looping
    <3>3. pos' < Start[k + 1] + HEAD_TOTAL_LEN
      BY <2>2, <2>3, <2>5, <2>6, <2>7, <3>1
    <3> QED
      BY <1>0, <2>2, <2>7, <3>2, <3>3, NotYet
  <2> HIDE DEF k, p
  <2> QED
    BY <1>0, <2>1, <2>2, <2>6, <2>8, <2>9, PartialStep DEF RInv, TypeOK
<1>8. CASE BodyWhole
  <2>1. /\ Looping /\ b_head_parse /\ ~Below(bytes_transferred, remain_msg)
        /\ Deliver(Copy(body, remain_msg), remain_msg)
    BY <1>8 DEF BodyWhole
  <2>2. /\ k \in 1 .. N /\ Start[k] \in Nat /\ BodyLen(k) \in Nat
        /\ Start[k + 1] \in Nat
        /\ bytes_transferred \in Nat /\ base \in Nat /\ copy_len \in Nat
        /\ body \in Node /\ body.cur_len \in Nat /\ body.cur_len <= body.total
    BY <2>1, LoopFacts
  <2> DEFINE p == Start[k] + HEAD_TOTAL_LEN
  <2>3. /\ body.total = BodyLen(k) /\ p \in Nat
        /\ ~Illegal(k) /\ ~Throws(k) /\ ~NoRoom(k)
        /\ HoldsFrom(body, p) /\ pos = p + body.cur_len
    BY <2>1, <2>2, StartFacts DEF RInv, Reading, Collecting, Looping
  <2>4. /\ remain_msg \in Nat /\ remain_msg <= bytes_transferred
        /\ body.cur_len + remain_msg = BodyLen(k)
        /\ pos + remain_msg = Start[k + 1]
    <3>1. remain_msg = BodyLen(k) - body.cur_len /\ remain_msg \in Nat
      <4> HIDE DEF k, p
      <4> QED
        BY <2>2, <2>3 DEF remain_msg
    <3>2. HEAD_TOTAL_LEN \in Nat /\ BodyLen(k) = Start[k + 1] - p
      BY StartFacts DEF BodyLen
    <3> HIDE DEF p, k
    <3>3. pos + remain_msg = Start[k + 1]
      BY <2>2, <2>3, <3>1, <3>2
    <3>4. remain_msg <= bytes_transferred
      BY <2>1, <2>2, <3>1 DEF Below
    <3> QED
      BY <2>2, <3>1, <3>3, <3>4
  <2>5. Copy(body, remain_msg) = Body(k)
    <3> HIDE DEF k
    <3> QED
      BY <2>2, <2>3, <2>4, CopyHolds DEF Body
  <2> HIDE DEF k, p
  <2> QED
    BY <1>0, <2>1, <2>3, <2>4, <2>5, DeliverStep
<1>9. ~Crash
  BY DEF Crash
<1> QED
  BY <1>1, <1>2, <1>3, <1>4, <1>5, <1>6, <1>7, <1>8, <1>9
     DEF Next, HandleRead, AsyncReadSome

\* Once a head has said -1, all that comes is taken for more of that body.
LEMMA NoRoomNext ==
  ASSUME RInv, NoRoomRead, Next PROVE RInv'
<1>0. stream' = stream /\ b_head_parse /\ body.total = -1
      /\ remain_msg \in Int /\ remain_msg < 0
  <2>1. stream' = stream /\ b_head_parse /\ body.total = -1
    BY DEF Next, AsyncReadSome, HandleRead, RInv
  <2>2. body.cur_len \in Nat
    BY DEF RInv, TypeOK, NodeOK, Node
  <2> QED
    BY <2>1, <2>2 DEF remain_msg
<1>1. /\ ~HeadPartial /\ ~HeadIllegal /\ ~HeadThrows
      /\ ~HeadThenPartial /\ ~HeadThenWhole /\ ~BodyWhole
  BY <1>0 DEF HeadPartial, HeadIllegal, HeadThrows, HeadComplete, HeadThenPartial,
              HeadLegal, HeadThenWhole, BodyWhole, Below
<1>2. SUFFICES ASSUME pos' >= pos, pos' \in Nat,
                      b_head_parse' = b_head_parse, body'.total = body.total,
                      TypeOK', NeverDeaf',
                      handler' = "waiting" => bytes_transferred' = 0
               PROVE  RInv'
  <2>1. /\ (\E n \in 1 .. MAX_LENGTH : Receive(n)) \/ ReadError \/ Crash
           \/ BodyPartial
    BY <1>1 DEF Next, AsyncReadSome, HandleRead
  <2>2. ASSUME NEW n \in 1 .. MAX_LENGTH, Receive(n)
        PROVE  /\ pos' >= pos /\ pos' \in Nat /\ b_head_parse' = b_head_parse
               /\ body'.total = body.total /\ TypeOK' /\ NeverDeaf'
               /\ handler' = "waiting" => bytes_transferred' = 0
    <3>1. /\ handler = "waiting" /\ recvd + n <= Start[N + 1]
          /\ handler' = "loop" /\ base' = recvd /\ recvd' = recvd + n
          /\ copy_len' = 0 /\ bytes_transferred' = n
          /\ b_head_parse' = b_head_parse /\ head' = head /\ body' = body
          /\ delivered' = delivered /\ session' = session
      BY <2>2 DEF Receive
    <3>2. n \in Nat /\ n > 0 /\ recvd \in Nat /\ Start[N + 1] \in Nat
      BY SizeAssumption, StartFacts DEF RInv, TypeOK
    <3>3. pos' = pos /\ pos \in Nat
      BY <3>1, <3>2 DEF RInv, TypeOK, pos
    <3>4. NoRoomRead'
      BY <1>0, <3>3, SameStream DEF NoRoomRead, pos
    <3>5. recvd' \in 0 .. Start'[N' + 1]
      BY <1>0, <3>1, <3>2, SameStream
    <3>6. NodeOK(head)' /\ NodeOK(body)'
      BY <3>1, <3>4 DEF RInv, TypeOK, NodeOK, Node
    <3>7. TypeOK'
      BY <1>0, <3>1, <3>2, <3>5, <3>6 DEF RInv, TypeOK
    <3> QED
      BY <3>1, <3>2, <3>3, <3>7 DEF NeverDeaf
  <2>3. ASSUME ReadError \/ Crash
        PROVE  /\ pos' >= pos /\ pos' \in Nat /\ b_head_parse' = b_head_parse
               /\ body'.total = body.total /\ TypeOK' /\ NeverDeaf'
               /\ handler' = "waiting" => bytes_transferred' = 0
    <3>1. /\ \/ handler' = "stopped" /\ session' \in {"gone", "closed"}
             \/ handler' = "crashed" /\ session' = session
          /\ recvd' = recvd /\ base' = base /\ copy_len' = copy_len
          /\ bytes_transferred' = bytes_transferred
          /\ b_head_parse' = b_head_parse /\ head' = head /\ body' = body
          /\ delivered' = delivered
      BY <2>3 DEF ReadError, Crash
    <3>2. pos' = pos /\ pos \in Nat
      BY <3>1 DEF RInv, TypeOK, pos
    <3>3. NoRoomRead'
      BY <1>0, <3>2, SameStream DEF NoRoomRead, pos
    <3>4. NodeOK(head)' /\ NodeOK(body)'
      BY <3>1, <3>3 DEF RInv, TypeOK, NodeOK, Node
    <3>5. TypeOK'
      BY <1>0, <3>1, <3>4, SameStream DEF RInv, TypeOK
    <3> QED
      BY <3>1, <3>2, <3>5 DEF NeverDeaf
  <2>4. ASSUME BodyPartial
        PROVE  /\ pos' >= pos /\ pos' \in Nat /\ b_head_parse' = b_head_parse
               /\ body'.total = body.total /\ TypeOK' /\ NeverDeaf'
               /\ handler' = "waiting" => bytes_transferred' = 0
    <3>1. /\ body' = Copy(body, bytes_transferred)
          /\ copy_len' = copy_len + bytes_transferred
          /\ bytes_transferred' = bytes_transferred - bytes_transferred
          /\ handler' = "waiting" /\ recvd' = recvd /\ base' = base
          /\ session' = session
          /\ b_head_parse' = b_head_parse /\ head' = head
          /\ delivered' = delivered
      BY <2>4 DEF BodyPartial, Moved, ReadMore
    <3>2. /\ bytes_transferred \in Nat /\ base \in Nat /\ copy_len \in Nat
          /\ base + copy_len + bytes_transferred = recvd
          /\ body \in Node
      BY DEF RInv, TypeOK, NodeOK
    <3>3. pos' >= pos /\ pos \in Nat /\ pos' \in Nat
      BY <3>1, <3>2 DEF pos
    <3>4. NoRoomRead'
      <4>1. PICK i \in 1 .. N : NoRoom(i) /\ Start[i] + HEAD_TOTAL_LEN <= pos
        BY DEF NoRoomRead, pos
      <4>2. Start[i] + HEAD_TOTAL_LEN \in Nat
        <5>1. i \in 1 .. N + 1
          BY StartFacts
        <5> QED
          BY <5>1, StartFacts
      <4>3. Start[i] + HEAD_TOTAL_LEN <= pos'
        BY <3>3, <4>1, <4>2
      <4> QED
        BY <1>0, <4>1, <4>3, SameStream DEF NoRoomRead, pos
    <3>5. body' \in Node /\ body'.total = body.total
      <4>1. body.cur_len \in Nat /\ body.from \in Nat /\ body.total \in Int
            /\ body.intact \in BOOLEAN /\ base + copy_len \in Nat
        BY <3>2 DEF Node
      <4>2. (body.cur_len > 0 =>
               body.intact /\ base + copy_len = body.from + body.cur_len)
                 \in BOOLEAN
        BY Zenon
      <4>3. (IF body.cur_len = 0 THEN base + copy_len ELSE body.from) \in Nat
        BY <4>1
      <4>4. body.cur_len + bytes_transferred \in Nat
        BY <3>2, <4>1
      <4> QED
        BY <3>1, <4>1, <4>2, <4>3, <4>4, Zenon DEF Copy, Node
    <3>6. NodeOK(head)' /\ NodeOK(body)'
      BY <3>1, <3>4, <3>5 DEF RInv, TypeOK, NodeOK, Node
    <3>7. recvd' \in 0 .. Start'[N' + 1] /\ stream' \in Streams
      BY <1>0, <3>1, SameStream DEF RInv, TypeOK
    <3>8. TypeOK'
      BY <3>1, <3>2, <3>6, <3>7 DEF RInv, TypeOK
    <3> QED
      BY <3>1, <3>2, <3>3, <3>5, <3>8 DEF NeverDeaf
  <2> QED
    BY <2>1, <2>2, <2>3, <2>4
<1>3. NoRoomRead'
  <2>1. PICK i \in 1 .. N : NoRoom(i) /\ Start[i] + HEAD_TOTAL_LEN <= pos
    BY DEF NoRoomRead, pos
  <2>2. Start[i] + HEAD_TOTAL_LEN \in Nat
    <3>1. i \in 1 .. N + 1
      BY StartFacts
    <3> QED
      BY <3>1, StartFacts
  <2>3. pos \in Nat /\ pos' \in Nat
    <3>1. base \in Nat /\ copy_len \in Nat
      BY DEF RInv, TypeOK
    <3>2. pos \in Nat
      BY <3>1 DEF pos
    <3> QED
      BY <1>2, <3>2
  <2>4. Start[i] + HEAD_TOTAL_LEN <= pos'
    BY <1>2, <2>1, <2>2, <2>3
  <2> QED
    BY <1>0, <2>1, <2>4, SameStream DEF NoRoomRead, pos
<1> QED
  BY <1>0, <1>2, <1>3 DEF RInv

LEMMA RInvNext == RInv /\ [Next]_vars => RInv'
<1> SUFFICES ASSUME RInv, [Next]_vars PROVE RInv'
  OBVIOUS
<1>1. CASE Next
  BY <1>1, ReadingNext, NoRoomNext
<1>2. CASE UNCHANGED vars
  <2>1. /\ stream' = stream /\ handler' = handler /\ recvd' = recvd
        /\ base' = base /\ copy_len' = copy_len
        /\ bytes_transferred' = bytes_transferred
        /\ b_head_parse' = b_head_parse /\ head' = head /\ body' = body
        /\ delivered' = delivered /\ session' = session
    BY <1>2 DEF vars
  <2>2. NoRoomRead' <=> NoRoomRead
    BY <2>1, SameStream DEF NoRoomRead
  <2>3. TypeOK'
    BY <2>1, <2>2, SameStream DEF RInv, TypeOK, NodeOK, Node
  <2>4. NeverDeaf'
    BY <2>1 DEF RInv, NeverDeaf, Throws, HeadLen, BodyLen, Signed, Start, N, BadId
  <2>5. Reading => Reading'
    BY <2>1, <2>2, SameStream DEF Reading, InOrder, Collecting, HoldsFrom, k, pos, Node
  <2> QED
    BY <2>1, <2>2, <2>3, <2>4, <2>5 DEF RInv
<1> QED
  BY <1>1, <1>2

THEOREM ReaderInvariant == SafeSpec => []RInv
<1> QED
  BY RInvInit, RInvNext, PTL DEF SafeSpec

-----------------------------------------------------------------------------
\* The variables keep their types, and the two nodes are never filled past
\* their ends.
THEOREM TypeCorrect == SafeSpec => []TypeOK
<1>1. RInv => TypeOK
  BY DEF RInv
<1> QED
  BY <1>1, ReaderInvariant, PTL

\* However the bytes are cut into reads, the logic layer gets the bodies of
\* the first messages, whole and in order, and none with an illegal head.
THEOREM DeliveredInOrder == SafeSpec => []InOrder
<1>1. RInv => InOrder
  BY DEF RInv, Reading, InOrder
<1> QED
  BY <1>1, ReaderInvariant, PTL

\* When the handler waits for bytes, no complete message is held back.
THEOREM KeepsNothingBack == SafeSpec => []NothingKeptBack
<1>1. RInv => NothingKeptBack
  <2> SUFFICES ASSUME RInv, handler = "waiting", ~NoRoomRead
               PROVE  /\ recvd = Start[k] + (IF b_head_parse
                                   THEN HEAD_TOTAL_LEN + body.cur_len
                                   ELSE head.cur_len)
                      /\ k <= N => recvd < Start[k + 1]
    BY DEF NothingKeptBack, k
  <2>1. k \in 1 .. N + 1 /\ pos = recvd /\ Collecting
    <3>1. k \in 1 .. N + 1 /\ pos = recvd - bytes_transferred
      BY Before
    <3>2. bytes_transferred = 0 /\ recvd \in Nat /\ Collecting
      BY StartFacts DEF RInv, TypeOK, Reading
    <3> QED
      BY <3>1, <3>2
  <2>2. /\ Start[k] \in Nat /\ N \in Nat
        /\ k <= N => /\ BodyLen(k) \in Nat
                     /\ Start[k + 1] = Start[k] + HEAD_TOTAL_LEN + BodyLen(k)
                     /\ Start[k + 1] \in Nat
                     /\ Start[k + 1] >= Start[k] + HEAD_TOTAL_LEN
    <3> HIDE DEF k
    <3>1. Start[k] \in Nat /\ N \in Nat
      BY <2>1, StartFacts
    <3>2. ASSUME k <= N
          PROVE  /\ BodyLen(k) \in Nat /\ Start[k + 1] \in Nat
                 /\ Start[k + 1] >= Start[k] + HEAD_TOTAL_LEN
      <4>1. k \in 1 .. N /\ k + 1 \in 1 .. N + 1
        BY <2>1, <3>1, <3>2
      <4> QED
        BY <4>1, StartFacts
    <3>3. k <= N => Start[k + 1] = Start[k] + HEAD_TOTAL_LEN + BodyLen(k)
      BY <3>1, <3>2, StartFacts DEF BodyLen
    <3> QED
      BY <3>1, <3>2, <3>3
  <2>3. head.cur_len \in Nat /\ body.cur_len \in Nat
    BY DEF RInv, TypeOK, NodeOK, Node
  <2> HIDE DEF k, pos
  <2> QED
    BY <2>1, <2>2, <2>3, StartFacts DEF Collecting
<1> QED
  BY <1>1, ReaderInvariant, PTL

\* The handler never runs its loop without bytes, which would end the reads.
THEOREM ReadsGoOn == SafeSpec => []NeverDeaf
<1>1. RInv => NeverDeaf
  BY DEF RInv
<1> QED
  BY <1>1, ReaderInvariant, PTL
=============================================================================
