---------------------------- MODULE FrameReader ----------------------------
(***************************************************************************)
(* The input side of a session: CSession::HandleRead cuts the byte stream  *)
(* of the peer into messages.  A message is a head (id and length) and a   *)
(* body; async_read_some returns any number of bytes, so a head or a body  *)
(* may come in pieces and one read may hold several messages.  The handler *)
(* keeps a partial head in _recv_head_node and a partial body in           *)
(* _recv_msg_node from one call to the next.                               *)
(*                                                                         *)
(* Bytes are named by their position in the stream, and a node by which    *)
(* bytes were copied into it, so a message made of the wrong bytes, or of  *)
(* the right ones in the wrong place, is not the message that was sent.    *)
(*                                                                         *)
(* The two fields of a head are read into a short: a number from SHORT on  *)
(* becomes negative there.                                                 *)
(***************************************************************************)
EXTENDS Integers, Sequences

CONSTANTS HEAD_TOTAL_LEN,
          MAX_LENGTH,  (* the size of _data, and the largest id and length *)
          SHORT,       (* 2^15: a short is one of -SHORT .. SHORT - 1      *)
          Streams      (* what the peer may send                           *)

\* start says where each message of a stream begins, and where the last one
\* ends; badId are the messages whose id is larger than MAX_LENGTH as a short.
ASSUME SizeAssumption ==
  /\ HEAD_TOTAL_LEN \in Nat \ {0} /\ MAX_LENGTH \in Nat \ {0}
  /\ SHORT \in Nat /\ HEAD_TOTAL_LEN < SHORT /\ MAX_LENGTH < SHORT
ASSUME StreamAssumption ==
  \A st \in Streams : LET N == Len(st.start) - 1 IN
    /\ st.start \in Seq(Nat) /\ Len(st.start) > 0
    /\ st.start[1] = 0
    /\ \A i, j \in 1 .. N + 1 :
          i < j => st.start[i] + HEAD_TOTAL_LEN <= st.start[j]
    /\ \A i \in 1 .. N :
          st.start[i + 1] < st.start[i] + HEAD_TOTAL_LEN + 2 * SHORT

VARIABLES
  stream,        (* what the peer sends                                    *)
  handler,       (* "waiting" for bytes, in the "loop", "stopped" or, when *)
                 (* the process is gone, "crashed"                         *)
  recvd,         (* how many bytes of the stream were read                 *)
  base,          (* where in the stream _data begins                       *)
  copy_len,      (* how much of _data was moved                            *)
  bytes_transferred,  (* how much of _data is left                         *)
  b_head_parse,  (* _b_head_parse                                          *)
  head,          (* _recv_head_node                                        *)
  body,          (* _recv_msg_node                                         *)
  delivered,     (* the messages posted to the logic layer                 *)
  session        (* "open"; "cleared" from the map, "closed", or "gone":   *)
                 (* both                                                   *)

Start == stream.start
N == Len(Start) - 1
BadId == stream.badId

\* network_to_host_short, assigned to a short.
Signed(n) == IF n < SHORT THEN n ELSE n - 2 * SHORT

\* The length in the head of message i, which is that of its body, and what
\* the code makes of it.
BodyLen(i) == Start[i + 1] - (Start[i] + HEAD_TOTAL_LEN)
HeadLen(i) == Signed(BodyLen(i))

\* The two tests of a head.
Illegal(i) == i \in BadId \/ HeadLen(i) > MAX_LENGTH

\* new char[_total_len + 1] throws for a size below zero.
Throws(i) == i \notin BadId /\ HeadLen(i) < -1

\* A node of no bytes at all, not even for the terminating zero.
NoRoom(i) == i \notin BadId /\ HeadLen(i) = -1

vars == <<stream, handler, recvd, base, copy_len, bytes_transferred, b_head_parse,
          head, body, delivered, session>>

\* A MsgNode: room for total bytes, cur_len of them filled.  When intact they
\* are the bytes of the stream that follow position from, in order.
NewNode(total) == [total |-> total, cur_len |-> 0, from |-> 0, intact |-> TRUE]

\* memcpy(node->_data + node->_cur_len, _data + copy_len, n)
Copy(node, n) ==
  LET pos == base + copy_len IN
  [total   |-> node.total,
   cur_len |-> node.cur_len + n,
   from    |-> IF node.cur_len = 0 THEN pos ELSE node.from,
   intact  |-> node.cur_len > 0 =>
                 node.intact /\ pos = node.from + node.cur_len]

Init == /\ stream \in Streams
        /\ handler = "waiting"
        /\ recvd = 0 /\ base = 0 /\ copy_len = 0 /\ bytes_transferred = 0
        /\ b_head_parse = FALSE
        /\ head = NewNode(HEAD_TOTAL_LEN)
        /\ body = NewNode(0)
        /\ delivered = <<>>
        /\ session = "open"

-----------------------------------------------------------------------------
\* External: async_read_some completes with n bytes, never with none.
Receive(n) ==
  /\ handler = "waiting"
  /\ n <= MAX_LENGTH /\ recvd + n <= Start[N + 1]
  /\ handler' = "loop"
  /\ base' = recvd
  /\ recvd' = recvd + n
  /\ copy_len' = 0
  /\ bytes_transferred' = n
  /\ UNCHANGED <<b_head_parse, head, body, delivered, session>>

\* The read failed: Close() and ClearSession.  If closing the socket throws,
\* the catch prints the exception, and the session is not cleared.
ReadError ==
  /\ handler = "waiting"
  /\ handler' = "stopped"
  /\ session' \in {"gone", "closed"}
  /\ UNCHANGED <<recvd, base, copy_len, bytes_transferred, b_head_parse, head,
                 body, delivered>>

\* Start another read and return from the handler.
ReadMore == /\ handler' = "waiting"
            /\ UNCHANGED <<recvd, base, session>>

\* Mutant: copy_len is not advanced.
Moved_CopyLenKept(n) == /\ copy_len' = copy_len
                        /\ bytes_transferred' = bytes_transferred - n

\* n bytes of _data were moved.
Moved(n) == /\ copy_len' = copy_len + n
            /\ bytes_transferred' = bytes_transferred - n

\* One iteration of the loop ran.
Looping == handler = "loop" /\ bytes_transferred > 0

\* bytes_transferred < m, where bytes_transferred is a size_t: a negative m
\* becomes larger than all sizes.
Below(n, m) == m < 0 \/ n < m

\* What is missing of the head or of the body.
head_remain == HEAD_TOTAL_LEN - head.cur_len
remain_msg == body.total - body.cur_len

\* Not even the head is complete.
HeadPartial ==
  /\ Looping /\ ~b_head_parse
  /\ bytes_transferred < head_remain
  /\ head' = Copy(head, bytes_transferred)
  /\ Moved(bytes_transferred)
  /\ ReadMore
  /\ UNCHANGED <<b_head_parse, body, delivered>>

\* The message the head stands for; a head of other bytes stands for none.
\* The bytes that complete the head are not counted in its _cur_len, which
\* nothing reads until Clear() resets it.
Parsed == LET h == Copy(head, head_remain)
              I == {i \in 1 .. N : h.intact /\ Start[i] = h.from}
          IN  IF I = {} THEN 0 ELSE CHOOSE i \in I : TRUE

msg_len == IF Parsed = 0 THEN 0 ELSE HeadLen(Parsed)

HeadComplete ==
  /\ Looping /\ ~b_head_parse
  /\ bytes_transferred >= head_remain

\* An illegal id or length: ClearSession, and no further read.
HeadIllegal ==
  /\ HeadComplete
  /\ Parsed # 0 /\ Illegal(Parsed)
  /\ handler' = "stopped"
  /\ session' = "cleared"
  /\ Moved(head_remain)
  /\ UNCHANGED <<recvd, base, b_head_parse, head, body, delivered>>

\* The node for a negative length cannot be made: the catch prints the
\* exception, and there is no further read, no Close and no ClearSession.
HeadThrows ==
  /\ HeadComplete
  /\ Parsed # 0 /\ Throws(Parsed)
  /\ handler' = "stopped"
  /\ Moved(head_remain)
  /\ UNCHANGED <<recvd, base, b_head_parse, head, body, delivered, session>>

HeadLegal ==
  HeadComplete /\ ~(Parsed # 0 /\ (Illegal(Parsed) \/ Throws(Parsed)))

\* The body node after n bytes that follow the head were copied into it.
AfterHead(n) == [total   |-> msg_len,
                 cur_len |-> n,
                 from    |-> base + copy_len + head_remain,
                 intact  |-> TRUE]

\* Mutant: a body whose last byte is the last of _data counts as partial.
HeadThenPartial_AtMost ==
  /\ HeadLegal
  /\ msg_len < 0 \/ bytes_transferred - head_remain <= msg_len
  /\ body' = AfterHead(bytes_transferred - head_remain)
  /\ Moved(bytes_transferred)
  /\ b_head_parse' = TRUE
  /\ ReadMore
  /\ UNCHANGED <<head, delivered>>

\* The head is complete and the body is not.  The body of a node without room
\* never is.
HeadThenPartial ==
  /\ HeadLegal
  /\ Below(bytes_transferred - head_remain, msg_len)
  /\ body' = AfterHead(bytes_transferred - head_remain)
  /\ Moved(bytes_transferred)
  /\ b_head_parse' = TRUE
  /\ ReadMore
  /\ UNCHANGED <<head, delivered>>

\* Mutant: _recv_head_node is not cleared.
Deliver_HeadKept(node, n) ==
  /\ body' = node
  /\ delivered' = Append(delivered, node)
  /\ b_head_parse' = FALSE
  /\ head' = head
  /\ Moved(n)
  /\ IF bytes_transferred' = 0
     THEN ReadMore
     ELSE UNCHANGED <<handler, recvd, base, session>>

\* Mutant: always go on with the loop.
Deliver_NoRead(node, n) ==
  /\ body' = node
  /\ delivered' = Append(delivered, node)
  /\ b_head_parse' = FALSE
  /\ head' = NewNode(HEAD_TOTAL_LEN)
  /\ Moved(n)
  /\ UNCHANGED <<handler, recvd, base, session>>

\* PostMsgToQue; the next byte begins a new head.  When nothing is left of
\* _data start another read, otherwise go on with the loop.
Deliver(node, n) ==
  /\ body' = node
  /\ delivered' = Append(delivered, node)
  /\ b_head_parse' = FALSE
  /\ head' = NewNode(HEAD_TOTAL_LEN)
  /\ Moved(n)
  /\ IF bytes_transferred' = 0
     THEN ReadMore
     ELSE UNCHANGED <<handler, recvd, base, session>>

HeadThenWhole ==
  /\ HeadLegal
  /\ ~Below(bytes_transferred - head_remain, msg_len)
  /\ Deliver(AfterHead(msg_len), head_remain + msg_len)

\* The head was complete before: more of the body, but not all.
BodyPartial ==
  /\ Looping /\ b_head_parse
  /\ Below(bytes_transferred, remain_msg)
  /\ body' = Copy(body, bytes_transferred)
  /\ Moved(bytes_transferred)
  /\ ReadMore
  /\ UNCHANGED <<b_head_parse, head, delivered>>

BodyWhole ==
  /\ Looping /\ b_head_parse
  /\ ~Below(bytes_transferred, remain_msg)
  /\ Deliver(Copy(body, remain_msg), remain_msg)

\* The head of a message without room was read: the terminating zero was
\* written before the node, and whatever follows is written past it.
NoRoomRead == \E i \in 1 .. N :
  NoRoom(i) /\ Start[i] + HEAD_TOTAL_LEN <= base + copy_len

\* That is undefined: the process goes on, as above, or ends.  (_cur_len, a
\* short, would wrap after SHORT such bytes; it is not followed that far.)
Crash ==
  /\ NoRoomRead /\ handler \in {"waiting", "loop"}
  /\ handler' = "crashed"
  /\ UNCHANGED <<recvd, base, copy_len, bytes_transferred, b_head_parse, head,
                 body, delivered, session>>

-----------------------------------------------------------------------------
HandleRead == /\ \/ HeadPartial \/ HeadIllegal \/ HeadThrows
                 \/ HeadThenPartial \/ HeadThenWhole
                 \/ BodyPartial \/ BodyWhole
              /\ UNCHANGED stream

AsyncReadSome == /\ \E n \in 1 .. MAX_LENGTH : Receive(n)
                 /\ UNCHANGED stream

Next == \/ AsyncReadSome
        \/ HandleRead
        \/ (ReadError \/ Crash) /\ UNCHANGED stream

SafeSpec == Init /\ [][Next]_vars

\* A handler that was called runs, and the bytes of the peer arrive as long
\* as the connection holds.
Fairness == WF_vars(HandleRead) /\ WF_vars(AsyncReadSome)

Spec == SafeSpec /\ Fairness

-----------------------------------------------------------------------------
(* Properties.                                                             *)

\* A node never holds more than it has room for, until a head has said -1.
Node == [total : Int, cur_len : Nat, from : Nat, intact : BOOLEAN]
NodeOK(node) == node \in Node /\ (node.cur_len <= node.total \/ NoRoomRead)

\* Types; and the position in _data and in the stream agree.
TypeOK ==
  /\ stream \in Streams
  /\ handler \in {"waiting", "loop", "stopped", "crashed"}
  /\ recvd \in 0 .. Start[N + 1]
  /\ base \in Nat /\ copy_len \in Nat /\ bytes_transferred \in Nat
  /\ base + copy_len + bytes_transferred = recvd
  /\ b_head_parse \in BOOLEAN
  /\ NodeOK(head) /\ head.total = HEAD_TOTAL_LEN
  /\ NodeOK(body)
  /\ session \in {"open", "cleared", "closed", "gone"}

\* The body of message i, as the peer sent it.
Body(i) == [total |-> BodyLen(i), cur_len |-> BodyLen(i),
            from |-> Start[i] + HEAD_TOTAL_LEN, intact |-> TRUE]

\* What reaches the logic layer is the bodies of the first messages of the
\* stream, each of its own bytes and whole, however the bytes came, and none
\* from an illegal or negative head on.  (Nothing is said once a head has
\* said -1.)
InOrder ==
  ~NoRoomRead =>
    /\ Len(delivered) <= N
    /\ \A i \in DOMAIN delivered :
          delivered[i] = Body(i) /\ ~Illegal(i) /\ ~Throws(i)

\* A handler that returns has used all the bytes it was given: whatever is
\* not delivered yet is in the two nodes, and a complete message is not left
\* in them.
NothingKeptBack ==
  handler = "waiting" /\ ~NoRoomRead =>
    LET k == Len(delivered) + 1 IN
    /\ recvd = Start[k] + (IF b_head_parse THEN HEAD_TOTAL_LEN + body.cur_len
                                           ELSE head.cur_len)
    /\ k <= N => recvd < Start[k + 1]

\* The loop is only re-entered with bytes left; left with none it would
\* return without another read, and the session would be deaf: open, and
\* never read again.  It is deaf in one case, and then for good: the next
\* message has a negative length below -1, and the catch took the exception.
NeverDeaf ==
  /\ handler = "loop" => bytes_transferred > 0
  /\ handler = "stopped" /\ session = "open" =>
       Len(delivered) < N /\ Throws(Len(delivered) + 1)

\* Every message is delivered in the end, unless the handler stops or a head
\* has said -1.
AllDelivered == <>(Len(delivered) = N \/ handler = "stopped" \/ NoRoomRead)
=============================================================================
