------------------------------ MODULE ApiSession ------------------------------
(***************************************************************************)
(* The Session of AsyncApi: three generations of an asynchronous write,    *)
(*                                                                         *)
(*  "err"    WriteToSocketErr: one node, _send_node, for all messages      *)
(*  "queue"  WriteToSocket: a queue, written piece by piece                *)
(*  "all"    WriteAllToSocket: the queue again, with async_send            *)
(*                                                                         *)
(* and the two reads, which differ in the name of the asio call only.  The *)
(* owner calls the methods from the thread that runs the handlers: there   *)
(* is no lock.                                                             *)
(*                                                                         *)
(* async_write_some and async_send take a part of their buffer and call    *)
(* the handler once.  The first write of a burst hands over the buffer of  *)
(* a parameter that is gone when the method returns: what such a write     *)
(* takes from it later may be right or not.                                *)
(***************************************************************************)
EXTENDS Integers, Sequences

CONSTANTS Kinds,     (* the generations                                    *)
          MaxMsgs,   (* how many messages the owner writes at most         *)
          MsgLen,    (* their length                                       *)
          RECVSIZE,
          MaxBytes   (* how many bytes the peer sends at most              *)

ASSUME KindsAssumption == Kinds \subseteq {"err", "queue", "all"}
ASSUME ApiSizesAssumption == /\ MaxMsgs \in Nat /\ MaxBytes \in Nat
                             /\ MsgLen \in Nat \ {0} /\ RECVSIZE \in Nat \ {0}

Msgs == 1 .. MaxMsgs

VARIABLES
  kind,
  conn,      (* the socket: "new", "up", or "down" when the peer is gone   *)
  called,    (* the messages handed to a write so far                      *)
  node,      (* _send_node, the number of its message; 0 is nullptr        *)
  queue,     (* _send_queue                                                *)
  cur,       (* _cur_len of the node of each message                       *)
  pending,   (* _send_pending                                              *)
  ops,       (* the writes asio has under way, in the order of their start *)
  done,      (* the completions whose handlers are still to be called      *)
  wire,      (* history: what went out                                     *)
  overlap,   (* history: was a message handed to "err" during a write?     *)
  failed,    (* history: did a write end in an error?                      *)
  recv_pending, (* _recv_pending: is there a _recv_node and a read of it?  *)
  got,       (* _cur_len of _recv_node                                     *)
  arrived    (* history: the bytes received                                *)

writing == <<called, node, queue, cur, pending, ops, done, wire, overlap, failed>>
reading == <<recv_pending, got, arrived>>
apiVars == <<kind, conn, writing, reading>>

ApiInit == /\ kind \in Kinds
           /\ conn = "new"
           /\ called = 0 /\ node = 0 /\ queue = <<>>
           /\ cur = [m \in Msgs |-> 0]
           /\ pending = FALSE
           /\ ops = <<>> /\ done = <<>> /\ wire = <<>>
           /\ overlap = FALSE /\ failed = FALSE
           /\ recv_pending = FALSE /\ got = 0 /\ arrived = 0

\* Connect: where it throws, nothing has changed.
ConnectSession == /\ conn = "new"
                  /\ conn' = "up"
                  /\ UNCHANGED <<kind, writing, reading>>

-----------------------------------------------------------------------------
(* Writing.                                                                *)

\* A write of the bytes of m from off on, whose handler was bound to the
\* node of mine; alive tells whether somebody owns the buffer.
Write(m, off, mine, alive) ==
  [m |-> m, off |-> off, len |-> MsgLen - off, mine |-> mine, alive |-> alive]

\* The owner has another message.
Calls == conn # "new" /\ called < MaxMsgs /\ called' = called + 1

WriteToSocketErr ==
  /\ kind = "err" /\ Calls
  /\ node' = called'
  /\ ops' = Append(ops, Write(called', 0, called', TRUE))
  /\ overlap' = (overlap \/ ops # <<>> \/ done # <<>>)
  /\ UNCHANGED <<kind, conn, queue, cur, pending, done, wire, failed, reading>>

\* The handler adds to the node that is current now, and writes on from it.
\* It does not look at the error.
WriteCallBackErr ==
  /\ kind = "err" /\ done # <<>>
  /\ LET d == Head(done)
     IN  IF d.n + cur[d.mine] < MsgLen
         THEN /\ cur' = [cur EXCEPT ![node] = @ + d.n]
              /\ ops' = Append(ops, Write(node, cur'[node], node, TRUE))
         ELSE UNCHANGED <<cur, ops>>
  /\ done' = Tail(done)
  /\ UNCHANGED <<kind, conn, called, node, queue, pending, wire, overlap, failed,
                 reading>>

\* Mutant: every message is written at once.
Enqueue_Eager ==
  /\ Calls
  /\ queue' = Append(queue, called')
  /\ ops' = Append(ops, Write(called', 0, called', FALSE))
  /\ pending' = TRUE
  /\ UNCHANGED <<kind, conn, node, cur, done, wire, overlap, failed, reading>>

\* Queue the message; write it if no write is pending, out of the parameter.
Enqueue ==
  /\ Calls
  /\ queue' = Append(queue, called')
  /\ ops' = IF pending THEN ops ELSE Append(ops, Write(called', 0, called', FALSE))
  /\ pending' = TRUE
  /\ UNCHANGED <<kind, conn, node, cur, done, wire, overlap, failed, reading>>

WriteToSocket == kind = "queue" /\ Enqueue
WriteAllToSocket == kind = "all" /\ Enqueue

\* Mutant: the flag is left set when the queue has run empty.
StartNext_StaysPending ==
  /\ queue' = Tail(queue)
  /\ pending' = TRUE
  /\ ops' = IF queue' = <<>> THEN ops
            ELSE Append(ops, Write(Head(queue'), cur[Head(queue')], Head(queue'), TRUE))

\* The front is out: pop it, and write the one behind it.
StartNext ==
  /\ queue' = Tail(queue)
  /\ pending' = (queue' # <<>>)
  /\ ops' = IF queue' = <<>> THEN ops
            ELSE Append(ops, Write(Head(queue'), cur[Head(queue')], Head(queue'), TRUE))

Completed(which) == kind \in which /\ done # <<>> /\ done' = Tail(done)

\* Mutant: the rest is written from the start of the node.
WrietCallBack_FromStart ==
  /\ Completed({"queue"}) /\ ~Head(done).ec
  /\ LET m == Head(queue)
     IN  /\ cur' = [cur EXCEPT ![m] = @ + Head(done).n]
         /\ IF cur'[m] < MsgLen
            THEN ops' = Append(ops, Write(m, 0, m, TRUE)) /\ UNCHANGED <<queue, pending>>
            ELSE StartNext
  /\ UNCHANGED <<kind, conn, called, node, wire, overlap, failed, reading>>

\* Write the rest of the front, or go on to the next message.
WrietCallBack ==
  /\ Completed({"queue"}) /\ ~Head(done).ec
  /\ LET m == Head(queue)
     IN  /\ cur' = [cur EXCEPT ![m] = @ + Head(done).n]
         /\ IF cur'[m] < MsgLen
            THEN ops' = Append(ops, Write(m, cur'[m], m, TRUE)) /\ UNCHANGED <<queue, pending>>
            ELSE StartNext
  /\ UNCHANGED <<kind, conn, called, node, wire, overlap, failed, reading>>

\* One call back per message, however much of it was sent.
WriteAllCallBack ==
  /\ Completed({"all"}) /\ ~Head(done).ec
  /\ StartNext
  /\ UNCHANGED <<kind, conn, called, node, cur, wire, overlap, failed, reading>>

\* Both return from an error at once: the queue and the flag stay.
WriteError ==
  /\ Completed({"queue", "all"}) /\ Head(done).ec
  /\ failed' = TRUE
  /\ UNCHANGED <<kind, conn, called, node, queue, cur, pending, ops, wire, overlap,
                 reading>>

-----------------------------------------------------------------------------
(* Reading.                                                                *)

ReadFromSocket ==
  /\ conn # "new"
  /\ ~recv_pending
  /\ recv_pending' = TRUE
  /\ got' = 0
  /\ UNCHANGED <<kind, conn, writing, arrived>>

\* The same, but for async_receive; its handler is ReadCallBack too.
ReadAllFromSocket == ReadFromSocket

\* Mutant: one call back is taken for the whole node.
ReadCallBack_Once(n) ==
  /\ recv_pending
  /\ got' = got + n /\ arrived' = arrived + n
  /\ recv_pending' = FALSE
  /\ UNCHANGED <<kind, conn, writing>>

\* n bytes more, none if the read failed, which the handler does not look
\* at; it reads on until the node is full.
ReadCallBack(n) ==
  /\ recv_pending
  /\ got' = got + n /\ arrived' = arrived + n
  /\ recv_pending' = (got' < RECVSIZE)
  /\ UNCHANGED <<kind, conn, writing>>

-----------------------------------------------------------------------------
(* External: asio and the peer.                                            *)

\* Byte i of message m; of a buffer that nobody owns it may be another one.
Byte(m, i, right) == [m |-> m, i |-> i, right |-> right]

\* The first write under way takes k bytes of its buffer, or, of an empty
\* one, none.  Past the end of a node it takes what is there.
Transfer(k) ==
  /\ conn = "up" /\ ops # <<>>
  /\ LET op == Head(ops)
     IN  /\ k <= op.len \/ (op.len < 0 /\ k = 1)
         /\ k > 0 \/ op.len = 0
         /\ \E right \in {op.len >= 0, op.alive /\ op.len >= 0} :
              wire' = wire \o [i \in 1 .. k |-> Byte(op.m, op.off + i, right)]
         /\ done' = Append(done, [ec |-> FALSE, n |-> k, mine |-> op.mine])
  /\ ops' = Tail(ops)
  /\ UNCHANGED <<kind, conn, called, node, queue, cur, pending, overlap, failed,
                 reading>>

WriteFails ==
  /\ conn = "down" /\ ops # <<>>
  /\ done' = Append(done, [ec |-> TRUE, n |-> 0, mine |-> Head(ops).mine])
  /\ ops' = Tail(ops)
  /\ UNCHANGED <<kind, conn, called, node, queue, cur, pending, wire, overlap,
                 failed, reading>>

\* A read ends with some bytes, as long as the bound lets the peer send, or
\* with none if the peer is gone.
ReadCompletes == \/ conn = "up" /\ \E n \in 1 .. RECVSIZE - got :
                                     arrived + n <= MaxBytes /\ ReadCallBack(n)
                 \/ conn = "down" /\ ReadCallBack(0)

PeerGoes == /\ conn = "up"
            /\ conn' = "down"
            /\ UNCHANGED <<kind, writing, reading>>

-----------------------------------------------------------------------------
WriteCallBack == WriteCallBackErr \/ WrietCallBack \/ WriteAllCallBack \/ WriteError
WriteCompletes == (\E k \in 0 .. MsgLen : Transfer(k)) \/ WriteFails

ApiNext == \/ ConnectSession
           \/ WriteToSocketErr \/ WriteToSocket \/ WriteAllToSocket
           \/ WriteCallBack \/ WriteCompletes
           \/ ReadFromSocket \/ ReadAllFromSocket \/ ReadCompletes
           \/ PeerGoes

ApiSafeSpec == ApiInit /\ [][ApiNext]_apiVars

\* asio completes writes and calls handlers; neither the owner nor the peer
\* has to do anything.
ApiFairness == WF_apiVars(WriteCallBack) /\ WF_apiVars(WriteCompletes)

ApiSpec == ApiSafeSpec /\ ApiFairness

-----------------------------------------------------------------------------
(* Properties.                                                             *)

Busy == ops # <<>> \/ done # <<>>

\* Well formed; and _send_pending means what its name says: it is set while
\* messages are queued, one write is then under way, except for good after
\* an error, when no message leaves the queue any more.
TypeOK ==
  /\ kind \in Kinds /\ conn \in {"new", "up", "down"}
  /\ called \in 0 .. MaxMsgs /\ node \in 0 .. MaxMsgs
  /\ queue \in Seq(Msgs) /\ cur \in [Msgs -> Nat]
  /\ recv_pending \in BOOLEAN /\ got \in 0 .. RECVSIZE /\ arrived \in 0 .. MaxBytes
  /\ overlap \in BOOLEAN /\ failed \in BOOLEAN
  /\ pending = (queue # <<>>)
  /\ kind # "err" => /\ Len(ops) + Len(done) = IF pending /\ ~failed THEN 1 ELSE 0
                     /\ failed => pending /\ conn = "down"

Before(x, y) == x.m < y.m \/ (x.m = y.m /\ x.i < y.i)

\* What goes out is the messages in the order of the calls, byte by byte.
\* "all" may leave out the end of a message (see SendsAll); the first bytes of
\* a burst may be wrong in both queues (see alive), and no others; and
\* in "err" the order holds as long as no message comes during a write.
OrderKept ==
  ~overlap =>
    \A j \in DOMAIN wire :
      LET b == wire[j]
      IN  /\ \A i \in 1 .. j - 1 : Before(wire[i], b)
          /\ kind # "all" => b.m = ((j - 1) \div MsgLen) + 1 /\ b.i = ((j - 1) % MsgLen) + 1
          /\ ~b.right => /\ kind # "err"
                         /\ \A i \in 1 .. j - 1 : wire[i].m = b.m => ~wire[i].right

\* A read that has ended filled its node, whichever method started it: where
\* the peer leaves earlier, the read never ends.
ReadsWhole == ~recv_pending => arrived % RECVSIZE = 0

\* Each message goes out to its last byte ("all": at least its first, see
\* SendsAll), unless the connection fails, or messages to "err" overlap.
AllSent ==
  []<>(conn = "down" \/ overlap \/
       \A m \in 1 .. called :
         \E j \in DOMAIN wire : wire[j].m = m /\ (wire[j].i = MsgLen \/ kind = "all"))

\* "async_send sends everything at once", with one call back (Session.h:23):
\* a message that the queue of "all" has let go of is out to its last byte.
SendsAll ==
  kind = "all" =>
    \A m \in 1 .. called : \/ \E k \in DOMAIN queue : queue[k] = m
                           \/ \E j \in DOMAIN wire : wire[j].m = m /\ wire[j].i = MsgLen
=============================================================================
