----------------------------- MODULE SendQueue -----------------------------
(***************************************************************************)
(* The output side of a session: CSession::Send and CSession::HandleWrite. *)
(* Send runs on the thread of its caller (the logic worker, when it        *)
(* replies), HandleWrite on the I/O thread.  Both change _send_que under   *)
(* _send_lock, and a write is started by whoever finds that none is under  *)
(* way: Send when the queue was empty, HandleWrite when it is not empty    *)
(* after the pop.  The write itself is started after the lock is released. *)
(* The buffer handed to async_write belongs to the node at the front of    *)
(* the queue and to nobody else.                                           *)
(*                                                                         *)
(* async_write sends its buffer piece by piece; two pieces per frame are   *)
(* enough to tell a frame that went out whole from two that got mixed.     *)
(***************************************************************************)
EXTENDS Naturals, Sequences, SequencesExt

CONSTANTS Senders,     (* the threads that call Send                       *)
          Msgs,        (* the messages they send                           *)
          MAX_SENDQUE

ASSUME SendersAssumption == "io" \notin Senders /\ "free" \notin Senders
ASSUME MsgsAssumption == "none" \notin Msgs
ASSUME MaxAssumption == MAX_SENDQUE \in Nat

Threads == Senders \cup {"io"}

VARIABLES
  send_que,   (* _send_que                                                 *)
  send_lock,  (* the sender that owns _send_lock, or "free"                *)
  pc,         (* where each thread is in Send or HandleWrite               *)
  size,       (* send_que_size, the local variable of Send                 *)
  node,       (* the message a thread is sending, or its local msgnode     *)
  writes,     (* external: the operations async_write has under way        *)
  done,       (* external: the completions whose handler has not run yet,  *)
              (* each "ok" or with an "error"                              *)
  socket,     (* "open", "broken" by the peer, or "closed" by Close        *)
  todo,       (* the messages not given to Send yet                        *)
  accepted,   (* history: the messages pushed, in that order               *)
  wire        (* history: the pieces that went out                         *)

queueVars == <<send_que, send_lock, pc, size, node, writes, done, socket, todo,
               accepted, wire>>

QueueInit == /\ send_que = <<>>
             /\ send_lock = "free"
             /\ pc = [t \in Threads |-> "idle"]
             /\ size = [s \in Senders |-> 0]
             /\ node = [t \in Threads |-> "none"]
             /\ writes = <<>>
             /\ done = <<>>
             /\ socket = "open"
             /\ todo = Msgs
             /\ accepted = <<>>
             /\ wire = <<>>

-----------------------------------------------------------------------------
(* Send                                                                    *)

SendEnter(s, m) ==
  /\ pc[s] = "idle"
  /\ m \in todo
  /\ send_lock = "free"
  /\ send_lock' = s
  /\ size' = [size EXCEPT ![s] = Len(send_que)]
  /\ node' = [node EXCEPT ![s] = m]
  /\ todo' = todo \ {m}
  /\ pc' = [pc EXCEPT ![s] = "sized"]
  /\ UNCHANGED <<send_que, writes, done, socket, accepted, wire>>

\* The queue is full: the message is dropped.
SendDrop(s) ==
  /\ pc[s] = "sized"
  /\ size[s] > MAX_SENDQUE
  /\ send_lock' = "free"
  /\ node' = [node EXCEPT ![s] = "none"]
  /\ pc' = [pc EXCEPT ![s] = "idle"]
  /\ UNCHANGED <<send_que, size, writes, done, socket, todo, accepted, wire>>

\* Mutant: every Send starts a write of its own.
SendPush_AlwaysWrites(s) ==
  /\ pc[s] = "sized"
  /\ size[s] <= MAX_SENDQUE
  /\ send_que' = Append(send_que, node[s])
  /\ accepted' = Append(accepted, node[s])
  /\ send_lock' = "free"
  /\ pc' = [pc EXCEPT ![s] = "write"]
  /\ UNCHANGED <<size, node, writes, done, socket, todo, wire>>

\* Mutant: no limit.
SendPush_NoLimit(s) ==
  /\ pc[s] = "sized"
  /\ send_que' = Append(send_que, node[s])
  /\ accepted' = Append(accepted, node[s])
  /\ send_lock' = "free"
  /\ node' = [node EXCEPT ![s] = IF size[s] > 0 THEN "none" ELSE Head(send_que')]
  /\ pc' = [pc EXCEPT ![s] = IF size[s] > 0 THEN "idle" ELSE "write"]
  /\ UNCHANGED <<size, writes, done, socket, todo, wire>>

\* Push; when the queue was empty, go on to write its front.
SendPush(s) ==
  /\ pc[s] = "sized"
  /\ size[s] <= MAX_SENDQUE
  /\ send_que' = Append(send_que, node[s])
  /\ accepted' = Append(accepted, node[s])
  /\ send_lock' = "free"
  /\ node' = [node EXCEPT ![s] = IF size[s] > 0 THEN "none" ELSE Head(send_que')]
  /\ pc' = [pc EXCEPT ![s] = IF size[s] > 0 THEN "idle" ELSE "write"]
  /\ UNCHANGED <<size, writes, done, socket, todo, wire>>

\* async_write on the node taken from the front of the queue.
StartWrite(t) ==
  /\ pc[t] = "write"
  /\ writes' = Append(writes, [msg |-> node[t], pieces |-> 0])
  /\ node' = [node EXCEPT ![t] = "none"]
  /\ pc' = [pc EXCEPT ![t] = "idle"]
  /\ UNCHANGED <<send_que, send_lock, size, done, socket, todo, accepted, wire>>

-----------------------------------------------------------------------------
(* HandleWrite, and the other end of the socket                            *)

\* Mutant: the front is taken before the pop.
HandleWriteOk_FrontFirst ==
  /\ pc["io"] = "idle"
  /\ done # <<>> /\ Head(done) = "ok"
  /\ done' = Tail(done)
  /\ send_lock = "free"
  /\ send_que' = Tail(send_que)
  /\ pc' = [pc EXCEPT !["io"] = IF send_que' # <<>> THEN "write" ELSE "idle"]
  /\ node' = [node EXCEPT !["io"] = IF send_que' # <<>> THEN Head(send_que) ELSE "none"]
  /\ UNCHANGED <<send_lock, size, writes, socket, todo, accepted, wire>>

\* Mutant: the message written is not popped.
HandleWriteOk_NoPop ==
  /\ pc["io"] = "idle"
  /\ done # <<>> /\ Head(done) = "ok"
  /\ done' = Tail(done)
  /\ send_lock = "free"
  /\ pc' = [pc EXCEPT !["io"] = IF send_que # <<>> THEN "write" ELSE "idle"]
  /\ node' = [node EXCEPT !["io"] = IF send_que # <<>> THEN Head(send_que) ELSE "none"]
  /\ UNCHANGED <<send_que, send_lock, size, writes, socket, todo, accepted, wire>>

\* Mutant: the next message is left to the next Send.
HandleWriteOk_NoNext ==
  /\ pc["io"] = "idle"
  /\ done # <<>> /\ Head(done) = "ok"
  /\ done' = Tail(done)
  /\ send_lock = "free"
  /\ send_que' = Tail(send_que)
  /\ UNCHANGED <<send_lock, pc, size, node, writes, socket, todo, accepted, wire>>

\* The write went well: pop it, and write the next message if there is one.
HandleWriteOk ==
  /\ pc["io"] = "idle"
  /\ done # <<>> /\ Head(done) = "ok"
  /\ done' = Tail(done)
  /\ send_lock = "free"
  /\ send_que' = Tail(send_que)
  /\ pc' = [pc EXCEPT !["io"] = IF send_que' # <<>> THEN "write" ELSE "idle"]
  /\ node' = [node EXCEPT !["io"] = IF send_que' # <<>> THEN Head(send_que') ELSE "none"]
  /\ UNCHANGED <<send_lock, size, writes, socket, todo, accepted, wire>>

\* The write failed: Close().  The queue keeps what it holds.
HandleWriteError ==
  /\ pc["io"] = "idle"
  /\ done # <<>> /\ Head(done) = "error"
  /\ done' = Tail(done)
  /\ socket' = "closed"
  /\ UNCHANGED <<send_que, send_lock, pc, size, node, writes, todo, accepted, wire>>

\* The reading side of the session, on the same I/O thread, calls Close().
ReaderClose ==
  /\ pc["io"] = "idle"
  /\ socket # "closed"
  /\ socket' = "closed"
  /\ UNCHANGED <<send_que, send_lock, pc, size, node, writes, done, todo, accepted, wire>>

PeerBreaks ==
  /\ socket = "open"
  /\ socket' = "broken"
  /\ UNCHANGED <<send_que, send_lock, pc, size, node, writes, done, todo, accepted, wire>>

WritePiece(i) ==
  /\ socket = "open"
  /\ writes[i].pieces < 2
  /\ writes' = [writes EXCEPT ![i].pieces = @ + 1]
  /\ wire' = Append(wire, <<writes[i].msg, writes[i].pieces + 1>>)
  /\ UNCHANGED <<send_que, send_lock, pc, size, node, done, socket, todo, accepted>>

WriteCompletes(i) ==
  /\ writes[i].pieces = 2 \/ socket # "open"
  /\ writes' = RemoveAt(writes, i)
  /\ done' = Append(done, IF writes[i].pieces < 2 THEN "error" ELSE "ok")
  /\ UNCHANGED <<send_que, send_lock, pc, size, node, socket, todo, accepted, wire>>

-----------------------------------------------------------------------------
Send(s) == (\E m \in Msgs : SendEnter(s, m)) \/ SendDrop(s) \/ SendPush(s)

HandleWrite == HandleWriteOk \/ HandleWriteError

AsyncWrite == \E i \in DOMAIN writes : WritePiece(i) \/ WriteCompletes(i)

QueueNext == \/ \E s \in Senders : Send(s)
             \/ \E t \in Threads : StartWrite(t)
             \/ HandleWrite
             \/ AsyncWrite
             \/ ReaderClose
             \/ PeerBreaks

QueueSafeSpec == QueueInit /\ [][QueueNext]_queueVars

\* Threads that can go on do, the peer reads what is sent to it while the
\* connection is up, and the I/O thread runs the handlers that are ready.
QueueFairness == /\ \A s \in Senders : WF_queueVars(SendDrop(s) \/ SendPush(s))
                 /\ \A t \in Threads : WF_queueVars(StartWrite(t))
                 /\ WF_queueVars(HandleWrite)
                 /\ WF_queueVars(AsyncWrite)

QueueSpec == QueueSafeSpec /\ QueueFairness

-----------------------------------------------------------------------------
(* Properties.                                                             *)

\* Well formed; a sender owns _send_lock exactly from reading the size to the
\* unlock.
QueueTypeOK ==
  /\ send_que \in Seq(Msgs)
  /\ send_lock \in Senders \cup {"free"}
  /\ pc \in [Threads -> {"idle", "sized", "write"}]
  /\ size \in [Senders -> Nat]
  /\ node \in [Threads -> Msgs \cup {"none"}]
  /\ \A t \in Threads : pc[t] = "idle" <=> node[t] = "none"
  /\ \A s \in Senders : pc[s] = "sized" <=> send_lock = s
  /\ writes \in Seq([msg : Msgs, pieces : 0 .. 2])
  /\ done \in Seq({"ok", "error"})
  /\ socket \in {"open", "broken", "closed"}
  /\ todo \subseteq Msgs
  /\ accepted \in Seq(Msgs)
  /\ wire \in Seq(Msgs \X {1, 2})

\* The writes under way, counted from the decision to start one up to the
\* run of its handler, one set of each kind.
Starting == {t \in Threads : pc[t] = "write"}
Running == DOMAIN writes
Completed == {i \in DOMAIN done : done[i] = "ok"}

\* There is never more than one write under way on the socket, and as long
\* as the connection is up there is one whenever the queue is not empty:
\* nobody else would ever start it.
OneWriter ==
  /\ \A t, u \in Starting : t = u
  /\ Len(writes) + Len(done) <= 1
  /\ Starting # {} => writes = <<>> /\ done = <<>>
  /\ send_que = <<>> => Starting = {} /\ Running = {} /\ done = <<>>
  /\ socket = "open" /\ send_que # <<>> =>
       Starting # {} \/ Running # {} \/ Completed # {}

\* The buffer of a write under way is kept alive by the queue only: its
\* node must stay at the front until the handler has run.
BufferAlive ==
  /\ \A i \in Running : send_que # <<>> /\ writes[i].msg = Head(send_que)
  /\ \A t \in Starting : send_que # <<>> /\ node[t] = Head(send_que)

\* What goes out is the accepted messages, each whole, in order.
FramesInOrder ==
  \A i \in DOMAIN wire :
    /\ (i + 1) \div 2 \in DOMAIN accepted
    /\ wire[i] = <<accepted[(i + 1) \div 2], 2 - (i % 2)>>

\* The limit tested by Send lets one message more than MAX_SENDQUE in.
Bounded == Len(send_que) <= MAX_SENDQUE + 1

\* A session is an output channel: accepted messages go out whole and in
\* order, and do go out as long as the connection is up.
Output == INSTANCE SessionOutput
          WITH Room <- MAX_SENDQUE + 1,
               sent <- Len(wire) \div 2,
               up <- socket = "open"

OutputSpec == Output!Spec
=============================================================================
