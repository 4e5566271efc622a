--------------------------- MODULE CallbackSession ---------------------------
(***************************************************************************)
(* One connection of the four servers written with callbacks, from accept  *)
(* to the destruction of its session:                                      *)
(*                                                                         *)
(*  "AsyncServer"     slices its reads, replies from the read handler      *)
(*  "async_read_use"  reads a head, then a body; replies from the handler  *)
(*  "logical"         slices; the worker of the logic layer replies        *)
(*  "thread_pool"     the same                                             *)
(*                                                                         *)
(* In the first two a single thread runs everything.  In the others main,  *)
(* or another thread of the pool, runs the accept handler beside the       *)
(* handlers of the session, which one thread or a strand keeps in line.    *)
(* Every handler holds a shared_ptr to its session.                        *)
(*                                                                         *)
(* The worker's queue is that of LogicSystem with PostLocks = FALSE: in    *)
(* both servers that have it PostMsgToQue locks nothing, so that a message *)
(* may be lost on its way in, and the worker may sleep beside one.         *)
(*                                                                         *)
(* An exception, from a node of negative size or from a socket that fails  *)
(* to close, is caught in the handlers of "logical" and "thread_pool", and *)
(* by main, which then ends the server, in the other two.                  *)
(*                                                                         *)
(* The slicing is the subject of FrameReader, the locking inside Send of   *)
(* SendQueue: here a handler runs in one step.                             *)
(***************************************************************************)
EXTENDS Naturals, Sequences, FiniteSets

CONSTANTS Kinds,        (* the servers                                     *)
          MaxMsgs,      (* how many requests the peer sends at most        *)
          MAX_SENDQUE

ASSUME KindsAssumption ==
  Kinds \subseteq {"AsyncServer", "async_read_use", "logical", "thread_pool"}
ASSUME BoundAssumption == MaxMsgs \in Nat /\ MAX_SENDQUE \in Nat

VARIABLES
  kind,      (* the server this is                                         *)
  accept,    (* HandleAccept: "listening", "started" the session, "done"   *)
  in_map,    (* is the session in _sessions?                               *)
  read,      (* the read: "busy", "ok" or "error" once over, "none"        *)
  expect,    (* what an async_read waits for: "head" or "body"             *)
  write,     (* the write under way, as read                               *)
  send_que,  (* _send_que: the numbers of the requests it replies to       *)
  msg_que,   (* the part of the logic layer's _msg_que that is ours        *)
  stalled,   (* does the worker sleep beside the messages of _msg_que?     *)
  open,      (* is the socket open?                                        *)
  peer,      (* "up", or "gone" when all it sent was read                  *)
  received,  (* history: the number of requests handled                    *)
  answers,   (* history: the replies written out                           *)
  dropped,   (* history: the requests without a reply, by design           *)
  lost,      (* history: the requests whose posting raced and was lost     *)
  failed,    (* history: HandleWrite was called with an error              *)
  early,     (* history: ClearSession was called before the insertion      *)
  thrown     (* history: "no", "caught" in HandleRead, "ended" the server  *)

server == <<kind, peer>>
input == <<read, expect, received>>
output == <<write, send_que, answers>>
logic == <<msg_que, stalled, lost>>
history == <<failed, early, thrown>>
vars == <<server, accept, in_map, input, output, logic, open, dropped, history>>

OneThread == kind \in {"AsyncServer", "async_read_use"}
Slices == kind # "async_read_use"

\* The single thread is busy with HandleAccept between Start and insert.
MayRun == OneThread => accept # "started"

\* The shared_ptrs: accept handler, map, the two handlers, the LogicNodes.
Alive == \/ accept # "done" \/ in_map
         \/ read # "none" \/ write # "none"
         \/ msg_que # <<>>

Init == /\ kind \in Kinds
        /\ accept = "listening" /\ in_map = FALSE
        /\ read = "none" /\ expect = "head" /\ received = 0
        /\ write = "none" /\ send_que = <<>> /\ answers = <<>>
        /\ msg_que = <<>> /\ stalled = FALSE /\ lost = {} /\ dropped = {}
        /\ open = TRUE /\ peer = "up"
        /\ failed = FALSE /\ early = FALSE /\ thrown = "no"

-----------------------------------------------------------------------------
(* CServer                                                                 *)

AcceptFails ==
  /\ accept = "listening"
  /\ accept' = "done"
  /\ UNCHANGED <<server, in_map, input, output, logic, open, dropped, history>>

\* HandleAccept starts the first read ...
Start ==
  /\ accept = "listening"
  /\ accept' = "started"
  /\ read' = "busy"
  /\ UNCHANGED <<server, in_map, expect, received, output, logic, open, dropped,
                 history>>

\* ... inserts the session, and lets go of it.
Insert ==
  /\ accept = "started"
  /\ accept' = "done"
  /\ in_map' = TRUE
  /\ UNCHANGED <<server, input, output, logic, open, dropped, history>>

ClearSession == /\ in_map' = FALSE
                /\ early' = (early \/ accept # "done")

-----------------------------------------------------------------------------
(* Send                                                                    *)

\* The first n of these go into the queue, and a write starts if it was empty.
Push(reqs, n) ==
  /\ send_que' = send_que \o SubSeq(reqs, 1, n)
  /\ dropped' = dropped \cup {reqs[i] : i \in n + 1 .. Len(reqs)}
  /\ write' = IF send_que = <<>> /\ n > 0 THEN "busy" ELSE write

\* One Send per request: AsyncServer has no limit ...
SendAll(reqs) == Push(reqs, Len(reqs))

\* Mutant: room for one message too many.
SendRoom_OneMore(reqs) ==
  LET room == MAX_SENDQUE + 2 - Len(send_que)
  IN  Push(reqs, IF Len(reqs) <= room THEN Len(reqs) ELSE room)

\* ... the others drop what comes to a full queue.
SendRoom(reqs) ==
  LET room == MAX_SENDQUE + 1 - Len(send_que)
  IN  Push(reqs, IF Len(reqs) <= room THEN Len(reqs) ELSE room)

Send(reqs) == IF kind = "AsyncServer" THEN SendAll(reqs) ELSE SendRoom(reqs)

-----------------------------------------------------------------------------
(* The read handlers                                                       *)

\* The next n requests are complete: reply to them.
Handle(n) ==
  /\ received' = received + n
  /\ Send([i \in 1 .. n |-> received + i])
  /\ UNCHANGED <<answers, logic>>

\* The loop completes a message and calls PostMsgToQue, which locks nothing.
\* The push may race, with another session or the worker, and be lost.  Into an
\* empty queue it notifies, but perhaps while the worker is between its test
\* and its wait; and where a push of another session comes in between, neither
\* sees the size 1.
Post ==
  /\ read = "ok" /\ ~OneThread
  /\ received' = received + 1
  /\ \/ msg_que' = Append(msg_que, received') /\ lost' = lost
     \/ lost' = lost \cup {received'} /\ msg_que' = msg_que
  /\ stalled' \in IF msg_que = <<>> THEN BOOLEAN ELSE {stalled}
  /\ UNCHANGED <<server, accept, in_map, read, expect, output, open, dropped,
                 history>>

Reads(result) == read = result /\ MayRun

\* HandleRead: the bytes complete n messages, or none (where they are posted,
\* Post has come before); read on.
ReadSome(n) ==
  /\ Reads("ok") /\ Slices
  /\ n > 0 => OneThread
  /\ Handle(n)
  /\ read' = "busy"
  /\ UNCHANGED <<server, accept, in_map, expect, open, history>>

\* ... or an illegal head follows them: ClearSession, but no Close.
ReadSomeIllegal(n) ==
  /\ Reads("ok") /\ Slices
  /\ n > 0 => OneThread
  /\ Handle(n)
  /\ ClearSession
  /\ read' = "none"
  /\ UNCHANGED <<server, accept, expect, open, failed, thrown>>

HandleReadHead ==
  /\ Reads("ok") /\ ~Slices /\ expect = "head"
  /\ expect' = "body"
  /\ read' = "busy"
  /\ UNCHANGED <<server, accept, in_map, received, output, logic, open, dropped,
                 history>>

HandleReadHeadIllegal ==
  /\ Reads("ok") /\ ~Slices /\ expect = "head"
  /\ ClearSession
  /\ read' = "none"
  /\ UNCHANGED <<server, accept, expect, received, output, logic, open, dropped,
                 failed, thrown>>

HandleReadMsg ==
  /\ Reads("ok") /\ ~Slices /\ expect = "body"
  /\ Handle(1)
  /\ expect' = "head"
  /\ read' = "busy"
  /\ UNCHANGED <<server, accept, in_map, open, history>>

\* Mutant: the session is not erased.
ReadError_Kept ==
  /\ Reads("error")
  /\ open' = FALSE
  /\ read' = "none"
  /\ UNCHANGED <<server, accept, in_map, expect, received, output, logic,
                 dropped, history>>

\* Any read handler with an error: Close and ClearSession.
ReadError ==
  /\ Reads("error")
  /\ open' = FALSE
  /\ ClearSession
  /\ read' = "none"
  /\ UNCHANGED <<server, accept, expect, received, output, logic, dropped,
                 failed, thrown>>

\* What is still to be written: the queue without the reply that is out.
Unwritten == IF write = "ok" THEN Tail(send_que) ELSE send_que

\* Nothing catches it before main, which destroys the server, its io_context
\* and with them the session (send_que keeps what was never written).
ServerEnds == /\ thrown' = "ended"
              /\ send_que' = Unwritten
              /\ in_map' = FALSE /\ open' = FALSE
              /\ read' = "none" /\ write' = "none"

\* A node of negative size for the next message, or a Close that fails: the
\* catch of HandleRead neither clears the session nor reads on.
ReadThrows ==
  /\ MayRun
  /\ \/ read = "error"
     \/ read = "ok" /\ (Slices \/ expect = "head")
  /\ IF OneThread THEN ServerEnds
     ELSE /\ thrown' = "caught"
          /\ open' = (open /\ read = "ok")
          /\ read' = "none"
          /\ UNCHANGED <<in_map, write, send_que>>
  /\ UNCHANGED <<server, accept, expect, received, answers, logic, dropped,
                 failed, early>>

-----------------------------------------------------------------------------
(* HandleWrite                                                             *)

\* Mutant: the write of what remains is left to the next Send.
WriteOk_NoNext ==
  /\ write = "ok" /\ MayRun
  /\ send_que' = Tail(send_que)
  /\ write' = "none"
  /\ UNCHANGED <<server, accept, in_map, input, answers, logic, open, dropped,
                 history>>

\* Mutant: the reply stays in the queue.
WriteOk_NoPop ==
  /\ write = "ok" /\ MayRun
  /\ write' = "busy"
  /\ UNCHANGED <<server, accept, in_map, input, send_que, answers, logic, open,
                 dropped, history>>

\* Pop the reply that is out, and write the next.
WriteOk ==
  /\ write = "ok" /\ MayRun
  /\ send_que' = Tail(send_que)
  /\ write' = IF send_que' = <<>> THEN "none" ELSE "busy"
  /\ UNCHANGED <<server, accept, in_map, input, answers, logic, open, dropped,
                 history>>

\* Mutant: the write is tried again.
WriteError_Retries ==
  /\ write = "error" /\ MayRun
  /\ open' = (open /\ kind = "AsyncServer")
  /\ ClearSession
  /\ write' = "busy"
  /\ failed' = TRUE
  /\ UNCHANGED <<server, accept, input, send_que, answers, logic, dropped, thrown>>

\* Close (not in AsyncServer) and ClearSession; the queue is left as it is.
WriteError ==
  /\ write = "error" /\ MayRun
  /\ open' = (open /\ kind = "AsyncServer")
  /\ ClearSession
  /\ write' = "none"
  /\ failed' = TRUE
  /\ UNCHANGED <<server, accept, input, send_que, answers, logic, dropped, thrown>>

\* The Close fails: no ClearSession, but the read fails too, and calls it.
WriteThrows ==
  /\ write = "error" /\ MayRun /\ kind # "AsyncServer"
  /\ failed' = TRUE
  /\ IF OneThread THEN ServerEnds
     ELSE /\ open' = FALSE
          /\ write' = "none"
          /\ UNCHANGED <<in_map, read, send_que, thrown>>
  /\ UNCHANGED <<server, accept, expect, received, answers, logic, dropped,
                 early>>

-----------------------------------------------------------------------------
(* The worker of the logic layer                                           *)

\* The callback sends a reply, and the node is popped.
Reply ==
  /\ msg_que # <<>> /\ ~stalled
  /\ Send(<<Head(msg_que)>>)
  /\ msg_que' = Tail(msg_que)
  /\ UNCHANGED <<server, accept, in_map, input, answers, stalled, lost, open, history>>

\* No callback for the id.
Ignore ==
  /\ msg_que # <<>> /\ ~stalled
  /\ dropped' = dropped \cup {Head(msg_que)}
  /\ msg_que' = Tail(msg_que)
  /\ UNCHANGED <<server, accept, in_map, input, output, stalled, lost, open, history>>

\* The only thing that wakes a stalled worker.
SpuriousWake ==
  /\ stalled
  /\ stalled' = FALSE
  /\ UNCHANGED <<server, accept, in_map, input, output, msg_que, lost, open, dropped,
                 history>>

-----------------------------------------------------------------------------
(* External: the connection.                                               *)

\* A read ends with bytes or an error; after MaxMsgs requests no body follows.
ReadCompletes ==
  /\ read = "busy"
  /\ open /\ peer = "up" => expect = "head" \/ received < MaxMsgs
  /\ read' = IF open /\ peer = "up" THEN "ok" ELSE "error"
  /\ UNCHANGED <<server, accept, in_map, expect, received, output, logic, open,
                 dropped, history>>

\* The bytes of the first message of the queue are out.
WriteSucceeds ==
  /\ write = "busy" /\ open
  /\ write' = "ok"
  /\ answers' = Append(answers, Head(send_que))
  /\ UNCHANGED <<server, accept, in_map, input, send_que, logic, open, dropped,
                 history>>

\* It fails when the socket is closed, but the network has other reasons too.
WriteFails ==
  /\ write = "busy"
  /\ write' = "error"
  /\ UNCHANGED <<server, accept, in_map, input, send_que, answers, logic, open,
                 dropped, history>>

PeerGoes ==
  /\ peer = "up"
  /\ peer' = "gone"
  /\ UNCHANGED <<kind, accept, in_map, input, output, logic, open, dropped,
                 history>>

-----------------------------------------------------------------------------
\* What a read may complete, as far as the bound lets the peer go.
Complete == 0 .. MaxMsgs - received

HandleRead == \/ \E n \in Complete : ReadSome(n) \/ ReadSomeIllegal(n)
              \/ HandleReadHead \/ HandleReadHeadIllegal
              \/ received < MaxMsgs /\ (HandleReadMsg \/ Post)
              \/ ReadError \/ ReadThrows
HandleWrite == WriteOk \/ WriteError \/ WriteThrows
Worker == Reply \/ Ignore
WriteCompletes == WriteSucceeds \/ WriteFails

Next == \/ AcceptFails \/ Start \/ Insert
        \/ HandleRead \/ HandleWrite \/ Worker \/ SpuriousWake
        \/ ReadCompletes \/ WriteCompletes \/ PeerGoes

SafeSpec == Init /\ [][Next]_vars

\* Threads run what is ready, and operations complete (the peer reads what is
\* written to it).  No peer has to send or to go, and nothing has to wake the
\* worker up.
Spec == /\ SafeSpec
        /\ WF_vars(Insert)
        /\ WF_vars(HandleRead) /\ WF_vars(HandleWrite) /\ WF_vars(Worker)
        /\ WF_vars(ReadCompletes) /\ WF_vars(WriteCompletes)

-----------------------------------------------------------------------------
(* Properties.                                                             *)

Requests == 1 .. MaxMsgs
Elements(s) == {s[i] : i \in DOMAIN s}

\* Well formed; where there is a limit the send queue keeps it, and a write
\* is under way only for a reply that is in the queue.
TypeOK ==
  /\ kind \in Kinds
  /\ accept \in {"listening", "started", "done"}
  /\ in_map \in BOOLEAN /\ open \in BOOLEAN
  /\ read \in {"none", "busy", "ok", "error"}
  /\ expect \in {"head", "body"}
  /\ write \in {"none", "busy", "ok", "error"}
  /\ send_que \in Seq(Requests) /\ msg_que \in Seq(Requests)
  /\ peer \in {"up", "gone"}
  /\ received \in 0 .. MaxMsgs
  /\ answers \in Seq(Requests) /\ dropped \subseteq Requests
  /\ stalled \in BOOLEAN /\ lost \subseteq Requests
  /\ failed \in BOOLEAN /\ early \in BOOLEAN
  /\ thrown \in {"no", "caught", "ended"}
  /\ kind # "AsyncServer" => Len(send_que) <= MAX_SENDQUE + 1
  /\ write # "none" => send_que # <<>>

\* Of the requests 1 .. n, these are in order and the others are gone.
InOrder(all, gone, n) ==
  /\ \A i, j \in DOMAIN all : i < j => all[i] < all[j]
  /\ Elements(all) \cup gone = 1 .. n
  /\ Elements(all) \cap gone = {}

\* Replies leave in the order of their requests and none twice.  A request
\* without one is still on its way between the read handler, the logic layer,
\* the send queue and the socket, is dropped by design, or was lost by a race of
\* PostMsgToQue: the servers without a logic layer lose none.
RepliesInOrder ==
  /\ InOrder(answers \o Unwritten \o msg_que, dropped \cup lost, received)
  /\ OneThread => lost = {} /\ msg_que = <<>>

\* A session that reads no more is out of _sessions.  Where there are threads it
\* can stay in the map for good, in two ways: ClearSession came before the
\* insert, or the handler that ended the reads threw.
LeakOnlyWithThreads ==
  in_map /\ accept = "done" /\ read = "none" =>
    ~OneThread /\ (early \/ thrown = "caught")

\* Posted, and nobody comes for it (see NoLostWakeup of LogicSystem).
Forgotten(r) == r \in lost \/ (stalled /\ r \in Elements(msg_que))

\* While the connection works, every request is answered in the end, if it is
\* not dropped by design, nor forgotten by the logic layer: an illegal head, or
\* in the servers with threads one that throws, does not cancel those before it.
Answered ==
  \A r \in Requests :
    received >= r ~> \/ r \in Elements(answers) \cup dropped \/ Forgotten(r)
                     \/ peer = "gone" \/ failed \/ thrown = "ended"

\* In the map with nothing left that would clear it, or held by a LogicNode
\* that is never dealt with.
Stuck == \/ in_map /\ accept = "done" /\ read = "none"
         \/ \E r \in Requests : Forgotten(r)

\* A session that reads no more is destroyed in the end, unless it is stuck;
\* and so is one whose write failed, but in AsyncServer, which does not close it,
\* only after its peer has gone.
Released ==
  (/\ accept = "done"
   /\ read = "none" \/ (failed /\ (kind = "AsyncServer" => peer = "gone")))
     ~> (~Alive \/ Stuck)

\* What SessionOutput promises of the replies given to Send: a reply is accepted
\* when it is pushed, and sent when it is out.
Output == INSTANCE SessionOutput
          WITH Msgs <- Requests,
               Room <- MAX_SENDQUE + 1,
               accepted <- answers \o Unwritten,
               sent <- Len(answers),
               up <- open

\* The servers with a limit keep that promise, whole handlers at a time: each
\* step accepts one reply at most and only if there is room, transmits one or
\* gives the connection up, and what was accepted is never taken back; all of
\* it goes out while the socket is open.  (AsyncServer accepts whatever one read
\* completes, without a limit.)
OutputSafe == Output!Init /\ [][kind # "AsyncServer" => Output!Next]_Output!vars
OutputSpec == OutputSafe /\ (kind # "AsyncServer" => Output!Fairness)
=============================================================================
