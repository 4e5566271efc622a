-------------------------- MODULE SessionLifetime --------------------------
(***************************************************************************)
(* Who keeps a CSession of CoroutinServer alive, and who still uses it.    *)
(* A session is created for one connection, by CServer::StartAccept.  Its  *)
(* owners are shared_ptrs: the accept handler, the map _sessions, every    *)
(* LogicNode in the queue of the logic layer, and the handler of the write *)
(* under way.  The coroutine of Start is no owner: its lambda captures by  *)
(* [=], but its body never names shared_this, so that only the raw this is *)
(* captured.                                                               *)
(*                                                                         *)
(* Three threads are at work: main runs the acceptor, one I/O thread runs  *)
(* the coroutine and the write handlers, the logic worker replies.  The    *)
(* completion of a read or a write and the run of what waits for it are    *)
(* two steps: what happened in between is what makes the difference.       *)
(***************************************************************************)
EXTENDS Naturals

CONSTANTS MaxMsgs,     (* how many messages the peer sends at most         *)
          MAX_SENDQUE

ASSUME BoundAssumption == MaxMsgs \in Nat /\ MAX_SENDQUE \in Nat

VARIABLES
  accept,    (* CServer: "listening", "started", or "done" with this one   *)
  in_map,    (* is the session in _sessions?                               *)
  co,        (* the coroutine of Start; "undefined" once it used freed     *)
             (* memory                                                     *)
  read,      (* the read it waits for: "busy", "ok", "error" or "none"     *)
  write,     (* the write under way: "busy", "ok", "error" or "none"       *)
  unsent,    (* the length of _send_que                                    *)
  queued,    (* the LogicNodes of this session in the logic layer          *)
  b_close,   (* Close() was called                                         *)
  peer,      (* "up", "shut" for sending, or "reset"                       *)
  sent,      (* the messages the peer sent so far                          *)
  failed,    (* history: HandleWrite was called with an error              *)
  early      (* history: ClearSession was called before the insertion      *)

lifeVars == <<accept, in_map, co, read, write, unsent, queued, b_close, peer, sent,
              failed, early>>

Owners == {o \in {"accept", "map", "logic", "write"} :
             CASE o = "accept" -> accept # "done"
               [] o = "map"    -> in_map
               [] o = "logic"  -> queued > 0
               [] o = "write"  -> write # "none"}

\* The destructor runs when the last owner goes.  It closes the socket.
Alive == Owners # {}
Closed == b_close \/ ~Alive

LifeInit == /\ accept = "listening" /\ in_map = FALSE
            /\ co = "none" /\ read = "none"
            /\ write = "none" /\ unsent = 0 /\ queued = 0
            /\ b_close = FALSE
            /\ peer = "up" /\ sent = 0
            /\ failed = FALSE /\ early = FALSE

-----------------------------------------------------------------------------
(* CServer, on the main thread                                             *)

\* HandleAccept with an error: the new session is dropped.
AcceptFails ==
  /\ accept = "listening"
  /\ accept' = "done"
  /\ UNCHANGED <<in_map, co, read, write, unsent, queued, b_close, peer, sent,
                 failed, early>>

\* HandleAccept calls Start, which posts the coroutine to the I/O thread ...
Start ==
  /\ accept = "listening"
  /\ accept' = "started"
  /\ co' = "spawned"
  /\ UNCHANGED <<in_map, read, write, unsent, queued, b_close, peer, sent,
                 failed, early>>

\* ... and only then inserts the session, and lets go of it.
Insert ==
  /\ accept = "started"
  /\ accept' = "done"
  /\ in_map' = TRUE
  /\ UNCHANGED <<co, read, write, unsent, queued, b_close, peer, sent, failed,
                 early>>

\* ClearSession erases the session, or nothing when it is not there yet.
ClearSession == /\ in_map' = FALSE
                /\ early' = (early \/ accept # "done")

-----------------------------------------------------------------------------
(* The coroutine, on the I/O thread                                        *)

\* The loop starts over: read a head, unless Close() was called.
NextRead == IF b_close THEN co' = "ended" /\ read' = "none"
                       ELSE co' = "head" /\ read' = "busy"

Leave == co' = "ended" /\ read' = "none"

First ==
  /\ co = "spawned"
  /\ NextRead
  /\ UNCHANGED <<accept, in_map, write, unsent, queued, b_close, peer, sent,
                 failed, early>>

Resumes(where, result) == Alive /\ co = where /\ read = result

\* A legal head: read the body.
HeadRead ==
  /\ Resumes("head", "ok")
  /\ co' = "body"
  /\ read' = "busy"
  /\ UNCHANGED <<accept, in_map, write, unsent, queued, b_close, peer, sent,
                 failed, early>>

\* Mutant: no ClearSession for an illegal head.
HeadIllegal_Kept ==
  /\ Resumes("head", "ok")
  /\ Leave
  /\ UNCHANGED <<accept, in_map, write, unsent, queued, b_close, peer, sent,
                 failed, early>>

\* Mutant: no co_return after it.
HeadIllegal_GoesOn ==
  /\ Resumes("head", "ok")
  /\ ClearSession
  /\ NextRead
  /\ UNCHANGED <<accept, write, unsent, queued, b_close, peer, sent, failed>>

\* An illegal id or length: ClearSession without Close.
HeadIllegal ==
  /\ Resumes("head", "ok")
  /\ ClearSession
  /\ Leave
  /\ UNCHANGED <<accept, write, unsent, queued, b_close, peer, sent, failed>>

\* PostMsgToQue, and back to the head of the loop.
BodyRead ==
  /\ Resumes("body", "ok")
  /\ queued' = queued + 1
  /\ NextRead
  /\ UNCHANGED <<accept, in_map, write, unsent, b_close, peer, sent, failed,
                 early>>

\* A body of no bytes is taken for the end of the connection; an exception
\* of either read ends in the same two calls.
ReadEnds ==
  /\ Resumes("body", "ok") \/ Resumes("head", "error") \/ Resumes("body", "error")
  /\ b_close' = TRUE
  /\ ClearSession
  /\ Leave
  /\ UNCHANGED <<accept, write, unsent, queued, peer, sent, failed>>

\* The coroutine is resumed after its session was destroyed.
ResumeFreed ==
  /\ ~Alive
  /\ co \in {"head", "body"} /\ read \in {"ok", "error"}
  /\ co' = "undefined" /\ read' = "none"
  /\ UNCHANGED <<accept, in_map, write, unsent, queued, b_close, peer, sent,
                 failed, early>>

-----------------------------------------------------------------------------
(* HandleWrite, on the I/O thread                                          *)

WriteOk ==
  /\ write = "ok"
  /\ unsent' = unsent - 1
  /\ write' = IF unsent' > 0 THEN "busy" ELSE "none"
  /\ UNCHANGED <<accept, in_map, co, read, queued, b_close, peer, sent, failed,
                 early>>

\* Mutant: the write is tried again.
WriteError_Retries ==
  /\ write = "error"
  /\ write' = "busy"
  /\ ClearSession
  /\ failed' = TRUE
  /\ UNCHANGED <<accept, co, read, unsent, queued, b_close, peer, sent>>

WriteError ==
  /\ write = "error"
  /\ write' = "none"
  /\ b_close' = TRUE
  /\ ClearSession
  /\ failed' = TRUE
  /\ UNCHANGED <<accept, co, read, unsent, queued, peer, sent>>

-----------------------------------------------------------------------------
(* The logic worker: the callback sends a reply, then the node is popped.  *)

\* Send: push unless full, and start a write when there was none.
Reply ==
  /\ queued > 0
  /\ queued' = queued - 1
  /\ IF unsent > MAX_SENDQUE
     THEN UNCHANGED <<unsent, write>>
     ELSE /\ unsent' = unsent + 1
          /\ write' = IF unsent = 0 THEN "busy" ELSE write
  /\ UNCHANGED <<accept, in_map, co, read, b_close, peer, sent, failed, early>>

\* No callback for the id.
Ignore ==
  /\ queued > 0
  /\ queued' = queued - 1
  /\ UNCHANGED <<accept, in_map, co, read, write, unsent, b_close, peer, sent,
                 failed, early>>

-----------------------------------------------------------------------------
(* External: the sockets.                                                  *)

\* Whole heads and bodies arrive: async_read returns nothing less.
ReadCompletes ==
  /\ read = "busy"
  /\ \/ /\ ~Closed /\ peer # "reset"
        /\ co = "head" => sent < MaxMsgs
        /\ sent' = IF co = "head" THEN sent + 1 ELSE sent
        /\ read' = "ok"
     \/ /\ Closed \/ peer # "up"
        /\ read' = "error"
        /\ UNCHANGED sent
  /\ UNCHANGED <<accept, in_map, co, write, unsent, queued, b_close, peer,
                 failed, early>>

WriteCompletes ==
  /\ write = "busy"
  /\ write' \in (IF b_close \/ peer # "up" THEN {"error"} ELSE {}) \cup
                (IF b_close \/ peer = "reset" THEN {} ELSE {"ok"})
  /\ UNCHANGED <<accept, in_map, co, read, unsent, queued, b_close, peer, sent,
                 failed, early>>

PeerGoes ==
  /\ \/ peer = "up" /\ peer' \in {"shut", "reset"}
     \/ peer = "shut" /\ peer' = "reset"
  /\ UNCHANGED <<accept, in_map, co, read, write, unsent, queued, b_close, sent,
                 failed, early>>

-----------------------------------------------------------------------------
Main == AcceptFails \/ Start \/ Insert
Resume == First \/ HeadRead \/ HeadIllegal \/ BodyRead \/ ReadEnds \/ ResumeFreed
HandleWrite == WriteOk \/ WriteError
LogicWorker == Reply \/ Ignore

LifeNext == Main \/ Resume \/ HandleWrite \/ LogicWorker
            \/ ReadCompletes \/ WriteCompletes \/ PeerGoes

LifeSafeSpec == LifeInit /\ [][LifeNext]_lifeVars

\* Every thread runs what is ready, operations complete, and main finishes
\* the handler it is in.  No peer has to connect, to send or to go.
LifeFairness == /\ WF_lifeVars(Insert)
                /\ WF_lifeVars(Resume)
                /\ WF_lifeVars(HandleWrite)
                /\ WF_lifeVars(LogicWorker)
                /\ WF_lifeVars(WriteCompletes)
                /\ WF_lifeVars(ReadCompletes)

LifeSpec == LifeSafeSpec /\ LifeFairness

-----------------------------------------------------------------------------
(* Properties.                                                             *)

\* Well formed; and a read is under way exactly when the coroutine waits.
LifeTypeOK ==
  /\ accept \in {"listening", "started", "done"}
  /\ in_map \in BOOLEAN
  /\ co \in {"none", "spawned", "head", "body", "ended", "undefined"}
  /\ read \in {"none", "busy", "ok", "error"}
  /\ write \in {"none", "busy", "ok", "error"}
  /\ unsent \in 0 .. MAX_SENDQUE + 1
  /\ queued \in 0 .. MaxMsgs
  /\ b_close \in BOOLEAN
  /\ peer \in {"up", "shut", "reset"}
  /\ sent \in 0 .. MaxMsgs
  /\ failed \in BOOLEAN /\ early \in BOOLEAN
  /\ read # "none" <=> co \in {"head", "body"}

\* "smart pointers keep the CSession from being destructed": nobody uses a
\* session that was destroyed.
NoUseAfterFree == co # "undefined"

\* It takes a failed write to destroy the session under its coroutine:
\* every other way out goes through the coroutine itself.
DanglingOnlyAfterWriteError ==
  co \in {"spawned", "head", "body", "undefined"} /\ ~Alive => failed /\ b_close

\* A session whose coroutine is over is out of the map, unless ClearSession
\* ran before HandleAccept got to the insertion: then it stays for good.
LeakOnlyIfClearedEarly ==
  in_map /\ co = "ended" => early

\* A session that nobody can hear from any more is destroyed in the end,
\* except for the one left in the map.
Released == [](co = "ended" => <>(~Alive \/ in_map))
=============================================================================
