----------------------- MODULE SessionLifetimeProofs -----------------------
(***************************************************************************)
(* When a session of CoroutinServer is destroyed too early, and when it is *)
(* never: for any number of messages and any limit of the send queue.  The *)
(* argument follows ClearSession.  The coroutine calls it only as it ends, *)
(* a write handler only with Close; so while the coroutine goes on and no  *)
(* write has failed, the accept handler or the map owns the session.  And  *)
(* the insertion comes after a ClearSession only where accept was not done *)
(* yet, which early remembers.                                             *)
(***************************************************************************)
EXTENDS SessionLifetime, TLAPS

\* Before Start nothing is under way.
Unstarted == accept = "listening" =>
  /\ co = "none" /\ read = "none" /\ write = "none" /\ queued = 0
  /\ ~in_map /\ ~b_close

\* While the coroutine goes on, only a failed write takes the session out of
\* the map.
Kept == co \in {"spawned", "head", "body"} /\ accept = "done" /\ ~failed => in_map

\* A write that failed has closed the session, and only a session whose write
\* failed is resumed after its end.
FailedClosed == (failed => b_close) /\ (co = "undefined" => failed)

\* Where the session was closed or the coroutine has ended, ClearSession was
\* called; the map holds the session only if that was too early.
Cleared == b_close \/ co = "ended" => (accept # "done" \/ in_map => early)

\* The message being read was sent and is not queued yet.
Reading == IF co = "body" \/ (co = "head" /\ read = "ok") THEN 1 ELSE 0
Counted == queued + Reading <= sent

\* A write is under way only for a message in the queue.
Writing == write # "none" => unsent > 0

SInv == LifeTypeOK /\ Unstarted /\ Kept /\ FailedClosed /\ Cleared /\ Counted /\ Writing

-----------------------------------------------------------------------------
\* A session starts in a state of the invariant.
LEMMA InitSInv ==
  ASSUME LifeInit
  PROVE  SInv
<1>a. 0 \in 0 .. MaxMsgs /\ 0 \in 0 .. MAX_SENDQUE + 1
  BY BoundAssumption
<1>1. LifeTypeOK
  BY <1>a DEF LifeInit, LifeTypeOK
<1>2. Unstarted /\ Kept /\ FailedClosed /\ Cleared
  BY DEF LifeInit, Unstarted, Kept, FailedClosed, Cleared
<1>3. Counted /\ Writing
  BY DEF LifeInit, Counted, Reading, Writing
<1> QED
  BY <1>1, <1>2, <1>3 DEF SInv

\* The steps of main keep it.
LEMMA MainKeeps ==
  ASSUME SInv, Main
  PROVE  SInv'
<1>1. LifeTypeOK'
  <2>1. CASE AcceptFails
    BY <2>1 DEF SInv, LifeTypeOK, AcceptFails
  <2>2. CASE Start
    BY <2>2 DEF SInv, LifeTypeOK, Unstarted, Start
  <2>3. CASE Insert
    BY <2>3 DEF SInv, LifeTypeOK, Insert
  <2> QED
    BY <2>1, <2>2, <2>3 DEF Main
<1>2. Unstarted' /\ FailedClosed'
  BY DEF SInv, LifeTypeOK, Unstarted, FailedClosed, Main, AcceptFails, Start, Insert
<1>3. Kept'
  BY DEF SInv, Unstarted, Kept, Main, AcceptFails, Start, Insert
<1>4. Cleared'
  BY DEF SInv, Unstarted, Cleared, Main, AcceptFails, Start, Insert
<1>5. Counted' /\ Writing'
  BY DEF SInv, Unstarted, Counted, Reading, Writing, Main, AcceptFails, Start, Insert
<1> QED
  BY <1>1, <1>2, <1>3, <1>4, <1>5 DEF SInv

\* The steps of the coroutine keep it.
LEMMA ResumeKeeps ==
  ASSUME SInv, Resume
  PROVE  SInv'
<1> USE BoundAssumption
<1>1. CASE First
  <2>1. LifeTypeOK'
    BY <1>1 DEF SInv, LifeTypeOK, First, NextRead
  <2> QED
    BY <1>1, <2>1 DEF SInv, LifeTypeOK, Unstarted, Kept, FailedClosed, Cleared, Counted,
                      Reading, Writing, First, NextRead
<1>2. CASE HeadRead
  <2>1. LifeTypeOK'
    BY <1>2 DEF SInv, LifeTypeOK, HeadRead, Resumes
  <2> QED
    BY <1>2, <2>1 DEF SInv, LifeTypeOK, Unstarted, Kept, FailedClosed, Cleared, Counted,
                      Reading, Writing, HeadRead, Resumes
<1>3. CASE HeadIllegal
  <2>1. LifeTypeOK'
    BY <1>3 DEF SInv, LifeTypeOK, HeadIllegal, Resumes, ClearSession, Leave
  <2>2. Counted'
    BY <1>3 DEF SInv, LifeTypeOK, Counted, Reading, HeadIllegal, Resumes, ClearSession, Leave
  <2> QED
    BY <1>3, <2>1, <2>2 DEF SInv, LifeTypeOK, Unstarted, Kept, FailedClosed, Cleared,
                            Writing, HeadIllegal, Resumes, ClearSession, Leave
<1>4. CASE BodyRead
  <2>1. queued + 1 <= sent
    BY <1>4 DEF SInv, Counted, Reading, BodyRead, Resumes
  <2>2. LifeTypeOK'
    BY <1>4, <2>1 DEF SInv, LifeTypeOK, BodyRead, Resumes, NextRead
  <2>3. Counted'
    BY <1>4, <2>1 DEF SInv, LifeTypeOK, Counted, Reading, BodyRead, Resumes, NextRead
  <2> QED
    BY <1>4, <2>2, <2>3 DEF SInv, LifeTypeOK, Unstarted, Kept, FailedClosed, Cleared,
                            Writing, BodyRead, Resumes, NextRead
<1>5. CASE ReadEnds
  <2>1. LifeTypeOK'
    BY <1>5 DEF SInv, LifeTypeOK, ReadEnds, ClearSession, Leave
  <2>2. Counted'
    BY <1>5 DEF SInv, LifeTypeOK, Counted, Reading, ReadEnds, ClearSession, Leave
  <2> QED
    BY <1>5, <2>1, <2>2 DEF SInv, LifeTypeOK, Unstarted, Kept, FailedClosed, Cleared,
                            Writing, ReadEnds, Resumes, ClearSession, Leave
<1>6. CASE ResumeFreed
  <2>1. LifeTypeOK'
    BY <1>6 DEF SInv, LifeTypeOK, ResumeFreed
  <2>2. failed
    <3>1. "accept" \notin Owners /\ "map" \notin Owners
      BY <1>6 DEF ResumeFreed, Alive
    <3>2. accept = "done" /\ ~in_map
      BY <3>1 DEF Owners
    <3> QED
      BY <1>6, <3>2 DEF SInv, Kept, ResumeFreed
  <2>3. Counted'
    BY <1>6 DEF SInv, LifeTypeOK, Counted, Reading, ResumeFreed
  <2> QED
    BY <1>6, <2>1, <2>2, <2>3 DEF SInv, Unstarted, Kept, FailedClosed, Cleared,
                                  Writing, ResumeFreed
<1> QED
  BY <1>1, <1>2, <1>3, <1>4, <1>5, <1>6 DEF Resume

\* The write handlers, the worker and the sockets keep it.
LEMMA OthersKeep ==
  ASSUME SInv, HandleWrite \/ LogicWorker \/ ReadCompletes \/ WriteCompletes \/ PeerGoes
  PROVE  SInv'
<1> USE BoundAssumption
<1>1. CASE WriteOk
  <2>1. LifeTypeOK' /\ Writing'
    BY <1>1 DEF SInv, LifeTypeOK, Writing, WriteOk
  <2> QED
    BY <1>1, <2>1 DEF SInv, Unstarted, Kept, FailedClosed, Cleared, Counted, Reading,
                      WriteOk
<1>2. CASE WriteError
  <2>1. LifeTypeOK'
    BY <1>2 DEF SInv, LifeTypeOK, WriteError, ClearSession
  <2> QED
    BY <1>2, <2>1 DEF SInv, Unstarted, Kept, FailedClosed, Cleared, Counted, Reading,
                      Writing, WriteError, ClearSession
<1>3. CASE Reply \/ Ignore
  <2>1. LifeTypeOK' /\ Writing'
    BY <1>3 DEF SInv, LifeTypeOK, Writing, Reply, Ignore
  <2>a. Reading' = Reading /\ Reading \in Nat /\ sent' = sent
    BY <1>3 DEF Reading, Reply, Ignore
  <2>b. queued \in Nat /\ sent \in Nat
    BY DEF SInv, LifeTypeOK
  <2>c. \A r \in Nat : queued + r <= sent => queued' + r <= sent
    <3>1. queued' = queued - 1
      BY <1>3 DEF Reply, Ignore
    <3> QED
      BY <2>b, <3>1
  <2>2. Counted'
    BY <2>a, <2>c DEF SInv, Counted
  <2> QED
    BY <1>3, <2>1, <2>2 DEF SInv, Unstarted, Kept, FailedClosed, Cleared, Reply, Ignore
<1>4. CASE ReadCompletes
  <2>1. LifeTypeOK'
    BY <1>4 DEF SInv, LifeTypeOK, ReadCompletes
  <2>2. Counted'
    BY <1>4 DEF SInv, LifeTypeOK, Counted, Reading, ReadCompletes
  <2>3. accept # "listening"
    BY <1>4 DEF SInv, Unstarted, ReadCompletes
  <2> QED
    BY <1>4, <2>1, <2>2, <2>3 DEF SInv, Unstarted, Kept, FailedClosed, Cleared, Writing,
                                  ReadCompletes
<1>5. CASE WriteCompletes
  <2>1. write' \in {"ok", "error"}
    BY <1>5 DEF WriteCompletes
  <2>2. LifeTypeOK'
    BY <1>5, <2>1 DEF SInv, LifeTypeOK, WriteCompletes
  <2> QED
    BY <1>5, <2>1, <2>2 DEF SInv, Unstarted, Kept, FailedClosed, Cleared, Counted,
                            Reading, Writing, WriteCompletes
<1>6. CASE PeerGoes
  <2>1. LifeTypeOK'
    BY <1>6 DEF SInv, LifeTypeOK, PeerGoes
  <2> QED
    BY <1>6, <2>1 DEF SInv, Unstarted, Kept, FailedClosed, Cleared, Counted, Reading,
                      Writing, PeerGoes
<1> QED
  BY <1>1, <1>2, <1>3, <1>4, <1>5, <1>6 DEF HandleWrite, LogicWorker

\* SInv is an invariant of every session.
LEMMA Invariant == LifeSafeSpec => []SInv
<1>1. LifeInit => SInv
  BY InitSInv
<1>2. SInv /\ [LifeNext]_lifeVars => SInv'
  <2> SUFFICES ASSUME SInv, [LifeNext]_lifeVars
               PROVE  SInv'
    OBVIOUS
  <2>1. CASE UNCHANGED lifeVars
    BY <2>1 DEF lifeVars, SInv, LifeTypeOK, Unstarted, Kept, FailedClosed, Cleared, Counted,
                Reading, Writing
  <2> QED
    BY <2>1, MainKeeps, ResumeKeeps, OthersKeep DEF LifeNext
<1> QED
  BY <1>1, <1>2, PTL DEF LifeSafeSpec

-----------------------------------------------------------------------------
\* The state is well formed: a read is under way exactly while the coroutine
\* waits for it, the send queue keeps its limit, and no more is queued in the
\* logic layer than was sent.
THEOREM TypeCorrect == LifeSafeSpec => []LifeTypeOK
<1>1. SInv => LifeTypeOK
  BY DEF SInv
<1> QED
  BY <1>1, Invariant, PTL

\* A coroutine that is not over is without its session only after a write has
\* failed and closed it.
THEOREM DanglesOnlyAfterWriteError == LifeSafeSpec => []DanglingOnlyAfterWriteError
<1>1. SInv => DanglingOnlyAfterWriteError
  <2> SUFFICES ASSUME SInv, co \in {"spawned", "head", "body", "undefined"}, ~Alive
               PROVE  failed /\ b_close
    BY DEF DanglingOnlyAfterWriteError
  <2>1. accept = "done" /\ ~in_map
    <3>1. "accept" \notin Owners /\ "map" \notin Owners
      BY DEF Alive
    <3> QED
      BY <3>1 DEF Owners
  <2> QED
    BY <2>1 DEF SInv, Kept, FailedClosed
<1> QED
  BY <1>1, Invariant, PTL

\* A session whose coroutine is over stays in the map only if ClearSession ran
\* before the insertion.
THEOREM LeaksOnlyIfClearedEarly == LifeSafeSpec => []LeakOnlyIfClearedEarly
<1>1. SInv => LeakOnlyIfClearedEarly
  BY DEF SInv, Cleared, LeakOnlyIfClearedEarly
<1> QED
  BY <1>1, Invariant, PTL
=============================================================================
