-------------------------- MODULE ServerStopProofs --------------------------
(***************************************************************************)
(* The servers stop in good order, with any number of threads in the pool  *)
(* and any number of clients.  The argument, for CoroutinServer: a thread  *)
(* ends only after the guards are dropped, when no session is open on its  *)
(* context; from then on nobody accepts, because the handler keeps main    *)
(* busy; so when all threads are joined no session is open on any context. *)
(* The other two never drop the guards, so their threads never end; and    *)
(* the main of async_server_IOThreadPool returns only when its port is     *)
(* taken, as the others' may: then nobody was ever served.                 *)
(***************************************************************************)
EXTENDS ServerStop, TLAPS

\* Only the handler of CoroutinServer drops the guards and joins, and it keeps
\* main from accepting from then on.  That of async_server_IOThreadPool never
\* runs.
Guards == /\ ~guards => handler # "armed" /\ server = "coroutine"
          /\ handler = "join" => server = "coroutine"
          /\ Shared => handler = "armed"

\* The handler of the signal runs while main is outside the map, and the
\* acceptor's handlers run on main.
MainIdle == handler # "armed" => task[Main] = "idle"

\* A thread that has left run() left a context without sessions, and no
\* handler of its own unfinished.
Ended == \A t \in Threads : thread[t] # "running" =>
            /\ ~guards
            /\ task[t] = "idle"
            /\ \A c \in Conns : session[c] = "open" => context[c] # ContextOf(t)

\* In CoroutinServer the handler is done only when it has joined all threads.
Joined == handler = "done" /\ server = "coroutine" => \A t \in Threads : thread[t] = "joined"

\* Nobody was ever served.
Unserved == /\ \A c \in Conns : session[c] = "none"
            /\ \A r \in Runners : task[r] = "idle"

\* main is not running its CServer after the handler, or because it never had one.
Returned == main # "running" => handler = "done" \/ (handler = "armed" /\ Unserved)

\* After the joins the process does not end in std::terminate.
Terminates == main = "terminated" => server = "logical" \/ handler = "armed"

SInv == /\ TypeOK /\ Guards /\ MainIdle /\ Ended /\ Joined /\ Returned
        /\ Terminates

-----------------------------------------------------------------------------
\* The turns stay among the contexts.
LEMMA AfterInContexts ==
  ASSUME NEW i \in Contexts
  PROVE  After(i) \in Contexts
BY ThreadsAssumption DEF After, Contexts, NContexts

\* The contexts of the next state are those of this one: nothing changes what
\* server it is.
LEMMA SameContexts ==
  ASSUME server' = server
  PROVE  Contexts' = Contexts
BY DEF Contexts, NContexts, Shared

\* It is one of the three.
LEMMA OneOfThree ==
  ASSUME TypeOK
  PROVE  server \in {"logical", "thread_pool", "coroutine"}
BY ServersAssumption DEF TypeOK

\* In CoroutinServer each context has a thread of its own.
LEMMA OwnContexts ==
  ASSUME server = "coroutine"
  PROVE  /\ ~Shared
         /\ Contexts = Threads
         /\ \A t \in Threads : ContextOf(t) = t
BY DEF Shared, NContexts, Contexts, Threads, ContextOf

\* main is no thread of the pool.
LEMMA MainApart == Main \in Runners /\ Main \notin Threads /\ Threads \subseteq Runners
BY ThreadsAssumption DEF Main, Runners, Threads

\* The server starts in a state of the invariant.
LEMMA InitSInv ==
  ASSUME Init
  PROVE  SInv
<1>1. 0 \in Contexts
  BY ThreadsAssumption DEF Contexts, NContexts
<1>2. TypeOK
  BY <1>1 DEF Init, TypeOK
<1> QED
  BY <1>2 DEF Init, SInv, Guards, MainIdle, Ended, Joined, Returned, Unserved, Terminates

\* Every step keeps it.
LEMMA NextSInv ==
  ASSUME SInv, [Next]_vars
  PROVE  SInv'
<1> USE SameContexts, MainApart DEF SInv, process
<1>0. server' = server /\ Shared' = Shared /\ \A t \in Threads : ContextOf(t)' = ContextOf(t)
  BY DEF Next, vars, Listen, PortTaken, Accept, Disconnect, Post, AcceptFails, Erased, Inserted,
         ThreadEnds, Signal, HandleSignal, Join, MainReturns, StopLogic, Exit, Shared, ContextOf
<1> USE <1>0
<1>1. ASSUME NEW r \in Runners, NEW c \in Conns, Accept(r, c)
      PROVE  SInv'
  <2>1. /\ handler = "armed" /\ guards /\ main = "running"
        /\ task[r] = "idle"
    BY <1>1 DEF Accept, MayAccept, MainRuns, Serves, Guards, TypeOK
  <2>2. TypeOK'
    BY <1>1 DEF TypeOK, Accept
  <2>3. Ended' /\ MainIdle'
    BY <1>1, <2>1 DEF Ended, MainIdle, TypeOK, Accept
  <2> QED
    BY <1>1, <2>1, <2>2, <2>3 DEF Guards, Joined, Returned, Terminates, Accept
<1>2. ASSUME NEW r \in Runners, NEW c \in Conns, Disconnect(r, c)
      PROVE  SInv'
  <2>1. /\ r \in Threads /\ thread[r] = "running" /\ task[r] = "idle"
        /\ session[c] = "open"
    BY <1>2 DEF Disconnect, Serves
  <2>2. TypeOK'
    BY <1>2 DEF TypeOK, Disconnect
  <2>3. \A d \in Conns : session'[d] = "open" => session[d] = "open"
    BY <1>2 DEF TypeOK, Disconnect
  <2>4. \A q \in Runners : q # r => task'[q] = task[q]
    BY <1>2 DEF TypeOK, Disconnect
  <2>5. Ended' /\ MainIdle'
    BY <1>2, <2>1, <2>3, <2>4 DEF Ended, MainIdle, Disconnect
  <2>6. Returned'
    BY <1>2, <2>1 DEF Returned, Unserved, Disconnect
  <2> QED
    BY <1>2, <2>2, <2>5, <2>6 DEF Guards, Joined, Terminates, Disconnect
<1>3. ASSUME NEW r \in Runners, AcceptFails(r)
      PROVE  SInv'
  <2>1. After(next) \in Contexts
    BY AfterInContexts DEF TypeOK
  <2>2. TypeOK'
    BY <1>3, <2>1 DEF TypeOK, AcceptFails
  <2> QED
    BY <1>3, <2>2
       DEF Guards, MainIdle, Ended, Joined, Returned, Unserved, Terminates, AcceptFails
<1>4. ASSUME NEW r \in Runners, Erased(r) \/ Inserted(r)
      PROVE  SInv'
  <2>1. After(next) \in Contexts
    BY AfterInContexts DEF TypeOK
  <2>2. TypeOK'
    BY <1>4, <2>1 DEF TypeOK, Erased, Inserted
  <2>3. \A q \in Runners : task'[q] = task[q] \/ task'[q] = "idle"
    BY <1>4 DEF TypeOK, Erased, Inserted
  <2>4. Ended' /\ MainIdle'
    BY <1>4, <2>3 DEF Ended, MainIdle, Erased, Inserted
  <2>5. Returned'
    BY <1>4, <2>3 DEF Returned, Unserved, Erased, Inserted
  <2> QED
    BY <1>4, <2>2, <2>4, <2>5 DEF Guards, Joined, Terminates, Erased, Inserted
<1>5. ASSUME NEW t \in Threads, ThreadEnds(t)
      PROVE  SInv'
  <2>1. TypeOK'
    BY <1>5 DEF TypeOK, ThreadEnds
  <2>2. Ended'
    BY <1>5 DEF TypeOK, Ended, ThreadEnds
  <2>3. Joined'
    BY <1>5 DEF Joined, ThreadEnds
  <2> QED
    BY <1>5, <2>1, <2>2, <2>3
       DEF Guards, MainIdle, Returned, Unserved, Terminates, ThreadEnds
<1>6. CASE HandleSignal
  <2>1. TypeOK' /\ server # "thread_pool"
    BY <1>6 DEF TypeOK, HandleSignal, MainRuns, Shared
  <2>2. main = "running" /\ task[Main] = "idle"
    BY <1>6 DEF HandleSignal, MainRuns
  <2>3. Ended' /\ MainIdle' /\ Guards'
    BY <1>6, <2>1, <2>2, OneOfThree DEF Ended, MainIdle, Guards, HandleSignal, MainRuns
  <2> QED
    BY <1>6, <2>1, <2>2, <2>3 DEF Guards, Joined, Returned, Terminates, HandleSignal
<1>7. CASE Join
  <2>1. TypeOK'
    BY <1>7 DEF TypeOK, Join
  <2>2. Ended' /\ MainIdle'
    BY <1>7 DEF Ended, MainIdle, Join
  <2> QED
    BY <1>7, <2>1, <2>2 DEF Guards, Joined, Returned, Terminates, Join
<1>8. CASE MainReturns
  <2>1. TypeOK'
    BY <1>8 DEF TypeOK, MainReturns
  <2> QED
    BY <1>8, <2>1 DEF Guards, MainIdle, Ended, Joined, Returned, Terminates, MainReturns
<1>9. CASE Exit
  <2>1. handler = "done" \/ handler = "armed"
    BY <1>9 DEF Returned, Exit
  <2>2. TypeOK'
    BY <1>9 DEF TypeOK, Exit
  <2>3. Terminates'
    BY <1>9, <2>1, OneOfThree DEF Terminates, Guards, Joined, Shared, Exit
  <2>4. Returned'
    BY <1>9 DEF Returned, Unserved, Exit
  <2> QED
    BY <1>9, <2>2, <2>3, <2>4 DEF Guards, MainIdle, Ended, Joined, Exit
<1>10. CASE Listen
  <2>1. After(next) \in Contexts
    BY AfterInContexts DEF TypeOK
  <2>2. TypeOK'
    BY <1>10, <2>1 DEF TypeOK, Listen
  <2> QED
    BY <1>10, <2>2 DEF Guards, MainIdle, Ended, Joined, Returned, Terminates, Listen
<1>11. CASE PortTaken
  <2>1. TypeOK'
    BY <1>11 DEF TypeOK, PortTaken
  <2>2. Returned'
    BY <1>11 DEF Returned, Unserved, PortTaken
  <2> QED
    BY <1>11, <2>1, <2>2 DEF Guards, MainIdle, Ended, Joined, Terminates, PortTaken
<1>12. ASSUME NEW r \in Runners, NEW c \in Conns, Post(r, c)
       PROVE  SInv'
  <2>1. TypeOK'
    BY <1>12 DEF TypeOK, Post
  <2> QED
    BY <1>12, <2>1 DEF Guards, MainIdle, Ended, Joined, Returned, Unserved, Terminates, Post
<1>13. CASE Signal \/ StopLogic
  <2>1. TypeOK'
    BY <1>13 DEF TypeOK, Signal, StopLogic
  <2> QED
    BY <1>13, <2>1
       DEF Guards, MainIdle, Ended, Joined, Returned, Unserved, Terminates, Signal, StopLogic
<1>14. CASE UNCHANGED vars
  <2>1. TypeOK'
    BY <1>14 DEF TypeOK, vars
  <2> QED
    BY <1>14, <2>1
       DEF Guards, MainIdle, Ended, Joined, Returned, Unserved, Terminates, vars
<1> QED
  BY <1>1, <1>2, <1>3, <1>4, <1>5, <1>6, <1>7, <1>8, <1>9, <1>10, <1>11, <1>12, <1>13, <1>14
     DEF Next

\* SInv is an invariant of all three.
LEMMA Invariant == SafeSpec => []SInv
<1>1. Init => SInv
  BY InitSInv
<1>2. SInv /\ [Next]_vars => SInv'
  BY NextSInv
<1> QED
  BY <1>1, <1>2, PTL DEF SafeSpec

-----------------------------------------------------------------------------
\* No session that could call its ClearSession is left when a CServer is
\* destroyed, and no handler is on its way there: in CoroutinServer because the
\* threads were joined first, and in async_server_IOThreadPool because that
\* happens only when it never accepted anybody.
THEOREM ServerOutlivesSessions == SafeSpec => []ServerOutlives
<1>1. SInv => ServerOutlives
  <2> SUFFICES ASSUME SInv, server # "logical", main # "running"
               PROVE  /\ \A c \in Conns : session[c] # "open"
                      /\ \A r \in Runners : task[r] = "idle"
    BY DEF ServerOutlives
  <2>1. CASE Unserved
    BY <2>1 DEF Unserved
  <2>2. CASE handler = "done"
    <3>1. server = "coroutine"
      BY <2>2, OneOfThree DEF SInv, Guards, Shared
    <3>2. \A t \in Threads : thread[t] = "joined"
      BY <2>2, <3>1 DEF SInv, Joined
    <3>3. \A c \in Conns : context[c] \in Threads
      BY <3>1, OwnContexts DEF SInv, TypeOK
    <3>4. \A c \in Conns : session[c] # "open"
      BY <3>1, <3>2, <3>3, OwnContexts DEF SInv, Ended
    <3>5. \A r \in Runners : task[r] = "idle"
      BY <2>2, <3>2 DEF SInv, Ended, MainIdle, Runners
    <3> QED
      BY <3>4, <3>5
  <2> QED
    BY <2>1, <2>2 DEF SInv, Returned
<1> QED
  BY <1>1, Invariant, PTL

\* A std::terminate at the end is the logical server's, or that of a server
\* whose port was taken: CoroutinServer never comes to it after a signal, nor
\* does async_server_IOThreadPool once it has served anybody.
THEOREM EndsNormally == SafeSpec => []NormalEnd
<1>1. SInv => NormalEnd
  <2> SUFFICES ASSUME SInv, main = "terminated", server # "logical"
               PROVE  handler = "armed" /\ \A c \in Conns : session[c] = "none"
    BY DEF NormalEnd
  <2>1. handler = "armed"
    BY DEF SInv, Terminates
  <2> QED
    BY <2>1 DEF SInv, Returned, Unserved
<1> QED
  BY <1>1, Invariant, PTL
=============================================================================
