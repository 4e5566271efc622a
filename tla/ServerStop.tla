----------------------------- MODULE ServerStop -----------------------------
(***************************************************************************)
(* How the three servers with a logic layer run and stop: main, its signal *)
(* handler, the pool of I/O threads and the sessions they serve.           *)
(*                                                                         *)
(*  "logical"      async_server_add_logical_layer: main runs the context   *)
(*                 of the acceptor and the signals; the pool has a context *)
(*                 per thread; the handler stops the context of main only. *)
(*  "thread_pool"  async_server_IOThreadPool: all threads of the pool run  *)
(*                 one context, the acceptor's too; the signals are waited *)
(*                 for on a context of their own, which nobody runs.       *)
(*  "coroutine"    CoroutinServer: as "logical", but the handler goes on   *)
(*                 to stop the pool, that is, to join its threads.         *)
(*                                                                         *)
(* A context runs as long as it has a work guard or an operation pending,  *)
(* and an open session always has one: its read.                           *)
(*                                                                         *)
(* The pool and the LogicSystem are static objects, destroyed after main   *)
(* has returned, by the handler of the signal or by an exception of the    *)
(* constructor of CServer, which opens the port.                           *)
(***************************************************************************)
EXTENDS Naturals, FiniteSets

CONSTANTS Servers,   (* the servers looked at, one after the other         *)
          NThreads,  (* the threads of the pool are 0 .. NThreads - 1      *)
          Conns      (* the connections clients may make                   *)

ASSUME ServersAssumption == Servers \subseteq {"logical", "thread_pool", "coroutine"}
ASSUME ThreadsAssumption == NThreads \in Nat \ {0}

Threads == 0 .. NThreads - 1
Main == NThreads
Runners == Threads \cup {Main}

VARIABLES
  server,    (* which of the three it is                                   *)
  signal,    (* was SIGINT or SIGTERM raised?                              *)
  handler,   (* the handler of the signal: "armed", in "join" or "done"    *)
  main,      (* "starting"; "running" once CServer is up; "returned",      *)
             (* when that is destroyed, or never was; and after the        *)
             (* statics are destroyed "exited", or "terminated"            *)
  guards,    (* do the contexts of the pool have their work guards?        *)
  thread,    (* is each thread of the pool "running", "ended" or "joined"? *)
  session,   (* each connection: "none", "open" or "closed"                *)
  context,   (* the context its socket belongs to                          *)
  accepting, (* the context of the session the pending accept will fill    *)
  next,      (* _nextIOService                                             *)
  task,      (* what each runner has still to do with _sessions: "insert"  *)
             (* or "erase"; or "idle"                                      *)
  logic      (* the LogicSystem: "none" before the first message is        *)
             (* posted, "up", "gone", or "stuck" in its destructor         *)

vars == <<server, signal, handler, main, guards, thread, session, context,
          accepting, next, task, logic>>
process == <<server, signal, handler, main, guards, thread, logic>>

Shared == server = "thread_pool"

\* The contexts of the pool, and the one a thread runs.
NContexts == IF Shared THEN 1 ELSE NThreads
Contexts == 0 .. NContexts - 1
ContextOf(t) == IF Shared THEN 0 ELSE t

\* GetIOService: the contexts take turns.
After(i) == IF i + 1 = NContexts THEN 0 ELSE i + 1

\* The pool is up and the signals are waited for.
Init == /\ server \in Servers
        /\ signal = FALSE /\ handler = "armed" /\ main = "starting"
        /\ guards = TRUE
        /\ thread = [t \in Threads |-> "running"]
        /\ session = [c \in Conns |-> "none"]
        /\ context = [c \in Conns |-> 0]
        /\ accepting = 0
        /\ next = 0
        /\ task = [r \in Runners |-> "idle"]
        /\ logic = "none"

-----------------------------------------------------------------------------
(* The constructor of CServer, on main.                                    *)

\* It opens the port, and waits for its first connection.
Listen ==
  /\ main = "starting"
  /\ main' = "running"
  /\ accepting' = next
  /\ next' = After(next)
  /\ UNCHANGED <<server, signal, handler, guards, thread, session, context, task, logic>>

\* The port is taken: main catches the exception and returns.  Nobody has told
\* the pool to stop.
PortTaken ==
  /\ main = "starting"
  /\ main' = "returned"
  /\ UNCHANGED <<server, signal, handler, guards, thread, session, context, accepting,
                 next, task, logic>>

-----------------------------------------------------------------------------
ProcessUp == main \in {"starting", "running", "returned"}

\* Thread t is free to run a handler of context i of the pool.
Serves(t, i) == /\ ProcessUp
                /\ t \in Threads /\ ContextOf(t) = i
                /\ thread[t] = "running" /\ task[t] = "idle"

\* main is free to run the context of the signals.  A handler keeps it busy.
MainRuns == ~Shared /\ main = "running" /\ handler = "armed" /\ task[Main] = "idle"

\* Runner r is free to run the context of the acceptor, and an accept is
\* pending, because no HandleAccept is under way.
MayAccept(r) == /\ main = "running"
                /\ IF Shared THEN Serves(r, 0) ELSE r = Main /\ MainRuns
                /\ \A q \in Runners : task[q] # "insert"

\* HandleAccept, up to the map: Start the session, which reads from now on.
Accept(r, c) ==
  /\ MayAccept(r)
  /\ session[c] = "none"
  /\ session' = [session EXCEPT ![c] = "open"]
  /\ context' = [context EXCEPT ![c] = accepting]
  /\ task' = [task EXCEPT ![r] = "insert"]
  /\ UNCHANGED <<process, accepting, next>>

\* HandleAccept with an error: the session is dropped; its turn is over too.
AcceptFails(r) ==
  /\ MayAccept(r)
  /\ accepting' = next
  /\ next' = After(next)
  /\ UNCHANGED <<process, session, context, task>>

\* The client is gone: the read gets an error, the session closes and calls
\* ClearSession.
Disconnect(t, c) ==
  /\ session[c] = "open"
  /\ Serves(t, context[c])
  /\ session' = [session EXCEPT ![c] = "closed"]
  /\ task' = [task EXCEPT ![t] = "erase"]
  /\ UNCHANGED <<process, context, accepting, next>>

\* A message is complete and goes to the logic layer; the first one makes it.
Post(t, c) ==
  /\ session[c] = "open"
  /\ Serves(t, context[c])
  /\ logic' = IF logic = "none" THEN "up" ELSE logic
  /\ UNCHANGED <<server, signal, handler, main, guards, thread, session, context,
                 accepting, next, task>>

\* ClearSession is done (only CoroutinServer has a mutex for the map).
Erased(r) ==
  /\ ProcessUp
  /\ task[r] = "erase"
  /\ task' = [task EXCEPT ![r] = "idle"]
  /\ UNCHANGED <<process, session, context, accepting, next>>

\* The insertion is done; StartAccept makes a session on the next context.
Inserted(r) ==
  /\ ProcessUp
  /\ task[r] = "insert"
  /\ task' = [task EXCEPT ![r] = "idle"]
  /\ accepting' = next
  /\ next' = After(next)
  /\ UNCHANGED <<process, session, context>>

\* run() returns when its context has nothing left to do.  A shared context
\* always has the acceptor.
ThreadEnds(t) ==
  /\ ProcessUp
  /\ thread[t] = "running" /\ task[t] = "idle"
  /\ ~guards /\ ~Shared
  /\ \A c \in Conns : session[c] = "open" => context[c] # ContextOf(t)
  /\ thread' = [thread EXCEPT ![t] = "ended"]
  /\ UNCHANGED <<server, signal, handler, main, guards, session, context, accepting, next,
                 task, logic>>

-----------------------------------------------------------------------------
Signal ==
  /\ ~signal
  /\ signal' = TRUE
  /\ UNCHANGED <<server, handler, main, guards, thread, session, context, accepting, next,
                 task, logic>>

\* Mutant: the work guards are kept.
HandleSignal_KeepsGuards ==
  /\ signal
  /\ MainRuns
  /\ handler' = IF server = "logical" THEN "done" ELSE "join"
  /\ UNCHANGED <<server, signal, main, guards, thread, session, context, accepting, next,
                 task, logic>>

\* Mutant: the pool is not stopped.
HandleSignal_NoPool ==
  /\ signal
  /\ MainRuns
  /\ handler' = "done"
  /\ UNCHANGED <<server, signal, main, guards, thread, session, context, accepting, next,
                 task, logic>>

\* The handler stops the context of main; in "coroutine" it goes on with
\* the Stop of the pool, which first drops the work guards.
HandleSignal ==
  /\ signal
  /\ MainRuns
  /\ handler' = IF server = "logical" THEN "done" ELSE "join"
  /\ guards' = (guards /\ server = "logical")
  /\ UNCHANGED <<server, signal, main, thread, session, context, accepting, next,
                 task, logic>>

\* Stop has joined all threads.
Join ==
  /\ handler = "join"
  /\ \A t \in Threads : thread[t] = "ended"
  /\ handler' = "done"
  /\ thread' = [t \in Threads |-> "joined"]
  /\ UNCHANGED <<server, signal, main, guards, session, context, accepting, next,
                 task, logic>>

\* run() returns because the context was stopped (in "thread_pool", the wait
\* for bstop ends because the handler set it); main destroys its CServer.
MainReturns ==
  /\ main = "running"
  /\ handler = "done"
  /\ main' = "returned"
  /\ UNCHANGED <<server, signal, handler, guards, thread, session, context, accepting, next,
                 task, logic>>

\* The statics are destroyed.  The join of ~LogicSystem may never return: see
\* StopEnds of LogicSystem.
StopLogic ==
  /\ main = "returned" /\ logic = "up"
  /\ logic' \in {"gone", "stuck"}
  /\ UNCHANGED <<server, signal, handler, main, guards, thread, session, context,
                 accepting, next, task>>

\* The destructor of the pool destroys the threads, and a thread that was not
\* joined ends the process by std::terminate.  In CoroutinServer the logic
\* layer, made later, goes first; in the others the order is unspecified.
Exit ==
  /\ main = "returned" /\ logic # "stuck"
  /\ server = "coroutine" => logic # "up"
  /\ main' = IF \A t \in Threads : thread[t] = "joined" THEN "exited"
                                                        ELSE "terminated"
  /\ UNCHANGED <<server, signal, handler, guards, thread, session, context, accepting, next,
                 task, logic>>

-----------------------------------------------------------------------------
Next == \/ Listen \/ PortTaken
        \/ \E r \in Runners : \/ \E c \in Conns : Accept(r, c) \/ Disconnect(r, c) \/ Post(r, c)
                             \/ AcceptFails(r) \/ Erased(r) \/ Inserted(r)
        \/ \E t \in Threads : ThreadEnds(t)
        \/ Signal \/ HandleSignal \/ Join \/ MainReturns
        \/ StopLogic \/ Exit

SafeSpec == Init /\ [][Next]_vars

\* Threads that can go on do.  Nobody has to connect, to leave or to raise
\* the signal.
Spec == /\ SafeSpec
        /\ WF_vars(Listen \/ PortTaken)
        /\ WF_vars(HandleSignal) /\ WF_vars(Join)
        /\ WF_vars(MainReturns) /\ WF_vars(StopLogic \/ Exit)
        /\ \A t \in Threads : WF_vars(ThreadEnds(t))
        /\ \A r \in Runners : WF_vars(Erased(r) \/ Inserted(r))

-----------------------------------------------------------------------------
(* Properties. *)

\* The state is well formed: the round robin stays among the contexts, a
\* context that lost its guard did so for a signal, and only threads erase.
TypeOK ==
  /\ server \in Servers
  /\ signal \in BOOLEAN
  /\ handler \in {"armed", "join", "done"}
  /\ main \in {"starting", "running", "returned", "exited", "terminated"}
  /\ guards \in BOOLEAN
  /\ thread \in [Threads -> {"running", "ended", "joined"}]
  /\ session \in [Conns -> {"none", "open", "closed"}]
  /\ context \in [Conns -> Contexts]
  /\ accepting \in Contexts /\ next \in Contexts
  /\ task \in [Runners -> {"idle", "insert", "erase"}]
  /\ logic \in {"none", "up", "gone", "stuck"}
  /\ (~guards => signal) /\ (handler # "armed" => signal)

\* The CServer lives in main.  A session has a plain pointer to it and calls
\* ClearSession when its connection ends, so none may be open, and no handler
\* may be on its way into the map, when main has destroyed it.
ServerOutlives ==
  server # "logical" /\ main # "running" =>
     /\ \A c \in Conns : session[c] # "open"
     /\ \A r \in Runners : task[r] = "idle"

\* Where the process ends in std::terminate: always in the logical server, which
\* never joins the threads of its pool; in the other two only if the port was
\* taken: then main comes back without the handler, and nobody was served.
NormalEnd ==
  main = "terminated" =>
     \/ server = "logical"
     \/ handler = "armed" /\ \A c \in Conns : session[c] = "none"

\* Once the signal was raised, the process ends if no client stays for ever:
\* a context without guard and without session lets its thread end, the join
\* returns and main too.  Two exceptions: the worker of the logic layer may
\* sleep through its stop; and the thread pool server (see SignalStops) ends
\* only if it never started.
StopsWhenLeft ==
  (\A c \in Conns : session[c] = "open" ~> session[c] # "open")
     => (signal /\ ~(Shared /\ main = "running")
           ~> main \in {"exited", "terminated"} \/ logic = "stuck" \/ (Shared /\ main = "running"))

\* "The server quits gracefully: catch kill signals such as ctrl+c, let it deal
\* with its messages and then quit."  A server that was running is stopped by
\* the signal.
SignalStops == signal /\ main = "running" ~> main # "running"
=============================================================================
