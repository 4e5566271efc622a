--------------------------------- MODULE Peers ---------------------------------
(***************************************************************************)
(* The programs that use a socket with blocking calls (and the coroutine   *)
(* server, whose co_await reads the same way), over one TCP connection per *)
(* client thread:                                                          *)
(*                                                                         *)
(*   echo clients   CoroutineTestClient, SyncClinet                        *)
(*   echo servers   Coroutine_server, SyncServer                           *)
(*   load clients   TestClient, json_client, of the servers with frames    *)
(*   end_point      functions that write a text, or read seven bytes, or   *)
(*                  do no more than connect, or resolve a name, and        *)
(*                  accpet_new_connection                                  *)
(*                                                                         *)
(* A program is the sequence of its reads and writes.  Each of them moves  *)
(* bytes to or from the buffers of the connection, as many at a time as    *)
(* there are, or as there is room for.  A client that does its work in     *)
(* main is a thread that main waits for.                                   *)
(***************************************************************************)
EXTENDS Integers, Sequences, FiniteSetsExt, SequencesExt

CONSTANTS Pairs,     (* the clients and servers put together: <<_, _>>     *)
          N,         (* connections of a load client (100 in the code)     *)
          Rounds,    (* requests of a client (500, or without end)         *)
          HEAD,      (* bytes of a head, the last one holds the length     *)
          BODY,      (* bytes of the body of a request                     *)
          CHUNK,     (* the buffer of an echo server (1024)                *)
          Cap        (* the room in a buffer of the connection             *)

EchoClients == {"CoroutineTestClient", "SyncClinet"}
EchoServers == {"Coroutine_server", "SyncServer"}
LoadClients == {"TestClient", "json_client"}
Writers == {"send_data_by_write", "send_data_by_send", "send_data_write"}
Readers == {"read_data_bye_read_some", "read_data_bye_receive", "read_data_bye_read"}
Connectors == {"connect_to_end", "dns_connect_to_end"}
External == {"frames", "sink", "source", "resolver"}

ASSUME PairsAssumption ==
  Pairs \subseteq (EchoClients \X EchoServers) \cup (LoadClients \X {"frames"})
                  \cup ((Writers \cup {"connect_to_end"}) \X {"sink", "accpet_new_connection"})
                  \cup (Readers \X {"source", "accpet_new_connection"})
                  \cup {<<"dns_connect_to_end", "resolver">>}

ASSUME SizesAssumption == {N, Rounds, HEAD, BODY, CHUNK, Cap} \subseteq Nat \ {0}

\* A request that an echo client writes before it reads finds room in the two
\* buffers and in the server, which may hold no more than one byte of it.
\* (For Finishes.)
ASSUME RoomAssumption == HEAD + BODY <= 2 * Cap + 1

VARIABLES
  pair,   (* the client and the server                                     *)
  main,   (* the main thread of the client                                 *)
  srv,    (* the main thread of the server, or its listener                *)
  thr,    (* the threads (coroutines) of each connection, by role          *)
  link,   (* the connections, with the bytes on their way up and down      *)
  sent,   (* history: how many bytes the client wrote                      *)
  heard   (* history: what it read                                         *)

vars == <<pair, main, srv, thr, link, sent, heard>>

-----------------------------------------------------------------------------
(* The programs: sequences of a call and what it moves.                    *)

\* Byte i of message r, whose body has n bytes.
Bytes(r, n) == [i \in 1 .. HEAD + n |-> [r |-> r, i |-> i, n |-> n]]
Frame(r) == Bytes(r, BODY)
Reply(r) == Bytes(r, BODY + 1)

CoroutineTestClient == <<<<"write", "frame">>, <<"read", "frame">>>>
SendThread == <<<<"write", "frame">>>>
RecvThread == <<<<"read", "head">>, <<"read", "body">>>>
Echo == <<<<"read_some", "chunk">>, <<"write", "data">>>>

\* Mutant: the server waits for a full buffer.
Session_ReadsAll == <<<<"read", "chunk">>, <<"write", "data">>>>
Session == <<<<"read_some", "chunk">>, <<"write", "data">>>>

\* Mutant: the body is read by one call of read_some.
TestClientThread_Some == <<<<"write", "frame">>, <<"read", "head">>, <<"read_some", "body">>>>
TestClientThread == <<<<"write", "frame">>, <<"read", "head">>, <<"read", "body">>>>
JsonClientThread == <<<<"write", "frame">>, <<"read", "head">>, <<"read", "body">>>>
Serve == <<<<"read", "head">>, <<"read", "body">>, <<"write", "reply">>>>
Sink == <<<<"read_some", "chunk">>>>
Source == <<<<"write", "frame">>>>

ConnectToEnd == <<>>
EndPointWrite == <<<<"write", "frame">>>>
SendData == <<<<"write_some", "frame">>>>
WriteData == <<<<"write", "frame">>>>
EndPointRead == <<<<"read", "frame">>>>
ReceiveData == <<<<"read_some", "frame">>>>
ReadData == <<<<"read", "frame">>>>

Programs ==
  [CoroutineTestClient |-> CoroutineTestClient, SyncClinet |-> SendThread,
   TestClient |-> TestClientThread, json_client |-> JsonClientThread,
   connect_to_end |-> ConnectToEnd, send_data_by_write |-> EndPointWrite,
   send_data_by_send |-> SendData, send_data_write |-> WriteData,
   read_data_bye_read_some |-> EndPointRead, read_data_bye_receive |-> ReceiveData,
   read_data_bye_read |-> ReadData,
   Coroutine_server |-> Echo, SyncServer |-> Session, frames |-> Serve,
   sink |-> Sink, source |-> Source]

Roles == {"client", "receiver", "server"}

Program(role) == CASE role = "client" -> Programs[pair[1]]
                   [] role = "receiver" -> RecvThread
                   [] role = "server" -> Programs[pair[2]]

\* How many times a program runs; 0 is without end.
Repeats(role) == IF role # "client" THEN IF pair[2] = "source" THEN 1 ELSE 0
                 ELSE IF pair[1] \in LoadClients THEN Rounds
                 ELSE IF pair[1] = "SyncClinet" THEN 0 ELSE 1

Connections == IF pair[1] \in LoadClients THEN N ELSE 1

-----------------------------------------------------------------------------
(* A thread: where it is in its program, the message it is at, the bytes   *)
(* it still has to write, those it has read and how many it still wants.   *)

Idle == [st |-> "none", pc |-> 0, round |-> 0, out |-> <<>>, in |-> <<>>,
         want |-> 0, failed |-> FALSE]

\* It comes to the call at pc.
At(th, prog, pc, round) ==
  LET call == prog[pc]
      text == CASE call[2] = "frame" -> Frame(round)
                [] call[2] = "data" -> th.in
                [] call[2] = "reply" -> Reply(th.in[1].r)
      size == CASE call[2] = "frame" -> HEAD + BODY
                [] call[2] = "head" -> HEAD
                [] call[2] = "body" -> th.in[HEAD].n
                [] call[2] = "chunk" -> CHUNK
  IN  IF call[1] \in {"write", "write_some"}
      THEN [th EXCEPT !.st = "run", !.pc = pc, !.round = round, !.out = text]
      ELSE [th EXCEPT !.st = "run", !.pc = pc, !.round = round, !.in = <<>>, !.want = size]

\* The call is over.  Rounds bounds the messages of an endless sender, and
\* the count of an endless reader.
Advance(th, role) ==
  LET done == [th EXCEPT !.out = <<>>, !.want = 0]
      prog == Program(role)
      next == Min({th.round + 1, Rounds + 1})
  IN  IF th.pc < Len(prog) THEN At(done, prog, th.pc + 1, th.round)
      ELSE IF Repeats(role) = 0 /\ role = "client" /\ th.round = Rounds
      THEN [done EXCEPT !.pc = 0]
      ELSE IF Repeats(role) = 0 \/ th.round < Repeats(role)
      THEN At(done, prog, 1, next)
      ELSE [done EXCEPT !.st = "ended"]

Ends(th, failed) == [th EXCEPT !.st = "ended", !.out = <<>>, !.want = 0, !.failed = failed]
Starts(role) == IF Program(role) = <<>> THEN Ends(Idle, FALSE)
                ELSE At(Idle, Program(role), 1, 1)

ClientGone == main.at \in {"returned", "terminated"}
ServerGone == srv \in {"returned", "terminated"}

\* Has this side closed the connection?  A receiver shares the socket of
\* its client; a connection in the backlog goes with the acceptor.
Closed(c, role) ==
  IF role = "server"
  THEN \/ ServerGone
       \/ thr[c].server.st = "ended"
       \/ link[c].st = "pending" /\ srv # "listening"
  ELSE ClientGone \/ thr[c].client.st \in {"ended", "joined"}

Peer(role) == IF role = "server" THEN "client" ELSE "server"
Out(role) == IF role = "server" THEN "down" ELSE "up"
In(role) == IF role = "server" THEN "up" ELSE "down"

Runs(c, role) == thr[c][role].st = "run" /\ ~Closed(c, role)

Init == /\ pair \in Pairs
        /\ main = [at |-> "spawn", spawned |-> 0, joined |-> 0]
        /\ srv = "listening"
        /\ thr = [c \in 1 .. N |-> [role \in Roles |-> Idle]]
        /\ link = [c \in 1 .. N |-> [st |-> "none", up |-> <<>>, down |-> <<>>]]
        /\ sent = [c \in 1 .. N |-> 0]
        /\ heard = [c \in 1 .. N |-> <<>>]

-----------------------------------------------------------------------------
(* The main thread of a client.                                            *)

\* The next thread; json_client waits for its threads after each of them,
\* the others when all have been started.
Spawn ==
  /\ main.at = "spawn"
  /\ LET c == main.spawned + 1
     IN  /\ thr' = [thr EXCEPT ![c].client.st = "connecting"]
         /\ main' = [at |-> IF pair[1] = "json_client" \/ c = Connections THEN "join" ELSE "spawn",
                     spawned |-> c, joined |-> 0]
  /\ UNCHANGED <<pair, srv, link, sent, heard>>

Waits == main.at = "join" /\ main.joined < main.spawned

\* Mutant: threads that were joined before are left out.
Join_Skips ==
  /\ Waits
  /\ LET c == main.joined + 1
     IN  /\ thr[c].client.st \in {"ended", "joined"}
         /\ main' = [main EXCEPT !.joined = c]
         /\ thr' = [thr EXCEPT ![c].client.st = "joined"]
  /\ UNCHANGED <<pair, srv, link, sent, heard>>

\* The threads are joined from the first one on.  To join a thread again is
\* an exception, which nobody catches.
Join ==
  /\ Waits
  /\ LET c == main.joined + 1
     IN  /\ thr[c].client.st \in {"ended", "joined"}
         /\ main' = IF thr[c].client.st = "ended" THEN [main EXCEPT !.joined = c]
                    ELSE [main EXCEPT !.at = "terminated"]
         /\ thr' = [thr EXCEPT ![c].client.st = "joined"]
  /\ UNCHANGED <<pair, srv, link, sent, heard>>

AfterJoins ==
  /\ main.at = "join" /\ main.joined = main.spawned
  /\ main' = [main EXCEPT !.at = IF main.spawned < Connections THEN "spawn" ELSE "returned"]
  /\ UNCHANGED <<pair, srv, thr, link, sent, heard>>

-----------------------------------------------------------------------------
(* The threads of a client, and the sessions of a server.                  *)

Connecting(c) == thr[c].client.st = "connecting" /\ ~ClientGone

\* SyncClinet has a second thread, and starts both even without connection.
Begin(c) ==
  [thr EXCEPT ![c].client = Starts("client"),
              ![c].receiver = IF pair[1] = "SyncClinet" THEN Starts("receiver") ELSE Idle]

Connect(c) ==
  /\ Connecting(c) /\ srv = "listening" /\ pair[2] # "resolver"
  /\ thr' = Begin(c)
  /\ link' = [link EXCEPT ![c].st = "pending"]
  /\ UNCHANGED <<pair, main, srv, sent, heard>>

\* dns_connect_to_end shows the addresses of the name: for all its own name
\* says, it connects to none of them.
Resolves(c) ==
  /\ Connecting(c) /\ pair[2] = "resolver"
  /\ thr' = [thr EXCEPT ![c].client = Ends(@, FALSE)]
  /\ UNCHANGED <<pair, main, srv, link, sent, heard>>

\* Or the name, or the server, is not found.
ConnectFails(c) ==
  /\ Connecting(c)
  /\ thr' = IF pair[1] = "SyncClinet" THEN Begin(c)
            ELSE [thr EXCEPT ![c].client = Ends(@, TRUE)]
  /\ UNCHANGED <<pair, main, srv, link, sent, heard>>

\* k bytes go out; what goes to a peer that is gone is lost.
Writes(c, role, k) ==
  LET th == thr[c][role]
      call == Program(role)[th.pc]
      rest == SubSeq(th.out, k + 1, Len(th.out))
  IN  /\ Runs(c, role) /\ th.out # <<>>
      /\ link[c].st \in {"pending", "up"}
      /\ k \in 1 .. Min({Len(th.out), Cap - Len(link[c][Out(role)])})
      /\ link' = [link EXCEPT ![c][Out(role)] = @ \o SubSeq(th.out, 1, k)]
      /\ thr' = [thr EXCEPT ![c][role] =
                   IF rest = <<>> \/ call[1] = "write_some" THEN Advance(th, role)
                   ELSE [th EXCEPT !.out = rest]]
      /\ sent' = IF role = "client" THEN [sent EXCEPT ![c] = @ + k] ELSE sent
      /\ UNCHANGED <<pair, main, srv, heard>>

\* k bytes come in.
Reads(c, role, k) ==
  LET th == thr[c][role]
      call == Program(role)[th.pc]
      buf == link[c][In(role)]
      more == [th EXCEPT !.in = @ \o SubSeq(buf, 1, k), !.want = @ - k]
  IN  /\ Runs(c, role) /\ th.want > 0
      /\ link[c].st \in {"pending", "up"}
      /\ k \in 1 .. Min({th.want, Len(buf)})
      /\ link' = [link EXCEPT ![c][In(role)] = SubSeq(buf, k + 1, Len(buf))]
      /\ thr' = [thr EXCEPT ![c][role] =
                   IF more.want = 0 \/ call[1] = "read_some" THEN Advance(more, role)
                   ELSE more]
      /\ heard' = IF role = "server" THEN heard
                  ELSE [heard EXCEPT ![c] = @ \o SubSeq(buf, 1, k)]
      /\ UNCHANGED <<pair, main, srv, sent>>

\* Does the call of this thread fail: there is no connection, it was reset,
\* or the peer has closed it, and for a read, nothing is left in it?
Broken(c, role) ==
  \/ link[c].st \in {"none", "reset"}
  \/ /\ Closed(c, Peer(role))
     /\ thr[c][role].out # <<>> \/ link[c][In(role)] = <<>>

\* An exception (or eof) ends the thread, and in SyncClinet, where nothing
\* in a thread catches it, the program.
Fails(c, role) ==
  /\ Runs(c, role) /\ Broken(c, role)
  /\ thr[c][role].out # <<>> \/ thr[c][role].want > 0
  /\ thr' = [thr EXCEPT ![c][role] = Ends(@, TRUE)]
  /\ main' = IF role # "server" /\ pair[1] = "SyncClinet"
             THEN [main EXCEPT !.at = "terminated"] ELSE main
  /\ UNCHANGED <<pair, srv, link, sent, heard>>

-----------------------------------------------------------------------------
(* The main thread of a server.                                            *)

\* SyncServer starts a thread, Coroutine_server a coroutine.
Accept(c) ==
  /\ pair[2] # "accpet_new_connection"
  /\ srv = "listening" /\ link[c].st = "pending"
  /\ link' = [link EXCEPT ![c].st = "up"]
  /\ thr' = [thr EXCEPT ![c].server = Starts("server")]
  /\ UNCHANGED <<pair, main, srv, sent, heard>>

\* It returns with the connection, and drops both sockets.
AcceptNewConnection(c) ==
  /\ pair[2] = "accpet_new_connection"
  /\ srv = "listening" /\ link[c].st = "pending"
  /\ srv' = "returned"
  /\ link' = [link EXCEPT ![c].st = "up"]
  /\ UNCHANGED <<pair, main, thr, sent, heard>>

\* Or with an error.
AcceptNewFails ==
  /\ pair[2] = "accpet_new_connection" /\ srv = "listening"
  /\ srv' = "returned"
  /\ UNCHANGED <<pair, main, thr, link, sent, heard>>

\* An exception ends the listener of the coroutine server: nobody hears of
\* it, and the sessions go on.
ListenerEnds ==
  /\ pair[2] = "Coroutine_server" /\ srv = "listening"
  /\ srv' = "deaf"
  /\ UNCHANGED <<pair, main, thr, link, sent, heard>>

\* Has the server a thread that was never joined, be it over or not?
Accepted == \E c \in 1 .. N : thr[c].server.st # "none"

\* Mutant: the threads are joined, also after an exception.
ServerEnds_Joins ==
  /\ pair[2] = "SyncServer" /\ srv = "listening"
  /\ \A c \in 1 .. N : thr[c].server.st \in {"none", "ended"}
  /\ srv' = "returned"
  /\ UNCHANGED <<pair, main, thr, link, sent, heard>>

\* An exception leaves the function server, and main: the loop of joins is
\* skipped, and the destructor of a thread in thread_set ends the program.
ServerEnds ==
  /\ pair[2] = "SyncServer" /\ srv = "listening"
  /\ srv' = IF Accepted THEN "terminated" ELSE "returned"
  /\ UNCHANGED <<pair, main, thr, link, sent, heard>>

\* SIGINT, SIGTERM.
Signal ==
  /\ pair[2] = "Coroutine_server" /\ ~ServerGone
  /\ srv' = "returned"
  /\ UNCHANGED <<pair, main, thr, link, sent, heard>>

-----------------------------------------------------------------------------
(* External: the network, and servers that are modelled elsewhere.         *)

Reset(c) ==
  /\ link[c].st \in {"pending", "up"}
  /\ link' = [link EXCEPT ![c] = [st |-> "reset", up |-> <<>>, down |-> <<>>]]
  /\ UNCHANGED <<pair, main, srv, thr, sent, heard>>

PeerLeaves(c) ==
  /\ pair[2] \in External /\ thr[c].server.st = "run"
  /\ thr' = [thr EXCEPT ![c].server = Ends(@, FALSE)]
  /\ UNCHANGED <<pair, main, srv, link, sent, heard>>

-----------------------------------------------------------------------------
Moves(c, role) == \/ \E k \in 1 .. Cap : Writes(c, role, k) \/ Reads(c, role, k)
                  \/ Fails(c, role)
ThreadStep(c) == \/ Connect(c) \/ Resolves(c) \/ ConnectFails(c)
                 \/ Accept(c) \/ AcceptNewConnection(c)
                 \/ \E role \in Roles : Moves(c, role)
MainStep == Spawn \/ Join \/ AfterJoins

Next == \/ MainStep \/ AcceptNewFails \/ ListenerEnds \/ ServerEnds \/ Signal
        \/ \E c \in 1 .. N : ThreadStep(c) \/ Reset(c) \/ PeerLeaves(c)

\* Every thread that can go on does, and so does an accept that need not wait.
\* Nobody has to fail, to send a signal or to leave.
Fairness == /\ WF_vars(MainStep)
            /\ \A c \in 1 .. N : /\ WF_vars(Connect(c) \/ Resolves(c) \/ ConnectFails(c))
                                 /\ WF_vars(Accept(c) \/ AcceptNewConnection(c))
                                 /\ \A role \in Roles : WF_vars(Moves(c, role))

Spec == Init /\ [][Next]_vars /\ Fairness

-----------------------------------------------------------------------------
(* Properties.                                                             *)

\* What a client is to read in all, one reply after the other.
Expected == LET text(r) == IF pair[2] = "frames" THEN Reply(r) ELSE Frame(r)
                size == Len(text(1))
                times == CASE pair[1] \in Writers \cup Connectors -> 0
                           [] pair[1] \in LoadClients \cup {"SyncClinet"} -> Rounds
                           [] OTHER -> 1
            IN  [j \in 1 .. times * size |-> text(((j - 1) \div size) + 1)[((j - 1) % size) + 1]]

\* A client reads the replies to its requests, in their order and byte by
\* byte, however they come in pieces, and nothing else; one whose thread ends
\* without an error has written everything and read it all, but for send
\* and receive, which return after a part and are not called again, for all
\* that endpoint.cpp:243 and 334 say.
\* (SyncServer.cpp session, Coroutine_server.cpp echo, the loops of the
\* clients, endpoint.cpp.)
RepliesMatch ==
  \A c \in 1 .. N :
    /\ IsPrefix(heard[c], Expected)
    /\ LET th == thr[c].client
       IN  th.st \in {"ended", "joined"} /\ ~th.failed =>
             /\ heard[c] = Expected \/ (pair[1] = "read_data_bye_receive" /\ heard[c] # <<>>)
             /\ pair[1] \in Writers \ {"send_data_by_send"} => sent[c] = HEAD + BODY

\* How the programs end.  A client returns when none of its threads runs any
\* more, and is terminated in the middle in two cases only: json_client in
\* its second round, so that it never makes a third connection, and SyncClinet
\* when its connection breaks.  SyncServer does not wait for its
\* sessions (the loop at SyncServer.cpp:75 is never reached): it is
\* terminated as soon as it has had one, and returns only if it had none.
\* (See MakesAll and WaitsForSessions.)
NormalEnd ==
  /\ main.at = "returned" =>
       /\ \A c \in 1 .. Connections : thr[c].client.st = "joined"
       /\ pair[1] # "SyncClinet" /\ (pair[1] = "json_client" => Connections = 1)
  /\ main.at = "terminated" =>
       \/ pair[1] = "json_client" /\ main.spawned = 2 /\ thr[1].client.st = "joined"
       \/ /\ pair[1] = "SyncClinet"
          /\ \E role \in {"client", "receiver"} : thr[1][role].failed
  /\ pair[2] = "SyncServer" /\ ServerGone => (srv = "terminated") = Accepted

\* Nobody waits for ever: a client comes to its end, or, in SyncClinet,
\* hears the replies to all that it has sent.  No reply is waited for by
\* both sides, also where a request does not fit into the buffers at once.
Finishes == <>[](ClientGone \/ (pair[1] = "SyncClinet" /\ heard[1] = Expected))

(* What comments of the code promise.                                      *)

\* "If the acceptor quits unexpectedly, the main thread is to wait until all
\* child threads have quit, and then quit" (SyncServer.cpp:74).
WaitsForSessions ==
  pair[2] = "SyncServer" /\ ServerGone => \A c \in 1 .. N : thr[c].server.st # "run"

\* "Make 100 connections" (json_client.cpp:22): N in the model.
MakesAll == pair[1] \in LoadClients /\ ClientGone => main.spawned = N
=============================================================================
