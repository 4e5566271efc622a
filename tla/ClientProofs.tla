----------------------------- MODULE ClientProofs -----------------------------
(***************************************************************************)
(* Theorems about what a client gets back.                                 *)
(*                                                                         *)
(* The first part is about Peers, for any pairs of programs, number of     *)
(* connections and rounds, sizes of messages and room in the buffers: how  *)
(* the main threads end (Control), and what has been read of the stream    *)
(* (Data).  Data says of each connection where the two programs at its     *)
(* ends are, in bytes written and read; what is on the way is in between.  *)
(*                                                                         *)
(* The second part is about the messages of protobuf, BookUser and         *)
(* HelloCall, for any values of the fields.  The loops over the items are  *)
(* folds; what they compute is proved by induction on the items, for which *)
(* CountUp takes the place of an induction rule.                           *)
(***************************************************************************)
EXTENDS Peers, BookUser, HelloCall, SequenceTheorems, FiniteSetTheorems,
        WellFoundedInduction, TLAPS

-----------------------------------------------------------------------------
(* Shapes, and the main threads.                                           *)

Fields == {"st", "pc", "round", "out", "in", "want", "failed"}
LinkFields == {"st", "up", "down"}

Shape ==
  /\ pair \in Pairs
  /\ main \in [at : {"spawn", "join", "returned", "terminated"}, spawned : Nat, joined : Nat]
  /\ DOMAIN thr = 1 .. N /\ DOMAIN link = 1 .. N /\ DOMAIN sent = 1 .. N /\ DOMAIN heard = 1 .. N
  /\ \A c \in 1 .. N : /\ DOMAIN thr[c] = Roles /\ DOMAIN link[c] = LinkFields
                       /\ \A role \in Roles : DOMAIN thr[c][role] = Fields

\* The threads are started from the first one on.
Spawned ==
  /\ main.joined <= main.spawned /\ main.spawned <= Connections
  /\ main.at = "spawn" => main.spawned < Connections
  /\ \A c \in 1 .. N : /\ thr[c].client.st = "none" <=> c > main.spawned
                       /\ c > main.spawned => thr[c].receiver.st = "none"

\* Whoever starts them all before it joins the first joins each of them once.
JoinsOnce ==
  pair[1] # "json_client" =>
    /\ \A c \in 1 .. N : thr[c].client.st = "joined" <=> c <= main.joined
    /\ main.at = "spawn" => main.joined = 0
    /\ main.at = "join" => main.spawned = Connections
    /\ main.at = "returned" => main.joined = Connections

\* json_client comes back to its first thread with the second.
JoinsAgain ==
  pair[1] = "json_client" =>
    LET joined == thr[1].client.st = "joined"
    IN  CASE main.at = "spawn" -> main.spawned = 0 \/ (main.spawned = 1 /\ joined)
          [] main.at = "join" -> \/ main.spawned = 1 /\ joined = (main.joined = 1)
                                 \/ main.spawned = 2 /\ main.joined = 0 /\ joined
          [] main.at = "returned" -> main.spawned = 1 /\ Connections = 1 /\ joined
          [] main.at = "terminated" -> main.spawned = 2 /\ joined

\* SyncClinet ends with the first of its threads that fails.
Terminates ==
  /\ pair[1] \notin {"json_client", "SyncClinet"} => main.at # "terminated"
  /\ pair[1] = "SyncClinet" =>
       IF main.at = "terminated" THEN \E role \in {"client", "receiver"} : thr[1][role].failed
       ELSE thr[1].client.st \in {"none", "connecting", "run"}

ServerMain ==
  pair[2] = "SyncServer" => /\ srv \in {"listening", "returned", "terminated"}
                            /\ ServerGone => (srv = "terminated") = Accepted

Control == Shape /\ Spawned /\ JoinsOnce /\ JoinsAgain /\ Terminates /\ ServerMain

-----------------------------------------------------------------------------
(* The bytes.                                                              *)

\* Byte j of a stream of messages whose bodies have n bytes.
Octet(n, j) == [r |-> ((j - 1) \div (HEAD + n)) + 1, i |-> ((j - 1) % (HEAD + n)) + 1, n |-> n]
Octets(n) == [r : Nat, i : Nat, n : {n}]

\* q is the part of that stream behind its first `from' bytes.
Part(q, n, from) == q \in Seq(Octets(n)) /\ \A j \in 1 .. Len(q) : q[j] = Octet(n, from + j)

\* How many bytes come before message r.
Pos(r, n) == (r - 1) * (HEAD + n)

\* The length of a body on the way down to the client, and what is expected.
DownBody(p) == IF p[2] = "frames" THEN BODY + 1 ELSE BODY
Total(p) == CASE p[1] \in Writers \cup Connectors -> 0
              [] p[1] \in LoadClients -> Pos(Rounds + 1, BODY + 1)
              [] p[1] = "SyncClinet" -> Pos(Rounds + 1, BODY)
              [] OTHER -> HEAD + BODY

\* A client that runs, has written s bytes and heard n.
TestClientAt(a, s, n) ==
  /\ a.round = 1
  /\ \/ a.pc = 1 /\ a.want = 0 /\ s + Len(a.out) = HEAD + BODY /\ n = 0
     \/ a.pc = 2 /\ a.out = <<>> /\ s = HEAD + BODY /\ n + a.want = HEAD + BODY

SyncClinetAt(a, s) ==
  /\ a.want = 0 /\ a.round \in 1 .. Rounds
  /\ \/ a.pc = 1 /\ s + Len(a.out) = Pos(a.round + 1, BODY)
     \/ a.pc = 0 /\ a.out = <<>> /\ s = Pos(Rounds + 1, BODY)

LoadClientAt(a, s, n) ==
  /\ a.round \in 1 .. Rounds
  /\ s + Len(a.out) = Pos(a.round + 1, BODY)
  /\ \/ a.pc = 1 /\ a.want = 0 /\ n = Pos(a.round, BODY + 1)
     \/ /\ a.pc = 2 /\ a.out = <<>>
        /\ n + a.want = Pos(a.round, BODY + 1) + HEAD /\ Len(a.in) + a.want = HEAD
     \/ a.pc = 3 /\ a.out = <<>> /\ n + a.want = Pos(a.round + 1, BODY + 1)

WriterAt(a, s, n) == /\ a.round = 1 /\ a.pc = 1 /\ a.want = 0
                     /\ s + Len(a.out) = HEAD + BODY /\ n = 0
ReaderAt(p, a, n) == /\ a.round = 1 /\ a.pc = 1 /\ a.out = <<>> /\ n + a.want = HEAD + BODY
                     /\ p[1] = "read_data_bye_receive" => n = 0

ClientAt(p, a, s, n) ==
  CASE p[1] = "CoroutineTestClient" -> TestClientAt(a, s, n)
    [] p[1] = "SyncClinet" -> SyncClinetAt(a, s)
    [] p[1] \in LoadClients -> LoadClientAt(a, s, n)
    [] p[1] \in Writers -> WriterAt(a, s, n)
    [] p[1] \in Readers -> ReaderAt(p, a, n)
    [] OTHER -> FALSE

\* One that has come to its end.
Finished(p, s, n) ==
  /\ p[1] # "SyncClinet"
  /\ n = Total(p) \/ (p[1] = "read_data_bye_receive" /\ n > 0)
  /\ p[1] \in Writers \ {"send_data_by_send"} => s = HEAD + BODY

ClientOK(p, a, s, n) ==
  CASE a.st \in {"none", "connecting"} -> a = [Idle EXCEPT !.st = a.st] /\ s = 0 /\ n = 0
    [] a.st = "run" -> /\ ~a.failed /\ a.want \in Nat
                       /\ Part(a.out, BODY, s) /\ a.in \in Seq(Octets(DownBody(p)))
                       /\ ClientAt(p, a, s, n)
    [] a.st \in {"ended", "joined"} -> ~a.failed => Finished(p, s, n)
    [] OTHER -> FALSE

ReceiverOK(p, b) ==
  IF p[1] # "SyncClinet" \/ b.st = "none" THEN b = Idle
  ELSE /\ b.st \in {"run", "ended"}
       /\ b.st = "run" => /\ b.out = <<>> /\ b.want \in Nat /\ b.in \in Seq(Octets(BODY))
                          /\ (b.pc = 1 /\ Len(b.in) + b.want = HEAD) \/ b.pc = 2

\* A session that runs, has read x bytes and written y.
EchoAt(v, x, y) ==
  /\ v.in \in Seq(Octets(BODY)) /\ Part(v.out, BODY, y) /\ y + Len(v.out) = x
  /\ (v.pc = 1 /\ v.out = <<>> /\ v.in = <<>>) \/ (v.pc = 2 /\ v.want = 0)

ServeAt(v, q, x, y) ==
  \/ /\ v.pc = 1 /\ v.out = <<>> /\ y = Pos(q, BODY + 1)
     /\ Part(v.in, BODY, Pos(q, BODY)) /\ x = Pos(q, BODY) + Len(v.in)
     /\ Len(v.in) + v.want = HEAD
  \/ /\ v.pc = 2 /\ v.out = <<>> /\ y = Pos(q, BODY + 1)
     /\ Part(v.in, BODY, Pos(q, BODY) + HEAD) /\ x = Pos(q, BODY) + HEAD + Len(v.in)
     /\ Len(v.in) + v.want = BODY
  \/ /\ v.pc = 3 /\ v.want = 0 /\ x = Pos(q + 1, BODY)
     /\ Part(v.out, BODY + 1, y) /\ y + Len(v.out) = Pos(q + 1, BODY + 1)

SinkAt(v, y) == v.pc = 1 /\ v.out = <<>> /\ v.in \in Seq(Octets(BODY)) /\ y = 0
SourceAt(v, y) == /\ v.round = 1 /\ v.pc = 1 /\ v.want = 0
                  /\ Part(v.out, BODY, y) /\ y + Len(v.out) = HEAD + BODY

ServerAt(p, v, x, y) ==
  /\ v.want \in Nat
  /\ CASE p[2] \in EchoServers -> EchoAt(v, x, y)
       [] p[2] = "frames" -> \E q \in Nat \ {0} : ServeAt(v, q, x, y)
       [] p[2] = "sink" -> SinkAt(v, y)
       [] p[2] = "source" -> SourceAt(v, y)
       [] OTHER -> FALSE

ServerOK(p, v, x, y) ==
  CASE v.st = "none" -> x = 0 /\ y = 0
    [] v.st = "run" -> ServerAt(p, v, x, y)
    [] v.st = "ended" -> p[2] \in EchoServers => y <= x
    [] OTHER -> FALSE

\* The bytes on their way, and the session behind them, which has read what is
\* not on the way up and written what was heard or is on the way down.
Flow(p, v, l, s, n) ==
  /\ Part(l.up, BODY, s - Len(l.up)) /\ Part(l.down, DownBody(p), n)
  /\ Len(l.up) <= s
  /\ ServerOK(p, v, s - Len(l.up), n + Len(l.down))

ConnectionOK(p, t, l, s, h) ==
  /\ s \in Nat /\ Part(h, DownBody(p), 0) /\ Len(h) <= Total(p)
  /\ p[1] = "SyncClinet" => Len(h) <= s
  /\ ClientOK(p, t.client, s, Len(h)) /\ ReceiverOK(p, t.receiver)
  /\ l.st \in {"none", "pending", "up", "reset"}
  /\ l.st = "none" => s = 0 /\ Len(h) = 0
  /\ t.client.st \in {"none", "connecting"} \/ p[2] = "resolver" => l.st = "none"
  /\ l.st # "up" /\ l.st # "reset" => t.server.st = "none"
  /\ l.st # "reset" => Flow(p, t.server, l, s, Len(h))

Data == \A c \in 1 .. N : ConnectionOK(pair, thr[c], link[c], sent[c], heard[c])

-----------------------------------------------------------------------------
(* The main threads.                                                       *)

\* Where a thread is when it goes on with its program: it runs, or is at its
\* end.  The client of SyncClinet writes without end.
LEMMA AtRuns ==
  ASSUME NEW th, NEW prog, NEW pc, NEW round, DOMAIN th = Fields
  PROVE  LET a == At(th, prog, pc, round)
         IN  DOMAIN a = Fields /\ a.st = "run" /\ a.failed = th.failed
  BY DEF At, Fields

\* A thread whose call is over runs on, or has come to its end.
LEMMA AdvanceRuns ==
  ASSUME NEW th, NEW role, DOMAIN th = Fields, th.st = "run"
  PROVE  LET a == Advance(th, role)
         IN  /\ DOMAIN a = Fields /\ a.st \in {"run", "ended"} /\ a.failed = th.failed
             /\ pair[1] = "SyncClinet" /\ role = "client" => a.st = "run"
<1> DEFINE done == [th EXCEPT !.out = <<>>, !.want = 0]
           a == Advance(th, role)
<1>1. /\ DOMAIN done = Fields /\ done.failed = th.failed
      /\ DOMAIN [done EXCEPT !.pc = 0] = Fields /\ [done EXCEPT !.pc = 0].failed = th.failed
      /\ [done EXCEPT !.pc = 0].st = "run"
      /\ LET e == [done EXCEPT !.st = "ended"]
         IN  DOMAIN e = Fields /\ e.st = "ended" /\ e.failed = th.failed
  BY DEF Fields
<1>2. \/ \E pc, round : a = At(done, Program(role), pc, round)
      \/ a = [done EXCEPT !.pc = 0]
      \/ a = [done EXCEPT !.st = "ended"] /\ Repeats(role) # 0
  BY DEF Advance
<1>3. pair[1] = "SyncClinet" /\ role = "client" => Repeats(role) = 0
  BY DEF Repeats, LoadClients
<1> HIDE DEF done, a
<1>4. CASE \E pc, round : a = At(done, Program(role), pc, round)
  BY <1>1, <1>4, AtRuns DEF a
<1>5. CASE a = [done EXCEPT !.pc = 0]
  BY <1>1, <1>5 DEF a
<1>6. CASE a = [done EXCEPT !.st = "ended"] /\ Repeats(role) # 0
  BY <1>1, <1>3, <1>6 DEF a
<1> QED
  BY <1>2, <1>4, <1>5, <1>6

\* A thread that starts runs, or has nothing to do.
LEMMA StartsRuns ==
  ASSUME NEW role
  PROVE  LET a == Starts(role)
         IN  /\ DOMAIN a = Fields /\ a.st \in {"run", "ended"} /\ ~a.failed
             /\ a.st = "ended" => Program(role) = <<>>
<1>1. DOMAIN Idle = Fields /\ ~Idle.failed
  BY DEF Idle, Fields
<1>2. CASE Program(role) = <<>>
  BY <1>2, <1>1 DEF Starts, Ends, Fields
<1>3. CASE Program(role) # <<>>
  BY <1>3, <1>1, AtRuns DEF Starts
<1> QED
  BY <1>2, <1>3

\* What a read, a write, or the failure of one does to a thread and to main.
Moved(c, role, x) ==
  /\ pair' = pair /\ srv' = srv
  /\ DOMAIN link' = 1 .. N /\ DOMAIN sent' = 1 .. N /\ DOMAIN heard' = 1 .. N
  /\ \A d \in 1 .. N : DOMAIN link'[d] = LinkFields
  /\ thr' = [thr EXCEPT ![c][role] = x]
  /\ DOMAIN x = Fields /\ x.st \in {"run", "ended"}
  /\ \/ /\ main' = main
        /\ pair[1] = "SyncClinet" /\ role = "client" => x.st = "run"
     \/ /\ pair[1] = "SyncClinet" /\ role # "server" /\ x.failed
        /\ main' = [main EXCEPT !.at = "terminated"]

\* A step that moves bytes is a step of one thread that runs.
LEMMA MovesOne ==
  ASSUME Shape, NEW c \in 1 .. N, NEW role \in Roles, Moves(c, role)
  PROVE  Runs(c, role) /\ \E x : Moved(c, role, x)
<1> DEFINE th == thr[c][role]
<1>1. DOMAIN th = Fields
  BY DEF Shape
<1>2. ASSUME NEW k \in 1 .. Cap, Writes(c, role, k)
      PROVE  Runs(c, role) /\ \E x : Moved(c, role, x)
  <2> DEFINE rest == SubSeq(th.out, k + 1, Len(th.out))
             x == IF rest = <<>> \/ Program(role)[th.pc][1] = "write_some"
                  THEN Advance(th, role) ELSE [th EXCEPT !.out = rest]
             buf == link[c][Out(role)] \o SubSeq(th.out, 1, k)
  <2>1. /\ Runs(c, role) /\ thr' = [thr EXCEPT ![c][role] = x]
        /\ link' = [link EXCEPT ![c][Out(role)] = buf]
        /\ sent' = sent \/ \E i : sent' = [sent EXCEPT ![c] = i]
        /\ pair' = pair /\ main' = main /\ srv' = srv /\ heard' = heard
    BY <1>2 DEF Writes
  <2>2. th.st = "run"
    BY <2>1 DEF Runs
  <2>3. /\ DOMAIN x = Fields /\ x.st \in {"run", "ended"}
        /\ pair[1] = "SyncClinet" /\ role = "client" => x.st = "run"
    <3> HIDE DEF th
    <3>1. LET y == [th EXCEPT !.out = rest] IN DOMAIN y = Fields /\ y.st = "run"
      BY <1>1, <2>2 DEF Fields
    <3> HIDE DEF rest
    <3> QED
      BY <1>1, <2>2, <3>1, AdvanceRuns
  <2> HIDE DEF x, buf
  <2>4. DOMAIN link' = 1 .. N /\ \A d \in 1 .. N : DOMAIN link'[d] = LinkFields
    BY <2>1 DEF Shape
  <2>5. DOMAIN sent' = 1 .. N /\ DOMAIN heard' = 1 .. N
    BY <2>1 DEF Shape
  <2> QED
    BY <2>1, <2>3, <2>4, <2>5 DEF Moved
<1>3. ASSUME NEW k \in 1 .. Cap, Reads(c, role, k)
      PROVE  Runs(c, role) /\ \E x : Moved(c, role, x)
  <2> DEFINE more == [th EXCEPT !.in = @ \o SubSeq(link[c][In(role)], 1, k), !.want = @ - k]
             x == IF more.want = 0 \/ Program(role)[th.pc][1] = "read_some"
                  THEN Advance(more, role) ELSE more
             buf == SubSeq(link[c][In(role)], k + 1, Len(link[c][In(role)]))
  <2>1. /\ Runs(c, role) /\ thr' = [thr EXCEPT ![c][role] = x]
        /\ link' = [link EXCEPT ![c][In(role)] = buf]
        /\ heard' = heard \/ \E q : heard' = [heard EXCEPT ![c] = q]
        /\ pair' = pair /\ main' = main /\ srv' = srv /\ sent' = sent
    BY <1>3 DEF Reads
  <2>2. th.st = "run"
    BY <2>1 DEF Runs
  <2>3. /\ DOMAIN x = Fields /\ x.st \in {"run", "ended"}
        /\ pair[1] = "SyncClinet" /\ role = "client" => x.st = "run"
    <3> HIDE DEF th
    <3>1. DOMAIN more = Fields /\ more.st = "run"
      BY <1>1, <2>2 DEF Fields
    <3> HIDE DEF more
    <3> QED
      BY <3>1, AdvanceRuns
  <2> HIDE DEF x, buf
  <2>4. DOMAIN link' = 1 .. N /\ \A d \in 1 .. N : DOMAIN link'[d] = LinkFields
    BY <2>1 DEF Shape
  <2>5. DOMAIN sent' = 1 .. N /\ DOMAIN heard' = 1 .. N
    BY <2>1 DEF Shape
  <2> QED
    BY <2>1, <2>3, <2>4, <2>5 DEF Moved
<1>4. CASE Fails(c, role)
  <2> DEFINE x == Ends(th, TRUE)
  <2>1. /\ Runs(c, role) /\ thr' = [thr EXCEPT ![c][role] = x]
        /\ main' = IF role # "server" /\ pair[1] = "SyncClinet"
                   THEN [main EXCEPT !.at = "terminated"] ELSE main
        /\ pair' = pair /\ srv' = srv /\ link' = link /\ sent' = sent /\ heard' = heard
    BY <1>4 DEF Fails
  <2>2. DOMAIN x = Fields /\ x.st = "ended" /\ x.failed
    <3> HIDE DEF th
    <3> QED
      BY <1>1 DEF Ends, Fields
  <2> HIDE DEF x
  <2> QED
    BY <2>1, <2>2 DEF Moved, Shape, Roles
<1> QED
  BY <1>2, <1>3, <1>4 DEF Moves

\* A thread goes on, by itself.
LEMMA MovedControl ==
  ASSUME Control, NEW c \in 1 .. N, NEW role \in Roles, Runs(c, role),
         NEW x, Moved(c, role, x)
  PROVE  Control'
<1> USE DEF Moved
<1>1. 1 \in 1 .. N
  BY SizesAssumption
<1>2. /\ \A d \in 1 .. N, ro \in Roles :
            thr'[d][ro] = IF d = c /\ ro = role THEN x ELSE thr[d][ro]
      /\ DOMAIN thr' = 1 .. N /\ \A d \in 1 .. N : DOMAIN thr'[d] = Roles
  BY DEF Control, Shape
<1>3. /\ thr[c][role].st = "run"
      /\ role # "server" => main.at \notin {"returned", "terminated"}
  BY DEF Runs, Closed, ClientGone, Roles
<1>4. /\ main'.spawned = main.spawned /\ main'.joined = main.joined
      /\ main'.at # main.at => /\ main'.at = "terminated" /\ pair[1] = "SyncClinet"
                              /\ role # "server" /\ x.failed
      /\ main' \in [at : {"spawn", "join", "returned", "terminated"}, spawned : Nat, joined : Nat]
  BY DEF Control, Shape
<1>5. Shape'
  BY <1>2, <1>4 DEF Control, Shape
<1>6. Connections' = Connections
  BY DEF Connections
<1>7. \A d \in 1 .. N : \/ thr'[d]["client"].st = thr[d]["client"].st
                       \/ /\ d = c /\ role = "client"
                          /\ thr[d]["client"].st = "run" /\ thr'[d]["client"].st \in {"run", "ended"}
  BY <1>2, <1>3 DEF Roles
<1>8. Spawned'
  <2>1. \A d \in 1 .. N : thr[d]["receiver"].st = "none" => thr'[d]["receiver"].st = "none"
    BY <1>2, <1>3 DEF Roles
  <2> QED
    BY <1>4, <1>6, <1>7, <2>1 DEF Control, Spawned
<1>9. JoinsOnce'
  BY <1>4, <1>6, <1>7 DEF Control, JoinsOnce
<1>10. JoinsAgain'
  <2>1. (thr'[1].client.st = "joined") <=> (thr[1].client.st = "joined")
    BY <1>1, <1>7
  <2>2. pair[1] = "json_client" => main'.at = main.at
    BY <1>4
  <2> QED
    BY <1>4, <1>6, <2>1, <2>2 DEF Control, JoinsAgain
<1>11. Terminates'
  <2>1. pair[1] \notin {"json_client", "SyncClinet"} => main'.at # "terminated"
    BY <1>4 DEF Control, Terminates
  <2>2. ASSUME pair[1] = "SyncClinet", main'.at = "terminated"
        PROVE  \E ro \in {"client", "receiver"} : thr'[1][ro].failed
    <3>1. CASE main'.at = main.at
      BY <1>1, <1>2, <1>3, <2>2, <3>1 DEF Control, Terminates, Roles
    <3>2. CASE main'.at # main.at
      <4>1. role \in {"client", "receiver"} /\ x.failed
        BY <1>4, <3>2 DEF Roles
      <4>2. c <= 1
        BY <1>3, <1>4, <2>2, <4>1, SizesAssumption DEF Control, Spawned, Connections, LoadClients, Shape
      <4> QED
        BY <1>2, <4>1, <4>2
    <3> QED
      BY <3>1, <3>2
  <2>3. ASSUME pair[1] = "SyncClinet", main'.at # "terminated"
        PROVE  thr'[1].client.st \in {"none", "connecting", "run"}
    BY <1>1, <1>2, <1>3, <1>4, <2>3 DEF Control, Terminates, Roles
  <2> QED
    BY <2>1, <2>2, <2>3 DEF Terminates
<1>12. ServerMain'
  <2>1. Accepted' <=> Accepted
    BY <1>2, <1>3 DEF Accepted, Roles
  <2> QED
    BY <2>1 DEF Control, ServerMain, ServerGone
<1> QED
  BY <1>5, <1>8, <1>9, <1>10, <1>11, <1>12 DEF Control

\* Who is put together with whom.
LEMMA Meant ==
  ASSUME NEW p \in Pairs
  PROVE  \/ p[1] \in EchoClients /\ p[2] \in EchoServers
         \/ p[1] \in LoadClients /\ p[2] = "frames"
         \/ p[1] \in Writers \cup {"connect_to_end"} /\ p[2] \in {"sink", "accpet_new_connection"}
         \/ p[1] \in Readers /\ p[2] \in {"source", "accpet_new_connection"}
         \/ p[1] = "dns_connect_to_end" /\ p[2] = "resolver"
  BY PairsAssumption DEF EchoClients, EchoServers, LoadClients, Writers, Readers

\* Main starts its threads and joins them.
LEMMA SpawnControl ==
  ASSUME Control, Spawn
  PROVE  Control'
<1> DEFINE s == main.spawned + 1
           y == [thr[s].client EXCEPT !.st = "connecting"]
<1>1. /\ main.at = "spawn" /\ s \in 1 .. Connections /\ s \in 1 .. N /\ Connections' = Connections
      /\ main.spawned \in Nat /\ main.joined \in Nat /\ Connections \in Nat
      /\ 1 \in 1 .. N /\ main.spawned = s - 1
  BY SizesAssumption DEF Spawn, Control, Shape, Spawned, Connections
<1>2. /\ pair' = pair /\ srv' = srv /\ link' = link /\ sent' = sent /\ heard' = heard
      /\ thr' = [thr EXCEPT ![s].client = y]
      /\ main' = [at |-> IF pair[1] = "json_client" \/ s = Connections THEN "join" ELSE "spawn",
                  spawned |-> s, joined |-> 0]
  BY DEF Spawn
<1>3. DOMAIN y = Fields /\ y.st = "connecting"
  BY <1>1 DEF Control, Shape, Fields, Roles
<1> HIDE DEF y
<1>4. /\ \A d \in 1 .. N, ro \in Roles :
            thr'[d][ro] = IF d = s /\ ro = "client" THEN y ELSE thr[d][ro]
      /\ DOMAIN thr' = 1 .. N /\ \A d \in 1 .. N : DOMAIN thr'[d] = Roles
  BY <1>1, <1>2 DEF Control, Shape, Roles
<1>5. \A d \in 1 .. N : thr'[d]["client"].st = IF d = s THEN "connecting" ELSE thr[d]["client"].st
  BY <1>3, <1>4 DEF Roles
<1>6. Shape'
  BY <1>1, <1>2, <1>3, <1>4 DEF Control, Shape, Roles
<1>7. Spawned'
  <2>1. \A d \in 1 .. N : thr'[d]["receiver"] = thr[d]["receiver"]
    BY <1>4 DEF Roles
  <2> QED
    BY <1>1, <1>2, <1>5, <2>1 DEF Control, Spawned
<1> HIDE DEF s
<1>8. JoinsOnce'
  <2> SUFFICES ASSUME pair[1] # "json_client"
               PROVE  JoinsOnce'
    BY <1>2 DEF JoinsOnce
  <2>1. \A d \in 1 .. N : thr[d]["client"].st # "joined"
    BY <1>1 DEF Control, JoinsOnce
  <2>2. \A d \in 1 .. N : thr'[d]["client"].st # "joined"
    BY <1>5, <2>1
  <2>3. main'.joined = 0 /\ main'.spawned = s
        /\ main'.at = IF s = Connections THEN "join" ELSE "spawn"
    BY <1>2
  <2> QED
    BY <1>1, <2>2, <2>3 DEF JoinsOnce
<1>9. JoinsAgain'
  <2> SUFFICES ASSUME pair[1] = "json_client"
               PROVE  JoinsAgain'
    BY <1>2 DEF JoinsAgain
  <2>1. main'.joined = 0 /\ main'.spawned = s /\ main'.at = "join"
    BY <1>2
  <2>2. main.spawned = 0 \/ (main.spawned = 1 /\ thr[1]["client"].st = "joined")
    BY <1>1 DEF Control, JoinsAgain
  <2>3. CASE s = 1
    <3>1. thr'[1]["client"].st # "joined"
      BY <1>1, <1>5, <2>3
    <3> QED
      BY <2>1, <2>3, <3>1 DEF JoinsAgain
  <2>4. CASE s = 2
    <3>1. main.spawned = 1
      BY <1>1, <2>4
    <3>2. thr'[1]["client"].st = "joined"
      BY <1>1, <1>5, <2>2, <2>4, <3>1
    <3> QED
      BY <2>1, <2>4, <3>2 DEF JoinsAgain
  <2> QED
    BY <2>2, <2>3, <2>4 DEF s
<1>10. Terminates'
  <2>1. main'.at # "terminated" /\ pair' = pair /\ 1 \in 1 .. N
    BY <1>2, SizesAssumption
  <2>2. pair[1] = "SyncClinet" => s = 1
    BY <1>1 DEF Connections, LoadClients
  <2>3. pair[1] = "SyncClinet" => thr'[1]["client"].st = "connecting"
    BY <1>5, <2>1, <2>2
  <2> QED
    BY <2>1, <2>3 DEF Terminates
<1>11. ServerMain'
  <2>1. Accepted' <=> Accepted
    BY <1>4 DEF Accepted, Roles
  <2> QED
    BY <1>2, <2>1 DEF Control, ServerMain, ServerGone
<1> QED
  BY <1>6, <1>7, <1>8, <1>9, <1>10, <1>11 DEF Control

\* main joins the next thread.
LEMMA JoinControl ==
  ASSUME Control, Join
  PROVE  Control'
<1> DEFINE j == main.joined + 1
           y == [thr[j].client EXCEPT !.st = "joined"]
<1>1. /\ main.at = "join" /\ j \in 1 .. main.spawned /\ j \in 1 .. N /\ Connections' = Connections
      /\ main.spawned \in Nat /\ main.joined \in Nat /\ Connections \in Nat /\ 1 \in 1 .. N
  BY SizesAssumption DEF Join, Waits, Control, Shape, Spawned, Connections
<1>2. /\ pair' = pair /\ srv' = srv /\ link' = link /\ sent' = sent /\ heard' = heard
      /\ thr' = [thr EXCEPT ![j].client = y]
      /\ thr[j]["client"].st \in {"ended", "joined"}
      /\ main' = IF thr[j]["client"].st = "ended" THEN [main EXCEPT !.joined = j]
                 ELSE [main EXCEPT !.at = "terminated"]
  BY DEF Join
<1>3. DOMAIN y = Fields /\ y.st = "joined"
  BY <1>1 DEF Control, Shape, Fields, Roles
<1> HIDE DEF y
<1>4. /\ \A d \in 1 .. N, ro \in Roles :
            thr'[d][ro] = IF d = j /\ ro = "client" THEN y ELSE thr[d][ro]
      /\ DOMAIN thr' = 1 .. N /\ \A d \in 1 .. N : DOMAIN thr'[d] = Roles
  BY <1>1, <1>2 DEF Control, Shape, Roles
<1>5. \A d \in 1 .. N : thr'[d]["client"].st = IF d = j THEN "joined" ELSE thr[d]["client"].st
  BY <1>3, <1>4 DEF Roles
<1>6. /\ main'.spawned = main.spawned
      /\ main' \in [at : {"spawn", "join", "returned", "terminated"}, spawned : Nat, joined : Nat]
      /\ \/ thr[j]["client"].st = "ended" /\ main'.at = "join" /\ main'.joined = j
         \/ thr[j]["client"].st = "joined" /\ main'.at = "terminated" /\ main'.joined = main.joined
  BY <1>1, <1>2 DEF Control, Shape
<1>7. Shape'
  BY <1>1, <1>2, <1>3, <1>4, <1>6 DEF Control, Shape, Roles
<1>8. Spawned'
  <2>1. \A d \in 1 .. N : thr'[d]["receiver"] = thr[d]["receiver"]
    BY <1>4 DEF Roles
  <2> QED
    BY <1>1, <1>2, <1>5, <1>6, <2>1 DEF Control, Spawned
<1>9. JoinsOnce'
  <2> SUFFICES ASSUME pair[1] # "json_client"
               PROVE  JoinsOnce'
    BY <1>2 DEF JoinsOnce
  <2>1. thr[j]["client"].st # "joined"
    BY <1>1 DEF Control, JoinsOnce
  <2> QED
    BY <1>1, <1>5, <1>6, <2>1 DEF Control, JoinsOnce
<1>10. JoinsAgain'
  <2> SUFFICES ASSUME pair[1] = "json_client"
               PROVE  JoinsAgain'
    BY <1>2 DEF JoinsAgain
  <2>1. j = 1
    BY <1>1 DEF Control, JoinsAgain
  <2>2. thr'[1]["client"].st = "joined"
    BY <1>1, <1>5, <2>1
  <2>3. \/ main.spawned = 1 /\ thr[1]["client"].st # "joined"
        \/ main.spawned = 2 /\ thr[1]["client"].st = "joined"
    BY <1>1, <2>1 DEF Control, JoinsAgain
  <2> QED
    BY <1>6, <2>1, <2>2, <2>3 DEF JoinsAgain
<1>11. Terminates'
  <2>1. pair[1] # "SyncClinet"
    <3> SUFFICES ASSUME pair[1] = "SyncClinet"
                 PROVE  FALSE
      OBVIOUS
    <3>1. j = 1
      BY <1>1 DEF Connections, LoadClients, Control, Spawned
    <3> QED
      BY <1>1, <1>2, <3>1 DEF Control, Terminates
  <2>2. pair[1] # "json_client" => main'.at # "terminated"
    BY <1>1, <1>6 DEF Control, JoinsOnce
  <2> QED
    BY <1>2, <2>1, <2>2 DEF Terminates
<1>12. ServerMain'
  <2>1. Accepted' <=> Accepted
    BY <1>4 DEF Accepted, Roles
  <2> QED
    BY <1>2, <2>1 DEF Control, ServerMain, ServerGone
<1> QED
  BY <1>7, <1>8, <1>9, <1>10, <1>11, <1>12 DEF Control

\* main has joined all that it has started: it goes on or returns.
LEMMA AfterJoinsControl ==
  ASSUME Control, AfterJoins
  PROVE  Control'
<1>1. /\ main.at = "join" /\ main.joined = main.spawned
      /\ main' = [main EXCEPT !.at = IF main.spawned < Connections THEN "spawn" ELSE "returned"]
      /\ UNCHANGED <<pair, srv, thr, link, sent, heard>>
      /\ main.spawned \in Nat /\ Connections \in Nat /\ Connections' = Connections
  BY SizesAssumption DEF AfterJoins, Control, Shape, Connections
<1>2. Shape'
  BY <1>1 DEF Control, Shape
<1>3. Spawned'
  BY <1>1 DEF Control, Spawned, Shape
<1>4. JoinsOnce'
  BY <1>1 DEF Control, JoinsOnce, Shape, Spawned
<1>5. JoinsAgain'
  <2>1. CASE main.spawned < Connections
    BY <1>1, <2>1 DEF Control, JoinsAgain, Shape, Spawned
  <2>2. CASE ~(main.spawned < Connections)
    BY <1>1, <2>2 DEF Control, JoinsAgain, Shape, Spawned
  <2> QED
    BY <2>1, <2>2
<1>6. Terminates'
  BY <1>1 DEF Control, Terminates, Shape
<1>7. ServerMain'
  BY <1>1 DEF Control, ServerMain, ServerGone, Accepted
<1> QED
  BY <1>2, <1>3, <1>4, <1>5, <1>6, <1>7 DEF Control

\* A thread of a client has its connection, or an error.  Only main itself
\* waits for it, so nothing else is touched.
LEMMA BeginControl ==
  ASSUME Control, NEW c \in 1 .. N, NEW y, NEW z, thr[c].client.st = "connecting",
         thr' = [thr EXCEPT ![c].client = y, ![c].receiver = z],
         DOMAIN y = Fields, y.st \in {"run", "ended"}, DOMAIN z = Fields,
         pair[1] = "SyncClinet" => y.st = "run",
         DOMAIN link' = 1 .. N, \A d \in 1 .. N : DOMAIN link'[d] = LinkFields,
         UNCHANGED <<pair, main, srv, sent, heard>>, ~ClientGone
  PROVE  Control'
<1>1. /\ \A d \in 1 .. N, ro \in Roles :
            thr'[d][ro] = IF d = c /\ ro = "client" THEN y
                          ELSE IF d = c /\ ro = "receiver" THEN z ELSE thr[d][ro]
      /\ DOMAIN thr' = 1 .. N /\ \A d \in 1 .. N : DOMAIN thr'[d] = Roles
  BY DEF Control, Shape, Roles
<1>2. /\ \A d \in 1 .. N : thr'[d]["client"].st = IF d = c THEN y.st ELSE thr[d]["client"].st
      /\ \A d \in 1 .. N : d # c => thr'[d]["receiver"] = thr[d]["receiver"]
      /\ main.at \notin {"returned", "terminated"} /\ 1 \in 1 .. N /\ Connections' = Connections
  BY <1>1, SizesAssumption DEF Roles, ClientGone, Connections
<1>3. Shape'
  BY <1>1 DEF Control, Shape, Roles
<1>4. Spawned'
  <2>1. c <= main.spawned /\ main.spawned \in Nat
    BY DEF Control, Spawned, Shape
  <2> QED
    BY <1>2, <2>1 DEF Control, Spawned
<1>5. JoinsOnce'
  BY <1>2 DEF Control, JoinsOnce
<1>6. JoinsAgain'
  <2>1. (thr'[1]["client"].st = "joined") <=> (thr[1]["client"].st = "joined")
    BY <1>2
  <2> QED
    BY <1>2, <2>1 DEF Control, JoinsAgain
<1>7. Terminates'
  BY <1>2 DEF Control, Terminates
<1>8. ServerMain'
  <2>1. Accepted' <=> Accepted
    BY <1>1 DEF Accepted, Roles
  <2> QED
    BY <2>1 DEF Control, ServerMain, ServerGone
<1> QED
  BY <1>3, <1>4, <1>5, <1>6, <1>7, <1>8 DEF Control

\* What a thread begins with.
LEMMA Begins ==
  ASSUME Shape, NEW c \in 1 .. N
  PROVE  /\ DOMAIN Starts("client") = Fields /\ Starts("client").st \in {"run", "ended"}
         /\ pair[1] = "SyncClinet" => Starts("client").st = "run"
         /\ DOMAIN Starts("receiver") = Fields /\ DOMAIN Idle = Fields
<1>1. pair[1] = "SyncClinet" => Program("client") # <<>>
  BY DEF Program, Programs, SendThread
<1>2. DOMAIN Idle = Fields
  BY DEF Idle, Fields
<1> QED
  BY <1>1, <1>2, StartsRuns

\* A connection is made, or fails.
LEMMA ConnectControl ==
  ASSUME Control, NEW c \in 1 .. N, Connect(c) \/ Resolves(c) \/ ConnectFails(c)
  PROVE  Control'
<1> DEFINE y == Starts("client")
           z == IF pair[1] = "SyncClinet" THEN Starts("receiver") ELSE Idle
<1>1. /\ DOMAIN y = Fields /\ y.st \in {"run", "ended"} /\ DOMAIN z = Fields
      /\ pair[1] = "SyncClinet" => y.st = "run"
  BY Begins DEF Control
<1>2. thr[c].client.st = "connecting" /\ ~ClientGone
  BY DEF Connect, Resolves, ConnectFails, Connecting
<1>3. /\ DOMAIN link = 1 .. N /\ \A d \in 1 .. N : DOMAIN link[d] = LinkFields
      /\ DOMAIN thr = 1 .. N /\ DOMAIN thr[c] = Roles
      /\ DOMAIN thr[c].client = Fields /\ DOMAIN thr[c].receiver = Fields
  BY DEF Control, Shape, Roles
<1>4. CASE Connect(c)
  <2>1. /\ thr' = [thr EXCEPT ![c].client = y, ![c].receiver = z]
        /\ link' = [link EXCEPT ![c].st = "pending"]
        /\ UNCHANGED <<pair, main, srv, sent, heard>>
    BY <1>4 DEF Connect, Begin
  <2>2. DOMAIN link' = 1 .. N /\ \A d \in 1 .. N : DOMAIN link'[d] = LinkFields
    BY <1>3, <2>1 DEF LinkFields
  <2> HIDE DEF y, z
  <2> QED
    BY <1>1, <1>2, <2>1, <2>2, BeginControl
<1>5. ASSUME ConnectFails(c), pair[1] = "SyncClinet"
      PROVE  Control'
  <2>1. /\ thr' = [thr EXCEPT ![c].client = y, ![c].receiver = z]
        /\ UNCHANGED <<pair, main, srv, link, sent, heard>>
    BY <1>5 DEF ConnectFails, Begin
  <2> HIDE DEF y, z
  <2> QED
    BY <1>1, <1>2, <1>3, <2>1, BeginControl
<1>6. ASSUME \/ ConnectFails(c) /\ pair[1] # "SyncClinet"
             \/ Resolves(c)
      PROVE  Control'
  <2>1. PICK failed \in BOOLEAN : /\ thr' = [thr EXCEPT ![c].client = Ends(@, failed)]
                                 /\ UNCHANGED <<pair, main, srv, link, sent, heard>>
    BY <1>6 DEF ConnectFails, Resolves
  <2> DEFINE e == Ends(thr[c].client, failed)
             r == thr[c].receiver
  <2>2. DOMAIN e = Fields /\ e.st = "ended"
    BY <1>3 DEF Ends, Fields
  <2>3. thr' = [thr EXCEPT ![c].client = e, ![c].receiver = r]
    <3> HIDE DEF e
    <3>1. thr' = [thr EXCEPT ![c].client = e]
      BY <2>1 DEF e
    <3> QED
      BY <1>3, <3>1 DEF Roles
  <2>4. pair[1] # "SyncClinet"
    BY <1>6, Meant DEF Resolves, Control, Shape, EchoServers
  <2>5. DOMAIN r = Fields /\ UNCHANGED <<pair, main, srv, sent, heard>>
    BY <1>3, <2>1
  <2>6. DOMAIN link' = 1 .. N /\ \A d \in 1 .. N : DOMAIN link'[d] = LinkFields
    BY <1>3, <2>1
  <2> HIDE DEF e, r
  <2> QED
    BY <1>2, <2>2, <2>3, <2>4, <2>5, <2>6, BeginControl
<1> QED
  BY <1>4, <1>5, <1>6

\* A session begins, or ends: the main threads do not look.
LEMMA SessionControl ==
  ASSUME Control, NEW c \in 1 .. N, NEW y, DOMAIN y = Fields, y.st # "none",
         thr' = [thr EXCEPT ![c].server = y],
         srv = "listening" \/ thr[c].server.st # "none",
         DOMAIN link' = 1 .. N, \A d \in 1 .. N : DOMAIN link'[d] = LinkFields,
         UNCHANGED <<pair, main, srv, sent, heard>>
  PROVE  Control'
<1>1. /\ \A d \in 1 .. N, ro \in Roles :
            thr'[d][ro] = IF d = c /\ ro = "server" THEN y ELSE thr[d][ro]
      /\ DOMAIN thr' = 1 .. N /\ \A d \in 1 .. N : DOMAIN thr'[d] = Roles
  BY DEF Control, Shape, Roles
<1>2. /\ \A d \in 1 .. N : /\ thr'[d]["client"] = thr[d]["client"]
                           /\ thr'[d]["receiver"] = thr[d]["receiver"]
      /\ 1 \in 1 .. N /\ Connections' = Connections
  BY <1>1, SizesAssumption DEF Roles, Connections
<1>3. Shape'
  BY <1>1 DEF Control, Shape
<1>4. Spawned' /\ JoinsOnce'
  BY <1>2 DEF Control, Spawned, JoinsOnce
<1>5. JoinsAgain'
  BY <1>2 DEF Control, JoinsAgain
<1>6. Terminates'
  BY <1>2 DEF Control, Terminates
<1>7. ServerMain'
  <2>1. CASE srv = "listening"
    BY <2>1 DEF Control, ServerMain, ServerGone
  <2>2. CASE thr[c].server.st # "none"
    <3>1. Accepted' <=> Accepted
      BY <1>1, <2>2 DEF Accepted, Roles
    <3> QED
      BY <3>1 DEF Control, ServerMain, ServerGone
  <2> QED
    BY <2>1, <2>2
<1> QED
  BY <1>3, <1>4, <1>5, <1>6, <1>7 DEF Control

\* The main thread of the server goes on, or the network does something.
LEMMA OtherControl ==
  ASSUME Control, UNCHANGED <<pair, main, thr, sent, heard>>,
         DOMAIN link' = 1 .. N, \A d \in 1 .. N : DOMAIN link'[d] = LinkFields,
         ServerMain'
  PROVE  Control'
<1>1. Connections' = Connections
  BY DEF Connections
<1>2. Shape'
  BY DEF Control, Shape
<1>3. Spawned' /\ JoinsOnce'
  BY <1>1 DEF Control, Spawned, JoinsOnce
<1>4. JoinsAgain'
  BY <1>1 DEF Control, JoinsAgain
<1>5. Terminates'
  BY DEF Control, Terminates
<1> QED
  BY <1>2, <1>3, <1>4, <1>5 DEF Control

\* The listener takes a connection, or is gone.
LEMMA AcceptControl ==
  ASSUME Control, NEW c \in 1 .. N,
         Accept(c) \/ PeerLeaves(c) \/ AcceptNewConnection(c) \/ Reset(c)
  PROVE  Control'
<1>1. /\ DOMAIN link = 1 .. N /\ \A d \in 1 .. N : DOMAIN link[d] = LinkFields
      /\ DOMAIN thr[c].server = Fields
  BY DEF Control, Shape, Roles
<1>2. CASE Accept(c)
  <2> DEFINE y == Starts("server")
  <2>1. DOMAIN y = Fields /\ y.st # "none"
    BY StartsRuns
  <2>2. /\ thr' = [thr EXCEPT ![c].server = y] /\ srv = "listening"
        /\ link' = [link EXCEPT ![c].st = "up"]
        /\ UNCHANGED <<pair, main, srv, sent, heard>>
    BY <1>2 DEF Accept
  <2>3. DOMAIN link' = 1 .. N /\ \A d \in 1 .. N : DOMAIN link'[d] = LinkFields
    BY <1>1, <2>2 DEF LinkFields
  <2> HIDE DEF y
  <2> QED
    BY <2>1, <2>2, <2>3, SessionControl
<1>3. CASE PeerLeaves(c)
  <2> DEFINE y == Ends(thr[c].server, FALSE)
  <2>1. DOMAIN y = Fields /\ y.st # "none"
    BY <1>1 DEF Ends, Fields
  <2>2. /\ thr' = [thr EXCEPT ![c].server = y] /\ thr[c].server.st # "none"
        /\ UNCHANGED <<pair, main, srv, sent, heard>> /\ link' = link
    BY <1>3 DEF PeerLeaves
  <2>3. DOMAIN link' = 1 .. N /\ \A d \in 1 .. N : DOMAIN link'[d] = LinkFields
    BY <1>1, <2>2
  <2> HIDE DEF y
  <2> QED
    BY <2>1, <2>2, <2>3, SessionControl
<1>4. CASE AcceptNewConnection(c)
  <2>1. /\ link' = [link EXCEPT ![c].st = "up"] /\ pair[2] = "accpet_new_connection"
        /\ UNCHANGED <<pair, main, thr, sent, heard>>
    BY <1>4 DEF AcceptNewConnection
  <2>2. DOMAIN link' = 1 .. N /\ \A d \in 1 .. N : DOMAIN link'[d] = LinkFields
    BY <1>1, <2>1 DEF LinkFields
  <2>3. ServerMain'
    BY <2>1 DEF ServerMain
  <2> QED
    BY <2>1, <2>2, <2>3, OtherControl
<1>5. CASE Reset(c)
  <2>1. /\ link' = [link EXCEPT ![c] = [st |-> "reset", up |-> <<>>, down |-> <<>>]]
        /\ UNCHANGED <<pair, main, srv, thr, sent, heard>>
    BY <1>5 DEF Reset
  <2>2. DOMAIN link' = 1 .. N /\ \A d \in 1 .. N : DOMAIN link'[d] = LinkFields
    BY <1>1, <2>1 DEF LinkFields
  <2>3. ServerMain'
    BY <2>1 DEF Control, ServerMain, ServerGone, Accepted
  <2> QED
    BY <2>1, <2>2, <2>3, OtherControl
<1> QED
  BY <1>2, <1>3, <1>4, <1>5

\* The main thread of the server.
LEMMA ServerControl ==
  ASSUME Control, AcceptNewFails \/ ListenerEnds \/ ServerEnds \/ Signal
  PROVE  Control'
<1>1. /\ UNCHANGED <<pair, main, thr, link, sent, heard>>
      /\ pair[2] = "SyncServer" => srv' = IF Accepted THEN "terminated" ELSE "returned"
  BY DEF AcceptNewFails, ListenerEnds, ServerEnds, Signal
<1>2. DOMAIN link' = 1 .. N /\ \A d \in 1 .. N : DOMAIN link'[d] = LinkFields
  BY <1>1 DEF Control, Shape
<1>3. ServerMain'
  <2>1. Accepted' <=> Accepted
    BY <1>1 DEF Accepted
  <2>2. CASE pair[2] # "SyncServer"
    BY <1>1, <2>2 DEF ServerMain
  <2>3. CASE pair[2] = "SyncServer" /\ Accepted
    <3>1. srv' = "terminated" /\ Accepted' = TRUE
      BY <1>1, <2>1, <2>3
    <3> QED
      BY <3>1 DEF ServerMain
  <2>4. CASE pair[2] = "SyncServer" /\ ~Accepted
    <3>1. srv' = "returned" /\ Accepted' = FALSE
      BY <1>1, <2>1, <2>4 DEF Accepted
    <3> QED
      BY <3>1 DEF ServerMain
  <2> QED
    BY <2>2, <2>3, <2>4
<1> QED
  BY <1>1, <1>2, <1>3, OtherControl

\* The threads of a client are started in their order, and joined as its main
\* thread says: once each, or, in json_client, the first of them again with the
\* second; SyncClinet is terminated only with a thread that failed, SyncServer
\* if and only if it has had a session.  (The main of SyncClinet.cpp,
\* SyncServer.cpp, TestClient.cpp and json_client.cpp.)
THEOREM ControlInvariant == Spec => []Control
<1>1. Init => Control
  <2> SUFFICES ASSUME Init
               PROVE  Control
    OBVIOUS
  <2>1. /\ pair \in Pairs /\ main = [at |-> "spawn", spawned |-> 0, joined |-> 0]
        /\ srv = "listening" /\ \A c \in 1 .. N : \A role \in Roles : thr[c][role] = Idle
        /\ 1 \in 1 .. N /\ Connections \in Nat \ {0}
    BY SizesAssumption DEF Init, Connections
  <2>2. DOMAIN Idle = Fields /\ Idle.st = "none"
    BY DEF Idle, Fields
  <2>3. Shape
    BY <2>1, <2>2 DEF Init, Shape, LinkFields
  <2>4. Spawned /\ JoinsOnce /\ JoinsAgain /\ Terminates
    BY <2>1, <2>2 DEF Spawned, JoinsOnce, JoinsAgain, Terminates, Roles
  <2>5. ServerMain
    BY <2>1 DEF ServerMain, ServerGone
  <2> QED
    BY <2>3, <2>4, <2>5 DEF Control
<1>2. Control /\ [Next]_vars => Control'
  <2> SUFFICES ASSUME Control, [Next]_vars
               PROVE  Control'
    OBVIOUS
  <2>1. CASE MainStep
    BY <2>1, SpawnControl, JoinControl, AfterJoinsControl DEF MainStep
  <2>2. CASE AcceptNewFails \/ ListenerEnds \/ ServerEnds \/ Signal
    BY <2>2, ServerControl
  <2>3. ASSUME NEW c \in 1 .. N, ThreadStep(c)
        PROVE  Control'
    <3>1. ASSUME NEW role \in Roles, Moves(c, role)
          PROVE  Control'
      BY <3>1, MovesOne, MovedControl DEF Control
    <3> QED
      BY <2>3, <3>1, ConnectControl, AcceptControl DEF ThreadStep
  <2>4. ASSUME NEW c \in 1 .. N, Reset(c) \/ PeerLeaves(c)
        PROVE  Control'
    BY <2>4, AcceptControl
  <2>5. CASE UNCHANGED vars
    BY <2>5 DEF vars, Control, Shape, Spawned, JoinsOnce, JoinsAgain, Terminates, ServerMain,
                Connections, ServerGone, Accepted
  <2> QED
    BY <2>1, <2>2, <2>3, <2>4, <2>5 DEF Next
<1> QED
  BY <1>1, <1>2, PTL DEF Spec

\* How the programs end: for any number of connections and rounds, whatever
\* fails, SyncClinet and SyncServer are terminated in the middle, json_client
\* in its second round, and no other.
THEOREM NormalEndHolds == Spec => []NormalEnd
<1>1. Control => NormalEnd
  <2> SUFFICES ASSUME Control
               PROVE  NormalEnd
    OBVIOUS
  <2>1. 1 \in 1 .. N /\ Connections \in Nat /\ 1 .. Connections \subseteq 1 .. N
    BY SizesAssumption DEF Connections
  <2>2. ASSUME main.at = "returned"
        PROVE  /\ \A c \in 1 .. Connections : thr[c].client.st = "joined"
               /\ pair[1] # "SyncClinet" /\ (pair[1] = "json_client" => Connections = 1)
    <3>1. CASE pair[1] = "json_client"
      BY <2>1, <2>2, <3>1 DEF Control, JoinsAgain
    <3>2. CASE pair[1] # "json_client"
      <4>1. \A c \in 1 .. Connections : thr[c].client.st = "joined"
        BY <2>1, <2>2, <3>2 DEF Control, JoinsOnce
      <4>2. pair[1] = "SyncClinet" => thr[1].client.st = "joined"
        BY <2>1, <4>1 DEF Connections, LoadClients
      <4>3. pair[1] # "SyncClinet"
        BY <2>2, <4>2 DEF Control, Terminates
      <4> QED
        BY <3>2, <4>1, <4>3
    <3> QED
      BY <3>1, <3>2
  <2>3. ASSUME main.at = "terminated"
        PROVE  \/ pair[1] = "json_client" /\ main.spawned = 2 /\ thr[1].client.st = "joined"
               \/ /\ pair[1] = "SyncClinet"
                  /\ \E role \in {"client", "receiver"} : thr[1][role].failed
    <3>1. CASE pair[1] = "json_client"
      BY <2>3, <3>1 DEF Control, JoinsAgain
    <3>2. CASE pair[1] # "json_client"
      BY <2>3, <3>2 DEF Control, Terminates
    <3> QED
      BY <3>1, <3>2
  <2>4. pair[2] = "SyncServer" /\ ServerGone => (srv = "terminated") = Accepted
    BY DEF Control, ServerMain
  <2> QED
    BY <2>2, <2>3, <2>4 DEF NormalEnd
<1> QED
  BY <1>1, ControlInvariant, PTL

-----------------------------------------------------------------------------
(* Numbers, and parts of a stream.                                         *)

\* The sizes are positive.
LEMMA Sizes == /\ N \in Nat \ {0} /\ Rounds \in Nat \ {0} /\ HEAD \in Nat \ {0}
               /\ BODY \in Nat \ {0} /\ CHUNK \in Nat \ {0} /\ Cap \in Nat \ {0}
  BY SizesAssumption

\* The least of two numbers.
LEMMA MinTwo ==
  ASSUME NEW a \in Int, NEW b \in Int
  PROVE  Min({a, b}) = IF a <= b THEN a ELSE b
  BY DEF Min

\* Byte b + 1 of message a + 1 of a stream.
LEMMA Place ==
  ASSUME NEW size \in Nat \ {0}, NEW a \in Nat, NEW b \in 0 .. size - 1
  PROVE  (a * size + b) \div size = a /\ (a * size + b) % size = b
  OBVIOUS

\* Where the messages begin.
LEMMA PosFacts ==
  ASSUME NEW r \in Nat \ {0}, NEW n \in Nat
  PROVE  /\ Pos(r, n) \in Nat /\ Pos(1, n) = 0
         /\ Pos(r + 1, n) = Pos(r, n) + HEAD + n
<1>1. Pos(1, n) = 0
  BY Sizes DEF Pos
<1>2. Pos(r, n) \in Nat
  <2>1. r - 1 \in Nat /\ HEAD + n \in Nat
    BY Sizes
  <2> QED
    BY <2>1 DEF Pos
<1>3. Pos(r + 1, n) = Pos(r, n) + HEAD + n
  <2>1. \A a, m \in Nat : (a + 1) * m = a * m + m
    OBVIOUS
  <2>2. Pos(r + 1, n) = ((r - 1) + 1) * (HEAD + n) /\ r - 1 \in Nat /\ HEAD + n \in Nat
    BY Sizes DEF Pos
  <2>3. Pos(r + 1, n) = Pos(r, n) + (HEAD + n)
    BY <2>1, <2>2 DEF Pos
  <2> QED
    BY <1>2, <2>3, Sizes
<1> QED
  BY <1>1, <1>2, <1>3

\* Messages begin in their order.
LEMMA PosMonotone ==
  ASSUME NEW r \in Nat \ {0}, NEW q \in Nat \ {0}, NEW n \in Nat, r <= q
  PROVE  Pos(r, n) <= Pos(q, n)
<1>1. \A a, b, m \in Nat : a <= b => a * m <= b * m
  <2> TAKE a, b, m \in Nat
  <2> HAVE a <= b
  <2>1. b - a \in Nat /\ b * m = a * m + (b - a) * m /\ (b - a) * m \in Nat
    OBVIOUS
  <2> QED
    BY <2>1
<1>2. r - 1 \in Nat /\ q - 1 \in Nat /\ HEAD + n \in Nat /\ r - 1 <= q - 1
  BY Sizes
<1> QED
  BY <1>1, <1>2 DEF Pos

\* A byte of the stream has its message and its place in it.
LEMMA OctetIn ==
  ASSUME NEW n \in Nat, NEW j \in Nat \ {0}
  PROVE  Octet(n, j) \in Octets(n)
<1>1. j - 1 \in Nat /\ HEAD + n \in Nat \ {0}
  BY Sizes
<1>2. (j - 1) \div (HEAD + n) \in Nat /\ (j - 1) % (HEAD + n) \in Nat
  BY <1>1
<1> QED
  BY <1>2 DEF Octet, Octets

\* Byte i of message r is byte Pos(r) + i of the stream.
LEMMA OctetAt ==
  ASSUME NEW n \in Nat, NEW r \in Nat \ {0}, NEW i \in 1 .. HEAD + n
  PROVE  Octet(n, Pos(r, n) + i) = [r |-> r, i |-> i, n |-> n]
<1> DEFINE size == HEAD + n
           a == r - 1
           b == i - 1
<1>1. size \in Nat \ {0} /\ a \in Nat /\ b \in 0 .. size - 1
  BY Sizes
<1>2. (a * size + b) \div size = a /\ (a * size + b) % size = b
  <2> HIDE DEF size, a, b
  <2> QED
    BY <1>1, Place
<1>3. (Pos(r, n) + i) - 1 = a * size + b
  <2>1. Pos(r, n) = a * size
    BY DEF Pos
  <2>2. Pos(r, n) \in Nat
    BY PosFacts
  <2>3. i = b + 1 /\ b \in Int
    BY Sizes
  <2> HIDE DEF size, a, b
  <2> QED
    BY <2>1, <2>2, <2>3
<1> HIDE DEF size
<1>4. Octet(n, Pos(r, n) + i) = [r |-> a + 1, i |-> b + 1, n |-> n]
  <2> HIDE DEF a, b
  <2> QED
    BY <1>2, <1>3 DEF Octet, size
<1> QED
  BY <1>4

\* Nothing is a part at every place.
LEMMA NoPart ==
  ASSUME NEW n, NEW from
  PROVE  Part(<<>>, n, from)
  BY EmptySeq DEF Part

\* A message of the code is the next part of its stream.
LEMMA BytesPart ==
  ASSUME NEW n \in Nat, NEW r \in Nat \ {0}
  PROVE  /\ Part(Bytes(r, n), n, Pos(r, n)) /\ Len(Bytes(r, n)) = HEAD + n
         /\ Bytes(r, n) # <<>>
<1>1. HEAD + n \in Nat \ {0}
  BY Sizes
<1>2. Bytes(r, n) \in [1 .. HEAD + n -> Octets(n)]
  BY <1>1 DEF Bytes, Octets
<1>3. Bytes(r, n) \in Seq(Octets(n)) /\ Len(Bytes(r, n)) = HEAD + n
  BY <1>1, <1>2
<1>4. \A i \in 1 .. HEAD + n : Bytes(r, n)[i] = Octet(n, Pos(r, n) + i)
  BY <1>1, OctetAt DEF Bytes
<1>5. Bytes(r, n) # <<>>
  BY <1>1, <1>3
<1> QED
  BY <1>3, <1>4, <1>5 DEF Part

\* Two parts, one behind the other.
LEMMA PartConcat ==
  ASSUME NEW q, NEW q2, NEW n \in Nat, NEW from \in Nat,
         Part(q, n, from), Part(q2, n, from + Len(q))
  PROVE  Part(q \o q2, n, from) /\ Len(q \o q2) = Len(q) + Len(q2)
<1>1. q \in Seq(Octets(n)) /\ q2 \in Seq(Octets(n)) /\ Len(q) \in Nat /\ Len(q2) \in Nat
  BY DEF Part
<1>2. /\ q \o q2 \in Seq(Octets(n)) /\ Len(q \o q2) = Len(q) + Len(q2)
      /\ \A j \in 1 .. Len(q) + Len(q2) :
           (q \o q2)[j] = IF j <= Len(q) THEN q[j] ELSE q2[j - Len(q)]
  BY <1>1, ConcatProperties
<1>3. ASSUME NEW j \in 1 .. Len(q) + Len(q2)
      PROVE  (q \o q2)[j] = Octet(n, from + j)
  <2>1. CASE j <= Len(q)
    BY <1>1, <1>2, <2>1 DEF Part
  <2>2. CASE j > Len(q)
    <3>1. j - Len(q) \in 1 .. Len(q2) /\ (from + Len(q)) + (j - Len(q)) = from + j
      BY <1>1, <2>2
    <3>2. q2[j - Len(q)] = Octet(n, (from + Len(q)) + (j - Len(q)))
      BY <3>1 DEF Part
    <3> QED
      BY <1>1, <1>2, <2>2, <3>1, <3>2
  <2> QED
    BY <1>1, <2>1, <2>2
<1> QED
  BY <1>2, <1>3 DEF Part

\* What k bytes leave behind.
LEMMA PartSplit ==
  ASSUME NEW q, NEW n \in Nat, NEW from \in Nat, Part(q, n, from), NEW k \in 0 .. Len(q)
  PROVE  LET first == SubSeq(q, 1, k)
             rest == SubSeq(q, k + 1, Len(q))
         IN  /\ Part(first, n, from) /\ Len(first) = k
             /\ Part(rest, n, from + k) /\ Len(rest) = Len(q) - k
             /\ rest = <<>> <=> k = Len(q)
<1> DEFINE first == SubSeq(q, 1, k)
           rest == SubSeq(q, k + 1, Len(q))
<1>1. q \in Seq(Octets(n)) /\ Len(q) \in Nat /\ k \in Nat /\ k <= Len(q)
      /\ \A j \in 1 .. Len(q) : q[j] \in Octets(n) /\ q[j] = Octet(n, from + j)
  BY DEF Part
<1>2. /\ first \in Seq(Octets(n)) /\ Len(first) = k /\ \A j \in 1 .. k : first[j] = q[j]
  <2>1. \A j \in 1 .. k : q[j] \in Octets(n)
    BY <1>1
  <2>2. /\ first \in Seq(Octets(n)) /\ Len(first) = IF 1 <= k THEN k - 1 + 1 ELSE 0
        /\ \A j \in 1 .. k - 1 + 1 : first[j] = q[1 + j - 1]
    BY <1>1, <2>1, SubSeqProperties
  <2> HIDE DEF first
  <2> QED
    BY <1>1, <2>2
<1>3. /\ rest \in Seq(Octets(n)) /\ Len(rest) = Len(q) - k
      /\ \A j \in 1 .. Len(q) - k : rest[j] = q[k + j]
  <2>1. \A j \in k + 1 .. Len(q) : q[j] \in Octets(n)
    BY <1>1
  <2>2. /\ rest \in Seq(Octets(n))
        /\ Len(rest) = IF k + 1 <= Len(q) THEN Len(q) - (k + 1) + 1 ELSE 0
        /\ \A j \in 1 .. Len(q) - (k + 1) + 1 : rest[j] = q[(k + 1) + j - 1]
    BY <1>1, <2>1, SubSeqProperties
  <2> HIDE DEF rest
  <2>3. \A j \in 1 .. Len(q) - k : rest[j] = q[k + j]
    <3> TAKE j \in 1 .. Len(q) - k
    <3>1. j \in 1 .. Len(q) - (k + 1) + 1 /\ (k + 1) + j - 1 = k + j
      BY <1>1
    <3> QED
      BY <2>2, <3>1
  <2> QED
    BY <1>1, <2>2, <2>3
<1> HIDE DEF first, rest
<1>4. Part(first, n, from)
  BY <1>1, <1>2 DEF Part
<1>5. Part(rest, n, from + k)
  <2> SUFFICES ASSUME NEW j \in 1 .. Len(q) - k
               PROVE  rest[j] = Octet(n, (from + k) + j)
    BY <1>3 DEF Part
  <2>1. k + j \in 1 .. Len(q) /\ from + (k + j) = (from + k) + j
    BY <1>1
  <2> QED
    BY <1>1, <1>3, <2>1
<1>6. rest = <<>> <=> k = Len(q)
  <2>1. rest # <<>> => Len(rest) \in Nat \ {0}
    BY <1>3, EmptySeq
  <2>2. rest = <<>> => Len(rest) = 0
    BY EmptySeq
  <2> QED
    BY <1>1, <1>3, <2>1, <2>2
<1> QED
  BY <1>2, <1>3, <1>4, <1>5, <1>6 DEF first, rest

-----------------------------------------------------------------------------
(* The programs.                                                           *)

\* What a thread is about when it comes to a call.
LEMMA AtCall ==
  ASSUME NEW th, NEW prog, NEW pc, NEW round, DOMAIN th = Fields
  PROVE  LET a == At(th, prog, pc, round)
             todo == prog[pc]
         IN  /\ a.st = "run" /\ a.pc = pc /\ a.round = round /\ a.failed = th.failed
             /\ todo[1] \in {"write", "write_some"} =>
                  /\ a.in = th.in /\ a.want = th.want
                  /\ todo[2] = "frame" => a.out = Bytes(round, BODY)
                  /\ todo[2] = "data" => a.out = th.in
                  /\ todo[2] = "reply" => a.out = Bytes(th.in[1].r, BODY + 1)
             /\ todo[1] \in {"read", "read_some"} =>
                  /\ a.in = <<>> /\ a.out = th.out
                  /\ todo[2] = "frame" => a.want = HEAD + BODY
                  /\ todo[2] = "head" => a.want = HEAD
                  /\ todo[2] = "body" => a.want = th.in[HEAD].n
                  /\ todo[2] = "chunk" => a.want = CHUNK
<1> DEFINE a == At(th, prog, pc, round)
           todo == prog[pc]
<1>1. a.st = "run" /\ a.pc = pc /\ a.round = round /\ a.failed = th.failed
  BY DEF At, Fields
<1>2. ASSUME todo[1] \in {"write", "write_some"}
      PROVE  /\ a.in = th.in /\ a.want = th.want
             /\ todo[2] = "frame" => a.out = Bytes(round, BODY)
             /\ todo[2] = "data" => a.out = th.in
             /\ todo[2] = "reply" => a.out = Bytes(th.in[1].r, BODY + 1)
  BY <1>2 DEF At, Fields, Frame, Reply
<1>3. ASSUME todo[1] \in {"read", "read_some"}
      PROVE  /\ a.in = <<>> /\ a.out = th.out
             /\ todo[2] = "frame" => a.want = HEAD + BODY
             /\ todo[2] = "head" => a.want = HEAD
             /\ todo[2] = "body" => a.want = th.in[HEAD].n
             /\ todo[2] = "chunk" => a.want = CHUNK
  BY <1>3 DEF At, Fields
<1> QED
  BY <1>1, <1>2, <1>3

\* The calls of the clients and of the servers.
LEMMA ClientCalls ==
  LET prog == Program("client")
  IN  /\ pair[1] = "CoroutineTestClient" =>
           Len(prog) = 2 /\ prog[1] = <<"write", "frame">> /\ prog[2] = <<"read", "frame">>
      /\ pair[1] = "SyncClinet" => Len(prog) = 1 /\ prog[1] = <<"write", "frame">>
      /\ pair[1] \in LoadClients =>
           /\ Len(prog) = 3 /\ prog[1] = <<"write", "frame">>
           /\ prog[2] = <<"read", "head">> /\ prog[3] = <<"read", "body">>
      /\ pair[1] \in {"send_data_by_write", "send_data_write"} =>
           Len(prog) = 1 /\ prog[1] = <<"write", "frame">>
      /\ pair[1] = "send_data_by_send" => Len(prog) = 1 /\ prog[1] = <<"write_some", "frame">>
      /\ pair[1] \in {"read_data_bye_read_some", "read_data_bye_read"} =>
           Len(prog) = 1 /\ prog[1] = <<"read", "frame">>
      /\ pair[1] = "read_data_bye_receive" =>
           Len(prog) = 1 /\ prog[1] = <<"read_some", "frame">>
      /\ pair[1] = "connect_to_end" => prog = <<>>
<1> DEFINE prog == Program("client")
<1>1. prog = Programs[pair[1]]
  BY DEF Program
<1> HIDE DEF prog
<1>2. pair[1] = "CoroutineTestClient" => prog = <<<<"write", "frame">>, <<"read", "frame">>>>
  BY <1>1 DEF Programs, CoroutineTestClient
<1>3. pair[1] = "SyncClinet" => prog = <<<<"write", "frame">>>>
  BY <1>1 DEF Programs, SendThread
<1>4. pair[1] \in LoadClients => prog = <<<<"write", "frame">>, <<"read", "head">>, <<"read", "body">>>>
  BY <1>1 DEF Programs, TestClientThread, JsonClientThread, LoadClients
<1>5. pair[1] \in {"send_data_by_write", "send_data_write"} => prog = <<<<"write", "frame">>>>
  BY <1>1 DEF Programs, EndPointWrite, WriteData
<1>6. pair[1] = "send_data_by_send" => prog = <<<<"write_some", "frame">>>>
  BY <1>1 DEF Programs, SendData
<1>7. pair[1] \in {"read_data_bye_read_some", "read_data_bye_read"} => prog = <<<<"read", "frame">>>>
  BY <1>1 DEF Programs, EndPointRead, ReadData
<1>8. pair[1] = "read_data_bye_receive" => prog = <<<<"read_some", "frame">>>>
  BY <1>1 DEF Programs, ReceiveData
<1>9. pair[1] = "connect_to_end" => prog = <<>>
  BY <1>1 DEF Programs, ConnectToEnd
<1> QED
  BY <1>2, <1>3, <1>4, <1>5, <1>6, <1>7, <1>8, <1>9 DEF prog

\* The calls of the receiver of SyncClinet.
LEMMA ReceiverCalls ==
  LET prog == Program("receiver")
  IN  Len(prog) = 2 /\ prog[1] = <<"read", "head">> /\ prog[2] = <<"read", "body">>
  BY DEF Program, RecvThread

\* The calls of the servers.
LEMMA ServerCalls ==
  LET prog == Program("server")
  IN  /\ pair[2] \in EchoServers =>
           Len(prog) = 2 /\ prog[1] = <<"read_some", "chunk">> /\ prog[2] = <<"write", "data">>
      /\ pair[2] = "frames" =>
           /\ Len(prog) = 3 /\ prog[1] = <<"read", "head">>
           /\ prog[2] = <<"read", "body">> /\ prog[3] = <<"write", "reply">>
      /\ pair[2] = "sink" => Len(prog) = 1 /\ prog[1] = <<"read_some", "chunk">>
      /\ pair[2] = "source" => Len(prog) = 1 /\ prog[1] = <<"write", "frame">>
  BY DEF Program, Programs, Echo, Session, Serve, Sink, Source, EchoServers

\* Where a thread goes after a call: to the next one, to its first one again,
\* or to its end.
Done(th) == [th EXCEPT !.out = <<>>, !.want = 0]

\* Where it is when k bytes more are written, or those of q are read.
Emitted(th, role, k) ==
  LET rest == SubSeq(th.out, k + 1, Len(th.out))
  IN  IF rest = <<>> \/ Program(role)[th.pc][1] = "write_some" THEN Advance(th, role)
      ELSE [th EXCEPT !.out = rest]

Taken(th, role, q) ==
  LET more == [th EXCEPT !.in = @ \o q, !.want = @ - Len(q)]
  IN  IF more.want = 0 \/ Program(role)[th.pc][1] = "read_some" THEN Advance(more, role)
      ELSE more

\* A call that is over leaves what was read, and nothing to write or want.
LEMMA DoneFields ==
  ASSUME NEW th, DOMAIN th = Fields
  PROVE  /\ DOMAIN Done(th) = Fields /\ Done(th).in = th.in /\ Done(th).out = <<>>
         /\ Done(th).want = 0 /\ Done(th).failed = th.failed /\ Done(th).st = th.st
         /\ Done(th).round = th.round
  BY DEF Done, Fields

\* To the next call.
LEMMA AdvanceOn ==
  ASSUME NEW th, NEW role, th.pc < Len(Program(role))
  PROVE  Advance(th, role) = At(Done(th), Program(role), th.pc + 1, th.round)
  BY DEF Advance, Done

\* To the first call again, in a program without end.
LEMMA AdvanceAgain ==
  ASSUME NEW th, NEW role, th.pc = Len(Program(role)), th.pc \in Nat, Repeats(role) = 0, role # "client"
  PROVE  \E r : Advance(th, role) = At(Done(th), Program(role), 1, r)
<1>1. ~(th.pc < Len(Program(role)))
  OBVIOUS
<1> QED
  BY <1>1 DEF Advance, Done

\* The sender of SyncClinet, up to the bound on its rounds.
LEMMA AdvanceSender ==
  ASSUME NEW th, th.pc = Len(Program("client")), th.pc \in Nat, Repeats("client") = 0,
         th.round \in 1 .. Rounds
  PROVE  Advance(th, "client") = IF th.round = Rounds THEN [Done(th) EXCEPT !.pc = 0]
                                 ELSE At(Done(th), Program("client"), 1, th.round + 1)
<1>1. th.round # Rounds => Min({th.round + 1, Rounds + 1}) = th.round + 1
  BY Sizes, MinTwo
<1>2. ~(th.pc < Len(Program("client")))
  OBVIOUS
<1> QED
  BY <1>1, <1>2 DEF Advance, Done

\* A program with a number of rounds.
LEMMA AdvanceRounds ==
  ASSUME NEW th, DOMAIN th = Fields, NEW role, th.pc = Len(Program(role)), th.pc \in Nat,
         Repeats(role) \in Nat \ {0}, Repeats(role) <= Rounds, th.round \in 1 .. Repeats(role)
  PROVE  IF th.round = Repeats(role)
         THEN Advance(th, role).st = "ended" /\ Advance(th, role).failed = th.failed
         ELSE Advance(th, role) = At(Done(th), Program(role), 1, th.round + 1)
<1>1. th.round # Repeats(role) => /\ Min({th.round + 1, Rounds + 1}) = th.round + 1
                                  /\ th.round < Repeats(role)
  BY Sizes, MinTwo
<1>2. Advance(th, role) = IF th.round < Repeats(role)
                          THEN At(Done(th), Program(role), 1, Min({th.round + 1, Rounds + 1}))
                          ELSE [Done(th) EXCEPT !.st = "ended"]
  <2>1. ~(th.pc < Len(Program(role))) /\ Repeats(role) # 0
    OBVIOUS
  <2> QED
    BY <2>1 DEF Advance, Done
<1>3. LET e == [Done(th) EXCEPT !.st = "ended"] IN e.st = "ended" /\ e.failed = th.failed
  BY DoneFields DEF Fields
<1> QED
  BY <1>1, <1>2, <1>3

-----------------------------------------------------------------------------
(* The clients.                                                            *)

\* Who is which kind of client.
LEMMA Kinds ==
  ASSUME NEW p \in Pairs
  PROVE  /\ p[1] \in {"CoroutineTestClient", "SyncClinet"} \cup LoadClients \cup Writers
                     \cup Readers \cup Connectors
         /\ p[1] \in LoadClients => /\ p[1] \notin {"CoroutineTestClient", "SyncClinet"}
                                    /\ p[1] \notin Writers \cup Connectors \cup Readers
         /\ p[1] \in Writers => /\ p[1] \notin {"CoroutineTestClient", "SyncClinet"}
                                /\ p[1] \notin LoadClients \cup Connectors \cup Readers
         /\ p[1] \in Readers => /\ p[1] \notin {"CoroutineTestClient", "SyncClinet"}
                                /\ p[1] \notin LoadClients \cup Connectors \cup Writers
         /\ p[1] \in {"CoroutineTestClient", "SyncClinet"} =>
              p[1] \notin LoadClients \cup Connectors \cup Writers \cup Readers
         /\ p[1] \in Connectors => /\ p[1] \notin {"CoroutineTestClient", "SyncClinet"}
                                   /\ p[1] \notin LoadClients \cup Readers \cup Writers
  BY Meant DEF LoadClients, Writers, Readers, Connectors, EchoClients

\* The claim about a client, kind by kind.
LEMMA ClientAtIs ==
  ASSUME NEW p \in Pairs, NEW a, NEW s, NEW n
  PROVE  /\ p[1] = "CoroutineTestClient" => (ClientAt(p, a, s, n) <=> TestClientAt(a, s, n))
         /\ p[1] = "SyncClinet" => (ClientAt(p, a, s, n) <=> SyncClinetAt(a, s))
         /\ p[1] \in LoadClients => (ClientAt(p, a, s, n) <=> LoadClientAt(a, s, n))
         /\ p[1] \in Writers => (ClientAt(p, a, s, n) <=> WriterAt(a, s, n))
         /\ p[1] \in Readers => (ClientAt(p, a, s, n) <=> ReaderAt(p, a, n))
         /\ p[1] \in Connectors => (ClientAt(p, a, s, n) <=> FALSE)
  BY Kinds DEF ClientAt

\* What each client is to hear in all.
LEMMA Totals ==
  ASSUME NEW p \in Pairs
  PROVE  /\ p[1] = "CoroutineTestClient" => Total(p) = HEAD + BODY
         /\ p[1] = "SyncClinet" => Total(p) = Pos(Rounds + 1, BODY)
         /\ p[1] \in LoadClients => Total(p) = Pos(Rounds + 1, BODY + 1)
         /\ p[1] \in Writers => Total(p) = 0
         /\ p[1] \in Readers => Total(p) = HEAD + BODY
         /\ p[1] \in Connectors => Total(p) = 0
         /\ Total(p) \in Nat
<1>1. /\ p[1] = "CoroutineTestClient" => Total(p) = HEAD + BODY
      /\ p[1] = "SyncClinet" => Total(p) = Pos(Rounds + 1, BODY)
      /\ p[1] \in LoadClients => Total(p) = Pos(Rounds + 1, BODY + 1)
      /\ p[1] \in Writers => Total(p) = 0
      /\ p[1] \in Readers => Total(p) = HEAD + BODY
      /\ p[1] \in Connectors => Total(p) = 0
  BY Kinds DEF Total
<1>2. /\ Pos(Rounds + 1, BODY) \in Nat /\ Pos(Rounds + 1, BODY + 1) \in Nat
      /\ HEAD + BODY \in Nat /\ 0 \in Nat
  <2>1. Rounds + 1 \in Nat \ {0} /\ BODY \in Nat /\ BODY + 1 \in Nat /\ HEAD + BODY \in Nat
    BY Sizes
  <2> QED
    BY <2>1, PosFacts
<1>3. Total(p) \in {HEAD + BODY, Pos(Rounds + 1, BODY), Pos(Rounds + 1, BODY + 1), 0}
  BY Kinds DEF Total
<1> QED
  BY <1>1, <1>2, <1>3

\* How often the programs run.
LEMMA RepeatsIs ==
  ASSUME NEW p \in Pairs, p = pair
  PROVE  /\ p[1] \in LoadClients => Repeats("client") = Rounds
         /\ p[1] = "SyncClinet" => Repeats("client") = 0
         /\ p[1] \in {"CoroutineTestClient"} \cup Writers \cup Readers => Repeats("client") = 1
         /\ Repeats("receiver") = IF p[2] = "source" THEN 1 ELSE 0
         /\ Repeats("server") = IF p[2] = "source" THEN 1 ELSE 0
  BY Kinds DEF Repeats

\* What is known of a client that runs.
LEMMA ClientRuns ==
  ASSUME NEW p, NEW a, NEW s, NEW n, a.st = "run"
  PROVE  ClientOK(p, a, s, n) <=>
           /\ ~a.failed /\ a.want \in Nat
           /\ Part(a.out, BODY, s) /\ a.in \in Seq(Octets(DownBody(p)))
           /\ ClientAt(p, a, s, n)
  BY DEF ClientOK

\* One that has come to its end.
LEMMA ClientEnded ==
  ASSUME NEW p, NEW a, NEW s, NEW n, a.st = "ended"
  PROVE  ClientOK(p, a, s, n) <=> (~a.failed => Finished(p, s, n))
  BY DEF ClientOK

\* Where the clients go, program by program.
LEMMA TestClientAdvance ==
  ASSUME pair \in Pairs, pair[1] = "CoroutineTestClient",
         NEW a, DOMAIN a = Fields, a.st = "run", a.round = 1,
         NEW x, x = Advance(a, "client")
  PROVE  /\ a.pc = 1 => /\ x.st = "run" /\ x.pc = 2 /\ x.round = 1 /\ x.failed = a.failed
                        /\ x.in = <<>> /\ x.out = <<>> /\ x.want = HEAD + BODY
         /\ a.pc = 2 => x.st = "ended" /\ x.failed = a.failed
<1> DEFINE done == Done(a)
           prog == Program("client")
<1>1. Repeats("client") = 1 /\ 1 \in Nat \ {0} /\ 1 <= Rounds /\ 1 \in 1 .. 1
  BY RepeatsIs, Sizes
<1>2. Len(prog) = 2 /\ prog[2] = <<"read", "frame">>
  BY ClientCalls
<1>3. /\ DOMAIN done = Fields /\ done.in = a.in /\ done.out = <<>> /\ done.want = 0
      /\ done.failed = a.failed /\ done.st = "run" /\ done.round = a.round
  BY DoneFields
<1>4. CASE a.pc = 1
  <2>1. x = At(done, prog, 2, 1)
    BY <1>1, <1>2, <1>4, AdvanceOn
  <2> HIDE DEF done, prog
  <2> QED
    BY <1>2, <1>3, <1>4, <2>1, AtCall
<1>5. CASE a.pc = 2
  <2>1. a.pc = Len(prog) /\ a.pc \in Nat
    BY <1>2, <1>5
  <2>2. x.st = "ended" /\ x.failed = a.failed
    BY <1>1, <1>2, <1>5, <2>1, AdvanceRounds
  <2> HIDE DEF done, prog
  <2> QED
    BY <1>2, <1>3, <1>5, <2>2
<1> QED
  BY <1>4, <1>5

\* The sender of SyncClinet.
LEMMA SyncClinetAdvance ==
  ASSUME pair \in Pairs, pair[1] = "SyncClinet",
         NEW a, DOMAIN a = Fields, a.st = "run", a.round \in 1 .. Rounds, a.pc = 1,
         NEW x, x = Advance(a, "client")
  PROVE  /\ x.st = "run" /\ x.failed = a.failed /\ x.in = a.in /\ x.want = 0
         /\ IF a.round = Rounds THEN x.pc = 0 /\ x.round = Rounds /\ x.out = <<>>
            ELSE x.pc = 1 /\ x.round = a.round + 1 /\ x.out = Bytes(a.round + 1, BODY)
<1> DEFINE done == Done(a)
           prog == Program("client")
<1>1. Repeats("client") = 0
  BY RepeatsIs
<1>2. Len(prog) = 1 /\ prog[1] = <<"write", "frame">>
  BY ClientCalls
<1>3. /\ DOMAIN done = Fields /\ done.in = a.in /\ done.out = <<>> /\ done.want = 0
      /\ done.failed = a.failed /\ done.st = "run" /\ done.round = a.round
  BY DoneFields
<1>4. CASE a.round = Rounds
  <2>1. a.pc = Len(prog) /\ a.pc \in Nat
    BY <1>2, <1>4
  <2>2. x = [done EXCEPT !.pc = 0]
    BY <1>1, <1>2, <1>4, <2>1, AdvanceSender
  <2> HIDE DEF done, prog
  <2> QED
    BY <1>2, <1>3, <1>4, <2>2 DEF Fields
<1>5. CASE a.round # Rounds
  <2>1. a.pc = Len(prog) /\ a.pc \in Nat
    BY <1>2, <1>5
  <2>2. x = At(done, prog, 1, a.round + 1)
    BY <1>1, <1>2, <1>5, <2>1, AdvanceSender
  <2> HIDE DEF done, prog
  <2> QED
    BY <1>2, <1>3, <1>5, <2>2, AtCall
<1> QED
  BY <1>4, <1>5

\* TestClient and json_client.
LEMMA LoadClientAdvance ==
  ASSUME pair \in Pairs, pair[1] \in LoadClients,
         NEW a, DOMAIN a = Fields, a.st = "run", a.round \in 1 .. Rounds,
         NEW x, x = Advance(a, "client")
  PROVE  /\ a.pc = 1 => /\ x.st = "run" /\ x.pc = 2 /\ x.round = a.round /\ x.failed = a.failed
                        /\ x.in = <<>> /\ x.out = <<>> /\ x.want = HEAD
         /\ a.pc = 2 => /\ x.st = "run" /\ x.pc = 3 /\ x.round = a.round /\ x.failed = a.failed
                        /\ x.in = <<>> /\ x.out = <<>> /\ x.want = a.in[HEAD].n
         /\ a.pc = 3 => IF a.round = Rounds THEN x.st = "ended" /\ x.failed = a.failed
                        ELSE /\ x.st = "run" /\ x.pc = 1 /\ x.round = a.round + 1
                             /\ x.failed = a.failed /\ x.in = a.in /\ x.want = 0
                             /\ x.out = Bytes(a.round + 1, BODY)
<1> DEFINE done == Done(a)
           prog == Program("client")
<1>1. Repeats("client") = Rounds /\ Rounds \in Nat \ {0} /\ Rounds <= Rounds
  BY RepeatsIs, Sizes
<1>2. /\ Len(prog) = 3 /\ prog[1] = <<"write", "frame">>
      /\ prog[2] = <<"read", "head">> /\ prog[3] = <<"read", "body">>
  BY ClientCalls
<1>3. /\ DOMAIN done = Fields /\ done.in = a.in /\ done.out = <<>> /\ done.want = 0
      /\ done.failed = a.failed /\ done.st = "run" /\ done.round = a.round
  BY DoneFields
<1>4. CASE a.pc = 1
  <2>1. x = At(done, prog, 2, a.round)
    BY <1>1, <1>2, <1>4, AdvanceOn
  <2> HIDE DEF done, prog
  <2> QED
    BY <1>2, <1>3, <1>4, <2>1, AtCall
<1>5. CASE a.pc = 2
  <2>1. x = At(done, prog, 3, a.round)
    BY <1>1, <1>2, <1>5, AdvanceOn
  <2> HIDE DEF done, prog
  <2> QED
    BY <1>2, <1>3, <1>5, <2>1, AtCall
<1>6. CASE a.pc = 3
  <2>1. a.pc = Len(prog) /\ a.pc \in Nat
    BY <1>2, <1>6
  <2>2. IF a.round = Rounds THEN x.st = "ended" /\ x.failed = a.failed
        ELSE x = At(done, prog, 1, a.round + 1)
    BY <1>1, <1>2, <1>6, <2>1, AdvanceRounds
  <2> HIDE DEF done, prog
  <2> QED
    BY <1>2, <1>3, <1>6, <2>2, AtCall
<1> QED
  BY <1>4, <1>5, <1>6

\* Those that make one call.
LEMMA OnceAdvance ==
  ASSUME pair \in Pairs, pair[1] \in Writers \cup Readers,
         NEW a, DOMAIN a = Fields, a.round = 1, a.pc = 1,
         NEW x, x = Advance(a, "client")
  PROVE  x.st = "ended" /\ x.failed = a.failed
<1>1. Repeats("client") = 1 /\ 1 \in Nat \ {0} /\ 1 <= Rounds /\ 1 \in 1 .. 1
  BY RepeatsIs, Sizes
<1>2. Len(Program("client")) = 1
  BY ClientCalls DEF Writers, Readers
<1>3. a.pc = Len(Program("client")) /\ a.pc \in Nat
  BY <1>2
<1> QED
  BY <1>1, <1>3, AdvanceRounds

\* The receiver of SyncClinet, and the servers.
LEMMA ReceiverAdvance ==
  ASSUME pair \in Pairs, pair[1] = "SyncClinet",
         NEW a, DOMAIN a = Fields, a.st = "run",
         NEW x, x = Advance(a, "receiver")
  PROVE  /\ a.pc = 1 => /\ x.st = "run" /\ x.pc = 2 /\ x.in = <<>> /\ x.out = <<>>
                        /\ x.want = a.in[HEAD].n
         /\ a.pc = 2 => /\ x.st = "run" /\ x.pc = 1 /\ x.in = <<>> /\ x.out = <<>>
                        /\ x.want = HEAD
<1> DEFINE done == Done(a)
           prog == Program("receiver")
<1>1. Repeats("receiver") = 0
  BY RepeatsIs, Meant DEF EchoServers, LoadClients, Writers, Readers
<1>2. Len(prog) = 2 /\ prog[1] = <<"read", "head">> /\ prog[2] = <<"read", "body">>
  BY ReceiverCalls
<1>3. /\ DOMAIN done = Fields /\ done.in = a.in /\ done.out = <<>> /\ done.want = 0
      /\ done.failed = a.failed /\ done.st = "run" /\ done.round = a.round
  BY DoneFields
<1>4. CASE a.pc = 1
  <2>1. x = At(done, prog, 2, a.round)
    BY <1>1, <1>2, <1>4, AdvanceOn
  <2> HIDE DEF done, prog
  <2> QED
    BY <1>2, <1>3, <1>4, <2>1, AtCall
<1>5. CASE a.pc = 2
  <2>1. a.pc = Len(prog) /\ a.pc \in Nat
    BY <1>2, <1>5
  <2>2. \E r : x = At(done, prog, 1, r)
    BY <1>1, <1>2, <1>5, <2>1, AdvanceAgain
  <2> HIDE DEF done, prog
  <2> QED
    BY <1>2, <1>3, <1>5, <2>2, AtCall
<1> QED
  BY <1>4, <1>5

\* The sessions of Coroutine_server and SyncServer.
LEMMA EchoAdvance ==
  ASSUME pair \in Pairs, pair[2] \in EchoServers,
         NEW v, DOMAIN v = Fields, v.st = "run",
         NEW x, x = Advance(v, "server")
  PROVE  /\ v.pc = 1 => /\ x.st = "run" /\ x.pc = 2 /\ x.in = v.in /\ x.out = v.in /\ x.want = 0
         /\ v.pc = 2 => /\ x.st = "run" /\ x.pc = 1 /\ x.in = <<>> /\ x.out = <<>>
                        /\ x.want = CHUNK
<1> DEFINE done == Done(v)
           prog == Program("server")
<1>1. Repeats("server") = 0
  BY RepeatsIs DEF EchoServers
<1>2. Len(prog) = 2 /\ prog[1] = <<"read_some", "chunk">> /\ prog[2] = <<"write", "data">>
  BY ServerCalls
<1>3. /\ DOMAIN done = Fields /\ done.in = v.in /\ done.out = <<>> /\ done.want = 0
      /\ done.failed = v.failed /\ done.st = "run" /\ done.round = v.round
  BY DoneFields
<1>4. CASE v.pc = 1
  <2>1. x = At(done, prog, 2, v.round)
    BY <1>1, <1>2, <1>4, AdvanceOn
  <2> HIDE DEF done, prog
  <2> QED
    BY <1>2, <1>3, <1>4, <2>1, AtCall
<1>5. CASE v.pc = 2
  <2>1. v.pc = Len(prog) /\ v.pc \in Nat
    BY <1>2, <1>5
  <2>2. \E r : x = At(done, prog, 1, r)
    BY <1>1, <1>2, <1>5, <2>1, AdvanceAgain
  <2> HIDE DEF done, prog
  <2> QED
    BY <1>2, <1>3, <1>5, <2>2, AtCall
<1> QED
  BY <1>4, <1>5

\* A session of the servers with frames.
LEMMA ServeAdvance ==
  ASSUME pair \in Pairs, pair[2] = "frames",
         NEW v, DOMAIN v = Fields, v.st = "run",
         NEW x, x = Advance(v, "server")
  PROVE  /\ v.pc = 1 => /\ x.st = "run" /\ x.pc = 2 /\ x.in = <<>> /\ x.out = <<>>
                        /\ x.want = v.in[HEAD].n
         /\ v.pc = 2 => /\ x.st = "run" /\ x.pc = 3 /\ x.want = 0
                        /\ x.out = Bytes(v.in[1].r, BODY + 1)
         /\ v.pc = 3 => /\ x.st = "run" /\ x.pc = 1 /\ x.in = <<>> /\ x.out = <<>>
                        /\ x.want = HEAD
<1> DEFINE done == Done(v)
           prog == Program("server")
<1>1. Repeats("server") = 0
  BY RepeatsIs
<1>2. /\ Len(prog) = 3 /\ prog[1] = <<"read", "head">>
      /\ prog[2] = <<"read", "body">> /\ prog[3] = <<"write", "reply">>
  BY ServerCalls
<1>3. /\ DOMAIN done = Fields /\ done.in = v.in /\ done.out = <<>> /\ done.want = 0
      /\ done.failed = v.failed /\ done.st = "run" /\ done.round = v.round
  BY DoneFields
<1>4. CASE v.pc = 1
  <2>1. x = At(done, prog, 2, v.round)
    BY <1>1, <1>2, <1>4, AdvanceOn
  <2> HIDE DEF done, prog
  <2> QED
    BY <1>2, <1>3, <1>4, <2>1, AtCall
<1>5. CASE v.pc = 2
  <2>1. x = At(done, prog, 3, v.round)
    BY <1>1, <1>2, <1>5, AdvanceOn
  <2> HIDE DEF done, prog
  <2> QED
    BY <1>2, <1>3, <1>5, <2>1, AtCall
<1>6. CASE v.pc = 3
  <2>1. v.pc = Len(prog) /\ v.pc \in Nat
    BY <1>2, <1>6
  <2>2. \E r : x = At(done, prog, 1, r)
    BY <1>1, <1>2, <1>6, <2>1, AdvanceAgain
  <2> HIDE DEF done, prog
  <2> QED
    BY <1>2, <1>3, <1>6, <2>2, AtCall
<1> QED
  BY <1>4, <1>5, <1>6

\* One that only reads.
LEMMA SinkAdvance ==
  ASSUME pair \in Pairs, pair[2] = "sink",
         NEW v, DOMAIN v = Fields, v.st = "run", v.pc = 1,
         NEW x, x = Advance(v, "server")
  PROVE  x.st = "run" /\ x.pc = 1 /\ x.in = <<>> /\ x.out = <<>> /\ x.want = CHUNK
<1> DEFINE done == Done(v)
           prog == Program("server")
<1>1. Repeats("server") = 0
  BY RepeatsIs
<1>2. Len(prog) = 1 /\ prog[1] = <<"read_some", "chunk">>
  BY ServerCalls
<1>3. /\ DOMAIN done = Fields /\ done.in = v.in /\ done.out = <<>> /\ done.want = 0
      /\ done.failed = v.failed /\ done.st = "run" /\ done.round = v.round
  BY DoneFields
<1>4. v.pc = Len(prog) /\ v.pc \in Nat
  BY <1>2
<1>5. \E r : x = At(done, prog, 1, r)
  BY <1>4, <1>1, AdvanceAgain
<1> HIDE DEF done, prog
<1> QED
  BY <1>2, <1>3, <1>5, AtCall

\* One that only writes.
LEMMA SourceAdvance ==
  ASSUME pair \in Pairs, pair[2] = "source",
         NEW v, DOMAIN v = Fields, v.pc = 1, v.round = 1,
         NEW x, x = Advance(v, "server")
  PROVE  x.st = "ended"
<1>1. Repeats("server") = 1 /\ 1 \in Nat \ {0} /\ 1 <= Rounds /\ 1 \in 1 .. 1
  BY RepeatsIs, Sizes
<1>2. Len(Program("server")) = 1
  BY ServerCalls
<1>3. v.pc = Len(Program("server")) /\ v.pc \in Nat
  BY <1>2
<1> QED
  BY <1>1, <1>3, AdvanceRounds

-----------------------------------------------------------------------------
(* What a client writes.                                                   *)

\* It goes on with its message.
LEMMA ClientWritesOn ==
  ASSUME NEW p \in Pairs, NEW a, NEW x, NEW s, NEW s2, NEW n,
         ClientAt(p, a, s, n), a.out # <<>>,
         x.pc = a.pc, x.round = a.round, x.want = a.want, x.in = a.in,
         s2 + Len(x.out) = s + Len(a.out)
  PROVE  ClientAt(p, x, s2, n)
<1>1. CASE p[1] = "CoroutineTestClient"
  <2>1. TestClientAt(a, s, n)
    BY <1>1, ClientAtIs
  <2>2. TestClientAt(x, s2, n)
    BY <2>1 DEF TestClientAt
  <2> QED
    BY <1>1, <2>2, ClientAtIs
<1>2. CASE p[1] = "SyncClinet"
  <2>1. SyncClinetAt(a, s)
    BY <1>2, ClientAtIs
  <2>2. SyncClinetAt(x, s2)
    BY <2>1 DEF SyncClinetAt
  <2> QED
    BY <1>2, <2>2, ClientAtIs
<1>3. CASE p[1] \in LoadClients
  <2>1. LoadClientAt(a, s, n)
    BY <1>3, ClientAtIs
  <2>2. LoadClientAt(x, s2, n)
    BY <2>1 DEF LoadClientAt
  <2> QED
    BY <1>3, <2>2, ClientAtIs
<1>4. CASE p[1] \in Writers
  <2>1. WriterAt(a, s, n)
    BY <1>4, ClientAtIs
  <2>2. WriterAt(x, s2, n)
    BY <2>1 DEF WriterAt
  <2> QED
    BY <1>4, <2>2, ClientAtIs
<1>5. CASE p[1] \in Readers
  <2>1. ReaderAt(p, a, n)
    BY <1>5, ClientAtIs
  <2> QED
    BY <2>1 DEF ReaderAt
<1>6. CASE p[1] \in Connectors
  BY <1>6, ClientAtIs
<1> QED
  BY <1>1, <1>2, <1>3, <1>4, <1>5, <1>6, Kinds

\* It is at the end of its message, s bytes counted with it.
LEMMA ClientWroteMessage ==
  ASSUME NEW p \in Pairs, p = pair, NEW a, DOMAIN a = Fields, a.st = "run", NEW s \in Nat, NEW n \in Nat,
         ~a.failed, a.in \in Seq(Octets(DownBody(p))), a.out # <<>>,
         NEW s1, ClientAt(p, a, s1, n), p[1] # "send_data_by_send" => s = s1 + Len(a.out),
         NEW x, x = Advance(a, "client")
  PROVE  ClientOK(p, x, s, n)
<1>1. CASE p[1] = "CoroutineTestClient"
  <2>1. TestClientAt(a, s1, n)
    BY <1>1, ClientAtIs
  <2>2. a.pc = 1 /\ a.round = 1 /\ n = 0 /\ s = HEAD + BODY
    BY <1>1, <2>1 DEF TestClientAt
  <2>3. /\ x.st = "run" /\ x.pc = 2 /\ x.round = 1 /\ ~x.failed /\ x.in = <<>> /\ x.out = <<>>
        /\ x.want = HEAD + BODY /\ HEAD + BODY \in Nat
    BY <1>1, <2>2, TestClientAdvance, Sizes
  <2>4. TestClientAt(x, s, n)
    <3>1. n + x.want = HEAD + BODY
      BY <2>2, <2>3, Sizes
    <3> QED
      BY <2>2, <2>3, <3>1 DEF TestClientAt
  <2>5. ClientAt(p, x, s, n)
    BY <1>1, <2>4, ClientAtIs
  <2> QED
    BY <2>3, <2>5, ClientRuns, NoPart, EmptySeq
<1>2. CASE p[1] = "SyncClinet"
  <2>1. SyncClinetAt(a, s1)
    BY <1>2, ClientAtIs
  <2>2. a.pc = 1 /\ a.round \in 1 .. Rounds /\ s = Pos(a.round + 1, BODY)
    BY <1>2, <2>1 DEF SyncClinetAt
  <2>3. /\ x.st = "run" /\ ~x.failed /\ x.in = a.in /\ x.want = 0
        /\ IF a.round = Rounds THEN x.pc = 0 /\ x.round = Rounds /\ x.out = <<>>
           ELSE x.pc = 1 /\ x.round = a.round + 1 /\ x.out = Bytes(a.round + 1, BODY)
    BY <1>2, <2>2, SyncClinetAdvance
  <2>4. CASE a.round = Rounds
    <3>1. x.pc = 0 /\ x.round = Rounds /\ x.out = <<>> /\ s = Pos(Rounds + 1, BODY)
      BY <2>2, <2>3, <2>4
    <3>2. Rounds \in 1 .. Rounds
      BY Sizes
    <3>3. SyncClinetAt(x, s)
      BY <2>3, <3>1, <3>2 DEF SyncClinetAt
    <3>4. ClientAt(p, x, s, n)
      BY <1>2, <3>3, ClientAtIs
    <3> QED
      BY <2>3, <3>1, <3>4, ClientRuns, NoPart
  <2>5. CASE a.round # Rounds
    <3>1. x.pc = 1 /\ x.round = a.round + 1 /\ x.out = Bytes(a.round + 1, BODY)
      BY <2>3, <2>5
    <3>2. x.round \in 1 .. Rounds /\ x.round \in Nat \ {0} /\ BODY \in Nat /\ s = Pos(x.round, BODY)
      BY <2>2, <2>5, <3>1, Sizes
    <3>3. Part(x.out, BODY, s) /\ Len(x.out) = HEAD + BODY
      BY <3>1, <3>2, BytesPart
    <3>4. Pos(x.round + 1, BODY) = Pos(x.round, BODY) + HEAD + BODY
      BY <3>2, PosFacts
    <3>5. s + Len(x.out) = Pos(x.round + 1, BODY)
      BY <3>2, <3>3, <3>4, Sizes
    <3>6. SyncClinetAt(x, s)
      BY <2>3, <3>1, <3>2, <3>5 DEF SyncClinetAt
    <3>7. ClientAt(p, x, s, n)
      BY <1>2, <3>6, ClientAtIs
    <3> QED
      BY <2>3, <3>3, <3>7, ClientRuns
  <2> QED
    BY <2>4, <2>5
<1>3. CASE p[1] \in LoadClients
  <2>1. LoadClientAt(a, s1, n)
    BY <1>3, ClientAtIs
  <2>2. /\ a.pc = 1 /\ a.round \in 1 .. Rounds /\ s = Pos(a.round + 1, BODY)
        /\ n = Pos(a.round, BODY + 1)
    BY <1>3, <2>1 DEF LoadClientAt, LoadClients
  <2>3. /\ x.st = "run" /\ x.pc = 2 /\ x.round = a.round /\ ~x.failed
        /\ x.in = <<>> /\ x.out = <<>> /\ x.want = HEAD
    BY <1>3, <2>2, LoadClientAdvance
  <2>4. Len(x.in) = 0 /\ Len(x.out) = 0
    BY <2>3, EmptySeq
  <2>5. s + Len(x.out) = Pos(x.round + 1, BODY) /\ Len(x.in) + x.want = HEAD
        /\ n + x.want = Pos(x.round, BODY + 1) + HEAD
    BY <2>2, <2>3, <2>4, Sizes
  <2>6. LoadClientAt(x, s, n)
    BY <2>2, <2>3, <2>5 DEF LoadClientAt
  <2>7. ClientAt(p, x, s, n)
    BY <1>3, <2>6, ClientAtIs
  <2> QED
    BY <2>3, <2>7, ClientRuns, NoPart, EmptySeq, Sizes
<1>4. CASE p[1] \in Writers
  <2>1. WriterAt(a, s1, n)
    BY <1>4, ClientAtIs
  <2>2. /\ a.pc = 1 /\ a.round = 1 /\ n = 0
        /\ p[1] # "send_data_by_send" => s = HEAD + BODY
    BY <2>1 DEF WriterAt
  <2>3. x.st = "ended"
    BY <1>4, <2>2, OnceAdvance
  <2>4. n = Total(p) /\ p[1] # "SyncClinet"
    BY <1>4, <2>2, Totals, Kinds
  <2>5. Finished(p, s, n)
    BY <2>2, <2>4 DEF Finished
  <2> QED
    BY <2>3, <2>5, ClientEnded
<1>5. CASE p[1] \in Readers
  <2>1. ReaderAt(p, a, n)
    BY <1>5, ClientAtIs
  <2> QED
    BY <2>1 DEF ReaderAt
<1>6. CASE p[1] \in Connectors
  BY <1>6, ClientAtIs
<1> QED
  BY <1>1, <1>2, <1>3, <1>4, <1>5, <1>6, Kinds

\* A client that writes is at its first call.
LEMMA ClientWriting ==
  ASSUME NEW p \in Pairs, NEW a, NEW s, NEW n, ClientAt(p, a, s, n), a.out # <<>>
  PROVE  a.pc = 1 /\ p[1] \notin Readers \cup Connectors
<1>1. p[1] = "CoroutineTestClient" => a.pc = 1
  BY ClientAtIs DEF TestClientAt
<1>2. p[1] = "SyncClinet" => a.pc = 1
  BY ClientAtIs DEF SyncClinetAt
<1>3. p[1] \in LoadClients => a.pc = 1
  BY ClientAtIs DEF LoadClientAt
<1>4. p[1] \in Writers => a.pc = 1
  BY ClientAtIs DEF WriterAt
<1>5. p[1] \notin Readers
  BY ClientAtIs DEF ReaderAt
<1>6. p[1] \notin Connectors
  BY ClientAtIs
<1> QED
  BY <1>1, <1>2, <1>3, <1>4, <1>5, <1>6, Kinds

\* k bytes more are out.
LEMMA ClientWrote ==
  ASSUME NEW p \in Pairs, p = pair, NEW a, DOMAIN a = Fields, a.st = "run",
         NEW s \in Nat, NEW n \in Nat, ClientOK(p, a, s, n), NEW k \in 1 .. Len(a.out)
  PROVE  /\ ClientOK(p, Emitted(a, "client", k), s + k, n)
         /\ LET first == SubSeq(a.out, 1, k) IN Part(first, BODY, s) /\ Len(first) = k
<1> DEFINE rest == SubSeq(a.out, k + 1, Len(a.out))
           first == SubSeq(a.out, 1, k)
           x == Emitted(a, "client", k)
<1>1. /\ ~a.failed /\ a.want \in Nat /\ Part(a.out, BODY, s)
      /\ a.in \in Seq(Octets(DownBody(p))) /\ ClientAt(p, a, s, n)
  BY ClientRuns
<1>2. Len(a.out) \in Nat /\ k \in Nat /\ k \in 0 .. Len(a.out) /\ s + k \in Nat
  <2>1. a.out \in Seq(Octets(BODY))
    BY <1>1 DEF Part
  <2>2. Len(a.out) \in Nat
    BY <2>1
  <2> QED
    BY <2>2
<1>3. a.out # <<>>
  BY <1>2, EmptySeq
<1>4. /\ Part(rest, BODY, s + k) /\ Len(rest) = Len(a.out) - k
      /\ rest = <<>> <=> k = Len(a.out)
      /\ Part(first, BODY, s) /\ Len(first) = k
  BY <1>1, <1>2, PartSplit, Sizes
<1>5. x = IF rest = <<>> \/ Program("client")[a.pc][1] = "write_some"
          THEN Advance(a, "client") ELSE [a EXCEPT !.out = rest]
  BY DEF Emitted
<1> HIDE DEF rest, first, x
<1>6. ASSUME ~(rest = <<>> \/ Program("client")[a.pc][1] = "write_some")
      PROVE  ClientOK(p, x, s + k, n)
  <2>1. /\ x.st = "run" /\ x.out = rest /\ x.pc = a.pc /\ x.round = a.round /\ x.in = a.in
        /\ x.want = a.want /\ x.failed = a.failed
    BY <1>6, <1>5 DEF Fields
  <2>2. (s + k) + Len(x.out) = s + Len(a.out)
    <3>1. \A i, j \in Nat : (i + k) + (j - k) = i + j
      BY <1>2
    <3>2. Len(x.out) = Len(a.out) - k
      BY <1>4, <2>1
    <3> QED
      BY <1>2, <3>1, <3>2
  <2>3. ClientAt(p, x, s + k, n)
    BY <1>1, <1>3, <2>1, <2>2, ClientWritesOn
  <2> QED
    BY <1>1, <1>2, <1>4, <2>1, <2>3, ClientRuns
<1>7. ASSUME rest = <<>> \/ Program("client")[a.pc][1] = "write_some"
      PROVE  ClientOK(p, x, s + k, n)
  <2>1. p[1] # "send_data_by_send" => rest = <<>>
    <3>1. a.pc = 1 /\ p[1] \notin Readers \cup Connectors
      BY <1>1, <1>3, ClientWriting
    <3>2. p[1] \in {"CoroutineTestClient", "SyncClinet"} \cup LoadClients
                   \cup {"send_data_by_write", "send_data_by_send", "send_data_write"}
      BY <3>1, Kinds DEF Writers
    <3>3. p[1] # "send_data_by_send" => Program("client")[1] = <<"write", "frame">>
      BY <3>2, ClientCalls
    <3> QED
      BY <1>7, <3>1, <3>3
  <2>2. p[1] # "send_data_by_send" => s + k = s + Len(a.out)
    BY <1>4, <2>1
  <2>3. x = Advance(a, "client")
    BY <1>7, <1>5
  <2> HIDE <1>7
  <2> QED
    BY <1>1, <1>2, <1>3, <2>2, <2>3, ClientWroteMessage
<1>8. ClientOK(p, x, s + k, n) /\ Part(first, BODY, s) /\ Len(first) = k
  BY <1>4, <1>6, <1>7
<1> QED
  BY <1>8 DEF first, x

-----------------------------------------------------------------------------
(* What a client reads.                                                    *)

\* It goes on with what it reads.
LEMMA ClientReadsOn ==
  ASSUME NEW p \in Pairs, NEW a, NEW x, NEW s, NEW n, NEW n2,
         ClientAt(p, a, s, n), a.want # 0, p[1] # "read_data_bye_receive",
         x.pc = a.pc, x.round = a.round, x.out = a.out,
         n2 + x.want = n + a.want, Len(x.in) + x.want = Len(a.in) + a.want
  PROVE  ClientAt(p, x, s, n2)
<1>1. CASE p[1] = "CoroutineTestClient"
  <2>1. TestClientAt(a, s, n)
    BY <1>1, ClientAtIs
  <2>2. TestClientAt(x, s, n2)
    BY <2>1 DEF TestClientAt
  <2> QED
    BY <1>1, <2>2, ClientAtIs
<1>2. CASE p[1] = "SyncClinet"
  BY <1>2, ClientAtIs DEF SyncClinetAt
<1>3. CASE p[1] \in LoadClients
  <2>1. LoadClientAt(a, s, n)
    BY <1>3, ClientAtIs
  <2>2. LoadClientAt(x, s, n2)
    BY <2>1 DEF LoadClientAt
  <2> QED
    BY <1>3, <2>2, ClientAtIs
<1>4. CASE p[1] \in Writers
  BY <1>4, ClientAtIs DEF WriterAt
<1>5. CASE p[1] \in Readers
  <2>1. ReaderAt(p, a, n)
    BY <1>5, ClientAtIs
  <2>2. ReaderAt(p, x, n2)
    BY <2>1 DEF ReaderAt
  <2> QED
    BY <1>5, <2>2, ClientAtIs
<1>6. CASE p[1] \in Connectors
  BY <1>6, ClientAtIs
<1> QED
  BY <1>1, <1>2, <1>3, <1>4, <1>5, <1>6, Kinds

\* It never hears more than it is to hear.
LEMMA ClientBound ==
  ASSUME NEW p \in Pairs, NEW a, NEW s \in Nat, NEW n \in Nat,
         ClientAt(p, a, s, n), a.want \in Nat, a.want # 0
  PROVE  n + a.want <= Total(p)
<1>1. CASE p[1] = "CoroutineTestClient"
  BY <1>1, ClientAtIs, Totals, Sizes DEF TestClientAt
<1>2. CASE p[1] = "SyncClinet"
  BY <1>2, ClientAtIs DEF SyncClinetAt
<1>3. CASE p[1] \in LoadClients
  <2>1. LoadClientAt(a, s, n) /\ Total(p) = Pos(Rounds + 1, BODY + 1)
    BY <1>3, ClientAtIs, Totals
  <2>2. a.round \in Nat \ {0} /\ a.round + 1 \in Nat \ {0} /\ Rounds + 1 \in Nat \ {0}
        /\ a.round + 1 <= Rounds + 1 /\ BODY + 1 \in Nat /\ HEAD \in Nat
    BY <2>1, Sizes DEF LoadClientAt
  <2>3. /\ Pos(a.round + 1, BODY + 1) = Pos(a.round, BODY + 1) + HEAD + (BODY + 1)
        /\ Pos(a.round, BODY + 1) \in Nat /\ Pos(a.round + 1, BODY + 1) \in Nat
        /\ Pos(a.round + 1, BODY + 1) <= Pos(Rounds + 1, BODY + 1)
        /\ Pos(Rounds + 1, BODY + 1) \in Nat
    BY <2>2, PosFacts, PosMonotone
  <2>4. n + a.want = Pos(a.round, BODY + 1) + HEAD \/ n + a.want = Pos(a.round + 1, BODY + 1)
    BY <2>1 DEF LoadClientAt
  <2> QED
    BY <2>1, <2>2, <2>3, <2>4
<1>4. CASE p[1] \in Writers
  BY <1>4, ClientAtIs DEF WriterAt
<1>5. CASE p[1] \in Readers
  <2>1. n + a.want = HEAD + BODY
    BY <1>5, ClientAtIs DEF ReaderAt
  <2> QED
    BY <1>5, <2>1, Totals, Sizes
<1>6. CASE p[1] \in Connectors
  BY <1>6, ClientAtIs
<1> QED
  BY <1>1, <1>2, <1>3, <1>4, <1>5, <1>6, Kinds

\* It has read all it wanted, or what one call gave it.
LEMMA ClientReadMessage ==
  ASSUME NEW p \in Pairs, p = pair, NEW a, NEW s \in Nat, NEW n \in Nat, NEW n2 \in Nat,
         ClientAt(p, a, s, n), a.want \in Nat, a.want # 0, n2 # 0,
         p[1] # "read_data_bye_receive" => n2 = n + a.want,
         NEW m, DOMAIN m = Fields, m.st = "run", m.pc = a.pc, m.round = a.round, ~m.failed,
         m.in \in Seq(Octets(DownBody(p))),
         p[1] # "read_data_bye_receive" => Len(m.in) = Len(a.in) + a.want,
         NEW x, x = Advance(m, "client")
  PROVE  ClientOK(p, x, s, n2)
<1>1. CASE p[1] = "CoroutineTestClient"
  <2>1. TestClientAt(a, s, n)
    BY <1>1, ClientAtIs
  <2>2. a.pc = 2 /\ a.round = 1 /\ n2 = HEAD + BODY
    BY <1>1, <2>1 DEF TestClientAt
  <2>3. x.st = "ended"
    BY <1>1, <2>2, TestClientAdvance
  <2>4. Finished(p, s, n2)
    BY <1>1, <2>2, Totals, Kinds DEF Finished
  <2> QED
    BY <2>3, <2>4, ClientEnded
<1>2. CASE p[1] = "SyncClinet"
  BY <1>2, ClientAtIs DEF SyncClinetAt
<1>3. CASE p[1] \in LoadClients
  <2>1. LoadClientAt(a, s, n) /\ p[1] # "read_data_bye_receive" /\ p[2] = "frames"
    BY <1>3, ClientAtIs, Meant, Kinds DEF LoadClients, Writers, Readers, EchoClients
  <2>2. a.round \in 1 .. Rounds /\ a.round \in Nat \ {0} /\ a.round + 1 \in Nat \ {0}
        /\ BODY \in Nat /\ BODY + 1 \in Nat /\ HEAD \in Nat \ {0}
    <3>1. a.round \in 1 .. Rounds
      BY <2>1 DEF LoadClientAt
    <3> QED
      BY <3>1, Sizes
  <2>3. Pos(a.round + 1, BODY + 1) = Pos(a.round, BODY + 1) + HEAD + (BODY + 1)
    BY <2>2, PosFacts
  <2>4. /\ Pos(a.round, BODY + 1) \in Nat
        /\ Pos(a.round + 2, BODY) = Pos(a.round + 1, BODY) + HEAD + BODY
    <3>1. Pos((a.round + 1) + 1, BODY) = Pos(a.round + 1, BODY) + HEAD + BODY
      BY <2>2, PosFacts
    <3>2. (a.round + 1) + 1 = a.round + 2
      BY <2>2
    <3> QED
      BY <2>2, <3>1, <3>2, PosFacts
  <2>5. a.pc \in {2, 3} /\ a.out = <<>> /\ s = Pos(a.round + 1, BODY)
    <3>1. a.pc \in {2, 3} /\ a.out = <<>> /\ s + Len(a.out) = Pos(a.round + 1, BODY)
      BY <2>1 DEF LoadClientAt
    <3> QED
      BY <3>1, EmptySeq
  <2>6. CASE a.pc = 2
    <3>1. n2 = Pos(a.round, BODY + 1) + HEAD /\ Len(m.in) = HEAD
      BY <2>1, <2>6 DEF LoadClientAt
    <3>2. m.in[HEAD].n = BODY + 1
      <4>1. m.in[HEAD] \in Octets(BODY + 1)
        BY <2>1, <2>2, <3>1 DEF DownBody
      <4> QED
        BY <4>1 DEF Octets
    <3>3. /\ x.st = "run" /\ x.pc = 3 /\ x.round = a.round /\ ~x.failed
          /\ x.in = <<>> /\ x.out = <<>> /\ x.want = BODY + 1
      BY <1>3, <2>2, <2>6, <3>2, LoadClientAdvance
    <3>4. n2 + x.want = Pos(x.round + 1, BODY + 1)
      BY <2>2, <2>3, <2>4, <3>1, <3>3
    <3>5. s + Len(x.out) = Pos(x.round + 1, BODY)
      BY <2>5, <3>3
    <3>6. LoadClientAt(x, s, n2)
      BY <2>2, <3>3, <3>4, <3>5 DEF LoadClientAt
    <3>7. ClientAt(p, x, s, n2)
      BY <1>3, <3>6, ClientAtIs
    <3> QED
      BY <2>2, <3>3, <3>7, ClientRuns, NoPart, EmptySeq
  <2>7. CASE a.pc = 3
    <3>1. n2 = Pos(a.round + 1, BODY + 1)
      BY <2>1, <2>7 DEF LoadClientAt
    <3>2. CASE a.round = Rounds
      <4>1. x.st = "ended"
        BY <1>3, <2>2, <2>7, <3>2, LoadClientAdvance
      <4>2. Finished(p, s, n2)
        BY <1>3, <3>1, <3>2, Totals, Kinds DEF Finished
      <4> QED
        BY <4>1, <4>2, ClientEnded
    <3>3. CASE a.round # Rounds
      <4>1. /\ x.st = "run" /\ x.pc = 1 /\ x.round = a.round + 1 /\ ~x.failed
            /\ x.in = m.in /\ x.want = 0 /\ x.out = Bytes(a.round + 1, BODY)
        BY <1>3, <2>2, <2>7, <3>3, LoadClientAdvance
      <4>2. Part(x.out, BODY, s) /\ Len(x.out) = HEAD + BODY
        <5>1. /\ Part(Bytes(a.round + 1, BODY), BODY, Pos(a.round + 1, BODY))
              /\ Len(Bytes(a.round + 1, BODY)) = HEAD + BODY
          BY <2>2, BytesPart
        <5> QED
          BY <2>5, <4>1, <5>1
      <4>3. x.round \in 1 .. Rounds /\ x.round + 1 = a.round + 2
        BY <2>2, <3>3, <4>1, Sizes
      <4>4. s + Len(x.out) = Pos(x.round + 1, BODY)
        BY <2>2, <2>4, <2>5, <4>2, <4>3
      <4>5. LoadClientAt(x, s, n2)
        BY <3>1, <4>1, <4>3, <4>4 DEF LoadClientAt
      <4>6. ClientAt(p, x, s, n2)
        BY <1>3, <4>5, ClientAtIs
      <4> QED
        BY <4>1, <4>2, <4>6, ClientRuns
    <3> QED
      BY <3>2, <3>3
  <2> QED
    BY <2>5, <2>6, <2>7
<1>4. CASE p[1] \in Writers
  BY <1>4, ClientAtIs DEF WriterAt
<1>5. CASE p[1] \in Readers
  <2>1. ReaderAt(p, a, n)
    BY <1>5, ClientAtIs
  <2>2. x.st = "ended"
    BY <1>5, <2>1, OnceAdvance DEF ReaderAt
  <2>3. p[1] # "read_data_bye_receive" => n2 = Total(p)
    BY <1>5, <2>1, Totals DEF ReaderAt
  <2>4. n2 > 0 /\ p[1] # "SyncClinet" /\ p[1] \notin Writers
    BY <1>5, Kinds
  <2>5. Finished(p, s, n2)
    BY <2>3, <2>4 DEF Finished
  <2> QED
    BY <2>2, <2>5, ClientEnded
<1>6. CASE p[1] \in Connectors
  BY <1>6, ClientAtIs
<1> QED
  BY <1>1, <1>2, <1>3, <1>4, <1>5, <1>6, Kinds

\* Its last read is the only one of receive that need not be complete.
LEMMA ClientReading ==
  ASSUME NEW p \in Pairs, p = pair, NEW a, NEW s, NEW n, ClientAt(p, a, s, n), a.want # 0,
         Program("client")[a.pc][1] = "read_some"
  PROVE  p[1] = "read_data_bye_receive"
<1>1. p[1] # "CoroutineTestClient"
  BY ClientAtIs, ClientCalls DEF TestClientAt
<1>2. p[1] # "SyncClinet"
  BY ClientAtIs DEF SyncClinetAt
<1>3. p[1] \notin LoadClients
  BY ClientAtIs, ClientCalls DEF LoadClientAt
<1>4. p[1] \notin Writers
  BY ClientAtIs DEF WriterAt
<1>5. p[1] \notin {"read_data_bye_read_some", "read_data_bye_read"}
  <2> SUFFICES ASSUME p[1] \in {"read_data_bye_read_some", "read_data_bye_read"}
               PROVE  FALSE
    OBVIOUS
  <2>1. a.pc = 1
    BY ClientAtIs DEF ReaderAt, Readers
  <2> QED
    BY <2>1, ClientCalls
<1>6. p[1] \notin Connectors
  BY ClientAtIs
<1> QED
  BY <1>1, <1>2, <1>3, <1>4, <1>5, <1>6, Kinds DEF Readers

\* A byte that has come in is no longer wanted.
LEMMA Balance ==
  ASSUME NEW i \in Nat, NEW w \in Nat, NEW k \in Nat, NEW i2, NEW w2, i2 = i + k, w2 = w - k
  PROVE  i2 + w2 = i + w
  OBVIOUS

\* Some bytes more are in, and others are still wanted.
LEMMA ClientReadMore ==
  ASSUME NEW p \in Pairs, p = pair, NEW a, a.st = "run", NEW s \in Nat, NEW n \in Nat,
         ClientOK(p, a, s, n), NEW k \in Nat \ {0}, k <= a.want,
         Program("client")[a.pc][1] # "read_some",
         NEW m, m.st = "run", m.pc = a.pc, m.round = a.round, ~m.failed, m.out = a.out,
         m.want = a.want - k, m.in \in Seq(Octets(DownBody(p))), Len(m.in) = Len(a.in) + k
  PROVE  ClientOK(p, m, s, n + k)
<1>1. /\ ~a.failed /\ a.want \in Nat /\ Part(a.out, BODY, s)
      /\ a.in \in Seq(Octets(DownBody(p))) /\ ClientAt(p, a, s, n)
  BY ClientRuns
<1>2. m.want \in Nat /\ Len(a.in) \in Nat /\ a.want # 0
  BY <1>1
<1>3. (n + k) + m.want = n + a.want
  BY <1>1, Balance
<1>4. Len(m.in) + m.want = Len(a.in) + a.want
  BY <1>1, <1>2, Balance
<1>5. p[1] # "read_data_bye_receive"
  <2> SUFFICES ASSUME p[1] = "read_data_bye_receive"
               PROVE  FALSE
    OBVIOUS
  <2>1. a.pc = 1
    BY <1>1, ClientAtIs DEF ReaderAt, Readers
  <2> QED
    BY <2>1, ClientCalls
<1>6. ClientAt(p, m, s, n + k)
  BY <1>1, <1>2, <1>3, <1>4, <1>5, ClientReadsOn
<1> QED
  BY <1>1, <1>2, <1>6, ClientRuns

\* Or nothing is wanted any more, or the call takes what there is.
LEMMA ClientReadLast ==
  ASSUME NEW p \in Pairs, p = pair, NEW a, a.st = "run", NEW s \in Nat, NEW n \in Nat,
         ClientOK(p, a, s, n), NEW k \in Nat \ {0}, k <= a.want,
         NEW m, DOMAIN m = Fields, m.st = "run", m.pc = a.pc, m.round = a.round, ~m.failed,
         m.want = a.want - k, m.in \in Seq(Octets(DownBody(p))), Len(m.in) = Len(a.in) + k,
         m.want = 0 \/ Program("client")[a.pc][1] = "read_some",
         NEW x, x = Advance(m, "client")
  PROVE  ClientOK(p, x, s, n + k)
<1>1. a.want \in Nat /\ ClientAt(p, a, s, n) /\ a.want # 0
  <2>1. a.want \in Nat /\ ClientAt(p, a, s, n)
    BY ClientRuns
  <2> QED
    BY <2>1
<1>2. n + k \in Nat /\ n + k # 0
  OBVIOUS
<1>3. p[1] # "read_data_bye_receive" => k = a.want
  <2> SUFFICES ASSUME p[1] # "read_data_bye_receive"
               PROVE  k = a.want
    OBVIOUS
  <2>1. m.want = 0
    BY <1>1, ClientReading
  <2> QED
    BY <1>1, <2>1
<1>4. /\ p[1] # "read_data_bye_receive" => n + k = n + a.want
      /\ p[1] # "read_data_bye_receive" => Len(m.in) = Len(a.in) + a.want
  BY <1>3
<1>5. \A i : i = n + k => ClientOK(p, x, s, i)
  <2> TAKE i
  <2> HAVE i = n + k
  <2>1. i \in Nat /\ i # 0 /\ (p[1] # "read_data_bye_receive" => i = n + a.want)
    BY <1>2, <1>4
  <2> QED
    BY <1>1, <1>4, <2>1, ClientReadMessage
<1> QED
  BY <1>5

\* What a client reads leaves it where its program says.
LEMMA ClientRead ==
  ASSUME NEW p \in Pairs, p = pair, NEW a, DOMAIN a = Fields, a.st = "run",
         NEW s \in Nat, NEW n \in Nat, ClientOK(p, a, s, n), a.want # 0,
         NEW q \in Seq(Octets(DownBody(p))), Len(q) \in 1 .. a.want
  PROVE  ClientOK(p, Taken(a, "client", q), s, n + Len(q)) /\ n + Len(q) <= Total(p)
<1> DEFINE k == Len(q)
           m == [a EXCEPT !.in = @ \o q, !.want = @ - Len(q)]
           x == Taken(a, "client", q)
<1>1. /\ ~a.failed /\ a.want \in Nat /\ Part(a.out, BODY, s)
      /\ a.in \in Seq(Octets(DownBody(p))) /\ ClientAt(p, a, s, n)
  BY ClientRuns
<1>2. k \in Nat \ {0} /\ k <= a.want /\ Len(a.in) \in Nat
  BY <1>1
<1>3. n + k <= Total(p)
  <2>1. n + a.want <= Total(p) /\ Total(p) \in Nat
    BY <1>1, ClientBound, Totals
  <2> HIDE DEF k
  <2> QED
    BY <1>1, <1>2, <2>1
<1>4. /\ m.st = "run" /\ m.pc = a.pc /\ m.round = a.round /\ ~m.failed /\ m.out = a.out
      /\ m.want = a.want - k /\ m.in = a.in \o q /\ DOMAIN m = Fields
  BY <1>1 DEF Fields
<1>5. m.in \in Seq(Octets(DownBody(p))) /\ Len(m.in) = Len(a.in) + k
  BY <1>1, <1>4, ConcatProperties
<1>6. x = IF m.want = 0 \/ Program("client")[a.pc][1] = "read_some"
          THEN Advance(m, "client") ELSE m
  BY DEF Taken
<1> HIDE DEF k, m, x
<1>7. ASSUME ~(m.want = 0 \/ Program("client")[a.pc][1] = "read_some")
      PROVE  ClientOK(p, x, s, n + k)
  <2>1. ClientOK(p, m, s, n + k)
    BY <1>2, <1>4, <1>5, <1>7, ClientReadMore
  <2> QED
    BY <1>7, <1>6, <2>1
<1>8. ASSUME m.want = 0 \/ Program("client")[a.pc][1] = "read_some"
      PROVE  ClientOK(p, x, s, n + k)
  <2>1. \A y : y = Advance(m, "client") => ClientOK(p, y, s, n + k)
    BY <1>2, <1>4, <1>5, <1>8, ClientReadLast
  <2> QED
    BY <1>8, <1>6, <2>1
<1>9. ClientOK(p, x, s, n + k) /\ n + k <= Total(p)
  BY <1>3, <1>7, <1>8
<1> QED
  BY <1>9 DEF k, x

\* The receiver of SyncClinet has a head, or a body.
LEMMA ReceiverReadLast ==
  ASSUME NEW p \in Pairs, p = pair, p[1] = "SyncClinet",
         NEW m, DOMAIN m = Fields, m.st = "run", m.in \in Seq(Octets(BODY)),
         (m.pc = 1 /\ Len(m.in) = HEAD) \/ m.pc = 2,
         NEW x, x = Advance(m, "receiver")
  PROVE  ReceiverOK(p, x)
<1>1. <<>> \in Seq(Octets(BODY)) /\ Len(<<>>) = 0
  BY EmptySeq
<1>2. CASE m.pc = 1
  <2>1. m.in[HEAD].n = BODY
    <3>1. m.in[HEAD] \in Octets(BODY)
      BY <1>2, Sizes
    <3> QED
      BY <3>1 DEF Octets
  <2>2. x.st = "run" /\ x.pc = 2 /\ x.in = <<>> /\ x.out = <<>> /\ x.want = BODY
    BY <1>2, <2>1, ReceiverAdvance
  <2> QED
    BY <1>1, <2>2, Sizes DEF ReceiverOK
<1>3. CASE m.pc = 2
  <2>1. x.st = "run" /\ x.pc = 1 /\ x.in = <<>> /\ x.out = <<>> /\ x.want = HEAD
    BY <1>3, ReceiverAdvance
  <2>2. Len(x.in) + x.want = HEAD
    BY <1>1, <2>1, Sizes
  <2> QED
    BY <1>1, <2>1, <2>2, Sizes DEF ReceiverOK
<1> QED
  BY <1>2, <1>3

\* It reads on.
LEMMA ReceiverRead ==
  ASSUME NEW p \in Pairs, p = pair, p[1] = "SyncClinet", NEW b, DOMAIN b = Fields, b.st = "run",
         ReceiverOK(p, b), b.want # 0, NEW q \in Seq(Octets(BODY)), Len(q) \in 1 .. b.want
  PROVE  ReceiverOK(p, Taken(b, "receiver", q))
<1>1. /\ b.out = <<>> /\ b.want \in Nat /\ b.in \in Seq(Octets(BODY))
      /\ (b.pc = 1 /\ Len(b.in) + b.want = HEAD) \/ b.pc = 2
  BY DEF ReceiverOK
<1> DEFINE k == Len(q)
           m == [b EXCEPT !.in = @ \o q, !.want = @ - Len(q)]
           x == Taken(b, "receiver", q)
<1>2. k \in Nat \ {0} /\ k <= b.want /\ Len(b.in) \in Nat
  BY <1>1
<1>3. /\ m.st = "run" /\ m.pc = b.pc /\ m.out = <<>>
      /\ m.want = b.want - k /\ m.in = b.in \o q /\ DOMAIN m = Fields
  BY <1>1 DEF Fields
<1>4. m.in \in Seq(Octets(BODY)) /\ Len(m.in) = Len(b.in) + k
  BY <1>1, <1>3, ConcatProperties
<1>5. x = IF m.want = 0 \/ Program("receiver")[b.pc][1] = "read_some"
          THEN Advance(m, "receiver") ELSE m
  BY DEF Taken
<1> HIDE DEF k, m, x
<1>6. \A i, w, i2, w2 : i \in Nat /\ w \in Nat /\ i2 = i + k /\ w2 = w - k => i2 + w2 = i + w
  BY <1>2
<1>7. m.want \in Nat /\ Len(m.in) + m.want = Len(b.in) + b.want
  <2>1. m.want \in Nat
    <3>1. \A w \in Nat : k <= w => w - k \in Nat
      BY <1>2
    <3> QED
      BY <1>1, <1>2, <1>3, <3>1
  <2> QED
    BY <1>1, <1>2, <1>3, <1>4, <1>6, <2>1
<1>8. ASSUME ~(m.want = 0 \/ Program("receiver")[b.pc][1] = "read_some")
      PROVE  ReceiverOK(p, x)
  <2>1. x = m
    BY <1>8, <1>5
  <2> QED
    BY <1>1, <1>3, <1>4, <1>7, <2>1 DEF ReceiverOK
<1>9. ASSUME m.want = 0 \/ Program("receiver")[b.pc][1] = "read_some"
      PROVE  ReceiverOK(p, x)
  <2>1. x = Advance(m, "receiver")
    BY <1>9, <1>5
  <2>2. m.want = 0
    BY <1>1, <1>9, ReceiverCalls
  <2>3. b.pc = 1 => Len(m.in) = HEAD
    <3>1. b.pc = 1 => Len(b.in) + b.want = HEAD /\ Len(m.in) \in Nat
      BY <1>1, <1>4
    <3> QED
      BY <1>7, <2>2, <3>1
  <2>4. \A y : y = Advance(m, "receiver") => ReceiverOK(p, y)
    BY <1>1, <1>3, <1>4, <2>3, ReceiverReadLast
  <2> QED
    BY <2>1, <2>4
<1>10. ReceiverOK(p, x)
  BY <1>8, <1>9
<1> QED
  BY <1>10 DEF x

-----------------------------------------------------------------------------
(* The servers.                                                            *)

\* The claim about a session, kind by kind.
LEMMA ServerAtIs ==
  ASSUME NEW p, NEW v, NEW x, NEW y
  PROVE  /\ p[2] \in EchoServers => (ServerAt(p, v, x, y) <=> v.want \in Nat /\ EchoAt(v, x, y))
         /\ p[2] = "frames" =>
              (ServerAt(p, v, x, y) <=> v.want \in Nat /\ \E q \in Nat \ {0} : ServeAt(v, q, x, y))
         /\ p[2] = "sink" => (ServerAt(p, v, x, y) <=> v.want \in Nat /\ SinkAt(v, y))
         /\ p[2] = "source" => (ServerAt(p, v, x, y) <=> v.want \in Nat /\ SourceAt(v, y))
         /\ ServerAt(p, v, x, y) => p[2] \in EchoServers \cup {"frames", "sink", "source"}
  BY DEF ServerAt, EchoServers

\* A session that runs is where its program says.
LEMMA ServerRuns ==
  ASSUME NEW p, NEW v, NEW x, NEW y, v.st = "run"
  PROVE  ServerOK(p, v, x, y) <=> ServerAt(p, v, x, y)
  BY DEF ServerOK

\* What a session writes is the next part of what the client is to hear.
LEMMA ServerOut ==
  ASSUME NEW p, NEW v, NEW x, NEW y, ServerAt(p, v, x, y)
  PROVE  /\ v.out # <<>> => Part(v.out, DownBody(p), y)
         /\ v.out # <<>> /\ p[2] = "frames" => v.pc = 3
         /\ v.out # <<>> /\ p[2] \in EchoServers => v.pc = 2
         /\ v.out # <<>> => p[2] # "sink"
<1>1. CASE p[2] \in EchoServers
  <2>1. EchoAt(v, x, y)
    BY <1>1, ServerAtIs
  <2> QED
    BY <1>1, <2>1 DEF EchoAt, EchoServers, DownBody
<1>2. CASE p[2] = "frames"
  <2>1. PICK q \in Nat \ {0} : ServeAt(v, q, x, y)
    BY <1>2, ServerAtIs
  <2> QED
    BY <1>2, <2>1 DEF ServeAt, DownBody, EchoServers
<1>3. CASE p[2] = "sink"
  BY <1>3, ServerAtIs DEF SinkAt, EchoServers
<1>4. CASE p[2] = "source"
  BY <1>4, ServerAtIs DEF SourceAt, DownBody, EchoServers
<1> QED
  BY <1>1, <1>2, <1>3, <1>4, ServerAtIs

\* It goes on with what it writes.
LEMMA ServerWritesOn ==
  ASSUME NEW p, NEW v, NEW x, NEW y, NEW y2, ServerAt(p, v, x, y), v.out # <<>>,
         NEW w, w.pc = v.pc, w.round = v.round, w.want = v.want, w.in = v.in,
         Part(w.out, DownBody(p), y2), y2 + Len(w.out) = y + Len(v.out)
  PROVE  ServerAt(p, w, x, y2)
<1>1. CASE p[2] \in EchoServers
  <2>1. EchoAt(v, x, y) /\ v.want \in Nat
    BY <1>1, ServerAtIs
  <2>2. EchoAt(w, x, y2)
    BY <1>1, <2>1 DEF EchoAt, EchoServers, DownBody
  <2> QED
    BY <1>1, <2>1, <2>2, ServerAtIs
<1>2. CASE p[2] = "frames"
  <2>1. PICK q \in Nat \ {0} : ServeAt(v, q, x, y) /\ v.want \in Nat
    BY <1>2, ServerAtIs
  <2>2. ServeAt(w, q, x, y2)
    BY <1>2, <2>1 DEF ServeAt, DownBody
  <2> QED
    BY <1>2, <2>1, <2>2, ServerAtIs
<1>3. CASE p[2] = "sink"
  BY <1>3, ServerAtIs DEF SinkAt
<1>4. CASE p[2] = "source"
  <2>1. SourceAt(v, y) /\ v.want \in Nat
    BY <1>4, ServerAtIs
  <2>2. SourceAt(w, y2)
    BY <1>4, <2>1 DEF SourceAt, DownBody
  <2> QED
    BY <1>4, <2>1, <2>2, ServerAtIs
<1> QED
  BY <1>1, <1>2, <1>3, <1>4, ServerAtIs

\* It has written all of it.
LEMMA ServerWroteMessage ==
  ASSUME NEW p \in Pairs, p = pair, NEW v, DOMAIN v = Fields, v.st = "run", NEW x \in Nat, NEW y,
         ServerAt(p, v, x, y), v.out # <<>>, NEW y2 \in Nat, y2 = y + Len(v.out),
         NEW w, w = Advance(v, "server")
  PROVE  ServerOK(p, w, x, y2)
<1>1. <<>> \in Seq(Octets(BODY)) /\ Len(<<>>) = 0
  BY EmptySeq
<1>2. CASE p[2] \in EchoServers
  <2>1. EchoAt(v, x, y) /\ v.pc = 2
    BY <1>2, ServerAtIs, ServerOut
  <2>2. w.st = "run" /\ w.pc = 1 /\ w.in = <<>> /\ w.out = <<>> /\ w.want = CHUNK
    BY <1>2, <2>1, EchoAdvance
  <2>3. y2 = x
    BY <2>1 DEF EchoAt
  <2>4. y2 + Len(w.out) = x
    BY <1>1, <2>2, <2>3
  <2>5. EchoAt(w, x, y2)
    BY <1>1, <2>2, <2>4, NoPart DEF EchoAt
  <2> QED
    BY <1>2, <2>2, <2>5, ServerAtIs, ServerRuns, Sizes
<1>3. CASE p[2] = "frames"
  <2>1. PICK q \in Nat \ {0} : ServeAt(v, q, x, y)
    BY <1>3, ServerAtIs
  <2>2. v.pc = 3
    BY <1>3, ServerOut
  <2>3. x = Pos(q + 1, BODY) /\ y2 = Pos(q + 1, BODY + 1)
    BY <2>1, <2>2 DEF ServeAt
  <2>4. w.st = "run" /\ w.pc = 1 /\ w.in = <<>> /\ w.out = <<>> /\ w.want = HEAD
    BY <1>3, <2>2, ServeAdvance
  <2>5. ServeAt(w, q + 1, x, y2)
    <3>1. Len(w.in) = 0 /\ Len(w.in) + w.want = HEAD
      BY <1>1, <2>4, Sizes
    <3>2. x = Pos(q + 1, BODY) + Len(w.in)
      BY <2>3, <3>1
    <3> QED
      BY <2>3, <2>4, <3>1, <3>2, NoPart DEF ServeAt
  <2>6. q + 1 \in Nat \ {0} /\ w.want \in Nat
    BY <2>4, Sizes
  <2> QED
    BY <1>3, <2>4, <2>5, <2>6, ServerAtIs, ServerRuns
<1>4. CASE p[2] = "sink"
  BY <1>4, ServerOut
<1>5. CASE p[2] = "source"
  <2>1. SourceAt(v, y)
    BY <1>5, ServerAtIs
  <2>2. w.st = "ended"
    BY <1>5, <2>1, SourceAdvance DEF SourceAt
  <2> QED
    BY <1>5, <2>2 DEF ServerOK, EchoServers
<1> QED
  BY <1>2, <1>3, <1>4, <1>5, ServerAtIs

\* k bytes more are out.
LEMMA ServerWrote ==
  ASSUME NEW p \in Pairs, p = pair, NEW v, DOMAIN v = Fields, v.st = "run",
         NEW x \in Nat, NEW y \in Nat, ServerOK(p, v, x, y), NEW k \in 1 .. Len(v.out), v.out # <<>>
  PROVE  /\ ServerOK(p, Emitted(v, "server", k), x, y + k)
         /\ LET first == SubSeq(v.out, 1, k) IN Part(first, DownBody(p), y) /\ Len(first) = k
<1> DEFINE rest == SubSeq(v.out, k + 1, Len(v.out))
           first == SubSeq(v.out, 1, k)
           w == Emitted(v, "server", k)
<1>1. ServerAt(p, v, x, y) /\ Part(v.out, DownBody(p), y)
  BY ServerRuns, ServerOut
<1>2. Len(v.out) \in Nat /\ k \in Nat /\ k \in 0 .. Len(v.out) /\ y + k \in Nat /\ DownBody(p) \in Nat
  <2>1. v.out \in Seq(Octets(DownBody(p)))
    BY <1>1 DEF Part
  <2>2. Len(v.out) \in Nat
    BY <2>1
  <2>3. DownBody(p) \in Nat
    BY Sizes DEF DownBody
  <2> QED
    BY <2>2, <2>3
<1>3. /\ Part(rest, DownBody(p), y + k) /\ Len(rest) = Len(v.out) - k
      /\ rest = <<>> <=> k = Len(v.out)
      /\ Part(first, DownBody(p), y) /\ Len(first) = k
  BY <1>1, <1>2, PartSplit
<1>4. w = IF rest = <<>> \/ Program("server")[v.pc][1] = "write_some"
          THEN Advance(v, "server") ELSE [v EXCEPT !.out = rest]
  BY DEF Emitted
<1> HIDE DEF rest, first, w
<1>5. Program("server")[v.pc][1] # "write_some"
  <2>1. CASE p[2] \in EchoServers
    BY <1>1, <2>1, ServerOut, ServerCalls
  <2>2. CASE p[2] = "frames"
    BY <1>1, <2>2, ServerOut, ServerCalls
  <2>3. CASE p[2] = "source"
    BY <1>1, <2>3, ServerAtIs, ServerCalls DEF SourceAt
  <2> QED
    BY <1>1, <2>1, <2>2, <2>3, ServerAtIs, ServerOut
<1>6. ASSUME rest # <<>> PROVE ServerOK(p, w, x, y + k)
  <2>1. /\ w.st = "run" /\ w.out = rest /\ w.pc = v.pc /\ w.round = v.round /\ w.in = v.in
        /\ w.want = v.want
    BY <1>5, <1>6, <1>4 DEF Fields
  <2>2. (y + k) + Len(w.out) = y + Len(v.out)
    <3>1. \A i, j \in Nat : (i + k) + (j - k) = i + j
      BY <1>2
    <3>2. Len(w.out) = Len(v.out) - k
      BY <1>3, <2>1
    <3> QED
      BY <1>2, <3>1, <3>2
  <2>3. ServerAt(p, w, x, y + k)
    BY <1>1, <1>3, <2>1, <2>2, ServerWritesOn
  <2> QED
    BY <2>1, <2>3, ServerRuns
<1>7. ASSUME rest = <<>> PROVE ServerOK(p, w, x, y + k)
  <2>1. w = Advance(v, "server") /\ y + k = y + Len(v.out)
    BY <1>3, <1>7, <1>4
  <2> QED
    BY <1>1, <1>2, <2>1, ServerWroteMessage
<1>8. ServerOK(p, w, x, y + k) /\ Part(first, DownBody(p), y) /\ Len(first) = k
  BY <1>3, <1>6, <1>7
<1> QED
  BY <1>8 DEF first, w

\* A session that reads is at a read.
LEMMA ServerReading ==
  ASSUME NEW p \in Pairs, p = pair, NEW v, NEW x, NEW y, ServerAt(p, v, x, y), v.want # 0
  PROVE  /\ p[2] # "source"
         /\ p[2] \in EchoServers \cup {"sink"} =>
              v.pc = 1 /\ Program("server")[v.pc][1] = "read_some"
         /\ p[2] = "frames" => v.pc \in {1, 2} /\ Program("server")[v.pc][1] # "read_some"
<1>1. p[2] \in EchoServers => v.pc = 1 /\ Program("server")[v.pc][1] = "read_some"
  BY ServerAtIs, ServerCalls DEF EchoAt
<1>2. p[2] = "frames" => v.pc \in {1, 2} /\ Program("server")[v.pc][1] # "read_some"
  <2> SUFFICES ASSUME p[2] = "frames"
               PROVE  v.pc \in {1, 2} /\ Program("server")[v.pc][1] # "read_some"
    OBVIOUS
  <2>1. v.pc \in {1, 2}
    BY ServerAtIs DEF ServeAt
  <2> QED
    BY <2>1, ServerCalls
<1>3. p[2] = "sink" => v.pc = 1 /\ Program("server")[v.pc][1] = "read_some"
  BY ServerAtIs, ServerCalls DEF SinkAt
<1>4. p[2] # "source"
  BY ServerAtIs DEF SourceAt
<1> QED
  BY <1>1, <1>2, <1>3, <1>4

\* An echo server writes what it has read.
LEMMA EchoRead ==
  ASSUME NEW p \in Pairs, p = pair, p[2] \in EchoServers, NEW v, v.want # 0,
         NEW x \in Nat, NEW y \in Nat, ServerAt(p, v, x, y),
         NEW q, Part(q, BODY, x), NEW k \in Nat, k = Len(q),
         NEW m, DOMAIN m = Fields, m.st = "run", m.pc = v.pc, m.in = v.in \o q,
         NEW w, w = Advance(m, "server")
  PROVE  ServerOK(p, w, x + k, y)
<1>1. EchoAt(v, x, y) /\ v.pc = 1
  BY ServerAtIs, ServerReading
<1>2. v.out = <<>> /\ v.in = <<>> /\ y + Len(v.out) = x
  BY <1>1 DEF EchoAt
<1>3. y = x /\ q \in Seq(Octets(BODY))
  BY <1>2 DEF Part
<1>4. m.in = q
  BY <1>2, <1>3, ConcatEmptySeq
<1>5. w.st = "run" /\ w.pc = 2 /\ w.in = q /\ w.out = q /\ w.want = 0
  BY <1>1, <1>4, EchoAdvance
<1>6. y + Len(w.out) = x + k
  BY <1>3, <1>5
<1>7. EchoAt(w, x + k, y)
  BY <1>3, <1>5, <1>6 DEF EchoAt
<1>8. ServerAt(p, w, x + k, y)
  BY <1>5, <1>7, ServerAtIs
<1> QED
  BY <1>5, <1>8, ServerRuns

\* The servers with frames collect a head, and then the body it announces.
LEMMA ServeReadsOn ==
  ASSUME NEW v, NEW r \in Nat \ {0}, NEW x \in Nat, NEW y \in Nat, ServeAt(v, r, x, y),
         v.want \in Nat, v.want # 0, NEW q, Part(q, BODY, x), NEW k \in Nat, k = Len(q), k <= v.want,
         NEW m, m.pc = v.pc, m.in = v.in \o q, m.want = v.want - k, m.out = v.out
  PROVE  ServeAt(m, r, x + k, y) /\ m.want \in Nat
<1>1. v.pc \in {1, 2}
  BY DEF ServeAt
<1> DEFINE from == IF v.pc = 1 THEN Pos(r, BODY) ELSE Pos(r, BODY) + HEAD
           size == IF v.pc = 1 THEN HEAD ELSE BODY
<1>2. from \in Nat /\ size \in Nat /\ Pos(r, BODY) \in Nat
  <2>1. Pos(r, BODY) \in Nat
    BY PosFacts, Sizes
  <2> QED
    BY <2>1, Sizes
<1>3. /\ v.out = <<>> /\ y = Pos(r, BODY + 1) /\ Part(v.in, BODY, from)
      /\ x = from + Len(v.in) /\ Len(v.in) + v.want = size
  BY <1>1 DEF ServeAt
<1> HIDE DEF from, size
<1>4. Len(v.in) \in Nat
  <2>1. v.in \in Seq(Octets(BODY))
    BY <1>3 DEF Part
  <2> QED
    BY <2>1
<1>5. Part(m.in, BODY, from) /\ Len(m.in) = Len(v.in) + k
  BY <1>2, <1>3, PartConcat, Sizes
<1>6. m.want \in Nat
  <2>1. \A i \in Nat : k <= i => i - k \in Nat
    OBVIOUS
  <2> QED
    BY <2>1
<1>7. Len(m.in) + m.want = size
  <2>1. \A i, w, i2, w2 : i \in Nat /\ w \in Nat /\ i2 = i + k /\ w2 = w - k => i2 + w2 = i + w
    OBVIOUS
  <2> DEFINE i == Len(v.in)
             i2 == Len(m.in)
             w == v.want
             w2 == m.want
  <2>2. i \in Nat /\ w \in Nat /\ i2 = i + k /\ w2 = w - k
    BY <1>4, <1>5
  <2>3. i2 + w2 = i + w
    <3> HIDE DEF i, i2, w, w2
    <3> QED
      BY <2>1, <2>2
  <2>4. Len(m.in) + m.want = Len(v.in) + v.want
    BY <2>3
  <2> QED
    BY <1>3, <2>4
<1>8. x + k = from + Len(m.in)
  <2>1. \A i, j \in Nat : (i + j) + k = i + (j + k)
    OBVIOUS
  <2> QED
    BY <1>2, <1>3, <1>4, <1>5, <2>1
<1>9. m.out = <<>>
  BY <1>3
<1>10. CASE v.pc = 1
  BY <1>3, <1>5, <1>7, <1>8, <1>9, <1>10 DEF ServeAt, from, size
<1>11. CASE v.pc = 2
  <2>1. from = Pos(r, BODY) + HEAD /\ size = BODY
    BY <1>11 DEF from, size
  <2>2. /\ m.pc = 2 /\ m.out = <<>> /\ y = Pos(r, BODY + 1)
        /\ Part(m.in, BODY, Pos(r, BODY) + HEAD) /\ x + k = Pos(r, BODY) + HEAD + Len(m.in)
        /\ Len(m.in) + m.want = BODY
    BY <1>3, <1>5, <1>7, <1>8, <1>9, <1>11, <2>1
  <2> QED
    BY <1>6, <2>2 DEF ServeAt
<1> QED
  BY <1>1, <1>6, <1>10, <1>11

\* A session with frames has read its head, or its body.
LEMMA ServeReadLast ==
  ASSUME NEW p \in Pairs, p = pair, p[2] = "frames",
         NEW m, DOMAIN m = Fields, m.st = "run", m.want = 0, m.pc \in {1, 2},
         NEW r \in Nat \ {0}, NEW x \in Nat, NEW y \in Nat, ServeAt(m, r, x, y),
         NEW w, w = Advance(m, "server")
  PROVE  ServerOK(p, w, x, y)
<1>1. <<>> \in Seq(Octets(BODY)) /\ Len(<<>>) = 0
  BY EmptySeq
<1>2. CASE m.pc = 1
  <2>1. /\ y = Pos(r, BODY + 1) /\ Part(m.in, BODY, Pos(r, BODY)) /\ x = Pos(r, BODY) + Len(m.in)
        /\ Len(m.in) + m.want = HEAD
    BY <1>2 DEF ServeAt
  <2>2. m.in \in Seq(Octets(BODY)) /\ Len(m.in) \in Nat
    <3>1. m.in \in Seq(Octets(BODY))
      BY <2>1 DEF Part
    <3> QED
      BY <3>1
  <2>3. Len(m.in) = HEAD
    BY <2>1, <2>2
  <2>4. m.in[HEAD].n = BODY
    <3>1. m.in[HEAD] \in Octets(BODY)
      BY <2>2, <2>3, Sizes
    <3> QED
      BY <3>1 DEF Octets
  <2>5. w.st = "run" /\ w.pc = 2 /\ w.in = <<>> /\ w.out = <<>> /\ w.want = BODY
    BY <1>2, <2>4, ServeAdvance
  <2>6. x = Pos(r, BODY) + HEAD + Len(w.in) /\ Len(w.in) + w.want = BODY /\ w.want \in Nat
    <3>1. Len(w.in) = 0 /\ w.want = BODY
      BY <1>1, <2>5
    <3>2. x = Pos(r, BODY) + HEAD /\ Pos(r, BODY) \in Nat
      BY <2>1, <2>3, PosFacts, Sizes
    <3> QED
      BY <3>1, <3>2, Sizes
  <2>7. ServeAt(w, r, x, y)
    BY <2>1, <2>5, <2>6, NoPart DEF ServeAt
  <2> QED
    BY <2>5, <2>6, <2>7, ServerAtIs, ServerRuns
<1>3. CASE m.pc = 2
  <2>1. /\ y = Pos(r, BODY + 1) /\ Part(m.in, BODY, Pos(r, BODY) + HEAD)
        /\ x = Pos(r, BODY) + HEAD + Len(m.in) /\ Len(m.in) + m.want = BODY
    BY <1>3 DEF ServeAt
  <2>2. m.in \in Seq(Octets(BODY)) /\ Len(m.in) \in Nat
    <3>1. m.in \in Seq(Octets(BODY))
      BY <2>1 DEF Part
    <3> QED
      BY <3>1
  <2>3. Len(m.in) = BODY
    BY <2>1, <2>2
  <2>4. m.in[1].r = r
    <3>1. m.in[1] = Octet(BODY, (Pos(r, BODY) + HEAD) + 1)
      BY <2>1, <2>3, Sizes DEF Part
    <3>2. (Pos(r, BODY) + HEAD) + 1 = Pos(r, BODY) + (HEAD + 1) /\ HEAD + 1 \in 1 .. HEAD + BODY
      BY PosFacts, Sizes
    <3>3. Octet(BODY, Pos(r, BODY) + (HEAD + 1)) = [r |-> r, i |-> HEAD + 1, n |-> BODY]
      BY <3>2, OctetAt, Sizes
    <3> QED
      BY <3>1, <3>2, <3>3
  <2>5. w.st = "run" /\ w.pc = 3 /\ w.want = 0 /\ w.out = Bytes(r, BODY + 1)
    BY <1>3, <2>4, ServeAdvance
  <2>6. Part(w.out, BODY + 1, y) /\ Len(w.out) = HEAD + (BODY + 1)
    <3>1. BODY + 1 \in Nat
      BY Sizes
    <3>2. /\ Part(Bytes(r, BODY + 1), BODY + 1, Pos(r, BODY + 1))
          /\ Len(Bytes(r, BODY + 1)) = HEAD + (BODY + 1)
      BY <3>1, BytesPart
    <3> QED
      BY <2>1, <2>5, <3>2
  <2>7. /\ Pos(r + 1, BODY) = Pos(r, BODY) + HEAD + BODY
        /\ Pos(r + 1, BODY + 1) = Pos(r, BODY + 1) + HEAD + (BODY + 1)
        /\ Pos(r, BODY + 1) \in Nat
    <3>1. BODY \in Nat /\ BODY + 1 \in Nat
      BY Sizes
    <3> QED
      BY <3>1, PosFacts
  <2>8. x = Pos(r + 1, BODY)
    BY <2>1, <2>3, <2>7
  <2>9. y + Len(w.out) = Pos(r + 1, BODY + 1)
    BY <2>1, <2>6, <2>7, Sizes
  <2>10. ServeAt(w, r, x, y)
    BY <2>5, <2>6, <2>8, <2>9 DEF ServeAt
  <2> QED
    BY <2>5, <2>10, ServerAtIs, ServerRuns
<1> QED
  BY <1>2, <1>3

\* k bytes more are in.
LEMMA ServerReadFields ==
  ASSUME NEW p \in Pairs, p = pair, NEW v, v.want # 0,
         NEW x \in Nat, NEW y \in Nat, ServerAt(p, v, x, y),
         NEW q, Part(q, BODY, x), NEW k \in Nat, k = Len(q), k <= v.want,
         NEW m, DOMAIN m = Fields, m.st = "run", m.pc = v.pc, m.out = v.out,
         m.want = v.want - k, m.in = v.in \o q,
         NEW w, IF m.want = 0 \/ Program("server")[v.pc][1] = "read_some"
                THEN w = Advance(m, "server") ELSE w = m
  PROVE  ServerOK(p, w, x + k, y)
<1>1. v.want \in Nat /\ x + k \in Nat
  BY DEF ServerAt
<1>2. CASE p[2] \in EchoServers
  <2>1. w = Advance(m, "server")
    BY <1>2, ServerReading
  <2> QED
    BY <1>2, <2>1, EchoRead
<1>3. CASE p[2] = "frames"
  <2>1. PICK r \in Nat \ {0} : ServeAt(v, r, x, y)
    BY <1>3, ServerAtIs
  <2>2. ServeAt(m, r, x + k, y) /\ m.want \in Nat
    BY <1>1, <2>1, ServeReadsOn
  <2>3. v.pc \in {1, 2} /\ Program("server")[v.pc][1] # "read_some"
    BY <1>3, ServerReading
  <2>4. CASE m.want # 0
    <3>1. w = m
      BY <2>3, <2>4
    <3>2. ServerAt(p, m, x + k, y)
      BY <1>3, <2>2, ServerAtIs
    <3> QED
      BY <3>1, <3>2, ServerRuns
  <2>5. CASE m.want = 0
    <3>1. w = Advance(m, "server")
      BY <2>5
    <3> QED
      BY <1>1, <1>3, <2>2, <2>3, <2>5, <3>1, ServeReadLast
  <2> QED
    BY <2>4, <2>5
<1>4. CASE p[2] = "sink"
  <2>1. SinkAt(v, y) /\ v.pc = 1 /\ w = Advance(m, "server")
    BY <1>4, ServerAtIs, ServerReading
  <2>2. w.st = "run" /\ w.pc = 1 /\ w.in = <<>> /\ w.out = <<>> /\ w.want = CHUNK
    BY <1>4, <2>1, SinkAdvance
  <2>3. SinkAt(w, y)
    BY <2>1, <2>2, EmptySeq DEF SinkAt
  <2>4. ServerAt(p, w, x + k, y)
    BY <1>4, <2>2, <2>3, ServerAtIs, Sizes
  <2> QED
    BY <2>2, <2>4, ServerRuns
<1> QED
  BY <1>2, <1>3, <1>4, ServerAtIs, ServerReading

\* What a session reads leaves it where its program says.
LEMMA ServerRead ==
  ASSUME NEW p \in Pairs, p = pair, NEW v, DOMAIN v = Fields, v.st = "run",
         NEW x \in Nat, NEW y \in Nat, ServerOK(p, v, x, y), v.want # 0,
         NEW q, Part(q, BODY, x), Len(q) \in 1 .. v.want
  PROVE  ServerOK(p, Taken(v, "server", q), x + Len(q), y)
<1> DEFINE k == Len(q)
           m == [v EXCEPT !.in = @ \o q, !.want = @ - Len(q)]
           w == Taken(v, "server", q)
<1>1. ServerAt(p, v, x, y) /\ v.want \in Nat
  BY ServerRuns DEF ServerAt
<1>2. k \in Nat /\ k <= v.want
  <2>1. q \in Seq(Octets(BODY))
    BY DEF Part
  <2> QED
    BY <1>1, <2>1
<1>3. /\ m.st = "run" /\ m.pc = v.pc /\ m.out = v.out
      /\ m.want = v.want - k /\ m.in = v.in \o q /\ DOMAIN m = Fields
  BY DEF Fields
<1>4. k = Len(q)
  OBVIOUS
<1>5. IF m.want = 0 \/ Program("server")[v.pc][1] = "read_some"
      THEN w = Advance(m, "server") ELSE w = m
  BY DEF Taken
<1> HIDE DEF k, m, w
<1>6. ServerOK(p, w, x + k, y)
  BY <1>1, <1>2, <1>3, <1>4, <1>5, ServerReadFields
<1> QED
  BY <1>6 DEF k, w

-----------------------------------------------------------------------------
(* How the threads begin.                                                  *)

\* A thread that was not started.
LEMMA IdleIs ==
  /\ DOMAIN Idle = Fields /\ Idle.st = "none" /\ Idle.out = <<>> /\ Idle.in = <<>>
  /\ Idle.want = 0 /\ ~Idle.failed
  BY DEF Idle, Fields

\* A client begins with nothing written and nothing heard.
LEMMA ClientStarts ==
  ASSUME NEW p \in Pairs, p = pair, p[2] # "resolver"
  PROVE  ClientOK(p, Starts("client"), 0, 0)
<1> DEFINE a == Starts("client")
           prog == Program("client")
<1>1. /\ <<>> \in Seq(Octets(DownBody(p))) /\ Len(<<>>) = 0
      /\ Part(Bytes(1, BODY), BODY, 0) /\ Len(Bytes(1, BODY)) = HEAD + BODY
      /\ Part(<<>>, BODY, 0) /\ HEAD + BODY \in Nat
  <2>1. Pos(1, BODY) = 0 /\ Part(Bytes(1, BODY), BODY, Pos(1, BODY)) /\ Len(Bytes(1, BODY)) = HEAD + BODY
    <3>1. 1 \in Nat \ {0} /\ BODY \in Nat
      BY Sizes
    <3> QED
      BY <3>1, PosFacts, BytesPart
  <2> QED
    BY <2>1, Sizes, NoPart, EmptySeq
<1>2. CASE p[1] \in {"CoroutineTestClient", "SyncClinet"} \cup LoadClients \cup Writers
  <2>1. prog # <<>> /\ prog[1][1] \in {"write", "write_some"} /\ prog[1][2] = "frame"
    BY <1>2, ClientCalls DEF Writers
  <2>2. a = At(Idle, prog, 1, 1)
    BY <2>1 DEF Starts
  <2> HIDE DEF a, prog
  <2>3. /\ a.st = "run" /\ a.pc = 1 /\ a.round = 1 /\ ~a.failed /\ a.want = 0 /\ a.in = <<>>
        /\ a.out = Bytes(1, BODY)
    BY <2>1, <2>2, IdleIs, AtCall
  <2>4. 0 + Len(a.out) = HEAD + BODY /\ 1 \in 1 .. Rounds
    BY <1>1, <2>3, Sizes
  <2>5. /\ Pos(1, BODY + 1) = 0 /\ Pos(1 + 1, BODY) = HEAD + BODY
    <3>1. BODY + 1 \in Nat /\ BODY \in Nat /\ 1 \in Nat \ {0}
      BY Sizes
    <3>2. Pos(1, BODY + 1) = 0 /\ Pos(1, BODY) = 0 /\ Pos(1 + 1, BODY) = Pos(1, BODY) + HEAD + BODY
      BY <3>1, PosFacts
    <3> QED
      BY <3>2, Sizes
  <2>6. TestClientAt(a, 0, 0) /\ WriterAt(a, 0, 0)
    BY <2>3, <2>4 DEF TestClientAt, WriterAt
  <2>7. SyncClinetAt(a, 0) /\ LoadClientAt(a, 0, 0)
    BY <2>3, <2>4, <2>5 DEF SyncClinetAt, LoadClientAt
  <2>8. ClientAt(p, a, 0, 0)
    BY <1>2, <2>6, <2>7, ClientAtIs
  <2>9. a.want \in Nat /\ Part(a.out, BODY, 0) /\ a.in \in Seq(Octets(DownBody(p)))
    BY <1>1, <2>3
  <2>10. ClientOK(p, a, 0, 0)
    BY <2>3, <2>8, <2>9, ClientRuns
  <2> QED
    BY <2>10 DEF a
<1>3. CASE p[1] \in Readers
  <2>1. prog # <<>> /\ prog[1][1] \in {"read", "read_some"} /\ prog[1][2] = "frame"
    BY <1>3, ClientCalls DEF Readers
  <2>2. a = At(Idle, prog, 1, 1)
    BY <2>1 DEF Starts
  <2> HIDE DEF a, prog
  <2>3. /\ a.st = "run" /\ a.pc = 1 /\ a.round = 1 /\ ~a.failed /\ a.want = HEAD + BODY
        /\ a.in = <<>> /\ a.out = <<>>
    BY <2>1, <2>2, IdleIs, AtCall
  <2>4. 0 + a.want = HEAD + BODY
    BY <1>1, <2>3
  <2>5. ReaderAt(p, a, 0)
    BY <2>3, <2>4 DEF ReaderAt
  <2>6. ClientAt(p, a, 0, 0)
    BY <1>3, <2>5, ClientAtIs
  <2>7. a.want \in Nat /\ Part(a.out, BODY, 0) /\ a.in \in Seq(Octets(DownBody(p)))
    BY <1>1, <2>3
  <2>8. ClientOK(p, a, 0, 0)
    BY <2>3, <2>6, <2>7, ClientRuns
  <2> QED
    BY <2>8 DEF a
<1>4. CASE p[1] \in Connectors
  <2>1. p[1] = "connect_to_end"
    BY <1>4, Meant, Kinds DEF Connectors, EchoClients, LoadClients, Writers, Readers, EchoServers
  <2>2. a = Ends(Idle, FALSE)
    BY <2>1, ClientCalls DEF Starts
  <2>3. a.st = "ended"
    BY <2>2, IdleIs DEF Ends, Fields
  <2>4. Finished(p, 0, 0)
    BY <1>4, <2>1, Kinds, Totals DEF Finished
  <2> QED
    BY <2>3, <2>4, ClientEnded
<1> QED
  BY <1>2, <1>3, <1>4, Kinds

\* So does the receiver,
LEMMA ReceiverStarts ==
  ASSUME NEW p, p[1] = "SyncClinet"
  PROVE  ReceiverOK(p, Starts("receiver")) /\ Starts("receiver").st # "none"
<1> DEFINE b == Starts("receiver")
           prog == Program("receiver")
<1>1. prog # <<>> /\ prog[1] = <<"read", "head">>
  BY ReceiverCalls
<1>2. b = At(Idle, prog, 1, 1)
  BY <1>1 DEF Starts
<1> HIDE DEF b, prog
<1>3. b.st = "run" /\ b.pc = 1 /\ b.want = HEAD /\ b.in = <<>> /\ b.out = <<>>
  BY <1>1, <1>2, IdleIs, AtCall
<1>4. <<>> \in Seq(Octets(BODY)) /\ Len(<<>>) = 0
  BY EmptySeq
<1>5. Len(b.in) + b.want = HEAD
  BY <1>3, <1>4, Sizes
<1>6. ReceiverOK(p, b) /\ b.st # "none"
  BY <1>3, <1>4, <1>5, Sizes DEF ReceiverOK
<1> QED
  BY <1>6 DEF b

\* and a session that was just accepted.
LEMMA ServerStarts ==
  ASSUME NEW p \in Pairs, p = pair, p[2] \notin {"resolver", "accpet_new_connection"}
  PROVE  ServerOK(p, Starts("server"), 0, 0)
<1> DEFINE v == Starts("server")
           prog == Program("server")
<1>1. p[2] \in EchoServers \cup {"frames", "sink", "source"}
  BY Meant
<1>2. prog # <<>>
  BY <1>1, ServerCalls
<1>3. v = At(Idle, prog, 1, 1)
  BY <1>2 DEF Starts
<1>4. <<>> \in Seq(Octets(BODY)) /\ Len(<<>>) = 0 /\ Part(<<>>, BODY, 0)
  BY NoPart, EmptySeq
<1>5. CASE p[2] \in EchoServers \cup {"sink"}
  <2>1. prog[1] = <<"read_some", "chunk">>
    BY <1>5, ServerCalls
  <2> HIDE DEF v, prog
  <2>2. v.st = "run" /\ v.pc = 1 /\ v.want = CHUNK /\ v.in = <<>> /\ v.out = <<>>
    BY <1>3, <2>1, IdleIs, AtCall
  <2>3. EchoAt(v, 0, 0) /\ SinkAt(v, 0)
    <3>1. 0 + Len(v.out) = 0
      BY <1>4, <2>2
    <3> QED
      BY <1>4, <2>2, <3>1 DEF EchoAt, SinkAt
  <2>4. ServerAt(p, v, 0, 0)
    BY <1>5, <2>2, <2>3, ServerAtIs, Sizes
  <2>5. ServerOK(p, v, 0, 0)
    BY <2>2, <2>4, ServerRuns
  <2> QED
    BY <2>5 DEF v
<1>6. CASE p[2] = "frames"
  <2>1. prog[1] = <<"read", "head">>
    BY <1>6, ServerCalls
  <2> HIDE DEF v, prog
  <2>2. v.st = "run" /\ v.pc = 1 /\ v.want = HEAD /\ v.in = <<>> /\ v.out = <<>>
    BY <1>3, <2>1, IdleIs, AtCall
  <2>3. Pos(1, BODY) = 0 /\ Pos(1, BODY + 1) = 0
    <3>1. BODY \in Nat /\ BODY + 1 \in Nat /\ 1 \in Nat \ {0}
      BY Sizes
    <3> QED
      BY <3>1, PosFacts
  <2>4. Len(v.in) + v.want = HEAD /\ 0 = Pos(1, BODY) + Len(v.in)
    BY <1>4, <2>2, <2>3, Sizes
  <2>5. ServeAt(v, 1, 0, 0)
    BY <1>4, <2>2, <2>3, <2>4 DEF ServeAt
  <2>6. ServerAt(p, v, 0, 0)
    <3>1. 1 \in Nat \ {0} /\ v.want \in Nat
      BY <2>2, Sizes
    <3> QED
      BY <1>6, <2>5, <3>1, ServerAtIs
  <2>7. ServerOK(p, v, 0, 0)
    BY <2>2, <2>6, ServerRuns
  <2> QED
    BY <2>7 DEF v
<1>7. CASE p[2] = "source"
  <2>1. prog[1] = <<"write", "frame">>
    BY <1>7, ServerCalls
  <2> HIDE DEF v, prog
  <2>2. /\ v.st = "run" /\ v.pc = 1 /\ v.round = 1 /\ v.want = 0 /\ v.in = <<>>
        /\ v.out = Bytes(1, BODY)
    BY <1>3, <2>1, IdleIs, AtCall
  <2>3. Pos(1, BODY) = 0 /\ Part(v.out, BODY, Pos(1, BODY)) /\ Len(v.out) = HEAD + BODY
    BY <2>2, Sizes, PosFacts, BytesPart
  <2>4. 0 + Len(v.out) = HEAD + BODY
    BY <2>3, Sizes
  <2>5. SourceAt(v, 0)
    BY <2>2, <2>3, <2>4 DEF SourceAt
  <2>6. ServerAt(p, v, 0, 0)
    BY <1>7, <2>2, <2>5, ServerAtIs
  <2>7. ServerOK(p, v, 0, 0)
    BY <2>2, <2>6, ServerRuns
  <2> QED
    BY <2>7 DEF v
<1> QED
  BY <1>1, <1>5, <1>6, <1>7

-----------------------------------------------------------------------------
(* A connection, step by step.                                             *)

\* What Flow says in numbers.
LEMMA FlowFacts ==
  ASSUME NEW p, NEW v, NEW l, NEW s \in Nat, NEW n \in Nat, Flow(p, v, l, s, n)
  PROVE  /\ DownBody(p) \in Nat /\ Len(l.up) \in Nat /\ Len(l.down) \in Nat
         /\ s - Len(l.up) \in Nat /\ n + Len(l.down) \in Nat
         /\ (s - Len(l.up)) + Len(l.up) = s
<1>1. l.up \in Seq(Octets(BODY)) /\ l.down \in Seq(Octets(DownBody(p))) /\ Len(l.up) <= s
  BY DEF Flow, Part
<1>2. Len(l.up) \in Nat /\ Len(l.down) \in Nat
  BY <1>1
<1>3. \A i \in Nat : i <= s => s - i \in Nat /\ (s - i) + i = s
  OBVIOUS
<1>4. DownBody(p) \in Nat
  BY Sizes DEF DownBody
<1> QED
  BY <1>1, <1>2, <1>3, <1>4

\* k bytes go up behind those on the way.
LEMMA FlowSent ==
  ASSUME NEW p, NEW v, NEW l, NEW s \in Nat, NEW n \in Nat, Flow(p, v, l, s, n),
         NEW first, NEW k \in Nat, Part(first, BODY, s), Len(first) = k,
         NEW l2, l2.up = l.up \o first, l2.down = l.down
  PROVE  Flow(p, v, l2, s + k, n)
<1> DEFINE from == s - Len(l.up)
           u == Len(l.up)
<1>1. from \in Nat /\ u \in Nat /\ from + u = s
  BY FlowFacts
<1>2. Part(l.up, BODY, from) /\ u <= s /\ ServerOK(p, v, from, n + Len(l.down))
      /\ Part(l.down, DownBody(p), n)
  BY DEF Flow
<1>3. u = Len(l.up) /\ from = s - u
  OBVIOUS
<1> HIDE DEF from, u
<1>4. Part(l2.up, BODY, from) /\ Len(l2.up) = u + k
  <2>1. BODY \in Nat /\ Part(first, BODY, from + Len(l.up))
    BY <1>1, <1>3, Sizes
  <2> QED
    BY <1>1, <1>2, <1>3, <2>1, PartConcat
<1>5. (s + k) - (u + k) = from /\ u + k <= s + k
  BY <1>1, <1>2
<1> QED
  BY <1>2, <1>4, <1>5 DEF Flow

\* k bytes go down.
LEMMA FlowWritten ==
  ASSUME NEW p, NEW v, NEW l, NEW s \in Nat, NEW n \in Nat, Flow(p, v, l, s, n),
         NEW first, NEW k \in Nat, Part(first, DownBody(p), n + Len(l.down)), Len(first) = k,
         NEW w, ServerOK(p, w, s - Len(l.up), (n + Len(l.down)) + k),
         NEW l2, l2.up = l.up, l2.down = l.down \o first
  PROVE  Flow(p, w, l2, s, n)
<1> DEFINE d == Len(l.down)
<1>1. d \in Nat /\ DownBody(p) \in Nat
  BY FlowFacts
<1>2. Part(l.up, BODY, s - Len(l.up)) /\ Len(l.up) <= s /\ Part(l.down, DownBody(p), n)
  BY DEF Flow
<1>3. d = Len(l.down)
  OBVIOUS
<1> HIDE DEF d
<1>4. Part(l2.down, DownBody(p), n) /\ Len(l2.down) = d + k
  BY <1>1, <1>2, <1>3, PartConcat
<1>5. n + (d + k) = (n + d) + k
  BY <1>1
<1>6. ServerOK(p, w, s - Len(l.up), n + Len(l2.down))
  BY <1>3, <1>4, <1>5
<1> QED
  BY <1>2, <1>4, <1>6 DEF Flow

\* The first k bytes are heard.
LEMMA FlowHeard ==
  ASSUME NEW p, NEW v, NEW l, NEW s \in Nat, NEW n \in Nat, Flow(p, v, l, s, n),
         NEW k \in 0 .. Len(l.down), NEW m, m = n + k,
         NEW l2, l2.up = l.up, Part(l2.down, DownBody(p), m), Len(l2.down) = Len(l.down) - k
  PROVE  Flow(p, v, l2, s, m)
<1> DEFINE d == Len(l.down)
<1>1. d \in Nat /\ k \in Nat
  BY FlowFacts
<1>2. /\ Part(l.up, BODY, s - Len(l.up)) /\ Len(l.up) <= s
      /\ ServerOK(p, v, s - Len(l.up), n + d) /\ Len(l2.down) = d - k
  BY DEF Flow
<1> HIDE DEF d
<1>3. (n + k) + (d - k) = n + d
  BY <1>1
<1>4. ServerOK(p, v, s - Len(l.up), m + Len(l2.down))
  BY <1>2, <1>3
<1> QED
  BY <1>2, <1>4 DEF Flow

\* The first k bytes are read by the session.
LEMMA FlowRead ==
  ASSUME NEW p, NEW v, NEW l, NEW s \in Nat, NEW n \in Nat, Flow(p, v, l, s, n),
         NEW k \in 0 .. Len(l.up),
         NEW w, ServerOK(p, w, (s - Len(l.up)) + k, n + Len(l.down)),
         NEW l2, l2.down = l.down, l2.up = SubSeq(l.up, k + 1, Len(l.up))
  PROVE  Flow(p, w, l2, s, n)
<1> DEFINE from == s - Len(l.up)
           u == Len(l.up)
<1>1. from \in Nat /\ u \in Nat /\ from + u = s /\ k \in Nat /\ k <= u /\ from = s - u
  BY FlowFacts
<1>2. Part(l.up, BODY, from) /\ u <= s /\ Part(l.down, DownBody(p), n)
  BY DEF Flow
<1>3. Part(l2.up, BODY, from + k) /\ Len(l2.up) = u - k
  <2>1. BODY \in Nat
    BY Sizes
  <2> HIDE DEF from
  <2>2. /\ Part(SubSeq(l.up, k + 1, Len(l.up)), BODY, from + k)
        /\ Len(SubSeq(l.up, k + 1, Len(l.up))) = Len(l.up) - k
    BY <1>1, <1>2, <2>1, PartSplit
  <2> QED
    BY <2>2
<1>4. ServerOK(p, w, from + k, n + Len(l.down))
  OBVIOUS
<1> HIDE DEF from, u
<1>5. s - (u - k) = from + k /\ u - k <= s
  BY <1>1, <1>2
<1> QED
  BY <1>2, <1>3, <1>4, <1>5 DEF Flow

\* What holds of a connection over which bytes move.
LEMMA Connected ==
  ASSUME NEW p, NEW t, NEW l, NEW s, NEW h, ConnectionOK(p, t, l, s, h), l.st \in {"pending", "up"}
  PROVE  /\ s \in Nat /\ Len(h) \in Nat /\ Part(h, DownBody(p), 0) /\ Len(h) <= Total(p)
         /\ p[1] = "SyncClinet" => Len(h) <= s
         /\ ClientOK(p, t.client, s, Len(h)) /\ ReceiverOK(p, t.receiver)
         /\ p[2] # "resolver" /\ t.client.st \notin {"none", "connecting"}
         /\ t.server.st # "none" => l.st = "up"
         /\ Flow(p, t.server, l, s, Len(h))
<1>1. Len(h) \in Nat
  <2>1. h \in Seq(Octets(DownBody(p)))
    BY DEF ConnectionOK, Part
  <2> QED
    BY <2>1
<1> QED
  BY <1>1 DEF ConnectionOK

\* The client writes.
LEMMA ClientWritesOK ==
  ASSUME NEW p \in Pairs, p = pair, NEW t, NEW l, NEW s, NEW h, ConnectionOK(p, t, l, s, h),
         l.st \in {"pending", "up"}, DOMAIN t.client = Fields, t.client.st = "run",
         NEW k \in 1 .. Len(t.client.out), Emitted(t.client, "client", k).st \in {"run", "ended"},
         NEW t2, t2.client = Emitted(t.client, "client", k), t2.receiver = t.receiver,
         t2.server = t.server,
         NEW l2, l2.st = l.st, l2.up = l.up \o SubSeq(t.client.out, 1, k), l2.down = l.down
  PROVE  ConnectionOK(p, t2, l2, s + k, h)
<1> DEFINE n == Len(h)
           first == SubSeq(t.client.out, 1, k)
           x == Emitted(t.client, "client", k)
<1>1. /\ s \in Nat /\ n \in Nat /\ Part(h, DownBody(p), 0) /\ n <= Total(p)
      /\ p[1] = "SyncClinet" => n <= s
      /\ ClientOK(p, t.client, s, n) /\ ReceiverOK(p, t.receiver)
      /\ p[2] # "resolver" /\ (t.server.st # "none" => l.st = "up")
      /\ Flow(p, t.server, l, s, n)
  BY Connected
<1>2. k \in Nat
  <2>1. t.client.out \in Seq(Octets(BODY))
    BY <1>1, ClientRuns DEF Part
  <2> QED
    BY <2>1
<1> HIDE DEF n
<1>3. ClientOK(p, x, s + k, n) /\ Part(first, BODY, s) /\ Len(first) = k
  BY <1>1, ClientWrote
<1> HIDE DEF first, x
<1>4. Flow(p, t.server, l2, s + k, n)
  <2>1. l2.up = l.up \o first
    BY DEF first
  <2> QED
    BY <1>1, <1>2, <1>3, <2>1, FlowSent
<1>5. p[1] = "SyncClinet" => n <= s + k
  BY <1>1, <1>2
<1>6. t2.client = x /\ x.st \in {"run", "ended"}
  BY DEF x
<1>7. s + k \in Nat /\ l2.st \in {"pending", "up"}
  BY <1>1, <1>2
<1>8. /\ ClientOK(p, t2.client, s + k, n) /\ ReceiverOK(p, t2.receiver)
      /\ t2.client.st \notin {"none", "connecting"} /\ (t2.server.st # "none" => l2.st = "up")
      /\ Flow(p, t2.server, l2, s + k, n)
  BY <1>1, <1>3, <1>4, <1>6
<1> QED
  BY <1>1, <1>5, <1>7, <1>8 DEF ConnectionOK, n

\* The session writes.
LEMMA ServerWritesOK ==
  ASSUME NEW p \in Pairs, p = pair, NEW t, NEW l, NEW s, NEW h, ConnectionOK(p, t, l, s, h),
         l.st \in {"pending", "up"}, DOMAIN t.server = Fields, t.server.st = "run",
         t.server.out # <<>>, NEW k \in 1 .. Len(t.server.out),
         NEW t2, t2.client = t.client, t2.receiver = t.receiver,
         t2.server = Emitted(t.server, "server", k),
         NEW l2, l2.st = l.st, l2.up = l.up, l2.down = l.down \o SubSeq(t.server.out, 1, k)
  PROVE  ConnectionOK(p, t2, l2, s, h)
<1> DEFINE n == Len(h)
           v == t.server
           first == SubSeq(v.out, 1, k)
           w == Emitted(v, "server", k)
           x == s - Len(l.up)
           y == n + Len(l.down)
<1>1. /\ s \in Nat /\ n \in Nat /\ Part(h, DownBody(p), 0) /\ n <= Total(p)
      /\ p[1] = "SyncClinet" => n <= s
      /\ ClientOK(p, t.client, s, n) /\ ReceiverOK(p, t.receiver)
      /\ p[2] # "resolver" /\ t.client.st \notin {"none", "connecting"} /\ l.st = "up"
      /\ Flow(p, v, l, s, n)
  BY Connected
<1>2. x \in Nat /\ y \in Nat /\ ServerOK(p, v, x, y)
  BY <1>1, FlowFacts DEF Flow
<1>3. k \in Nat
  <2>1. v.out \in Seq(Octets(DownBody(p)))
    BY <1>2, ServerRuns, ServerOut DEF Part
  <2> QED
    BY <2>1
<1>4. ServerOK(p, w, x, y + k) /\ Part(first, DownBody(p), y) /\ Len(first) = k
  <2> HIDE DEF x, y
  <2> QED
    BY <1>2, ServerWrote
<1> HIDE DEF first, w, n
<1>5. Flow(p, w, l2, s, n)
  <2>1. l2.down = l.down \o first
    BY DEF first
  <2> QED
    BY <1>1, <1>3, <1>4, <2>1, FlowWritten
<1>6. /\ ClientOK(p, t2.client, s, n) /\ ReceiverOK(p, t2.receiver) /\ l2.st \in {"pending", "up"}
      /\ t2.client.st \notin {"none", "connecting"} /\ (t2.server.st # "none" => l2.st = "up")
      /\ Flow(p, t2.server, l2, s, n)
  BY <1>1, <1>5 DEF w
<1> QED
  BY <1>1, <1>6 DEF ConnectionOK, n

\* The client reads.
LEMMA ClientReadsOK ==
  ASSUME NEW p \in Pairs, p = pair, NEW t, NEW l, NEW s, NEW h, ConnectionOK(p, t, l, s, h),
         l.st \in {"pending", "up"}, DOMAIN t.client = Fields, t.client.st = "run",
         t.client.want # 0, NEW k \in 1 .. Len(l.down), k <= t.client.want,
         NEW q, q = SubSeq(l.down, 1, k), Taken(t.client, "client", q).st \in {"run", "ended"},
         NEW t2, t2.client = Taken(t.client, "client", q), t2.receiver = t.receiver,
         t2.server = t.server,
         NEW l2, l2.st = l.st, l2.up = l.up, l2.down = SubSeq(l.down, k + 1, Len(l.down)),
         NEW h2, h2 = h \o q
  PROVE  ConnectionOK(p, t2, l2, s, h2)
<1> DEFINE n == Len(h)
           x == Taken(t.client, "client", q)
<1>1. /\ s \in Nat /\ n \in Nat /\ Part(h, DownBody(p), 0) /\ n <= Total(p)
      /\ ClientOK(p, t.client, s, n) /\ ReceiverOK(p, t.receiver)
      /\ p[2] # "resolver" /\ (t.server.st # "none" => l.st = "up")
      /\ Flow(p, t.server, l, s, n)
  BY Connected
<1>2. Len(l.down) \in Nat /\ k \in Nat /\ k \in 0 .. Len(l.down) /\ DownBody(p) \in Nat
  <2>1. Len(l.down) \in Nat /\ DownBody(p) \in Nat
    <3> HIDE DEF n
    <3> QED
      BY <1>1, FlowFacts
  <2> QED
    BY <2>1
<1>3. Flow(p, t.server, l2, s, n + k) /\ Part(q, DownBody(p), n) /\ Len(q) = k
  <2> HIDE DEF n
  <2>1. Part(l.down, DownBody(p), n)
    BY <1>1 DEF Flow
  <2>2. /\ Part(q, DownBody(p), n) /\ Len(q) = k
        /\ Part(l2.down, DownBody(p), n + k) /\ Len(l2.down) = Len(l.down) - k
    BY <1>1, <1>2, <2>1, PartSplit
  <2>3. \A m : m = n + k => Flow(p, t.server, l2, s, m)
    BY <1>1, <1>2, <2>2, FlowHeard
  <2> QED
    BY <2>2, <2>3
<1>4. q \in Seq(Octets(DownBody(p))) /\ Len(q) \in 1 .. t.client.want
  BY <1>2, <1>3 DEF Part
<1>5. ClientOK(p, x, s, n + k) /\ n + k <= Total(p)
  <2> HIDE DEF n
  <2>1. ClientOK(p, Taken(t.client, "client", q), s, n + Len(q)) /\ n + Len(q) <= Total(p)
    BY <1>1, <1>4, ClientRead
  <2> QED
    BY <1>3, <2>1
<1>6. Part(h2, DownBody(p), 0) /\ Len(h2) = n + k
  <2>1. 0 + Len(h) = n
    BY <1>1
  <2> QED
    BY <1>1, <1>2, <1>3, <2>1, PartConcat
<1>7. p[1] # "SyncClinet"
  <2>1. ClientAt(p, t.client, s, n)
    BY <1>1, ClientRuns
  <2> QED
    BY <2>1, ClientAtIs DEF SyncClinetAt
<1> HIDE DEF x, n
<1>8. t2.client = x /\ x.st \in {"run", "ended"}
  BY DEF x
<1>9. /\ ClientOK(p, t2.client, s, Len(h2)) /\ ReceiverOK(p, t2.receiver)
      /\ l2.st \in {"pending", "up"} /\ Len(h2) <= Total(p)
      /\ t2.client.st \notin {"none", "connecting"} /\ (t2.server.st # "none" => l2.st = "up")
      /\ Flow(p, t2.server, l2, s, Len(h2))
  BY <1>1, <1>3, <1>5, <1>6, <1>8
<1> QED
  BY <1>1, <1>6, <1>7, <1>9 DEF ConnectionOK

\* The receiver reads, while the client writes on: what it hears has been sent.
LEMMA ReceiverReadsOK ==
  ASSUME NEW p \in Pairs, p = pair, NEW t, NEW l, NEW s, NEW h, ConnectionOK(p, t, l, s, h),
         l.st \in {"pending", "up"}, DOMAIN t.receiver = Fields, t.receiver.st = "run",
         t.client.st \notin {"ended", "joined"},
         t.receiver.want # 0, NEW k \in 1 .. Len(l.down), k <= t.receiver.want,
         NEW q, q = SubSeq(l.down, 1, k),
         NEW t2, t2.client = t.client, t2.receiver = Taken(t.receiver, "receiver", q),
         t2.server = t.server,
         NEW l2, l2.st = l.st, l2.up = l.up, l2.down = SubSeq(l.down, k + 1, Len(l.down)),
         NEW h2, h2 = h \o q
  PROVE  ConnectionOK(p, t2, l2, s, h2)
<1> DEFINE n == Len(h)
           b == Taken(t.receiver, "receiver", q)
<1>1. /\ s \in Nat /\ n \in Nat /\ Part(h, DownBody(p), 0)
      /\ ClientOK(p, t.client, s, n) /\ ReceiverOK(p, t.receiver)
      /\ p[2] # "resolver" /\ t.client.st \notin {"none", "connecting"}
      /\ t.server.st # "none" => l.st = "up"
      /\ Flow(p, t.server, l, s, n)
  BY Connected
<1>2. /\ Len(l.down) \in Nat /\ k \in Nat /\ k \in 0 .. Len(l.down) /\ DownBody(p) \in Nat
      /\ Len(l.up) \in Nat /\ s - Len(l.up) \in Nat /\ (s - Len(l.up)) + Len(l.up) = s
  <2>1. /\ Len(l.down) \in Nat /\ DownBody(p) \in Nat
        /\ Len(l.up) \in Nat /\ s - Len(l.up) \in Nat /\ (s - Len(l.up)) + Len(l.up) = s
    <3> HIDE DEF n
    <3> QED
      BY <1>1, FlowFacts
  <2> QED
    BY <2>1
<1>3. Flow(p, t.server, l2, s, n + k) /\ Part(q, DownBody(p), n) /\ Len(q) = k
  <2> HIDE DEF n
  <2>1. Part(l.down, DownBody(p), n)
    BY <1>1 DEF Flow
  <2>2. /\ Part(q, DownBody(p), n) /\ Len(q) = k
        /\ Part(l2.down, DownBody(p), n + k) /\ Len(l2.down) = Len(l.down) - k
    BY <1>1, <1>2, <2>1, PartSplit
  <2>3. \A m : m = n + k => Flow(p, t.server, l2, s, m)
    BY <1>1, <1>2, <2>2, FlowHeard
  <2> QED
    BY <2>2, <2>3
<1>4. p[1] = "SyncClinet" /\ p[2] \in EchoServers /\ DownBody(p) = BODY
  <2>1. p[1] = "SyncClinet"
    BY <1>1, IdleIs DEF ReceiverOK
  <2> QED
    BY <2>1, Meant DEF DownBody, EchoServers, LoadClients, Writers, Readers
<1>5. q \in Seq(Octets(BODY)) /\ Len(q) \in 1 .. t.receiver.want
  BY <1>2, <1>3, <1>4 DEF Part
<1>6. ReceiverOK(p, b)
  BY <1>1, <1>4, <1>5, ReceiverRead
<1>7. ClientAt(p, t.client, s, n) /\ t.client.st = "run"
  BY <1>1, ClientRuns DEF ClientOK
<1>8. ClientOK(p, t.client, s, n + k)
  <2>1. ClientAt(p, t.client, s, n + k)
    BY <1>4, <1>7, ClientAtIs
  <2> QED
    BY <1>1, <1>7, <2>1, ClientRuns
<1>9. s <= Total(p)
  <2>1. SyncClinetAt(t.client, s)
    BY <1>4, <1>7, ClientAtIs
  <2>2. Len(t.client.out) \in Nat
    <3>1. t.client.out \in Seq(Octets(BODY))
      BY <1>1, <1>7, ClientRuns DEF Part
    <3> QED
      BY <3>1
  <2>3. Total(p) = Pos(Rounds + 1, BODY)
    BY <1>4, Totals
  <2>4. CASE t.client.pc = 1
    <3>1. s + Len(t.client.out) = Pos(t.client.round + 1, BODY) /\ t.client.round \in 1 .. Rounds
      BY <2>1, <2>4 DEF SyncClinetAt
    <3>2. /\ t.client.round + 1 \in Nat \ {0} /\ Rounds + 1 \in Nat \ {0} /\ BODY \in Nat
          /\ t.client.round + 1 <= Rounds + 1
      <4>1. \A r \in 1 .. Rounds : r + 1 \in Nat \ {0} /\ r + 1 <= Rounds + 1
        BY Sizes
      <4> QED
        BY <3>1, <4>1, Sizes
    <3>3. /\ Pos(t.client.round + 1, BODY) <= Pos(Rounds + 1, BODY)
          /\ Pos(t.client.round + 1, BODY) \in Nat /\ Pos(Rounds + 1, BODY) \in Nat
      BY <3>2, PosMonotone, PosFacts
    <3> QED
      BY <1>1, <2>2, <2>3, <3>1, <3>3
  <2>5. CASE t.client.pc # 1
    <3>1. s = Pos(Rounds + 1, BODY)
      BY <2>1, <2>5 DEF SyncClinetAt
    <3> QED
      BY <1>1, <2>3, <3>1
  <2> QED
    BY <2>4, <2>5
<1>10. n + Len(l.down) <= s - Len(l.up)
  <2>1. ServerOK(p, t.server, s - Len(l.up), n + Len(l.down))
    BY <1>1 DEF Flow
  <2>2. CASE t.server.st = "none"
    BY <1>1, <1>2, <2>1, <2>2 DEF ServerOK
  <2>3. CASE t.server.st = "run"
    <3>1. EchoAt(t.server, s - Len(l.up), n + Len(l.down))
      BY <1>4, <2>1, <2>3, ServerRuns, ServerAtIs
    <3>2. (n + Len(l.down)) + Len(t.server.out) = s - Len(l.up) /\ t.server.out \in Seq(Octets(BODY))
      BY <3>1 DEF EchoAt, Part
    <3>3. Len(t.server.out) \in Nat /\ n + Len(l.down) \in Nat
      BY <1>1, <1>2, <3>2
    <3>4. \A i, j \in Nat : i <= i + j
      OBVIOUS
    <3> QED
      BY <3>2, <3>3, <3>4
  <2>4. CASE t.server.st = "ended"
    BY <1>4, <2>1, <2>4 DEF ServerOK
  <2> QED
    BY <2>1, <2>2, <2>3, <2>4 DEF ServerOK
<1> HIDE DEF b
<1>11. Part(h2, DownBody(p), 0) /\ Len(h2) = n + k
  <2>1. 0 + Len(h) = n
    BY <1>1
  <2> QED
    BY <1>1, <1>2, <1>3, <2>1, PartConcat
<1> HIDE DEF n
<1>12. n + k <= s /\ n + k <= Total(p)
  <2>1. n + k <= s
    <3> DEFINE d == Len(l.down)
               u == Len(l.up)
               y == s - u
    <3>1. d \in Nat /\ u \in Nat /\ y \in Nat /\ y + u = s /\ n + d <= y /\ k <= d
      BY <1>2, <1>10
    <3> HIDE DEF d, u, y
    <3> QED
      BY <1>1, <1>2, <3>1
  <2>2. Total(p) \in Nat /\ n + k \in Nat
    BY <1>1, <1>2, Totals
  <2> QED
    BY <1>1, <1>9, <2>1, <2>2
<1>13. /\ ClientOK(p, t2.client, s, Len(h2)) /\ ReceiverOK(p, t2.receiver)
       /\ l2.st \in {"pending", "up"} /\ Len(h2) <= Total(p) /\ Len(h2) <= s
       /\ t2.client.st \notin {"none", "connecting"} /\ (t2.server.st # "none" => l2.st = "up")
       /\ Flow(p, t2.server, l2, s, Len(h2))
  BY <1>1, <1>3, <1>6, <1>8, <1>11, <1>12 DEF b
<1> QED
  BY <1>1, <1>11, <1>13 DEF ConnectionOK

\* The session reads.
LEMMA ServerReadsOK ==
  ASSUME NEW p \in Pairs, p = pair, NEW t, NEW l, NEW s, NEW h, ConnectionOK(p, t, l, s, h),
         l.st \in {"pending", "up"}, DOMAIN t.server = Fields, t.server.st = "run",
         t.server.want # 0, NEW k \in 1 .. Len(l.up), k <= t.server.want,
         NEW q, q = SubSeq(l.up, 1, k),
         NEW t2, t2.client = t.client, t2.receiver = t.receiver,
         t2.server = Taken(t.server, "server", q),
         NEW l2, l2.st = l.st, l2.up = SubSeq(l.up, k + 1, Len(l.up)), l2.down = l.down
  PROVE  ConnectionOK(p, t2, l2, s, h)
<1> DEFINE n == Len(h)
           v == t.server
           w == Taken(v, "server", q)
           x == s - Len(l.up)
           y == n + Len(l.down)
<1>1. /\ s \in Nat /\ n \in Nat /\ Part(h, DownBody(p), 0) /\ n <= Total(p)
      /\ p[1] = "SyncClinet" => n <= s
      /\ ClientOK(p, t.client, s, n) /\ ReceiverOK(p, t.receiver)
      /\ p[2] # "resolver" /\ t.client.st \notin {"none", "connecting"} /\ l.st = "up"
      /\ Flow(p, v, l, s, n)
  BY Connected
<1>2. /\ x \in Nat /\ y \in Nat /\ ServerOK(p, v, x, y) /\ Part(l.up, BODY, x)
      /\ Len(l.up) \in Nat
  <2> HIDE DEF n
  <2> QED
    BY <1>1, FlowFacts DEF Flow
<1>3. k \in Nat /\ k \in 0 .. Len(l.up) /\ BODY \in Nat
  BY <1>2, Sizes
<1>4. Part(q, BODY, x) /\ Len(q) = k
  <2> HIDE DEF x
  <2> QED
    BY <1>2, <1>3, PartSplit
<1>5. v.want \in Nat
  BY <1>2, ServerRuns DEF ServerAt
<1>6. ServerOK(p, w, x + k, y)
  <2> HIDE DEF x, y
  <2>1. Len(q) \in 1 .. v.want
    BY <1>3, <1>4, <1>5
  <2>2. ServerOK(p, Taken(v, "server", q), x + Len(q), y)
    BY <1>2, <1>4, <2>1, ServerRead
  <2> QED
    BY <1>4, <2>2
<1> HIDE DEF w, n
<1>7. Flow(p, w, l2, s, n)
  BY <1>1, <1>3, <1>6, FlowRead
<1>8. /\ ClientOK(p, t2.client, s, n) /\ ReceiverOK(p, t2.receiver) /\ l2.st \in {"pending", "up"}
      /\ t2.client.st \notin {"none", "connecting"} /\ (t2.server.st # "none" => l2.st = "up")
      /\ Flow(p, t2.server, l2, s, n)
  BY <1>1, <1>7 DEF w
<1> QED
  BY <1>1, <1>8 DEF ConnectionOK, n

\* A client that has its connection, or an error, begins.
LEMMA BeginOK ==
  ASSUME NEW p \in Pairs, p = pair, NEW t, NEW l, NEW s, NEW h, ConnectionOK(p, t, l, s, h),
         t.client.st = "connecting", p[2] # "resolver",
         NEW t2, t2.client = Starts("client"), t2.server = t.server,
         t2.receiver = IF p[1] = "SyncClinet" THEN Starts("receiver") ELSE Idle,
         NEW l2, l2.st \in {"none", "pending"}, l2.up = l.up, l2.down = l.down
  PROVE  ConnectionOK(p, t2, l2, s, h)
<1>1. s = 0 /\ Len(h) = 0
  BY DEF ConnectionOK, ClientOK
<1>2. ClientOK(p, t2.client, s, Len(h)) /\ t2.client.st \notin {"none", "connecting"}
  <2>1. ClientOK(p, Starts("client"), 0, 0)
    BY ClientStarts
  <2>2. Starts("client").st \in {"run", "ended"}
    BY StartsRuns
  <2> QED
    BY <1>1, <2>1, <2>2
<1>3. ReceiverOK(p, t2.receiver)
  BY ReceiverStarts DEF ReceiverOK
<1>4. l.st = "none" /\ t.server.st = "none"
  BY DEF ConnectionOK
<1>5. Flow(p, t2.server, l2, s, Len(h))
  BY <1>4 DEF ConnectionOK, Flow
<1> QED
  BY <1>1, <1>2, <1>3, <1>4, <1>5 DEF ConnectionOK

\* Or it is over.
LEMMA OverOK ==
  ASSUME NEW p \in Pairs, NEW t, NEW l, NEW s, NEW h, ConnectionOK(p, t, l, s, h),
         t.client.st = "connecting",
         NEW t2, t2.client.st = "ended", t2.client.failed \/ p[1] = "dns_connect_to_end",
         t2.receiver = t.receiver, t2.server = t.server
  PROVE  ConnectionOK(p, t2, l, s, h)
<1>1. s = 0 /\ Len(h) = 0 /\ l.st = "none"
  BY DEF ConnectionOK, ClientOK
<1>2. ClientOK(p, t2.client, s, Len(h))
  <2>1. CASE t2.client.failed
    BY <2>1, ClientEnded
  <2>2. CASE p[1] = "dns_connect_to_end"
    <3>1. p[1] \in Connectors
      BY <2>2 DEF Connectors
    <3>2. Finished(p, s, Len(h))
      BY <1>1, <3>1, <2>2, Kinds, Totals DEF Finished
    <3> QED
      BY <3>2, ClientEnded
  <2> QED
    BY <2>1, <2>2
<1> QED
  BY <1>1, <1>2 DEF ConnectionOK

\* A client that is started, joined, or fails.
LEMMA ClientStepOK ==
  ASSUME NEW p, NEW t, NEW l, NEW s, NEW h, ConnectionOK(p, t, l, s, h), NEW t2,
         \/ t.client.st = "none" /\ t2.client = [t.client EXCEPT !.st = "connecting"]
         \/ /\ t.client.st \in {"ended", "joined"} /\ t2.client.st = "joined"
            /\ t2.client.failed = t.client.failed
         \/ t.client.st = "run" /\ t2.client.st = "ended" /\ t2.client.failed,
         t2.receiver = t.receiver, t2.server = t.server
  PROVE  ConnectionOK(p, t2, l, s, h)
<1>1. CASE t.client.st = "none" /\ t2.client = [t.client EXCEPT !.st = "connecting"]
  <2>1. t.client = [Idle EXCEPT !.st = t.client.st] /\ s = 0 /\ Len(h) = 0
    BY <1>1 DEF ConnectionOK, ClientOK
  <2>2. t2.client.st = "connecting" /\ t2.client = [Idle EXCEPT !.st = t2.client.st]
    BY <1>1, <2>1 DEF Idle
  <2>3. ClientOK(p, t2.client, s, Len(h))
    BY <2>1, <2>2 DEF ClientOK
  <2> QED
    BY <1>1, <2>2, <2>3 DEF ConnectionOK
<1>2. CASE /\ t.client.st \in {"ended", "joined"} /\ t2.client.st = "joined"
           /\ t2.client.failed = t.client.failed
  <2>1. ClientOK(p, t2.client, s, Len(h))
    BY <1>2 DEF ConnectionOK, ClientOK
  <2> QED
    BY <1>2, <2>1 DEF ConnectionOK
<1>3. CASE t.client.st = "run" /\ t2.client.st = "ended" /\ t2.client.failed
  <2>1. ClientOK(p, t2.client, s, Len(h))
    BY <1>3, ClientEnded
  <2> QED
    BY <1>3, <2>1 DEF ConnectionOK
<1> QED
  BY <1>1, <1>2, <1>3

\* The receiver ends with an error.
LEMMA ReceiverFailsOK ==
  ASSUME NEW p, NEW t, NEW l, NEW s, NEW h, ConnectionOK(p, t, l, s, h), NEW t2,
         t.receiver.st = "run", t2.receiver.st = "ended",
         t2.client = t.client, t2.server = t.server
  PROVE  ConnectionOK(p, t2, l, s, h)
<1>1. ReceiverOK(p, t2.receiver)
  BY IdleIs DEF ConnectionOK, ReceiverOK
<1> QED
  BY <1>1 DEF ConnectionOK

\* A session that ends has not written more than it has read.
LEMMA ServerEndsOK ==
  ASSUME NEW p, NEW t, NEW l, NEW s, NEW h, ConnectionOK(p, t, l, s, h), NEW t2,
         t.server.st = "run", t2.server.st = "ended",
         t2.client = t.client, t2.receiver = t.receiver
  PROVE  ConnectionOK(p, t2, l, s, h)
<1>1. ASSUME l.st # "reset"
      PROVE  Flow(p, t2.server, l, s, Len(h))
  <2> DEFINE x == s - Len(l.up)
             y == Len(h) + Len(l.down)
  <2>1. ServerOK(p, t.server, x, y)
    BY <1>1 DEF ConnectionOK, Flow
  <2>2. x \in Nat /\ y \in Nat
    <3>1. Flow(p, t.server, l, s, Len(h)) /\ s \in Nat /\ Len(h) \in Nat
      <4>1. h \in Seq(Octets(DownBody(p)))
        BY DEF ConnectionOK, Part
      <4> QED
        BY <1>1, <4>1 DEF ConnectionOK
    <3> QED
      BY <3>1, FlowFacts
  <2> HIDE DEF x, y
  <2>3. p[2] \in EchoServers => y <= x
    <3> SUFFICES ASSUME p[2] \in EchoServers
                 PROVE  y <= x
      OBVIOUS
    <3>1. EchoAt(t.server, x, y)
      BY <2>1, ServerRuns, ServerAtIs
    <3>2. y + Len(t.server.out) = x /\ t.server.out \in Seq(Octets(BODY))
      BY <3>1 DEF EchoAt, Part
    <3>3. Len(t.server.out) \in Nat
      BY <3>2
    <3> QED
      BY <2>2, <3>2, <3>3
  <2>4. ServerOK(p, t2.server, x, y)
    BY <2>3 DEF ServerOK
  <2> QED
    BY <1>1, <2>4 DEF ConnectionOK, Flow, x, y
<1> QED
  BY <1>1 DEF ConnectionOK

\* A connection is accepted, by a server or by accpet_new_connection, or reset.
LEMMA AcceptOK ==
  ASSUME NEW p \in Pairs, p = pair, NEW t, NEW l, NEW s, NEW h, ConnectionOK(p, t, l, s, h), NEW t2,
         \/ t2.server = t.server
         \/ t2.server = Starts("server") /\ p[2] # "accpet_new_connection",
         t2.client = t.client, t2.receiver = t.receiver,
         l.st = "pending", NEW l2, l2.st = "up", l2.up = l.up, l2.down = l.down
  PROVE  ConnectionOK(p, t2, l2, s, h)
<1>1. Flow(p, t.server, l, s, Len(h)) /\ t.server.st = "none" /\ p[2] # "resolver"
  BY DEF ConnectionOK
<1>2. ServerOK(p, t2.server, s - Len(l.up), Len(h) + Len(l.down))
  <2>1. s - Len(l.up) = 0 /\ Len(h) + Len(l.down) = 0
    BY <1>1 DEF Flow, ServerOK
  <2>2. CASE t2.server = t.server
    BY <1>1, <2>2 DEF Flow
  <2>3. CASE t2.server = Starts("server") /\ p[2] # "accpet_new_connection"
    <3>1. ServerOK(p, Starts("server"), 0, 0)
      BY <1>1, <2>3, ServerStarts
    <3> QED
      BY <2>1, <2>3, <3>1
  <2> QED
    BY <2>2, <2>3
<1>3. Flow(p, t2.server, l2, s, Len(h))
  BY <1>1, <1>2 DEF Flow
<1> QED
  BY <1>1, <1>3 DEF ConnectionOK

\* A connection that is reset carries nothing any more.
LEMMA ResetOK ==
  ASSUME NEW p, NEW t, NEW l, NEW s, NEW h, ConnectionOK(p, t, l, s, h),
         l.st \in {"pending", "up"}, NEW l2, l2.st = "reset"
  PROVE  ConnectionOK(p, t, l2, s, h)
  BY DEF ConnectionOK

-----------------------------------------------------------------------------
(* Every step leaves every connection right.                               *)

\* A step is about one connection.
LEMMA OneConnection ==
  ASSUME Data, NEW c \in 1 .. N, pair' = pair,
         \A d \in 1 .. N : d # c => /\ thr'[d] = thr[d] /\ link'[d] = link[d]
                                    /\ sent'[d] = sent[d] /\ heard'[d] = heard[d],
         ConnectionOK(pair, thr'[c], link'[c], sent'[c], heard'[c])
  PROVE  Data'
  BY DEF Data

\* The state of a thread after a call that moves bytes.
LEMMA StaysOrEnds ==
  ASSUME NEW th, DOMAIN th = Fields, th.st = "run", NEW role, NEW k, NEW q
  PROVE  /\ Emitted(th, role, k).st \in {"run", "ended"}
         /\ Taken(th, role, q).st \in {"run", "ended"}
<1>1. Emitted(th, role, k).st \in {"run", "ended"}
  <2> DEFINE rest == SubSeq(th.out, k + 1, Len(th.out))
             w == [th EXCEPT !.out = rest]
  <2>1. w.st = "run" /\ Advance(th, role).st \in {"run", "ended"}
    BY AdvanceRuns DEF Fields
  <2>2. Emitted(th, role, k) \in {Advance(th, role), w}
    BY DEF Emitted
  <2> HIDE DEF w
  <2> QED
    BY <2>1, <2>2
<1>2. Taken(th, role, q).st \in {"run", "ended"}
  <2> DEFINE more == [th EXCEPT !.in = @ \o q, !.want = @ - Len(q)]
  <2>1. DOMAIN more = Fields /\ more.st = "run"
    BY DEF Fields
  <2>2. Taken(th, role, q) \in {Advance(more, role), more}
    BY DEF Taken
  <2> HIDE DEF more
  <2> QED
    BY <2>1, <2>2, AdvanceRuns
<1> QED
  BY <1>1, <1>2

\* A write.
LEMMA WritesData ==
  ASSUME Shape, Data, NEW c \in 1 .. N, NEW role \in Roles, NEW k \in 1 .. Cap, Writes(c, role, k)
  PROVE  Data'
<1> DEFINE th == thr[c][role]
           l == link[c]
           x == Emitted(th, role, k)
           first == SubSeq(th.out, 1, k)
<1>1. /\ Runs(c, role) /\ th.out # <<>> /\ l.st \in {"pending", "up"}
      /\ k \in 1 .. Min({Len(th.out), Cap - Len(l[Out(role)])})
      /\ link' = [link EXCEPT ![c][Out(role)] = @ \o first]
      /\ thr' = [thr EXCEPT ![c][role] = x]
      /\ sent' = IF role = "client" THEN [sent EXCEPT ![c] = @ + k] ELSE sent
      /\ pair' = pair /\ heard' = heard
  BY DEF Writes, Emitted
<1>2. /\ th.st = "run" /\ DOMAIN th = Fields /\ DOMAIN thr = 1 .. N /\ DOMAIN thr[c] = Roles
      /\ DOMAIN link = 1 .. N /\ DOMAIN l = LinkFields /\ DOMAIN sent = 1 .. N /\ pair \in Pairs
  BY <1>1 DEF Runs, Shape
<1>3. /\ ConnectionOK(pair, thr[c], l, sent[c], heard[c])
      /\ Flow(pair, thr[c].server, l, sent[c], Len(heard[c]))
      /\ sent[c] \in Nat /\ Len(heard[c]) \in Nat
      /\ ClientOK(pair, thr[c].client, sent[c], Len(heard[c])) /\ ReceiverOK(pair, thr[c].receiver)
  BY <1>1, Connected DEF Data
<1>4. role \in {"client", "server"} /\ Len(th.out) \in Nat
  <2>1. role # "receiver"
    BY <1>1, <1>2, <1>3, IdleIs DEF ReceiverOK
  <2>2. CASE role = "client"
    <3>1. th.out \in Seq(Octets(BODY))
      BY <1>2, <1>3, <2>2, ClientRuns DEF Part
    <3> QED
      BY <2>2, <3>1
  <2>3. CASE role = "server"
    <3>1. th.out \in Seq(Octets(DownBody(pair)))
      BY <1>1, <1>2, <1>3, <2>3, ServerRuns, ServerOut DEF Part, Flow
    <3> QED
      BY <2>3, <3>1
  <2> QED
    BY <2>1, <2>2, <2>3 DEF Roles
<1>5. k \in 1 .. Len(th.out)
  <2>1. Len(l.up) \in Nat /\ Len(l.down) \in Nat
    BY <1>3, FlowFacts
  <2>2. Len(l[Out(role)]) \in Nat
    BY <2>1 DEF Out
  <2>3. Cap - Len(l[Out(role)]) \in Int
    BY <2>2, Sizes
  <2>4. Min({Len(th.out), Cap - Len(l[Out(role)])}) <= Len(th.out)
        /\ Min({Len(th.out), Cap - Len(l[Out(role)])}) \in Int
    <3> HIDE DEF th, l
    <3> QED
      BY <1>4, <2>3, MinTwo
  <2> QED
    BY <1>1, <1>4, <2>4
<1>6. x.st \in {"run", "ended"}
  BY <1>2, StaysOrEnds
<1> HIDE DEF x, first
<1>7. \A d \in 1 .. N : d # c => /\ thr'[d] = thr[d] /\ link'[d] = link[d]
                                 /\ sent'[d] = sent[d] /\ heard'[d] = heard[d]
  BY <1>1, <1>2
<1>8. ConnectionOK(pair, thr'[c], link'[c], sent'[c], heard'[c])
  <2>1. CASE role = "client"
    <3>1. /\ thr'[c].client = x /\ thr'[c].receiver = thr[c].receiver /\ thr'[c].server = thr[c].server
          /\ link'[c].st = l.st /\ link'[c].up = l.up \o first /\ link'[c].down = l.down
          /\ sent'[c] = sent[c] + k /\ heard'[c] = heard[c]
      BY <1>1, <1>2, <2>1 DEF Out, Roles, LinkFields
    <3>2. /\ DOMAIN thr[c].client = Fields /\ thr[c].client.st = "run"
          /\ k \in 1 .. Len(thr[c].client.out)
          /\ Emitted(thr[c].client, "client", k).st \in {"run", "ended"}
          /\ thr'[c].client = Emitted(thr[c].client, "client", k)
          /\ link'[c].up = l.up \o SubSeq(thr[c].client.out, 1, k)
      BY <1>2, <1>5, <1>6, <2>1, <3>1 DEF x, first
    <3> HIDE DEF th, l
    <3>3. l.st \in {"pending", "up"}
      BY <1>1
    <3>4. ConnectionOK(pair, thr'[c], link'[c], sent[c] + k, heard[c])
      BY <1>2, <1>3, <3>1, <3>2, <3>3, ClientWritesOK
    <3> QED
      BY <3>1, <3>4
  <2>2. CASE role = "server"
    <3>1. /\ thr'[c].server = x /\ thr'[c].receiver = thr[c].receiver /\ thr'[c].client = thr[c].client
          /\ link'[c].st = l.st /\ link'[c].down = l.down \o first /\ link'[c].up = l.up
          /\ sent'[c] = sent[c] /\ heard'[c] = heard[c]
      BY <1>1, <1>2, <2>2 DEF Out, Roles, LinkFields
    <3>2. /\ DOMAIN thr[c].server = Fields /\ thr[c].server.st = "run"
          /\ thr[c].server.out # <<>> /\ k \in 1 .. Len(thr[c].server.out)
          /\ thr'[c].server = Emitted(thr[c].server, "server", k)
          /\ link'[c].down = l.down \o SubSeq(thr[c].server.out, 1, k)
      BY <1>1, <1>2, <1>5, <2>2, <3>1 DEF x, first
    <3> HIDE DEF th, l
    <3>3. l.st \in {"pending", "up"}
      BY <1>1
    <3>4. ConnectionOK(pair, thr'[c], link'[c], sent[c], heard[c])
      BY <1>2, <1>3, <3>1, <3>2, <3>3, ServerWritesOK
    <3> QED
      BY <3>1, <3>4
  <2> QED
    BY <1>4, <2>1, <2>2
<1> QED
  BY <1>1, <1>7, <1>8, OneConnection

\* A read.
LEMMA ReadsData ==
  ASSUME Shape, Data, NEW c \in 1 .. N, NEW role \in Roles, NEW k \in 1 .. Cap, Reads(c, role, k)
  PROVE  Data'
<1> DEFINE th == thr[c][role]
           l == link[c]
           buf == l[In(role)]
           q == SubSeq(buf, 1, k)
           x == Taken(th, role, q)
<1>1. /\ Runs(c, role) /\ th.want > 0 /\ l.st \in {"pending", "up"}
      /\ k \in 1 .. Min({th.want, Len(buf)})
      /\ link' = [link EXCEPT ![c][In(role)] = SubSeq(buf, k + 1, Len(buf))]
      /\ heard' = IF role = "server" THEN heard ELSE [heard EXCEPT ![c] = @ \o q]
      /\ pair' = pair /\ sent' = sent
  BY DEF Reads
<1>2. /\ th.st = "run" /\ DOMAIN th = Fields /\ DOMAIN thr = 1 .. N /\ DOMAIN thr[c] = Roles
      /\ DOMAIN link = 1 .. N /\ DOMAIN l = LinkFields /\ DOMAIN heard = 1 .. N /\ pair \in Pairs
      /\ role # "server" => thr[c].client.st \notin {"ended", "joined"}
  BY <1>1 DEF Runs, Closed, Shape, Roles
<1>3. /\ ConnectionOK(pair, thr[c], l, sent[c], heard[c])
      /\ Flow(pair, thr[c].server, l, sent[c], Len(heard[c]))
      /\ sent[c] \in Nat /\ Len(heard[c]) \in Nat
      /\ ClientOK(pair, thr[c].client, sent[c], Len(heard[c])) /\ ReceiverOK(pair, thr[c].receiver)
  BY <1>1, Connected DEF Data
<1>4. th.want \in Nat
  <2>1. CASE role = "client"
    BY <1>2, <1>3, <2>1, ClientRuns
  <2>2. CASE role = "receiver"
    BY <1>2, <1>3, <2>2, IdleIs DEF ReceiverOK
  <2>3. CASE role = "server"
    BY <1>2, <1>3, <2>3, ServerRuns DEF ServerAt, Flow
  <2> QED
    BY <2>1, <2>2, <2>3 DEF Roles
<1>5. /\ l.up \in Seq(Octets(BODY)) /\ l.down \in Seq(Octets(DownBody(pair)))
      /\ Len(l.up) \in Nat /\ Len(l.down) \in Nat
  BY <1>3, FlowFacts DEF Flow, Part
<1>6. k \in 1 .. Len(buf) /\ k <= th.want /\ th.want # 0
  <2>1. Len(buf) \in Nat
    BY <1>5 DEF In
  <2>2. Min({th.want, Len(buf)}) = IF th.want <= Len(buf) THEN th.want ELSE Len(buf)
    <3> HIDE DEF th, buf
    <3> QED
      BY <1>4, <2>1, MinTwo
  <2> HIDE DEF th, buf
  <2> QED
    BY <1>1, <1>4, <2>1, <2>2
<1>7. thr' = [thr EXCEPT ![c][role] = x]
  <2>1. Len(q) = k
    <3>1. \A b, S : b \in Seq(S) /\ k \in 1 .. Len(b) => Len(SubSeq(b, 1, k)) = k
      BY SubSeqProperties
    <3> QED
      BY <1>5, <1>6, <3>1 DEF In
  <2>2. LET more == [th EXCEPT !.in = @ \o q, !.want = @ - k]
        IN  thr' = [thr EXCEPT ![c][role] =
                      IF more.want = 0 \/ Program(role)[th.pc][1] = "read_some"
                      THEN Advance(more, role) ELSE more]
    BY DEF Reads
  <2> HIDE DEF q
  <2> QED
    BY <2>1, <2>2 DEF Taken
<1>8. x.st \in {"run", "ended"}
  BY <1>2, StaysOrEnds
<1> HIDE DEF x, q
<1>9. \A d \in 1 .. N : d # c => /\ thr'[d] = thr[d] /\ link'[d] = link[d]
                                 /\ sent'[d] = sent[d] /\ heard'[d] = heard[d]
  BY <1>1, <1>2, <1>7
<1>10. ConnectionOK(pair, thr'[c], link'[c], sent'[c], heard'[c])
  <2>1. CASE role = "client"
    <3>1. /\ thr'[c].client = x /\ thr'[c].receiver = thr[c].receiver /\ thr'[c].server = thr[c].server
          /\ link'[c].st = l.st /\ link'[c].up = l.up
          /\ link'[c].down = SubSeq(l.down, k + 1, Len(l.down))
          /\ sent'[c] = sent[c] /\ heard'[c] = heard[c] \o q
      BY <1>1, <1>2, <1>7, <2>1 DEF In, Roles, LinkFields
    <3>2. q = SubSeq(l.down, 1, k) /\ k \in 1 .. Len(l.down)
      BY <1>6, <2>1 DEF In, q
    <3>3. /\ DOMAIN thr[c].client = Fields /\ thr[c].client.st = "run"
          /\ thr[c].client.want # 0 /\ k <= thr[c].client.want
          /\ Taken(thr[c].client, "client", q).st \in {"run", "ended"}
          /\ thr'[c].client = Taken(thr[c].client, "client", q)
      BY <1>2, <1>6, <1>8, <2>1, <3>1 DEF x
    <3> HIDE DEF th, l, buf
    <3>4. l.st \in {"pending", "up"}
      BY <1>1
    <3>5. ConnectionOK(pair, thr'[c], link'[c], sent[c], heard'[c])
      BY <1>2, <1>3, <3>1, <3>2, <3>3, <3>4, ClientReadsOK
    <3> QED
      BY <3>1, <3>5
  <2>2. CASE role = "receiver"
    <3>1. /\ thr'[c].receiver = x /\ thr'[c].client = thr[c].client /\ thr'[c].server = thr[c].server
          /\ link'[c].st = l.st /\ link'[c].up = l.up
          /\ link'[c].down = SubSeq(l.down, k + 1, Len(l.down))
          /\ sent'[c] = sent[c] /\ heard'[c] = heard[c] \o q
      BY <1>1, <1>2, <1>7, <2>2 DEF In, Roles, LinkFields
    <3>2. q = SubSeq(l.down, 1, k) /\ k \in 1 .. Len(l.down)
      BY <1>6, <2>2 DEF In, q
    <3>3. /\ DOMAIN thr[c].receiver = Fields /\ thr[c].receiver.st = "run"
          /\ thr[c].receiver.want # 0 /\ k <= thr[c].receiver.want
          /\ thr[c].client.st \notin {"ended", "joined"}
          /\ thr'[c].receiver = Taken(thr[c].receiver, "receiver", q)
      BY <1>2, <1>6, <1>8, <2>2, <3>1 DEF x
    <3> HIDE DEF th, l, buf
    <3>4. l.st \in {"pending", "up"}
      BY <1>1
    <3>5. ConnectionOK(pair, thr'[c], link'[c], sent[c], heard'[c])
      BY <1>2, <1>3, <3>1, <3>2, <3>3, <3>4, ReceiverReadsOK
    <3> QED
      BY <3>1, <3>5
  <2>3. CASE role = "server"
    <3>1. /\ thr'[c].server = x /\ thr'[c].client = thr[c].client /\ thr'[c].receiver = thr[c].receiver
          /\ link'[c].st = l.st /\ link'[c].down = l.down
          /\ link'[c].up = SubSeq(l.up, k + 1, Len(l.up))
          /\ sent'[c] = sent[c] /\ heard'[c] = heard[c]
      BY <1>1, <1>2, <1>7, <2>3 DEF In, Roles, LinkFields
    <3>2. q = SubSeq(l.up, 1, k) /\ k \in 1 .. Len(l.up)
      BY <1>6, <2>3 DEF In, q
    <3>3. /\ DOMAIN thr[c].server = Fields /\ thr[c].server.st = "run"
          /\ thr[c].server.want # 0 /\ k <= thr[c].server.want
          /\ thr'[c].server = Taken(thr[c].server, "server", q)
      BY <1>2, <1>6, <1>8, <2>3, <3>1 DEF x
    <3> HIDE DEF th, l, buf
    <3>4. l.st \in {"pending", "up"}
      BY <1>1
    <3>5. ConnectionOK(pair, thr'[c], link'[c], sent[c], heard[c])
      BY <1>2, <1>3, <3>1, <3>2, <3>3, <3>4, ServerReadsOK
    <3> QED
      BY <3>1, <3>5
  <2> QED
    BY <2>1, <2>2, <2>3 DEF Roles
<1> QED
  BY <1>1, <1>9, <1>10, OneConnection

\* A call fails, or a session of a server that is modelled elsewhere ends.
LEMMA FailsData ==
  ASSUME Shape, Data, NEW c \in 1 .. N, NEW role \in Roles, Fails(c, role)
  PROVE  Data'
<1> DEFINE x == Ends(thr[c][role], TRUE)
<1>1. /\ thr[c][role].st = "run" /\ thr' = [thr EXCEPT ![c][role] = x]
      /\ UNCHANGED <<pair, link, sent, heard>>
  BY DEF Fails, Runs
<1>2. /\ DOMAIN thr = 1 .. N /\ DOMAIN thr[c] = Roles /\ DOMAIN thr[c][role] = Fields
      /\ ConnectionOK(pair, thr[c], link[c], sent[c], heard[c])
  BY DEF Shape, Data
<1>3. x.st = "ended" /\ x.failed
  BY <1>2 DEF Ends, Fields
<1> HIDE DEF x
<1>4. \A d \in 1 .. N : d # c => thr'[d] = thr[d]
  BY <1>1, <1>2
<1>5. ConnectionOK(pair, thr'[c], link[c], sent[c], heard[c])
  <2>1. CASE role = "client"
    <3>1. /\ thr'[c].client = x /\ thr'[c].receiver = thr[c].receiver
          /\ thr'[c].server = thr[c].server /\ thr[c].client.st = "run"
      BY <1>1, <1>2, <2>1 DEF Roles
    <3> QED
      BY <1>2, <1>3, <3>1, ClientStepOK
  <2>2. CASE role = "receiver"
    <3>1. /\ thr'[c].receiver = x /\ thr'[c].client = thr[c].client
          /\ thr'[c].server = thr[c].server /\ thr[c].receiver.st = "run"
      BY <1>1, <1>2, <2>2 DEF Roles
    <3> QED
      BY <1>2, <1>3, <3>1, ReceiverFailsOK
  <2>3. CASE role = "server"
    <3>1. /\ thr'[c].server = x /\ thr'[c].client = thr[c].client
          /\ thr'[c].receiver = thr[c].receiver /\ thr[c].server.st = "run"
      BY <1>1, <1>2, <2>3 DEF Roles
    <3> QED
      BY <1>2, <1>3, <3>1, ServerEndsOK
  <2> QED
    BY <2>1, <2>2, <2>3 DEF Roles
<1> QED
  BY <1>1, <1>4, <1>5, OneConnection

\* The other side closes the connection.
LEMMA PeerLeavesData ==
  ASSUME Shape, Data, NEW c \in 1 .. N, PeerLeaves(c)
  PROVE  Data'
<1> DEFINE x == Ends(thr[c].server, FALSE)
<1>1. /\ thr[c].server.st = "run" /\ thr' = [thr EXCEPT ![c].server = x]
      /\ UNCHANGED <<pair, link, sent, heard>>
  BY DEF PeerLeaves
<1>2. /\ DOMAIN thr = 1 .. N /\ DOMAIN thr[c] = Roles /\ DOMAIN thr[c].server = Fields
      /\ ConnectionOK(pair, thr[c], link[c], sent[c], heard[c])
  BY DEF Shape, Data, Roles
<1>3. x.st = "ended"
  BY <1>2 DEF Ends, Fields
<1> HIDE DEF x
<1>4. \A d \in 1 .. N : d # c => thr'[d] = thr[d]
  BY <1>1, <1>2
<1>5. ConnectionOK(pair, thr'[c], link[c], sent[c], heard[c])
  <2>1. /\ thr'[c].server = x /\ thr'[c].client = thr[c].client
        /\ thr'[c].receiver = thr[c].receiver
    BY <1>1, <1>2 DEF Roles
  <2> QED
    BY <1>1, <1>2, <1>3, <2>1, ServerEndsOK
<1> QED
  BY <1>1, <1>4, <1>5, OneConnection

\* Main starts and joins the threads.
LEMMA MainData ==
  ASSUME Control, Data, MainStep
  PROVE  Data'
<1>1. UNCHANGED <<pair, link, sent, heard>> /\ DOMAIN thr = 1 .. N
  BY DEF MainStep, Spawn, Join, AfterJoins, Control, Shape
<1>2. ASSUME NEW c \in 1 .. N, NEW x, thr' = [thr EXCEPT ![c].client = x],
             \/ thr[c].client.st = "none" /\ x = [thr[c].client EXCEPT !.st = "connecting"]
             \/ /\ thr[c].client.st \in {"ended", "joined"} /\ x.st = "joined"
                /\ x.failed = thr[c].client.failed
      PROVE  Data'
  <2>1. DOMAIN thr[c] = Roles /\ ConnectionOK(pair, thr[c], link[c], sent[c], heard[c])
    BY DEF Control, Shape, Data
  <2>2. /\ thr'[c].client = x /\ thr'[c].server = thr[c].server
        /\ thr'[c].receiver = thr[c].receiver
    BY <1>1, <1>2, <2>1 DEF Roles
  <2>3. ConnectionOK(pair, thr'[c], link[c], sent[c], heard[c])
    BY <1>2, <2>1, <2>2, ClientStepOK
  <2>4. \A d \in 1 .. N : d # c => thr'[d] = thr[d]
    BY <1>1, <1>2
  <2> QED
    BY <1>1, <2>3, <2>4, OneConnection
<1>3. /\ main.spawned \in Nat /\ main.joined \in Nat /\ Connections \in 1 .. N
      /\ main.spawned <= Connections /\ (main.at = "spawn" => main.spawned < Connections)
      /\ \A c \in 1 .. N : DOMAIN thr[c].client = Fields
      /\ \A c \in 1 .. N : c > main.spawned => thr[c].client.st = "none"
  BY Sizes DEF Control, Shape, Spawned, Connections, Roles
<1>4. CASE Spawn
  <2> DEFINE c == main.spawned + 1
  <2>1. c \in 1 .. N /\ thr[c].client.st = "none"
    <3>1. main.at = "spawn"
      BY <1>4 DEF Spawn
    <3>2. c \in 1 .. N /\ c > main.spawned
      BY <1>3, <3>1, Sizes
    <3> QED
      BY <1>3, <3>2
  <2>2. thr' = [thr EXCEPT ![c].client = [thr[c].client EXCEPT !.st = "connecting"]]
    BY <1>4 DEF Spawn
  <2> HIDE DEF c
  <2> QED
    BY <1>2, <2>1, <2>2
<1>5. CASE Join
  <2> DEFINE c == main.joined + 1
             x == [thr[c].client EXCEPT !.st = "joined"]
  <2>1. c \in 1 .. N /\ thr[c].client.st \in {"ended", "joined"}
    <3>1. main.joined < main.spawned /\ thr[c].client.st \in {"ended", "joined"}
      BY <1>5 DEF Join, Waits
    <3>2. c \in 1 .. N
      BY <1>3, <3>1, Sizes
    <3> QED
      BY <3>1, <3>2
  <2>2. thr' = [thr EXCEPT ![c].client = x]
    BY <1>5 DEF Join
  <2> HIDE DEF c
  <2>3. x.st = "joined" /\ x.failed = thr[c].client.failed
    BY <1>3, <2>1 DEF Fields
  <2> HIDE DEF x
  <2> QED
    BY <1>2, <2>1, <2>2, <2>3
<1>6. CASE AfterJoins
  <2>1. thr' = thr
    BY <1>6 DEF AfterJoins
  <2> QED
    BY <1>1, <2>1 DEF Data
<1> QED
  BY <1>4, <1>5, <1>6 DEF MainStep

\* A thread has its connection, or the attempt fails.
LEMMA ConnectData ==
  ASSUME Shape, Data, NEW c \in 1 .. N, Connect(c) \/ Resolves(c) \/ ConnectFails(c)
  PROVE  Data'
<1> DEFINE y == Starts("client")
           z == IF pair[1] = "SyncClinet" THEN Starts("receiver") ELSE Idle
<1>1. /\ thr[c].client.st = "connecting" /\ UNCHANGED <<pair, sent, heard>>
      /\ ConnectionOK(pair, thr[c], link[c], sent[c], heard[c]) /\ pair \in Pairs
      /\ DOMAIN thr = 1 .. N /\ DOMAIN thr[c] = Roles /\ DOMAIN thr[c].client = Fields
      /\ DOMAIN link = 1 .. N /\ DOMAIN link[c] = LinkFields
  BY DEF Connect, Resolves, ConnectFails, Connecting, Shape, Data, Roles
<1>2. link[c].st = "none"
  BY <1>1 DEF ConnectionOK
<1>3. ASSUME pair[2] # "resolver", thr' = Begin(c),
             link' = link \/ link' = [link EXCEPT ![c].st = "pending"]
      PROVE  Data'
  <2>1. /\ thr'[c].client = Starts("client") /\ thr'[c].server = thr[c].server
        /\ thr'[c].receiver = IF pair[1] = "SyncClinet" THEN Starts("receiver") ELSE Idle
        /\ \A d \in 1 .. N : d # c => thr'[d] = thr[d]
    <3>1. thr' = [thr EXCEPT ![c].client = y, ![c].receiver = z]
      BY <1>3 DEF Begin
    <3> HIDE DEF y, z
    <3>2. /\ thr'[c].client = y /\ thr'[c].server = thr[c].server /\ thr'[c].receiver = z
          /\ \A d \in 1 .. N : d # c => thr'[d] = thr[d]
      BY <1>1, <3>1 DEF Roles
    <3> QED
      BY <3>2 DEF y, z
  <2>2. /\ link'[c].st \in {"none", "pending"} /\ link'[c].up = link[c].up
        /\ link'[c].down = link[c].down
        /\ \A d \in 1 .. N : d # c => link'[d] = link[d]
    BY <1>1, <1>2, <1>3 DEF LinkFields
  <2>3. ConnectionOK(pair, thr'[c], link'[c], sent[c], heard[c])
    <3>1. pair[2] # "resolver"
      BY <1>3
    <3> HIDE DEF y, z
    <3> QED
      BY <1>1, <2>1, <2>2, <3>1, BeginOK
  <2> QED
    BY <1>1, <2>1, <2>2, <2>3, OneConnection
<1>4. ASSUME NEW x, x.st = "ended", x.failed \/ pair[1] = "dns_connect_to_end",
             thr' = [thr EXCEPT ![c].client = x], link' = link
      PROVE  Data'
  <2>1. /\ thr'[c].client = x /\ thr'[c].server = thr[c].server
        /\ thr'[c].receiver = thr[c].receiver /\ \A d \in 1 .. N : d # c => thr'[d] = thr[d]
    BY <1>1, <1>4 DEF Roles
  <2>2. ConnectionOK(pair, thr'[c], link'[c], sent[c], heard[c])
    BY <1>1, <1>4, <2>1, OverOK
  <2> QED
    BY <1>1, <1>4, <2>1, <2>2, OneConnection
<1>5. CASE Connect(c)
  BY <1>3, <1>5 DEF Connect
<1>6. LET x == Ends(thr[c].client, FALSE) IN x.st = "ended"
  BY <1>1 DEF Ends, Fields
<1>7. LET x == Ends(thr[c].client, TRUE) IN x.st = "ended" /\ x.failed
  BY <1>1 DEF Ends, Fields
<1>8. CASE Resolves(c)
  <2>1. pair[1] = "dns_connect_to_end" /\ link' = link
        /\ thr' = [thr EXCEPT ![c].client = Ends(thr[c].client, FALSE)]
    <3>1. pair[2] = "resolver"
      BY <1>8 DEF Resolves
    <3>2. pair[1] = "dns_connect_to_end"
      BY <1>1, <3>1, Meant DEF EchoServers
    <3> QED
      BY <1>8, <3>2 DEF Resolves
  <2> QED
    BY <1>4, <1>6, <2>1
<1>9. CASE ConnectFails(c)
  <2>1. CASE pair[1] = "SyncClinet"
    <3>1. pair[2] # "resolver"
      BY <1>1, <2>1, Meant DEF EchoServers, LoadClients, Writers, Readers
    <3>2. thr' = Begin(c) /\ link' = link
      BY <1>9, <2>1 DEF ConnectFails
    <3> QED
      BY <1>3, <3>1, <3>2
  <2>2. CASE pair[1] # "SyncClinet"
    <3>1. thr' = [thr EXCEPT ![c].client = Ends(thr[c].client, TRUE)] /\ link' = link
      BY <1>9, <2>2 DEF ConnectFails
    <3> QED
      BY <1>4, <1>7, <3>1
  <2> QED
    BY <2>1, <2>2
<1> QED
  BY <1>5, <1>8, <1>9

\* The server accepts the connection, or the network resets it.
LEMMA LinkData ==
  ASSUME Shape, Data, NEW c \in 1 .. N, Accept(c) \/ AcceptNewConnection(c) \/ Reset(c)
  PROVE  Data'
<1> DEFINE y == Starts("server")
<1>1. /\ UNCHANGED <<pair, sent, heard>> /\ link[c].st \in {"pending", "up"}
      /\ ConnectionOK(pair, thr[c], link[c], sent[c], heard[c]) /\ pair \in Pairs
      /\ DOMAIN thr = 1 .. N /\ DOMAIN thr[c] = Roles
      /\ DOMAIN link = 1 .. N /\ DOMAIN link[c] = LinkFields
  BY DEF Accept, AcceptNewConnection, Reset, Shape, Data
<1>2. ASSUME link[c].st = "pending", link' = [link EXCEPT ![c].st = "up"],
             \/ thr' = thr
             \/ thr' = [thr EXCEPT ![c].server = y] /\ pair[2] # "accpet_new_connection"
      PROVE  Data'
  <2>1. /\ link[c].st = "pending"
        /\ link'[c].st = "up" /\ link'[c].up = link[c].up /\ link'[c].down = link[c].down
        /\ \A d \in 1 .. N : d # c => link'[d] = link[d]
    BY <1>1, <1>2 DEF LinkFields
  <2>2. /\ \/ thr'[c].server = thr[c].server
           \/ thr'[c].server = Starts("server") /\ pair[2] # "accpet_new_connection"
        /\ thr'[c].client = thr[c].client /\ thr'[c].receiver = thr[c].receiver
        /\ \A d \in 1 .. N : d # c => thr'[d] = thr[d]
    <3> HIDE DEF y
    <3>1. /\ \/ thr'[c].server = thr[c].server
             \/ thr'[c].server = y /\ pair[2] # "accpet_new_connection"
          /\ thr'[c].client = thr[c].client /\ thr'[c].receiver = thr[c].receiver
          /\ \A d \in 1 .. N : d # c => thr'[d] = thr[d]
      BY <1>1, <1>2 DEF Roles
    <3> QED
      BY <3>1 DEF y
  <2> HIDE DEF y
  <2>3. ConnectionOK(pair, thr'[c], link'[c], sent[c], heard[c])
    BY <1>1, <2>1, <2>2, AcceptOK
  <2> QED
    BY <1>1, <2>1, <2>2, <2>3, OneConnection
<1>3. CASE Accept(c) \/ AcceptNewConnection(c)
  BY <1>2, <1>3 DEF Accept, AcceptNewConnection
<1>4. CASE Reset(c)
  <2>1. /\ link'[c].st = "reset" /\ thr' = thr /\ \A d \in 1 .. N : d # c => link'[d] = link[d]
    BY <1>1, <1>4 DEF Reset
  <2>2. ConnectionOK(pair, thr'[c], link'[c], sent[c], heard[c])
    BY <1>1, <2>1, ResetOK
  <2> QED
    BY <1>1, <2>1, <2>2, OneConnection
<1> QED
  BY <1>3, <1>4

-----------------------------------------------------------------------------
(* The invariant, and what it says.                                        *)

\* Where the two programs at the ends of a connection are, in bytes written
\* and read, and what is on the way between them: a part of the stream of
\* requests going up, a part of the stream of replies coming down, without a
\* gap.  (SyncServer.cpp session, Coroutine_server.cpp echo, the loops of the
\* clients.)
THEOREM DataInvariant == Spec => []Data
<1>1. Init => Data
  <2> SUFFICES ASSUME Init
               PROVE  Data
    OBVIOUS
  <2> SUFFICES ASSUME NEW c \in 1 .. N
               PROVE  ConnectionOK(pair, thr[c], link[c], sent[c], heard[c])
    BY DEF Data
  <2>1. /\ pair \in Pairs /\ sent[c] = 0 /\ heard[c] = <<>> /\ \A role \in Roles : thr[c][role] = Idle
        /\ link[c] = [st |-> "none", up |-> <<>>, down |-> <<>>]
    BY DEF Init
  <2>2. /\ thr[c].client = Idle /\ thr[c].receiver = Idle /\ thr[c].server = Idle
    BY <2>1 DEF Roles
  <2>3. link[c].st = "none" /\ link[c].up = <<>> /\ link[c].down = <<>>
    BY <2>1
  <2>4. Len(<<>>) = 0 /\ 0 \in Nat /\ 0 - 0 = 0 /\ 0 + 0 = 0 /\ 0 <= 0 /\ 0 <= Total(pair)
    BY <2>1, Totals, EmptySeq
  <2>5. Idle = [Idle EXCEPT !.st = Idle.st]
    BY DEF Idle
  <2>6. ClientOK(pair, Idle, 0, 0) /\ ReceiverOK(pair, Idle)
    BY <2>5, IdleIs DEF ClientOK, ReceiverOK
  <2>7. Flow(pair, Idle, link[c], 0, 0)
    BY <2>3, <2>4, NoPart, IdleIs DEF Flow, ServerOK
  <2> QED
    BY <2>1, <2>2, <2>3, <2>4, <2>6, <2>7, NoPart, IdleIs DEF ConnectionOK
<1>2. Control /\ Data /\ [Next]_vars => Data'
  <2> SUFFICES ASSUME Control, Data, [Next]_vars
               PROVE  Data'
    OBVIOUS
  <2>1. Shape
    BY DEF Control
  <2>2. CASE MainStep
    BY <2>2, MainData
  <2>3. CASE AcceptNewFails \/ ListenerEnds \/ ServerEnds \/ Signal
    <3>1. UNCHANGED <<pair, thr, link, sent, heard>>
      BY <2>3 DEF AcceptNewFails, ListenerEnds, ServerEnds, Signal
    <3> QED
      BY <3>1 DEF Data
  <2>4. ASSUME NEW c \in 1 .. N, ThreadStep(c)
        PROVE  Data'
    <3>1. ASSUME NEW role \in Roles, Moves(c, role)
          PROVE  Data'
      BY <2>1, <3>1, WritesData, ReadsData, FailsData DEF Moves
    <3> QED
      BY <2>1, <2>4, <3>1, ConnectData, LinkData DEF ThreadStep
  <2>5. ASSUME NEW c \in 1 .. N, Reset(c) \/ PeerLeaves(c)
        PROVE  Data'
    BY <2>1, <2>5, LinkData, PeerLeavesData
  <2>6. CASE UNCHANGED vars
    BY <2>6 DEF vars, Data
  <2> QED
    BY <2>2, <2>3, <2>4, <2>5, <2>6 DEF Next
<1> QED
  BY <1>1, <1>2, ControlInvariant, PTL DEF Spec

\* Expected is the stream of the replies, from its first byte on.
LEMMA ExpectedIs ==
  ASSUME pair \in Pairs
  PROVE  /\ Expected \in Seq(Octets(DownBody(pair))) /\ Len(Expected) = Total(pair)
         /\ \A j \in 1 .. Total(pair) : Expected[j] = Octet(DownBody(pair), j)
<1> DEFINE n == DownBody(pair)
           text(r) == IF pair[2] = "frames" THEN Reply(r) ELSE Frame(r)
           size == Len(text(1))
           times == CASE pair[1] \in Writers \cup Connectors -> 0
                      [] pair[1] \in LoadClients \cup {"SyncClinet"} -> Rounds
                      [] OTHER -> 1
           e(j) == text(((j - 1) \div size) + 1)[((j - 1) % size) + 1]
<1>1. n \in Nat /\ \A r : text(r) = Bytes(r, n)
  BY Sizes DEF DownBody, Reply, Frame
<1>2. size = HEAD + n /\ size \in Nat \ {0}
  <2>1. 1 \in Nat \ {0} /\ HEAD + n \in Nat \ {0}
    BY <1>1, Sizes
  <2> HIDE DEF n, text
  <2> QED
    BY <1>1, <2>1, BytesPart
<1>3. times \in Nat /\ times * size = Total(pair)
  <2>1. n = IF pair[1] \in LoadClients THEN BODY + 1 ELSE BODY
    BY Meant DEF DownBody, EchoClients, EchoServers, LoadClients, Writers, Readers
  <2>2. \A i \in Nat : Pos(Rounds + 1, i) = Rounds * (HEAD + i)
    BY Sizes DEF Pos
  <2>3. CASE pair[1] \in Writers \cup Connectors
    <3>1. times = 0
      BY <2>3, Kinds
    <3>2. Total(pair) = 0
      BY <2>3, Totals
    <3> HIDE DEF times, size
    <3> QED
      BY <1>2, <3>1, <3>2
  <2>4. CASE pair[1] \in LoadClients
    <3>1. times = Rounds /\ Total(pair) = Pos(Rounds + 1, BODY + 1) /\ n = BODY + 1
      BY <2>1, <2>4, Kinds, Totals
    <3> HIDE DEF times, size, n
    <3> QED
      BY <1>1, <1>2, <2>2, <3>1, Sizes
  <2>5. CASE pair[1] = "SyncClinet"
    <3>1. times = Rounds /\ Total(pair) = Pos(Rounds + 1, BODY) /\ n = BODY
      BY <2>1, <2>5, Kinds, Totals
    <3> HIDE DEF times, size, n
    <3> QED
      BY <1>1, <1>2, <2>2, <3>1, Sizes
  <2>6. CASE pair[1] \in {"CoroutineTestClient"} \cup Readers
    <3>1. times = 1 /\ Total(pair) = HEAD + BODY /\ n = BODY
      BY <2>1, <2>6, Kinds, Totals
    <3> HIDE DEF times, size, n
    <3> QED
      BY <1>1, <1>2, <3>1
  <2> QED
    BY <2>3, <2>4, <2>5, <2>6, Kinds
<1>4. Expected = [j \in 1 .. Total(pair) |-> e(j)]
  <2>1. Expected = [j \in 1 .. times * size |-> e(j)]
    BY DEF Expected
  <2> HIDE DEF times, size, e
  <2> QED
    BY <1>3, <2>1
<1>5. ASSUME NEW j \in 1 .. Total(pair)
      PROVE  e(j) = Octet(n, j) /\ Octet(n, j) \in Octets(n)
  <2> DEFINE a == (j - 1) \div size
             b == (j - 1) % size
  <2>1. j \in Nat \ {0}
    BY Totals
  <2>2. a \in Nat /\ b \in 0 .. size - 1
    <3> HIDE DEF size
    <3> QED
      BY <1>2, <2>1
  <2>3. e(j) = Bytes(a + 1, n)[b + 1]
    BY <1>1
  <2>4. b + 1 \in 1 .. HEAD + n
    <3> HIDE DEF b, size, n
    <3> QED
      BY <1>2, <2>2
  <2>5. Bytes(a + 1, n)[b + 1] = [r |-> a + 1, i |-> b + 1, n |-> n]
    <3> HIDE DEF a, b, n
    <3> QED
      BY <2>4 DEF Bytes
  <2>6. Octet(n, j) = [r |-> a + 1, i |-> b + 1, n |-> n]
    <3> HIDE DEF n
    <3>1. a = (j - 1) \div (HEAD + n) /\ b = (j - 1) % (HEAD + n)
      BY <1>2
    <3> HIDE DEF a, b
    <3> QED
      BY <3>1 DEF Octet
  <2>7. Octet(n, j) \in Octets(n)
    <3> HIDE DEF n
    <3> QED
      BY <1>1, <2>1, OctetIn
  <2> QED
    BY <2>3, <2>5, <2>6, <2>7
<1> HIDE DEF e, n
<1>6. Expected \in [1 .. Total(pair) -> Octets(n)] /\ Total(pair) \in Nat
  BY <1>4, <1>5, Totals
<1>7. Expected \in Seq(Octets(n)) /\ Len(Expected) = Total(pair)
  BY <1>6
<1> QED
  BY <1>4, <1>5, <1>7 DEF n

\* Two parts of a stream from the same byte on, of the same length.
LEMMA SameParts ==
  ASSUME NEW q, NEW e, NEW n, NEW from, Part(q, n, from), Part(e, n, from), Len(q) = Len(e)
  PROVE  q = e
<1>1. q \in Seq(Octets(n)) /\ e \in Seq(Octets(n)) /\ \A j \in 1 .. Len(q) : q[j] = e[j]
  BY DEF Part
<1> QED
  BY <1>1, SeqEqual

\* What a client reads: for every pair of a client and a server, any number
\* of rounds and sizes of head, body and buffers, and however the network and
\* the threads cut the stream, the replies in their order and byte by byte,
\* and all of them where its thread ends without an error.
THEOREM RepliesMatchHolds == Spec => []RepliesMatch
<1>1. Shape /\ Data => RepliesMatch
  <2> SUFFICES ASSUME Shape, Data, NEW c \in 1 .. N
               PROVE  /\ IsPrefix(heard[c], Expected)
                      /\ LET th == thr[c].client
                         IN  th.st \in {"ended", "joined"} /\ ~th.failed =>
                               /\ \/ heard[c] = Expected
                                  \/ pair[1] = "read_data_bye_receive" /\ heard[c] # <<>>
                               /\ pair[1] \in Writers \ {"send_data_by_send"} => sent[c] = HEAD + BODY
    BY DEF RepliesMatch
  <2> DEFINE h == heard[c]
             n == DownBody(pair)
  <2>1. /\ pair \in Pairs /\ ConnectionOK(pair, thr[c], link[c], sent[c], h)
    BY DEF Shape, Data
  <2>2. Part(h, n, 0) /\ Len(h) <= Total(pair) /\ ClientOK(pair, thr[c].client, sent[c], Len(h))
    BY <2>1 DEF ConnectionOK
  <2>3. Part(Expected, n, 0) /\ Len(Expected) = Total(pair) /\ Total(pair) \in Nat /\ n \in Nat
    <3>1. \A j \in 1 .. Total(pair) : 0 + j = j
      BY <2>1, Totals
    <3>2. n \in Nat
      BY Sizes DEF DownBody
    <3> QED
      BY <2>1, <3>1, <3>2, ExpectedIs, Totals DEF Part
  <2>4. h \in Seq(Octets(n)) /\ Len(h) \in Nat
    BY <2>2 DEF Part
  <2> HIDE DEF h, n
  <2>5. IsPrefix(h, Expected)
    <3> DEFINE i == Len(h)
    <3>1. i \in 0 .. Len(h) /\ i \in 0 .. Len(Expected)
      BY <2>2, <2>3, <2>4
    <3>2. Part(SubSeq(h, 1, i), n, 0) /\ Len(SubSeq(h, 1, i)) = i
      <4> HIDE DEF i
      <4> QED
        BY <2>2, <2>3, <3>1, PartSplit
    <3>3. Part(SubSeq(Expected, 1, i), n, 0) /\ Len(SubSeq(Expected, 1, i)) = i
      <4> HIDE DEF i
      <4> QED
        BY <2>3, <3>1, PartSplit
    <3>4. SubSeq(h, 1, i) = SubSeq(Expected, 1, i)
      BY <3>2, <3>3, SameParts
    <3> QED
      BY <2>2, <2>3, <3>4 DEF IsPrefix
  <2>6. ASSUME thr[c].client.st \in {"ended", "joined"}, ~thr[c].client.failed
        PROVE  /\ h = Expected \/ (pair[1] = "read_data_bye_receive" /\ h # <<>>)
               /\ pair[1] \in Writers \ {"send_data_by_send"} => sent[c] = HEAD + BODY
    <3>1. Finished(pair, sent[c], Len(h))
      BY <2>2, <2>6 DEF ClientOK
    <3>2. Len(h) = Total(pair) => h = Expected
      BY <2>2, <2>3, SameParts
    <3>3. Len(h) > 0 => h # <<>>
      BY EmptySeq
    <3> QED
      BY <3>1, <3>2, <3>3 DEF Finished
  <2> QED
    BY <2>5, <2>6 DEF h
<1>2. Control => Shape
  BY DEF Control
<1> QED
  BY <1>1, <1>2, ControlInvariant, DataInvariant, PTL

-----------------------------------------------------------------------------
(* Induction, with a set in the place of the predicate.                    *)

\* A set with 0, and with the successor of each of its numbers, has them all.
LEMMA CountUp ==
  ASSUME NEW S, 0 \in S, \A n \in Nat : n \in S => n + 1 \in S
  PROVE  Nat \subseteq S
<1> DEFINE T == Nat \ S
<1>1. ASSUME T # {}
      PROVE  FALSE
  <2>1. IsWellFoundedOn(OpToRel(<, Nat), Nat)
    BY NatLessThanWellFounded
  <2>2. PICK x \in T : \A y \in T : ~(<<y, x>> \in OpToRel(<, Nat))
    <3>1. T \subseteq Nat
      OBVIOUS
    <3> HIDE DEF T
    <3> QED
      BY <1>1, <2>1, <3>1, WFMin
  <2>3. x # 0 /\ x \in Nat /\ x - 1 \in Nat /\ x - 1 < x /\ (x - 1) + 1 = x
    OBVIOUS
  <2>4. <<x - 1, x>> \in OpToRel(<, Nat)
    BY <2>3 DEF OpToRel
  <2>5. x - 1 \in S
    BY <2>2, <2>3, <2>4
  <2> QED
    BY <2>3, <2>5
<1> QED
  BY <1>1

-----------------------------------------------------------------------------
(* The two loops over items, one that reads them and one that adds up      *)
(* their sizes, are folds, and a fold is a function of the sets of indices *)
(* that it has gone through.                                               *)

Round(loop, class, s, item) == IF loop = "parse" THEN ParseItem(class, s, item)
                               ELSE s + ItemSize(item)

Parsed(class, s, items) == FoldLeft(LAMBDA t, item : ParseItem(class, t, item), s, items)

IsLoop(loop, class, base, items, g, S) ==
  g = [s \in SUBSET S |-> IF s = {} THEN base
                          ELSE Round(loop, class, g[s \ {Max(s)}], items[Max(s)])]

\* The greatest of some of the first n + 1 numbers, if n + 1 is among them.
LEMMA MaxIs ==
  ASSUME NEW n \in Nat, NEW s \in SUBSET (1 .. n + 1), n + 1 \in s
  PROVE  Max(s) = n + 1
<1>1. \A x \in s : x <= n + 1 /\ x \in Nat
  OBVIOUS
<1>2. \A x \in s : (\A y \in s : x >= y) <=> x = n + 1
  BY <1>1
<1> QED
  BY <1>2 DEF Max

\* There is such a function: it is built up one item at a time.
LEMMA LoopExists ==
  ASSUME NEW loop, NEW class, NEW base, NEW items, NEW n \in Nat
  PROVE  \E g : IsLoop(loop, class, base, items, g, 1 .. n)
<1> DEFINE D(k) == SUBSET (1 .. k)
           S == {k \in Nat : \E g : IsLoop(loop, class, base, items, g, 1 .. k)}
<1>1. 0 \in S
  <2> DEFINE g == [s \in D(0) |-> base]
  <2>1. D(0) = {{}}
    OBVIOUS
  <2>2. IsLoop(loop, class, base, items, g, 1 .. 0)
    BY <2>1 DEF IsLoop
  <2> HIDE DEF g
  <2> QED
    BY <2>2
<1>2. ASSUME NEW k \in Nat, k \in S
      PROVE  k + 1 \in S
  <2>1. PICK g : IsLoop(loop, class, base, items, g, 1 .. k)
    BY <1>2
  <2> DEFINE step(q, s) == IF s = {} THEN base
                           ELSE Round(loop, class, q[s \ {Max(s)}], items[Max(s)])
             h == [s \in D(k + 1) |-> IF k + 1 \in s
                                      THEN Round(loop, class, g[s \ {k + 1}], items[k + 1])
                                      ELSE g[s]]
  <2>2. g = [s \in D(k) |-> step(g, s)]
    BY <2>1 DEF IsLoop
  <2>3. ASSUME NEW s \in D(k + 1)
        PROVE  h[s] = step(h, s)
    <3>1. CASE k + 1 \in s
      <4>1. Max(s) = k + 1
        BY <3>1, MaxIs
      <4>2. s \ {k + 1} \in D(k + 1) /\ k + 1 \notin s \ {k + 1} /\ s # {}
        BY <3>1
      <4>3. h[s \ {k + 1}] = g[s \ {k + 1}]
        BY <4>2
      <4> QED
        BY <3>1, <4>1, <4>2, <4>3
    <3>2. CASE k + 1 \notin s
      <4>1. s \in D(k) /\ s \ {Max(s)} \in D(k + 1) /\ k + 1 \notin s \ {Max(s)}
        <5>1. \A i \in 1 .. k + 1 : i # k + 1 => i \in 1 .. k
          OBVIOUS
        <5> QED
          BY <3>2, <5>1
      <4>2. h[s] = g[s] /\ h[s \ {Max(s)}] = g[s \ {Max(s)}]
        BY <3>2, <4>1
      <4> HIDE DEF h
      <4> QED
        BY <2>2, <4>1, <4>2
    <3> QED
      BY <3>1, <3>2
  <2>4. h = [s \in D(k + 1) |-> step(h, s)]
    <3>1. h = [s \in D(k + 1) |-> h[s]]
      OBVIOUS
    <3> HIDE DEF h, D
    <3> QED
      BY <2>3, <3>1
  <2> HIDE DEF h
  <2>5. IsLoop(loop, class, base, items, h, 1 .. k + 1)
    BY <2>4 DEF IsLoop
  <2> QED
    BY <2>5
<1> HIDE DEF S
<1>3. n \in S
  BY <1>1, <1>2, CountUp
<1> QED
  BY <1>3 DEF S

\* The states of a loop between the items.
IsRun(loop, class, base, items, r) ==
  /\ DOMAIN r = 0 .. Len(items) /\ r[0] = base
  /\ \A i \in 1 .. Len(items) : r[i] = Round(loop, class, r[i - 1], items[i])

\* The values of the function on the sets 1 .. i are the states of the loop.
LEMMA LoopRuns ==
  ASSUME NEW loop, NEW class, NEW base, NEW T, NEW items \in Seq(T), NEW g,
         IsLoop(loop, class, base, items, g, 1 .. Len(items))
  PROVE  IsRun(loop, class, base, items, [i \in 0 .. Len(items) |-> g[1 .. i]])
<1> DEFINE n == Len(items)
           r == [i \in 0 .. n |-> g[1 .. i]]
<1>1. n \in Nat /\ DOMAIN items = 1 .. n
  OBVIOUS
<1>2. \A s \in SUBSET (1 .. n) : g[s] = IF s = {} THEN base
                                        ELSE Round(loop, class, g[s \ {Max(s)}], items[Max(s)])
  BY DEF IsLoop
<1>3. ASSUME NEW i \in 1 .. n
      PROVE  r[i] = Round(loop, class, r[i - 1], items[i])
  <2>1. /\ i - 1 \in Nat /\ (i - 1) + 1 = i /\ 1 .. i \in SUBSET (1 .. n) /\ i \in 1 .. i
        /\ (1 .. i) \ {i} = 1 .. i - 1 /\ i \in 0 .. n /\ i - 1 \in 0 .. n
    BY <1>1
  <2>2. Max(1 .. i) = i
    BY <2>1, MaxIs
  <2>3. g[1 .. i] = Round(loop, class, g[1 .. i - 1], items[i])
    BY <1>2, <2>1, <2>2
  <2> QED
    BY <2>1, <2>3
<1>4. r[0] = base
  <2>1. 1 .. 0 = {} /\ {} \in SUBSET (1 .. n) /\ 0 \in 0 .. n
    BY <1>1
  <2> QED
    BY <1>2, <2>1
<1>5. DOMAIN r = 0 .. n
  BY <1>1
<1> HIDE DEF r
<1> QED
  BY <1>3, <1>4, <1>5 DEF IsRun, r

\* The folds of the code are the loops.
LEMMA ParsedRuns ==
  ASSUME NEW class, NEW base, NEW T, NEW items \in Seq(T)
  PROVE  \E r : /\ IsRun("parse", class, base, items, r)
                /\ Parsed(class, base, items) = r[Len(items)]
<1> DEFINE n == Len(items)
           Is(g) == g = [s \in SUBSET (1 .. n) |->
                           IF s = {} THEN base
                           ELSE ParseItem(class, g[s \ {Max(s)}], items[Max(s)])]
           g == CHOOSE g : Is(g)
           r == [i \in 0 .. n |-> g[1 .. i]]
<1>1. n \in Nat /\ DOMAIN items = 1 .. n
  OBVIOUS
<1>2. \A h : Is(h) <=> IsLoop("parse", class, base, items, h, 1 .. n)
  BY DEF IsLoop, Round
<1>3. Is(g)
  <2>1. \E h : Is(h)
    <3> HIDE DEF Is, n
    <3> QED
      BY <1>1, <1>2, LoopExists
  <2> HIDE DEF Is
  <2> QED
    BY <2>1
<1>4. Parsed(class, base, items) = g[1 .. n]
  BY <1>1 DEF Parsed, FoldLeft, MapThenFoldSet
<1> HIDE DEF g
<1>5. IsRun("parse", class, base, items, r)
  <2>1. IsLoop("parse", class, base, items, g, 1 .. n)
    BY <1>2, <1>3
  <2> QED
    BY <2>1, LoopRuns
<1>6. r[n] = g[1 .. n]
  BY <1>1
<1> QED
  BY <1>4, <1>5, <1>6

\* The sum of the sizes as well.
LEMMA SizeRuns ==
  ASSUME NEW T, NEW items \in Seq(T)
  PROVE  \E r : IsRun("size", <<>>, 0, items, r) /\ SizeOf(items) = r[Len(items)]
<1> DEFINE n == Len(items)
           Is(g) == g = [s \in SUBSET (1 .. n) |->
                           IF s = {} THEN 0
                           ELSE g[s \ {Max(s)}] + ItemSize(items[Max(s)])]
           g == CHOOSE g : Is(g)
           r == [i \in 0 .. n |-> g[1 .. i]]
<1>1. n \in Nat /\ DOMAIN items = 1 .. n
  OBVIOUS
<1>2. \A h : Is(h) <=> IsLoop("size", <<>>, 0, items, h, 1 .. n)
  BY DEF IsLoop, Round
<1>3. Is(g)
  <2>1. \E h : Is(h)
    <3> HIDE DEF Is, n
    <3> QED
      BY <1>1, <1>2, LoopExists
  <2> HIDE DEF Is
  <2> QED
    BY <2>1
<1>4. SizeOf(items) = g[1 .. n]
  BY <1>1 DEF SizeOf, FoldLeft, MapThenFoldSet
<1> HIDE DEF g
<1>5. IsRun("size", <<>>, 0, items, r)
  <2>1. IsLoop("size", <<>>, 0, items, g, 1 .. n)
    BY <1>2, <1>3
  <2> QED
    BY <2>1, LoopRuns
<1>6. r[n] = g[1 .. n]
  BY <1>1
<1> QED
  BY <1>4, <1>5, <1>6

\* A run over two sequences is a run over the first, and one over the second
\* from there on.
LEMMA RunsOn ==
  ASSUME NEW loop, NEW class, NEW base, NEW T, NEW a \in Seq(T), NEW b \in Seq(T),
         NEW r, IsRun(loop, class, base, a \o b, r),
         NEW ra, IsRun(loop, class, base, a, ra),
         NEW rb, IsRun(loop, class, ra[Len(a)], b, rb)
  PROVE  r[Len(a \o b)] = rb[Len(b)]
<1> DEFINE m == Len(a)
           n == Len(b)
<1>1. /\ m \in Nat /\ n \in Nat /\ Len(a \o b) = m + n
      /\ \A i \in 1 .. m : i \in 1 .. m + n /\ (a \o b)[i] = a[i]
      /\ \A i \in 1 .. n : m + i \in 1 .. m + n /\ (a \o b)[m + i] = b[i]
  OBVIOUS
<1>2. /\ r[0] = base /\ ra[0] = base /\ rb[0] = ra[m]
      /\ \A i \in 1 .. m + n : r[i] = Round(loop, class, r[i - 1], (a \o b)[i])
      /\ \A i \in 1 .. m : ra[i] = Round(loop, class, ra[i - 1], a[i])
      /\ \A i \in 1 .. n : rb[i] = Round(loop, class, rb[i - 1], b[i])
  BY <1>1 DEF IsRun
<1> HIDE DEF m, n
<1>3. r[m] = ra[m]
  <2> DEFINE S == {i \in Nat : i <= m => r[i] = ra[i]}
  <2>1. 0 \in S
    BY <1>2
  <2>2. ASSUME NEW i \in Nat, i \in S
        PROVE  i + 1 \in S
    <3> SUFFICES ASSUME i + 1 <= m
                 PROVE  r[i + 1] = ra[i + 1]
      OBVIOUS
    <3>1. i + 1 \in 1 .. m /\ i <= m /\ (i + 1) - 1 = i
      BY <1>1
    <3>2. r[i] = ra[i]
      BY <2>2, <3>1
    <3> QED
      BY <1>1, <1>2, <3>1, <3>2
  <2> HIDE DEF S
  <2>3. m \in S
    BY <1>1, <2>1, <2>2, CountUp
  <2> QED
    BY <1>1, <2>3 DEF S
<1>4. r[m + n] = rb[n]
  <2> DEFINE S == {i \in Nat : i <= n => r[m + i] = rb[i]}
  <2>1. 0 \in S
    <3>1. m + 0 = m
      BY <1>1
    <3> QED
      BY <1>2, <1>3, <3>1
  <2>2. ASSUME NEW i \in Nat, i \in S
        PROVE  i + 1 \in S
    <3> SUFFICES ASSUME i + 1 <= n
                 PROVE  r[m + (i + 1)] = rb[i + 1]
      OBVIOUS
    <3>1. /\ i + 1 \in 1 .. n /\ i <= n /\ (i + 1) - 1 = i
          /\ m + (i + 1) \in 1 .. m + n /\ (m + (i + 1)) - 1 = m + i
      BY <1>1
    <3>2. r[m + i] = rb[i] /\ (a \o b)[m + (i + 1)] = b[i + 1]
      BY <1>1, <2>2, <3>1
    <3>3. r[m + (i + 1)] = Round(loop, class, r[m + i], b[i + 1])
      BY <1>2, <3>1, <3>2
    <3> QED
      BY <1>2, <3>1, <3>2, <3>3
  <2> HIDE DEF S
  <2>3. n \in S
    BY <1>1, <2>1, <2>2, CountUp
  <2> QED
    BY <1>1, <2>3 DEF S
<1> QED
  BY <1>1, <1>4 DEF n

\* What is read of nothing, of one item, and of two sequences.
LEMMA ParsedEmpty ==
  ASSUME NEW class, NEW s
  PROVE  Parsed(class, s, <<>>) = s
<1>1. PICK r : IsRun("parse", class, s, <<>>, r) /\ Parsed(class, s, <<>>) = r[Len(<<>>)]
  <2>1. <<>> \in Seq({})
    OBVIOUS
  <2> QED
    BY <2>1, ParsedRuns
<1>2. Len(<<>>) = 0
  OBVIOUS
<1> QED
  BY <1>1, <1>2 DEF IsRun

\* One item is one round,
LEMMA ParsedOne ==
  ASSUME NEW class, NEW s, NEW x
  PROVE  Parsed(class, s, <<x>>) = ParseItem(class, s, x)
<1>1. PICK r : IsRun("parse", class, s, <<x>>, r) /\ Parsed(class, s, <<x>>) = r[Len(<<x>>)]
  <2>1. <<x>> \in Seq({x})
    OBVIOUS
  <2> QED
    BY <2>1, ParsedRuns
<1>2. Len(<<x>>) = 1 /\ <<x>>[1] = x /\ 1 \in 1 .. 1 /\ 1 - 1 = 0
  OBVIOUS
<1>3. r[1] = Round("parse", class, r[0], x) /\ r[0] = s
  BY <1>1, <1>2 DEF IsRun
<1> QED
  BY <1>1, <1>2, <1>3 DEF Round

\* and two sequences are read one after the other.
LEMMA ParsedConcat ==
  ASSUME NEW class, NEW s, NEW T, NEW a \in Seq(T), NEW b \in Seq(T)
  PROVE  Parsed(class, s, a \o b) = Parsed(class, Parsed(class, s, a), b)
<1>1. PICK ra : IsRun("parse", class, s, a, ra) /\ Parsed(class, s, a) = ra[Len(a)]
  BY ParsedRuns
<1>2. PICK rb : /\ IsRun("parse", class, Parsed(class, s, a), b, rb)
                /\ Parsed(class, Parsed(class, s, a), b) = rb[Len(b)]
  BY ParsedRuns
<1>3. PICK r : IsRun("parse", class, s, a \o b, r) /\ Parsed(class, s, a \o b) = r[Len(a \o b)]
  <2>1. a \o b \in Seq(T)
    OBVIOUS
  <2> QED
    BY <2>1, ParsedRuns
<1> QED
  BY <1>1, <1>2, <1>3, RunsOn

-----------------------------------------------------------------------------
(* What travels, and what a Book may hold.                                 *)

\* The parts of the strings.
Parts == STRING \cup {"?", Prefix}

\* The type of the value goes with the type on the wire.
WireItems ==
  {item \in [num : Nat, wt : {"len", "varint", "fixed32", "end"},
             val : Seq(Parts) \cup Int, cut : BOOLEAN] :
     /\ item.wt = "len" => item.val \in Seq(Parts)
     /\ item.wt = "varint" => item.val \in Int
     /\ item.wt \in {"fixed32", "end"} => item.val \in Nat}

Known(item) == item.num \in DOMAIN Book /\ item.wt = WireType(Book[item.num])
Kept == {item \in WireItems : ~item.cut /\ item.wt # "end" /\ ~Known(item)}

Values == {f \in [1 .. 3 -> Seq(Parts) \cup Int] :
             f[1] \in Seq(Parts) /\ f[2] \in Int /\ f[3] \in Nat}
Books == [f : Values, unknown : Seq(Kept)]
States == [msg : Books, ok : BOOLEAN, left : BOOLEAN]

\* The fields of a Book.
LEMMA BookIs ==
  /\ DOMAIN Book = 1 .. 3 /\ Len(Book) = 3 /\ 1 .. 3 = {1, 2, 3}
  /\ Book[1] = "string" /\ Book[2] = "int32" /\ Book[3] = "float"
  BY DEF Book

\* A field that is known has the type of its kind.
LEMMA KnownIs ==
  ASSUME NEW item \in WireItems
  PROVE  /\ Known(item) <=> \/ item.num = 1 /\ item.wt = "len"
                            \/ item.num = 2 /\ item.wt = "varint"
                            \/ item.num = 3 /\ item.wt = "fixed32"
         /\ item.wt = "len" => item.val \in Seq(Parts)
         /\ item.wt = "varint" => item.val \in Int
         /\ item.wt = "fixed32" => item.val \in Nat
<1>1. WireType("string") = "len" /\ WireType("int32") = "varint" /\ WireType("float") = "fixed32"
  BY DEF WireType
<1>2. Known(item) <=> \/ item.num = 1 /\ item.wt = "len"
                      \/ item.num = 2 /\ item.wt = "varint"
                      \/ item.num = 3 /\ item.wt = "fixed32"
  BY <1>1, BookIs DEF Known
<1> QED
  BY <1>2 DEF WireItems

\* The loop of _InternalParse keeps the message a Book.
LEMMA SetsField ==
  ASSUME NEW s \in States, NEW num \in 1 .. 3, NEW val \in Seq(Parts) \cup Int,
         /\ num = 1 => val \in Seq(Parts)
         /\ num = 2 => val \in Int
         /\ num = 3 => val \in Nat
  PROVE  [s EXCEPT !.msg.f[num] = val] \in States
<1> DEFINE f == [s.msg.f EXCEPT ![num] = val]
<1>1. s.msg \in Books /\ s.msg.f \in Values
  BY DEF States, Books
<1>2. f \in Values
  <2>1. /\ DOMAIN f = 1 .. 3 /\ f[1] \in Seq(Parts) /\ f[2] \in Int /\ f[3] \in Nat
    BY <1>1, BookIs DEF Values
  <2>2. \A i \in 1 .. 3 : f[i] \in Seq(Parts) \cup Int
    BY <1>1 DEF Values
  <2>3. f \in [1 .. 3 -> Seq(Parts) \cup Int]
    BY <1>1, <2>2 DEF Values
  <2> HIDE DEF f
  <2> QED
    BY <2>1, <2>3 DEF Values
<1>3. [s EXCEPT !.msg.f[num] = val] = [s EXCEPT !.msg.f = f]
  BY <1>1 DEF States, Books
<1> HIDE DEF f
<1> QED
  BY <1>1, <1>2, <1>3 DEF States, Books

\* So does each round,
LEMMA RoundType ==
  ASSUME NEW s \in States, NEW item \in WireItems
  PROVE  ParseItem(Book, s, item) \in States
<1> DEFINE t == ParseFails(s)
           set(q, val) == [q EXCEPT !.msg.f[item.num] = val]
           next == ParseItem(Book, s, item)
<1>1. t \in States
  BY DEF ParseFails, States
<1>2. CASE s.left
  BY <1>2 DEF ParseItem
<1>3. CASE ~s.left /\ ~Known(item)
  <2>1. next = HandleUnusual(s, item)
    BY <1>3 DEF ParseItem, Known
  <2>2. CASE item.cut \/ item.wt = "end"
    <3>1. next = t
      BY <2>1, <2>2 DEF HandleUnusual
    <3> HIDE DEF t
    <3> QED
      BY <1>1, <3>1
  <2>3. CASE ~(item.cut \/ item.wt = "end")
    <3>1. item \in Kept /\ s.msg.unknown \in Seq(Kept)
      BY <1>3, <2>3 DEF Kept, States, Books
    <3>2. Append(s.msg.unknown, item) \in Seq(Kept)
      BY <3>1
    <3>3. next = [s EXCEPT !.msg.unknown = Append(s.msg.unknown, item)]
      BY <2>1, <2>3 DEF HandleUnusual
    <3>4. [s EXCEPT !.msg.unknown = Append(s.msg.unknown, item)] \in States
      BY <3>2 DEF States, Books
    <3> QED
      BY <3>3, <3>4
  <2> QED
    BY <2>2, <2>3
<1>4. CASE ~s.left /\ Known(item)
  <2>1. /\ item.num \in 1 .. 3 /\ item.val \in Seq(Parts) \cup Int
        /\ item.num = 1 => item.val \in Seq(Parts)
        /\ item.num = 2 => item.val \in Int
        /\ item.num = 3 => item.val \in Nat
    BY <1>4, KnownIs
  <2>2. LET g == Garbage(Book[item.num])
        IN  /\ g \in Seq(Parts) \cup Int
            /\ item.num = 1 => g \in Seq(Parts)
            /\ item.num = 2 => g \in Int
            /\ item.num = 3 => g \in Nat
    <3>1. <<"?">> \in Seq(Parts)
      <4>1. \A T, x : x \in T => <<x>> \in Seq(T)
        OBVIOUS
      <4>2. "?" \in Parts
        BY DEF Parts
      <4> QED
        BY <4>1, <4>2
    <3>2. /\ Garbage("string") = <<"?">> /\ Garbage("int32") = 3 /\ Garbage("float") = 3
      BY DEF Garbage
    <3>3. item.num \in {1, 2, 3}
      BY <2>1, BookIs
    <3>4. CASE item.num = 1
      BY <3>1, <3>2, <3>4, BookIs
    <3>5. CASE item.num = 2
      BY <3>2, <3>5, BookIs
    <3>6. CASE item.num = 3
      BY <3>2, <3>6, BookIs
    <3> QED
      BY <3>3, <3>4, <3>5, <3>6
  <2>3. next \in {set(t, Garbage(Book[item.num])), set(t, item.val), set(s, item.val)}
    BY <1>4 DEF ParseItem, Known
  <2> HIDE DEF t, next
  <2>4. set(t, item.val) \in States /\ set(s, item.val) \in States
    BY <1>1, <2>1, SetsField
  <2>5. set(t, Garbage(Book[item.num])) \in States
    BY <1>1, <2>1, <2>2, SetsField
  <2> QED
    BY <2>3, <2>4, <2>5 DEF next
<1> QED
  BY <1>2, <1>3, <1>4

\* and the loop as a whole.
LEMMA ParsedType ==
  ASSUME NEW s \in States, NEW items \in Seq(WireItems)
  PROVE  Parsed(Book, s, items) \in States
<1> DEFINE n == Len(items)
<1>1. PICK r : IsRun("parse", Book, s, items, r) /\ Parsed(Book, s, items) = r[n]
  BY ParsedRuns
<1>2. /\ n \in Nat /\ \A i \in 1 .. n : items[i] \in WireItems
  OBVIOUS
<1>3. r[0] = s /\ \A i \in 1 .. n : r[i] = ParseItem(Book, r[i - 1], items[i])
  BY <1>1 DEF IsRun, Round
<1> DEFINE S == {i \in Nat : i <= n => r[i] \in States}
<1> HIDE DEF n
<1>4. 0 \in S
  BY <1>3
<1>5. ASSUME NEW i \in Nat, i \in S
      PROVE  i + 1 \in S
  <2> SUFFICES ASSUME i + 1 <= n
               PROVE  r[i + 1] \in States
    OBVIOUS
  <2>1. i + 1 \in 1 .. n /\ i <= n /\ (i + 1) - 1 = i
    BY <1>2
  <2>2. r[i] \in States
    BY <1>5, <2>1
  <2> QED
    BY <1>2, <1>3, <2>1, <2>2, RoundType
<1> HIDE DEF S
<1>6. n \in S
  BY <1>2, <1>4, <1>5, CountUp
<1> QED
  BY <1>1, <1>2, <1>6 DEF S

\* What is written of a Book, item by item.
LEMMA FlattenThree ==
  ASSUME NEW T, NEW w \in [1 .. 3 -> Seq(T)]
  PROVE  FlattenSeq(w) = (w[1] \o w[2]) \o w[3]
<1> DEFINE Is(h) == h = [i \in 1 .. 3 |-> IF i = 1 THEN w[i] ELSE h[i - 1] \o w[i]]
           g == CHOOSE h : Is(h)
           e == [i \in 1 .. 3 |-> IF i = 1 THEN w[1]
                                  ELSE IF i = 2 THEN w[1] \o w[2] ELSE (w[1] \o w[2]) \o w[3]]
<1>1. Len(w) = 3
  <2>1. \A q : \A n \in Nat : DOMAIN q = 1 .. n => Len(q) = n
    OBVIOUS
  <2> QED
    BY <2>1
<1>2. FlattenSeq(w) = g[3]
  BY <1>1 DEF FlattenSeq
<1>3. Is(e)
  <2>1. e[1] = w[1] /\ e[2] = w[1] \o w[2] /\ e[3] = (w[1] \o w[2]) \o w[3]
    OBVIOUS
  <2>2. \A i \in 1 .. 3 : e[i] = IF i = 1 THEN w[i] ELSE e[i - 1] \o w[i]
    <3> HIDE DEF e
    <3>1. \A i \in 1 .. 3 : i = 1 \/ (i # 1 /\ i = 2 /\ i - 1 = 1) \/ (i # 1 /\ i = 3 /\ i - 1 = 2)
      OBVIOUS
    <3>2. e[2] = e[1] \o w[2] /\ e[3] = e[2] \o w[3]
      BY <2>1
    <3> QED
      BY <2>1, <3>1, <3>2
  <2>3. e = [i \in 1 .. 3 |-> e[i]]
    OBVIOUS
  <2> HIDE DEF e
  <2> QED
    BY <2>2, <2>3
<1>4. Is(g)
  <2> HIDE DEF Is, e
  <2> QED
    BY <1>3
<1> HIDE DEF g, e
<1>5. g[1] = w[1] /\ g[2] = g[1] \o w[2] /\ g[3] = g[2] \o w[3]
  <2>1. 1 \in 1 .. 3 /\ 2 \in 1 .. 3 /\ 3 \in 1 .. 3 /\ 2 - 1 = 1 /\ 3 - 1 = 2 /\ 2 # 1 /\ 3 # 1
    OBVIOUS
  <2>2. \A i \in 1 .. 3 : g[i] = IF i = 1 THEN w[i] ELSE g[i - 1] \o w[i]
    BY <1>4
  <2> QED
    BY <2>1, <2>2
<1> QED
  BY <1>2, <1>5

\* What is written of a field is an item that a Book knows.
LEMMA WrittenType ==
  ASSUME NEW m \in Books, NEW num \in 1 .. 3
  PROVE  /\ Written(Book, m, num) \in Seq(WireItems)
         /\ m.f[num] # Default(Book[num]) =>
              /\ Item(num, WireType(Book[num]), m.f[num]) \in WireItems
              /\ Known(Item(num, WireType(Book[num]), m.f[num]))
<1>1. m.f \in Values
  BY DEF Books
<1> DEFINE item == Item(num, WireType(Book[num]), m.f[num])
<1>2. item.num = num /\ item.wt = WireType(Book[num]) /\ item.val = m.f[num] /\ item.cut = FALSE
  BY DEF Item
<1>3. item \in WireItems
  <2>1. WireType("string") = "len" /\ WireType("int32") = "varint" /\ WireType("float") = "fixed32"
    BY DEF WireType
  <2>2. item \in [num : Nat, wt : {"len", "varint", "fixed32", "end"},
                  val : Seq(Parts) \cup Int, cut : BOOLEAN]
    BY <1>1, <2>1, BookIs DEF Item, Values
  <2> HIDE DEF item
  <2> QED
    BY <1>1, <1>2, <2>1, <2>2, BookIs DEF WireItems, Values
<1>4. Known(item)
  BY <1>2, BookIs DEF Known
<1>5. <<item>> \in Seq(WireItems) /\ <<>> \in Seq(WireItems)
  <2> HIDE DEF item
  <2> QED
    BY <1>3
<1> QED
  BY <1>3, <1>4, <1>5 DEF Written

\* What is written of a Book.
LEMMA SerializedIs ==
  ASSUME NEW m \in Books
  PROVE  /\ InternalSerialize(Book, m) =
              ((Written(Book, m, 1) \o Written(Book, m, 2)) \o Written(Book, m, 3)) \o m.unknown
         /\ m.unknown \in Seq(Kept) /\ m.unknown \in Seq(WireItems)
         /\ InternalSerialize(Book, m) \in Seq(WireItems)
<1> DEFINE w == [num \in 1 .. Len(Book) |-> Written(Book, m, num)]
<1>1. w \in [1 .. 3 -> Seq(WireItems)]
  BY WrittenType, BookIs
<1>2. w[1] = Written(Book, m, 1) /\ w[2] = Written(Book, m, 2) /\ w[3] = Written(Book, m, 3)
  BY BookIs
<1>3. InternalSerialize(Book, m) = FlattenSeq(w) \o m.unknown
  BY DEF InternalSerialize
<1>4. m.unknown \in Seq(Kept) /\ m.unknown \in Seq(WireItems)
  <2>1. m.unknown \in Seq(Kept) /\ Kept \subseteq WireItems
    BY DEF Books, Kept
  <2> QED
    BY <2>1
<1> HIDE DEF w
<1>5. FlattenSeq(w) = (w[1] \o w[2]) \o w[3]
  BY <1>1, FlattenThree
<1>6. w[1] \in Seq(WireItems) /\ w[2] \in Seq(WireItems) /\ w[3] \in Seq(WireItems)
  BY <1>1
<1>7. ((w[1] \o w[2]) \o w[3]) \o m.unknown \in Seq(WireItems)
  BY <1>4, <1>6
<1> QED
  BY <1>2, <1>3, <1>4, <1>5, <1>7

-----------------------------------------------------------------------------
(* What is written is read again.                                          *)

Begun(m) == [msg |-> m, ok |-> TRUE, left |-> FALSE]

\* Once the loop has been left nothing more is read.
LEMMA ParsedLeft ==
  ASSUME NEW class, NEW s, s.left, NEW T, NEW items \in Seq(T)
  PROVE  Parsed(class, s, items) = s
<1> DEFINE n == Len(items)
<1>1. PICK r : IsRun("parse", class, s, items, r) /\ Parsed(class, s, items) = r[n]
  BY ParsedRuns
<1>2. n \in Nat
  OBVIOUS
<1>3. r[0] = s /\ \A i \in 1 .. n : r[i] = ParseItem(class, r[i - 1], items[i])
  BY <1>1 DEF IsRun, Round
<1> DEFINE S == {i \in Nat : i <= n => r[i] = s}
<1> HIDE DEF n
<1>4. 0 \in S
  BY <1>3
<1>5. ASSUME NEW i \in Nat, i \in S
      PROVE  i + 1 \in S
  <2> SUFFICES ASSUME i + 1 <= n
               PROVE  r[i + 1] = s
    OBVIOUS
  <2>1. i + 1 \in 1 .. n /\ i <= n /\ (i + 1) - 1 = i
    BY <1>2
  <2>2. r[i] = s /\ r[i + 1] = ParseItem(class, r[i], items[i + 1])
    BY <1>3, <1>5, <2>1
  <2> QED
    BY <2>2 DEF ParseItem
<1> HIDE DEF S
<1>6. n \in S
  BY <1>2, <1>4, <1>5, CountUp
<1> QED
  BY <1>1, <1>2, <1>6 DEF S

\* What was kept is kept again.
LEMMA ParsedKept ==
  ASSUME NEW f, NEW u \in Seq(Kept), NEW items \in Seq(Kept)
  PROVE  Parsed(Book, Begun([f |-> f, unknown |-> u]), items) = Begun([f |-> f, unknown |-> u \o items])
<1> DEFINE n == Len(items)
           now(i) == Begun([f |-> f, unknown |-> u \o SubSeq(items, 1, i)])
<1>1. PICK r : /\ IsRun("parse", Book, Begun([f |-> f, unknown |-> u]), items, r)
               /\ Parsed(Book, Begun([f |-> f, unknown |-> u]), items) = r[n]
  BY ParsedRuns
<1>2. n \in Nat /\ \A i \in 1 .. n : items[i] \in Kept
  OBVIOUS
<1>3. /\ r[0] = Begun([f |-> f, unknown |-> u])
      /\ \A i \in 1 .. n : r[i] = ParseItem(Book, r[i - 1], items[i])
  BY <1>1 DEF IsRun, Round
<1> DEFINE S == {i \in Nat : i <= n => r[i] = now(i)}
<1>4. 0 \in S
  <2>1. u \o SubSeq(items, 1, 0) = u
    <3>1. SubSeq(items, 1, 0) = <<>>
      OBVIOUS
    <3> QED
      BY <3>1, ConcatEmptySeq
  <2> QED
    BY <1>3, <2>1
<1>5. ASSUME NEW i \in Nat, i \in S
      PROVE  i + 1 \in S
  <2> SUFFICES ASSUME i + 1 <= n
               PROVE  r[i + 1] = now(i + 1)
    OBVIOUS
  <2>1. i + 1 \in 1 .. n /\ i <= n /\ (i + 1) - 1 = i
    BY <1>2
  <2>2. r[i] = now(i) /\ r[i + 1] = ParseItem(Book, r[i], items[i + 1])
    BY <1>3, <1>5, <2>1
  <2>3. items[i + 1] \in Kept
    BY <1>2, <2>1
  <2>4. Append(u \o SubSeq(items, 1, i), items[i + 1]) = u \o SubSeq(items, 1, i + 1)
    <3> HIDE DEF n, S, now
    <3>1. i + 1 \in 1 .. Len(items)
      BY <2>1 DEF n
    <3> DEFINE a == SubSeq(items, 1, i)
               b == SubSeq(items, 1, i + 1)
               x == items[i + 1]
    <3>2. /\ a \in Seq(Kept) /\ Len(a) = i /\ \A j \in 1 .. i : a[j] = items[j]
          /\ b \in Seq(Kept) /\ Len(b) = i + 1 /\ \A j \in 1 .. i + 1 : b[j] = items[j]
      BY <3>1, <1>2, SubSeqProperties
    <3>3. x \in Kept
      BY <2>3
    <3> HIDE DEF a, b, x
    <3>4. Append(a, x) = b
      <4>1. Append(a, x) \in Seq(Kept) /\ Len(Append(a, x)) = i + 1
        BY <3>2, <3>3
      <4>2. \A j \in 1 .. i + 1 : Append(a, x)[j] = b[j]
        BY <3>2, <3>3 DEF x
      <4> QED
        BY <3>2, <4>1, <4>2, SeqEqual
    <3>5. Append(u \o a, x) = u \o Append(a, x)
      <4>1. Append(u \o a, x) \in Seq(Kept) /\ u \o Append(a, x) \in Seq(Kept)
        BY <3>2, <3>3
      <4>2. /\ Len(Append(u \o a, x)) = Len(u \o Append(a, x))
            /\ \A j \in 1 .. Len(Append(u \o a, x)) : Append(u \o a, x)[j] = (u \o Append(a, x))[j]
        BY <3>2, <3>3
      <4> QED
        BY <4>1, <4>2, SeqEqual
    <3> QED
      BY <3>4, <3>5 DEF a, b, x
  <2>5. ParseItem(Book, now(i), items[i + 1]) = now(i + 1)
    <3>1. /\ ~Known(items[i + 1]) /\ ~items[i + 1].cut /\ items[i + 1].wt # "end"
      BY <2>3 DEF Kept
    <3> DEFINE s == now(i)
    <3>2. s.left = FALSE
      BY DEF Begun
    <3>3. ParseItem(Book, s, items[i + 1])
            = [s EXCEPT !.msg.unknown = Append(s.msg.unknown, items[i + 1])]
      <4> HIDE DEF s
      <4> QED
        BY <3>1, <3>2 DEF ParseItem, Known, HandleUnusual
    <3> DEFINE q == u \o SubSeq(items, 1, i)
               q2 == u \o SubSeq(items, 1, i + 1)
    <3>4. s = Begun([f |-> f, unknown |-> q]) /\ now(i + 1) = Begun([f |-> f, unknown |-> q2])
      OBVIOUS
    <3>5. Append(q, items[i + 1]) = q2
      BY <2>4
    <3> HIDE DEF q, q2, s
    <3> QED
      BY <3>3, <3>4, <3>5 DEF Begun, s
  <2> HIDE DEF now
  <2> QED
    BY <2>2, <2>5
<1> HIDE DEF S
<1>6. n \in S
  <2> HIDE DEF n
  <2> QED
    BY <1>2, <1>4, <1>5, CountUp
<1>7. SubSeq(items, 1, n) = items
  BY <1>2, SeqEqual, SubSeqProperties
<1>8. r[n] = now(n)
  <2> HIDE DEF n, now
  <2> QED
    BY <1>2, <1>6 DEF S
<1> HIDE DEF n
<1> QED
  BY <1>1, <1>7, <1>8

\* What Parsed makes of one field of a Book.
Merged(f, m, num) ==
  IF m.f[num] = Default(Book[num]) THEN f ELSE [f EXCEPT ![num] = m.f[num]]

\* To set a field of the message of a loop.
LEMMA SetsIn ==
  ASSUME NEW f, NEW u, NEW i, NEW j, NEW num, NEW val
  PROVE  [[msg |-> [f |-> f, unknown |-> u], ok |-> i, left |-> j] EXCEPT !.msg.f[num] = val]
           = [msg |-> [f |-> [f EXCEPT ![num] = val], unknown |-> u], ok |-> i, left |-> j]
<1> DEFINE m == [f |-> f, unknown |-> u]
           s == [msg |-> m, ok |-> i, left |-> j]
           e == [f EXCEPT ![num] = val]
           m2 == [f |-> e, unknown |-> u]
<1>1. [s EXCEPT !.msg.f[num] = val] = [s EXCEPT !.msg.f = e]
  OBVIOUS
<1> HIDE DEF e
<1>2. [s EXCEPT !.msg.f = e] = [s EXCEPT !.msg = [m EXCEPT !.f = e]]
  OBVIOUS
<1>3. [m EXCEPT !.f = e] = m2
  OBVIOUS
<1> HIDE DEF m, m2
<1>4. [s EXCEPT !.msg = m2] = [msg |-> m2, ok |-> i, left |-> j]
  OBVIOUS
<1>5. [s EXCEPT !.msg.f[num] = val] = [msg |-> m2, ok |-> i, left |-> j]
  <2> HIDE DEF s
  <2> QED
    BY <1>1, <1>2, <1>3, <1>4 
<1> QED
  BY <1>5 DEF m, m2, e, s

\* A field that was written is read, and one with the default value is left.
LEMMA ParsedField ==
  ASSUME NEW f, NEW u, NEW m \in Books, NEW num \in 1 .. 3, num # 1 \/ ValidUTF8(m.f[1])
  PROVE  Parsed(Book, Begun([f |-> f, unknown |-> u]), Written(Book, m, num))
           = Begun([f |-> Merged(f, m, num), unknown |-> u])
<1> DEFINE s == Begun([f |-> f, unknown |-> u])
           item == Item(num, WireType(Book[num]), m.f[num])
<1>1. CASE m.f[num] = Default(Book[num])
  <2>1. Written(Book, m, num) = <<>>
    BY <1>1 DEF Written
  <2> HIDE DEF s
  <2> QED
    BY <1>1, <2>1, ParsedEmpty DEF Merged, s
<1>2. CASE m.f[num] # Default(Book[num])
  <2>1. Written(Book, m, num) = <<item>>
    BY <1>2 DEF Written
  <2>2. Known(item) /\ item.num = num /\ item.val = m.f[num] /\ item.cut = FALSE
    BY <1>2, WrittenType DEF Item
  <2>3. s.left = FALSE
    BY DEF Begun
  <2>4. Book[num] = "string" => num = 1
    BY BookIs
  <2> DEFINE t == [s EXCEPT !.msg.f[num] = m.f[num]]
  <2>5. ParseItem(Book, s, item) = t
    <3> HIDE DEF s, item
    <3> QED
      BY <2>2, <2>3, <2>4 DEF ParseItem, Known
  <2>6. t = Begun([f |-> [f EXCEPT ![num] = m.f[num]], unknown |-> u])
    <3> DEFINE val == m.f[num]
    <3> HIDE DEF val
    <3>1. \A i, j : [[msg |-> [f |-> f, unknown |-> u], ok |-> i, left |-> j] EXCEPT !.msg.f[num] = val]
             = [msg |-> [f |-> [f EXCEPT ![num] = val], unknown |-> u], ok |-> i, left |-> j]
      BY SetsIn
    <3>2. [[msg |-> [f |-> f, unknown |-> u], ok |-> TRUE, left |-> FALSE] EXCEPT !.msg.f[num] = val]
             = [msg |-> [f |-> [f EXCEPT ![num] = val], unknown |-> u], ok |-> TRUE, left |-> FALSE]
      BY <3>1, Zenon
    <3> QED
      BY <3>2, Zenon DEF Begun, val
  <2> HIDE DEF s, item, t
  <2>7. Parsed(Book, s, Written(Book, m, num)) = t
    BY <2>1, <2>5, ParsedOne
  <2> QED
    BY <1>2, <2>6, <2>7 DEF Merged, s
<1> QED
  BY <1>1, <1>2

\* A string that is not UTF-8 ends the loop.
LEMMA ParsedBad ==
  ASSUME NEW f, NEW u, NEW m \in Books, ~ValidUTF8(m.f[1])
  PROVE  LET t == Parsed(Book, Begun([f |-> f, unknown |-> u]), Written(Book, m, 1))
         IN  t.left /\ ~t.ok
<1> DEFINE s == Begun([f |-> f, unknown |-> u])
           item == Item(1, WireType(Book[1]), m.f[1])
<1>1. m.f[1] # Default(Book[1])
  <2>1. DOMAIN <<>> = {} /\ Default("string") = <<>>
    BY DEF Default
  <2> QED
    BY <2>1, BookIs DEF ValidUTF8
<1>2. Written(Book, m, 1) = <<item>>
  BY <1>1 DEF Written
<1>3. 1 \in 1 .. 3 /\ Known(item) /\ item.num = 1 /\ item.val = m.f[1] /\ item.cut = FALSE
  BY <1>1, WrittenType, BookIs DEF Item
<1>4. s.left = FALSE
  BY DEF Begun
<1> DEFINE t == [ParseFails(s) EXCEPT !.msg.f[1] = m.f[1]]
<1>5. ParseItem(Book, s, item) = t
  <2> HIDE DEF s, item
  <2> QED
    BY <1>3, <1>4, BookIs DEF ParseItem, Known
<1>6. t.left = TRUE /\ t.ok = FALSE
  BY DEF ParseFails, Begun
<1> HIDE DEF s, item, t
<1> QED
  BY <1>2, <1>5, <1>6, ParsedOne DEF s

\* To read what was written of a Book is to merge it, if its name is UTF-8.
LEMMA ParsedBook ==
  ASSUME NEW m0 \in Books, NEW m \in Books
  PROVE  LET read == Parsed(Book, Begun(m0), InternalSerialize(Book, m))
         IN  /\ ValidUTF8(m.f[1]) => read = Begun(MergeFrom(Book, m0, m))
             /\ ~ValidUTF8(m.f[1]) => read.left /\ ~read.ok
<1> DEFINE w1 == Written(Book, m, 1)
           w2 == Written(Book, m, 2)
           w3 == Written(Book, m, 3)
           u == m.unknown
           s == Begun(m0)
           read == Parsed(Book, s, InternalSerialize(Book, m))
<1>1. /\ w1 \in Seq(WireItems) /\ w2 \in Seq(WireItems) /\ w3 \in Seq(WireItems)
      /\ u \in Seq(WireItems) /\ u \in Seq(Kept) /\ m0.unknown \in Seq(Kept)
  <2>1. 1 \in 1 .. 3 /\ 2 \in 1 .. 3 /\ 3 \in 1 .. 3
    OBVIOUS
  <2> QED
    BY <2>1, WrittenType, SerializedIs DEF Books
<1>2. InternalSerialize(Book, m) = ((w1 \o w2) \o w3) \o u
  BY SerializedIs
<1> HIDE DEF w1, w2, w3, u
<1>3. read = Parsed(Book, Parsed(Book, Parsed(Book, Parsed(Book, s, w1), w2), w3), u)
  <2> DEFINE v == w1 \o w2
             x == v \o w3
  <2>1. \A t, T : \A a, b \in Seq(T) : Parsed(Book, t, a \o b) = Parsed(Book, Parsed(Book, t, a), b)
    BY ParsedConcat
  <2>2. v \in Seq(WireItems) /\ x \in Seq(WireItems)
    BY <1>1
  <2> HIDE DEF s
  <2>3. Parsed(Book, s, v) = Parsed(Book, Parsed(Book, s, w1), w2)
    BY <1>1, <2>1
  <2> HIDE DEF v
  <2>4. Parsed(Book, s, x) = Parsed(Book, Parsed(Book, s, v), w3)
    BY <1>1, <2>1, <2>2
  <2> HIDE DEF x
  <2>5. Parsed(Book, s, x \o u) = Parsed(Book, Parsed(Book, s, x), u)
    BY <1>1, <2>1, <2>2
  <2>6. InternalSerialize(Book, m) = x \o u
    BY <1>2 DEF x, v
  <2> QED
    BY <2>3, <2>4, <2>5, <2>6
<1> DEFINE f0 == m0.f
           f1 == Merged(f0, m, 1)
           f2 == Merged(f1, m, 2)
           f3 == Merged(f2, m, 3)
           u0 == m0.unknown
<1>4. m0 = [f |-> f0, unknown |-> u0] /\ f0 \in Values /\ m.f \in Values
  BY DEF Books
<1>5. CASE ValidUTF8(m.f[1])
  <2>1. f3 = [num \in DOMAIN Book |-> IF m.f[num] = Default(Book[num]) THEN f0[num] ELSE m.f[num]]
    <3>1. DOMAIN f0 = 1 .. 3 /\ f0 = [num \in 1 .. 3 |-> f0[num]]
      BY <1>4 DEF Values
    <3>2. \A num \in 1 .. 3 : num = 1 \/ num = 2 \/ num = 3
      OBVIOUS
    <3> HIDE DEF f0
    <3>3. /\ DOMAIN f1 = 1 .. 3 /\ f1[2] = f0[2] /\ f1[3] = f0[3]
          /\ f1[1] = IF m.f[1] = Default(Book[1]) THEN f0[1] ELSE m.f[1]
      BY <3>1 DEF Merged
    <3> HIDE DEF f1
    <3>4. /\ DOMAIN f2 = 1 .. 3 /\ f2[1] = f1[1] /\ f2[3] = f1[3]
          /\ f2[2] = IF m.f[2] = Default(Book[2]) THEN f1[2] ELSE m.f[2]
      BY <3>3 DEF Merged
    <3> HIDE DEF f2
    <3>5. /\ DOMAIN f3 = 1 .. 3 /\ f3[1] = f2[1] /\ f3[2] = f2[2]
          /\ f3[3] = IF m.f[3] = Default(Book[3]) THEN f2[3] ELSE m.f[3]
      BY <3>4 DEF Merged
    <3>6. f3 = [num \in DOMAIN f3 |-> f3[num]]
      BY <3>1, <3>3, <3>4 DEF Merged, f1, f2
    <3> HIDE DEF f3
    <3>7. \A num \in 1 .. 3 : f3[num] = IF m.f[num] = Default(Book[num]) THEN f0[num] ELSE m.f[num]
      BY <3>2, <3>3, <3>4, <3>5
    <3> QED
      BY <3>5, <3>6, <3>7, BookIs
  <2>2. MergeFrom(Book, m0, m) = [f |-> f3, unknown |-> u0 \o u]
    BY <2>1 DEF MergeFrom, u
  <2> HIDE DEF f0, f1, f2, f3, u0
  <2>3. Parsed(Book, s, w1) = Begun([f |-> f1, unknown |-> u0])
    <3>1. s = Begun([f |-> f0, unknown |-> u0]) /\ 1 \in 1 .. 3
      BY <1>4
    <3> HIDE DEF s
    <3>2. Parsed(Book, Begun([f |-> f0, unknown |-> u0]), w1) = Begun([f |-> f1, unknown |-> u0])
      BY <1>5, <3>1, ParsedField DEF w1, f1
    <3> QED
      BY <3>1, <3>2
  <2>4. Parsed(Book, Begun([f |-> f1, unknown |-> u0]), w2) = Begun([f |-> f2, unknown |-> u0])
    <3>1. 2 \in 1 .. 3 /\ 2 # 1
      OBVIOUS
    <3> QED
      BY <3>1, ParsedField DEF w2, f2
  <2>5. Parsed(Book, Begun([f |-> f2, unknown |-> u0]), w3) = Begun([f |-> f3, unknown |-> u0])
    <3>1. 3 \in 1 .. 3 /\ 3 # 1
      OBVIOUS
    <3> QED
      BY <3>1, ParsedField DEF w3, f3
  <2>6. Parsed(Book, Begun([f |-> f3, unknown |-> u0]), u) = Begun([f |-> f3, unknown |-> u0 \o u])
    BY <1>1, ParsedKept DEF u0
  <2>7. read = Begun(MergeFrom(Book, m0, m))
    BY <1>3, <2>2, <2>3, <2>4, <2>5, <2>6
  <2> QED
    BY <1>5, <2>7
<1>6. CASE ~ValidUTF8(m.f[1])
  <2> DEFINE t == Parsed(Book, s, w1)
  <2>1. t.left /\ ~t.ok
    <3> HIDE DEF f0, u0
    <3> QED
      BY <1>4, <1>6, ParsedBad DEF w1
  <2> HIDE DEF t
  <2>2. Parsed(Book, t, w2) = t /\ Parsed(Book, t, w3) = t /\ Parsed(Book, t, u) = t
    BY <1>1, <2>1, ParsedLeft
  <2>3. read = t
    BY <1>3, <2>2 DEF t
  <2> QED
    BY <1>6, <2>1, <2>3
<1> QED
  BY <1>5, <1>6

-----------------------------------------------------------------------------
(* The room that is made is the room that is taken.                        *)

Sized == {item \in WireItems : item.wt # "end"}

\* Every item that is written has a size.
LEMMA ItemSizeType ==
  ASSUME NEW item \in Sized
  PROVE  ItemSize(item) \in Int
<1>1. item \in WireItems /\ item.wt \in {"len", "varint", "fixed32"}
  BY DEF Sized, WireItems
<1>2. CASE item.wt = "len"
  <2>1. item.val \in Seq(Parts)
    BY <1>1, <1>2 DEF WireItems
  <2>2. Len(item.val) \in Int
    BY <2>1
  <2> QED
    BY <1>2, <2>2 DEF ItemSize
<1>3. CASE item.wt = "varint"
  BY <1>3 DEF ItemSize
<1>4. CASE item.wt = "fixed32"
  BY <1>4 DEF ItemSize
<1> QED
  BY <1>1, <1>2, <1>3, <1>4

\* So has every beginning of a sequence of them.
LEMMA SizeRunType ==
  ASSUME NEW base \in Int, NEW items \in Seq(Sized), NEW r,
         IsRun("size", <<>>, base, items, r)
  PROVE  \A i \in 0 .. Len(items) : r[i] \in Int
<1> DEFINE n == Len(items)
<1>1. /\ n \in Nat /\ \A i \in 1 .. n : items[i] \in Sized
  OBVIOUS
<1>2. r[0] = base /\ \A i \in 1 .. n : r[i] = r[i - 1] + ItemSize(items[i])
  BY DEF IsRun, Round
<1> DEFINE S == {i \in Nat : i <= n => r[i] \in Int}
<1> HIDE DEF n
<1>3. 0 \in S
  BY <1>2
<1>4. ASSUME NEW i \in Nat, i \in S
      PROVE  i + 1 \in S
  <2> SUFFICES ASSUME i + 1 <= n
               PROVE  r[i + 1] \in Int
    OBVIOUS
  <2>1. i + 1 \in 1 .. n /\ i <= n /\ (i + 1) - 1 = i
    BY <1>1
  <2>2. r[i] \in Int /\ ItemSize(items[i + 1]) \in Int
    BY <1>1, <1>4, <2>1, ItemSizeType
  <2>3. r[i + 1] = r[i] + ItemSize(items[i + 1])
    BY <1>2, <2>1
  <2> QED
    BY <2>2, <2>3
<1> HIDE DEF S
<1>5. Nat \subseteq S
  BY <1>3, <1>4, CountUp
<1>6. \A i \in 0 .. n : i \in Nat /\ i <= n
  BY <1>1
<1>7. \A i \in 0 .. n : r[i] \in Int
  BY <1>5, <1>6 DEF S
<1> QED
  BY <1>7 DEF n

\* Sizes add up.
LEMMA SizeConcat ==
  ASSUME NEW a \in Seq(Sized), NEW b \in Seq(Sized)
  PROVE  SizeOf(a) \in Int /\ SizeOf(b) \in Int /\ SizeOf(a \o b) = SizeOf(a) + SizeOf(b)
<1> DEFINE m == Len(a)
           n == Len(b)
<1>1. PICK ra : IsRun("size", <<>>, 0, a, ra) /\ SizeOf(a) = ra[m]
  BY SizeRuns
<1>2. PICK rb : IsRun("size", <<>>, 0, b, rb) /\ SizeOf(b) = rb[n]
  BY SizeRuns
<1>3. PICK r : IsRun("size", <<>>, 0, a \o b, r) /\ SizeOf(a \o b) = r[Len(a \o b)]
  <2>1. a \o b \in Seq(Sized)
    OBVIOUS
  <2> QED
    BY <2>1, SizeRuns
<1>4. m \in Nat /\ n \in Nat /\ \A i \in 1 .. n : b[i] \in Sized
  OBVIOUS
<1>5. ra[m] \in Int /\ \A i \in 0 .. n : rb[i] \in Int
  <2>1. 0 \in Int /\ m \in 0 .. m
    BY <1>4
  <2> QED
    BY <1>1, <1>2, <2>1, SizeRunType
<1> DEFINE k == ra[m]
           rc == [i \in 0 .. n |-> k + rb[i]]
<1>6. IsRun("size", <<>>, k, b, rc)
  <2>1. rb[0] = 0 /\ \A i \in 1 .. n : rb[i] = rb[i - 1] + ItemSize(b[i])
    BY <1>2 DEF IsRun, Round
  <2> HIDE DEF k, n
  <2>2. rc[0] = k
    BY <1>4, <1>5, <2>1 DEF k
  <2>3. ASSUME NEW i \in 1 .. n
        PROVE  rc[i] = rc[i - 1] + ItemSize(b[i])
    <3>1. i \in 0 .. n /\ i - 1 \in 0 .. n
      BY <1>4
    <3>2. rc[i] = k + rb[i] /\ rc[i - 1] = k + rb[i - 1]
      BY <3>1
    <3>3. ItemSize(b[i]) \in Int
      BY <1>4, ItemSizeType
    <3>4. k \in Int /\ rb[i - 1] \in Int
      BY <1>5, <3>1 DEF k
    <3> HIDE DEF rc
    <3> QED
      BY <2>1, <3>2, <3>3, <3>4
  <2>4. DOMAIN rc = 0 .. n
    OBVIOUS
  <2> HIDE DEF rc
  <2> QED
    BY <2>2, <2>3, <2>4 DEF IsRun, Round, n
<1>7. r[Len(a \o b)] = rc[n]
  <2> HIDE DEF rc
  <2> QED
    BY <1>1, <1>3, <1>6, RunsOn
<1>8. rc[n] = k + rb[n] /\ rb[n] \in Int
  BY <1>4, <1>5
<1> HIDE DEF rc, m, n
<1> QED
  BY <1>1, <1>2, <1>3, <1>5, <1>7, <1>8

\* Nothing takes no room,
LEMMA SizeOfNone == SizeOf(<<>>) = 0
<1>1. PICK r : IsRun("size", <<>>, 0, <<>>, r) /\ SizeOf(<<>>) = r[Len(<<>>)]
  <2>1. <<>> \in Seq({})
    OBVIOUS
  <2> QED
    BY <2>1, SizeRuns
<1>2. Len(<<>>) = 0
  OBVIOUS
<1> QED
  BY <1>1, <1>2 DEF IsRun

\* and one item its own.
LEMMA SizeOfOne ==
  ASSUME NEW x \in Sized
  PROVE  SizeOf(<<x>>) = ItemSize(x)
<1>1. PICK r : IsRun("size", <<>>, 0, <<x>>, r) /\ SizeOf(<<x>>) = r[Len(<<x>>)]
  <2>1. <<x>> \in Seq({x})
    OBVIOUS
  <2> QED
    BY <2>1, SizeRuns
<1>2. Len(<<x>>) = 1 /\ <<x>>[1] = x /\ 1 \in 1 .. 1 /\ 1 - 1 = 0
  OBVIOUS
<1>3. r[1] = Round("size", <<>>, r[0], x) /\ r[0] = 0
  BY <1>1, <1>2 DEF IsRun
<1>4. r[1] = 0 + ItemSize(x)
  BY <1>3 DEF Round
<1> QED
  BY <1>1, <1>2, <1>4, ItemSizeType

\* The size of a field in ByteSizeLong.
FieldSize(m, num) ==
  IF m.f[num] = Default(Book[num]) THEN 0
  ELSE CASE Book[num] = "string" -> 1 + (1 + Len(m.f[num]))
         [] Book[num] = "int32" -> 1 + (IF m.f[num] < 0 THEN 10 ELSE 1)
         [] Book[num] = "float" -> 1 + 4

\* The room made for a field is the room of what is written of it.
LEMMA FieldSizeIs ==
  ASSUME NEW m \in Books, NEW num \in 1 .. 3
  PROVE  /\ Written(Book, m, num) \in Seq(Sized)
         /\ SizeOf(Written(Book, m, num)) = FieldSize(m, num) /\ FieldSize(m, num) \in Int
<1> DEFINE item == Item(num, WireType(Book[num]), m.f[num])
<1>1. CASE m.f[num] = Default(Book[num])
  <2>1. Written(Book, m, num) = <<>> /\ FieldSize(m, num) = 0
    BY <1>1 DEF Written, FieldSize
  <2> QED
    BY <2>1, SizeOfNone
<1>2. CASE m.f[num] # Default(Book[num])
  <2>1. Written(Book, m, num) = <<item>>
    BY <1>2 DEF Written
  <2>2. item \in WireItems /\ item.val = m.f[num] /\ item.wt = WireType(Book[num])
    BY <1>2, WrittenType DEF Item
  <2>3. num = 1 \/ num = 2 \/ num = 3
    OBVIOUS
  <2>4. WireType("string") = "len" /\ WireType("int32") = "varint" /\ WireType("float") = "fixed32"
    BY DEF WireType
  <2> DEFINE val == m.f[num]
             kind == Book[num]
  <2> HIDE DEF item, val
  <2>5. item.wt # "end"
    BY <2>2, <2>3, <2>4, BookIs
  <2>6. item \in Sized
    BY <2>2, <2>5 DEF Sized
  <2>7. FieldSize(m, num) = CASE kind = "string" -> 1 + (1 + Len(val))
                              [] kind = "int32" -> 1 + (IF val < 0 THEN 10 ELSE 1)
                              [] kind = "float" -> 1 + 4
    BY <1>2 DEF FieldSize, val
  <2>8. ItemSize(item) = FieldSize(m, num)
    <3>1. item.val = val
      BY <2>2 DEF val
    <3>2. CASE num = 1
      BY <2>2, <2>4, <2>7, <3>1, <3>2, BookIs DEF ItemSize
    <3>3. CASE num = 2
      BY <2>2, <2>4, <2>7, <3>1, <3>3, BookIs DEF ItemSize
    <3>4. CASE num = 3
      BY <2>2, <2>4, <2>7, <3>1, <3>4, BookIs DEF ItemSize
    <3> QED
      BY <2>3, <3>2, <3>3, <3>4
  <2> QED
    BY <2>1, <2>6, <2>8, SizeOfOne, ItemSizeType
<1> QED
  BY <1>1, <1>2

\* And so for the whole message, whichever order the sum is taken in.
LEMMA RoomIs ==
  ASSUME NEW m \in Books
  PROVE  ByteSizeLong(Book, m) = SizeOf(InternalSerialize(Book, m))
<1> DEFINE size(num) == FieldSize(m, num)
           Is(h) == h = [s \in SUBSET (1 .. 3) |->
                           IF s = {} THEN 0
                           ELSE size(CHOOSE x \in s : TRUE) + h[s \ {CHOOSE x \in s : TRUE}]]
           g == CHOOSE h : Is(h)
           part(num, s) == IF num \in s THEN size(num) ELSE 0
           sum(s) == (part(1, s) + part(2, s)) + part(3, s)
           e == [s \in SUBSET (1 .. 3) |-> sum(s)]
<1>1. ByteSizeLong(Book, m) = g[1 .. 3] + SizeOf(m.unknown)
  BY BookIs DEF ByteSizeLong, MapThenSumSet, MapThenFoldSet, FieldSize
<1>2. size(1) \in Int /\ size(2) \in Int /\ size(3) \in Int
  <2>1. 1 \in 1 .. 3 /\ 2 \in 1 .. 3 /\ 3 \in 1 .. 3
    OBVIOUS
  <2> QED
    BY <2>1, FieldSizeIs
<1> HIDE DEF size
<1>3. ASSUME NEW s \in SUBSET (1 .. 3), NEW x \in s
      PROVE  sum(s) = size(x) + sum(s \ {x})
  <2>1. x = 1 \/ x = 2 \/ x = 3
    OBVIOUS
  <2>2. CASE x = 1
    BY <1>2, <2>2
  <2>3. CASE x = 2
    BY <1>2, <2>3
  <2>4. CASE x = 3
    BY <1>2, <2>4
  <2> QED
    BY <2>1, <2>2, <2>3, <2>4
<1>4. sum({}) = 0 /\ sum(1 .. 3) = (size(1) + size(2)) + size(3)
  BY <1>2
<1> HIDE DEF sum
<1>5. Is(e)
  <2>1. ASSUME NEW s \in SUBSET (1 .. 3)
        PROVE  e[s] = IF s = {} THEN 0
                      ELSE size(CHOOSE x \in s : TRUE) + e[s \ {CHOOSE x \in s : TRUE}]
    <3> DEFINE x == CHOOSE x \in s : TRUE
    <3>1. CASE s = {}
      BY <1>4, <3>1
    <3>2. CASE s # {}
      <4>1. x \in s
        BY <3>2
      <4> HIDE DEF x
      <4>2. s \ {x} \in SUBSET (1 .. 3) /\ sum(s) = size(x) + sum(s \ {x})
        BY <1>3, <4>1
      <4>3. e[s] = sum(s) /\ e[s \ {x}] = sum(s \ {x})
        BY <4>2
      <4>4. e[s] = size(x) + e[s \ {x}]
        BY <4>2, <4>3
      <4> HIDE DEF e
      <4> QED
        BY <3>2, <4>4 DEF x
    <3> QED
      BY <3>1, <3>2
  <2>2. e = [s \in SUBSET (1 .. 3) |-> e[s]]
    OBVIOUS
  <2> HIDE DEF e
  <2> QED
    BY <2>1, <2>2
<1>6. Is(g)
  <2> HIDE DEF Is, e
  <2> QED
    BY <1>5
<1> HIDE DEF g, e
<1>7. g[1 .. 3] = sum(1 .. 3)
  <2>1. ASSUME NEW s \in SUBSET (1 .. 3), s # {}, \A x \in s : g[s \ {x}] = sum(s \ {x})
        PROVE  g[s] = sum(s)
    <3> DEFINE x == CHOOSE x \in s : TRUE
    <3>1. g[s] = size(x) + g[s \ {x}]
      BY <1>6, <2>1
    <3>2. x \in s
      BY <2>1
    <3> HIDE DEF x
    <3> QED
      BY <1>3, <2>1, <3>1, <3>2
  <2>2. g[{}] = sum({})
    BY <1>4, <1>6
  <2> HIDE DEF Is
  <2>3. \A i \in 1 .. 3 : g[{i}] = sum({i})
    <3> TAKE i \in 1 .. 3
    <3>1. {i} \in SUBSET (1 .. 3) /\ {i} # {} /\ \A x \in {i} : {i} \ {x} = {}
      OBVIOUS
    <3> QED
      BY <2>1, <2>2, <3>1
  <2>4. \A i, j \in 1 .. 3 : i # j => g[{i, j}] = sum({i, j})
    <3> TAKE i, j \in 1 .. 3
    <3> HAVE i # j
    <3>1. /\ {i, j} \in SUBSET (1 .. 3) /\ {i, j} # {}
          /\ \A x \in {i, j} : {i, j} \ {x} = {i} \/ {i, j} \ {x} = {j}
      OBVIOUS
    <3> QED
      BY <2>1, <2>3, <3>1
  <2>5. \A x \in 1 .. 3 : g[(1 .. 3) \ {x}] = sum((1 .. 3) \ {x})
    <3>1. (1 .. 3) \ {1} = {2, 3} /\ (1 .. 3) \ {2} = {1, 3} /\ (1 .. 3) \ {3} = {1, 2}
      OBVIOUS
    <3>2. 1 \in 1 .. 3 /\ 2 \in 1 .. 3 /\ 3 \in 1 .. 3 /\ \A x \in 1 .. 3 : x = 1 \/ x = 2 \/ x = 3
      OBVIOUS
    <3> QED
      BY <2>4, <3>1, <3>2
  <2>6. 1 .. 3 \in SUBSET (1 .. 3) /\ 1 .. 3 # {}
    OBVIOUS
  <2> QED
    BY <2>1, <2>5, <2>6
<1> DEFINE w1 == Written(Book, m, 1)
           w2 == Written(Book, m, 2)
           w3 == Written(Book, m, 3)
           u == m.unknown
<1>8. /\ w1 \in Seq(Sized) /\ w2 \in Seq(Sized) /\ w3 \in Seq(Sized)
      /\ SizeOf(w1) = size(1) /\ SizeOf(w2) = size(2) /\ SizeOf(w3) = size(3)
  <2>1. 1 \in 1 .. 3 /\ 2 \in 1 .. 3 /\ 3 \in 1 .. 3
    OBVIOUS
  <2> QED
    BY <2>1, FieldSizeIs DEF size
<1>9. u \in Seq(Sized)
  <2>1. m.unknown \in Seq(Kept) /\ Kept \subseteq Sized
    BY DEF Books, Kept, Sized
  <2> QED
    BY <2>1
<1>10. InternalSerialize(Book, m) = ((w1 \o w2) \o w3) \o u
  BY SerializedIs
<1> HIDE DEF w1, w2, w3, u
<1>11. SizeOf(((w1 \o w2) \o w3) \o u) = ((size(1) + size(2)) + size(3)) + SizeOf(u)
  <2> DEFINE v == w1 \o w2
             x == v \o w3
  <2>1. v \in Seq(Sized) /\ x \in Seq(Sized)
    BY <1>8
  <2>2. SizeOf(v) = SizeOf(w1) + SizeOf(w2)
    BY <1>8, SizeConcat
  <2> HIDE DEF v
  <2>3. SizeOf(x) = SizeOf(v) + SizeOf(w3)
    BY <1>8, <2>1, SizeConcat
  <2> HIDE DEF x
  <2>4. SizeOf(x \o u) = SizeOf(x) + SizeOf(u)
    BY <1>9, <2>1, SizeConcat
  <2> QED
    BY <1>8, <2>2, <2>3, <2>4 DEF x, v
<1> QED
  BY <1>1, <1>4, <1>7, <1>10, <1>11 DEF u

-----------------------------------------------------------------------------
(* The objects are Books.                                                  *)

\* A Book is read from nothing.
LEMMA ParsesBook ==
  ASSUME NEW items \in Seq(WireItems)
  PROVE  /\ Message(Book) \in Books /\ Begun(Message(Book)) \in States
         /\ ParseFromString(Book, items) = Parsed(Book, Begun(Message(Book)), items)
         /\ ParseFromString(Book, items) \in States
<1>1. Message(Book) \in Books
  <2>1. <<>> \in Seq(Kept) /\ <<>> \in Seq(Parts)
    OBVIOUS
  <2> DEFINE f == [num \in DOMAIN Book |-> Default(Book[num])]
  <2>2. Default("string") = <<>> /\ Default("int32") = 0 /\ Default("float") = 0
    BY DEF Default
  <2>3. f[1] = <<>> /\ f[2] = 0 /\ f[3] = 0 /\ DOMAIN f = 1 .. 3 /\ f = [num \in DOMAIN f |-> f[num]]
    BY <2>2, BookIs
  <2> HIDE DEF f
  <2>4. f[1] \in Seq(Parts) /\ f[2] \in Int /\ f[3] \in Nat
    BY <2>1, <2>3
  <2>5. \A num \in 1 .. 3 : f[num] \in Seq(Parts) \cup Int
    BY <2>4, BookIs
  <2>6. f \in [1 .. 3 -> Seq(Parts) \cup Int]
    BY <2>3, <2>5
  <2>7. f \in Values
    BY <2>4, <2>6 DEF Values
  <2>8. Message(Book) = [f |-> f, unknown |-> <<>>]
    BY DEF Message, f
  <2> QED
    BY <2>1, <2>7, <2>8 DEF Books
<1>2. Begun(Message(Book)) \in States
  BY <1>1 DEF Begun, States
<1>3. ParseFromString(Book, items) = Parsed(Book, Begun(Message(Book)), items)
  BY DEF ParseFromString, InternalParse, Parsed, Begun
<1> QED
  BY <1>1, <1>2, <1>3, ParsedType

\* To set a field of a Book.
LEMMA SetsBook ==
  ASSUME NEW m \in Books, NEW num \in 1 .. 3, NEW val \in Seq(Parts) \cup Int,
         /\ num = 1 => val \in Seq(Parts)
         /\ num = 2 => val \in Int
         /\ num = 3 => val \in Nat
  PROVE  SetField(m, num, val) \in Books
<1> DEFINE f == [m.f EXCEPT ![num] = val]
<1>1. SetField(m, num, val) = [m EXCEPT !.f = f]
  BY DEF SetField, Books
<1>2. m.f \in Values
  BY DEF Books
<1>3. f \in Values
  <2>1. /\ DOMAIN f = 1 .. 3 /\ f[1] \in Seq(Parts) /\ f[2] \in Int /\ f[3] \in Nat
    BY <1>2, BookIs DEF Values
  <2>2. f \in [1 .. 3 -> Seq(Parts) \cup Int]
    BY <1>2 DEF Values
  <2> HIDE DEF f
  <2> QED
    BY <2>1, <2>2 DEF Values
<1> HIDE DEF f
<1> QED
  BY <1>1, <1>3 DEF Books

\* To merge Books, and to merge one into a new one.
LEMMA MergesBook ==
  ASSUME NEW m0 \in Books, NEW m \in Books
  PROVE  /\ MergeFrom(Book, m0, m) \in Books
         /\ MergeFrom(Book, Message(Book), m) = m
         /\ CopyFrom(Book, m0, m) = m /\ CopyConstructor(m) = m
<1> DEFINE new(b) == [num \in DOMAIN Book |-> IF m.f[num] = Default(Book[num]) THEN b[num]
                                              ELSE m.f[num]]
<1>1. /\ m = [f |-> m.f, unknown |-> m.unknown] /\ m.f \in Values /\ m.unknown \in Seq(Kept)
      /\ m0.f \in Values /\ m0.unknown \in Seq(Kept)
  BY DEF Books
<1>2. \A to : MergeFrom(Book, to, m) = [f |-> new(to.f), unknown |-> to.unknown \o m.unknown]
  BY DEF MergeFrom
<1>3. new(m0.f) \in Values
  <2> DEFINE f == new(m0.f)
  <2>1. /\ DOMAIN f = 1 .. 3 /\ f = [num \in DOMAIN f |-> f[num]]
        /\ \A num \in 1 .. 3 : f[num] = m0.f[num] \/ f[num] = m.f[num]
    BY BookIs
  <2> HIDE DEF f
  <2>2. f[1] \in Seq(Parts) /\ f[2] \in Int /\ f[3] \in Nat
    BY <1>1, <2>1, BookIs DEF Values
  <2>3. \A num \in 1 .. 3 : f[num] \in Seq(Parts) \cup Int
    BY <2>2, BookIs
  <2>4. f \in [1 .. 3 -> Seq(Parts) \cup Int]
    BY <2>1, <2>3
  <2> QED
    BY <2>2, <2>4 DEF Values, f
<1>4. m0.unknown \o m.unknown \in Seq(Kept)
  BY <1>1
<1>5. MergeFrom(Book, m0, m) \in Books
  <2> DEFINE f == new(m0.f)
             u == m0.unknown \o m.unknown
  <2>1. MergeFrom(Book, m0, m) = [f |-> f, unknown |-> u]
    BY <1>2
  <2>2. f \in Values /\ u \in Seq(Kept)
    BY <1>3, <1>4
  <2> HIDE DEF f, u
  <2> QED
    BY <2>1, <2>2 DEF Books
<1>6. MergeFrom(Book, Message(Book), m) = m
  <2> DEFINE f == Message(Book).f
  <2>1. f = [num \in DOMAIN Book |-> Default(Book[num])] /\ Message(Book).unknown = <<>>
    BY DEF Message
  <2>2. \A num \in DOMAIN Book : f[num] = Default(Book[num])
    BY <2>1
  <2> HIDE DEF f
  <2>3. new(f) = [num \in DOMAIN Book |-> m.f[num]]
    BY <2>2
  <2>4. m.f = [num \in DOMAIN Book |-> m.f[num]]
    BY <1>1, BookIs DEF Values
  <2>5. <<>> \o m.unknown = m.unknown
    BY <1>1, ConcatEmptySeq
  <2> HIDE DEF new
  <2> QED
    <3>1. MergeFrom(Book, Message(Book), m) = [f |-> new(f), unknown |-> <<>> \o m.unknown]
      BY <1>2, <2>1 DEF f
    <3>2. MergeFrom(Book, Message(Book), m) = [f |-> m.f, unknown |-> m.unknown]
      BY <2>3, <2>4, <2>5, <3>1
    <3> QED
      BY <1>1, <3>2
<1>7. CopyFrom(Book, m0, m) = m
  BY <1>6 DEF CopyFrom, Clear
<1> QED
  BY <1>1, <1>5, <1>6, <1>7 DEF CopyConstructor

\* A string of the program is one of the parts that travel.
LEMMA HasParts ==
  ASSUME NEW v \in Seq(STRING)
  PROVE  v \in Seq(Parts)
<1>1. STRING \subseteq Parts
  BY DEF Parts
<1>2. \A S, T : S \subseteq T => Seq(S) \subseteq Seq(T)
  OBVIOUS
<1> QED
  BY <1>1, <1>2

BookInvariant == book \in [Objects -> Books] /\ bookstr \in Seq(WireItems)

\* The objects begin as Books.
LEMMA BookInitOK == BookInit => BookInvariant
<1>1. <<>> \in Seq(WireItems)
  OBVIOUS
<1> QED
  BY <1>1, ParsesBook DEF BookInit, BookInvariant

\* And they stay so, method by method.
LEMMA BookStepOK == BookInvariant /\ [BookNext]_bookVars => BookInvariant'
<1> SUFFICES ASSUME BookInvariant, [BookNext]_bookVars
             PROVE  BookInvariant'
  OBVIOUS
<1>1. /\ book \in [Objects -> Books] /\ bookstr \in Seq(WireItems)
      /\ \A o \in Objects : book[o] \in Books
  BY DEF BookInvariant
\* One object becomes another Book, and the string stays.
<1>2. ASSUME NEW o \in Objects, NEW m \in Books,
             book' = [book EXCEPT ![o] = m], bookstr' = bookstr
      PROVE  BookInvariant'
  BY <1>1, <1>2 DEF BookInvariant
<1>3. ASSUME NEW o \in Objects, NEW v \in Names, SetName(o, v)
      PROVE  BookInvariant'
  <2>1. 1 \in 1 .. 3 /\ v \in Seq(Parts)
    <3>1. v \in Seq(STRING)
      BY ValuesAssumption
    <3> QED
      BY <3>1, HasParts
  <2>2. SetField(book[o], 1, v) \in Books
    BY <1>1, <2>1, SetsBook
  <2>3. book' = [book EXCEPT ![o] = SetField(book[o], 1, v)] /\ bookstr' = bookstr
    BY <1>3 DEF SetName
  <2> QED
    BY <1>2, <2>2, <2>3
<1>4. ASSUME NEW o \in Objects, NEW v \in Pages, SetPages(o, v)
      PROVE  BookInvariant'
  <2>1. 2 \in 1 .. 3 /\ 2 # 1 /\ 2 # 3 /\ v \in Int
    BY ValuesAssumption
  <2>2. SetField(book[o], 2, v) \in Books
    BY <1>1, <2>1, SetsBook
  <2>3. book' = [book EXCEPT ![o] = SetField(book[o], 2, v)] /\ bookstr' = bookstr
    BY <1>4 DEF SetPages
  <2> QED
    BY <1>2, <2>2, <2>3
<1>5. ASSUME NEW o \in Objects, NEW v \in Prices, SetPrice(o, v)
      PROVE  BookInvariant'
  <2>1. 3 \in 1 .. 3 /\ 3 # 1 /\ 3 # 2 /\ v \in Nat /\ v \in Int
    BY ValuesAssumption
  <2>2. SetField(book[o], 3, v) \in Books
    BY <1>1, <2>1, SetsBook
  <2>3. book' = [book EXCEPT ![o] = SetField(book[o], 3, v)] /\ bookstr' = bookstr
    BY <1>5 DEF SetPrice
  <2> QED
    BY <1>2, <2>2, <2>3
<1>6. ASSUME NEW o \in Objects, BookClear(o)
      PROVE  BookInvariant'
  <2>1. book' = [book EXCEPT ![o] = Message(Book)] /\ bookstr' = bookstr
    BY <1>6 DEF BookClear, Clear
  <2> QED
    BY <1>1, <1>2, <2>1, ParsesBook
<1>7. ASSUME NEW o \in Objects, SerializeToString(o)
      PROVE  BookInvariant'
  BY <1>1, <1>7, SerializedIs DEF SerializeToString, BookInvariant
<1>8. ASSUME NEW o \in Objects, BookParseFromString(o)
      PROVE  BookInvariant'
  <2> DEFINE m == ParseFromString(Book, bookstr).msg
  <2>1. book' = [book EXCEPT ![o] = m] /\ bookstr' = bookstr
    BY <1>8 DEF BookParseFromString
  <2>2. m \in Books
    BY <1>1, ParsesBook DEF States
  <2> HIDE DEF m
  <2> QED
    BY <1>2, <2>1, <2>2
<1>9. ASSUME NEW o \in Objects, NEW o2 \in Objects,
             BookCopyFrom(o, o2) \/ BookCopyConstruct(o, o2)
      PROVE  BookInvariant'
  <2>1. CopyFrom(Book, book[o], book[o2]) = book[o2] /\ CopyConstructor(book[o2]) = book[o2]
    BY <1>1, MergesBook
  <2>2. book' = [book EXCEPT ![o] = book[o2]] /\ bookstr' = bookstr
    BY <1>9, <2>1 DEF BookCopyFrom, BookCopyConstruct
  <2> QED
    BY <1>1, <1>2, <2>2
<1>10. ASSUME NEW o \in Objects, NEW o2 \in Objects, BookMergeFrom(o, o2)
       PROVE  BookInvariant'
  <2> DEFINE m == MergeFrom(Book, book[o], book[o2])
  <2>1. book' = [book EXCEPT ![o] = m] /\ bookstr' = bookstr
    BY <1>10 DEF BookMergeFrom
  <2>2. m \in Books
    BY <1>1, MergesBook
  <2> HIDE DEF m
  <2> QED
    BY <1>2, <2>1, <2>2
<1>11. ASSUME NEW o \in Objects, NEW o2 \in Objects, Swap(o, o2) \/ MoveAssign(o, o2)
       PROVE  BookInvariant'
  BY <1>1, <1>11 DEF Swap, MoveAssign, InternalSwap, BookInvariant
<1>12. ASSUME OtherVersion
       PROVE  BookInvariant'
  <2>1. PICK item \in Foreign : bookstr' = Append(bookstr, item) /\ book' = book
    BY <1>12 DEF OtherVersion
  <2>2. item \in WireItems
    <3>1. \A v : v \in Seq(STRING) => v \in Seq(Parts)
      BY HasParts
    <3>2. /\ item.num \in Nat /\ item = Item(item.num, item.wt, item.val)
          /\ \/ item.wt = "len" /\ item.val \in Seq(STRING)
             \/ item.wt = "varint" /\ item.val \in Int
             \/ item.wt \in {"fixed32", "end"} /\ item.val \in Nat
      BY ValuesAssumption
    <3> DEFINE num == item.num
               wt == item.wt
               val == item.val
    <3>3. num \in Nat /\ wt \in {"len", "varint", "fixed32", "end"} /\ val \in Seq(Parts) \cup Int
      BY <3>1, <3>2
    <3>4. item = [num |-> num, wt |-> wt, val |-> val, cut |-> FALSE]
      BY <3>2 DEF Item
    <3>5. item \in [num : Nat, wt : {"len", "varint", "fixed32", "end"},
                    val : Seq(Parts) \cup Int, cut : BOOLEAN]
      <4> HIDE DEF num, wt, val
      <4> QED
        BY <3>3, <3>4
    <3> QED
      BY <3>1, <3>2, <3>5 DEF WireItems
  <2> QED
    BY <1>1, <2>1, <2>2 DEF BookInvariant
<1>13. ASSUME CutOff
       PROVE  BookInvariant'
  <2> DEFINE n == Len(bookstr)
             item == [bookstr[n] EXCEPT !.cut = TRUE]
  <2>1. bookstr # <<>> /\ bookstr' = [bookstr EXCEPT ![n] = item] /\ book' = book
    BY <1>13 DEF CutOff
  <2>2. n \in 1 .. Len(bookstr) /\ bookstr[n] \in WireItems
    BY <1>1, <2>1
  <2>3. item \in WireItems
    BY <2>2 DEF WireItems
  <2> HIDE DEF n, item
  <2> QED
    BY <1>1, <2>1, <2>2, <2>3 DEF BookInvariant
<1>14. CASE UNCHANGED bookVars
  BY <1>1, <1>14 DEF bookVars, BookInvariant
<1> QED
  BY <1>3, <1>4, <1>5, <1>6, <1>7, <1>8, <1>9, <1>10, <1>11, <1>12, <1>13, <1>14
  DEF BookNext, BookStep

\* An object of the class Book stays one, and what is in the string are items:
\* a field has a value of its type, and only whole fields that the class does
\* not know are kept apart, whatever is read, copied, merged or swapped, in
\* which order.  (msg.pb.cc, all of it.)
THEOREM BookTypes == BookSpec => []BookInvariant
<1>1. BookInit => BookInvariant
  BY BookInitOK
<1>2. BookInvariant /\ [BookNext]_bookVars => BookInvariant'
  BY BookStepOK
<1> QED
  BY <1>1, <1>2, PTL DEF BookSpec

\* RoundTrip of BookUser, for every value of the constants.
THEOREM RoundTripHolds == BookSpec => []RoundTrip
<1>1. ASSUME BookInvariant
      PROVE  RoundTrip
  <2> SUFFICES ASSUME NEW o \in Objects
               PROVE  LET m == book[o]
                          items == InternalSerialize(Book, m)
                          read == ParseFromString(Book, items)
                      IN  /\ ByteSizeLong(Book, m) = SizeOf(items)
                          /\ read.ok = Valid(m)
                          /\ Valid(m) => read.msg = m
    BY DEF RoundTrip
  <2> DEFINE m == book[o]
             items == InternalSerialize(Book, m)
             read == ParseFromString(Book, items)
  <2>1. m \in Books
    BY <1>1 DEF BookInvariant
  <2> HIDE DEF m
  <2>2. items \in Seq(WireItems) /\ ByteSizeLong(Book, m) = SizeOf(items)
    BY <2>1, SerializedIs, RoomIs
  <2>3. Message(Book) \in Books /\ read = Parsed(Book, Begun(Message(Book)), items) /\ read \in States
    BY <2>2, ParsesBook
  <2>4. Valid(m) <=> ValidUTF8(m.f[1])
    BY DEF Valid, GetField
  <2>5. Valid(m) => read = Begun(m)
    BY <2>1, <2>3, <2>4, ParsedBook, MergesBook
  <2>6. ~Valid(m) => ~read.ok
    BY <2>1, <2>3, <2>4, ParsedBook
  <2> HIDE DEF items, read
  <2>7. Valid(m) => read.ok = TRUE /\ read.msg = m
    BY <2>5 DEF Begun
  <2>8. read.ok \in BOOLEAN
    BY <2>3 DEF States
  <2>9. read.ok = Valid(m)
    BY <2>6, <2>7, <2>8, Zenon DEF Valid, ValidUTF8
  <2> QED
    BY <2>2, <2>7, <2>9 DEF items, read, m
<1> QED
  BY <1>1, BookTypes, PTL

\* MergeIsConcat of BookUser, for every value of the constants.
THEOREM MergeIsConcatHolds == BookSpec => []MergeIsConcat
<1>1. ASSUME BookInvariant
      PROVE  MergeIsConcat
  <2> SUFFICES ASSUME NEW o \in Objects, NEW o2 \in Objects
               PROVE  LET read == ParseFromString(Book, InternalSerialize(Book, book[o])
                                                          \o InternalSerialize(Book, book[o2]))
                      IN  /\ read.ok = (Valid(book[o]) /\ Valid(book[o2]))
                          /\ read.ok => read.msg = MergeFrom(Book, book[o], book[o2])
                          /\ CopyFrom(Book, book[o], book[o2]) = CopyConstructor(book[o2])
    BY DEF MergeIsConcat
  <2> DEFINE m == book[o]
             m2 == book[o2]
             a == InternalSerialize(Book, m)
             b == InternalSerialize(Book, m2)
             first == Parsed(Book, Begun(Message(Book)), a)
             read == ParseFromString(Book, a \o b)
  <2>1. m \in Books /\ m2 \in Books
    BY <1>1 DEF BookInvariant
  <2> HIDE DEF m, m2
  <2>2. a \in Seq(WireItems) /\ b \in Seq(WireItems)
    BY <2>1, SerializedIs
  <2>3. /\ Valid(m) <=> ValidUTF8(m.f[1])
        /\ Valid(m2) <=> ValidUTF8(m2.f[1])
    BY DEF Valid, GetField
  <2>4. /\ Message(Book) \in Books /\ read \in States
        /\ read = Parsed(Book, Begun(Message(Book)), a \o b)
    <3>1. a \o b \in Seq(WireItems)
      BY <2>2
    <3> QED
      BY <3>1, ParsesBook
  <2>5. /\ Valid(m) => first = Begun(m)
        /\ ~Valid(m) => first.left /\ ~first.ok
    BY <2>1, <2>3, <2>4, ParsedBook, MergesBook
  <2> DEFINE second == Parsed(Book, Begun(m), b)
  <2>6. /\ Valid(m2) => second = Begun(MergeFrom(Book, m, m2))
        /\ ~Valid(m2) => second.left /\ ~second.ok
    BY <2>1, <2>3, ParsedBook
  <2> HIDE DEF a, b
  <2>7. read = Parsed(Book, first, b)
    BY <2>2, <2>4, ParsedConcat
  <2> HIDE DEF first, read
  <2>8. Valid(m) => read = second
    BY <2>5, <2>7
  <2>9. ~Valid(m) => ~read.ok
    BY <2>2, <2>5, <2>7, ParsedLeft
  <2> HIDE DEF second
  <2>10. Valid(m) /\ Valid(m2) => read.ok = TRUE /\ read.msg = MergeFrom(Book, m, m2)
    BY <2>6, <2>8 DEF Begun
  <2>11. ~(Valid(m) /\ Valid(m2)) => ~read.ok
    BY <2>6, <2>8, <2>9
  <2>12. read.ok \in BOOLEAN
    BY <2>4 DEF States
  <2>13. read.ok = (Valid(m) /\ Valid(m2))
    BY <2>10, <2>11, <2>12, Zenon
  <2>14. read.ok => read.msg = MergeFrom(Book, m, m2)
    BY <2>10, <2>11
  <2>15. CopyFrom(Book, m, m2) = CopyConstructor(m2)
    BY <2>1, MergesBook
  <2> QED
    BY <2>13, <2>14, <2>15 DEF m, m2, a, b, read
<1> QED
  BY <1>1, BookTypes, PTL

-----------------------------------------------------------------------------
(* A call of SayHello.                                                     *)

Text == <<"string">>

\* What is written of a message with the text v.
Carried(v) == IF v = <<>> THEN <<>> ELSE <<Item(1, "len", v)>>

\* One field, as in HelloRequest and HelloReply.
LEMMA FlattenOne ==
  ASSUME NEW T, NEW w \in [1 .. 1 -> Seq(T)]
  PROVE  FlattenSeq(w) = w[1]
<1> DEFINE Is(h) == h = [i \in 1 .. 1 |-> IF i = 1 THEN w[i] ELSE h[i - 1] \o w[i]]
           g == CHOOSE h : Is(h)
           e == [i \in 1 .. 1 |-> w[1]]
<1>1. Len(w) = 1
  <2>1. \A q : \A n \in Nat : DOMAIN q = 1 .. n => Len(q) = n
    OBVIOUS
  <2> QED
    BY <2>1
<1>2. FlattenSeq(w) = g[1]
  BY <1>1 DEF FlattenSeq
<1>3. Is(e)
  OBVIOUS
<1>4. Is(g)
  <2> HIDE DEF Is, e
  <2> QED
    BY <1>3
<1> HIDE DEF g, e
<1> QED
  BY <1>2, <1>4

\* A message with a text, and what is written of it.
LEMMA TextIs ==
  ASSUME NEW v \in Seq(Parts)
  PROVE  LET m == SetField(Message(Text), 1, v)
         IN  /\ m = [f |-> [num \in 1 .. 1 |-> v], unknown |-> <<>>]
             /\ InternalSerialize(Text, m) = Carried(v)
<1> DEFINE f0 == [num \in DOMAIN Text |-> Default(Text[num])]
           f == [num \in 1 .. 1 |-> v]
           m == SetField(Message(Text), 1, v)
<1>1. DOMAIN Text = 1 .. 1 /\ Len(Text) = 1 /\ Text[1] = "string" /\ 1 .. 1 = {1}
  BY DEF Text
<1>2. [f0 EXCEPT ![1] = v] = f
  BY <1>1
<1> HIDE DEF f0
<1>3. m = [[f |-> f0, unknown |-> <<>>] EXCEPT !.f[1] = v]
  BY DEF SetField, Message, f0
<1>4. [[f |-> f0, unknown |-> <<>>] EXCEPT !.f[1] = v] = [f |-> [f0 EXCEPT ![1] = v], unknown |-> <<>>]
  OBVIOUS
<1>5. m = [f |-> f, unknown |-> <<>>]
  BY <1>2, <1>3, <1>4
<1> HIDE DEF m
<1>6. Written(Text, m, 1) = Carried(v)
  <2>1. m.f[1] = v /\ Default("string") = <<>> /\ WireType("string") = "len"
    BY <1>5 DEF Default, WireType
  <2> QED
    BY <1>1, <2>1 DEF Written, Carried
<1> DEFINE w == [num \in 1 .. Len(Text) |-> Written(Text, m, num)]
<1>7. w \in [1 .. 1 -> Seq({Item(1, "len", v)})] /\ w[1] = Carried(v)
  <2>1. Carried(v) \in Seq({Item(1, "len", v)})
    <3>1. \A x : <<>> \in Seq({x}) /\ <<x>> \in Seq({x})
      OBVIOUS
    <3> QED
      BY <3>1 DEF Carried
  <2> QED
    BY <1>1, <1>6, <2>1
<1>8. InternalSerialize(Text, m) = FlattenSeq(w) \o m.unknown
  BY DEF InternalSerialize
<1> HIDE DEF w
<1>9. FlattenSeq(w) = Carried(v)
  BY <1>7, FlattenOne
<1>10. Carried(v) \o <<>> = Carried(v)
  <2>1. Carried(v) \in Seq({Item(1, "len", v)})
    BY <1>7
  <2> QED
    BY <2>1, ConcatEmptySeq
<1>11. InternalSerialize(Text, m) = Carried(v)
  BY <1>5, <1>8, <1>9, <1>10
<1> HIDE DEF f
<1> QED
  BY <1>5, <1>11 DEF m, f

\* A text that is UTF-8 is read as it was written; another one is not read.
LEMMA TextRead ==
  ASSUME NEW v \in Seq(Parts)
  PROVE  LET read == ParseFromString(Text, Carried(v))
         IN  /\ ValidUTF8(v) => read.ok /\ read.msg.f[1] = v
             /\ ~ValidUTF8(v) => ~read.ok
<1> DEFINE f0 == [num \in DOMAIN Text |-> Default(Text[num])]
           item == Item(1, "len", v)
           s == Begun([f |-> f0, unknown |-> <<>>])
           read == ParseFromString(Text, Carried(v))
<1>1. /\ DOMAIN Text = 1 .. 1 /\ Text[1] = "string" /\ 1 \in 1 .. 1
      /\ Default("string") = <<>> /\ WireType("string") = "len"
  BY DEF Text, Default, WireType
<1>2. read = Parsed(Text, s, Carried(v))
  BY DEF ParseFromString, InternalParse, Parsed, Begun, Message
<1>3. DOMAIN f0 = 1 .. 1 /\ f0[1] = <<>>
  BY <1>1
<1> HIDE DEF f0
<1>4. s.left = FALSE /\ s.ok = TRUE /\ s.msg.f = f0 /\ s \in [msg : {s.msg}, ok : BOOLEAN, left : BOOLEAN]
      /\ s.msg \in [f : {f0}, unknown : {<<>>}]
  BY DEF Begun
<1> HIDE DEF s, read
<1>5. CASE v = <<>>
  <2>1. read = s
    BY <1>2, <1>5, ParsedEmpty DEF Carried
  <2>2. ValidUTF8(v)
    <3>1. DOMAIN <<>> = {}
      OBVIOUS
    <3> QED
      BY <1>5, <3>1 DEF ValidUTF8
  <2> QED
    BY <1>3, <1>4, <1>5, <2>1, <2>2 DEF read
<1>6. CASE v # <<>>
  <2>1. read = ParseItem(Text, s, item)
    BY <1>2, <1>6, ParsedOne DEF Carried
  <2>2. item.num = 1 /\ item.wt = "len" /\ item.val = v /\ item.cut = FALSE
    BY DEF Item
  <2> HIDE DEF item
  <2>3. CASE ValidUTF8(v)
    <3>1. read = [s EXCEPT !.msg.f[1] = v]
      BY <1>1, <1>4, <2>1, <2>2, <2>3 DEF ParseItem
    <3>2. read.ok = TRUE
      BY <1>4, <3>1
    <3>3. read.msg.f[1] = v
      BY <1>3, <1>4, <3>1
    <3> QED
      BY <2>3, <3>2, <3>3 DEF read
  <2>4. CASE ~ValidUTF8(v)
    <3>1. read = [ParseFails(s) EXCEPT !.msg.f[1] = v]
      BY <1>1, <1>4, <2>1, <2>2, <2>4 DEF ParseItem
    <3>2. read.ok = FALSE
      BY <1>4, <3>1 DEF ParseFails
    <3> QED
      BY <2>4, <3>2 DEF read
  <2> QED
    BY <2>3, <2>4
<1> QED
  BY <1>5, <1>6

\* A sequence with one more element in front.
LEMMA PrependIs ==
  ASSUME NEW T, NEW a \in Seq(T), NEW b \in Seq(T), Len(a) = 1
  PROVE  \A i \in DOMAIN (a \o b) : i = 1 \/ (i - 1 \in DOMAIN b /\ (a \o b)[i] = b[i - 1])
<1> DEFINE n == Len(b)
           c == a \o b
<1>1. n \in Nat /\ DOMAIN b = 1 .. n
  OBVIOUS
<1>2. /\ c \in Seq(T) /\ Len(c) = 1 + n
      /\ \A i \in 1 .. 1 + n : c[i] = IF i <= 1 THEN a[i] ELSE b[i - 1]
  <2>1. /\ c \in Seq(T) /\ Len(c) = Len(a) + n
        /\ \A i \in 1 .. Len(a) + n : c[i] = IF i <= Len(a) THEN a[i] ELSE b[i - Len(a)]
    BY ConcatProperties
  <2> HIDE DEF c, n
  <2> QED
    BY <2>1
<1> HIDE DEF c, n
<1>3. \A i \in 1 .. 1 + n : i = 1 \/ (i - 1 \in 1 .. n /\ ~(i <= 1))
  BY <1>1
<1>4. DOMAIN c = 1 .. 1 + n
  BY <1>2
<1>5. \A i \in DOMAIN c : i = 1 \/ (i - 1 \in DOMAIN b /\ c[i] = b[i - 1])
  BY <1>1, <1>2, <1>3, <1>4
<1> QED
  BY <1>5 DEF c

\* The text of the reply is UTF-8 if the name is.
LEMMA GreetingIs ==
  ASSUME NEW name \in Seq(Parts)
  PROVE  /\ <<Prefix>> \o name \in Seq(Parts)
         /\ ValidUTF8(name) => ValidUTF8(<<Prefix>> \o name)
<1>1. Prefix \in Parts /\ Prefix # BadPart
  BY DEF Parts, Prefix, BadPart
<1> DEFINE p == Prefix
<1> HIDE DEF p
<1>2. <<p>> \in Seq(Parts)
  BY <1>1 DEF p
<1>3. <<p>> \o name \in Seq(Parts)
  BY <1>2
<1>4. ASSUME ValidUTF8(name)
      PROVE  ValidUTF8(<<p>> \o name)
  <2>1. ASSUME NEW i \in DOMAIN (<<p>> \o name)
        PROVE  (<<p>> \o name)[i] # BadPart
    <3>1. i = 1 \/ (i - 1 \in DOMAIN name /\ (<<p>> \o name)[i] = name[i - 1])
      <4>1. Len(<<p>>) = 1
        OBVIOUS
      <4> QED
        BY <1>2, <4>1, PrependIs
    <3>2. (<<p>> \o name)[1] = p
      BY <1>2
    <3> QED
      BY <1>1, <1>4, <3>1, <3>2 DEF ValidUTF8, p
  <2> QED
    BY <2>1 DEF ValidUTF8
<1> QED
  BY <1>3, <1>4 DEF p

Statuses == {"none", "OK", "INTERNAL", "UNAVAILABLE"}
CallRecords ==
  [at : {"idle", "sent", "running", "answered", "returned"}, name : Seq(Parts),
   items : {Carried(v) : v \in Seq(Parts)}, status : Statuses,
   result : Seq(Parts) \cup {NoResult} \cup {<<"failure", st>> : st \in Statuses}]

\* What the state of a call says of what was written for it.
CallRight(r) ==
  /\ r.at = "sent" => r.items = Carried(r.name)
  /\ r.at = "running" => r.items = Carried(r.name) /\ ValidUTF8(r.name)
  /\ r.at = "answered" =>
       \/ r.status = "OK" /\ ValidUTF8(r.name) /\ r.items = Carried(<<Prefix>> \o r.name)
       \/ r.status = "INTERNAL" /\ ~ValidUTF8(r.name)
  /\ r.at = "returned" =>
       \/ r.result = <<Prefix>> \o r.name /\ ValidUTF8(r.name)
       \/ r.result = <<"failure", r.status>> /\ (r.status = "INTERNAL" => ~ValidUTF8(r.name))

CallInvariant == call \in [Clients -> CallRecords] /\ \A c \in Clients : CallRight(call[c])

\* The last step of a call.
LEMMA ReturnedOK ==
  ASSUME NEW r \in CallRecords, NEW st \in Statuses, NEW text,
         st = "OK" => text = <<Prefix>> \o r.name /\ ValidUTF8(r.name),
         st = "INTERNAL" => ~ValidUTF8(r.name)
  PROVE  Returned(r, st, text) \in CallRecords /\ CallRight(Returned(r, st, text))
<1> DEFINE res == IF st = "OK" THEN text ELSE <<"failure", st>>
           q == Returned(r, st, text)
<1>1. r.name \in Seq(Parts)
  BY DEF CallRecords
<1>2. res \in Seq(Parts) \cup {NoResult} \cup {<<"failure", s>> : s \in Statuses}
  BY <1>1, GreetingIs
<1>3. <<>> \in {Carried(v) : v \in Seq(Parts)}
  <2>1. Carried(<<>>) = <<>> /\ <<>> \in Seq(Parts)
    BY DEF Carried
  <2> QED
    BY <2>1
<1>4. q = [r EXCEPT !.at = "returned", !.items = <<>>, !.status = st, !.result = res]
  BY DEF Returned
<1>5. \/ res = <<Prefix>> \o r.name /\ ValidUTF8(r.name)
      \/ res = <<"failure", st>> /\ (st = "INTERNAL" => ~ValidUTF8(r.name))
  OBVIOUS
<1> HIDE DEF res, q
<1>6. q \in CallRecords
  BY <1>2, <1>3, <1>4 DEF CallRecords
<1>7. q.at = "returned" /\ q.result = res /\ q.status = st /\ q.name = r.name
  BY <1>4 DEF CallRecords
<1>8. CallRight(q)
  BY <1>5, <1>7 DEF CallRight
<1> QED
  BY <1>6, <1>8 DEF q

\* No call has been made.
LEMMA CallInitOK == CallInit => CallInvariant
<1> DEFINE r == [at |-> "idle", name |-> <<>>, items |-> <<>>, status |-> "none", result |-> NoResult]
<1>1. <<>> \in Seq(Parts) /\ Carried(<<>>) = <<>>
  BY DEF Carried
<1>2. <<>> \in {Carried(v) : v \in Seq(Parts)}
  BY <1>1
<1>3. r \in CallRecords
  BY <1>1, <1>2 DEF CallRecords, Statuses
<1>4. CallRight(r)
  BY DEF CallRight
<1> HIDE DEF r
<1> QED
  BY <1>3, <1>4 DEF CallInit, CallInvariant, r

\* A call goes on, in the client or in the server.
LEMMA CallStepOK == CallInvariant /\ [CallNext]_callVars => CallInvariant'
<1> SUFFICES ASSUME CallInvariant, [CallNext]_callVars
             PROVE  CallInvariant'
  OBVIOUS
<1>1. /\ call \in [Clients -> CallRecords]
      /\ \A c \in Clients : call[c] \in CallRecords /\ CallRight(call[c]) /\ call[c].name \in Seq(Parts)
  BY DEF CallInvariant, CallRecords
\* One call goes on.
<1>2. ASSUME NEW c \in Clients, NEW r \in CallRecords, CallRight(r),
             call' = [call EXCEPT ![c] = r]
      PROVE  CallInvariant'
  BY <1>1, <1>2 DEF CallInvariant
<1>3. ASSUME NEW c \in Clients, NEW name \in CallNames, SayHello(c, name)
      PROVE  CallInvariant'
  <2> DEFINE r == [call[c] EXCEPT !.at = "sent", !.name = name, !.items = Carried(name)]
  <2>1. name \in Seq(Parts)
    BY CallNamesAssumption, HasParts
  <2>2. ClientSerializesRequest(ClientRequest(name)) = Carried(name)
    <3>1. HelloRequest = Text
      BY DEF HelloRequest, Text
    <3> QED
      BY <2>1, <3>1, TextIs DEF ClientSerializesRequest, ClientRequest, NewRequest, SharedCtor
  <2>3. call' = [call EXCEPT ![c] = r]
    BY <1>1, <1>3, <2>2 DEF SayHello
  <2>4. r \in CallRecords
    BY <1>1, <2>1 DEF CallRecords
  <2>5. r.at = "sent" /\ r.items = Carried(r.name)
    BY <1>1 DEF CallRecords
  <2> HIDE DEF r
  <2>6. CallRight(r)
    BY <2>5 DEF CallRight
  <2> QED
    BY <1>2, <2>3, <2>4, <2>6
<1>4. ASSUME NEW c \in Clients, Completes(c)
      PROVE  CallInvariant'
  <2> DEFINE r == call[c]
             read == ClientParsesReply(r.items)
             st == IF r.status # "OK" THEN r.status ELSE IF read.ok THEN "OK" ELSE "INTERNAL"
             text == ReplyMessage(read.msg)
  <2>1. r \in CallRecords /\ CallRight(r) /\ r.name \in Seq(Parts) /\ r.at = "answered"
    BY <1>1, <1>4 DEF Completes
  <2>2. call' = [call EXCEPT ![c] = Returned(r, st, text)]
    BY <1>4 DEF Completes
  <2> HIDE DEF r
  <2>3. \/ r.status = "OK" /\ ValidUTF8(r.name) /\ r.items = Carried(<<Prefix>> \o r.name)
        \/ r.status = "INTERNAL" /\ ~ValidUTF8(r.name)
    BY <2>1 DEF CallRight
  <2>4. CASE r.status = "OK" /\ ValidUTF8(r.name) /\ r.items = Carried(<<Prefix>> \o r.name)
    <3> DEFINE v == <<Prefix>> \o r.name
    <3>1. v \in Seq(Parts) /\ ValidUTF8(v)
      BY <2>1, <2>4, GreetingIs
    <3>2. HelloReply = Text
      BY DEF HelloReply, Text
    <3>3. read = ParseFromString(Text, Carried(v))
      BY <2>4, <3>2 DEF ClientParsesReply
    <3> HIDE DEF v
    <3>4. read.ok /\ text = v
      BY <3>1, <3>3, TextRead DEF ReplyMessage, GetField
    <3> HIDE DEF read, text
    <3>5. st = "OK" /\ text = <<Prefix>> \o r.name
      BY <2>4, <3>4 DEF v
    <3> HIDE DEF st
    <3>6. Returned(r, st, text) \in CallRecords /\ CallRight(Returned(r, st, text))
      BY <2>1, <2>4, <3>5, ReturnedOK DEF Statuses
    <3> QED
      BY <1>2, <2>2, <3>6
  <2>5. CASE r.status = "INTERNAL" /\ ~ValidUTF8(r.name)
    <3>1. st = "INTERNAL"
      BY <2>5
    <3> HIDE DEF st, text
    <3>2. Returned(r, st, text) \in CallRecords /\ CallRight(Returned(r, st, text))
      BY <2>1, <2>5, <3>1, ReturnedOK DEF Statuses
    <3> QED
      BY <1>2, <2>2, <3>2
  <2> QED
    BY <2>3, <2>4, <2>5
<1>5. ASSUME NEW c \in Clients, Unavailable(c)
      PROVE  CallInvariant'
  <2>1. call' = [call EXCEPT ![c] = Returned(call[c], "UNAVAILABLE", <<>>)]
    BY <1>5 DEF Unavailable
  <2>2. call[c] \in CallRecords /\ "UNAVAILABLE" \in Statuses
    BY <1>1 DEF Statuses
  <2>3. /\ Returned(call[c], "UNAVAILABLE", <<>>) \in CallRecords
        /\ CallRight(Returned(call[c], "UNAVAILABLE", <<>>))
    BY <2>2, ReturnedOK
  <2> QED
    BY <1>2, <2>1, <2>3
<1>6. ASSUME NEW c \in Clients, Receive(c)
      PROVE  CallInvariant'
  <2> DEFINE r == call[c]
             ok == ServerParsesRequest(r.items).ok
             q1 == [r EXCEPT !.at = "running"]
             q2 == [r EXCEPT !.at = "answered", !.items = <<>>, !.status = "INTERNAL"]
  <2>1. r \in CallRecords /\ CallRight(r) /\ r.name \in Seq(Parts) /\ r.at = "sent"
    BY <1>1, <1>6 DEF Receive
  <2>2. call' = [call EXCEPT ![c] = IF ok THEN q1 ELSE q2]
    BY <1>6 DEF Receive
  <2> HIDE DEF r
  <2>3. r.items = Carried(r.name)
    BY <2>1 DEF CallRight
  <2>4. ok <=> ValidUTF8(r.name)
    <3>1. HelloRequest = Text
      BY DEF HelloRequest, Text
    <3>2. ServerParsesRequest(r.items) = ParseFromString(Text, Carried(r.name))
      BY <2>3, <3>1 DEF ServerParsesRequest
    <3> QED
      BY <2>1, <3>2, TextRead
  <2> HIDE DEF ok
  <2>5. CASE ok
    <3>1. q1 \in CallRecords
      BY <2>1 DEF CallRecords
    <3>2. q1.at = "running" /\ q1.items = r.items /\ q1.name = r.name
      BY <2>1 DEF CallRecords
    <3> HIDE DEF q1, q2
    <3>3. CallRight(q1)
      BY <2>3, <2>4, <2>5, <3>2 DEF CallRight
    <3> QED
      BY <1>2, <2>2, <2>5, <3>1, <3>3
  <2>6. CASE ~ok
    <3>1. <<>> \in {Carried(v) : v \in Seq(Parts)}
      <4>1. Carried(<<>>) = <<>> /\ <<>> \in Seq(Parts)
        BY DEF Carried
      <4> QED
        BY <4>1
    <3>2. q2 \in CallRecords
      BY <2>1, <3>1 DEF CallRecords, Statuses
    <3>3. q2.at = "answered" /\ q2.status = "INTERNAL" /\ q2.name = r.name
      BY <2>1 DEF CallRecords
    <3> HIDE DEF q1, q2
    <3>4. CallRight(q2)
      BY <2>4, <2>6, <3>3 DEF CallRight
    <3> QED
      BY <1>2, <2>2, <2>6, <3>2, <3>4
  <2> QED
    BY <2>5, <2>6
<1>7. ASSUME NEW c \in Clients, ServiceSayHello(c)
      PROVE  CallInvariant'
  <2> DEFINE r == call[c]
             request == ServerParsesRequest(r.items).msg
             reply == SetMessage(<<Prefix>> \o RequestMessage(request))
             v == <<Prefix>> \o r.name
             q == [r EXCEPT !.at = "answered", !.status = "OK", !.items = ServerSerializesReply(reply)]
  <2>1. r \in CallRecords /\ CallRight(r) /\ r.name \in Seq(Parts) /\ r.at = "running"
    BY <1>1, <1>7 DEF ServiceSayHello
  <2>2. call' = [call EXCEPT ![c] = q]
    BY <1>1, <1>7 DEF ServiceSayHello
  <2> HIDE DEF r
  <2>3. r.items = Carried(r.name) /\ ValidUTF8(r.name)
    BY <2>1 DEF CallRight
  <2>4. HelloRequest = Text /\ HelloReply = Text
    BY DEF HelloRequest, HelloReply, Text
  <2>5. RequestMessage(request) = r.name
    <3>1. ServerParsesRequest(r.items) = ParseFromString(Text, Carried(r.name))
      BY <2>3, <2>4 DEF ServerParsesRequest
    <3> QED
      BY <2>1, <2>3, <3>1, TextRead DEF RequestMessage, GetField
  <2>6. v \in Seq(Parts)
    BY <2>1, GreetingIs
  <2>7. reply = SetField(Message(Text), 1, v)
    BY <2>4, <2>5 DEF SetMessage, NewReply, SharedCtor
  <2> HIDE DEF request, reply, v
  <2>8. ServerSerializesReply(reply) = Carried(v)
    BY <2>4, <2>6, <2>7, TextIs DEF ServerSerializesReply
  <2>9. q \in CallRecords
    BY <2>1, <2>6, <2>8 DEF CallRecords, Statuses
  <2>10. q.at = "answered" /\ q.status = "OK" /\ q.name = r.name /\ q.items = Carried(v)
    BY <2>1, <2>8 DEF CallRecords
  <2> HIDE DEF q
  <2>11. CallRight(q)
    BY <2>3, <2>10 DEF CallRight, v
  <2> QED
    BY <1>2, <2>2, <2>9, <2>11
<1>8. CASE UNCHANGED call
  BY <1>1, <1>8 DEF CallInvariant
<1> QED
  BY <1>3, <1>4, <1>5, <1>6, <1>7, <1>8
  DEF CallNext, Proceeds, RunServer, Wait, Killed, Loses, callVars

\* What is on its way for a call is what was written for it, whole, in each
\* of its states.  (grpcclient.cpp:20, GrpcServer.cpp:21.)
THEOREM CallsRight == CallSpec => []CallInvariant
<1>1. CallInit => CallInvariant
  BY CallInitOK
<1>2. CallInvariant /\ [CallNext]_callVars => CallInvariant'
  BY CallStepOK
<1> QED
  BY <1>1, <1>2, PTL DEF CallSpec

\* AnswerRight of HelloCall, for every set of clients and names.
THEOREM AnswerRightHolds == CallSpec => []AnswerRight
<1>1. CallInvariant => AnswerRight
  BY DEF CallInvariant, CallRight, AnswerRight
<1> QED
  BY <1>1, CallsRight, PTL

-----------------------------------------------------------------------------
(* Reading against its definition.                                         *)

Whole(item) == /\ ~item.cut /\ item.wt # "end"
               /\ Known(item) /\ item.num = 1 => ValidUTF8(item.val)

\* What one round of the loop changes.
LEMMA RoundIs ==
  ASSUME NEW s \in States, ~s.left, NEW item \in WireItems
  PROVE  LET t == ParseItem(Book, s, item)
         IN  /\ ~Whole(item) => t.left /\ ~t.ok
             /\ Whole(item) => (t.left <=> s.left) /\ (t.ok <=> s.ok)
             /\ Whole(item) /\ ~Known(item) =>
                  t.msg.f = s.msg.f /\ t.msg.unknown = Append(s.msg.unknown, item)
             /\ Whole(item) /\ Known(item) =>
                  t.msg.f = [s.msg.f EXCEPT ![item.num] = item.val] /\ t.msg.unknown = s.msg.unknown
<1> DEFINE t == ParseItem(Book, s, item)
           set(q, val) == [q EXCEPT !.msg.f[item.num] = val]
<1>1. /\ s.msg.f = s.msg.f /\ DOMAIN s = {"msg", "ok", "left"} /\ DOMAIN s.msg = {"f", "unknown"}
      /\ s.ok \in BOOLEAN /\ s.left \in BOOLEAN
  BY DEF States, Books
<1>2. \A val : /\ set(s, val).left = s.left /\ set(s, val).ok = s.ok
               /\ set(s, val).msg.f = [s.msg.f EXCEPT ![item.num] = val]
               /\ set(s, val).msg.unknown = s.msg.unknown
  BY <1>1
<1>3. \A val : set(ParseFails(s), val).left = TRUE /\ set(ParseFails(s), val).ok = FALSE
  BY <1>1 DEF ParseFails
<1>4. CASE ~Known(item)
  <2>1. t = HandleUnusual(s, item)
    BY <1>4 DEF ParseItem, Known
  <2>2. CASE item.cut \/ item.wt = "end"
    <3>1. t = ParseFails(s)
      BY <2>1, <2>2 DEF HandleUnusual
    <3>2. t.left = TRUE /\ t.ok = FALSE
      BY <1>1, <3>1 DEF ParseFails
    <3> HIDE DEF t
    <3> QED
      BY <2>2, <3>2 DEF Whole, t
  <2>3. CASE ~(item.cut \/ item.wt = "end")
    <3>1. t = [s EXCEPT !.msg.unknown = Append(s.msg.unknown, item)]
      BY <2>1, <2>3 DEF HandleUnusual
    <3>2. /\ t.left = s.left /\ t.ok = s.ok
          /\ t.msg.f = s.msg.f /\ t.msg.unknown = Append(s.msg.unknown, item)
      BY <1>1, <3>1
    <3> HIDE DEF t
    <3>3. (t.left <=> s.left) /\ (t.ok <=> s.ok)
      BY <3>2
    <3>4. Whole(item)
      BY <1>4, <2>3 DEF Whole
    <3> QED
      BY <1>4, <3>2, <3>3, <3>4 DEF t
  <2> QED
    BY <2>2, <2>3
<1>5. CASE Known(item)
  <2>1. item.wt # "end" /\ item.num \in 1 .. 3 /\ (Book[item.num] = "string" <=> item.num = 1)
    BY <1>5, KnownIs, BookIs
  <2>2. CASE item.cut \/ (item.num = 1 /\ ~ValidUTF8(item.val))
    <3>1. t \in {set(ParseFails(s), Garbage(Book[item.num])), set(ParseFails(s), item.val)}
      BY <1>5, <2>1, <2>2 DEF ParseItem, Known
    <3>2. ~Whole(item)
      BY <1>5, <2>2 DEF Whole
    <3> HIDE DEF t, set
    <3>3. t.left = TRUE /\ t.ok = FALSE
      BY <1>3, <3>1
    <3> QED
      BY <3>2, <3>3 DEF t
  <2>3. CASE ~(item.cut \/ (item.num = 1 /\ ~ValidUTF8(item.val)))
    <3>1. t = set(s, item.val)
      BY <1>5, <2>1, <2>3 DEF ParseItem, Known
    <3>2. Whole(item)
      BY <2>1, <2>3 DEF Whole
    <3> HIDE DEF t, set
    <3>3. /\ t.left = s.left /\ t.ok = s.ok
          /\ t.msg.f = [s.msg.f EXCEPT ![item.num] = item.val] /\ t.msg.unknown = s.msg.unknown
      BY <1>2, <3>1
    <3>4. (t.left <=> s.left) /\ (t.ok <=> s.ok)
      BY <3>3
    <3> QED
      BY <1>5, <3>2, <3>3, <3>4 DEF t
  <2> QED
    BY <2>2, <2>3
<1> QED
  BY <1>4, <1>5

\* Among the first i items: those with a value for a field, and the others.
Given(items, i, num) == {k \in 1 .. i : Known(items[k]) /\ items[k].num = num}
Others(items, i) == {k \in 1 .. i : ~Known(items[k])}

\* One more item with a value for a field,
LEMMA GivenNext ==
  ASSUME NEW items, NEW i \in Nat, NEW num
  PROVE  /\ Given(items, 0, num) = {}
         /\ Given(items, i + 1, num) = IF Known(items[i + 1]) /\ items[i + 1].num = num
                                       THEN Given(items, i, num) \cup {i + 1}
                                       ELSE Given(items, i, num)
         /\ i + 1 \in Given(items, i + 1, num) => Max(Given(items, i + 1, num)) = i + 1
<1>1. 1 .. 0 = {} /\ 1 .. i + 1 = (1 .. i) \cup {i + 1}
  OBVIOUS
<1>2. i + 1 \in Given(items, i + 1, num) => Max(Given(items, i + 1, num)) = i + 1
  <2>1. Given(items, i + 1, num) \in SUBSET (1 .. i + 1)
    BY DEF Given
  <2> QED
    BY <2>1, MaxIs
<1>3. Given(items, 0, num) = {}
  BY <1>1 DEF Given
<1>4. Given(items, i + 1, num) = IF Known(items[i + 1]) /\ items[i + 1].num = num
                                 THEN Given(items, i, num) \cup {i + 1}
                                 ELSE Given(items, i, num)
  BY <1>1 DEF Given
<1> QED
  BY <1>2, <1>3, <1>4

\* and one more that is not understood.
LEMMA OthersNext ==
  ASSUME NEW items, NEW i \in Nat
  PROVE  /\ Others(items, 0) = {} /\ Cardinality({}) = 0
         /\ Cardinality(Others(items, i)) \in Nat
         /\ Known(items[i + 1]) => Others(items, i + 1) = Others(items, i)
         /\ ~Known(items[i + 1]) =>
              /\ Others(items, i + 1) = Others(items, i) \cup {i + 1}
              /\ Cardinality(Others(items, i + 1)) = Cardinality(Others(items, i)) + 1
<1>1. 1 .. 0 = {} /\ 1 .. i + 1 = (1 .. i) \cup {i + 1} /\ i + 1 \notin 1 .. i
  OBVIOUS
<1>2. IsFiniteSet(Others(items, i)) /\ i + 1 \notin Others(items, i)
  <2>1. IsFiniteSet(1 .. i)
    <3>1. 1 \in Int /\ i \in Int
      OBVIOUS
    <3> QED
      BY <3>1, FS_Interval
  <2>2. Others(items, i) \in SUBSET (1 .. i)
    BY DEF Others
  <2> QED
    BY <1>1, <2>1, <2>2, FS_Subset
<1>3. Others(items, 0) = {}
  BY <1>1 DEF Others
<1>4. Known(items[i + 1]) => Others(items, i + 1) = Others(items, i)
  BY <1>1 DEF Others
<1>5. ~Known(items[i + 1]) => Others(items, i + 1) = Others(items, i) \cup {i + 1}
  BY <1>1 DEF Others
<1>6. Cardinality(Others(items, i)) \in Nat
  BY <1>2, FS_CardinalityType
<1>7. Cardinality(Others(items, i) \cup {i + 1}) = Cardinality(Others(items, i)) + 1
  BY <1>2, FS_AddElement
<1> QED
  BY <1>3, <1>4, <1>5, <1>6, <1>7, FS_EmptySet

\* What has been read after i items.
ReadSoFar(items, i, t) ==
  /\ t \in States
  /\ (t.ok <=> ~t.left) /\ (t.ok <=> \A k \in 1 .. i : Whole(items[k]))
  /\ t.ok =>
       /\ Len(t.msg.unknown) = Cardinality(Others(items, i))
       /\ \A k \in Others(items, i) : t.msg.unknown[Cardinality(Others(items, k))] = items[k]
       /\ \A num \in 1 .. 3 :
            t.msg.f[num] = IF Given(items, i, num) = {} THEN Default(Book[num])
                           ELSE items[Max(Given(items, i, num))].val

\* One more round.
LEMMA ReadNext ==
  ASSUME NEW items, NEW i \in Nat, items[i + 1] \in WireItems,
         NEW s, ReadSoFar(items, i, s)
  PROVE  ReadSoFar(items, i + 1, ParseItem(Book, s, items[i + 1]))
<1> DEFINE item == items[i + 1]
           t == ParseItem(Book, s, item)
<1>1. s \in States /\ item \in WireItems
  BY DEF ReadSoFar
<1>2. t \in States
  BY <1>1, RoundType
<1>3. 1 .. i + 1 = (1 .. i) \cup {i + 1}
  OBVIOUS
<1> HIDE DEF item
<1>4. (\A k \in 1 .. i + 1 : Whole(items[k])) <=> (\A k \in 1 .. i : Whole(items[k])) /\ Whole(item)
  BY <1>3 DEF item
<1>5. /\ s.ok <=> ~s.left
      /\ s.ok <=> \A k \in 1 .. i : Whole(items[k])
  BY DEF ReadSoFar
<1>6. CASE s.left
  <2>1. t = s
    BY <1>6 DEF ParseItem
  <2> HIDE DEF t
  <2>2. ~t.ok /\ t.left /\ ~(\A k \in 1 .. i + 1 : Whole(items[k]))
    BY <1>4, <1>5, <1>6, <2>1
  <2> QED
    BY <1>2, <2>2 DEF ReadSoFar, t, item
<1>7. CASE ~s.left /\ ~Whole(item)
  <2>1. t.left /\ ~t.ok
    BY <1>1, <1>7, RoundIs
  <2> HIDE DEF t
  <2>2. ~(\A k \in 1 .. i + 1 : Whole(items[k]))
    BY <1>4, <1>7
  <2> QED
    BY <1>2, <2>1, <2>2 DEF ReadSoFar, t, item
<1>8. CASE ~s.left /\ Whole(item)
  <2>1. /\ (t.left <=> s.left) /\ (t.ok <=> s.ok)
        /\ ~Known(item) => t.msg.f = s.msg.f /\ t.msg.unknown = Append(s.msg.unknown, item)
        /\ Known(item) => /\ t.msg.f = [s.msg.f EXCEPT ![item.num] = item.val]
                          /\ t.msg.unknown = s.msg.unknown
    BY <1>1, <1>8, RoundIs
  <2> HIDE DEF t
  <2>2. t.ok /\ ~t.left /\ \A k \in 1 .. i + 1 : Whole(items[k])
    BY <1>4, <1>5, <1>8, <2>1
  <2>3. /\ s.ok /\ s.msg.unknown \in Seq(Kept) /\ s.msg.f \in Values
        /\ Len(s.msg.unknown) = Cardinality(Others(items, i))
        /\ \A k \in Others(items, i) : s.msg.unknown[Cardinality(Others(items, k))] = items[k]
        /\ \A num \in 1 .. 3 :
             s.msg.f[num] = IF Given(items, i, num) = {} THEN Default(Book[num])
                            ELSE items[Max(Given(items, i, num))].val
    BY <1>1, <1>5, <1>8 DEF ReadSoFar, States, Books
  <2>4. /\ Len(t.msg.unknown) = Cardinality(Others(items, i + 1))
        /\ \A k \in Others(items, i + 1) : t.msg.unknown[Cardinality(Others(items, k))] = items[k]
    <3>1. CASE Known(item)
      <4>1. Others(items, i + 1) = Others(items, i)
        BY <3>1, OthersNext DEF item
      <4> QED
        BY <2>1, <2>3, <3>1, <4>1
    <3>2. CASE ~Known(item)
      <4> DEFINE n == Cardinality(Others(items, i))
                 u == s.msg.unknown
      <4>1. /\ n \in Nat /\ Others(items, i + 1) = Others(items, i) \cup {i + 1}
            /\ Cardinality(Others(items, i + 1)) = n + 1
        BY <3>2, OthersNext DEF item
      <4>2. u \in Seq(Kept) /\ Len(u) = n /\ t.msg.unknown = Append(u, item)
        BY <2>1, <2>3, <3>2
      <4>3. \A k \in Others(items, i) : Cardinality(Others(items, k)) \in 1 .. n
        <5> TAKE k \in Others(items, i)
        <5>1. k \in 1 .. i /\ k - 1 \in Nat /\ (k - 1) + 1 = k /\ ~Known(items[k])
          BY DEF Others
        <5>2. Cardinality(Others(items, k)) = Cardinality(Others(items, k - 1)) + 1
          <6>1. \A j \in Nat : ~Known(items[j + 1]) =>
                   Cardinality(Others(items, j + 1)) = Cardinality(Others(items, j)) + 1
            BY OthersNext
          <6> QED
            BY <5>1, <6>1
        <5>3. Cardinality(Others(items, k - 1)) \in Nat
          BY <5>1, OthersNext
        <5>4. Cardinality(Others(items, k)) <= n
          <6>1. Others(items, k) \in SUBSET Others(items, i)
            BY <5>1 DEF Others
          <6>2. IsFiniteSet(Others(items, i))
            <7>1. IsFiniteSet(1 .. i)
              <8>1. 1 \in Int /\ i \in Int
                OBVIOUS
              <8> QED
                BY <8>1, FS_Interval
            <7>2. Others(items, i) \in SUBSET (1 .. i)
              BY DEF Others
            <7> QED
              BY <7>1, <7>2, FS_Subset
          <6> QED
            BY <6>1, <6>2, FS_Subset
        <5> HIDE DEF n
        <5> QED
          BY <4>1, <5>2, <5>3, <5>4
      <4> HIDE DEF n, u
      <4>4. /\ Append(u, item)[n + 1] = item /\ Len(Append(u, item)) = n + 1
            /\ \A j \in 1 .. n : Append(u, item)[j] = u[j]
        BY <4>1, <4>2
      <4>5. \A k \in Others(items, i) : u[Cardinality(Others(items, k))] = items[k]
        BY <2>3 DEF u
      <4>6. ASSUME NEW k \in Others(items, i + 1)
            PROVE  t.msg.unknown[Cardinality(Others(items, k))] = items[k]
        <5>1. CASE k = i + 1
          BY <4>1, <4>2, <4>4, <5>1 DEF item
        <5>2. CASE k \in Others(items, i)
          BY <4>2, <4>3, <4>4, <4>5, <5>2
        <5> QED
          BY <4>1, <5>1, <5>2
      <4> QED
        BY <4>1, <4>2, <4>4, <4>6
    <3> QED
      BY <3>1, <3>2
  <2>5. ASSUME NEW num \in 1 .. 3
        PROVE  t.msg.f[num] = IF Given(items, i + 1, num) = {} THEN Default(Book[num])
                              ELSE items[Max(Given(items, i + 1, num))].val
    <3>1. CASE Known(item) /\ item.num = num
      <4>1. i + 1 \in Given(items, i + 1, num)
        BY <3>1, GivenNext DEF item
      <4>2. Max(Given(items, i + 1, num)) = i + 1
        BY <4>1, GivenNext
      <4>3. t.msg.f[num] = item.val
        BY <2>1, <2>3, <3>1 DEF Values
      <4> QED
        BY <4>1, <4>2, <4>3 DEF item
    <3>2. CASE ~(Known(item) /\ item.num = num)
      <4>1. Given(items, i + 1, num) = Given(items, i, num)
        BY <3>2, GivenNext DEF item
      <4>2. t.msg.f[num] = s.msg.f[num]
        BY <2>1, <2>3, <3>2 DEF Values
      <4> QED
        BY <2>3, <4>1, <4>2
    <3> QED
      BY <3>1, <3>2
  <2> QED
    BY <1>2, <2>2, <2>4, <2>5 DEF ReadSoFar, t, item
<1> QED
  BY <1>6, <1>7, <1>8

\* All the rounds.
LEMMA ReadAll ==
  ASSUME NEW items \in Seq(WireItems)
  PROVE  ReadSoFar(items, Len(items), ParseFromString(Book, items))
<1> DEFINE n == Len(items)
           s == Begun(Message(Book))
<1>1. PICK r : IsRun("parse", Book, s, items, r) /\ Parsed(Book, s, items) = r[n]
  BY ParsedRuns
<1>2. n \in Nat /\ \A i \in 1 .. n : items[i] \in WireItems
  OBVIOUS
<1>3. r[0] = s /\ \A i \in 1 .. n : r[i] = ParseItem(Book, r[i - 1], items[i])
  BY <1>1 DEF IsRun, Round
<1>4. ParseFromString(Book, items) = Parsed(Book, s, items)
  BY ParsesBook
<1> DEFINE S == {i \in Nat : i <= n => ReadSoFar(items, i, r[i])}
<1>5. 0 \in S
  <2>1. s \in States /\ s.ok = TRUE /\ s.left = FALSE
    BY ParsesBook DEF Begun
  <2>2. Len(s.msg.unknown) = 0 /\ \A num \in 1 .. 3 : s.msg.f[num] = Default(Book[num])
    <3>1. s.msg = [f |-> [num \in DOMAIN Book |-> Default(Book[num])], unknown |-> <<>>]
      BY DEF Begun, Message
    <3> HIDE DEF s
    <3> QED
      BY <3>1, BookIs
  <2>3. 0 \in Nat /\ 1 .. 0 = {}
    OBVIOUS
  <2>4. /\ Others(items, 0) = {} /\ Cardinality({}) = 0
        /\ \A num : Given(items, 0, num) = {}
    BY <2>3, GivenNext, OthersNext
  <2> HIDE DEF s
  <2>5. ReadSoFar(items, 0, s)
    BY <2>1, <2>2, <2>3, <2>4 DEF ReadSoFar
  <2> QED
    BY <1>3, <2>3, <2>5
<1> HIDE DEF n, s
<1>6. ASSUME NEW i \in Nat, i \in S
      PROVE  i + 1 \in S
  <2> SUFFICES ASSUME i + 1 <= n
               PROVE  ReadSoFar(items, i + 1, r[i + 1])
    OBVIOUS
  <2>1. i + 1 \in 1 .. n /\ i <= n /\ (i + 1) - 1 = i
    BY <1>2
  <2>2. ReadSoFar(items, i, r[i]) /\ items[i + 1] \in WireItems
    BY <1>2, <1>6, <2>1
  <2>3. r[i + 1] = ParseItem(Book, r[i], items[i + 1])
    BY <1>3, <2>1
  <2> QED
    BY <2>2, <2>3, ReadNext
<1> HIDE DEF S
<1>7. n \in S
  BY <1>2, <1>5, <1>6, CountUp
<1>8. ReadSoFar(items, n, r[n])
  BY <1>2, <1>7 DEF S
<1> QED
  BY <1>1, <1>4, <1>8 DEF n

\* ReadsLast of BookUser, for every value of the constants.
THEOREM ReadsLastHolds == BookSpec => []ReadsLast
<1>1. ASSUME BookInvariant
      PROVE  ReadsLast
  <2> DEFINE n == Len(bookstr)
             read == ParseFromString(Book, bookstr)
             given(num) == {i \in DOMAIN bookstr : Known(bookstr[i]) /\ bookstr[i].num = num}
             others == {i \in DOMAIN bookstr : ~Known(bookstr[i])}
  <2>1. bookstr \in Seq(WireItems)
    BY <1>1 DEF BookInvariant
  <2>2. n \in Nat /\ DOMAIN bookstr = 1 .. n
    BY <2>1
  <2>3. ReadSoFar(bookstr, n, read)
    BY <2>1, ReadAll
  <2> HIDE DEF n, read
  <2>4. read.ok \in BOOLEAN
    BY <2>3 DEF ReadSoFar, States
  <2>5. others = Others(bookstr, n) /\ \A num : given(num) = Given(bookstr, n, num)
    BY <2>2 DEF Others, Given
  <2>6. \A i \in others : {j \in others : j <= i} = Others(bookstr, i)
    BY <2>2, <2>5 DEF Others
  <2>7. read.ok <=> \A i \in DOMAIN bookstr : Whole(bookstr[i])
    BY <2>2, <2>3 DEF ReadSoFar
  <2>8. read.ok = \A i \in DOMAIN bookstr :
                     LET item == bookstr[i]
                     IN  /\ ~item.cut /\ item.wt # "end"
                         /\ Known(item) /\ item.num = 1 => ValidUTF8(item.val)
    BY <2>4, <2>7, Zenon DEF Whole
  <2> HIDE DEF given, others
  <2>9. ASSUME read.ok
        PROVE  /\ Len(read.msg.unknown) = Cardinality(others)
               /\ \A i \in others :
                    read.msg.unknown[Cardinality({j \in others : j <= i})] = bookstr[i]
               /\ \A num \in 1 .. 3 :
                    read.msg.f[num] = IF given(num) = {} THEN Default(Book[num])
                                      ELSE bookstr[Max(given(num))].val
    BY <2>3, <2>5, <2>6, <2>9 DEF ReadSoFar
  <2>10. \A num \in 1 .. 3 : GetField(read.msg, num) = read.msg.f[num]
    BY DEF GetField
  <2> QED
    BY <2>8, <2>9, <2>10, BookIs DEF ReadsLast, Known, given, others, read
<1> QED
  BY <1>1, BookTypes, PTL
=============================================================================
