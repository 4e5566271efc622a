----------------------- MODULE CallbackSessionProofs -----------------------
(***************************************************************************)
(* A session of the callback servers is left in _sessions in two ways,     *)
(* both with threads: by the race of HandleAccept with the session's own   *)
(* handlers, and by an exception in HandleRead.  The argument follows      *)
(* accept: before Start there is no handler; between Start and the insert  *)
(* a handler can end the reads only where it has another thread, and then  *)
(* it has thrown, or ClearSession came too early; afterwards every end of  *)
(* the reads erases the session or throws.                                 *)
(*                                                                         *)
(* No reply is doubled or overtaken: the replies that are out, those in    *)
(* the send queue and the requests in the logic layer are one sequence,    *)
(* which only grows at its end, by the next requests, and which misses     *)
(* only requests that were dropped or whose posting was lost.              *)
(*                                                                         *)
(* The replies in the queue and those out are what SessionOutput accepted  *)
(* and sent: a push accepts, the end of a write transmits, and a handler   *)
(* that closes the socket gives the connection up.                         *)
(***************************************************************************)
EXTENDS CallbackSession, SequenceTheorems, TLAPS

\* Before Start the session has no handlers and is not in the map.
Unstarted == accept = "listening" =>
               read = "none" /\ write = "none" /\ msg_que = <<>> /\ ~in_map

\* Reads that ended before the insert ended on another thread, which cleared the
\* session too early or threw.
EndedBefore == accept = "started" /\ read = "none" =>
                 ~OneThread /\ (early \/ thrown = "caught")

LInv == /\ accept \in {"listening", "started", "done"}
        /\ Unstarted /\ EndedBefore /\ LeakOnlyWithThreads

-----------------------------------------------------------------------------
\* Handlers run after Start, and by themselves until the accept handler is
\* done where there is one thread; so they clear early only elsewhere.
LEMMA Clears ==
  ASSUME LInv, MayRun, accept # "listening", ClearSession,
         UNCHANGED <<kind, accept, thrown>>
  PROVE  LInv'
<1>1. OneThread' = OneThread
  BY DEF OneThread
<1>2. accept = "started" => early' /\ ~OneThread
  BY DEF ClearSession, MayRun
<1> QED
  BY <1>1, <1>2
  DEF LInv, Unstarted, EndedBefore, LeakOnlyWithThreads, ClearSession

\* A step that keeps the read going and leaves accept and the map alone.
LEMMA ReadsOn ==
  ASSUME LInv, accept # "listening", read' # "none" \/ read' = read,
         UNCHANGED <<kind, accept, in_map, early, thrown>>
  PROVE  LInv'
<1>1. OneThread' = OneThread
  BY DEF OneThread
<1> QED
  BY <1>1
  DEF LInv, Unstarted, EndedBefore, LeakOnlyWithThreads

\* A handler that throws ends the server, or is one of those with threads.
LEMMA Throws ==
  ASSUME LInv, MayRun, accept # "listening", UNCHANGED <<kind, accept, early>>,
         \/ OneThread /\ in_map' = FALSE
         \/ ~OneThread /\ thrown' = "caught"
  PROVE  LInv'
<1>1. OneThread' = OneThread
  BY DEF OneThread
<1> QED
  BY <1>1 DEF LInv, Unstarted, EndedBefore, LeakOnlyWithThreads, MayRun

\* The invariant holds at the start.
LEMMA InitLInv ==
  ASSUME Init
  PROVE  LInv
BY DEF Init, LInv, Unstarted, EndedBefore, LeakOnlyWithThreads

\* Every step keeps it.
LEMMA NextLInv ==
  ASSUME LInv, [Next]_vars
  PROVE  LInv'
<1> USE DEF server, history
<1>a. read # "none" \/ write # "none" \/ msg_que # <<>> => accept # "listening"
  BY DEF LInv, Unstarted
<1>1. CASE AcceptFails
  BY <1>1 DEF AcceptFails, input, logic, OneThread, LInv, Unstarted, EndedBefore,
              LeakOnlyWithThreads
<1>2. CASE Start
  BY <1>2 DEF Start, logic, OneThread, LInv, Unstarted, EndedBefore, LeakOnlyWithThreads
<1>3. CASE Insert
  BY <1>3 DEF Insert, input, logic, OneThread, LInv, Unstarted, EndedBefore,
              LeakOnlyWithThreads
<1>4. CASE HandleRead
  <2>1. ASSUME NEW n \in Complete, ReadSome(n)
        PROVE  LInv'
    BY <1>a, <2>1, ReadsOn DEF ReadSome, Reads
  <2>2. ASSUME NEW n \in Complete, ReadSomeIllegal(n)
        PROVE  LInv'
    BY <1>a, <2>2, Clears DEF ReadSomeIllegal, Reads
  <2>3. CASE HandleReadHead
    BY <1>a, <2>3, ReadsOn DEF HandleReadHead, Reads
  <2>4. CASE HandleReadHeadIllegal
    BY <1>a, <2>4, Clears DEF HandleReadHeadIllegal, Reads
  <2>5. CASE HandleReadMsg
    BY <1>a, <2>5, ReadsOn DEF HandleReadMsg, Reads
  <2>6. CASE ReadError
    BY <1>a, <2>6, Clears DEF ReadError, Reads
  <2>7. CASE Post
    BY <1>a, <2>7, ReadsOn DEF Post
  <2>8. CASE ReadThrows
    <3>1. /\ MayRun /\ read # "none" /\ UNCHANGED <<kind, accept, early>>
          /\ \/ OneThread /\ in_map' = FALSE
             \/ ~OneThread /\ thrown' = "caught"
      BY <2>8 DEF ReadThrows, ServerEnds
    <3> QED
      BY <1>a, <3>1, Throws
  <2> QED
    BY <1>4, <2>1, <2>2, <2>3, <2>4, <2>5, <2>6, <2>7, <2>8 DEF HandleRead
<1>5. CASE HandleWrite
  <2>1. CASE WriteOk
    BY <1>a, <2>1, ReadsOn DEF WriteOk, input
  <2>2. CASE WriteError
    BY <1>a, <2>2, Clears DEF WriteError, input
  <2>3. CASE WriteThrows
    <3>1. MayRun /\ write # "none" /\ UNCHANGED <<kind, accept, early>>
      BY <2>3 DEF WriteThrows
    <3>2. CASE OneThread
      BY <1>a, <2>3, <3>1, <3>2, Throws DEF WriteThrows, ServerEnds
    <3>3. CASE ~OneThread
      BY <1>a, <2>3, <3>1, <3>3, ReadsOn DEF WriteThrows
    <3> QED
      BY <3>2, <3>3
  <2> QED
    BY <1>5, <2>1, <2>2, <2>3 DEF HandleWrite
<1>6. CASE Worker
  <2>1. CASE Reply
    BY <1>a, <2>1, ReadsOn DEF Reply, input
  <2>2. CASE Ignore
    BY <1>a, <2>2, ReadsOn DEF Ignore, input
  <2> QED
    BY <1>6, <2>1, <2>2 DEF Worker
<1>7. CASE ReadCompletes
  BY <1>a, <1>7, ReadsOn DEF ReadCompletes
<1>8. CASE WriteCompletes
  BY <1>a, <1>8, ReadsOn DEF WriteCompletes, WriteSucceeds, WriteFails, input
<1>9. CASE PeerGoes \/ SpuriousWake
  BY <1>9 DEF PeerGoes, SpuriousWake, input, output, logic, OneThread, LInv, Unstarted,
              EndedBefore, LeakOnlyWithThreads
<1>10. CASE UNCHANGED vars
  BY <1>10 DEF vars, input, output, logic, OneThread, LInv, Unstarted, EndedBefore,
               LeakOnlyWithThreads
<1> QED
  BY <1>1, <1>2, <1>3, <1>4, <1>5, <1>6, <1>7, <1>8, <1>9, <1>10 DEF Next

\* However many requests and whatever the limit of the queue, a session that
\* reads no more stays in the map only where there are threads, and there only
\* if it was cleared before it was inserted, or its read handler threw.
THEOREM LeaksOnlyWithThreads == SafeSpec => []LeakOnlyWithThreads
<1>1. Init => LInv
  BY InitLInv
<1>2. LInv /\ [Next]_vars => LInv'
  BY NextLInv
<1>3. LInv => LeakOnlyWithThreads
  BY DEF LInv
<1> QED
  BY <1>1, <1>2, <1>3, PTL DEF SafeSpec

-----------------------------------------------------------------------------
(* Sequences of requests in order.                                         *)

LEMMA HeadTailConcat ==
  ASSUME NEW S, NEW s \in Seq(S), s # <<>>
  PROVE  s = <<Head(s)>> \o Tail(s)
<1>1. /\ Len(s) \in Nat \ {0} /\ Head(s) \in S /\ Head(s) = s[1]
      /\ Tail(s) \in Seq(S) /\ Len(Tail(s)) = Len(s) - 1
      /\ \A i \in 1 .. Len(s) - 1 : Tail(s)[i] = s[i + 1]
  BY EmptySeq, HeadTailProperties
<1>2. <<Head(s)>> \in Seq(S) /\ Len(<<Head(s)>>) = 1 /\ <<Head(s)>>[1] = s[1]
  BY <1>1
<1> DEFINE c == <<Head(s)>> \o Tail(s)
<1>3. /\ c \in Seq(S) /\ Len(c) = Len(s)
      /\ \A i \in 1 .. Len(s) : c[i] = IF i <= 1 THEN <<Head(s)>>[i] ELSE Tail(s)[i - 1]
  BY <1>1, <1>2, ConcatProperties
<1> HIDE DEF c
<1>4. ASSUME NEW i \in 1 .. Len(s)
      PROVE  c[i] = s[i]
  <2>1. CASE i = 1
    BY <1>2, <1>3, <2>1
  <2>2. CASE i # 1
    <3>1. i - 1 \in 1 .. Len(s) - 1 /\ (i - 1) + 1 = i /\ ~(i <= 1)
      BY <1>1, <2>2
    <3> QED
      BY <1>1, <1>3, <3>1
  <2> QED
    BY <2>1, <2>2
<1>5. c = s
  BY <1>3, <1>4, SeqEqual
<1> QED
  BY <1>5 DEF c

LEMMA TailOfConcat ==
  ASSUME NEW S, NEW s \in Seq(S), NEW t \in Seq(S), s # <<>>
  PROVE  Tail(s \o t) = Tail(s) \o t
<1>1. /\ Len(s) \in Nat \ {0} /\ Len(t) \in Nat
      /\ Tail(s) \in Seq(S) /\ Len(Tail(s)) = Len(s) - 1
      /\ \A i \in 1 .. Len(s) - 1 : Tail(s)[i] = s[i + 1]
  BY EmptySeq, HeadTailProperties
<1>2. /\ s \o t \in Seq(S) /\ Len(s \o t) = Len(s) + Len(t)
      /\ \A i \in 1 .. Len(s) + Len(t) :
            (s \o t)[i] = IF i <= Len(s) THEN s[i] ELSE t[i - Len(s)]
  BY ConcatProperties
<1>3. s \o t # <<>>
  BY <1>1, <1>2, EmptySeq
<1>4. /\ Tail(s \o t) \in Seq(S) /\ Len(Tail(s \o t)) = Len(s) + Len(t) - 1
      /\ \A i \in 1 .. Len(s) + Len(t) - 1 : Tail(s \o t)[i] = (s \o t)[i + 1]
  BY <1>1, <1>2, <1>3, HeadTailProperties
<1>5. /\ Tail(s) \o t \in Seq(S) /\ Len(Tail(s) \o t) = Len(s) - 1 + Len(t)
      /\ \A i \in 1 .. Len(s) - 1 + Len(t) :
            (Tail(s) \o t)[i] = IF i <= Len(s) - 1 THEN Tail(s)[i] ELSE t[i - (Len(s) - 1)]
  BY <1>1, ConcatProperties
<1>6. ASSUME NEW i \in 1 .. Len(s) + Len(t) - 1
      PROVE  Tail(s \o t)[i] = (Tail(s) \o t)[i]
  <2>1. CASE i <= Len(s) - 1
    BY <1>1, <1>2, <1>4, <1>5, <2>1
  <2>2. CASE i > Len(s) - 1
    <3>1. i + 1 \in 1 .. Len(s) + Len(t) /\ i + 1 > Len(s)
          /\ (i + 1) - Len(s) = i - (Len(s) - 1)
      BY <1>1, <2>2
    <3> QED
      BY <1>1, <1>2, <1>4, <1>5, <2>2, <3>1
  <2> QED
    BY <1>1, <2>1, <2>2
<1> QED
  BY <1>1, <1>4, <1>5, <1>6, SeqEqual

\* To put requests behind each other is associative.
LEMMA RequestsAssociative ==
  \A a, b, c \in Seq(Requests) : (a \o b) \o c = a \o (b \o c)
BY ConcatAssociative

\* The next requests, the first k of them put at the end and the others gone.
LEMMA Grows ==
  ASSUME NEW all \in Seq(Nat), NEW gone, NEW r \in Nat, NEW n \in Nat, NEW k \in 0 .. n,
         InOrder(all, gone, r),
         NEW reqs \in Seq(Nat), Len(reqs) = n, \A i \in 1 .. n : reqs[i] = r + i,
         NEW new, \A x : x \in new <=> \E i \in k + 1 .. n : x = reqs[i]
  PROVE  InOrder(all \o SubSeq(reqs, 1, k), gone \cup new, r + n)
<1> DEFINE t == SubSeq(reqs, 1, k)
           both == all \o t
<1>1. Len(reqs) = n /\ \A i \in 1 .. n : reqs[i] = r + i
  OBVIOUS
<1>2. t \in Seq(Nat) /\ Len(t) = k /\ \A i \in 1 .. k : t[i] = r + i
  BY <1>1, SubSeqProperties
<1>3. /\ both \in Seq(Nat) /\ Len(both) = Len(all) + k
      /\ \A i \in 1 .. Len(all) + k :
            both[i] = IF i <= Len(all) THEN all[i] ELSE t[i - Len(all)]
  BY <1>2, ConcatProperties
<1>3a. /\ DOMAIN both = 1 .. Len(all) + k /\ DOMAIN all = 1 .. Len(all)
       /\ Len(all) \in Nat /\ k \in Nat
  BY <1>3, LenProperties
<1> HIDE DEF t, both
<1>3b. /\ \A i \in 1 .. Len(all) : both[i] = all[i]
       /\ \A i \in Len(all) + 1 .. Len(all) + k : both[i] = r + (i - Len(all))
  <2>1. ASSUME NEW i \in 1 .. Len(all)
        PROVE  both[i] = all[i]
    BY <1>3, <1>3a
  <2>2. ASSUME NEW i \in Len(all) + 1 .. Len(all) + k
        PROVE  both[i] = r + (i - Len(all))
    <3>1. i \in 1 .. Len(all) + k /\ ~(i <= Len(all)) /\ i - Len(all) \in 1 .. k
      BY <1>3a
    <3>2. both[i] = t[i - Len(all)]
      BY <1>3, <3>1
    <3> QED
      BY <1>2, <3>1, <3>2
  <2> QED
    BY <2>1, <2>2
<1>4. /\ \A i \in 1 .. Len(all) : all[i] \in 1 .. r
      /\ \A i, j \in 1 .. Len(all) : i < j => all[i] < all[j]
  BY DEF InOrder, Elements
<1>5. \A i, j \in 1 .. Len(all) + k : i < j => both[i] < both[j]
  <2> TAKE i, j \in 1 .. Len(all) + k
  <2> HAVE i < j
  <2>1. CASE j <= Len(all)
    <3>1. i \in 1 .. Len(all) /\ j \in 1 .. Len(all)
      BY <1>3a, <2>1
    <3> QED
      BY <1>3b, <1>4, <3>1
  <2>2. CASE i <= Len(all) /\ j > Len(all)
    <3>1. i \in 1 .. Len(all) /\ j \in Len(all) + 1 .. Len(all) + k /\ j - Len(all) >= 1
      BY <1>3a, <2>2
    <3>2. both[i] \in 1 .. r /\ both[j] = r + (j - Len(all))
      BY <1>3b, <1>4, <3>1
    <3> QED
      BY <1>3a, <3>1, <3>2
  <2>3. CASE i > Len(all)
    <3>1. i \in Len(all) + 1 .. Len(all) + k /\ j \in Len(all) + 1 .. Len(all) + k
      BY <1>3a, <2>3
    <3>2. both[i] = r + (i - Len(all)) /\ both[j] = r + (j - Len(all))
      BY <1>3b, <3>1
    <3> QED
      BY <1>3a, <3>1, <3>2
  <2> QED
    BY <2>1, <2>2, <2>3
<1>6. Elements(both) = Elements(all) \cup (r + 1 .. r + k)
  <2>1. ASSUME NEW x \in Elements(both)
        PROVE  x \in Elements(all) \cup (r + 1 .. r + k)
    <3>1. PICK i \in 1 .. Len(all) + k : x = both[i]
      BY <1>3 DEF Elements
    <3>2. CASE i <= Len(all)
      <4>1. x = all[i] /\ i \in DOMAIN all
        BY <1>3a, <1>3b, <3>1, <3>2
      <4> QED
        BY <4>1 DEF Elements
    <3>3. CASE i > Len(all)
      <4>1. i \in Len(all) + 1 .. Len(all) + k /\ i - Len(all) \in 1 .. k
        BY <1>3a, <3>3
      <4>2. x = r + (i - Len(all))
        BY <1>3b, <3>1, <4>1
      <4> QED
        BY <4>1, <4>2
    <3> QED
      BY <3>2, <3>3
  <2>2. ASSUME NEW x \in Elements(all)
        PROVE  x \in Elements(both)
    <3>1. PICK i \in 1 .. Len(all) : x = all[i]
      BY <1>3a DEF Elements
    <3>2. i \in DOMAIN both /\ both[i] = x
      BY <1>3, <3>1
    <3> QED
      BY <3>2 DEF Elements
  <2>3. ASSUME NEW x \in r + 1 .. r + k
        PROVE  x \in Elements(both)
    <3>1. x - r \in 1 .. k
      OBVIOUS
    <3>2. PICK i \in 1 .. Len(all) + k : i > Len(all) /\ i - Len(all) = x - r
      <4>1. /\ Len(all) + (x - r) \in 1 .. Len(all) + k
            /\ Len(all) + (x - r) > Len(all) /\ (Len(all) + (x - r)) - Len(all) = x - r
        BY <1>3a, <3>1
      <4> QED
        BY <4>1
    <3>3. both[i] = t[x - r] /\ t[x - r] = x
      <4>1. both[i] = t[i - Len(all)]
        <5>1. ~(i <= Len(all))
          BY <1>3a, <3>2
        <5> QED
          BY <1>3, <5>1
      <4>2. t[x - r] = r + (x - r)
        BY <1>2, <3>1
      <4> QED
        <5>1. r + (x - r) = x
          OBVIOUS
        <5>2. t[i - Len(all)] = t[x - r]
          BY <3>2
        <5> QED
          BY <4>1, <4>2, <5>1, <5>2
    <3> QED
      BY <1>3a, <3>2, <3>3 DEF Elements
  <2> QED
    BY <2>1, <2>2, <2>3
<1>7. new = r + k + 1 .. r + n
  <2>1. ASSUME NEW x \in r + k + 1 .. r + n
        PROVE  x \in new
    <3>1. x - r \in k + 1 .. n /\ reqs[x - r] = x
      OBVIOUS
    <3> QED
      BY <3>1
  <2>2. ASSUME NEW x \in new
        PROVE  x \in r + k + 1 .. r + n
    <3>1. PICK i \in k + 1 .. n : x = reqs[i]
      BY <2>2
    <3>2. i \in 1 .. n
      OBVIOUS
    <3> QED
      BY <1>1, <3>1, <3>2
  <2> QED
    BY <2>1, <2>2
<1>8. Elements(all) \cup gone = 1 .. r /\ Elements(all) \cap gone = {}
  BY DEF InOrder
<1>9. Elements(both) \cup (gone \cup new) = 1 .. r + n
  <2>1. 1 .. r + n = (1 .. r) \cup (r + 1 .. r + k) \cup (r + k + 1 .. r + n)
    OBVIOUS
  <2> QED
    BY <1>6, <1>7, <1>8, <2>1
<1>10. Elements(both) \cap (gone \cup new) = {}
  BY <1>6, <1>7, <1>8
<1>11. InOrder(both, gone \cup new, r + n)
  BY <1>3a, <1>5, <1>9, <1>10 DEF InOrder
<1> QED
  BY <1>11 DEF both, t

\* One of the requests goes, and is dropped.
LEMMA Drops ==
  ASSUME NEW p \in Seq(Nat), NEW q \in Seq(Nat), NEW gone, NEW r \in Nat, q # <<>>,
         InOrder(p \o q, gone, r)
  PROVE  InOrder(p \o Tail(q), gone \cup {Head(q)}, r)
<1> DEFINE all == p \o q
           rest == p \o Tail(q)
           m == Len(p)
<1>1. /\ Len(q) \in Nat \ {0} /\ m \in Nat /\ Head(q) = q[1]
      /\ Tail(q) \in Seq(Nat) /\ Len(Tail(q)) = Len(q) - 1
      /\ \A i \in 1 .. Len(q) - 1 : Tail(q)[i] = q[i + 1]
  BY EmptySeq, HeadTailProperties
<1>2. /\ DOMAIN all = 1 .. m + Len(q)
      /\ \A i \in 1 .. m + Len(q) : all[i] = IF i <= m THEN p[i] ELSE q[i - m]
      /\ \A i \in 1 .. m + Len(q) : all[i] \in Nat
  <2>1. /\ all \in Seq(Nat) /\ Len(all) = m + Len(q)
        /\ \A i \in 1 .. m + Len(q) : all[i] = IF i <= m THEN p[i] ELSE q[i - m]
    BY ConcatProperties
  <2> HIDE DEF all
  <2>2. \A i \in 1 .. m + Len(q) : all[i] \in Nat
    BY <2>1, ElementOfSeq
  <2> QED
    BY <2>1, <2>2
<1>3. /\ DOMAIN rest = 1 .. m + Len(q) - 1
      /\ \A i \in 1 .. m + Len(q) - 1 : rest[i] = IF i <= m THEN p[i] ELSE Tail(q)[i - m]
  <2>1. /\ rest \in Seq(Nat) /\ Len(rest) = m + Len(Tail(q))
        /\ \A i \in 1 .. m + Len(Tail(q)) :
              rest[i] = IF i <= m THEN p[i] ELSE Tail(q)[i - m]
    BY <1>1, ConcatProperties
  <2>2. m + Len(Tail(q)) = m + Len(q) - 1
    BY <1>1
  <2> HIDE DEF rest
  <2>3. DOMAIN rest = 1 .. Len(rest)
    BY <2>1, LenProperties
  <2> QED
    BY <2>1, <2>2, <2>3
<1> HIDE DEF all, rest, m
<1> DEFINE up(i) == IF i <= m THEN i ELSE i + 1
<1>4. /\ \A i \in 1 .. m + Len(q) - 1 : up(i) \in 1 .. m + Len(q) /\ up(i) # m + 1
      /\ \A i \in 1 .. m + Len(q) - 1 : rest[i] = all[up(i)]
  <2> SUFFICES ASSUME NEW i \in 1 .. m + Len(q) - 1
               PROVE  up(i) \in 1 .. m + Len(q) /\ up(i) # m + 1 /\ rest[i] = all[up(i)]
    OBVIOUS
  <2>1. CASE i <= m
    BY <1>1, <1>2, <1>3, <2>1
  <2>2. CASE i > m
    <3>1. i - m \in 1 .. Len(q) - 1 /\ i + 1 \in 1 .. m + Len(q) /\ (i + 1) - m = (i - m) + 1
          /\ ~(i <= m) /\ ~(i + 1 <= m) /\ i + 1 # m + 1
      BY <1>1, <2>2
    <3>2. rest[i] = Tail(q)[i - m]
      BY <1>3, <3>1
    <3>3. Tail(q)[i - m] = q[(i - m) + 1]
      BY <1>1, <3>1
    <3>4. all[i + 1] = q[(i + 1) - m]
      BY <1>2, <3>1
    <3>5. up(i) = i + 1
      BY <3>1
    <3> QED
      BY <3>1, <3>2, <3>3, <3>4, <3>5
  <2>3. i <= m \/ i > m
    BY <1>1
  <2> QED
    BY <2>1, <2>2, <2>3
<1>4a. \A i, j \in 1 .. m + Len(q) - 1 : i < j => up(i) < up(j)
  BY <1>1
<1>4b. \A i \in 1 .. m + Len(q) : i # m + 1 =>
         \E j \in 1 .. m + Len(q) - 1 : up(j) = i
  <2> TAKE i \in 1 .. m + Len(q)
  <2> HAVE i # m + 1
  <2> DEFINE j == IF i <= m THEN i ELSE i - 1
  <2>1. j \in 1 .. m + Len(q) - 1 /\ up(j) = i
    BY <1>1
  <2> QED
    BY <2>1
<1> HIDE DEF up
<1>5. m + 1 \in DOMAIN all /\ all[m + 1] = Head(q)
  <2>1. m + 1 \in 1 .. m + Len(q) /\ ~(m + 1 <= m) /\ (m + 1) - m = 1
    BY <1>1
  <2>2. all[m + 1] = q[(m + 1) - m]
    BY <1>2, <2>1
  <2> QED
    BY <1>1, <1>2, <2>1, <2>2
<1>6. \A i, j \in DOMAIN all : i < j => all[i] < all[j]
  BY DEF InOrder, all
<1>7. \A i, j \in DOMAIN rest : i < j => rest[i] < rest[j]
  <2> TAKE i, j \in DOMAIN rest
  <2> HAVE i < j
  <2>1. up(i) \in DOMAIN all /\ up(j) \in DOMAIN all /\ up(i) < up(j)
    BY <1>2, <1>3, <1>4, <1>4a
  <2> QED
    BY <1>3, <1>4, <1>6, <2>1
<1>8. Elements(rest) = Elements(all) \ {Head(q)}
  <2>1. ASSUME NEW x \in Elements(rest)
        PROVE  x \in Elements(all) /\ x # Head(q)
    <3>1. PICK i \in DOMAIN rest : x = rest[i]
      BY DEF Elements
    <3>2. x = all[up(i)] /\ up(i) \in DOMAIN all /\ up(i) # m + 1 /\ up(i) \in Nat
      BY <1>2, <1>3, <1>4, <3>1
    <3>3. all[up(i)] # all[m + 1]
      <4>1. up(i) < m + 1 \/ m + 1 < up(i)
        BY <1>1, <3>2
      <4>2. all[up(i)] \in Nat /\ all[m + 1] \in Nat
        BY <1>2, <1>5, <3>2
      <4> QED
        BY <1>5, <1>6, <3>2, <4>1, <4>2
    <3> QED
      BY <1>5, <3>2, <3>3 DEF Elements
  <2>2. ASSUME NEW x \in Elements(all), x # Head(q)
        PROVE  x \in Elements(rest)
    <3>1. PICK i \in DOMAIN all : x = all[i]
      BY DEF Elements
    <3>2. i \in 1 .. m + Len(q) /\ i # m + 1
      BY <1>2, <1>5, <2>2, <3>1
    <3>3. PICK j \in 1 .. m + Len(q) - 1 : up(j) = i
      BY <1>4b, <3>2
    <3>4. j \in DOMAIN rest /\ rest[j] = x
      BY <1>3, <1>4, <3>1, <3>3
    <3> QED
      BY <3>4 DEF Elements
  <2> QED
    BY <2>1, <2>2
<1>9. Head(q) \in Elements(all)
  BY <1>5 DEF Elements
<1>10. Elements(all) \cup gone = 1 .. r /\ Elements(all) \cap gone = {}
  BY DEF InOrder, all
<1> QED
  BY <1>7, <1>8, <1>9, <1>10 DEF InOrder, rest

-----------------------------------------------------------------------------
(* The requests and their replies.                                         *)

\* TypeOK, in two parts: what the handlers are at, and the requests.
ControlOK ==
  /\ kind \in Kinds /\ accept \in {"listening", "started", "done"}
  /\ in_map \in BOOLEAN /\ open \in BOOLEAN /\ read \in {"none", "busy", "ok", "error"}
  /\ expect \in {"head", "body"} /\ peer \in {"up", "gone"} /\ stalled \in BOOLEAN
  /\ failed \in BOOLEAN /\ early \in BOOLEAN /\ thrown \in {"no", "caught", "ended"}

OutputOK ==
  /\ write \in {"none", "busy", "ok", "error"}
  /\ send_que \in Seq(Requests) /\ answers \in Seq(Requests) /\ dropped \subseteq Requests
  /\ kind # "AsyncServer" => Len(send_que) <= MAX_SENDQUE + 1
  /\ write # "none" => send_que # <<>>

RequestsOK ==
  /\ OutputOK
  /\ msg_que \in Seq(Requests) /\ received \in 0 .. MaxMsgs /\ lost \subseteq Requests
  /\ RepliesInOrder

LEMMA Parts == TypeOK <=> /\ ControlOK /\ OutputOK
                         /\ msg_que \in Seq(Requests) /\ received \in 0 .. MaxMsgs
                         /\ lost \subseteq Requests
BY DEF TypeOK, ControlOK, OutputOK

LEMMA Unwritten1 ==
  ASSUME OutputOK
  PROVE  /\ Unwritten \in Seq(Requests)
         /\ answers \o Unwritten \in Seq(Requests) /\ Seq(Requests) \subseteq Seq(Nat)
<1>1. send_que # <<>> => Tail(send_que) \in Seq(Requests)
  BY HeadTailProperties DEF OutputOK
<1>2. Unwritten \in Seq(Requests)
  BY <1>1 DEF OutputOK, Unwritten
<1>3. \A s \in Seq(Requests) : s \in Seq(Nat)
  BY BoundAssumption DEF Requests
<1> QED
  BY <1>2, <1>3, ConcatProperties DEF OutputOK

\* A push puts the first n requests at the end of what is still to be written.
LEMMA Pushes ==
  ASSUME OutputOK, NEW reqs \in Seq(Requests), NEW n \in 0 .. Len(reqs), Push(reqs, n),
         kind # "AsyncServer" => Len(send_que) + n <= MAX_SENDQUE + 1,
         kind' = kind, answers' = answers
  PROVE  /\ OutputOK'
         /\ Unwritten' = Unwritten \o SubSeq(reqs, 1, n)
<1> DEFINE new == SubSeq(reqs, 1, n)
<1>1. new \in Seq(Requests) /\ Len(new) = n /\ Len(send_que) \in Nat
  BY SubSeqProperties DEF OutputOK
<1>2. /\ send_que' = send_que \o new
      /\ dropped' = dropped \cup {reqs[i] : i \in n + 1 .. Len(reqs)}
      /\ write' = IF send_que = <<>> /\ n > 0 THEN "busy" ELSE write
  BY DEF Push
<1> HIDE DEF new
<1>3. send_que' \in Seq(Requests) /\ Len(send_que') = Len(send_que) + n
  BY <1>1, <1>2, ConcatProperties DEF OutputOK
<1>4. dropped' \subseteq Requests
  <2>1. \A i \in n + 1 .. Len(reqs) : reqs[i] \in Requests
    OBVIOUS
  <2> QED
    BY <1>2, <2>1 DEF OutputOK
<1>5. (send_que = <<>> /\ n = 0) \/ send_que' # <<>>
  <2>1. CASE n > 0
    BY <1>1, <1>3, <2>1, EmptySeq
  <2>2. CASE send_que # <<>>
    BY <1>1, <1>3, <2>2, EmptySeq DEF OutputOK
  <2> QED
    BY <2>1, <2>2
<1>6. OutputOK'
  BY <1>2, <1>3, <1>4, <1>5 DEF OutputOK
<1>7. Unwritten' = Unwritten \o new
  <2>1. CASE write = "ok"
    <3>1. send_que # <<>> /\ write' = "ok"
      BY <1>2, <2>1 DEF OutputOK
    <3>2. Tail(send_que \o new) = Tail(send_que) \o new
      BY <1>1, <3>1, TailOfConcat DEF OutputOK
    <3> QED
      BY <1>2, <2>1, <3>1, <3>2 DEF Unwritten
  <2>2. CASE write # "ok"
    BY <1>2, <2>2 DEF Unwritten
  <2> QED
    BY <2>1, <2>2
<1> QED
  BY <1>6, <1>7 DEF new

\* A Send is such a push.
LEMMA Sends ==
  ASSUME OutputOK, NEW reqs \in Seq(Requests), Send(reqs)
  PROVE  \E n \in 0 .. Len(reqs) :
           /\ Push(reqs, n)
           /\ kind # "AsyncServer" => Len(send_que) + n <= MAX_SENDQUE + 1
<1>1. Len(reqs) \in Nat /\ Len(send_que) \in Nat /\ MAX_SENDQUE \in Nat
  BY BoundAssumption DEF OutputOK
<1>2. CASE kind = "AsyncServer"
  <2>1. Push(reqs, Len(reqs)) /\ Len(reqs) \in 0 .. Len(reqs)
    BY <1>1, <1>2 DEF Send, SendAll
  <2> QED
    BY <1>2, <2>1
<1>3. CASE kind # "AsyncServer"
  <2> DEFINE room == MAX_SENDQUE + 1 - Len(send_que)
             n == IF Len(reqs) <= room THEN Len(reqs) ELSE room
  <2>1. Push(reqs, n)
    BY <1>3 DEF Send, SendRoom
  <2>2. Len(send_que) <= MAX_SENDQUE + 1
    BY <1>3 DEF OutputOK
  <2>3. n \in 0 .. Len(reqs) /\ Len(send_que) + n <= MAX_SENDQUE + 1
    BY <1>1, <2>2
  <2> HIDE DEF n
  <2> QED
    BY <2>1, <2>3
<1> QED
  BY <1>2, <1>3

\* The next n requests are handled: the replies grow at the end.
LEMMA HandleKeeps ==
  ASSUME RequestsOK, NEW n \in Complete, Handle(n), kind' = kind, n > 0 => OneThread
  PROVE  RequestsOK'
<1> DEFINE reqs == [i \in 1 .. n |-> received + i]
           front == answers \o Unwritten
<1>1. /\ n \in Nat /\ received \in Nat /\ received + n \in 0 .. MaxMsgs
      /\ reqs \in Seq(Requests) /\ reqs \in Seq(Nat) /\ Len(reqs) = n
      /\ \A i \in 1 .. n : reqs[i] = received + i
  BY BoundAssumption DEF RequestsOK, Complete, Requests
<1>2. /\ answers \in Seq(Requests) /\ Unwritten \in Seq(Requests)
      /\ front \in Seq(Requests) /\ Seq(Requests) \subseteq Seq(Nat)
      /\ msg_que \in Seq(Requests)
  BY Unwritten1 DEF RequestsOK, OutputOK
<1>3. InOrder(front \o msg_que, dropped \cup lost, received)
  BY DEF RequestsOK, RepliesInOrder
<1>4. received' = received + n /\ Send(reqs) /\ UNCHANGED <<answers, msg_que, lost>>
  BY DEF Handle, logic
<1> HIDE DEF reqs
<1>5. OneThread' = OneThread /\ (OneThread => lost = {} /\ msg_que = <<>>)
  BY DEF OneThread, RequestsOK, RepliesInOrder
<1>6. PICK k \in 0 .. n : /\ Push(reqs, k)
                          /\ kind # "AsyncServer" => Len(send_que) + k <= MAX_SENDQUE + 1
  BY <1>1, <1>4, Sends DEF RequestsOK
<1> DEFINE t == SubSeq(reqs, 1, k)
<1>7. OutputOK' /\ Unwritten' = Unwritten \o t
  BY <1>1, <1>4, <1>6, Pushes DEF RequestsOK
<1>8. dropped' = dropped \cup {reqs[i] : i \in k + 1 .. n}
  BY <1>1, <1>6 DEF Push
<1>9. CASE OneThread
  <2> HIDE DEF front
  <2>1. front \o msg_que = front
    BY <1>2, <1>5, <1>9, ConcatEmptySeq
  <2>2. InOrder(front \o t, dropped' \cup lost, received')
    <3> DEFINE new == {reqs[i] : i \in k + 1 .. n}
    <3>1. \A x : x \in new <=> \E i \in k + 1 .. n : x = reqs[i]
      OBVIOUS
    <3>2. dropped' \cup lost = (dropped \cup lost) \cup new
      BY <1>8
    <3> HIDE DEF new
    <3>3. front \in Seq(Nat) /\ InOrder(front, dropped \cup lost, received)
      BY <1>2, <1>3, <2>1
    <3>4. InOrder(front \o t, (dropped \cup lost) \cup new, received + n)
      BY <1>1, <3>1, <3>3, Grows
    <3> QED
      BY <1>4, <3>2, <3>4
  <2>3. t \in Seq(Requests)
    BY <1>1, SubSeqProperties
  <2> HIDE DEF t
  <2>4. front \o t = answers \o Unwritten'
    <3>1. (answers \o Unwritten) \o t = answers \o (Unwritten \o t)
      BY <1>2, <2>3, RequestsAssociative, Zenon
    <3> QED
      BY <1>7, <3>1 DEF front
  <2>5. answers' \o Unwritten' \o msg_que' = front \o t
    <3>1. front \o t \in Seq(Requests)
      BY <1>2, <2>3, ConcatProperties
    <3>2. (front \o t) \o msg_que = front \o t
      BY <1>5, <1>9, <3>1, ConcatEmptySeq
    <3> QED
      BY <1>4, <2>4, <3>2
  <2> QED
    BY <1>1, <1>2, <1>4, <1>5, <1>7, <2>2, <2>5 DEF RequestsOK, RepliesInOrder
<1>10. CASE ~OneThread
  <2>1. n = 0 /\ k = 0
    BY <1>1, <1>10
  <2>2. t = <<>> /\ dropped' = dropped
    BY <1>1, <1>8, <2>1, SubSeqEmpty
  <2>3. Unwritten' = Unwritten /\ received' = received
    BY <1>1, <1>2, <1>4, <1>7, <2>1, <2>2, ConcatEmptySeq
  <2> QED
    BY <1>2, <1>3, <1>4, <1>5, <1>7, <1>10, <2>2, <2>3 DEF RequestsOK, RepliesInOrder
<1> QED
  BY <1>9, <1>10

\* The next request is posted: it is the last of the logic layer, or lost.
LEMMA PostKeeps ==
  ASSUME RequestsOK, received < MaxMsgs, Post
  PROVE  RequestsOK'
<1> DEFINE reqs == <<received + 1>>
           front == answers \o Unwritten
           all == front \o msg_que
<1>1. /\ received \in Nat /\ received + 1 \in Requests /\ received' = received + 1
      /\ reqs \in Seq(Nat) /\ reqs \in Seq(Requests)
      /\ Len(reqs) = 1 /\ \A i \in 1 .. 1 : reqs[i] = received + i
      /\ received + 1 \in 0 .. MaxMsgs
  BY BoundAssumption DEF RequestsOK, Requests, Post
<1>2. /\ answers \in Seq(Requests) /\ Unwritten \in Seq(Requests)
      /\ front \in Seq(Requests) /\ Seq(Requests) \subseteq Seq(Nat)
      /\ msg_que \in Seq(Requests)
  BY Unwritten1 DEF RequestsOK, OutputOK
<1>3. UNCHANGED <<kind, output, dropped>> /\ ~OneThread /\ ~OneThread'
  BY DEF Post, server, OneThread
<1>4. OutputOK' /\ Unwritten' = Unwritten /\ answers' = answers
  BY <1>3 DEF output, RequestsOK, OutputOK, Unwritten
<1>5. InOrder(all, dropped \cup lost, received)
  BY DEF RequestsOK, RepliesInOrder
<1>6. all \in Seq(Requests) /\ all \in Seq(Nat)
  BY <1>2, ConcatProperties
<1> HIDE DEF reqs, all, front
<1>7. CASE msg_que' = Append(msg_que, received') /\ lost' = lost
  <2>1. msg_que' = msg_que \o reqs /\ msg_que' \in Seq(Requests)
    BY <1>1, <1>2, <1>7, AppendIsConcat, AppendProperties DEF reqs
  <2>2. SubSeq(reqs, 1, 1) = reqs
    BY <1>1, SubSeqFull
  <2> DEFINE none == {}
  <2>3. (\A x : x \in none <=> \E i \in 1 + 1 .. 1 : x = reqs[i]) /\ 1 \in 0 .. 1 /\ 1 \in Nat
    OBVIOUS
  <2>4. (dropped \cup lost) \cup none = dropped' \cup lost'
    BY <1>3, <1>7
  <2> HIDE DEF none
  <2>5. InOrder(all \o SubSeq(reqs, 1, 1), (dropped \cup lost) \cup none, received + 1)
    BY <1>1, <1>5, <1>6, <2>3, Grows
  <2>6. (front \o msg_que) \o reqs = front \o (msg_que \o reqs)
    BY <1>1, <1>2, RequestsAssociative, Zenon
  <2>7. all \o reqs = answers' \o Unwritten' \o msg_que'
    BY <1>4, <2>1, <2>6 DEF all, front
  <2>8. InOrder(answers' \o Unwritten' \o msg_que', dropped' \cup lost', received')
    BY <1>1, <2>2, <2>4, <2>5, <2>7
  <2> QED
    BY <1>1, <1>3, <1>4, <1>7, <2>1, <2>8 DEF RequestsOK, RepliesInOrder
<1>8. CASE lost' = lost \cup {received'} /\ msg_que' = msg_que
  <2>1. SubSeq(reqs, 1, 0) = <<>>
    BY <1>1, SubSeqEmpty
  <2> DEFINE one == {received + 1}
  <2>2. (\A x : x \in one <=> \E i \in 0 + 1 .. 1 : x = reqs[i]) /\ 0 \in 0 .. 1 /\ 1 \in Nat
    BY <1>1
  <2>3. (dropped \cup lost) \cup one = dropped' \cup lost'
    BY <1>1, <1>3, <1>8
  <2> HIDE DEF one
  <2>4. InOrder(all \o SubSeq(reqs, 1, 0), (dropped \cup lost) \cup one, received + 1)
    BY <1>1, <1>5, <1>6, <2>2, Grows
  <2>5. all \o SubSeq(reqs, 1, 0) = all
    BY <1>6, <2>1, ConcatEmptySeq
  <2>6. all = answers' \o Unwritten' \o msg_que'
    BY <1>4, <1>8 DEF all, front
  <2>7. InOrder(answers' \o Unwritten' \o msg_que', dropped' \cup lost', received')
    BY <1>1, <2>3, <2>4, <2>5, <2>6
  <2>8. lost' \subseteq Requests
    BY <1>1, <1>8 DEF RequestsOK
  <2> QED
    BY <1>1, <1>2, <1>3, <1>4, <1>8, <2>7, <2>8 DEF RequestsOK, RepliesInOrder
<1> QED
  BY <1>7, <1>8 DEF Post

\* Nothing of the requests changes.
LEMMA Unmoved ==
  ASSUME RequestsOK, UNCHANGED <<kind, output, msg_que, lost, received, dropped>>
  PROVE  RequestsOK'
BY DEF RequestsOK, OutputOK, OneThread, RepliesInOrder, Unwritten, output

\* Neither do the two ends of a write that fails change the sequence.
LEMMA WriteStops ==
  ASSUME RequestsOK, write \in {"busy", "error"}, write' \in {"error", "none"},
         UNCHANGED <<kind, send_que, answers, msg_que, lost, received, dropped>>
  PROVE  RequestsOK'
<1>1. Unwritten' = Unwritten
  BY DEF Unwritten
<1> QED
  BY <1>1 DEF RequestsOK, OutputOK, OneThread, RepliesInOrder

LEMMA WriteOkKeeps ==
  ASSUME RequestsOK, WriteOk
  PROVE  RequestsOK'
<1>1. /\ write = "ok" /\ send_que' = Tail(send_que) /\ send_que # <<>>
      /\ write' = IF send_que' = <<>> THEN "none" ELSE "busy"
      /\ UNCHANGED <<kind, answers, msg_que, lost, received, dropped>>
  BY DEF WriteOk, server, input, logic, RequestsOK, OutputOK
<1>2. send_que' \in Seq(Requests) /\ Len(send_que') = Len(send_que) - 1 /\ Len(send_que) \in Nat
  BY <1>1, HeadTailProperties DEF RequestsOK, OutputOK
<1>3. Unwritten' = Unwritten
  BY <1>1 DEF Unwritten
<1>4. OutputOK'
  BY <1>1, <1>2, BoundAssumption DEF RequestsOK, OutputOK
<1> QED
  BY <1>1, <1>3, <1>4 DEF RequestsOK, OneThread, RepliesInOrder

\* The reply goes from the head of the queue to the end of what is out.
LEMMA WriteSucceedsKeeps ==
  ASSUME RequestsOK, WriteSucceeds
  PROVE  RequestsOK'
<1>1. /\ write = "busy" /\ write' = "ok" /\ send_que # <<>>
      /\ answers' = Append(answers, Head(send_que))
      /\ UNCHANGED <<kind, send_que, msg_que, lost, received, dropped>>
  BY DEF WriteSucceeds, server, input, logic, RequestsOK, OutputOK
<1>2. /\ send_que \in Seq(Requests) /\ answers \in Seq(Requests)
      /\ Head(send_que) \in Requests /\ Tail(send_que) \in Seq(Requests)
      /\ send_que = <<Head(send_que)>> \o Tail(send_que)
  BY <1>1, HeadTailProperties, HeadTailConcat DEF RequestsOK, OutputOK
<1>3. answers' \in Seq(Requests) /\ answers' = answers \o <<Head(send_que)>>
  BY <1>1, <1>2, AppendProperties, AppendIsConcat
<1>4. answers' \o Unwritten' = answers \o Unwritten
  <2>1. Unwritten = send_que /\ Unwritten' = Tail(send_que)
    BY <1>1 DEF Unwritten
  <2>2. <<Head(send_que)>> \in Seq(Requests)
    BY <1>2
  <2> QED
    BY <1>2, <1>3, <2>1, <2>2, ConcatAssociative
<1>5. OutputOK'
  BY <1>1, <1>3 DEF RequestsOK, OutputOK
<1> QED
  BY <1>1, <1>4, <1>5 DEF RequestsOK, OneThread, RepliesInOrder

\* Neither does the end of the server: what is left will not be written.
LEMMA EndsKeeps ==
  ASSUME RequestsOK, send_que' = Unwritten, write' = "none",
         UNCHANGED <<kind, answers, msg_que, lost, received, dropped>>
  PROVE  RequestsOK' /\ Unwritten' = Unwritten
<1>1. Unwritten' = Unwritten
  BY DEF Unwritten
<1>2. Len(Unwritten) <= Len(send_que) /\ Unwritten \in Seq(Requests)
  BY Unwritten1, EmptySeq, HeadTailProperties DEF RequestsOK, OutputOK, Unwritten
<1>3. OutputOK'
  BY <1>2, BoundAssumption DEF RequestsOK, OutputOK
<1> QED
  BY <1>1, <1>3 DEF RequestsOK, OneThread, RepliesInOrder

\* The next request of the logic layer leaves it: its reply is put at the end
\* of what is to be written, or it is dropped.
LEMMA WorkerKeeps ==
  ASSUME RequestsOK, Worker
  PROVE  RequestsOK'
<1> DEFINE m == Head(msg_que)
           front == answers \o Unwritten
<1>1. /\ msg_que # <<>> /\ msg_que' = Tail(msg_que)
      /\ UNCHANGED <<kind, answers, received, lost>> /\ ~OneThread
  BY DEF Worker, Reply, Ignore, server, input, output, RequestsOK, RepliesInOrder
<1>2. /\ msg_que \in Seq(Requests) /\ msg_que' \in Seq(Requests) /\ m \in Requests
      /\ msg_que = <<m>> \o msg_que' /\ <<m>> \in Seq(Requests) /\ Len(<<m>>) = 1
  BY <1>1, HeadTailProperties, HeadTailConcat DEF RequestsOK
<1>3. /\ answers \in Seq(Requests) /\ Unwritten \in Seq(Requests)
      /\ front \in Seq(Requests) /\ Seq(Requests) \subseteq Seq(Nat)
  BY Unwritten1 DEF RequestsOK, OutputOK
<1>4. InOrder(front \o msg_que, dropped \cup lost, received) /\ received \in Nat
  BY BoundAssumption DEF RequestsOK, RepliesInOrder
<1>5. ~OneThread'
  BY <1>1 DEF OneThread
<1>6. InOrder(front \o msg_que', (dropped \cup {m}) \cup lost', received)
  <2>1. InOrder(front \o msg_que', (dropped \cup lost) \cup {m}, received)
    BY <1>1, <1>2, <1>3, <1>4, Drops
  <2>2. (dropped \cup lost) \cup {m} = (dropped \cup {m}) \cup lost'
    BY <1>1
  <2> QED
    BY <2>1, <2>2
<1> HIDE DEF m
<1>7. CASE dropped' = dropped \cup {m} /\ UNCHANGED output
  <2>1. OutputOK' /\ Unwritten' = Unwritten
    BY <1>1, <1>2, <1>7 DEF RequestsOK, OutputOK, Unwritten, output
  <2> QED
    BY <1>1, <1>2, <1>5, <1>6, <1>7, <2>1 DEF RequestsOK, RepliesInOrder
<1>8. ASSUME NEW n \in 0 .. 1, Push(<<m>>, n),
             kind # "AsyncServer" => Len(send_que) + n <= MAX_SENDQUE + 1
      PROVE  RequestsOK'
  <2>1. OutputOK' /\ Unwritten' = Unwritten \o SubSeq(<<m>>, 1, n)
    BY <1>1, <1>2, <1>8, Pushes DEF RequestsOK
  <2>2. dropped' = dropped \cup {<<m>>[i] : i \in n + 1 .. 1}
    BY <1>2, <1>8 DEF Push
  <2>3. CASE n = 0
    <3>1. dropped' = dropped \cup {m}
      BY <2>2, <2>3
    <3>2. SubSeq(<<m>>, 1, n) = <<>>
      BY <1>2, <2>3, SubSeqEmpty
    <3>3. Unwritten' = Unwritten
      BY <1>3, <2>1, <3>2, ConcatEmptySeq
    <3> QED
      BY <1>1, <1>2, <1>5, <1>6, <2>1, <3>1, <3>3 DEF RequestsOK, RepliesInOrder
  <2>4. CASE n = 1
    <3>1. dropped' = dropped
      BY <2>2, <2>4
    <3>2. SubSeq(<<m>>, 1, n) = <<m>>
      BY <1>2, <2>4, SubSeqFull
    <3>3. Unwritten' = Unwritten \o <<m>>
      BY <2>1, <3>2
    <3>4. (answers \o Unwritten) \o (<<m>> \o msg_que')
            = (answers \o (Unwritten \o <<m>>)) \o msg_que'
      <4> DEFINE one == <<m>>
      <4>1. one \in Seq(Requests)
        BY <1>2
      <4> HIDE DEF one
      <4>2. (answers \o Unwritten) \o (one \o msg_que')
              = ((answers \o Unwritten) \o one) \o msg_que'
        <5>1. /\ front \in Seq(Requests) /\ one \in Seq(Requests)
              /\ msg_que' \in Seq(Requests)
          BY <1>2, <1>3, <4>1
        <5> HIDE DEF front
        <5>2. front \o (one \o msg_que') = (front \o one) \o msg_que'
          BY <5>1, RequestsAssociative, Zenon
        <5> QED
          BY <5>2 DEF front
      <4>3. (answers \o Unwritten) \o one = answers \o (Unwritten \o one)
        <5>1. answers \in Seq(Requests) /\ Unwritten \in Seq(Requests)
          BY <1>3
        <5> QED
          BY <4>1, <5>1, RequestsAssociative, Zenon
      <4>4. (answers \o Unwritten) \o (one \o msg_que')
              = (answers \o (Unwritten \o one)) \o msg_que'
        BY <4>2, <4>3
      <4> QED
        BY <4>4 DEF one
    <3>5. front \o msg_que = answers' \o Unwritten' \o msg_que'
      BY <1>1, <1>2, <3>3, <3>4
    <3> QED
      BY <1>1, <1>2, <1>4, <1>5, <2>1, <3>1, <3>5 DEF RequestsOK, RepliesInOrder
  <2> QED
    BY <2>3, <2>4
<1>9. CASE Ignore
  BY <1>7, <1>9 DEF Ignore, m
<1>10. CASE Reply
  <2>1. Send(<<m>>)
    BY <1>10 DEF Reply, m
  <2> QED
    BY <1>2, <1>8, <2>1, Sends DEF RequestsOK
<1> QED
  BY <1>9, <1>10 DEF Worker

LEMMA InitRequests == Init => ControlOK /\ RequestsOK
<1> SUFFICES ASSUME Init
             PROVE  ControlOK /\ RequestsOK
  OBVIOUS
<1>1. ControlOK
  BY DEF Init, ControlOK
<1>2. /\ OutputOK /\ msg_que \in Seq(Requests) /\ received \in 0 .. MaxMsgs
      /\ lost \subseteq Requests
  BY BoundAssumption DEF Init, OutputOK
<1>3. answers \o Unwritten \o msg_que = <<>>
  BY DEF Init, Unwritten
<1>4. InOrder(<<>>, {}, 0)
  BY DEF InOrder, Elements
<1> QED
  BY <1>1, <1>2, <1>3, <1>4 DEF Init, RequestsOK, RepliesInOrder

LEMMA NextControl ==
  ASSUME ControlOK, [Next]_vars
  PROVE  ControlOK'
<1> USE DEF ControlOK, server, input, logic, history
<1>1. CASE HandleRead
  <2>1. CASE ReadThrows
    BY <2>1 DEF ReadThrows, ServerEnds
  <2>2. CASE Post
    BY <2>2 DEF Post
  <2>3. CASE HandleReadHead \/ HandleReadHeadIllegal \/ ReadError
    BY <2>3 DEF HandleReadHead, HandleReadHeadIllegal, ReadError, ClearSession
  <2>4. ASSUME NEW n \in Complete, ReadSome(n) \/ ReadSomeIllegal(n)
        PROVE  ControlOK'
    BY <2>4 DEF ReadSome, ReadSomeIllegal, Handle, ClearSession
  <2>5. CASE HandleReadMsg
    BY <2>5 DEF HandleReadMsg, Handle
  <2> QED
    BY <1>1, <2>1, <2>2, <2>3, <2>4, <2>5 DEF HandleRead
<1>2. CASE HandleWrite \/ Worker
  BY <1>2 DEF HandleWrite, WriteOk, WriteError, WriteThrows, ServerEnds, Worker, Reply,
              Ignore, ClearSession
<1>3. CASE AcceptFails \/ Start \/ Insert
  BY <1>3 DEF AcceptFails, Start, Insert
<1>4. CASE ReadCompletes \/ WriteCompletes \/ PeerGoes \/ SpuriousWake
  BY <1>4 DEF ReadCompletes, WriteCompletes, WriteSucceeds, WriteFails, PeerGoes,
              SpuriousWake
<1>5. CASE UNCHANGED vars
  BY <1>5 DEF vars
<1> QED
  BY <1>1, <1>2, <1>3, <1>4, <1>5 DEF Next

LEMMA NextRequests ==
  ASSUME RequestsOK, [Next]_vars
  PROVE  RequestsOK'
<1> USE DEF server, logic, history
<1>1. CASE HandleRead
  <2>1. ASSUME NEW n \in Complete, ReadSome(n) \/ ReadSomeIllegal(n)
        PROVE  RequestsOK'
    BY <2>1, HandleKeeps DEF ReadSome, ReadSomeIllegal
  <2>2. CASE HandleReadHead \/ HandleReadHeadIllegal \/ ReadError
    BY <2>2, Unmoved DEF HandleReadHead, HandleReadHeadIllegal, ReadError
  <2>3. CASE received < MaxMsgs /\ HandleReadMsg
    <3>1. 1 \in Complete
      BY <2>3, BoundAssumption DEF RequestsOK, Complete
    <3>2. OneThread
      BY <2>3 DEF HandleReadMsg, Slices, OneThread
    <3> QED
      BY <2>3, <3>1, <3>2, HandleKeeps DEF HandleReadMsg
  <2>4. CASE received < MaxMsgs /\ Post
    BY <2>4, PostKeeps
  <2>5. CASE ReadThrows
    BY <2>5, Unmoved, EndsKeeps DEF ReadThrows, ServerEnds, output
  <2> QED
    BY <1>1, <2>1, <2>2, <2>3, <2>4, <2>5 DEF HandleRead
<1>2. CASE HandleWrite
  <2>1. CASE WriteThrows
    BY <2>1, WriteStops, EndsKeeps DEF WriteThrows, ServerEnds
  <2>2. CASE WriteOk \/ WriteError
    BY <2>2, WriteOkKeeps, WriteStops DEF WriteError, input
  <2> QED
    BY <1>2, <2>1, <2>2 DEF HandleWrite
<1>3. CASE Worker
  BY <1>3, WorkerKeeps
<1>4. CASE AcceptFails \/ Start \/ Insert
  BY <1>4, Unmoved DEF AcceptFails, Start, Insert, input
<1>5. CASE WriteCompletes
  BY <1>5, WriteSucceedsKeeps, WriteStops DEF WriteCompletes, WriteFails, input
<1>6. CASE ReadCompletes \/ PeerGoes \/ SpuriousWake
  BY <1>6, Unmoved DEF ReadCompletes, PeerGoes, SpuriousWake, input
<1>7. CASE UNCHANGED vars
  BY <1>7, Unmoved DEF vars, input
<1> QED
  BY <1>1, <1>2, <1>3, <1>4, <1>5, <1>6, <1>7 DEF Next

\* Whatever the number of requests and the limit of the queue, every request is
\* answered once and in order, still on its way, dropped by design or, only in the
\* servers with a logic layer, lost by a race of PostMsgToQue.
THEOREM AnswersInOrder == SafeSpec => [](TypeOK /\ RepliesInOrder)
<1>1. Init => ControlOK /\ RequestsOK
  BY InitRequests
<1>2. ControlOK /\ RequestsOK /\ [Next]_vars => (ControlOK /\ RequestsOK)'
  BY NextControl, NextRequests
<1>3. ControlOK /\ RequestsOK => TypeOK /\ RepliesInOrder
  BY Parts DEF RequestsOK
<1> QED
  BY <1>1, <1>2, <1>3, PTL DEF SafeSpec

-----------------------------------------------------------------------------
(* The promise of SessionOutput.                                           *)

\* A step that neither pushes nor writes keeps what was accepted and sent, and
\* may close the socket.
LEMMA Closes ==
  ASSUME Unwritten' = Unwritten, answers' = answers, open \in BOOLEAN,
         open' = open \/ open' = FALSE
  PROVE  Output!Next \/ UNCHANGED Output!vars
<1>1. (answers \o Unwritten)' = answers \o Unwritten /\ Len(answers)' = Len(answers)
  OBVIOUS
<1>2. CASE open' = open
  BY <1>1, <1>2 DEF Output!vars
<1>3. CASE open' # open
  <2>1. open /\ open' = FALSE
    BY <1>3
  <2>2. Output!GoDown
    BY <1>1, <2>1 DEF Output!GoDown
  <2> QED
    BY <2>2 DEF Output!Next
<1> QED
  BY <1>2, <1>3

\* A Send of one reply is accepted if there is room, and dropped if not.
LEMMA SendIsAccept ==
  ASSUME OutputOK, kind # "AsyncServer", NEW reqs \in Seq(Requests), Len(reqs) = 1,
         Send(reqs), UNCHANGED <<kind, answers, open>>
  PROVE  Output!Next \/ UNCHANGED Output!vars
<1>1. PICK n \in 0 .. Len(reqs) : Push(reqs, n) /\ Len(send_que) + n <= MAX_SENDQUE + 1
  BY Sends
<1>2. Unwritten' = Unwritten \o SubSeq(reqs, 1, n)
  BY <1>1, Pushes
<1>3. /\ Unwritten \in Seq(Requests) /\ answers \in Seq(Requests)
      /\ answers \o Unwritten \in Seq(Requests)
      /\ Len(answers \o Unwritten) = Len(answers) + Len(Unwritten)
      /\ Len(answers) \in Nat /\ Len(Unwritten) \in Nat
  BY Unwritten1, ConcatProperties DEF OutputOK
<1>4. CASE n = 0
  <2>1. SubSeq(reqs, 1, n) = <<>>
    BY <1>4, SubSeqEmpty
  <2>2. Unwritten' = Unwritten
    BY <1>2, <1>3, <2>1, ConcatEmptySeq
  <2> QED
    BY <2>2 DEF Output!vars
<1>5. CASE n = 1
  <2> DEFINE m == reqs[1]
             one == <<m>>
  <2>1. m \in Requests /\ one \in Seq(Requests) /\ Len(one) = 1 /\ one[1] = m
    OBVIOUS
  <2>2. SubSeq(reqs, 1, n) = reqs
    BY <1>5, SubSeqFull
  <2>3. reqs = one
    BY <2>1, SeqEqual
  <2> HIDE DEF m, one
  <2>4. Unwritten' = Unwritten \o one
    BY <1>2, <2>2, <2>3
  <2>5. (answers \o Unwritten) \o one = answers \o (Unwritten \o one)
    BY <1>3, <2>1, RequestsAssociative, Zenon
  <2>6. Append(answers \o Unwritten, m) = (answers \o Unwritten) \o one
    BY <1>3, <2>1, AppendIsConcat DEF one
  <2>7. (answers \o Unwritten)' = Append(answers \o Unwritten, m)
    BY <2>4, <2>5, <2>6
  <2>8. Len(answers \o Unwritten) - Len(answers) < MAX_SENDQUE + 1
    <3>1. Len(send_que) \in Nat /\ Len(send_que) < MAX_SENDQUE + 1 /\ MAX_SENDQUE \in Nat
      BY <1>1, <1>5, BoundAssumption DEF OutputOK
    <3>2. Len(Unwritten) <= Len(send_que)
      BY <3>1, HeadTailProperties DEF OutputOK, Unwritten
    <3> QED
      BY <1>3, <3>1, <3>2
  <2>9. Output!Accept(m)
    BY <2>7, <2>8 DEF Output!Accept
  <2> QED
    BY <2>1, <2>9 DEF Output!Next
<1> QED
  BY <1>1, <1>4, <1>5

\* The write of a reply transmits it.
LEMMA WriteIsTransmit ==
  ASSUME OutputOK, WriteSucceeds
  PROVE  Output!Next
<1>1. /\ write = "busy" /\ write' = "ok" /\ send_que # <<>> /\ open /\ open' = open
      /\ answers' = Append(answers, Head(send_que)) /\ send_que' = send_que
  BY DEF WriteSucceeds, OutputOK
<1>2. /\ send_que \in Seq(Requests) /\ answers \in Seq(Requests)
      /\ Head(send_que) \in Requests /\ Tail(send_que) \in Seq(Requests)
      /\ <<Head(send_que)>> \in Seq(Requests)
      /\ send_que = <<Head(send_que)>> \o Tail(send_que)
      /\ Len(send_que) \in Nat \ {0} /\ Len(answers) \in Nat
  BY <1>1, EmptySeq, HeadTailProperties, HeadTailConcat DEF OutputOK
<1>3. answers' = answers \o <<Head(send_que)>> /\ Len(answers') = Len(answers) + 1
  BY <1>1, <1>2, AppendProperties, AppendIsConcat
<1>4. Unwritten = send_que /\ Unwritten' = Tail(send_que)
  BY <1>1 DEF Unwritten
<1>5. (answers \o Unwritten)' = answers \o Unwritten
  BY <1>2, <1>3, <1>4, ConcatAssociative
<1>6. Len(answers) < Len(answers \o Unwritten)
  BY <1>2, <1>4, ConcatProperties
<1>7. Output!Transmit
  BY <1>1, <1>3, <1>5, <1>6 DEF Output!Transmit
<1> QED
  BY <1>7 DEF Output!Next

\* Every step of a server with a limit accepts one reply, transmits one, gives
\* the connection up, or changes nothing the caller of Send knows of.
LEMMA StepIsOutput ==
  ASSUME ControlOK, RequestsOK, [Next]_vars, kind # "AsyncServer"
  PROVE  Output!Next \/ UNCHANGED Output!vars
<1>1. open \in BOOLEAN /\ OutputOK
  BY DEF ControlOK, RequestsOK
<1>2. ASSUME UNCHANGED output, open' = open \/ open' = FALSE
      PROVE  Output!Next \/ UNCHANGED Output!vars
  <2>1. Unwritten' = Unwritten /\ answers' = answers
    BY <1>2 DEF output, Unwritten
  <2> QED
    BY <1>1, <1>2, <2>1, Closes
<1>3. ASSUME NEW n \in Complete, Handle(n), Slices, n > 0 => OneThread,
             UNCHANGED <<kind, open>>
      PROVE  Output!Next \/ UNCHANGED Output!vars
  <2> DEFINE reqs == [i \in 1 .. n |-> received + i]
  <2>1. n = 0 /\ reqs \in Seq(Requests) /\ Len(reqs) = 0
    BY <1>3 DEF OneThread, Slices, Complete, RequestsOK
  <2>2. Send(reqs) /\ UNCHANGED answers
    BY <1>3 DEF Handle
  <2> HIDE DEF reqs
  <2>3. PICK k \in 0 .. Len(reqs) :
          /\ Push(reqs, k)
          /\ kind # "AsyncServer" => Len(send_que) + k <= MAX_SENDQUE + 1
    BY <1>1, <2>1, <2>2, Sends
  <2>4. Unwritten' = Unwritten \o SubSeq(reqs, 1, k)
    BY <1>1, <1>3, <2>1, <2>2, <2>3, Pushes
  <2>5. SubSeq(reqs, 1, k) = <<>> /\ Unwritten \in Seq(Requests)
    <3>1. k = 0
      BY <2>1, <2>3
    <3> QED
      BY <1>1, <2>1, <3>1, SubSeqEmpty, Unwritten1
  <2>6. Unwritten' = Unwritten
    BY <2>4, <2>5, ConcatEmptySeq
  <2> QED
    BY <1>1, <1>3, <2>2, <2>6, Closes
<1>4. CASE HandleRead
  <2>1. ASSUME NEW n \in Complete, ReadSome(n) \/ ReadSomeIllegal(n)
        PROVE  Output!Next \/ UNCHANGED Output!vars
    BY <1>3, <2>1 DEF ReadSome, ReadSomeIllegal, server
  <2>2. CASE HandleReadHead \/ HandleReadHeadIllegal \/ ReadError
    BY <1>2, <2>2 DEF HandleReadHead, HandleReadHeadIllegal, ReadError
  <2>3. CASE received < MaxMsgs /\ HandleReadMsg
    <3> DEFINE reqs == [i \in 1 .. 1 |-> received + i]
    <3>1. reqs \in Seq(Requests) /\ Len(reqs) = 1
      <4>1. received + 1 \in Requests
        BY <2>3, BoundAssumption DEF RequestsOK, Requests
      <4> QED
        BY <4>1
    <3>2. Send(reqs) /\ UNCHANGED <<kind, answers, open>>
      BY <2>3 DEF HandleReadMsg, Handle, server, OneThread, Slices, ControlOK
    <3> HIDE DEF reqs
    <3> QED
      BY <1>1, <3>1, <3>2, SendIsAccept
  <2>4. CASE Post
    BY <1>2, <2>4 DEF Post
  <2>5. CASE ReadThrows
    <3>1. CASE OneThread
      BY <1>1, <2>5, <3>1, EndsKeeps, Closes DEF ReadThrows, ServerEnds, server, logic
    <3>2. CASE ~OneThread
      BY <1>1, <1>2, <2>5, <3>2 DEF ReadThrows, output
    <3> QED
      BY <3>1, <3>2
  <2> QED
    BY <1>4, <2>1, <2>2, <2>3, <2>4, <2>5 DEF HandleRead
<1>5. CASE HandleWrite
  <2>1. CASE WriteOk
    <3>1. Unwritten' = Unwritten /\ answers' = answers /\ open' = open
      BY <2>1 DEF WriteOk, Unwritten
    <3> QED
      BY <1>1, <3>1, Closes
  <2>2. CASE WriteError
    <3>1. Unwritten' = Unwritten /\ answers' = answers
      BY <2>2 DEF WriteError, Unwritten
    <3>2. open' = FALSE
      BY <2>2 DEF WriteError
    <3> QED
      BY <1>1, <3>1, <3>2, Closes
  <2>3. CASE WriteThrows
    <3>1. CASE OneThread
      BY <1>1, <2>3, <3>1, EndsKeeps, Closes DEF WriteThrows, ServerEnds, server, logic
    <3>2. CASE ~OneThread
      <4>1. Unwritten' = Unwritten /\ answers' = answers /\ open' = FALSE
        BY <2>3, <3>2 DEF WriteThrows, Unwritten
      <4> QED
        BY <1>1, <4>1, Closes
    <3> QED
      BY <3>1, <3>2
  <2> QED
    BY <1>5, <2>1, <2>2, <2>3 DEF HandleWrite
<1>6. CASE Worker
  <2>1. CASE Reply
    <3> DEFINE reqs == <<Head(msg_que)>>
    <3>1. reqs \in Seq(Requests) /\ Len(reqs) = 1
      BY <2>1, HeadTailProperties DEF Reply, RequestsOK
    <3>2. Send(reqs) /\ UNCHANGED <<kind, answers, open>>
      BY <2>1 DEF Reply, server
    <3> HIDE DEF reqs
    <3> QED
      BY <1>1, <3>1, <3>2, SendIsAccept
  <2>2. CASE Ignore
    BY <1>2, <2>2 DEF Ignore
  <2> QED
    BY <1>6, <2>1, <2>2 DEF Worker
<1>7. CASE WriteCompletes
  <2>1. CASE WriteSucceeds
    BY <1>1, <2>1, WriteIsTransmit
  <2>2. CASE WriteFails
    <3>1. Unwritten' = Unwritten /\ answers' = answers /\ open' = open
      BY <2>2 DEF WriteFails, Unwritten
    <3> QED
      BY <1>1, <3>1, Closes
  <2> QED
    BY <1>7, <2>1, <2>2 DEF WriteCompletes
<1>8. CASE AcceptFails \/ Start \/ Insert \/ ReadCompletes \/ PeerGoes \/ SpuriousWake
  BY <1>2, <1>8 DEF AcceptFails, Start, Insert, ReadCompletes, PeerGoes, SpuriousWake
<1>9. CASE UNCHANGED vars
  BY <1>2, <1>9 DEF vars
<1> QED
  BY <1>4, <1>5, <1>6, <1>7, <1>8, <1>9 DEF Next

\* The callback servers with a limit implement SessionOutput, handler by
\* handler: what Send accepted goes out whole, in that order, and is never more
\* than MAX_SENDQUE + 1 replies at once, whatever the number of requests.
THEOREM ImplementsOutput == SafeSpec => OutputSafe
<1>1. Init => Output!Init
  <2> SUFFICES ASSUME Init
               PROVE  Output!Init
    OBVIOUS
  <2>1. answers = <<>> /\ Unwritten = <<>> /\ open = TRUE
    BY DEF Init, Unwritten
  <2> QED
    BY <2>1 DEF Output!Init
<1>2. Init => ControlOK /\ RequestsOK
  BY InitRequests
<1>3. ControlOK /\ RequestsOK /\ [Next]_vars => (ControlOK /\ RequestsOK)'
  BY NextControl, NextRequests
<1>4. ControlOK /\ RequestsOK /\ [Next]_vars =>
        [kind # "AsyncServer" => Output!Next]_Output!vars
  BY StepIsOutput
<1> QED
  BY <1>1, <1>2, <1>3, <1>4, PTL DEF SafeSpec, OutputSafe
=============================================================================
