# A verification project for boost_asio_learn

The repository is a series of TCP servers written with Boost.Asio, each growing
out of the one before it: a synchronous echo server, asynchronous exercises, an
asynchronous server with framed messages, the same with a logic layer, with two
kinds of I/O pool, and with coroutines. This directory holds TLA+ modules that
model the parts of these servers that several threads or callbacks share, the
clients that talk to them, the sample programs whose steps can fail or meet, TLC
configurations that check them on small instances, and proofs that TLAPS checks
for every size.

    tlc -workers 2 -config <run>.cfg <module>.tla     (see "The runs")
    tlapm <module>Proofs.tla                          (see "What is proved")

`PROJECT.json` holds, for every definition that models code, the lines it
translates, the hazards of the code with the properties that watch them, the
mutants that show each property can fail, and the disagreements found.

## Inventory

### The three framed servers with a logic layer

`src/async_server_add_logical_layer` (below: *logical*),
`src/async_server_IOThreadPool` (*thread pool*) and `src/CoroutinServer`
(*coroutine*) share one architecture.

| part | state | operations | interacts with |
|---|---|---|---|
| `CServer` | `_sessions`, an acceptor | `StartAccept`, `HandleAccept`, `ClearSession` | creates and starts sessions (main thread); sessions call `ClearSession` from theirs |
| `CSession`, input | `_recv_head_node`, `_recv_msg_node`, `_b_head_parse`, `_data` | `Start`, `HandleRead` (two servers), the coroutine of `Start` (the third) | posts a `LogicNode` per message to `LogicSystem`; on errors `Close` and `ClearSession` |
| `CSession`, output | `_send_que`, `_send_lock` | `Send`, `HandleWrite`, `Close` | `Send` is called on the logic worker, `HandleWrite` on an I/O thread |
| `LogicSystem` | `_msg_que`, `_mutex`, `_consume`, `_b_stop`, `_worker_thread` | `PostMsgToQue`, `DealMsg`, the destructor | called by sessions on every I/O thread; its worker calls `CSession::Send` |
| `MsgNode` | a buffer, `_total_len`, `_cur_len` | constructor, `Clear` | owned by the two above |
| `AsioIOServicePool`, `AsioThreadPool` | io_contexts, work guards, threads | `GetIOService`, `Stop` | run every handler |
| `Singleton` | one instance, a once flag | `GetInstance` | the pools and the logic layer |
| `main` | a signal set | wait for a signal, stop | stops the acceptor's io_context, in two servers the pool |

What is hard: `LogicSystem` is a hand-made blocking queue with a notification
that is sent only on one transition, and a destructor that races with the wait.
`Send` and `HandleWrite` run on different threads and hand over the duty to
write. `HandleRead` is one loop over partial heads and bodies with state kept
from call to call. Who owns a session is spread over handlers, the map, the
logic queue and, in the coroutine server, a lambda that captures less than it
seems to. Stopping involves three kinds of thread.

### The earlier servers and the exercises

| part | state | operations | interacts with |
|---|---|---|---|
| `src/AsyncServer` | `Session`: the same slicing with a two-byte head; an unlimited send queue; `Server`: `_sessions` | `Star`, `Send`, `handle_read`, `handle_write`, `handle_accpet`, `ClearSession` | all on one thread |
| `src/async_read_use` | `CSession`: head and body read by `async_read` | `Start`, `Send`, `HandleWrite`, `HandleReadHead`, `HandleReadMsg` | all on one thread |
| `src/AsyncApi` | `Session`: `_send_node`, `_send_queue`, `_send_pending`, `_recv_node`, `_recv_pending` | three generations of a write (`WriteToSocketErr`; `WriteToSocket`; `WriteAllToSocket`) with their handlers, `ReadFromSocket`, `ReadAllFromSocket` | the owner calls, asio calls the handlers, on one thread |
| `src/SyncServer` | `thread_set` | accept, start a thread per connection that echoes, join in the end | a thread per client |
| `src/SyncClinet` | a socket that two threads share | one thread sends for ever, one receives for ever; main joins both | any echo server |
| `src/Coroutine_server_client` | none shared | listener and echo as coroutines; a client that writes and reads once | each other |
| `src/CoroutinServer/TestClient`, `src/json_client` | a vector of threads | each thread sends a request, reads head and body of the reply, repeats; main joins | the servers with a logic layer |
| `src/end_point` | none | functions that connect, write or read once by each of the blocking calls, or accept once | any peer |
| `src/GrpcServer` | a server, a stub, two generated copies of `demo.pb` | `SayHello` at both ends | grpc |
| `src/protobuf_test` | two `Book`s and a string | set, get, serialize, parse, and what else the class can do | none |
| `src/jsoncpp_test`, `src/boost_test1` | none | one library call each | none |

What is hard here: in `AsyncApi` what a handler finds depends on what the owner
called since the write was started, and the parameter a write was started with is
gone. The blocking programs depend on how the bytes are cut, on both sides not
writing into full buffers for ever, and on exceptions that leave loops others
wait in. The generated classes must read what they wrote, whatever was in it.

### What makes them correct

* `LogicSystem`: no data race on the queue; no message without a wake-up on its
  way; `front()` only when there is something; after a stop, everything posted is
  handled, the worker leaves and the destructor returns; all in all, a mailbox.
* Output: one write at a time, from a buffer that is alive; messages go out
  whole and in the order of the pushes; no stall while the connection is up; a
  bounded queue.
* Input: every message is delivered once, whole, of its own bytes, in order, as
  soon as it is complete, however the bytes are cut; an illegal head ends it.
* Lifetime: a session is used only while it exists and is released in the end.
* Stop: nobody uses a server that is destroyed; every thread ends, nothing posted is
  lost, and the process comes to a regular end.
* `AsyncApi`: the bytes on the wire are the messages, in the order of the calls;
  every message goes out as long as the connection is up; a read fills its node.
* Blocking programs: each client reads the replies to its own requests and
  nothing else; nobody waits for ever; every program comes to a regular end.
* Protobuf: what is written is read again, whatever order the methods are called
  in; a call returns the answer to its own request, or a failure.

`PROJECT.json` lists the hazards line by line.

## The modules

| module | models | kind |
|---|---|---|
| `LogicMailbox` | what the network layer may rely on when it posts a message | abstract |
| `LogicSystem` | `LogicSystem::PostMsgToQue`, `DealMsg`, `~LogicSystem` | implements `LogicMailbox` |
| `SessionOutput` | what a session promises to the caller of `Send` | abstract |
| `SendQueue` | `CSession::Send`, `HandleWrite`, `Close` | implements `SessionOutput` |
| `FrameReader` | `CSession::HandleRead`, the slicing of the stream | |
| `SessionLifetime` | who owns a session of `CoroutinServer` and who uses it | |
| `CallbackSession` | one connection of the four servers with callbacks, end to end | implements `SessionOutput` |
| `ServerStop` | main, the signal handler, the pool, its sessions and the destruction of the statics, of the three servers with a logic layer | |
| `ApiSession` | `Session` of `AsyncApi` | |
| `Peers` | the programs with blocking calls, a client and a server at a time | composes them |
| `ProtoMessage` | what the classes generated by protoc do, as operators | pure |
| `BookUser` | a program that uses two `Book`s and a string | uses `ProtoMessage` |
| `HelloCall` | `SayHello` in `GrpcServer` and `grpcclient` | uses `ProtoMessage` |
| `ClientProofs` | the theorems of `Peers`, `BookUser`, `HelloCall` and of the operators of `ProtoMessage` | proofs |
| other `...Proofs` | the theorems of the module named | proofs |
| `MCLogicSystem`, `MCPeers` | the values of their constants for TLC | |
| `MCCoroutinServer` | `LogicSystem` and `SessionLifetime` side by side, for TLC | |
| `MCSession` | `FrameReader` and `SendQueue` side by side | |
| `MCPrograms` | `ApiSession`, `Peers`, `BookUser` and `HelloCall` side by side | |

*Side by side* is a choice of one of the modules at the start, and then its behaviour: a
run of such a module checks all of them, and none of their interleavings, as they
share no state. A property of one holds trivially in the behaviours of the others; two
that speak of what must happen are restricted to their own (`InputDelivered`,
`ClientsFinish`), and a module owes fairness only where it runs. `Init`, `Next` and `Spec`
of a module have a prefix where two that run side by side would both have them
(`QueueInit`, `LifeInit`, `ApiInit`).

In every module a definition is named after the function, or the branch of the
function, it translates, and variables after the members (`_msg_que` is
`msg_que`). History variables are marked in the declarations. A definition whose
comment starts with *Mutant* is not part of the specification: it is a plausible
mistake in the definition that follows it, kept to show that the properties
notice.

### LogicSystem

The grain is one access to shared memory, because the question is what happens
between two of them. `PostMsgToQue` is `Enter` (taking the lock, if the copy
takes one), `Push`, `Size` (reading the size, deciding, unlocking) and `Notify`.
`DealMsg` is `Lock`, `Check` (the condition of the wait loop), `Wait`, `Test`
(`_b_stop`), `Deal`, and `DrainOne`/`DrainEnd` after a stop. The condition
variable may wake the worker for no reason (`SpuriousWake`). The destructor is
`Stop`, `StopNotify` and `Join`.

`PostLocks` and `PoolStops` tell the three copies of the class apart. In the two
earlier servers `std::unique_lock<std::mutex> unique_lk(mutex);` declares a
function, because `mutex` is a type: nothing is locked. A push that races with
another access is undefined, and modelled as either of two outcomes: it takes
effect or is lost. The JSON work of the callback is its effect only: it replies.

### SendQueue

`Send` is `SendEnter` (lock, read the size), `SendDrop` or `SendPush` (which
unlock) and `StartWrite`, which happens after the lock is released. `HandleWrite`
is one step up to its unlock and then `StartWrite`. The I/O thread runs
`ReaderClose` too. `async_write` is external: it sends a frame in two pieces, so
that frames can get mixed, and completes with an error if the connection broke.
The refinement mapping to `SessionOutput` counts a message as sent once its last
piece is out, and the connection as up until the peer breaks it or it is closed.

### FrameReader

Bytes are positions in the stream of the peer. A node records how many bytes it
has, where they came from and whether they are consecutive; a message delivered
is right if its node is exactly the body that was sent. Each path through the
loop of `HandleRead` is an action: `HeadPartial`, `HeadIllegal`, `HeadThrows`,
`HeadThenPartial`, `HeadThenWhole`, `BodyPartial`, `BodyWhole`. `Deliver` contains
what the code does at the end of a message: post, reset the flag and the head
node, and read on or go round the loop. A head made of wrong bytes (`Parsed = 0`)
may say anything.

The code reads a length into a `short`, `Signed`: half of the lengths a head can say
are negative, and pass the test for lengths that are too large. Below -1 the node
cannot be allocated (`Throws`); the `catch` of `HandleRead` prints the exception and
returns, without another read, `Close` or `ClearSession` (`HeadThrows`): the session
is deaf. A length of -1 makes a node without a byte (`NoRoom`), and the comparison
with a `size_t` takes -1 for the largest number (`Below`): all that follows is written
past the node. From there (`NoRoomRead`) the process may go on or end (`Crash`), and
the properties of what was delivered say nothing more. A negative id is only printed and looked up, and makes no difference. `ReadError`
has a `Close` that throws, which leads to the same `catch`.

### SessionLifetime

One connection of `CoroutinServer`. Its owners are the accept handler, the map,
the LogicNodes and the write handler; the coroutine is none, since its lambda
captures `[=]` without naming `shared_this`. The completion of an operation and
the run of what waits for it are two steps, and three threads interleave: main
(`Start`, `Insert`), the I/O thread (the coroutine and `HandleWrite`), and the
logic worker (`Reply`, `Ignore`). The use of freed memory is a step of its own,
`ResumeFreed`.

### CallbackSession

One connection of `AsyncServer`, `async_read_use`, *logical* or *thread pool*;
`kind` says which. They share the structure and differ in who replies (the read
handler or the logic worker), whether a read may carry several messages, whether
the queue has a limit (`AsyncServer` has none), whether a failed write closes the
socket (not in `AsyncServer`), who catches an exception, and whether handlers may run
while `HandleAccept` is between `Start` and the insertion (`MayRun`). `Send` of one reply is `Push`,
with the room that `SendRoom` finds; a read handler that replies to several
messages does so by `SendAll`. The slicing inside `handle_read`
is left to `FrameReader` (whose head of `HEAD_TOTAL_LEN` bytes is of two in
`AsyncServer`), the locking inside `Send` to `SendQueue`. `HandleRead` of
`async_read_use` is never called and not modelled.

The two servers with a logic layer have the `PostMsgToQue` that locks nothing. `Post`
is one call of it, with what the races that `LogicSystem` shows for `PostLocks =
FALSE` may do to it: the message is lost (`lost`), or the worker sleeps beside it
(`stalled`) until it wakes for no reason. `Forgotten` names these requests:
the liveness properties leave out no other message that was posted.

A negative length or a `Close` that fails throws. `HandleRead` and `HandleWrite` of
*logical* and *thread pool* catch it, and leave the session as it is
(`ReadThrows`, `WriteThrows`: after the first nobody clears it, after the second the
read does). The other two catch nothing before main, whose `catch` is the end of the
server (`ServerEnds`).

### ServerStop

`server` is one of the three servers with a logic layer. An io_context runs as
long as it has its work guard or a session reading. `HandleSignal` of the
coroutine server drops the guards and joins inside the handler, so that main
neither accepts nor leaves until the threads are done. *logical* stops main's
context only; in *thread pool* nobody runs the context of the signals.

The constructor of `CServer` opens the port and accepts (`Listen`), or throws
(`PortTaken`): main catches that and returns, and the handler of the signal, the only
one that stops the pool, has not run. After main the statics are destroyed. The
`LogicSystem` is made by the first message (`Post`) and joins its worker in its
destructor (`StopLogic`), which may never return: that is `StopEnds` of `LogicSystem`,
taken over as a choice. The coroutine server makes its pool first and so destroys the
logic layer before it; in the other two both are held by static pointers of different
files, whose order is open. `Exit` is the destruction of the pool: a thread that was
not joined ends the process in `std::terminate`.

`HandleAccept` and `ClearSession` change `_sessions` from several threads, under a
mutex in the coroutine server only. Each is two steps, `Accept` and `Inserted`,
`Disconnect` and `Erased`, between which `task` says that the runner is on its way
to the map; a runner inside a handler runs no other.

### ApiSession

`kind` is the generation of the write. `ops` are the writes asio has under way,
`done` the completions whose handlers are still to be called, so that the owner
may call between the two. A write has the bytes it covers, the node its handler
was bound to, and whether somebody owns its buffer: the first write of a burst is
started from `buffer(buf)` of a parameter, later ones from a node in the queue.
`Transfer` takes any part of the buffer, as `async_write_some` and `async_send`
may; of a buffer nobody owns it takes the right bytes or others. The handlers read
what the code reads: `WriteCallBackErr` the node that is current when it runs.

### Peers

A program is the sequence of its blocking reads and writes, `<<call, what>>`, run
once, a number of times or for ever (`Repeats`); `co_await` of a read is one of
them. `pair` is a client and a server that the repository means for each other.
Each call moves bytes between its thread and the two buffers of the connection, any
number at a time: `read` and `write` until all is done, `read_some`, `receive` and
`send` once. Both mains are modelled with the loops in which they start, accept and
join; a joined thread cannot be joined again, a thread object that is destroyed
joinable terminates the program, and an exception ends what nothing catches it in
(`Fails`, `ServerEnds`, `ListenerEnds`). `frames` stands for the servers with a logic
layer, which the other modules describe, and `sink`, `source` and `resolver` for
programs that are not in the repository.

### ProtoMessage, BookUser, HelloCall

A class is the sequence of the kinds of its fields and all operators are written
over such sequences, as `protoc` writes the methods of `Book`, `HelloRequest` and
`HelloReply`. On the wire a message is a sequence of items, with the number of the
field, the wire type and the value; `InternalParse` reads them one by one. Sizes are
counted, because the buffer is allocated by them. `BookUser` calls the methods of two
objects in any order, and changes the string as another version of the class, or
a transmission that is cut off, would. `HelloCall` has a client per thread that
serializes, waits and reads, and the server that reads, answers and serializes, with grpc
as the environment that carries the items. It ends a call with a status if nobody
listens, or once it knows that the connection is `lost` (`Unavailable`); on a connection
that has become `silent` the call, which has no deadline, waits. `RunServer` may be
left with no server where the port is taken, and then `Wait` is its end.

### How they fit together

`FrameReader` delivers to the logic layer, `LogicSystem` hands to `Send`,
`SendQueue` writes: each has the other side as its environment (any thread may
post any message at any time; any thread may call `Send`). `CallbackSession` and
`SessionLifetime` put the same parts in a row at the grain of whole handlers,
which the results on the parts justify: a `Send` or `HandleWrite` has the effect
of one step (`SendQueue`, `OneWriter` and `FramesInOrder`; both `SendQueue` and
`CallbackSession` implement `SessionOutput`), and reading has that of delivering the
next messages (`InOrder`, `NothingKeptBack`) up to an illegal or negative length, after
which nothing more is delivered. Posting and dealing have the effect of a
mailbox (`MailboxSpec`) in the coroutine server only, the subject of
`SessionLifetime`; `CallbackSession` has the posting without a lock, which may forget a
message. `ServerStop` takes from `LogicSystem` that the destructor may not return. In
`Peers` the clients of these servers have in `frames` a server that answers each
request in order. `RepliesInOrder` and `Answered` of `CallbackSession` say when the
servers do: while their queue has room, and the logic layer forgets nothing. So `frames` is
the coroutine server, or one of the others as long as it is not hit by its races.

## The runs

| run | module | result | what it shows |
|---|---|---|---|
| `coroutine` | `MCCoroutinServer` | passes | logic layer: with the lock and the joins it is race-free, loses no wake-up, calls `front()` on no empty queue, leaves nothing behind, and implements `LogicMailbox` with its liveness. Lifetime: in which circumstances, and no others, a session dangles (`DanglingOnlyAfterWriteError`) or leaks (`LeakOnlyIfClearedEarly`, `Released`) |
| `logic_unlocked_wakeup` | `MCLogicSystem` | `NoLostWakeup` fails | without the lock the worker sleeps beside messages |
| `logic_stop` | `MCLogicSystem` | `StopEnds` fails | the destructor notifies without the mutex; its notification may fall between the worker's test and its wait, and the join never returns, in all three servers |
| `lifetime_freed` | `SessionLifetime` | `NoUseAfterFree` fails | after a failed write the coroutine is resumed on a destroyed session |
| `session` | `MCSession` | passes | input: the slicing delivers each message once, whole, in order and as soon as it is complete, up to the first illegal or negative length; it never stops reading an open session but after a length below -1 (`NeverDeaf`); and no node is overfilled until a length was -1. Output: one write at a time, from a live buffer, frames whole and in order, the bound, and `SessionOutput` with its liveness |
| `callback` | `CallbackSession` | passes | in each callback server every request is answered once and in order, or dropped by design, or forgotten by the unlocked logic layer (`RepliesInOrder`, `Answered`); sessions are released, but for those that are stuck: in the map after one race or one exception, or held by a forgotten message (`LeakOnlyWithThreads`, `Released`); and the servers with a limited queue implement `SessionOutput` with its liveness (`OutputSpec`) |
| `stop` | `ServerStop` | passes | all but *logical* destroy their `CServer` only when no session is left (`ServerOutlives`); the process ends in `std::terminate` in *logical*, and in the other two only if the port was taken (`NormalEnd`); a signal ends a server that runs, if no client stays for ever, but for *thread pool*, and unless the worker sleeps through its stop (`StopsWhenLeft`) |
| `stop_thread_pool` | `ServerStop` | `SignalStops` fails | no signal ends *thread pool* |
| `programs` | `MCPrograms` | passes | `AsyncApi`: under which conditions each generation of the write sends messages whole and in order (`OrderKept`, `AllSent`), that `_send_pending` means a write under way until one fails (`TypeOK`), and that a read that ends has filled its node. Blocking programs: every client hears its own replies whatever the cuts (`RepliesMatch`), nobody waits for ever (`ClientsFinish`), and in which cases a program is terminated (`NormalEnd`). Protobuf: what is written is read again (`RoundTrip`), reading two messages in a row is merging them (`MergeIsConcat`), the last value of a field wins and unknown ones are kept (`ReadsLast`). The call: it returns its own answer or a failure (`AnswerRight`), and returns unless its connection goes silent (`CallReturns`) |
| `api_send_all` | `ApiSession` | `SendsAll` fails | `async_send` takes a part, and the rest is never sent |
| `peers_sync_server` | `MCPeers` | `WaitsForSessions` fails | `SyncServer` ends while its sessions run |
| `peers_json` | `MCPeers` | `MakesAll` fails | `json_client` is terminated after two connections |

Deadlock is not checked in any of them: a server that has stopped, a connection
that is over or peers that are silent leave nothing to do. What must not stop is
said by the liveness properties instead.

### Disagreements with the code's own claims

Each run that fails is a disagreement between the code and what its comments or
notes say; `PROJECT.json` quotes them. Where a passing property states the code's
behaviour with an exception, and a comment promises that there is none, the failing
run is the promise: `SendsAll` beside `OrderKept` and `AllSent`, `WaitsForSessions` and
`MakesAll` beside `NormalEnd` of `Peers`, `SignalStops` beside `StopsWhenLeft`,
`NoUseAfterFree` beside `DanglingOnlyAfterWriteError`.

Others came up and have no run of their own, because they are the exceptions that a
passing property names, because a run would only show the same again, or because
nothing in the repository says otherwise:

* `endpoint.cpp:243` says that `send` blocks until all is sent, and `endpoint.cpp:334` that
  `receive` reads it all at once; both may do a part, and are called once. `RepliesMatch`
  excepts both. (On a blocking socket of most systems `send` seldom does less.)
* `Session.h:50` of `AsyncApi` says that a message is wrapped in a node before it is
  written, but the first write of a burst is started on the parameter of the method
  (`Session.cpp:65`), which is gone while the write runs. `OrderKept` says that these
  bytes, and no others, may be wrong.
* A length of -1 in a head passes the tests, and the bytes that follow are written past
  the end of the node, although `CSession.cpp:157` of *thread pool* speaks of a message
  shorter than the length in the head (`TypeOK` and `InOrder` end there).
* `改进说明.txt:6` of *logical* promises a graceful exit after a signal: its pool is never
  stopped, and the process ends in `std::terminate` (`NormalEnd` of `ServerStop` says so).
* The greeter calls `Wait` on a null pointer if its port is taken (`GrpcServer.cpp:46`).
* Without the lock messages are not only slept beside but lost, and without the joins
  they are posted to a worker that has left: `MailboxSpec` fails for `PostLocks = FALSE`,
  `ExitDrained` for `PoolStops = FALSE`.
* If the port is taken, *coroutine* and *thread pool* end in `std::terminate` after they
  have caught the exception: nobody stops the pool (`NormalEnd` excepts it).
* A length below -1 throws in `HandleRead`, whose `catch` leaves the session in the map
  with no read under way (`NeverDeaf`, `LeakOnlyWithThreads` except it). `AsyncServer`
  and `async_read_use` have no `catch` there: such a length ends the server
  (`Answered` excepts it).
* `_sessions` of *logical* and *thread pool* has no lock, and is changed by the
  accept handler and by sessions on other threads.
* `Send` reports "send que fulled, size is `MAX_SENDQUE`" when the queue holds
  `MAX_SENDQUE + 1` messages, because it tests `>`; `Bounded` says so.
* The `try` of `SyncClinet` does not surround what its threads run: a broken
  connection terminates it.
* A failed write of `AsyncApi` leaves `_send_pending` set, and a failed read is started
  again for ever.
* The greeter's client has no deadline: its call waits on a connection that is silent.
* `dns_connect_to_end` resolves a name and connects to none of its addresses.

### Bounds

* Logic layer: two I/O threads and three messages, one with an unknown id. Two threads
  race with each other and with the worker; with three messages the queue is
  seen to grow from 0, 1 and 2, so that the notification is sent and skipped.
  The theorems remove the bound for the safety properties.
* Output: two senders and the I/O thread, four messages, `MAX_SENDQUE` 1: the queue
  is empty, full, and over its limit. The theorems remove the bound.
* Input: heads of four bytes as in `const.h`, a buffer of nine, bodies of 1, 0, 6
  and 9 bytes (9 is the largest legal one) and an illegal id, in the first stream; the
  others end with a length that is too large, negative, and -1. Reads of every size
  from 1 to 9 at every position: a read ends inside a head, inside a body, at
  either end, and holds up to two whole messages. A short has five bits (`SHORT` is 16, for
  32768), so that streams of 30 bytes reach the negative numbers. The theorems remove
  the bounds.
* Lifetime, `callback`: three messages, a queue of at most two: replies are
  queued, dropped and written while another is under way. One session: sessions
  share nothing but the map and the logic layer, whose races with other sessions are
  choices of `Post`.
* `stop`: the three servers, two threads in the pool and main, three connections: a
  context serves two sessions while another has one, two sessions can be on their way
  to the map to leave it and a third to enter it. The theorems remove the bound.
* `AsyncApi`: three messages of three bytes: a message is queued behind one that is being
  written and one that waits, a write is cut into up to three. Reads of two bytes, of
  at most three that arrive: a node is filled by one read and by two, and one is left
  half filled. The theorems remove the bounds for the safety properties.
* Blocking programs: two connections and two rounds, so that joining twice, the second round of
  `json_client` and a reply to the wrong request can happen. Heads of two bytes, bodies
  of one, and one byte of room in each buffer: every request is cut in every place.
  `RoomAssumption` says that a request finds room in both buffers and the server; beyond
  it an echo server that writes before it reads on and a client that writes before
  it reads wait for each other, which is the nature of these programs. The theorems
  remove the bounds for `RepliesMatch` and `NormalEnd`, this one included.
* Protobuf: five calls on two objects and the string: enough to set a field, serialize, change the
  string, parse, and merge. Names that are empty, valid and not UTF-8, negative and
  positive numbers, minus zero; one unknown field per message. Two clients of
  `SayHello`, which do not share anything but the server. The theorems remove the bounds
  for all but `CallReturns`.
* The runs that fail use the same values or smaller ones (`peers_json` has three
  connections, because the second round ends it).

`MaxMsgs`, `Msgs`, `N`, `Conns`, `MaxBytes`, `Rounds`, `MaxCalls` and `MaxUnknown` are the
only bounds put on otherwise endless behaviour; all of them bound what peers and
users do. They may do less.

### Fairness, and why the code justifies it

Weak fairness of the steps a thread takes once it is inside a handler or the
worker's loop: the threads are ordinary threads and io_contexts are run until
they have nothing to do. In `LogicSystem`, weak fairness of the worker is enough
although it waits for a mutex, because peers send finitely many messages. An
operation of asio that can complete does (`AsyncWrite`, `ReadCompletes`,
`WriteCompletes`, `Receive`); for writes that includes a peer that reads what it is
sent, or a connection that breaks. Nothing makes a peer connect, send or leave, a signal come, or
`SpuriousWake` happen: `StopsWhenLeft` therefore has the departure of the clients
as its hypothesis, and `Released` starts where the reads have ended.

* `CallbackSession`: the worker deals with what it is awake for. Nothing wakes it once
  it sleeps beside a message: `Answered` and `Released` except that.
* `ServerStop`: a thread that changes the map is done with it in the end (`Inserted`,
  `Erased`). A mutex that is free now and then would call for strong fairness; here connections
  are finitely many, and so are the turns in the map. The statics are destroyed
  one after the other, unless the first is stuck.
* `ApiSession`: asio completes what it can and calls handlers. The owner need not call,
  the peer need not send.
* `Peers`: each thread takes its next step if it can, each role by itself, and both
  mains. No signal, no reset and no failure has to happen. An echo client that never
  ends is the exception in `ClientsFinish`: it hears what it has sent.
* `HelloCall`: a call under way goes on while the server listens and the connection
  holds; otherwise grpc reports that nobody listens, or that the connection is lost. It
  may also never learn that (`silent`): there is no deadline in the code, and
  `CallReturns` leaves these calls out.

## What is proved

All theorems are about every value of the constants that satisfies the named
`ASSUME`s (identities of threads are distinct from the words used as markers,
`MAX_SENDQUE` and the number of messages are natural numbers, messages and nodes are not
empty, the stream consists of whole heads followed by bodies, a pool has at least one
thread; in `Peers` the numbers and sizes are positive, `SizesAssumption`; in `BookUser`
the values of the fields are of the types `msg.proto` gives them, `ValuesAssumption`).

`LogicSystemProofs`
:   `TypeCorrect` holds for every copy of the class. The invariant adds to the
    types that a producer owns the mutex exactly inside its critical section.
    `RaceFree`, `NoWakeupLost` and `FrontIsThere` assume `PostLocks`, and rest on `IInv`: what the worker saw when it evaluated the loop
    condition still holds where it uses it (`WorkerKnows`), without which neither
    property is inductive. `NothingLeft` assumes `PoolStops` and rests on
    `Stopping`. `ImplementsMailbox` assumes both, and adds `Suffix`: the queue is
    the tail of what was posted, which turns a pop into the mailbox's `Consume`.

`SendQueueProofs`
:   One invariant, `QInv`. `OneWriter` alone is not inductive: the write is started
    after the unlock, so the right to write is carried by a thread on its way to
    `StartWrite`, by an operation, or by a completion whose handler has not run.
    `Writer` says that exactly one of them carries it while the queue is not empty
    and nothing failed; `AtFront` that it is for the front; `Progress` ties the pieces
    on the wire to it; `SizeFresh` that the size `Send` read under the lock is still the
    size. From it `TypeCorrect`, `WritesOneByOne`, `BufferKept`, `NothingMixed`,
    `QueueBounded` and `ImplementsOutput`.

`FrameReaderProofs`
:   `RInv` relates the position in the stream, the head flag and both nodes
    (`Collecting`): the next byte belongs to the message after those delivered, and
    the nodes hold exactly its beginning. It is kept until the head of a length of -1
    has been read (`NoRoomRead`), and the types are kept beyond. From it `TypeCorrect`,
    `DeliveredInOrder`, `KeepsNothingBack` and `ReadsGoOn`, for any message lengths,
    signed as the code reads them, and any cuts.

`SessionLifetimeProofs`
:   `DanglesOnlyAfterWriteError` and `LeaksOnlyIfClearedEarly`, from one invariant, `SInv`,
    which follows the owners: before the insertion the accept handler is one
    (`Unstarted`); from then on the map is, until `ClearSession` (`Kept`), and who calls
    that has either ended the coroutine or seen a write fail (`FailedClosed`,
    `Cleared`). `Counted` and `Writing` tie the write handler, which is an owner too, to
    the queue. `TypeCorrect` comes with it.

`ServerStopProofs`
:   `ServerOutlivesSessions` and `EndsNormally`, for any of the three
    servers. In the coroutine server a thread leaves `run()` only without a guard,
    outside any handler and without sessions, and nobody accepts once the guards
    are gone (`Guards`, `Ended`); main is inside no handler of the map while it joins
    (`MainIdle`), and leaves only after the joins (`Joined`, `Returned`), or because
    the port was taken, before anybody was served (`Unserved`). The other two
    never drop the guards, and main of *thread pool* leaves only in the second way.

`CallbackSessionProofs`
:   `LeaksOnlyWithThreads`, by following the accept handler (`Unstarted`,
    `EndedBefore`, `EarlyThreads`) and the exceptions. `AnswersInOrder`: a request is found in exactly one
    of the answers, the unwritten part of the send queue, and the logic layer's queue,
    or was dropped or lost. `RequestsOK` puts the three behind each other to one sequence: of
    all handlers, only reading and posting extend it, at its end (`Grows`), only a full queue or
    an unknown id takes anything from it, and what is taken is counted as dropped
    (`Drops`); all others move a request from one part to the next and leave the
    sequence as it is. What a race loses never gets into it. `ControlOK` says when a write is under way, without which the
    front of the queue could be answered twice. `ImplementsOutput` is `SessionOutput`
    again, for the servers with a limit: a reply is accepted when it is pushed and
    sent when it is out; `AsyncServer` is left out because it has no limit and may push
    several replies in one step.

`ApiSessionProofs`
:   `TypeCorrect` and `OrderedOut`, from `AInv`: all three generations work on one
    message at a time, the `Front`. What is out of it is what its node counts (`cur`)
    plus what a completion carries whose handler is still to run, and that is how far
    the wire is (`Reached`); the one write under way starts right behind (`OneOp`); the
    queue holds the messages from the front on (`Consecutive`), of which nothing is out
    (`Untouched`). For "err" all this is said until a message overlaps a write.
    `ReadsFill` needs that what arrived is a number of whole nodes and what the current
    one holds (`RInv`).

`ClientProofs`, the programs of `Peers`
:   `NormalEndHolds` rests on `Control`: who starts all threads before it joins the first
    joins each once (`JoinsOnce`), `json_client` comes back to its first
    (`JoinsAgain`), and threads and main end with each other (`Terminates`). `RepliesMatchHolds`
    is about every pair of programs at once, and rests on `Data`. What a client has read
    says nothing of what it is going to read; the invariant has to follow a
    request all the way: the requests written are a beginning of the stream of requests,
    the server has read a beginning of that and the bytes in between are in the buffer
    going up, and so are the replies coming down. Where in its program each side is says how much it has written
    and read, to the byte. `Expected` of `Peers` is written with the index of a byte,
    so that one more round adds to it and changes nothing before. `RoomAssumption` is not used: what
    does not fit makes the programs wait, not mix up replies.

`ClientProofs`, the messages of protobuf
:   `RoundTripHolds`, `MergeIsConcatHolds`, `ReadsLastHolds` and `AnswerRightHolds`, for
    any values. `ParseFromString` folds over the items, and what a fold computes has to
    be proved by induction on the items. The library's rule of induction takes an operator, which the provers
    cannot instantiate; `CountUp` takes a set of numbers in its place: one that has 0, and
    with n also n + 1, has all of `Nat` (from the well-foundedness of `<`).
    With it, folding a concatenation is folding its second part from the
    result of the first, an item written for a field sets that field, and unknown items are
    kept in turn. `BookInvariant` and `CallInvariant` then say that messages
    have the fields of their class whatever was called, and what each side of a call
    holds of it. `BookSpec` and `CallSpec` are the specifications of the two programs by
    themselves, which every behaviour of `MCPrograms` satisfies.

### Only model-checked

Liveness, which needs fairness and ENABLED, beyond the prover: the liveness half
of `MailboxSpec` and `OutputSpec`, `InputDelivered`, `Released`, `Answered`,
`StopsWhenLeft`, `AllSent`, `ClientsFinish`, `CallReturns`. Every safety invariant and
action property that a passing run checks is proved; those of `LogicSystem` for the
copies that have the lock, or the joins, the property needs (the others break it).
`TypeOK` of `SendQueue`, `ServerStop`, `SessionLifetime` and `CallbackSession`
is proved without a run of its own.

## What is not modelled

* Races inside one socket object (`Close` on the I/O thread beside `async_write`
  on the worker), and inside the unlocked map: undefined behaviour of the library.
* Negative lengths in the servers that do not slice: the coroutine server closes a session
  whose length is below -1, and gives a length of -1 to `async_read` as the largest of
  all sizes. What is written outside a node beyond the first bytes, and where.
* Exceptions of the JSON parser; running out of memory.
* Byte order and the layout of a sent frame: a frame is two pieces.
* The growth of the send queue of `AsyncServer` when a peer does not read: nothing
  bounds it, and the model assumes a peer that reads.
* `ReadAllCallBack` of `AsyncApi`: it is never bound to an operation.
* The parts of `end_point` that make endpoints, sockets and buffers, or bind an
  acceptor: single library calls that keep nothing.
* `Singleton`: `std::call_once` around a constructor.
* The generated code that no program of the repository calls: asynchronous, callback
  and streamed stubs of `Greeter`, descriptors, arenas, released and allocated strings.
  A varint of 64 bits read into an `int32`, which is cut to its low half.
* `jsoncpp_test` and `boost_test1`: one conversion each by a library.

## Plan

Built, in this order, the most important behaviour first: the logic layer and its
mailbox with the proofs; the output side with its abstract channel and the proofs;
the input side with the proofs; the lifetime of coroutine sessions; the callback
sessions; the stop of the servers with the proofs; then the sessions of `AsyncApi`, the
blocking programs and their peers, protobuf and the grpc call, and
the proofs about lifetime, answers and the order of `AsyncApi`; those about
the blocking programs, protobuf and the call, the stop of all three servers, and that the
callback servers implement `SessionOutput`; then signed lengths, exceptions, the port
that is taken, the end of the statics and lost connections, with the promises of the
comments as runs of their own.

Next:

1. An abstract input channel that `FrameReader` implements, stated and proved like
   `LogicMailbox` and `SessionOutput`.
2. Several sessions over one map and one logic layer: the order of replies of one
   session among those of others.
