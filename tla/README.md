# Verification of zrf

zrf is a header-only C++ library over ZeroMQ: asynchronous request/reply
(`AsyncClient.h`, `AsyncServer.h`), message streams (`RAWOutStream.h`,
`RAWInStream.h`), remote method invocation (`RMI.h`), and smaller pieces they
share or that stand beside them. This directory holds TLA+ models of its
components, TLC configurations that check them, and theorems that TLAPS proves
about them. `PROJECT.json` maps each definition to the lines it
models, and lists the runs, the mutants that show that each property can
fail, the hazards and the theorems.

    tlc -workers 2 -config client.cfg MCAsyncClient.tla
    tlapm AsyncClientProofs.tla

## 1. Inventory

| component | state | operations | hard because | must hold |
|---|---|---|---|---|
| `NewReqId` | one static `std::atomic` counter | increment, compare-and-exchange of 0 by 1, two more reads | four separate atomic accesses; 32 bits wrap | ids of calls that do not overlap differ; the null id is never drawn |
| `AsyncClient`, `Reply` | `requestQueue_`, `waitList_` (promises by id), `taskFuture_`, `stop_`, `status_` | `Send`, `SendNoReply`, `Reply::Get`, `Start`, `Stop`; worker `Execute` | sender, worker and owner meet in `waitList_`, which only two of them lock; promises may be fulfilled once only; `Stop` may give up | a future gets its own reply, or nothing after a `Stop`; no call is lost or left waiting |
| `AsyncServer` | `requestQueue_`, `replyQueue_`, `taskFutures_`, `stop_`, `status_` | `Start` (becomes the router), `Stop`; a pool of workers | workers share the queues; `Stop` comes from another thread; services throw | a request is executed and answered at most once, and not lost; after `Stop` nothing runs |
| `RAWOutStream` | `queue_`, `taskFuture_`, `stop_`, `status_` | `Send`, `Start`, `Stop`, destructor; a worker that publishes | `Stop` gives up after a timeout, then `Start` adds a second worker; what is queued survives a restart | fifo without loss across restarts; no worker survives the stream |
| `RAWInStream` | `queue_`, `taskFuture_`, `stop_`, `status_` (flags), `connectionInfo_` | `Start`, `Stop`, `Restart`, `Loop`, `LoopArgs`, destructor; a worker that receives | the worker sets `status_`, times out and calls `Stop` itself; `get()` on the one future from several places | messages in order and once; `Loop` ends after `Stop`; no worker survives the stream |
| `RMI.h`: `Service`, `ServiceManager`, `ServiceProxy` | `services_`, `serviceFutures_`, `status_` of each service, `stop_` of the manager | lookup, call, `Start`, `Stop`, `StopServices` | services start in new threads that set their status themselves | a call is executed at most once and answered; `StopServices` ends the services |
| `RMI.h`: `Method`, `MethodImpl`, buffers of a proxy | `methods_`, `recvBuf_`, `sendBuf_` | `Add`, `Invoke`, `Request`, `operator[]`, `ByteArrayWrapper` | a service is copied into the manager; a wrapper refers to a buffer that the next call overwrites; arguments that are not POD are sent as the memory of a tuple | a call gets the result of its own arguments, or the exception of its method |
| `utility.h`: transmission policies, ZMQ helpers | receive buffers | send and receive with or without size | the buffer follows the size of the last message | no message is cut off |
| `PushPull.h`: `Pusher`, `Puller` | sockets | `Push`, `Pull` | full pipes; sockets closed with messages in them | each message once, in order, to one puller; every puller ends |
| `PushPull.h`: `SyncClientServer` | a `Pusher` and a `Puller` | `SendRecv` with timeout, `Recv`, `RecvSend`, `Reset` | late replies; copies that own a socket | a reply belongs to its request; a call returns |
| `HandShake.h` | none | one request, one reply | blocking receives; sockets closed with requests in them | both sides learn each other's data |
| `Serialize.h` | none | `Pack`, `UnPack` for trivially copyable types, vectors, strings, maps, tuples | `UnPack` into a value that is not empty | `UnPack(Pack(x)) = x` |
| `inetaddress.h` | none | `SendAddress`, `ReceiveAddress` by datagrams | datagrams are lost, doubled, reordered | who returns true is known to the other side |

Outside the repository: ZeroMQ, and `SyncQueue` (a git submodule that is not
part of the tree). Their use in the headers determines how they are modelled.

**How they interact.** `AsyncClient` and `AsyncServer` are the two ends of one
protocol (DEALER and ROUTER sockets); each model has the other end as an
environment that receives requests, or sends them. The streams are PUB and SUB
sockets, with the network as environment. RMI is built of REQ and ROUTER
sockets of its own; it uses neither of the asynchronous classes. `Serialize.h`
and `utility.h` are used by all; `SyncClientServer` consists of a `Pusher` and
a `Puller`. The other exchanges do not interact.

## 2. Modules

    ReqIds <- ReqIdsHistory <- MCReqIdsHistory                ReqIdsProofs
    RemoteCall <- AsyncClient (INSTANCE ReqIds) <- MCAsyncClient    AsyncClientProofs
    AsyncServer <- MCAsyncServer                              AsyncServerProofs
    RAWOutStream <- MCRAWOutStream      (SequenceLemmas <-) RAWOutStreamProofs
    RAWInStream <- MCRAWInStream        (SequenceLemmas <-) RAWInStreamProofs
    RemoteCall <- RMI <- MCRMI                                RMIProofs
    PushPull, SyncClientServer, HandShake, AddressExchange,
    Archive (<- Serialization), RemoteMethods
                          <- MCExchanges  (SequenceLemmas <-) ExchangesProofs

Conventions that all models share:

- One action is one step of one thread that the others can observe: an access
  to a shared queue, map, flag or future, or a call of ZeroMQ. A thread's
  position is in a variable of its own (`pc`, `wpc`, `opc`, `lpc`, ...).
- `stop_` and `status_` are plain `bool`s and enumerations in the code. They
  are modelled as registers that are read and written in one step, which is
  what common builds do; strictly they are data races too.
- Unprotected use of a container or of a future by two threads at once
  (`waitList_`, `taskFutures_`, `taskFuture_`), and a pointer into a string
  that is being assigned to, set `ub` in an action `Corrupt` (or `Launch`),
  after which the model takes no step and promises nothing. `Corrupt` *may*
  happen where the accesses overlap, so the models also contain every
  behaviour in which the race did no harm.
- Assigning to a future of `std::async`, and destroying it, waits for its
  thread (`Join`, `Assign`, `Launch` of the server). `get()` on a future
  without a state throws.
- `SyncQueue`: `Push`, `PushFront`, `Pop` and `Empty` are indivisible, `Pop`
  blocks while the queue is empty.
- An exception in a worker ends it and stays in its future ("dead", "threw").
- Data are left out: a request stands for its reply and its promise, a message
  is its number in the order of sending.

**ReqIds** - `NewReqId()`: `Increment` (`++rid`), `Renumber` (the
compare-and-exchange), `AssertNotNull`, `Return`, each one access to the
atomic. `Modulus` is the number of values of the counter. **ReqIdsHistory**
adds which ids were returned before a call began.

**RemoteCall** - the abstract specification: a call is idle, sent, then
replied with its own reply, or released without one once a stop was requested.
It counts how often a request is executed, and executes it once at most. Both
models that implement it keep the requests that were executed and, in the
history variable `repeated`, those that were executed again.

**AsyncClient** - calls (`Begin`, `DrawId`, `Push`, `Register`, `Get`,
`Remove`), workers (`Connect`, `Loop`, `Poll`, `Deliver`, `Check`, `PopAndSend`,
`Close`, `ZmqFails`), the server (`Serve`, external) and the owner
(`StopBegin`, `StartBegin`, `Wait`, `UnlockNext`, `UnlockDone`, `Launch`,
`Join`). `Send()` draws an id, queues the request and then registers the
promise, in this order, each in a step. `fut` is the state of a promise with
its future: "ready" with a reply, "empty" after `Stop()`, "broken" when the
promise was dropped. `waitList` holds a call, nothing, or `Orphan`, a promise
that `waitList_[id]` has created on the spot for a reply that came too early.
`missed` is a history variable: the calls whose registration came after their
reply, or after a request to stop. `ZmqFails` is any failing call of ZeroMQ in a
worker; one of `zmq_send` comes after `Pop()` and loses the request.

**AsyncServer** - workers (`Pop`, `CheckStop`, `Serve`, `Reply`), the stopper
and the starter (`StopBegin`, `PushPill`, `Wait`), and the router inside
`Start()` (`StartBegin`, `Launch`, `Bind`, `Poll`, `Send`, `Close`,
`ZmqFails`). `VoidService` selects the worker for services that return void.

**RAWOutStream** - `Send`; the worker (`Open`, `Check`, `Pop`, `Publish`,
`Close`, `ZmqFails`); the owner's calls begin in `Call` and go through
`PushPill`, `Wait`, `Launch` and `Join`. `late` records that a `Stop()` gave up.

**RAWInStream** - the worker (`Connect`, `Check`, `Receive`, `TimeOut`,
`Throw`, `Close`, `Flag`, and its own `Stop()`: `WorkerStop`, `WorkerPushPill`,
`WorkerGet`), the consumer (`LoopBegin`, `LoopCheck`, `LoopPop`, `Callback`)
and the owner (`Call`, `StopBegin`, `PushPill`, `Get`, `Launch`, `Assign`,
`Join`, `Destroy`). `early` records that a call came between the launch of a
worker and its `status_ = STARTED`. Nobody enters `Loop()` once the destructor
runs.

**RMI** - proxies (`Lookup`, `Request`), the manager (`Start`, `Stop`, `Poll`,
`Find`, `Launch`, `Assign`, `Answer`, `StopServices`, `Join`) and the threads
of services (`Bind`, `Check`, `ServicePoll`, `Invoke`, `Reply`). When the
manager leaves its loop, `ZCleanup` may drop the lookups that have arrived.

**PushPull** - a pusher (`OpenPusher`, `Push`, `ClosePusher`), pullers
(`OpenPuller`, `Pull`, `ClosePuller`) and the network (`Carry`, external). Each
puller has a pipe with a limit at both ends; `ring` is the order in which pipes
have their turns, and a full one loses its turn. `sizeInfo` selects the
transmission policy: with sizes a buffer is made to fit (`Received`), without
them what does not fit is cut off; either way the buffer then has the size of
the message (`Resized`), which is how a puller sees that a message is empty.

**SyncClientServer** - a client (`CallSendRecv`, `CallRecv`, `ClientSend`,
`ClientRecv`, `ClientTimeOut`, `Reset`) and a server (`ServerRecv`,
`ServerSend`) over two channels. `late` counts the replies that a call has
given up waiting for. After `Reset()` the client is "dangling": its sockets
were closed by the destructors of the temporaries they were copied from.

**HandShake** - initiators (`Initiate`, `TakeReply`) and responders (`Respond`,
`TakeRequest`, `SendReply`, `CloseResponder`), of which one is bound at a time.
Data that are longer than the buffer are learnt as `Garbage`.

**AddressExchange** - `SendAddress` (`SayHello`, `HearEcho`), `ReceiveAddress`
(`BindPort`, `HearHello`, `Echo`, `ReturnAddress`) and a network that loses,
doubles and reorders datagrams.

**Serialization** - `Pack` and `UnPack` of each serializer as operators on
sequences of cells, and `UnPackTuple`; the loops of the code are recursive
functions. `IsValue` says what is a value of a type. **Archive** is a program that packs
values and unpacks them again, into new objects or into objects that it has
used before: `Held` is the reference definition of what these hold.

**RemoteMethods** - the methods of one service: `AddMethod`, `AddService` (the
copy that the manager takes), `Use` of a proxy, `Execute` or `Crash` in the
service, `EndCall`, and `Convert` of a `ByteArrayWrapper`. The arguments are
packed as one `std::tuple`: bytes if all are POD, else (`NotPod`, such as
`std::string`) the memory of objects, which refer to other memory. In the
process of the proxy, where `RMITest` has its service, the service reads the
arguments that the buffer of the proxy still holds; if it is `apart`, it reads
any arguments (`Wild`), throws, or crashes. Threads and sockets are those of
module `RMI`.

**MCExchanges** composes the last six as alternatives: a behaviour exercises
one of them while the others stay in their initial states.

Definitions under a comment `Mutant:` are no part of a specification. Each is
the definition after it, changed as a bug would change it; put in its place it
makes the property that `PROJECT.json` names fail.

## 3. Runs

| run | bounds | checks |
|---|---|---|
| `ids` | 3 threads, 5 values, 7 increments | `ZeroIsTransient`, `OnlyOverlappingCallsShareIds` |
| `client` | 2 calls of one thread with drawn ids, 1 without reply, 2 starts, 1 stop, ZMQ may fail | `ReplyMatches`, `EntriesAreKept`, `EntriesMatchCalls`, `PendingIsUnderWay`, `StopReleases`, `DeliverNeverThrows`, refinement of `RemoteCall` |
| `client_live` | 2 threads that draw ids concurrently, 1 worker, fairness | `RepliesAreNotShared`, `FuturesBecomeReady`, `StopEndsWorkers` |
| `server` | 4 requests (one without reply, one for which the service throws), 2 workers, 2 starts, 1 stop, ZMQ may fail, fairness | `AnsweredAtMostOnce`, `QuietAfterStop`, `NothingIsLost`, `RequestsAreAnswered`, `StartReturns`, `StopUnlocksWorker` |
| `out_stream` | 3 messages, 3 workers, 3 stops that may give up, ZMQ may fail, fairness | `NoWorkerOutlivesStream`, `OneWorker`, `FifoOrder`, `SentIsPublished` |
| `in_stream` | 2 messages, 2 workers, 2 calls and the destructor, 2 loops, exceptions, fairness | `OneReceiver`, `NoWorkerOutlivesStream`, `HandedInOrder`, `StopUnlocksLoop`, `StopEndsWorkers` |
| `rmi` | 1 service, 3 proxies (one asks in vain), 2 calls each, 2 threads of the service, 2 starts, binding may fail, fairness | `NoServiceAfterStop`, refinement of `RemoteCall`, `CallsAreAnswered`, `StopServicesReturns` |
| `exchanges` | `PushPull`: 2 pullers, 3 messages of sizes 2, 1, 2 and the end messages, pipes of 1, buffers of 2, both policies | `PulledAsPushed`, `EveryPullerEnds` |
| | `SyncClientServer`: 6 requests, 5 timeouts, channels of 2 | `OwnReplyUnlessLate`, `CallReturns` |
| | `HandShake`: 3 initiators (one with data that do not fit), 2 responders | `PartnersAgree`, `ShakeEnds` |
| | `AddressExchange`: 3 hosts, 2 receivers | `TrueMeansKnown` |
| | `Archive`: 8 values of the 5 types, up to 3 in an archive | `UnpackedIsPacked` |
| | `RemoteMethods`: 5 methods (with POD arguments, with others, with none, void, one that throws), 2 uses, the service in the same process or in another one | `ResultIsOwn` |

The type invariants are theorems (section 4) of the modules with threads; the
runs do not repeat them.

Why the bounds are enough: every race in these classes is between two threads
of a kind, or two calls, and a third actor; the instances have two or three of
each. Two starts are needed to meet a worker of an earlier `Start()`, two
calls to confuse their replies, two messages to reorder. The counter of ids is
taken past its wrap around. The client of `SyncClientServer` has as many
requests and timeouts as it takes to fill both channels and the server's hand,
which is when both sides block. Pipes of one message at each end are full with
three messages and two pullers. Three values in an archive are two uses of an
object and a value after it. No queue has a limit in the code; the pipes of
ZeroMQ have one, and matter only where an end message may lose its turn. Deadlock is not
checked: the programs may end, and several of the classes do block for ever in
some behaviours, as their configurations say; what must not block is stated as
liveness.

Four more runs show where a comment of the code promises what the code does
not do. Each checks one property and finds it violated:

- `client_early_reply`: `ReceivedReplyIsSet`. `Send()` queues the request before
  it registers the promise (`AsyncClient.h:100`). A reply that arrives in
  between fulfils a promise made on the spot, which the registration replaces,
  and the future waits until `Stop()`.
- `client_two_threads`: `ReplyMatches`. `NewReqId()` reads the counter again
  when it returns (`AsyncClient.h:72`); two threads can draw the same id.
- `server_void`: `RequestsAreAnswered`. The condition at `AsyncServer.h:163`
  is the opposite of the comment above it.
- `in_loop_stuck`: `LoopReturnsOnStop`. A worker that times out sets STOPPED and
  then calls `Stop()` (`RAWInStream.h:194-196`), which for that very reason
  returns at once (`RAWInStream.h:97`) and queues nothing. In the trace `Loop()`
  waits in `Pop()`, the user calls `Stop()`, which returns in the same way, and
  `Loop()` stays there, though a comment says that it always returns then
  (`RAWInStream.h:120-121`).

The properties that pass have premises where the code does less than one would
like. They are worth reading as descriptions of the code: a `Stop()` that
meets a promise that is fulfilled already throws, and leaves the rest
(`StopReleases` speaks of a `Stop()` that returned true); `Stop()` of a server
wakes one worker, and the others stay in `Pop()` (`StopUnlocksWorker`); a
stream leaves what is queued unpublished when it is stopped (`FifoOrder` counts
it as queued); a service that is just starting overwrites the request to stop
it (`StopServicesReturns` excludes it); a manager may start a service twice; a
reply that comes after its timeout is taken for the next one
(`OwnReplyUnlessLate`); an end message that finds a full pipe goes to another
puller (`EveryPullerEnds`); arguments that are not POD mean nothing to a service
in another process (`ResultIsOwn` excludes them); a responder drops the other requests it has been
carried (`ShakeEnds`); a vector that is unpacked twice holds both values, and a
map the first (`Held`).

**Fairness.** Weak fairness for each thread, on the disjunction of its steps:
threads run, services and callbacks return, a receive ends with a message or
with its timeout, and, for the client, the server answers. In `exchanges` the
network carries messages, and each side goes on with a call it has begun; the
network of `AddressExchange`, which may lose datagrams, has none, and there is
no liveness there. There is none for
calls of the API, for clients to send requests, for failures, and for
`Corrupt`. No run needs strong fairness: `SyncQueue` wakes one of the waiting
workers, and the models only ask that some worker that can pop does.

## 4. Proofs

The theorems hold for every value of the constants that satisfies the named
assumptions (`ClientAssumption`, `ModulusAssumption`, ...): any number of
calls, threads, workers, services, messages, starts, stops and id values. All
invariants and action properties that the passing runs check are proved, and
both refinements of `RemoteCall`.

**ReqIdsProofs.** `IdTypeCorrect` and `ZeroIsTransientCorrect` by induction,
for any number of threads. `AssertHoldsAlone` and `SequentialIdsAlone` assume a
single caller, with an invariant that gives the counter at each step from the
last id returned: the assertion never fails, and the ids are 1, 2, ...,
Modulus - 1, 1, ... (with two threads the assertion can fail: the counter may be
0 when another thread is before its `Renumber`). `OverlapCorrect`: before the
wrap around the counter equals the number of increments, every id returned is
at most the counter, and less than the counter for a call that began after it
was returned and has done its own increment.

**AsyncClientProofs.** `TypeCorrect` and `RepliesAreNotSharedCorrect` need no
assumption on ids; `OnceInv` says that a request is in one place at a time
(queue, socket, or executed), so that none is executed again
(`repeated = {}`), that a reply comes from an execution and is in
one place too, or held by one call. `ReplyMatchesCorrect`,
`EntriesAreKeptCorrect` and `RemoteCallsCorrect` assume that the ids given to
`Send` are distinct. `ClientInv` adds to `OnceInv` that an entry of `waitList`
belongs to a registered call with that id, and a registered call has its entry;
that no promise is broken, and one that is set holds the call's own reply. With
it a reply finds its own promise or none (`OwnReply`), and the refinement
follows step by step: `Push` maps to sending, `Serve` to the execution,
`Deliver` to the reply, `UnlockNext` to a release, `StopBegin` to the request to
stop, every other step to a stutter. Ids that `NewReqId()`
draws are distinct when one thread sends: `SequentialIdsAlone` proves it short
of a wrap around, and run `client` has such a thread.

`EntriesMatchCallsCorrect`, `PendingIsUnderWayCorrect`, `StopReleasesCorrect`
and `DeliverNeverThrowsCorrect` rest on `WaitInv`, under the same assumption.
One worker at a time runs, apart from the one that a new worker's owner waits
for, and `stop_` is never reset (`OneAtATime`); so when the loop of `Stop()`
runs no worker is left (`NobodyWorks`), and nobody hands on a reply once a call
has been released (`Released`). A reply in hand then finds its own promise
unfulfilled, or none because its call has still to register (`DeliverWhat`);
in the second case the call is known as late when it registers (`Early`,
`UnderWay`). The loop goes through the ids in order, and has passed no promise
that waits and is not late (`Visited`).

**AsyncServerProofs.** `QuietAfterStopCorrect`: a `Stop()` returns true when the
workers it has found are finished, and those that are launched later find
`stop_`, which nothing resets. It speaks of workers: the router may still send
a reply that was queued before. `AnsweredAtMostOnceCorrect` from `OnePlace`: a
request that was received is in the request queue, or in the hands of one
worker, or in the reply queue, or sent, and the counts of executions and
replies are those of that place. `NothingIsLostCorrect` adds that the router
runs while a request is received, and that a worker holds an empty message only
after a request to stop (`PillMeansStop`), so that none leaves with a request.

**RAWOutStreamProofs.** The owner is one thread: `OwnerKnows` says what it is
about to do in each state, `OneByOne` that at most the last two workers are
alive, and two only while `Start()` waits in the assignment to the future
(`Join`). Hence `NoWorkerOutlivesStreamCorrect`. Without a timeout of `Stop()`
(`late`) only the last one is alive (`LastWorkerOnly`), which gives
`OneWorkerCorrect`, and with that `published`, the message in hand and `queue`
are one ascending sequence (`Ordered`) that misses nothing (`Complete`):
`FifoOrderCorrect`. **SequenceLemmas** holds the lemmas about appending to,
and taking from, an ascending sequence of messages among empty ones, and those
about recursive functions.

**RAWInStreamProofs.** `Owned`: a worker that is alive is the one of `future`, or
one that the owner is just starting, or just waiting for: hence
`NoWorkerOutlivesStreamCorrect`. Unless a call came too early (`early`), at most
one worker is between its connection and its last receive, and it is STARTED
and not STOPPED there (`OneActive`): `OneReceiverCorrect`. With one receiver the
messages handed over, the one in the consumer's hands and those in the queue are
ascending and below what workers have received (`Ordered`):
`HandedInOrderCorrect`.

**RMIProofs.** `Owned` says that an instance of a service that is alive is the
one in the map of futures, or the one that the manager is just starting, and
that the instances of a service that `StopServices()` has joined are dead:
`NoServiceAfterStopCorrect`. `OneLookup` says that a proxy that
looks a service up is once in the manager's queue or in its hands, `OneRequest`
that one that waits is once in the queue of its service or in the hands of one
instance, and that its call is executed exactly when that instance is about to
reply. So no call is executed twice (`NotRepeatedStep`). `RemoteCallsCorrect` maps `Request` to sending, `Invoke` to the
execution, `Reply` to the reply, and every other step to a stutter.

**ExchangesProofs.** `TrueMeansKnownCorrect`: an echo exists only for an address
that some receiver returns (`EchoMeansKnown`), whatever the network does.
`PartnersAgreeCorrect`: a request is in its initiator's socket, in the
responder's, or taken by one responder (`OneResponder`), whose reply it gets
(`RepliesMatch`). `OwnReplyUnlessLateCorrect`: from the newest request that the
server has not received to the oldest reply that the client has not, the numbers
are consecutive (`InTurn`), and as many as the client has given up on
(`Counted`). `ResultIsOwnCorrect` from `MethodsInv`: a reply is that of the call
that waits for it, computed from its arguments, which the buffer of the proxy
holds until the next call (so also those that are not POD, in one process), and
the buffer of results holds the result of the last call while a
wrapper refers to it (`Referring`). `PulledAsPushedCorrect`: a message is in one
of the pipes, or pulled, of one puller (`OnePuller`), and none overtakes another
there (`InLine`); the buffer has the size of the last message (`Fitted`).

`UnpackedIsPackedCorrect`, for any values of the types, of any length, and any
number of them. The prover has no induction over data, and cannot instantiate
the library's theorems about recursive functions; `Induction` speaks of sets of
numbers instead (from `LeastNumber`, the library's theorem that `<` on `Nat` is
well-founded), which suffices to show that a function defined by recursion over
`0 .. n` exists (`RecursionExists`) and that two which make the same steps are
equal (`SameSteps`). What a serializer writes is then known step by step
(`PackVectorSteps`, `PackMapSteps`), and each one reads back what it wrote, from
any array that begins with it, and returns the position after it
(`PODCorrect`, `StringCorrect`, `VectorCorrect`, `MapCorrect`, together
`PackCorrect`): `Join` says what the object holds that was read into. For a map
that rests on `Keys`, which enumerate its domain (`EnumerationExists`,
`KeysEnumerate`). `ArchiveInv` says that the array is what `PackAll` makes of the
values packed, that `iter` is where the next one begins in it, that the last
object that was new holds the last value, and that each used object holds what
`Holds` says of the values read into it: a step reads the next value
(`ReadsNext`), and `Holds` of one value more is `Join` (`HoldsOneMore`, with
`FlattenOneMore` for vectors and `FirstEntriesOneMore` for maps).

**What liveness rests on.** That something happens in the end needs fairness and
ENABLED, and stays with TLC. What has to be true in each state for the fair
steps to bring it about is safety, and is proved; no run checks these
statements, which are defined beside their theorems.

- *A step is possible.* `PopDoesNotBlockCorrect`: the worker of a client that was
  started once finds a request when it calls `Pop()` (two workers, which a second
  `Start()` before the first worker has set STARTED can make, may take it from
  each other). `StopReachesWorkerCorrect`: while `AsyncServer::Stop()` waits,
  `stop_` is set and the empty element is queued until a worker has popped one.
  `OwnerGoesOnCorrect` and `WorkerIsThereCorrect`, from `Lifecycle`: a `Stop()`
  of a RAWOutStream that waits has put an element where its worker may block, and
  a stream that reads STARTED has a worker that nothing stops. For a RAWInStream
  `LoopIsUnlockedCorrect` says the same of `Loop()`, and `NobodyWaitsInVainCorrect`
  that the owner and workers that stop by themselves do not wait for each other
  (for the future that the destructor and `Start()` take, `Owned` says that the
  worker of an earlier start exists). `NeverStuckCorrect`: in a call of
  `SendRecv` one of the two threads can go on unless both channels are full.
- *Nothing is lost.* `CallIsUnderwayCorrect`: until the first stop of the services
  the request of a waiting proxy is in its service's socket or in the hands of a
  thread, and threads in their loop stay there. `WaitersAreKeptCorrect`: the same
  of an initiator of a handshake, or the responder that dropped it has answered
  another. `EveryoneIsServedCorrect`, from `RingInv`: once the empty messages are
  dealt, pullers that have none come before those that have one in the order of
  turns, and there are as many empty messages left as pullers without one
  (`Dealing`), so that the last one to be dealt leaves nobody out.
- *It does not go on for ever.* `CallEndsCorrect`, `StopWindsDownCorrect` and
  `WindsDownCorrect` give a number of steps that is left to a call of
  `SendRecv`, to a worker of a client after a request to stop (six at most), and to a thread
  of a service after `StopServices()`, and every step makes it smaller.

**Only model-checked.** Liveness itself, and the properties that runs find
violated.

## 5. Not modelled, and why

- Destruction of an object that other threads still use, moves, and `Start()`
  or `Stop()` of a stream from several threads: the code has no protection
  there, and promises nothing.
- `AsyncServer::SyncRecv`, which takes requests beside the workers, its
  destructor, and `Recv(Msg)` and `Send(Msg)`, which do not compile when they
  are used.
- RMI: failures of ZeroMQ calls other than `zmq_bind`, `Add()` while the
  manager runs, the destructors; results that are not packed by a serializer of
  their own, such as tuples of strings.
- Several clients of one `SyncClientServer` (the one connection of its
  constructor makes them share replies), a `Pusher` that connects to a
  `Puller`, peers with different transmission policies.
- `Serialize.h`: `Pack` at an iterator, which compiles for some types only;
  tuples as values, whose memory is copied (`UnPackTuple` is modelled); the
  sizes of cells in bytes.
- `inetaddress.h`: `PeerAddress` and `LocalAddress`, one system call each.
- `utility.h` beyond the transmission policies: error checks and templates.
- The tests and build files: read for how the library is used.

## 6. What is left

1. `AsyncRPC`: `AsyncClient` and `AsyncServer` composed, in place of the
   environment action `Serve`, as a refinement of `RemoteCall`.
2. `SyncRecv` as a second consumer of the server's request queue.
