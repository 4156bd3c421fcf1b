----------------------------- MODULE AsyncClient -----------------------------
(***************************************************************************)
(* AsyncClient.h: the client half of the asynchronous request/reply        *)
(* layer.                                                                  *)
(*                                                                         *)
(* Three kinds of thread meet in an AsyncClient:                           *)
(*   - calls: Send() queues a request and then puts a promise into         *)
(*     waitList_ under the request's id; Reply::Get() waits for the        *)
(*     promise and then removes it.  SendNoReply() only queues;            *)
(*   - the worker started by Start(): it sends what is queued and fulfils  *)
(*     the promise of every reply it receives;                             *)
(*   - the owner, which calls Start() and Stop().                          *)
(* waitListMutex_ protects waitList_ in Send and Remove only.  The worker  *)
(* and Stop() use it unlocked: where they meet a locked user, or each      *)
(* other, the program has a data race, after which nothing is promised     *)
(* ("ub").                                                                 *)
(*                                                                         *)
(* A call stands for its request, its reply and its promise at once.       *)
(***************************************************************************)
EXTENDS Integers, Sequences

CONSTANTS
  Calls,          \* calls of Send or SendNoReply, each done at most once
  NoReply,        \* those of SendNoReply
  ThreadOf,       \* the thread of each call; a thread is in one Send at a time
  GivenId,        \* the id passed to Send, NullReqId to draw one
  Modulus,        \* number of values of a ReqId
  Absent,         \* no entry in waitList_, no call in hand
  Orphan,         \* a promise nobody has the future of
  MaxStarts,      \* bound: workers started in a behaviour
  MaxStops,       \* bound: Stop() calls of the owner in a behaviour
  ZmqMayFail      \* whether a call of the ZMQ library may return an error

VARIABLES
  rid, idpc, ids, \* NewReqId (module ReqIds); ids[c] is the id of call c
  pc,             \* where each call is
  fut,            \* the future of each call, as far as its promise is concerned
  got,            \* the replies with which that promise was fulfilled
  waitList,       \* waitList_: for each id the call whose promise it holds
  requestQueue,   \* requestQueue_
  wire,           \* requests on their way to the server, for each worker's socket
  inbox,          \* replies arrived at each worker's socket
  executed,       \* requests the server has executed
  repeated,       \* history: those it has executed again
  wpc, hand,      \* where each worker is, and the reply it has just received
  stop, status,   \* stop_, status_
  opc, cont,      \* where the owner is, and what it does after a Stop
  cursor,         \* the last id visited by Stop's loop over waitList_
  task,           \* the worker of taskFuture_, 0 when it has no shared state
  starts, stops,  \* workers started and Stop() calls so far
  last,           \* how the last Stop ended
  ub,             \* the program has run into undefined behaviour
  missed          \* history: calls that registered too late, see Register

INSTANCE ReqIds WITH Callers <- Calls

idState    == <<rid, idpc, ids>>
callVars   == <<idState, pc, fut, got>>
workerVars == <<wpc, hand>>
netVars    == <<wire, inbox, executed, repeated>>
ownerVars  == <<opc, cont, cursor, task, starts, stops, last>>
vars == <<callVars, waitList, requestQueue, netVars, workerVars, stop, status,
          ownerVars, ub, missed>>

Workers == 1 .. MaxStarts

ASSUME ClientAssumption ==
  /\ Modulus \in Nat /\ Modulus > 2
  /\ Calls # {} /\ NoReply \subseteq Calls
  /\ GivenId \in [Calls -> ReqId]
  /\ Absent \notin Calls /\ Orphan \notin Calls /\ Absent # Orphan
  /\ MaxStarts \in Nat /\ MaxStops \in Nat /\ ZmqMayFail \in BOOLEAN

CallSteps == {"idle", "newid", "push", "register", "waiting", "remove",
              "done", "broken", "notfound"}
FutureStates == {"none", "pending", "ready", "empty", "broken"}
WorkerSteps == {"unborn", "init", "loop", "poll", "deliver", "check", "pop",
                "closing", "dead", "ended"}
OwnerSteps == {"idle", "wait", "unlock", "launch", "join"}

TypeOK ==
  /\ IdTypeOK
  /\ pc \in [Calls -> CallSteps]
  /\ fut \in [Calls -> FutureStates]
  /\ got \in [Calls -> SUBSET Calls]
  /\ waitList \in [ReqId -> Calls \cup {Absent, Orphan}]
  /\ requestQueue \in Seq(Calls)
  /\ wire \in [Workers -> SUBSET Calls]
  /\ inbox \in [Workers -> SUBSET Calls]
  /\ executed \subseteq Calls /\ repeated \subseteq Calls
  /\ wpc \in [Workers -> WorkerSteps]
  /\ hand \in [Workers -> Calls \cup {Absent}]
  /\ stop \in BOOLEAN
  /\ status \in {"STARTED", "STOPPED"}
  /\ opc \in OwnerSteps
  /\ cont \in {"stop", "start"}
  /\ cursor \in ReqId
  /\ task \in 0 .. MaxStarts
  /\ starts \in 0 .. MaxStarts
  /\ stops \in 0 .. MaxStops
  /\ last \in {"none", "invalid", "ok", "timeout", "threw"}
  /\ ub \in BOOLEAN
  /\ missed \subseteq Calls

Init ==
  /\ IdInit
  /\ pc = [c \in Calls |-> "idle"]
  /\ fut = [c \in Calls |-> "none"]
  /\ got = [c \in Calls |-> {}]
  /\ waitList = [i \in ReqId |-> Absent]
  /\ requestQueue = <<>>
  /\ wire = [g \in Workers |-> {}]
  /\ inbox = [g \in Workers |-> {}]
  /\ executed = {} /\ repeated = {}
  /\ wpc = [g \in Workers |-> "unborn"]
  /\ hand = [g \in Workers |-> Absent]
  /\ stop = FALSE
  /\ status = "STOPPED"
  /\ opc = "idle" /\ cont = "stop" /\ cursor = 0 /\ task = 0
  /\ starts = 0 /\ stops = 0 /\ last = "none"
  /\ ub = FALSE
  /\ missed = {}

-----------------------------------------------------------------------------
(* Calls: Send, SendNoReply, Reply::Get *)

CallStep(c, from, to) ==
  /\ pc[c] = from
  /\ pc' = [pc EXCEPT ![c] = to]
  /\ UNCHANGED <<netVars, workerVars, stop, status, ownerVars, ub>>

InSend == {"newid", "push", "register"}

\* Send or SendNoReply is called: the id is 0, given or still to be drawn.
Begin(c) ==
  /\ \A d \in Calls : ThreadOf[d] = ThreadOf[c] => pc[d] \notin InSend
  /\ \/ /\ c \in NoReply \/ GivenId[c] # NullReqId
        /\ CallStep(c, "idle", "push")
        /\ ids' = [ids EXCEPT ![c] = IF c \in NoReply THEN NullReqId
                                                       ELSE GivenId[c]]
        /\ UNCHANGED <<rid, idpc>>
     \/ /\ c \notin NoReply /\ GivenId[c] = NullReqId
        /\ CallStep(c, "idle", "newid")
        /\ Enter(c)
  /\ UNCHANGED <<fut, got, waitList, requestQueue, missed>>

\* A step inside NewReqId; its return statement leads on to the push.
DrawId(c) ==
  /\ CallStep(c, "newid", IF idpc[c] = "return" THEN "push" ELSE "newid")
  /\ Increment(c) \/ Renumber(c) \/ AssertNotNull(c) \/ Return(c)
  /\ UNCHANGED <<fut, got, waitList, requestQueue, missed>>

\* requestQueue_.Push(nb): from here on the request can be sent and answered.
Push(c) ==
  /\ CallStep(c, "push", IF c \in NoReply THEN "done" ELSE "register")
  /\ requestQueue' = Append(requestQueue, c)
  /\ UNCHANGED <<idState, fut, got, waitList, missed>>

\* A promise that is dropped unfulfilled breaks its future.
Break(futures, d) ==
  IF d \in Calls /\ futures[d] = "pending"
  THEN [futures EXCEPT ![d] = "broken"] ELSE futures

\* The server has answered c, and the worker has dealt with the answer.
AnswerSpent(c) ==
  /\ c \in executed
  /\ \A g \in Workers : c \notin inbox[g] /\ c # hand[g]

\* waitList_[rid] = std::move(p) and get_future(), under the mutex.  The
\* history variable notes the calls whose answer came before the promise,
\* and those that come when the worker has been told to stop.
Register(c) ==
  /\ CallStep(c, "register", "waiting")
  /\ fut' = [Break(fut, waitList[ids[c]]) EXCEPT ![c] = "pending"]
  /\ waitList' = [waitList EXCEPT ![ids[c]] = c]
  /\ missed' = IF stop \/ AnswerSpent(c) THEN missed \cup {c} ELSE missed
  /\ UNCHANGED <<idState, got, requestQueue>>

\* Mutant: the entry is not removed when the reply is fetched.
GetOnly(c) ==
  /\ fut[c] \in {"ready", "empty", "broken"}
  /\ CallStep(c, "waiting", IF fut[c] = "broken" THEN "broken" ELSE "done")
  /\ UNCHANGED <<idState, fut, got, waitList, requestQueue, missed>>

\* repFuture_.get() returns, or throws when the promise was broken.
Get(c) ==
  /\ fut[c] \in {"ready", "empty", "broken"}
  /\ CallStep(c, "waiting", IF fut[c] = "broken" THEN "broken" ELSE "remove")
  /\ UNCHANGED <<idState, fut, got, waitList, requestQueue, missed>>

\* Mutant: the map is not looked up by id.
RemoveAll(c) ==
  /\ CallStep(c, "remove", IF waitList[ids[c]] = Absent
                           THEN "notfound" ELSE "done")
  /\ waitList' = [i \in ReqId |-> Absent]
  /\ fut' = [d \in Calls |->
               IF \E i \in ReqId : waitList[i] = d /\ fut[d] = "pending"
               THEN "broken" ELSE fut[d]]
  /\ UNCHANGED <<idState, got, requestQueue, missed>>

\* Remove(rid_), under the mutex: logic_error when there is no entry.
Remove(c) ==
  /\ CallStep(c, "remove", IF waitList[ids[c]] = Absent
                           THEN "notfound" ELSE "done")
  /\ waitList' = [waitList EXCEPT ![ids[c]] = Absent]
  /\ fut' = Break(fut, waitList[ids[c]])
  /\ UNCHANGED <<idState, got, requestQueue, missed>>

-----------------------------------------------------------------------------
(* The worker: Execute *)

WorkerStep(g, from, to) ==
  /\ wpc[g] = from
  /\ wpc' = [wpc EXCEPT ![g] = to]
  /\ UNCHANGED <<idState, pc, stop, ownerVars, ub, missed>>

\* Mutant: the worker resets stop_ when it starts.
ConnectResetsStop(g) ==
  /\ wpc[g] = "init"
  /\ wpc' = [wpc EXCEPT ![g] = "loop"]
  /\ status' = "STARTED"
  /\ stop' = FALSE
  /\ UNCHANGED <<callVars, waitList, requestQueue, netVars, hand, ownerVars, ub,
                 missed>>

\* CreateZMQContextAndSocket and status_ = STARTED.
Connect(g) ==
  /\ WorkerStep(g, "init", "loop")
  /\ status' = "STARTED"
  /\ UNCHANGED <<fut, got, waitList, requestQueue, netVars, hand>>

\* A ZMQ call fails: the exception ends the worker and stays in taskFuture_.
\* A request that could not be sent has left the queue.
ZmqFails(g) ==
  /\ ZmqMayFail
  /\ \/ /\ wpc[g] \in {"init", "poll"}
        /\ UNCHANGED requestQueue
     \/ /\ wpc[g] = "pop" /\ requestQueue # <<>>
        /\ requestQueue' = Tail(requestQueue)
  /\ WorkerStep(g, wpc[g], "dead")
  /\ UNCHANGED <<fut, got, waitList, netVars, hand, status>>

\* while(!stop_)
Loop(g) ==
  /\ WorkerStep(g, "loop", IF stop THEN "closing" ELSE "poll")
  /\ UNCHANGED <<fut, got, waitList, requestQueue, netVars, hand, status>>

\* Mutant: zmq_poll waits until there is a reply.
PollBlocks(g) ==
  /\ WorkerStep(g, "poll", "deliver")
  /\ \E c \in inbox[g] : /\ hand' = [hand EXCEPT ![g] = c]
                         /\ inbox' = [inbox EXCEPT ![g] = @ \ {c}]
  /\ UNCHANGED <<fut, got, waitList, requestQueue, wire, executed, repeated, status>>

\* Mutant: the reply that is received stays with the socket.
PollPeeks(g) ==
  /\ \/ WorkerStep(g, "poll", "check") /\ UNCHANGED hand
     \/ WorkerStep(g, "poll", "deliver")
        /\ \E c \in inbox[g] : hand' = [hand EXCEPT ![g] = c]
  /\ UNCHANGED <<fut, got, waitList, requestQueue, netVars, status>>

\* zmq_poll and, if there is a reply, ReceiveBuffer.
Poll(g) ==
  /\ \/ /\ inbox[g] = {}
        /\ WorkerStep(g, "poll", "check")
        /\ UNCHANGED <<inbox, hand>>
     \/ /\ WorkerStep(g, "poll", "deliver")
        /\ \E c \in inbox[g] : /\ hand' = [hand EXCEPT ![g] = c]
                               /\ inbox' = [inbox EXCEPT ![g] = @ \ {c}]
  /\ UNCHANGED <<fut, got, waitList, requestQueue, wire, executed, repeated, status>>

\* The entry of an id holds a promise that can still be fulfilled.
Awaited(i) == waitList[i] \in Calls /\ fut[waitList[i]] \notin {"ready", "empty"}

\* Mutant: the worker answers the request that waits longest.
DeliverInOrder(g) ==
  LET c == hand[g] IN
  /\ wpc[g] = "deliver" /\ waitList[ids[c]] \in Calls
  /\ \E d \in {e \in Calls : fut[e] = "pending"} :
       /\ WorkerStep(g, "deliver", "check")
       /\ fut' = [fut EXCEPT ![d] = "ready"]
       /\ got' = [got EXCEPT ![d] = @ \cup {c}]
  /\ hand' = [hand EXCEPT ![g] = Absent]
  /\ UNCHANGED <<waitList, requestQueue, netVars, status>>

\* A reply to the null id is dropped; waitList_[id].set_value(reply) fulfils
\* the promise of the id, throws if that is fulfilled, and creates a promise
\* without a future if the id has none.
Deliver(g) ==
  LET c == hand[g]
      d == waitList[ids[c]]
  IN
  /\ wpc[g] = "deliver"
  /\ \/ /\ ids[c] = NullReqId
        /\ WorkerStep(g, "deliver", "loop")
        /\ UNCHANGED <<fut, got, waitList>>
     \/ /\ ids[c] # NullReqId /\ Awaited(ids[c])
        /\ WorkerStep(g, "deliver", "check")
        /\ fut' = [fut EXCEPT ![d] = "ready"]
        /\ got' = [got EXCEPT ![d] = @ \cup {c}]
        /\ UNCHANGED waitList
     \/ /\ ids[c] # NullReqId /\ d = Absent
        /\ WorkerStep(g, "deliver", "check")
        /\ waitList' = [waitList EXCEPT ![ids[c]] = Orphan]
        /\ UNCHANGED <<fut, got>>
     \/ /\ ids[c] # NullReqId /\ d # Absent /\ ~Awaited(ids[c])
        /\ WorkerStep(g, "deliver", "dead")
        /\ UNCHANGED <<fut, got, waitList>>
  /\ hand' = [hand EXCEPT ![g] = Absent]
  /\ UNCHANGED <<requestQueue, netVars, status>>

\* if(requestQueue_.Empty()) continue
Check(g) ==
  /\ WorkerStep(g, "check", IF requestQueue = <<>> THEN "loop" ELSE "pop")
  /\ UNCHANGED <<fut, got, waitList, requestQueue, netVars, hand, status>>

\* Mutant: one request is sent and the others are forgotten.
PopAndClear(g) ==
  /\ requestQueue # <<>>
  /\ WorkerStep(g, "pop", "loop")
  /\ requestQueue' = <<>>
  /\ wire' = [wire EXCEPT ![g] = @ \cup {Head(requestQueue)}]
  /\ UNCHANGED <<fut, got, waitList, inbox, executed, repeated, hand,
                 status>>

\* SendBuffer(s, requestQueue_.Pop()); Pop blocks while the queue is empty.
PopAndSend(g) ==
  /\ requestQueue # <<>>
  /\ WorkerStep(g, "pop", "loop")
  /\ requestQueue' = Tail(requestQueue)
  /\ wire' = [wire EXCEPT ![g] = @ \cup {Head(requestQueue)}]
  /\ UNCHANGED <<fut, got, waitList, inbox, executed, repeated, hand,
                 status>>

\* CleanupZMQResources and status_ = STOPPED: the socket's messages are gone.
Close(g) ==
  /\ WorkerStep(g, "closing", "ended")
  /\ status' = "STOPPED"
  /\ UNCHANGED <<fut, got, waitList, requestQueue, netVars, hand>>

\* The server (outside): answers a request, or none of SendNoReply.
Serve(g, c) ==
  /\ c \in wire[g]
  /\ wire' = [wire EXCEPT ![g] = @ \ {c}]
  /\ executed' = executed \cup {c}
  /\ repeated' = IF c \in executed THEN repeated \cup {c} ELSE repeated
  /\ \/ inbox' = [inbox EXCEPT ![g] = @ \cup {c}]
     \/ c \in NoReply /\ UNCHANGED inbox
  /\ UNCHANGED <<callVars, waitList, requestQueue, workerVars, stop, status,
                 ownerVars, ub, missed>>

-----------------------------------------------------------------------------
(* The owner: Start and Stop *)

Finished(g) == wpc[g] \in {"dead", "ended"}

OwnerStep(from, to) ==
  /\ opc = from
  /\ opc' = to
  /\ UNCHANGED <<callVars, requestQueue, netVars, hand, status, ub, missed>>

\* Mutant: stop_ is not set.
StopOnlyWaits ==
  /\ stops < MaxStops
  /\ stops' = stops + 1
  /\ cont' = "stop"
  /\ task # 0 /\ OwnerStep("idle", "wait")
  /\ UNCHANGED <<waitList, wpc, stop, cursor, task, starts, last>>

\* Stop(): stop_ = true, and wait_for on taskFuture_, which throws if no
\* worker was ever started.  Start() stops a client that is started.
StopBegin ==
  /\ stops < MaxStops
  /\ stop' = TRUE
  /\ stops' = stops + 1
  /\ cont' = "stop"
  /\ \/ task = 0 /\ OwnerStep("idle", "idle") /\ last' = "invalid"
     \/ task # 0 /\ OwnerStep("idle", "wait") /\ UNCHANGED last
  /\ UNCHANGED <<waitList, wpc, cursor, task, starts>>

StartBegin ==
  /\ starts < MaxStarts
  /\ cont' = "start"
  /\ \/ status = "STARTED" /\ OwnerStep("idle", "wait") /\ stop' = TRUE
     \/ status = "STOPPED" /\ OwnerStep("idle", "launch") /\ UNCHANGED stop
  /\ UNCHANGED <<waitList, wpc, cursor, task, starts, stops, last>>

\* wait_for: the worker has finished, or the time is up and Stop() returns
\* false, on which Start() throws "Cannot restart".
Wait ==
  /\ \/ /\ OwnerStep("wait", "unlock")
        /\ Finished(task)
        /\ cursor' = 0
        /\ UNCHANGED last
     \/ /\ OwnerStep("wait", "idle")
        /\ ~Finished(task)
        /\ last' = "timeout"
        /\ UNCHANGED cursor
  /\ UNCHANGED <<waitList, wpc, stop, cont, task, starts, stops>>

Remaining == {i \in ReqId : i > cursor /\ waitList[i] # Absent}

\* Mutant: only the first promise is fulfilled.
UnlockFirst ==
  \E i \in Remaining :
    /\ \A j \in Remaining : i <= j
    /\ opc = "unlock" /\ opc' = IF cont = "start" THEN "launch" ELSE "idle"
    /\ cursor' = i
    /\ Awaited(i) /\ fut' = [fut EXCEPT ![waitList[i]] = "empty"]
    /\ last' = "ok"
    /\ UNCHANGED <<idState, pc, got, waitList, requestQueue, netVars,
                   workerVars, stop, status, cont, task, starts, stops, ub,
                   missed>>

\* The loop over waitList_: the next promise is fulfilled with nothing;
\* set_value throws if it was fulfilled before.
UnlockNext ==
  \E i \in Remaining :
    /\ \A j \in Remaining : i <= j
    /\ opc = "unlock"
    /\ cursor' = i
    /\ \/ /\ Awaited(i)
          /\ fut' = [fut EXCEPT ![waitList[i]] = "empty"]
          /\ UNCHANGED <<opc, last>>
       \/ /\ ~Awaited(i)
          /\ opc' = "idle"
          /\ last' = "threw"
          /\ UNCHANGED fut
    /\ UNCHANGED <<idState, pc, got, waitList, requestQueue, netVars,
                   workerVars, stop, status, cont, task, starts, stops, ub,
                   missed>>

UnlockDone ==
  /\ Remaining = {}
  /\ OwnerStep("unlock", IF cont = "start" THEN "launch" ELSE "idle")
  /\ last' = "ok"
  /\ UNCHANGED <<waitList, wpc, stop, cont, cursor, task, starts, stops>>

\* std::async starts a worker; stop_ stays as it is.  The assignment to
\* taskFuture_ then waits for the worker of the previous future.
Launch ==
  /\ OwnerStep("launch", "join")
  /\ starts' = starts + 1
  /\ wpc' = [wpc EXCEPT ![starts + 1] = "init"]
  /\ UNCHANGED <<waitList, stop, cont, cursor, task, stops, last>>

Join ==
  /\ OwnerStep("join", "idle")
  /\ task # 0 => Finished(task)
  /\ task' = starts
  /\ UNCHANGED <<waitList, wpc, stop, cont, cursor, starts, stops, last>>

-----------------------------------------------------------------------------

\* About to use waitList_ under the mutex, and without it.
LocksMap(c) == pc[c] \in {"register", "remove"}
UsesMap(g) == wpc[g] = "deliver" /\ ids[hand[g]] # NullReqId

Racy ==
  \/ \E g \in Workers : /\ UsesMap(g)
                        /\ \/ \E c \in Calls : LocksMap(c)
                           \/ \E h \in Workers \ {g} : UsesMap(h)
                           \/ opc = "unlock"
  \/ opc = "unlock" /\ \E c \in Calls : LocksMap(c)

\* Two unsynchronised accesses to the map at the same time.
Corrupt ==
  /\ Racy
  /\ ub' = TRUE
  /\ UNCHANGED <<callVars, waitList, requestQueue, netVars, workerVars, stop,
                 status, ownerVars, missed>>

CallProgress(c) == DrawId(c) \/ Push(c) \/ Register(c) \/ Get(c) \/ Remove(c)

WorkerProgress(g) ==
  Connect(g) \/ Loop(g) \/ Poll(g) \/ Deliver(g) \/ Check(g) \/ PopAndSend(g) \/
  Close(g)

OwnerProgress == Wait \/ UnlockNext \/ UnlockDone \/ Launch \/ Join

Step ==
  \/ \E c \in Calls : Begin(c) \/ CallProgress(c)
  \/ \E g \in Workers : WorkerProgress(g) \/ ZmqFails(g)
  \/ \E g \in Workers, c \in Calls : Serve(g, c)
  \/ StopBegin \/ StartBegin \/ OwnerProgress
  \/ Corrupt

Next == ~ub /\ Step

Spec == Init /\ [][Next]_vars

\* Threads run, and the server answers.  Nothing makes the owner call Start
\* or Stop, a thread call Send, or a race do harm.
Fairness ==
  /\ \A c \in Calls : WF_vars(~ub /\ CallProgress(c))
  /\ \A g \in Workers : WF_vars(~ub /\ WorkerProgress(g))
  /\ \A g \in Workers, c \in Calls : WF_vars(~ub /\ Serve(g, c))
  /\ WF_vars(~ub /\ OwnerProgress)

FairSpec == Spec /\ Fairness

-----------------------------------------------------------------------------

Queued(c) == \E i \in DOMAIN requestQueue : requestQueue[i] = c

NoneDied == \A g \in Workers : wpc[g] # "dead"

\* The request or its reply is held by a worker that runs, or its socket.
Carried(c) == \E g \in Workers :
                /\ ~Finished(g)
                /\ c \in wire[g] \cup inbox[g] \cup {hand[g]}

(***************************************************************************)
(* A promise is only ever fulfilled with the reply to its own request:     *)
(* Send and the worker meet in waitList_ by id alone.                      *)
(***************************************************************************)
ReplyMatches == \A c \in Calls : got[c] \subseteq {c}

(***************************************************************************)
(* Whatever ids the callers pass to Send, no request is executed twice, a  *)
(* promise is fulfilled with one reply at most, and a reply fulfils one    *)
(* promise at most.                                                        *)
(***************************************************************************)
RepliesAreNotShared ==
  /\ repeated = {}
  /\ \A c, d \in Calls :
       /\ \A e, f \in got[c] : e = f
       /\ c # d => got[c] \cap got[d] = {}

(***************************************************************************)
(* While the worker is not told to stop, and no exception has ended it, a  *)
(* future that is not ready has its request in the queue, or request or    *)
(* reply under way with a running worker, except for a call whose reply    *)
(* overtook the registration of its promise (Send queues the request       *)
(* first).                                                                 *)
(***************************************************************************)
PendingIsUnderWay ==
  \A c \in Calls : fut[c] = "pending" /\ ~stop /\ ~ub /\ NoneDied =>
                     Queued(c) \/ Carried(c) \/ c \in missed

(***************************************************************************)
(* Handing on a reply does not end the worker: set_value in Execute never  *)
(* meets a promise that is already fulfilled.                              *)
(***************************************************************************)
DeliverNeverThrows ==
  [][\A g \in Workers : wpc[g] = "deliver" => wpc'[g] # "dead"]_vars

(***************************************************************************)
(* Reply::Get never finds its own entry gone, and no call takes away or    *)
(* overwrites the promise another one waits for.                           *)
(***************************************************************************)
EntriesAreKept == \A c \in Calls : pc[c] # "notfound" /\ fut[c] # "broken"

(***************************************************************************)
(* waitList_ holds an entry for exactly the calls that have registered and *)
(* not yet removed, besides those the worker made for replies that came    *)
(* before their registration.                                              *)
(***************************************************************************)
EntriesMatchCalls ==
  /\ \A i \in ReqId : waitList[i] = Absent =>
       \A c \in Calls : pc[c] \in {"waiting", "remove"} => ids[c] # i
  /\ \A i \in ReqId : waitList[i] \in Calls =>
       /\ ids[waitList[i]] = i
       /\ pc[waitList[i]] \in {"waiting", "remove"}
  /\ \A i \in ReqId : waitList[i] = Orphan =>
       \E c \in executed : ids[c] = i /\ pc[c] = "register"

(***************************************************************************)
(* Once Stop() has returned true, no future that was registered before the *)
(* request to stop is left waiting, unless its reply had overtaken the     *)
(* registration of another one: the loop reaches every entry or throws.    *)
(***************************************************************************)
StopReleases ==
  last = "ok" /\ opc = "idle" =>
    \A c \in Calls : fut[c] = "pending" => c \in missed

(***************************************************************************)
(* A comment of Send() says: "promise::set_value is invoked when matching  *)
(* reply is received".  So the worker has not dealt with a call's reply    *)
(* while the call still waits for it.                                      *)
(***************************************************************************)
ReceivedReplyIsSet ==
  \A c \in Calls : fut[c] = "pending" => ~AnswerSpent(c)

(***************************************************************************)
(* With one worker and a server that answers, every future becomes ready   *)
(* unless the client is stopped, the reply overtook the registration, or   *)
(* an exception has ended the worker.                                      *)
(***************************************************************************)
FuturesBecomeReady ==
  \A c \in Calls :
    (fut[c] = "pending" /\ starts > 0) ~>
      (fut[c] # "pending" \/ c \in missed \/ stop \/ ub \/ ~NoneDied)

(***************************************************************************)
(* A request to stop ends the worker, even one started after it.           *)
(***************************************************************************)
StopEndsWorkers ==
  \A g \in Workers :
    (stop /\ wpc[g] # "unborn") ~> (Finished(g) \/ ub)

-----------------------------------------------------------------------------

Phase(c) ==
  IF pc[c] \in {"idle", "newid", "push"} THEN "idle"
  ELSE IF fut[c] \in {"none", "pending"} THEN "sent"
  ELSE IF fut[c] = "ready" /\ got[c] = {c} THEN "replied"
  ELSE IF fut[c] = "empty" THEN "released"
  ELSE "wrong"

Executions(c) ==
  IF c \notin executed THEN 0 ELSE IF c \in repeated THEN 2 ELSE 1

Abstract == INSTANCE RemoteCall
  WITH phase <- [c \in Calls |-> Phase(c)], stopping <- stop,
       executed <- [c \in Calls |-> Executions(c)]

(***************************************************************************)
(* The client implements remote calls (module RemoteCall).                 *)
(***************************************************************************)
RemoteCalls == Abstract!Spec
=============================================================================
