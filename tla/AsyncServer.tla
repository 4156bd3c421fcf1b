----------------------------- MODULE AsyncServer -----------------------------
(***************************************************************************)
(* AsyncServer.h: the server half of the asynchronous request/reply layer. *)
(*                                                                         *)
(* Start() runs in the thread of its caller, the starter: it launches the  *)
(* workers and then is the router, which moves requests from the socket to *)
(* requestQueue_ and replies from replyQueue_ to the socket until stop_ is *)
(* set.  A worker pops a request, runs the service and queues the reply.   *)
(* Stop() is called by another thread, the stopper, and by Start() itself  *)
(* when the server is started.  taskFutures_ is not protected: Stop() has  *)
(* a data race with the part of Start() that changes it ("ub").            *)
(*                                                                         *)
(* A request stands for its client's identity, its id, its data and its    *)
(* reply.                                                                  *)
(***************************************************************************)
EXTENDS Integers, Sequences

CONSTANTS
  Requests,      \* requests that clients may send, once each
  NoReply,       \* those with the null id
  Throwing,      \* those for which the service throws
  VoidService,   \* whether the service returns void
  NumThreads,    \* numThreads of Start()
  Nothing,       \* no request in hand; also the empty ReqRep() of Stop()
  MaxStarts,     \* bound: Start() calls in a behaviour
  MaxStops,      \* bound: Stop() calls, those of Start() included
  ZmqMayFail     \* whether a call of the ZMQ library may return an error

ASSUME ServerAssumption ==
  /\ NoReply \subseteq Requests /\ Throwing \subseteq Requests
  /\ VoidService \in BOOLEAN /\ ZmqMayFail \in BOOLEAN
  /\ NumThreads \in Nat \ {0} /\ Nothing \notin Requests
  /\ MaxStarts \in Nat /\ MaxStops \in Nat

VARIABLES
  requestQueue,  \* requestQueue_
  replyQueue,    \* replyQueue_
  received,      \* requests the router has received
  executed,      \* how often the service has run for each request
  answered,      \* how many replies each request's client was sent
  wpc, hand,     \* where each worker is, and what it has popped
  ctl,           \* where the starter and the stopper are
  stop, status,  \* stop_, status_
  starts, stops, \* Start() calls that launched workers, Stop() calls so far
  last,          \* what the stopper's last Stop() returned
  ub             \* the program has run into undefined behaviour

vars == <<requestQueue, replyQueue, received, executed, answered, wpc, hand, ctl,
          stop, status, starts, stops, last, ub>>

\* Workers are numbered as they are launched.
Workers == 1 .. MaxStarts * NumThreads
Launched == 1 .. starts * NumThreads
Callers == {"starter", "stopper"}

WorkerSteps == {"unborn", "pop", "popped", "serve", "reply", "ended", "dead"}
ControlSteps == {"idle", "pill", "wait", "join", "bind", "poll", "send", "close"}

TypeOK ==
  /\ requestQueue \in Seq(Requests \cup {Nothing})
  /\ replyQueue \in Seq(Requests)
  /\ received \subseteq Requests
  /\ executed \in [Requests -> Nat]
  /\ answered \in [Requests -> Nat]
  /\ wpc \in [Workers -> WorkerSteps]
  /\ hand \in [Workers -> Requests \cup {Nothing}]
  /\ ctl \in [Callers -> ControlSteps]
  /\ stop \in BOOLEAN
  /\ status \in {"STARTED", "STOPPED"}
  /\ starts \in 0 .. MaxStarts
  /\ stops \in 0 .. MaxStops
  /\ last \in {"none", "true", "false"}
  /\ ub \in BOOLEAN

Init ==
  /\ requestQueue = <<>> /\ replyQueue = <<>>
  /\ received = {}
  /\ executed = [m \in Requests |-> 0]
  /\ answered = [m \in Requests |-> 0]
  /\ wpc = [w \in Workers |-> "unborn"]
  /\ hand = [w \in Workers |-> Nothing]
  /\ ctl = [p \in Callers |-> "idle"]
  /\ stop = FALSE /\ status = "STOPPED"
  /\ starts = 0 /\ stops = 0 /\ last = "none"
  /\ ub = FALSE

Finished(w) == wpc[w] \in {"ended", "dead"}

-----------------------------------------------------------------------------
(* Workers *)

WorkerStep(w, from, to) ==
  /\ wpc[w] = from
  /\ wpc' = [wpc EXCEPT ![w] = to]
  /\ UNCHANGED <<received, answered, ctl, stop, status, starts, stops, last, ub>>

\* Mutant: the head is read and removed in two steps, and two workers may read
\* the same one.
PopShared(w) ==
  /\ requestQueue # <<>>
  /\ WorkerStep(w, "pop", "popped")
  /\ hand' = [hand EXCEPT ![w] = Head(requestQueue)]
  /\ requestQueue' = IF \E v \in Workers : wpc[v] = "popped"
                     THEN Tail(requestQueue) ELSE requestQueue
  /\ UNCHANGED <<replyQueue, executed>>

\* requestQueue_.Pop(), which blocks while the queue is empty.
Pop(w) ==
  /\ requestQueue # <<>>
  /\ WorkerStep(w, "pop", "popped")
  /\ hand' = [hand EXCEPT ![w] = Head(requestQueue)]
  /\ requestQueue' = Tail(requestQueue)
  /\ UNCHANGED <<replyQueue, executed>>

\* if(stop_) break: what was popped is dropped.
CheckStop(w) ==
  /\ WorkerStep(w, "popped", IF stop THEN "ended" ELSE "serve")
  /\ hand' = IF stop THEN [hand EXCEPT ![w] = Nothing] ELSE hand
  /\ UNCHANGED <<requestQueue, replyQueue, executed>>

\* service(req): an exception ends the worker and stays in its future.
Serve(w) ==
  LET m == hand[w] IN
  /\ WorkerStep(w, "serve", IF m \in Throwing THEN "dead" ELSE "reply")
  /\ executed' = [executed EXCEPT ![m] = @ + 1]
  /\ hand' = IF m \in Throwing THEN [hand EXCEPT ![w] = Nothing] ELSE hand
  /\ UNCHANGED <<requestQueue, replyQueue>>

\* A reply is queued for a request with an id; after a void service, for one
\* without.
QueuesReply(m) == IF VoidService THEN m \in NoReply ELSE m \notin NoReply

Reply(w) ==
  LET m == hand[w] IN
  /\ WorkerStep(w, "reply", "pop")
  /\ replyQueue' = IF QueuesReply(m) THEN Append(replyQueue, m) ELSE replyQueue
  /\ hand' = [hand EXCEPT ![w] = Nothing]
  /\ UNCHANGED <<requestQueue, executed>>

-----------------------------------------------------------------------------
(* Stop(), called by p *)

Control(p, from, to) ==
  /\ ctl[p] = from
  /\ ctl' = [ctl EXCEPT ![p] = to]
  /\ UNCHANGED <<executed, hand, ub>>

\* The stopper calls Stop(): stop_ = true.
StopBegin ==
  /\ stops < MaxStops
  /\ Control("stopper", "idle", "pill")
  /\ stop' = TRUE
  /\ stops' = stops + 1
  /\ UNCHANGED <<requestQueue, replyQueue, received, answered, wpc, status, starts, last>>

\* Mutant: nothing is pushed.
PushNothing(p) ==
  /\ Control(p, "pill", "wait")
  /\ UNCHANGED <<requestQueue, replyQueue, received, answered, wpc, stop, status, starts,
                 stops, last>>

\* requestQueue_.PushFront(ReqRep())
PushPill(p) ==
  /\ Control(p, "pill", "wait")
  /\ requestQueue' = <<Nothing>> \o requestQueue
  /\ UNCHANGED <<replyQueue, received, answered, wpc, stop, status, starts, stops, last>>

AllFinished == \A w \in Launched : Finished(w)

\* Mutant: the result does not depend on the futures.
WaitTrue(p) ==
  /\ Control(p, "wait", IF p = "starter" THEN "join" ELSE "idle")
  /\ last' = IF p = "starter" THEN last ELSE "true"
  /\ UNCHANGED <<requestQueue, replyQueue, received, answered, wpc, stop, status, starts,
                 stops>>

\* wait_for on every future; the result tells whether all workers have ended.
\* On false, Start() throws "Cannot restart".
Wait(p) ==
  /\ Control(p, "wait", IF p = "starter" /\ AllFinished THEN "join" ELSE "idle")
  /\ last' = IF p = "starter" THEN last ELSE IF AllFinished THEN "true" ELSE "false"
  /\ UNCHANGED <<requestQueue, replyQueue, received, answered, wpc, stop, status, starts,
                 stops>>

-----------------------------------------------------------------------------
(* Start() and the router *)

\* Start() is called; it stops a server that is started.
StartBegin ==
  /\ starts < MaxStarts
  /\ \/ /\ status = "STARTED" /\ stops < MaxStops
        /\ Control("starter", "idle", "pill")
        /\ stop' = TRUE /\ stops' = stops + 1
     \/ /\ status = "STOPPED"
        /\ Control("starter", "idle", "join")
        /\ UNCHANGED <<stop, stops>>
  /\ UNCHANGED <<requestQueue, replyQueue, received, answered, wpc, status, starts, last>>

\* taskFutures_.clear() waits for the workers of an earlier Start(); then the
\* new ones are launched.  stop_ and the queues stay as they are.
Launch ==
  /\ AllFinished
  /\ Control("starter", "join", "bind")
  /\ starts' = starts + 1
  /\ wpc' = [w \in Workers |->
               IF w \in 1 .. (starts + 1) * NumThreads /\ w \notin Launched
               THEN "pop" ELSE wpc[w]]
  /\ UNCHANGED <<requestQueue, replyQueue, received, answered, stop, status, stops, last>>

\* CreateZMQContextAndSocket and status_ = STARTED.
Bind ==
  /\ Control("starter", "bind", "poll")
  /\ status' = "STARTED"
  /\ UNCHANGED <<requestQueue, replyQueue, received, answered, wpc, stop, starts, stops,
                 last>>

\* A ZMQ call fails: the exception leaves Start(), the workers and status_
\* stay as they are.
ZmqFails ==
  /\ ZmqMayFail
  /\ \/ /\ ctl["starter"] \in {"bind", "poll"}
        /\ UNCHANGED replyQueue
     \/ /\ ctl["starter"] = "send" /\ replyQueue # <<>>
        /\ Head(replyQueue) \notin NoReply
        /\ replyQueue' = Tail(replyQueue)
  /\ Control("starter", ctl["starter"], "idle")
  /\ UNCHANGED <<requestQueue, received, answered, wpc, stop, status, starts, stops, last>>

\* while(!stop_), zmq_poll and, if there is a request, receive and queue it.
Poll ==
  /\ \/ /\ stop
        /\ Control("starter", "poll", "close")
        /\ UNCHANGED <<requestQueue, received>>
     \/ /\ ~stop
        /\ Control("starter", "poll", "send")
        /\ UNCHANGED <<requestQueue, received>>
     \/ /\ ~stop
        /\ Control("starter", "poll", "send")
        /\ \E m \in Requests \ received :
             /\ received' = received \cup {m}
             /\ requestQueue' = Append(requestQueue, m)
  /\ UNCHANGED <<replyQueue, answered, wpc, stop, status, starts, stops, last>>

\* Mutant: the loop waits for a reply before it receives again.
SendBlocks ==
  /\ replyQueue # <<>>
  /\ Control("starter", "send", "poll")
  /\ replyQueue' = Tail(replyQueue)
  /\ answered' = IF Head(replyQueue) \in NoReply THEN answered
                 ELSE [answered EXCEPT ![Head(replyQueue)] = @ + 1]
  /\ UNCHANGED <<requestQueue, received, wpc, stop, status, starts, stops, last>>

\* Mutant: the replies queued in the meantime are dropped with the one sent.
SendOne ==
  /\ Control("starter", "send", "poll")
  /\ \/ replyQueue = <<>> /\ UNCHANGED <<replyQueue, answered>>
     \/ /\ replyQueue # <<>>
        /\ replyQueue' = <<>>
        /\ answered' = IF Head(replyQueue) \in NoReply THEN answered
                       ELSE [answered EXCEPT ![Head(replyQueue)] = @ + 1]
  /\ UNCHANGED <<requestQueue, received, wpc, stop, status, starts, stops, last>>

\* If replyQueue_ is not empty, its head is sent, unless it has the null id.
Send ==
  /\ Control("starter", "send", "poll")
  /\ \/ replyQueue = <<>> /\ UNCHANGED <<replyQueue, answered>>
     \/ /\ replyQueue # <<>>
        /\ replyQueue' = Tail(replyQueue)
        /\ answered' = IF Head(replyQueue) \in NoReply THEN answered
                       ELSE [answered EXCEPT ![Head(replyQueue)] = @ + 1]
  /\ UNCHANGED <<requestQueue, received, wpc, stop, status, starts, stops, last>>

\* CleanupZMQResources, status_ = STOPPED: Start() returns.
Close ==
  /\ Control("starter", "close", "idle")
  /\ status' = "STOPPED"
  /\ UNCHANGED <<requestQueue, replyQueue, received, answered, wpc, stop, starts, stops,
                 last>>

\* Stop() reads taskFutures_ while Start() changes it.
Corrupt ==
  /\ ctl["stopper"] = "wait" /\ ctl["starter"] = "join"
  /\ ub' = TRUE
  /\ UNCHANGED <<requestQueue, replyQueue, received, executed, answered, wpc, hand, ctl,
                 stop, status, starts, stops, last>>

-----------------------------------------------------------------------------

WorkerProgress(w) == Pop(w) \/ CheckStop(w) \/ Serve(w) \/ Reply(w)
StarterProgress == Launch \/ Bind \/ Poll \/ Send \/ Close

Step ==
  \/ \E w \in Workers : WorkerProgress(w)
  \/ StopBegin \/ StartBegin \/ StarterProgress \/ ZmqFails \/ Corrupt
  \/ \E p \in Callers : PushPill(p) \/ Wait(p)

Next == ~ub /\ Step

Spec == Init /\ [][Next]_vars

\* Threads run and services return.  Nothing makes a client send, or anyone
\* call Start() or Stop().
Fairness ==
  /\ \A w \in Workers : WF_vars(~ub /\ WorkerProgress(w))
  /\ WF_vars(~ub /\ StarterProgress)
  /\ \A p \in Callers : WF_vars(~ub /\ (PushPill(p) \/ Wait(p)))

FairSpec == Spec /\ Fairness

-----------------------------------------------------------------------------

Within(m, q) == \E i \in DOMAIN q : q[i] = m

\* Start() has left the loop of the router with an exception.
RouterFailed == status = "STARTED" /\ ctl["starter"] = "idle"

(***************************************************************************)
(* The service runs at most once for a request, and the client is sent at  *)
(* most one reply, after that run, and none if it asked for none.          *)
(***************************************************************************)
AnsweredAtMostOnce ==
  \A m \in Requests : /\ answered[m] <= executed[m] /\ executed[m] <= 1
                      /\ m \in NoReply => answered[m] = 0

(***************************************************************************)
(* Until it is told to stop or ZMQ fails, the server loses no request: one *)
(* that was received is queued, or in the hands of a worker, or its reply  *)
(* is queued or sent, unless it asked for no reply or the service threw.   *)
(***************************************************************************)
NothingIsLost ==
  ~stop /\ ~VoidService /\ ~RouterFailed =>
    \A m \in received :
      \/ Within(m, requestQueue) \/ Within(m, replyQueue)
      \/ \E w \in Launched : ~Finished(w) /\ hand[w] = m
      \/ answered[m] = 1
      \/ executed[m] = 1 /\ m \in NoReply \cup Throwing

(***************************************************************************)
(* After Stop() has returned true no service runs, and none starts again.  *)
(***************************************************************************)
QuietAfterStop ==
  last = "true" => \A w \in Workers : wpc[w] \notin {"serve", "reply"}

(***************************************************************************)
(* A comment of the void worker says: "since return type is void do return *)
(* an empty reply if a reply is requested".  Whatever the service returns, *)
(* a request with an id that was received is answered, unless the server   *)
(* is stopped, ZMQ fails, or the service threw for it or in every worker.  *)
(***************************************************************************)
RequestsAreAnswered ==
  \A m \in Requests \ (NoReply \cup Throwing) :
    m \in received ~>
      \/ answered[m] = 1 \/ stop \/ RouterFailed \/ ub
      \/ \A w \in Launched : wpc[w] = "dead"

(***************************************************************************)
(* Stop() puts one element at the front of the queue, and lets the worker  *)
(* end that gets it: there is no need for a request to come.               *)
(***************************************************************************)
StopUnlocksWorker ==
  ctl["stopper"] = "wait" ~> ((\E w \in Launched : Finished(w)) \/ starts = 0 \/ ub)

(***************************************************************************)
(* Start() returns after a request to stop.                                *)
(***************************************************************************)
StartReturns ==
  (stop /\ ctl["starter"] \in {"bind", "poll", "send"}) ~>
    (ctl["starter"] = "idle" \/ ub)
=============================================================================
