----------------------------- MODULE RAWInStream -----------------------------
(***************************************************************************)
(* RAWInStream.h: a worker thread receives messages into a queue, and      *)
(* Loop() hands them to a callback.                                        *)
(*                                                                         *)
(* One thread, the owner, calls Start(), Stop(), Restart() and the         *)
(* destructor; another one, the consumer, calls Loop().  A worker receives *)
(* from a socket of its own until stop_ is set or nothing arrives for some *)
(* time, then it calls Stop() itself.  status_ is STOPPED until the worker *)
(* sets it: until then the stream is taken for a stopped one, so that      *)
(* Stop() does nothing and Start() launches a second worker ("early").     *)
(*                                                                         *)
(* The publisher and the network are external: messages are numbered in    *)
(* the order in which they are published, and any of them may be lost.     *)
(* The callback returns false, which ends Loop(), for the messages in      *)
(* Last, and for Pill, the empty array that Stop() queues.                 *)
(***************************************************************************)
EXTENDS Integers, Sequences

CONSTANTS
  NumMessages,  \* bound: messages published
  Last,         \* those for which the callback returns false
  MaxStarts,    \* bound: workers launched
  MaxCalls,     \* bound: calls the owner makes, the destructor not counted
  MaxLoops,     \* bound: calls of Loop()
  MayThrow,     \* whether connecting may fail, or receiving throw (SizeInfoReceivePolicy)
  LongURI       \* whether the URI has its characters outside of std::string

ASSUME InAssumption ==
  /\ NumMessages \in Nat /\ MaxStarts \in Nat /\ MaxCalls \in Nat /\ MaxLoops \in Nat
  /\ Last \subseteq 1 .. NumMessages
  /\ MayThrow \in BOOLEAN /\ LongURI \in BOOLEAN

VARIABLES
  queue,          \* queue_
  wpc, seen,      \* where each worker is, and the last message its socket got or missed
  timedOut,       \* timedOut of each worker
  lpc, item,      \* where the consumer is, and what it has popped
  loops, handed,  \* calls of Loop() so far, and the messages it has handed to the callback
  opc, task,      \* where the owner is, and the call it makes
  calls, starts,  \* calls of the owner, workers launched
  future,         \* the worker that taskFuture_ belongs to, 0 if it has none
  stop, status,   \* stop_, status_
  asked,          \* Stop() was called, and no worker launched since
  early,          \* a call was made before the worker of the last Start() was STARTED
  ub              \* the program has run into undefined behaviour

loopVars == <<lpc, item, loops, handed>>
ownVars == <<opc, task, calls, starts, asked, early>>
vars == <<queue, wpc, seen, timedOut, loopVars, ownVars, future, stop, status, ub>>

Pill == 0
Workers == 1 .. MaxStarts
Items == 0 .. NumMessages
Finished(w) == wpc[w] \in {"ended", "dead"}
Alive(w) == wpc[w] # "unborn" /\ ~Finished(w)

\* status_ holds flags.
Started == "STARTED" \in status
Stopped == "STOPPED" \in status

WorkerSteps == {"unborn", "connect", "check", "receive", "close", "flag", "stop", "pill",
                "get", "ended", "dead"}
OwnerSteps == {"idle", "stop", "pill", "get", "get2", "launch", "assign", "join", "destroy",
               "gone", "terminated"}

TypeOK ==
  /\ queue \in Seq(Items)
  /\ wpc \in [Workers -> WorkerSteps]
  /\ seen \in [Workers -> 0 .. NumMessages]
  /\ timedOut \in [Workers -> BOOLEAN]
  /\ lpc \in {"idle", "check", "pop", "popped"}
  /\ item \in Items
  /\ loops \in 0 .. MaxLoops
  /\ handed \in Seq(Items)
  /\ opc \in OwnerSteps
  /\ task \in {"none", "stop", "start", "restart", "destroy"}
  /\ calls \in 0 .. MaxCalls
  /\ starts \in 0 .. MaxStarts
  /\ future \in 0 .. starts
  /\ status \in SUBSET {"STARTED", "STOPPED", "TIMED_OUT"}
  /\ stop \in BOOLEAN /\ asked \in BOOLEAN /\ early \in BOOLEAN /\ ub \in BOOLEAN

Init ==
  /\ queue = <<>>
  /\ wpc = [w \in Workers |-> "unborn"]
  /\ seen = [w \in Workers |-> 0]
  /\ timedOut = [w \in Workers |-> FALSE]
  /\ lpc = "idle" /\ item = Pill /\ loops = 0 /\ handed = <<>>
  /\ opc = "idle" /\ task = "none" /\ calls = 0 /\ starts = 0 /\ future = 0
  /\ stop = FALSE /\ status = {"STOPPED"}
  /\ asked = FALSE /\ early = FALSE /\ ub = FALSE

-----------------------------------------------------------------------------
(* Execute(), in worker w *)

Goto(w, from, to) ==
  /\ wpc[w] = from
  /\ wpc' = [wpc EXCEPT ![w] = to]
  /\ UNCHANGED <<loopVars, ownVars, ub>>

\* CreateZMQContextAndSocket, then status_ = STARTED.  The subscription does not
\* see what was published before.
Connect(w) ==
  /\ Goto(w, "connect", "check")
  /\ \E m \in 0 .. NumMessages : /\ \A v \in Workers : seen[v] <= m
                                /\ seen' = [seen EXCEPT ![w] = m]
  /\ status' = {"STARTED"}
  /\ UNCHANGED <<queue, timedOut, future, stop>>

\* while(!stop_)
Check(w) ==
  /\ Goto(w, "check", IF stop THEN "close" ELSE "receive")
  /\ UNCHANGED <<queue, seen, timedOut, future, stop, status>>

\* ReceiveBuffer and queue_.Push.
Receive(w) ==
  /\ Goto(w, "receive", "check")
  /\ \E m \in seen[w] + 1 .. NumMessages :
       /\ seen' = [seen EXCEPT ![w] = m]
       /\ queue' = Append(queue, m)
  /\ UNCHANGED <<timedOut, future, stop, status>>

\* Mutant: when nothing arrives, it goes on receiving.
TimeOutRetries(w) ==
  /\ Goto(w, "receive", "receive")
  /\ timedOut' = [timedOut EXCEPT ![w] = TRUE]
  /\ UNCHANGED <<queue, seen, future, stop, status>>

\* Nothing arrives for timeoutms.
TimeOut(w) ==
  /\ Goto(w, "receive", "close")
  /\ timedOut' = [timedOut EXCEPT ![w] = TRUE]
  /\ UNCHANGED <<queue, seen, future, stop, status>>

\* An exception ends the worker and stays in its future.
Throw(w) ==
  /\ MayThrow
  /\ \E from \in {"connect", "receive"} : Goto(w, from, "dead")
  /\ UNCHANGED <<queue, seen, timedOut, future, stop, status>>

\* CleanupZMQResources, status_ = STOPPED.
Close(w) ==
  /\ Goto(w, "close", "flag")
  /\ status' = {"STOPPED"}
  /\ UNCHANGED <<queue, seen, timedOut, future, stop>>

\* if(timedOut) status_ |= TIMED_OUT
Flag(w) ==
  /\ Goto(w, "flag", "stop")
  /\ status' = IF timedOut[w] THEN status \cup {"TIMED_OUT"} ELSE status
  /\ timedOut' = [timedOut EXCEPT ![w] = FALSE]
  /\ UNCHANGED <<queue, seen, future, stop>>

\* Stop(): as status_ was just set to STOPPED it does nothing, unless a worker
\* launched in the meantime has started.
WorkerStop(w) ==
  /\ Goto(w, "stop", IF Stopped THEN "ended" ELSE "pill")
  /\ stop' = (stop \/ ~Stopped)
  /\ UNCHANGED <<queue, seen, timedOut, future, status>>

WorkerPushPill(w) ==
  /\ Goto(w, "pill", "get")
  /\ queue' = Append(queue, Pill)
  /\ UNCHANGED <<seen, timedOut, future, stop, status>>

\* taskFuture_.get() waits for its worker, throws what that threw, and leaves
\* no future; without one, and in the thread it would wait for, it throws.
WorkerGet(w) ==
  /\ future \notin {0, w} => Finished(future)
  /\ Goto(w, "get", IF future # 0 /\ wpc[future] = "ended" THEN "ended" ELSE "dead")
  /\ future' = 0
  /\ UNCHANGED <<queue, seen, timedOut, stop, status>>

WorkerStep(w) ==
  \/ Connect(w) \/ Check(w) \/ Receive(w) \/ TimeOut(w) \/ Close(w) \/ Flag(w)
  \/ WorkerStop(w) \/ WorkerPushPill(w) \/ WorkerGet(w)

-----------------------------------------------------------------------------
(* Loop() or LoopArgs(), in the consumer *)

LoopGoto(from, to) ==
  /\ lpc = from
  /\ lpc' = to
  /\ UNCHANGED <<wpc, seen, timedOut, ownVars, future, stop, status>>

\* Nobody enters Loop() once the destructor runs.
LoopBegin ==
  /\ loops < MaxLoops /\ task # "destroy" /\ opc # "gone"
  /\ LoopGoto("idle", "check")
  /\ loops' = loops + 1
  /\ UNCHANGED <<queue, item, handed, ub>>

\* while(!stop_)
LoopCheck ==
  /\ LoopGoto("check", IF stop THEN "idle" ELSE "pop")
  /\ UNCHANGED <<queue, item, loops, handed, ub>>

\* Mutant: the last element is taken.
PopLast ==
  /\ queue # <<>>
  /\ LoopGoto("pop", "popped")
  /\ item' = queue[Len(queue)] /\ queue' = SubSeq(queue, 1, Len(queue) - 1)
  /\ UNCHANGED <<loops, handed, ub>>

\* queue_.Pop(), which blocks while the queue is empty.  LoopArgs() unpacks what
\* it gets at once, and there is nothing to unpack in the empty array.
LoopPop ==
  /\ queue # <<>>
  /\ LoopGoto("pop", "popped")
  /\ item' = Head(queue) /\ queue' = Tail(queue)
  /\ ub' \in {FALSE, item' = Pill}
  /\ UNCHANGED <<loops, handed>>

\* if(!stop_) the callback is called, and ends the loop if it returns false.
Callback ==
  LET ends == ~stop /\ (item = Pill \/ item \in Last) IN
  /\ LoopGoto("popped", IF ends THEN "idle" ELSE "check")
  /\ handed' = IF stop \/ item = Pill THEN handed ELSE Append(handed, item)
  /\ item' = Pill
  /\ UNCHANGED <<queue, loops, ub>>

LoopStep == LoopCheck \/ LoopPop \/ Callback

-----------------------------------------------------------------------------
(* Start(), Stop(), Restart() and the destructor, in the owner *)

OwnerGoto(from, to) ==
  /\ opc = from
  /\ opc' = to
  /\ task' = IF to \in {"idle", "gone"} THEN "none" ELSE task
  /\ UNCHANGED <<wpc, seen, timedOut, loopVars>>

\* Where Stop() returns to: Start() has another get() to do.
AfterStop(call) ==
  CASE call = "stop" -> "idle" [] call = "start" -> "get2"
    [] call = "restart" -> "launch" [] call = "destroy" -> "destroy"

\* The owner makes a call.  All of them begin with a Stop(), except Start() of a
\* stream that is not started.  The consumer is out of Loop() when the stream
\* is destroyed.
Call ==
  /\ \E call \in {"stop", "start", "restart", "destroy"} :
       /\ call \in {"start", "restart"} => starts < MaxStarts
       /\ IF call = "destroy" THEN lpc = "idle" ELSE calls < MaxCalls
       /\ opc = "idle"
       /\ opc' = IF call = "start" /\ ~Started THEN "launch" ELSE "stop"
       /\ task' = call
       /\ calls' = IF call = "destroy" THEN calls ELSE calls + 1
       /\ asked' = (asked \/ call # "start" \/ Started)
  /\ early' = (early \/ \E w \in Workers : wpc[w] = "connect")
  /\ UNCHANGED <<wpc, seen, timedOut, loopVars, queue, starts, future, stop, status, ub>>

\* if(Stopped()) return, else stop_ = true
StopBegin ==
  /\ OwnerGoto("stop", IF Stopped THEN AfterStop(task) ELSE "pill")
  /\ stop' = (stop \/ ~Stopped)
  /\ UNCHANGED <<queue, calls, starts, future, status, asked, early, ub>>

\* Mutant: nothing is added to the queue.
PushNothing ==
  /\ OwnerGoto("pill", "get")
  /\ UNCHANGED <<queue, calls, starts, future, stop, status, asked, early, ub>>

\* queue_.Push(ByteArray())
PushPill ==
  /\ OwnerGoto("pill", "get")
  /\ queue' = Append(queue, Pill)
  /\ UNCHANGED <<calls, starts, future, stop, status, asked, early, ub>>

\* What an exception does: it leaves Start(), Stop() and Restart(), and ends the
\* program in the destructor.
Thrown == IF task = "destroy" THEN "terminated" ELSE "idle"

\* Mutant: nobody waits for the worker.
GetNow ==
  /\ OwnerGoto("get", AfterStop(task)) \/ OwnerGoto("get2", "launch")
  /\ future' = 0
  /\ UNCHANGED <<queue, calls, starts, stop, status, asked, early, ub>>

\* taskFuture_.get(), in Stop() and, once more, in Start(): the second one
\* throws, unless the Stop() before it has done nothing.
Get ==
  /\ future # 0 => Finished(future)
  /\ LET done == future # 0 /\ wpc[future] = "ended" IN
     \/ OwnerGoto("get", IF done THEN AfterStop(task) ELSE Thrown)
     \/ OwnerGoto("get2", IF done THEN "launch" ELSE Thrown)
  /\ future' = 0
  /\ UNCHANGED <<queue, calls, starts, stop, status, asked, early, ub>>

\* stop_ = false, and the new worker is launched.  Restart() passes the URI as a
\* pointer into connectionInfo_, which Start() assigns to.
Launch ==
  /\ opc = "launch"
  /\ opc' = "assign"
  /\ stop' = FALSE
  /\ starts' = starts + 1
  /\ wpc' = [wpc EXCEPT ![starts + 1] = "connect"]
  /\ asked' = FALSE
  /\ ub' \in {FALSE, LongURI /\ task = "restart"}
  /\ UNCHANGED <<queue, seen, timedOut, loopVars, task, calls, future, status, early>>

\* taskFuture_ = ...; then "join": the old future waits for its worker.
Assign ==
  /\ OwnerGoto("assign", IF future = 0 \/ Finished(future) THEN "idle" ELSE "join")
  /\ future' = starts
  /\ UNCHANGED <<queue, calls, starts, stop, status, asked, early, ub>>

\* The assignment ends; the worker it has waited for is the last but one.
Join ==
  /\ OwnerGoto("join", "idle")
  /\ Finished(starts - 1)
  /\ UNCHANGED <<queue, calls, starts, future, stop, status, asked, early, ub>>

\* Mutant: the stream is destroyed without waiting for the worker.
DestroyNow ==
  /\ OwnerGoto("destroy", "gone")
  /\ future' = 0
  /\ UNCHANGED <<queue, calls, starts, stop, status, asked, early, ub>>

\* The destructor of taskFuture_ waits for its worker.
Destroy ==
  /\ future # 0 => Finished(future)
  /\ OwnerGoto("destroy", "gone")
  /\ future' = 0
  /\ UNCHANGED <<queue, calls, starts, stop, status, asked, early, ub>>

OwnerStep == StopBegin \/ PushPill \/ Get \/ Launch \/ Assign \/ Join \/ Destroy

\* A worker waits on taskFuture_ while Start() assigns to it.
Corrupt ==
  /\ opc = "assign"
  /\ \E w \in Workers : wpc[w] = "get"
  /\ ub' = TRUE
  /\ UNCHANGED <<queue, wpc, seen, timedOut, loopVars, ownVars, future, stop, status>>

-----------------------------------------------------------------------------

Step ==
  \/ \E w \in Workers : WorkerStep(w) \/ Throw(w)
  \/ LoopBegin \/ LoopStep \/ Call \/ OwnerStep \/ Corrupt

\* Undefined behaviour, and an exception that nobody catches, end the program.
Running == ~ub /\ opc # "terminated"

Next == Running /\ Step

Spec == Init /\ [][Next]_vars

\* Threads run, and a receive ends with a message or a timeout.  Nothing makes
\* anyone call Loop(), Start() or Stop().
Fairness ==
  /\ \A w \in Workers : WF_vars(Running /\ WorkerStep(w))
  /\ WF_vars(Running /\ LoopStep)
  /\ WF_vars(Running /\ OwnerStep)

FairSpec == Spec /\ Fairness

-----------------------------------------------------------------------------

(***************************************************************************)
(* The callback gets no message twice and none out of order, whatever was  *)
(* stopped and started, unless a call was made before the last worker was  *)
(* STARTED: then two sockets may be subscribed.                            *)
(***************************************************************************)
HandedInOrder ==
  ~early => \A i, j \in DOMAIN handed : i < j => handed[i] < handed[j]

(***************************************************************************)
(* Unless a call came too early, no two workers receive at once: the queue *)
(* has one producer.                                                       *)
(***************************************************************************)
OneReceiver ==
  ~early => \A v, w \in Workers :
    wpc[v] \in {"check", "receive"} /\ wpc[w] \in {"connect", "check", "receive"} => v = w

(***************************************************************************)
(* The destructor returns only when no worker uses the stream any more.    *)
(***************************************************************************)
NoWorkerOutlivesStream == opc = "gone" => \A w \in Workers : ~Alive(w)

(***************************************************************************)
(* Once stop_ is set, Loop() returns or the stream is started again: the   *)
(* empty array that follows finds it, wherever it blocks.                  *)
(***************************************************************************)
StopUnlocksLoop == stop ~> (lpc = "idle" \/ ~stop \/ ~Running)

(***************************************************************************)
(* Once stop_ is set every worker ends, or the stream is started again.    *)
(***************************************************************************)
StopEndsWorkers ==
  stop ~> ((\A w \in Workers : ~Alive(w)) \/ ~stop \/ ~Running)

(***************************************************************************)
(* A comment of Loop() says that Stop() "adds an empty array into the      *)
(* queue so this is guaranteed to always return when calling Stop": so,    *)
(* when Stop() is called while Loop() runs, on a stream that was started   *)
(* and whose worker has been STARTED.                                      *)
(***************************************************************************)
LoopReturnsOnStop ==
  (task = "stop" /\ opc = "stop" /\ lpc # "idle" /\ starts > 0 /\ ~early)
    ~> (lpc = "idle" \/ ~asked \/ ~Running)
=============================================================================
