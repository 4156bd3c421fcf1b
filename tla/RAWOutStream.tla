---------------------------- MODULE RAWOutStream ----------------------------
(***************************************************************************)
(* RAWOutStream.h: messages queued by Send() are published by a worker     *)
(* thread.                                                                 *)
(*                                                                         *)
(* One thread, the owner, calls Start(), Stop() and the destructor; Send() *)
(* may be called by any thread.  Each Start() launches a worker, which     *)
(* takes messages from queue_ and publishes them until it finds stop_ set. *)
(* Stop() waits for it only so long (some seconds): when it gives up, the  *)
(* worker is still there, and a later Start() launches another one beside  *)
(* it ("late").                                                            *)
(*                                                                         *)
(* Messages are numbered in the order of their Send(); Pill is the empty   *)
(* array that Stop() queues, which is published like any other.            *)
(***************************************************************************)
EXTENDS Integers, Sequences

CONSTANTS
  NumMessages,    \* bound: calls of Send()
  MaxStarts,      \* bound: workers launched
  MaxStops,       \* bound: calls of Stop(), those of Start() included
  StopMayTimeOut, \* whether the wait of Stop() may end before the worker does
  ZmqMayFail      \* whether a call of the ZMQ library may return an error

ASSUME OutAssumption ==
  /\ NumMessages \in Nat /\ MaxStarts \in Nat /\ MaxStops \in Nat
  /\ StopMayTimeOut \in BOOLEAN /\ ZmqMayFail \in BOOLEAN

VARIABLES
  sent,       \* how many messages Send() has queued
  queue,      \* queue_
  published,  \* what the workers have published, in that order
  wpc, hand,  \* where each worker is, and what it has popped
  opc, task,  \* where the owner is, and the call it makes
  stop,       \* stop_
  status,     \* status_
  starts,     \* workers launched so far; taskFuture_ is that of the last one
  stops,      \* calls of Stop() so far
  late        \* a call of Stop() has returned false

workerVars == <<published, wpc, hand>>
ownerVars == <<opc, task, starts, stops, late>>
vars == <<sent, queue, workerVars, ownerVars, stop, status>>

Pill == 0
Workers == 1 .. MaxStarts
Finished(w) == wpc[w] \in {"ended", "dead"}
Alive(w) == wpc[w] # "unborn" /\ ~Finished(w)

TypeOK ==
  /\ sent \in 0 .. NumMessages
  /\ queue \in Seq(0 .. sent)
  /\ published \in Seq(0 .. sent)
  /\ wpc \in [Workers -> {"unborn", "open", "check", "pop", "send", "close", "ended", "dead"}]
  /\ hand \in [Workers -> 0 .. sent]
  /\ opc \in {"idle", "pill", "wait", "launch", "join", "gone"}
  /\ task \in {"none", "stop", "start", "destroy"}
  /\ stop \in BOOLEAN
  /\ status \in {"STARTED", "STOPPED"}
  /\ starts \in 0 .. MaxStarts
  /\ stops \in 0 .. MaxStops
  /\ late \in BOOLEAN

Init ==
  /\ sent = 0 /\ queue = <<>> /\ published = <<>>
  /\ wpc = [w \in Workers |-> "unborn"]
  /\ hand = [w \in Workers |-> Pill]
  /\ opc = "idle" /\ task = "none"
  /\ stop = FALSE /\ status = "STOPPED"
  /\ starts = 0 /\ stops = 0 /\ late = FALSE

\* Send(): data is queued, whatever the state of the stream.
Send ==
  /\ opc # "gone"
  /\ sent < NumMessages
  /\ sent' = sent + 1
  /\ queue' = Append(queue, sent + 1)
  /\ UNCHANGED <<workerVars, ownerVars, stop, status>>

-----------------------------------------------------------------------------
(* Execute(), in worker w *)

Goto(w, from, to) ==
  /\ wpc[w] = from
  /\ wpc' = [wpc EXCEPT ![w] = to]
  /\ UNCHANGED <<sent, ownerVars, stop>>

\* CreateZMQContextAndSocket, then status_ = STARTED.
Open(w) ==
  /\ Goto(w, "open", "check")
  /\ status' = "STARTED"
  /\ UNCHANGED <<queue, published, hand>>

\* while(!stop_)
Check(w) ==
  /\ Goto(w, "check", IF stop THEN "close" ELSE "pop")
  /\ UNCHANGED <<queue, published, hand, status>>

\* queue_.Pop(), which blocks while the queue is empty.
Pop(w) ==
  /\ queue # <<>>
  /\ Goto(w, "pop", "send")
  /\ hand' = [hand EXCEPT ![w] = Head(queue)]
  /\ queue' = Tail(queue)
  /\ UNCHANGED <<published, status>>

\* Mutant: a message popped after the request to stop is not published.
PublishUnlessStopped(w) ==
  /\ Goto(w, "send", "check")
  /\ published' = IF stop THEN published ELSE Append(published, hand[w])
  /\ hand' = [hand EXCEPT ![w] = Pill]
  /\ UNCHANGED <<queue, status>>

\* SendBuffer: to the subscribers, if there are any.
Publish(w) ==
  /\ Goto(w, "send", "check")
  /\ published' = Append(published, hand[w])
  /\ hand' = [hand EXCEPT ![w] = Pill]
  /\ UNCHANGED <<queue, status>>

\* CleanupZMQResources, then status_ = STOPPED.
Close(w) ==
  /\ Goto(w, "close", "ended")
  /\ status' = "STOPPED"
  /\ UNCHANGED <<queue, published, hand>>

\* An exception ends the worker; what it had popped is lost, status_ stays.
ZmqFails(w) ==
  /\ ZmqMayFail
  /\ \E from \in {"open", "send"} : Goto(w, from, "dead")
  /\ hand' = [hand EXCEPT ![w] = Pill]
  /\ UNCHANGED <<queue, published, status>>

WorkerStep(w) == Open(w) \/ Check(w) \/ Pop(w) \/ Publish(w) \/ Close(w)

-----------------------------------------------------------------------------
(* Start(), Stop() and the destructor, in the owner *)

\* Stop() returns to the call it is part of.
AfterStop(call) ==
  CASE call = "stop" -> "idle" [] call = "start" -> "launch" [] call = "destroy" -> "join"

\* The owner makes a call; all of them begin with a Stop(), except Start() of a
\* stream that is not started.  Stop() of a stopped one returns true at once.
Call ==
  /\ opc = "idle"
  /\ task' \in {"stop", "start", "destroy"}
  /\ task' = "start" => starts < MaxStarts
  /\ IF status = "STOPPED"
     THEN opc' = AfterStop(task') /\ UNCHANGED <<stop, stops>>
     ELSE /\ stops < MaxStops
          /\ opc' = "pill" /\ stop' = TRUE /\ stops' = stops + 1
  /\ UNCHANGED <<sent, queue, workerVars, status, starts, late>>

\* queue_.Push(ByteArray())
PushPill ==
  /\ opc = "pill"
  /\ opc' = "wait"
  /\ queue' = Append(queue, Pill)
  /\ UNCHANGED <<sent, workerVars, task, stop, status, starts, stops, late>>

\* Mutant: Stop() returns without waiting.
WaitNot ==
  /\ opc = "wait"
  /\ opc' = AfterStop(task)
  /\ status' = "STOPPED"
  /\ UNCHANGED <<sent, queue, workerVars, task, stop, starts, stops, late>>

\* wait_for, then status_ = STOPPED; the result tells whether the worker has
\* ended.  If not, Start() throws "Cannot restart".
Wait ==
  /\ opc = "wait"
  /\ \/ /\ Finished(starts)
        /\ opc' = AfterStop(task)
        /\ UNCHANGED late
     \/ /\ StopMayTimeOut /\ ~Finished(starts)
        /\ opc' = IF task = "start" THEN "idle" ELSE AfterStop(task)
        /\ late' = TRUE
  /\ status' = "STOPPED"
  /\ UNCHANGED <<sent, queue, workerVars, task, stop, starts, stops>>

\* Mutant: stop_ is not reset.
LaunchStopped ==
  /\ opc = "launch"
  /\ opc' = "join"
  /\ status' = "STARTED"
  /\ starts' = starts + 1
  /\ wpc' = [wpc EXCEPT ![starts + 1] = "open"]
  /\ UNCHANGED <<sent, queue, published, hand, task, stop, stops, late>>

\* status_ = STARTED, stop_ = false, and the new worker is launched.
Launch ==
  /\ opc = "launch"
  /\ opc' = "join"
  /\ status' = "STARTED" /\ stop' = FALSE
  /\ starts' = starts + 1
  /\ wpc' = [wpc EXCEPT ![starts + 1] = "open"]
  /\ UNCHANGED <<sent, queue, published, hand, task, stops, late>>

\* Mutant: the destructor does not wait for the worker.
JoinNot ==
  /\ opc = "join"
  /\ opc' = IF task = "destroy" THEN "gone" ELSE "idle"
  /\ UNCHANGED <<sent, queue, workerVars, task, stop, status, starts, stops, late>>

\* The assignment of taskFuture_ waits for the worker launched before, and its
\* destructor for the last one.
Join ==
  /\ opc = "join"
  /\ LET w == IF task = "destroy" THEN starts ELSE starts - 1 IN w > 0 => Finished(w)
  /\ opc' = IF task = "destroy" THEN "gone" ELSE "idle"
  /\ UNCHANGED <<sent, queue, workerVars, task, stop, status, starts, stops, late>>

OwnerStep == PushPill \/ Wait \/ Launch \/ Join

-----------------------------------------------------------------------------

Step ==
  \/ Send \/ Call \/ OwnerStep
  \/ \E w \in Workers : WorkerStep(w) \/ ZmqFails(w)

Next == Step

Spec == Init /\ [][Next]_vars

\* Threads run.  Nothing makes anyone call Send(), Start() or Stop().
Fairness ==
  /\ \A w \in Workers : WF_vars(WorkerStep(w))
  /\ WF_vars(OwnerStep)

FairSpec == Spec /\ Fairness

-----------------------------------------------------------------------------

\* What has left Send(), in the order in which it left or would leave the queue;
\* some of it are the pills of Stop().
InHand == IF starts > 0 /\ wpc[starts] = "send" THEN <<hand[starts]>> ELSE <<>>
NoneDied == \A w \in Workers : wpc[w] # "dead"
Pipeline == published \o InHand \o queue

(***************************************************************************)
(* The stream is a fifo across Stop() and Start(), as long as no Stop()    *)
(* gives up: messages are published in the order in which they were sent,  *)
(* and each is published, in the worker's hands or still queued, unless it *)
(* was in the hands of a worker that an exception has ended.               *)
(***************************************************************************)
FifoOrder ==
  ~late =>
    /\ \A i, j \in DOMAIN Pipeline :
         i < j /\ Pipeline[i] # Pill /\ Pipeline[j] # Pill => Pipeline[i] < Pipeline[j]
    /\ NoneDied => \A m \in 1 .. sent : \E i \in DOMAIN Pipeline : Pipeline[i] = m

(***************************************************************************)
(* The destructor returns only when no worker uses the stream any more,    *)
(* also after a Stop() that has given up.                                  *)
(***************************************************************************)
NoWorkerOutlivesStream == opc = "gone" => \A w \in Workers : ~Alive(w)

(***************************************************************************)
(* As long as no Stop() gives up there is never a second worker on the     *)
(* queue, and between calls a stream that reads STOPPED has none.          *)
(***************************************************************************)
OneWorker ==
  ~late =>
    /\ \A v, w \in Workers : Alive(v) /\ Alive(w) => v = w
    /\ opc = "idle" /\ status = "STOPPED" => \A w \in Workers : ~Alive(w)

IsPublished(m) == \E i \in DOMAIN published : published[i] = m

(***************************************************************************)
(* Send() is asynchronous, but a stream that is started, or started again, *)
(* publishes all it is given until Stop() is called, as long as no Stop()  *)
(* gives up and no exception ends the worker.                              *)
(***************************************************************************)
SentIsPublished ==
  \A m \in 1 .. NumMessages :
    (m <= sent /\ status = "STARTED" /\ opc = "idle" /\ ~late) ~>
      (IsPublished(m) \/ opc = "pill" \/ ~NoneDied)

=============================================================================
