-------------------------- MODULE AsyncClientProofs --------------------------
(***************************************************************************)
(* AsyncClient for any number of calls, threads, workers and Stop() calls. *)
(***************************************************************************)
EXTENDS AsyncClient, TLAPS

(***************************************************************************)
(* The counter of NewReqId stays a ReqId.                                  *)
(***************************************************************************)
LEMMA ResidueType ==
  ASSUME NEW r \in ReqId
  PROVE  (r + 1) % Modulus \in ReqId
<1>1. CASE r = Modulus - 1
  BY <1>1, ClientAssumption DEF ReqId
<1>2. CASE r # Modulus - 1
  <2>1. r + 1 \in 0 .. Modulus - 1
    BY <1>2, ClientAssumption DEF ReqId
  <2> QED
    BY <2>1, ClientAssumption DEF ReqId
<1> QED
  BY <1>1, <1>2

(***************************************************************************)
(* A worker is launched for a Start() that found the bound not reached,    *)
(* and a worker that is about to deliver a reply has one.                  *)
(***************************************************************************)
MayLaunch ==
  opc = "launch" \/ (opc \in {"wait", "unlock"} /\ cont = "start")
    => starts < MaxStarts

HasReply == \A g \in Workers : wpc[g] = "deliver" => hand[g] \in Calls

(***************************************************************************)
(* The types, MayLaunch and HasReply hold together: they are inductive.    *)
(***************************************************************************)
LEMMA TypeInvariant == Spec => [](TypeOK /\ MayLaunch /\ HasReply)
<1>1. Init => TypeOK
  <2> SUFFICES ASSUME Init
               PROVE  TypeOK
    OBVIOUS
  <2>1. 0 \in ReqId /\ 0 \in 0 .. MaxStarts /\ 0 \in 0 .. MaxStops
    BY ClientAssumption DEF ReqId
  <2>2. IdTypeOK
    BY <2>1 DEF Init, IdInit, IdTypeOK, IdSteps, NullReqId
  <2>3. got \in [Calls -> SUBSET Calls] /\ requestQueue \in Seq(Calls)
    BY DEF Init
  <2> QED
    BY <2>1, <2>2, <2>3
    DEF Init, TypeOK, CallSteps, FutureStates, WorkerSteps, OwnerSteps
<1>2. Init => MayLaunch /\ HasReply
  BY DEF Init, MayLaunch, HasReply
<1>3. TypeOK /\ MayLaunch /\ [Next]_vars => MayLaunch'
  <2> SUFFICES ASSUME TypeOK, MayLaunch, Next
               PROVE  MayLaunch'
    BY DEF MayLaunch, vars, ownerVars
  <2> USE DEF MayLaunch
  <2>1. CASE UNCHANGED ownerVars
    BY <2>1 DEF ownerVars
  <2>2. CASE StopBegin \/ StartBegin
    BY <2>2 DEF StopBegin, StartBegin, OwnerStep
  <2>3. CASE OwnerProgress
    BY <2>3
    DEF OwnerProgress, Wait, UnlockNext, UnlockDone, Launch, Join, OwnerStep
  <2> QED
    BY <2>1, <2>2, <2>3
    DEF Next, Step, CallProgress, WorkerProgress, Begin, DrawId, Push, Register,
        Get, Remove, CallStep, Connect, Loop, ZmqFails, Poll, Deliver, Check,
        PopAndSend, Close, WorkerStep, Serve, Corrupt
<1>4. TypeOK /\ HasReply /\ [Next]_vars => HasReply'
  <2> SUFFICES ASSUME TypeOK, HasReply, Next
               PROVE  HasReply'
    BY DEF HasReply, vars, workerVars
  <2> USE DEF TypeOK, HasReply
  <2>1. CASE UNCHANGED workerVars
    BY <2>1 DEF workerVars
  <2>2. ASSUME NEW g \in Workers, Poll(g)
        PROVE  HasReply'
    BY <2>2 DEF Poll, WorkerStep
  <2>3. ASSUME NEW g \in Workers, WorkerProgress(g) \/ ZmqFails(g), ~Poll(g)
        PROVE  HasReply'
    <3>1. /\ \E to \in WorkerSteps \ {"deliver"} : wpc' = [wpc EXCEPT ![g] = to]
          /\ \A h \in Workers \ {g} : hand'[h] = hand[h]
      BY <2>3
      DEF WorkerProgress, Connect, Loop, ZmqFails, Deliver, Check, PopAndSend, Close,
          WorkerStep, WorkerSteps
    <3> QED
      BY <3>1
  <2>4. CASE OwnerProgress \/ StopBegin \/ StartBegin
    <3>1. hand' = hand
      BY <2>4
      DEF OwnerProgress, StopBegin, StartBegin, Wait, UnlockNext, UnlockDone, Launch,
          Join, OwnerStep, workerVars
    <3>2. wpc' = wpc \/ wpc' = [wpc EXCEPT ![starts + 1] = "init"]
      BY <2>4
      DEF OwnerProgress, StopBegin, StartBegin, Wait, UnlockNext, UnlockDone, Launch,
          Join, workerVars
    <3> QED
      BY <3>1, <3>2
  <2> QED
    BY <2>1, <2>2, <2>3, <2>4
    DEF Next, Step, CallProgress, Begin, DrawId, Push, Register, Get, Remove,
        CallStep, Serve, Corrupt
<1>5. TypeOK /\ MayLaunch /\ HasReply /\ [Next]_vars => TypeOK'
  <2> SUFFICES ASSUME TypeOK, MayLaunch, HasReply, Next
               PROVE  TypeOK'
    BY DEF TypeOK, IdTypeOK, vars, callVars, idState, workerVars, netVars, ownerVars
  <2> USE ClientAssumption
      DEF TypeOK, IdTypeOK, IdSteps, CallSteps, FutureStates, WorkerSteps, OwnerSteps,
          callVars, idState, workerVars, netVars, ownerVars
  <2>1. ASSUME NEW c \in Calls, Begin(c)
        PROVE  TypeOK'
    <3>1. GivenId[c] \in ReqId /\ NullReqId \in ReqId
      BY DEF ReqId, NullReqId
    <3>2. CASE CallStep(c, "idle", "push")
      <4>1. ids' \in [Calls -> ReqId] /\ rid' = rid /\ idpc' = idpc
        BY <2>1, <3>1, <3>2 DEF Begin, CallStep
      <4> QED
        BY <2>1, <3>2, <4>1 DEF Begin, CallStep
    <3>3. CASE CallStep(c, "idle", "newid") /\ Enter(c)
      BY <2>1, <3>3 DEF Begin, CallStep, Enter, IdStep
    <3> QED
      BY <2>1, <3>2, <3>3 DEF Begin
  <2>2. ASSUME NEW c \in Calls, DrawId(c)
        PROVE  TypeOK'
    <3>1. rid' \in ReqId
      BY <2>2, ResidueType
      DEF DrawId, Increment, Renumber, AssertNotNull, Return, ReqId
    <3>2. idpc' \in [Calls -> IdSteps]
      <4>1. \E to \in IdSteps : idpc' = [idpc EXCEPT ![c] = to]
        BY <2>2
        DEF DrawId, Increment, Renumber, AssertNotNull, Return, IdStep
      <4> QED
        BY <4>1
    <3>3. ids' \in [Calls -> ReqId]
      BY <2>2 DEF DrawId, Increment, Renumber, AssertNotNull, Return
    <3> QED
      BY <2>2, <3>1, <3>2, <3>3 DEF DrawId, CallStep
  <2>3. ASSUME NEW c \in Calls, Push(c)
        PROVE  TypeOK'
    BY <2>3 DEF Push, CallStep
  <2>4. ASSUME NEW c \in Calls, Register(c)
        PROVE  TypeOK'
    BY <2>4 DEF Register, CallStep, Break
  <2>5. ASSUME NEW c \in Calls, Get(c)
        PROVE  TypeOK'
    BY <2>5 DEF Get, CallStep
  <2>6. ASSUME NEW c \in Calls, Remove(c)
        PROVE  TypeOK'
    BY <2>6 DEF Remove, CallStep, Break
  <2>7. ASSUME NEW g \in Workers, WorkerProgress(g)
        PROVE  TypeOK'
    <3>1. CASE Connect(g)
      BY <3>1 DEF Connect, Loop, WorkerStep
    <3>0. CASE Loop(g)
      BY <3>0 DEF Loop, WorkerStep
    <3>2. CASE Poll(g)
      <4>1. /\ inbox' \in [Workers -> SUBSET Calls]
            /\ hand' \in [Workers -> Calls \cup {Absent}]
        <5>1. CASE inbox' = inbox /\ hand' = hand
          BY <5>1
        <5>2. ASSUME NEW c \in inbox[g],
                     hand' = [hand EXCEPT ![g] = c],
                     inbox' = [inbox EXCEPT ![g] = @ \ {c}]
              PROVE  /\ inbox' \in [Workers -> SUBSET Calls]
                     /\ hand' \in [Workers -> Calls \cup {Absent}]
          BY <5>2
        <5> QED
          BY <3>2, <5>1, <5>2 DEF Poll
      <4>2. wpc' \in [Workers -> WorkerSteps]
        BY <3>2 DEF Poll, WorkerStep
      <4>3. UNCHANGED <<callVars, waitList, requestQueue, wire, executed, repeated, stop,
                        status, ownerVars, ub, missed>>
        BY <3>2 DEF Poll, WorkerStep
      <4> QED
        BY <4>1, <4>2, <4>3
    <3>3. CASE Deliver(g)
      <4>1. /\ waitList' \in [ReqId -> Calls \cup {Absent, Orphan}]
            /\ fut' \in [Calls -> FutureStates]
        <5>1. \/ waitList' = waitList
              \/ waitList' = [waitList EXCEPT ![ids[hand[g]]] = Orphan]
          BY <3>3 DEF Deliver
        <5>2. fut' = fut \/ \E d \in Calls : fut' = [fut EXCEPT ![d] = "ready"]
          BY <3>3 DEF Deliver, Awaited
        <5>3. waitList' \in [ReqId -> Calls \cup {Absent, Orphan}]
          BY <5>1
        <5>4. fut' \in [Calls -> FutureStates]
          BY <5>2
        <5> QED
          BY <5>3, <5>4
      <4>2. got' \in [Calls -> SUBSET Calls]
        <5>1. hand[g] \in Calls
          BY <3>3 DEF Deliver, HasReply
        <5>2. got' = got \/ \E d \in Calls :
                              got' = [got EXCEPT ![d] = @ \cup {hand[g]}]
          BY <3>3 DEF Deliver, Awaited
        <5> QED
          BY <5>1, <5>2
      <4>3. /\ wpc' \in [Workers -> WorkerSteps]
            /\ hand' \in [Workers -> Calls \cup {Absent}]
        BY <3>3 DEF Deliver, WorkerStep
      <4>4. UNCHANGED <<idState, pc, requestQueue, netVars, stop, status, ownerVars, ub,
                        missed>>
        BY <3>3 DEF Deliver, WorkerStep
      <4> QED
        BY <4>1, <4>2, <4>3, <4>4
    <3>4. CASE Check(g)
      BY <3>4 DEF Check, WorkerStep
    <3>5. CASE PopAndSend(g)
      BY <3>5 DEF PopAndSend, WorkerStep
    <3>6. CASE Close(g)
      BY <3>6 DEF Close, WorkerStep
    <3> QED
      BY <2>7, <3>0, <3>1, <3>2, <3>3, <3>4, <3>5, <3>6 DEF WorkerProgress
  <2>8. ASSUME NEW g \in Workers, ZmqFails(g)
        PROVE  TypeOK'
    <3>1. requestQueue' \in Seq(Calls)
      <4>1. CASE requestQueue # <<>> /\ requestQueue' = Tail(requestQueue)
        BY <4>1
      <4> QED
        BY <2>8, <4>1 DEF ZmqFails
    <3> QED
      BY <2>8, <3>1 DEF ZmqFails, WorkerStep
  <2>9. ASSUME NEW g \in Workers, NEW c \in Calls, Serve(g, c)
        PROVE  TypeOK'
    BY <2>9 DEF Serve
  <2>10. CASE StopBegin
    BY <2>10 DEF StopBegin, OwnerStep
  <2>11. CASE StartBegin
    BY <2>11 DEF StartBegin, OwnerStep
  <2>12. CASE OwnerProgress
    <3>1. CASE Wait
      BY <3>1 DEF Wait, OwnerStep, ReqId
    <3>2. CASE UnlockNext
      BY <3>2 DEF UnlockNext, Remaining, Awaited
    <3>3. CASE UnlockDone
      BY <3>3 DEF UnlockDone, OwnerStep
    <3>4. CASE Launch
      BY <3>4 DEF Launch, OwnerStep, Workers, MayLaunch
    <3>5. CASE Join
      BY <3>5 DEF Join, OwnerStep
    <3> QED
      BY <2>12, <3>1, <3>2, <3>3, <3>4, <3>5 DEF OwnerProgress
  <2>13. CASE Corrupt
    BY <2>13 DEF Corrupt
  <2> QED
    BY <2>1, <2>2, <2>3, <2>4, <2>5, <2>6, <2>7, <2>8, <2>9, <2>10, <2>11,
       <2>12, <2>13
    DEF Next, Step, CallProgress
<1> QED
  BY <1>1, <1>2, <1>3, <1>4, <1>5, PTL DEF Spec

(***************************************************************************)
(* Every variable keeps its type, whatever the callers, the owner, the     *)
(* workers and the server do.                                              *)
(***************************************************************************)
THEOREM TypeCorrect == Spec => []TypeOK
  BY TypeInvariant, PTL
-----------------------------------------------------------------------------
(* Whatever the ids: a request is sent once, its reply is dealt with once. *)

Unsent(c) == pc[c] \in {"idle", "newid", "push"}

\* A request is in one place: queued once, under way, or executed.
SentOnce ==
  /\ \A i \in 1 .. Len(requestQueue) :
       /\ ~Unsent(requestQueue[i])
       /\ requestQueue[i] \notin executed
       /\ \A g \in Workers : requestQueue[i] \notin wire[g]
       /\ \A j \in 1 .. Len(requestQueue) : requestQueue[i] = requestQueue[j] => i = j
  /\ \A g \in Workers : \A c \in wire[g] :
       /\ ~Unsent(c) /\ c \notin executed
       /\ \A h \in Workers : c \in wire[h] => g = h
  /\ \A c \in executed : ~Unsent(c)
  /\ repeated = {}

\* A reply comes from an execution.
RepliesAreExecuted ==
  \A g \in Workers : /\ inbox[g] \subseteq executed
                     /\ hand[g] \in Calls => hand[g] \in executed

\* It is in one inbox, in one hand or in one promise; a promise that has one is
\* ready, and one that is not made yet is nowhere.
RepliesOnce ==
  /\ \A g \in Workers : \A c \in inbox[g] :
       /\ \A h \in Workers : c # hand[h] /\ (c \in inbox[h] => g = h)
       /\ \A d \in Calls : c \notin got[d]
  /\ \A g \in Workers : hand[g] \in Calls =>
       /\ \A h \in Workers : hand[h] = hand[g] => g = h
       /\ \A d \in Calls : hand[g] \notin got[d]
  /\ \A d \in Calls :
       /\ got[d] \subseteq executed
       /\ \A e, f \in got[d] : e = f
       /\ \A e \in Calls \ {d} : got[d] \cap got[e] = {}
       /\ got[d] # {} => fut[d] = "ready"
  /\ \A d \in Calls : Unsent(d) \/ pc[d] = "register" =>
       fut[d] = "none" /\ \A i \in ReqId : waitList[i] # d

OnceInv == SentOnce /\ RepliesAreExecuted /\ RepliesOnce

(***************************************************************************)
(* A request goes from the queue to a socket, and is executed once.        *)
(***************************************************************************)
LEMMA SentOnceNext ==
  ASSUME TypeOK, SentOnce, Next
  PROVE  SentOnce'
<1> USE DEF TypeOK
<1>1. ASSUME NEW c \in Calls, Push(c)
      PROVE  SentOnce'
  <2>1. /\ pc[c] = "push" /\ requestQueue' = Append(requestQueue, c)
        /\ \E to \in {"done", "register"} : pc' = [pc EXCEPT ![c] = to]
        /\ UNCHANGED netVars
    BY <1>1 DEF Push, CallStep
  <2> QED
    BY <2>1 DEF SentOnce, Unsent, netVars
<1>2. ASSUME NEW c \in Calls,
             Begin(c) \/ DrawId(c) \/ Register(c) \/ Get(c) \/ Remove(c)
      PROVE  SentOnce'
  <2>1. /\ UNCHANGED <<requestQueue, netVars>>
        /\ \A d \in Calls : Unsent(d)' => Unsent(d)
    BY <1>2 DEF Begin, DrawId, Register, Get, Remove, CallStep, Unsent
  <2> QED
    BY <2>1 DEF SentOnce, netVars
<1>3. ASSUME NEW g \in Workers, PopAndSend(g)
      PROVE  SentOnce'
  <2> DEFINE c == Head(requestQueue)
  <2>1. /\ requestQueue # <<>> /\ requestQueue' = Tail(requestQueue)
        /\ wire' = [wire EXCEPT ![g] = @ \cup {c}]
        /\ UNCHANGED <<pc, executed, repeated>>
    BY <1>3 DEF PopAndSend, WorkerStep
  <2>2. /\ c \in Calls /\ c = requestQueue[1] /\ Len(requestQueue) \in Nat \ {0}
        /\ Len(requestQueue') = Len(requestQueue) - 1
        /\ \A i \in 1 .. Len(requestQueue') : requestQueue'[i] = requestQueue[i + 1]
    BY <2>1
  <2>3. /\ ~Unsent(c) /\ c \notin executed
        /\ \A h \in Workers : c \notin wire[h]
    BY <2>2 DEF SentOnce
  <2>4. \A i \in 1 .. Len(requestQueue') :
          i + 1 \in 1 .. Len(requestQueue) /\ requestQueue'[i] # c
    BY <2>2 DEF SentOnce
  <2>5. ASSUME NEW i \in 1 .. Len(requestQueue')
        PROVE  (/\ ~Unsent(requestQueue[i])
                /\ requestQueue[i] \notin executed
                /\ \A h \in Workers : requestQueue[i] \notin wire[h])'
    BY <2>1, <2>2, <2>4 DEF SentOnce, Unsent
  <2>6. ASSUME NEW i \in 1 .. Len(requestQueue'), NEW j \in 1 .. Len(requestQueue'),
               requestQueue'[i] = requestQueue'[j]
        PROVE  i = j
    BY <2>2, <2>4, <2>6 DEF SentOnce
  <2>7. ASSUME NEW h \in Workers, NEW d \in wire'[h]
        PROVE  /\ ~Unsent(d)' /\ d \notin executed'
               /\ \A k \in Workers : d \in wire'[k] => h = k
    BY <2>1, <2>3 DEF SentOnce, Unsent
  <2>8. repeated' = {} /\ \A d \in executed' : ~Unsent(d)'
    BY <2>1 DEF SentOnce, Unsent
  <2> QED
    BY <2>5, <2>6, <2>7, <2>8 DEF SentOnce
<1>4. ASSUME NEW g \in Workers, NEW c \in Calls, Serve(g, c)
      PROVE  SentOnce'
  <2>1. /\ c \in wire[g] /\ wire' = [wire EXCEPT ![g] = @ \ {c}]
        /\ executed' = executed \cup {c}
        /\ repeated' = IF c \in executed THEN repeated \cup {c} ELSE repeated
        /\ UNCHANGED <<pc, requestQueue>>
    BY <1>4 DEF Serve, callVars
  <2>2. /\ ~Unsent(c) /\ c \notin executed
        /\ \A h \in Workers : c \in wire[h] => g = h
    BY <2>1 DEF SentOnce
  <2>3. ASSUME NEW i \in 1 .. Len(requestQueue')
        PROVE  (/\ ~Unsent(requestQueue[i])
                /\ requestQueue[i] \notin executed
                /\ \A h \in Workers : requestQueue[i] \notin wire[h])'
    <3>1. requestQueue[i] # c /\ \A h \in Workers : wire'[h] \subseteq wire[h]
      BY <2>1 DEF SentOnce
    <3> QED
      BY <2>1, <3>1 DEF SentOnce, Unsent
  <2>4. ASSUME NEW h \in Workers, NEW d \in wire'[h]
        PROVE  /\ ~Unsent(d)' /\ d \notin executed'
               /\ \A k \in Workers : d \in wire'[k] => h = k
    BY <2>1, <2>2 DEF SentOnce, Unsent
  <2>5. repeated' = {} /\ \A d \in executed' : ~Unsent(d)'
    BY <2>1, <2>2 DEF SentOnce, Unsent
  <2>6. \A i, j \in 1 .. Len(requestQueue') : requestQueue'[i] = requestQueue'[j] => i = j
    BY <2>1 DEF SentOnce
  <2> QED
    BY <2>3, <2>4, <2>5, <2>6 DEF SentOnce
<1>5. CASE UNCHANGED <<pc, requestQueue, wire, executed, repeated>>
  BY <1>5 DEF SentOnce, Unsent
<1>8. ASSUME NEW g \in Workers, ZmqFails(g)
      PROVE  SentOnce'
  <2>1. /\ UNCHANGED <<pc, wire, executed, repeated>>
        /\ \/ UNCHANGED requestQueue
           \/ requestQueue # <<>> /\ requestQueue' = Tail(requestQueue)
    BY <1>8 DEF ZmqFails, WorkerStep, netVars
  <2>2. CASE requestQueue # <<>> /\ requestQueue' = Tail(requestQueue)
    <3>1. /\ Len(requestQueue) \in Nat \ {0} /\ Len(requestQueue') = Len(requestQueue) - 1
          /\ \A i \in 1 .. Len(requestQueue') :
               i + 1 \in 1 .. Len(requestQueue) /\ requestQueue'[i] = requestQueue[i + 1]
      BY <2>2
    <3>2. ASSUME NEW i \in 1 .. Len(requestQueue')
          PROVE  (/\ ~Unsent(requestQueue[i])
                  /\ requestQueue[i] \notin executed
                  /\ \A h \in Workers : requestQueue[i] \notin wire[h])'
      BY <2>1, <3>1 DEF SentOnce, Unsent
    <3>3. ASSUME NEW i \in 1 .. Len(requestQueue'), NEW j \in 1 .. Len(requestQueue'),
                 requestQueue'[i] = requestQueue'[j]
          PROVE  i = j
      <4>1. /\ i + 1 \in 1 .. Len(requestQueue) /\ j + 1 \in 1 .. Len(requestQueue)
            /\ requestQueue[i + 1] = requestQueue[j + 1]
        BY <3>1, <3>3
      <4>2. i + 1 = j + 1
        BY <4>1 DEF SentOnce
      <4> QED
        BY <4>2
    <3> QED
      BY <2>1, <3>2, <3>3 DEF SentOnce, Unsent
  <2> QED
    BY <1>5, <2>1, <2>2
<1>6. ASSUME NEW g \in Workers,
             Connect(g) \/ Loop(g) \/ Poll(g) \/ Deliver(g) \/ Check(g) \/ Close(g)
      PROVE  SentOnce'
  BY <1>5, <1>6 DEF Connect, Loop, Poll, Deliver, Check, Close, WorkerStep, netVars
<1>7. CASE StopBegin \/ StartBegin \/ OwnerProgress \/ Corrupt
  BY <1>5, <1>7
  DEF StopBegin, StartBegin, OwnerProgress, Wait, UnlockNext, UnlockDone, Launch, Join,
      Corrupt, OwnerStep, callVars, netVars
<1> QED
  BY <1>1, <1>2, <1>3, <1>4, <1>6, <1>7, <1>8
  DEF Next, Step, CallProgress, WorkerProgress

(***************************************************************************)
(* A reply goes from an inbox to a worker's hand and into one promise.     *)
(***************************************************************************)
LEMMA RepliesNext ==
  ASSUME TypeOK, HasReply, OnceInv, Next
  PROVE  RepliesAreExecuted' /\ RepliesOnce'
<1> USE DEF TypeOK, OnceInv, RepliesAreExecuted
<1>0. Absent \notin Calls
  BY ClientAssumption
<1>1. ASSUME UNCHANGED <<inbox, hand, got, executed>>,
             \A d \in Calls : got[d] # {} => fut'[d] = fut[d],
             \A d \in Calls : (Unsent(d) \/ pc[d] = "register")' =>
               /\ Unsent(d) \/ pc[d] = "register"
               /\ fut'[d] = fut[d]
               /\ \A i \in ReqId : waitList'[i] = d => waitList[i] = d
      PROVE  RepliesAreExecuted' /\ RepliesOnce'
  BY <1>1 DEF RepliesOnce
<1>2. ASSUME NEW c \in Calls, Begin(c) \/ DrawId(c) \/ Push(c) \/ Get(c)
      PROVE  RepliesAreExecuted' /\ RepliesOnce'
  <2>1. /\ UNCHANGED <<inbox, hand, got, executed, fut, waitList>>
        /\ \A d \in Calls : (Unsent(d) \/ pc[d] = "register")' => Unsent(d) \/ pc[d] = "register"
    BY <1>2
    DEF Begin, DrawId, Push, Get, CallStep, Unsent, netVars, workerVars
  <2> QED
    BY <1>1, <2>1
<1>3. ASSUME NEW c \in Calls, Register(c) \/ Remove(c)
      PROVE  RepliesAreExecuted' /\ RepliesOnce'
  <2>1. /\ pc[c] \in {"register", "remove"}
        /\ \E to \in {"waiting", "done", "notfound"} : pc' = [pc EXCEPT ![c] = to]
        /\ UNCHANGED <<inbox, hand, got, executed>>
    BY <1>3 DEF Register, Remove, CallStep, netVars, workerVars
  <2>2. \A d \in Calls : fut[d] \in {"none", "ready"} /\ (d = c => pc[c] # "register") =>
          fut'[d] = fut[d]
    BY <1>3 DEF Register, Remove, Break, CallStep
  <2>3. \A d \in Calls \ {c} : \A i \in ReqId : waitList'[i] = d => waitList[i] = d
    BY <1>0, <1>3 DEF Register, Remove
  <2>4. \A d \in Calls : got[d] # {} => fut'[d] = fut[d]
    BY <2>2 DEF RepliesOnce
  <2>5. \A d \in Calls : (Unsent(d) \/ pc[d] = "register")' =>
          /\ d # c /\ (Unsent(d) \/ pc[d] = "register") /\ fut'[d] = fut[d]
    BY <2>1, <2>2 DEF RepliesOnce, Unsent
  <2> QED
    BY <1>1, <2>1, <2>3, <2>4, <2>5
<1>4. ASSUME NEW g \in Workers, Poll(g)
      PROVE  RepliesAreExecuted' /\ RepliesOnce'
  <2>1. UNCHANGED <<pc, fut, got, waitList, executed>>
    BY <1>4 DEF Poll, WorkerStep
  <2>2. CASE inbox' = inbox /\ hand' = hand
    BY <1>1, <2>1, <2>2 DEF Unsent
  <2>3. ASSUME NEW c \in inbox[g],
               hand' = [hand EXCEPT ![g] = c],
               inbox' = [inbox EXCEPT ![g] = @ \ {c}]
        PROVE  RepliesAreExecuted' /\ RepliesOnce'
    <3>1. /\ c \in executed /\ \A d \in Calls : c \notin got[d]
          /\ \A h \in Workers : c # hand[h] /\ (c \in inbox[h] => g = h)
      BY DEF RepliesOnce
    <3>2. /\ \A h \in Workers : inbox'[h] \subseteq inbox[h] /\ c \notin inbox'[h]
          /\ hand'[g] = c /\ \A h \in Workers \ {g} : hand'[h] = hand[h]
      BY <2>3, <3>1
    <3>3. RepliesAreExecuted'
      BY <2>1, <3>1, <3>2
    <3>4. \A h \in Workers : \A d \in inbox'[h] :
            /\ \A k \in Workers : d # hand'[k] /\ (d \in inbox'[k] => h = k)
            /\ \A e \in Calls : d \notin got[e]
      <4> SUFFICES ASSUME NEW h \in Workers, NEW d \in inbox'[h]
                   PROVE  /\ \A k \in Workers : d # hand'[k] /\ (d \in inbox'[k] => h = k)
                          /\ \A e \in Calls : d \notin got[e]
        OBVIOUS
      <4>1. d \in inbox[h] /\ d # c
        BY <3>2
      <4> QED
        BY <3>2, <4>1 DEF RepliesOnce
    <3>5. \A h \in Workers : hand'[h] \in Calls =>
            /\ \A k \in Workers : hand'[k] = hand'[h] => h = k
            /\ \A d \in Calls : hand'[h] \notin got[d]
      <4>1. \A h \in Workers : h = g \/ (hand'[h] = hand[h] /\ hand'[h] # c)
        BY <3>1, <3>2
      <4> QED
        BY <3>1, <3>2, <4>1 DEF RepliesOnce
    <3> QED
      BY <2>1, <3>3, <3>4, <3>5 DEF RepliesOnce, Unsent
  <2> QED
    BY <1>4, <2>2, <2>3 DEF Poll
<1>5. ASSUME NEW g \in Workers, Deliver(g)
      PROVE  RepliesAreExecuted' /\ RepliesOnce'
  <2>1. /\ hand' = [hand EXCEPT ![g] = Absent] /\ hand[g] \in Calls
        /\ UNCHANGED <<pc, inbox, executed>>
    BY <1>5 DEF Deliver, WorkerStep, HasReply, netVars
  <2>2. PICK c \in Calls : c = hand[g]
    BY <2>1
  <2>3. /\ c \in executed /\ \A d \in Calls : c \notin got[d]
        /\ \A h \in Workers : c \notin inbox[h] /\ (hand[h] = c => g = h)
    BY <2>2 DEF RepliesOnce
  <2>4. \A h \in Workers : hand'[h] = IF h = g THEN Absent ELSE hand[h]
    BY <2>1
  <2>5. RepliesAreExecuted'
    BY <1>0, <2>1, <2>4
  <2>6. ASSUME NEW d \in Calls, d = waitList[ids[c]], ids[c] \in ReqId, fut[d] # "ready",
               fut' = [fut EXCEPT ![d] = "ready"],
               got' = [got EXCEPT ![d] = @ \cup {c}],
               UNCHANGED waitList
        PROVE  RepliesOnce'
    <3>1. got[d] = {} /\ ~Unsent(d) /\ pc[d] # "register"
      BY <2>6 DEF RepliesOnce
    <3>2. /\ got'[d] = {c} /\ fut'[d] = "ready"
          /\ \A e \in Calls \ {d} : got'[e] = got[e] /\ fut'[e] = fut[e]
      BY <2>6, <3>1
    <3>3. \A f \in Calls : \A e \in got'[f] : e = c \/ e \in got[f]
      BY <3>2
    <3>4. \A h \in Workers : \A e \in inbox'[h] :
            /\ \A k \in Workers : e # hand'[k] /\ (e \in inbox'[k] => h = k)
            /\ \A f \in Calls : e \notin got'[f]
      BY <1>0, <2>1, <2>3, <2>4, <3>3 DEF RepliesOnce
    <3>5. \A h \in Workers : hand'[h] \in Calls =>
            /\ \A k \in Workers : hand'[k] = hand'[h] => h = k
            /\ \A f \in Calls : hand'[h] \notin got'[f]
      <4>1. \A h \in Workers : hand'[h] \in Calls => h # g /\ hand'[h] = hand[h] /\ hand[h] # c
        BY <1>0, <2>3, <2>4
      <4> QED
        BY <1>0, <2>4, <3>3, <4>1 DEF RepliesOnce
    <3>6. \A e \in Calls :
            /\ got'[e] \subseteq executed'
            /\ \A x, y \in got'[e] : x = y
            /\ \A f \in Calls \ {e} : got'[e] \cap got'[f] = {}
            /\ got'[e] # {} => fut'[e] = "ready"
      <4> SUFFICES ASSUME NEW e \in Calls
                   PROVE  /\ got'[e] \subseteq executed'
                          /\ \A x, y \in got'[e] : x = y
                          /\ \A f \in Calls \ {e} : got'[e] \cap got'[f] = {}
                          /\ got'[e] # {} => fut'[e] = "ready"
        OBVIOUS
      <4>1. CASE e = d
        BY <2>1, <2>3, <3>2, <4>1 DEF RepliesOnce
      <4>2. CASE e # d
        <5>1. got'[e] = got[e] /\ fut'[e] = fut[e] /\ c \notin got[e]
          BY <2>3, <3>2, <4>2
        <5>2. \A f \in Calls \ {e} : got'[e] \cap got'[f] = {}
          BY <3>2, <5>1 DEF RepliesOnce
        <5> QED
          BY <2>1, <5>1, <5>2 DEF RepliesOnce
      <4> QED
        BY <4>1, <4>2
    <3>7. \A e \in Calls : (Unsent(e) \/ pc[e] = "register")' =>
            fut'[e] = "none" /\ \A i \in ReqId : waitList'[i] # e
      BY <2>1, <2>6, <3>1, <3>2 DEF RepliesOnce, Unsent
    <3> QED
      BY <3>4, <3>5, <3>6, <3>7 DEF RepliesOnce
  <2>7. CASE /\ UNCHANGED <<fut, got>>
             /\ \E i \in ReqId : waitList' = waitList \/ waitList' = [waitList EXCEPT ![i] = Orphan]
    <3>1. \A h \in Workers : hand'[h] \in Calls => hand'[h] = hand[h] /\ h # g
      BY <1>0, <2>4
    <3>2. \A e \in Calls, i \in ReqId : waitList'[i] = e => waitList[i] = e
      BY <2>7, ClientAssumption
    <3>3. \A h \in Workers : \A e \in inbox'[h] :
            /\ \A k \in Workers : e # hand'[k] /\ (e \in inbox'[k] => h = k)
            /\ \A f \in Calls : e \notin got'[f]
      BY <1>0, <2>1, <2>4, <2>7 DEF RepliesOnce
    <3>6. \A h \in Workers : hand'[h] \in Calls =>
            /\ \A k \in Workers : hand'[k] = hand'[h] => h = k
            /\ \A f \in Calls : hand'[h] \notin got'[f]
      BY <1>0, <2>1, <2>4, <2>7 DEF RepliesOnce
    <3>4. \A e \in Calls : (Unsent(e) \/ pc[e] = "register")' =>
            fut'[e] = "none" /\ \A i \in ReqId : waitList'[i] # e
      BY <2>1, <2>7, <3>2 DEF RepliesOnce, Unsent
    <3>5. \A e \in Calls :
            /\ got'[e] \subseteq executed'
            /\ \A x, y \in got'[e] : x = y
            /\ \A f \in Calls \ {e} : got'[e] \cap got'[f] = {}
            /\ got'[e] # {} => fut'[e] = "ready"
      BY <2>1, <2>7 DEF RepliesOnce
    <3> QED
      BY <2>5, <3>3, <3>4, <3>5, <3>6 DEF RepliesOnce
  <2>8. ids[c] \in ReqId
    BY DEF IdTypeOK
  <2> QED
    BY <1>5, <2>2, <2>5, <2>6, <2>7, <2>8 DEF Deliver, Awaited
<1>6. ASSUME NEW g \in Workers, NEW c \in Calls, Serve(g, c)
      PROVE  RepliesAreExecuted' /\ RepliesOnce'
  <2>1. /\ c \in wire[g] /\ executed' = executed \cup {c}
        /\ inbox' = [inbox EXCEPT ![g] = @ \cup {c}] \/ inbox' = inbox
        /\ UNCHANGED <<pc, fut, got, waitList, hand>>
    BY <1>6 DEF Serve, callVars, workerVars
  <2>2. c \notin executed
    BY <2>1 DEF SentOnce
  <2>3. \A h \in Workers : c \notin inbox[h] /\ c # hand[h]
    BY <2>2
  <2>4. \A d \in Calls : c \notin got[d]
    BY <2>2 DEF RepliesOnce
  <2>5. RepliesAreExecuted'
    BY <2>1
  <2>6. \A h \in Workers : \A e \in inbox'[h] :
          /\ \A k \in Workers : e # hand[k] /\ (e \in inbox'[k] => h = k)
          /\ \A f \in Calls : e \notin got[f]
    BY <2>1, <2>3, <2>4 DEF RepliesOnce
  <2> QED
    BY <2>1, <2>5, <2>6 DEF RepliesOnce, Unsent
<1>7. CASE UnlockNext
  <2>1. PICK i \in ReqId :
          /\ \/ UNCHANGED fut
             \/ /\ waitList[i] \in Calls /\ fut[waitList[i]] # "ready"
                /\ fut' = [fut EXCEPT ![waitList[i]] = "empty"]
          /\ UNCHANGED <<pc, got, waitList, executed, inbox, hand>>
    BY <1>7 DEF UnlockNext, Remaining, Awaited, netVars, workerVars
  <2>2. \A d \in Calls : fut'[d] = fut[d] \/ (fut[d] # "ready" /\ \E j \in ReqId : waitList[j] = d)
    BY <2>1
  <2> QED
    BY <1>1, <2>1, <2>2 DEF RepliesOnce, Unsent
<1>8. CASE UNCHANGED <<pc, fut, got, waitList, executed, inbox, hand>>
  BY <1>1, <1>8 DEF Unsent
<1>9. ASSUME NEW g \in Workers,
             Connect(g) \/ Loop(g) \/ ZmqFails(g) \/ PopAndSend(g) \/ Check(g) \/ Close(g)
      PROVE  RepliesAreExecuted' /\ RepliesOnce'
  BY <1>8, <1>9 DEF Connect, Loop, ZmqFails, PopAndSend, Check, Close, WorkerStep, netVars
<1>10. CASE StopBegin \/ StartBegin \/ Wait \/ UnlockDone \/ Launch \/ Join \/ Corrupt
  BY <1>8, <1>10
  DEF StopBegin, StartBegin, Wait, UnlockDone, Launch, Join, Corrupt, OwnerStep, callVars,
      netVars, workerVars
<1> QED
  BY <1>2, <1>3, <1>4, <1>5, <1>6, <1>7, <1>9, <1>10
  DEF Next, Step, CallProgress, WorkerProgress, OwnerProgress

(***************************************************************************)
(* SentOnce, RepliesAreExecuted and RepliesOnce are inductive together.    *)
(***************************************************************************)
LEMMA OnceInvariant == Spec => []OnceInv
<1>1. Init => OnceInv
  BY ClientAssumption DEF Init, OnceInv, SentOnce, RepliesAreExecuted, RepliesOnce
<1>2. TypeOK /\ HasReply /\ OnceInv /\ [Next]_vars => OnceInv'
  <2>1. CASE Next
    BY <2>1, SentOnceNext, RepliesNext DEF OnceInv
  <2>2. CASE UNCHANGED vars
    <3>1. UNCHANGED <<pc, fut, got, waitList, requestQueue, wire, inbox, executed, repeated,
                    hand>>
      BY <2>2 DEF vars, callVars, netVars, workerVars
    <3> QED
      BY <3>1 DEF OnceInv, SentOnce, RepliesAreExecuted, RepliesOnce, Unsent
  <2> QED
    BY <2>1, <2>2
<1> QED
  BY <1>1, <1>2, TypeInvariant, PTL DEF Spec

(***************************************************************************)
(* Whatever ids the callers pass to Send, no request is executed twice, no *)
(* reply is given to two calls and no call gets two.                       *)
(***************************************************************************)
THEOREM RepliesAreNotSharedCorrect == Spec => []RepliesAreNotShared
<1>1. OnceInv => RepliesAreNotShared
  BY DEF OnceInv, SentOnce, RepliesOnce, RepliesAreNotShared
<1> QED
  BY <1>1, OnceInvariant, PTL

-----------------------------------------------------------------------------
(* The refinement.  Callers that give ids to Send are expected to give      *)
(* different ones to calls that expect replies.                             *)

DistinctGivenIds ==
  \A c, d \in Calls \ NoReply :
    GivenId[c] # NullReqId /\ (GivenId[c] = GivenId[d] => c = d)

Registered(c) == pc[c] \in {"waiting", "remove"}

\* Calls have the id they were given.
IdsGiven ==
  \A c \in Calls :
    /\ pc[c] # "newid"
    /\ c \in NoReply => pc[c] \in {"idle", "push", "done"}
    /\ pc[c] # "idle" => ids[c] = IF c \in NoReply THEN NullReqId ELSE GivenId[c]

\* The entry of a registered call is its own, and there are no others.
OwnEntries ==
  /\ \A i \in ReqId : waitList[i] \in Calls =>
       ids[waitList[i]] = i /\ Registered(waitList[i])
  /\ \A c \in Calls : Registered(c) => waitList[ids[c]] = c

\* A future is there once registered, never broken, and set before it is
\* removed; the reply in it is the call's own.
OwnFutures ==
  \A c \in Calls :
    /\ fut[c] = "none" <=> Unsent(c) \/ pc[c] = "register" \/ c \in NoReply
    /\ fut[c] # "broken" /\ pc[c] \notin {"broken", "notfound"}
    /\ pc[c] \in {"remove", "done"} /\ c \notin NoReply => fut[c] \in {"ready", "empty"}
    /\ got[c] = IF fut[c] = "ready" THEN {c} ELSE {}

StopRequested == opc \in {"wait", "unlock"} => stop

CallsInv == IdsGiven /\ OwnEntries /\ OwnFutures /\ StopRequested

ClientInv == OnceInv /\ CallsInv

(***************************************************************************)
(* Two requests with the same id, other than the null id, are the same.    *)
(***************************************************************************)
LEMMA SameId ==
  ASSUME DistinctGivenIds, IdsGiven, NEW c \in Calls, NEW d \in Calls,
         pc[c] # "idle", pc[d] # "idle", ids[c] = ids[d], ids[c] # NullReqId
  PROVE  c = d
  BY DEF DistinctGivenIds, IdsGiven

(***************************************************************************)
(* A call of Send that has begun and not ended has an id other than null.  *)
(***************************************************************************)
LEMMA NotNull ==
  ASSUME DistinctGivenIds, IdsGiven, NEW c \in Calls,
         pc[c] \notin {"idle", "push", "done"}
  PROVE  ids[c] # NullReqId /\ c \notin NoReply
  BY DEF DistinctGivenIds, IdsGiven

(***************************************************************************)
(* Send() and Reply::Get() drop no promise that somebody waits for.        *)
(***************************************************************************)
LEMMA NoBreak ==
  ASSUME DistinctGivenIds, TypeOK, ClientInv, NEW c \in Calls
  PROVE  /\ Register(c) => fut' = [fut EXCEPT ![c] = "pending"]
                            /\ waitList[ids[c]] \notin Calls
         /\ Remove(c) => fut' = fut /\ waitList[ids[c]] = c
<1> USE DEF TypeOK, ClientInv, CallsInv
<1>1. ASSUME Register(c)
      PROVE  fut' = [fut EXCEPT ![c] = "pending"] /\ waitList[ids[c]] \notin Calls
  <2>1. pc[c] = "register" /\ ids[c] # NullReqId /\ ids[c] \in ReqId
    BY <1>1, NotNull DEF Register, CallStep, IdTypeOK
  <2>2. waitList[ids[c]] \notin Calls
    <3> SUFFICES ASSUME waitList[ids[c]] \in Calls
                 PROVE  FALSE
      OBVIOUS
    <3>1. ids[waitList[ids[c]]] = ids[c] /\ Registered(waitList[ids[c]])
      BY <2>1 DEF OwnEntries
    <3>2. waitList[ids[c]] = c
      BY <2>1, <3>1, SameId DEF Registered
    <3> QED
      BY <2>1, <3>1, <3>2 DEF Registered
  <2> QED
    BY <1>1, <2>2 DEF Register, Break
<1>2. ASSUME Remove(c)
      PROVE  fut' = fut /\ waitList[ids[c]] = c
  <2>1. pc[c] = "remove" /\ c \notin NoReply
    BY <1>2, NotNull DEF Remove, CallStep
  <2>2. waitList[ids[c]] = c /\ fut[c] \in {"ready", "empty"}
    BY <2>1 DEF OwnEntries, OwnFutures, Registered
  <2> QED
    BY <1>2, <2>2 DEF Remove, Break
<1> QED
  BY <1>1, <1>2

(***************************************************************************)
(* The entry of waitList_ that a reply meets is that of its request.       *)
(***************************************************************************)
LEMMA OwnReply ==
  ASSUME DistinctGivenIds, TypeOK, HasReply, ClientInv,
         NEW g \in Workers, wpc[g] = "deliver",
         ids[hand[g]] # NullReqId, waitList[ids[hand[g]]] \in Calls
  PROVE  /\ hand[g] \in Calls /\ hand[g] \in executed
         /\ waitList[ids[hand[g]]] = hand[g]
<1> USE DEF TypeOK, ClientInv, CallsInv, OnceInv
<1> DEFINE c == hand[g]
<1>1. c \in Calls /\ c \in executed /\ ~Unsent(c) /\ ids[c] \in ReqId
  BY DEF HasReply, RepliesAreExecuted, SentOnce, IdTypeOK
<1>2. ids[waitList[ids[c]]] = ids[c] /\ Registered(waitList[ids[c]])
  BY <1>1 DEF OwnEntries
<1>3. waitList[ids[c]] = c
  BY <1>1, <1>2, SameId DEF Unsent, Registered
<1> QED
  BY <1>1, <1>3

(***************************************************************************)
(* Every step of a call, a worker, the server and the owner preserves      *)
(* ClientInv.                                                              *)
(***************************************************************************)
LEMMA ClientInvNext ==
  ASSUME DistinctGivenIds, TypeOK, HasReply, ClientInv, Next
  PROVE  CallsInv'
<1> USE ClientAssumption
    DEF ClientInv, CallsInv, TypeOK, callVars, idState, workerVars, netVars, ownerVars
<1>1. ASSUME NEW c \in Calls, Begin(c)
      PROVE  CallsInv'
  <2>1. /\ pc[c] = "idle" /\ pc' = [pc EXCEPT ![c] = "push"]
        /\ ids' = [ids EXCEPT ![c] = IF c \in NoReply THEN NullReqId ELSE GivenId[c]]
        /\ UNCHANGED <<fut, got, waitList, requestQueue, netVars, workerVars, stop, opc,
                       cont>>
    BY <1>1 DEF Begin, CallStep, DistinctGivenIds
  <2>2. IdsGiven'
    BY <2>1 DEF IdsGiven, IdTypeOK
  <2>3. OwnEntries'
    BY <2>1 DEF OwnEntries, Registered, IdTypeOK
  <2>4. OwnFutures' /\ StopRequested'
    BY <2>1 DEF OwnFutures, Unsent, StopRequested
  <2> QED
    BY <2>2, <2>3, <2>4
<1>2. ASSUME NEW c \in Calls, DrawId(c)
      PROVE  CallsInv'
  BY <1>2 DEF DrawId, CallStep, IdsGiven
<1>3. ASSUME NEW c \in Calls, Push(c)
      PROVE  CallsInv'
  <2>1. /\ pc[c] = "push"
        /\ pc' = [pc EXCEPT ![c] = IF c \in NoReply THEN "done" ELSE "register"]
        /\ requestQueue' = Append(requestQueue, c)
        /\ UNCHANGED <<ids, fut, got, waitList, netVars, workerVars, stop, opc, cont>>
    BY <1>3 DEF Push, CallStep
  <2>2. IdsGiven' /\ OwnEntries' /\ StopRequested'
    BY <2>1 DEF IdsGiven, OwnEntries, Registered, StopRequested
  <2>3. OwnFutures'
    BY <2>1 DEF OwnFutures, Unsent
  <2> QED
    BY <2>2, <2>3
<1>4. ASSUME NEW c \in Calls, Register(c)
      PROVE  CallsInv'
  <2>1. /\ pc[c] = "register" /\ pc' = [pc EXCEPT ![c] = "waiting"]
        /\ waitList' = [waitList EXCEPT ![ids[c]] = c]
        /\ UNCHANGED <<ids, got, requestQueue, netVars, workerVars, stop, opc, cont>>
    BY <1>4 DEF Register, CallStep
  <2>2. ids[c] # NullReqId /\ c \notin NoReply /\ ids[c] \in ReqId
    BY <2>1, NotNull DEF IdTypeOK
  <2>3. fut' = [fut EXCEPT ![c] = "pending"] /\ waitList[ids[c]] \notin Calls
    BY <1>4, NoBreak
  <2>4. IdsGiven' /\ StopRequested'
    BY <2>1, <2>2 DEF IdsGiven, StopRequested
  <2>5. OwnFutures'
    BY <2>1, <2>2, <2>3 DEF OwnFutures, Unsent
  <2>6. OwnEntries'
    BY <2>1, <2>2, <2>3, SameId DEF OwnEntries, Registered, IdTypeOK
  <2> QED
    BY <2>4, <2>5, <2>6
<1>5. ASSUME NEW c \in Calls, Get(c)
      PROVE  CallsInv'
  <2>1. /\ pc[c] = "waiting" /\ pc' = [pc EXCEPT ![c] = "remove"]
        /\ fut[c] \in {"ready", "empty"}
        /\ UNCHANGED <<ids, fut, got, waitList, requestQueue, netVars, workerVars, stop,
                       opc, cont>>
    BY <1>5 DEF Get, CallStep, OwnFutures
  <2>2. c \notin NoReply
    BY <2>1, NotNull
  <2>3. IdsGiven' /\ StopRequested'
    BY <2>1, <2>2 DEF IdsGiven, StopRequested
  <2>4. OwnFutures' /\ OwnEntries'
    BY <2>1, <2>2 DEF OwnFutures, OwnEntries, Unsent, Registered
  <2> QED
    BY <2>3, <2>4
<1>6. ASSUME NEW c \in Calls, Remove(c)
      PROVE  CallsInv'
  <2>1. /\ pc[c] = "remove"
        /\ waitList' = [waitList EXCEPT ![ids[c]] = Absent]
        /\ UNCHANGED <<ids, got, requestQueue, netVars, workerVars, stop, opc, cont>>
    BY <1>6 DEF Remove, CallStep
  <2>2. ids[c] # NullReqId /\ c \notin NoReply /\ ids[c] \in ReqId
    BY <2>1, NotNull DEF IdTypeOK
  <2>3. waitList[ids[c]] = c /\ fut[c] \in {"ready", "empty"}
    BY <2>1, <2>2 DEF OwnEntries, OwnFutures, Registered
  <2>4. pc' = [pc EXCEPT ![c] = "done"] /\ fut' = fut
    BY <1>6, <2>3 DEF Remove, CallStep, Break
  <2>5. IdsGiven' /\ StopRequested'
    BY <2>1, <2>2, <2>4 DEF IdsGiven, StopRequested
  <2>6. OwnFutures'
    BY <2>1, <2>2, <2>3, <2>4 DEF OwnFutures, Unsent
  <2>7. OwnEntries'
    BY <2>1, <2>2, <2>3, <2>4, SameId DEF OwnEntries, Registered, IdTypeOK
  <2> QED
    BY <2>5, <2>6, <2>7
<1>7. ASSUME NEW g \in Workers, Deliver(g)
      PROVE  CallsInv'
  <2>1. /\ wpc[g] = "deliver" /\ hand' = [hand EXCEPT ![g] = Absent]
        /\ UNCHANGED <<ids, pc, requestQueue, netVars, stop, opc, cont>>
    BY <1>7 DEF Deliver, WorkerStep
  <2>2. PICK c \in Calls : c = hand[g]
    BY <2>1 DEF HasReply
  <2>3. c \in executed /\ ~Unsent(c) /\ ids[c] \in ReqId
    BY <2>2 DEF OnceInv, RepliesAreExecuted, SentOnce, IdTypeOK
  <2>4. IdsGiven' /\ StopRequested'
    BY <2>1 DEF IdsGiven, StopRequested
  <2>5. CASE /\ Awaited(ids[c]) /\ ids[c] # NullReqId
             /\ fut' = [fut EXCEPT ![waitList[ids[c]]] = "ready"]
             /\ got' = [got EXCEPT ![waitList[ids[c]]] = @ \cup {c}]
             /\ UNCHANGED waitList
    <3>1. waitList[ids[c]] = c
      BY <2>1, <2>2, <2>5, OwnReply DEF Awaited
    <3>2. Registered(c)
      BY <2>3, <3>1 DEF OwnEntries
    <3>3. got[c] = {} /\ c \notin NoReply
      BY <2>5, <3>1, <3>2, NotNull DEF OwnFutures, Awaited, Registered
    <3>4. fut' = [fut EXCEPT ![c] = "ready"] /\ got' = [got EXCEPT ![c] = {c}]
      BY <2>5, <3>1, <3>3
    <3>5. OwnFutures'
      BY <2>1, <2>3, <3>2, <3>3, <3>4 DEF OwnFutures, Unsent, Registered
    <3>6. OwnEntries'
      BY <2>1, <2>5 DEF OwnEntries, Registered
    <3> QED
      BY <2>4, <3>5, <3>6
  <2>6. CASE /\ waitList[ids[c]] = Absent
             /\ waitList' = [waitList EXCEPT ![ids[c]] = Orphan]
             /\ UNCHANGED <<fut, got>>
    <3>1. OwnEntries'
      BY <2>1, <2>3, <2>6 DEF OwnEntries, Registered
    <3>2. OwnFutures'
      BY <2>1, <2>6 DEF OwnFutures, Unsent
    <3> QED
      BY <2>4, <3>1, <3>2
  <2>7. CASE UNCHANGED <<fut, got, waitList>>
    BY <2>1, <2>4, <2>7 DEF OwnEntries, OwnFutures, Unsent, Registered
  <2> QED
    BY <1>7, <2>2, <2>5, <2>6, <2>7 DEF Deliver
<1>8. CASE UnlockNext
  <2>1. PICK i \in Remaining :
          /\ opc = "unlock"
          /\ \/ /\ Awaited(i)
                /\ fut' = [fut EXCEPT ![waitList[i]] = "empty"]
                /\ UNCHANGED opc
             \/ opc' = "idle" /\ UNCHANGED fut
          /\ UNCHANGED <<ids, pc, got, waitList, requestQueue, netVars, hand, stop, cont>>
    BY <1>8 DEF UnlockNext
  <2>2. OwnFutures'
    <3>1. CASE UNCHANGED fut
      BY <2>1, <3>1 DEF OwnFutures, Unsent
    <3>2. CASE Awaited(i) /\ fut' = [fut EXCEPT ![waitList[i]] = "empty"]
      <4>1. i \in ReqId /\ waitList[i] \in Calls /\ Registered(waitList[i])
        BY <2>1, <3>2 DEF Awaited, Remaining, OwnEntries
      <4>2. fut[waitList[i]] # "ready" /\ waitList[i] \notin NoReply
        BY <3>2, <4>1, NotNull DEF Awaited, Registered
      <4> QED
        BY <2>1, <3>2, <4>1, <4>2 DEF OwnFutures, Unsent, Registered
    <3> QED
      BY <2>1, <3>1, <3>2
  <2>3. IdsGiven' /\ StopRequested'
    BY <2>1 DEF IdsGiven, StopRequested
  <2>4. OwnEntries'
    BY <2>1 DEF OwnEntries, Registered
  <2> QED
    BY <2>2, <2>3, <2>4
<1>9. CASE UNCHANGED <<ids, pc, fut, got, waitList>> /\ StopRequested'
  BY <1>9 DEF IdsGiven, OwnEntries, OwnFutures, Unsent, Registered
<1>10. CASE StopBegin \/ StartBegin \/ Wait \/ UnlockDone \/ Launch \/ Join \/ Corrupt
  <2>1. UNCHANGED <<ids, pc, fut, got, waitList>>
    BY <1>10
    DEF StopBegin, StartBegin, Wait, UnlockDone, Launch, Join, Corrupt, OwnerStep
  <2>2. StopRequested'
    BY <1>10
    DEF StopBegin, StartBegin, Wait, UnlockDone, Launch, Join, Corrupt, OwnerStep,
        StopRequested
  <2> QED
    BY <1>9, <2>1, <2>2
<1>11. ASSUME NEW g \in Workers,
              \/ Connect(g) \/ Loop(g) \/ ZmqFails(g) \/ Poll(g) \/ Check(g) \/ PopAndSend(g)
              \/ Close(g) \/ \E c \in Calls : Serve(g, c)
       PROVE  CallsInv'
  <2>1. UNCHANGED <<ids, pc, fut, got, waitList, opc, stop>>
    BY <1>11 DEF Connect, Loop, ZmqFails, Poll, Check, PopAndSend, Close, WorkerStep, Serve
  <2>2. StopRequested'
    BY <2>1 DEF StopRequested
  <2> QED
    BY <1>9, <2>1, <2>2
<1> QED
  BY <1>1, <1>2, <1>3, <1>4, <1>5, <1>6, <1>7, <1>8, <1>10, <1>11
  DEF Next, Step, CallProgress, WorkerProgress, OwnerProgress

(***************************************************************************)
(* ClientInv is an invariant of the client.                                *)
(***************************************************************************)
LEMMA ClientInvariant ==
  ASSUME DistinctGivenIds
  PROVE  Spec => []ClientInv
<1>1. Init => CallsInv
  <2> SUFFICES ASSUME Init
               PROVE  CallsInv
    OBVIOUS
  <2> USE ClientAssumption DEF Init
  <2>1. IdsGiven /\ StopRequested
    BY DEF IdsGiven, StopRequested
  <2>2. OwnEntries
    BY DEF OwnEntries, Registered
  <2>3. OwnFutures
    BY DEF OwnFutures, Unsent
  <2> QED
    BY <2>1, <2>2, <2>3 DEF CallsInv
<1>2. TypeOK /\ HasReply /\ ClientInv /\ [Next]_vars => CallsInv'
  <2>1. CASE Next
    BY <2>1, ClientInvNext
  <2>2. CASE UNCHANGED vars
    <3>1. UNCHANGED <<ids, pc, fut, got, waitList, opc, stop>>
      BY <2>2 DEF vars, callVars, idState, ownerVars
    <3>2. CallsInv => IdsGiven' /\ OwnEntries'
      BY <3>1 DEF CallsInv, IdsGiven, OwnEntries, Registered
    <3>3. CallsInv => OwnFutures' /\ StopRequested'
      BY <3>1 DEF CallsInv, OwnFutures, StopRequested, Unsent
    <3> QED
      BY <3>2, <3>3 DEF ClientInv, CallsInv
  <2> QED
    BY <2>1, <2>2
<1> QED
  BY <1>1, <1>2, TypeInvariant, OnceInvariant, PTL DEF Spec, ClientInv

(***************************************************************************)
(* Calls that were given different ids get the replies to their own        *)
(* requests.                                                               *)
(***************************************************************************)
THEOREM ReplyMatchesCorrect ==
  ASSUME DistinctGivenIds
  PROVE  Spec => []ReplyMatches
<1>1. ClientInv => ReplyMatches
  BY DEF ClientInv, CallsInv, OwnFutures, ReplyMatches
<1> QED
  BY <1>1, ClientInvariant, PTL

(***************************************************************************)
(* Calls that were given different ids never break each other's promises   *)
(* and always find their entries when they remove them.                    *)
(***************************************************************************)
THEOREM EntriesAreKeptCorrect ==
  ASSUME DistinctGivenIds
  PROVE  Spec => []EntriesAreKept
<1>1. ClientInv => EntriesAreKept
  BY DEF ClientInv, CallsInv, OwnFutures, EntriesAreKept
<1> QED
  BY <1>1, ClientInvariant, PTL

-----------------------------------------------------------------------------

(***************************************************************************)
(* Every step of the client is a step of RemoteCall or leaves its variables *)
(* unchanged.                                                              *)
(***************************************************************************)
LEMMA PhaseStep ==
  ASSUME DistinctGivenIds, TypeOK, HasReply, ClientInv, Next
  PROVE  Abstract!Next \/ UNCHANGED Abstract!vars
<1> USE DEF ClientInv, OnceInv, CallsInv, TypeOK, callVars, idState, workerVars, netVars, ownerVars
<1>1. ASSUME \A d \in Calls : Phase(d)' = Phase(d),
             UNCHANGED <<executed, repeated, stop>>
      PROVE  UNCHANGED Abstract!vars
  BY <1>1 DEF Abstract!vars, Executions
<1>2. ASSUME NEW c \in Calls, Begin(c) \/ DrawId(c) \/ Get(c)
      PROVE  UNCHANGED Abstract!vars
  <2>1. UNCHANGED <<fut, got, executed, repeated, stop>>
    BY <1>2 DEF Begin, DrawId, Get, CallStep
  <2>2. \A d \in Calls : pc'[d] \in {"idle", "newid", "push"}
                          <=> pc[d] \in {"idle", "newid", "push"}
    BY <1>2 DEF Begin, DrawId, Get, CallStep
  <2> QED
    BY <1>1, <2>1, <2>2 DEF Phase
<1>3. ASSUME NEW c \in Calls, Push(c)
      PROVE  Abstract!Send(c)
  <2>1. /\ pc[c] = "push" /\ pc'[c] \in {"register", "done"} /\ fut[c] = "none"
        /\ \A d \in Calls \ {c} : pc'[d] = pc[d]
        /\ UNCHANGED <<fut, got, executed, repeated, stop>>
    BY <1>3 DEF Push, CallStep, OwnFutures, Unsent
  <2>2. Phase(c) = "idle" /\ Phase(c)' = "sent"
    BY <2>1 DEF Phase
  <2>3. \A d \in Calls \ {c} : Phase(d)' = Phase(d)
    BY <2>1 DEF Phase
  <2> QED
    BY <2>1, <2>2, <2>3 DEF Abstract!Send, Abstract!Move, Executions
<1>4. ASSUME NEW c \in Calls, Register(c)
      PROVE  UNCHANGED Abstract!vars
  <2>1. /\ pc[c] = "register" /\ pc' = [pc EXCEPT ![c] = "waiting"]
        /\ fut[c] = "none"
        /\ UNCHANGED <<got, executed, repeated, stop>>
    BY <1>4 DEF Register, CallStep, OwnFutures
  <2>2. fut' = [fut EXCEPT ![c] = "pending"]
    BY <1>4, NoBreak
  <2>3. \A d \in Calls : Phase(d)' = Phase(d)
    BY <2>1, <2>2 DEF Phase
  <2> QED
    BY <1>1, <2>1, <2>3
<1>5. ASSUME NEW c \in Calls, Remove(c)
      PROVE  UNCHANGED Abstract!vars
  <2>1. fut' = fut
    BY <1>5, NoBreak
  <2>2. /\ pc[c] = "remove" /\ pc'[c] \in {"done", "notfound"}
        /\ \A d \in Calls \ {c} : pc'[d] = pc[d]
        /\ UNCHANGED <<got, executed, repeated, stop>>
    BY <1>5 DEF Remove, CallStep
  <2> QED
    BY <1>1, <2>1, <2>2 DEF Phase
<1>6. ASSUME NEW g \in Workers, Deliver(g)
      PROVE  Abstract!Next \/ UNCHANGED Abstract!vars
  <2>1. wpc[g] = "deliver" /\ UNCHANGED <<pc, executed, repeated, stop>>
    BY <1>6 DEF Deliver, WorkerStep
  <2>2. CASE UNCHANGED <<fut, got>>
    BY <1>1, <2>1, <2>2 DEF Phase
  <2>3. ASSUME NEW c \in Calls, c = hand[g], Awaited(ids[c]), ids[c] # NullReqId,
               fut' = [fut EXCEPT ![waitList[ids[c]]] = "ready"],
               got' = [got EXCEPT ![waitList[ids[c]]] = @ \cup {c}]
        PROVE  Abstract!Next
    <3>1. c \in executed /\ waitList[ids[c]] = c
      BY <2>1, <2>3, OwnReply DEF Awaited
    <3>2. Registered(c) /\ ids[c] \in ReqId
      BY <3>1 DEF OwnEntries, IdTypeOK
    <3>3. fut[c] = "pending" /\ got[c] = {}
      <4>1. fut[c] \in FutureStates \ {"ready", "empty", "broken"}
        BY <2>3, <3>1 DEF OwnFutures, Awaited
      <4>2. fut[c] # "none"
        BY <2>3, <3>2, NotNull DEF OwnFutures, Unsent, Registered
      <4> QED
        BY <4>1, <4>2 DEF FutureStates, OwnFutures
    <3>4. /\ fut' = [fut EXCEPT ![c] = "ready"]
          /\ got' = [got EXCEPT ![c] = {c}]
      BY <2>3, <3>1, <3>3
    <3>5. Phase(c) = "sent" /\ Phase(c)' = "replied"
      BY <2>1, <3>2, <3>3, <3>4 DEF Phase, Registered
    <3>6. \A d \in Calls \ {c} : Phase(d)' = Phase(d)
      BY <2>1, <3>4 DEF Phase
    <3>7. Abstract!Reply(c)
      <4>1. Executions(c) > 0 /\ \A d \in Calls : Executions(d)' = Executions(d)
        BY <2>1, <3>1 DEF Executions
      <4> QED
        BY <2>1, <3>5, <3>6, <4>1 DEF Abstract!Reply, Abstract!Move
    <3> QED
      BY <3>7 DEF Abstract!Next
  <2>4. hand[g] \in Calls
    BY <2>1 DEF HasReply
  <2> QED
    BY <1>6, <2>2, <2>3, <2>4 DEF Deliver
<1>7. ASSUME NEW g \in Workers, NEW c \in Calls, Serve(g, c)
      PROVE  Abstract!Execute(c)
  <2>1. /\ c \in wire[g] /\ executed' = executed \cup {c}
        /\ repeated' = IF c \in executed THEN repeated \cup {c} ELSE repeated
        /\ UNCHANGED <<pc, fut, got, stop>>
    BY <1>7 DEF Serve
  <2>2. ~Unsent(c) /\ c \notin executed /\ repeated = {}
    BY <2>1 DEF SentOnce
  <2>4. /\ Executions(c) = 0 /\ Executions(c)' = 1
        /\ \A d \in Calls \ {c} : Executions(d)' = Executions(d)
    BY <2>1, <2>2 DEF Executions
  <2>3. Phase(c) # "idle" /\ \A d \in Calls : Phase(d)' = Phase(d)
    BY <2>1, <2>2 DEF Phase, Unsent
  <2> QED
    BY <2>1, <2>3, <2>4 DEF Abstract!Execute
<1>8. CASE UnlockNext
  <2>1. PICK i \in Remaining :
          /\ opc = "unlock"
          /\ \/ Awaited(i) /\ fut' = [fut EXCEPT ![waitList[i]] = "empty"]
             \/ UNCHANGED fut
          /\ UNCHANGED <<pc, got, executed, repeated, stop>>
    BY <1>8 DEF UnlockNext
  <2>2. CASE UNCHANGED fut
    BY <1>1, <2>1, <2>2 DEF Phase
  <2>3. ASSUME NEW c \in Calls, c = waitList[i], Awaited(i),
               fut' = [fut EXCEPT ![c] = "empty"]
        PROVE  Abstract!Next
    <3>1. Registered(c) /\ stop
      BY <2>1, <2>3 DEF Remaining, OwnEntries, StopRequested
    <3>2. fut[c] \in {"none", "pending"}
      BY <2>3 DEF Awaited, OwnFutures, FutureStates
    <3>3. Phase(c) = "sent" /\ Phase(c)' = "released"
      BY <2>1, <2>3, <3>1, <3>2 DEF Phase, Registered
    <3>4. \A d \in Calls \ {c} : Phase(d)' = Phase(d)
      BY <2>1, <2>3 DEF Phase
    <3>5. Abstract!Release(c)
      BY <2>1, <3>1, <3>3, <3>4 DEF Abstract!Release, Abstract!Move, Executions
    <3> QED
      BY <3>5 DEF Abstract!Next
  <2> QED
    BY <2>1, <2>2, <2>3 DEF Awaited
<1>9. CASE StopBegin \/ StartBegin
  <2>1. /\ UNCHANGED <<pc, fut, got, executed, repeated>>
        /\ stop' = TRUE \/ UNCHANGED stop
    BY <1>9 DEF StopBegin, StartBegin, OwnerStep
  <2>2. \A d \in Calls : Phase(d)' = Phase(d)
    BY <2>1 DEF Phase
  <2>3. CASE stop' = TRUE
    BY <2>1, <2>2, <2>3 DEF Abstract!Next, Abstract!Stop, Executions
  <2> QED
    BY <1>1, <2>1, <2>2, <2>3
<1>10. CASE UNCHANGED <<pc, fut, got, executed, repeated, stop>>
  BY <1>1, <1>10 DEF Phase
<1>11. CASE Wait \/ UnlockDone \/ Launch \/ Join \/ Corrupt
  BY <1>10, <1>11 DEF Wait, UnlockDone, Launch, Join, Corrupt, OwnerStep
<1>12. ASSUME NEW g \in Workers,
              \/ Connect(g) \/ Loop(g) \/ Poll(g) \/ ZmqFails(g) \/ Check(g) \/ PopAndSend(g)
              \/ Close(g)
       PROVE  UNCHANGED Abstract!vars
  <2>1. UNCHANGED <<pc, fut, got, executed, repeated, stop>>
    BY <1>12 DEF Connect, Loop, Poll, ZmqFails, Check, PopAndSend, Close, WorkerStep
  <2> QED
    BY <1>1, <2>1 DEF Phase
<1> QED
  BY <1>2, <1>3, <1>4, <1>5, <1>6, <1>7, <1>8, <1>9, <1>11, <1>12
  DEF Next, Step, CallProgress, WorkerProgress, OwnerProgress, Abstract!Next

(***************************************************************************)
(* With different ids the client implements remote calls: every request is *)
(* executed at most once, and its future becomes ready at most once, with  *)
(* its own reply or, after a request to stop, with nothing.                *)
(***************************************************************************)
THEOREM RemoteCallsCorrect ==
  ASSUME DistinctGivenIds
  PROVE  Spec => RemoteCalls
<1>1. Init => Abstract!Init
  BY DEF Init, Abstract!Init, Phase, Executions
<1>2. TypeOK /\ HasReply /\ ClientInv /\ [Next]_vars
        => [Abstract!Next]_(Abstract!vars)
  <2>1. CASE Next
    BY <2>1, PhaseStep
  <2>2. CASE UNCHANGED vars
    BY <2>2 DEF vars, callVars, netVars, Phase, Executions, Abstract!vars
  <2> QED
    BY <2>1, <2>2
<1> QED
  BY <1>1, <1>2, TypeInvariant, ClientInvariant, PTL DEF Spec, RemoteCalls, Abstract!Spec
-----------------------------------------------------------------------------
(* What the owner's Stop() meets. *)

\* One worker runs at a time, except between a launch and the assignment of its
\* future, which waits for the one before; stop_ is never reset.
OneAtATime ==
  /\ \A g \in Workers : wpc[g] = "unborn" <=> g > starts
  /\ IF opc = "join" THEN starts > 0 /\ task = starts - 1 ELSE task = starts
  /\ \A g \in Workers : g < task => Finished(g)
  /\ status = "STARTED" => starts > 0
  /\ opc \in {"wait", "unlock"} => task > 0 /\ stop
  /\ opc = "unlock" => Finished(task)
  /\ \A g \in Workers : wpc[g] \in {"closing", "ended"} => stop

LEMMA OneAtATimeNext ==
  ASSUME TypeOK, MayLaunch, OneAtATime, [Next]_vars
  PROVE  OneAtATime'
<1> USE DEF TypeOK
<1>0. /\ Workers = 1 .. MaxStarts /\ MaxStarts \in Nat
      /\ starts \in 0 .. MaxStarts /\ task \in 0 .. starts
  BY ClientAssumption DEF Workers, OneAtATime
<1>1. CASE UNCHANGED <<wpc, stop, status, opc, task, starts>>
  BY <1>1 DEF OneAtATime, Finished
<1>2. ASSUME NEW c \in Calls, Begin(c) \/ CallProgress(c)
      PROVE  OneAtATime'
  BY <1>1, <1>2
  DEF CallProgress, Begin, DrawId, Push, Register, Get, Remove, CallStep, workerVars,
      ownerVars
<1>3. ASSUME NEW g \in Workers, WorkerProgress(g) \/ ZmqFails(g)
      PROVE  OneAtATime'
  <2>1. /\ wpc[g] \notin {"unborn", "dead", "ended"}
        /\ \E to \in WorkerSteps \ {"unborn"} :
             wpc' = [wpc EXCEPT ![g] = to] /\ (to \in {"closing", "ended"} => stop)
        /\ UNCHANGED <<stop, opc, task, starts>>
    BY <1>3
    DEF WorkerProgress, Connect, Loop, ZmqFails, Poll, Deliver, Check, PopAndSend, Close,
        WorkerStep, WorkerSteps, ownerVars, OneAtATime
  <2>2. starts > 0
    BY <1>0, <2>1 DEF OneAtATime
  <2>3. \A h \in Workers : /\ wpc'[h] = "unborn" <=> wpc[h] = "unborn"
                           /\ Finished(h) => Finished(h)' /\ wpc'[h] = wpc[h]
                           /\ wpc'[h] \in {"closing", "ended"} => stop
    BY <2>1 DEF OneAtATime, Finished
  <2> QED
    BY <1>0, <2>1, <2>2, <2>3 DEF OneAtATime, Finished
<1>4. ASSUME NEW g \in Workers, NEW c \in Calls, Serve(g, c)
      PROVE  OneAtATime'
  BY <1>1, <1>4 DEF Serve, workerVars, ownerVars
<1>5. CASE StopBegin \/ StartBegin
  <2>1. /\ UNCHANGED <<wpc, status, task, starts>>
        /\ stop' = TRUE \/ UNCHANGED stop
        /\ opc = "idle" /\ opc' \in {"idle", "wait", "launch"}
        /\ opc' = "wait" => stop' /\ (task # 0 \/ status = "STARTED")
    BY <1>5 DEF StopBegin, StartBegin, OwnerStep
  <2> QED
    BY <1>0, <2>1 DEF OneAtATime, Finished
<1>6. CASE Wait \/ UnlockNext \/ UnlockDone
  <2>1. /\ UNCHANGED <<wpc, status, task, starts, stop>>
        /\ opc \in {"wait", "unlock"} /\ opc' \in {"unlock", "idle", "launch"}
        /\ opc' = "unlock" => opc = "unlock" \/ Finished(task)
    BY <1>6 DEF Wait, UnlockNext, UnlockDone, OwnerStep, workerVars
  <2> QED
    BY <1>0, <2>1 DEF OneAtATime, Finished
<1>7. CASE Launch
  <2>1. /\ opc = "launch" /\ opc' = "join" /\ starts' = starts + 1 /\ starts < MaxStarts
        /\ wpc' = [wpc EXCEPT ![starts + 1] = "init"]
        /\ UNCHANGED <<stop, status, task>>
    BY <1>7 DEF Launch, OwnerStep, MayLaunch
  <2> QED
    BY <1>0, <2>1 DEF OneAtATime, Finished
<1>8. CASE Join
  <2>1. /\ opc = "join" /\ opc' = "idle" /\ task' = starts
        /\ task # 0 => Finished(task)
        /\ UNCHANGED <<wpc, stop, status, starts>>
    BY <1>8 DEF Join, OwnerStep
  <2>2. starts > 0 /\ task = starts - 1
    BY <2>1 DEF OneAtATime
  <2>3. \A g \in Workers : g < starts => Finished(g)
    BY <1>0, <2>1, <2>2 DEF OneAtATime
  <2> QED
    BY <1>0, <2>1, <2>2, <2>3 DEF OneAtATime, Finished
<1>9. CASE Corrupt \/ UNCHANGED vars
  BY <1>1, <1>9 DEF Corrupt, workerVars, ownerVars, vars
<1> QED
  BY <1>2, <1>3, <1>4, <1>5, <1>6, <1>7, <1>8, <1>9 DEF Next, Step, OwnerProgress

LEMMA OneAtATimeInvariant == Spec => []OneAtATime
<1>1. Init => OneAtATime
  BY ClientAssumption DEF Init, OneAtATime, Finished, Workers
<1> QED
  BY <1>1, OneAtATimeNext, TypeInvariant, PTL DEF Spec

\* Only a worker that is to hand on a reply holds one.
HandsFree == \A g \in Workers : hand[g] \in Calls => wpc[g] = "deliver"

LEMMA HandsFreeNext ==
  ASSUME TypeOK, MayLaunch, OneAtATime, HandsFree, Next
  PROVE  HandsFree'
<1> USE DEF TypeOK, HandsFree
<1>1. CASE UNCHANGED <<wpc, hand>>
  BY <1>1
<1>2. ASSUME NEW c \in Calls, Begin(c) \/ CallProgress(c)
      PROVE  UNCHANGED <<wpc, hand>>
  BY <1>2
  DEF CallProgress, Begin, DrawId, Push, Register, Get, Remove, CallStep, workerVars
<1>3. ASSUME NEW g \in Workers,
             Connect(g) \/ Loop(g) \/ ZmqFails(g) \/ Check(g) \/ PopAndSend(g) \/ Close(g)
      PROVE  HandsFree'
  <2>1. /\ UNCHANGED hand /\ wpc[g] # "deliver"
        /\ \E to \in WorkerSteps : wpc' = [wpc EXCEPT ![g] = to]
    BY <1>3
    DEF Connect, Loop, ZmqFails, Check, PopAndSend, Close, WorkerStep, WorkerSteps
  <2> QED
    BY <2>1
<1>4. ASSUME NEW g \in Workers, Poll(g)
      PROVE  HandsFree'
  <2>1. CASE /\ UNCHANGED hand /\ wpc[g] = "poll"
             /\ \E to \in WorkerSteps : wpc' = [wpc EXCEPT ![g] = to]
    BY <2>1
  <2>2. CASE /\ wpc' = [wpc EXCEPT ![g] = "deliver"]
             /\ \E c \in inbox[g] : hand' = [hand EXCEPT ![g] = c]
    BY <2>2
  <2> QED
    BY <1>4, <2>1, <2>2 DEF Poll, WorkerStep, WorkerSteps
<1>5. ASSUME NEW g \in Workers, Deliver(g)
      PROVE  HandsFree'
  <2>1. /\ hand' = [hand EXCEPT ![g] = Absent]
        /\ \E to \in WorkerSteps : wpc' = [wpc EXCEPT ![g] = to]
    BY <1>5 DEF Deliver, WorkerStep, WorkerSteps
  <2> QED
    BY <2>1, ClientAssumption
<1>6. ASSUME NEW g \in Workers, NEW c \in Calls, Serve(g, c)
      PROVE  UNCHANGED <<wpc, hand>>
  BY <1>6 DEF Serve, workerVars
<1>7. CASE StopBegin \/ StartBegin \/ Wait \/ UnlockNext \/ UnlockDone \/ Join \/ Corrupt
  BY <1>7
  DEF StopBegin, StartBegin, Wait, UnlockNext, UnlockDone, Join, Corrupt, OwnerStep, workerVars
<1>8. CASE Launch
  <2>1. /\ wpc' = [wpc EXCEPT ![starts + 1] = "init"] /\ UNCHANGED hand
        /\ starts + 1 \in Workers
    BY <1>8, ClientAssumption DEF Launch, OwnerStep, MayLaunch, Workers
  <2>2. wpc[starts + 1] = "unborn"
    BY <2>1 DEF OneAtATime
  <2> QED
    BY <2>1, <2>2
<1> QED
  BY <1>1, <1>2, <1>3, <1>4, <1>5, <1>6, <1>7, <1>8
  DEF Next, Step, WorkerProgress, OwnerProgress

(***************************************************************************)
(* A reply that the worker has dealt with does not come again.             *)
(***************************************************************************)
LEMMA SpentStays ==
  ASSUME TypeOK, OnceInv, Next, NEW c \in Calls, AnswerSpent(c)
  PROVE  AnswerSpent(c)'
<1> USE DEF TypeOK
<1>0. c \in executed /\ \A g \in Workers : c \notin inbox[g] /\ c # hand[g] /\ c \notin wire[g]
  BY DEF AnswerSpent, OnceInv, SentOnce
<1>1. CASE UNCHANGED <<executed, inbox, hand>>
  BY <1>1 DEF AnswerSpent
<1>2. ASSUME NEW g \in Workers, Poll(g)
      PROVE  AnswerSpent(c)'
  <2>1. executed' = executed
    BY <1>2 DEF Poll
  <2>2. \A h \in Workers : inbox'[h] \subseteq inbox[h] /\ hand'[h] \in {hand[h]} \cup inbox[h]
    <3>1. CASE UNCHANGED <<inbox, hand>>
      BY <3>1
    <3>2. ASSUME NEW d \in inbox[g],
                 hand' = [hand EXCEPT ![g] = d], inbox' = [inbox EXCEPT ![g] = @ \ {d}]
          PROVE  \A h \in Workers :
                   inbox'[h] \subseteq inbox[h] /\ hand'[h] \in {hand[h]} \cup inbox[h]
      BY <3>2
    <3> QED
      BY <1>2, <3>1, <3>2 DEF Poll
  <2> QED
    BY <1>0, <2>1, <2>2 DEF AnswerSpent
<1>3. ASSUME NEW g \in Workers, Deliver(g)
      PROVE  AnswerSpent(c)'
  <2>1. hand' = [hand EXCEPT ![g] = Absent] /\ UNCHANGED <<executed, inbox>>
    BY <1>3 DEF Deliver, netVars
  <2> QED
    BY <1>0, <2>1, ClientAssumption DEF AnswerSpent
<1>4. ASSUME NEW g \in Workers, NEW d \in Calls, Serve(g, d)
      PROVE  AnswerSpent(c)'
  <2>1. /\ d \in wire[g] /\ executed' = executed \cup {d} /\ UNCHANGED hand
        /\ inbox' = inbox \/ inbox' = [inbox EXCEPT ![g] = @ \cup {d}]
    BY <1>4 DEF Serve, workerVars
  <2> QED
    BY <1>0, <2>1 DEF AnswerSpent
<1>5. ASSUME NEW d \in Calls, Begin(d) \/ CallProgress(d)
      PROVE  AnswerSpent(c)'
  BY <1>1, <1>5
  DEF CallProgress, Begin, DrawId, Push, Register, Get, Remove, CallStep, workerVars, netVars
<1>6. ASSUME NEW g \in Workers,
             Connect(g) \/ Loop(g) \/ ZmqFails(g) \/ Check(g) \/ PopAndSend(g) \/ Close(g)
      PROVE  AnswerSpent(c)'
  BY <1>1, <1>6 DEF Connect, Loop, ZmqFails, Check, PopAndSend, Close, netVars
<1>7. CASE StopBegin \/ StartBegin \/ OwnerProgress \/ Corrupt
  BY <1>1, <1>7
  DEF StopBegin, StartBegin, OwnerProgress, Wait, UnlockNext, UnlockDone, Launch, Join,
      OwnerStep, Corrupt, workerVars, netVars
<1> QED
  BY <1>2, <1>3, <1>4, <1>5, <1>6, <1>7 DEF Next, Step, WorkerProgress

-----------------------------------------------------------------------------
(* What waits: with different ids a call waits only for what is to come. *)

\* An orphan belongs to a call that has still to register, and whose reply was
\* dealt with.
Early ==
  \A i \in ReqId : waitList[i] = Orphan =>
    \E c \in executed : ids[c] = i /\ pc[c] = "register" /\ AnswerSpent(c)

\* A worker has found stop_ not set, and is about to receive and to send.
InLoop(g) == wpc[g] \in {"poll", "deliver", "check", "pop"}

\* Stop() releases calls only when no worker can get hold of a reply any more.
Released ==
  \A c \in Calls : fut[c] = "empty" => stop /\ \A g \in Workers : ~InLoop(g)

\* A request is somewhere until its promise is fulfilled, or found unregistered.
UnderWay ==
  ~stop /\ NoneDied =>
    \A c \in Calls \ NoReply :
      ~Unsent(c) /\ fut[c] \in {"none", "pending"} =>
        \/ Queued(c) \/ Carried(c) \/ c \in missed
        \/ pc[c] = "register" /\ AnswerSpent(c)

\* The loop of Stop() has passed no promise that it should have fulfilled.
Visited ==
  opc = "unlock" =>
    \A c \in Calls : fut[c] = "pending" => c \in missed \/ ids[c] > cursor

AllReleased ==
  last = "ok" => stop /\ \A c \in Calls : fut[c] = "pending" => c \in missed

WaitInv == Early /\ Released /\ UnderWay /\ Visited /\ AllReleased

ClientFacts ==
  TypeOK /\ MayLaunch /\ HasReply /\ OneAtATime /\ HandsFree /\ ClientInv

(***************************************************************************)
(* When Stop() walks through the promises no worker is left.               *)
(***************************************************************************)
LEMMA NobodyWorks ==
  ASSUME TypeOK, OneAtATime, opc = "unlock"
  PROVE  stop /\ \A g \in Workers : wpc[g] \in {"unborn", "dead", "ended"}
<1>1. /\ stop /\ Finished(task) /\ task = starts
      /\ \A g \in Workers : (g < task => Finished(g)) /\ (g > starts => wpc[g] = "unborn")
  BY DEF OneAtATime
<1> QED
  BY <1>1, ClientAssumption DEF Workers, Finished, TypeOK

(***************************************************************************)
(* A request to stop is not taken back, and nobody begins to receive after *)
(* it; a worker that died stays dead.                                      *)
(***************************************************************************)
LEMMA StopStays ==
  ASSUME TypeOK, MayLaunch, OneAtATime, Next
  PROVE  /\ stop => stop'
         /\ \A g \in Workers : wpc[g] = "dead" => wpc'[g] = "dead"
         /\ stop => \A g \in Workers : InLoop(g)' => InLoop(g)
<1> USE DEF TypeOK, InLoop
<1>1. CASE UNCHANGED <<wpc, stop>>
  BY <1>1
<1>2. ASSUME NEW c \in Calls, Begin(c) \/ CallProgress(c)
      PROVE  UNCHANGED <<wpc, stop>>
  BY <1>2
  DEF CallProgress, Begin, DrawId, Push, Register, Get, Remove, CallStep, workerVars
<1>3. ASSUME NEW g \in Workers, WorkerProgress(g) \/ ZmqFails(g)
      PROVE  /\ wpc[g] # "dead" /\ UNCHANGED stop
             /\ \E to \in WorkerSteps :
                  /\ wpc' = [wpc EXCEPT ![g] = to]
                  /\ to \in {"poll", "deliver", "check", "pop"} => InLoop(g) \/ ~stop
  BY <1>3
  DEF WorkerProgress, Connect, Loop, ZmqFails, Poll, Deliver, Check, PopAndSend, Close,
      WorkerStep, WorkerSteps
<1>4. ASSUME NEW g \in Workers, NEW c \in Calls, Serve(g, c)
      PROVE  UNCHANGED <<wpc, stop>>
  BY <1>4 DEF Serve, workerVars
<1>5. CASE StopBegin \/ StartBegin \/ Wait \/ UnlockNext \/ UnlockDone \/ Join \/ Corrupt
  BY <1>5
  DEF StopBegin, StartBegin, Wait, UnlockNext, UnlockDone, Join, Corrupt, OwnerStep, workerVars
<1>6. CASE Launch
  <2>1. /\ wpc' = [wpc EXCEPT ![starts + 1] = "init"] /\ UNCHANGED stop
        /\ starts + 1 \in Workers
    BY <1>6, ClientAssumption DEF Launch, OwnerStep, MayLaunch, Workers
  <2>2. wpc[starts + 1] = "unborn"
    BY <2>1 DEF OneAtATime
  <2> QED
    BY <2>1, <2>2
<1> QED
  <2>1. CASE \E g \in Workers : WorkerProgress(g) \/ ZmqFails(g)
    BY <1>3, <2>1
  <2> QED
    BY <1>1, <1>2, <1>4, <1>5, <1>6, <2>1 DEF Next, Step, OwnerProgress

(***************************************************************************)
(* A reply that a worker hands on finds its own promise unfulfilled, or    *)
(* none before the call has registered.                                    *)
(***************************************************************************)
LEMMA DeliverWhat ==
  ASSUME DistinctGivenIds, TypeOK, HasReply, ClientInv, Early, Released,
         NEW g \in Workers, wpc[g] = "deliver", ids[hand[g]] # NullReqId
  PROVE  /\ hand[g] \in executed /\ hand[g] \in Calls \ NoReply
         /\ \/ waitList[ids[hand[g]]] = hand[g] /\ fut[hand[g]] = "pending"
            \/ waitList[ids[hand[g]]] = Absent /\ pc[hand[g]] = "register"
<1> USE DEF TypeOK
<1>1. /\ hand[g] \in Calls /\ hand[g] \in executed /\ ~Unsent(hand[g])
      /\ hand[g] \notin got[hand[g]]
  BY DEF HasReply, ClientInv, OnceInv, SentOnce, RepliesAreExecuted, RepliesOnce
<1>2. hand[g] \notin NoReply
  BY <1>1 DEF ClientInv, CallsInv, IdsGiven, Unsent
<1>3. fut[hand[g]] \notin {"ready", "empty", "broken"}
  BY <1>1 DEF ClientInv, CallsInv, OwnFutures, Released, InLoop
<1>4. CASE waitList[ids[hand[g]]] \in Calls
  <2>1. waitList[ids[hand[g]]] = hand[g]
    BY <1>4, OwnReply
  <2>2. Registered(hand[g])
    BY <1>1, <1>4, <2>1 DEF ClientInv, CallsInv, OwnEntries, IdTypeOK
  <2>3. fut[hand[g]] # "none"
    BY <1>1, <1>2, <2>2 DEF ClientInv, CallsInv, OwnFutures, Registered, Unsent
  <2> QED
    BY <1>1, <1>2, <1>3, <2>1, <2>3 DEF FutureStates
<1>5. CASE waitList[ids[hand[g]]] = Orphan
  <2>1. PICK c \in executed : ids[c] = ids[hand[g]] /\ pc[c] = "register" /\ AnswerSpent(c)
    BY <1>1, <1>5 DEF Early, IdTypeOK
  <2>2. c = hand[g]
    BY <1>1, <2>1, SameId DEF ClientInv, CallsInv, Unsent
  <2> QED
    BY <2>1, <2>2 DEF AnswerSpent
<1>6. CASE waitList[ids[hand[g]]] = Absent
  <2>1. ~Registered(hand[g])
    BY <1>1, <1>6, ClientAssumption DEF ClientInv, CallsInv, OwnEntries
  <2>2. pc[hand[g]] \notin {"done", "broken", "notfound"}
    BY <1>1, <1>2, <1>3 DEF ClientInv, CallsInv, OwnFutures
  <2> QED
    BY <1>1, <1>2, <1>6, <2>1, <2>2 DEF Registered, Unsent, CallSteps
<1> QED
  <2>1. waitList[ids[hand[g]]] \in Calls \cup {Absent, Orphan}
    BY <1>1 DEF IdTypeOK
  <2> QED
    BY <1>4, <1>5, <1>6, <2>1

(***************************************************************************)
(* Orphans are made by a worker for calls that have still to register.     *)
(***************************************************************************)
LEMMA EarlyNext ==
  ASSUME DistinctGivenIds, ClientFacts, Early, Released, Next
  PROVE  Early'
<1> USE DEF ClientFacts, TypeOK
<1>1. ASSUME NEW i \in ReqId, waitList[i] = Orphan, waitList'[i] = Orphan
      PROVE  \E c \in executed' : ids'[c] = i /\ pc'[c] = "register" /\ AnswerSpent(c)'
  <2>1. PICK c \in executed : ids[c] = i /\ pc[c] = "register" /\ AnswerSpent(c)
    BY <1>1 DEF Early
  <2>2. AnswerSpent(c)' /\ c \in executed'
    BY <2>1, SpentStays DEF ClientInv, AnswerSpent
  <2>3. ids'[c] = i /\ pc'[c] = "register"
    <3>1. CASE UNCHANGED <<ids, pc>>
      BY <2>1, <3>1
    <3>2. ASSUME NEW d \in Calls, Begin(d) \/ DrawId(d) \/ Push(d) \/ Get(d) \/ Remove(d)
          PROVE  /\ pc[d] # "register"
                 /\ \E to \in CallSteps : pc' = [pc EXCEPT ![d] = to]
                 /\ \A e \in Calls \ {d} : ids'[e] = ids[e]
      BY <3>2
      DEF Begin, DrawId, Push, Get, Remove, CallStep, CallSteps, idState, Enter, Increment,
          Renumber, AssertNotNull, Return, IdTypeOK
    <3>3. ASSUME NEW d \in Calls, Register(d)
          PROVE  ids'[c] = i /\ pc'[c] = "register"
      <4>1. waitList' = [waitList EXCEPT ![ids[d]] = d] /\ UNCHANGED ids
            /\ pc' = [pc EXCEPT ![d] = "waiting"]
        BY <3>3 DEF Register, CallStep, idState
      <4> QED
        BY <1>1, <2>1, <4>1, ClientAssumption
    <3>4. ASSUME NEW g \in Workers, WorkerProgress(g) \/ ZmqFails(g)
          PROVE  UNCHANGED <<ids, pc>>
      BY <3>4
      DEF WorkerProgress, Connect, Loop, ZmqFails, Poll, Deliver, Check, PopAndSend, Close,
          WorkerStep, idState
    <3>5. ASSUME NEW g \in Workers, NEW d \in Calls, Serve(g, d)
          PROVE  UNCHANGED <<ids, pc>>
      BY <3>5 DEF Serve, callVars, idState
    <3>6. CASE StopBegin \/ StartBegin \/ OwnerProgress \/ Corrupt
      BY <3>1, <3>6
      DEF StopBegin, StartBegin, OwnerProgress, Wait, UnlockNext, UnlockDone, Launch, Join,
          OwnerStep, Corrupt, callVars, idState
    <3>7. CASE \E d \in Calls : Begin(d) \/ DrawId(d) \/ Push(d) \/ Get(d) \/ Remove(d)
      <4>1. PICK d \in Calls : Begin(d) \/ DrawId(d) \/ Push(d) \/ Get(d) \/ Remove(d)
        BY <3>7
      <4> QED
        BY <2>1, <3>2, <4>1
    <3> QED
      BY <3>1, <3>3, <3>4, <3>5, <3>6, <3>7 DEF Next, Step, CallProgress
  <2> QED
    BY <2>2, <2>3
<1>2. ASSUME NEW i \in ReqId, waitList[i] # Orphan, waitList'[i] = Orphan
      PROVE  \E c \in executed' : ids'[c] = i /\ pc'[c] = "register" /\ AnswerSpent(c)'
  <2>1. \E g \in Workers : Deliver(g)
    <3>1. CASE UNCHANGED waitList
      BY <1>2, <3>1
    <3>2. ASSUME NEW d \in Calls, Begin(d) \/ CallProgress(d)
          PROVE  waitList'[i] # Orphan
      BY <1>2, <3>2, ClientAssumption
      DEF CallProgress, Begin, DrawId, Push, Register, Get, Remove
    <3>3. ASSUME NEW g \in Workers,
                 Connect(g) \/ Loop(g) \/ ZmqFails(g) \/ Poll(g) \/ Check(g) \/ PopAndSend(g) \/ Close(g)
          PROVE  UNCHANGED waitList
      BY <3>3 DEF Connect, Loop, ZmqFails, Poll, Check, PopAndSend, Close
    <3>4. ASSUME NEW g \in Workers, NEW d \in Calls, Serve(g, d)
          PROVE  UNCHANGED waitList
      BY <3>4 DEF Serve
    <3>5. CASE StopBegin \/ StartBegin \/ OwnerProgress \/ Corrupt
      BY <3>1, <3>5
      DEF StopBegin, StartBegin, OwnerProgress, Wait, UnlockNext, UnlockDone, Launch, Join,
          Corrupt
    <3> QED
      BY <1>2, <3>1, <3>2, <3>3, <3>4, <3>5 DEF Next, Step, WorkerProgress
  <2>2. PICK g \in Workers : Deliver(g)
    BY <2>1
  <2>3. /\ wpc[g] = "deliver" /\ ids[hand[g]] # NullReqId /\ i = ids[hand[g]]
        /\ hand' = [hand EXCEPT ![g] = Absent] /\ UNCHANGED <<ids, pc, executed, inbox>>
    BY <1>2, <2>2 DEF Deliver, WorkerStep, netVars, idState
  <2>4. waitList[i] = Absent
    BY <1>2, <2>2, <2>3 DEF Deliver
  <2>5. PICK c \in Calls : c = hand[g] /\ c \in executed /\ pc[c] = "register"
    BY <2>3, <2>4, DeliverWhat, ClientAssumption
  <2>6. \A h \in Workers : c \notin inbox[h] /\ (h # g => c # hand[h])
    BY <2>5 DEF ClientInv, OnceInv, RepliesOnce
  <2>7. AnswerSpent(c)'
    BY <2>3, <2>5, <2>6, ClientAssumption DEF AnswerSpent
  <2> QED
    BY <2>3, <2>5, <2>7
<1> QED
  BY <1>1, <1>2 DEF Early

(***************************************************************************)
(* Only Stop() releases calls.                                             *)
(***************************************************************************)
LEMMA ReleasedNext ==
  ASSUME DistinctGivenIds, ClientFacts, Released, Next
  PROVE  Released'
<1> USE DEF ClientFacts, TypeOK
<1>1. ASSUME NEW c \in Calls, fut[c] = "empty"
      PROVE  stop' /\ \A g \in Workers : ~InLoop(g)'
  BY <1>1, StopStays DEF Released
<1>2. ASSUME NEW c \in Calls, fut[c] # "empty", fut'[c] = "empty"
      PROVE  stop' /\ \A g \in Workers : ~InLoop(g)'
  <2>1. CASE UNCHANGED fut
    BY <1>2, <2>1
  <2>2. ASSUME NEW d \in Calls, Begin(d) \/ CallProgress(d)
        PROVE  fut'[c] # "empty"
    BY <1>2, <2>2
    DEF CallProgress, Begin, DrawId, Push, Register, Get, Remove, Break
  <2>3. ASSUME NEW g \in Workers, WorkerProgress(g) \/ ZmqFails(g)
        PROVE  fut'[c] # "empty"
    BY <1>2, <2>3
    DEF WorkerProgress, Connect, Loop, ZmqFails, Poll, Deliver, Check, PopAndSend, Close
  <2>4. ASSUME NEW g \in Workers, NEW d \in Calls, Serve(g, d)
        PROVE  UNCHANGED fut
    BY <2>4 DEF Serve, callVars
  <2>5. CASE StopBegin \/ StartBegin \/ Wait \/ UnlockDone \/ Launch \/ Join \/ Corrupt
    BY <2>1, <2>5
    DEF StopBegin, StartBegin, Wait, UnlockDone, Launch, Join, OwnerStep, Corrupt, callVars
  <2>6. CASE UnlockNext
    <3>1. opc = "unlock" /\ UNCHANGED <<stop, wpc>>
      BY <2>6 DEF UnlockNext, workerVars
    <3> QED
      BY <3>1, NobodyWorks DEF InLoop
  <2> QED
    BY <1>2, <2>1, <2>2, <2>3, <2>4, <2>5, <2>6 DEF Next, Step, OwnerProgress
<1> QED
  BY <1>1, <1>2 DEF Released

(***************************************************************************)
(* A request stays somewhere until its promise is fulfilled.               *)
(***************************************************************************)
LEMMA UnderWayNext ==
  ASSUME DistinctGivenIds, ClientFacts, Early, Released, UnderWay, Next
  PROVE  UnderWay'
<1> USE DEF ClientFacts, TypeOK
<1> SUFFICES ASSUME ~stop', NoneDied', NEW c \in Calls \ NoReply,
                    ~Unsent(c)', fut'[c] \in {"none", "pending"}
             PROVE  (\/ Queued(c) \/ Carried(c) \/ c \in missed
                     \/ pc[c] = "register" /\ AnswerSpent(c))'
  BY DEF UnderWay
<1> DEFINE Spent == pc[c] = "register" /\ AnswerSpent(c)
           Somewhere == \/ \E i \in DOMAIN requestQueue : requestQueue[i] = c
                        \/ \E g \in Workers : c \in wire[g] \cup inbox[g] \cup {hand[g]}
                        \/ c \in missed
                        \/ Spent
<1>1. ~stop /\ NoneDied
  BY StopStays DEF NoneDied
<1>2. /\ \A g \in Workers : wpc'[g] \notin {"dead", "ended"}
      /\ \A g \in Workers : wpc[g] \notin {"dead", "ended", "closing"}
  <2>1. \A g \in Workers : wpc[g] \notin {"dead", "ended", "closing"} /\ wpc'[g] # "dead"
    BY <1>1 DEF NoneDied, OneAtATime
  <2>2. OneAtATime'
    BY OneAtATimeNext
  <2> QED
    BY <2>1, <2>2 DEF OneAtATime
<1>3. SUFFICES Somewhere'
  BY <1>2 DEF Queued, Carried, Finished
<1>4. ASSUME ~Unsent(c), fut[c] \in {"none", "pending"}
      PROVE  Somewhere
  BY <1>1, <1>4 DEF UnderWay, Queued, Carried
<1>5. CASE UNCHANGED <<requestQueue, wire, inbox, hand, executed, missed, pc, fut>>
  <2>1. Somewhere
    BY <1>4, <1>5 DEF Unsent
  <2> QED
    BY <1>5, <2>1 DEF AnswerSpent
<1>6. ASSUME NEW d \in Calls, Begin(d) \/ DrawId(d)
      PROVE  Somewhere'
  <2>1. /\ UNCHANGED <<requestQueue, wire, inbox, hand, executed, missed, fut>>
        /\ pc[d] \in {"idle", "newid"}
        /\ \E to \in CallSteps : pc' = [pc EXCEPT ![d] = to]
    BY <1>6 DEF Begin, DrawId, CallStep, CallSteps, netVars, workerVars
  <2>2. pc[d] # "newid" /\ Begin(d)
    BY <1>6, <2>1 DEF ClientInv, CallsInv, IdsGiven, DrawId, CallStep
  <2>3. Unsent(d)'
    BY <2>1, <2>2 DEF Begin, CallStep, Unsent
  <2>4. pc'[c] = pc[c]
    BY <2>1, <2>3 DEF Unsent
  <2>5. Somewhere
    BY <1>4, <2>1, <2>4 DEF Unsent
  <2> QED
    BY <2>1, <2>4, <2>5 DEF AnswerSpent
<1>7. ASSUME NEW d \in Calls, Push(d)
      PROVE  Somewhere'
  <2>1. /\ UNCHANGED <<wire, inbox, hand, executed, missed, fut>>
        /\ requestQueue' = Append(requestQueue, d) /\ pc[d] = "push"
        /\ \E to \in CallSteps : pc' = [pc EXCEPT ![d] = to]
    BY <1>7 DEF Push, CallStep, CallSteps, netVars, workerVars
  <2>2. /\ DOMAIN requestQueue' = 1 .. Len(requestQueue) + 1
        /\ requestQueue'[Len(requestQueue) + 1] = d /\ Len(requestQueue) \in Nat
        /\ \A i \in DOMAIN requestQueue : i \in DOMAIN requestQueue'
                                          /\ requestQueue'[i] = requestQueue[i]
    BY <2>1
  <2>3. CASE c = d
    <3>1. Len(requestQueue) + 1 \in DOMAIN requestQueue'
      BY <2>2
    <3> QED
      BY <2>2, <2>3, <3>1
  <2>4. CASE c # d
    <3>1. pc'[c] = pc[c]
      BY <2>1, <2>4
    <3>2. Somewhere
      BY <1>4, <2>1, <3>1 DEF Unsent
    <3> QED
      BY <2>1, <2>2, <3>1, <3>2 DEF AnswerSpent
  <2> QED
    BY <2>3, <2>4
<1>8. ASSUME NEW d \in Calls, Register(d)
      PROVE  Somewhere'
  <2>1. /\ UNCHANGED <<requestQueue, wire, inbox, hand, executed>> /\ pc[d] = "register"
        /\ missed' = IF AnswerSpent(d) THEN missed \cup {d} ELSE missed
        /\ pc' = [pc EXCEPT ![d] = "waiting"] /\ fut' = [fut EXCEPT ![d] = "pending"]
    BY <1>1, <1>8, NoBreak DEF Register, CallStep, netVars, workerVars
  <2>2. Somewhere
    <3>1. CASE c = d
      BY <1>4, <2>1, <3>1 DEF Unsent, ClientInv, CallsInv, OwnFutures
    <3>2. CASE c # d
      BY <1>4, <2>1, <3>2 DEF Unsent
    <3> QED
      BY <3>1, <3>2
  <2>3. Spent => c \in missed' \/ Spent'
    BY <2>1 DEF AnswerSpent
  <2> QED
    BY <2>1, <2>2, <2>3
<1>9. ASSUME NEW d \in Calls, Get(d) \/ Remove(d)
      PROVE  Somewhere'
  <2>1. /\ UNCHANGED <<requestQueue, wire, inbox, hand, executed, missed, fut>>
        /\ pc[d] \notin {"idle", "newid", "push", "register"}
        /\ \E to \in CallSteps : pc' = [pc EXCEPT ![d] = to]
    BY <1>9, NoBreak DEF Get, Remove, CallStep, CallSteps, netVars, workerVars
  <2>2. Somewhere
    BY <1>4, <2>1 DEF Unsent
  <2> QED
    BY <2>1, <2>2 DEF AnswerSpent
<1>10. ASSUME NEW g \in Workers, Connect(g) \/ Loop(g) \/ Check(g) \/ Close(g)
       PROVE  Somewhere'
  BY <1>5, <1>10 DEF Connect, Loop, Check, Close, WorkerStep, netVars
<1>11. ASSUME NEW g \in Workers, Poll(g)
       PROVE  Somewhere'
  <2>1. UNCHANGED <<requestQueue, wire, executed, missed, pc, fut>>
    BY <1>11 DEF Poll, WorkerStep
  <2>2. Somewhere
    BY <1>4, <2>1 DEF Unsent
  <2>3. CASE UNCHANGED <<inbox, hand>>
    BY <2>1, <2>2, <2>3 DEF AnswerSpent
  <2>4. ASSUME NEW d \in inbox[g],
               hand' = [hand EXCEPT ![g] = d], inbox' = [inbox EXCEPT ![g] = @ \ {d}],
               wpc[g] = "poll"
        PROVE  Somewhere'
    <3>1. hand[g] # c
      <4>1. \A f \in Calls : hand[g] = f => wpc[g] = "deliver"
        BY DEF HandsFree
      <4> QED
        BY <2>4, <4>1
    <3>2. CASE Spent
      <4>1. c # d
        BY <2>4, <3>2 DEF AnswerSpent
      <4> QED
        BY <2>1, <2>4, <3>2, <4>1 DEF AnswerSpent
    <3>3. \A h \in Workers : c \in inbox[h] \cup {hand[h]} => c \in inbox'[h] \cup {hand'[h]}
      BY <2>4, <3>1
    <3> QED
      BY <2>1, <2>2, <3>2, <3>3
  <2> QED
    BY <1>11, <2>3, <2>4 DEF Poll, WorkerStep
<1>12. ASSUME NEW g \in Workers, Deliver(g)
       PROVE  Somewhere'
  <2>1. /\ UNCHANGED <<requestQueue, wire, inbox, executed, missed, pc, ids>>
        /\ hand' = [hand EXCEPT ![g] = Absent] /\ wpc[g] = "deliver"
    BY <1>12 DEF Deliver, WorkerStep, netVars, idState
  <2>2. fut[c] \in {"none", "pending"}
    BY <1>12 DEF Deliver, ClientInv, CallsInv, OwnFutures
  <2>3. Somewhere
    BY <1>4, <2>1, <2>2 DEF Unsent
  <2>4. CASE c # hand[g]
    <3>1. \A h \in Workers : c = hand[h] => c = hand'[h]
      BY <2>1, <2>4
    <3> QED
      BY <2>1, <2>3, <2>4, <3>1, ClientAssumption DEF AnswerSpent
  <2>5. CASE c = hand[g]
    <3>1. ids[c] # NullReqId
      BY <2>1 DEF ClientInv, CallsInv, IdsGiven, DistinctGivenIds, Unsent
    <3>2. /\ c \in executed
          /\ \/ waitList[ids[c]] = c /\ fut[c] = "pending"
             \/ waitList[ids[c]] = Absent /\ pc[c] = "register"
      BY <2>1, <2>5, <3>1, DeliverWhat
    <3>3. ASSUME waitList[ids[c]] = c, fut[c] = "pending"
          PROVE  FALSE
      <4>1. Awaited(ids[hand[g]]) /\ waitList[ids[hand[g]]] = c /\ ids[hand[g]] # NullReqId
        BY <2>5, <3>1, <3>3 DEF Awaited
      <4>2. fut' = [fut EXCEPT ![c] = "ready"]
        BY <1>12, <4>1, ClientAssumption DEF Deliver
      <4> QED
        BY <4>2
    <3>4. \A h \in Workers : c \notin inbox[h] /\ (h # g => c # hand[h])
      BY <2>5 DEF ClientInv, OnceInv, RepliesOnce
    <3> QED
      BY <2>1, <3>2, <3>3, <3>4, ClientAssumption DEF AnswerSpent
  <2> QED
    BY <2>4, <2>5
<1>13. ASSUME NEW g \in Workers, PopAndSend(g)
       PROVE  Somewhere'
  <2>1. /\ UNCHANGED <<inbox, hand, executed, missed, pc, fut>> /\ requestQueue # <<>>
        /\ requestQueue' = Tail(requestQueue)
        /\ wire' = [wire EXCEPT ![g] = @ \cup {Head(requestQueue)}]
    BY <1>13 DEF PopAndSend, WorkerStep
  <2>2. Somewhere
    BY <1>4, <2>1 DEF Unsent
  <2>3. \A h \in Workers : wire[h] \subseteq wire'[h]
    BY <2>1
  <2>4. ASSUME NEW i \in DOMAIN requestQueue, requestQueue[i] = c
        PROVE  c \in wire'[g] \/ \E j \in DOMAIN requestQueue' : requestQueue'[j] = c
    <3>1. CASE i = 1
      BY <2>1, <2>4, <3>1
    <3>2. CASE i # 1
      <4>1. i - 1 \in DOMAIN requestQueue' /\ requestQueue'[i - 1] = c
        BY <2>1, <2>4, <3>2
      <4> QED
        BY <4>1
    <3> QED
      BY <3>1, <3>2
  <2> QED
    BY <2>1, <2>2, <2>3, <2>4 DEF AnswerSpent
<1>14. ASSUME NEW g \in Workers, NEW d \in Calls, Serve(g, d)
       PROVE  Somewhere'
  <2>1. /\ UNCHANGED <<requestQueue, hand, missed, pc, fut>>
        /\ wire' = [wire EXCEPT ![g] = @ \ {d}]
        /\ executed' = executed \cup {d}
        /\ \/ inbox' = [inbox EXCEPT ![g] = @ \cup {d}]
           \/ d # c /\ UNCHANGED inbox
    BY <1>14 DEF Serve, callVars, workerVars
  <2>2. Somewhere
    BY <1>4, <2>1 DEF Unsent
  <2>3. Spent => Spent'
    <3>1. SUFFICES ASSUME AnswerSpent(c) PROVE AnswerSpent(c)'
      BY <2>1
    <3> QED
      BY <3>1, SpentStays DEF ClientInv
  <2>4. \A h \in Workers :
          c \in wire[h] \cup inbox[h] \cup {hand[h]} => c \in wire'[h] \cup inbox'[h] \cup {hand'[h]}
    BY <2>1
  <2> QED
    BY <2>1, <2>2, <2>3, <2>4
<1>15. CASE StopBegin \/ StartBegin \/ Wait \/ UnlockDone \/ Launch \/ Join \/ Corrupt
  <2>1. UNCHANGED <<requestQueue, wire, inbox, hand, executed, missed, pc, fut>>
    BY <1>15
    DEF StopBegin, StartBegin, Wait, UnlockDone, Launch, Join, OwnerStep, Corrupt, callVars,
        netVars, workerVars
  <2> QED
    BY <1>5, <2>1
<1>16. CASE UnlockNext
  BY <1>1, <1>16, NobodyWorks DEF UnlockNext
<1>17. ASSUME NEW g \in Workers, ZmqFails(g)
       PROVE  FALSE
  BY <1>2, <1>17 DEF ZmqFails, WorkerStep
<1> QED
  BY <1>6, <1>7, <1>8, <1>9, <1>10, <1>11, <1>12, <1>13, <1>14, <1>15, <1>16, <1>17
  DEF Next, Step, CallProgress, WorkerProgress, OwnerProgress

(***************************************************************************)
(* The loop of Stop() passes no promise that waits; when it has ended all  *)
(* of them are fulfilled.                                                  *)
(***************************************************************************)
LEMMA VisitedNext ==
  ASSUME DistinctGivenIds, ClientFacts, Visited, AllReleased, Next
  PROVE  Visited' /\ AllReleased'
<1> USE DEF ClientFacts, TypeOK
<1>1. ASSUME NEW c \in Calls, fut[c] = "pending"
      PROVE  /\ Registered(c) /\ waitList[ids[c]] = c
             /\ ids[c] \in ReqId /\ ids[c] # NullReqId
  <2>1. Registered(c) /\ c \notin NoReply
    BY <1>1 DEF ClientInv, CallsInv, OwnFutures, Registered, Unsent, CallSteps
  <2> QED
    BY <2>1, NotNull DEF ClientInv, CallsInv, OwnEntries, Registered, IdTypeOK
<1>2. ASSUME NEW c \in Calls, fut'[c] = "pending"
      PROVE  \/ fut[c] = "pending" /\ ids'[c] = ids[c] /\ missed \subseteq missed'
             \/ stop => c \in missed'
  <2>1. CASE UNCHANGED <<ids, fut, missed>>
    BY <1>2, <2>1
  <2>2. ASSUME NEW d \in Calls, Begin(d) \/ DrawId(d)
        PROVE  fut[c] = "pending" /\ ids'[c] = ids[c] /\ missed \subseteq missed'
    <3>1. UNCHANGED <<fut, missed>> /\ (d # c => ids'[c] = ids[c]) /\ ~Registered(d)
      BY <2>2
      DEF Begin, DrawId, CallStep, Registered, Enter, Increment, Renumber, AssertNotNull,
          Return, IdTypeOK
    <3> QED
      BY <1>1, <1>2, <3>1
  <2>3. ASSUME NEW d \in Calls, Push(d) \/ Get(d) \/ Remove(d)
        PROVE  UNCHANGED <<ids, fut, missed>>
    BY <2>3, NoBreak DEF Push, Get, Remove, CallStep, idState
  <2>4. ASSUME NEW d \in Calls, Register(d)
        PROVE  \/ fut[c] = "pending" /\ ids'[c] = ids[c] /\ missed \subseteq missed'
               \/ stop => c \in missed'
    <3>1. /\ fut' = [fut EXCEPT ![d] = "pending"] /\ UNCHANGED ids
          /\ missed \subseteq missed' /\ (stop => d \in missed')
      BY <2>4, NoBreak DEF Register, idState
    <3> QED
      BY <1>2, <3>1
  <2>5. ASSUME NEW g \in Workers, WorkerProgress(g) \/ ZmqFails(g)
        PROVE  UNCHANGED <<ids, missed>> /\ fut[c] = "pending"
    BY <1>2, <2>5
    DEF WorkerProgress, Connect, Loop, ZmqFails, Poll, Deliver, Check, PopAndSend, Close,
        WorkerStep, idState
  <2>6. ASSUME NEW g \in Workers, NEW d \in Calls, Serve(g, d)
        PROVE  UNCHANGED <<ids, fut, missed>>
    BY <2>6 DEF Serve, callVars, idState
  <2>7. CASE StopBegin \/ StartBegin \/ Wait \/ UnlockDone \/ Launch \/ Join \/ Corrupt
    BY <2>1, <2>7
    DEF StopBegin, StartBegin, Wait, UnlockDone, Launch, Join, OwnerStep, Corrupt, callVars,
        idState
  <2>8. CASE UnlockNext
    BY <1>2, <2>8 DEF UnlockNext, idState
  <2>9. CASE \E g \in Workers : WorkerProgress(g) \/ ZmqFails(g)
    BY <1>2, <2>5, <2>9
  <2> QED
    BY <2>1, <2>2, <2>3, <2>4, <2>6, <2>7, <2>8, <2>9 DEF Next, Step, CallProgress, OwnerProgress
<1>3. CASE UnlockNext
  <2>1. PICK i \in Remaining :
          /\ \A j \in Remaining : i <= j
          /\ cursor' = i
          /\ \/ Awaited(i) /\ fut' = [fut EXCEPT ![waitList[i]] = "empty"] /\ UNCHANGED last
             \/ ~Awaited(i) /\ opc' = "idle" /\ last' = "threw"
          /\ UNCHANGED <<ids, waitList, stop, missed>>
    BY <1>3 DEF UnlockNext, idState
  <2>2. i \in ReqId /\ opc = "unlock"
    BY <1>3 DEF Remaining, UnlockNext
  <2>3. AllReleased'
    BY <1>2, <2>1 DEF AllReleased
  <2>4. ASSUME NEW c \in Calls, opc' = "unlock", fut'[c] = "pending", c \notin missed'
        PROVE  ids'[c] > cursor'
    <3>1. /\ Awaited(i) /\ fut' = [fut EXCEPT ![waitList[i]] = "empty"]
          /\ waitList[i] \in Calls /\ UNCHANGED <<ids, missed>>
      BY <2>1, <2>4 DEF Awaited
    <3>2. fut[c] = "pending" /\ c # waitList[i]
      BY <2>4, <3>1
    <3>3. ids[c] \in Remaining /\ ids[c] # i
      BY <1>1, <2>2, <2>4, <3>1, <3>2, ClientAssumption DEF Visited, Remaining
    <3> QED
      BY <1>1, <2>1, <2>2, <3>1, <3>2, <3>3, ClientAssumption DEF ReqId
  <2> QED
    BY <2>3, <2>4 DEF Visited
<1>4. CASE UnlockDone
  <2>1. /\ Remaining = {} /\ opc = "unlock" /\ opc' # "unlock" /\ stop' = stop
        /\ UNCHANGED <<fut, missed>>
    BY <1>4 DEF UnlockDone, OwnerStep, callVars
  <2>2. ASSUME NEW c \in Calls, fut[c] = "pending"
        PROVE  c \in missed
    <3>1. ids[c] > cursor => ids[c] \in Remaining
      BY <1>1, <2>2, ClientAssumption DEF Remaining
    <3> QED
      BY <2>1, <2>2, <3>1 DEF Visited
  <2> QED
    BY <2>1, <2>2, NobodyWorks DEF Visited, AllReleased
<1>5. CASE Wait
  <2>1. cursor' = 0 \/ opc' = "idle"
    BY <1>5 DEF Wait, OwnerStep
  <2>2. UNCHANGED <<fut, ids, missed, stop>> /\ last' \in {last, "timeout"}
    BY <1>5 DEF Wait, OwnerStep, callVars, idState
  <2>3. \A c \in Calls : fut[c] = "pending" => ids[c] > 0
    BY <1>1, ClientAssumption DEF ReqId, NullReqId
  <2> QED
    BY <2>1, <2>2, <2>3 DEF Visited, AllReleased
<1>6. CASE UNCHANGED <<opc, cursor, last>>
  <2>1. stop => stop'
    BY StopStays
  <2>2. opc = "unlock" => stop
    BY DEF OneAtATime
  <2> QED
    BY <1>2, <1>6, <2>1, <2>2 DEF Visited, AllReleased
<1>7. CASE StopBegin \/ StartBegin \/ Launch \/ Join
  <2>1. /\ UNCHANGED <<fut, ids, missed>> /\ opc' # "unlock" /\ (stop => stop')
        /\ last' \in {last, "invalid"}
    BY <1>7 DEF StopBegin, StartBegin, Launch, Join, OwnerStep, callVars, idState
  <2> QED
    BY <2>1 DEF Visited, AllReleased
<1>8. ASSUME NEW c \in Calls, Begin(c) \/ CallProgress(c)
      PROVE  UNCHANGED <<opc, cursor, last>>
  BY <1>8
  DEF CallProgress, Begin, DrawId, Push, Register, Get, Remove, CallStep, ownerVars
<1>9. ASSUME NEW g \in Workers, WorkerProgress(g) \/ ZmqFails(g)
      PROVE  UNCHANGED <<opc, cursor, last>>
  BY <1>9
  DEF WorkerProgress, Connect, Loop, ZmqFails, Poll, Deliver, Check, PopAndSend, Close,
      WorkerStep, ownerVars
<1>10. ASSUME NEW g \in Workers, NEW c \in Calls, Serve(g, c) \/ Corrupt
       PROVE  UNCHANGED <<opc, cursor, last>>
  BY <1>10 DEF Serve, Corrupt, ownerVars
<1>11. CASE Corrupt
  BY <1>6, <1>11 DEF Corrupt, ownerVars
<1> QED
  BY <1>3, <1>4, <1>5, <1>6, <1>7, <1>8, <1>9, <1>10, <1>11 DEF Next, Step, OwnerProgress

(***************************************************************************)
(* With different ids all of this holds at all times.                      *)
(***************************************************************************)
LEMMA WaitInvariant ==
  ASSUME DistinctGivenIds
  PROVE  Spec => [](ClientFacts /\ WaitInv)
<1>1. Init => HandsFree /\ WaitInv
  <2> SUFFICES ASSUME Init PROVE HandsFree /\ WaitInv
    OBVIOUS
  <2> QED
    BY ClientAssumption
    DEF Init, HandsFree, WaitInv, Early, Released, UnderWay, Visited, AllReleased, Unsent
<1>2. TypeOK /\ MayLaunch /\ HasReply /\ OneAtATime /\ ClientInv /\ HandsFree /\ WaitInv
        /\ [Next]_vars => (HandsFree /\ WaitInv)'
  <2> SUFFICES ASSUME TypeOK, MayLaunch, HasReply, OneAtATime, ClientInv, HandsFree, WaitInv,
                      [Next]_vars
               PROVE  (HandsFree /\ WaitInv)'
    OBVIOUS
  <2>1. CASE Next
    BY <2>1, HandsFreeNext, EarlyNext, ReleasedNext, UnderWayNext, VisitedNext
    DEF WaitInv, ClientFacts
  <2>2. CASE UNCHANGED vars
    BY <2>2
    DEF vars, callVars, idState, netVars, workerVars, ownerVars, HandsFree, WaitInv, InLoop, Early,
        Released, UnderWay, Visited, AllReleased, AnswerSpent, Unsent, Queued, Carried,
        NoneDied, Finished
  <2> QED
    BY <2>1, <2>2
<1>3. TypeOK /\ MayLaunch /\ HasReply /\ OneAtATime /\ ClientInv /\ HandsFree /\ WaitInv
        => ClientFacts /\ WaitInv
  BY DEF ClientFacts
<1> QED
  BY <1>1, <1>2, <1>3, TypeInvariant, OneAtATimeInvariant, ClientInvariant, PTL DEF Spec

(***************************************************************************)
(* Calls that were given different ids have their entries in waitList_     *)
(* while they wait, and no others do, besides replies that came early.     *)
(***************************************************************************)
THEOREM EntriesMatchCallsCorrect ==
  ASSUME DistinctGivenIds
  PROVE  Spec => []EntriesMatchCalls
<1>1. ClientFacts /\ WaitInv => EntriesMatchCalls
  <2> SUFFICES ASSUME ClientFacts, WaitInv PROVE EntriesMatchCalls
    OBVIOUS
  <2>1. ASSUME NEW i \in ReqId, waitList[i] = Absent,
               NEW c \in Calls, pc[c] \in {"waiting", "remove"}
        PROVE  ids[c] # i
    BY <2>1, ClientAssumption DEF ClientFacts, ClientInv, CallsInv, OwnEntries, Registered
  <2>2. ASSUME NEW i \in ReqId, waitList[i] \in Calls
        PROVE  ids[waitList[i]] = i /\ pc[waitList[i]] \in {"waiting", "remove"}
    BY <2>2 DEF ClientFacts, ClientInv, CallsInv, OwnEntries, Registered
  <2>3. ASSUME NEW i \in ReqId, waitList[i] = Orphan
        PROVE  \E c \in executed : ids[c] = i /\ pc[c] = "register"
    BY <2>3 DEF WaitInv, Early
  <2> QED
    BY <2>1, <2>2, <2>3 DEF EntriesMatchCalls
<1> QED
  BY <1>1, WaitInvariant, PTL

(***************************************************************************)
(* A call with an id of its own that waits is on its way, unless it was    *)
(* late, the client is being stopped, or a worker died.                    *)
(***************************************************************************)
THEOREM PendingIsUnderWayCorrect ==
  ASSUME DistinctGivenIds
  PROVE  Spec => []PendingIsUnderWay
<1>1. ClientFacts /\ WaitInv => PendingIsUnderWay
  <2> SUFFICES ASSUME ClientFacts, WaitInv, NEW c \in Calls,
                      fut[c] = "pending", ~stop, NoneDied
               PROVE  Queued(c) \/ Carried(c) \/ c \in missed
    BY DEF PendingIsUnderWay
  <2>1. c \notin NoReply /\ ~Unsent(c) /\ pc[c] # "register"
    BY DEF ClientFacts, ClientInv, CallsInv, OwnFutures
  <2> QED
    BY <2>1 DEF WaitInv, UnderWay
<1> QED
  BY <1>1, WaitInvariant, PTL

(***************************************************************************)
(* A Stop() that returns true leaves nobody waiting who had an id of his   *)
(* own, and was not late.                                                  *)
(***************************************************************************)
THEOREM StopReleasesCorrect ==
  ASSUME DistinctGivenIds
  PROVE  Spec => []StopReleases
<1>1. ClientFacts /\ WaitInv => StopReleases
  BY DEF WaitInv, AllReleased, StopReleases
<1> QED
  BY <1>1, WaitInvariant, PTL

(***************************************************************************)
(* With different ids a worker never meets a promise that is fulfilled.    *)
(***************************************************************************)
THEOREM DeliverNeverThrowsCorrect ==
  ASSUME DistinctGivenIds
  PROVE  Spec => DeliverNeverThrows
<1>1. ClientFacts /\ WaitInv /\ [Next]_vars
        => [\A g \in Workers : wpc[g] = "deliver" => wpc'[g] # "dead"]_vars
  <2> SUFFICES ASSUME ClientFacts, WaitInv, Next, NEW g \in Workers, wpc[g] = "deliver"
               PROVE  wpc'[g] # "dead"
    OBVIOUS
  <2> USE DEF ClientFacts, TypeOK
  <2>1. CASE UNCHANGED wpc
    BY <2>1
  <2>2. ASSUME NEW h \in Workers,
               Connect(h) \/ Loop(h) \/ ZmqFails(h) \/ Poll(h) \/ Check(h) \/ PopAndSend(h) \/ Close(h)
        PROVE  wpc'[g] = wpc[g]
    <3>1. wpc[h] # "deliver" /\ \E to \in WorkerSteps : wpc' = [wpc EXCEPT ![h] = to]
      BY <2>2
      DEF Connect, Loop, ZmqFails, Poll, Check, PopAndSend, Close, WorkerStep, WorkerSteps
    <3> QED
      BY <3>1
  <2>3. ASSUME NEW h \in Workers, Deliver(h)
        PROVE  wpc'[g] # "dead"
    <3>1. CASE h # g
      BY <2>3, <3>1 DEF Deliver, WorkerStep
    <3>2. CASE h = g /\ ids[hand[g]] = NullReqId
      BY <2>3, <3>2 DEF Deliver, WorkerStep
    <3>3. CASE h = g /\ ids[hand[g]] # NullReqId
      <4>1. waitList[ids[hand[g]]] = Absent \/ Awaited(ids[hand[g]])
        BY <3>3, DeliverWhat DEF WaitInv, Awaited
      <4> QED
        BY <2>3, <3>3, <4>1 DEF Deliver, WorkerStep
    <3> QED
      BY <3>1, <3>2, <3>3
  <2>4. ASSUME NEW c \in Calls, Begin(c) \/ CallProgress(c)
        PROVE  UNCHANGED wpc
    BY <2>4
    DEF CallProgress, Begin, DrawId, Push, Register, Get, Remove, CallStep, workerVars
  <2>5. ASSUME NEW h \in Workers, NEW c \in Calls, Serve(h, c)
        PROVE  UNCHANGED wpc
    BY <2>5 DEF Serve, workerVars
  <2>6. CASE StopBegin \/ StartBegin \/ Wait \/ UnlockNext \/ UnlockDone \/ Join \/ Corrupt
    BY <2>1, <2>6
    DEF StopBegin, StartBegin, Wait, UnlockNext, UnlockDone, Join, Corrupt, workerVars
  <2>7. CASE Launch
    BY <2>7 DEF Launch
  <2> QED
    BY <2>1, <2>2, <2>3, <2>4, <2>5, <2>6, <2>7 DEF Next, Step, WorkerProgress, OwnerProgress
<1> QED
  BY <1>1, WaitInvariant, PTL DEF Spec, DeliverNeverThrows
-----------------------------------------------------------------------------
(* What the liveness of Stop() rests on. *)

\* A bound on the steps a worker at this point makes once stop_ is set.
StepsLeft(step) ==
  CASE step = "poll" -> 6 [] step = "deliver" -> 5 [] step = "check" -> 4
    [] step \in {"init", "pop"} -> 3 [] step = "loop" -> 2 [] step = "closing" -> 1 [] OTHER -> 0

\* Set means set: in whatever order the calls of the owner come, each worker
\* makes only so many more steps, also one that is launched afterwards.
StopWindsDown ==
  stop => /\ stop'
          /\ \A g \in Workers : \/ wpc'[g] = wpc[g]
                                \/ wpc[g] = "unborn" /\ wpc'[g] = "init"
                                \/ StepsLeft(wpc'[g]) < StepsLeft(wpc[g])

\* Empty() and Pop() are two calls, but a single worker is not blocked in Pop().
PopDoesNotBlock ==
  starts <= 1 => \A g \in Workers : wpc[g] = "pop" => requestQueue # <<>>

(***************************************************************************)
(* After a request to stop, a worker makes at most six more steps before   *)
(* it ends, whatever is queued or received and whoever calls Start().      *)
(***************************************************************************)
THEOREM StopWindsDownCorrect == Spec => [][StopWindsDown]_vars
<1>1. TypeOK /\ MayLaunch /\ OneAtATime /\ Next => StopWindsDown
  <2> SUFFICES ASSUME TypeOK, MayLaunch, OneAtATime, Next, stop
               PROVE  \A g \in Workers : \/ wpc'[g] = wpc[g]
                                         \/ wpc[g] = "unborn" /\ wpc'[g] = "init"
                                         \/ StepsLeft(wpc'[g]) < StepsLeft(wpc[g])
    BY StopStays DEF StopWindsDown
  <2>0. DOMAIN wpc = Workers
    BY DEF TypeOK
  <2>s. /\ StepsLeft("deliver") = 5 /\ StepsLeft("check") = 4 /\ StepsLeft("init") = 3
        /\ StepsLeft("pop") = 3 /\ StepsLeft("loop") = 2 /\ StepsLeft("poll") = 6
        /\ StepsLeft("closing") = 1
        /\ StepsLeft("ended") = 0 /\ StepsLeft("dead") = 0
    BY DEF StepsLeft
  <2>1. ASSUME NEW g \in Workers, WorkerProgress(g) \/ ZmqFails(g)
        PROVE  \E to \in WorkerSteps : /\ wpc' = [wpc EXCEPT ![g] = to]
                                      /\ StepsLeft(to) < StepsLeft(wpc[g])
    <3>1. CASE Connect(g) \/ Loop(g) \/ Check(g) \/ PopAndSend(g) \/ Close(g)
      <4>1. \/ wpc[g] = "init" /\ wpc' = [wpc EXCEPT ![g] = "loop"]
            \/ wpc[g] = "loop" /\ wpc' = [wpc EXCEPT ![g] = "closing"]
            \/ wpc[g] = "check" /\ wpc' = [wpc EXCEPT ![g] = "loop"]
            \/ wpc[g] = "check" /\ wpc' = [wpc EXCEPT ![g] = "pop"]
            \/ wpc[g] = "pop" /\ wpc' = [wpc EXCEPT ![g] = "loop"]
            \/ wpc[g] = "closing" /\ wpc' = [wpc EXCEPT ![g] = "ended"]
        BY <3>1 DEF Connect, Loop, Check, PopAndSend, Close, WorkerStep
      <4> QED
        BY <2>s, <4>1 DEF WorkerSteps
    <3>2. CASE Poll(g)
      <4>1. PICK to \in {"deliver", "check"} :
              wpc[g] = "poll" /\ wpc' = [wpc EXCEPT ![g] = to]
        BY <3>2 DEF Poll, WorkerStep
      <4>2. to \in WorkerSteps /\ StepsLeft(to) < StepsLeft(wpc[g])
        BY <2>s, <4>1 DEF WorkerSteps
      <4> QED
        BY <4>1, <4>2
    <3>3. CASE Deliver(g)
      <4>1. PICK to \in {"loop", "check", "dead"} :
              wpc[g] = "deliver" /\ wpc' = [wpc EXCEPT ![g] = to]
        BY <3>3 DEF Deliver, WorkerStep
      <4>2. to \in WorkerSteps /\ StepsLeft(to) < StepsLeft(wpc[g])
        BY <2>s, <4>1 DEF WorkerSteps
      <4> QED
        BY <4>1, <4>2
    <3>4. CASE ZmqFails(g)
      <4>1. wpc[g] \in {"init", "poll", "pop"} /\ wpc' = [wpc EXCEPT ![g] = "dead"]
        BY <3>4 DEF ZmqFails, WorkerStep
      <4> QED
        BY <2>s, <4>1 DEF WorkerSteps
    <3> QED
      BY <2>1, <3>1, <3>2, <3>3, <3>4 DEF WorkerProgress
  <2>2. CASE Launch
    <3>1. /\ wpc' = [wpc EXCEPT ![starts + 1] = "init"] /\ starts + 1 \in Workers
          /\ wpc[starts + 1] = "unborn"
      BY <2>2, ClientAssumption DEF Launch, OwnerStep, MayLaunch, Workers, TypeOK, OneAtATime
    <3> QED
      BY <2>0, <3>1
  <2>3. CASE ~Launch /\ ~\E g \in Workers : WorkerProgress(g) \/ ZmqFails(g)
    <3>1. wpc' = wpc
      BY <2>3
      DEF Next, Step, CallProgress, Begin, DrawId, Push, Register, Get, Remove, CallStep, Serve,
          StopBegin, StartBegin, OwnerProgress, Wait, UnlockNext, UnlockDone, Join, Corrupt,
          workerVars
    <3> QED
      BY <3>1
  <2> QED
    BY <2>0, <2>1, <2>2, <2>3
<1>2. TypeOK /\ MayLaunch /\ OneAtATime /\ [Next]_vars => [StopWindsDown]_vars
  BY <1>1
<1> QED
  BY <1>2, TypeInvariant, OneAtATimeInvariant, PTL DEF Spec

(***************************************************************************)
(* The one worker of a client that was started once never blocks in Pop(), *)
(* where it would not see the request to stop, nor a reply.                *)
(***************************************************************************)
THEOREM PopDoesNotBlockCorrect == Spec => []PopDoesNotBlock
<1>1. Init => PopDoesNotBlock
  BY DEF Init, PopDoesNotBlock
<1>2. TypeOK /\ OneAtATime /\ PopDoesNotBlock /\ [Next]_vars => PopDoesNotBlock'
  <2> SUFFICES ASSUME TypeOK, OneAtATime, PopDoesNotBlock, [Next]_vars, starts' <= 1
               PROVE  \A g \in Workers : wpc'[g] = "pop" => requestQueue' # <<>>
    BY DEF PopDoesNotBlock
  <2>0. /\ requestQueue \in Seq(Calls) /\ DOMAIN wpc = Workers /\ Workers = 1 .. MaxStarts
        /\ starts \in 0 .. MaxStarts /\ MaxStarts \in Nat
        /\ \A g \in Workers : wpc[g] # "unborn" => g <= starts
    BY ClientAssumption DEF TypeOK, Workers, OneAtATime
  <2>1. CASE UNCHANGED <<wpc, requestQueue, starts>>
    BY <2>1 DEF PopDoesNotBlock
  <2>2. ASSUME NEW c \in Calls, Begin(c) \/ CallProgress(c)
        PROVE  \A g \in Workers : wpc'[g] = "pop" => requestQueue' # <<>>
    <3>1. /\ UNCHANGED <<wpc, starts>>
          /\ requestQueue' = requestQueue \/ requestQueue' = Append(requestQueue, c)
      BY <2>2
      DEF CallProgress, Begin, DrawId, Push, Register, Get, Remove, CallStep, workerVars, ownerVars
    <3>2. Append(requestQueue, c) # <<>>
      BY <2>0
    <3> QED
      BY <3>1, <3>2 DEF PopDoesNotBlock
  <2>3. ASSUME NEW g \in Workers, WorkerProgress(g) \/ ZmqFails(g)
        PROVE  \A h \in Workers : wpc'[h] = "pop" => requestQueue' # <<>>
    <3>1. starts' = starts /\ wpc[g] # "unborn"
      BY <2>3
      DEF WorkerProgress, Connect, Loop, ZmqFails, Poll, Deliver, Check, PopAndSend, Close, WorkerStep,
          ownerVars
    <3>2. \A h \in Workers : h # g => wpc[h] = "unborn" /\ wpc'[h] = wpc[h]
      <4>1. \A h \in Workers : h # g => wpc[h] = "unborn"
        BY <2>0, <3>1
      <4>2. \A h \in Workers : h # g => wpc'[h] = wpc[h]
        BY <2>3
        DEF WorkerProgress, Connect, Loop, ZmqFails, Poll, Deliver, Check, PopAndSend, Close, WorkerStep,
            TypeOK
      <4> QED
        BY <4>1, <4>2
    <3>3. wpc'[g] = "pop" => requestQueue' # <<>>
      <4>1. CASE Check(g)
        BY <2>0, <4>1 DEF Check, WorkerStep
      <4>2. CASE ~Check(g)
        <5>1. wpc'[g] # "pop"
          BY <2>0, <2>3, <4>2
          DEF WorkerProgress, Connect, Loop, ZmqFails, Poll, Deliver, PopAndSend, Close, WorkerStep
        <5> QED
          BY <5>1
      <4> QED
        BY <4>1, <4>2
    <3> QED
      BY <3>2, <3>3
  <2>4. CASE Launch
    <3>1. /\ wpc' = [wpc EXCEPT ![starts + 1] = "init"] /\ starts' = starts + 1
          /\ requestQueue' = requestQueue
      BY <2>4 DEF Launch, OwnerStep
    <3>2. starts = 0
      BY <2>0, <3>1
    <3> QED
      BY <2>0, <3>1, <3>2
  <2>5. CASE UNCHANGED vars \/ StopBegin \/ StartBegin \/ Wait \/ UnlockNext \/ UnlockDone
             \/ Join \/ Corrupt \/ \E g \in Workers, c \in Calls : Serve(g, c)
    BY <2>1, <2>5
    DEF StopBegin, StartBegin, Wait, UnlockNext, UnlockDone, Join, Corrupt, Serve, OwnerStep,
        workerVars, ownerVars, vars
  <2> QED
    BY <2>2, <2>3, <2>4, <2>5 DEF Next, Step, OwnerProgress
<1> QED
  BY <1>1, <1>2, TypeInvariant, OneAtATimeInvariant, PTL DEF Spec
=============================================================================
