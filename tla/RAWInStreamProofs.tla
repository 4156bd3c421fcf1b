-------------------------- MODULE RAWInStreamProofs --------------------------
(***************************************************************************)
(* RAWInStream for any number of messages, workers, calls and loops.       *)
(***************************************************************************)
EXTENDS RAWInStream, SequenceLemmas

(***************************************************************************)
(* Where the owner is, by the call it makes, and what it has checked.      *)
(***************************************************************************)
OwnerKnows ==
  /\ opc \in {"stop", "pill", "get"} => task # "none"
  /\ opc = "get2" => task = "start"
  /\ opc = "launch" => task \in {"start", "restart"}
  /\ opc \in {"stop", "pill", "get", "get2", "launch"} /\ task \in {"start", "restart"}
       => starts < MaxStarts

(***************************************************************************)
(* taskFuture_ is that of the last worker launched, or empty; a worker     *)
(* that is alive is its worker, except while Start() assigns to it.        *)
(***************************************************************************)
Owned ==
  /\ \A w \in Workers : wpc[w] = "unborn" <=> w > starts
  /\ IF opc = "assign" THEN starts > 0 /\ future \in {0, starts - 1}
     ELSE future \in {0, starts}
  /\ \A w \in Workers :
       Alive(w) => \/ w = future
                   \/ opc = "assign" /\ w = starts
                   \/ opc = "join" /\ w = starts - 1
  /\ opc = "join" => starts > 1
  /\ opc = "gone" => \A w \in Workers : ~Alive(w)

InInv == TypeOK /\ OwnerKnows /\ Owned

LEMMA TypeInvariant == Spec => []InInv
<1>1. Init => TypeOK
  <2> SUFFICES ASSUME Init
               PROVE  TypeOK
    OBVIOUS
  <2>1. /\ 0 \in 0 .. NumMessages /\ 0 \in 0 .. MaxStarts /\ 0 \in 0 .. MaxCalls
        /\ 0 \in 0 .. MaxLoops /\ 0 \in 0 .. 0
    BY InAssumption
  <2>2. queue \in Seq(Items) /\ handed \in Seq(Items)
    BY DEF Init
  <2> QED
    BY <2>1, <2>2 DEF Init, TypeOK, WorkerSteps, OwnerSteps, Items, Pill
<1>2. Init => OwnerKnows /\ Owned
  BY InAssumption DEF Init, OwnerKnows, Owned, Workers, Alive, Finished
<1>3. InInv /\ [Next]_vars => InInv'
  <2> SUFFICES ASSUME InInv, [Next]_vars
               PROVE  InInv'
    OBVIOUS
  <2> USE DEF InInv
  <2>0. /\ Workers = 1 .. MaxStarts /\ MaxStarts \in Nat /\ NumMessages \in Nat
        /\ starts \in 0 .. MaxStarts /\ future \in 0 .. starts
        /\ wpc \in [Workers -> WorkerSteps] /\ Items = 0 .. NumMessages
    BY InAssumption DEF Workers, TypeOK, Items
  <2>1. ASSUME NEW w \in Workers, NEW to \in WorkerSteps \ {"unborn"},
               wpc[w] \notin {"unborn", "ended", "dead"}, wpc' = [wpc EXCEPT ![w] = to],
               UNCHANGED <<ownVars, future>>
        PROVE  OwnerKnows' /\ Owned'
    BY <2>0, <2>1 DEF ownVars, OwnerKnows, Owned, Alive, Finished
  <2>2. ASSUME NEW w \in Workers, WorkerStep(w) \/ Throw(w), ~WorkerGet(w)
        PROVE  InInv'
    <3>1. /\ wpc[w] \notin {"unborn", "ended", "dead"}
          /\ \E to \in WorkerSteps \ {"unborn"} : wpc' = [wpc EXCEPT ![w] = to]
          /\ UNCHANGED <<loopVars, ownVars, future, ub>>
      BY <2>2
      DEF WorkerStep, Connect, Check, Receive, TimeOut, Close, Flag, WorkerStop,
          WorkerPushPill, Throw, Goto, WorkerSteps
    <3>2. /\ \E m \in 0 .. NumMessages : seen' = seen \/ seen' = [seen EXCEPT ![w] = m]
          /\ \E x \in Items : queue' = queue \/ queue' = Append(queue, x)
          /\ \E b \in BOOLEAN : timedOut' = timedOut \/ timedOut' = [timedOut EXCEPT ![w] = b]
      <4>1. 0 \in Items /\ Pill = 0
        BY <2>0 DEF Pill
      <4>2. ASSUME Receive(w)
            PROVE  /\ \E m \in 0 .. NumMessages : seen' = seen \/ seen' = [seen EXCEPT ![w] = m]
                   /\ \E x \in Items : queue' = queue \/ queue' = Append(queue, x)
                   /\ \E b \in BOOLEAN : timedOut' = timedOut \/ timedOut' = [timedOut EXCEPT ![w] = b]
        <5>1. seen[w] \in 0 .. NumMessages /\ seen[w] + 1 .. NumMessages \subseteq Items
          BY <2>0 DEF TypeOK
        <5> QED
          BY <2>0, <4>2, <5>1 DEF Receive
      <4>3. ASSUME ~Receive(w)
            PROVE  /\ \E m \in 0 .. NumMessages : seen' = seen \/ seen' = [seen EXCEPT ![w] = m]
                   /\ \E x \in Items : queue' = queue \/ queue' = Append(queue, x)
                   /\ \E b \in BOOLEAN : timedOut' = timedOut \/ timedOut' = [timedOut EXCEPT ![w] = b]
        BY <2>0, <2>2, <4>1, <4>3
        DEF WorkerStep, Connect, Check, TimeOut, Close, Flag, WorkerStop,
            WorkerPushPill, Throw
      <4> QED
        BY <4>2, <4>3
    <3>3. stop' \in BOOLEAN /\ status' \in SUBSET {"STARTED", "STOPPED", "TIMED_OUT"}
      BY <2>2
      DEF TypeOK, WorkerStep, Connect, Check, Receive, TimeOut, Close, Flag, WorkerStop,
          WorkerPushPill, Throw
    <3>4. /\ queue' \in Seq(Items) /\ seen' \in [Workers -> 0 .. NumMessages]
          /\ timedOut' \in [Workers -> BOOLEAN] /\ wpc' \in [Workers -> WorkerSteps]
      <4>1. queue' \in Seq(Items)
        <5>1. queue \in Seq(Items)
          BY DEF TypeOK
        <5>2. PICK x \in Items : queue' = queue \/ queue' = Append(queue, x)
          BY <3>2
        <5>3. Append(queue, x) \in Seq(Items)
          BY <5>1
        <5> QED
          BY <5>1, <5>2, <5>3
      <4>2. seen' \in [Workers -> 0 .. NumMessages]
        BY <3>2 DEF TypeOK
      <4>3. timedOut' \in [Workers -> BOOLEAN]
        BY <3>2 DEF TypeOK
      <4>4. wpc' \in [Workers -> WorkerSteps]
        BY <2>0, <3>1
      <4> QED
        BY <4>1, <4>2, <4>3, <4>4
    <3>5. TypeOK'
      BY <3>1, <3>3, <3>4 DEF TypeOK, loopVars, ownVars
    <3> QED
      BY <2>1, <3>1, <3>5
  <2>3. ASSUME NEW w \in Workers, WorkerGet(w)
        PROVE  InInv'
    <3>1. /\ wpc[w] = "get" /\ future' = 0
          /\ \E to \in {"ended", "dead"} : wpc' = [wpc EXCEPT ![w] = to]
          /\ future \notin {0, w} => Finished(future)
          /\ UNCHANGED <<loopVars, ownVars, ub, queue, seen, timedOut, stop, status>>
      BY <2>3 DEF WorkerGet, Goto
    <3>2. TypeOK'
      <4>1. wpc' \in [Workers -> WorkerSteps] /\ future' \in 0 .. starts'
        BY <2>0, <3>1 DEF WorkerSteps, ownVars
      <4> QED
        BY <3>1, <4>1 DEF TypeOK, loopVars, ownVars
    <3>3. OwnerKnows' /\ Owned'
      BY <2>0, <3>1 DEF OwnerKnows, Owned, Alive, Finished, ownVars
    <3> QED
      BY <3>2, <3>3
  <2>4. CASE LoopBegin \/ LoopStep
    <3>1. UNCHANGED <<wpc, seen, timedOut, ownVars, future, stop, status>>
      BY <2>4 DEF LoopBegin, LoopStep, LoopCheck, LoopPop, Callback, LoopGoto
    <3>2. /\ lpc' \in {"idle", "check", "pop", "popped"} /\ ub' \in BOOLEAN
          /\ loops' \in 0 .. MaxLoops
      <4>1. lpc' \in {"idle", "check", "pop", "popped"} /\ ub' \in BOOLEAN
        BY <2>4
        DEF LoopBegin, LoopStep, LoopCheck, LoopPop, Callback, LoopGoto, TypeOK
      <4>2. loops' = loops \/ (loops < MaxLoops /\ loops' = loops + 1)
        BY <2>4 DEF LoopBegin, LoopStep, LoopCheck, LoopPop, Callback
      <4>3. loops' \in 0 .. MaxLoops
        BY <4>2, InAssumption DEF TypeOK
      <4> QED
        BY <4>1, <4>3
    <3>3. queue' \in Seq(Items) /\ handed' \in Seq(Items) /\ item' \in Items
      <4>1. CASE LoopBegin \/ LoopCheck
        BY <4>1 DEF LoopBegin, LoopCheck, TypeOK
      <4>2. CASE LoopPop
        <5>1. queue # <<>> /\ queue \in Seq(Items)
          BY <4>2 DEF LoopPop, TypeOK
        <5>2. Head(queue) \in Items /\ Tail(queue) \in Seq(Items)
          BY <5>1
        <5> QED
          BY <4>2, <5>2 DEF LoopPop, TypeOK
      <4>3. CASE Callback
        <5>1. handed' = handed \/ handed' = Append(handed, item)
          BY <4>3 DEF Callback
        <5>2. handed \in Seq(Items) /\ item \in Items /\ 0 \in Items
          BY <2>0 DEF TypeOK
        <5>3. Append(handed, item) \in Seq(Items)
          BY <5>2
        <5> QED
          BY <4>3, <5>1, <5>2, <5>3 DEF Callback, TypeOK, Pill
      <4> QED
        BY <2>4, <4>1, <4>2, <4>3 DEF LoopStep
    <3>4. TypeOK'
      BY <3>1, <3>2, <3>3 DEF TypeOK, ownVars
    <3> QED
      BY <3>1, <3>4 DEF OwnerKnows, Owned, Alive, Finished, ownVars
  <2>5. CASE Call
    <3>1. /\ opc = "idle" /\ opc' \in {"launch", "stop"}
          /\ task' \in {"stop", "start", "restart", "destroy"}
          /\ opc' = "launch" => task' = "start"
          /\ task' \in {"start", "restart"} => starts < MaxStarts
          /\ UNCHANGED <<wpc, seen, timedOut, loopVars, queue, starts, future, stop, status, ub>>
      BY <2>5 DEF Call
    <3>2. calls' \in 0 .. MaxCalls
      <4>1. calls' = calls \/ (calls < MaxCalls /\ calls' = calls + 1)
        BY <2>5 DEF Call
      <4> QED
        BY <4>1, InAssumption DEF TypeOK
    <3>3. asked' \in BOOLEAN /\ early' \in BOOLEAN
      BY <2>5 DEF Call, TypeOK
    <3>4. TypeOK'
      BY <3>1, <3>2, <3>3 DEF TypeOK, OwnerSteps, loopVars
    <3>5. OwnerKnows' /\ Owned'
      BY <2>0, <3>1 DEF OwnerKnows, Owned, Alive, Finished
    <3> QED
      BY <3>4, <3>5
  <2>6. CASE StopBegin \/ PushPill
    <3>1. /\ opc \in {"stop", "pill"} /\ opc' \in {"pill", "get", AfterStop(task)}
          /\ task' = IF opc' \in {"idle", "gone"} THEN "none" ELSE task
          /\ UNCHANGED <<wpc, seen, timedOut, loopVars, calls, starts, future, status, asked,
                         early, ub>>
          /\ stop' \in BOOLEAN
      BY <2>6 DEF StopBegin, PushPill, OwnerGoto, TypeOK
    <3>2. queue' \in Seq(Items)
      <4>1. queue' = queue \/ queue' = Append(queue, 0)
        BY <2>6 DEF StopBegin, PushPill, Pill
      <4>2. 0 \in Items /\ queue \in Seq(Items)
        BY <2>0 DEF TypeOK
      <4>3. Append(queue, 0) \in Seq(Items)
        BY <4>2
      <4> QED
        BY <4>1, <4>2, <4>3
    <3>3. TypeOK' /\ OwnerKnows'
      BY <3>1, <3>2 DEF TypeOK, OwnerKnows, OwnerSteps, loopVars, AfterStop
    <3>4. Owned'
      BY <2>0, <3>1 DEF Owned, OwnerKnows, TypeOK, AfterStop, Alive, Finished
    <3> QED
      BY <3>3, <3>4
  <2>7. CASE Get
    <3>1. /\ opc \in {"get", "get2"} /\ future' = 0
          /\ opc = "get" => opc' \in {AfterStop(task), Thrown}
          /\ opc = "get2" => opc' \in {"launch", Thrown}
          /\ task' = IF opc' \in {"idle", "gone"} THEN "none" ELSE task
          /\ future # 0 => Finished(future)
          /\ UNCHANGED <<wpc, seen, timedOut, loopVars, queue, calls, starts, stop, status,
                         asked, early, ub>>
      BY <2>7 DEF Get, OwnerGoto
    <3>2. TypeOK' /\ OwnerKnows'
      BY <2>0, <3>1 DEF TypeOK, OwnerKnows, OwnerSteps, loopVars, AfterStop, Thrown
    <3>3. opc' \notin {"assign", "join"}
      BY <3>1 DEF OwnerKnows, TypeOK, AfterStop, Thrown
    <3>4. \A w \in Workers : ~Alive(w)
      BY <2>0, <3>1 DEF Owned, Alive, OwnerKnows
    <3>5. Owned'
      BY <2>0, <3>1, <3>3, <3>4 DEF Owned, Alive, Finished
    <3> QED
      BY <3>2, <3>5
  <2>8. CASE Launch
    <3>1. /\ opc = "launch" /\ opc' = "assign" /\ task' = task /\ starts' = starts + 1
          /\ wpc' = [wpc EXCEPT ![starts + 1] = "connect"]
          /\ stop' = FALSE /\ asked' = FALSE /\ ub' \in BOOLEAN
          /\ UNCHANGED <<queue, seen, timedOut, loopVars, calls, future, status, early>>
      BY <2>8, InAssumption DEF Launch
    <3>2. starts' \in 1 .. MaxStarts
      BY <2>0, <3>1 DEF OwnerKnows
    <3>3. TypeOK'
      <4>1. /\ wpc' \in [Workers -> WorkerSteps] /\ future' \in 0 .. starts'
            /\ starts' \in 0 .. MaxStarts
        BY <2>0, <3>1, <3>2 DEF WorkerSteps
      <4>2. stop' \in BOOLEAN /\ asked' \in BOOLEAN /\ opc' \in OwnerSteps
        BY <3>1 DEF OwnerSteps
      <4> QED
        BY <3>1, <4>1, <4>2 DEF TypeOK, loopVars
    <3>4. Owned'
      BY <2>0, <3>1, <3>2 DEF Owned, Alive, Finished
    <3> QED
      BY <3>1, <3>3, <3>4 DEF OwnerKnows
  <2>9. CASE Assign
    <3>1. /\ opc = "assign" /\ future' = starts
          /\ opc' = IF future = 0 \/ Finished(future) THEN "idle" ELSE "join"
          /\ task' \in {"none", task}
          /\ UNCHANGED <<wpc, seen, timedOut, loopVars, queue, calls, starts, stop, status,
                         asked, early, ub>>
      BY <2>9 DEF Assign, OwnerGoto
    <3>2. TypeOK' /\ OwnerKnows'
      BY <2>0, <3>1 DEF TypeOK, OwnerKnows, OwnerSteps, loopVars
    <3>3. Owned'
      BY <2>0, <3>1 DEF Owned, Alive, Finished
    <3> QED
      BY <3>2, <3>3
  <2>10. CASE Join
    <3>1. /\ opc = "join" /\ opc' = "idle" /\ task' \in {"none", task}
          /\ Finished(starts - 1)
          /\ UNCHANGED <<wpc, seen, timedOut, loopVars, queue, calls, starts, future, stop,
                         status, asked, early, ub>>
      BY <2>10 DEF Join, OwnerGoto
    <3>2. TypeOK' /\ OwnerKnows'
      BY <3>1 DEF TypeOK, OwnerKnows, OwnerSteps, loopVars
    <3>3. Owned'
      BY <2>0, <3>1 DEF Owned, Alive, Finished
    <3> QED
      BY <3>2, <3>3
  <2>11. CASE Destroy
    <3>1. /\ opc = "destroy" /\ opc' = "gone" /\ task' \in {"none", task} /\ future' = 0
          /\ future # 0 => Finished(future)
          /\ UNCHANGED <<wpc, seen, timedOut, loopVars, queue, calls, starts, stop,
                         status, asked, early, ub>>
      BY <2>11 DEF Destroy, OwnerGoto
    <3>2. TypeOK' /\ OwnerKnows'
      BY <2>0, <3>1 DEF TypeOK, OwnerKnows, OwnerSteps, loopVars
    <3>3. \A w \in Workers : ~Alive(w)
      BY <2>0, <3>1 DEF Owned, Alive
    <3>4. Owned'
      BY <2>0, <3>1, <3>3 DEF Owned, Alive, Finished
    <3> QED
      BY <3>2, <3>4
  <2>12. CASE Corrupt \/ UNCHANGED vars
    <3>1. /\ ub' \in {ub, TRUE}
          /\ UNCHANGED <<queue, wpc, seen, timedOut, loopVars, ownVars, future, stop, status>>
      BY <2>12 DEF Corrupt, vars
    <3> QED
      <4>1. TypeOK'
        <5>1. ub' \in BOOLEAN
          BY <3>1 DEF TypeOK
        <5> QED
          BY <3>1, <5>1 DEF TypeOK, loopVars, ownVars
      <4> QED
        BY <3>1, <4>1 DEF OwnerKnows, Owned, Alive, Finished, ownVars
  <2> QED
    BY <2>2, <2>3, <2>4, <2>5, <2>6, <2>7, <2>8, <2>9, <2>10, <2>11, <2>12
    DEF Next, Step, OwnerStep
<1> QED
  BY <1>1, <1>2, <1>3, PTL DEF Spec, InInv

(***************************************************************************)
(* The variables have their types.                                         *)
(***************************************************************************)
THEOREM TypeCorrect == Spec => []TypeOK
BY TypeInvariant, PTL DEF InInv

(***************************************************************************)
(* The destructor returns only when no worker uses the stream any more.    *)
(***************************************************************************)
THEOREM NoWorkerOutlivesStreamCorrect == Spec => []NoWorkerOutlivesStream
<1>1. InInv => NoWorkerOutlivesStream
  BY DEF InInv, Owned, NoWorkerOutlivesStream
<1> QED
  BY <1>1, TypeInvariant, PTL

-----------------------------------------------------------------------------

(***************************************************************************)
(* Workers that receive or are about to, or have not yet said STOPPED.     *)
(***************************************************************************)
Active(w) == wpc[w] \in {"connect", "check", "receive", "close"}

(***************************************************************************)
(* Unless a call came too early, there is one of them at most, status_     *)
(* tells it from the time it has connected, and Start() goes on to launch  *)
(* another one only when there is none.                                    *)
(***************************************************************************)
OneActive ==
  ~early =>
    /\ \A v, w \in Workers : Active(v) /\ Active(w) => v = w
    /\ \A w \in Workers : Active(w) /\ wpc[w] # "connect" => Started /\ ~Stopped
    /\ opc \in {"stop", "pill", "get", "get2", "launch", "destroy"} =>
         \A w \in Workers : wpc[w] # "connect"
    /\ opc = "launch" => \A w \in Workers : ~Active(w)

LEMMA OneActiveInvariant == Spec => []OneActive
<1>1. Init => OneActive
  BY DEF Init, OneActive, Active
<1>2. InInv /\ OneActive /\ [Next]_vars => OneActive'
  <2> SUFFICES ASSUME InInv, OneActive, [Next]_vars, ~early'
               PROVE  OneActive'
    BY DEF OneActive
  <2> USE DEF OneActive, Active, Started, Stopped
  <2>0. DOMAIN wpc = Workers /\ Workers = 1 .. MaxStarts /\ MaxStarts \in Nat
    BY InAssumption DEF InInv, TypeOK, Workers
  <2>1. ASSUME NEW w \in Workers, Connect(w)
        PROVE  OneActive'
    BY <2>0, <2>1 DEF Connect, Goto, ownVars
  <2>2. ASSUME NEW w \in Workers,
               \/ Check(w) \/ Receive(w) \/ TimeOut(w) \/ Flag(w) \/ WorkerStop(w)
               \/ WorkerPushPill(w) \/ WorkerGet(w) \/ Throw(w)
        PROVE  OneActive'
    <3>1. /\ wpc' = [wpc EXCEPT ![w] = wpc'[w]]
          /\ UNCHANGED <<opc, early>>
          /\ wpc'[w] # "connect"
          /\ wpc'[w] \in {"check", "receive", "close"} =>
               wpc[w] \in {"check", "receive", "close"}
      BY <2>0, <2>2
      DEF Check, Receive, TimeOut, Flag, WorkerStop, WorkerPushPill, WorkerGet, Throw,
          Goto, ownVars
    <3>2. status' = status \/ status' = status \cup {"TIMED_OUT"}
      BY <2>2
      DEF Check, Receive, TimeOut, Flag, WorkerStop, WorkerPushPill, WorkerGet, Throw
    <3> QED
      BY <2>0, <3>1, <3>2
  <2>3. ASSUME NEW w \in Workers, Close(w)
        PROVE  OneActive'
    BY <2>0, <2>3 DEF Close, Goto, ownVars
  <2>4. CASE LoopBegin \/ LoopStep \/ Corrupt \/ UNCHANGED vars
    <3>1. UNCHANGED <<wpc, opc, early, status>>
      BY <2>4
      DEF LoopBegin, LoopStep, LoopCheck, LoopPop, Callback, LoopGoto, Corrupt, ownVars, vars
    <3> QED
      BY <3>1
  <2>5. CASE Call
    <3>1. /\ opc = "idle" /\ UNCHANGED <<wpc, status>> /\ opc' \in {"launch", "stop"}
          /\ opc' = "launch" => ~Started
          /\ early' = (early \/ \E w \in Workers : wpc[w] = "connect")
      BY <2>5 DEF Call
    <3> QED
      BY <3>1
  <2>6. CASE StopBegin \/ PushPill
    <3>1. /\ UNCHANGED <<wpc, status, early>> /\ opc \in {"stop", "pill"}
          /\ opc' = "launch" => Stopped
      BY <2>6 DEF StopBegin, PushPill, OwnerGoto
    <3>2. opc' \in {"stop", "pill", "get", "get2", "launch", "destroy", "idle"}
      BY <2>6 DEF StopBegin, PushPill, OwnerGoto, AfterStop, InInv, OwnerKnows, TypeOK
    <3> QED
      BY <3>1, <3>2
  <2>7. CASE Get
    <3>1. /\ UNCHANGED <<wpc, status, early>> /\ opc \in {"get", "get2"}
          /\ future # 0 => Finished(future)
      BY <2>7 DEF Get, OwnerGoto
    <3>2. \A w \in Workers : ~Alive(w)
      BY <2>0, <3>1 DEF InInv, Owned, Alive
    <3> QED
      BY <3>1, <3>2 DEF Alive, Finished
  <2>8. CASE Launch
    <3>1. /\ opc = "launch" /\ opc' = "assign" /\ UNCHANGED <<status, early>>
          /\ wpc' = [wpc EXCEPT ![starts + 1] = "connect"]
      BY <2>8 DEF Launch
    <3> QED
      BY <2>0, <3>1
  <2>9. CASE Assign \/ Join \/ Destroy
    <3>1. UNCHANGED <<wpc, status, early>> /\ opc' \in {"idle", "join", "gone"}
      BY <2>9 DEF Assign, Join, Destroy, OwnerGoto
    <3> QED
      BY <3>1
  <2> QED
    BY <2>1, <2>2, <2>3, <2>4, <2>5, <2>6, <2>7, <2>8, <2>9
    DEF Next, Step, OwnerStep, WorkerStep
<1> QED
  BY <1>1, <1>2, TypeInvariant, PTL DEF Spec

(***************************************************************************)
(* Unless a call came too early, no two workers receive at once.           *)
(***************************************************************************)
THEOREM OneReceiverCorrect == Spec => []OneReceiver
<1>1. OneActive => OneReceiver
  BY DEF OneActive, Active, OneReceiver
<1> QED
  BY <1>1, OneActiveInvariant, PTL

-----------------------------------------------------------------------------

(***************************************************************************)
(* Messages are in order from the callback over the consumer's hand to the *)
(* queue, and the socket of the worker is ahead of them all.               *)
(***************************************************************************)
Under(m) == Has(handed, m) \/ item = m \/ Has(queue, m)

Ordered ==
  ~early =>
    /\ Ascending(handed) /\ Ascending(queue) /\ ~Has(handed, 0)
    /\ \A m, n \in 1 .. NumMessages :
         /\ Has(handed, m) /\ (item = n \/ Has(queue, n)) => m < n
         /\ item = m /\ Has(queue, n) => m < n
    /\ \A m \in 1 .. NumMessages : Under(m) => \E v \in Workers : m <= seen[v]
    /\ \A w \in Workers :
         wpc[w] \in {"check", "receive", "close"} => \A v \in Workers : seen[v] <= seen[w]

(***************************************************************************)
(* The callback gets no message twice and none out of order, unless a call *)
(* was made before the last worker was STARTED.                            *)
(***************************************************************************)
THEOREM HandedInOrderCorrect == Spec => []HandedInOrder
<1>1. Init => Ordered
  BY DEF Init, Ordered, Ascending, Has, Under, Pill
<1>2. InInv /\ OneActive /\ Ordered /\ [Next]_vars => Ordered'
  <2> SUFFICES ASSUME InInv, OneActive, Ordered, [Next]_vars, ~early'
               PROVE  Ordered'
    BY DEF Ordered
  <2>0. /\ DOMAIN wpc = Workers /\ NumMessages \in Nat
        /\ queue \in Seq(0 .. NumMessages) /\ handed \in Seq(0 .. NumMessages)
        /\ item \in 0 .. NumMessages /\ seen \in [Workers -> 0 .. NumMessages]
    BY InAssumption DEF InInv, TypeOK, Items
  <2>1. ~early
    BY DEF Next, Step, WorkerStep, OwnerStep, LoopStep, Connect, Check, Receive, TimeOut,
           Close, Flag, WorkerStop, WorkerPushPill, WorkerGet, Throw, Goto, LoopBegin,
           LoopCheck, LoopPop, Callback, LoopGoto, Call, StopBegin, PushPill, Get, Launch,
           Assign, Join, Destroy, Corrupt, ownVars, vars
  <2>2. ASSUME NEW w \in Workers, Connect(w)
        PROVE  Ordered'
    <3>1. /\ UNCHANGED <<queue, handed, item>>
          /\ wpc[w] = "connect" /\ wpc' = [wpc EXCEPT ![w] = "check"]
      BY <2>2 DEF Connect, Goto, loopVars
    <3>2. PICK m \in 0 .. NumMessages : /\ \A v \in Workers : seen[v] <= m
                                        /\ seen' = [seen EXCEPT ![w] = m]
      BY <2>2 DEF Connect
    <3>3. \A v \in Workers : seen[v] <= seen'[v] /\ seen'[v] <= seen'[w]
      BY <2>0, <3>2
    <3>4. \A v \in Workers : wpc'[v] \in {"check", "receive", "close"} => v = w
      BY <2>0, <2>1, <3>1 DEF OneActive, Active
    <3>5. \A n \in 1 .. NumMessages :
            (\E v \in Workers : n <= seen[v]) => \E v \in Workers : n <= seen'[v]
      <4> SUFFICES ASSUME NEW n \in 1 .. NumMessages, NEW v \in Workers, n <= seen[v]
                   PROVE  n <= seen'[v]
        OBVIOUS
      <4>1. seen[v] \in Nat /\ seen'[v] \in Nat
        BY <2>0, <3>2
      <4> QED
        BY <3>3, <4>1
    <3> QED
      BY <2>1, <3>1, <3>3, <3>4, <3>5 DEF Ordered, Under
  <2>3. ASSUME NEW w \in Workers, Receive(w)
        PROVE  Ordered'
    <3>1. /\ UNCHANGED <<handed, item>>
          /\ wpc[w] = "receive" /\ wpc' = [wpc EXCEPT ![w] = "check"]
      BY <2>3 DEF Receive, Goto, loopVars
    <3>2. PICK m \in seen[w] + 1 .. NumMessages : /\ seen' = [seen EXCEPT ![w] = m]
                                                  /\ queue' = Append(queue, m)
      BY <2>3 DEF Receive
    <3>3. m \in 1 .. NumMessages /\ m \in 0 .. NumMessages /\ seen[w] < m
      BY <2>0, <3>2
    <3>4. \A v \in Workers : seen[v] <= seen[w]
      BY <2>1, <3>1 DEF Ordered
    <3>5. \A n \in 1 .. NumMessages : Under(n) => n < m
      <4> TAKE n \in 1 .. NumMessages
      <4> HAVE Under(n)
      <4>1. PICK v \in Workers : n <= seen[v]
        BY <2>1 DEF Ordered
      <4> QED
        BY <2>0, <3>3, <3>4, <4>1
    <3>6. \A n : Has(queue', n) <=> Has(queue, n) \/ n = m
      BY <2>0, <3>2, <3>3, AppendElements
    <3>7. Ascending(queue')
      <4>1. \A n \in 1 .. NumMessages : Has(queue, n) => n < m
        BY <3>5 DEF Under
      <4> QED
        BY <2>0, <2>1, <3>2, <3>3, <4>1, AppendElements DEF Ordered
    <3>8. \A v \in Workers : seen[v] <= seen'[v] /\ seen'[v] <= seen'[w]
      BY <2>0, <3>2, <3>3, <3>4
    <3>9. \A v \in Workers : wpc'[v] \in {"check", "receive", "close"} => v = w
      BY <2>0, <2>1, <3>1 DEF OneActive, Active
    <3>10. \A n \in 1 .. NumMessages : Under(n)' => \E v \in Workers : n <= seen'[v]
      <4> TAKE n \in 1 .. NumMessages
      <4> HAVE Under(n)'
      <4>1. n <= m
        BY <3>1, <3>3, <3>5, <3>6 DEF Under
      <4>2. seen'[w] = m
        BY <2>0, <3>2
      <4> QED
        BY <4>1, <4>2
    <3>11. \A n, k \in 1 .. NumMessages :
             /\ Has(handed, n) /\ (item = k \/ Has(queue', k)) => n < k
             /\ item = n /\ Has(queue', k) => n < k
      BY <2>1, <3>5, <3>6 DEF Ordered, Under
    <3> QED
      BY <2>1, <3>1, <3>7, <3>8, <3>9, <3>10, <3>11 DEF Ordered
  <2>4. ASSUME NEW w \in Workers,
               Check(w) \/ TimeOut(w) \/ Close(w) \/ Flag(w) \/ WorkerStop(w) \/ WorkerGet(w)
               \/ Throw(w)
        PROVE  Ordered'
    <3>1. UNCHANGED <<queue, handed, item, seen>>
      BY <2>4 DEF Check, TimeOut, Close, Flag, WorkerStop, WorkerGet, Throw, Goto, loopVars
    <3>2. /\ wpc' = [wpc EXCEPT ![w] = wpc'[w]]
          /\ wpc'[w] \in {"check", "receive", "close"} =>
               wpc[w] \in {"check", "receive", "close"}
      BY <2>0, <2>4 DEF Check, TimeOut, Close, Flag, WorkerStop, WorkerGet, Throw, Goto
    <3>3. \A v \in Workers : wpc'[v] \in {"check", "receive", "close"} =>
                             wpc[v] \in {"check", "receive", "close"}
      BY <2>0, <3>2
    <3> QED
      BY <2>1, <3>1, <3>3 DEF Ordered, Under
  <2>5. ASSUME queue' = Append(queue, Pill), UNCHANGED <<handed, item, seen>>,
               \A v \in Workers : wpc'[v] \in {"check", "receive", "close"} =>
                                  wpc[v] \in {"check", "receive", "close"}
        PROVE  Ordered'
    <3>1. \A n \in 1 .. NumMessages : Has(queue', n) <=> Has(queue, n)
      <4>1. 0 \in 0 .. NumMessages
        BY <2>0
      <4>2. \A n : Has(Append(queue, 0), n) <=> Has(queue, n) \/ n = 0
        BY <2>0, <4>1, AppendElements
      <4> QED
        BY <2>5, <4>2 DEF Pill
    <3>2. Ascending(queue')
      BY <2>0, <2>1, <2>5, AppendElements DEF Ordered, Pill
    <3> QED
      BY <2>1, <2>5, <3>1, <3>2 DEF Ordered, Under
  <2>6. ASSUME NEW w \in Workers, WorkerPushPill(w)
        PROVE  Ordered'
    BY <2>0, <2>5, <2>6 DEF WorkerPushPill, Goto, loopVars
  <2>7. CASE PushPill
    BY <2>5, <2>7 DEF PushPill, OwnerGoto, loopVars
  <2>8. CASE LoopPop
    <3>1. /\ queue # <<>> /\ item' = Head(queue) /\ queue' = Tail(queue)
          /\ UNCHANGED <<handed, seen, wpc>>
      BY <2>8 DEF LoopPop, LoopGoto
    <3>2. \A n : Has(queue, n) <=> Has(queue', n) \/ n = item'
      BY <2>0, <3>1, TailElements
    <3>3. /\ Ascending(queue')
          /\ item' # 0 => \A n \in 1 .. NumMessages : Has(queue', n) => item' < n
      BY <2>0, <2>1, <3>1, TailElements DEF Ordered
    <3>4. \A m, n \in 1 .. NumMessages :
            /\ Has(handed, m) /\ (item' = n \/ Has(queue', n)) => m < n
            /\ item' = m /\ Has(queue', n) => m < n
      BY <2>1, <3>2, <3>3 DEF Ordered
    <3>5. \A m \in 1 .. NumMessages : Under(m)' => Under(m)
      BY <3>1, <3>2 DEF Under
    <3> QED
      BY <2>1, <3>1, <3>3, <3>4, <3>5 DEF Ordered
  <2>9. CASE Callback
    <3>1. /\ handed' = handed \/ (item # 0 /\ handed' = Append(handed, item))
          /\ item' = 0 /\ UNCHANGED <<queue, seen, wpc>>
      BY <2>9 DEF Callback, LoopGoto, Pill
    <3>2. CASE handed' = handed
      BY <2>1, <3>1, <3>2 DEF Ordered, Under
    <3>3. CASE item # 0 /\ handed' = Append(handed, item)
      <4>1. item \in 1 .. NumMessages
        BY <2>0, <3>3
      <4>2. \A n : Has(handed', n) <=> Has(handed, n) \/ n = item
        BY <2>0, <3>3, AppendElements
      <4>3. Ascending(handed')
        BY <2>0, <2>1, <3>3, <4>1, AppendElements DEF Ordered
      <4>4. \A m \in 1 .. NumMessages : Under(m)' => Under(m)
        BY <3>1, <4>2 DEF Under
      <4>5. \A m, n \in 1 .. NumMessages :
              /\ Has(handed', m) /\ (item' = n \/ Has(queue, n)) => m < n
              /\ item' = m /\ Has(queue, n) => m < n
        BY <2>1, <3>1, <4>2 DEF Ordered
      <4> QED
        BY <2>1, <3>1, <3>3, <4>2, <4>3, <4>4, <4>5 DEF Ordered
    <3> QED
      BY <3>1, <3>2, <3>3
  <2>10. CASE Launch
    <3>1. UNCHANGED <<queue, handed, item, seen>>
      BY <2>10 DEF Launch, loopVars
    <3>2. \A v \in Workers : wpc'[v] \in {"check", "receive", "close"} =>
                             wpc[v] \in {"check", "receive", "close"}
      BY <2>0, <2>10 DEF Launch
    <3> QED
      BY <2>1, <3>1, <3>2 DEF Ordered, Under
  <2>11. CASE \/ LoopBegin \/ LoopCheck \/ Call \/ StopBegin \/ Get \/ Assign \/ Join
              \/ Destroy \/ Corrupt \/ UNCHANGED vars
    <3>1. UNCHANGED <<queue, handed, item, seen, wpc>>
      BY <2>11
      DEF LoopBegin, LoopCheck, LoopGoto, Call, StopBegin, Get, Assign, Join, Destroy,
          OwnerGoto, Corrupt, loopVars, vars
    <3> QED
      BY <2>1, <3>1 DEF Ordered, Under
  <2> QED
    BY <2>2, <2>3, <2>4, <2>6, <2>7, <2>8, <2>9, <2>10, <2>11
    DEF Next, Step, OwnerStep, LoopStep, WorkerStep
<1>3. InInv /\ Ordered => HandedInOrder
  <2> SUFFICES ASSUME InInv, Ordered, ~early, NEW i \in DOMAIN handed,
                      NEW j \in DOMAIN handed, i < j
               PROVE  handed[i] < handed[j]
    BY DEF HandedInOrder
  <2>1. handed[i] # 0 /\ handed[j] # 0
    BY DEF Ordered, Has
  <2> QED
    BY <2>1 DEF Ordered, Ascending
<1> QED
  BY <1>1, <1>2, <1>3, TypeInvariant, OneActiveInvariant, PTL DEF Spec

-----------------------------------------------------------------------------
(* What the liveness of Loop() and Stop() rests on. *)

\* The empty array that a Loop() blocked in Pop() needs is queued, or the call
\* of Stop() that set stop_ is about to queue it; and stop_ stays set while
\* Stop() waits for the worker.
LoopIsUnlocked ==
  /\ stop /\ lpc = "pop" =>
       Has(queue, Pill) \/ opc = "pill" \/ \E w \in Workers : wpc[w] = "pill"
  /\ opc \in {"pill", "get"} => stop

\* A worker that may take its next step: it runs, and if it waits for a worker
\* that one has finished, or is itself, and get() throws.
GoesOn(w) == Alive(w) /\ (wpc[w] = "get" => future \in {0, w} \/ Finished(future))

\* Whoever waits for a worker waits for one that goes on, or that waits in turn
\* for one that goes on.
NobodyWaitsInVain ==
  /\ opc \in {"get", "get2", "destroy"} /\ future # 0 => Finished(future) \/ GoesOn(future)
  /\ opc = "join" => \/ Finished(starts - 1) \/ GoesOn(starts - 1)
                     \/ wpc[starts - 1] = "get" /\ GoesOn(future)
  /\ \A w \in Workers : wpc[w] = "get" => GoesOn(w) \/ GoesOn(future)

(***************************************************************************)
(* "Guaranteed to always return when calling Stop", for a Stop() that sets *)
(* stop_: Loop() is never left blocked on an empty queue, whatever the     *)
(* interleaving of the loop, the owner, and workers that stop by           *)
(* themselves.                                                             *)
(***************************************************************************)
THEOREM LoopIsUnlockedCorrect == Spec => []LoopIsUnlocked
<1>1. Init => LoopIsUnlocked
  BY DEF Init, LoopIsUnlocked
<1>2. InInv /\ LoopIsUnlocked /\ [Next]_vars => LoopIsUnlocked'
  <2> SUFFICES ASSUME InInv, LoopIsUnlocked, [Next]_vars
               PROVE  LoopIsUnlocked'
    OBVIOUS
  <2>0. /\ NumMessages \in Nat /\ queue \in Seq(0 .. NumMessages) /\ Pill = 0
        /\ wpc \in [Workers -> WorkerSteps] /\ stop \in BOOLEAN /\ opc \in OwnerSteps
    BY InAssumption DEF InInv, TypeOK, Items, Pill
  <2>1. ASSUME NEW e \in 0 .. NumMessages, queue' = Append(queue, e)
        PROVE  Has(queue, Pill) \/ e = Pill => Has(queue', Pill)
    BY <2>0, <2>1, AppendElements
  <2>2. ASSUME NEW w \in Workers, Connect(w) \/ Check(w) \/ TimeOut(w) \/ Close(w) \/ Flag(w)
                                  \/ WorkerGet(w) \/ Throw(w)
        PROVE  LoopIsUnlocked'
    <3>1. /\ wpc[w] # "pill" /\ \A v \in Workers : v # w => wpc'[v] = wpc[v]
          /\ UNCHANGED <<queue, stop, lpc, opc>>
      BY <2>0, <2>2
      DEF Connect, Check, TimeOut, Close, Flag, WorkerGet, Throw, Goto, loopVars, ownVars
    <3> QED
      BY <3>1 DEF LoopIsUnlocked
  <2>3. ASSUME NEW w \in Workers, Receive(w)
        PROVE  LoopIsUnlocked'
    <3>1. /\ wpc[w] # "pill" /\ \A v \in Workers : v # w => wpc'[v] = wpc[v]
          /\ UNCHANGED <<stop, lpc, opc>>
          /\ \E m \in seen[w] + 1 .. NumMessages : queue' = Append(queue, m)
      BY <2>0, <2>3 DEF Receive, Goto, loopVars, ownVars
    <3>2. seen[w] \in 0 .. NumMessages
      BY DEF InInv, TypeOK
    <3>3. Has(queue, Pill) => Has(queue', Pill)
      BY <2>0, <2>1, <3>1, <3>2
    <3> QED
      BY <3>1, <3>3 DEF LoopIsUnlocked
  <2>4. ASSUME NEW w \in Workers, WorkerStop(w)
        PROVE  LoopIsUnlocked'
    <3>1. /\ wpc[w] = "stop" /\ (~Stopped => wpc'[w] = "pill")
          /\ \A v \in Workers : v # w => wpc'[v] = wpc[v]
          /\ stop' = (stop \/ ~Stopped) /\ UNCHANGED <<queue, lpc, opc>>
      BY <2>0, <2>4 DEF WorkerStop, Goto, loopVars, ownVars
    <3> QED
      BY <3>1 DEF LoopIsUnlocked
  <2>5. ASSUME NEW w \in Workers, WorkerPushPill(w)
        PROVE  LoopIsUnlocked'
    <3>1. queue' = Append(queue, Pill) /\ UNCHANGED <<stop, lpc, opc>>
      BY <2>5 DEF WorkerPushPill, Goto, loopVars, ownVars
    <3>2. Has(queue', Pill)
      BY <2>0, <2>1, <3>1
    <3> QED
      BY <3>1, <3>2 DEF LoopIsUnlocked
  <2>6. CASE LoopBegin \/ LoopStep
    <3>1. (stop => lpc' # "pop") /\ UNCHANGED <<wpc, stop, opc>>
      BY <2>6
      DEF LoopBegin, LoopStep, LoopCheck, LoopPop, Callback, LoopGoto, ownVars
    <3> QED
      BY <3>1 DEF LoopIsUnlocked
  <2>7. CASE Call
    <3>1. /\ opc = "idle" /\ opc' \in {"launch", "stop"}
          /\ UNCHANGED <<wpc, lpc, queue, stop>>
      BY <2>7 DEF Call, loopVars
    <3> QED
      BY <3>1 DEF LoopIsUnlocked
  <2>8. CASE StopBegin
    <3>1. /\ opc = "stop" /\ opc' = IF Stopped THEN AfterStop(task) ELSE "pill"
          /\ stop' = (stop \/ ~Stopped) /\ UNCHANGED <<wpc, lpc, queue>>
          /\ AfterStop(task) \notin {"pill", "get"}
      BY <2>8 DEF StopBegin, OwnerGoto, loopVars, AfterStop, InInv, TypeOK, OwnerKnows
    <3> QED
      BY <3>1 DEF LoopIsUnlocked
  <2>9. CASE PushPill
    <3>1. opc = "pill" /\ queue' = Append(queue, Pill) /\ UNCHANGED <<wpc, lpc, stop>>
      BY <2>9 DEF PushPill, OwnerGoto, loopVars
    <3>2. Has(queue', Pill)
      BY <2>0, <2>1, <3>1
    <3> QED
      BY <3>1, <3>2 DEF LoopIsUnlocked
  <2>10. CASE Get \/ Assign \/ Join \/ Destroy
    <3>1. /\ opc # "pill" /\ opc' \notin {"pill", "get"}
          /\ UNCHANGED <<wpc, lpc, queue, stop>>
      BY <2>10
      DEF Get, Assign, Join, Destroy, OwnerGoto, loopVars, AfterStop, Thrown, InInv, TypeOK,
          OwnerKnows
    <3> QED
      BY <3>1 DEF LoopIsUnlocked
  <2>11. CASE Launch
    <3>1. ~stop' /\ opc' = "assign"
      BY <2>11 DEF Launch
    <3> QED
      BY <3>1 DEF LoopIsUnlocked
  <2>12. CASE Corrupt \/ UNCHANGED vars
    <3>1. UNCHANGED <<queue, wpc, lpc, opc, stop>>
      BY <2>12 DEF Corrupt, vars, loopVars, ownVars
    <3> QED
      BY <3>1 DEF LoopIsUnlocked
  <2> QED
    BY <2>2, <2>3, <2>4, <2>5, <2>6, <2>7, <2>8, <2>9, <2>10, <2>11, <2>12
    DEF Next, Step, OwnerStep, WorkerStep
<1> QED
  BY <1>1, <1>2, TypeInvariant, PTL DEF Spec

(***************************************************************************)
(* The threads never wait for each other in a circle: get(), the           *)
(* assignment and the destructor of taskFuture_ wait for a worker that     *)
(* goes on, also when workers call Stop() themselves.                      *)
(***************************************************************************)
THEOREM NobodyWaitsInVainCorrect == Spec => []NobodyWaitsInVain
<1>1. InInv => NobodyWaitsInVain
  <2> SUFFICES ASSUME InInv PROVE NobodyWaitsInVain
    OBVIOUS
  <2>0. /\ Workers = 1 .. MaxStarts /\ MaxStarts \in Nat /\ starts \in 0 .. MaxStarts
        /\ future \in 0 .. starts /\ wpc \in [Workers -> WorkerSteps] /\ Owned
    BY InAssumption DEF InInv, Workers, TypeOK
  <2>1. future # 0 => future \in Workers /\ (Finished(future) \/ GoesOn(future))
    BY <2>0 DEF Owned, GoesOn, Alive
  <2>2. ASSUME NEW w \in Workers, wpc[w] = "get"
        PROVE  GoesOn(w) \/ GoesOn(future)
    BY <2>1, <2>2 DEF GoesOn, Alive, Finished
  <2>3. opc = "join" => \/ Finished(starts - 1) \/ GoesOn(starts - 1)
                        \/ wpc[starts - 1] = "get" /\ GoesOn(future)
    BY <2>0, <2>1, <2>2 DEF Owned, GoesOn, Alive, Finished
  <2> QED
    BY <2>1, <2>2, <2>3 DEF NobodyWaitsInVain
<1> QED
  BY <1>1, TypeInvariant, PTL
=============================================================================
