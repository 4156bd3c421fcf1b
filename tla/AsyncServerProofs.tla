-------------------------- MODULE AsyncServerProofs --------------------------
(***************************************************************************)
(* AsyncServer for any number of requests, workers, starts and stops.      *)
(***************************************************************************)
EXTENDS AsyncServer, TLAPS

(***************************************************************************)
(* Where elements are after an operation on a queue.                       *)
(***************************************************************************)
Distinct(q) == \A i, j \in DOMAIN q : q[i] = q[j] /\ q[i] # Nothing => i = j

LEMMA AppendElements ==
  ASSUME NEW S, NEW q \in Seq(S), NEW e \in S
  PROVE  /\ \A m : Within(m, Append(q, e)) <=> Within(m, q) \/ m = e
         /\ Distinct(q) /\ ~Within(e, q) => Distinct(Append(q, e))
<1>1. /\ DOMAIN q = 1 .. Len(q) /\ Len(q) \in Nat
      /\ DOMAIN Append(q, e) = 1 .. Len(q) + 1
      /\ \A i \in 1 .. Len(q) : Append(q, e)[i] = q[i]
      /\ Append(q, e)[Len(q) + 1] = e
  OBVIOUS
<1>2. ASSUME NEW m
      PROVE  Within(m, Append(q, e)) <=> Within(m, q) \/ m = e
  <2>1. Within(m, q) => Within(m, Append(q, e))
    BY <1>1 DEF Within
  <2>2. m = e => Within(m, Append(q, e))
    <3>1. Len(q) + 1 \in DOMAIN Append(q, e)
      BY <1>1
    <3> QED
      BY <1>1, <3>1 DEF Within
  <2>3. ASSUME NEW i \in DOMAIN Append(q, e), Append(q, e)[i] = m
        PROVE  Within(m, q) \/ m = e
    <3>1. i \in 1 .. Len(q) \/ i = Len(q) + 1
      BY <1>1
    <3> QED
      BY <1>1, <2>3, <3>1 DEF Within
  <2> QED
    BY <2>1, <2>2, <2>3 DEF Within
<1>3. Distinct(q) /\ ~Within(e, q) => Distinct(Append(q, e))
  BY <1>1 DEF Distinct, Within
<1> QED
  BY <1>2, <1>3

LEMMA TailElements ==
  ASSUME NEW S, NEW q \in Seq(S), q # <<>>
  PROVE  /\ \A m : Within(m, q) <=> Within(m, Tail(q)) \/ m = Head(q)
         /\ Distinct(q) => /\ Distinct(Tail(q))
                           /\ Head(q) # Nothing => ~Within(Head(q), Tail(q))
<1>1. /\ DOMAIN q = 1 .. Len(q) /\ Len(q) \in Nat \ {0}
      /\ DOMAIN Tail(q) = 1 .. Len(q) - 1
      /\ \A i \in 1 .. Len(q) - 1 : Tail(q)[i] = q[i + 1]
      /\ Head(q) = q[1]
  OBVIOUS
<1>2. ASSUME NEW m
      PROVE  Within(m, q) <=> Within(m, Tail(q)) \/ m = Head(q)
  <2>1. Within(m, Tail(q)) \/ m = Head(q) => Within(m, q)
    BY <1>1 DEF Within
  <2>2. ASSUME NEW i \in DOMAIN q, q[i] = m
        PROVE  Within(m, Tail(q)) \/ m = Head(q)
    <3>1. i = 1 \/ (i - 1 \in DOMAIN Tail(q) /\ Tail(q)[i - 1] = q[i])
      BY <1>1
    <3> QED
      BY <1>1, <2>2, <3>1 DEF Within
  <2> QED
    BY <2>1, <2>2 DEF Within
<1>3. Distinct(q) => Distinct(Tail(q)) /\ (Head(q) # Nothing => ~Within(Head(q), Tail(q)))
  BY <1>1 DEF Distinct, Within
<1> QED
  BY <1>2, <1>3

LEMMA PillElements ==
  ASSUME NEW S, NEW q \in Seq(S), Nothing \in S
  PROVE  /\ <<Nothing>> \o q \in Seq(S)
         /\ \A m : m # Nothing => (Within(m, <<Nothing>> \o q) <=> Within(m, q))
         /\ Distinct(q) => Distinct(<<Nothing>> \o q)
<1> DEFINE p == <<Nothing>> \o q
<1>1. p \in Seq(S) /\ DOMAIN q = 1 .. Len(q) /\ Len(q) \in Nat
  OBVIOUS
<1>2. /\ DOMAIN p = 1 .. Len(q) + 1
      /\ p[1] = Nothing
      /\ \A i \in 2 .. Len(q) + 1 : p[i] = q[i - 1]
  OBVIOUS
<1> HIDE DEF p
<1>3. ASSUME NEW m, m # Nothing
      PROVE  Within(m, p) <=> Within(m, q)
  <2>1. ASSUME NEW i \in DOMAIN p, p[i] = m
        PROVE  Within(m, q)
    <3>1. i \in 2 .. Len(q) + 1 /\ i - 1 \in DOMAIN q
      BY <1>1, <1>2, <1>3, <2>1
    <3> QED
      BY <1>2, <2>1, <3>1 DEF Within
  <2>2. ASSUME NEW i \in DOMAIN q, q[i] = m
        PROVE  Within(m, p)
    <3>1. i + 1 \in DOMAIN p /\ p[i + 1] = q[i]
      BY <1>1, <1>2
    <3> QED
      BY <2>2, <3>1 DEF Within
  <2> QED
    BY <2>1, <2>2 DEF Within
<1>4. ASSUME Distinct(q), NEW i \in DOMAIN p, NEW j \in DOMAIN p, p[i] = p[j], p[i] # Nothing
      PROVE  i = j
  <2>1. /\ i \in 2 .. Len(q) + 1 /\ j \in 2 .. Len(q) + 1
        /\ i - 1 \in DOMAIN q /\ j - 1 \in DOMAIN q
    BY <1>1, <1>2, <1>4
  <2>2. q[i - 1] = q[j - 1] /\ q[i - 1] # Nothing
    BY <1>2, <1>4, <2>1
  <2>3. i - 1 = j - 1
    BY <1>4, <2>1, <2>2 DEF Distinct
  <2> QED
    BY <1>1, <2>1, <2>3
<1> QED
  BY <1>1, <1>3, <1>4 DEF Distinct, p

-----------------------------------------------------------------------------

(***************************************************************************)
(* Start() goes on only below the bound; workers are born by Start(), and  *)
(* hold a request exactly while they work on it.                           *)
(***************************************************************************)
MayStart == ctl["starter"] \in {"pill", "wait", "join"} => starts < MaxStarts

Born == \A w \in Workers : wpc[w] = "unborn" <=> w \notin Launched

HandsFull ==
  \A w \in Workers : /\ wpc[w] \in {"serve", "reply"} => hand[w] \in Requests
                     /\ wpc[w] \notin {"popped", "serve", "reply"} => hand[w] = Nothing

(***************************************************************************)
(* An empty element in the queue, or popped, means a request to stop.      *)
(***************************************************************************)
PillMeansStop ==
  ~stop => /\ \A p \in Callers : ctl[p] # "pill"
           /\ ~Within(Nothing, requestQueue)
           /\ \A w \in Workers : wpc[w] = "popped" => hand[w] # Nothing

LEMMA LaunchedGrow ==
  ASSUME NEW n \in Nat
  PROVE  1 .. n * NumThreads \subseteq 1 .. (n + 1) * NumThreads
<1>1. n * NumThreads \in Nat /\ (n + 1) * NumThreads = n * NumThreads + NumThreads
  BY ServerAssumption
<1> QED
  BY <1>1, ServerAssumption

LEMMA LaunchedAreWorkers ==
  ASSUME starts \in 0 .. MaxStarts
  PROVE  Launched \subseteq Workers
<1>1. starts \in Nat /\ MaxStarts \in Nat /\ starts <= MaxStarts /\ NumThreads \in Nat
  BY ServerAssumption
<1>2. starts * NumThreads <= MaxStarts * NumThreads /\ starts * NumThreads \in Nat
      /\ MaxStarts * NumThreads \in Nat
  BY <1>1
<1> QED
  BY <1>2 DEF Launched, Workers

LEMMA TypeInvariant == Spec => [](TypeOK /\ MayStart /\ Born /\ HandsFull /\ PillMeansStop)
<1> DEFINE Inv == TypeOK /\ MayStart /\ Born /\ HandsFull /\ PillMeansStop
<1>1. Init => TypeOK
  <2> SUFFICES ASSUME Init
               PROVE  TypeOK
    OBVIOUS
  <2>1. 0 \in 0 .. MaxStarts /\ 0 \in 0 .. MaxStops
    BY ServerAssumption
  <2>2. requestQueue \in Seq(Requests \cup {Nothing}) /\ replyQueue \in Seq(Requests)
    BY DEF Init
  <2> QED
    BY <2>1, <2>2 DEF Init, TypeOK, WorkerSteps, ControlSteps
<1>2. Init => MayStart /\ Born /\ HandsFull /\ PillMeansStop
  BY ServerAssumption
  DEF Init, MayStart, Born, HandsFull, PillMeansStop, Callers, Launched, Workers, Within
<1>3. Inv /\ [Next]_vars => Inv'
  <2> SUFFICES ASSUME Inv, [Next]_vars
               PROVE  Inv'
    OBVIOUS
  <2> USE DEF TypeOK, WorkerSteps, ControlSteps
  <2>1. ASSUME NEW w \in Workers, Pop(w)
        PROVE  Inv'
    <3>1. /\ requestQueue # <<>> /\ requestQueue' = Tail(requestQueue)
          /\ wpc' = [wpc EXCEPT ![w] = "popped"] /\ wpc[w] = "pop"
          /\ hand' = [hand EXCEPT ![w] = Head(requestQueue)]
          /\ UNCHANGED <<replyQueue, executed, received, answered, ctl, stop, status, starts,
                         stops, last, ub>>
      BY <2>1 DEF Pop, WorkerStep
    <3>2. \A m : Within(m, requestQueue) <=> Within(m, requestQueue') \/ m = Head(requestQueue)
      BY <3>1, TailElements
    <3>3. TypeOK'
      BY <3>1
    <3>4. Born' /\ HandsFull'
      BY <3>1 DEF Born, HandsFull, Launched
    <3>5. PillMeansStop' /\ MayStart'
      BY <3>1, <3>2 DEF PillMeansStop, MayStart
    <3> QED
      BY <3>3, <3>4, <3>5
  <2>2. ASSUME NEW w \in Workers, CheckStop(w)
        PROVE  Inv'
    <3>1. /\ wpc[w] = "popped"
          /\ stop => /\ wpc' = [wpc EXCEPT ![w] = "ended"]
                     /\ hand' = [hand EXCEPT ![w] = Nothing]
          /\ ~stop => wpc' = [wpc EXCEPT ![w] = "serve"] /\ hand' = hand
          /\ UNCHANGED <<requestQueue, replyQueue, executed, received, answered, ctl, stop,
                         status, starts, stops, last, ub>>
      BY <2>2 DEF CheckStop, WorkerStep
    <3>2. TypeOK'
      BY <3>1
    <3>3. ~stop => hand[w] \in Requests
      BY <3>1 DEF PillMeansStop
    <3>4. Born' /\ HandsFull'
      BY <3>1, <3>3 DEF Born, HandsFull, Launched
    <3>5. PillMeansStop' /\ MayStart'
      BY <3>1 DEF PillMeansStop, MayStart
    <3> QED
      BY <3>2, <3>4, <3>5
  <2>3. ASSUME NEW w \in Workers, Serve(w)
        PROVE  Inv'
    <3>1. /\ wpc[w] = "serve"
          /\ executed' = [executed EXCEPT ![hand[w]] = @ + 1]
          /\ \/ wpc' = [wpc EXCEPT ![w] = "dead"] /\ hand' = [hand EXCEPT ![w] = Nothing]
             \/ wpc' = [wpc EXCEPT ![w] = "reply"] /\ hand' = hand
          /\ UNCHANGED <<requestQueue, replyQueue, received, answered, ctl, stop,
                         status, starts, stops, last, ub>>
      BY <2>3 DEF Serve, WorkerStep
    <3>2. hand[w] \in Requests
      BY <3>1 DEF HandsFull
    <3>3. TypeOK'
      <4>1. executed' \in [Requests -> Nat]
        BY <3>1, <3>2
      <4>2. wpc' \in [Workers -> WorkerSteps] /\ hand' \in [Workers -> Requests \cup {Nothing}]
        BY <3>1
      <4> QED
        BY <3>1, <4>1, <4>2
    <3>4. Born' /\ HandsFull'
      BY <3>1, <3>2 DEF Born, HandsFull, Launched
    <3>5. PillMeansStop' /\ MayStart'
      BY <3>1 DEF PillMeansStop, MayStart
    <3> QED
      BY <3>3, <3>4, <3>5
  <2>4. ASSUME NEW w \in Workers, Reply(w)
        PROVE  Inv'
    <3>1. /\ wpc[w] = "reply" /\ wpc' = [wpc EXCEPT ![w] = "pop"]
          /\ hand' = [hand EXCEPT ![w] = Nothing]
          /\ replyQueue' = replyQueue \/ replyQueue' = Append(replyQueue, hand[w])
          /\ UNCHANGED <<requestQueue, executed, received, answered, ctl, stop,
                         status, starts, stops, last, ub>>
      BY <2>4 DEF Reply, WorkerStep
    <3>2. hand[w] \in Requests
      BY <3>1 DEF HandsFull
    <3>3. TypeOK'
      <4>1. replyQueue' \in Seq(Requests)
        <5>1. Append(replyQueue, hand[w]) \in Seq(Requests)
          BY <3>2
        <5> QED
          BY <3>1, <5>1
      <4>2. wpc' \in [Workers -> WorkerSteps] /\ hand' \in [Workers -> Requests \cup {Nothing}]
        BY <3>1
      <4> QED
        BY <3>1, <4>1, <4>2
    <3>4. Born' /\ HandsFull'
      BY <3>1 DEF Born, HandsFull, Launched
    <3>5. PillMeansStop' /\ MayStart'
      BY <3>1 DEF PillMeansStop, MayStart
    <3> QED
      BY <3>3, <3>4, <3>5
  <2>5. CASE StopBegin \/ StartBegin
    <3>1. /\ UNCHANGED <<requestQueue, replyQueue, received, executed, answered, wpc, hand,
                         status, starts, last, ub>>
          /\ \E p \in Callers :
               \/ ctl' = [ctl EXCEPT ![p] = "pill"] /\ stop' = TRUE /\ stops' = stops + 1
                  /\ stops < MaxStops /\ (p = "starter" => starts < MaxStarts)
               \/ ctl' = [ctl EXCEPT ![p] = "join"] /\ UNCHANGED <<stop, stops>>
                  /\ starts < MaxStarts
      BY <2>5 DEF StopBegin, StartBegin, Control, Callers
    <3>2. stops' \in 0 .. MaxStops
      BY <3>1, ServerAssumption
    <3>3. TypeOK'
      <4>1. ctl' \in [Callers -> ControlSteps] /\ stop' \in BOOLEAN
        BY <3>1 DEF ControlSteps
      <4> QED
        BY <3>1, <3>2, <4>1
    <3>4. Born' /\ HandsFull'
      BY <3>1 DEF Born, HandsFull, Launched
    <3>5. PillMeansStop' /\ MayStart'
      BY <3>1 DEF PillMeansStop, MayStart, Callers
    <3> QED
      BY <3>3, <3>4, <3>5
  <2>6. ASSUME NEW p \in Callers, PushPill(p)
        PROVE  Inv'
    <3>1. /\ ctl[p] = "pill" /\ ctl' = [ctl EXCEPT ![p] = "wait"]
          /\ requestQueue' = <<Nothing>> \o requestQueue
          /\ UNCHANGED <<replyQueue, received, executed, answered, wpc, hand, stop, status,
                         starts, stops, last, ub>>
      BY <2>6 DEF PushPill, Control
    <3>2. TypeOK'
      BY <3>1, PillElements DEF Callers
    <3>3. Born' /\ HandsFull'
      BY <3>1 DEF Born, HandsFull, Launched
    <3>4. PillMeansStop' /\ MayStart'
      BY <3>1 DEF PillMeansStop, MayStart, Callers
    <3> QED
      BY <3>2, <3>3, <3>4
  <2>7. ASSUME NEW p \in Callers, Wait(p)
        PROVE  Inv'
    <3>1. /\ ctl[p] = "wait"
          /\ ctl' = [ctl EXCEPT ![p] = "join"] \/ ctl' = [ctl EXCEPT ![p] = "idle"]
          /\ last' \in {last, "true", "false"}
          /\ UNCHANGED <<requestQueue, replyQueue, received, executed, answered, wpc, hand,
                         stop, status, starts, stops, ub>>
      BY <2>7 DEF Wait, Control
    <3>2. TypeOK'
      BY <3>1 DEF Callers
    <3>3. Born' /\ HandsFull'
      BY <3>1 DEF Born, HandsFull, Launched
    <3>4. PillMeansStop' /\ MayStart'
      BY <3>1 DEF PillMeansStop, MayStart, Callers
    <3> QED
      BY <3>2, <3>3, <3>4
  <2>8. CASE Launch
    <3>1. /\ ctl["starter"] = "join" /\ ctl' = [ctl EXCEPT !["starter"] = "bind"]
          /\ starts' = starts + 1
          /\ wpc' = [w \in Workers |->
                       IF w \in 1 .. (starts + 1) * NumThreads /\ w \notin Launched
                       THEN "pop" ELSE wpc[w]]
          /\ UNCHANGED <<requestQueue, replyQueue, received, executed, answered, hand, stop,
                         status, stops, last, ub>>
      BY <2>8 DEF Launch, Control
    <3>2. starts' \in 0 .. MaxStarts
      BY <3>1, ServerAssumption DEF MayStart
    <3>3. TypeOK'
      BY <3>1, <3>2
    <3>4. Launched' = 1 .. (starts + 1) * NumThreads /\ Launched \subseteq Launched'
      BY <3>1, LaunchedGrow DEF Launched
    <3>5. Born' /\ HandsFull'
      BY <3>1, <3>4 DEF Born, HandsFull
    <3>6. PillMeansStop' /\ MayStart'
      BY <3>1 DEF PillMeansStop, MayStart, Callers
    <3> QED
      BY <3>3, <3>5, <3>6
  <2>9. CASE Bind \/ Close
    <3>1. /\ ctl' = [ctl EXCEPT !["starter"] = "poll"] \/ ctl' = [ctl EXCEPT !["starter"] = "idle"]
          /\ status' \in {"STARTED", "STOPPED"}
          /\ UNCHANGED <<requestQueue, replyQueue, received, executed, answered, wpc, hand,
                         stop, starts, stops, last, ub>>
      BY <2>9 DEF Bind, Close, Control
    <3>2. TypeOK'
      BY <3>1
    <3>3. Born' /\ HandsFull'
      BY <3>1 DEF Born, HandsFull, Launched
    <3>4. PillMeansStop' /\ MayStart'
      BY <3>1 DEF PillMeansStop, MayStart, Callers
    <3> QED
      BY <3>2, <3>3, <3>4
  <2>10. CASE Poll
    <3>1. /\ ctl' = [ctl EXCEPT !["starter"] = "close"] \/ ctl' = [ctl EXCEPT !["starter"] = "send"]
          /\ \/ UNCHANGED <<requestQueue, received>>
             \/ \E m \in Requests : /\ received' = received \cup {m}
                                    /\ requestQueue' = Append(requestQueue, m)
          /\ UNCHANGED <<replyQueue, executed, answered, wpc, hand, stop, status, starts,
                         stops, last, ub>>
      BY <2>10 DEF Poll, Control
    <3>2. /\ received' \subseteq Requests /\ requestQueue' \in Seq(Requests \cup {Nothing})
          /\ Within(Nothing, requestQueue') => Within(Nothing, requestQueue)
      <4>1. CASE UNCHANGED <<requestQueue, received>>
        BY <4>1
      <4>2. ASSUME NEW m \in Requests, received' = received \cup {m},
                   requestQueue' = Append(requestQueue, m)
            PROVE  /\ received' \subseteq Requests
                   /\ requestQueue' \in Seq(Requests \cup {Nothing})
                   /\ Within(Nothing, requestQueue') => Within(Nothing, requestQueue)
        <5>1. received' \subseteq Requests /\ requestQueue' \in Seq(Requests \cup {Nothing})
          BY <4>2
        <5>2. Within(Nothing, requestQueue') <=> Within(Nothing, requestQueue) \/ Nothing = m
          <6>1. /\ requestQueue \in Seq(Requests \cup {Nothing})
                /\ m \in Requests \cup {Nothing}
            OBVIOUS
          <6>2. \A x : Within(x, Append(requestQueue, m)) <=> Within(x, requestQueue) \/ x = m
            BY <6>1, AppendElements
          <6> QED
            BY <6>2, <4>2
        <5> QED
          BY <4>2, <5>1, <5>2, ServerAssumption
      <4> QED
        BY <3>1, <4>1, <4>2
    <3>3. TypeOK'
      BY <3>1, <3>2
    <3>4. Born' /\ HandsFull'
      BY <3>1 DEF Born, HandsFull, Launched
    <3>5. PillMeansStop' /\ MayStart'
      BY <3>1, <3>2 DEF PillMeansStop, MayStart, Callers
    <3> QED
      BY <3>3, <3>4, <3>5
  <2>11. CASE Send
    <3>1. /\ ctl' = [ctl EXCEPT !["starter"] = "poll"]
          /\ UNCHANGED <<requestQueue, received, executed, wpc, hand, stop, status, starts,
                         stops, last, ub>>
      BY <2>11 DEF Send, Control
    <3>2. replyQueue' \in Seq(Requests) /\ answered' \in [Requests -> Nat]
      <4>1. \/ UNCHANGED <<replyQueue, answered>>
            \/ replyQueue # <<>> /\ replyQueue' = Tail(replyQueue) /\ answered' = answered
            \/ /\ replyQueue # <<>> /\ replyQueue' = Tail(replyQueue)
               /\ answered' = [answered EXCEPT ![Head(replyQueue)] = @ + 1]
        BY <2>11 DEF Send
      <4>2. replyQueue # <<>> => Tail(replyQueue) \in Seq(Requests) /\ Head(replyQueue) \in Requests
        OBVIOUS
      <4> QED
        <5>1. replyQueue' \in Seq(Requests)
          BY <4>1, <4>2
        <5>2. answered' \in [Requests -> Nat]
          BY <4>1, <4>2
        <5> QED
          BY <5>1, <5>2
    <3>3. TypeOK'
      BY <3>1, <3>2
    <3>4. Born' /\ HandsFull'
      BY <3>1 DEF Born, HandsFull, Launched
    <3>5. PillMeansStop' /\ MayStart'
      BY <3>1 DEF PillMeansStop, MayStart, Callers
    <3> QED
      BY <3>3, <3>4, <3>5
  <2>12. CASE ZmqFails
    <3>1. /\ ctl' = [ctl EXCEPT !["starter"] = "idle"]
          /\ replyQueue' = replyQueue \/ (replyQueue # <<>> /\ replyQueue' = Tail(replyQueue))
          /\ UNCHANGED <<requestQueue, received, executed, answered, wpc, hand, stop, status,
                         starts, stops, last, ub>>
      BY <2>12 DEF ZmqFails, Control
    <3>2. TypeOK'
      <4>1. replyQueue' \in Seq(Requests)
        <5>1. replyQueue # <<>> => Tail(replyQueue) \in Seq(Requests)
          OBVIOUS
        <5> QED
          BY <3>1, <5>1
      <4>2. ctl' \in [Callers -> ControlSteps]
        BY <3>1
      <4> QED
        BY <3>1, <4>1, <4>2
    <3>3. Born' /\ HandsFull'
      BY <3>1 DEF Born, HandsFull, Launched
    <3>4. PillMeansStop' /\ MayStart'
      BY <3>1 DEF PillMeansStop, MayStart, Callers
    <3> QED
      BY <3>2, <3>3, <3>4
  <2>13. CASE Corrupt \/ UNCHANGED vars
    <3>1. /\ ub' \in {ub, TRUE}
          /\ UNCHANGED <<requestQueue, replyQueue, received, executed, answered, wpc, hand,
                         ctl, stop, status, starts, stops, last>>
      BY <2>13 DEF Corrupt, vars
    <3> QED
      BY <3>1 DEF Born, HandsFull, PillMeansStop, MayStart, Launched
  <2> QED
    BY <2>1, <2>2, <2>3, <2>4, <2>5, <2>6, <2>7, <2>8, <2>9, <2>10, <2>11, <2>12, <2>13
    DEF Next, Step, WorkerProgress, StarterProgress
<1> QED
  BY <1>1, <1>2, <1>3, PTL DEF Spec

(***************************************************************************)
(* The variables have their types.                                         *)
(***************************************************************************)
THEOREM TypeCorrect == Spec => []TypeOK
BY TypeInvariant, PTL

ServerInv == TypeOK /\ MayStart /\ Born /\ HandsFull /\ PillMeansStop

-----------------------------------------------------------------------------

(***************************************************************************)
(* After Stop() has returned true a worker can be at work on nothing; one  *)
(* that a later Start() launches finds stop_ set.                          *)
(***************************************************************************)
Quiet ==
  last = "true" => stop /\ \A w \in Workers : wpc[w] \notin {"serve", "reply"}

StopperStops == ctl["stopper"] \in {"pill", "wait"} => stop

(***************************************************************************)
(* After Stop() has returned true no service runs, and none starts again.  *)
(***************************************************************************)
THEOREM QuietAfterStopCorrect == Spec => []QuietAfterStop
<1>1. Init => Quiet /\ StopperStops
  BY DEF Init, Quiet, StopperStops, Callers
<1>2. ServerInv /\ Quiet /\ StopperStops /\ [Next]_vars => Quiet' /\ StopperStops'
  <2> SUFFICES ASSUME ServerInv, Quiet, StopperStops, [Next]_vars
               PROVE  Quiet' /\ StopperStops'
    OBVIOUS
  <2> USE DEF Quiet, StopperStops
  <2>0. DOMAIN wpc = Workers /\ DOMAIN ctl = Callers /\ Callers = {"starter", "stopper"}
    BY DEF ServerInv, TypeOK, Callers
  <2>1. ASSUME NEW w \in Workers, WorkerProgress(w)
        PROVE  Quiet' /\ StopperStops'
    <3>1. UNCHANGED <<ctl, stop, last>>
      BY <2>1 DEF WorkerProgress, Pop, CheckStop, Serve, Reply, WorkerStep
    <3>2. \/ \E to \in WorkerSteps \ {"serve", "reply"} : wpc' = [wpc EXCEPT ![w] = to]
          \/ ~stop \/ wpc[w] \in {"serve", "reply"}
      BY <2>1 DEF WorkerProgress, Pop, CheckStop, Serve, Reply, WorkerStep, WorkerSteps
    <3> QED
      BY <2>0, <3>1, <3>2
  <2>2. CASE StopBegin \/ StartBegin \/ Bind \/ Poll \/ Send \/ Close \/ ZmqFails
    BY <2>0, <2>2 DEF StopBegin, StartBegin, Bind, Poll, Send, Close, ZmqFails, Control
  <2>3. ASSUME NEW p \in Callers, PushPill(p)
        PROVE  Quiet' /\ StopperStops'
    BY <2>0, <2>3 DEF PushPill, Control
  <2>4. ASSUME NEW p \in Callers, Wait(p)
        PROVE  Quiet' /\ StopperStops'
    <3>1. /\ ctl[p] = "wait" /\ UNCHANGED <<wpc, stop>>
          /\ ctl' = [ctl EXCEPT ![p] = "join"] \/ ctl' = [ctl EXCEPT ![p] = "idle"]
          /\ last' = last \/ last' = "false" \/ (p = "stopper" /\ AllFinished)
      BY <2>0, <2>4 DEF Wait, Control
    <3>2. AllFinished => \A w \in Workers : wpc[w] \notin {"serve", "reply"}
      BY DEF AllFinished, Finished, ServerInv, Born
    <3> QED
      BY <2>0, <3>1, <3>2
  <2>5. CASE Launch
    BY <2>0, <2>5 DEF Launch, Control
  <2>6. CASE Corrupt \/ UNCHANGED vars
    BY <2>6 DEF Corrupt, vars
  <2> QED
    BY <2>1, <2>2, <2>3, <2>4, <2>5, <2>6 DEF Next, Step, StarterProgress
<1>3. Quiet => QuietAfterStop
  BY DEF Quiet, QuietAfterStop
<1> QED
  BY <1>1, <1>2, <1>3, TypeInvariant, PTL DEF Spec, ServerInv

-----------------------------------------------------------------------------

(***************************************************************************)
(* A request is in one place: not received, queued, in the hands of one    *)
(* worker, its reply queued, or done; the counts follow.                   *)
(***************************************************************************)
Untouched(m) ==
  /\ executed[m] = 0 /\ answered[m] = 0
  /\ ~Within(m, requestQueue) /\ ~Within(m, replyQueue)
  /\ \A w \in Workers : hand[w] # m

OnePlace(m) ==
  /\ m \notin received => Untouched(m)
  /\ Within(m, requestQueue) => executed[m] = 0 /\ \A w \in Workers : hand[w] # m
  /\ \A v, w \in Workers : hand[v] = m /\ hand[w] = m => v = w
  /\ \A w \in Workers :
       hand[w] = m => /\ answered[m] = 0 /\ ~Within(m, replyQueue)
                      /\ wpc[w] \in {"popped", "serve"} => executed[m] = 0
                      /\ wpc[w] = "reply" => executed[m] = 1
  /\ Within(m, replyQueue) => executed[m] = 1 /\ answered[m] = 0
  /\ executed[m] \in 0 .. 1 /\ answered[m] \in 0 .. 1 /\ answered[m] <= executed[m]
  /\ m \in NoReply => answered[m] = 0

DistinctQueues == Distinct(requestQueue) /\ Distinct(replyQueue)

Once == DistinctQueues /\ \A m \in Requests : OnePlace(m)

LEMMA OnceInvariant == Spec => []Once
<1>1. Init => Once
  BY ServerAssumption
  DEF Init, Once, DistinctQueues, Distinct, OnePlace, Untouched, Within
<1>2. ServerInv /\ Once /\ [Next]_vars => Once'
  <2> SUFFICES ASSUME ServerInv, Once, [Next]_vars
               PROVE  Once'
    OBVIOUS
  <2>1. /\ requestQueue \in Seq(Requests \cup {Nothing}) /\ replyQueue \in Seq(Requests)
        /\ executed \in [Requests -> Nat] /\ answered \in [Requests -> Nat]
        /\ hand \in [Workers -> Requests \cup {Nothing}] /\ DOMAIN wpc = Workers
        /\ Nothing \notin Requests
    BY ServerAssumption DEF ServerInv, TypeOK
  <2>2. ASSUME NEW w \in Workers, Pop(w)
        PROVE  Once'
    <3>1. /\ requestQueue # <<>> /\ requestQueue' = Tail(requestQueue)
          /\ wpc' = [wpc EXCEPT ![w] = "popped"] /\ wpc[w] = "pop"
          /\ hand' = [hand EXCEPT ![w] = Head(requestQueue)]
          /\ UNCHANGED <<replyQueue, executed, received, answered>>
      BY <2>2 DEF Pop, WorkerStep
    <3>2. \A m : Within(m, requestQueue) <=> Within(m, requestQueue') \/ m = Head(requestQueue)
      BY <2>1, <3>1, TailElements
    <3>3. /\ Distinct(requestQueue')
          /\ Head(requestQueue) # Nothing => ~Within(Head(requestQueue), requestQueue')
      BY <2>1, <3>1, TailElements DEF Once, DistinctQueues
    <3>4. DistinctQueues'
      BY <3>1, <3>3 DEF Once, DistinctQueues
    <3>5. ASSUME NEW m \in Requests
          PROVE  OnePlace(m)'
      <4>1. OnePlace(m)
        BY DEF Once
      <4>2. CASE m = Head(requestQueue)
        <5>1. /\ m \in received /\ executed[m] = 0 /\ answered[m] = 0
              /\ \A v \in Workers : hand[v] # m
              /\ ~Within(m, replyQueue) /\ ~Within(m, requestQueue')
          BY <2>1, <3>2, <3>3, <4>1, <4>2 DEF OnePlace, Untouched
        <5>2. \A v \in Workers : hand'[v] = m => v = w /\ wpc'[v] = "popped"
          BY <2>1, <3>1, <5>1
        <5> QED
          BY <3>1, <5>1, <5>2 DEF OnePlace, Untouched
      <4>3. CASE m # Head(requestQueue)
        <5>1. /\ Within(m, requestQueue') <=> Within(m, requestQueue)
              /\ \A v \in Workers : hand'[v] = m => hand[v] = m /\ wpc'[v] = wpc[v]
          BY <2>1, <3>1, <3>2, <4>3
        <5> QED
          BY <3>1, <4>1, <5>1 DEF OnePlace, Untouched
      <4> QED
        BY <4>2, <4>3
    <3> QED
      BY <3>4, <3>5 DEF Once
  <2>3. ASSUME NEW w \in Workers, CheckStop(w)
        PROVE  Once'
    <3>1. /\ wpc[w] = "popped" /\ wpc' \in {[wpc EXCEPT ![w] = "ended"], [wpc EXCEPT ![w] = "serve"]}
          /\ \/ hand' = [hand EXCEPT ![w] = Nothing] 
             \/ hand' = hand /\ wpc' = [wpc EXCEPT ![w] = "serve"]
          /\ UNCHANGED <<requestQueue, replyQueue, executed, received, answered>>
      BY <2>3 DEF CheckStop, WorkerStep
    <3>2. ASSUME NEW m \in Requests
          PROVE  OnePlace(m)'
      <4>1. \A v \in Workers :
              hand'[v] = m => hand[v] = m /\ (wpc'[v] = wpc[v] \/
                                (wpc[v] = "popped" /\ wpc'[v] = "serve"))
        BY <2>1, <3>1
      <4>2. OnePlace(m)
        BY DEF Once
      <4> QED
        BY <3>1, <4>1, <4>2 DEF OnePlace, Untouched
    <3> QED
      BY <3>1, <3>2 DEF Once, DistinctQueues
  <2>4. ASSUME NEW w \in Workers, Serve(w)
        PROVE  Once'
    <3>1. /\ wpc[w] = "serve"
          /\ executed' = [executed EXCEPT ![hand[w]] = @ + 1]
          /\ \/ wpc' = [wpc EXCEPT ![w] = "dead"] /\ hand' = [hand EXCEPT ![w] = Nothing]
             \/ wpc' = [wpc EXCEPT ![w] = "reply"] /\ hand' = hand
          /\ UNCHANGED <<requestQueue, replyQueue, received, answered>>
      BY <2>4 DEF Serve, WorkerStep
    <3>2. hand[w] \in Requests
      BY <3>1 DEF ServerInv, HandsFull
    <3>3. ASSUME NEW m \in Requests
          PROVE  OnePlace(m)'
      <4>1. OnePlace(m)
        BY DEF Once
      <4>2. CASE m = hand[w]
        <5>1. /\ executed[m] = 0 /\ answered[m] = 0 /\ executed'[m] = 1
              /\ m \in received /\ ~Within(m, requestQueue) /\ ~Within(m, replyQueue)
              /\ \A v \in Workers : hand[v] = m => v = w
          BY <2>1, <3>1, <4>1, <4>2 DEF OnePlace, Untouched
        <5>2. \A v \in Workers : hand'[v] = m => v = w /\ wpc'[v] = "reply"
          BY <2>1, <3>1, <5>1
        <5> QED
          BY <3>1, <5>1, <5>2 DEF OnePlace, Untouched
      <4>3. CASE m # hand[w]
        <5>1. executed'[m] = executed[m]
          BY <2>1, <3>1, <3>2, <4>3
        <5>2. \A v \in Workers : hand'[v] = m => hand[v] = m /\ wpc'[v] = wpc[v]
          BY <2>1, <3>1, <4>3
        <5> QED
          BY <3>1, <4>1, <5>1, <5>2 DEF OnePlace, Untouched
      <4> QED
        BY <4>2, <4>3
    <3> QED
      BY <3>1, <3>3 DEF Once, DistinctQueues
  <2>5. ASSUME NEW w \in Workers, Reply(w)
        PROVE  Once'
    <3>1. /\ wpc[w] = "reply" /\ wpc' = [wpc EXCEPT ![w] = "pop"]
          /\ hand' = [hand EXCEPT ![w] = Nothing]
          /\ replyQueue' = replyQueue \/ replyQueue' = Append(replyQueue, hand[w])
          /\ UNCHANGED <<requestQueue, executed, received, answered>>
      BY <2>5 DEF Reply, WorkerStep
    <3>2. hand[w] \in Requests
      BY <3>1 DEF ServerInv, HandsFull
    <3>3. OnePlace(hand[w])
      BY <3>2 DEF Once
    <3>4. \A m : /\ Within(m, replyQueue) => Within(m, replyQueue')
                 /\ Within(m, replyQueue') => Within(m, replyQueue) \/ m = hand[w]
      <4>1. \A m : Within(m, Append(replyQueue, hand[w])) <=> Within(m, replyQueue) \/ m = hand[w]
        BY <2>1, <3>2, AppendElements
      <4> QED
        BY <3>1, <4>1
    <3>5. ~Within(hand[w], replyQueue)
      BY <3>2, <3>3 DEF OnePlace
    <3>6. Distinct(replyQueue')
      <4>1. Distinct(replyQueue)
        BY DEF Once, DistinctQueues
      <4>2. Distinct(Append(replyQueue, hand[w]))
        BY <2>1, <3>2, <3>5, <4>1, AppendElements
      <4> QED
        BY <3>1, <4>1, <4>2
    <3>7. ASSUME NEW m \in Requests
          PROVE  OnePlace(m)'
      <4>1. OnePlace(m)
        BY DEF Once
      <4>2. \A v \in Workers : hand'[v] = m => hand[v] = m /\ wpc'[v] = wpc[v] /\ v # w
        BY <2>1, <3>1
      <4>3. CASE m = hand[w]
        <5>1. /\ executed[m] = 1 /\ answered[m] = 0 /\ m \in received
              /\ ~Within(m, requestQueue) /\ \A v \in Workers : hand[v] = m => v = w
          BY <3>1, <4>1, <4>3 DEF OnePlace, Untouched
        <5> QED
          BY <3>1, <4>1, <4>2, <5>1 DEF OnePlace, Untouched
      <4>4. CASE m # hand[w]
        <5>1. Within(m, replyQueue') <=> Within(m, replyQueue)
          BY <3>4, <4>4
        <5> QED
          BY <3>1, <4>1, <4>2, <5>1 DEF OnePlace, Untouched
      <4> QED
        BY <4>3, <4>4
    <3> QED
      BY <3>1, <3>6, <3>7 DEF Once, DistinctQueues
  <2>6. CASE Launch
    <3>1. UNCHANGED <<requestQueue, replyQueue, executed, received, answered, hand>>
      BY <2>6 DEF Launch, Control
    <3>2. \A w \in Workers : wpc'[w] = wpc[w] \/ wpc'[w] = "pop"
      BY <2>6 DEF Launch
    <3>3. ASSUME NEW m \in Requests
          PROVE  OnePlace(m)'
      BY <2>1, <3>1, <3>2 DEF Once, OnePlace, Untouched
    <3> QED
      BY <3>1, <3>3 DEF Once, DistinctQueues
  <2>7. ASSUME NEW p \in Callers, PushPill(p)
        PROVE  Once'
    <3>1. /\ requestQueue' = <<Nothing>> \o requestQueue
          /\ UNCHANGED <<replyQueue, executed, received, answered, hand, wpc>>
      BY <2>7 DEF PushPill, Control
    <3>4. /\ \A m : m # Nothing =>
                   (Within(m, <<Nothing>> \o requestQueue) <=> Within(m, requestQueue))
          /\ Distinct(requestQueue) => Distinct(<<Nothing>> \o requestQueue)
      <4> Nothing \in Requests \cup {Nothing}
        OBVIOUS
      <4> QED
        BY <2>1, PillElements
    <3>2. \A m \in Requests : Within(m, requestQueue') <=> Within(m, requestQueue)
      BY <2>1, <3>1, <3>4
    <3>3. Distinct(requestQueue')
      BY <3>1, <3>4 DEF Once, DistinctQueues
    <3> QED
      BY <3>1, <3>2, <3>3 DEF Once, DistinctQueues, OnePlace, Untouched
  <2>8. CASE Poll
    <3>1. UNCHANGED <<replyQueue, executed, answered, hand, wpc>>
      BY <2>8 DEF Poll, Control
    <3>2. CASE UNCHANGED <<requestQueue, received>>
      BY <3>1, <3>2 DEF Once, DistinctQueues, OnePlace, Untouched
    <3>3. ASSUME NEW n \in Requests \ received, received' = received \cup {n},
                 requestQueue' = Append(requestQueue, n)
          PROVE  Once'
      <4>1. Untouched(n)
        BY DEF Once, OnePlace
      <4>2. n \in Requests \cup {Nothing}
        OBVIOUS
      <4>3. \A m : Within(m, requestQueue') <=> Within(m, requestQueue) \/ m = n
        BY <2>1, <3>3, <4>2, AppendElements
      <4>4. Distinct(requestQueue')
        BY <2>1, <3>3, <4>1, <4>2, AppendElements DEF Once, DistinctQueues, Untouched
      <4>5. ASSUME NEW m \in Requests
            PROVE  OnePlace(m)'
        <5>1. OnePlace(m)
          BY DEF Once
        <5>2. CASE m = n
          BY <3>1, <3>3, <4>1, <5>1, <5>2 DEF OnePlace, Untouched
        <5>3. CASE m # n
          BY <3>1, <3>3, <4>3, <5>1, <5>3 DEF OnePlace, Untouched
        <5> QED
          BY <5>2, <5>3
      <4> QED
        BY <3>1, <4>4, <4>5 DEF Once, DistinctQueues
    <3> QED
      BY <2>8, <3>2, <3>3 DEF Poll
  <2>9. CASE Send \/ ZmqFails
    <3>1. UNCHANGED <<requestQueue, executed, received, hand, wpc>>
      BY <2>9 DEF Send, ZmqFails, Control
    <3>2. CASE UNCHANGED <<replyQueue, answered>>
      BY <3>1, <3>2 DEF Once, DistinctQueues, OnePlace, Untouched
    <3>3. ASSUME replyQueue # <<>>, replyQueue' = Tail(replyQueue),
                 \/ answered' = answered
                 \/ /\ Head(replyQueue) \notin NoReply
                    /\ answered' = [answered EXCEPT ![Head(replyQueue)] = @ + 1]
          PROVE  Once'
      <4>1. \A m : Within(m, replyQueue) <=> Within(m, replyQueue') \/ m = Head(replyQueue)
        BY <2>1, <3>3, TailElements
      <4>2. Head(replyQueue) \in Requests
        BY <2>1, <3>3
      <4>3. Distinct(replyQueue') /\ ~Within(Head(replyQueue), replyQueue')
        BY <2>1, <3>3, <4>2, TailElements DEF Once, DistinctQueues
      <4>4. ASSUME NEW m \in Requests
            PROVE  OnePlace(m)'
        <5>1. OnePlace(m)
          BY DEF Once
        <5>2. CASE m = Head(replyQueue)
          <6>1. /\ executed[m] = 1 /\ answered[m] = 0 /\ m \in received
                /\ ~Within(m, requestQueue) /\ \A w \in Workers : hand[w] # m
            BY <4>1, <5>1, <5>2 DEF OnePlace, Untouched
          <6>2. answered'[m] \in 0 .. 1 /\ (m \in NoReply => answered'[m] = 0)
            BY <2>1, <3>3, <5>2, <6>1
          <6> QED
            BY <3>1, <4>3, <5>2, <6>1, <6>2 DEF OnePlace, Untouched
        <5>3. CASE m # Head(replyQueue)
          <6>1. answered'[m] = answered[m]
            BY <2>1, <3>3, <4>2, <5>3
          <6>2. Within(m, replyQueue') <=> Within(m, replyQueue)
            BY <4>1, <5>3
          <6> QED
            BY <3>1, <5>1, <6>1, <6>2 DEF OnePlace, Untouched
        <5> QED
          BY <5>2, <5>3
      <4> QED
        BY <3>1, <4>3, <4>4 DEF Once, DistinctQueues
    <3> QED
      BY <2>9, <3>2, <3>3 DEF Send, ZmqFails
  <2>10. CASE \/ StopBegin \/ StartBegin \/ Bind \/ Close \/ Corrupt \/ UNCHANGED vars
              \/ \E p \in Callers : Wait(p)
    <3>1. UNCHANGED <<requestQueue, replyQueue, executed, received, answered, hand, wpc>>
      BY <2>10 DEF StopBegin, StartBegin, Bind, Close, Corrupt, vars, Wait, Control
    <3> QED
      BY <3>1 DEF Once, DistinctQueues, OnePlace, Untouched
  <2> QED
    BY <2>2, <2>3, <2>4, <2>5, <2>6, <2>7, <2>8, <2>9, <2>10
    DEF Next, Step, WorkerProgress, StarterProgress
<1> QED
  BY <1>1, <1>2, TypeInvariant, PTL DEF Spec, ServerInv

(***************************************************************************)
(* The service runs at most once for a request, and the client is sent at  *)
(* most one reply, after that run, and none if it asked for none.          *)
(***************************************************************************)
THEOREM AnsweredAtMostOnceCorrect == Spec => []AnsweredAtMostOnce
<1>1. Once => AnsweredAtMostOnce
  <2> SUFFICES ASSUME Once, NEW m \in Requests
               PROVE  /\ answered[m] <= executed[m] /\ executed[m] <= 1
                      /\ m \in NoReply => answered[m] = 0
    BY DEF AnsweredAtMostOnce
  <2>1. OnePlace(m)
    BY DEF Once
  <2> QED
    BY <2>1 DEF OnePlace
<1> QED
  BY <1>1, OnceInvariant, PTL

-----------------------------------------------------------------------------

(***************************************************************************)
(* While the router is in its loop the server reads STARTED, so that an    *)
(* exception in the loop is seen as RouterFailed.                          *)
(***************************************************************************)
RouterRuns == ctl["starter"] \in {"poll", "send", "close"} => status = "STARTED"

Place(m) ==
  \/ Within(m, requestQueue) \/ Within(m, replyQueue)
  \/ \E w \in Workers : hand[w] = m
  \/ answered[m] = 1
  \/ executed[m] = 1 /\ m \in NoReply \cup Throwing

Kept == ~stop /\ ~VoidService /\ ~RouterFailed => \A m \in received : Place(m)

(***************************************************************************)
(* Until it is told to stop or ZMQ fails, the server loses no request.     *)
(***************************************************************************)
THEOREM NothingIsLostCorrect == Spec => []NothingIsLost
<1>1. Init => RouterRuns /\ Kept
  BY DEF Init, RouterRuns, Kept, Callers
<1>2. ServerInv /\ RouterRuns /\ [Next]_vars => RouterRuns'
  <2> SUFFICES ASSUME ServerInv, RouterRuns, [Next]_vars
               PROVE  RouterRuns'
    OBVIOUS
  <2>0. DOMAIN ctl = Callers /\ Callers = {"starter", "stopper"}
    BY DEF ServerInv, TypeOK, Callers
  <2> USE DEF RouterRuns
  <2>1. ASSUME NEW w \in Workers, WorkerProgress(w)
        PROVE  RouterRuns'
    BY <2>1 DEF WorkerProgress, Pop, CheckStop, Serve, Reply, WorkerStep
  <2>2. ASSUME NEW p \in Callers, PushPill(p) \/ Wait(p)
        PROVE  RouterRuns'
    <3>1. /\ \E to \in {"wait", "join", "idle"} : ctl' = [ctl EXCEPT ![p] = to]
          /\ UNCHANGED status
      BY <2>2 DEF PushPill, Wait, Control
    <3> QED
      BY <2>0, <3>1
  <2>3. CASE Bind \/ Poll \/ Send
    <3>1. CASE Bind
      BY <3>1 DEF Bind
    <3>2. CASE Poll \/ Send
      <4>1. ctl["starter"] \in {"poll", "send"} /\ UNCHANGED status
        BY <3>2 DEF Poll, Send, Control
      <4> QED
        BY <4>1
    <3> QED
      BY <2>3, <3>1, <3>2
  <2>4. CASE StopBegin \/ StartBegin \/ Launch \/ Close \/ ZmqFails
    BY <2>0, <2>4 DEF StopBegin, StartBegin, Launch, Close, ZmqFails, Control
  <2>5. CASE Corrupt \/ UNCHANGED vars
    BY <2>5 DEF Corrupt, vars
  <2> QED
    BY <2>1, <2>2, <2>3, <2>4, <2>5 DEF Next, Step, StarterProgress
<1>3. ServerInv /\ Once /\ RouterRuns /\ Kept /\ [Next]_vars => Kept'
  <2> SUFFICES ASSUME ServerInv, Once, RouterRuns, Kept, [Next]_vars,
                      ~stop', ~VoidService, ~RouterFailed', NEW m \in received'
               PROVE  Place(m)'
    BY DEF Kept
  <2>1. /\ requestQueue \in Seq(Requests \cup {Nothing}) /\ replyQueue \in Seq(Requests)
        /\ executed \in [Requests -> Nat] /\ answered \in [Requests -> Nat]
        /\ hand \in [Workers -> Requests \cup {Nothing}] /\ received \subseteq Requests
        /\ DOMAIN ctl = Callers /\ "starter" \in Callers /\ Nothing \notin Requests
    BY ServerAssumption DEF ServerInv, TypeOK, Callers
  <2>2. ~stop /\ ~RouterFailed
    <3>1. ~stop
      BY DEF Next, Step, WorkerProgress, StarterProgress, Pop, CheckStop, Serve, Reply,
             WorkerStep, StopBegin, StartBegin, PushPill, Wait, Launch, Bind, Poll, Send,
             Close, ZmqFails, Corrupt, vars
    <3>2. CASE UNCHANGED <<ctl, status>>
      BY <3>1, <3>2 DEF RouterFailed
    <3>3. ASSUME ~UNCHANGED <<ctl, status>>, RouterFailed
          PROVE  FALSE
      <4>1. ctl["starter"] = "idle" /\ status = "STARTED"
        BY <3>3 DEF RouterFailed
      <4>2. ASSUME NEW p \in Callers, PushPill(p) \/ Wait(p)
            PROVE  FALSE
        <5>1. p # "starter" /\ UNCHANGED status
              /\ \E to \in {"wait", "join", "idle"} : ctl' = [ctl EXCEPT ![p] = to]
          BY <4>1, <4>2 DEF PushPill, Wait, Control
        <5>2. ctl'["starter"] = "idle"
          BY <2>1, <4>1, <5>1
        <5> QED
          BY <4>1, <5>1, <5>2 DEF RouterFailed
      <4> QED
        BY <3>3, <4>1, <4>2
        DEF Next, Step, WorkerProgress, StarterProgress, Pop, CheckStop, Serve, Reply,
            WorkerStep, StopBegin, StartBegin, Launch, Bind, Poll, Send, Close, ZmqFails,
            Control, Corrupt, vars
    <3> QED
      BY <3>1, <3>2, <3>3
  <2>3. m \in received => Place(m)
    BY <2>2 DEF Kept
  <2> USE DEF Place
  <2>4. ASSUME NEW w \in Workers, Pop(w)
        PROVE  Place(m)'
    <3>1. /\ requestQueue # <<>> /\ requestQueue' = Tail(requestQueue)
          /\ wpc[w] = "pop" /\ hand' = [hand EXCEPT ![w] = Head(requestQueue)]
          /\ UNCHANGED <<replyQueue, executed, received, answered>>
      BY <2>4 DEF Pop, WorkerStep
    <3>2. Within(m, requestQueue) <=> Within(m, requestQueue') \/ m = Head(requestQueue)
      BY <2>1, <3>1, TailElements
    <3>3. hand[w] = Nothing /\ m \in Requests
      BY <2>1, <3>1 DEF ServerInv, HandsFull
    <3> QED
      BY <2>1, <2>3, <3>1, <3>2, <3>3
  <2>5. ASSUME NEW w \in Workers, CheckStop(w)
        PROVE  Place(m)'
    BY <2>2, <2>3, <2>5 DEF CheckStop, WorkerStep
  <2>6. ASSUME NEW w \in Workers, Serve(w)
        PROVE  Place(m)'
    <3>1. /\ wpc[w] = "serve"
          /\ executed' = [executed EXCEPT ![hand[w]] = @ + 1]
          /\ hand' = IF hand[w] \in Throwing THEN [hand EXCEPT ![w] = Nothing] ELSE hand
          /\ UNCHANGED <<requestQueue, replyQueue, received, answered>>
      BY <2>6 DEF Serve, WorkerStep
    <3>2. hand[w] \in Requests /\ OnePlace(hand[w]) /\ m \in Requests /\ OnePlace(m)
      BY <2>1, <3>1 DEF ServerInv, HandsFull, Once
    <3>3. CASE m = hand[w]
      <4>1. executed'[m] = 1
        BY <2>1, <3>1, <3>2, <3>3 DEF OnePlace
      <4> QED
        BY <3>1, <3>3, <4>1
    <3>4. CASE m # hand[w]
      <4>1. executed'[m] = executed[m] /\ \A v \in Workers : hand[v] = m => hand'[v] = m
        BY <2>1, <3>1, <3>2, <3>4
      <4> QED
        BY <2>3, <3>1, <4>1
    <3> QED
      BY <3>3, <3>4
  <2>7. ASSUME NEW w \in Workers, Reply(w)
        PROVE  Place(m)'
    <3>1. /\ wpc[w] = "reply" /\ hand' = [hand EXCEPT ![w] = Nothing]
          /\ replyQueue' = IF hand[w] \notin NoReply THEN Append(replyQueue, hand[w])
                           ELSE replyQueue
          /\ UNCHANGED <<requestQueue, executed, received, answered>>
      BY <2>7 DEF Reply, QueuesReply, WorkerStep
    <3>2. hand[w] \in Requests /\ OnePlace(hand[w]) /\ m \in Requests
      BY <2>1, <3>1 DEF ServerInv, HandsFull, Once
    <3>3. Within(m, Append(replyQueue, hand[w])) <=> Within(m, replyQueue) \/ m = hand[w]
      BY <2>1, <3>2, AppendElements
    <3>4. Within(m, replyQueue) => Within(m, replyQueue')
      BY <3>1, <3>3
    <3>5. CASE m = hand[w]
      BY <3>1, <3>2, <3>3, <3>5 DEF OnePlace
    <3>6. CASE m # hand[w]
      <4>1. \A v \in Workers : hand[v] = m => hand'[v] = m
        BY <2>1, <3>1, <3>6
      <4> QED
        BY <2>3, <3>1, <3>4, <4>1
    <3> QED
      BY <3>5, <3>6
  <2>8. ASSUME NEW p \in Callers, PushPill(p)
        PROVE  Place(m)'
    <3>1. /\ requestQueue' = <<Nothing>> \o requestQueue
          /\ UNCHANGED <<replyQueue, executed, received, answered, hand>>
      BY <2>8 DEF PushPill, Control
    <3>2. m \in Requests
      BY <2>1, <3>1
    <3>3. Within(m, requestQueue') <=> Within(m, requestQueue)
      <4>1. \A x : x # Nothing =>
              (Within(x, <<Nothing>> \o requestQueue) <=> Within(x, requestQueue))
        BY <2>1, PillElements
      <4> QED
        BY <2>1, <3>1, <3>2, <4>1
    <3> QED
      BY <2>3, <3>1, <3>3
  <2>9. CASE Poll
    <3>1. UNCHANGED <<replyQueue, executed, answered, hand>>
      BY <2>9 DEF Poll, Control
    <3>2. CASE UNCHANGED <<requestQueue, received>>
      BY <2>3, <3>1, <3>2
    <3>3. ASSUME NEW n \in Requests \ received, received' = received \cup {n},
                 requestQueue' = Append(requestQueue, n)
          PROVE  Place(m)'
      <4>1. n \in Requests \cup {Nothing}
        OBVIOUS
      <4>2. Within(m, requestQueue') <=> Within(m, requestQueue) \/ m = n
        <5>1. \A x : Within(x, Append(requestQueue, n)) <=> Within(x, requestQueue) \/ x = n
          <6>1. requestQueue \in Seq(Requests \cup {Nothing})
            BY <2>1
          <6> HIDE DEF Place
          <6> QED
            BY <4>1, <6>1, AppendElements
        <5> QED
          BY <3>3, <5>1
      <4> QED
        BY <2>3, <3>1, <3>3, <4>2
    <3> QED
      BY <2>9, <3>2, <3>3 DEF Poll
  <2>10. CASE Send
    <3>1. UNCHANGED <<requestQueue, executed, received, hand>>
      BY <2>10 DEF Send, Control
    <3>2. CASE UNCHANGED <<replyQueue, answered>>
      BY <2>3, <3>1, <3>2
    <3>3. ASSUME replyQueue # <<>>, replyQueue' = Tail(replyQueue),
                 answered' = IF Head(replyQueue) \in NoReply THEN answered
                             ELSE [answered EXCEPT ![Head(replyQueue)] = @ + 1]
          PROVE  Place(m)'
      <4>1. Within(m, replyQueue) <=> Within(m, replyQueue') \/ m = Head(replyQueue)
        BY <2>1, <3>3, TailElements
      <4>2. m \in Requests /\ OnePlace(m)
        BY <2>1, <3>1 DEF Once
      <4>3. CASE m = Head(replyQueue)
        <5>1. executed[m] = 1 /\ answered[m] = 0
          BY <2>1, <3>3, <4>1, <4>2, <4>3 DEF OnePlace
        <5> QED
          BY <2>1, <3>1, <3>3, <4>2, <4>3, <5>1
      <4>4. CASE m # Head(replyQueue)
        <5>1. answered'[m] = answered[m]
          BY <2>1, <3>3, <4>4
        <5> QED
          BY <2>3, <3>1, <4>1, <4>4, <5>1
      <4> QED
        BY <4>3, <4>4
    <3> QED
      BY <2>10, <3>2, <3>3 DEF Send
  <2>11. CASE ZmqFails
    <3>1. UNCHANGED <<requestQueue, executed, received, hand, answered, status>>
      BY <2>11 DEF ZmqFails, Control
    <3>2. CASE UNCHANGED replyQueue
      BY <2>3, <3>1, <3>2
    <3>3. CASE ctl["starter"] = "send"
      <4>1. ctl'["starter"] = "idle" /\ status' = "STARTED"
        BY <2>1, <2>11, <3>1, <3>3 DEF ZmqFails, Control, RouterRuns
      <4> QED
        BY <4>1 DEF RouterFailed
    <3> QED
      BY <2>11, <3>2, <3>3 DEF ZmqFails
  <2>12. CASE \/ StopBegin \/ StartBegin \/ Launch \/ Bind \/ Close \/ Corrupt
              \/ UNCHANGED vars \/ \E p \in Callers : Wait(p)
    <3>1. UNCHANGED <<requestQueue, replyQueue, executed, received, answered, hand>>
      BY <2>12 DEF StopBegin, StartBegin, Launch, Bind, Close, Corrupt, vars, Wait, Control
    <3> QED
      BY <2>3, <3>1
  <2> QED
    BY <2>4, <2>5, <2>6, <2>7, <2>8, <2>9, <2>10, <2>11, <2>12
    DEF Next, Step, WorkerProgress, StarterProgress
<1>4. ServerInv /\ Kept => NothingIsLost
  <2> SUFFICES ASSUME ServerInv, Kept, ~stop, ~VoidService, ~RouterFailed,
                      NEW m \in received, NEW w \in Workers, hand[w] = m
               PROVE  w \in Launched /\ ~Finished(w)
    BY DEF Kept, NothingIsLost, Place
  <2>1. m # Nothing
    BY ServerAssumption DEF ServerInv, TypeOK
  <2>2. wpc[w] \in {"popped", "serve", "reply"}
    BY <2>1 DEF ServerInv, HandsFull
  <2> QED
    BY <2>2 DEF ServerInv, Born, Finished
<1> QED
  BY <1>1, <1>2, <1>3, <1>4, TypeInvariant, OnceInvariant, PTL DEF Spec, ServerInv
-----------------------------------------------------------------------------
(* What the liveness of Stop() rests on. *)

\* The empty element that unlocks a worker is queued, a worker has popped it or
\* what came before it, or one has ended.
PillArrives ==
  Within(Nothing, requestQueue) \/ \E w \in Launched : wpc[w] = "popped" \/ Finished(w)

StopReachesWorker ==
  /\ \A p \in Callers : ctl[p] \in {"pill", "wait"} => stop
  /\ \A p \in Callers : ctl[p] = "wait" => PillArrives

(***************************************************************************)
(* While Stop() waits, in whichever thread, stop_ stays set, and its empty *)
(* element is queued until a worker takes an element after which it ends:  *)
(* nothing that is popped in between is served, and no element is lost.    *)
(***************************************************************************)
THEOREM StopReachesWorkerCorrect == Spec => []StopReachesWorker
<1>1. Init => StopReachesWorker
  BY DEF Init, StopReachesWorker
<1>2. ServerInv /\ StopReachesWorker /\ [Next]_vars => StopReachesWorker'
  <2> SUFFICES ASSUME ServerInv, StopReachesWorker, [Next]_vars
               PROVE  StopReachesWorker'
    OBVIOUS
  <2>0. /\ DOMAIN ctl = Callers /\ Callers = {"starter", "stopper"}
        /\ DOMAIN wpc = Workers /\ requestQueue \in Seq(Requests \cup {Nothing})
    BY DEF ServerInv, TypeOK, Callers
  <2>1. ASSUME UNCHANGED <<requestQueue, wpc, starts>>
        PROVE  PillArrives <=> PillArrives'
    BY <2>1 DEF PillArrives, Launched, Finished
  <2>2. \A w \in Workers : wpc[w] # "unborn" => w \in Launched
    BY DEF ServerInv, Born
  <2>3. ASSUME NEW w \in Workers, Pop(w)
        PROVE  StopReachesWorker'
    <3>1. /\ wpc[w] = "pop" /\ wpc' = [wpc EXCEPT ![w] = "popped"]
          /\ UNCHANGED <<ctl, stop, starts>>
      BY <2>3 DEF Pop, WorkerStep
    <3>2. w \in Launched' /\ wpc'[w] = "popped"
      BY <2>0, <2>2, <3>1 DEF Launched
    <3>3. PillArrives'
      BY <3>2 DEF PillArrives
    <3> QED
      BY <3>1, <3>3 DEF StopReachesWorker
  <2>4. ASSUME NEW w \in Workers, CheckStop(w)
        PROVE  StopReachesWorker'
    <3>1. /\ wpc[w] = "popped" /\ UNCHANGED <<ctl, stop, starts, requestQueue>>
          /\ stop => wpc' = [wpc EXCEPT ![w] = "ended"]
      BY <2>4 DEF CheckStop, WorkerStep
    <3>2. stop => w \in Launched' /\ wpc'[w] = "ended"
      BY <2>0, <2>2, <3>1 DEF Launched
    <3>3. stop => PillArrives'
      BY <3>2 DEF PillArrives, Finished
    <3> QED
      BY <3>1, <3>3 DEF StopReachesWorker
  <2>5. ASSUME NEW w \in Workers, Serve(w) \/ Reply(w)
        PROVE  StopReachesWorker'
    <3>1. /\ wpc[w] \in {"serve", "reply"}
          /\ \A v \in Workers : v # w => wpc'[v] = wpc[v]
          /\ UNCHANGED <<ctl, stop, starts, requestQueue>>
      BY <2>0, <2>5 DEF Serve, Reply, WorkerStep
    <3>2. PillArrives => PillArrives'
      <4> SUFFICES ASSUME NEW v \in Launched, wpc[v] = "popped" \/ Finished(v)
                   PROVE  PillArrives'
        BY <3>1 DEF PillArrives
      <4>1. v \in Workers
        BY LaunchedAreWorkers DEF ServerInv, TypeOK
      <4>2. v # w /\ wpc'[v] = wpc[v] /\ v \in Launched'
        BY <3>1, <4>1 DEF Finished, Launched
      <4> QED
        BY <4>2 DEF PillArrives, Finished
    <3> QED
      BY <3>1, <3>2 DEF StopReachesWorker
  <2>6. CASE StopBegin \/ StartBegin
    <3>1. /\ UNCHANGED <<requestQueue, wpc, starts>>
          /\ \E p \in Callers :
               \/ ctl' = [ctl EXCEPT ![p] = "pill"] /\ stop' = TRUE
               \/ ctl' = [ctl EXCEPT ![p] = "join"] /\ stop' = stop
      BY <2>6 DEF StopBegin, StartBegin, Control, Callers
    <3> QED
      BY <2>0, <2>1, <3>1 DEF StopReachesWorker
  <2>7. ASSUME NEW p \in Callers, PushPill(p)
        PROVE  StopReachesWorker'
    <3>1. /\ ctl[p] = "pill" /\ ctl' = [ctl EXCEPT ![p] = "wait"]
          /\ requestQueue' = <<Nothing>> \o requestQueue /\ stop' = stop
      BY <2>7 DEF PushPill, Control
    <3>2. 1 \in DOMAIN requestQueue' /\ requestQueue'[1] = Nothing
      BY <2>0, <3>1
    <3>3. PillArrives'
      BY <3>2 DEF PillArrives, Within
    <3> QED
      BY <2>0, <3>1, <3>3 DEF StopReachesWorker
  <2>8. CASE Poll
    <3>1. /\ UNCHANGED <<wpc, starts, stop>>
          /\ \E to \in {"close", "send"} : ctl' = [ctl EXCEPT !["starter"] = to]
          /\ \/ requestQueue' = requestQueue
             \/ \E m \in Requests : requestQueue' = Append(requestQueue, m)
      BY <2>8 DEF Poll, Control
    <3>2. Within(Nothing, requestQueue) => Within(Nothing, requestQueue')
      <4>1. ASSUME NEW m \in Requests, requestQueue' = Append(requestQueue, m)
            PROVE  Within(Nothing, requestQueue) => Within(Nothing, requestQueue')
        <5>1. m \in Requests \cup {Nothing}
          OBVIOUS
        <5>2. \A x : Within(x, Append(requestQueue, m)) <=> Within(x, requestQueue) \/ x = m
          BY <2>0, <5>1, AppendElements
        <5> QED
          BY <4>1, <5>2
      <4> QED
        BY <3>1, <4>1
    <3>3. PillArrives => PillArrives'
      BY <3>1, <3>2 DEF PillArrives, Launched, Finished
    <3> QED
      BY <2>0, <3>1, <3>3 DEF StopReachesWorker
  <2>9. CASE Launch
    <3>1. /\ ctl' = [ctl EXCEPT !["starter"] = "bind"] /\ starts' = starts + 1
          /\ \A w \in Workers : w \in Launched => wpc'[w] = wpc[w]
          /\ UNCHANGED <<requestQueue, stop>>
      BY <2>9 DEF Launch, Control
    <3>2. Launched \subseteq Launched' /\ Launched \subseteq Workers
      BY <3>1, LaunchedGrow, LaunchedAreWorkers DEF Launched, ServerInv, TypeOK
    <3>3. PillArrives => PillArrives'
      BY <3>1, <3>2 DEF PillArrives, Finished
    <3> QED
      BY <2>0, <3>1, <3>3 DEF StopReachesWorker
  <2>10. CASE Bind \/ Send \/ Close \/ ZmqFails \/ \E p \in Callers : Wait(p)
    <3>1. /\ UNCHANGED <<requestQueue, wpc, starts, stop>>
          /\ \E p \in Callers, to \in {"poll", "idle", "join"} : ctl' = [ctl EXCEPT ![p] = to]
      BY <2>0, <2>10 DEF Bind, Send, Close, ZmqFails, Wait, Control
    <3> QED
      BY <2>0, <2>1, <3>1 DEF StopReachesWorker
  <2>11. CASE Corrupt \/ UNCHANGED vars
    BY <2>1, <2>11 DEF Corrupt, vars, StopReachesWorker
  <2> QED
    BY <2>3, <2>4, <2>5, <2>6, <2>7, <2>8, <2>9, <2>10, <2>11
    DEF Next, Step, WorkerProgress, StarterProgress
<1> QED
  BY <1>1, <1>2, TypeInvariant, PTL DEF Spec, ServerInv
=============================================================================
