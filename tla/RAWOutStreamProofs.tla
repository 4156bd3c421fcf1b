-------------------------- MODULE RAWOutStreamProofs --------------------------
(***************************************************************************)
(* RAWOutStream for any number of messages, workers and Stop() calls.      *)
(***************************************************************************)
EXTENDS RAWOutStream, SequenceLemmas

(***************************************************************************)
(* Where the owner is, by the call it makes, and what it has checked.      *)
(***************************************************************************)
OwnerKnows ==
  /\ opc \in {"pill", "wait"} => task # "none"
  /\ opc = "launch" => task = "start"
  /\ opc = "join" => task \in {"start", "destroy"}
  /\ opc = "join" /\ task = "start" => starts > 0
  /\ opc = "gone" => task = "destroy"
  /\ opc \in {"pill", "wait", "launch"} /\ task = "start" => starts < MaxStarts

(***************************************************************************)
(* Workers are launched one by one, and a worker is launched only after    *)
(* the one before the last has ended; the destructor waits for the last.   *)
(***************************************************************************)
OneByOne ==
  /\ \A w \in Workers : wpc[w] = "unborn" <=> w > starts
  /\ \A w \in Workers :
       w < starts => Finished(w) \/ (opc = "join" /\ task = "start" /\ w = starts - 1)
  /\ opc = "gone" => \A w \in Workers : ~Alive(w)

LEMMA TypeInvariant == Spec => [](TypeOK /\ OwnerKnows /\ OneByOne)
<1>1. Init => TypeOK
  <2>1. 0 \in 0 .. NumMessages /\ 0 \in 0 .. MaxStarts /\ 0 \in 0 .. MaxStops /\ 0 \in 0 .. 0
    BY OutAssumption
  <2> SUFFICES ASSUME Init
               PROVE  TypeOK
    OBVIOUS
  <2>2. queue \in Seq(0 .. sent) /\ published \in Seq(0 .. sent)
    BY DEF Init
  <2> QED
    BY <2>1, <2>2 DEF Init, TypeOK, Pill
<1>2. Init => OwnerKnows /\ OneByOne
  BY OutAssumption DEF Init, OwnerKnows, OneByOne, Workers, Finished, Alive
<1>3. TypeOK /\ OwnerKnows /\ OneByOne /\ [Next]_vars => TypeOK' /\ OwnerKnows' /\ OneByOne'
  <2> SUFFICES ASSUME TypeOK, OwnerKnows, OneByOne, [Next]_vars
               PROVE  TypeOK' /\ OwnerKnows' /\ OneByOne'
    OBVIOUS
  <2> USE OutAssumption DEF TypeOK, OwnerKnows, OneByOne, workerVars, ownerVars, Pill,
                            Finished, Alive, Workers
  <2>1. CASE Send
    BY <2>1 DEF Send
  <2>2. CASE Call
    <3>1. task' \in {"stop", "start", "destroy"} /\ opc = "idle"
      BY <2>2 DEF Call
    <3>2. UNCHANGED <<sent, queue, published, wpc, hand, status, starts, late>>
      BY <2>2 DEF Call
    <3>3. /\ opc' \in {"pill", "idle", "launch", "join"}
          /\ opc' = "launch" => task' = "start"
          /\ opc' = "join" => task' = "destroy"
          /\ task' = "start" => starts < MaxStarts
      BY <2>2, <3>1 DEF Call, AfterStop
    <3>4. stop' \in BOOLEAN /\ stops' \in 0 .. MaxStops
      <4>1. \/ stop' = stop /\ stops' = stops
            \/ stop' = TRUE /\ stops < MaxStops /\ stops' = stops + 1
        BY <2>2 DEF Call
      <4>2. stop' \in BOOLEAN
        BY <4>1
      <4>3. stops' \in 0 .. MaxStops
        BY <4>1
      <4> QED
        BY <4>2, <4>3
    <3> QED
      BY <3>1, <3>2, <3>3, <3>4
  <2>3. CASE PushPill
    BY <2>3 DEF PushPill
  <2>4. CASE Wait
    BY <2>4 DEF Wait, AfterStop
  <2>5. CASE Launch
    <3>1. /\ opc' = "join" /\ task = "start" /\ task' = task
          /\ starts' = starts + 1 /\ starts' \in 1 .. MaxStarts
      BY <2>5 DEF Launch
    <3>2. wpc' = [wpc EXCEPT ![starts'] = "open"]
      BY <2>5, <3>1 DEF Launch
    <3>3. TypeOK'
      <4>1. UNCHANGED <<sent, queue, published, hand, stops, late>>
        BY <2>5 DEF Launch
      <4>2. stop' = FALSE /\ status' = "STARTED"
        BY <2>5 DEF Launch
      <4>3. wpc' \in [Workers -> {"unborn", "open", "check", "pop", "send", "close",
                                 "ended", "dead"}]
        BY <3>2
      <4>4. stop' \in BOOLEAN
        BY <4>2
      <4>5. starts' \in 0 .. MaxStarts
        BY <3>1
      <4> QED
        BY <3>1, <4>1, <4>2, <4>3, <4>4, <4>5
    <3>4. OneByOne'
      BY <2>5, <3>1, <3>2 DEF Launch
    <3> QED
      BY <3>1, <3>3, <3>4
  <2>6. CASE Join
    BY <2>6 DEF Join
  <2>7. ASSUME NEW w \in Workers, Open(w) \/ Check(w)
        PROVE  TypeOK' /\ OwnerKnows' /\ OneByOne'
    BY <2>7 DEF Open, Check, Goto
  <2>8. ASSUME NEW w \in Workers, Pop(w)
        PROVE  TypeOK' /\ OwnerKnows' /\ OneByOne'
    BY <2>8 DEF Pop, Goto
  <2>9. ASSUME NEW w \in Workers, Publish(w)
        PROVE  TypeOK' /\ OwnerKnows' /\ OneByOne'
    BY <2>9 DEF Publish, Goto
  <2>10. ASSUME NEW w \in Workers, Close(w) \/ ZmqFails(w)
         PROVE  TypeOK' /\ OwnerKnows' /\ OneByOne'
    <3>1. \E to \in {"ended", "dead"} : wpc[w] # "unborn" /\ wpc' = [wpc EXCEPT ![w] = to]
      BY <2>10 DEF Close, ZmqFails, Goto
    <3>2. UNCHANGED <<sent, queue, published, ownerVars, stop>>
      BY <2>10 DEF Close, ZmqFails, Goto
    <3>3. hand' \in [Workers -> 0 .. sent] /\ status' \in {"STARTED", "STOPPED"}
      BY <2>10 DEF Close, ZmqFails
    <3> QED
      BY <3>1, <3>2, <3>3
  <2>11. CASE UNCHANGED vars
    BY <2>11 DEF vars
  <2> QED
    BY <2>1, <2>2, <2>3, <2>4, <2>5, <2>6, <2>7, <2>8, <2>9, <2>10, <2>11
    DEF Next, Step, OwnerStep, WorkerStep
<1> QED
  BY <1>1, <1>2, <1>3, PTL DEF Spec

(***************************************************************************)
(* The variables have their types.                                         *)
(***************************************************************************)
THEOREM TypeCorrect == Spec => []TypeOK
BY TypeInvariant, PTL

(***************************************************************************)
(* The destructor returns only when no worker uses the stream any more,    *)
(* also after a Stop() that has given up.                                  *)
(***************************************************************************)
THEOREM NoWorkerOutlivesStreamCorrect == Spec => []NoWorkerOutlivesStream
<1>1. OneByOne => NoWorkerOutlivesStream
  BY DEF OneByOne, NoWorkerOutlivesStream
<1> QED
  BY <1>1, TypeInvariant, PTL

-----------------------------------------------------------------------------

(***************************************************************************)
(* As long as no Stop() gives up the worker launched last is the only one, *)
(* and there is none when the stream reads STOPPED.                        *)
(***************************************************************************)
LastWorkerOnly ==
  ~late =>
    /\ \A w \in Workers : Alive(w) => w = starts
    /\ status = "STOPPED" \/ opc = "launch" => \A w \in Workers : ~Alive(w)

OutInv == TypeOK /\ OwnerKnows /\ OneByOne

LEMMA LastWorkerOnlyInvariant == Spec => []LastWorkerOnly
<1>1. Init => LastWorkerOnly
  BY DEF Init, LastWorkerOnly, Alive, Finished
<1>2. OutInv /\ LastWorkerOnly /\ [Next]_vars => LastWorkerOnly'
  <2> SUFFICES ASSUME OutInv, LastWorkerOnly, [Next]_vars
               PROVE  LastWorkerOnly'
    OBVIOUS
  <2> USE OutAssumption DEF OutInv, TypeOK, OwnerKnows, OneByOne, LastWorkerOnly,
                            workerVars, ownerVars, Finished, Alive, Workers
  <2>1. CASE Send \/ Call \/ PushPill
    BY <2>1 DEF Send, Call, AfterStop, PushPill
  <2>2. CASE Wait
    BY <2>2 DEF Wait, AfterStop
  <2>3. CASE Launch
    BY <2>3 DEF Launch
  <2>4. CASE Join
    BY <2>4 DEF Join
  <2>5. ASSUME NEW w \in Workers, Open(w) \/ Check(w) \/ Pop(w) \/ Publish(w)
        PROVE  LastWorkerOnly'
    BY <2>5 DEF Open, Check, Pop, Publish, Goto
  <2>6. ASSUME NEW w \in Workers, Close(w) \/ ZmqFails(w)
        PROVE  LastWorkerOnly'
    BY <2>6 DEF Close, ZmqFails, Goto
  <2>7. CASE UNCHANGED vars
    BY <2>7 DEF vars
  <2> QED
    BY <2>1, <2>2, <2>3, <2>4, <2>5, <2>6, <2>7 DEF Next, Step, OwnerStep, WorkerStep
<1> QED
  BY <1>1, <1>2, TypeInvariant, PTL DEF Spec, OutInv

(***************************************************************************)
(* As long as no Stop() gives up there is never a second worker on the     *)
(* queue, and between calls a stream that reads STOPPED has none.          *)
(***************************************************************************)
THEOREM OneWorkerCorrect == Spec => []OneWorker
<1>1. LastWorkerOnly => OneWorker
  BY DEF LastWorkerOnly, OneWorker
<1> QED
  BY <1>1, LastWorkerOnlyInvariant, PTL

-----------------------------------------------------------------------------

(***************************************************************************)
(* The order of the messages, part by part: what is published, then what   *)
(* the worker holds, then what is queued.                                  *)
(***************************************************************************)
Held == starts > 0 /\ wpc[starts] = "send"

Ordered ==
  ~late =>
    /\ Ascending(published) /\ Ascending(queue)
    /\ \A m, n \in 1 .. sent : Has(published, m) /\ Has(queue, n) => m < n
    /\ Held /\ hand[starts] # Pill =>
         \A m \in 1 .. sent : /\ Has(published, m) => m < hand[starts]
                              /\ Has(queue, m) => hand[starts] < m

(***************************************************************************)
(* Every message sent is in one of the parts, unless a worker has died.    *)
(***************************************************************************)
Complete ==
  ~late /\ NoneDied =>
    \A m \in 1 .. sent :
      Has(published, m) \/ (Held /\ hand[starts] = m) \/ Has(queue, m)

(***************************************************************************)
(* A step that leaves the queue and the messages that are published alone  *)
(* leaves the order, if it takes nothing into a worker's hand.             *)
(***************************************************************************)
LEMMA OrderKept ==
  ASSUME Ordered, Complete, UNCHANGED <<queue, published, sent>>,
         late' = late \/ late',
         Held' => Held /\ hand'[starts'] = hand[starts],
         Held /\ NoneDied' => Held',
         NoneDied' => NoneDied
  PROVE  Ordered' /\ Complete'
<1>1. Ordered'
  BY DEF Ordered
<1>2. Complete'
  BY DEF Complete
<1> QED
  BY <1>1, <1>2

LEMMA OrderedInvariant == Spec => [](Ordered /\ Complete)
<1>1. Init => Ordered /\ Complete
  BY DEF Init, Ordered, Complete, Ascending, Has, Held
<1>2. OutInv /\ LastWorkerOnly /\ Ordered /\ Complete /\ [Next]_vars
        => Ordered' /\ Complete'
  <2> SUFFICES ASSUME OutInv, LastWorkerOnly, Ordered, Complete, [Next]_vars, ~late'
               PROVE  Ordered' /\ Complete'
    BY DEF Ordered, Complete
  <2>1. /\ sent \in Nat /\ queue \in Seq(0 .. sent) /\ published \in Seq(0 .. sent)
        /\ starts \in 0 .. MaxStarts /\ MaxStarts \in Nat
        /\ hand \in [Workers -> 0 .. sent] /\ DOMAIN wpc = Workers
    BY OutAssumption DEF OutInv, TypeOK
  <2>l. ~late
    BY DEF Next, Step, OwnerStep, WorkerStep, Send, Call, PushPill, Wait, Launch, Join, Open,
           Check, Pop, Publish, Close, ZmqFails, Goto, ownerVars, vars
  <2>w. \A w \in Workers : Alive(w) => w = starts /\ starts > 0
    BY <2>1, <2>l DEF LastWorkerOnly, Workers
  <2>2. CASE Send
    <3>1. /\ sent' = sent + 1 /\ queue' = Append(queue, sent + 1)
          /\ UNCHANGED <<published, wpc, hand, starts, late>>
      BY <2>2 DEF Send, workerVars, ownerVars
    <3>2. queue \in Seq(0 .. sent + 1)
      BY <2>1
    <3>3. \A m : /\ Has(queue, m) => m \in 0 .. sent
                 /\ Has(published, m) => m \in 0 .. sent
      BY <2>1, ElementType
    <3>4. \A m : Has(queue', m) <=> Has(queue, m) \/ m = sent + 1
      BY <2>1, <3>1, <3>2, AppendElements
    <3>5. ~late => Ascending(queue')
      BY <2>1, <3>1, <3>2, <3>3, AppendElements DEF Ordered
    <3>6. starts > 0 => hand[starts] \in 0 .. sent
      BY <2>1 DEF Workers
    <3>7. Ordered'
      BY <2>1, <3>1, <3>3, <3>4, <3>5, <3>6 DEF Ordered, Held
    <3>8. Complete'
      BY <2>1, <3>1, <3>4 DEF Complete, Held, NoneDied
    <3> QED
      BY <3>7, <3>8
  <2>3. CASE PushPill
    <3>1. queue' = Append(queue, Pill) /\ UNCHANGED <<sent, published, wpc, hand, starts, late>>
      BY <2>3 DEF PushPill, workerVars
    <3>2. \A m \in 1 .. sent : Has(queue', m) <=> Has(queue, m)
      BY <2>1, <3>1, AppendElements DEF Pill
    <3>3. ~late => Ascending(queue')
      BY <2>1, <3>1, AppendElements DEF Ordered, Pill
    <3>4. Ordered'
      BY <3>1, <3>2, <3>3 DEF Ordered, Held
    <3>5. Complete'
      BY <3>1, <3>2 DEF Complete, Held, NoneDied
    <3> QED
      BY <3>4, <3>5
  <2>4. CASE Call \/ Wait \/ Join
    <3>1. UNCHANGED <<queue, published, sent, wpc, hand, starts>> /\ (late' = late \/ late')
      BY <2>4 DEF Call, Wait, Join, workerVars
    <3> QED
      BY <3>1, OrderKept DEF Held, NoneDied
  <2>5. CASE Launch
    <3>1. /\ starts' = starts + 1 /\ wpc' = [wpc EXCEPT ![starts + 1] = "open"]
          /\ UNCHANGED <<queue, published, sent, hand, late>>
      BY <2>5 DEF Launch
    <3>2. starts + 1 \in Workers
      BY <2>1, <2>5 DEF Launch, OutInv, OwnerKnows, Workers
    <3>3. ~Held
      <4>1. opc = "launch"
        BY <2>5 DEF Launch
      <4>2. starts > 0 => starts \in Workers
        BY <2>1 DEF Workers
      <4> QED
        BY <2>l, <4>1, <4>2 DEF LastWorkerOnly, Held, Alive, Finished
    <3>4. ~Held' /\ (NoneDied' => NoneDied)
      <4>1. wpc'[starts'] = "open"
        BY <2>1, <3>1, <3>2
      <4>2. wpc[starts + 1] = "unborn"
        BY <2>1, <3>2 DEF OutInv, OneByOne
      <4> QED
        BY <2>1, <3>1, <3>2, <4>1, <4>2 DEF Held, NoneDied
    <3> QED
      BY <3>1, <3>3, <3>4, OrderKept
  <2>6. ASSUME NEW w \in Workers, Pop(w)
        PROVE  Ordered' /\ Complete'
    <3>1. /\ queue # <<>> /\ queue' = Tail(queue) /\ wpc[w] = "pop"
          /\ hand' = [hand EXCEPT ![w] = Head(queue)]
          /\ wpc' = [wpc EXCEPT ![w] = "send"]
          /\ UNCHANGED <<sent, published, starts, late>>
      BY <2>6 DEF Pop, Goto, ownerVars
    <3>2. w = starts /\ starts > 0
      BY <2>w, <3>1 DEF Alive, Finished
    <3>3. hand'[starts] = Head(queue) /\ Held' /\ ~Held
      BY <2>1, <3>1, <3>2 DEF Held
    <3>4. \A m : Has(queue, m) <=> Has(queue', m) \/ m = Head(queue)
      BY <2>1, <3>1, TailElements
    <3>5. ~late =>
            /\ Ascending(queue')
            /\ Head(queue) # Pill => \A m \in 1 .. sent : Has(queue', m) => Head(queue) < m
      BY <2>1, <3>1, TailElements DEF Ordered, Pill
    <3>6. Head(queue) \in 0 .. sent
      BY <3>4, <2>1, ElementType
    <3>7. Ordered'
      BY <3>1, <3>3, <3>4, <3>5, <3>6 DEF Ordered, Pill
    <3>8. NoneDied' => NoneDied
      BY <2>1, <3>1 DEF NoneDied
    <3>9. Complete'
      BY <3>1, <3>3, <3>4, <3>8 DEF Complete
    <3> QED
      BY <3>7, <3>9
  <2>7. ASSUME NEW w \in Workers, Publish(w)
        PROVE  Ordered' /\ Complete'
    <3>1. /\ published' = Append(published, hand[w]) /\ wpc[w] = "send"
          /\ wpc' = [wpc EXCEPT ![w] = "check"]
          /\ UNCHANGED <<queue, sent, starts, late>>
      BY <2>7 DEF Publish, Goto, ownerVars
    <3>2. w = starts /\ starts > 0
      BY <2>w, <3>1 DEF Alive, Finished
    <3>3. Held /\ ~Held'
      BY <2>1, <3>1, <3>2 DEF Held
    <3>4. hand[w] \in 0 .. sent
      BY <2>1
    <3>5. \A m : Has(published', m) <=> Has(published, m) \/ m = hand[w]
      BY <2>1, <3>1, <3>4, AppendElements
    <3>6. ~late => Ascending(published')
      BY <2>1, <3>1, <3>2, <3>3, <3>4, AppendElements DEF Ordered, Pill
    <3>7. Ordered'
      BY <3>1, <3>2, <3>3, <3>4, <3>5, <3>6 DEF Ordered, Pill
    <3>8. NoneDied' => NoneDied
      BY <2>1, <3>1 DEF NoneDied
    <3>9. Complete'
      BY <3>1, <3>2, <3>3, <3>5, <3>8 DEF Complete
    <3> QED
      BY <3>7, <3>9
  <2>8. ASSUME NEW w \in Workers, Open(w) \/ Check(w) \/ Close(w) \/ ZmqFails(w)
        PROVE  Ordered' /\ Complete'
    <3>1. UNCHANGED <<queue, published, sent, starts, late>>
      BY <2>8 DEF Open, Check, Close, ZmqFails, Goto, ownerVars
    <3>2. \/ wpc' = [wpc EXCEPT ![w] = "dead"]
          \/ /\ wpc[w] \in {"open", "check", "close"} /\ UNCHANGED hand
             /\ \E to \in {"check", "pop", "close", "ended"} :
                  wpc' = [wpc EXCEPT ![w] = to]
      BY <2>8 DEF Open, Check, Close, ZmqFails, Goto
    <3>3. CASE wpc' = [wpc EXCEPT ![w] = "dead"]
      <4>1. ~NoneDied'
        BY <2>1, <3>3 DEF NoneDied
      <4>2. wpc[w] \in {"open", "send"}
        BY <2>1, <2>8, <3>3 DEF Open, Check, Close, ZmqFails, Goto
      <4>3. w = starts
        BY <2>w, <4>2 DEF Alive, Finished
      <4>4. ~Held'
        BY <2>1, <3>1, <3>3, <4>3 DEF Held
      <4> QED
        BY <3>1, <4>1, <4>4, OrderKept DEF Complete, Ordered
    <3>4. CASE ~(wpc' = [wpc EXCEPT ![w] = "dead"])
      <4>1. (Held' <=> Held) /\ (NoneDied' => NoneDied)
        <5>1. starts > 0 => starts \in Workers
          BY <2>1 DEF Workers
        <5>2. PICK to \in {"check", "pop", "close", "ended"} : wpc' = [wpc EXCEPT ![w] = to]
          BY <3>2, <3>4
        <5>3. wpc[w] \in {"open", "check", "close"}
          BY <3>2, <3>4
        <5>4. Held' <=> Held
          BY <2>1, <3>1, <5>1, <5>2, <5>3 DEF Held
        <5>5. NoneDied' => NoneDied
          BY <2>1, <5>2, <5>3 DEF NoneDied
        <5> QED
          BY <5>4, <5>5
      <4> QED
        BY <3>1, <3>2, <3>4, <4>1, OrderKept
    <3> QED
      BY <3>3, <3>4
  <2>9. CASE UNCHANGED vars
    BY <2>9, OrderKept DEF vars, workerVars, ownerVars, Held, NoneDied
  <2> QED
    BY <2>2, <2>3, <2>4, <2>5, <2>6, <2>7, <2>8, <2>9 DEF Next, Step, OwnerStep, WorkerStep
<1> QED
  BY <1>1, <1>2, TypeInvariant, LastWorkerOnlyInvariant, PTL DEF Spec, OutInv

(***************************************************************************)
(* The stream is a fifo across Stop() and Start(), as long as no Stop()    *)
(* gives up, and loses only what a worker held that an exception ended.    *)
(***************************************************************************)
THEOREM FifoOrderCorrect == Spec => []FifoOrder
<1>1. TypeOK /\ Ordered /\ Complete => FifoOrder
  <2> SUFFICES ASSUME TypeOK, Ordered, Complete, ~late
               PROVE  FifoOrder
    BY DEF FifoOrder
  <2> DEFINE a == Len(published)
             b == Len(InHand)
             c == Len(queue)
  <2>1. /\ published \in Seq(0 .. sent) /\ queue \in Seq(0 .. sent)
        /\ starts \in 0 .. MaxStarts /\ sent \in Nat /\ MaxStarts \in Nat
        /\ starts > 0 => hand[starts] \in 0 .. sent
    BY OutAssumption DEF TypeOK, Workers
  <2>2. /\ InHand \in Seq(0 .. sent)
        /\ Held => b = 1 /\ InHand[1] = hand[starts]
        /\ ~Held => b = 0
    <3>1. CASE Held
      BY <2>1, <3>1 DEF InHand, Held
    <3>2. CASE ~Held
      <4>1. InHand = <<>>
        BY <3>2 DEF InHand, Held
      <4> QED
        BY <3>2, <4>1
    <3> QED
      BY <3>1, <3>2
  <2>3. a \in Nat /\ b \in 0 .. 1 /\ c \in Nat
    BY <2>1, <2>2
  <2>4. /\ DOMAIN Pipeline = 1 .. a + b + c
        /\ \A i \in 1 .. a : Pipeline[i] = published[i]
        /\ \A i \in a + 1 .. a + b : Pipeline[i] = InHand[i - a]
        /\ \A i \in a + b + 1 .. a + b + c : Pipeline[i] = queue[i - (a + b)]
    BY <2>1, <2>2 DEF Pipeline
  <2>d. DOMAIN published = 1 .. a /\ DOMAIN queue = 1 .. c
    BY <2>1
  <2>e. /\ \A i \in 1 .. a : published[i] \in 0 .. sent
        /\ \A i \in 1 .. c : queue[i] \in 0 .. sent
    BY <2>1
  <2> HIDE DEF a, b, c
  <2>5. \A i \in 1 .. a : Has(published, Pipeline[i]) /\ Pipeline[i] \in 0 .. sent
    BY <2>d, <2>e, <2>4 DEF Has
  <2>6. \A i \in a + 1 .. a + b :
          i = a + 1 /\ Held /\ Pipeline[i] = hand[starts] /\ Pipeline[i] \in 0 .. sent
    BY <2>1, <2>2, <2>3, <2>4 DEF Held
  <2>7. \A i \in a + b + 1 .. a + b + c : Has(queue, Pipeline[i]) /\ Pipeline[i] \in 0 .. sent
    <3> TAKE i \in a + b + 1 .. a + b + c
    <3>1. i - (a + b) \in 1 .. c
      BY <2>3
    <3>2. PICK k \in 1 .. c : k = i - (a + b)
      BY <3>1
    <3>3. Pipeline[i] = queue[k]
      BY <2>4, <3>2
    <3>4. Has(queue, queue[k])
      BY <2>d DEF Has
    <3>5. queue[k] \in 0 .. sent
      BY <2>e
    <3> QED
      BY <3>3, <3>4, <3>5
  <2>8. ASSUME NEW i \in DOMAIN Pipeline, NEW j \in DOMAIN Pipeline,
               i < j, Pipeline[i] # Pill, Pipeline[j] # Pill
        PROVE  Pipeline[i] < Pipeline[j]
    <3>1. Pipeline[i] \in 1 .. sent /\ Pipeline[j] \in 1 .. sent
      BY <2>3, <2>4, <2>5, <2>6, <2>7, <2>8 DEF Pill
    <3>2. CASE j \in 1 .. a
      <4>1. i \in DOMAIN published /\ j \in DOMAIN published
        BY <2>3, <2>4, <2>8, <2>d, <3>2
      <4>2. Pipeline[i] = published[i] /\ Pipeline[j] = published[j]
        BY <2>4, <2>d, <4>1
      <4> QED
        BY <2>8, <4>1, <4>2 DEF Ordered, Ascending, Pill
    <3>3. CASE i \in a + b + 1 .. a + b + c
      <4>1. /\ i - (a + b) \in DOMAIN queue /\ j - (a + b) \in DOMAIN queue
            /\ i - (a + b) < j - (a + b)
            /\ Pipeline[i] = queue[i - (a + b)] /\ Pipeline[j] = queue[j - (a + b)]
        <5>1. i \in a + b + 1 .. a + b + c /\ j \in a + b + 1 .. a + b + c
          BY <2>3, <2>4, <2>8, <3>3
        <5>2. i - (a + b) \in 1 .. c /\ j - (a + b) \in 1 .. c /\ i - (a + b) < j - (a + b)
          BY <2>3, <2>8, <5>1
        <5> QED
          BY <2>4, <2>d, <5>1, <5>2
      <4> QED
        BY <2>8, <4>1 DEF Ordered, Ascending, Pill
    <3>4. CASE i \in 1 .. a /\ j \in a + 1 .. a + b
      BY <2>5, <2>6, <2>8, <3>1, <3>4 DEF Ordered, Pill
    <3>5. CASE i \in 1 .. a /\ j \in a + b + 1 .. a + b + c
      BY <2>5, <2>7, <2>8, <3>1, <3>5 DEF Ordered
    <3>6. CASE i \in a + 1 .. a + b /\ j \in a + b + 1 .. a + b + c
      BY <2>6, <2>7, <2>8, <3>1, <3>6 DEF Ordered, Pill
    <3>7. i \in 1 .. a + b + c /\ j \in 1 .. a + b + c /\ i < j
      BY <2>4, <2>8
    <3>8. ~(i \in a + 1 .. a + b /\ j \in a + 1 .. a + b)
      BY <2>3, <3>7
    <3>9. \/ j \in 1 .. a \/ i \in a + b + 1 .. a + b + c
          \/ i \in 1 .. a /\ j \in a + 1 .. a + b
          \/ i \in 1 .. a /\ j \in a + b + 1 .. a + b + c
          \/ i \in a + 1 .. a + b /\ j \in a + b + 1 .. a + b + c
      BY <2>3, <3>7, <3>8
    <3> QED
      BY <3>2, <3>3, <3>4, <3>5, <3>6, <3>9
  <2>9. ASSUME NoneDied, NEW m \in 1 .. sent
        PROVE  \E i \in DOMAIN Pipeline : Pipeline[i] = m
    <3>1. ASSUME Has(published, m)
          PROVE  \E i \in DOMAIN Pipeline : Pipeline[i] = m
      <4>1. PICK i \in 1 .. a : published[i] = m
        BY <2>d, <3>1 DEF Has
      <4>2. i \in DOMAIN Pipeline /\ Pipeline[i] = m
        BY <2>3, <2>4, <4>1
      <4> QED
        BY <4>2
    <3>2. ASSUME Held, hand[starts] = m
          PROVE  \E i \in DOMAIN Pipeline : Pipeline[i] = m
      <4>1. a + 1 \in DOMAIN Pipeline /\ Pipeline[a + 1] = m
        <5>1. b = 1 /\ InHand[1] = m
          BY <2>2, <3>2
        <5>2. a + 1 \in a + 1 .. a + b /\ a + 1 \in 1 .. a + b + c /\ (a + 1) - a = 1
          BY <2>3, <5>1
        <5> QED
          BY <2>4, <5>1, <5>2
      <4> QED
        BY <4>1
    <3>3. ASSUME Has(queue, m)
          PROVE  \E i \in DOMAIN Pipeline : Pipeline[i] = m
      <4>1. PICK j \in 1 .. c : queue[j] = m
        BY <2>d, <3>3 DEF Has
      <4>2. /\ a + b + j \in a + b + 1 .. a + b + c /\ a + b + j \in DOMAIN Pipeline
            /\ (a + b + j) - (a + b) = j
        BY <2>3, <2>4
      <4>3. Pipeline[a + b + j] = m
        BY <2>4, <4>1, <4>2
      <4> QED
        BY <4>2, <4>3
    <3> QED
      BY <2>9, <3>1, <3>2, <3>3 DEF Complete
  <2> QED
    BY <2>8, <2>9 DEF FifoOrder
<1> QED
  BY <1>1, TypeInvariant, OrderedInvariant, PTL
-----------------------------------------------------------------------------
(* What the liveness of Stop() and of publishing rests on. *)

(***************************************************************************)
(* stop_ is set from the beginning of a Stop() to the next launch, and as  *)
(* long as it is not the worker does not leave its loop; a stream that has *)
(* been stopped does not come back to STARTED by itself.                   *)
(***************************************************************************)
Lifecycle ==
  ~late =>
    /\ status = "STARTED" \/ opc \in {"pill", "wait"} => starts > 0
    /\ opc \in {"pill", "wait"} => stop
    /\ stop => status = "STOPPED" \/ opc \in {"pill", "wait"}
    /\ ~stop /\ starts > 0 => wpc[starts] \notin {"close", "ended"}
    /\ opc = "wait" /\ wpc[starts] = "pop" => queue # <<>>
    /\ opc = "join" /\ task = "destroy" => \A w \in Workers : ~Alive(w)

\* Stop() waits for a worker that it has told to stop and that is not blocked;
\* the other waits of the owner are over at once.
OwnerGoesOn ==
  ~late =>
    /\ opc = "wait" => stop /\ starts > 0 /\ (wpc[starts] = "pop" => queue # <<>>)
    /\ opc = "join" =>
         LET w == IF task = "destroy" THEN starts ELSE starts - 1 IN w > 0 => Finished(w)

\* The worker is in its loop, or on its way there, and nothing tells it to stop.
WorkerIsThere ==
  ~late /\ status = "STARTED" /\ opc = "idle" /\ NoneDied =>
    ~stop /\ starts > 0 /\ wpc[starts] \in {"open", "check", "pop", "send"}

LEMMA LifecycleInvariant == Spec => []Lifecycle
<1>1. Init => Lifecycle
  BY DEF Init, Lifecycle
<1>2. OutInv /\ LastWorkerOnly /\ Lifecycle /\ [Next]_vars => Lifecycle'
  <2> SUFFICES ASSUME OutInv, LastWorkerOnly, Lifecycle, [Next]_vars, ~late'
               PROVE  Lifecycle'
    BY DEF Lifecycle
  <2>1. /\ queue \in Seq(0 .. sent) /\ starts \in 0 .. MaxStarts /\ MaxStarts \in Nat
        /\ DOMAIN wpc = Workers /\ Workers = 1 .. MaxStarts /\ stop \in BOOLEAN
        /\ status \in {"STARTED", "STOPPED"}
    BY OutAssumption DEF OutInv, TypeOK, Workers
  <2>2. ~late
    BY DEF Next, Step, OwnerStep, WorkerStep, Send, Call, PushPill, Wait, Launch, Join, Open,
           Check, Pop, Publish, Close, ZmqFails, Goto, ownerVars, vars
  <2>3. \A w \in Workers : Alive(w) => w = starts /\ starts > 0
    BY <2>1, <2>2 DEF LastWorkerOnly
  <2>4. CASE Send
    <3>1. queue' # <<>> /\ UNCHANGED <<wpc, opc, task, stop, status, starts>>
      BY <2>1, <2>4 DEF Send, workerVars, ownerVars
    <3> QED
      BY <2>2, <3>1 DEF Lifecycle, Alive, Finished
  <2>5. CASE Call
    <3>1. /\ opc = "idle" /\ UNCHANGED <<queue, wpc, status, starts>>
          /\ \/ /\ status = "STOPPED" /\ opc' \notin {"pill", "wait"} /\ stop' = stop
             \/ /\ status = "STARTED" /\ opc' = "pill" /\ stop' = TRUE
      BY <2>1, <2>5 DEF Call, AfterStop, workerVars
    <3> QED
      BY <2>2, <3>1 DEF Lifecycle, LastWorkerOnly, Alive, Finished
  <2>6. CASE PushPill
    <3>1. /\ opc = "pill" /\ opc' = "wait" /\ queue' = Append(queue, Pill)
          /\ UNCHANGED <<wpc, task, stop, status, starts>>
      BY <2>6 DEF PushPill, workerVars
    <3>2. queue' # <<>>
      BY <2>1, <3>1
    <3> QED
      BY <2>2, <3>1, <3>2 DEF Lifecycle
  <2>7. CASE Wait
    <3>1. /\ opc = "wait" /\ opc' \notin {"pill", "wait"} /\ Finished(starts)
          /\ status' = "STOPPED" /\ UNCHANGED <<queue, wpc, task, stop, starts>>
      BY <2>2, <2>7, OutAssumption DEF Wait, AfterStop, workerVars, OutInv, OwnerKnows, TypeOK
    <3>2. \A w \in Workers : ~Alive(w)
      BY <2>3, <3>1 DEF Alive
    <3> QED
      BY <2>2, <3>1, <3>2 DEF Lifecycle, Alive, Finished
  <2>8. CASE Launch
    <3>1. /\ opc' = "join" /\ task' = task /\ task = "start" /\ stop' = FALSE
          /\ starts' = starts + 1
          /\ wpc' = [wpc EXCEPT ![starts + 1] = "open"] /\ starts + 1 \in Workers
      BY <2>1, <2>8 DEF Launch, OutInv, OwnerKnows
    <3>2. wpc'[starts'] = "open" /\ starts' > 0
      BY <2>1, <3>1
    <3> QED
      BY <3>1, <3>2 DEF Lifecycle
  <2>9. CASE Join
    <3>1. /\ opc' \in {"gone", "idle"} /\ opc = "join"
          /\ UNCHANGED <<queue, wpc, task, stop, status, starts>>
      BY <2>9 DEF Join, workerVars
    <3> QED
      BY <2>2, <3>1 DEF Lifecycle
  <2>10. ASSUME NEW w \in Workers, WorkerStep(w) \/ ZmqFails(w)
         PROVE  Lifecycle'
    <3>1. /\ Alive(w) /\ w = starts /\ starts > 0
          /\ UNCHANGED <<opc, task, stop, starts>>
      BY <2>3, <2>10
      DEF WorkerStep, Open, Check, Pop, Publish, Close, ZmqFails, Goto, ownerVars, Alive, Finished
    <3>2. stop /\ status = "STOPPED" => opc \in {"pill", "wait"}
      BY <2>2, <3>1 DEF LastWorkerOnly
    <3>3. ~(opc = "join" /\ task = "destroy")
      BY <2>2, <3>1 DEF Lifecycle
    <3>4. CASE Open(w) \/ Publish(w) \/ Pop(w) \/ ZmqFails(w)
      <4>1. \E to \in {"check", "send", "dead"} : wpc' = [wpc EXCEPT ![w] = to]
        BY <3>4 DEF Open, Publish, Pop, ZmqFails, Goto
      <4> QED
        BY <2>1, <2>2, <3>1, <3>2, <3>3, <4>1 DEF Lifecycle
    <3>5. CASE Check(w)
      <4>1. /\ stop => wpc' = [wpc EXCEPT ![w] = "close"]
            /\ ~stop => wpc' = [wpc EXCEPT ![w] = "pop"]
            /\ UNCHANGED <<queue, status>>
        BY <3>5 DEF Check, Goto
      <4> QED
        BY <2>1, <2>2, <3>1, <3>3, <4>1 DEF Lifecycle
    <3>6. CASE Close(w)
      <4>1. /\ wpc[w] = "close" /\ wpc' = [wpc EXCEPT ![w] = "ended"]
            /\ status' = "STOPPED" /\ queue' = queue
        BY <3>6 DEF Close, Goto
      <4> QED
        BY <2>1, <2>2, <3>1, <3>3, <4>1 DEF Lifecycle
    <3> QED
      BY <2>10, <3>4, <3>5, <3>6 DEF WorkerStep
  <2>11. CASE UNCHANGED vars
    BY <2>2, <2>11 DEF vars, workerVars, ownerVars, Lifecycle, Alive, Finished
  <2> QED
    BY <2>4, <2>5, <2>6, <2>7, <2>8, <2>9, <2>10, <2>11 DEF Next, Step, OwnerStep
<1> QED
  BY <1>1, <1>2, TypeInvariant, LastWorkerOnlyInvariant, PTL DEF Spec, OutInv

(***************************************************************************)
(* As long as no Stop() gives up none hangs: while it waits for the worker *)
(* stop_ is set, and the worker has something to pop if it is blocked; the *)
(* waits of a new start and of the destructor are over at once.            *)
(***************************************************************************)
THEOREM OwnerGoesOnCorrect == Spec => []OwnerGoesOn
<1>1. OutInv /\ LastWorkerOnly /\ Lifecycle => OwnerGoesOn
  <2> SUFFICES ASSUME OutInv, LastWorkerOnly, Lifecycle, ~late
               PROVE  OwnerGoesOn
    BY DEF OwnerGoesOn
  <2>1. /\ starts \in 0 .. MaxStarts /\ MaxStarts \in Nat /\ Workers = 1 .. MaxStarts
        /\ \A w \in Workers : wpc[w] = "unborn" <=> w > starts
    BY OutAssumption DEF OutInv, TypeOK, OneByOne, Workers
  <2>2. ASSUME opc = "join", NEW w \in {starts, starts - 1}, w > 0,
               task = "destroy" \/ w = starts - 1
        PROVE  Finished(w)
    <3>1. w \in Workers /\ w <= starts
      BY <2>1, <2>2
    <3>2. ~Alive(w)
      BY <2>1, <2>2, <3>1 DEF Lifecycle, LastWorkerOnly
    <3> QED
      BY <2>1, <3>1, <3>2 DEF Alive
  <2> QED
    BY <2>2 DEF Lifecycle, OwnerGoesOn
<1> QED
  BY <1>1, TypeInvariant, LastWorkerOnlyInvariant, LifecycleInvariant, PTL DEF OutInv

(***************************************************************************)
(* As long as no Stop() gives up a stream that reads STARTED between calls *)
(* has a worker that takes what is sent, unless an exception ended one.    *)
(***************************************************************************)
THEOREM WorkerIsThereCorrect == Spec => []WorkerIsThere
<1>1. OutInv /\ Lifecycle => WorkerIsThere
  <2> SUFFICES ASSUME OutInv, Lifecycle, ~late, status = "STARTED", opc = "idle", NoneDied
               PROVE  ~stop /\ starts > 0 /\ wpc[starts] \in {"open", "check", "pop", "send"}
    BY DEF WorkerIsThere
  <2>1. ~stop /\ starts > 0 /\ wpc[starts] \notin {"close", "ended"}
    BY DEF Lifecycle
  <2>2. starts \in Workers
    BY <2>1, OutAssumption DEF OutInv, TypeOK, Workers
  <2>3. wpc[starts] \notin {"unborn", "dead"}
    BY <2>2, OutAssumption DEF OutInv, TypeOK, OneByOne, NoneDied
  <2> QED
    BY <2>1, <2>2, <2>3 DEF OutInv, TypeOK
<1> QED
  BY <1>1, TypeInvariant, LifecycleInvariant, PTL DEF OutInv
=============================================================================
