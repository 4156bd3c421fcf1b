------------------------------ MODULE RMIProofs ------------------------------
(***************************************************************************)
(* RMI for any number of services, proxies, calls, instances and starts.   *)
(***************************************************************************)
EXTENDS RMI, TLAPS

(***************************************************************************)
(* Where elements are after an operation on a socket's queue.              *)
(***************************************************************************)
Listed(p, q) == \E i \in DOMAIN q : q[i] = p

Different(q) == \A i, j \in DOMAIN q : q[i] = q[j] => i = j

LEMMA AppendListed ==
  ASSUME NEW S, NEW q \in Seq(S), NEW e \in S
  PROVE  /\ \A p : Listed(p, Append(q, e)) <=> Listed(p, q) \/ p = e
         /\ Different(q) /\ ~Listed(e, q) => Different(Append(q, e))
<1>1. /\ DOMAIN q = 1 .. Len(q) /\ Len(q) \in Nat
      /\ DOMAIN Append(q, e) = 1 .. Len(q) + 1
      /\ \A i \in 1 .. Len(q) : Append(q, e)[i] = q[i]
      /\ Append(q, e)[Len(q) + 1] = e
  OBVIOUS
<1>2. ASSUME NEW p
      PROVE  Listed(p, Append(q, e)) <=> Listed(p, q) \/ p = e
  <2>1. Listed(p, q) => Listed(p, Append(q, e))
    BY <1>1 DEF Listed
  <2>2. p = e => Listed(p, Append(q, e))
    <3>1. Len(q) + 1 \in DOMAIN Append(q, e)
      BY <1>1
    <3> QED
      BY <1>1, <3>1 DEF Listed
  <2>3. ASSUME NEW i \in DOMAIN Append(q, e), Append(q, e)[i] = p
        PROVE  Listed(p, q) \/ p = e
    <3>1. i \in 1 .. Len(q) \/ i = Len(q) + 1
      BY <1>1
    <3> QED
      BY <1>1, <2>3, <3>1 DEF Listed
  <2> QED
    BY <2>1, <2>2, <2>3 DEF Listed
<1>3. Different(q) /\ ~Listed(e, q) => Different(Append(q, e))
  BY <1>1 DEF Different, Listed
<1> QED
  BY <1>2, <1>3

LEMMA TailListed ==
  ASSUME NEW S, NEW q \in Seq(S), q # <<>>
  PROVE  /\ \A p : Listed(p, q) <=> Listed(p, Tail(q)) \/ p = Head(q)
         /\ Different(q) => Different(Tail(q)) /\ ~Listed(Head(q), Tail(q))
<1>1. /\ DOMAIN q = 1 .. Len(q) /\ Len(q) \in Nat \ {0}
      /\ DOMAIN Tail(q) = 1 .. Len(q) - 1
      /\ \A i \in 1 .. Len(q) - 1 : Tail(q)[i] = q[i + 1]
      /\ Head(q) = q[1]
  OBVIOUS
<1>2. ASSUME NEW p
      PROVE  Listed(p, q) <=> Listed(p, Tail(q)) \/ p = Head(q)
  <2>1. Listed(p, Tail(q)) \/ p = Head(q) => Listed(p, q)
    BY <1>1 DEF Listed
  <2>2. ASSUME NEW i \in DOMAIN q, q[i] = p
        PROVE  Listed(p, Tail(q)) \/ p = Head(q)
    <3>1. i = 1 \/ (i - 1 \in DOMAIN Tail(q) /\ Tail(q)[i - 1] = q[i])
      BY <1>1
    <3> QED
      BY <1>1, <2>2, <3>1 DEF Listed
  <2> QED
    BY <2>1, <2>2 DEF Listed
<1>3. Different(q) => Different(Tail(q)) /\ ~Listed(Head(q), Tail(q))
  BY <1>1 DEF Different, Listed
<1> QED
  BY <1>2, <1>3

-----------------------------------------------------------------------------

Serving == mpc \in {"find", "launch", "assign", "answer"}

Busy(s, k) == spc[s][k] \in {"invoke", "reply"}

Call(p) == <<p, calls[p]>>

(***************************************************************************)
(* serviceFutures_ holds the future of every thread that is alive, but for *)
(* the moment between a launch and the assignment to the entry; what       *)
(* StopServices() has dealt with has ended.                                *)
(***************************************************************************)
Owned ==
  /\ mpc \in {"launch", "assign", "answer"} => Wanted[cur] \in Services
  /\ \A s \in Services, k \in Numbers : spc[s][k] = "unborn" <=> k > launched[s]
  /\ mpc = "assign" => launched[Wanted[cur]] > 0
  /\ \A s \in Services, k \in Numbers :
       Alive(s, k) => \/ k = future[s]
                      \/ mpc = "assign" /\ s = Wanted[cur] /\ k = launched[s]
  /\ mpc = "join" => \A s \in joined, k \in Numbers : ~Alive(s, k)
  /\ mpc = "stopped" => \A s \in Services, k \in Numbers : ~Alive(s, k)

(***************************************************************************)
(* A proxy that looks a service up is in the manager's socket, or served,  *)
(* but not both.                                                           *)
(***************************************************************************)
OneLookup ==
  /\ Serving => cur \in Proxies
  /\ Different(lookups)
  /\ \A p \in Proxies : Listed(p, lookups) => ppc[p] = "lookup"
  /\ Serving => ppc[cur] = "lookup" /\ ~Listed(cur, lookups)

(***************************************************************************)
(* The request of a waiting proxy is in one place: its service's socket or *)
(* one thread's hands.  Only in the latter, before the reply, is it        *)
(* executed.                                                               *)
(***************************************************************************)
OneRequest ==
  /\ \A p \in Proxies : ppc[p] = "waiting" => calls[p] > 0
  /\ \A c \in executed : c[2] <= calls[c[1]]
  /\ \A s \in Services :
       /\ Different(requests[s])
       /\ \A p \in Proxies : Listed(p, requests[s]) =>
            Wanted[p] = s /\ ppc[p] = "waiting" /\ Call(p) \notin executed
  /\ \A s \in Services, k \in Numbers : Busy(s, k) =>
       /\ work[s][k] \in Proxies
       /\ Wanted[work[s][k]] = s /\ ppc[work[s][k]] = "waiting"
       /\ ~Listed(work[s][k], requests[s])
       /\ Call(work[s][k]) \in executed <=> spc[s][k] = "reply"
  /\ \A s \in Services, j, k \in Numbers :
       Busy(s, j) /\ Busy(s, k) /\ work[s][j] = work[s][k] => j = k

RMIInv == TypeOK /\ Owned /\ OneLookup /\ OneRequest /\ repeated = {}

-----------------------------------------------------------------------------

(***************************************************************************)
(* A step of a thread that does not touch what OneRequest is about.        *)
(***************************************************************************)
LEMMA SameRequests ==
  ASSUME OneRequest, UNCHANGED <<requests, work, calls, executed>>,
         \A p \in Proxies : ppc'[p] = "waiting" <=> ppc[p] = "waiting",
         \A s \in Services, k \in Numbers :
           Busy(s, k)' => Busy(s, k) /\ spc'[s][k] = spc[s][k]
  PROVE  OneRequest'
BY DEF OneRequest, Busy, Call

LEMMA OwnedStep ==
  ASSUME RMIInv, [Next]_vars
  PROVE  Owned'
<1> USE DEF RMIInv, execVars
<1>0. /\ spc \in [Services -> [Numbers -> InstanceSteps]]
      /\ launched \in [Services -> 0 .. MaxInstances] /\ Numbers = 1 .. MaxInstances
      /\ future \in [Services -> -1 .. MaxInstances] /\ joined \subseteq Services
      /\ MaxInstances \in Nat
  BY RMIAssumption DEF TypeOK, Numbers
<1>1. CASE UNCHANGED <<managerVars, spc>>
  BY <1>1 DEF managerVars, Owned, Alive, Finished
<1>2. ASSUME NEW p \in Proxies, Lookup(p) \/ Request(p)
      PROVE  Owned'
  BY <1>1, <1>2 DEF Lookup, Request, ProxyGoto, managerVars
<1>3. ASSUME NEW s \in Services, NEW k \in Numbers, InstanceStep(s, k)
      PROVE  Owned'
  <2>1. /\ spc[s][k] \notin {"unborn", "ended", "threw"}
        /\ \E to \in {"check", "poll", "invoke", "reply", "ended", "threw"} :
             spc' = [spc EXCEPT ![s][k] = to]
        /\ UNCHANGED managerVars
    BY <1>3 DEF InstanceStep, Bind, Check, ServicePoll, Invoke, Reply, Goto
  <2>2. \A t \in Services, j \in Numbers :
          /\ spc'[t][j] = "unborn" <=> spc[t][j] = "unborn"
          /\ Alive(t, j)' => Alive(t, j)
    BY <1>0, <2>1 DEF Alive, Finished
  <2> QED
    BY <2>1, <2>2 DEF managerVars, Owned, Alive, Finished
<1>4. CASE Stop \/ Start
  BY <1>4 DEF Stop, Start, Manager, Owned, Alive, Finished
<1>5. CASE Poll \/ Find \/ Answer
  BY <1>5 DEF Poll, Find, Answer, Manager, Owned, Alive, Finished
<1>6. CASE Launch
  <2> DEFINE s == Wanted[cur]
  <2>1. /\ mpc = "launch" /\ mpc' = "assign" /\ s \in Services /\ launched[s] < MaxInstances
        /\ launched' = [launched EXCEPT ![s] = @ + 1]
        /\ spc' = [spc EXCEPT ![s][launched[s] + 1] = "bind"]
        /\ UNCHANGED <<cur, future>>
    BY <1>6 DEF Launch, Manager, Owned
  <2>2. launched[s] + 1 \in Numbers
    BY <1>0, <2>1
  <2>3. \A t \in Services, j \in Numbers :
          t # s \/ j # launched[s] + 1 => spc'[t][j] = spc[t][j] /\ (Alive(t, j)' <=> Alive(t, j))
    BY <1>0, <2>1, <2>2 DEF Alive, Finished
  <2>4. spc'[s][launched[s] + 1] = "bind" /\ launched'[s] = launched[s] + 1
    BY <1>0, <2>1, <2>2
  <2> QED
    BY <1>0, <2>1, <2>2, <2>3, <2>4 DEF Owned
<1>7. CASE Assign
  <2> DEFINE s == Wanted[cur]
  <2>1. /\ mpc = "assign" /\ mpc' = "answer" /\ s \in Services
        /\ future[s] > 0 => Finished(s, future[s])
        /\ future' = [future EXCEPT ![s] = launched[s]]
        /\ UNCHANGED <<cur, launched, spc>>
    BY <1>7 DEF Assign, Manager, Owned
  <2> QED
    BY <1>0, <2>1 DEF Owned, Alive, Finished
<1>8. CASE StopServices
  BY <1>8 DEF StopServices, Manager, Owned, Alive, Finished
<1>9. CASE Join
  <2>1. mpc = "join" /\ UNCHANGED <<cur, launched, spc>>
    BY <1>9 DEF Join, Manager
  <2>2. CASE joined = Services /\ mpc' = "stopped" /\ UNCHANGED future
    BY <2>1, <2>2 DEF Owned, Alive, Finished
  <2>3. ASSUME NEW s \in Services, future[s] > 0 => Finished(s, future[s]),
               mpc' \in {"join", "threw"}, joined' = joined \cup {s},
               future' = [future EXCEPT ![s] = IF @ > 0 THEN 0 ELSE @]
        PROVE  Owned'
    <3>1. \A k \in Numbers : ~Alive(s, k)
      BY <1>0, <2>1, <2>3 DEF Owned, Alive
    <3>2. \A t \in Services, k \in Numbers : Alive(t, k)' <=> Alive(t, k)
      BY <2>1 DEF Alive, Finished
    <3> QED
      BY <1>0, <2>1, <2>3, <3>1, <3>2 DEF Owned
  <2> QED
    BY <1>9, <2>2, <2>3 DEF Join, Manager
<1> QED
  BY <1>1, <1>2, <1>3, <1>4, <1>5, <1>6, <1>7, <1>8, <1>9
  DEF Next, ManagerStep, vars

LEMMA OneLookupStep ==
  ASSUME RMIInv, [Next]_vars
  PROVE  OneLookup'
<1> USE DEF RMIInv, execVars
<1>0. lookups \in Seq(Proxies) /\ DOMAIN ppc = Proxies
  BY DEF TypeOK
<1>1. ASSUME UNCHANGED <<mpc, cur, lookups>>,
             \A p \in Proxies : ppc[p] = "lookup" => ppc'[p] = "lookup"
      PROVE  OneLookup'
  BY <1>1 DEF OneLookup, Serving
<1>2. ASSUME NEW p \in Proxies, Lookup(p)
      PROVE  OneLookup'
  <2>1. /\ ppc[p] = "new" /\ ppc' = [ppc EXCEPT ![p] = "lookup"]
        /\ lookups' = Append(lookups, p) /\ UNCHANGED <<mpc, cur>>
    BY <1>2 DEF Lookup, ProxyGoto, managerVars
  <2>2. ~Listed(p, lookups) /\ (Serving => cur # p)
    BY <2>1 DEF OneLookup
  <2>3. /\ \A q : Listed(q, lookups') <=> Listed(q, lookups) \/ q = p
        /\ Different(lookups')
    BY <1>0, <2>1, <2>2, AppendListed DEF OneLookup
  <2> QED
    BY <1>0, <2>1, <2>2, <2>3 DEF OneLookup, Serving
<1>3. ASSUME NEW p \in Proxies, Request(p)
      PROVE  OneLookup'
  BY <1>0, <1>1, <1>3 DEF Request, ProxyGoto, managerVars
<1>4. ASSUME NEW s \in Services, NEW k \in Numbers, InstanceStep(s, k)
      PROVE  OneLookup'
  <2>1. UNCHANGED <<mpc, cur, lookups>>
    BY <1>4 DEF InstanceStep, Bind, Check, ServicePoll, Invoke, Reply, Goto, managerVars
  <2>2. CASE Reply(s, k)
    <3>1. /\ work[s][k] \in Proxies /\ ppc[work[s][k]] = "waiting"
          /\ ppc' = [ppc EXCEPT ![work[s][k]] = "ready"]
      BY <2>2 DEF Reply, Goto, OneRequest, Busy
    <3> QED
      BY <1>0, <1>1, <2>1, <3>1
  <2>3. CASE ~Reply(s, k)
    <3>1. UNCHANGED ppc
      BY <1>4, <2>3 DEF InstanceStep, Bind, Check, ServicePoll, Invoke
    <3> QED
      BY <1>1, <2>1, <3>1
  <2> QED
    BY <2>2, <2>3
<1>5. CASE Poll
  <2>1. CASE lookups # <<>> /\ mpc' = "find" /\ UNCHANGED ppc
             /\ cur' = Head(lookups) /\ lookups' = Tail(lookups)
    <3>1. /\ \A p : Listed(p, lookups) <=> Listed(p, lookups') \/ p = cur'
          /\ Different(lookups') /\ ~Listed(cur', lookups')
      BY <1>0, <2>1, TailListed DEF OneLookup
    <3>2. cur' \in Proxies
      BY <1>0, <2>1
    <3> QED
      BY <2>1, <3>1, <3>2 DEF OneLookup
  <2>2. CASE mpc' = "stop" /\ UNCHANGED <<lookups, ppc>>
    BY <2>2 DEF OneLookup, Serving
  <2> QED
    BY <1>5, <2>1, <2>2 DEF Poll, Manager
<1>6. CASE Find
  <2>1. mpc = "find" /\ UNCHANGED <<cur, lookups>>
    BY <1>6 DEF Find
  <2>2. CASE mpc' = "poll" /\ ppc' = [ppc EXCEPT ![cur] = "failed"]
    BY <1>0, <2>1, <2>2 DEF OneLookup, Serving
  <2>3. CASE mpc' \in {"launch", "answer"} /\ UNCHANGED ppc
    BY <2>1, <2>3 DEF OneLookup, Serving
  <2> QED
    BY <1>6, <2>2, <2>3 DEF Find, Manager
<1>7. CASE Answer
  BY <1>0, <1>7 DEF Answer, Manager, OneLookup, Serving
<1>8. CASE Launch \/ Assign \/ Join \/ Start \/ Stop
  BY <1>8 DEF Launch, Assign, Join, Start, Stop, Manager, OneLookup, Serving
<1>10. CASE StopServices
  <2>1. mpc' = "join" /\ UNCHANGED ppc /\ lookups' \in {lookups, <<>>}
    BY <1>10 DEF StopServices, Manager
  <2>2. Different(<<>>) /\ \A q : ~Listed(q, <<>>)
    BY DEF Different, Listed
  <2> QED
    BY <2>1, <2>2 DEF OneLookup, Serving
<1>9. CASE UNCHANGED vars
  BY <1>1, <1>9 DEF vars, managerVars, execVars
<1> QED
  BY <1>2, <1>3, <1>4, <1>5, <1>6, <1>7, <1>8, <1>9, <1>10 DEF Next, ManagerStep

LEMMA OneRequestStep ==
  ASSUME RMIInv, [Next]_vars
  PROVE  OneRequest'
<1> USE DEF RMIInv, execVars
<1>0. /\ DOMAIN ppc = Proxies /\ calls \in [Proxies -> Nat]
      /\ requests \in [Services -> Seq(Proxies)]
      /\ spc \in [Services -> [Numbers -> InstanceSteps]]
      /\ work \in [Services -> [Numbers -> Proxies \cup {Nobody}]]
      /\ executed \subseteq Proxies \X Nat
  BY RMIAssumption DEF TypeOK, Calls
<1>1. ASSUME NEW p \in Proxies, Request(p)
      PROVE  OneRequest'
  <2>1. /\ ppc[p] = "ready" /\ ppc' = [ppc EXCEPT ![p] = "waiting"]
        /\ calls' = [calls EXCEPT ![p] = @ + 1]
        /\ requests' = [requests EXCEPT ![Wanted[p]] = Append(@, p)]
        /\ UNCHANGED <<spc, work, executed>>
    BY <1>1 DEF Request, ProxyGoto
  <2>2. \A s \in Services : ~Listed(p, requests[s])
    BY <2>1 DEF OneRequest
  <2>3. \A s \in Services, k \in Numbers : Busy(s, k) => work[s][k] # p
    BY <2>1 DEF OneRequest
  <2>4. <<p, calls[p] + 1>> \notin executed
    BY <1>0 DEF OneRequest
  <2>5. ASSUME NEW s \in Services
        PROVE  /\ \A q : Listed(q, requests'[s]) <=>
                           Listed(q, requests[s]) \/ (q = p /\ s = Wanted[p])
               /\ Different(requests'[s])
    <3>1. CASE s = Wanted[p]
      <4>1. requests'[s] = Append(requests[s], p) /\ requests[s] \in Seq(Proxies)
        BY <1>0, <2>1, <3>1
      <4> QED
        BY <2>2, <3>1, <4>1, AppendListed DEF OneRequest
    <3>2. CASE s # Wanted[p]
      BY <1>0, <2>1, <3>2 DEF OneRequest
    <3> QED
      BY <3>1, <3>2
  <2>6. /\ calls'[p] = calls[p] + 1 /\ ppc'[p] = "waiting"
        /\ \A q \in Proxies \ {p} : calls'[q] = calls[q] /\ ppc'[q] = ppc[q]
    BY <1>0, <2>1
  <2>7. /\ \A q \in Proxies : ppc'[q] = "waiting" => calls'[q] > 0
        /\ \A c \in executed' : c[2] <= calls'[c[1]]
    <3>1. \A q \in Proxies : calls'[q] >= calls[q] /\ calls[q] \in Nat /\ calls'[q] \in Nat
      BY <1>0, <2>1
    <3>2. \A c \in executed : c[1] \in Proxies /\ c[2] \in Nat
      BY <1>0
    <3> QED
      BY <2>1, <2>6, <3>1, <3>2 DEF OneRequest
  <2>8. ASSUME NEW s \in Services, NEW q \in Proxies, Listed(q, requests'[s])
        PROVE  Wanted[q] = s /\ ppc'[q] = "waiting" /\ <<q, calls'[q]>> \notin executed
    <3>1. CASE q = p
      <4>1. s = Wanted[p]
        BY <2>2, <2>5, <2>8, <3>1
      <4> QED
        BY <2>4, <2>6, <3>1, <4>1
    <3>2. CASE q # p
      BY <2>5, <2>6, <2>8, <3>2 DEF OneRequest, Call
    <3> QED
      BY <3>1, <3>2
  <2>9. ASSUME NEW s \in Services, NEW k \in Numbers, Busy(s, k)
        PROVE  /\ work[s][k] \in Proxies
               /\ Wanted[work[s][k]] = s /\ ppc'[work[s][k]] = "waiting"
               /\ ~Listed(work[s][k], requests'[s])
               /\ <<work[s][k], calls'[work[s][k]]>> \in executed <=> spc[s][k] = "reply"
    <3>1. work[s][k] \in Proxies \ {p}
      BY <2>3, <2>9 DEF OneRequest
    <3>2. ~Listed(work[s][k], requests'[s])
      BY <2>5, <2>9, <3>1 DEF OneRequest
    <3> QED
      BY <2>6, <2>9, <3>1, <3>2 DEF OneRequest, Call
  <2>10. \A s \in Services, q \in Proxies : Listed(q, requests'[s]) =>
           Wanted[q] = s /\ ppc'[q] = "waiting" /\ <<q, calls'[q]>> \notin executed
    BY <2>8
  <2>11. \A s \in Services, k \in Numbers : spc'[s][k] \in {"invoke", "reply"} =>
           /\ work'[s][k] \in Proxies
           /\ Wanted[work'[s][k]] = s /\ ppc'[work'[s][k]] = "waiting"
           /\ ~Listed(work'[s][k], requests'[s])
           /\ <<work'[s][k], calls'[work'[s][k]]>> \in executed <=> spc'[s][k] = "reply"
    BY <2>1, <2>9 DEF Busy
  <2>12. \A s \in Services : Different(requests'[s])
    BY <2>5
  <2> QED
    BY <2>1, <2>7, <2>10, <2>11, <2>12 DEF OneRequest, Busy, Call
<1>2. ASSUME NEW s \in Services, NEW k \in Numbers, ServicePoll(s, k)
      PROVE  OneRequest'
  <2>1. /\ spc[s][k] = "poll" /\ UNCHANGED <<calls, ppc, executed>>
    BY <1>2 DEF ServicePoll, Goto
  <2>2. CASE spc' = [spc EXCEPT ![s][k] = "check"] /\ UNCHANGED <<requests, work>>
    <3>1. \A t \in Services, j \in Numbers :
            Busy(t, j)' => Busy(t, j) /\ spc'[t][j] = spc[t][j]
      BY <1>0, <2>1, <2>2 DEF Busy
    <3> QED
      BY <2>1, <2>2, <3>1, SameRequests
  <2>3. CASE /\ requests[s] # <<>> /\ spc' = [spc EXCEPT ![s][k] = "invoke"]
             /\ work' = [work EXCEPT ![s][k] = Head(requests[s])]
             /\ requests' = [requests EXCEPT ![s] = Tail(@)]
    <3> DEFINE p == Head(requests[s])
    <3>1. /\ p \in Proxies /\ requests[s] \in Seq(Proxies)
          /\ requests'[s] = Tail(requests[s])
          /\ \A t \in Services \ {s} : requests'[t] = requests[t]
      BY <1>0, <2>3
    <3>2. /\ \A q : Listed(q, requests[s]) <=> Listed(q, requests'[s]) \/ q = p
          /\ Different(requests'[s]) /\ ~Listed(p, requests'[s])
      BY <2>3, <3>1, TailListed DEF OneRequest
    <3>3. Wanted[p] = s /\ ppc[p] = "waiting" /\ Call(p) \notin executed
      BY <3>1, <3>2 DEF OneRequest
    <3>4. \A t \in Services, j \in Numbers :
            IF t = s /\ j = k THEN spc'[t][j] = "invoke" /\ work'[t][j] = p
            ELSE spc'[t][j] = spc[t][j] /\ work'[t][j] = work[t][j]
      BY <1>0, <2>3
    <3>5. \A t \in Services, j \in Numbers :
            Busy(t, j) /\ ~(t = s /\ j = k) => work[t][j] # p
      BY <3>1, <3>2, <3>3 DEF OneRequest
    <3>6. \A t \in Services : \A q : Listed(q, requests'[t]) => Listed(q, requests[t])
      BY <3>1, <3>2
    <3>7. \A t \in Services, j \in Numbers : spc'[t][j] \in {"invoke", "reply"} =>
            /\ work'[t][j] \in Proxies
            /\ Wanted[work'[t][j]] = t /\ ppc[work'[t][j]] = "waiting"
            /\ ~Listed(work'[t][j], requests'[t])
            /\ Call(work'[t][j]) \in executed <=> spc'[t][j] = "reply"
      BY <3>1, <3>2, <3>3, <3>4, <3>6 DEF OneRequest, Busy
    <3>8. \A t \in Services, i, j \in Numbers :
            /\ spc'[t][i] \in {"invoke", "reply"} /\ spc'[t][j] \in {"invoke", "reply"}
            /\ work'[t][i] = work'[t][j]
            => i = j
      BY <3>4, <3>5 DEF OneRequest, Busy
    <3>9. \A t \in Services :
            /\ Different(requests'[t])
            /\ \A q \in Proxies : Listed(q, requests'[t]) =>
                 Wanted[q] = t /\ ppc[q] = "waiting" /\ Call(q) \notin executed
      BY <3>1, <3>2, <3>6 DEF OneRequest
    <3> QED
      BY <2>1, <3>7, <3>8, <3>9 DEF OneRequest, Busy, Call
  <2> QED
    BY <1>2, <2>2, <2>3 DEF ServicePoll, Goto
<1>3. ASSUME NEW s \in Services, NEW k \in Numbers, Invoke(s, k)
      PROVE  OneRequest'
  <2> DEFINE p == work[s][k]
  <2>1. /\ spc[s][k] = "invoke" /\ spc' = [spc EXCEPT ![s][k] = "reply"]
        /\ executed' = executed \cup {Call(p)}
        /\ UNCHANGED <<calls, ppc, requests, work>>
    BY <1>3 DEF Invoke, Goto, Call
  <2>2. /\ p \in Proxies /\ Wanted[p] = s /\ ppc[p] = "waiting"
        /\ ~Listed(p, requests[s]) /\ Call(p) \notin executed
    BY <2>1 DEF OneRequest, Busy
  <2>3. \A t \in Services, j \in Numbers :
          spc'[t][j] = IF t = s /\ j = k THEN "reply" ELSE spc[t][j]
    BY <1>0, <2>1
  <2>4. \A t \in Services, j \in Numbers :
          Busy(t, j) /\ ~(t = s /\ j = k) => work[t][j] # p
    BY <2>1, <2>2 DEF OneRequest, Busy
  <2>5. \A q \in Proxies : q # p => (Call(q) \in executed' <=> Call(q) \in executed)
    BY <2>1 DEF Call
  <2>6. \A c \in executed' : c[2] <= calls[c[1]]
    BY <1>0, <2>1, <2>2 DEF OneRequest, Call
  <2>7. \A t \in Services, q \in Proxies : Listed(q, requests[t]) =>
          Wanted[q] = t /\ ppc[q] = "waiting" /\ Call(q) \notin executed'
    BY <2>2, <2>5 DEF OneRequest
  <2>8. \A t \in Services, j \in Numbers : spc'[t][j] \in {"invoke", "reply"} =>
          /\ work[t][j] \in Proxies
          /\ Wanted[work[t][j]] = t /\ ppc[work[t][j]] = "waiting"
          /\ ~Listed(work[t][j], requests[t])
          /\ Call(work[t][j]) \in executed' <=> spc'[t][j] = "reply"
    <3> SUFFICES ASSUME NEW t \in Services, NEW j \in Numbers,
                        spc'[t][j] \in {"invoke", "reply"}
                 PROVE  /\ work[t][j] \in Proxies
                        /\ Wanted[work[t][j]] = t /\ ppc[work[t][j]] = "waiting"
                        /\ ~Listed(work[t][j], requests[t])
                        /\ Call(work[t][j]) \in executed' <=> spc'[t][j] = "reply"
      OBVIOUS
    <3>1. CASE t = s /\ j = k
      BY <2>1, <2>2, <2>3, <3>1
    <3>2. CASE ~(t = s /\ j = k)
      BY <2>3, <2>4, <2>5, <3>2 DEF OneRequest, Busy
    <3> QED
      BY <3>1, <3>2
  <2> QED
    BY <2>1, <2>3, <2>6, <2>7, <2>8 DEF OneRequest, Busy, Call
<1>4. ASSUME NEW s \in Services, NEW k \in Numbers, Reply(s, k)
      PROVE  OneRequest'
  <2> DEFINE p == work[s][k]
  <2>1. /\ spc[s][k] = "reply" /\ spc' = [spc EXCEPT ![s][k] = "check"]
        /\ ppc' = [ppc EXCEPT ![p] = "ready"]
        /\ work' = [work EXCEPT ![s][k] = Nobody]
        /\ UNCHANGED <<calls, requests, executed>>
    BY <1>4 DEF Reply, Goto
  <2>2. /\ p \in Proxies /\ Wanted[p] = s /\ ppc[p] = "waiting"
        /\ ~Listed(p, requests[s]) /\ Call(p) \in executed
    BY <2>1 DEF OneRequest, Busy
  <2>3. \A t \in Services, j \in Numbers :
          IF t = s /\ j = k THEN spc'[t][j] = "check"
          ELSE spc'[t][j] = spc[t][j] /\ work'[t][j] = work[t][j]
    BY <1>0, <2>1
  <2>4. \A t \in Services, j \in Numbers :
          Busy(t, j) /\ ~(t = s /\ j = k) => work[t][j] # p
    BY <2>1, <2>2 DEF OneRequest, Busy
  <2>5. \A t \in Services : ~Listed(p, requests[t])
    BY <2>2 DEF OneRequest
  <2>6. ppc'[p] = "ready" /\ \A q \in Proxies \ {p} : ppc'[q] = ppc[q]
    BY <1>0, <2>1, <2>2
  <2>7. \A t \in Services, j \in Numbers : spc'[t][j] \in {"invoke", "reply"} =>
          /\ work'[t][j] \in Proxies
          /\ Wanted[work'[t][j]] = t /\ ppc'[work'[t][j]] = "waiting"
          /\ ~Listed(work'[t][j], requests[t])
          /\ Call(work'[t][j]) \in executed <=> spc'[t][j] = "reply"
    BY <2>3, <2>4, <2>6 DEF OneRequest, Busy
  <2>8. \A t \in Services, i, j \in Numbers :
          /\ spc'[t][i] \in {"invoke", "reply"} /\ spc'[t][j] \in {"invoke", "reply"}
          /\ work'[t][i] = work'[t][j]
          => i = j
    BY <2>3 DEF OneRequest, Busy
  <2>9. \A t \in Services, q \in Proxies : Listed(q, requests[t]) =>
          Wanted[q] = t /\ ppc'[q] = "waiting" /\ Call(q) \notin executed
    BY <2>5, <2>6 DEF OneRequest
  <2> QED
    BY <2>1, <2>6, <2>7, <2>8, <2>9 DEF OneRequest, Busy, Call
<1>5. ASSUME NEW s \in Services, NEW k \in Numbers, Check(s, k)
      PROVE  OneRequest'
  <2>1. /\ spc[s][k] = "check"
        /\ \E to \in {"poll", "ended"} : spc' = [spc EXCEPT ![s][k] = to]
        /\ requests' \in {requests, [requests EXCEPT ![s] = <<>>]}
        /\ UNCHANGED <<calls, ppc, executed, work>>
    BY <1>5 DEF Check, Goto
  <2>2. \A t \in Services, j \in Numbers :
          Busy(t, j)' => Busy(t, j) /\ spc'[t][j] = spc[t][j]
    BY <1>0, <2>1 DEF Busy
  <2>3. \A t \in Services : requests'[t] = requests[t] \/ requests'[t] = <<>>
    BY <1>0, <2>1
  <2>4. Different(<<>>) /\ \A q : ~Listed(q, <<>>)
    BY DEF Different, Listed
  <2>5. \A t \in Services :
          Different(requests'[t]) /\ \A q : Listed(q, requests'[t]) => Listed(q, requests[t])
    BY <2>3, <2>4 DEF OneRequest
  <2>6. \A t \in Services, j \in Numbers :
          spc'[t][j] \in {"invoke", "reply"} =>
            spc[t][j] \in {"invoke", "reply"} /\ spc'[t][j] = spc[t][j]
    BY <2>2 DEF Busy
  <2>7. \A t \in Services, j \in Numbers : spc'[t][j] \in {"invoke", "reply"} =>
          /\ work[t][j] \in Proxies
          /\ Wanted[work[t][j]] = t /\ ppc[work[t][j]] = "waiting"
          /\ ~Listed(work[t][j], requests'[t])
          /\ Call(work[t][j]) \in executed <=> spc'[t][j] = "reply"
    BY <2>5, <2>6 DEF OneRequest, Busy
  <2>8. \A t \in Services, q \in Proxies : Listed(q, requests'[t]) =>
          Wanted[q] = t /\ ppc[q] = "waiting" /\ Call(q) \notin executed
    BY <2>5 DEF OneRequest
  <2>9. \A t \in Services, i, j \in Numbers :
          /\ spc'[t][i] \in {"invoke", "reply"} /\ spc'[t][j] \in {"invoke", "reply"}
          /\ work[t][i] = work[t][j]
          => i = j
    BY <2>6 DEF OneRequest, Busy
  <2> QED
    BY <2>1, <2>5, <2>7, <2>8, <2>9 DEF OneRequest, Busy, Call
<1>6. ASSUME NEW s \in Services, NEW k \in Numbers, Bind(s, k)
      PROVE  OneRequest'
  <2>1. /\ spc[s][k] = "bind"
        /\ \E to \in {"check", "threw"} : spc' = [spc EXCEPT ![s][k] = to]
        /\ UNCHANGED <<calls, ppc, requests, executed, work>>
    BY <1>6 DEF Bind, Goto
  <2>2. \A t \in Services, j \in Numbers :
          Busy(t, j)' => Busy(t, j) /\ spc'[t][j] = spc[t][j]
    BY <1>0, <2>1 DEF Busy
  <2> QED
    BY <2>1, <2>2, SameRequests
<1>7. CASE Launch
  <2>1. /\ Wanted[cur] \in Services /\ launched[Wanted[cur]] < MaxInstances
        /\ spc' = [spc EXCEPT ![Wanted[cur]][launched[Wanted[cur]] + 1] = "bind"]
        /\ UNCHANGED <<calls, ppc, requests, executed, work>>
    BY <1>7 DEF Launch, Manager, Owned
  <2>2. \A t \in Services, j \in Numbers :
          Busy(t, j)' => Busy(t, j) /\ spc'[t][j] = spc[t][j]
    BY <1>0, <2>1 DEF Busy
  <2> QED
    BY <2>1, <2>2, SameRequests
<1>8. ASSUME UNCHANGED <<calls, requests, executed, work, spc>>,
             \A p \in Proxies : ppc'[p] = "waiting" <=> ppc[p] = "waiting"
      PROVE  OneRequest'
  <2>1. \A t \in Services, j \in Numbers :
          Busy(t, j)' => Busy(t, j) /\ spc'[t][j] = spc[t][j]
    BY <1>8 DEF Busy
  <2> QED
    BY <1>8, <2>1, SameRequests
<1>9. ASSUME NEW p \in Proxies, Lookup(p)
      PROVE  OneRequest'
  BY <1>0, <1>8, <1>9 DEF Lookup, ProxyGoto
<1>10. CASE Find \/ Answer
  <2>1. cur \in Proxies /\ ppc[cur] = "lookup"
    BY <1>10 DEF Find, Answer, Manager, OneLookup, Serving
  <2>2. \E to \in {"failed", "ready"} : ppc' = ppc \/ ppc' = [ppc EXCEPT ![cur] = to]
    BY <1>10 DEF Find, Answer
  <2>3. UNCHANGED <<calls, requests, executed, work, spc>>
    BY <1>10 DEF Find, Answer, Manager
  <2> QED
    BY <1>0, <1>8, <2>1, <2>2, <2>3
<1>11. CASE Stop \/ Start \/ Poll \/ Assign \/ StopServices \/ Join \/ UNCHANGED vars
  <2>1. UNCHANGED <<calls, requests, executed, work, spc, ppc>>
    BY <1>11 DEF Stop, Start, Poll, Assign, StopServices, Join, vars, managerVars, Manager
  <2> QED
    BY <1>8, <2>1
<1> QED
  BY <1>1, <1>2, <1>3, <1>4, <1>5, <1>6, <1>7, <1>9, <1>10, <1>11
  DEF Next, ManagerStep, InstanceStep

(***************************************************************************)
(* A method is not invoked for a call for which it was invoked before.     *)
(***************************************************************************)
LEMMA NotRepeatedStep ==
  ASSUME RMIInv, [Next]_vars
  PROVE  repeated' = {}
<1> USE DEF RMIInv, execVars
<1>1. ASSUME NEW s \in Services, NEW k \in Numbers, Invoke(s, k)
      PROVE  repeated' = {}
  <2>1. Call(work[s][k]) \notin executed
    BY <1>1 DEF Invoke, Goto, OneRequest, Busy
  <2> QED
    BY <1>1, <2>1 DEF Invoke, Call
<1>2. CASE ~\E s \in Services, k \in Numbers : Invoke(s, k)
  <2>1. UNCHANGED repeated
    BY <1>2
    DEF Next, ManagerStep, InstanceStep, Lookup, Request, ProxyGoto, Stop, Start, Poll, Find,
        Launch, Assign, Answer, StopServices, Join, Manager, Bind, Check, ServicePoll, Reply,
        vars
  <2> QED
    BY <2>1
<1> QED
  BY <1>1, <1>2

LEMMA TypeStep ==
  ASSUME RMIInv, [Next]_vars
  PROVE  TypeOK'
<1> USE DEF RMIInv, execVars
<1>0. /\ MaxCalls \in Nat /\ MaxInstances \in Nat /\ MaxStarts \in Nat
      /\ Numbers = 1 .. MaxInstances
  BY RMIAssumption DEF Numbers
<1>r. repeated' \subseteq Calls
  BY NotRepeatedStep
<1> USE <1>r
<1>1. ASSUME NEW p \in Proxies, Lookup(p) \/ Request(p)
      PROVE  TypeOK'
  <2>1. /\ \E to \in {"lookup", "waiting"} : ppc' = [ppc EXCEPT ![p] = to]
        /\ UNCHANGED <<managerVars, status, spc, work, executed>>
    BY <1>1 DEF Lookup, Request, ProxyGoto
  <2>2. CASE Lookup(p)
    <3>1. lookups' \in Seq(Proxies) /\ UNCHANGED <<requests, calls>>
      BY <2>2 DEF Lookup, TypeOK
    <3> QED
      BY <2>1, <3>1 DEF TypeOK, managerVars
  <2>3. CASE Request(p)
    <3>1. calls' \in [Proxies -> 0 .. MaxCalls] /\ UNCHANGED lookups
      BY <1>0, <2>3 DEF Request, TypeOK
    <3>2. requests' \in [Services -> Seq(Proxies)]
      <4>1. requests' = [requests EXCEPT ![Wanted[p]] = Append(requests[Wanted[p]], p)]
        BY <2>3 DEF Request
      <4>2. Wanted[p] \in Services => Append(requests[Wanted[p]], p) \in Seq(Proxies)
        BY DEF TypeOK
      <4> QED
        BY <4>1, <4>2 DEF TypeOK
    <3> QED
      BY <2>1, <3>1, <3>2 DEF TypeOK, managerVars
  <2> QED
    BY <1>1, <2>2, <2>3
<1>2. ASSUME NEW s \in Services, NEW k \in Numbers, InstanceStep(s, k)
      PROVE  TypeOK'
  <2>1. /\ \E to \in InstanceSteps : spc' = [spc EXCEPT ![s][k] = to]
        /\ UNCHANGED <<managerVars, lookups, calls>>
    BY <1>2 DEF InstanceStep, Bind, Check, ServicePoll, Invoke, Reply, Goto, InstanceSteps
  <2>2. spc' \in [Services -> [Numbers -> InstanceSteps]]
    BY <2>1 DEF TypeOK
  <2>3. status' \in [Services -> {"STARTED", "STOPPED"}]
    BY <1>2 DEF InstanceStep, Bind, Check, ServicePoll, Invoke, Reply, TypeOK
  <2>4. /\ requests' \in [Services -> Seq(Proxies)]
        /\ work' \in [Services -> [Numbers -> Proxies \cup {Nobody}]]
    <3>1. CASE ServicePoll(s, k) /\ requests[s] # <<>>
      <4>1. /\ Head(requests[s]) \in Proxies /\ Tail(requests[s]) \in Seq(Proxies)
            /\ requests' = [requests EXCEPT ![s] = Tail(requests[s])]
            /\ work' = [work EXCEPT ![s][k] = Head(requests[s])]
        BY <3>1 DEF ServicePoll, TypeOK
      <4> QED
        BY <4>1 DEF TypeOK
    <3>2. CASE Check(s, k)
      <4>1. /\ requests' = requests \/ requests' = [requests EXCEPT ![s] = <<>>]
            /\ UNCHANGED work
        BY <3>2 DEF Check
      <4>2. <<>> \in Seq(Proxies)
        OBVIOUS
      <4> QED
        BY <4>1, <4>2 DEF TypeOK
    <3>3. CASE Reply(s, k)
      BY <3>3 DEF Reply, TypeOK
    <3>4. CASE Bind(s, k) \/ Invoke(s, k) \/ (ServicePoll(s, k) /\ requests[s] = <<>>)
      BY <3>4 DEF Bind, Invoke, ServicePoll, TypeOK
    <3> QED
      BY <1>2, <3>1, <3>2, <3>3, <3>4 DEF InstanceStep
  <2>5. ppc' \in [Proxies -> {"new", "lookup", "ready", "waiting", "failed"}]
    BY <1>2 DEF InstanceStep, Bind, Check, ServicePoll, Invoke, Reply, TypeOK
  <2>6. executed' \subseteq Calls
    <3>1. CASE Invoke(s, k)
      <4>1. /\ spc[s][k] = "invoke"
            /\ executed' = executed \cup {<<work[s][k], calls[work[s][k]]>>}
        BY <3>1 DEF Invoke, Goto
      <4>2. work[s][k] \in Proxies /\ calls[work[s][k]] > 0
        BY <4>1 DEF OneRequest, Busy
      <4>3. calls[work[s][k]] \in 1 .. MaxCalls
        BY <1>0, <4>2 DEF TypeOK
      <4> QED
        BY <4>1, <4>2, <4>3 DEF TypeOK, Calls
    <3>2. CASE ~Invoke(s, k)
      BY <1>2, <3>2 DEF InstanceStep, Bind, Check, ServicePoll, Reply, TypeOK
    <3> QED
      BY <3>1, <3>2
  <2> QED
    BY <2>1, <2>2, <2>3, <2>4, <2>5, <2>6 DEF TypeOK, managerVars
<1>3. CASE Start \/ Stop \/ Poll
  <2>1. /\ UNCHANGED <<joined, status, launched, future, requests, spc, work, ppc, calls,
                       executed>>
        /\ mstop' = mstop \/ mstop' \in BOOLEAN
        /\ mpc' = mpc \/ mpc' \in {"poll", "threw", "stop", "find"}
        /\ starts' = starts \/ (starts < MaxStarts /\ starts' = starts + 1)
    <3>1. CASE Start
      BY <3>1 DEF Start, Manager
    <3>2. CASE Stop \/ Poll
      BY <3>2 DEF Stop, Poll, Manager
    <3> QED
      BY <1>3, <3>1, <3>2
  <2>2. cur' \in Proxies \cup {Nobody} /\ lookups' \in Seq(Proxies)
    <3>1. CASE lookups # <<>> /\ cur' = Head(lookups) /\ lookups' = Tail(lookups)
      BY <3>1 DEF TypeOK
    <3>2. CASE UNCHANGED <<cur, lookups>>
      BY <3>2 DEF TypeOK
    <3> QED
      BY <1>3, <3>1, <3>2 DEF Start, Stop, Poll
  <2>3. starts' \in 0 .. MaxStarts
    BY <1>0, <2>1 DEF TypeOK
  <2> QED
    BY <2>1, <2>2, <2>3 DEF TypeOK
<1>4. CASE Find \/ Answer
  BY <1>4 DEF Find, Answer, Manager, TypeOK
<1>5. CASE Launch
  <2> DEFINE s == Wanted[cur]
  <2>1. /\ s \in Services /\ launched[s] < MaxInstances /\ mpc' = "assign"
        /\ launched' = [launched EXCEPT ![s] = @ + 1]
        /\ spc' = [spc EXCEPT ![s][launched[s] + 1] = "bind"]
        /\ UNCHANGED <<cur, lookups, mstop, starts, joined, status, future, ppc, requests,
                       work, calls, executed>>
    BY <1>5 DEF Launch, Manager, Owned
  <2>2. launched' \in [Services -> 0 .. MaxInstances]
    BY <1>0, <2>1 DEF TypeOK
  <2>3. spc' \in [Services -> [Numbers -> InstanceSteps]]
    BY <2>1 DEF TypeOK, InstanceSteps
  <2> QED
    BY <2>1, <2>2, <2>3 DEF TypeOK
<1>6. CASE Assign
  <2>1. future' \in [Services -> -1 .. MaxInstances]
    BY <1>0, <1>6 DEF Assign, Manager, Owned, TypeOK
  <2> QED
    BY <1>6, <2>1 DEF Assign, Manager, TypeOK
<1>7. CASE StopServices
  <2>1. <<>> \in Seq(Proxies) /\ lookups' \in {lookups, <<>>}
    BY <1>7 DEF StopServices
  <2> QED
    BY <1>7, <2>1 DEF StopServices, Manager, TypeOK
<1>8. CASE Join
  <2>1. future' \in [Services -> -1 .. MaxInstances] /\ joined' \subseteq Services
    <3>1. CASE UNCHANGED <<joined, future>>
      BY <3>1 DEF TypeOK
    <3>2. ASSUME NEW s \in Services, joined' = joined \cup {s},
                 future' = [future EXCEPT ![s] = IF @ > 0 THEN 0 ELSE @]
          PROVE  future' \in [Services -> -1 .. MaxInstances] /\ joined' \subseteq Services
      <4>1. (IF future[s] > 0 THEN 0 ELSE future[s]) \in -1 .. MaxInstances
        BY <1>0 DEF TypeOK
      <4> QED
        BY <3>2, <4>1 DEF TypeOK
    <3> QED
      BY <1>8, <3>1, <3>2 DEF Join
  <2>2. mpc' \in {"stopped", "join", "threw"}
        /\ UNCHANGED <<cur, lookups, mstop, starts, status, launched, spc, ppc, requests, work,
                       calls, executed>>
    BY <1>8 DEF Join, Manager
  <2> QED
    BY <2>1, <2>2 DEF TypeOK
<1>9. CASE UNCHANGED vars
  BY <1>9 DEF vars, managerVars, execVars, TypeOK
<1> QED
  BY <1>1, <1>2, <1>3, <1>4, <1>5, <1>6, <1>7, <1>8, <1>9 DEF Next, ManagerStep

LEMMA RMIInvariant == Spec => []RMIInv
<1>1. Init => RMIInv
  <2> SUFFICES ASSUME Init
               PROVE  RMIInv
    OBVIOUS
  <2>1. /\ 0 \in 0 .. MaxStarts /\ 0 \in 0 .. MaxInstances /\ 0 \in 0 .. MaxCalls
        /\ -1 \in -1 .. MaxInstances /\ \A k \in Numbers : k > 0
    BY RMIAssumption DEF Numbers
  <2>2. lookups = <<>> /\ lookups \in Seq(Proxies) /\ requests \in [Services -> Seq(Proxies)]
    BY DEF Init
  <2>3. TypeOK
    BY <2>1, <2>2 DEF Init, TypeOK, InstanceSteps
  <2>4. Different(<<>>) /\ \A q : ~Listed(q, <<>>)
    BY DEF Different, Listed
  <2>5. Owned
    BY <2>1 DEF Init, Owned, Alive, Finished
  <2>6. OneLookup
    BY <2>4 DEF Init, OneLookup, Serving
  <2>7. OneRequest
    BY <2>4 DEF Init, OneRequest, Busy
  <2> QED
    BY <2>3, <2>5, <2>6, <2>7 DEF RMIInv, Init
<1>2. RMIInv /\ [Next]_vars => RMIInv'
  BY TypeStep, OwnedStep, OneLookupStep, OneRequestStep, NotRepeatedStep DEF RMIInv
<1> QED
  BY <1>1, <1>2, PTL DEF Spec

(***************************************************************************)
(* The state of the manager, the services and the proxies stays in its     *)
(* type.                                                                   *)
(***************************************************************************)
THEOREM TypeCorrect == Spec => []TypeOK
BY RMIInvariant, PTL DEF RMIInv

(***************************************************************************)
(* When StopServices() returns no service is running any more.             *)
(***************************************************************************)
THEOREM NoServiceAfterStopCorrect == Spec => []NoServiceAfterStop
<1>1. RMIInv => NoServiceAfterStop
  BY DEF RMIInv, Owned, NoServiceAfterStop
<1> QED
  BY <1>1, RMIInvariant, PTL

-----------------------------------------------------------------------------

(***************************************************************************)
(* Every step is a step of remote calls, or none: Request sends, Invoke    *)
(* executes, Reply replies.                                                *)
(***************************************************************************)
LEMMA PhaseStep ==
  ASSUME RMIInv, Next
  PROVE  Abstract!Next \/ UNCHANGED Abstract!vars
<1> USE DEF RMIInv, execVars
<1>0. /\ DOMAIN ppc = Proxies /\ calls \in [Proxies -> 0 .. MaxCalls] /\ MaxCalls \in Nat
      /\ Calls = Proxies \X (1 .. MaxCalls)
  BY RMIAssumption DEF TypeOK, Calls
<1>1. ASSUME \A c \in Calls : Phase(c)' = Phase(c), UNCHANGED execVars
      PROVE  UNCHANGED Abstract!vars
  BY <1>1 DEF Abstract!vars, Executions
<1>2. ASSUME \A p \in Proxies : ppc'[p] = "waiting" <=> ppc[p] = "waiting",
             UNCHANGED <<calls, execVars>>
      PROVE  UNCHANGED Abstract!vars
  <2>1. \A c \in Calls : Phase(c)' = Phase(c)
    BY <1>0, <1>2 DEF Phase
  <2> QED
    BY <1>1, <1>2, <2>1
<1>3. ASSUME NEW p \in Proxies, Lookup(p)
      PROVE  UNCHANGED Abstract!vars
  BY <1>0, <1>2, <1>3 DEF Lookup, ProxyGoto
<1>4. ASSUME NEW p \in Proxies, Request(p)
      PROVE  Abstract!Next
  <2>1. /\ calls[p] < MaxCalls /\ ppc[p] = "ready"
        /\ ppc' = [ppc EXCEPT ![p] = "waiting"]
        /\ calls' = [calls EXCEPT ![p] = @ + 1]
        /\ UNCHANGED execVars
    BY <1>4 DEF Request, ProxyGoto
  <2>2. PICK c \in Calls : c = <<p, calls[p] + 1>>
    <3>1. calls[p] + 1 \in 1 .. MaxCalls
      BY <1>0, <2>1
    <3> QED
      BY <1>0, <3>1
  <2>3. Phase(c) = "idle" /\ Phase(c)' = "sent"
    BY <1>0, <2>1, <2>2 DEF Phase
  <2>4. \A d \in Calls \ {c} : Phase(d)' = Phase(d)
    <3> SUFFICES ASSUME NEW d \in Calls \ {c}
                 PROVE  Phase(d)' = Phase(d)
      OBVIOUS
    <3>1. CASE d[1] = p
      <4>1. d[2] # calls[p] + 1 /\ d[2] \in 1 .. MaxCalls
        BY <1>0, <2>2, <3>1
      <4> QED
        BY <1>0, <2>1, <3>1, <4>1 DEF Phase
    <3>2. CASE d[1] # p
      BY <1>0, <2>1, <3>2 DEF Phase
    <3> QED
      BY <3>1, <3>2
  <2>5. Abstract!Send(c)
    BY <2>1, <2>2, <2>3, <2>4 DEF Abstract!Send, Abstract!Move, Executions
  <2> QED
    BY <2>2, <2>5 DEF Abstract!Next
<1>5. ASSUME NEW s \in Services, NEW k \in Numbers, Invoke(s, k)
      PROVE  Abstract!Next
  <2>1. /\ spc[s][k] = "invoke" /\ executed' = executed \cup {Call(work[s][k])}
        /\ repeated = {} /\ repeated' = {} /\ UNCHANGED <<ppc, calls>>
    BY <1>5, NotRepeatedStep DEF Invoke, Goto, Call
  <2>2. /\ work[s][k] \in Proxies /\ ppc[work[s][k]] = "waiting"
        /\ calls[work[s][k]] > 0 /\ Call(work[s][k]) \notin executed
    BY <2>1 DEF OneRequest, Busy
  <2>3. PICK c \in Calls : c = Call(work[s][k])
    BY <1>0, <2>2 DEF Call
  <2>4. Phase(c) = "sent" /\ \A d \in Calls : Phase(d)' = Phase(d)
    BY <1>0, <2>1, <2>2, <2>3 DEF Phase, Call
  <2>5. /\ Executions(c) = 0 /\ Executions(c)' = 1
        /\ \A d \in Calls \ {c} : Executions(d)' = Executions(d)
    BY <2>1, <2>2, <2>3 DEF Executions
  <2>6. Abstract!Execute(c)
    BY <2>4, <2>5 DEF Abstract!Execute
  <2> QED
    BY <2>6 DEF Abstract!Next
<1>6. ASSUME NEW s \in Services, NEW k \in Numbers, Reply(s, k)
      PROVE  Abstract!Next
  <2>0. spc[s][k] = "reply"
    BY <1>6 DEF Reply, Goto
  <2>1. PICK p \in Proxies :
          /\ p = work[s][k] /\ ppc' = [ppc EXCEPT ![p] = "ready"]
          /\ UNCHANGED <<calls, execVars>>
    BY <1>6, <2>0 DEF Reply, Goto, OneRequest, Busy
  <2>2. /\ ppc[p] = "waiting" /\ calls[p] > 0 /\ Call(p) \in executed
    BY <2>0, <2>1 DEF OneRequest, Busy
  <2>3. PICK c \in Calls : c = Call(p) /\ c[1] = p /\ c[2] = calls[p]
    BY <1>0, <2>2 DEF Call
  <2>4. Phase(c) = "sent" /\ Phase(c)' = "replied"
    BY <1>0, <2>1, <2>2, <2>3 DEF Phase
  <2>5. \A d \in Calls \ {c} : Phase(d)' = Phase(d)
    <3> SUFFICES ASSUME NEW d \in Calls \ {c}
                 PROVE  Phase(d)' = Phase(d)
      OBVIOUS
    <3>1. CASE d[1] = p
      <4>1. d[2] # calls[p]
        BY <1>0, <2>3, <3>1 DEF Call
      <4> QED
        BY <1>0, <2>1, <3>1, <4>1 DEF Phase
    <3>2. CASE d[1] # p
      BY <1>0, <2>1, <3>2 DEF Phase
    <3> QED
      BY <3>1, <3>2
  <2>7. Executions(c) > 0 /\ \A d \in Calls : Executions(d)' = Executions(d)
    BY <2>1, <2>2, <2>3 DEF Executions
  <2>6. Abstract!Reply(c)
    BY <2>4, <2>5, <2>7 DEF Abstract!Reply, Abstract!Move
  <2> QED
    BY <2>3, <2>6 DEF Abstract!Next
<1>7. ASSUME NEW s \in Services, NEW k \in Numbers,
             Bind(s, k) \/ Check(s, k) \/ ServicePoll(s, k)
      PROVE  UNCHANGED Abstract!vars
  <2>1. UNCHANGED <<ppc, calls, execVars>>
    BY <1>7 DEF Bind, Check, ServicePoll, Goto
  <2> QED
    BY <1>2, <2>1
<1>8. CASE Find \/ Answer
  <2>1. ppc[cur] = "lookup"
    BY <1>8 DEF Find, Answer, Manager, OneLookup, Serving
  <2>2. \E to \in {"failed", "ready"} : ppc' = ppc \/ ppc' = [ppc EXCEPT ![cur] = to]
    BY <1>8 DEF Find, Answer
  <2>3. UNCHANGED <<calls, execVars>>
    BY <1>8 DEF Find, Answer, Manager
  <2> QED
    BY <1>0, <1>2, <2>1, <2>2, <2>3
<1>9. CASE Stop \/ Start \/ Poll \/ Launch \/ Assign \/ StopServices \/ Join
  <2>1. UNCHANGED <<ppc, calls, execVars>>
    BY <1>9 DEF Stop, Start, Poll, Launch, Assign, StopServices, Join, Manager
  <2> QED
    BY <1>2, <2>1
<1> QED
  BY <1>3, <1>4, <1>5, <1>6, <1>7, <1>8, <1>9 DEF Next, ManagerStep, InstanceStep

(***************************************************************************)
(* A call of a proxy is executed at most once, and returns only after it   *)
(* was, however many instances of the service there are.                   *)
(***************************************************************************)
THEOREM RemoteCallsCorrect == Spec => RemoteCalls
<1>1. Init => Abstract!Init
  <2> SUFFICES ASSUME Init
               PROVE  Abstract!Init
    OBVIOUS
  <2>1. \A c \in Calls : Phase(c) = "idle"
    BY RMIAssumption DEF Init, Calls, Phase
  <2> QED
    BY <2>1 DEF Init, Abstract!Init, Executions
<1>2. RMIInv /\ [Next]_vars => [Abstract!Next]_(Abstract!vars)
  <2>1. CASE UNCHANGED vars
    BY <2>1 DEF vars, execVars, Phase, Executions, Abstract!vars
  <2> QED
    BY <2>1, PhaseStep
<1> QED
  BY <1>1, <1>2, RMIInvariant, PTL DEF Spec, RemoteCalls, Abstract!Spec
-----------------------------------------------------------------------------
(* What the liveness of calls and of StopServices() rests on. *)

BeforeStop == starts <= 1 /\ mpc \notin {"join", "stopped", "threw"}

Underway(p) ==
  \/ Listed(p, requests[Wanted[p]])
  \/ \E k \in Numbers : Busy(Wanted[p], k) /\ work[Wanted[p]][k] = p

\* No instance ends before the manager stops the services for the first time,
\* and the request of a proxy that waits is queued or being served.
CallIsUnderway ==
  BeforeStop =>
    /\ \A s \in Services, k \in Numbers :
         /\ spc[s][k] # "ended"
         /\ spc[s][k] \in {"check", "poll", "invoke", "reply"} => status[s] = "STARTED"
    /\ \A p \in Proxies : ppc[p] = "waiting" /\ Wanted[p] \in Services => Underway(p)

StartedOnce == mpc # "idle" => starts > 0

(***************************************************************************)
(* Until the services are stopped for the first time no call is lost,      *)
(* however often the manager starts a service again and however many       *)
(* threads serve it: a thread that is in its loop stays there, and the     *)
(* request of a waiting proxy is queued or in the hands of one.            *)
(***************************************************************************)
THEOREM CallIsUnderwayCorrect == Spec => []CallIsUnderway
<1> DEFINE Inv == CallIsUnderway /\ StartedOnce
<1>1. Init => Inv
  BY RMIAssumption DEF Init, CallIsUnderway, StartedOnce
<1>2. RMIInv /\ Inv /\ [Next]_vars => Inv'
  <2> SUFFICES ASSUME RMIInv, Inv, [Next]_vars
               PROVE  Inv'
    OBVIOUS
  <2>0. /\ spc \in [Services -> [Numbers -> InstanceSteps]]
        /\ work \in [Services -> [Numbers -> Proxies \cup {Nobody}]]
        /\ requests \in [Services -> Seq(Proxies)] /\ DOMAIN ppc = Proxies
        /\ DOMAIN status = Services /\ starts \in Nat
    BY RMIAssumption DEF RMIInv, TypeOK
  <2>1. StartedOnce'
    <3>1. CASE UNCHANGED <<mpc, starts>>
      BY <3>1 DEF StartedOnce
    <3>2. CASE Start
      BY <2>0, <3>2 DEF Start, Manager, StartedOnce
    <3>3. CASE ManagerStep
      BY <3>3 DEF ManagerStep, Poll, Find, Launch, Assign, Answer, StopServices, Join, Manager,
                  StartedOnce
    <3>4. ASSUME NEW p \in Proxies, Lookup(p) \/ Request(p)
          PROVE  UNCHANGED <<mpc, starts>>
      BY <3>4 DEF Lookup, Request, ProxyGoto, managerVars
    <3>5. ASSUME NEW s \in Services, NEW k \in Numbers, InstanceStep(s, k)
          PROVE  UNCHANGED <<mpc, starts>>
      BY <3>5 DEF InstanceStep, Bind, Check, ServicePoll, Invoke, Reply, Goto, managerVars
    <3>6. CASE Stop \/ UNCHANGED vars
      BY <3>1, <3>6 DEF Stop, vars, managerVars
    <3> QED
      BY <3>1, <3>2, <3>3, <3>4, <3>5, <3>6 DEF Next
  <2> SUFFICES ASSUME BeforeStop'
               PROVE  CallIsUnderway'
    BY <2>1 DEF CallIsUnderway
  <2>2. ASSUME BeforeStop, UNCHANGED <<status, requests, spc, work>>,
               \A p \in Proxies : ppc'[p] = "waiting" => ppc[p] = "waiting"
        PROVE  CallIsUnderway'
    BY <2>2 DEF CallIsUnderway, Underway, Busy
  <2>3. ASSUME NEW p \in Proxies, Lookup(p)
        PROVE  CallIsUnderway'
    BY <2>0, <2>2, <2>3 DEF Lookup, ProxyGoto, managerVars, BeforeStop
  <2>4. ASSUME NEW p \in Proxies, Request(p)
        PROVE  CallIsUnderway'
    <3>1. /\ ppc' = [ppc EXCEPT ![p] = "waiting"] /\ BeforeStop
          /\ requests' = [requests EXCEPT ![Wanted[p]] = Append(@, p)]
          /\ UNCHANGED <<status, spc, work>>
      BY <2>4 DEF Request, ProxyGoto, managerVars, BeforeStop
    <3>2. ASSUME NEW s \in Services
          PROVE  \A q : Listed(q, requests'[s]) <=> Listed(q, requests[s]) \/ (q = p /\ s = Wanted[p])
      <4>1. CASE s = Wanted[p]
        <5>1. requests'[s] = Append(requests[s], p) /\ requests[s] \in Seq(Proxies)
          BY <2>0, <3>1, <4>1
        <5> QED
          BY <4>1, <5>1, AppendListed
      <4>2. CASE s # Wanted[p]
        BY <2>0, <3>1, <4>2
      <4> QED
        BY <4>1, <4>2
    <3>3. ASSUME NEW q \in Proxies, ppc'[q] = "waiting", Wanted[q] \in Services
          PROVE  Underway(q)'
      <4>1. CASE q = p
        BY <3>2, <3>3, <4>1 DEF Underway
      <4>2. CASE q # p
        <5>1. Underway(q)
          BY <2>0, <3>1, <3>3, <4>2 DEF CallIsUnderway
        <5> QED
          BY <3>1, <3>2, <3>3, <5>1 DEF Underway, Busy
      <4> QED
        BY <4>1, <4>2
    <3> QED
      BY <3>1, <3>3 DEF CallIsUnderway
  <2>5. ASSUME NEW s \in Services, NEW k \in Numbers, InstanceStep(s, k)
        PROVE  CallIsUnderway'
    <3>1. /\ BeforeStop
          /\ spc[s][k] \in {"check", "poll", "invoke", "reply"} => status[s] = "STARTED"
          /\ spc[s][k] \in {"bind", "check", "poll", "invoke", "reply"}
      BY <2>5 DEF BeforeStop, CallIsUnderway, InstanceStep, Bind, Check, ServicePoll, Invoke,
                  Reply, Goto, managerVars
    <3>2. PICK to \in {"check", "poll", "invoke", "reply", "threw"} :
            spc' = [spc EXCEPT ![s][k] = to]
      BY <2>5, <3>1 DEF InstanceStep, Bind, Check, ServicePoll, Invoke, Reply, Goto
    <3>3. \A t \in Services, j \in Numbers :
            IF t = s /\ j = k THEN spc'[t][j] = to ELSE spc'[t][j] = spc[t][j]
      BY <2>0, <3>2
    <3>4. \A t \in Services : /\ status[t] = "STARTED" => status'[t] = "STARTED"
                              /\ t = s /\ to # "threw" => status'[t] = "STARTED"
      <4>1. CASE Bind(s, k)
        <5>1. \/ status' = [status EXCEPT ![s] = "STARTED"]
              \/ status' = status /\ spc' = [spc EXCEPT ![s][k] = "threw"]
          BY <4>1 DEF Bind, Goto
        <5>2. status' = status /\ spc' = [spc EXCEPT ![s][k] = "threw"] => to = "threw"
          BY <2>0, <3>3
        <5> QED
          BY <2>0, <5>1, <5>2
      <4>2. CASE ~Bind(s, k)
        <5>1. status' = status /\ spc[s][k] \in {"check", "poll", "invoke", "reply"}
          BY <2>5, <4>2 DEF InstanceStep, Check, ServicePoll, Invoke, Reply, Goto
        <5> QED
          BY <3>1, <5>1
      <4> QED
        BY <4>1, <4>2
    <3>5. \A t \in Services, j \in Numbers :
            /\ spc'[t][j] # "ended"
            /\ spc'[t][j] \in {"check", "poll", "invoke", "reply"} => status'[t] = "STARTED"
      BY <3>1, <3>3, <3>4 DEF CallIsUnderway
    <3>6. ASSUME NEW q \in Proxies, ppc'[q] = "waiting", Wanted[q] \in Services,
                 UNCHANGED <<requests, work, ppc>>, Busy(s, k) => to = "reply"
          PROVE  Underway(q)'
      <4>1. Underway(q)
        BY <3>1, <3>6 DEF CallIsUnderway
      <4>2. \A j \in Numbers : Busy(Wanted[q], j) => Busy(Wanted[q], j)'
        BY <3>3, <3>6 DEF Busy
      <4> QED
        BY <3>6, <4>1, <4>2 DEF Underway
    <3>7. CASE Bind(s, k) \/ Check(s, k) \/ Invoke(s, k) \/ (ServicePoll(s, k) /\ requests[s] = <<>>)
      <4>1. UNCHANGED <<requests, work, ppc>>
        BY <3>1, <3>7 DEF Bind, Check, Invoke, ServicePoll, Goto
      <4>2. Busy(s, k) => to = "reply"
        <5>1. spc[s][k] \in {"bind", "check", "poll"} \/ spc' = [spc EXCEPT ![s][k] = "reply"]
          BY <3>7 DEF Bind, Check, Invoke, ServicePoll, Goto
        <5> QED
          BY <2>0, <3>3, <5>1 DEF Busy
      <4> QED
        BY <3>5, <3>6, <4>1, <4>2 DEF CallIsUnderway
    <3>8. CASE ServicePoll(s, k) /\ requests[s] # <<>>
      <4>1. /\ spc[s][k] = "poll" /\ spc' = [spc EXCEPT ![s][k] = "invoke"]
            /\ work' = [work EXCEPT ![s][k] = Head(requests[s])]
            /\ requests' = [requests EXCEPT ![s] = Tail(@)] /\ ppc' = ppc
        BY <3>8 DEF ServicePoll, Goto
      <4>2. /\ spc'[s][k] = "invoke" /\ work'[s][k] = Head(requests[s])
            /\ requests'[s] = Tail(requests[s]) /\ requests[s] \in Seq(Proxies)
            /\ \A t \in Services \ {s} : requests'[t] = requests[t]
            /\ \A t \in Services, j \in Numbers :
                 ~(t = s /\ j = k) => spc'[t][j] = spc[t][j] /\ work'[t][j] = work[t][j]
        BY <2>0, <4>1
      <4>3. \A q : Listed(q, requests[s]) <=> Listed(q, requests'[s]) \/ q = work'[s][k]
        BY <3>8, <4>2, TailListed
      <4>4. ASSUME NEW q \in Proxies, ppc'[q] = "waiting", Wanted[q] \in Services
            PROVE  Underway(q)'
        <5>1. Underway(q)
          BY <3>1, <4>1, <4>4 DEF CallIsUnderway
        <5>2. CASE Listed(q, requests[Wanted[q]])
          BY <4>2, <4>3, <4>4, <5>2 DEF Underway, Busy
        <5>3. ASSUME NEW j \in Numbers, Busy(Wanted[q], j), work[Wanted[q]][j] = q
              PROVE  Underway(q)'
          BY <4>1, <4>2, <4>4, <5>3 DEF Underway, Busy
        <5> QED
          BY <5>1, <5>2, <5>3 DEF Underway
      <4> QED
        BY <3>5, <4>4 DEF CallIsUnderway
    <3>9. CASE Reply(s, k)
      <4>1. /\ spc[s][k] = "reply" /\ ppc' = [ppc EXCEPT ![work[s][k]] = "ready"]
            /\ work' = [work EXCEPT ![s][k] = Nobody] /\ requests' = requests
        BY <3>9 DEF Reply, Goto
      <4>2. work[s][k] \in Proxies
        BY <4>1 DEF RMIInv, OneRequest, Busy
      <4>3. \A t \in Services, j \in Numbers :
              ~(t = s /\ j = k) => work'[t][j] = work[t][j]
        BY <2>0, <4>1
      <4>4. ASSUME NEW q \in Proxies, ppc'[q] = "waiting", Wanted[q] \in Services
            PROVE  Underway(q)'
        <5>1. q # work[s][k] /\ ppc[q] = "waiting"
          BY <2>0, <4>1, <4>2, <4>4
        <5>2. Underway(q)
          BY <3>1, <4>4, <5>1 DEF CallIsUnderway
        <5> QED
          BY <3>3, <4>1, <4>3, <4>4, <5>1, <5>2 DEF Underway, Busy
      <4> QED
        BY <3>5, <4>4 DEF CallIsUnderway
    <3> QED
      BY <2>5, <3>7, <3>8, <3>9 DEF InstanceStep
  <2>6. CASE Start
    <3>1. mpc = "idle" /\ BeforeStop /\ UNCHANGED <<status, spc, ppc, requests, work>>
      <4>1. starts' = starts + 1 /\ UNCHANGED <<status, spc, ppc, requests, work>>
        BY <2>6 DEF Start, Manager
      <4>2. starts = 0
        BY <2>0, <4>1 DEF BeforeStop
      <4> QED
        BY <4>1, <4>2 DEF StartedOnce, BeforeStop
    <3> QED
      BY <2>2, <3>1
  <2>7. CASE Launch
    <3>1. /\ BeforeStop /\ Wanted[cur] \in Services
          /\ spc' = [spc EXCEPT ![Wanted[cur]][launched[Wanted[cur]] + 1] = "bind"]
          /\ spc[Wanted[cur]][launched[Wanted[cur]] + 1] = "unborn"
          /\ UNCHANGED <<status, ppc, requests, work>>
      <4>1. /\ mpc = "launch" /\ launched[Wanted[cur]] < MaxInstances /\ Wanted[cur] \in Services
            /\ launched \in [Services -> 0 .. MaxInstances] /\ MaxInstances \in Nat
        BY <2>7, RMIAssumption DEF Launch, Manager, RMIInv, Owned, TypeOK
      <4>2. launched[Wanted[cur]] + 1 \in Numbers
            /\ launched[Wanted[cur]] + 1 > launched[Wanted[cur]]
        BY <4>1 DEF Numbers
      <4>3. spc[Wanted[cur]][launched[Wanted[cur]] + 1] = "unborn"
        BY <4>1, <4>2 DEF RMIInv, Owned
      <4> QED
        BY <2>7, <4>1, <4>3 DEF Launch, Manager, BeforeStop
    <3>2. \A t \in Services, j \in Numbers :
            /\ spc'[t][j] = spc[t][j] \/ spc'[t][j] = "bind"
            /\ Busy(t, j) => Busy(t, j)'
      BY <2>0, <3>1 DEF Busy
    <3>3. \A q \in Proxies : Wanted[q] \in Services /\ Underway(q) => Underway(q)'
      BY <3>1, <3>2 DEF Underway
    <3> QED
      BY <3>1, <3>2, <3>3 DEF CallIsUnderway
  <2>8. CASE Find \/ Answer
    <3>1. BeforeStop /\ UNCHANGED <<status, spc, requests, work>>
      BY <2>8 DEF Find, Answer, Manager, BeforeStop
    <3>2. cur \in Proxies /\ \E to \in {"failed", "ready"} :
            ppc' = ppc \/ ppc' = [ppc EXCEPT ![cur] = to]
      BY <2>8 DEF Find, Answer, Manager, RMIInv, OneLookup, Serving
    <3> QED
      BY <2>0, <2>2, <3>1, <3>2
  <2>9. CASE Stop \/ Poll \/ Assign \/ StopServices \/ Join
    <3>1. BeforeStop /\ UNCHANGED <<status, spc, ppc, requests, work>>
      BY <2>9 DEF Stop, Poll, Assign, StopServices, Join, Manager, BeforeStop
    <3> QED
      BY <2>2, <3>1
  <2>10. CASE UNCHANGED vars
    BY <2>2, <2>10 DEF vars, managerVars, execVars, BeforeStop
  <2> QED
    BY <2>3, <2>4, <2>5, <2>6, <2>7, <2>8, <2>9, <2>10 DEF Next, ManagerStep
<1>3. Inv => CallIsUnderway
  OBVIOUS
<1> QED
  BY <1>1, <1>2, <1>3, RMIInvariant, PTL DEF Spec

\* Every service has been asked to stop, and none is about to overwrite that.
AllStopping ==
  \A s \in Services : status[s] = "STOPPED" /\ \A k \in Numbers : spc[s][k] # "bind"

\* A bound on the steps that a thread with this program counter still makes.
StepsLeft(step) ==
  CASE step = "poll" -> 4 [] step = "invoke" -> 3 [] step = "reply" -> 2
    [] step = "check" -> 1 [] OTHER -> 0

WindsDown ==
  mpc = "join" /\ AllStopping =>
    /\ mpc' = "join" => AllStopping'
    /\ \A s \in Services, k \in Numbers :
         spc'[s][k] = spc[s][k] \/ StepsLeft(spc'[s][k]) < StepsLeft(spc[s][k])

(***************************************************************************)
(* While StopServices() waits for threads none of which was just starting, *)
(* nothing starts one or sets its status back, and each makes only a few   *)
(* more steps, whatever requests still come.                               *)
(***************************************************************************)
THEOREM WindsDownCorrect == Spec => [][WindsDown]_vars
<1>1. RMIInv /\ Next => WindsDown
  <2> SUFFICES ASSUME RMIInv, Next, mpc = "join", AllStopping
               PROVE  /\ mpc' = "join" => AllStopping'
                      /\ \A s \in Services, k \in Numbers :
                           spc'[s][k] = spc[s][k] \/ StepsLeft(spc'[s][k]) < StepsLeft(spc[s][k])
    BY DEF WindsDown
  <2>0. spc \in [Services -> [Numbers -> InstanceSteps]]
    BY DEF RMIInv, TypeOK
  <2>1. ASSUME NEW s \in Services, NEW k \in Numbers, InstanceStep(s, k)
        PROVE  /\ AllStopping'
               /\ \A t \in Services, j \in Numbers :
                    spc'[t][j] = spc[t][j] \/ StepsLeft(spc'[t][j]) < StepsLeft(spc[t][j])
    <3>1. PICK to \in {"check", "poll", "invoke", "reply", "ended"} :
            /\ spc' = [spc EXCEPT ![s][k] = to] /\ status' = status
            /\ StepsLeft(to) < StepsLeft(spc[s][k])
      <4>1. ~Bind(s, k) /\ status[s] = "STOPPED"
        BY DEF Bind, Goto, AllStopping
      <4> QED
        BY <2>1, <4>1 DEF InstanceStep, Check, ServicePoll, Invoke, Reply, Goto, StepsLeft
    <3>2. \A t \in Services, j \in Numbers :
            IF t = s /\ j = k THEN spc'[t][j] = to ELSE spc'[t][j] = spc[t][j]
      BY <2>0, <3>1
    <3> QED
      BY <3>1, <3>2 DEF AllStopping
  <2>2. CASE ~\E s \in Services, k \in Numbers : InstanceStep(s, k)
    <3>1. UNCHANGED <<spc, status>>
      BY <2>2 DEF Next, Lookup, Request, ProxyGoto, Stop, Start, ManagerStep, Poll, Find,
                  Launch, Assign, Answer, StopServices, Join, Manager
    <3> QED
      BY <3>1 DEF AllStopping
  <2> QED
    BY <2>1, <2>2
<1>2. RMIInv /\ [Next]_vars => [WindsDown]_vars
  BY <1>1
<1> QED
  BY <1>2, RMIInvariant, PTL DEF Spec
=============================================================================
