--------------------------------- MODULE RMI ---------------------------------
(***************************************************************************)
(* RMI.h: a service manager, its services, and proxies that call them.     *)
(*                                                                         *)
(* A ServiceProxy asks the manager for the URI of a service, connects to   *)
(* it and then calls the service directly, one call at a time.  The        *)
(* manager starts a service, in a thread of its own, when it is asked for  *)
(* one that is STOPPED.  That the service is STARTED, however, is set by   *)
(* the new thread: until then the manager may start it again, as a second  *)
(* instance, and a request to stop it is lost.                             *)
(*                                                                         *)
(* ServiceManager::Start() runs in one thread, Stop() is called by others, *)
(* each proxy has a thread of its own.  A method that throws is answered   *)
(* with the text of the exception in place of a result; either is a reply. *)
(***************************************************************************)
EXTENDS Integers, Sequences, FiniteSets

CONSTANTS
  Services,      \* the services added to the manager
  Proxies,       \* the clients
  Wanted,        \* the service each of them asks for, which may not exist
  MaxCalls,      \* bound: calls of each proxy
  MaxInstances,  \* bound: threads started for each service
  MaxStarts,     \* bound: calls of ServiceManager::Start()
  BindMayFail,   \* whether zmq_bind may fail though nobody else has the URI
  Nobody         \* no proxy

ASSUME RMIAssumption ==
  /\ MaxCalls \in Nat /\ MaxInstances \in Nat /\ MaxStarts \in Nat
  /\ BindMayFail \in BOOLEAN /\ Nobody \notin Proxies
  /\ DOMAIN Wanted = Proxies

VARIABLES
  mpc, cur,   \* where the manager is, and the proxy it serves
  lookups,    \* requests in the socket of the manager
  mstop,      \* stop_ of the manager
  starts,     \* calls of ServiceManager::Start() so far
  joined,     \* services whose future StopServices() has dealt with
  status,     \* status_ of each service
  launched,   \* threads started for each service
  future,     \* the one serviceFutures_ holds: -1 no entry, 0 an entry without state
  requests,   \* requests in the socket of each service
  spc, work,  \* where each instance is, and the proxy it serves
  ppc, calls, \* where each proxy is, and its calls so far
  executed,   \* calls whose method was invoked
  repeated    \* history: those for which it was invoked again

managerVars == <<mpc, cur, mstop, starts, joined, launched, future>>
execVars == <<executed, repeated>>
vars == <<managerVars, lookups, status, requests, spc, work, ppc, calls, execVars>>

Numbers == 1 .. MaxInstances
Calls == Proxies \X (1 .. MaxCalls)

InstanceSteps == {"unborn", "bind", "check", "poll", "invoke", "reply", "ended", "threw"}

Finished(s, k) == spc[s][k] \in {"ended", "threw"}
Alive(s, k) == spc[s][k] # "unborn" /\ ~Finished(s, k)

TypeOK ==
  /\ mpc \in {"idle", "poll", "find", "launch", "assign", "answer", "stop", "join",
              "stopped", "threw"}
  /\ cur \in Proxies \cup {Nobody}
  /\ lookups \in Seq(Proxies)
  /\ mstop \in BOOLEAN
  /\ starts \in 0 .. MaxStarts
  /\ joined \subseteq Services
  /\ status \in [Services -> {"STARTED", "STOPPED"}]
  /\ launched \in [Services -> 0 .. MaxInstances]
  /\ future \in [Services -> -1 .. MaxInstances]
  /\ requests \in [Services -> Seq(Proxies)]
  /\ spc \in [Services -> [Numbers -> InstanceSteps]]
  /\ work \in [Services -> [Numbers -> Proxies \cup {Nobody}]]
  /\ ppc \in [Proxies -> {"new", "lookup", "ready", "waiting", "failed"}]
  /\ calls \in [Proxies -> 0 .. MaxCalls]
  /\ executed \subseteq Calls /\ repeated \subseteq Calls

Init ==
  /\ mpc = "idle" /\ cur = Nobody /\ lookups = <<>>
  /\ mstop = FALSE /\ starts = 0 /\ joined = {}
  /\ status = [s \in Services |-> "STOPPED"]
  /\ launched = [s \in Services |-> 0]
  /\ future = [s \in Services |-> -1]
  /\ requests = [s \in Services |-> <<>>]
  /\ spc = [s \in Services |-> [k \in Numbers |-> "unborn"]]
  /\ work = [s \in Services |-> [k \in Numbers |-> Nobody]]
  /\ ppc = [p \in Proxies |-> "new"]
  /\ calls = [p \in Proxies |-> 0]
  /\ executed = {} /\ repeated = {}

-----------------------------------------------------------------------------
(* ServiceProxy *)

ProxyGoto(p, from, to) ==
  /\ ppc[p] = from
  /\ ppc' = [ppc EXCEPT ![p] = to]
  /\ UNCHANGED <<managerVars, status, spc, work, execVars>>

\* The constructor asks the manager for the URI, and blocks.
Lookup(p) ==
  /\ ProxyGoto(p, "new", "lookup")
  /\ lookups' = Append(lookups, p)
  /\ UNCHANGED <<requests, calls>>

\* Request() and RemoteInvoker send a request to the service, and block.
Request(p) ==
  /\ calls[p] < MaxCalls
  /\ ProxyGoto(p, "ready", "waiting")
  /\ calls' = [calls EXCEPT ![p] = @ + 1]
  /\ requests' = [requests EXCEPT ![Wanted[p]] = Append(@, p)]
  /\ UNCHANGED lookups

-----------------------------------------------------------------------------
(* ServiceManager *)

Manager(from, to) ==
  /\ mpc = from
  /\ mpc' = to
  /\ UNCHANGED <<requests, work, calls, execVars>>

\* Stop(), in any thread.
Stop ==
  /\ mstop' = TRUE
  /\ UNCHANGED <<mpc, cur, starts, joined, launched, future>>
  /\ UNCHANGED <<lookups, status, requests, spc, work, ppc, calls, execVars>>

\* Start() sets stop_ = false, whatever was asked for before, and binds.
Start ==
  /\ starts < MaxStarts
  /\ \E from \in {"idle", "stopped", "threw"} :
       Manager(from, "poll") \/ (BindMayFail /\ Manager(from, "threw"))
  /\ starts' = starts + 1
  /\ mstop' = FALSE
  /\ UNCHANGED <<lookups, cur, joined, status, launched, future, spc, ppc>>

\* while(!stop_), zmq_poll and, if there is a request, receive it.
Poll ==
  /\ \/ /\ mstop
        /\ Manager("poll", "stop")
        /\ UNCHANGED <<cur, lookups>>
     \/ /\ ~mstop /\ lookups # <<>>
        /\ Manager("poll", "find")
        /\ cur' = Head(lookups) /\ lookups' = Tail(lookups)
  /\ UNCHANGED <<mstop, starts, joined, status, launched, future, spc, ppc>>

\* A service that does not exist is answered with an error text, on which the
\* proxy's zmq_connect fails.  One that is STOPPED is started.
Find ==
  LET s == Wanted[cur] IN
  /\ mpc = "find"
  /\ \/ /\ s \notin Services
        /\ Manager("find", "poll")
        /\ ppc' = [ppc EXCEPT ![cur] = "failed"]
     \/ /\ s \in Services
        /\ Manager("find", IF status[s] = "STOPPED" THEN "launch" ELSE "answer")
        /\ UNCHANGED ppc
  /\ UNCHANGED <<cur, lookups, mstop, starts, joined, status, launched, future, spc>>

\* std::async
Launch ==
  LET s == Wanted[cur] IN
  /\ mpc = "launch" /\ launched[s] < MaxInstances
  /\ Manager("launch", "assign")
  /\ launched' = [launched EXCEPT ![s] = @ + 1]
  /\ spc' = [spc EXCEPT ![s][launched[s] + 1] = "bind"]
  /\ UNCHANGED <<cur, lookups, mstop, starts, joined, status, future, ppc>>

\* Mutant: the new future is dropped.
AssignNot ==
  /\ Manager("assign", "answer")
  /\ UNCHANGED <<cur, lookups, mstop, starts, joined, status, launched, future, spc, ppc>>

\* serviceFutures_[serviceName] = std::move(f): the old future waits for its thread.
Assign ==
  LET s == Wanted[cur] IN
  /\ Manager("assign", "answer")
  /\ future[s] > 0 => Finished(s, future[s])
  /\ future' = [future EXCEPT ![s] = launched[s]]
  /\ UNCHANGED <<cur, lookups, mstop, starts, joined, status, launched, spc, ppc>>

\* The URI is sent, and the proxy connects to it.
Answer ==
  /\ Manager("answer", "poll")
  /\ ppc' = [ppc EXCEPT ![cur] = "ready"]
  /\ UNCHANGED <<cur, lookups, mstop, starts, joined, status, launched, future, spc>>

\* ZCleanup, which may drop the requests that have arrived; StopServices() sets
\* every status_ to STOPPED.
StopServices ==
  /\ Manager("stop", "join")
  /\ status' = [s \in Services |-> "STOPPED"]
  /\ joined' = {}
  /\ lookups' \in {lookups, <<>>}
  /\ UNCHANGED <<cur, mstop, starts, launched, future, spc, ppc>>

\* Then it calls get() on every future.  get() throws what the thread threw; it
\* leaves an entry without state, on which the get() of a later Stop() throws.
Join ==
  /\ \/ /\ joined = Services
        /\ Manager("join", "stopped")
        /\ UNCHANGED <<joined, future>>
     \/ \E s \in Services \ joined :
          /\ future[s] > 0 => Finished(s, future[s])
          /\ Manager("join", IF future[s] = 0 \/ (future[s] > 0 /\ spc[s][future[s]] = "threw")
                             THEN "threw" ELSE "join")
          /\ joined' = joined \cup {s}
          /\ future' = [future EXCEPT ![s] = IF @ > 0 THEN 0 ELSE @]
  /\ UNCHANGED <<cur, lookups, mstop, starts, status, launched, spc, ppc>>

ManagerStep ==
  Poll \/ Find \/ Launch \/ Assign \/ Answer \/ StopServices \/ Join

-----------------------------------------------------------------------------
(* Service::Start(), in thread k of service s *)

Goto(s, k, from, to) ==
  /\ spc[s][k] = from
  /\ spc' = [spc EXCEPT ![s][k] = to]
  /\ UNCHANGED <<managerVars, lookups, calls>>

\* zmq_bind fails if the URI is taken (over ipc it takes over), then the thread
\* ends; else status_ = STARTED.
Bind(s, k) ==
  /\ \/ /\ Goto(s, k, "bind", "check")
        /\ status' = [status EXCEPT ![s] = "STARTED"]
     \/ /\ BindMayFail \/ \E j \in Numbers : Alive(s, j) /\ spc[s][j] # "bind"
        /\ Goto(s, k, "bind", "threw")
        /\ UNCHANGED status
  /\ UNCHANGED <<requests, work, ppc, execVars>>

\* Mutant: the loop ends when there is nothing to do.
CheckIdle(s, k) ==
  /\ Goto(s, k, "check", IF status[s] = "STOPPED" \/ requests[s] = <<>> THEN "ended" ELSE "poll")
  /\ UNCHANGED <<status, requests, work, ppc, execVars>>

\* Mutant: the status is not read again.
CheckOnce(s, k) ==
  /\ Goto(s, k, "check", "poll")
  /\ UNCHANGED <<status, requests, work, ppc, execVars>>

\* while(status_ != STOPPED); closing the socket may drop what it has received.
Check(s, k) ==
  /\ \/ /\ status[s] = "STARTED"
        /\ Goto(s, k, "check", "poll")
        /\ UNCHANGED requests
     \/ /\ status[s] = "STOPPED"
        /\ Goto(s, k, "check", "ended")
        /\ requests' \in {requests, [requests EXCEPT ![s] = <<>>]}
  /\ UNCHANGED <<status, work, ppc, execVars>>

\* Mutant: a request stays in the socket until it is answered.
PollPeeks(s, k) ==
  /\ \/ /\ requests[s] = <<>>
        /\ Goto(s, k, "poll", "check")
        /\ UNCHANGED work
     \/ /\ requests[s] # <<>>
        /\ Goto(s, k, "poll", "invoke")
        /\ work' = [work EXCEPT ![s][k] = Head(requests[s])]
  /\ UNCHANGED <<status, requests, ppc, execVars>>

\* zmq_poll and, if there is a request, receive it.
ServicePoll(s, k) ==
  /\ \/ /\ requests[s] = <<>>
        /\ Goto(s, k, "poll", "check")
        /\ UNCHANGED <<requests, work>>
     \/ /\ requests[s] # <<>>
        /\ Goto(s, k, "poll", "invoke")
        /\ work' = [work EXCEPT ![s][k] = Head(requests[s])]
        /\ requests' = [requests EXCEPT ![s] = Tail(@)]
  /\ UNCHANGED <<status, ppc, execVars>>

\* methods_[reqid].Invoke
Invoke(s, k) ==
  LET c == <<work[s][k], calls[work[s][k]]>> IN
  /\ Goto(s, k, "invoke", "reply")
  /\ executed' = executed \cup {c}
  /\ repeated' = IF c \in executed THEN repeated \cup {c} ELSE repeated
  /\ UNCHANGED <<status, requests, work, ppc>>

\* The result or the exception is sent, and the proxy's call returns or throws.
Reply(s, k) ==
  /\ Goto(s, k, "reply", "check")
  /\ ppc' = [ppc EXCEPT ![work[s][k]] = "ready"]
  /\ work' = [work EXCEPT ![s][k] = Nobody]
  /\ UNCHANGED <<status, requests, execVars>>

InstanceStep(s, k) ==
  Bind(s, k) \/ Check(s, k) \/ ServicePoll(s, k) \/ Invoke(s, k) \/ Reply(s, k)

-----------------------------------------------------------------------------

Next ==
  \/ \E p \in Proxies : Lookup(p) \/ Request(p)
  \/ Stop \/ Start \/ ManagerStep
  \/ \E s \in Services, k \in Numbers : InstanceStep(s, k)

Spec == Init /\ [][Next]_vars

\* Threads run, methods return.  Nothing makes anyone call Start() or Stop(), or
\* a proxy make a call.
Fairness ==
  /\ WF_vars(ManagerStep)
  /\ \A s \in Services, k \in Numbers : WF_vars(InstanceStep(s, k))

FairSpec == Spec /\ Fairness

-----------------------------------------------------------------------------

\* Each call of a proxy is a remote call, in terms of module RemoteCall.
Phase(c) ==
  IF c[2] > calls[c[1]] THEN "idle"
  ELSE IF c[2] = calls[c[1]] /\ ppc[c[1]] = "waiting" THEN "sent"
  ELSE "replied"

Executions(c) ==
  IF c \notin executed THEN 0 ELSE IF c \in repeated THEN 2 ELSE 1

Abstract == INSTANCE RemoteCall
  WITH phase <- [c \in Calls |-> Phase(c)], stopping <- FALSE,
       executed <- [c \in Calls |-> Executions(c)]

(***************************************************************************)
(* A call returns only after its method was executed, once, and no method  *)
(* is executed twice for a call, however many instances a service has.     *)
(***************************************************************************)
RemoteCalls == Abstract!Spec

(***************************************************************************)
(* When StopServices() returns no service is running any more, also after  *)
(* a service was started twice.                                            *)
(***************************************************************************)
NoServiceAfterStop ==
  mpc = "stopped" => \A s \in Services, k \in Numbers : ~Alive(s, k)

(***************************************************************************)
(* A call is answered until the manager is stopped for the first time,     *)
(* even when it has started the service again or is blocked in doing so,   *)
(* unless every thread of the service failed to bind.                      *)
(***************************************************************************)
CallsAreAnswered ==
  \A p \in {q \in Proxies : Wanted[q] \in Services} :
    ppc[p] = "waiting" ~>
      \/ ppc[p] = "ready" \/ mpc \in {"stop", "join", "stopped", "threw"} \/ starts > 1
      \/ \A k \in Numbers : spc[Wanted[p]][k] \in {"unborn", "threw"}

(***************************************************************************)
(* StopServices() returns, or throws, unless a service is just starting    *)
(* when it is called: that one overwrites its request to stop.             *)
(***************************************************************************)
StopServicesReturns ==
  (/\ mpc = "join"
   /\ \A s \in Services : status[s] = "STOPPED" /\ \A k \in Numbers : spc[s][k] # "bind")
  ~> mpc \in {"stopped", "threw"}
=============================================================================
