---------------------------- MODULE RemoteMethods ----------------------------
(***************************************************************************)
(* The methods of a service of RMI.h, and the buffers of a proxy that      *)
(* calls them, one call at a time.                                         *)
(*                                                                         *)
(* A program adds methods to a Service, by id, and gives the manager a     *)
(* copy of it; the copy has clones of the methods.  A call sends its       *)
(* arguments, if there are any, packed.  Service::Start passes them to the *)
(* method from its own buffer, and answers with a status and the result,   *)
(* which is empty for a void method.  The proxy receives into a buffer     *)
(* that lives as long as itself: Request() unpacks it at once, operator[]  *)
(* returns a wrapper that refers to it and unpacks it when it is used.     *)
(*                                                                         *)
(* The arguments are packed as one tuple, and so as the memory of the      *)
(* tuple: bytes, if all of them are POD, else objects that refer to memory *)
(* of their own or, as a short string does, to themselves.  The receiver   *)
(* takes its copy of that memory for a tuple, whose references lead to the *)
(* buffer of the proxy, or to what it owns, if the service is in the same  *)
(* process, and anywhere in another one.  Results have serializers of      *)
(* their own here, as vectors, strings and PODs have.                      *)
(*                                                                         *)
(* A result is the id of its method and the call whose arguments it was    *)
(* computed from, 0 for none.  Module RMI has the threads and the sockets. *)
(***************************************************************************)
EXTENDS Integers, FiniteSets

CONSTANTS
  Ids,        \* the ids that are called, from 1
  TakesArgs,  \* those of methods with arguments
  NotPod,     \* those with arguments that are not POD, like strings
  IsVoid,     \* those of void methods
  Throws,     \* those of methods that throw
  Long,       \* those whose result does not fit into the buffer of the proxy
  MaxUses     \* bound: calls of the proxy; they are numbered

ASSUME MethodsAssumption ==
  /\ Ids \subseteq Nat \ {0}
  /\ TakesArgs \subseteq Ids /\ NotPod \subseteq TakesArgs /\ IsVoid \subseteq Ids
  /\ Throws \subseteq Ids /\ Long \subseteq Ids
  /\ MaxUses \in Nat

VARIABLES
  added,    \* ids of the methods of the program's Service
  given,    \* whether the manager has its copy
  methods,  \* methods_ of the copy: "none", "empty" (EmptyMethod) or "method"
  uses,     \* calls so far
  call,     \* the id of the last call, and whether it is a Request()
  caller,   \* where the proxy is: "idle", "sent", "answered" or "lost" for ever
  apart,    \* whether the service is in another process
  sendBuf,  \* the buffer the proxy sends: the call whose arguments it holds, 0 if empty
  args,     \* the buffer of the service: whose arguments it holds
  rep,      \* the reply
  recvBuf,  \* the buffer of the proxy
  wrapper,  \* the call whose wrapper the program holds, 0 for none, and its id
  outcome   \* what was read last: by which call, of which id, after which calls

proxyVars == <<uses, call, sendBuf, recvBuf, wrapper, outcome>>
methodVars == <<added, given, apart, methods, caller, args, rep, proxyVars>>

NoCall == [n |-> 0, id |-> 0]
Data(id, a) == [id |-> id, args |-> a]
Empty == Data(0, 0)     \* no bytes
ErrorText == Data(-1, 0)
Garbled == Data(-2, 0)  \* what UnPack makes of a message that was cut off
Wild == -1              \* arguments nobody has sent
Error == [ok |-> FALSE, data |-> ErrorText]

MethodsInit ==
  /\ added = {} /\ given = FALSE /\ apart = FALSE
  /\ methods = [id \in Ids |-> "none"]
  /\ uses = 0 /\ call = [id |-> 0, request |-> FALSE] /\ caller = "idle"
  /\ sendBuf = 0 /\ args = 0 /\ rep = [ok |-> TRUE, data |-> Empty] /\ recvBuf = Empty
  /\ wrapper = NoCall
  /\ outcome = [use |-> NoCall, last |-> 0, ok |-> TRUE, data |-> Empty]

-----------------------------------------------------------------------------

\* Service::Add of the program's object.
AddMethod(id) ==
  /\ uses = 0 /\ id \notin added
  /\ added' = added \cup {id}
  /\ UNCHANGED <<given, apart, methods, caller, args, rep, proxyVars>>

\* The copy of a MethodImpl has a Clone() of its method.
Copied == [id \in Ids |-> IF id \in added THEN "method" ELSE "none"]

\* ServiceManager::Add copies the Service.  The proxy is in the same process,
\* as in RMITest, or in another one.
AddService ==
  /\ ~given
  /\ given' = TRUE
  /\ methods' = Copied
  /\ apart' \in BOOLEAN
  /\ UNCHANGED <<added, caller, args, rep, proxyVars>>

\* Request(id, ...), which does not compile without arguments, or [id](...).
Use(id, request) ==
  /\ given /\ caller = "idle" /\ uses < MaxUses
  /\ request => id \in TakesArgs
  /\ uses' = uses + 1
  /\ call' = [id |-> id, request |-> request]
  /\ sendBuf' = IF id \in TakesArgs THEN uses' ELSE 0
  /\ caller' = "sent"
  /\ UNCHANGED <<added, given, apart, methods, args, rep, recvBuf, wrapper, outcome>>

\* Mutant: the method gets what the buffer held before.
StaleArgs == args

\* The arguments that are received, if there is more.
ReceivedArgs == IF sendBuf # 0 THEN sendBuf ELSE args

\* The method would get arguments that refer to memory of another process.
Astray(id) == apart /\ id \in NotPod

\* UnPack of the tuple of arguments in the buffer of the service.
UnPackedArgs(id, a) ==
  IF Astray(id) THEN Wild ELSE IF id \in NotPod THEN sendBuf ELSE a

\* Method::Invoke unpacks the arguments, calls the function and packs what it
\* returns, if that is not void.  EmptyMethod throws.
Invoke(id, a) ==
  IF methods[id] # "method" \/ id \in Throws THEN Error
  ELSE [ok |-> TRUE, data |-> IF id \in IsVoid THEN Empty
                              ELSE Data(id, IF id \in TakesArgs THEN UnPackedArgs(id, a) ELSE 0)]

\* The loop of Service::Start: methods_[reqid], which inserts an EmptyMethod for
\* an id that is not there; what Invoke throws is sent with SERVICE_ERROR, as
\* what copying a wild argument may throw.
Execute ==
  /\ caller = "sent"
  /\ caller' = "answered"
  /\ methods' = [methods EXCEPT ![call.id] = IF @ = "none" THEN "empty" ELSE @]
  /\ args' = ReceivedArgs
  /\ \/ rep' = Invoke(call.id, ReceivedArgs)
     \/ Astray(call.id) /\ rep' = Error
  /\ UNCHANGED <<added, given, apart, proxyVars>>

\* Or the process of the service crashes on them, and the proxy waits for ever.
Crash ==
  /\ caller = "sent" /\ Astray(call.id) /\ methods[call.id] = "method"
  /\ caller' = "lost"
  /\ UNCHANGED <<added, given, apart, methods, args, rep, proxyVars>>

\* zmq_recv into recvBuf_: an empty message leaves what is there.
Overwritten ==
  IF rep.data = Empty THEN recvBuf
  ELSE IF rep.ok /\ call.id \in Long THEN Garbled
  ELSE rep.data

Read(n, id, ok, data) == [use |-> [n |-> n, id |-> id], last |-> uses, ok |-> ok, data |-> data]

\* The end of Send(): a status SERVICE_ERROR is thrown.  Request() unpacks the
\* buffer, operator() returns a wrapper.
EndCall ==
  /\ caller = "answered"
  /\ caller' = "idle"
  /\ recvBuf' = Overwritten
  /\ \/ /\ ~rep.ok \/ call.request
        /\ outcome' = Read(uses, call.id, rep.ok, recvBuf')
        /\ UNCHANGED wrapper
     \/ /\ rep.ok /\ ~call.request
        /\ wrapper' = [n |-> uses, id |-> call.id]
        /\ UNCHANGED outcome
  /\ UNCHANGED <<added, given, apart, methods, uses, call, sendBuf, args, rep>>

\* ByteArrayWrapper::operator T()
Convert ==
  /\ caller = "idle" /\ wrapper # NoCall
  /\ outcome' = Read(wrapper.n, wrapper.id, TRUE, recvBuf)
  /\ UNCHANGED <<added, given, apart, methods, uses, call, caller, sendBuf, args, rep,
                 recvBuf, wrapper>>

MethodsNext ==
  \/ \E id \in Ids : AddMethod(id) \/ \E request \in BOOLEAN : Use(id, request)
  \/ AddService \/ Execute \/ Crash \/ EndCall \/ Convert

MethodsSpec == MethodsInit /\ [][MethodsNext]_methodVars

-----------------------------------------------------------------------------

\* The calls whose method is there and returns.
Works(id) == methods[id] = "method" /\ id \notin Throws

(***************************************************************************)
(* A call throws exactly if its method throws, or was not in the Service   *)
(* when the manager took its copy.  A result that fits into the buffer of  *)
(* the proxy is the one of its own call, computed from the arguments of    *)
(* that call, when it is read before the proxy makes another call.  So     *)
(* unless the arguments are not all POD and the service is elsewhere.      *)
(***************************************************************************)
ResultIsOwn ==
  LET use == outcome.use IN
  use.n # 0 /\ ~Astray(use.id) =>
    /\ outcome.ok = Works(use.id)
    /\ Works(use.id) => use.id \in added
    /\ (outcome.ok /\ outcome.last = use.n /\ use.id \notin IsVoid \cup Long) =>
         outcome.data = Data(use.id, IF use.id \in TakesArgs THEN use.n ELSE 0)
=============================================================================
