--------------------------- MODULE ExchangesProofs ---------------------------
(***************************************************************************)
(* HandShake, AddressExchange, SyncClientServer, RemoteMethods, PushPull   *)
(* and Archive without the bounds of the runs.                             *)
(***************************************************************************)
EXTENDS AddressExchange, HandShake, SyncClientServer, RemoteMethods, PushPull,
        Archive, SequenceLemmas

(***************************************************************************)
(* An echo exists, or has been heard, only for a host whose address a      *)
(* receiver has; it hears one host only, so that address does not change.  *)
(***************************************************************************)
KnownTo(h) ==
  \E r \in Receivers : receiver[r] \in {"echoed", "returned"} /\ address[r] = h

EchoMeansKnown ==
  /\ AddrTypeOK
  /\ \A h \in Hosts : h \in echoes \/ sender[h] = "true" => KnownTo(h)
  /\ \A r \in Receivers : receiver[r] = "echo" => address[r] \in Hosts

LEMMA EchoInvariant == AddrSpec => []EchoMeansKnown
<1>1. AddrInit => EchoMeansKnown
  BY DEF AddrInit, EchoMeansKnown, AddrTypeOK
<1>2. EchoMeansKnown /\ [AddrNext]_addrVars => EchoMeansKnown'
  <2> SUFFICES ASSUME EchoMeansKnown, [AddrNext]_addrVars
               PROVE  EchoMeansKnown'
    OBVIOUS
  <2> USE DEF EchoMeansKnown, AddrTypeOK, KnownTo
  <2>1. ASSUME NEW h \in Hosts, SayHello(h)
        PROVE  EchoMeansKnown'
    BY <2>1 DEF SayHello, SenderGoto
  <2>2. ASSUME NEW h \in Hosts, HearEcho(h)
        PROVE  EchoMeansKnown'
    BY <2>2 DEF HearEcho, SenderGoto, Delivered
  <2>3. ASSUME NEW h \in Hosts, LoseDatagram(h)
        PROVE  EchoMeansKnown'
    BY <2>3 DEF LoseDatagram
  <2>4. ASSUME NEW r \in Receivers, BindPort(r)
        PROVE  EchoMeansKnown'
    BY <2>4 DEF BindPort, ReceiverGoto
  <2>5. ASSUME NEW r \in Receivers, NEW h \in Hosts, HearHello(r, h)
        PROVE  EchoMeansKnown'
    BY <2>5 DEF HearHello, ReceiverGoto, Delivered
  <2>6. ASSUME NEW r \in Receivers, Echo(r)
        PROVE  EchoMeansKnown'
    BY <2>6 DEF Echo, EchoedTo, ReceiverGoto
  <2>7. ASSUME NEW r \in Receivers, ReturnAddress(r)
        PROVE  EchoMeansKnown'
    BY <2>7 DEF ReturnAddress, ReceiverGoto
  <2>8. CASE UNCHANGED addrVars
    BY <2>8 DEF addrVars
  <2> QED
    BY <2>1, <2>2, <2>3, <2>4, <2>5, <2>6, <2>7, <2>8 DEF AddrNext
<1> QED
  BY <1>1, <1>2, PTL DEF AddrSpec

(***************************************************************************)
(* "verify that received message is the same as the one sent": when        *)
(* SendAddress returns true some ReceiveAddress has the address of that    *)
(* very host, and has returned it or has only to return it, whatever the   *)
(* network did.                                                            *)
(***************************************************************************)
THEOREM TrueMeansKnownCorrect == AddrSpec => []TrueMeansKnown
<1>1. EchoMeansKnown => TrueMeansKnown
  BY DEF EchoMeansKnown, KnownTo, TrueMeansKnown
<1> QED
  BY <1>1, EchoInvariant, PTL

-----------------------------------------------------------------------------

(***************************************************************************)
(* Where the requests in a responder's socket are after an operation.      *)
(***************************************************************************)
InSocket(i, s) == \E k \in DOMAIN s : s[k] = i

Distinct(s) == \A j, k \in DOMAIN s : s[j] = s[k] => j = k

LEMMA AppendSocket ==
  ASSUME NEW s \in Seq(Initiators), NEW i \in Initiators
  PROVE  /\ Append(s, i) \in Seq(Initiators)
         /\ \A j : InSocket(j, Append(s, i)) <=> InSocket(j, s) \/ j = i
         /\ Distinct(s) /\ ~InSocket(i, s) => Distinct(Append(s, i))
<1>1. /\ DOMAIN s = 1 .. Len(s) /\ Len(s) \in Nat
      /\ DOMAIN Append(s, i) = 1 .. Len(s) + 1
      /\ \A k \in 1 .. Len(s) : Append(s, i)[k] = s[k]
      /\ Append(s, i)[Len(s) + 1] = i
  OBVIOUS
<1>2. ASSUME NEW j
      PROVE  InSocket(j, Append(s, i)) <=> InSocket(j, s) \/ j = i
  <2>1. InSocket(j, s) => InSocket(j, Append(s, i))
    BY <1>1 DEF InSocket
  <2>2. Len(s) + 1 \in DOMAIN Append(s, i)
    BY <1>1
  <2>3. j = i => InSocket(j, Append(s, i))
    BY <1>1, <2>2 DEF InSocket
  <2>4. ASSUME NEW k \in DOMAIN Append(s, i), Append(s, i)[k] = j
        PROVE  InSocket(j, s) \/ j = i
    <3>1. k \in 1 .. Len(s) \/ k = Len(s) + 1
      BY <1>1
    <3> QED
      BY <1>1, <2>4, <3>1 DEF InSocket
  <2> QED
    BY <2>1, <2>3, <2>4 DEF InSocket
<1>3. Distinct(s) /\ ~InSocket(i, s) => Distinct(Append(s, i))
  BY <1>1 DEF Distinct, InSocket
<1> QED
  BY <1>2, <1>3

LEMMA TailSocket ==
  ASSUME NEW s \in Seq(Initiators), s # <<>>
  PROVE  /\ Tail(s) \in Seq(Initiators) /\ Head(s) \in Initiators
         /\ \A j : InSocket(j, Tail(s)) => InSocket(j, s)
         /\ InSocket(Head(s), s)
         /\ Distinct(s) => Distinct(Tail(s)) /\ ~InSocket(Head(s), Tail(s))
<1>1. /\ DOMAIN s = 1 .. Len(s) /\ Len(s) \in Nat \ {0}
      /\ DOMAIN Tail(s) = 1 .. Len(s) - 1
      /\ \A k \in 1 .. Len(s) - 1 : Tail(s)[k] = s[k + 1]
      /\ Head(s) = s[1]
  OBVIOUS
<1>2. \A j : InSocket(j, Tail(s)) => InSocket(j, s)
  BY <1>1 DEF InSocket
<1>3. InSocket(Head(s), s)
  BY <1>1 DEF InSocket
<1>4. Distinct(s) => Distinct(Tail(s)) /\ ~InSocket(Head(s), Tail(s))
  BY <1>1 DEF Distinct, InSocket
<1> QED
  BY <1>2, <1>3, <1>4

(***************************************************************************)
(* A request is in one place: not sent, on its way, in the socket, or with *)
(* the one responder that took it; a reply is to the request taken.        *)
(***************************************************************************)
OneResponder ==
  /\ Distinct(socket)
  /\ \A i \in Initiators :
       /\ party[i] = "new" => ~(i \in outgoing) /\ ~InSocket(i, socket)
                              /\ \A r \in Responders : peer[r] # i
       /\ InSocket(i, socket) => i \notin outgoing
       /\ \A r \in Responders : peer[r] = i => i \notin outgoing /\ ~InSocket(i, socket)
  /\ \A r, q \in Responders : peer[r] = peer[q] /\ peer[r] # None => r = q

RepliesMatch ==
  /\ \A r \in Responders :
       /\ party[r] \in {"new", "waiting", "failed"} => peer[r] = None
       /\ party[r] \in {"answering", "closing", "returned"} => peer[r] \in Initiators
       /\ party[r] \in {"closing", "returned"} => reply[peer[r]] = r
       /\ party[r] = "returned" => learnt[r] = UnPacked(peer[r])
  /\ \A i \in Initiators :
       /\ reply[i] # None => /\ reply[i] \in Responders /\ peer[reply[i]] = i
                             /\ party[reply[i]] \in {"closing", "returned"}
       /\ party[i] = "returned" => reply[i] # None /\ learnt[i] = UnPacked(reply[i])

ShakeInv == ShakeTypeOK /\ OneResponder /\ RepliesMatch

LEMMA ShakeInvariant == ShakeSpec => []ShakeInv
<1>1. ShakeInit => ShakeInv
  <2> SUFFICES ASSUME ShakeInit
               PROVE  ShakeInv
    OBVIOUS
  <2>1. ShakeTypeOK
    BY ShakeAssumption DEF ShakeInit, ShakeTypeOK, PartyStates, Parties
  <2>2. OneResponder /\ RepliesMatch
    BY ShakeAssumption
    DEF ShakeInit, OneResponder, RepliesMatch, Distinct, InSocket, Parties
  <2> QED
    BY <2>1, <2>2 DEF ShakeInv
<1>2. ShakeInv /\ [ShakeNext]_shakeVars => ShakeInv'
  <2> SUFFICES ASSUME ShakeInv, [ShakeNext]_shakeVars
               PROVE  ShakeInv'
    OBVIOUS
  <2> USE DEF ShakeInv, ShakeTypeOK, PartyStates, Parties, OneResponder, RepliesMatch
  <2>0. /\ Initiators \cap Responders = {} /\ None \notin Parties
        /\ \A p \in Parties : UnPacked(p) \in Parties \cup {Garbage}
    BY ShakeAssumption DEF UnPacked
  <2>1. ASSUME NEW i \in Initiators, Initiate(i)
        PROVE  ShakeInv'
    BY <2>0, <2>1 DEF Initiate, PartyGoto
  <2>2. ASSUME NEW r \in Responders, Respond(r)
        PROVE  ShakeInv'
    BY <2>0, <2>2 DEF Respond, PartyGoto
  <2>3. ASSUME NEW i \in Initiators, CarryRequest(i)
        PROVE  ShakeInv'
    BY <2>0, <2>3, AppendSocket DEF CarryRequest
  <2>4. ASSUME NEW r \in Responders, TakeRequest(r)
        PROVE  ShakeInv'
    BY <2>0, <2>4, TailSocket DEF TakeRequest, PartyGoto
  <2>5. ASSUME NEW r \in Responders, SendReply(r)
        PROVE  ShakeInv'
    BY <2>0, <2>5 DEF SendReply, Answered, PartyGoto
  <2>6. ASSUME NEW r \in Responders, CloseResponder(r)
        PROVE  ShakeInv'
    <3>1. /\ party[r] = "closing" /\ party' = [party EXCEPT ![r] = "returned"]
          /\ bound' = None /\ socket' = <<>>
          /\ learnt' = [learnt EXCEPT ![r] = UnPacked(peer[r])]
          /\ UNCHANGED <<outgoing, peer, reply>>
      BY <2>6 DEF CloseResponder, PartyGoto
    <3>2. dropped' \subseteq Initiators \X Initiators
      <4>1. ToSet(socket) \subseteq Initiators
        BY DEF ToSet
      <4>2. peer[r] \in Initiators
        BY <3>1
      <4> QED
        BY <2>6, <4>1, <4>2 DEF CloseResponder
    <3>3. ShakeTypeOK'
      BY <2>0, <3>1, <3>2
    <3>4. OneResponder'
      BY <2>0, <3>1 DEF Distinct, InSocket
    <3>5. RepliesMatch'
      BY <2>0, <3>1
    <3> QED
      BY <3>3, <3>4, <3>5
  <2>7. ASSUME NEW i \in Initiators, TakeReply(i)
        PROVE  ShakeInv'
    BY <2>0, <2>7 DEF TakeReply, PartyGoto
  <2>8. CASE UNCHANGED shakeVars
    BY <2>8 DEF shakeVars, UnPacked
  <2> QED
    BY <2>1, <2>2, <2>3, <2>4, <2>5, <2>6, <2>7, <2>8 DEF ShakeNext
<1> QED
  BY <1>1, <1>2, PTL DEF ShakeSpec

(***************************************************************************)
(* Two calls of HandShake that return have learnt from each other, or      *)
(* garbage when the data did not fit.                                      *)
(***************************************************************************)
THEOREM PartnersAgreeCorrect == ShakeSpec => []PartnersAgree
<1>1. ShakeInv => PartnersAgree
  <2> SUFFICES ASSUME ShakeInv, NEW i \in Initiators, NEW r \in Responders,
                      Returned(i), Returned(r), learnt[i] = r \/ learnt[r] = i
               PROVE  learnt[r] \in {i, Garbage} /\ learnt[i] \in {r, Garbage}
    BY ShakeAssumption DEF PartnersAgree
  <2> QED
    BY ShakeAssumption
    DEF ShakeInv, ShakeTypeOK, RepliesMatch, OneResponder, UnPacked, Returned, Parties
<1> QED
  BY <1>1, ShakeInvariant, PTL

(***************************************************************************)
(* Where the request of an initiator that waits may be: on its way, in the *)
(* socket of the responder that is bound, answered by it, or gone with the *)
(* socket of one that has answered somebody else.                          *)
(***************************************************************************)
Kept(i) ==
  \/ i \in outgoing
  \/ InSocket(i, socket) /\ bound # None
  \/ \E r \in Responders : bound = r /\ party[r] = "answering" /\ peer[r] = i
  \/ reply[i] # None
  \/ \E j \in Initiators \ {i} : <<i, j>> \in dropped /\ reply[j] # None

WaitersAreKept == \A i \in Initiators : party[i] = "waiting" => Kept(i)

\* The responder that is bound is the one whose call is under way.
BoundIsBusy ==
  /\ \A r \in Responders : bound = r <=> party[r] \in {"waiting", "answering", "closing"}
  /\ socket # <<>> => bound # None

LEMMA BoundIsBusyInvariant == ShakeSpec => []BoundIsBusy
<1>1. ShakeInit => BoundIsBusy
  BY ShakeAssumption DEF ShakeInit, BoundIsBusy, Parties
<1>2. ShakeInv /\ BoundIsBusy /\ [ShakeNext]_shakeVars => BoundIsBusy'
  <2> SUFFICES ASSUME ShakeTypeOK, BoundIsBusy, [ShakeNext]_shakeVars
               PROVE  BoundIsBusy'
    BY DEF ShakeInv
  <2> USE DEF ShakeTypeOK, BoundIsBusy, PartyGoto, Parties
  <2>0. Initiators \cap Responders = {} /\ None \notin Parties
    BY ShakeAssumption
  <2>1. ASSUME NEW i \in Initiators, Initiate(i) \/ CarryRequest(i) \/ TakeReply(i)
        PROVE  BoundIsBusy'
    BY <2>0, <2>1 DEF Initiate, CarryRequest, TakeReply
  <2>2. ASSUME NEW r \in Responders, Respond(r)
        PROVE  BoundIsBusy'
    BY <2>0, <2>2 DEF Respond
  <2>3. ASSUME NEW r \in Responders, TakeRequest(r) \/ SendReply(r)
        PROVE  BoundIsBusy'
    BY <2>0, <2>3 DEF TakeRequest, SendReply
  <2>4. ASSUME NEW r \in Responders, CloseResponder(r)
        PROVE  BoundIsBusy'
    BY <2>0, <2>4 DEF CloseResponder
  <2>5. CASE UNCHANGED shakeVars
    BY <2>5 DEF shakeVars
  <2> QED
    BY <2>1, <2>2, <2>3, <2>4, <2>5 DEF ShakeNext
<1> QED
  BY <1>1, <1>2, ShakeInvariant, PTL DEF ShakeSpec

(***************************************************************************)
(* No request gets lost without a trace: an initiator that waits will get  *)
(* its reply, or wait for the next responder, or has been dropped by a     *)
(* round that answered another one.                                        *)
(***************************************************************************)
THEOREM WaitersAreKeptCorrect == ShakeSpec => []WaitersAreKept
<1>1. ShakeInit => WaitersAreKept
  BY DEF ShakeInit, WaitersAreKept, Parties
<1>2. ShakeInv /\ BoundIsBusy /\ WaitersAreKept /\ [ShakeNext]_shakeVars => WaitersAreKept'
  <2> SUFFICES ASSUME ShakeInv, BoundIsBusy, WaitersAreKept, [ShakeNext]_shakeVars,
                      NEW i \in Initiators, party'[i] = "waiting"
               PROVE  Kept(i)'
    BY DEF WaitersAreKept
  <2>0. /\ ShakeTypeOK /\ OneResponder /\ RepliesMatch
        /\ Initiators \cap Responders = {} /\ None \notin Parties
    BY ShakeAssumption DEF ShakeInv
  <2> USE DEF ShakeTypeOK, PartyGoto, Parties
  <2>1. ASSUME NEW k \in Initiators, Initiate(k)
        PROVE  Kept(i)'
    BY <2>0, <2>1 DEF Initiate, WaitersAreKept, Kept
  <2>2. ASSUME NEW r \in Responders, Respond(r)
        PROVE  Kept(i)'
    <3>1. /\ bound' # None /\ r # i /\ UNCHANGED <<outgoing, socket, peer, reply, dropped>>
          /\ \A p \in Parties : p # r => party'[p] = party[p]
          /\ party[r] = "new" /\ (bound # None => bound' = bound)
      BY <2>0, <2>2 DEF Respond
    <3>2. party[i] = "waiting" /\ Kept(i)
      BY <3>1 DEF WaitersAreKept
    <3>3. ASSUME NEW q \in Responders, bound = q, party[q] = "answering", peer[q] = i
          PROVE  bound' = q /\ party'[q] = "answering" /\ peer'[q] = i
      BY <2>0, <3>1, <3>3
    <3> QED
      BY <3>1, <3>2, <3>3 DEF Kept
  <2>3. ASSUME NEW k \in Initiators, CarryRequest(k)
        PROVE  Kept(i)'
    BY <2>0, <2>3, AppendSocket DEF CarryRequest, WaitersAreKept, Kept
  <2>4. ASSUME NEW r \in Responders, TakeRequest(r)
        PROVE  Kept(i)'
    <3>1. /\ socket # <<>> /\ bound = r /\ party[r] = "waiting"
          /\ party' = [party EXCEPT ![r] = "answering"]
          /\ peer' = [peer EXCEPT ![r] = Head(socket)] /\ socket' = Tail(socket)
          /\ UNCHANGED <<bound, outgoing, reply, learnt, dropped>>
      BY <2>4 DEF TakeRequest
    <3>2. InSocket(i, socket) => InSocket(i, Tail(socket)) \/ i = Head(socket)
      <4>1. /\ DOMAIN socket = 1 .. Len(socket) /\ Len(socket) \in Nat \ {0}
            /\ DOMAIN Tail(socket) = 1 .. Len(socket) - 1
            /\ \A k \in 1 .. Len(socket) - 1 : Tail(socket)[k] = socket[k + 1]
            /\ Head(socket) = socket[1]
        BY <2>0, <3>1
      <4>2. ASSUME NEW k \in 1 .. Len(socket), socket[k] = i, k # 1
            PROVE  InSocket(i, Tail(socket))
        <5>1. k - 1 \in DOMAIN Tail(socket) /\ Tail(socket)[k - 1] = i
          BY <4>1, <4>2
        <5> QED
          BY <5>1 DEF InSocket
      <4> QED
        BY <4>1, <4>2 DEF InSocket
    <3>3. party[i] = "waiting"
      BY <2>0, <3>1
    <3> QED
      BY <2>0, <3>1, <3>2, <3>3 DEF WaitersAreKept, Kept
  <2>5. ASSUME NEW r \in Responders, SendReply(r)
        PROVE  Kept(i)'
    <3>1. /\ party[r] = "answering" /\ party' = [party EXCEPT ![r] = "closing"]
          /\ peer[r] \in Initiators /\ reply' = [reply EXCEPT ![peer[r]] = r]
          /\ bound = r /\ UNCHANGED <<bound, outgoing, socket, peer, dropped>>
      BY <2>0, <2>5 DEF SendReply, Answered, RepliesMatch, BoundIsBusy
    <3>2. \A j \in Initiators : reply[j] # None => reply'[j] # None
      BY <2>0, <3>1
    <3>3. party[i] = "waiting"
      BY <2>0, <3>1
    <3> QED
      BY <2>0, <3>1, <3>2, <3>3 DEF WaitersAreKept, Kept
  <2>6. ASSUME NEW r \in Responders, CloseResponder(r)
        PROVE  Kept(i)'
    <3>1. /\ party[r] = "closing" /\ party' = [party EXCEPT ![r] = "returned"]
          /\ dropped' = dropped \cup (ToSet(socket) \X {peer[r]})
          /\ bound = r /\ UNCHANGED <<outgoing, peer, reply>>
      BY <2>6 DEF CloseResponder, BoundIsBusy
    <3>2. /\ peer[r] \in Initiators /\ reply[peer[r]] # None
          /\ InSocket(i, socket) => peer[r] # i
      BY <2>0, <3>1 DEF RepliesMatch, OneResponder
    <3>3. InSocket(i, socket) => <<i, peer[r]>> \in dropped'
      BY <3>1 DEF InSocket, ToSet
    <3>4. party[i] = "waiting"
      BY <2>0, <3>1
    <3>5. \A q \in Responders : ~(bound = q /\ party[q] = "answering")
      BY <3>1
    <3> QED
      BY <2>0, <3>1, <3>2, <3>3, <3>4, <3>5 DEF WaitersAreKept, Kept
  <2>7. ASSUME NEW k \in Initiators, TakeReply(k)
        PROVE  Kept(i)'
    BY <2>0, <2>7 DEF TakeReply, WaitersAreKept, Kept
  <2>8. CASE UNCHANGED shakeVars
    BY <2>8 DEF shakeVars, WaitersAreKept, Kept, InSocket
  <2> QED
    BY <2>1, <2>2, <2>3, <2>4, <2>5, <2>6, <2>7, <2>8 DEF ShakeNext
<1> QED
  BY <1>1, <1>2, ShakeInvariant, BoundIsBusyInvariant, PTL DEF ShakeSpec

-----------------------------------------------------------------------------
(* SyncClientServer: the numbers of the requests under way are consecutive. *)

SyncTypes ==
  /\ client \in {"none", "idle", "send", "recv", "drain", "dangling"}
  /\ sent \in Nat /\ serving \in Nat /\ late \in Int
  /\ toServer \in Seq(Nat) /\ toClient \in Seq(Nat)

\* Requests sent so far, and requests the server has not answered.
Asked == IF client = "send" THEN sent - 1 ELSE sent
Behind == Len(toServer) + (IF serving # 0 THEN 1 ELSE 0)

\* What the client has given up on is what is under way, and never more than
\* it has asked for.
Counted ==
  /\ Asked - Behind - Len(toClient) >= 0
  /\ late = Behind + Len(toClient) - (IF client = "recv" THEN 1 ELSE 0)

\* From the newest request that the server has not received to the oldest reply
\* that the client has not: nothing is lost, doubled or out of order.
InTurn ==
  /\ \A i \in 1 .. Len(toServer) : toServer[i] = Asked - Len(toServer) + i
  /\ serving # 0 => serving = Asked - Len(toServer)
  /\ \A i \in 1 .. Len(toClient) : toClient[i] = Asked - Behind - Len(toClient) + i

AnswerOff == answer.got = answer.asked - answer.late

SyncInv == SyncTypes /\ Counted /\ InTurn /\ AnswerOff

LEMMA SyncInvariant == SyncSpec => []SyncInv
<1>1. SyncInit => SyncInv
  BY DEF SyncInit, SyncInv, SyncTypes, Counted, InTurn, AnswerOff, Asked, Behind, NoAnswer
<1>2. SyncInv /\ [SyncNext]_syncVars => SyncInv'
  <2> SUFFICES ASSUME SyncTypes, Counted, InTurn, AnswerOff, [SyncNext]_syncVars
               PROVE  SyncInv'
    BY DEF SyncInv
  <2>0. /\ Asked \in Int /\ Behind \in Nat /\ Len(toServer) \in Nat /\ Len(toClient) \in Nat
        /\ sent \in Nat /\ late \in Int /\ serving \in Nat
        /\ Behind = Len(toServer) + (IF serving # 0 THEN 1 ELSE 0)
        /\ Asked - Behind - Len(toClient) >= 0
        /\ late = Behind + Len(toClient) - (IF client = "recv" THEN 1 ELSE 0)
    BY DEF SyncTypes, Counted, Asked, Behind
  <2>1. CASE OpenChannels \/ CallSendRecv \/ CallRecv \/ Reset
    <3>1. /\ UNCHANGED <<late, answer, toServer, toClient, serving>>
          /\ client \in {"none", "idle"} /\ client' \in {"idle", "send", "drain", "dangling"}
          /\ sent' = (IF client' = "send" THEN sent + 1 ELSE sent)
      BY <2>1 DEF OpenChannels, CallSendRecv, CallRecv, Reset, ClientGoto
    <3>2. Asked' = Asked /\ Behind' = Behind /\ sent' \in Nat
      BY <2>0, <3>1 DEF Asked, Behind
    <3>3. SyncTypes' /\ AnswerOff'
      BY <3>1, <3>2 DEF SyncTypes, AnswerOff
    <3>4. Counted' /\ InTurn'
      BY <2>0, <3>1, <3>2 DEF Counted, InTurn
    <3> QED
      BY <3>3, <3>4 DEF SyncInv
  <2>2. CASE ClientSend
    <3>1. /\ client = "send" /\ client' = "recv" /\ toServer' = Append(toServer, sent)
          /\ UNCHANGED <<sent, late, answer, toClient, serving>>
      BY <2>2 DEF ClientSend, ClientGoto
    <3>2. /\ toServer' \in Seq(Nat) /\ Len(toServer') = Len(toServer) + 1
          /\ \A i \in 1 .. Len(toServer) : toServer'[i] = toServer[i]
          /\ toServer'[Len(toServer) + 1] = sent
      BY <3>1 DEF SyncTypes
    <3>3. Asked' = Asked + 1 /\ Behind' = Behind + 1 /\ Asked' = sent
      BY <2>0, <3>1, <3>2 DEF Asked, Behind
    <3>4. SyncTypes' /\ AnswerOff'
      BY <3>1, <3>2 DEF SyncTypes, AnswerOff
    <3>5. Counted'
      BY <2>0, <3>1, <3>3 DEF Counted
    <3>6. ASSUME NEW i \in 1 .. Len(toServer')
          PROVE  toServer'[i] = Asked' - Len(toServer') + i
      <4>1. CASE i = Len(toServer) + 1
        BY <2>0, <3>1, <3>2, <3>3, <4>1
      <4>2. CASE i \in 1 .. Len(toServer)
        BY <2>0, <3>2, <3>3, <4>2 DEF InTurn
      <4> QED
        BY <2>0, <3>2, <4>1, <4>2
    <3>7. \A i \in 1 .. Len(toClient) :
            toClient[i] = Asked' - Behind' - Len(toClient) + i
      BY <2>0, <3>3 DEF InTurn
    <3>8. serving # 0 => serving = Asked' - Len(toServer')
      <4>1. serving # 0 => serving = Asked - Len(toServer)
        BY DEF InTurn
      <4>2. Asked' - Len(toServer') = Asked - Len(toServer)
        BY <2>0, <3>2, <3>3
      <4> QED
        BY <4>1, <4>2
    <3>9. InTurn'
      BY <3>1, <3>6, <3>7, <3>8 DEF InTurn
    <3> QED
      BY <3>4, <3>5, <3>9 DEF SyncInv
  <2>3. CASE ClientRecv
    <3>1. /\ toClient # <<>> /\ toClient' = Tail(toClient) /\ client' = "idle"
          /\ UNCHANGED <<sent, toServer, serving>>
          /\ \/ /\ client = "recv" /\ late' = late
                /\ answer' = [asked |-> sent, got |-> Head(toClient), late |-> late]
             \/ client = "drain" /\ late' = late - 1 /\ answer' = answer
      BY <2>3 DEF ClientRecv, ClientGoto
    <3>2. /\ toClient' \in Seq(Nat) /\ Len(toClient') = Len(toClient) - 1
          /\ Head(toClient) = toClient[1] /\ Head(toClient) \in Nat /\ Len(toClient) > 0
          /\ \A i \in 1 .. Len(toClient') : toClient'[i] = toClient[i + 1]
      BY <3>1 DEF SyncTypes
    <3>3. Asked' = Asked /\ Behind' = Behind /\ Asked = sent
      BY <3>1 DEF Asked, Behind
    <3>4. Head(toClient) = Asked - Behind - Len(toClient) + 1
      BY <2>0, <3>2 DEF InTurn
    <3>5. SyncTypes'
      <4>1. late' \in {late, late - 1}
        BY <3>1
      <4>2. late' \in Int
        BY <4>1 DEF SyncTypes
      <4> QED
        BY <3>1, <3>2, <4>2 DEF SyncTypes
    <3>6. Counted'
      <4>1. late' = Behind + Len(toClient) - 1
        <5>1. CASE client = "recv"
          BY <2>0, <3>1, <5>1
        <5>2. CASE client = "drain"
          BY <2>0, <3>1, <5>2
        <5> QED
          BY <3>1, <5>1, <5>2
      <4> QED
        BY <2>0, <3>1, <3>2, <3>3, <4>1 DEF Counted
    <3>7. InTurn'
      BY <2>0, <3>1, <3>2, <3>3 DEF InTurn
    <3>8. AnswerOff'
      <4>1. CASE client = "recv"
        <5>1. Head(toClient) = sent - late
          BY <2>0, <3>3, <3>4, <4>1
        <5> QED
          BY <3>1, <4>1, <5>1 DEF AnswerOff
      <4>2. CASE client = "drain"
        BY <3>1, <4>2 DEF AnswerOff
      <4> QED
        BY <3>1, <4>1, <4>2
    <3> QED
      BY <3>5, <3>6, <3>7, <3>8 DEF SyncInv
  <2>4. CASE ClientTimeOut
    <3>1. /\ UNCHANGED <<sent, answer, toServer, toClient, serving>> /\ client' = "idle"
          /\ \/ client = "recv" /\ late' = late + 1
             \/ client = "drain" /\ late' = late
      BY <2>4 DEF ClientTimeOut, ClientGoto
    <3>2. Asked' = Asked /\ Behind' = Behind
      BY <3>1 DEF Asked, Behind
    <3>3. SyncTypes' /\ AnswerOff'
      <4>1. late' \in {late, late + 1}
        BY <3>1
      <4>2. late' \in Int
        BY <4>1 DEF SyncTypes
      <4> QED
        BY <3>1, <4>2 DEF SyncTypes, AnswerOff
    <3>4. Counted'
      <4>1. late' = Behind + Len(toClient)
        <5>1. CASE client = "recv"
          BY <2>0, <3>1, <5>1
        <5>2. CASE client = "drain"
          BY <2>0, <3>1, <5>2
        <5> QED
          BY <3>1, <5>1, <5>2
      <4> QED
        BY <2>0, <3>1, <3>2, <4>1 DEF Counted
    <3>5. InTurn'
      BY <3>1, <3>2 DEF InTurn
    <3> QED
      BY <3>3, <3>4, <3>5 DEF SyncInv
  <2>5. CASE ServerRecv
    <3>1. /\ serving = 0 /\ toServer # <<>> /\ serving' = Head(toServer)
          /\ toServer' = Tail(toServer) /\ UNCHANGED <<client, sent, late, answer, toClient>>
      BY <2>5 DEF ServerRecv
    <3>2. /\ toServer' \in Seq(Nat) /\ Len(toServer') = Len(toServer) - 1
          /\ Head(toServer) = toServer[1] /\ Head(toServer) \in Nat /\ Len(toServer) > 0
          /\ \A i \in 1 .. Len(toServer') : toServer'[i] = toServer[i + 1]
      BY <3>1 DEF SyncTypes
    <3>3. serving' # 0 /\ serving' = Asked - Len(toServer')
      BY <2>0, <3>1, <3>2 DEF InTurn
    <3>4. Asked' = Asked /\ Behind' = Behind
      BY <2>0, <3>1, <3>2, <3>3 DEF Asked, Behind
    <3>5. SyncTypes' /\ AnswerOff'
      BY <3>1, <3>2 DEF SyncTypes, AnswerOff
    <3>6. Counted' /\ InTurn'
      BY <2>0, <3>1, <3>2, <3>3, <3>4 DEF Counted, InTurn
    <3> QED
      BY <3>5, <3>6 DEF SyncInv
  <2>6. CASE ServerSend
    <3>1. /\ serving # 0 /\ serving' = 0 /\ toClient' = Append(toClient, serving)
          /\ UNCHANGED <<client, sent, late, answer, toServer>>
      BY <2>6 DEF ServerSend
    <3>2. /\ toClient' \in Seq(Nat) /\ Len(toClient') = Len(toClient) + 1
          /\ \A i \in 1 .. Len(toClient) : toClient'[i] = toClient[i]
          /\ toClient'[Len(toClient) + 1] = serving
      BY <3>1 DEF SyncTypes
    <3>3. Asked' = Asked /\ Behind' = Behind - 1 /\ Behind' = Len(toServer)
      BY <2>0, <3>1 DEF Asked, Behind
    <3>4. SyncTypes' /\ AnswerOff'
      BY <3>1, <3>2 DEF SyncTypes, AnswerOff
    <3>5. Counted'
      BY <2>0, <3>1, <3>2, <3>3 DEF Counted
    <3>6. ASSUME NEW i \in 1 .. Len(toClient')
          PROVE  toClient'[i] = Asked' - Behind' - Len(toClient') + i
      <4>1. CASE i = Len(toClient) + 1
        <5>1. serving = Asked - Len(toServer)
          BY <3>1 DEF InTurn
        <5> QED
          BY <2>0, <3>2, <3>3, <4>1, <5>1
      <4>2. CASE i \in 1 .. Len(toClient)
        BY <2>0, <3>2, <3>3, <4>2 DEF InTurn
      <4> QED
        BY <2>0, <3>2, <4>1, <4>2
    <3>7. InTurn'
      BY <3>1, <3>3, <3>6 DEF InTurn
    <3> QED
      BY <3>4, <3>5, <3>7 DEF SyncInv
  <2>7. CASE UNCHANGED syncVars
    BY <2>7
    DEF syncVars, SyncInv, SyncTypes, Counted, InTurn, AnswerOff, Asked, Behind
  <2> QED
    BY <2>1, <2>2, <2>3, <2>4, <2>5, <2>6, <2>7 DEF SyncNext, ClientProgress, ServerProgress
<1> QED
  BY <1>1, <1>2, PTL DEF SyncSpec

(***************************************************************************)
(* Replies are off by as many as are late, and what is late is on its way, *)
(* however many requests, timeouts and messages in a channel there are.    *)
(***************************************************************************)
THEOREM OwnReplyUnlessLateCorrect == SyncSpec => []OwnReplyUnlessLate
<1>1. SyncInv => OwnReplyUnlessLate
  <2> SUFFICES ASSUME SyncInv PROVE OwnReplyUnlessLate
    OBVIOUS
  <2>1. Len(toServer) \in Nat /\ Len(toClient) \in Nat
    BY DEF SyncInv, SyncTypes
  <2>2. late = Len(toServer) + Len(toClient) + (IF serving # 0 THEN 1 ELSE 0)
                 - (IF client = "recv" THEN 1 ELSE 0)
    BY <2>1 DEF SyncInv, Counted, Behind
  <2> QED
    BY <2>2 DEF SyncInv, AnswerOff, OwnReplyUnlessLate
<1> QED
  BY <1>1, SyncInvariant, PTL

\* Calls that are under way, and both sides blocked in Push.
InCall == client \in {"send", "recv", "drain"}
BothFull == client = "send" /\ late > 2 * ChannelLimit

\* Send, Recv and the server's Recv and Send: one of them may go on, without a
\* timeout.
MayGoOn ==
  \/ client = "send" /\ Len(toServer) < ChannelLimit
  \/ client \in {"recv", "drain"} /\ toClient # <<>>
  \/ serving = 0 /\ toServer # <<>>
  \/ serving # 0 /\ MaySend

NeverStuck == InCall => MayGoOn \/ BothFull

\* Every step of a call takes it nearer to its end: the client sends one more
\* request, and what is on its way is received, served and answered.
StepsLeft ==
  (IF client = "send" THEN 3 ELSE 0) + 2 * Len(toServer) + (IF serving # 0 THEN 1 ELSE 0)

CallEnds == InCall /\ client' # "idle" => StepsLeft' < StepsLeft /\ StepsLeft' >= 0

\* Recv alone is called for a reply that is late.
DrainsLate == late >= 0 /\ (client = "drain" => late > 0)

LEMMA DrainsLateInvariant == SyncSpec => []DrainsLate
<1>1. SyncInit => DrainsLate
  BY DEF SyncInit, DrainsLate
<1>2. SyncTypes /\ DrainsLate /\ [SyncNext]_syncVars => DrainsLate'
  <2> SUFFICES ASSUME SyncTypes, DrainsLate, [SyncNext]_syncVars
               PROVE  DrainsLate'
    OBVIOUS
  <2> USE DEF SyncTypes, DrainsLate, ClientGoto
  <2>1. CASE OpenChannels \/ CallSendRecv \/ CallRecv \/ Reset
    BY <2>1 DEF OpenChannels, CallSendRecv, CallRecv, Reset
  <2>2. CASE ClientProgress
    BY <2>2 DEF ClientProgress, ClientSend, ClientRecv, ClientTimeOut
  <2>3. CASE ServerProgress \/ UNCHANGED syncVars
    BY <2>3 DEF ServerProgress, ServerRecv, ServerSend, syncVars
  <2> QED
    BY <2>1, <2>2, <2>3 DEF SyncNext
<1>3. SyncInv => SyncTypes
  BY DEF SyncInv
<1> QED
  BY <1>1, <1>2, <1>3, SyncInvariant, PTL DEF SyncSpec

(***************************************************************************)
(* A call of SendRecv or Recv never finds both threads blocked, whether    *)
(* there is a timeout or not, unless the client has gone on sending until  *)
(* both channels are full and the server holds one more request.           *)
(***************************************************************************)
THEOREM NeverStuckCorrect == SyncSpec => []NeverStuck
<1>1. SyncInv /\ DrainsLate => NeverStuck
  <2> SUFFICES ASSUME SyncInv, DrainsLate, InCall, ~MayGoOn
               PROVE  BothFull
    BY DEF NeverStuck
  <2>1. /\ Len(toServer) \in Nat /\ Len(toClient) \in Nat /\ serving \in Nat
        /\ ChannelLimit \in Nat \ {0}
        /\ toServer # <<>> => Len(toServer) > 0
        /\ toClient # <<>> => Len(toClient) > 0
        /\ toServer = <<>> => Len(toServer) = 0
        /\ toClient = <<>> => Len(toClient) = 0
    BY SyncAssumption DEF SyncInv, SyncTypes
  <2>2. late = Len(toServer) + (IF serving # 0 THEN 1 ELSE 0) + Len(toClient)
                 - (IF client = "recv" THEN 1 ELSE 0)
    BY DEF SyncInv, Counted, Behind
  <2>3. CASE client = "send"
    <3>1. Len(toServer) >= ChannelLimit
      BY <2>1, <2>3 DEF MayGoOn
    <3>2. serving # 0 /\ Len(toClient) >= ChannelLimit
      BY <2>1, <3>1 DEF MayGoOn, MaySend
    <3> QED
      BY <2>1, <2>2, <2>3, <3>1, <3>2 DEF BothFull
  <2>4. CASE client \in {"recv", "drain"}
    <3>1. toClient = <<>>
      BY <2>4 DEF MayGoOn
    <3>2. serving = 0 /\ toServer = <<>>
      BY <2>1, <3>1 DEF MayGoOn, MaySend
    <3>3. late = 0 - (IF client = "recv" THEN 1 ELSE 0)
      BY <2>1, <2>2, <3>1, <3>2
    <3> QED
      BY <2>4, <3>3 DEF DrainsLate
  <2> QED
    BY <2>3, <2>4 DEF InCall
<1> QED
  BY <1>1, SyncInvariant, DrainsLateInvariant, PTL

(***************************************************************************)
(* Nor does a call go on for ever: the steps that both threads may take    *)
(* until it ends are bounded, so a call of NeverStuckCorrect returns.      *)
(***************************************************************************)
THEOREM CallEndsCorrect == SyncSpec => [][CallEnds]_syncVars
<1>1. SyncInv /\ [SyncNext]_syncVars => [CallEnds]_syncVars
  <2> SUFFICES ASSUME SyncInv, SyncNext, InCall, client' # "idle"
               PROVE  StepsLeft' < StepsLeft /\ StepsLeft' >= 0
    BY DEF CallEnds
  <2>0. /\ toServer \in Seq(Nat) /\ Len(toServer) \in Nat /\ serving \in Nat
        /\ toServer # <<>> => Len(Tail(toServer)) = Len(toServer) - 1 /\ Len(toServer) > 0
    BY DEF SyncInv, SyncTypes
  <2>1. CASE ClientSend
    <3>1. /\ client = "send" /\ client' = "recv" /\ serving' = serving
          /\ Len(toServer') = Len(toServer) + 1
      BY <2>0, <2>1 DEF ClientSend, ClientGoto
    <3> QED
      BY <2>0, <3>1 DEF StepsLeft
  <2>2. CASE ServerRecv
    <3>1. /\ serving = 0 /\ client' = client /\ toServer # <<>> /\ toServer' = Tail(toServer)
      BY <2>2 DEF ServerRecv
    <3>2. Len(toServer') = Len(toServer) - 1 /\ Len(toServer) > 0
      BY <2>0, <3>1
    <3> QED
      BY <2>0, <3>1, <3>2 DEF StepsLeft
  <2>3. CASE ServerSend
    <3>1. serving # 0 /\ serving' = 0 /\ client' = client /\ toServer' = toServer
      BY <2>3 DEF ServerSend
    <3> QED
      BY <2>0, <3>1 DEF StepsLeft
  <2>4. ~(OpenChannels \/ CallSendRecv \/ CallRecv \/ Reset \/ ClientRecv \/ ClientTimeOut)
    BY DEF InCall, OpenChannels, CallSendRecv, CallRecv, Reset, ClientRecv, ClientTimeOut,
           ClientGoto
  <2> QED
    BY <2>1, <2>2, <2>3, <2>4 DEF SyncNext, ClientProgress, ServerProgress
<1> QED
  BY <1>1, SyncInvariant, PTL DEF SyncSpec

-----------------------------------------------------------------------------
(* RemoteMethods: whose result each buffer holds. *)

Own(id, n) == Data(id, IF id \in TakesArgs THEN n ELSE 0)

\* What a wrapper refers to.
Referring ==
  /\ wrapper.id \in Ids /\ wrapper.n \in 1 .. uses /\ Works(wrapper.id)
  /\ (/\ caller = "idle" /\ wrapper.n = uses
      /\ wrapper.id \notin IsVoid \cup Long /\ ~Astray(wrapper.id)) =>
       recvBuf = Own(wrapper.id, uses)
  /\ caller # "idle" => wrapper.n < uses

\* A reply is that of the call that waits for it; the buffer of the proxy holds
\* the result of the last call while a wrapper refers to it.
MethodsInv ==
  /\ added \subseteq Ids /\ given \in BOOLEAN /\ apart \in BOOLEAN /\ uses \in Nat
  /\ methods \in [Ids -> {"none", "empty", "method"}]
  /\ caller \in {"idle", "sent", "answered", "lost"}
  /\ uses > 0 => given /\ call.id \in Ids
  /\ caller # "idle" => uses > 0 /\ sendBuf = IF call.id \in TakesArgs THEN uses ELSE 0
  /\ \A id \in Ids : methods[id] = "method" => given /\ id \in added
  /\ caller = "answered" =>
       /\ rep.ok => Works(call.id)
       /\ ~Astray(call.id) => rep.ok = Works(call.id)
       /\ rep.ok /\ ~Astray(call.id) /\ call.id \notin IsVoid => rep.data = Own(call.id, uses)
  /\ wrapper # NoCall => Referring
  /\ outcome.use.n # 0 => outcome.use.id \in Ids /\ uses > 0
  /\ ResultIsOwn

LEMMA MethodsInvariant == MethodsSpec => []MethodsInv
<1>1. MethodsInit => MethodsInv
  <2> SUFFICES ASSUME MethodsInit PROVE MethodsInv
    OBVIOUS
  <2>1. outcome.use.n = 0 /\ wrapper = NoCall /\ uses = 0 /\ caller = "idle"
    BY DEF MethodsInit, NoCall
  <2>2. ResultIsOwn
    BY <2>1 DEF ResultIsOwn
  <2>3. /\ added \subseteq Ids /\ given \in BOOLEAN /\ apart \in BOOLEAN
        /\ methods = [id \in Ids |-> "none"]
    BY DEF MethodsInit
  <2> QED
    BY <2>1, <2>2, <2>3 DEF MethodsInv
<1>2. MethodsInv /\ [MethodsNext]_methodVars => MethodsInv'
  <2> SUFFICES ASSUME MethodsInv, [MethodsNext]_methodVars
               PROVE  MethodsInv'
    OBVIOUS
  <2> USE DEF MethodsInv, Works, Astray
  <2>1. ASSUME NEW id \in Ids, AddMethod(id)
        PROVE  MethodsInv'
    <3>1. /\ uses = 0 /\ added' = added \cup {id}
          /\ UNCHANGED <<given, apart, methods, uses, call, caller, sendBuf, args, rep,
                         recvBuf, wrapper, outcome>>
      BY <2>1 DEF AddMethod, proxyVars
    <3> QED
      BY <3>1 DEF ResultIsOwn, Referring
  <2>2. CASE AddService
    <3>1. /\ ~given /\ uses = 0 /\ given' = TRUE /\ methods' = Copied /\ apart' \in BOOLEAN
          /\ UNCHANGED <<added, uses, call, caller, sendBuf, args, rep, recvBuf, wrapper,
                         outcome>>
      BY <2>2 DEF AddService, proxyVars
    <3>2. wrapper = NoCall /\ outcome.use.n = 0 /\ caller = "idle"
      BY <3>1 DEF Referring
    <3> QED
      BY <3>1, <3>2 DEF ResultIsOwn, Copied
  <2>3. ASSUME NEW id \in Ids, NEW request \in BOOLEAN, Use(id, request)
        PROVE  MethodsInv'
    <3>1. /\ given /\ caller = "idle" /\ uses' = uses + 1
          /\ call' = [id |-> id, request |-> request] /\ caller' = "sent"
          /\ sendBuf' = IF id \in TakesArgs THEN uses' ELSE 0
          /\ UNCHANGED <<added, given, apart, methods, args, rep, recvBuf, wrapper, outcome>>
      BY <2>3 DEF Use
    <3> QED
      BY <3>1 DEF ResultIsOwn, Referring
  <2>4. CASE Execute
    <3>1. /\ caller = "sent" /\ caller' = "answered" /\ call.id \in Ids
          /\ methods' = [methods EXCEPT ![call.id] = IF @ = "none" THEN "empty" ELSE @]
          /\ \/ rep' = Invoke(call.id, ReceivedArgs)
             \/ Astray(call.id) /\ rep' = Error
          /\ UNCHANGED <<added, given, apart, uses, call, sendBuf, recvBuf, wrapper, outcome>>
      BY <2>4 DEF Execute, proxyVars
    <3>2. \A id \in Ids : methods'[id] = "method" <=> methods[id] = "method"
      BY <3>1
    <3>3. /\ rep'.ok => Works(call.id)
          /\ ~Astray(call.id) => rep'.ok = Works(call.id)
          /\ rep'.ok /\ ~Astray(call.id) /\ call.id \notin IsVoid =>
               rep'.data = Own(call.id, uses)
      <4>1. call.id \in TakesArgs => ReceivedArgs = uses /\ sendBuf = uses
        BY <3>1 DEF ReceivedArgs
      <4>2. ~Astray(call.id) /\ call.id \in TakesArgs =>
              UnPackedArgs(call.id, ReceivedArgs) = uses
        BY <4>1 DEF UnPackedArgs
      <4>3. Error.ok = FALSE
        BY DEF Error
      <4>4. CASE rep' = Invoke(call.id, ReceivedArgs)
        <5>1. CASE ~Works(call.id)
          BY <4>3, <4>4, <5>1 DEF Invoke
        <5>2. CASE Works(call.id)
          <6>1. rep' = [ok |-> TRUE,
                        data |-> IF call.id \in IsVoid THEN Empty
                                 ELSE Own(call.id, UnPackedArgs(call.id, ReceivedArgs))]
            BY <4>4, <5>2 DEF Invoke, Own
          <6>2. ~Astray(call.id) =>
                  Own(call.id, UnPackedArgs(call.id, ReceivedArgs)) = Own(call.id, uses)
            BY <4>2 DEF Own
          <6> QED
            BY <5>2, <6>1, <6>2
        <5> QED
          BY <5>1, <5>2
      <4>5. CASE Astray(call.id) /\ rep' = Error
        BY <4>3, <4>5
      <4> QED
        BY <3>1, <4>4, <4>5
    <3>4. ResultIsOwn'
      BY <3>1, <3>2 DEF ResultIsOwn
    <3>5. wrapper' # NoCall => Referring'
      BY <3>1, <3>2 DEF Referring
    <3> QED
      BY <3>1, <3>2, <3>3, <3>4, <3>5
  <2>5. CASE EndCall
    <3>1. /\ caller = "answered" /\ caller' = "idle" /\ recvBuf' = Overwritten
          /\ UNCHANGED <<added, given, apart, methods, uses, call, sendBuf, args, rep>>
      BY <2>5 DEF EndCall
    <3>2. rep.ok /\ ~Astray(call.id) /\ call.id \notin IsVoid \cup Long =>
            recvBuf' = Own(call.id, uses)
      <4>1. Own(call.id, uses) # Empty
        BY <3>1, MethodsAssumption DEF Own, Data, Empty
      <4> QED
        BY <3>1, <4>1 DEF Overwritten
    <3>3. CASE /\ ~rep.ok \/ call.request
               /\ outcome' = Read(uses, call.id, rep.ok, recvBuf') /\ UNCHANGED wrapper
      <4>1. /\ outcome'.use.n = uses /\ outcome'.use.id = call.id /\ outcome'.ok = rep.ok
            /\ outcome'.data = recvBuf'
        BY <3>3 DEF Read
      <4>2. ResultIsOwn'
        BY <3>1, <3>2, <4>1 DEF ResultIsOwn, Own
      <4>3. wrapper' # NoCall => Referring'
        BY <3>1, <3>3 DEF Referring, NoCall
      <4> QED
        BY <3>1, <3>3, <4>1, <4>2, <4>3
    <3>4. CASE /\ rep.ok /\ ~call.request
               /\ wrapper' = [n |-> uses, id |-> call.id] /\ UNCHANGED outcome
      <4>1. ResultIsOwn'
        BY <3>1, <3>4 DEF ResultIsOwn
      <4>2. wrapper'.n = uses /\ wrapper'.id = call.id /\ uses \in 1 .. uses
        BY <3>1, <3>4
      <4>3. Referring'
        BY <3>1, <3>2, <3>4, <4>2 DEF Referring
      <4> QED
        BY <3>1, <3>4, <4>1, <4>3
    <3> QED
      BY <2>5, <3>3, <3>4 DEF EndCall
  <2>6. CASE Convert
    <3>1. /\ caller = "idle" /\ wrapper # NoCall
          /\ outcome' = Read(wrapper.n, wrapper.id, TRUE, recvBuf)
          /\ UNCHANGED <<added, given, apart, methods, uses, call, caller, sendBuf, args, rep,
                         recvBuf, wrapper>>
      BY <2>6 DEF Convert
    <3>2. /\ outcome'.use.n = wrapper.n /\ outcome'.use.id = wrapper.id /\ outcome'.ok = TRUE
          /\ outcome'.data = recvBuf /\ outcome'.last = uses
      BY <3>1 DEF Read
    <3>3. Referring
      BY <3>1
    <3>4. ResultIsOwn'
      BY <3>1, <3>2, <3>3 DEF ResultIsOwn, Own, Referring
    <3>5. wrapper' # NoCall => Referring'
      BY <3>1, <3>3 DEF Referring
    <3>6. outcome'.use.id \in Ids /\ uses > 0
      BY <3>2, <3>3 DEF Referring
    <3> QED
      BY <3>1, <3>4, <3>5, <3>6
  <2>7. CASE UNCHANGED methodVars
    BY <2>7 DEF methodVars, proxyVars, ResultIsOwn, Referring
  <2>8. CASE Crash
    <3>1. /\ caller = "sent" /\ caller' = "lost"
          /\ UNCHANGED <<added, given, apart, methods, uses, call, sendBuf, args, rep, recvBuf,
                         wrapper, outcome>>
      BY <2>8 DEF Crash, proxyVars
    <3> QED
      BY <3>1 DEF ResultIsOwn, Referring
  <2> QED
    BY <2>1, <2>2, <2>3, <2>4, <2>5, <2>6, <2>7, <2>8 DEF MethodsNext
<1> QED
  BY <1>1, <1>2, PTL DEF MethodsSpec

(***************************************************************************)
(* For any number of methods and calls, a result that fits and is read in  *)
(* time is the one of its own call, unless the service is in another       *)
(* process and the arguments are not all POD.                              *)
(***************************************************************************)
THEOREM ResultIsOwnCorrect == MethodsSpec => []ResultIsOwn
<1>1. MethodsInv => ResultIsOwn
  BY DEF MethodsInv
<1> QED
  BY <1>1, MethodsInvariant, PTL

-----------------------------------------------------------------------------
(* PushPull: where each message is. *)

\* The messages that a puller has pulled.
Numbers(p) == [i \in 1 .. Len(pulled[p]) |-> pulled[p][i].msg]

Message == 0 .. Total
Piece == [msg : 1 .. Total, got : Nat]

PullTypes ==
  /\ pushed \in 0 .. Total /\ sizeInfo \in BOOLEAN /\ (pusher = "none" => pushed = 0)
  /\ outbox \in [Pullers -> Seq(Message)] /\ inbox \in [Pullers -> Seq(Message)]
  /\ pulled \in [Pullers -> Seq(Piece)]
  /\ buffer \in [Pullers -> Nat]

DealtTo(p, m) == Has(Numbers(p), m) \/ Has(inbox[p], m) \/ Has(outbox[p], m)

\* A message is pushed once, to one puller, and no other one overtakes it.
InLine(p) ==
  /\ Ascending(outbox[p]) /\ Ascending(inbox[p]) /\ Ascending(Numbers(p))
  /\ \A m : DealtTo(p, m) => m \in 1 .. pushed
  /\ \A m, n : /\ Has(inbox[p], m) /\ Has(outbox[p], n) => m < n
               /\ Has(Numbers(p), m) /\ (Has(inbox[p], n) \/ Has(outbox[p], n)) => m < n
OnePuller ==
  \A p, q \in Pullers : \A m : DealtTo(p, m) /\ DealtTo(q, m) => p = q

\* The buffer of a puller has the size of the last message.
Fitted(p) ==
  buffer[p] = IF pulled[p] = <<>> THEN BufferSize ELSE Size(pulled[p][Len(pulled[p])].msg)
Whole(p, i) ==
  \/ pulled[p][i].got = Size(pulled[p][i].msg)
  \/ /\ ~sizeInfo
     /\ \/ Size(pulled[p][i].msg) > BufferSize
        \/ \E j \in 1 .. i - 1 : Size(pulled[p][j].msg) < Size(pulled[p][i].msg)

PullInv ==
  /\ PullTypes /\ OnePuller
  /\ \A p \in Pullers : InLine(p) /\ Fitted(p) /\ \A i \in 1 .. Len(pulled[p]) : Whole(p, i)

LEMMA TotalType == Total \in Nat /\ \A m \in 1 .. Total : Size(m) \in Nat
<1>1. Cardinality(Pullers) \in Nat
  BY PullAssumption, FS_CardinalityType
<1>2. Total \in Nat
  BY <1>1, PullAssumption DEF Total
<1>3. ASSUME NEW m \in 1 .. Total
      PROVE  Size(m) \in Nat
  BY <1>2, PullAssumption DEF Size
<1> QED
  BY <1>2, <1>3

LEMMA PullInvariant == PullSpec => []PullInv
<1>0. Total \in Nat
  BY TotalType
<1> USE <1>0
<1>1. PullInit => PullInv
  <2> SUFFICES ASSUME PullInit PROVE PullInv
    OBVIOUS
  <2>1. PullTypes
    <3>1. /\ outbox \in [Pullers -> Seq(Message)] /\ inbox \in [Pullers -> Seq(Message)]
          /\ pulled \in [Pullers -> Seq(Piece)]
      BY DEF PullInit
    <3>2. buffer \in [Pullers -> Nat]
      BY PullAssumption DEF PullInit
    <3>3. sizeInfo \in BOOLEAN
      BY DEF PullInit
    <3>4. pushed = 0 /\ pushed \in 0 .. Total
      BY DEF PullInit
    <3> QED
      BY <3>1, <3>2, <3>3, <3>4 DEF PullTypes
  <2>2. ASSUME NEW p \in Pullers
        PROVE  /\ pulled[p] = <<>> /\ outbox[p] = <<>> /\ inbox[p] = <<>>
               /\ buffer[p] = BufferSize /\ \A m : ~DealtTo(p, m)
    BY DEF PullInit, DealtTo, Numbers, Has
  <2>3. ASSUME NEW p \in Pullers
        PROVE  InLine(p)
    BY <2>2 DEF InLine, DealtTo, Ascending, Numbers
  <2> QED
    BY <2>1, <2>2, <2>3 DEF PullInv, OnePuller, Fitted
<1>2. PullInv /\ [PullNext]_pullVars => PullInv'
  <2> SUFFICES ASSUME PullInv, [PullNext]_pullVars
               PROVE  PullInv'
    OBVIOUS
  <2>0. PullTypes /\ OnePuller
    BY DEF PullInv
  <2>1. CASE OpenPusher
    <3>1. /\ pusher = "none" /\ pusher' = "open" /\ sizeInfo' \in BOOLEAN
          /\ UNCHANGED <<pushed, outbox, inbox, buffer, pulled>>
      BY <2>1 DEF OpenPusher, pipeVars
    <3>2. ASSUME NEW p \in Pullers
          PROVE  pulled[p] = <<>>
      <4>1. \A m : ~Has(Numbers(p), m)
        BY <2>0, <3>1 DEF PullInv, PullTypes, InLine, DealtTo
      <4>2. Len(pulled[p]) \in Nat /\ (pulled[p] # <<>> => Len(pulled[p]) > 0)
        BY <2>0 DEF PullTypes
      <4>3. Len(pulled[p]) > 0 => Has(Numbers(p), Numbers(p)[1])
        BY <4>2 DEF Has, Numbers
      <4> QED
        BY <4>1, <4>2, <4>3
    <3>3. PullTypes'
      BY <2>0, <3>1 DEF PullTypes
    <3>4. OnePuller' /\ \A p \in Pullers : InLine(p)' /\ Fitted(p)'
      BY <3>1 DEF PullInv, OnePuller, InLine, Fitted, DealtTo, Numbers
    <3> QED
      BY <3>1, <3>2, <3>3, <3>4 DEF PullInv
  <2>2. CASE Push
    <3>1. /\ pushed < Total /\ pusher = "open"
          /\ UNCHANGED <<pusher, sizeInfo, inbox, buffer, pulled>>
          /\ \/ /\ pushed' = pushed + 1
                /\ outbox' = [p \in Pullers |->
                                IF p \in Dealt THEN Append(outbox[p], pushed + 1)
                                               ELSE outbox[p]]
             \/ UNCHANGED <<pushed, outbox>>
      BY <2>2 DEF Push
    <3>2. CASE UNCHANGED <<pushed, outbox>>
      BY <3>1, <3>2
      DEF PullInv, PullTypes, OnePuller, InLine, Fitted, Whole, DealtTo, Numbers
    <3>3. CASE pushed' = pushed + 1 /\ outbox' = [p \in Pullers |->
                  IF p \in Dealt THEN Append(outbox[p], pushed + 1) ELSE outbox[p]]
      <4>1. pushed + 1 \in 1 .. Total /\ pushed \in Nat
        BY <2>0, <3>1 DEF PullTypes
      <4>2. PullTypes'
        <5>1. outbox' \in [Pullers -> Seq(Message)]
          <6>1. pushed + 1 \in Message /\ outbox \in [Pullers -> Seq(Message)]
            BY <2>0, <4>1 DEF PullTypes, Message
          <6> QED
            BY <3>3, <6>1
        <5> QED
          BY <2>0, <3>1, <3>3, <4>1, <5>1 DEF PullTypes
      <4>3. ASSUME NEW p \in Pullers
            PROVE  /\ Ascending(outbox'[p])
                   /\ \A m : Has(outbox'[p], m) <=>
                               Has(outbox[p], m) \/ (p \in Dealt /\ m = pushed + 1)
        <5>1. InLine(p) /\ outbox[p] \in Seq(Message)
          BY <2>0 DEF PullInv, PullTypes
        <5>2. \A m \in 1 .. Total : Has(outbox[p], m) => m < pushed + 1
          BY <4>1, <5>1 DEF InLine, DealtTo
        <5>3. CASE p \in Dealt
          <6>1. outbox'[p] = Append(outbox[p], pushed + 1)
            BY <3>3, <5>3
          <6>2. /\ Ascending(Append(outbox[p], pushed + 1))
                /\ \A m : Has(Append(outbox[p], pushed + 1), m) <=>
                            Has(outbox[p], m) \/ m = pushed + 1
            BY <4>1, <5>1, <5>2, AppendElements DEF InLine, Message
          <6> QED
            BY <5>3, <6>1, <6>2
        <5>4. CASE p \notin Dealt
          BY <3>3, <5>1, <5>4 DEF InLine
        <5> QED
          BY <5>3, <5>4
      <4>4. \A p \in Pullers : Numbers(p)' = Numbers(p) /\ inbox'[p] = inbox[p]
        BY <3>1 DEF Numbers
      <4>5. \A p \in Pullers : \A m :
              DealtTo(p, m)' <=> DealtTo(p, m) \/ (p \in Dealt /\ m = pushed + 1)
        BY <4>3, <4>4 DEF DealtTo
      <4>6. \A p \in Pullers : \A m : DealtTo(p, m) => m \in 1 .. pushed
        BY DEF PullInv, InLine
      <4>7. ASSUME NEW p \in Pullers
            PROVE  InLine(p)'
        <5>1. InLine(p)
          BY DEF PullInv
        <5>2. \A m : DealtTo(p, m)' => m \in 1 .. pushed'
          BY <3>3, <4>1, <4>5, <4>6
        <5>3. \A m : Has(inbox[p], m) \/ Has(Numbers(p), m) => m < pushed + 1
          BY <4>1, <4>6 DEF DealtTo
        <5>4. \A m, n : /\ Has(inbox'[p], m) /\ Has(outbox'[p], n) => m < n
                        /\ Has(Numbers(p)', m) /\ (Has(inbox'[p], n) \/ Has(outbox'[p], n))
                             => m < n
          BY <4>3, <4>4, <5>1, <5>3 DEF InLine
        <5> QED
          BY <4>3, <4>4, <5>1, <5>2, <5>4 DEF InLine
      <4>8. OnePuller'
        <5>1. pushed + 1 \notin 1 .. pushed
          BY <4>1
        <5>2. \A p, q \in Dealt : p = q
          BY DEF Dealt
        <5> QED
          BY <2>0, <4>5, <4>6, <5>1, <5>2 DEF OnePuller
      <4>9. \A p \in Pullers : Fitted(p)' /\ \A i \in 1 .. Len(pulled'[p]) : Whole(p, i)'
        BY <3>1 DEF PullInv, Fitted, Whole
      <4> QED
        BY <4>2, <4>7, <4>8, <4>9 DEF PullInv
    <3> QED
      BY <3>1, <3>2, <3>3
  <2>3. ASSUME NEW c \in Pullers, Carry(c)
        PROVE  PullInv'
    <3>1. /\ outbox[c] # <<>>
          /\ inbox' = [inbox EXCEPT ![c] = Append(@, Head(outbox[c]))]
          /\ outbox' = [outbox EXCEPT ![c] = Tail(@)]
          /\ UNCHANGED <<pusher, sizeInfo, pushed, buffer, pulled>>
      BY <2>3 DEF Carry, pushVars
    <3> DEFINE h == Head(outbox[c])
    <3>2. /\ InLine(c) /\ outbox[c] \in Seq(Message) /\ inbox[c] \in Seq(Message)
          /\ h \in Message /\ Tail(outbox[c]) \in Seq(Message)
      BY <2>0, <3>1 DEF PullInv, PullTypes
    <3>3. \A m : Has(outbox[c], m) <=> Has(Tail(outbox[c]), m) \/ m = h
      BY <3>1, <3>2, TailElements DEF Message
    <3>4. h \in 1 .. pushed /\ h \in 1 .. Total /\ h # 0
      <4>1. DealtTo(c, h)
        BY <3>3 DEF DealtTo
      <4>2. h \in 1 .. pushed
        BY <3>2, <4>1 DEF InLine
      <4> QED
        BY <2>0, <4>2 DEF PullTypes
    <3>5. /\ Ascending(Tail(outbox[c]))
          /\ \A m : Has(Tail(outbox[c]), m) => h < m
      <4>1. /\ Ascending(Tail(outbox[c]))
            /\ \A m \in 1 .. Total : Has(Tail(outbox[c]), m) => h < m
        BY <3>1, <3>2, <3>4, TailElements DEF InLine, Message
      <4>2. \A m : Has(Tail(outbox[c]), m) => m \in 1 .. Total
        BY <2>0, <3>2, <3>3 DEF InLine, DealtTo, PullTypes
      <4> QED
        BY <4>1, <4>2
    <3>6. /\ Ascending(Append(inbox[c], h))
          /\ \A m : Has(Append(inbox[c], h), m) <=> Has(inbox[c], m) \/ m = h
      <4>1. \A m : Has(inbox[c], m) => m < h
        BY <3>2, <3>3 DEF InLine
      <4> QED
        BY <3>2, <3>4, <4>1, AppendElements DEF InLine, Message
    <3>7. inbox'[c] = Append(inbox[c], h) /\ outbox'[c] = Tail(outbox[c])
      BY <2>0, <3>1 DEF PullTypes
    <3>8. PullTypes'
      BY <2>0, <3>1, <3>2 DEF PullTypes
    <3>9. \A p \in Pullers : Numbers(p)' = Numbers(p)
                             /\ (p # c => inbox'[p] = inbox[p] /\ outbox'[p] = outbox[p])
      BY <2>0, <3>1 DEF Numbers, PullTypes
    <3> HIDE DEF h
    <3>10. \A p \in Pullers : \A m : DealtTo(p, m)' <=> DealtTo(p, m)
      BY <3>3, <3>6, <3>7, <3>9 DEF DealtTo
    <3>11. ASSUME NEW p \in Pullers
           PROVE  InLine(p)'
      <4>1. CASE p = c
        <5>1. \A m, n : Has(inbox'[c], m) /\ Has(outbox'[c], n) => m < n
          BY <3>2, <3>3, <3>5, <3>6, <3>7 DEF InLine
        <5>2. \A m, n : Has(Numbers(c)', m) /\ (Has(inbox'[c], n) \/ Has(outbox'[c], n))
                          => m < n
          BY <3>2, <3>3, <3>6, <3>7, <3>9 DEF InLine
        <5> QED
          BY <3>1, <3>2, <3>5, <3>6, <3>7, <3>9, <3>10, <4>1, <5>1, <5>2 DEF InLine
      <4>2. CASE p # c
        BY <3>1, <3>9, <3>10, <4>2 DEF PullInv, InLine
      <4> QED
        BY <4>1, <4>2
    <3>12. OnePuller' /\ \A p \in Pullers : Fitted(p)'
                         /\ \A i \in 1 .. Len(pulled'[p]) : Whole(p, i)'
      BY <2>0, <3>1, <3>10 DEF PullInv, OnePuller, Fitted, Whole
    <3> QED
      BY <3>8, <3>11, <3>12 DEF PullInv
  <2>4. ASSUME NEW c \in Pullers, Pull(c)
        PROVE  PullInv'
    <3> DEFINE m0 == Head(inbox[c])
               new == [msg |-> m0, got |-> Received(m0, buffer[c])]
               k == Len(pulled[c])
    <3>1. /\ inbox[c] # <<>>
          /\ pulled' = [pulled EXCEPT ![c] = Append(@, new)]
          /\ buffer' = [buffer EXCEPT ![c] = Size(m0)]
          /\ inbox' = [inbox EXCEPT ![c] = Tail(@)]
          /\ UNCHANGED <<pusher, sizeInfo, pushed, outbox>>
      BY <2>4 DEF Pull, Resized, pushVars
    <3>2. /\ InLine(c) /\ Fitted(c) /\ inbox[c] \in Seq(Message)
          /\ m0 \in Message /\ Tail(inbox[c]) \in Seq(Message)
          /\ pulled[c] \in Seq(Piece) /\ k \in Nat
          /\ buffer[c] \in Nat
      BY <2>0, <3>1 DEF PullInv, PullTypes
    <3>3. \A m : Has(inbox[c], m) <=> Has(Tail(inbox[c]), m) \/ m = m0
      BY <3>1, <3>2, TailElements DEF Message
    <3>4. m0 \in 1 .. pushed /\ m0 \in 1 .. Total /\ m0 # 0
      <4>1. DealtTo(c, m0)
        BY <3>3 DEF DealtTo
      <4>2. m0 \in 1 .. pushed
        BY <3>2, <4>1 DEF InLine
      <4> QED
        BY <2>0, <4>2 DEF PullTypes
    <3>5. /\ Ascending(Tail(inbox[c]))
          /\ \A m : Has(Tail(inbox[c]), m) => m0 < m
      <4>1. /\ Ascending(Tail(inbox[c]))
            /\ \A m \in 1 .. Total : Has(Tail(inbox[c]), m) => m0 < m
        BY <3>1, <3>2, <3>4, TailElements DEF InLine, Message
      <4>2. \A m : Has(Tail(inbox[c]), m) => m \in 1 .. Total
        BY <2>0, <3>2, <3>3 DEF InLine, DealtTo, PullTypes
      <4> QED
        BY <4>1, <4>2
    <3>6. Received(m0, buffer[c]) \in Nat /\ new.msg = m0 /\ new.got = Received(m0, buffer[c])
          /\ new \in Piece
      BY <3>2, <3>4, TotalType DEF Received, Piece
    <3> HIDE DEF m0, new
    <3>7. /\ pulled'[c] = Append(pulled[c], new) /\ inbox'[c] = Tail(inbox[c])
          /\ buffer'[c] = Size(m0)
      BY <2>0, <3>1 DEF PullTypes
    <3>8. /\ Len(pulled'[c]) = k + 1 /\ pulled'[c][k + 1] = new /\ pulled'[c] # <<>>
          /\ \A i \in 1 .. k : pulled'[c][i] = pulled[c][i]
      BY <3>2, <3>6, <3>7
    <3>9. /\ Numbers(c) \in Seq(Message) /\ Len(Numbers(c)) = k
          /\ Numbers(c)' = Append(Numbers(c), m0)
      <4>1. Numbers(c) \in Seq(Message) /\ Len(Numbers(c)) = k
        <5>1. ASSUME NEW i \in 1 .. k
              PROVE  pulled[c][i].msg \in Message
          <6>1. pulled[c][i] \in Piece
            BY <3>2
          <6> QED
            BY <6>1 DEF Piece, Message
        <5> QED
          BY <3>2, <5>1 DEF Numbers
      <4>2. Numbers(c)' = [i \in 1 .. k + 1 |-> pulled'[c][i].msg]
        BY <3>8 DEF Numbers
      <4>3. \A i \in 1 .. k + 1 : pulled'[c][i].msg = IF i = k + 1 THEN m0 ELSE Numbers(c)[i]
        BY <3>2, <3>6, <3>8 DEF Numbers
      <4>4. Append(Numbers(c), m0)
              = [i \in 1 .. k + 1 |-> IF i = k + 1 THEN m0 ELSE Numbers(c)[i]]
        <5>1. /\ Append(Numbers(c), m0) \in Seq(Message) /\ Len(Append(Numbers(c), m0)) = k + 1
              /\ \A i \in 1 .. k + 1 :
                   Append(Numbers(c), m0)[i] = IF i = k + 1 THEN m0 ELSE Numbers(c)[i]
          BY <3>2, <4>1
        <5> DEFINE t == [i \in 1 .. k + 1 |-> IF i = k + 1 THEN m0 ELSE Numbers(c)[i]]
        <5>2. t \in Seq(Message) /\ Len(t) = k + 1
          BY <3>2, <4>1
        <5>3. \A i \in 1 .. k + 1 : t[i] = IF i = k + 1 THEN m0 ELSE Numbers(c)[i]
          OBVIOUS
        <5> HIDE DEF t
        <5>4. Append(Numbers(c), m0) = t
          BY <5>1, <5>2, <5>3, SeqEqual
        <5> QED
          BY <5>4 DEF t
      <4> QED
        BY <4>1, <4>2, <4>3, <4>4
    <3>10. /\ Ascending(Numbers(c)')
           /\ \A m : Has(Numbers(c)', m) <=> Has(Numbers(c), m) \/ m = m0
      <4>1. \A m : Has(Numbers(c), m) => m < m0
        BY <3>2, <3>3 DEF InLine
      <4> QED
        BY <3>2, <3>4, <3>9, <4>1, AppendElements DEF InLine, Message
    <3>11. PullTypes'
      <4>1. Size(m0) \in Nat
        BY <3>4, TotalType
      <4> QED
        BY <2>0, <3>1, <3>2, <3>6, <4>1 DEF PullTypes
    <3>12. \A p \in Pullers : /\ outbox'[p] = outbox[p]
                              /\ p # c => /\ inbox'[p] = inbox[p] /\ pulled'[p] = pulled[p]
                                          /\ buffer'[p] = buffer[p]
                                          /\ Numbers(p)' = Numbers(p)
      BY <2>0, <3>1 DEF Numbers, PullTypes
    <3>13. \A p \in Pullers : \A m : DealtTo(p, m)' <=> DealtTo(p, m)
      BY <3>3, <3>7, <3>10, <3>12 DEF DealtTo
    <3>14. ASSUME NEW p \in Pullers
           PROVE  InLine(p)'
      <4>1. CASE p = c
        <5>1. \A m, n : Has(inbox'[c], m) /\ Has(outbox'[c], n) => m < n
          BY <3>2, <3>3, <3>7, <3>12 DEF InLine
        <5>2. \A m, n : Has(Numbers(c)', m) /\ (Has(inbox'[c], n) \/ Has(outbox'[c], n))
                          => m < n
          BY <3>2, <3>3, <3>5, <3>7, <3>10, <3>12 DEF InLine
        <5> QED
          BY <3>1, <3>2, <3>5, <3>7, <3>10, <3>12, <3>13, <4>1, <5>1, <5>2 DEF InLine
      <4>2. CASE p # c
        BY <3>1, <3>12, <3>13, <4>2 DEF PullInv, InLine
      <4> QED
        BY <4>1, <4>2
    <3>15. OnePuller'
      BY <2>0, <3>13 DEF OnePuller
    <3>16. Fitted(c)'
      BY <3>6, <3>7, <3>8 DEF Fitted
    <3>17. ASSUME NEW i \in 1 .. Len(pulled'[c])
           PROVE  Whole(c, i)'
      <4>1. CASE i \in 1 .. k
        <5>1. Whole(c, i)
          BY <4>1 DEF PullInv
        <5>2. pulled'[c][i] = pulled[c][i] /\ \A j \in 1 .. i - 1 : pulled'[c][j] = pulled[c][j]
          BY <3>2, <3>8, <4>1
        <5> QED
          BY <3>1, <5>1, <5>2 DEF Whole
      <4>2. CASE i = k + 1
        <5>1. pulled'[c][i].got = Received(m0, buffer[c]) /\ pulled'[c][i].msg = m0
          BY <3>6, <3>8, <4>2
        <5>2. CASE sizeInfo \/ Size(m0) <= buffer[c]
          BY <5>1, <5>2 DEF Received, Whole
        <5>3. CASE ~sizeInfo /\ Size(m0) > buffer[c] /\ k = 0
          <6>1. buffer[c] = BufferSize
            BY <3>2, <5>3 DEF Fitted
          <6> QED
            BY <3>1, <5>1, <5>3, <6>1 DEF Whole
        <5>4. CASE ~sizeInfo /\ Size(m0) > buffer[c] /\ k > 0
          <6>1. buffer[c] = Size(pulled[c][k].msg)
            BY <3>2, <5>4 DEF Fitted
          <6>2. k \in 1 .. i - 1 /\ pulled'[c][k] = pulled[c][k]
            BY <3>2, <3>8, <4>2, <5>4
          <6>3. Size(pulled'[c][k].msg) < Size(pulled'[c][i].msg)
            BY <3>2, <5>1, <5>4, <6>1, <6>2
          <6> QED
            BY <3>1, <5>4, <6>2, <6>3 DEF Whole
        <5>5. Size(m0) \in Nat
          BY <3>4, TotalType
        <5> QED
          BY <3>2, <5>2, <5>3, <5>4, <5>5
      <4> QED
        BY <3>2, <3>8, <4>1, <4>2
    <3>18. ASSUME NEW p \in Pullers, p # c
           PROVE  Fitted(p)' /\ \A i \in 1 .. Len(pulled'[p]) : Whole(p, i)'
      BY <3>1, <3>12, <3>18 DEF PullInv, Fitted, Whole
    <3> QED
      BY <3>11, <3>14, <3>15, <3>16, <3>17, <3>18 DEF PullInv
  <2>5. ASSUME UNCHANGED <<sizeInfo, pushed, buffer, pulled>>,
               pusher' # "none" \/ pusher' = pusher,
               \A p \in Pullers : /\ outbox'[p] \in {outbox[p], <<>>}
                                  /\ inbox'[p] \in {inbox[p], <<>>},
               outbox' \in [Pullers -> Seq(Message)], inbox' \in [Pullers -> Seq(Message)]
        PROVE  PullInv'
    <3>1. PullTypes'
      BY <2>0, <2>5 DEF PullTypes
    <3>2. ~\E m : Has(<<>>, m)
      BY DEF Has
    <3>3. Ascending(<<>>)
      BY DEF Ascending
    <3>4. \A p \in Pullers : /\ Numbers(p)' = Numbers(p)
                             /\ \A m : /\ Has(outbox'[p], m) => Has(outbox[p], m)
                                       /\ Has(inbox'[p], m) => Has(inbox[p], m)
      BY <2>5, <3>2 DEF Numbers
    <3>5. \A p \in Pullers : \A m : DealtTo(p, m)' => DealtTo(p, m)
      BY <3>4 DEF DealtTo
    <3>6. ASSUME NEW p \in Pullers
          PROVE  InLine(p)'
      <4>1. Ascending(outbox'[p]) /\ Ascending(inbox'[p]) /\ Ascending(Numbers(p)')
        BY <2>5, <3>3, <3>4 DEF PullInv, InLine
      <4> QED
        BY <2>5, <3>4, <3>5, <4>1 DEF PullInv, InLine
    <3>7. OnePuller'
      BY <2>0, <3>5 DEF OnePuller
    <3>8. \A p \in Pullers : Fitted(p)' /\ \A i \in 1 .. Len(pulled'[p]) : Whole(p, i)'
      BY <2>5 DEF PullInv, Fitted, Whole
    <3> QED
      BY <3>1, <3>6, <3>7, <3>8 DEF PullInv
  <2>6. CASE ClosePusher
    <3>1. /\ outbox' = [p \in Pullers |-> <<>>] /\ pusher' = "closed"
          /\ UNCHANGED <<sizeInfo, pushed, inbox, buffer, pulled>>
      BY <2>6 DEF ClosePusher
    <3> QED
      BY <2>0, <2>5, <3>1 DEF PullTypes
  <2>7. ASSUME NEW c \in Pullers, ClosePuller(c)
        PROVE  PullInv'
    <3>1. /\ outbox' = [outbox EXCEPT ![c] = <<>>] /\ inbox' = [inbox EXCEPT ![c] = <<>>]
          /\ UNCHANGED <<pusher, sizeInfo, pushed, buffer, pulled>>
      BY <2>7 DEF ClosePuller, pushVars
    <3> QED
      BY <2>0, <2>5, <3>1 DEF PullTypes
  <2>8. ASSUME \/ \E c \in Pullers : OpenPuller(c) \/ Activate(c)
               \/ UNCHANGED pullVars
        PROVE  PullInv'
    <3>1. UNCHANGED <<pusher, sizeInfo, pushed, outbox, inbox, buffer, pulled>>
      BY <2>8 DEF OpenPuller, Activate, pullVars, pushVars, pipeVars
    <3> QED
      BY <2>0, <2>5, <3>1 DEF PullTypes
  <2> QED
    BY <2>1, <2>2, <2>3, <2>4, <2>6, <2>7, <2>8 DEF PullNext
<1> QED
  BY <1>1, <1>2, PTL DEF PullSpec

(***************************************************************************)
(* For any number of pullers and messages, of whatever size, each is       *)
(* pulled once, in order, and whole unless the buffer was made too small.  *)
(***************************************************************************)
THEOREM PulledAsPushedCorrect == PullSpec => []PulledAsPushed
<1>1. PullInv => PulledAsPushed
  <2> SUFFICES ASSUME PullInv, NEW p \in Pullers, NEW i \in DOMAIN pulled[p]
               PROVE  /\ \A j \in 1 .. i - 1 : pulled[p][j].msg < pulled[p][i].msg
                      /\ \A q \in Pullers \ {p} : \A j \in DOMAIN pulled[q] :
                           pulled[q][j].msg # pulled[p][i].msg
                      /\ Whole(p, i)
    BY DEF PulledAsPushed, Whole
  <2>1. \A q \in Pullers : /\ DOMAIN pulled[q] = 1 .. Len(pulled[q]) /\ Len(pulled[q]) \in Nat
                           /\ DOMAIN Numbers(q) = 1 .. Len(pulled[q])
                           /\ \A j \in 1 .. Len(pulled[q]) : Numbers(q)[j] = pulled[q][j].msg
    BY DEF PullInv, PullTypes, Numbers
  <2>0. \A q \in Pullers : \A j \in 1 .. Len(pulled[q]) : DealtTo(q, pulled[q][j].msg)
    BY <2>1 DEF DealtTo, Has
  <2>2. ASSUME NEW j \in 1 .. i - 1
        PROVE  pulled[p][j].msg < pulled[p][i].msg
    <3>1. /\ j \in 1 .. Len(pulled[p]) /\ i \in 1 .. Len(pulled[p]) /\ j < i
      BY <2>1
    <3>2. pulled[p][j].msg \in 1 .. pushed /\ pulled[p][i].msg \in 1 .. pushed
      BY <2>0, <3>1 DEF PullInv, InLine
    <3> QED
      BY <2>1, <3>1, <3>2 DEF PullInv, InLine, Ascending
  <2>3. ASSUME NEW q \in Pullers \ {p}, NEW j \in DOMAIN pulled[q]
        PROVE  pulled[q][j].msg # pulled[p][i].msg
    <3>1. DealtTo(q, pulled[q][j].msg) /\ DealtTo(p, pulled[p][i].msg)
      BY <2>0, <2>1
    <3> QED
      BY <3>1 DEF PullInv, OnePuller
  <2>4. Whole(p, i)
    BY <2>1 DEF PullInv
  <2> QED
    BY <2>2, <2>3, <2>4
<1> QED
  BY <1>1, PullInvariant, PTL


-----------------------------------------------------------------------------
(* PushPull: whose turn it is, and who is to get an empty message. *)

LEMMA SliceFacts ==
  ASSUME NEW S, NEW s \in Seq(S), NEW m \in Nat \ {0}, NEW n \in 0 .. Len(s), m <= n + 1
  PROVE  /\ SubSeq(s, m, n) \in Seq(S) /\ Len(SubSeq(s, m, n)) = n - m + 1
         /\ \A k \in 1 .. n - m + 1 : SubSeq(s, m, n)[k] = s[m + k - 1]
<1>1. \A k \in m .. n : s[k] \in S
  OBVIOUS
<1>2. m \in Int /\ n \in Int /\ (IF m <= n THEN n - m + 1 ELSE 0) = n - m + 1
  OBVIOUS
<1>3. /\ SubSeq(s, m, n) \in Seq(S)
      /\ Len(SubSeq(s, m, n)) = IF m <= n THEN n - m + 1 ELSE 0
      /\ \A k \in 1 .. n - m + 1 : SubSeq(s, m, n)[k] = s[m + k - 1]
  BY <1>1, <1>2, SubSeqProperties
<1> QED
  BY <1>2, <1>3

\* t is s with e put in at place i.
IsInserted(t, S, s, i, e) ==
  /\ t \in Seq(S) /\ Len(t) = Len(s) + 1
  /\ \A k \in 1 .. i - 1 : t[k] = s[k]
  /\ t[i] = e
  /\ \A k \in i + 1 .. Len(s) + 1 : t[k] = s[k - 1]

\* A sequence into which an element is put, and one from which it is taken.
LEMMA InsertFacts ==
  ASSUME NEW S, NEW s \in Seq(S), NEW i \in 1 .. Len(s) + 1, NEW e \in S
  PROVE  IsInserted(InsertAt(s, i, e), S, s, i, e)
<1>1. Len(s) \in Nat /\ i \in Nat \ {0}
  OBVIOUS
<1>2. /\ i - 1 \in 0 .. Len(s) /\ Len(s) \in 0 .. Len(s) /\ i \in Nat \ {0} /\ 1 \in Nat \ {0}
      /\ 1 <= i - 1 + 1 /\ i <= Len(s) + 1
  BY <1>1
<1>3. PICK a \in Seq(S) : /\ a = SubSeq(s, 1, i - 1) /\ Len(a) = i - 1
                          /\ \A k \in 1 .. i - 1 : a[k] = s[k]
  <2>1. /\ SubSeq(s, 1, i - 1) \in Seq(S) /\ Len(SubSeq(s, 1, i - 1)) = i - 1 - 1 + 1
        /\ \A k \in 1 .. i - 1 - 1 + 1 : SubSeq(s, 1, i - 1)[k] = s[1 + k - 1]
    BY <1>2, SliceFacts, Zenon
  <2>2. i - 1 - 1 + 1 = i - 1 /\ \A k \in 1 .. i - 1 : 1 + k - 1 = k
    BY <1>1
  <2> QED
    BY <2>1, <2>2
<1>4. PICK c \in Seq(S) : /\ c = SubSeq(s, i, Len(s)) /\ Len(c) = Len(s) - i + 1
                          /\ \A k \in 1 .. Len(s) - i + 1 : c[k] = s[i + k - 1]
  <2>1. /\ SubSeq(s, i, Len(s)) \in Seq(S) /\ Len(SubSeq(s, i, Len(s))) = Len(s) - i + 1
        /\ \A k \in 1 .. Len(s) - i + 1 : SubSeq(s, i, Len(s))[k] = s[i + k - 1]
    BY <1>2, SliceFacts, Zenon
  <2> QED
    BY <2>1, Zenon
<1>5. PICK b \in Seq(S) : b = <<e>> /\ Len(b) = 1 /\ b[1] = e
  <2>1. <<e>> \in Seq(S) /\ Len(<<e>>) = 1 /\ <<e>>[1] = e
    OBVIOUS
  <2> QED
    BY <2>1, Zenon
<1>6. PICK d \in Seq(S) : /\ d = a \o b /\ Len(d) = Len(a) + Len(b)
                          /\ \A k \in 1 .. Len(a) : d[k] = a[k]
                          /\ \A k \in 1 .. Len(b) : d[Len(a) + k] = b[k]
  <2>1. /\ a \o b \in Seq(S) /\ Len(a \o b) = Len(a) + Len(b)
        /\ \A k \in 1 .. Len(a) : (a \o b)[k] = a[k]
        /\ \A k \in 1 .. Len(b) : (a \o b)[Len(a) + k] = b[k]
    BY Concatenation
  <2> QED
    BY <2>1, Zenon
<1>7. PICK r \in Seq(S) : /\ r = d \o c /\ Len(r) = Len(d) + Len(c)
                          /\ \A k \in 1 .. Len(d) : r[k] = d[k]
                          /\ \A k \in 1 .. Len(c) : r[Len(d) + k] = c[k]
  <2>1. /\ d \o c \in Seq(S) /\ Len(d \o c) = Len(d) + Len(c)
        /\ \A k \in 1 .. Len(d) : (d \o c)[k] = d[k]
        /\ \A k \in 1 .. Len(c) : (d \o c)[Len(d) + k] = c[k]
    BY Concatenation
  <2> QED
    BY <2>1, Zenon
<1>8. r = InsertAt(s, i, e)
  BY <1>3, <1>4, <1>5, <1>6, <1>7, Zenon DEF InsertAt
<1>9. Len(d) = i /\ Len(r) = Len(s) + 1 /\ d[i] = e
  <2>1. /\ Len(a) = i - 1 /\ Len(b) = 1 /\ Len(c) = Len(s) - i + 1 /\ Len(d) = Len(a) + Len(b)
        /\ Len(r) = Len(d) + Len(c)
    BY <1>3, <1>4, <1>5, <1>6, <1>7, Zenon
  <2>2. 1 \in 1 .. Len(b) => b[1] = e /\ d[Len(a) + 1] = b[1]
    BY <1>5, <1>6, <2>1, Zenon
  <2> QED
    BY <1>1, <2>1, <2>2
<1>10. ASSUME NEW k \in 1 .. i - 1
       PROVE  r[k] = s[k]
  <2>1. k \in 1 .. Len(a) /\ k \in 1 .. Len(d)
    BY <1>1, <1>3, <1>9
  <2> QED
    BY <1>3, <1>6, <1>7, <2>1
<1>11. r[i] = e
  BY <1>1, <1>7, <1>9
<1>12. ASSUME NEW k \in i + 1 .. Len(s) + 1
       PROVE  r[k] = s[k - 1]
  <2>1. PICK j \in 1 .. Len(s) - i + 1 : j = k - i
    BY <1>1
  <2>2. r[Len(d) + j] = c[j] /\ c[j] = s[i + j - 1]
    BY <1>4, <1>7, <2>1
  <2>3. Len(d) + j = k /\ i + j - 1 = k - 1
    BY <1>1, <1>9, <2>1
  <2> QED
    BY <2>2, <2>3
<1>13. IsInserted(r, S, s, i, e)
  BY <1>9, <1>10, <1>11, <1>12 DEF IsInserted
<1> QED
  BY <1>8, <1>13, Zenon

LEMMA RemoveFacts ==
  ASSUME NEW S, NEW s \in Seq(S), NEW i \in 1 .. Len(s)
  PROVE  /\ RemoveAt(s, i) \in Seq(S) /\ Len(RemoveAt(s, i)) = Len(s) - 1
         /\ \A k \in 1 .. Len(s) - 1 : RemoveAt(s, i)[k] = IF k < i THEN s[k] ELSE s[k + 1]
<1>1. Len(s) \in Nat /\ i \in Nat \ {0}
  OBVIOUS
<1>2. /\ i - 1 \in 0 .. Len(s) /\ Len(s) \in 0 .. Len(s) /\ i + 1 \in Nat \ {0}
      /\ 1 \in Nat \ {0} /\ 1 <= i - 1 + 1 /\ i + 1 <= Len(s) + 1
  BY <1>1
<1>3. PICK a \in Seq(S) : /\ a = SubSeq(s, 1, i - 1) /\ Len(a) = i - 1
                          /\ \A k \in 1 .. i - 1 : a[k] = s[k]
  <2>1. /\ SubSeq(s, 1, i - 1) \in Seq(S) /\ Len(SubSeq(s, 1, i - 1)) = i - 1 - 1 + 1
        /\ \A k \in 1 .. i - 1 - 1 + 1 : SubSeq(s, 1, i - 1)[k] = s[1 + k - 1]
    BY <1>2, SliceFacts, Zenon
  <2>2. i - 1 - 1 + 1 = i - 1 /\ \A k \in 1 .. i - 1 : 1 + k - 1 = k
    BY <1>1
  <2> QED
    BY <2>1, <2>2
<1>4. PICK c \in Seq(S) : /\ c = SubSeq(s, i + 1, Len(s)) /\ Len(c) = Len(s) - (i + 1) + 1
                          /\ \A k \in 1 .. Len(s) - (i + 1) + 1 : c[k] = s[i + 1 + k - 1]
  <2>1. /\ SubSeq(s, i + 1, Len(s)) \in Seq(S)
        /\ Len(SubSeq(s, i + 1, Len(s))) = Len(s) - (i + 1) + 1
        /\ \A k \in 1 .. Len(s) - (i + 1) + 1 : SubSeq(s, i + 1, Len(s))[k] = s[i + 1 + k - 1]
    BY <1>2, SliceFacts, Zenon
  <2> QED
    BY <2>1, Zenon
<1>5. PICK r \in Seq(S) : /\ r = a \o c /\ Len(r) = Len(a) + Len(c)
                          /\ \A k \in 1 .. Len(a) : r[k] = a[k]
                          /\ \A k \in 1 .. Len(c) : r[Len(a) + k] = c[k]
  <2>1. /\ a \o c \in Seq(S) /\ Len(a \o c) = Len(a) + Len(c)
        /\ \A k \in 1 .. Len(a) : (a \o c)[k] = a[k]
        /\ \A k \in 1 .. Len(c) : (a \o c)[Len(a) + k] = c[k]
    BY Concatenation
  <2> QED
    BY <2>1, Zenon
<1>6. r = RemoveAt(s, i)
  BY <1>3, <1>4, <1>5, Zenon DEF RemoveAt
<1>7. Len(r) = Len(s) - 1
  <2>1. Len(a) = i - 1 /\ Len(c) = Len(s) - (i + 1) + 1 /\ Len(r) = Len(a) + Len(c)
    BY <1>3, <1>4, <1>5, Zenon
  <2> QED
    BY <1>1, <2>1
<1>8. ASSUME NEW k \in 1 .. Len(s) - 1
      PROVE  r[k] = IF k < i THEN s[k] ELSE s[k + 1]
  <2>1. CASE k < i
    <3>1. k \in 1 .. i - 1 /\ k \in 1 .. Len(a)
      BY <1>1, <1>3, <2>1
    <3> QED
      BY <1>3, <1>5, <2>1, <3>1
  <2>2. CASE k >= i
    <3>1. PICK j \in 1 .. Len(s) - (i + 1) + 1 : j = k - (i - 1)
      BY <1>1, <2>2
    <3>2. r[Len(a) + j] = c[j] /\ c[j] = s[i + 1 + j - 1]
      BY <1>4, <1>5, <3>1
    <3>3. Len(a) + j = k /\ i + 1 + j - 1 = k + 1 /\ ~(k < i)
      <4>1. Len(a) = i - 1
        BY <1>3, Zenon
      <4> QED
        BY <1>1, <2>2, <3>1, <4>1
    <3> QED
      BY <3>2, <3>3
  <2> QED
    BY <1>1, <2>1, <2>2
<1> QED
  BY <1>6, <1>7, <1>8

\* A puller has pulled an empty message, or one waits for it.
EmptyIn(s) == \E m \in NumMessages + 1 .. Total : Has(s, m)
Served(p) == puller[p] = "ended" \/ EmptyIn(inbox[p]) \/ EmptyIn(outbox[p])
Unserved == {p \in Pullers : ~Served(p)}

EveryoneIsServed ==
  pusher = "open" /\ ~skipped /\ pushed = Total => \A p \in Pullers : Served(p)

\* All that wait have a turn, those without an empty message come first, and
\* there are as many left for them.
Dealing ==
  /\ Waiting = {}
  /\ Cardinality(Unserved) <= Total - pushed
  /\ \A j, k \in DOMAIN ring : j < k /\ ring[k] \in Unserved => ring[j] \in Unserved

RingInv ==
  /\ ring \in Seq(Pullers) /\ Distinct(ring)
  /\ puller \in [Pullers -> {"none", "pulling", "ended"}]
  /\ pushed <= NumMessages => \A p \in Pullers : puller[p] # "ended"
  /\ pusher = "open" /\ ~skipped /\ pushed > NumMessages => Dealing

LEMMA UnservedFinite ==
  /\ IsFiniteSet(Unserved) /\ Cardinality(Unserved) \in Nat
  /\ Cardinality(Unserved) = 0 => Unserved = {}
  /\ Cardinality(Pullers) \in Nat
<1>1. IsFiniteSet(Pullers) /\ Unserved \subseteq Pullers
  BY PullAssumption DEF Unserved
<1>2. IsFiniteSet(Unserved)
  BY <1>1, FS_Subset
<1> QED
  BY <1>1, <1>2, FS_CardinalityType, FS_EmptySet

\* Steps that leave the turns and what is pushed alone.
LEMMA SameTurns ==
  ASSUME RingInv, UNCHANGED <<ring, pushed>>,
         pusher' = "open" /\ ~skipped' => pusher = "open" /\ ~skipped,
         puller' \in [Pullers -> {"none", "pulling", "ended"}],
         \A p \in Pullers : puller[p] = "ended" => puller'[p] = "ended",
         pushed <= NumMessages => \A p \in Pullers : puller'[p] # "ended",
         pusher' = "open" => \A p \in Pullers : Served(p)' <=> Served(p)
  PROVE  RingInv'
<1>1. ASSUME pusher' = "open", ~skipped', pushed' > NumMessages
      PROVE  Dealing'
  <2>1. Dealing
    BY <1>1 DEF RingInv
  <2>2. Unserved' = Unserved
    BY <1>1 DEF Unserved
  <2>3. Waiting' = {}
    BY <2>1 DEF Waiting, Dealing
  <2>4. Cardinality(Unserved') <= Total - pushed'
    BY <2>1, <2>2 DEF Dealing
  <2>5. \A j, k \in DOMAIN ring' : j < k /\ ring'[k] \in Unserved' => ring'[j] \in Unserved'
    BY <2>1, <2>2 DEF Dealing
  <2> QED
    BY <2>3, <2>4, <2>5 DEF Dealing
<1> QED
  BY <1>1 DEF RingInv

\* A puller without a turn gets one: none does once the empty messages are pushed.
LEMMA ActivateTurns ==
  ASSUME RingInv, NEW c \in Pullers, Activate(c)
  PROVE  RingInv'
<1>1. PICK i \in 1 .. Len(ring) + 1 : ring' = InsertAt(ring, i, c)
  BY DEF Activate
<1>2. /\ pusher = "open" /\ puller[c] = "pulling" /\ ~Contains(ring, c)
      /\ UNCHANGED <<pusher, skipped, pushed, puller>>
  BY DEF Activate, pushVars
<1>3. /\ ring' \in Seq(Pullers) /\ Len(ring') = Len(ring) + 1
      /\ \A k \in 1 .. i - 1 : ring'[k] = ring[k]
      /\ ring'[i] = c
      /\ \A k \in i + 1 .. Len(ring) + 1 : ring'[k] = ring[k - 1]
  <2>1. ring \in Seq(Pullers)
    BY DEF RingInv
  <2>2. IsInserted(InsertAt(ring, i, c), Pullers, ring, i, c)
    BY <2>1, InsertFacts, Zenon
  <2> QED
    BY <1>1, <2>2, Zenon DEF IsInserted
<1>4. /\ DOMAIN ring = 1 .. Len(ring) /\ Len(ring) \in Nat
      /\ DOMAIN ring' = 1 .. Len(ring) + 1
  BY <1>3 DEF RingInv
<1>5. Distinct(ring')
  <2>1. \A k \in 1 .. Len(ring) : ring[k] # c
    BY <1>2 DEF Contains
  <2>2. \A j, k \in 1 .. Len(ring) : ring[j] = ring[k] => j = k
    BY <1>4 DEF RingInv, Distinct
  <2> SUFFICES ASSUME NEW j \in DOMAIN ring', NEW k \in DOMAIN ring', ring'[j] = ring'[k]
               PROVE  j = k
    BY DEF Distinct
  <2>3. ASSUME NEW m \in DOMAIN ring', m # i
        PROVE  (IF m < i THEN m ELSE m - 1) \in 1 .. Len(ring)
    BY <1>4, <2>3
  <2> QED
    BY <1>3, <1>4, <2>1, <2>2, <2>3
<1>6. ~(~skipped /\ pushed > NumMessages)
  <2>1. c \in Waiting
    BY <1>2 DEF Waiting
  <2> QED
    BY <1>2, <2>1 DEF RingInv, Dealing
<1> QED
  BY <1>2, <1>3, <1>5, <1>6 DEF RingInv

\* A puller that has ended leaves, and its turn is gone.
LEMMA CloseInTurn ==
  ASSUME PullTypes, RingInv, NEW c \in Pullers, ClosePuller(c), ring' # ring
  PROVE  RingInv'
<1>1. PICK i \in DOMAIN ring : ring[i] = c /\ ring' = RemoveAt(ring, i)
  BY DEF ClosePuller
<1>2. /\ puller[c] = "ended" /\ UNCHANGED <<pusher, skipped, pushed, puller>>
      /\ \A p \in Pullers : p # c => outbox'[p] = outbox[p] /\ inbox'[p] = inbox[p]
  BY DEF ClosePuller, pushVars, PullTypes
<1>3. DOMAIN ring = 1 .. Len(ring) /\ Len(ring) \in Nat
  BY DEF RingInv
<1>4. /\ ring' \in Seq(Pullers) /\ Len(ring') = Len(ring) - 1
      /\ \A k \in 1 .. Len(ring) - 1 : ring'[k] = IF k < i THEN ring[k] ELSE ring[k + 1]
  <2>1. ring \in Seq(Pullers) /\ i \in 1 .. Len(ring)
    BY <1>3 DEF RingInv
  <2>2. /\ RemoveAt(ring, i) \in Seq(Pullers) /\ Len(RemoveAt(ring, i)) = Len(ring) - 1
        /\ \A k \in 1 .. Len(ring) - 1 : RemoveAt(ring, i)[k]
             = IF k < i THEN ring[k] ELSE ring[k + 1]
    BY <2>1, RemoveFacts, Zenon
  <2> QED
    BY <1>1, <2>2, Zenon
<1>5. DOMAIN ring' = 1 .. Len(ring) - 1
  BY <1>3, <1>4
<1>6. Distinct(ring')
  <2>1. \A j, k \in 1 .. Len(ring) : ring[j] = ring[k] => j = k
    BY <1>3 DEF RingInv, Distinct
  <2> QED
    BY <1>1, <1>3, <1>4, <1>5, <2>1 DEF Distinct
<1>7. Unserved' = Unserved
  BY <1>2 DEF Unserved, Served
<1>8. ASSUME Dealing
      PROVE  Dealing'
  <2>1. Waiting' = {}
    <3> SUFFICES ASSUME NEW p \in Pullers, puller'[p] # "ended"
                 PROVE  Contains(ring', p)
      BY DEF Waiting
    <3>1. PICK k \in 1 .. Len(ring) : ring[k] = p
      BY <1>2, <1>8 DEF Dealing, Waiting, Contains
    <3>2. k # i
      BY <1>1, <1>2, <3>1
    <3>3. CASE k < i
      BY <1>1, <1>3, <1>4, <3>1, <3>3 DEF Contains
    <3>4. CASE k > i
      <4>1. k - 1 \in 1 .. Len(ring) - 1 /\ ~(k - 1 < i) /\ k - 1 + 1 = k
        BY <1>1, <1>3, <3>4
      <4>2. ring'[k - 1] = p
        BY <1>4, <3>1, <4>1
      <4> QED
        BY <1>4, <4>1, <4>2 DEF Contains
    <3> QED
      BY <1>1, <1>3, <3>2, <3>3, <3>4
  <2>2. Cardinality(Unserved') <= Total - pushed'
    BY <1>2, <1>7, <1>8 DEF Dealing
  <2>3. ASSUME NEW j \in DOMAIN ring', NEW k \in DOMAIN ring', j < k, ring'[k] \in Unserved'
        PROVE  ring'[j] \in Unserved'
    <3> DEFINE jj == IF j < i THEN j ELSE j + 1
               kk == IF k < i THEN k ELSE k + 1
    <3>1. /\ jj \in DOMAIN ring /\ kk \in DOMAIN ring /\ jj < kk
          /\ ring'[j] = ring[jj] /\ ring'[k] = ring[kk]
      BY <1>1, <1>3, <1>4, <1>5, <2>3
    <3> HIDE DEF jj, kk
    <3> QED
      BY <1>7, <1>8, <2>3, <3>1 DEF Dealing
  <2> QED
    BY <2>1, <2>2, <2>3 DEF Dealing
<1> QED
  BY <1>2, <1>4, <1>6, <1>8 DEF RingInv

\* So one that has no turn when it leaves.
LEMMA CloseTurns ==
  ASSUME PullTypes, RingInv, NEW c \in Pullers, ClosePuller(c)
  PROVE  RingInv'
<1>1. CASE ring' = ring
  <2>1. /\ puller[c] = "ended" /\ UNCHANGED <<pusher, skipped, pushed, puller>>
        /\ \A p \in Pullers : p # c => outbox'[p] = outbox[p] /\ inbox'[p] = inbox[p]
    BY DEF ClosePuller, pushVars, PullTypes
  <2>2. \A p \in Pullers : Served(p)' <=> Served(p)
    BY <2>1 DEF Served, EmptyIn
  <2> QED
    BY <1>1, <2>1, <2>2, SameTurns DEF RingInv
<1> QED
  BY <1>1, CloseInTurn

\* A puller that is served stays so, until it has ended.
LEMMA PullTurns ==
  ASSUME PullInv, RingInv, NEW c \in Pullers, Carry(c) \/ Pull(c)
  PROVE  RingInv'
<1>0. /\ UNCHANGED <<ring, pushed, skipped, pusher>> /\ PullTypes /\ InLine(c)
      /\ Total \in Nat /\ NumMessages \in Nat
  BY TotalType, PullAssumption DEF Carry, Pull, pushVars, PullInv
<1>1. CASE Carry(c)
  <2>1. /\ outbox[c] # <<>> /\ puller' = puller
        /\ outbox' = [outbox EXCEPT ![c] = Tail(@)]
        /\ inbox' = [inbox EXCEPT ![c] = Append(@, Head(outbox[c]))]
    BY <1>1 DEF Carry
  <2>2. /\ outbox'[c] = Tail(outbox[c]) /\ inbox'[c] = Append(inbox[c], Head(outbox[c]))
        /\ \A p \in Pullers : p # c => outbox'[p] = outbox[p] /\ inbox'[p] = inbox[p]
    BY <1>0, <2>1 DEF PullTypes
  <2>3. outbox[c] \in Seq(0 .. Total) /\ inbox[c] \in Seq(0 .. Total)
        /\ Head(outbox[c]) \in 0 .. Total
    BY <1>0, <2>1 DEF PullTypes, Message
  <2>4. /\ \A m : Has(outbox[c], m) <=> Has(outbox'[c], m) \/ m = Head(outbox[c])
        /\ \A m : Has(inbox'[c], m) <=> Has(inbox[c], m) \/ m = Head(outbox[c])
    BY <1>0, <2>1, <2>2, <2>3, TailElements, AppendElements
  <2>5. \A p \in Pullers : Served(p)' <=> Served(p)
    BY <2>1, <2>2, <2>4 DEF Served, EmptyIn
  <2> QED
    BY <1>0, <2>1, <2>5, SameTurns DEF RingInv
<1>2. CASE Pull(c)
  <2> DEFINE h == Head(inbox[c])
  <2>1. /\ inbox[c] # <<>> /\ puller[c] = "pulling" /\ outbox' = outbox
        /\ puller' = [puller EXCEPT ![c] = IF Size(h) = 0 THEN "ended" ELSE "pulling"]
        /\ inbox' = [inbox EXCEPT ![c] = Tail(@)]
    <3>1. buffer' = [buffer EXCEPT ![c] = Size(h)]
      BY <1>2 DEF Pull, Resized
    <3>2. buffer'[c] = Size(h)
      BY <1>0, <3>1 DEF PullTypes
    <3> QED
      BY <1>2, <3>2 DEF Pull
  <2>2. /\ inbox'[c] = Tail(inbox[c])
        /\ \A p \in Pullers : p # c => inbox'[p] = inbox[p]
    BY <1>0, <2>1 DEF PullTypes
  <2>3. inbox[c] \in Seq(0 .. Total)
    BY <1>0 DEF PullTypes, Message
  <2>4. \A m : Has(inbox[c], m) <=> Has(inbox'[c], m) \/ m = h
    BY <1>0, <2>1, <2>2, <2>3, TailElements
  <2>5. h \in 1 .. pushed /\ pushed \in 0 .. Total
    BY <1>0, <2>4 DEF InLine, DealtTo, PullTypes
  <2>6. Size(h) = 0 <=> h \in NumMessages + 1 .. Total
    <3>1. h \in 1 .. NumMessages => SizeOf[h] \in Nat \ {0}
      BY PullAssumption
    <3> QED
      BY <1>0, <2>5, <3>1 DEF Size
  <2>7. /\ puller'[c] = (IF Size(h) = 0 THEN "ended" ELSE "pulling")
        /\ puller' \in [Pullers -> {"none", "pulling", "ended"}]
        /\ \A p \in Pullers : p # c => puller'[p] = puller[p]
    BY <2>1 DEF RingInv
  <2> HIDE DEF h
  <2>8. ASSUME NEW p \in Pullers
        PROVE  Served(p)' <=> Served(p)
    <3>1. CASE p # c
      BY <2>1, <2>2, <2>7, <3>1 DEF Served, EmptyIn
    <3>2. CASE p = c
      BY <2>1, <2>4, <2>6, <2>7, <3>2 DEF Served, EmptyIn
    <3> QED
      BY <3>1, <3>2
  <2>9. pushed <= NumMessages => \A p \in Pullers : puller'[p] # "ended"
    BY <1>0, <2>5, <2>6, <2>7 DEF RingInv
  <2>10. \A p \in Pullers : puller[p] = "ended" => puller'[p] = "ended"
    BY <2>1, <2>7
  <2> QED
    BY <1>0, <2>7, <2>8, <2>9, <2>10, SameTurns
<1> QED
  BY <1>1, <1>2

\* An empty message goes to one who waits for it, if there is one.
LEMMA PushTurns ==
  ASSUME PullInv, RingInv, Push
  PROVE  RingInv'
<1>h. PICK h \in Pullers : h = Head(ring)
  BY DEF Push, RingInv
<1> DEFINE full == Len(outbox[h]) = PipeLimit
<1>0. /\ PullTypes /\ Total \in Nat /\ NumMessages \in Nat /\ pushed \in 0 .. Total
      /\ \A p \in Pullers : InLine(p)
  BY TotalType, PullAssumption DEF PullInv, PullTypes
<1>1. /\ pusher = "open" /\ pushed < Total /\ ring # <<>>
      /\ UNCHANGED <<pusher, inbox, puller>>
      /\ ~skipped' => ~skipped /\ (pushed >= NumMessages => ~full /\ Waiting = {})
      /\ \/ /\ ~full /\ pushed' = pushed + 1 /\ ring' = Append(Tail(ring), h)
            /\ outbox' = [p \in Pullers |-> IF p \in {h} THEN Append(outbox[p], pushed + 1)
                                            ELSE outbox[p]]
         \/ full /\ ring' = Tail(ring) /\ UNCHANGED <<pushed, outbox>>
  BY <1>h DEF Push, Dealt, NextTurn
<1>2. /\ h \in Pullers /\ h = ring[1] /\ Len(ring) \in Nat /\ Len(ring) > 0
      /\ DOMAIN ring = 1 .. Len(ring)
      /\ Tail(ring) \in Seq(Pullers) /\ Len(Tail(ring)) = Len(ring) - 1
      /\ \A k \in 1 .. Len(ring) - 1 : Tail(ring)[k] = ring[k + 1]
  BY <1>h, <1>1 DEF RingInv
<1>3. \A j, k \in 1 .. Len(ring) : ring[j] = ring[k] => j = k
  BY <1>2 DEF RingInv, Distinct
<1> HIDE DEF full
<1>4. CASE full /\ ring' = Tail(ring) /\ UNCHANGED <<pushed, outbox>>
  <2>1. Distinct(ring')
    BY <1>2, <1>3, <1>4 DEF Distinct
  <2>2. ~(~skipped' /\ pushed' > NumMessages)
    BY <1>0, <1>1, <1>4
  <2> QED
    BY <1>1, <1>2, <1>4, <2>1, <2>2 DEF RingInv
<1>5. CASE /\ ~full /\ pushed' = pushed + 1 /\ ring' = Append(Tail(ring), h)
           /\ outbox' = [p \in Pullers |-> IF p \in {h} THEN Append(outbox[p], pushed + 1)
                                           ELSE outbox[p]]
  <2>1. /\ ring' \in Seq(Pullers) /\ Len(ring') = Len(ring) /\ DOMAIN ring' = 1 .. Len(ring)
        /\ \A k \in 1 .. Len(ring) - 1 : ring'[k] = ring[k + 1]
        /\ ring'[Len(ring)] = h
    BY <1>2, <1>5
  <2>2. Distinct(ring')
    BY <1>2, <1>3, <2>1 DEF Distinct
  <2>3. pushed' <= NumMessages => pushed <= NumMessages
    BY <1>0, <1>5
  <2>4. ASSUME ~skipped', pushed' > NumMessages
        PROVE  Dealing'
    <3>1. ~skipped /\ pushed >= NumMessages /\ Waiting = {}
      BY <1>0, <1>1, <1>5, <2>4
    <3>2. /\ Served(h)'
          /\ \A p \in Pullers : p # h => (Served(p)' <=> Served(p))
      <4>1. /\ outbox'[h] = Append(outbox[h], pushed + 1)
            /\ \A p \in Pullers : p # h => outbox'[p] = outbox[p]
        BY <1>2, <1>5
      <4>2. /\ outbox[h] \in Seq(0 .. Total) /\ pushed + 1 \in 0 .. Total
            /\ pushed + 1 \in NumMessages + 1 .. Total
        BY <1>0, <1>1, <1>2, <3>1 DEF PullTypes, Message
      <4>3. Has(outbox'[h], pushed + 1)
        BY <1>0, <4>1, <4>2, AppendElements
      <4>4. EmptyIn(outbox'[h])
        BY <4>2, <4>3 DEF EmptyIn
      <4> QED
        BY <1>1, <4>1, <4>4 DEF Served, EmptyIn
    <3>3. Unserved' = Unserved \ {h} /\ h \in Pullers
      BY <1>2, <3>2 DEF Unserved
    <3>4. pushed = NumMessages => Unserved = Pullers
      <4> SUFFICES ASSUME pushed = NumMessages, NEW p \in Pullers
                   PROVE  ~Served(p)
        BY DEF Unserved
      <4>1. \A m : Has(inbox[p], m) \/ Has(outbox[p], m) => m \in 1 .. NumMessages
        BY <1>0 DEF InLine, DealtTo
      <4>2. \A m \in NumMessages + 1 .. Total : m \notin 1 .. NumMessages
        BY <1>0
      <4>3. puller[p] # "ended"
        BY <1>0 DEF RingInv
      <4> QED
        BY <4>1, <4>2, <4>3 DEF Served, EmptyIn
    <3>5. pushed > NumMessages => Dealing
      BY <1>1, <3>1 DEF RingInv
    <3>6. Waiting' = {}
      <4> SUFFICES ASSUME NEW p \in Pullers, puller[p] # "ended"
                   PROVE  Contains(ring', p)
        BY <1>1 DEF Waiting
      <4>1. PICK k \in 1 .. Len(ring) : ring[k] = p
        BY <3>1 DEF Waiting, Contains
      <4>2. CASE k = 1
        BY <1>2, <2>1, <4>1, <4>2 DEF Contains
      <4>3. CASE k # 1
        <5>1. k - 1 \in 1 .. Len(ring) - 1 /\ k - 1 \in 1 .. Len(ring') /\ k - 1 + 1 = k
          BY <1>2, <2>1, <4>3
        <5>2. ring'[k - 1] = p
          BY <2>1, <4>1, <5>1
        <5> QED
          BY <5>1, <5>2 DEF Contains
      <4> QED
        BY <4>2, <4>3
    <3>7. Cardinality(Unserved') <= Total - pushed'
      <4>1. /\ Cardinality(Unserved \ {h})
                 = IF h \in Unserved THEN Cardinality(Unserved) - 1 ELSE Cardinality(Unserved)
            /\ IsFiniteSet(Unserved) /\ Cardinality(Unserved) \in Nat
        BY UnservedFinite, FS_RemoveElement
      <4>2. CASE pushed = NumMessages
        <5>1. Cardinality(Unserved) = Total - NumMessages /\ h \in Unserved
          BY <1>0, <3>3, <3>4, <4>2, UnservedFinite DEF Total
        <5> QED
          BY <1>0, <1>5, <3>3, <4>1, <4>2, <5>1
      <4>3. CASE pushed > NumMessages /\ h \in Unserved
        <5>1. Cardinality(Unserved) <= Total - pushed
          BY <3>5, <4>3 DEF Dealing
        <5> QED
          BY <1>0, <1>5, <3>3, <4>1, <4>3, <5>1
      <4>4. CASE pushed > NumMessages /\ h \notin Unserved
        <5>1. ASSUME NEW p \in Unserved
              PROVE  FALSE
          <6>1. p \in Pullers /\ puller[p] # "ended"
            BY DEF Unserved, Served
          <6>2. PICK k \in 1 .. Len(ring) : ring[k] = p
            BY <3>1, <6>1 DEF Waiting, Contains
          <6>3. k # 1
            BY <1>2, <4>4, <6>2
          <6>4. 1 \in DOMAIN ring /\ k \in DOMAIN ring /\ 1 < k
            BY <1>2, <6>3
          <6>5. ring[1] \in Unserved
            BY <3>5, <4>4, <6>2, <6>4 DEF Dealing
          <6> QED
            BY <1>2, <4>4, <6>5
        <5>2. Unserved \ {h} = {}
          BY <5>1
        <5>3. Cardinality(Unserved') = 0
          BY <3>3, <5>2, FS_EmptySet
        <5> QED
          BY <1>0, <1>1, <1>5, <5>3
      <4> QED
        BY <1>0, <3>1, <4>2, <4>3, <4>4
    <3>8. ASSUME NEW j \in DOMAIN ring', NEW k \in DOMAIN ring', j < k, ring'[k] \in Unserved'
          PROVE  ring'[j] \in Unserved'
      <4>1. k # Len(ring)
        BY <2>1, <3>3, <3>8
      <4>2. /\ j \in 1 .. Len(ring) - 1 /\ k \in 1 .. Len(ring) - 1
            /\ j + 1 \in DOMAIN ring /\ k + 1 \in DOMAIN ring /\ j + 1 < k + 1 /\ j + 1 # 1
        BY <1>2, <2>1, <3>8, <4>1
      <4>3. ring'[j] = ring[j + 1] /\ ring'[k] = ring[k + 1]
        BY <2>1, <4>2
      <4>4. ring[j + 1] # h
        <5>1. 1 \in 1 .. Len(ring) /\ j + 1 \in 1 .. Len(ring)
          BY <1>2, <4>2
        <5> QED
          BY <1>2, <1>3, <4>2, <5>1
      <4>5. ring[j + 1] \in Unserved
        <5>1. CASE pushed = NumMessages
          BY <3>4, <4>2, <5>1 DEF RingInv
        <5>2. CASE pushed > NumMessages
          BY <3>3, <3>5, <3>8, <4>2, <4>3, <5>2 DEF Dealing
        <5> QED
          BY <1>0, <3>1, <5>1, <5>2
      <4> QED
        BY <3>3, <4>3, <4>4, <4>5
    <3> QED
      BY <3>6, <3>7, <3>8 DEF Dealing
  <2> QED
    BY <1>1, <2>1, <2>2, <2>3, <2>4 DEF RingInv
<1> QED
  BY <1>1, <1>4, <1>5

LEMMA RingInvariant == PullSpec => []RingInv
<1>1. PullInit => RingInv
  <2> SUFFICES ASSUME PullInit PROVE RingInv
    OBVIOUS
  <2>1. ring = <<>> /\ puller = [p \in Pullers |-> "none"] /\ pusher = "none"
    BY DEF PullInit
  <2>2. Distinct(ring)
    BY <2>1 DEF Distinct
  <2> QED
    BY <2>1, <2>2 DEF RingInv
<1>2. PullInv /\ RingInv /\ [PullNext]_pullVars => RingInv'
  <2> SUFFICES ASSUME PullInv, RingInv, [PullNext]_pullVars
               PROVE  RingInv'
    OBVIOUS
  <2>0. /\ pusher = "none" => pushed = 0
        /\ 0 <= NumMessages /\ puller \in [Pullers -> {"none", "pulling", "ended"}]
    BY PullAssumption DEF PullInv, PullTypes, RingInv
  <2>1. CASE OpenPusher
    <3>1. /\ pusher = "none" /\ pushed' = 0 /\ UNCHANGED <<ring, puller, pushed>>
      BY <2>0, <2>1 DEF OpenPusher, pipeVars
    <3>2. ~(pushed' > NumMessages)
      BY <3>1, PullAssumption
    <3> QED
      BY <3>1, <3>2 DEF RingInv
  <2>2. CASE Push
    BY <2>2, PushTurns
  <2>3. CASE ClosePusher
    <3>1. pusher' = "closed" /\ UNCHANGED <<ring, puller, pushed, skipped>>
      BY <2>3 DEF ClosePusher
    <3> QED
      BY <3>1 DEF RingInv
  <2>4. ASSUME NEW p \in Pullers, OpenPuller(p)
        PROVE  RingInv'
    <3>1. /\ puller[p] = "none" /\ puller' = [puller EXCEPT ![p] = "pulling"]
          /\ UNCHANGED <<ring, pushed, pusher, skipped, outbox, inbox>>
      BY <2>4 DEF OpenPuller, pushVars, pipeVars
    <3>2. /\ puller' \in [Pullers -> {"none", "pulling", "ended"}]
          /\ \A q \in Pullers : puller'[q] = "ended" <=> puller[q] = "ended"
      BY <2>0, <3>1
    <3>3. \A q \in Pullers : Served(q)' <=> Served(q)
      BY <3>1, <3>2 DEF Served
    <3>4. pushed <= NumMessages => \A q \in Pullers : puller'[q] # "ended"
      BY <3>2 DEF RingInv
    <3> QED
      BY <3>1, <3>2, <3>3, <3>4, SameTurns
  <2>5. ASSUME NEW p \in Pullers, Activate(p)
        PROVE  RingInv'
    BY <2>5, ActivateTurns
  <2>6. ASSUME NEW p \in Pullers, Carry(p) \/ Pull(p)
        PROVE  RingInv'
    BY <2>6, PullTurns
  <2>7. ASSUME NEW p \in Pullers, ClosePuller(p)
        PROVE  RingInv'
    BY <2>7, CloseTurns DEF PullInv
  <2>8. CASE UNCHANGED pullVars
    <3>1. UNCHANGED <<ring, pushed, pusher, skipped, puller, outbox, inbox>>
      BY <2>8 DEF pullVars, pushVars, pipeVars
    <3> QED
      BY <3>1 DEF RingInv, Dealing, Waiting, Unserved, Served
  <2> QED
    BY <2>1, <2>2, <2>3, <2>4, <2>5, <2>6, <2>7, <2>8 DEF PullNext
<1> QED
  BY <1>1, <1>2, PullInvariant, PTL DEF PullSpec

(***************************************************************************)
(* "Two receivers, send one message to each" (PushPullTest): when all is   *)
(* pushed every puller has ended or is to get an empty message, for any    *)
(* number of pullers, unless one had no turn when they were pushed.        *)
(***************************************************************************)
THEOREM EveryoneIsServedCorrect == PullSpec => []EveryoneIsServed
<1>1. RingInv => EveryoneIsServed
  <2> SUFFICES ASSUME RingInv, pusher = "open", ~skipped, pushed = Total,
                      NEW p \in Pullers
               PROVE  Served(p)
    BY DEF EveryoneIsServed
  <2>1. NumMessages \in Nat /\ Cardinality(Pullers) \in Nat /\ Total = NumMessages + Cardinality(Pullers)
    BY PullAssumption, UnservedFinite DEF Total
  <2>2. Cardinality(Pullers) # 0
    BY PullAssumption, FS_EmptySet
  <2>3. Dealing
    BY <2>1, <2>2 DEF RingInv
  <2>4. Cardinality(Unserved) = 0
    BY <2>1, <2>3, UnservedFinite DEF Dealing
  <2> QED
    BY <2>4, UnservedFinite DEF Unserved
<1> QED
  BY <1>1, RingInvariant, PTL
-----------------------------------------------------------------------------

(***************************************************************************)
(* Serialization.  What is packed is appended to the array, and is         *)
(* unpacked from any array that begins with it.                            *)
(***************************************************************************)
Begins(a, b) == Len(b) <= Len(a) /\ \A i \in 1 .. Len(b) : a[i] = b[i]

\* The beginning of a beginning.
LEMMA BeginsTransitive ==
  ASSUME NEW a \in Seq(Int), NEW b \in Seq(Int), NEW c \in Seq(Int), Begins(a, b), Begins(b, c)
  PROVE  Begins(a, c)
<1>1. Len(c) <= Len(b) /\ Len(b) <= Len(a) /\ Len(a) \in Nat /\ Len(b) \in Nat /\ Len(c) \in Nat
  BY DEF Begins
<1>2. Len(c) <= Len(a) /\ \A i \in 1 .. Len(c) : i \in 1 .. Len(b)
  BY <1>1
<1> QED
  BY <1>2, Zenon DEF Begins

\* The object and the position of a result.
LEMMA ResultParts ==
  \A o, n : Result(o, n).obj = o /\ Result(o, n).next = n
BY DEF Result

\* What SerializePOD writes it reads back, into any object.
LEMMA PODCorrect ==
  ASSUME NEW d \in Int, NEW buf \in Seq(Int)
  PROVE  /\ PackPOD(d, buf) \in Seq(Int) /\ Begins(PackPOD(d, buf), buf)
         /\ \A a \in Seq(Int) : \A x : Begins(a, PackPOD(d, buf)) =>
              UnPackPOD(a, Len(buf) + 1, x) = Result(d, Len(PackPOD(d, buf)) + 1)
<1> DEFINE out == PackPOD(d, buf)
<1>1. /\ out \in Seq(Int) /\ Len(out) = Len(buf) + 1 /\ out[Len(buf) + 1] = d
      /\ \A i \in 1 .. Len(buf) : out[i] = buf[i]
  BY DEF PackPOD
<1>2. Begins(out, buf)
  BY <1>1 DEF Begins
<1>3. ASSUME NEW a \in Seq(Int), Begins(a, out)
      PROVE  a[Len(buf) + 1] = d
  BY <1>1, <1>3 DEF Begins
<1> QED
  BY <1>1, <1>2, <1>3 DEF UnPackPOD

\* So do SerializeVectorPOD and SerializeString, which agree on what they write.
LEMMA StringCorrect ==
  ASSUME NEW d \in Seq(Int), NEW buf \in Seq(Int)
  PROVE  /\ PackString(d, buf) \in Seq(Int) /\ Begins(PackString(d, buf), buf)
         /\ PackString(d, buf) = PackVectorPOD(d, buf)
         /\ \A a \in Seq(Int) : \A x : Begins(a, PackString(d, buf)) =>
              /\ UnPackString(a, Len(buf) + 1, x) = Result(d, Len(PackString(d, buf)) + 1)
              /\ UnPackVectorPOD(a, Len(buf) + 1, x) = Result(d, Len(PackString(d, buf)) + 1)
<1> DEFINE out == PackVectorPOD(d, buf)
<1>1. PICK h \in Seq(Int) :
        /\ h = Append(buf, Len(d)) /\ Len(h) = Len(buf) + 1 /\ h[Len(buf) + 1] = Len(d)
        /\ \A i \in 1 .. Len(buf) : h[i] = buf[i]
  <2> DEFINE g == Append(buf, Len(d))
  <2>1. /\ g \in Seq(Int) /\ Len(g) = Len(buf) + 1 /\ g[Len(buf) + 1] = Len(d)
        /\ \A i \in 1 .. Len(buf) : g[i] = buf[i]
    BY Len(d) \in Int, Appending
  <2>2. g = Append(buf, Len(d))
    OBVIOUS
  <2> HIDE DEF g
  <2> QED
    BY <2>1, <2>2
<1>2. PackString(d, buf) = out /\ out = h \o d /\ Len(d) \in Nat /\ Len(buf) \in Nat
  BY <1>1 DEF PackString, PackVectorPOD
<1> HIDE DEF out
<1>3. /\ out \in Seq(Int) /\ Len(out) = Len(buf) + 1 + Len(d)
      /\ \A i \in 1 .. Len(h) : out[i] = h[i]
      /\ \A i \in 1 .. Len(d) : out[Len(buf) + 1 + i] = d[i]
  <2>1. /\ h \o d \in Seq(Int) /\ Len(h \o d) = Len(h) + Len(d)
        /\ \A i \in 1 .. Len(h) : (h \o d)[i] = h[i]
        /\ \A i \in 1 .. Len(d) : (h \o d)[Len(h) + i] = d[i]
    BY Concatenation
  <2> QED
    BY <1>2, <1>1, <2>1
<1>4. out[Len(buf) + 1] = Len(d)
  BY <1>2, <1>1, <1>3
<1>5. Begins(out, buf)
  BY <1>2, <1>1, <1>3 DEF Begins
<1>6. ASSUME NEW a \in Seq(Int), NEW x, Begins(a, out)
      PROVE  UnPackVectorPOD(a, Len(buf) + 1, x) = Result(d, Len(out) + 1)
  <2> DEFINE i == Len(buf) + 1
  <2>1. i \in Nat /\ i + Len(d) = Len(out) /\ Len(out) <= Len(a) /\ Len(a) \in Nat
    BY <1>2, <1>3, <1>6 DEF Begins
  <2>2. a[i] = Len(d)
    BY <1>2, <1>3, <1>4, <1>6, i \in 1 .. Len(out) DEF Begins
  <2>9. \A j \in 1 .. Len(d) : out[i + j] = d[j]
    BY <1>3
  <2> HIDE DEF i
  <2>3. ASSUME NEW j \in 1 .. Len(d)
        PROVE  a[i + j] = d[j]
    <3>1. i + j \in 1 .. Len(out)
      BY <1>2, <2>1
    <3> QED
      BY <2>9, <1>6, <3>1 DEF Begins
  <2> DEFINE s == SubSeq(a, i + 1, i + Len(d))
  <2>4. \A j \in (i + 1) .. (i + Len(d)) : a[j] \in Int
    BY <1>2, <2>1
  <2>5. /\ s \in Seq(Int) /\ Len(s) = (IF i + 1 <= i + Len(d) THEN (i + Len(d)) - (i + 1) + 1 ELSE 0)
        /\ \A j \in 1 .. (i + Len(d)) - (i + 1) + 1 : s[j] = a[i + 1 + j - 1]
    BY <1>2, <2>1, <2>4, SubSeqProperties, i + 1 \in Int, i + Len(d) \in Int
  <2> HIDE DEF s
  <2>6. Len(s) = Len(d)
    BY <1>2, <2>1, <2>5
  <2>7. ASSUME NEW j \in 1 .. Len(d)
        PROVE  s[j] = d[j]
    <3>1. j \in 1 .. (i + Len(d)) - (i + 1) + 1 /\ i + 1 + j - 1 = i + j
      BY <1>2, <2>1
    <3> QED
      BY <2>3, <2>5, <3>1
  <2>8. s = d
    BY <2>5, <2>6, <2>7, SeqEqual
  <2> QED
    <3>1. i + 1 + Len(d) = (i + Len(d)) + 1
      BY <1>2, <2>1
    <3> QED
      BY <2>1, <2>2, <2>8, <3>1 DEF UnPackVectorPOD, s, i
<1>7. \A a : \A x : UnPackString(a, Len(buf) + 1, x) = UnPackVectorPOD(a, Len(buf) + 1, <<>>)
  BY DEF UnPackString
<1> QED
  BY <1>2, <1>3, <1>5, <1>6, <1>7 DEF out

\* The same of a string where its array is known.
LEMMA StringRead ==
  ASSUME NEW d \in Seq(Int), NEW buf \in Seq(Int), NEW a \in Seq(Int), Begins(a, PackString(d, buf))
  PROVE  UnPackString(a, Len(buf) + 1, <<>>) = Result(d, Len(PackString(d, buf)) + 1)
BY StringCorrect

(***************************************************************************)
(* An array that grows in every step begins with what it was before.       *)
(***************************************************************************)
LEMMA Growing ==
  ASSUME NEW n \in Nat, NEW c, c[0] \in Seq(Int),
         \A k \in 1 .. n : c[k - 1] \in Seq(Int) => c[k] \in Seq(Int) /\ Begins(c[k], c[k - 1])
  PROVE  \A k \in 0 .. n : c[k] \in Seq(Int) /\ \A j \in 0 .. k : Begins(c[k], c[j])
<1> DEFINE Good(k) == c[k] \in Seq(Int) /\ \A j \in 0 .. k : c[j] \in Seq(Int) /\ Begins(c[k], c[j])
           S == {k \in Nat : k <= n => Good(k)}
<1>1. 0 \in S
  BY DEF Begins
<1>2. ASSUME NEW m \in Nat, m \in S
      PROVE  m + 1 \in S
  <2> SUFFICES ASSUME m + 1 <= n PROVE Good(m + 1)
    OBVIOUS
  <2>1. Good(m)
    BY <1>2
  <2>2. c[m + 1] \in Seq(Int) /\ Begins(c[m + 1], c[m])
    BY <2>1, m + 1 \in 1 .. n, (m + 1) - 1 = m
  <2>3. ASSUME NEW j \in 0 .. m + 1
        PROVE  c[j] \in Seq(Int) /\ Begins(c[m + 1], c[j])
    <3>1. CASE j = m + 1
      BY <2>2, <3>1 DEF Begins
    <3>2. CASE j # m + 1
      <4>1. j \in 0 .. m
        BY <3>2
      <4>2. c[j] \in Seq(Int) /\ Begins(c[m], c[j]) /\ c[m] \in Seq(Int)
        BY <2>1, <4>1
      <4> QED
        BY <2>2, <4>2, BeginsTransitive
    <3> QED
      BY <3>1, <3>2
  <2> QED
    BY <2>2, <2>3
<1>3. \A m \in Nat : m \in S
  <2> HIDE DEF S
  <2> QED
    BY <1>1, <1>2, Induction
<1> QED
  BY <1>3

(***************************************************************************)
(* What the serializer of a vector writes, element by element; the vector  *)
(* that reads it holds its own elements and those.                         *)
(***************************************************************************)
LEMMA PackVectorSteps ==
  ASSUME NEW d \in Seq(Seq(Int)), NEW buf \in Seq(Int), NEW n \in Nat, n = Len(d)
  PROVE  \E c : /\ c[0] = Append(buf, Len(d)) /\ c[n] = PackVector(d, buf)
                /\ \A k \in 1 .. n : c[k] = PackString(d[k], c[k - 1])
<1> DEFINE Solves(f) == f = [k \in 0 .. Len(d) |-> IF k = 0 THEN Append(buf, Len(d))
                                                   ELSE PackString(d[k], f[k - 1])]
<1>1. \A k \in 1 .. n : d[k] \in Seq(Int)
  OBVIOUS
<1>2. \E f : Solves(f)
  <2>1. PICK G \in [1 .. n -> [Seq(Int) -> Seq(Int)]] :
          \A k \in 1 .. n : \A s \in Seq(Int) : G[k][s] = PackString(d[k], s)
    <3> DEFINE G == [k \in 1 .. n |-> [s \in Seq(Int) |-> PackString(d[k], s)]]
    <3>1. G \in [1 .. n -> [Seq(Int) -> Seq(Int)]]
      BY <1>1, StringCorrect
    <3>2. \A k \in 1 .. n : \A s \in Seq(Int) : G[k][s] = PackString(d[k], s)
      OBVIOUS
    <3> QED
      BY <3>1, <3>2
  <2>2. PICK b \in Seq(Int) : b = Append(buf, Len(d))
    <3>1. Append(buf, Len(d)) \in Seq(Int)
      BY Len(d) \in Int, Appending
    <3> QED
      BY <3>1, Zenon
  <2>3. PICK f \in [0 .. n -> Seq(Int)] :
          IsRecursion(f, n, b, G)
    BY RecursionExists, Zenon
  <2>4. ASSUME NEW k \in 0 .. n
        PROVE  (IF k = 0 THEN b ELSE G[k][f[k - 1]]) = (IF k = 0 THEN b ELSE PackString(d[k], f[k - 1]))
    <3>1. k # 0 => k \in 1 .. n /\ k - 1 \in 0 .. n
      OBVIOUS
    <3>2. k # 0 => f[k - 1] \in Seq(Int)
      BY <3>1
    <3> QED
      BY <2>1, <3>1, <3>2
  <2>5. f = [k \in 0 .. n |-> IF k = 0 THEN b ELSE PackString(d[k], f[k - 1])]
    BY <2>3, <2>4 DEF IsRecursion
  <2> QED
    BY <2>2, <2>5
<1>3. PICK c : Solves(c) /\ PackVector(d, buf) = c[n]
  <2>1. PackVector(d, buf) = (CHOOSE f : Solves(f))[n]
    BY DEF PackVector
  <2> HIDE DEF Solves
  <2> QED
    BY <1>2, <2>1
<1>4. c[0] = Append(buf, Len(d)) /\ \A k \in 1 .. n : c[k] = PackString(d[k], c[k - 1])
  <2>1. 0 \in 0 .. n /\ \A k \in 1 .. n : k \in 0 .. n /\ k # 0
    OBVIOUS
  <2> QED
    BY <1>3, <2>1
<1> QED
  BY <1>3, <1>4

\* SerializeVector reads its elements back, after those that the object has.
LEMMA VectorCorrect ==
  ASSUME NEW d \in Seq(Seq(Int)), NEW buf \in Seq(Int)
  PROVE  /\ PackVector(d, buf) \in Seq(Int) /\ Begins(PackVector(d, buf), buf)
         /\ \A a \in Seq(Int) : \A x \in Seq(Seq(Int)) : Begins(a, PackVector(d, buf)) =>
              UnPackVector(a, Len(buf) + 1, x) = Result(x \o d, Len(PackVector(d, buf)) + 1)
<1>1. PICK n \in Nat : n = Len(d)
  OBVIOUS
<1>2. Len(buf) \in Nat /\ \A k \in 1 .. n : d[k] \in Seq(Int)
  BY <1>1
<1>3. PICK c : /\ c[0] = Append(buf, Len(d)) /\ c[n] = PackVector(d, buf)
               /\ \A k \in 1 .. n : c[k] = PackString(d[k], c[k - 1])
  BY <1>1, PackVectorSteps
<1>4. /\ c[0] \in Seq(Int) /\ Begins(c[0], buf)
      /\ \A a \in Seq(Int) : Begins(a, c[0]) => a[Len(buf) + 1] = n /\ Len(c[0]) = Len(buf) + 1
  <2>1. /\ c[0] \in Seq(Int) /\ Len(c[0]) = Len(buf) + 1 /\ c[0][Len(buf) + 1] = Len(d)
        /\ \A i \in 1 .. Len(buf) : c[0][i] = buf[i]
    BY <1>3, Len(d) \in Int, Appending
  <2>2. Begins(c[0], buf)
    <3>1. Len(buf) <= Len(c[0])
      BY <1>2, <2>1
    <3> QED
      BY <2>1, <3>1, Zenon DEF Begins
  <2>3. ASSUME NEW a \in Seq(Int), Begins(a, c[0])
        PROVE  a[Len(buf) + 1] = Len(d)
    <3>1. Len(buf) + 1 \in 1 .. Len(c[0])
      BY <1>2, <2>1
    <3> QED
      BY <2>1, <2>3, <3>1 DEF Begins
  <2> QED
    BY <1>1, <2>1, <2>2, <2>3
<1>5. \A k \in 0 .. n : c[k] \in Seq(Int) /\ \A j \in 0 .. k : Begins(c[k], c[j])
  <2>1. ASSUME NEW k \in 1 .. n, c[k - 1] \in Seq(Int)
        PROVE  c[k] \in Seq(Int) /\ Begins(c[k], c[k - 1])
    <3>1. d[k] \in Seq(Int) /\ c[k] = PackString(d[k], c[k - 1])
      BY <1>2, <1>3
    <3> QED
      BY <2>1, <3>1, StringCorrect
  <2> QED
    BY <1>4, <2>1, Growing
<1>6. c[n] \in Seq(Int) /\ Begins(c[n], buf)
  BY <1>4, <1>5, BeginsTransitive
<1>7. ASSUME NEW a \in Seq(Int), NEW x \in Seq(Seq(Int)), Begins(a, c[n])
      PROVE  UnPackVector(a, Len(buf) + 1, x) = Result(x \o d, Len(c[n]) + 1)
  <2>1. PICK i \in Nat : i = Len(buf) + 1
    BY <1>2
  <2>2. \A k \in 0 .. n : Begins(a, c[k])
    BY <1>5, <1>7, BeginsTransitive
  <2>3. a[i] = n /\ Len(c[0]) + 1 = i + 1
    <3>1. Begins(a, c[0])
      BY <2>2
    <3>2. a[Len(buf) + 1] = n /\ Len(c[0]) = Len(buf) + 1
      BY <1>4, <3>1, Zenon
    <3> QED
      BY <2>1, <3>2, Zenon
  <2> DEFINE Step(f, k) == LET e == UnPackString(a, f[k - 1].next, <<>>)
                           IN  Result(Append(f[k - 1].obj, e.obj), e.next)
             Solves(f) == f = [k \in 0 .. a[i] |-> IF k = 0 THEN Result(x, i + 1) ELSE Step(f, k)]
  <2>4. PICK E : /\ E = [k \in 0 .. n |-> E[k]]
                 /\ \A k \in 0 .. n : E[k] = Result(x \o SubSeq(d, 1, k), Len(c[k]) + 1)
    <3> DEFINE e == [k \in 0 .. n |-> Result(x \o SubSeq(d, 1, k), Len(c[k]) + 1)]
    <3>1. e = [k \in 0 .. n |-> e[k]]
      OBVIOUS
    <3>2. \A k \in 0 .. n : e[k] = Result(x \o SubSeq(d, 1, k), Len(c[k]) + 1)
      OBVIOUS
    <3> QED
      BY <3>1, <3>2
  <2>5. E[0] = Result(x, i + 1)
    <3>1. E[0] = Result(x \o SubSeq(d, 1, 0), Len(c[0]) + 1)
      BY <2>4, 0 \in 0 .. n, Zenon
    <3>2. x \o SubSeq(d, 1, 0) = x
      BY NothingAndAll, Zenon
    <3> QED
      BY <2>3, <3>1, <3>2, Zenon
  <2>6. ASSUME NEW k \in 1 .. n
        PROVE  E[k] = Step(E, k)
    <3>1. k - 1 \in 0 .. n /\ k \in 0 .. n
      OBVIOUS
    <3>2. UnPackString(a, Len(c[k - 1]) + 1, <<>>) = Result(d[k], Len(c[k]) + 1)
      <4>1. /\ c[k - 1] \in Seq(Int) /\ d[k] \in Seq(Int) /\ c[k] = PackString(d[k], c[k - 1])
            /\ Begins(a, c[k])
        BY <1>2, <1>3, <1>5, <2>2, <3>1
      <4> QED
        <5>1. PICK v \in Seq(Int), b \in Seq(Int) : v = d[k] /\ b = c[k - 1]
          BY <4>1, Zenon
        <5>2. Begins(a, PackString(v, b))
          BY <4>1, <5>1, Zenon
        <5>3. UnPackString(a, Len(b) + 1, <<>>) = Result(v, Len(PackString(v, b)) + 1)
          BY <5>2, StringRead, Zenon
        <5> QED
          BY <4>1, <5>1, <5>3, Zenon
    <3>3. Append(x \o SubSeq(d, 1, k - 1), d[k]) = x \o SubSeq(d, 1, k)
      BY <1>1, Extending, Zenon
    <3>4. E[k - 1].obj = x \o SubSeq(d, 1, k - 1) /\ E[k - 1].next = Len(c[k - 1]) + 1
      <4>1. E[k - 1] = Result(x \o SubSeq(d, 1, k - 1), Len(c[k - 1]) + 1)
        BY <2>4, <3>1, Zenon
      <4>2. PICK o, p : o = x \o SubSeq(d, 1, k - 1) /\ p = Len(c[k - 1]) + 1
        BY Zenon
      <4>3. Result(o, p).obj = o /\ Result(o, p).next = p
        BY ResultParts, Zenon
      <4> QED
        BY <4>1, <4>2, <4>3, Zenon
    <3>5. E[k] = Result(x \o SubSeq(d, 1, k), Len(c[k]) + 1)
      BY <2>4, <3>1
    <3>6. Result(d[k], Len(c[k]) + 1).obj = d[k] /\ Result(d[k], Len(c[k]) + 1).next = Len(c[k]) + 1
      BY ResultParts, Zenon
    <3> QED
      BY <3>2, <3>3, <3>4, <3>5, <3>6, Zenon
  <2>7. Solves(E)
    <3>1. \A k \in 0 .. n : k = 0 \/ k \in 1 .. n
      OBVIOUS
    <3> HIDE DEF Step
    <3>2. \A k \in 0 .. n : E[k] = IF k = 0 THEN Result(x, i + 1) ELSE Step(E, k)
      BY <2>5, <2>6, <3>1
    <3>3. E = [k \in 0 .. n |-> IF k = 0 THEN Result(x, i + 1) ELSE Step(E, k)]
      BY <2>4, <3>2
    <3> QED
      BY <2>3, <3>3
  <2>8. PICK r : Solves(r) /\ UnPackVector(a, i, x) = r[n]
    <3>1. UnPackVector(a, i, x) = (CHOOSE f : Solves(f))[n]
      BY <2>3 DEF UnPackVector
    <3> HIDE DEF Solves
    <3> QED
      BY <2>7, <3>1
  <2>9. r[0] = E[0] /\ \A k \in 1 .. n : r[k - 1] = E[k - 1] => r[k] = E[k]
    <3>1. \A k \in 1 .. n : k \in 0 .. n /\ k # 0
      OBVIOUS
    <3>2. \A k \in 1 .. n : r[k] = Step(r, k)
      BY <2>3, <2>8, <3>1
    <3>3. r[0] = Result(x, i + 1)
      BY <2>3, <2>8
    <3> QED
      BY <2>5, <2>6, <3>2, <3>3
  <2>10. r[n] = E[n]
    <3>1. StepsAgree(r, E, n)
      BY <2>9, Zenon DEF StepsAgree
    <3>2. Agree(r, E, n)
      BY <3>1, SameSteps, Zenon
    <3> QED
      BY <3>2, n \in 0 .. n, Zenon DEF Agree
  <2>11. E[n] = Result(x \o d, Len(c[n]) + 1)
    <3>1. E[n] = Result(x \o SubSeq(d, 1, n), Len(c[n]) + 1)
      BY <2>4
    <3>2. x \o SubSeq(d, 1, n) = x \o d
      BY <1>1, NothingAndAll, Zenon
    <3> QED
      BY <3>1, <3>2, Zenon
  <2> QED
    BY <2>1, <2>8, <2>10, <2>11
<1> QED
  BY <1>3, <1>6, <1>7

(***************************************************************************)
(* Keys(m) are the keys of m, each once.                                   *)
(***************************************************************************)
LEMMA KeysEnumerate ==
  ASSUME NEW m, IsFiniteSet(DOMAIN m), DOMAIN m \subseteq Int, NEW n, n = Cardinality(DOMAIN m)
  PROVE  /\ n \in Nat /\ \A j \in 1 .. n : Keys(m)[j] \in DOMAIN m
         /\ \A i, j \in 1 .. n : Keys(m)[i] = Keys(m)[j] => i = j
         /\ \A k \in DOMAIN m : \E j \in 1 .. n : Keys(m)[j] = k
<1> DEFINE T == DOMAIN m
<1>1. n \in Nat
  BY FS_CardinalityType
<1>2. PICK s \in [1 .. n -> T] : Ascends(s, n)
  <2> HIDE DEF T
  <2>1. T \subseteq Int /\ IsFiniteSet(T) /\ Cardinality(T) = n
    BY DEF T
  <2> QED
    BY <1>1, <2>1, EnumerationExists
<1>3. PICK K : K = Keys(m) /\ K \in [1 .. n -> T] /\ \A i, j \in DOMAIN K : i < j => K[i] < K[j]
  <2>1. s \in [1 .. Cardinality(T) -> T] /\ \A i, j \in DOMAIN s : i < j => s[i] < s[j]
    BY <1>2 DEF Ascends
  <2>2. Keys(m) \in [1 .. n -> T] /\ \A i, j \in DOMAIN Keys(m) : i < j => Keys(m)[i] < Keys(m)[j]
    BY <2>1 DEF Keys
  <2> QED
    BY <2>2
<1>4. ASSUME NEW i \in 1 .. n, NEW j \in 1 .. n, K[i] = K[j]
      PROVE  i = j
  <2>1. K[i] \in Int /\ K[j] \in Int /\ (i < j => K[i] < K[j]) /\ (j < i => K[j] < K[i])
    BY <1>3
  <2> QED
    BY <1>1, <1>4, <2>1
<1>5. K \in Injection(1 .. n, T)
  BY <1>3, <1>4 DEF Injection, IsInjective
<1>6. IsFiniteSet(1 .. n) /\ Cardinality(1 .. n) = n
  BY <1>1, FS_Interval
<1>7. K \in Surjection(1 .. n, T)
  BY <1>5, <1>6, FS_Injection
<1>8. \A k \in T : \E j \in 1 .. n : K[j] = k
  BY <1>7 DEF Surjection
<1> QED
  BY <1>1, <1>3, <1>4, <1>8

(***************************************************************************)
(* Maps, and what a map x holds when the entries of m are inserted.        *)
(***************************************************************************)
IsFunction(f) == f = [q \in DOMAIN f |-> f[q]]

IsMap(m) == /\ IsFiniteSet(DOMAIN m) /\ DOMAIN m \subseteq Int /\ IsFunction(m)
            /\ \A k \in DOMAIN m : m[k] \in Seq(Int)

Merge(x, m) == [q \in DOMAIN x \cup DOMAIN m |-> IF q \in DOMAIN x THEN x[q] ELSE m[q]]

(***************************************************************************)
(* The first k entries of m, in the order of the keys.                     *)
(***************************************************************************)
Entries(m, k) == [q \in {Keys(m)[j] : j \in 1 .. k} |-> m[q]]

\* Before the first entry nothing is inserted.
LEMMA NoEntries ==
  ASSUME NEW m, NEW x, IsFunction(x)
  PROVE  Merge(x, Entries(m, 0)) = x
<1>1. {Keys(m)[j] : j \in 1 .. 0} = {}
  OBVIOUS
<1>2. DOMAIN Entries(m, 0) = {}
  BY <1>1 DEF Entries
<1>3. Merge(x, Entries(m, 0)) = [q \in DOMAIN x |-> x[q]]
  BY <1>2 DEF Merge
<1> QED
  BY <1>3 DEF IsFunction

\* Insert adds the next entry to those before.
LEMMA OneEntryMore ==
  ASSUME NEW m, NEW x, NEW n \in Nat, NEW k \in 1 .. n
  PROVE  Insert(Merge(x, Entries(m, k - 1)), Keys(m)[k], m[Keys(m)[k]]) = Merge(x, Entries(m, k))
<1> DEFINE K == Keys(m)
           old == {K[j] : j \in 1 .. k - 1}
           new == {K[j] : j \in 1 .. k}
<1>1. new = old \cup {K[k]}
  <2>1. \A j \in 1 .. k : j \in 1 .. k - 1 \/ j = k
    OBVIOUS
  <2>2. k \in 1 .. k /\ \A j \in 1 .. k - 1 : j \in 1 .. k
    OBVIOUS
  <2> QED
    BY <2>1, <2>2
<1>2. Entries(m, k - 1) = [q \in old |-> m[q]] /\ Entries(m, k) = [q \in new |-> m[q]]
  BY DEF Entries
<1> HIDE DEF K, old, new
<1>3. ([q \in old |-> m[q]]) \in [old -> {m[q] : q \in old}]
  OBVIOUS
<1>4. Insert(Merge(x, [q \in old |-> m[q]]), K[k], m[K[k]]) = Merge(x, [q \in new |-> m[q]])
  BY <1>1 DEF Insert, Merge
<1> QED
  BY <1>2, <1>4 DEF K

\* The last entry completes the map.
LEMMA AllEntries ==
  ASSUME NEW m, IsMap(m), NEW x, NEW n, n = Cardinality(DOMAIN m)
  PROVE  Merge(x, Entries(m, n)) = Merge(x, m)
<1>1. {Keys(m)[j] : j \in 1 .. n} = DOMAIN m
  <2>1. /\ \A j \in 1 .. n : Keys(m)[j] \in DOMAIN m
        /\ \A k \in DOMAIN m : \E j \in 1 .. n : Keys(m)[j] = k
    BY KeysEnumerate, Zenon DEF IsMap
  <2> QED
    BY <2>1
<1>2. Entries(m, n) = m
  BY <1>1 DEF Entries, IsMap, IsFunction
<1> QED
  BY <1>2

(***************************************************************************)
(* An entry that was packed after buf, into out, is read from a.           *)
(***************************************************************************)
EntryRead(a, k, v, buf, out) ==
  \E p : /\ UnPackPOD(a, Len(buf) + 1, 0) = Result(k, p)
         /\ UnPackString(a, p, <<>>) = Result(v, Len(out) + 1)

\* An entry is a key and a string.
LEMMA EntryCorrect ==
  ASSUME NEW k \in Int, NEW v \in Seq(Int), NEW buf \in Seq(Int), NEW out,
         out = PackString(v, PackPOD(k, buf))
  PROVE  /\ out \in Seq(Int) /\ Begins(out, buf)
         /\ \A a \in Seq(Int) : Begins(a, out) => EntryRead(a, k, v, buf, out)
<1>1. PICK mid \in Seq(Int) : mid = PackPOD(k, buf) /\ Begins(mid, buf)
  BY PODCorrect, Zenon
<1>2. out = PackString(v, mid)
  BY <1>1
<1>3. PackString(v, mid) \in Seq(Int) /\ Begins(PackString(v, mid), mid)
  BY StringCorrect, Zenon
<1>4. out \in Seq(Int) /\ Begins(out, mid)
  BY <1>2, <1>3, Zenon
<1>5. Begins(out, buf)
  BY <1>1, <1>4, BeginsTransitive, Zenon
<1>6. ASSUME NEW a \in Seq(Int), Begins(a, out)
      PROVE  EntryRead(a, k, v, buf, out)
  <2>1. Begins(a, mid) /\ Begins(a, PackString(v, mid))
    BY <1>2, <1>4, <1>6, BeginsTransitive, Zenon
  <2>2. UnPackString(a, Len(mid) + 1, <<>>) = Result(v, Len(PackString(v, mid)) + 1)
    BY <2>1, StringRead, Zenon
  <2>3. UnPackPOD(a, Len(buf) + 1, 0) = Result(k, Len(mid) + 1)
    BY <1>1, <2>1, PODCorrect
  <2> QED
    BY <1>2, <2>2, <2>3, Zenon DEF EntryRead
<1> QED
  BY <1>4, <1>5, <1>6, Zenon

(***************************************************************************)
(* What the serializer of a map writes, entry by entry; the map that reads *)
(* it keeps the entries it has.                                            *)
(***************************************************************************)
LEMMA PackMapSteps ==
  ASSUME NEW m, IsMap(m), NEW buf \in Seq(Int), NEW n \in Nat, n = Cardinality(DOMAIN m)
  PROVE  \E c : /\ c[0] = PackPOD(n, buf) /\ c[n] = PackMap(m, buf)
                /\ \A k \in 1 .. n : c[k] = PackString(m[Keys(m)[k]], PackPOD(Keys(m)[k], c[k - 1]))
<1> DEFINE Step(k, s) == PackString(m[Keys(m)[k]], PackPOD(Keys(m)[k], s))
           Solves(f) == f = [k \in 0 .. Cardinality(DOMAIN m) |->
                               IF k = 0 THEN PackPOD(Cardinality(DOMAIN m), buf) ELSE Step(k, f[k - 1])]
<1>1. ASSUME NEW k \in 1 .. n, NEW s \in Seq(Int)
      PROVE  Step(k, s) \in Seq(Int)
  <2>1. Keys(m)[k] \in DOMAIN m
    BY KeysEnumerate, Zenon DEF IsMap
  <2>2. Keys(m)[k] \in Int /\ m[Keys(m)[k]] \in Seq(Int)
    BY <2>1 DEF IsMap
  <2> QED
    BY <2>2, EntryCorrect
<1>2. \E f : Solves(f)
  <2>1. PICK G \in [1 .. n -> [Seq(Int) -> Seq(Int)]] :
          \A k \in 1 .. n : \A s \in Seq(Int) : G[k][s] = Step(k, s)
    <3> DEFINE G == [k \in 1 .. n |-> [s \in Seq(Int) |-> Step(k, s)]]
    <3> HIDE DEF Step
    <3>1. G \in [1 .. n -> [Seq(Int) -> Seq(Int)]]
      BY <1>1
    <3>2. \A k \in 1 .. n : \A s \in Seq(Int) : G[k][s] = Step(k, s)
      OBVIOUS
    <3> QED
      BY <3>1, <3>2
  <2>2. PICK b \in Seq(Int) : b = PackPOD(n, buf)
    BY n \in Int, PODCorrect, Zenon
  <2>3. PICK f \in [0 .. n -> Seq(Int)] : IsRecursion(f, n, b, G)
    BY RecursionExists, Zenon
  <2> HIDE DEF Step
  <2>4. ASSUME NEW k \in 0 .. n
        PROVE  (IF k = 0 THEN b ELSE G[k][f[k - 1]]) = (IF k = 0 THEN b ELSE Step(k, f[k - 1]))
    <3>1. k # 0 => k \in 1 .. n /\ k - 1 \in 0 .. n
      OBVIOUS
    <3>2. k # 0 => f[k - 1] \in Seq(Int)
      BY <3>1
    <3> QED
      BY <2>1, <3>1, <3>2
  <2>5. f = [k \in 0 .. n |-> IF k = 0 THEN b ELSE Step(k, f[k - 1])]
    BY <2>3, <2>4 DEF IsRecursion
  <2> QED
    BY <2>2, <2>5
<1>3. PICK c : Solves(c) /\ PackMap(m, buf) = c[n]
  <2>1. PackMap(m, buf) = (CHOOSE f : Solves(f))[n]
    BY DEF PackMap
  <2> HIDE DEF Solves
  <2> QED
    BY <1>2, <2>1
<1>4. c[0] = PackPOD(n, buf) /\ \A k \in 1 .. n : c[k] = Step(k, c[k - 1])
  <2>1. 0 \in 0 .. n /\ \A k \in 1 .. n : k \in 0 .. n /\ k # 0
    OBVIOUS
  <2> HIDE DEF Step
  <2> QED
    BY <1>3, <2>1
<1> QED
  BY <1>3, <1>4

\* SerializeMap reads its entries back, and keeps those that the object has.
LEMMA MapCorrect ==
  ASSUME NEW m, IsMap(m), NEW buf \in Seq(Int)
  PROVE  /\ PackMap(m, buf) \in Seq(Int) /\ Begins(PackMap(m, buf), buf)
         /\ \A a \in Seq(Int) : \A x : IsFunction(x) /\ Begins(a, PackMap(m, buf)) =>
              UnPackMap(a, Len(buf) + 1, x) = Result(Merge(x, m), Len(PackMap(m, buf)) + 1)
<1>1. PICK n \in Nat : n = Cardinality(DOMAIN m)
  BY FS_CardinalityType DEF IsMap
<1>2. Len(buf) \in Nat
  OBVIOUS
<1>3. \A k \in 1 .. n : Keys(m)[k] \in Int /\ m[Keys(m)[k]] \in Seq(Int)
  <2>1. \A k \in 1 .. n : Keys(m)[k] \in DOMAIN m
    BY <1>1, KeysEnumerate, Zenon DEF IsMap
  <2> QED
    BY <2>1 DEF IsMap
<1>4. PICK c : /\ c[0] = PackPOD(n, buf) /\ c[n] = PackMap(m, buf)
               /\ \A k \in 1 .. n : c[k] = PackString(m[Keys(m)[k]], PackPOD(Keys(m)[k], c[k - 1]))
  BY <1>1, PackMapSteps
<1>5. /\ c[0] \in Seq(Int) /\ Begins(c[0], buf)
      /\ \A a \in Seq(Int) : Begins(a, c[0]) => UnPackPOD(a, Len(buf) + 1, 0) = Result(n, Len(c[0]) + 1)
  BY <1>4, n \in Int, PODCorrect
<1>6. ASSUME NEW k \in 1 .. n, c[k - 1] \in Seq(Int)
      PROVE  /\ c[k] \in Seq(Int) /\ Begins(c[k], c[k - 1])
             /\ \A a \in Seq(Int) : Begins(a, c[k]) =>
                  EntryRead(a, Keys(m)[k], m[Keys(m)[k]], c[k - 1], c[k])
  <2>1. PICK q \in Int, v \in Seq(Int), b \in Seq(Int) :
          q = Keys(m)[k] /\ v = m[Keys(m)[k]] /\ b = c[k - 1]
    BY <1>3, <1>6, Zenon
  <2>2. PICK out : out = PackString(v, PackPOD(q, b))
    BY Zenon
  <2>3. out = c[k]
    BY <1>4, <2>1, <2>2, Zenon
  <2>4. /\ out \in Seq(Int) /\ Begins(out, b)
        /\ \A a \in Seq(Int) : Begins(a, out) => EntryRead(a, q, v, b, out)
    BY <2>2, EntryCorrect, Zenon
  <2> QED
    BY <2>1, <2>3, <2>4, Zenon
<1>7. \A k \in 0 .. n : c[k] \in Seq(Int) /\ \A j \in 0 .. k : Begins(c[k], c[j])
  <2>1. \A k \in 1 .. n : c[k - 1] \in Seq(Int) => c[k] \in Seq(Int) /\ Begins(c[k], c[k - 1])
    BY <1>6
  <2> QED
    BY <1>5, <2>1, Growing
<1>8. c[n] \in Seq(Int) /\ Begins(c[n], buf)
  BY <1>5, <1>7, BeginsTransitive
<1>9. ASSUME NEW a \in Seq(Int), NEW x, IsFunction(x), Begins(a, c[n])
      PROVE  UnPackMap(a, Len(buf) + 1, x) = Result(Merge(x, m), Len(c[n]) + 1)
  <2>1. PICK i \in Nat : i = Len(buf) + 1
    BY <1>2
  <2>2. \A k \in 0 .. n : Begins(a, c[k])
    BY <1>7, <1>9, BeginsTransitive
  <2>3. UnPackPOD(a, i, 0).obj = n /\ UnPackPOD(a, i, 0).next = Len(c[0]) + 1
    <3>1. Begins(a, c[0])
      BY <2>2
    <3>2. UnPackPOD(a, i, 0) = Result(n, Len(c[0]) + 1)
      BY <1>5, <2>1, <3>1, Zenon
    <3> QED
      BY <3>2, ResultParts
  <2> DEFINE size == UnPackPOD(a, i, 0)
             Step(f, j) == LET k == UnPackPOD(a, f[j - 1].next, 0)
                               v == UnPackString(a, k.next, <<>>)
                           IN  Result(Insert(f[j - 1].obj, k.obj, v.obj), v.next)
             Solves(f) == f = [k \in 0 .. size.obj |-> IF k = 0 THEN Result(x, size.next) ELSE Step(f, k)]
  <2>4. PICK E : /\ E = [k \in 0 .. n |-> E[k]]
                 /\ \A k \in 0 .. n : E[k] = Result(Merge(x, Entries(m, k)), Len(c[k]) + 1)
    <3> DEFINE e == [k \in 0 .. n |-> Result(Merge(x, Entries(m, k)), Len(c[k]) + 1)]
    <3>1. e = [k \in 0 .. n |-> e[k]]
      OBVIOUS
    <3>2. \A k \in 0 .. n : e[k] = Result(Merge(x, Entries(m, k)), Len(c[k]) + 1)
      OBVIOUS
    <3> QED
      BY <3>1, <3>2
  <2>5. E[0] = Result(x, size.next)
    <3>1. E[0] = Result(Merge(x, Entries(m, 0)), Len(c[0]) + 1)
      BY <2>4, 0 \in 0 .. n, Zenon
    <3>2. Merge(x, Entries(m, 0)) = x
      BY <1>9, NoEntries, Zenon
    <3> QED
      BY <2>3, <3>1, <3>2, Zenon
  <2>6. ASSUME NEW k \in 1 .. n
        PROVE  E[k] = Step(E, k)
    <3>1. k - 1 \in 0 .. n /\ k \in 0 .. n
      OBVIOUS
    <3>2. PICK p : /\ UnPackPOD(a, Len(c[k - 1]) + 1, 0) = Result(Keys(m)[k], p)
                   /\ UnPackString(a, p, <<>>) = Result(m[Keys(m)[k]], Len(c[k]) + 1)
      <4>1. c[k - 1] \in Seq(Int) /\ Begins(a, c[k])
        BY <1>7, <2>2, <3>1, Zenon
      <4> QED
        BY <1>6, <4>1, Zenon DEF EntryRead
    <3>3. Insert(Merge(x, Entries(m, k - 1)), Keys(m)[k], m[Keys(m)[k]]) = Merge(x, Entries(m, k))
      BY OneEntryMore, Zenon
    <3>4. E[k - 1].obj = Merge(x, Entries(m, k - 1)) /\ E[k - 1].next = Len(c[k - 1]) + 1
      <4>1. E[k - 1] = Result(Merge(x, Entries(m, k - 1)), Len(c[k - 1]) + 1)
        BY <2>4, <3>1, Zenon
      <4> QED
        BY <4>1, ResultParts
    <3>5. E[k] = Result(Merge(x, Entries(m, k)), Len(c[k]) + 1)
      BY <2>4, <3>1
    <3>6. /\ UnPackPOD(a, E[k - 1].next, 0).obj = Keys(m)[k] /\ UnPackPOD(a, E[k - 1].next, 0).next = p
          /\ UnPackString(a, p, <<>>).obj = m[Keys(m)[k]] /\ UnPackString(a, p, <<>>).next = Len(c[k]) + 1
      BY <3>2, <3>4, ResultParts
    <3> QED
      BY <3>3, <3>4, <3>5, <3>6, Zenon
  <2>7. Solves(E)
    <3>1. \A k \in 0 .. n : k = 0 \/ k \in 1 .. n
      OBVIOUS
    <3> HIDE DEF Step, size
    <3>2. \A k \in 0 .. n : E[k] = IF k = 0 THEN Result(x, size.next) ELSE Step(E, k)
      BY <2>5, <2>6, <3>1
    <3>3. E = [k \in 0 .. n |-> IF k = 0 THEN Result(x, size.next) ELSE Step(E, k)]
      BY <2>4, <3>2
    <3>4. size.obj = n
      BY <2>3 DEF size
    <3> QED
      BY <3>3, <3>4
  <2>8. PICK r : Solves(r) /\ UnPackMap(a, i, x) = r[n]
    <3>1. UnPackMap(a, i, x) = (CHOOSE f : Solves(f))[n]
      BY <2>3 DEF UnPackMap
    <3> HIDE DEF Solves
    <3> QED
      BY <2>7, <3>1
  <2>9. r[0] = E[0] /\ \A k \in 1 .. n : r[k - 1] = E[k - 1] => r[k] = E[k]
    <3>1. \A k \in 1 .. n : k \in 0 .. n /\ k # 0
      OBVIOUS
    <3>2. size.obj = n
      BY <2>3
    <3> HIDE DEF size
    <3>3. \A k \in 1 .. n : r[k] = Step(r, k)
      <4> HIDE DEF Step
      <4> QED
        BY <2>8, <3>1, <3>2
    <3>4. r[0] = Result(x, size.next)
      <4> HIDE DEF Step
      <4> QED
        BY <2>8, <3>2
    <3>5. \A k \in 1 .. n : r[k - 1] = E[k - 1] => Step(r, k) = Step(E, k)
      BY Zenon
    <3> HIDE DEF Step
    <3> QED
      BY <2>5, <2>6, <3>3, <3>4, <3>5
  <2>10. r[n] = E[n]
    <3>1. StepsAgree(r, E, n)
      BY <2>9, Zenon DEF StepsAgree
    <3>2. Agree(r, E, n)
      BY <3>1, SameSteps, Zenon
    <3> QED
      BY <3>2, n \in 0 .. n, Zenon DEF Agree
  <2>11. E[n] = Result(Merge(x, m), Len(c[n]) + 1)
    <3>1. E[n] = Result(Merge(x, Entries(m, n)), Len(c[n]) + 1)
      BY <2>4, n \in 0 .. n, Zenon
    <3>2. Merge(x, Entries(m, n)) = Merge(x, m)
      BY <1>1, AllEntries, Zenon
    <3> QED
      BY <3>1, <3>2, Zenon
  <2> QED
    BY <2>1, <2>8, <2>10, <2>11
<1> QED
  BY <1>4, <1>8, <1>9

(***************************************************************************)
(* What UnPack makes of an object x of type t that reads d.                *)
(***************************************************************************)
Join(t, x, d) == CASE t = "map" -> Merge(x, d) [] t = "strings" -> x \o d [] OTHER -> d

\* What an object must be to be read into; types that replace it take any.
IsObject(t, x) == /\ t = "map" => IsFunction(x)
                  /\ t = "strings" => x \in Seq(Seq(Int))

(***************************************************************************)
(* What was packed after buf, into out, is read from a: for every type,    *)
(* and for every object that is read into.                                 *)
(***************************************************************************)
Reads(t, a, x, d, buf, out) == UnPack(t, a, Len(buf) + 1, x) = Result(Join(t, x, d), Len(out) + 1)

\* By the lemma of each serializer.
LEMMA PackCorrect ==
  ASSUME NEW t \in Types, NEW d, IsValue(t, d), NEW buf \in Seq(Int), NEW out, out = Pack(t, d, buf)
  PROVE  /\ out \in Seq(Int) /\ Begins(out, buf)
         /\ \A a \in Seq(Int) : \A x : IsObject(t, x) /\ Begins(a, out) => Reads(t, a, x, d, buf, out)
<1>1. CASE t = "int"
  <2>1. d \in Int /\ out = PackPOD(d, buf) /\ \A x : Join(t, x, d) = d
    BY <1>1 DEF IsValue, Pack, Join
  <2>2. \A a, x : UnPack(t, a, Len(buf) + 1, x) = UnPackPOD(a, Len(buf) + 1, x)
    BY <1>1 DEF UnPack
  <2> QED
    BY <2>1, <2>2, PODCorrect DEF Reads
<1>2. CASE t = "ints"
  <2>1. d \in Seq(Int) /\ out = PackVectorPOD(d, buf) /\ \A x : Join(t, x, d) = d
    BY <1>2 DEF IsValue, Pack, Join
  <2>2. \A a, x : UnPack(t, a, Len(buf) + 1, x) = UnPackVectorPOD(a, Len(buf) + 1, x)
    BY <1>2 DEF UnPack
  <2>3. PackString(d, buf) = out
    BY <2>1, StringCorrect
  <2>4. /\ out \in Seq(Int) /\ Begins(out, buf)
        /\ \A a \in Seq(Int) : \A x : Begins(a, out) =>
             UnPackVectorPOD(a, Len(buf) + 1, x) = Result(d, Len(out) + 1)
    BY <2>1, <2>3, StringCorrect
  <2> QED
    BY <2>1, <2>2, <2>4 DEF Reads
<1>3. CASE t = "string"
  <2>1. d \in Seq(Int) /\ out = PackString(d, buf) /\ \A x : Join(t, x, d) = d
    BY <1>3 DEF IsValue, Pack, Join
  <2>2. \A a, x : UnPack(t, a, Len(buf) + 1, x) = UnPackString(a, Len(buf) + 1, x)
    BY <1>3 DEF UnPack
  <2> QED
    BY <2>1, <2>2, StringCorrect DEF Reads
<1>4. CASE t = "strings"
  <2>1. d \in Seq(Seq(Int)) /\ out = PackVector(d, buf) /\ \A x : Join(t, x, d) = x \o d
    BY <1>4 DEF IsValue, Pack, Join
  <2>2. \A a, x : UnPack(t, a, Len(buf) + 1, x) = UnPackVector(a, Len(buf) + 1, x)
    BY <1>4 DEF UnPack
  <2>3. \A x : IsObject(t, x) => x \in Seq(Seq(Int))
    BY <1>4 DEF IsObject
  <2>4. /\ out \in Seq(Int) /\ Begins(out, buf)
        /\ \A a \in Seq(Int) : \A x \in Seq(Seq(Int)) : Begins(a, out) =>
             UnPackVector(a, Len(buf) + 1, x) = Result(x \o d, Len(out) + 1)
    <3>1. PICK v \in Seq(Seq(Int)) : v = d
      BY <2>1, Zenon
    <3>2. /\ PackVector(v, buf) \in Seq(Int) /\ Begins(PackVector(v, buf), buf)
          /\ \A a \in Seq(Int) : \A x \in Seq(Seq(Int)) : Begins(a, PackVector(v, buf)) =>
               UnPackVector(a, Len(buf) + 1, x) = Result(x \o v, Len(PackVector(v, buf)) + 1)
      BY VectorCorrect
    <3> QED
      BY <2>1, <3>1, <3>2, Zenon
  <2> QED
    BY <2>1, <2>2, <2>3, <2>4, Zenon DEF Reads
<1>5. CASE t = "map"
  <2>1. IsMap(d) /\ out = PackMap(d, buf) /\ \A x : Join(t, x, d) = Merge(x, d)
    BY <1>5 DEF IsValue, Pack, Join, IsMap, IsFunction
  <2>2. \A a, x : UnPack(t, a, Len(buf) + 1, x) = UnPackMap(a, Len(buf) + 1, x)
    BY <1>5 DEF UnPack
  <2>3. \A x : IsObject(t, x) => IsFunction(x)
    BY <1>5 DEF IsObject
  <2> QED
    BY <2>1, <2>2, <2>3, MapCorrect DEF Reads
<1> QED
  BY <1>1, <1>2, <1>3, <1>4, <1>5 DEF Types

\* A new object becomes the value that is read.
LEMMA FreshObjects ==
  ASSUME NEW t \in Types
  PROVE  /\ IsObject(t, Fresh(t))
         /\ \A d : IsValue(t, d) => Join(t, Fresh(t), d) = d
<1>1. IsObject(t, Fresh(t))
  BY DEF IsObject, Fresh, IsFunction
<1>2. ASSUME NEW d, IsValue(t, d)
      PROVE  Join(t, Fresh(t), d) = d
  <2>1. CASE t = "map"
    BY <1>2, <2>1 DEF Join, Fresh, Merge, IsValue
  <2>2. CASE t = "strings"
    <3>1. d \in Seq(Seq(Int)) /\ Fresh(t) = <<>> /\ Join(t, Fresh(t), d) = Fresh(t) \o d
      BY <1>2, <2>2 DEF IsValue, Fresh, Join
    <3>2. <<>> \o d = d
      BY <3>1, ConcatEmptySeq
    <3> QED
      BY <3>1, <3>2
  <2>3. CASE t # "map" /\ t # "strings"
    BY <2>3 DEF Join
  <2> QED
    BY <2>1, <2>2, <2>3
<1> QED
  BY <1>1, <1>2

\* What was read into can be read into again.
LEMMA JoinedObjects ==
  ASSUME NEW t \in Types, NEW x, IsObject(t, x), NEW d, IsValue(t, d)
  PROVE  IsObject(t, Join(t, x, d))
<1>1. CASE t = "map"
  BY <1>1 DEF IsObject, Join, Merge, IsFunction
<1>2. CASE t = "strings"
  <2>1. d \in Seq(Seq(Int)) /\ x \in Seq(Seq(Int)) /\ Join(t, x, d) = x \o d
    BY <1>2 DEF IsValue, IsObject, Join
  <2>2. x \o d \in Seq(Seq(Int))
    BY <2>1, ConcatProperties
  <2> QED
    BY <1>2, <2>1, <2>2 DEF IsObject
<1>3. CASE t # "map" /\ t # "strings"
  BY <1>3 DEF IsObject
<1> QED
  BY <1>1, <1>2, <1>3

(***************************************************************************)
(* Pack of several values is Pack of one after the other.                  *)
(***************************************************************************)
LEMMA PackAllSteps ==
  ASSUME NEW items \in Seq(Items), NEW buf \in Seq(Int), NEW n \in Nat, n = Len(items)
  PROVE  \E c : /\ c[0] = buf /\ c[n] = PackAll(buf, items)
                /\ \A k \in 1 .. n : c[k] = Pack(items[k].type, items[k].value, c[k - 1])
<1> DEFINE Step(k, s) == Pack(items[k].type, items[k].value, s)
           Solves(f) == f = [k \in 0 .. Len(items) |-> IF k = 0 THEN buf ELSE Step(k, f[k - 1])]
<1>1. ASSUME NEW k \in 1 .. n, NEW s \in Seq(Int)
      PROVE  Step(k, s) \in Seq(Int)
  <2>1. items[k] \in Items
    OBVIOUS
  <2>2. items[k].type \in Types /\ IsValue(items[k].type, items[k].value)
    BY <2>1, ArchiveAssumption
  <2> QED
    BY <2>2, PackCorrect
<1>2. \E f : Solves(f)
  <2>1. PICK G \in [1 .. n -> [Seq(Int) -> Seq(Int)]] :
          \A k \in 1 .. n : \A s \in Seq(Int) : G[k][s] = Step(k, s)
    <3> DEFINE G == [k \in 1 .. n |-> [s \in Seq(Int) |-> Step(k, s)]]
    <3> HIDE DEF Step
    <3>1. G \in [1 .. n -> [Seq(Int) -> Seq(Int)]]
      BY <1>1
    <3>2. \A k \in 1 .. n : \A s \in Seq(Int) : G[k][s] = Step(k, s)
      OBVIOUS
    <3> QED
      BY <3>1, <3>2
  <2>2. PICK f \in [0 .. n -> Seq(Int)] : IsRecursion(f, n, buf, G)
    BY RecursionExists, Zenon
  <2> HIDE DEF Step
  <2>3. ASSUME NEW k \in 0 .. n
        PROVE  (IF k = 0 THEN buf ELSE G[k][f[k - 1]]) = (IF k = 0 THEN buf ELSE Step(k, f[k - 1]))
    <3>1. k # 0 => k \in 1 .. n /\ k - 1 \in 0 .. n
      OBVIOUS
    <3>2. k # 0 => f[k - 1] \in Seq(Int)
      BY <3>1
    <3> QED
      BY <2>1, <3>1, <3>2
  <2>4. f = [k \in 0 .. n |-> IF k = 0 THEN buf ELSE Step(k, f[k - 1])]
    BY <2>2, <2>3 DEF IsRecursion
  <2> QED
    BY <2>4
<1>3. PICK c : Solves(c) /\ PackAll(buf, items) = c[n]
  <2>1. PackAll(buf, items) = (CHOOSE f : Solves(f))[n]
    BY DEF PackAll
  <2> HIDE DEF Solves
  <2> QED
    BY <1>2, <2>1
<1>4. c[0] = buf /\ \A k \in 1 .. n : c[k] = Step(k, c[k - 1])
  <2>1. 0 \in 0 .. n /\ \A k \in 1 .. n : k \in 0 .. n /\ k # 0
    OBVIOUS
  <2> HIDE DEF Step
  <2> QED
    BY <1>3, <2>1
<1> QED
  BY <1>3, <1>4

\* Nothing is packed.
LEMMA PackAllNone ==
  ASSUME NEW buf \in Seq(Int)
  PROVE  PackAll(buf, <<>>) = buf
<1>1. PICK none \in Seq(Items), n \in Nat : none = <<>> /\ n = 0 /\ n = Len(none)
  <2>1. <<>> \in Seq(Items) /\ Len(<<>>) = 0 /\ 0 \in Nat
    OBVIOUS
  <2> QED
    BY <2>1, Zenon
<1>2. PICK c : c[0] = buf /\ c[n] = PackAll(buf, none)
  BY <1>1, PackAllSteps
<1> QED
  BY <1>1, <1>2

\* One value more is packed after the others.
LEMMA PackAllOneMore ==
  ASSUME NEW items \in Seq(Items), NEW item \in Items, NEW buf \in Seq(Int)
  PROVE  PackAll(buf, Append(items, item)) = Pack(item.type, item.value, PackAll(buf, items))
<1>1. PICK n \in Nat : n = Len(items)
  OBVIOUS
<1>2. PICK more \in Seq(Items) : /\ more = Append(items, item) /\ Len(more) = n + 1 /\ more[n + 1] = item
                                 /\ \A i \in 1 .. n : more[i] = items[i]
  <2>1. Append(items, item) \in Seq(Items) /\ Len(Append(items, item)) = Len(items) + 1
    OBVIOUS
  <2>2. PICK more : more = Append(items, item)
    BY Zenon
  <2>3. more[Len(items) + 1] = item /\ \A i \in 1 .. Len(items) : more[i] = items[i]
    BY <2>2, Appending
  <2> QED
    BY <1>1, <2>1, <2>2, <2>3
<1>3. PICK c : /\ c[0] = buf /\ c[n] = PackAll(buf, items)
               /\ \A k \in 1 .. n : c[k] = Pack(items[k].type, items[k].value, c[k - 1])
  BY <1>1, PackAllSteps
<1>4. PICK e : /\ e[0] = buf /\ e[n + 1] = PackAll(buf, more)
               /\ \A k \in 1 .. n + 1 : e[k] = Pack(more[k].type, more[k].value, e[k - 1])
  BY <1>2, n + 1 \in Nat, PackAllSteps
<1>5. StepsAgree(e, c, n)
  <2>1. ASSUME NEW k \in 1 .. n, e[k - 1] = c[k - 1]
        PROVE  e[k] = c[k]
    <3>1. k \in 1 .. n + 1 /\ more[k] = items[k]
      BY <1>2
    <3>2. e[k] = Pack(more[k].type, more[k].value, e[k - 1])
      BY <1>4, <3>1, Zenon
    <3> QED
      BY <1>3, <2>1, <3>1, <3>2, Zenon
  <2> QED
    BY <1>3, <1>4, <2>1, Zenon DEF StepsAgree
<1>6. e[n] = c[n]
  <2>1. Agree(e, c, n)
    BY <1>5, SameSteps, Zenon
  <2> QED
    BY <2>1, n \in 0 .. n, Zenon DEF Agree
<1>7. e[n + 1] = Pack(item.type, item.value, e[n])
  <2>1. n + 1 \in 1 .. n + 1 /\ (n + 1) - 1 = n
    OBVIOUS
  <2> QED
    BY <1>2, <1>4, <2>1
<1> QED
  BY <1>2, <1>3, <1>4, <1>6, <1>7, Zenon

(***************************************************************************)
(* The array with the first k values of args.                              *)
(***************************************************************************)
ArrayOf(items, k) == PackAll(<<>>, SubSeq(items, 1, k))

\* ArrayOf grows by Pack of the next value.
LEMMA ArraySteps ==
  ASSUME NEW items \in Seq(Items), NEW n \in Nat, n = Len(items)
  PROVE  /\ ArrayOf(items, 0) = <<>> /\ ArrayOf(items, n) = PackAll(<<>>, items)
         /\ \A k \in 1 .. n : ArrayOf(items, k) = Pack(items[k].type, items[k].value, ArrayOf(items, k - 1))
<1>1. PICK none \in Seq(Int) : none = <<>>
  <2>1. <<>> \in Seq(Int)
    OBVIOUS
  <2> QED
    BY <2>1, Zenon
<1>2. ArrayOf(items, 0) = <<>>
  <2>1. SubSeq(items, 1, 0) = <<>>
    BY PrefixFacts, Zenon
  <2>2. PackAll(none, <<>>) = none
    BY PackAllNone, Zenon
  <2> QED
    BY <1>1, <2>1, <2>2, Zenon DEF ArrayOf
<1>3. ArrayOf(items, n) = PackAll(<<>>, items)
  BY PrefixFacts, Zenon DEF ArrayOf
<1>4. ASSUME NEW k \in 1 .. n
      PROVE  ArrayOf(items, k) = Pack(items[k].type, items[k].value, ArrayOf(items, k - 1))
  <2>1. k - 1 \in 0 .. Len(items) /\ k \in 1 .. Len(items) /\ items[k] \in Items
    OBVIOUS
  <2>2. PICK prefix \in Seq(Items), item \in Items : prefix = SubSeq(items, 1, k - 1) /\ item = items[k]
    BY <2>1, PrefixFacts, Zenon
  <2>3. SubSeq(items, 1, k) = Append(prefix, item)
    BY <2>1, <2>2, PrefixFacts, Zenon
  <2>4. PackAll(none, Append(prefix, item)) = Pack(item.type, item.value, PackAll(none, prefix))
    BY PackAllOneMore, Zenon
  <2> QED
    BY <1>1, <2>2, <2>3, <2>4, Zenon DEF ArrayOf
<1> QED
  BY <1>2, <1>3, <1>4

\* The array with fewer values is the beginning of the one with more.
LEMMA ArrayGrows ==
  ASSUME NEW items \in Seq(Items), NEW n \in Nat, n = Len(items)
  PROVE  \A k \in 0 .. n : /\ ArrayOf(items, k) \in Seq(Int)
                           /\ \A j \in 0 .. k : Begins(ArrayOf(items, k), ArrayOf(items, j))
<1>1. PICK c : \A k \in 0 .. n : c[k] = ArrayOf(items, k)
  <2> DEFINE c == [k \in 0 .. n |-> ArrayOf(items, k)]
  <2>1. \A k \in 0 .. n : c[k] = ArrayOf(items, k)
    OBVIOUS
  <2> QED
    BY <2>1
<1>2. c[0] \in Seq(Int)
  <2>1. c[0] = <<>>
    BY <1>1, 0 \in 0 .. n, ArraySteps, Zenon
  <2> QED
    BY <2>1
<1>3. ASSUME NEW k \in 1 .. n, c[k - 1] \in Seq(Int)
      PROVE  c[k] \in Seq(Int) /\ Begins(c[k], c[k - 1])
  <2>1. k \in 0 .. n /\ k - 1 \in 0 .. n /\ items[k] \in Items
    OBVIOUS
  <2>2. items[k].type \in Types /\ IsValue(items[k].type, items[k].value)
    BY <2>1, ArchiveAssumption
  <2>3. c[k] = Pack(items[k].type, items[k].value, c[k - 1])
    BY <1>1, <2>1, ArraySteps
  <2> QED
    BY <1>3, <2>2, <2>3, PackCorrect
<1>4. \A k \in 0 .. n : c[k] \in Seq(Int) /\ \A j \in 0 .. k : Begins(c[k], c[j])
  BY <1>2, <1>3, Growing
<1>5. \A k \in 0 .. n : \A j \in 0 .. k : j \in 0 .. n
  OBVIOUS
<1> QED
  BY <1>1, <1>4, <1>5, Zenon

(***************************************************************************)
(* What is read where a value of the array begins, and so all of them by   *)
(* UnPackTuple.                                                            *)
(***************************************************************************)
LEMMA ReadsNext ==
  ASSUME NEW items \in Seq(Items), NEW k \in 1 .. Len(items), NEW x, IsObject(items[k].type, x),
         NEW a, a = PackAll(<<>>, items)
  PROVE  UnPack(items[k].type, a, Len(ArrayOf(items, k - 1)) + 1, x)
           = Result(Join(items[k].type, x, items[k].value), Len(ArrayOf(items, k)) + 1)
<1>1. PICK n \in Nat : n = Len(items)
  OBVIOUS
<1>2. k \in 0 .. n /\ k - 1 \in 0 .. n /\ k \in 1 .. n /\ n \in 0 .. n /\ items[k] \in Items
  BY <1>1
<1>3. a = ArrayOf(items, n) /\ ArrayOf(items, k) = Pack(items[k].type, items[k].value, ArrayOf(items, k - 1))
  BY <1>1, <1>2, ArraySteps
<1>4. a \in Seq(Int) /\ Begins(a, ArrayOf(items, k)) /\ ArrayOf(items, k - 1) \in Seq(Int)
  <2>1. \A j \in 0 .. n : /\ ArrayOf(items, j) \in Seq(Int)
                          /\ \A i \in 0 .. j : Begins(ArrayOf(items, j), ArrayOf(items, i))
    BY <1>1, ArrayGrows
  <2> QED
    BY <1>2, <1>3, <2>1, Zenon
<1>5. items[k].type \in Types /\ IsValue(items[k].type, items[k].value)
  BY <1>2, ArchiveAssumption
<1>6. PICK t \in Types, buf \in Seq(Int), b \in Seq(Int) :
        t = items[k].type /\ buf = ArrayOf(items, k - 1) /\ b = a
  BY <1>4, <1>5, Zenon
<1>7. PICK d, out : d = items[k].value /\ out = ArrayOf(items, k)
  BY Zenon
<1>8. out = Pack(t, d, buf) /\ IsValue(t, d) /\ IsObject(t, x) /\ Begins(b, out)
  BY <1>3, <1>4, <1>5, <1>6, <1>7, Zenon
<1>9. Reads(t, b, x, d, buf, out)
  BY <1>8, PackCorrect, Zenon
<1> QED
  BY <1>6, <1>7, <1>9, Zenon DEF Reads

\* UnPackTuple reads value after value.
LEMMA TupleCorrect ==
  ASSUME NEW items \in Seq(Items), NEW a, a = PackAll(<<>>, items)
  PROVE  UnPackTuple([k \in DOMAIN items |-> items[k].type], a, 1)
           = Result([k \in DOMAIN items |-> items[k].value], Len(a) + 1)
<1> DEFINE values == {item.value : item \in Items}
<1>1. PICK n \in Nat : n = Len(items)
  OBVIOUS
<1>2. PICK types, vals : /\ types = [k \in DOMAIN items |-> items[k].type]
                         /\ vals = [k \in DOMAIN items |-> items[k].value]
  OBVIOUS
<1>3. DOMAIN items = 1 .. n /\ \A k \in 1 .. n : items[k] \in Items
  BY <1>1
<1>4. /\ vals \in Seq(values) /\ Len(vals) = n /\ \A k \in 1 .. n : vals[k] = items[k].value
      /\ Len(types) = n /\ \A k \in 1 .. n : types[k] = items[k].type
  BY <1>2, <1>3
<1> HIDE DEF values
<1> DEFINE Step(f, k) == LET e == UnPack(types[k], a, f[k - 1].next, Fresh(types[k]))
                         IN  Result(Append(f[k - 1].obj, e.obj), e.next)
           Solves(f) == f = [k \in 0 .. Len(types) |-> IF k = 0 THEN Result(<<>>, 1) ELSE Step(f, k)]
<1>5. PICK E : /\ E = [k \in 0 .. n |-> E[k]]
               /\ \A k \in 0 .. n : E[k] = Result(SubSeq(vals, 1, k), Len(ArrayOf(items, k)) + 1)
  <2> DEFINE e == [k \in 0 .. n |-> Result(SubSeq(vals, 1, k), Len(ArrayOf(items, k)) + 1)]
  <2>1. e = [k \in 0 .. n |-> e[k]]
    OBVIOUS
  <2>2. \A k \in 0 .. n : e[k] = Result(SubSeq(vals, 1, k), Len(ArrayOf(items, k)) + 1)
    OBVIOUS
  <2> QED
    BY <2>1, <2>2
<1>6. E[0] = Result(<<>>, 1)
  <2>1. E[0] = Result(SubSeq(vals, 1, 0), Len(ArrayOf(items, 0)) + 1)
    BY <1>5, 0 \in 0 .. n, Zenon
  <2>2. SubSeq(vals, 1, 0) = <<>>
    BY <1>4, PrefixFacts, Zenon
  <2>3. Len(ArrayOf(items, 0)) + 1 = 1
    BY <1>1, ArraySteps
  <2> QED
    BY <2>1, <2>2, <2>3, Zenon
<1>7. ASSUME NEW k \in 1 .. n
      PROVE  E[k] = Step(E, k)
  <2>1. k - 1 \in 0 .. n /\ k \in 0 .. n /\ k \in 1 .. Len(items) /\ k \in 1 .. Len(vals)
    BY <1>1, <1>4
  <2>2. items[k].type \in Types /\ IsValue(items[k].type, items[k].value)
    BY <1>3, ArchiveAssumption
  <2>3. /\ IsObject(items[k].type, Fresh(items[k].type))
        /\ Join(items[k].type, Fresh(items[k].type), items[k].value) = items[k].value
    BY <2>2, FreshObjects, Zenon
  <2>4. UnPack(types[k], a, Len(ArrayOf(items, k - 1)) + 1, Fresh(types[k]))
          = Result(vals[k], Len(ArrayOf(items, k)) + 1)
    <3>1. PICK x : x = Fresh(items[k].type)
      BY Zenon
    <3>2. IsObject(items[k].type, x) /\ Join(items[k].type, x, items[k].value) = items[k].value
      BY <2>3, <3>1, Zenon
    <3>3. UnPack(items[k].type, a, Len(ArrayOf(items, k - 1)) + 1, x)
            = Result(Join(items[k].type, x, items[k].value), Len(ArrayOf(items, k)) + 1)
      BY <2>1, <3>2, ReadsNext, Zenon
    <3> QED
      BY <1>4, <3>1, <3>2, <3>3, Zenon
  <2>5. SubSeq(vals, 1, k) = Append(SubSeq(vals, 1, k - 1), vals[k])
    BY <1>4, <2>1, PrefixFacts, Zenon
  <2>6. /\ E[k - 1].obj = SubSeq(vals, 1, k - 1) /\ E[k - 1].next = Len(ArrayOf(items, k - 1)) + 1
        /\ E[k] = Result(SubSeq(vals, 1, k), Len(ArrayOf(items, k)) + 1)
    <3>1. E[k - 1] = Result(SubSeq(vals, 1, k - 1), Len(ArrayOf(items, k - 1)) + 1)
      BY <1>5, <2>1, Zenon
    <3>2. E[k - 1].obj = SubSeq(vals, 1, k - 1) /\ E[k - 1].next = Len(ArrayOf(items, k - 1)) + 1
      <4>1. PICK o, p : o = SubSeq(vals, 1, k - 1) /\ p = Len(ArrayOf(items, k - 1)) + 1
        BY Zenon
      <4>2. Result(o, p).obj = o /\ Result(o, p).next = p
        BY ResultParts, Zenon
      <4> QED
        BY <3>1, <4>1, <4>2, Zenon
    <3> QED
      BY <1>5, <2>1, <3>2, Zenon
  <2>7. PICK e : e = UnPack(types[k], a, E[k - 1].next, Fresh(types[k]))
    BY Zenon
  <2>8. e = Result(vals[k], Len(ArrayOf(items, k)) + 1)
    BY <2>4, <2>6, <2>7, Zenon
  <2>9. e.obj = vals[k] /\ e.next = Len(ArrayOf(items, k)) + 1
    BY <2>8, ResultParts
  <2> QED
    BY <2>5, <2>6, <2>7, <2>9, Zenon
<1>8. Solves(E)
  <2>1. \A k \in 0 .. n : k = 0 \/ k \in 1 .. n
    OBVIOUS
  <2> HIDE DEF Step
  <2>2. \A k \in 0 .. n : E[k] = IF k = 0 THEN Result(<<>>, 1) ELSE Step(E, k)
    BY <1>6, <1>7, <2>1
  <2>3. E = [k \in 0 .. n |-> IF k = 0 THEN Result(<<>>, 1) ELSE Step(E, k)]
    BY <1>5, <2>2
  <2> QED
    BY <1>4, <2>3
<1>9. PICK r : Solves(r) /\ UnPackTuple(types, a, 1) = r[n]
  <2>1. UnPackTuple(types, a, 1) = (CHOOSE f : Solves(f))[n]
    BY <1>4 DEF UnPackTuple
  <2> HIDE DEF Solves
  <2> QED
    BY <1>8, <2>1
<1>10. r[0] = E[0] /\ \A k \in 1 .. n : r[k - 1] = E[k - 1] => r[k] = E[k]
  <2>1. \A k \in 1 .. n : k \in 0 .. n /\ k # 0
    OBVIOUS
  <2>2. Len(types) = n
    BY <1>4
  <2>3. \A k \in 1 .. n : r[k] = Step(r, k)
    <3> HIDE DEF Step
    <3> QED
      BY <1>9, <2>1, <2>2
  <2>4. r[0] = Result(<<>>, 1)
    <3> HIDE DEF Step
    <3> QED
      BY <1>9, <2>2
  <2>5. \A k \in 1 .. n : r[k - 1] = E[k - 1] => Step(r, k) = Step(E, k)
    BY Zenon
  <2> HIDE DEF Step
  <2> QED
    BY <1>6, <1>7, <2>3, <2>4, <2>5
<1>11. r[n] = E[n]
  <2>1. StepsAgree(r, E, n)
    BY <1>10, Zenon DEF StepsAgree
  <2>2. Agree(r, E, n)
    BY <2>1, SameSteps, Zenon
  <2> QED
    BY <2>2, n \in 0 .. n, Zenon DEF Agree
<1>12. E[n] = Result(vals, Len(a) + 1)
  <2>1. E[n] = Result(SubSeq(vals, 1, n), Len(ArrayOf(items, n)) + 1)
    BY <1>5, n \in 0 .. n, Zenon
  <2>2. SubSeq(vals, 1, n) = vals
    BY <1>4, PrefixFacts, Zenon
  <2>3. ArrayOf(items, n) = a
    BY <1>1, ArraySteps
  <2> QED
    BY <2>1, <2>2, <2>3, Zenon
<1> QED
  BY <1>2, <1>9, <1>11, <1>12, Zenon

(***************************************************************************)
(* The values that were read into the used object of a type: Uses(t), of   *)
(* any two sequences and step by step.                                     *)
(***************************************************************************)
ValuesOf(t) == {item.value : item \in {i \in Items : i.type = t}}

\* They are values of that type.
LEMMA ValuesAreValues ==
  ASSUME NEW t, NEW d \in ValuesOf(t)
  PROVE  IsValue(t, d)
<1>1. PICK item \in Items : item.type = t /\ item.value = d
  BY DEF ValuesOf
<1> QED
  BY <1>1, ArchiveAssumption

UsesOf(t, tk, pk) ==
  LET u[n \in 0 .. Len(tk)] ==
        IF n = 0 THEN <<>>
        ELSE IF tk[n] /\ pk[n].type = t THEN Append(u[n - 1], pk[n].value)
        ELSE u[n - 1]
  IN u[Len(tk)]

Collects(u, t, tk, pk, n) ==
  /\ u[0] = <<>>
  /\ \A k \in 1 .. n : u[k] = IF tk[k] /\ pk[k].type = t THEN Append(u[k - 1], pk[k].value) ELSE u[k - 1]

\* The function in UsesOf exists, and makes the steps that Collects says.
LEMMA UsesSteps ==
  ASSUME NEW t, NEW tk \in Seq(BOOLEAN), NEW pk \in Seq(Items), NEW n \in Nat, n = Len(tk), n <= Len(pk)
  PROVE  \E u : /\ Collects(u, t, tk, pk, n)
                /\ u[n] = UsesOf(t, tk, pk) /\ u[n] \in Seq(ValuesOf(t))
<1> DEFINE Step(k, s) == IF tk[k] /\ pk[k].type = t THEN Append(s, pk[k].value) ELSE s
           Solves(f) == f = [k \in 0 .. Len(tk) |-> IF k = 0 THEN <<>> ELSE Step(k, f[k - 1])]
<1>1. PICK V : V = Seq(ValuesOf(t))
  BY Zenon
<1>2. ASSUME NEW k \in 1 .. n, NEW s \in V
      PROVE  Step(k, s) \in V
  <2>1. pk[k] \in Items
    OBVIOUS
  <2>2. CASE pk[k].type = t
    <3>1. pk[k].value \in ValuesOf(t)
      BY <2>1, <2>2 DEF ValuesOf
    <3>2. s \in Seq(ValuesOf(t))
      BY <1>1
    <3>3. Append(s, pk[k].value) \in V
      BY <1>1, <3>1, <3>2, Appending
    <3> QED
      BY <3>3
  <2>3. CASE pk[k].type # t
    BY <2>3
  <2> QED
    BY <2>2, <2>3
<1>3. \E f : Solves(f) /\ f \in [0 .. n -> V]
  <2>1. PICK G \in [1 .. n -> [V -> V]] : \A k \in 1 .. n : \A s \in V : G[k][s] = Step(k, s)
    <3> DEFINE G == [k \in 1 .. n |-> [s \in V |-> Step(k, s)]]
    <3> HIDE DEF Step
    <3>1. G \in [1 .. n -> [V -> V]]
      BY <1>2
    <3>2. \A k \in 1 .. n : \A s \in V : G[k][s] = Step(k, s)
      OBVIOUS
    <3> QED
      BY <3>1, <3>2
  <2>2. PICK b \in V : b = <<>>
    <3>1. <<>> \in V
      BY <1>1
    <3> QED
      BY <3>1, Zenon
  <2>3. PICK f \in [0 .. n -> V] : IsRecursion(f, n, b, G)
    BY RecursionExists, Zenon
  <2> HIDE DEF Step
  <2>4. ASSUME NEW k \in 0 .. n
        PROVE  (IF k = 0 THEN b ELSE G[k][f[k - 1]]) = (IF k = 0 THEN b ELSE Step(k, f[k - 1]))
    <3>1. k # 0 => k \in 1 .. n /\ k - 1 \in 0 .. n
      OBVIOUS
    <3>2. k # 0 => f[k - 1] \in V
      BY <3>1
    <3> QED
      BY <2>1, <3>1, <3>2
  <2>5. f = [k \in 0 .. n |-> IF k = 0 THEN b ELSE Step(k, f[k - 1])]
    BY <2>3, <2>4 DEF IsRecursion
  <2> QED
    BY <2>2, <2>5
<1>4. PICK u : Solves(u) /\ UsesOf(t, tk, pk) = u[n]
  <2>1. UsesOf(t, tk, pk) = (CHOOSE f : Solves(f))[n]
    BY DEF UsesOf
  <2> HIDE DEF Solves
  <2> QED
    BY <1>3, <2>1
<1>5. u[0] = <<>> /\ \A k \in 1 .. n : u[k] = Step(k, u[k - 1])
  <2>1. 0 \in 0 .. n /\ \A k \in 1 .. n : k \in 0 .. n /\ k # 0
    OBVIOUS
  <2> HIDE DEF Step
  <2> QED
    BY <1>4, <2>1
<1>6. u[n] \in V
  <2>1. PICK f : Solves(f) /\ f \in [0 .. n -> V]
    BY <1>3
  <2>2. f[0] = <<>> /\ \A k \in 1 .. n : f[k] = Step(k, f[k - 1])
    <3>1. 0 \in 0 .. n /\ \A k \in 1 .. n : k \in 0 .. n /\ k # 0
      OBVIOUS
    <3> HIDE DEF Step
    <3> QED
      BY <2>1, <3>1
  <2> HIDE DEF Step
  <2>3. StepsAgree(u, f, n)
    BY <1>5, <2>2, Zenon DEF StepsAgree
  <2>4. Agree(u, f, n)
    BY <2>3, SameSteps, Zenon
  <2>5. u[n] = f[n]
    BY <2>4, n \in 0 .. n, Zenon DEF Agree
  <2> QED
    BY <2>1, <2>5, n \in 0 .. n
<1>7. Collects(u, t, tk, pk, n)
  BY <1>5, Zenon DEF Collects
<1> QED
  BY <1>1, <1>4, <1>6, <1>7, Zenon

\* Nothing has been read.
LEMMA UsesNone ==
  ASSUME NEW t, NEW pk \in Seq(Items)
  PROVE  UsesOf(t, <<>>, pk) = <<>>
<1>1. PICK none \in Seq(BOOLEAN), n \in Nat : none = <<>> /\ n = 0 /\ n = Len(none) /\ n <= Len(pk)
  <2>1. <<>> \in Seq(BOOLEAN) /\ Len(<<>>) = 0 /\ 0 \in Nat /\ 0 <= Len(pk)
    OBVIOUS
  <2> QED
    BY <2>1, Zenon
<1>2. PICK u : Collects(u, t, none, pk, n) /\ u[n] = UsesOf(t, none, pk)
  BY <1>1, UsesSteps, Zenon
<1> QED
  BY <1>1, <1>2 DEF Collects

\* What is read has the type.
LEMMA UsesTyped ==
  ASSUME NEW t, NEW tk \in Seq(BOOLEAN), NEW pk \in Seq(Items), Len(tk) <= Len(pk)
  PROVE  UsesOf(t, tk, pk) \in Seq(ValuesOf(t))
<1>1. PICK n \in Nat : n = Len(tk)
  OBVIOUS
<1>2. PICK u : u[n] = UsesOf(t, tk, pk) /\ u[n] \in Seq(ValuesOf(t))
  BY <1>1, UsesSteps, Zenon
<1> QED
  BY <1>2, Zenon

\* One item more is read, into a used object or a new one.
LEMMA UsesOneMore ==
  ASSUME NEW t, NEW tk \in Seq(BOOLEAN), NEW pk \in Seq(Items), NEW used \in BOOLEAN,
         NEW n \in Nat, NEW m \in 1 .. Len(pk), n = Len(tk), m = n + 1
  PROVE  UsesOf(t, Append(tk, used), pk)
           = IF used /\ pk[m].type = t THEN Append(UsesOf(t, tk, pk), pk[m].value)
             ELSE UsesOf(t, tk, pk)
<1>1. m \in Nat /\ m = n + 1 /\ m <= Len(pk)
  OBVIOUS
<1>2. PICK more \in Seq(BOOLEAN) : /\ more = Append(tk, used) /\ Len(more) = m /\ more[m] = used
                                   /\ \A i \in 1 .. n : more[i] = tk[i]
  <2>1. Append(tk, used) \in Seq(BOOLEAN) /\ Len(Append(tk, used)) = Len(tk) + 1
    OBVIOUS
  <2>2. PICK more : more = Append(tk, used)
    BY Zenon
  <2>3. more[Len(tk) + 1] = used /\ \A i \in 1 .. Len(tk) : more[i] = tk[i]
    BY <2>2, Appending
  <2> QED
    BY <1>1, <2>1, <2>2, <2>3
<1>3. PICK c : Collects(c, t, tk, pk, n) /\ c[n] = UsesOf(t, tk, pk)
  <2>1. n <= Len(pk)
    BY <1>1
  <2> QED
    BY <2>1, UsesSteps, Zenon
<1>4. PICK e : Collects(e, t, more, pk, m) /\ e[m] = UsesOf(t, more, pk)
  <2>1. m = Len(more) /\ m <= Len(pk)
    BY <1>2, <1>1
  <2> QED
    BY <1>1, <2>1, UsesSteps, Zenon
<1>5. StepsAgree(e, c, n)
  <2>1. ASSUME NEW k \in 1 .. n, e[k - 1] = c[k - 1]
        PROVE  e[k] = c[k]
    <3>1. k \in 1 .. m /\ more[k] = tk[k]
      BY <1>2, <1>1
    <3>2. /\ e[k] = IF more[k] /\ pk[k].type = t THEN Append(e[k - 1], pk[k].value) ELSE e[k - 1]
          /\ c[k] = IF tk[k] /\ pk[k].type = t THEN Append(c[k - 1], pk[k].value) ELSE c[k - 1]
      BY <1>3, <1>4, <3>1, Zenon DEF Collects
    <3> QED
      BY <2>1, <3>1, <3>2, Zenon
  <2> QED
    BY <1>3, <1>4, <2>1, Zenon DEF StepsAgree, Collects
<1>6. e[n] = c[n]
  <2>1. Agree(e, c, n)
    BY <1>5, SameSteps, Zenon
  <2> QED
    BY <2>1, n \in 0 .. n, Zenon DEF Agree
<1>7. e[m] = IF used /\ pk[m].type = t THEN Append(e[n], pk[m].value) ELSE e[n]
  <2>1. m \in 1 .. m /\ m - 1 = n
    BY <1>1
  <2>2. e[m] = IF more[m] /\ pk[m].type = t THEN Append(e[m - 1], pk[m].value) ELSE e[m - 1]
    BY <1>4, <2>1, Zenon DEF Collects
  <2> QED
    BY <1>2, <1>1, <2>1, <2>2, Zenon
<1> QED
  BY <1>2, <1>3, <1>4, <1>6, <1>7, Zenon

(***************************************************************************)
(* FlattenSeq of one sequence more.                                        *)
(***************************************************************************)
LEMMA FlattenSteps ==
  ASSUME NEW S, NEW s \in Seq(Seq(S)), NEW n \in Nat, n = Len(s), n > 0
  PROVE  \E u : /\ u[1] = s[1] /\ u[n] = FlattenSeq(s)
                /\ \A k \in 2 .. n : u[k] = u[k - 1] \o s[k]
<1> DEFINE Solves(f) == f = [i \in 1 .. Len(s) |-> IF i = 1 THEN s[i] ELSE f[i - 1] \o s[i]]
<1>1. PICK V : V = Seq(S)
  BY Zenon
<1>2. \A k \in 1 .. n : s[k] \in V
  BY <1>1
<1>3. \E f : Solves(f)
  <2>1. \A v \in V : \A k \in 1 .. n : v \o s[k] \in V
    BY <1>1, <1>2, ConcatProperties
  <2>2. PICK G \in [1 .. n -> [V -> V]] : \A k \in 1 .. n : \A v \in V : G[k][v] = v \o s[k]
    <3> DEFINE G == [k \in 1 .. n |-> [v \in V |-> v \o s[k]]]
    <3>1. G \in [1 .. n -> [V -> V]]
      BY <2>1
    <3>2. \A k \in 1 .. n : \A v \in V : G[k][v] = v \o s[k]
      OBVIOUS
    <3> QED
      BY <3>1, <3>2
  <2>3. PICK b \in V : b = <<>>
    <3>1. <<>> \in V
      BY <1>1
    <3> QED
      BY <3>1, Zenon
  <2>4. PICK g \in [0 .. n -> V] : IsRecursion(g, n, b, G)
    BY RecursionExists, Zenon
  <2>5. g[0] = b /\ \A k \in 1 .. n : g[k] = G[k][g[k - 1]] /\ g[k - 1] \in V /\ g[k] \in V
    <3>1. 0 \in 0 .. n /\ \A k \in 1 .. n : k \in 0 .. n /\ k # 0 /\ k - 1 \in 0 .. n
      OBVIOUS
    <3> QED
      BY <2>4, <3>1 DEF IsRecursion
  <2>6. \A k \in 1 .. n : g[k] = g[k - 1] \o s[k]
    BY <2>2, <2>5, Zenon
  <2>7. g[1] = s[1]
    <3>1. g[1] = g[0] \o s[1]
      BY <2>6, 1 \in 1 .. n, 1 - 1 = 0
    <3>2. PICK v \in Seq(S) : v = s[1]
      BY <1>1, <1>2
    <3>3. <<>> \o v = v
      BY ConcatEmptySeq
    <3> QED
      BY <2>3, <2>5, <3>1, <3>2, <3>3, Zenon
  <2>8. PICK f : f = [i \in 1 .. n |-> g[i]]
    BY Zenon
  <2>9. ASSUME NEW i \in 1 .. n
        PROVE  f[i] = IF i = 1 THEN s[i] ELSE f[i - 1] \o s[i]
    <3>1. i # 1 => i - 1 \in 1 .. n
      OBVIOUS
    <3>2. f[i] = g[i] /\ (i # 1 => f[i - 1] = g[i - 1])
      BY <2>8, <3>1
    <3> QED
      BY <2>6, <2>7, <3>2, Zenon
  <2>10. f = [i \in 1 .. n |-> IF i = 1 THEN s[i] ELSE f[i - 1] \o s[i]]
    <3>1. f = [i \in 1 .. n |-> f[i]]
      BY <2>8
    <3> QED
      BY <2>9, <3>1
  <2> QED
    BY <2>10
<1>4. PICK u : Solves(u) /\ FlattenSeq(s) = u[n]
  <2>1. FlattenSeq(s) = (CHOOSE f : Solves(f))[n]
    BY DEF FlattenSeq
  <2> HIDE DEF Solves
  <2> QED
    BY <1>3, <2>1
<1>5. u[1] = s[1] /\ \A k \in 2 .. n : u[k] = u[k - 1] \o s[k]
  <2>1. 1 \in 1 .. n /\ \A k \in 2 .. n : k \in 1 .. n /\ k # 1
    OBVIOUS
  <2> QED
    BY <1>4, <2>1
<1> QED
  BY <1>4, <1>5

\* By the steps of both: the last one adds x.
LEMMA FlattenOneMore ==
  ASSUME NEW S, NEW s \in Seq(Seq(S)), NEW x \in Seq(S)
  PROVE  FlattenSeq(Append(s, x)) = IF s = <<>> THEN x ELSE FlattenSeq(s) \o x
<1>1. PICK n \in Nat : n = Len(s)
  OBVIOUS
<1>2. PICK more \in Seq(Seq(S)) : /\ more = Append(s, x) /\ Len(more) = n + 1 /\ more[n + 1] = x
                                  /\ \A i \in 1 .. n : more[i] = s[i]
  <2>1. Append(s, x) \in Seq(Seq(S)) /\ Len(Append(s, x)) = Len(s) + 1
    OBVIOUS
  <2>2. PICK more : more = Append(s, x)
    BY Zenon
  <2>3. more[Len(s) + 1] = x /\ \A i \in 1 .. Len(s) : more[i] = s[i]
    BY <2>2, Appending
  <2> QED
    BY <1>1, <2>1, <2>2, <2>3
<1>3. PICK m \in Nat : m = n + 1 /\ m = Len(more) /\ m > 0
  BY <1>2
<1>4. PICK e : /\ e[1] = more[1] /\ e[m] = FlattenSeq(more)
               /\ \A k \in 2 .. m : e[k] = e[k - 1] \o more[k]
  BY <1>3, FlattenSteps, Zenon
<1>5. CASE n = 0
  <2>1. e[1] = x /\ m = 1
    BY <1>2, <1>3, <1>4, <1>5
  <2>2. s = <<>>
    BY <1>1, <1>5, EmptySeq
  <2> QED
    BY <1>2, <1>4, <2>1, <2>2, Zenon
<1>6. CASE n > 0
  <2>1. PICK c : c[1] = s[1] /\ c[n] = FlattenSeq(s) /\ \A k \in 2 .. n : c[k] = c[k - 1] \o s[k]
    BY <1>1, <1>6, FlattenSteps, Zenon
  <2> DEFINE T == {k \in Nat : k + 1 <= n => e[k + 1] = c[k + 1]}
  <2>2. 0 \in T
    BY <1>2, <1>4, <1>6, <2>1, 1 \in 1 .. n
  <2>3. ASSUME NEW k \in Nat, k \in T
        PROVE  k + 1 \in T
    <3> SUFFICES ASSUME k + 2 <= n
                 PROVE  e[k + 2] = c[k + 2]
      BY (k + 1) + 1 = k + 2
    <3>1. k + 2 \in 2 .. n /\ k + 2 \in 2 .. m /\ k + 2 \in 1 .. n /\ (k + 2) - 1 = k + 1
      BY <1>3
    <3>2. e[k + 1] = c[k + 1]
      BY <2>3, k + 1 <= n
    <3>3. PICK j : j = k + 2 /\ j \in 2 .. n /\ j \in 2 .. m /\ j \in 1 .. n /\ j - 1 = k + 1
      BY <3>1
    <3>4. e[j] = e[j - 1] \o more[j] /\ c[j] = c[j - 1] \o s[j] /\ more[j] = s[j]
      BY <1>2, <1>4, <2>1, <3>3, Zenon
    <3> QED
      BY <3>2, <3>3, <3>4, Zenon
  <2>4. \A k \in Nat : k \in T
    <3> HIDE DEF T
    <3> QED
      BY <2>2, <2>3, Induction
  <2>5. e[n] = c[n]
    <3>1. n - 1 \in Nat /\ (n - 1) + 1 <= n /\ (n - 1) + 1 = n
      BY <1>6
    <3>2. n - 1 \in T
      BY <2>4, <3>1, Zenon
    <3> QED
      BY <3>1, <3>2
  <2>6. e[m] = e[n] \o x
    <3>1. m \in 2 .. m /\ m - 1 = n
      BY <1>3, <1>6
    <3>2. e[m] = e[m - 1] \o more[m]
      BY <1>4, <3>1, Zenon
    <3> QED
      BY <1>2, <1>3, <3>1, <3>2, Zenon
  <2>7. s # <<>>
    BY <1>1, <1>6
  <2> QED
    BY <1>2, <1>4, <2>1, <2>5, <2>6, <2>7, Zenon
<1> QED
  BY <1>5, <1>6

(***************************************************************************)
(* The first entry of each key in the maps that were read, and those of    *)
(* one map more.                                                           *)
(***************************************************************************)
KeysOf(seen) == UNION {DOMAIN seen[n] : n \in DOMAIN seen}

IsFirst(seen, k, n) == /\ n \in DOMAIN seen /\ k \in DOMAIN seen[n]
                       /\ \A j \in 1 .. n - 1 : k \notin DOMAIN seen[j]

FirstOf(seen, k) == CHOOSE n \in DOMAIN seen : /\ k \in DOMAIN seen[n]
                                               /\ \A j \in 1 .. n - 1 : k \notin DOMAIN seen[j]

FirstEntries(seen) == [k \in KeysOf(seen) |-> seen[FirstOf(seen, k)][k]]

\* There is a first map with a key, the one of the least number.
LEMMA FirstExists ==
  ASSUME NEW S, NEW seen \in Seq(S), NEW k \in KeysOf(seen)
  PROVE  IsFirst(seen, k, FirstOf(seen, k))
<1> DEFINE T == {n \in DOMAIN seen : k \in DOMAIN seen[n]}
<1>1. T \subseteq Nat /\ T # {} /\ DOMAIN seen = 1 .. Len(seen) /\ Len(seen) \in Nat
  BY DEF KeysOf
<1>2. PICK n \in T : \A y \in T : ~(y < n)
  <2> HIDE DEF T
  <2> QED
    BY <1>1, LeastNumber
<1>3. IsFirst(seen, k, n)
  <2>1. n \in 1 .. Len(seen) /\ k \in DOMAIN seen[n]
    BY <1>1, <1>2
  <2>2. \A j \in 1 .. n - 1 : j \in 1 .. Len(seen) /\ j < n
    BY <1>1, <2>1
  <2> QED
    BY <1>1, <1>2, <2>1, <2>2 DEF IsFirst
<1> QED
  BY <1>3 DEF IsFirst, FirstOf

\* There is one first map.
LEMMA FirstIsUnique ==
  ASSUME NEW S, NEW seen \in Seq(S), NEW k, NEW m, NEW n, IsFirst(seen, k, m), IsFirst(seen, k, n)
  PROVE  m = n
<1>1. m \in 1 .. Len(seen) /\ n \in 1 .. Len(seen) /\ Len(seen) \in Nat
  BY DEF IsFirst
<1>2. ~(m < n)
  BY <1>1, m < n => m \in 1 .. n - 1 DEF IsFirst
<1>3. ~(n < m)
  BY <1>1, n < m => n \in 1 .. m - 1 DEF IsFirst
<1> QED
  BY <1>1, <1>2, <1>3

\* An entry of one map more counts if its key is new.
LEMMA FirstEntriesOneMore ==
  ASSUME NEW S, NEW seen \in Seq(S), NEW d \in S
  PROVE  FirstEntries(Append(seen, d)) = Merge(FirstEntries(seen), d)
<1>1. PICK n \in Nat : n = Len(seen)
  OBVIOUS
<1>2. PICK more \in Seq(S) : /\ more = Append(seen, d) /\ Len(more) = n + 1 /\ more[n + 1] = d
                             /\ \A i \in 1 .. n : more[i] = seen[i]
  <2>1. Append(seen, d) \in Seq(S) /\ Len(Append(seen, d)) = Len(seen) + 1
    OBVIOUS
  <2>2. PICK more : more = Append(seen, d)
    BY Zenon
  <2>3. more[Len(seen) + 1] = d /\ \A i \in 1 .. Len(seen) : more[i] = seen[i]
    BY <2>2, Appending
  <2> QED
    BY <1>1, <2>1, <2>2, <2>3
<1>3. DOMAIN seen = 1 .. n /\ DOMAIN more = 1 .. n + 1
  BY <1>1, <1>2
<1>4. KeysOf(more) = KeysOf(seen) \cup DOMAIN d
  <2>1. \A i \in 1 .. n + 1 : i \in 1 .. n \/ i = n + 1
    OBVIOUS
  <2>2. n + 1 \in 1 .. n + 1 /\ \A i \in 1 .. n : i \in 1 .. n + 1
    OBVIOUS
  <2> QED
    BY <1>2, <1>3, <2>1, <2>2 DEF KeysOf
<1>5. ASSUME NEW k \in KeysOf(seen)
      PROVE  more[FirstOf(more, k)][k] = seen[FirstOf(seen, k)][k]
  <2>1. PICK f : f = FirstOf(seen, k) /\ IsFirst(seen, k, f)
    BY FirstExists
  <2>2. f \in 1 .. n /\ f \in 1 .. n + 1 /\ \A j \in 1 .. f - 1 : j \in 1 .. n
    BY <1>3, <2>1 DEF IsFirst
  <2>3. IsFirst(more, k, f)
    BY <1>2, <1>3, <2>1, <2>2 DEF IsFirst
  <2>4. PICK g : g = FirstOf(more, k) /\ IsFirst(more, k, g)
    BY <1>2, <1>4, FirstExists
  <2>5. f = g
    BY <2>3, <2>4, FirstIsUnique
  <2> QED
    BY <1>2, <2>1, <2>2, <2>4, <2>5, Zenon
<1>6. ASSUME NEW k \in DOMAIN d, k \notin KeysOf(seen)
      PROVE  more[FirstOf(more, k)][k] = d[k]
  <2>1. \A j \in 1 .. n : k \notin DOMAIN more[j]
    BY <1>2, <1>3, <1>6 DEF KeysOf
  <2>2. n + 1 \in 1 .. n + 1 /\ (n + 1) - 1 = n
    OBVIOUS
  <2>3. IsFirst(more, k, n + 1)
    BY <1>2, <1>3, <2>1, <2>2 DEF IsFirst
  <2>4. PICK g : g = FirstOf(more, k) /\ IsFirst(more, k, g)
    BY <1>2, <1>4, FirstExists
  <2>5. g = n + 1
    BY <2>3, <2>4, FirstIsUnique
  <2> QED
    BY <1>2, <2>4, <2>5
<1>7. FirstEntries(more) = [k \in KeysOf(seen) \cup DOMAIN d |->
                              IF k \in KeysOf(seen) THEN seen[FirstOf(seen, k)][k] ELSE d[k]]
  BY <1>4, <1>5, <1>6 DEF FirstEntries
<1>8. /\ DOMAIN FirstEntries(seen) = KeysOf(seen)
      /\ \A k \in KeysOf(seen) : FirstEntries(seen)[k] = seen[FirstOf(seen, k)][k]
  BY DEF FirstEntries
<1>9. Merge(FirstEntries(seen), d) = [k \in KeysOf(seen) \cup DOMAIN d |->
                                        IF k \in KeysOf(seen) THEN seen[FirstOf(seen, k)][k] ELSE d[k]]
  BY <1>8 DEF Merge
<1> QED
  BY <1>2, <1>7, <1>9

(***************************************************************************)
(* An object that reads one value more holds what Holds says.              *)
(***************************************************************************)
LEMMA HoldsOneMore ==
  ASSUME NEW t \in Types, NEW seen \in Seq(ValuesOf(t)), NEW d \in ValuesOf(t)
  PROVE  Holds(t, Append(seen, d)) = Join(t, Holds(t, seen), d)
<1>1. IsValue(t, d)
  BY ValuesAreValues
<1>2. Append(seen, d) # <<>> /\ Append(seen, d)[Len(Append(seen, d))] = d
  OBVIOUS
<1>3. CASE t = "map"
  <2>1. Holds(t, Append(seen, d)) = FirstEntries(Append(seen, d))
    BY <1>2, <1>3 DEF Holds, FirstEntries, KeysOf, FirstOf
  <2>2. Holds(t, seen) = FirstEntries(seen)
    <3>1. CASE seen = <<>>
      <4>1. KeysOf(seen) = {}
        BY <3>1 DEF KeysOf
      <4>2. FirstEntries(seen) = <<>>
        BY <4>1 DEF FirstEntries
      <4> QED
        BY <1>3, <3>1, <4>2 DEF Holds, Fresh
    <3>2. CASE seen # <<>>
      BY <1>3, <3>2 DEF Holds, FirstEntries, KeysOf, FirstOf
    <3> QED
      BY <3>1, <3>2
  <2>3. FirstEntries(Append(seen, d)) = Merge(FirstEntries(seen), d)
    BY FirstEntriesOneMore, Zenon
  <2> QED
    BY <1>3, <2>1, <2>2, <2>3 DEF Join
<1>4. CASE t = "strings"
  <2>1. PICK s \in Seq(Seq(Seq(Int))), x \in Seq(Seq(Int)) : s = seen /\ x = d
    <3>1. ValuesOf(t) \subseteq Seq(Seq(Int))
      BY <1>4, ValuesAreValues DEF IsValue
    <3>2. seen \in Seq(Seq(Seq(Int))) /\ d \in Seq(Seq(Int))
      BY <3>1, SeqMonotonic
    <3> QED
      BY <3>2, Zenon
  <2>2. FlattenSeq(Append(s, x)) = IF s = <<>> THEN x ELSE FlattenSeq(s) \o x
    BY FlattenOneMore, Zenon
  <2>3. Holds(t, Append(seen, d)) = FlattenSeq(Append(s, x))
    BY <1>2, <1>4, <2>1 DEF Holds
  <2>4. CASE seen = <<>>
    <3>1. Holds(t, seen) = Fresh(t) /\ Join(t, Fresh(t), d) = d
      BY <1>1, <2>4, FreshObjects DEF Holds
    <3> QED
      BY <2>1, <2>2, <2>3, <2>4, <3>1, Zenon
  <2>5. CASE seen # <<>>
    <3>1. Holds(t, seen) = FlattenSeq(seen) /\ Join(t, FlattenSeq(seen), d) = FlattenSeq(seen) \o d
      BY <1>4, <2>5 DEF Holds, Join
    <3> QED
      BY <2>1, <2>2, <2>3, <2>5, <3>1, Zenon
  <2> QED
    BY <2>4, <2>5
<1>5. CASE t # "map" /\ t # "strings"
  BY <1>2, <1>5 DEF Holds, Join
<1> QED
  BY <1>3, <1>4, <1>5

(***************************************************************************)
(* The invariant: the array is what packing made of packed, iter is where  *)
(* the next value begins in it, latest is the last value that was read     *)
(* into a new object, and the used objects hold what Holds says of the     *)
(* values read into them.                                                  *)
(***************************************************************************)
ArchiveTypes ==
  /\ packed \in Seq(Items) /\ taken \in Seq(BOOLEAN) /\ Len(taken) <= Len(packed)
  /\ object = [t \in Types |-> object[t]]

ArrayIsPacked == archive = PackAll(<<>>, packed)

IterIsNext == iter = Len(ArrayOf(packed, Len(taken))) + 1

LatestIsPacked == taken # <<>> /\ ~taken[Len(taken)] => latest = packed[Len(taken)]

ObjectsHold ==
  \A t \in Types : /\ IsObject(t, object[t])
                   /\ object[t] = Holds(t, UsesOf(t, taken, packed))

ArchiveInv == ArchiveTypes /\ ArrayIsPacked /\ IterIsNext /\ LatestIsPacked /\ ObjectsHold

\* Nothing is packed, and no object is used.
LEMMA ArchiveInvInit == ArchiveInit => ArchiveInv
<1> SUFFICES ASSUME ArchiveInit PROVE ArchiveInv
  OBVIOUS
<1>1. PICK none \in Seq(Items), bytes \in Seq(Int) : none = <<>> /\ bytes = <<>>
  <2>1. <<>> \in Seq(Items) /\ <<>> \in Seq(Int)
    OBVIOUS
  <2> QED
    BY <2>1, Zenon
<1>2. /\ archive = <<>> /\ packed = <<>> /\ iter = 1 /\ taken = <<>>
      /\ object = [t \in Types |-> Fresh(t)]
  BY DEF ArchiveInit
<1>3. ArchiveTypes
  BY <1>2 DEF ArchiveTypes
<1>4. ArrayIsPacked
  <2>1. PackAll(bytes, <<>>) = bytes
    BY PackAllNone, Zenon
  <2> QED
    BY <1>1, <1>2, <2>1, Zenon DEF ArrayIsPacked
<1>5. IterIsNext
  <2>1. Len(taken) = 0 /\ 0 = Len(none)
    BY <1>1, <1>2
  <2>2. ArrayOf(none, 0) = <<>>
    BY <2>1, 0 \in Nat, ArraySteps
  <2> QED
    BY <1>1, <1>2, <2>1, <2>2 DEF IterIsNext
<1>6. LatestIsPacked
  BY <1>2 DEF LatestIsPacked
<1>7. ObjectsHold
  <2> SUFFICES ASSUME NEW t \in Types
               PROVE  /\ IsObject(t, object[t])
                      /\ object[t] = Holds(t, UsesOf(t, taken, packed))
    BY DEF ObjectsHold
  <2>1. object[t] = Fresh(t) /\ IsObject(t, Fresh(t))
    BY <1>2, FreshObjects
  <2>2. UsesOf(t, taken, packed) = <<>>
    BY <1>1, <1>2, UsesNone
  <2> QED
    BY <2>1, <2>2 DEF Holds
<1> QED
  BY <1>3, <1>4, <1>5, <1>6, <1>7 DEF ArchiveInv

\* Packing appends to the array, while nothing has been read.
LEMMA ArchiveInvPack ==
  ASSUME ArchiveInv, NEW a \in Items, PackItem(a)
  PROVE  ArchiveInv'
<1>1. /\ packed \in Seq(Items) /\ taken = <<>> /\ packed' = Append(packed, a)
      /\ archive' = Pack(a.type, a.value, archive)
      /\ taken' = taken /\ iter' = iter /\ object' = object /\ latest' = latest
  BY DEF ArchiveInv, ArchiveTypes, PackItem
<1>2. PICK before \in Seq(Items), after \in Seq(Items) : before = packed /\ after = packed'
  <2>1. Append(packed, a) \in Seq(Items)
    BY <1>1
  <2> QED
    BY <1>1, <2>1, Zenon
<1>3. ArchiveTypes'
  <2>1. Len(taken) = 0 /\ 0 <= Len(after) /\ taken \in Seq(BOOLEAN)
    BY <1>1
  <2> QED
    BY <1>1, <1>2, <2>1 DEF ArchiveInv, ArchiveTypes
<1>4. ArrayIsPacked'
  <2>1. PICK bytes \in Seq(Int) : bytes = <<>>
    <3>1. <<>> \in Seq(Int)
      OBVIOUS
    <3> QED
      BY <3>1, Zenon
  <2>2. PackAll(bytes, Append(before, a)) = Pack(a.type, a.value, PackAll(bytes, before))
    BY PackAllOneMore, Zenon
  <2>3. archive = PackAll(<<>>, packed)
    BY DEF ArchiveInv, ArrayIsPacked
  <2>4. archive' = PackAll(<<>>, packed')
    BY <1>1, <1>2, <2>1, <2>2, <2>3, Zenon
  <2> QED
    BY <2>4 DEF ArrayIsPacked
<1>5. IterIsNext'
  <2>1. Len(taken) = 0
    BY <1>1
  <2>2. ArrayOf(before, 0) = <<>> /\ ArrayOf(after, 0) = <<>>
    <3>1. PICK n \in Nat, m \in Nat : n = Len(before) /\ m = Len(after)
      OBVIOUS
    <3> QED
      BY <3>1, ArraySteps
  <2>3. iter = Len(ArrayOf(packed, Len(taken))) + 1
    BY DEF ArchiveInv, IterIsNext
  <2>4. iter' = Len(ArrayOf(packed', Len(taken'))) + 1
    BY <1>1, <1>2, <2>1, <2>2, <2>3, Zenon
  <2> QED
    BY <2>4 DEF IterIsNext
<1>6. LatestIsPacked'
  BY <1>1 DEF LatestIsPacked
<1>7. ObjectsHold'
  <2> SUFFICES ASSUME NEW t \in Types
               PROVE  /\ IsObject(t, object'[t])
                      /\ object'[t] = Holds(t, UsesOf(t, taken', packed'))
    BY DEF ObjectsHold
  <2>1. UsesOf(t, <<>>, before) = <<>> /\ UsesOf(t, <<>>, after) = <<>>
    BY UsesNone, Zenon
  <2>2. IsObject(t, object[t]) /\ object[t] = Holds(t, UsesOf(t, taken, packed))
    BY DEF ArchiveInv, ObjectsHold
  <2> QED
    BY <1>1, <1>2, <2>1, <2>2, Zenon
<1> QED
  BY <1>3, <1>4, <1>5, <1>6, <1>7 DEF ArchiveInv

\* The next value is read where it begins, into a new object or a used one.
LEMMA ArchiveInvUnPack ==
  ASSUME ArchiveInv, NEW used \in BOOLEAN, UnPackItem(used)
  PROVE  ArchiveInv'
<1>1. /\ packed \in Seq(Items) /\ taken \in Seq(BOOLEAN) /\ Len(taken) < Len(packed)
      /\ object = [t \in Types |-> object[t]]
      /\ taken' = Append(taken, used) /\ archive' = archive /\ packed' = packed
  BY DEF ArchiveInv, ArchiveTypes, UnPackItem
<1>2. PICK n \in Nat, k \in 1 .. Len(packed) : n = Len(taken) /\ k = n + 1
  <2>1. Len(taken) \in Nat /\ Len(taken) + 1 \in 1 .. Len(packed)
    BY <1>1
  <2> QED
    BY <2>1, Zenon
<1>3. /\ taken' \in Seq(BOOLEAN) /\ Len(taken') = k /\ taken'[k] = used
  BY <1>1, <1>2
<1>4. packed[k] \in Items /\ packed[k] = [type |-> packed[k].type, value |-> packed[k].value]
  BY <1>1, ArchiveAssumption
<1>5. PICK t, d : t = packed[k].type /\ d = packed[k].value
  BY Zenon
<1>6. t \in Types /\ IsValue(t, d) /\ d \in ValuesOf(t)
  BY <1>4, <1>5, ArchiveAssumption DEF ValuesOf
<1>7. PICK x : x = IF used THEN object[t] ELSE Fresh(t)
  BY Zenon
<1>8. IsObject(t, x)
  <2>1. IsObject(t, Fresh(t))
    BY <1>6, FreshObjects
  <2>2. IsObject(t, object[t])
    BY <1>6 DEF ArchiveInv, ObjectsHold
  <2> QED
    BY <1>7, <2>1, <2>2
<1>9. PICK p : p = Len(ArrayOf(packed, k)) + 1
  BY Zenon
<1>10. UnPack(t, archive, iter, x) = Result(Join(t, x, d), p)
  <2>1. iter = Len(ArrayOf(packed, k - 1)) + 1
    BY <1>2, k - 1 = n DEF ArchiveInv, IterIsNext
  <2>2. archive = PackAll(<<>>, packed)
    BY DEF ArchiveInv, ArrayIsPacked
  <2>3. PICK items, a : items \in Seq(Items) /\ items = packed /\ a = archive
    BY <1>1, Zenon
  <2>4. UnPack(items[k].type, a, Len(ArrayOf(items, k - 1)) + 1, x)
          = Result(Join(items[k].type, x, items[k].value), Len(ArrayOf(items, k)) + 1)
    <3>1. items \in Seq(Items) /\ k \in 1 .. Len(items) /\ IsObject(items[k].type, x) /\ a = PackAll(<<>>, items)
      BY <1>5, <1>8, <2>2, <2>3, Zenon
    <3> QED
      BY <3>1, ReadsNext, Zenon
  <2> QED
    BY <1>5, <1>9, <2>1, <2>3, <2>4, Zenon
<1>11. /\ iter' = p /\ latest' = [type |-> t, value |-> Join(t, x, d)]
       /\ object' = IF used THEN [object EXCEPT ![t] = Join(t, x, d)] ELSE object
  <2>1. PICK r : r = UnPack(t, archive, iter, x)
    BY Zenon
  <2>2. /\ iter' = r.next /\ latest' = [type |-> t, value |-> r.obj]
        /\ object' = IF used THEN [object EXCEPT ![t] = r.obj] ELSE object
    BY <1>2, <1>5, <1>7, <2>1, Zenon DEF UnPackItem
  <2>3. PICK o : o = Join(t, x, d)
    BY Zenon
  <2>4. r = Result(o, p)
    BY <1>10, <2>1, <2>3, Zenon
  <2>5. r.next = p /\ r.obj = o
    BY <2>4, ResultParts
  <2> QED
    BY <2>2, <2>3, <2>5, Zenon
<1>12. ArchiveTypes'
  <2>1. Len(taken') <= Len(packed)
    BY <1>1, <1>2, <1>3
  <2>2. object' = [u \in Types |-> object'[u]]
    <3>1. CASE used
      <4>1. PICK o : o = Join(t, x, d)
        BY Zenon
      <4>2. object' = [object EXCEPT ![t] = o]
        BY <1>11, <3>1, <4>1, Zenon
      <4>3. DOMAIN object = Types
        BY <1>1
      <4> QED
        BY <4>2, <4>3
    <3>2. CASE ~used
      BY <1>1, <1>11, <3>2
    <3> QED
      BY <3>1, <3>2
  <2> QED
    BY <1>1, <1>3, <2>1, <2>2 DEF ArchiveTypes
<1>13. ArrayIsPacked'
  BY <1>1 DEF ArchiveInv, ArrayIsPacked
<1>14. IterIsNext'
  BY <1>1, <1>3, <1>9, <1>11, Zenon DEF IterIsNext
<1>15. LatestIsPacked'
  <2> SUFFICES ASSUME ~used
               PROVE  latest' = packed[k]
    BY <1>1, <1>3, Zenon DEF LatestIsPacked
  <2>1. x = Fresh(t) /\ Join(t, Fresh(t), d) = d
    BY <1>6, <1>7, FreshObjects
  <2> QED
    BY <1>4, <1>5, <1>11, <2>1, Zenon
<1>16. ObjectsHold'
  <2> SUFFICES ASSUME NEW u \in Types
               PROVE  /\ IsObject(u, object'[u])
                      /\ object'[u] = Holds(u, UsesOf(u, taken', packed))
    BY <1>1, Zenon DEF ObjectsHold
  <2>1. PICK seen : seen = UsesOf(u, taken, packed)
    BY Zenon
  <2>2. seen \in Seq(ValuesOf(u))
    BY <1>1, <2>1, UsesTyped
  <2>3. UsesOf(u, taken', packed) = IF used /\ t = u THEN Append(seen, d) ELSE seen
    <3>1. PICK tk \in Seq(BOOLEAN), pk \in Seq(Items) : tk = taken /\ pk = packed
      BY <1>1, Zenon
    <3>2. n = Len(tk) /\ n + 1 <= Len(pk)
      BY <1>1, <1>2, <3>1
    <3>3. UsesOf(u, Append(tk, used), pk)
            = IF used /\ pk[k].type = u THEN Append(UsesOf(u, tk, pk), pk[k].value)
              ELSE UsesOf(u, tk, pk)
      BY <1>2, <3>1, <3>2, UsesOneMore
    <3> QED
      BY <1>1, <1>2, <1>5, <2>1, <3>1, <3>3, Zenon
  <2>4. IsObject(u, object[u]) /\ object[u] = Holds(u, seen)
    BY <2>1, Zenon DEF ArchiveInv, ObjectsHold
  <2>5. CASE used /\ t = u
    <3>1. object'[u] = Join(u, object[u], d)
      BY <1>1, <1>6, <1>7, <1>11, <2>5
    <3>2. Holds(u, Append(seen, d)) = Join(u, Holds(u, seen), d)
      BY <1>6, <2>2, <2>5, HoldsOneMore
    <3>3. IsObject(u, Join(u, object[u], d))
      BY <1>6, <2>4, <2>5, JoinedObjects
    <3> QED
      BY <2>3, <2>4, <2>5, <3>1, <3>2, <3>3, Zenon
  <2>6. CASE ~(used /\ t = u)
    <3>1. object'[u] = object[u]
      BY <1>1, <1>6, <1>11, <2>6
    <3> QED
      BY <2>3, <2>4, <2>6, <3>1, Zenon
  <2> QED
    BY <2>5, <2>6
<1> QED
  BY <1>12, <1>13, <1>14, <1>15, <1>16 DEF ArchiveInv

\* Every step keeps the invariant.
LEMMA ArchiveInvStep == ArchiveInv /\ [ArchiveNext]_archiveVars => ArchiveInv'
<1> SUFFICES ASSUME ArchiveInv, [ArchiveNext]_archiveVars PROVE ArchiveInv'
  OBVIOUS
<1>1. ASSUME NEW a \in Items, PackItem(a) PROVE ArchiveInv'
  BY <1>1, ArchiveInvPack
<1>2. ASSUME NEW used \in BOOLEAN, UnPackItem(used) PROVE ArchiveInv'
  BY <1>2, ArchiveInvUnPack
<1>3. CASE UNCHANGED archiveVars
  BY <1>3 DEF archiveVars, ArchiveInv, ArchiveTypes, ArrayIsPacked, IterIsNext, LatestIsPacked, ObjectsHold
<1> QED
  BY <1>1, <1>2, <1>3 DEF ArchiveNext

\* It says what was to be shown.
LEMMA ArchiveInvImplies == ArchiveInv => UnpackedIsPacked
<1> SUFFICES ASSUME ArchiveInv PROVE UnpackedIsPacked
  OBVIOUS
<1>1. packed \in Seq(Items) /\ taken \in Seq(BOOLEAN) /\ Len(taken) <= Len(packed)
  BY DEF ArchiveInv, ArchiveTypes
<1>2. PICK n \in Nat, m \in Nat : n = Len(taken) /\ m = Len(packed) /\ n <= m
  BY <1>1
<1>3. UnPackTuple([k \in DOMAIN packed |-> packed[k].type], archive, 1)
        = Result([k \in DOMAIN packed |-> packed[k].value], Len(archive) + 1)
  BY <1>1, TupleCorrect DEF ArchiveInv, ArrayIsPacked
<1>4. n > 0 /\ ~taken[n] => latest = packed[n]
  BY <1>1, <1>2 DEF ArchiveInv, LatestIsPacked
<1>5. \A t \in Types : object[t] = Held(t)
  BY DEF ArchiveInv, ObjectsHold, Held, Uses, UsesOf
<1>6. SubSeq(archive, 1, iter - 1) = PackAll(<<>>, SubSeq(packed, 1, n))
  <2>1. PICK a \in Seq(Int), b \in Seq(Int) :
          a = archive /\ b = PackAll(<<>>, SubSeq(packed, 1, n)) /\ Begins(a, b) /\ iter = Len(b) + 1
    <3>1. n \in 0 .. m /\ m \in 0 .. m /\ n \in 0 .. n
      BY <1>2
    <3>2. archive = ArrayOf(packed, m)
      BY <1>1, <1>2, ArraySteps DEF ArchiveInv, ArrayIsPacked
    <3>3. \A k \in 0 .. m : /\ ArrayOf(packed, k) \in Seq(Int)
                            /\ \A j \in 0 .. k : Begins(ArrayOf(packed, k), ArrayOf(packed, j))
      BY <1>1, <1>2, ArrayGrows
    <3>4. ArrayOf(packed, n) = PackAll(<<>>, SubSeq(packed, 1, n))
      BY Zenon DEF ArrayOf
    <3>5. iter = Len(ArrayOf(packed, n)) + 1
      BY <1>2 DEF ArchiveInv, IterIsNext
    <3> QED
      BY <3>1, <3>2, <3>3, <3>4, <3>5, Zenon
  <2>2. PICK j \in 0 .. Len(a) : j = Len(b) /\ iter - 1 = j
    <3>1. Len(b) \in 0 .. Len(a) /\ iter - 1 = Len(b)
      BY <2>1 DEF Begins
    <3> QED
      BY <3>1, Zenon
  <2>3. SubSeq(a, 1, j) \in Seq(Int) /\ Len(SubSeq(a, 1, j)) = j /\ \A i \in 1 .. j : SubSeq(a, 1, j)[i] = a[i]
    BY PrefixFacts, Zenon
  <2>4. PICK s \in Seq(Int) : s = SubSeq(a, 1, j)
    BY <2>3, Zenon
  <2>5. Len(s) = Len(b) /\ \A i \in 1 .. Len(s) : s[i] = b[i]
    BY <2>1, <2>2, <2>3, <2>4 DEF Begins
  <2>6. s = b
    BY <2>5, SeqEqual
  <2> QED
    BY <2>1, <2>2, <2>4, <2>6, Zenon
<1> QED
  BY <1>2, <1>3, <1>4, <1>5, <1>6, Zenon DEF UnpackedIsPacked

(***************************************************************************)
(* Values that are packed are unpacked, in their order: from the array as  *)
(* a tuple, and one by one into new objects; a used object holds what Held *)
(* says of it, and the iterator returned by UnPack is where the next value *)
(* begins.  So for any values of the types and any number of them.         *)
(***************************************************************************)
THEOREM UnpackedIsPackedCorrect == ArchiveSpec => []UnpackedIsPacked
<1>1. ArchiveInit => ArchiveInv
  BY ArchiveInvInit
<1>2. ArchiveInv /\ [ArchiveNext]_archiveVars => ArchiveInv'
  BY ArchiveInvStep
<1>3. ArchiveInv => UnpackedIsPacked
  BY ArchiveInvImplies
<1> QED
  BY <1>1, <1>2, <1>3, PTL DEF ArchiveSpec
=============================================================================
