------------------------------ MODULE HandShake ------------------------------
(***************************************************************************)
(* HandShake.h: one request of an initiator, one reply of a responder,     *)
(* each with the data of its side.                                         *)
(*                                                                         *)
(* Every call opens a socket of its own and closes it.  Initiators may     *)
(* connect at any time; responders use the same URI, so one is bound at a  *)
(* time, others fail to bind.  A request waits in its initiator's socket   *)
(* until somebody is bound.  A responder answers one request; it closes    *)
(* its socket with the other requests that were carried to it.             *)
(*                                                                         *)
(* Data are received into a buffer of maxBufSize bytes.  A message that is *)
(* longer is cut off, and UnPack reads past the end of the buffer.         *)
(***************************************************************************)
EXTENDS Integers, FiniteSets, Sequences, SequencesExt

CONSTANTS
  Initiators, Responders,  \* the calls of HandShake, by what they are told
  TooLong,                 \* those whose data do not fit into the buffer of their peer
  None, Garbage            \* no data, and what UnPack makes of data cut off

Parties == Initiators \cup Responders

ASSUME ShakeAssumption ==
  /\ Initiators \cap Responders = {} /\ TooLong \subseteq Parties
  /\ None \notin Parties /\ Garbage \notin Parties /\ None # Garbage

VARIABLES
  party,     \* where each one is
  bound,     \* the responder that is bound, or None
  outgoing,  \* requests that wait for a responder to connect to
  socket,    \* requests in the socket of the responder
  peer,      \* who it is that each responder answers
  reply,     \* the reply that was sent to each initiator
  learnt,    \* what each call returns
  dropped    \* history: <<i, j>> when the round that answered j dropped what i sent

shakeVars == <<party, bound, outgoing, socket, peer, reply, learnt, dropped>>

PartyStates == {"new", "waiting", "answering", "closing", "returned", "failed"}

ShakeTypeOK ==
  /\ party \in [Parties -> PartyStates]
  /\ bound \in Responders \cup {None}
  /\ outgoing \subseteq Initiators
  /\ socket \in Seq(Initiators)
  /\ peer \in [Responders -> Initiators \cup {None}]
  /\ reply \in [Initiators -> Responders \cup {None}]
  /\ learnt \in [Parties -> Parties \cup {None, Garbage}]
  /\ dropped \subseteq Initiators \X Initiators

ShakeInit ==
  /\ party = [p \in Parties |-> "new"]
  /\ bound = None /\ outgoing = {} /\ socket = <<>>
  /\ peer = [r \in Responders |-> None]
  /\ reply = [i \in Initiators |-> None]
  /\ learnt = [p \in Parties |-> None]
  /\ dropped = {}

PartyGoto(p, from, to) ==
  /\ party[p] = from
  /\ party' = [party EXCEPT ![p] = to]

\* UnPack(buffer)
UnPacked(p) == IF p \in TooLong THEN Garbage ELSE p

-----------------------------------------------------------------------------

\* zmq_connect, zmq_send
Initiate(i) ==
  /\ PartyGoto(i, "new", "waiting")
  /\ outgoing' = outgoing \cup {i}
  /\ UNCHANGED <<bound, socket, peer, reply, learnt, dropped>>

\* zmq_bind, which throws if another one is bound.
Respond(r) ==
  /\ \/ bound = None /\ PartyGoto(r, "new", "waiting") /\ bound' = r
     \/ bound # None /\ PartyGoto(r, "new", "failed") /\ UNCHANGED bound
  /\ UNCHANGED <<outgoing, socket, peer, reply, learnt, dropped>>

\* The network carries a request to the responder that is bound.
CarryRequest(i) ==
  /\ bound # None /\ i \in outgoing
  /\ socket' = Append(socket, i)
  /\ outgoing' = outgoing \ {i}
  /\ UNCHANGED <<party, bound, peer, reply, learnt, dropped>>

\* zmq_recv of the responder: in
TakeRequest(r) ==
  /\ socket # <<>> /\ bound = r
  /\ PartyGoto(r, "waiting", "answering")
  /\ peer' = [peer EXCEPT ![r] = Head(socket)]
  /\ socket' = Tail(socket)
  /\ UNCHANGED <<bound, outgoing, reply, learnt, dropped>>

\* Mutant: the reply goes to whoever else is there.
AnsweredLast(r) == IF socket = <<>> THEN peer[r] ELSE socket[Len(socket)]

\* REP sends to the peer whose request it has received last.
Answered(r) == peer[r]

\* zmq_send of the responder.
SendReply(r) ==
  /\ PartyGoto(r, "answering", "closing")
  /\ reply' = [reply EXCEPT ![Answered(r)] = r]
  /\ UNCHANGED <<bound, outgoing, socket, peer, learnt, dropped>>

\* zmq_close, zmq_ctx_destroy, return UnPack(in): what is left in the socket is
\* gone; the context waits until the reply is carried.
CloseResponder(r) ==
  /\ PartyGoto(r, "closing", "returned")
  /\ bound' = None
  /\ socket' = <<>>
  /\ dropped' = dropped \cup (ToSet(socket) \X {peer[r]})
  /\ learnt' = [learnt EXCEPT ![r] = UnPacked(peer[r])]
  /\ UNCHANGED <<outgoing, peer, reply>>

\* zmq_recv of the initiator, zmq_close, zmq_ctx_destroy, return UnPack(buf)
TakeReply(i) ==
  /\ reply[i] # None
  /\ PartyGoto(i, "waiting", "returned")
  /\ learnt' = [learnt EXCEPT ![i] = UnPacked(reply[i])]
  /\ UNCHANGED <<bound, outgoing, socket, peer, reply, dropped>>

ShakeNext ==
  \/ \E i \in Initiators : Initiate(i) \/ CarryRequest(i) \/ TakeReply(i)
  \/ \E r \in Responders : \/ Respond(r) \/ TakeRequest(r)
                           \/ SendReply(r) \/ CloseResponder(r)

\* A call goes on when it can, and the network carries requests.  Nothing makes
\* anyone call HandShake.
ShakeFairness ==
  /\ \A i \in Initiators : WF_shakeVars(CarryRequest(i)) /\ WF_shakeVars(TakeReply(i))
  /\ \A r \in Responders :
       WF_shakeVars(TakeRequest(r) \/ SendReply(r) \/ CloseResponder(r))

ShakeSpec == ShakeInit /\ [][ShakeNext]_shakeVars /\ ShakeFairness

-----------------------------------------------------------------------------

Returned(p) == party[p] = "returned"

(***************************************************************************)
(* Two calls that return have learnt from each other, or garbage: no       *)
(* responder is learnt by two initiators, no initiator by two responders.  *)
(***************************************************************************)
PartnersAgree ==
  \A i \in Initiators, r \in Responders :
    /\ Returned(i) /\ learnt[i] = r /\ Returned(r) => learnt[r] \in {i, Garbage}
    /\ Returned(r) /\ learnt[r] = i /\ Returned(i) => learnt[i] \in {r, Garbage}

(***************************************************************************)
(* While a responder is bound, an initiator that waits gets its reply,     *)
(* unless another one is answered: then it waits for the next responder,   *)
(* or, if its request was carried already and is gone with the socket, for *)
(* ever.                                                                   *)
(***************************************************************************)
ShakeEnds ==
  \A i \in Initiators :
    (party[i] = "waiting" /\ bound # None)
      ~> \/ Returned(i)
         \/ bound = None /\ i \in outgoing
         \/ \E j \in Initiators \ {i} : Returned(j) /\ <<i, j>> \in dropped
=============================================================================
