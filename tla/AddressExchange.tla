--------------------------- MODULE AddressExchange ---------------------------
(***************************************************************************)
(* SendAddress and ReceiveAddress of inetaddress.h: a datagram from a host *)
(* whose address a receiver wants to learn, and its echo.                  *)
(*                                                                         *)
(* Datagrams may be lost, delivered more than once, and in any order; one  *)
(* that nobody is bound for is lost.  Neither side has a timeout, or sends *)
(* anything again.  No socket is closed: a receiver that has returned      *)
(* keeps its port, may get datagrams, and loses them.  The buffer of the   *)
(* sender cuts off the padding of the echo, so that what it compares is    *)
(* its own text, if the echo comes from a receiver at all.                 *)
(***************************************************************************)
EXTENDS Integers, FiniteSets

CONSTANTS
  Hosts,      \* the hosts that call SendAddress, once each
  Receivers,  \* calls of ReceiveAddress
  Unknown     \* no address

ASSUME AddrAssumption == Unknown \notin Hosts

VARIABLES
  sender,    \* "new", "waiting" or "true"
  receiver,  \* "new", "bound", "echo", "echoed", "returned" or "threw"
  address,   \* whose datagram each receiver got
  hellos,    \* hosts whose datagram is under way
  echoes     \* hosts to which an echo is under way

addrVars == <<sender, receiver, address, hellos, echoes>>

AddrTypeOK ==
  /\ sender \in [Hosts -> {"new", "waiting", "true"}]
  /\ receiver \in [Receivers -> {"new", "bound", "echo", "echoed", "returned", "threw"}]
  /\ address \in [Receivers -> Hosts \cup {Unknown}]
  /\ hellos \subseteq Hosts /\ echoes \subseteq Hosts

AddrInit ==
  /\ sender = [h \in Hosts |-> "new"]
  /\ receiver = [r \in Receivers |-> "new"]
  /\ address = [r \in Receivers |-> Unknown]
  /\ hellos = {} /\ echoes = {}

-----------------------------------------------------------------------------

\* Delivered once, or to be delivered again.
Delivered(net, h) == {net, net \ {h}}

SenderGoto(h, from, to) ==
  /\ sender[h] = from
  /\ sender' = [sender EXCEPT ![h] = to]
  /\ UNCHANGED <<receiver, address>>

ReceiverGoto(r, from, to) ==
  /\ receiver[r] = from
  /\ receiver' = [receiver EXCEPT ![r] = to]
  /\ UNCHANGED sender

\* sendto
SayHello(h) ==
  /\ SenderGoto(h, "new", "waiting")
  /\ hellos' = hellos \cup {h}
  /\ UNCHANGED echoes

\* recvfrom, return msg == reply
HearEcho(h) ==
  /\ h \in echoes
  /\ SenderGoto(h, "waiting", "true")
  /\ echoes' \in Delivered(echoes, h)
  /\ UNCHANGED hellos

\* bind
BindPort(r) ==
  /\ ReceiverGoto(r, "new", "bound")
  /\ UNCHANGED <<address, hellos, echoes>>

\* recvfrom, gethostbyaddr, which fails for a host without a name; inet_ntoa
HearHello(r, h) ==
  /\ h \in hellos
  /\ hellos' \in Delivered(hellos, h)
  /\ address' = [address EXCEPT ![r] = h]
  /\ ReceiverGoto(r, "bound", "echo") \/ ReceiverGoto(r, "bound", "threw")
  /\ UNCHANGED echoes

\* Mutant: the echo goes to whoever else has sent something.
EchoTo(r) == hellos \cup {address[r]}

\* To whom the echo goes.
EchoedTo(r) == {address[r]}

\* sendto the host it came from
Echo(r) ==
  /\ ReceiverGoto(r, "echo", "echoed")
  /\ echoes' = echoes \cup EchoedTo(r)
  /\ UNCHANGED <<address, hellos>>

\* return its address
ReturnAddress(r) ==
  /\ ReceiverGoto(r, "echoed", "returned")
  /\ UNCHANGED <<address, hellos, echoes>>

\* The network, or a receiver that has returned, loses a datagram.
LoseDatagram(h) ==
  /\ \/ h \in hellos /\ hellos' = hellos \ {h} /\ UNCHANGED echoes
     \/ h \in echoes /\ echoes' = echoes \ {h} /\ UNCHANGED hellos
  /\ UNCHANGED <<sender, receiver, address>>

AddrNext ==
  \/ \E h \in Hosts : SayHello(h) \/ HearEcho(h) \/ LoseDatagram(h)
  \/ \E r \in Receivers : \/ BindPort(r) \/ Echo(r) \/ ReturnAddress(r)
                          \/ \E h \in Hosts : HearHello(r, h)

AddrSpec == AddrInit /\ [][AddrNext]_addrVars

-----------------------------------------------------------------------------

(***************************************************************************)
(* "verify that received message is the same as the one sent": when        *)
(* SendAddress returns true some ReceiveAddress has the address of that    *)
(* very host, and has returned it or has only to return it, whatever the   *)
(* network did.                                                            *)
(***************************************************************************)
TrueMeansKnown ==
  \A h \in Hosts : sender[h] = "true" =>
    \E r \in Receivers : receiver[r] \in {"echoed", "returned"} /\ address[r] = h
=============================================================================
