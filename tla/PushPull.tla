------------------------------- MODULE PushPull -------------------------------
(***************************************************************************)
(* PushPull.h: a Pusher deals out messages to the Pullers that are         *)
(* connected to it, in turn.                                               *)
(*                                                                         *)
(* The program is that of the usage comments and of PushPullTest: one      *)
(* thread pushes some messages and then empty ones, one for each puller,   *)
(* and may destroy the Pusher; the others pull in a loop, each into one    *)
(* buffer, until that is empty, and then destroy their Puller.  Pullers    *)
(* have no timeout.                                                        *)
(*                                                                         *)
(* ZeroMQ is external.  A message waits in the pusher's end of a pipe      *)
(* until it is carried to the puller's end.  A pipe holds a limited number *)
(* of messages at each end; one that is found full loses its turn, and has *)
(* a new one, no matter which, when it has room again.  ZMQ_LINGER is 0:   *)
(* what a socket holds when it is closed is dropped.                       *)
(***************************************************************************)
EXTENDS Integers, SequencesExt

CONSTANTS
  Pullers,      \* the pullers
  NumMessages,  \* messages pushed before the empty ones
  SizeOf,       \* their sizes
  BufferSize,   \* size of the buffer of a puller when it begins
  PipeLimit     \* the high water mark: messages at an end of a pipe

ASSUME PullAssumption ==
  /\ IsFiniteSet(Pullers)
  /\ NumMessages \in Nat /\ SizeOf \in [1 .. NumMessages -> Nat \ {0}]
  /\ BufferSize \in Nat \ {0} /\ PipeLimit \in Nat \ {0}

VARIABLES
  pusher,   \* "none", "open" or "closed"
  sizeInfo, \* the transmission policy: with sizes or without
  pushed,   \* messages pushed so far: they are numbered
  ring,     \* the pullers whose pipe has a turn, the next one first
  outbox,   \* what waits at the pusher's end of each pipe
  inbox,    \* what waits at the puller's end
  puller,   \* where each puller is: "none", "pulling" or "ended"
  buffer,   \* size of each puller's buffer
  pulled,   \* the messages each has pulled, and how much of them it got
  skipped   \* history: an empty message was pushed while a puller had no turn

pushVars == <<pusher, sizeInfo, pushed, skipped>>
pipeVars == <<ring, outbox, inbox>>
pullVars == <<pushVars, pipeVars, puller, buffer, pulled>>

Total == NumMessages + Cardinality(Pullers)
Size(m) == IF m <= NumMessages THEN SizeOf[m] ELSE 0

PullInit ==
  /\ pusher = "none" /\ sizeInfo = FALSE /\ pushed = 0 /\ ring = <<>> /\ skipped = FALSE
  /\ outbox = [p \in Pullers |-> <<>>]
  /\ inbox = [p \in Pullers |-> <<>>]
  /\ puller = [p \in Pullers |-> "none"]
  /\ buffer = [p \in Pullers |-> BufferSize]
  /\ pulled = [p \in Pullers |-> <<>>]

-----------------------------------------------------------------------------

\* Pusher(uri, true), with one of the policies, which the pullers share.
OpenPusher ==
  /\ pusher = "none"
  /\ pusher' = "open"
  /\ sizeInfo' \in BOOLEAN
  /\ UNCHANGED <<pushed, skipped, pipeVars, puller, buffer, pulled>>

\* Puller(uri, false)
OpenPuller(p) ==
  /\ pusher = "open" /\ puller[p] = "none"
  /\ puller' = [puller EXCEPT ![p] = "pulling"]
  /\ UNCHANGED <<pushVars, pipeVars, buffer, pulled>>

\* A pipe is new, or has room again, and has a turn from now on.
Activate(p) ==
  /\ pusher = "open" /\ puller[p] = "pulling"
  /\ ~Contains(ring, p) /\ Len(outbox[p]) < PipeLimit
  /\ \E i \in 1 .. Len(ring) + 1 : ring' = InsertAt(ring, i, p)
  /\ UNCHANGED <<pushVars, outbox, inbox, puller, buffer, pulled>>

\* The pipe a message goes to.
Dealt == {Head(ring)}

\* Then it is the turn of the next one.
NextTurn == Append(Tail(ring), Head(ring))

\* The pullers that wait for messages and have no turn.
Waiting == {p \in Pullers : puller[p] # "ended" /\ ~Contains(ring, p)}

\* SendBuffer: zmq_send blocks while no pipe has a turn.
Push ==
  /\ pusher = "open" /\ pushed < Total /\ ring # <<>>
  /\ LET full == Len(outbox[Head(ring)]) = PipeLimit IN
     /\ skipped' = (skipped \/ (pushed >= NumMessages /\ (full \/ Waiting # {})))
     /\ \/ /\ ~full
           /\ pushed' = pushed + 1
           /\ outbox' = [p \in Pullers |-> IF p \in Dealt THEN Append(outbox[p], pushed + 1)
                                           ELSE outbox[p]]
           /\ ring' = NextTurn
        \/ /\ full
           /\ ring' = Tail(ring)
           /\ UNCHANGED <<pushed, outbox>>
  /\ UNCHANGED <<pusher, sizeInfo, inbox, puller, buffer, pulled>>

\* The network carries a message.
Carry(p) ==
  /\ outbox[p] # <<>> /\ Len(inbox[p]) < PipeLimit
  /\ inbox' = [inbox EXCEPT ![p] = Append(@, Head(outbox[p]))]
  /\ outbox' = [outbox EXCEPT ![p] = Tail(@)]
  /\ UNCHANGED <<pushVars, ring, puller, buffer, pulled>>

\* ~Pusher(), when every message was pushed.
ClosePusher ==
  /\ pusher = "open" /\ pushed = Total
  /\ pusher' = "closed"
  /\ outbox' = [p \in Pullers |-> <<>>]
  /\ UNCHANGED <<sizeInfo, pushed, skipped, ring, inbox, puller, buffer, pulled>>

\* Mutant: the buffer is not made to fit before the message is received.
ReceivedCut(m, b) == IF Size(m) <= b THEN Size(m) ELSE b

\* ReceiveBuffer: how much of m gets into a buffer of size b.  With sizes it is
\* made to fit; without, m is cut off and then padded with zeros to its size.
Received(m, b) == IF sizeInfo \/ Size(m) <= b THEN Size(m) ELSE b

\* Mutant: the buffer keeps its size.
KeptSize(m, b) == b

\* buffer.resize: the size of the buffer is that of the message it was given.
Resized(m, b) == Size(m)

\* Pull(buffer), if(buffer.empty()) break
Pull(p) ==
  /\ puller[p] = "pulling" /\ inbox[p] # <<>>
  /\ LET m == Head(inbox[p]) IN
     /\ pulled' = [pulled EXCEPT ![p] = Append(@, [msg |-> m, got |-> Received(m, buffer[p])])]
     /\ buffer' = [buffer EXCEPT ![p] = Resized(m, @)]
     /\ puller' = [puller EXCEPT ![p] = IF buffer'[p] = 0 THEN "ended" ELSE "pulling"]
  /\ inbox' = [inbox EXCEPT ![p] = Tail(@)]
  /\ UNCHANGED <<pushVars, ring, outbox>>

\* ~Puller() of one that has ended: its pipe goes, with what is in it.
ClosePuller(p) ==
  /\ puller[p] = "ended"
  /\ \/ \E i \in DOMAIN ring : ring[i] = p /\ ring' = RemoveAt(ring, i)
     \/ ~Contains(ring, p) /\ UNCHANGED ring
  /\ outbox' = [outbox EXCEPT ![p] = <<>>]
  /\ inbox' = [inbox EXCEPT ![p] = <<>>]
  /\ UNCHANGED <<pushVars, puller, buffer, pulled>>

PullNext ==
  \/ OpenPusher \/ Push \/ ClosePusher
  \/ \E p \in Pullers : \/ OpenPuller(p) \/ Activate(p) \/ Carry(p)
                        \/ Pull(p) \/ ClosePuller(p)

\* The pusher pushes, the network works, the pullers pull.  Nothing makes anyone
\* open or close a socket.
PullFairness ==
  /\ WF_pullVars(Push)
  /\ \A p \in Pullers : /\ WF_pullVars(Activate(p)) /\ WF_pullVars(Carry(p))
                        /\ WF_pullVars(Pull(p))

PullSpec == PullInit /\ [][PullNext]_pullVars /\ PullFairness

-----------------------------------------------------------------------------

(***************************************************************************)
(* No message is pulled twice, each puller pulls messages in the order in  *)
(* which they were pushed, and gets the whole of them, unless one is       *)
(* longer than its buffer was at first, or than one it has pulled before.  *)
(***************************************************************************)
PulledAsPushed ==
  \A p \in Pullers : \A i \in DOMAIN pulled[p] :
    /\ \A j \in 1 .. i - 1 : pulled[p][j].msg < pulled[p][i].msg
    /\ \A q \in Pullers \ {p} : \A j \in DOMAIN pulled[q] :
         pulled[q][j].msg # pulled[p][i].msg
    /\ \/ pulled[p][i].got = Size(pulled[p][i].msg)
       \/ /\ ~sizeInfo
          /\ \/ Size(pulled[p][i].msg) > BufferSize
             \/ \E j \in 1 .. i - 1 : Size(pulled[p][j].msg) < Size(pulled[p][i].msg)

(***************************************************************************)
(* "Two receivers, send one message to each" (PushPullTest): every puller  *)
(* gets an empty message and ends its loop, unless the Pusher is destroyed *)
(* or a puller had no turn, for a full pipe or because it came late, when  *)
(* they were pushed.                                                       *)
(***************************************************************************)
EveryPullerEnds ==
  \A p \in Pullers :
    puller[p] = "pulling" ~> puller[p] = "ended" \/ skipped \/ pusher = "closed"
=============================================================================
