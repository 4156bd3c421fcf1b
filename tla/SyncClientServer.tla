--------------------------- MODULE SyncClientServer ---------------------------
(***************************************************************************)
(* SyncClientServer of PushPull.h: a Pusher and a Puller at each end.      *)
(*                                                                         *)
(* The client calls SendRecv with a timeout, any number of times, and may  *)
(* call Recv alone for a reply it has missed.  The server receives without *)
(* a timeout, or goes on after one without a reply, as RecvSend does, and  *)
(* sends its reply.  Nothing ties a reply to its request but their order.  *)
(*                                                                         *)
(* A channel is what ZeroMQ holds at both ends of a pipe; Push has no      *)
(* timeout, and blocks while it is full.                                   *)
(***************************************************************************)
EXTENDS Integers, Sequences

CONSTANTS
  MaxRequests,  \* bound: calls of SendRecv; they are numbered
  MaxTimeOuts,  \* bound: timeouts
  ChannelLimit  \* messages that a channel holds

ASSUME SyncAssumption ==
  /\ MaxRequests \in Nat /\ MaxTimeOuts \in Nat /\ ChannelLimit \in Nat \ {0}

VARIABLES
  client,    \* "none", "idle", "send", "recv", "drain" or "dangling"
  sent,      \* calls of SendRecv so far
  timeouts,  \* timeouts so far
  late,      \* replies the client has given up on and not received since
  answer,    \* what the last SendRecv asked, got, and how many were late then
  toServer, toClient,  \* the channels
  serving    \* the request the server works on, 0 if it waits for one

syncVars == <<client, sent, timeouts, late, answer, toServer, toClient, serving>>

NoAnswer == [asked |-> 0, got |-> 0, late |-> 0]

SyncInit ==
  /\ client = "none" /\ sent = 0 /\ timeouts = 0 /\ late = 0
  /\ answer = NoAnswer
  /\ toServer = <<>> /\ toClient = <<>> /\ serving = 0

ClientGoto(from, to) ==
  /\ client = from
  /\ client' = to
  /\ UNCHANGED serving

-----------------------------------------------------------------------------

\* The constructors.
OpenChannels ==
  /\ ClientGoto("none", "idle")
  /\ UNCHANGED <<sent, timeouts, late, answer, toServer, toClient>>

\* SendRecv(req, rep)
CallSendRecv ==
  /\ sent < MaxRequests
  /\ ClientGoto("idle", "send")
  /\ sent' = sent + 1
  /\ UNCHANGED <<timeouts, late, answer, toServer, toClient>>

\* Recv(rep), for a reply that is late.
CallRecv ==
  /\ late > 0
  /\ ClientGoto("idle", "drain")
  /\ UNCHANGED <<sent, timeouts, late, answer, toServer, toClient>>

\* Send(req)
ClientSend ==
  /\ Len(toServer) < ChannelLimit
  /\ ClientGoto("send", "recv")
  /\ toServer' = Append(toServer, sent)
  /\ UNCHANGED <<sent, timeouts, late, answer, toClient>>

\* Recv(rep) returns true: the reply is the first that is there.
ClientRecv ==
  /\ toClient # <<>>
  /\ \/ /\ ClientGoto("recv", "idle")
        /\ answer' = [asked |-> sent, got |-> Head(toClient), late |-> late]
        /\ UNCHANGED late
     \/ /\ ClientGoto("drain", "idle")
        /\ late' = late - 1
        /\ UNCHANGED answer
  /\ toClient' = Tail(toClient)
  /\ UNCHANGED <<sent, timeouts, toServer>>

\* Recv(rep) returns false.
ClientTimeOut ==
  /\ timeouts < MaxTimeOuts
  /\ \/ ClientGoto("recv", "idle") /\ late' = late + 1
     \/ ClientGoto("drain", "idle") /\ UNCHANGED late
  /\ timeouts' = timeouts + 1
  /\ UNCHANGED <<sent, answer, toServer, toClient>>

\* Reset() assigns from temporaries, whose destructors close the sockets that
\* were copied.  Any further call uses a closed socket, and is undefined.
Reset ==
  /\ ClientGoto("idle", "dangling")
  /\ UNCHANGED <<sent, timeouts, late, answer, toServer, toClient>>

\* Mutant: the last request comes first.
ServerRecvLast ==
  /\ serving = 0 /\ toServer # <<>>
  /\ serving' = toServer[Len(toServer)]
  /\ toServer' = SubSeq(toServer, 1, Len(toServer) - 1)
  /\ UNCHANGED <<client, sent, timeouts, late, answer, toClient>>

\* The server: Recv(req)
ServerRecv ==
  /\ serving = 0 /\ toServer # <<>>
  /\ serving' = Head(toServer)
  /\ toServer' = Tail(toServer)
  /\ UNCHANGED <<client, sent, timeouts, late, answer, toClient>>

\* Mutant: a reply is sent only when no other one waits.
MaySendAlone == toClient = <<>> /\ toServer = <<>>

\* Whether Push may go on.
MaySend == Len(toClient) < ChannelLimit

\* Send(rep), after Service(req)
ServerSend ==
  /\ serving # 0 /\ MaySend
  /\ toClient' = Append(toClient, serving)
  /\ serving' = 0
  /\ UNCHANGED <<client, sent, timeouts, late, answer, toServer>>

ClientProgress == ClientSend \/ ClientRecv \/ ClientTimeOut
ServerProgress == ServerRecv \/ ServerSend

SyncNext ==
  OpenChannels \/ CallSendRecv \/ CallRecv \/ Reset \/ ClientProgress \/ ServerProgress

\* Both threads run; nothing makes the client call.
SyncFairness == WF_syncVars(ClientProgress) /\ WF_syncVars(ServerProgress)

SyncSpec == SyncInit /\ [][SyncNext]_syncVars /\ SyncFairness

-----------------------------------------------------------------------------

(***************************************************************************)
(* "SendRecv(req, reply); consume reply": after a timeout the reply to the *)
(* request is still to come, and the next SendRecv returns it as its own;  *)
(* from then on all replies are off by as many as are late.  With none     *)
(* late, or all of them received by Recv, SendRecv returns its own reply.  *)
(* What is late is neither lost nor doubled: it is on its way.             *)
(***************************************************************************)
OwnReplyUnlessLate ==
  /\ answer.got = answer.asked - answer.late
  /\ client \in {"idle", "recv", "drain"} =>
       late = Len(toServer) + Len(toClient) + (IF serving # 0 THEN 1 ELSE 0)
              - (IF client = "recv" THEN 1 ELSE 0)

(***************************************************************************)
(* A call returns, unless both sides block in Push: the client has gone on *)
(* sending until both channels are full and the server holds one more.     *)
(***************************************************************************)
CallReturns ==
  client \in {"send", "recv", "drain"} ~>
    client = "idle" \/ (client = "send" /\ late > 2 * ChannelLimit)
=============================================================================
