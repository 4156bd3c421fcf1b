----------------------------- MODULE RemoteCall -----------------------------
(***************************************************************************)
(* What a remote call promises its caller, in AsyncClient.h and in RMI.h:  *)
(* a request that is sent is executed at most once; the call ends at most  *)
(* once, with the reply to this very request after it was executed, or     *)
(* with nothing once the client has been told to stop.                     *)
(***************************************************************************)
EXTENDS Naturals

CONSTANTS Calls    \* the requests, each sent at most once

VARIABLES phase,     \* of each request, as its caller sees it
          executed,  \* how often the server has executed each
          stopping   \* the client has been told to stop (never, in RMI.h)

vars == <<phase, executed, stopping>>

Phases == {"idle", "sent", "replied", "released"}

TypeOK == /\ phase \in [Calls -> Phases]
          /\ executed \in [Calls -> Nat]
          /\ stopping \in BOOLEAN

Init == /\ phase = [c \in Calls |-> "idle"]
        /\ executed = [c \in Calls |-> 0]
        /\ stopping = FALSE

Move(c, from, to) == /\ phase[c] = from
                     /\ phase' = [phase EXCEPT ![c] = to]

Send(c) == Move(c, "idle", "sent") /\ UNCHANGED <<executed, stopping>>

Execute(c) == /\ phase[c] # "idle" /\ executed[c] = 0
              /\ executed' = [executed EXCEPT ![c] = 1]
              /\ UNCHANGED <<phase, stopping>>

Reply(c) == /\ executed[c] > 0
            /\ Move(c, "sent", "replied")
            /\ UNCHANGED <<executed, stopping>>

Release(c) == /\ stopping
              /\ Move(c, "sent", "released")
              /\ UNCHANGED <<executed, stopping>>

Stop == stopping' = TRUE /\ UNCHANGED <<phase, executed>>

Next == Stop \/ \E c \in Calls : Send(c) \/ Execute(c) \/ Reply(c) \/ Release(c)

Spec == Init /\ [][Next]_vars
=============================================================================
