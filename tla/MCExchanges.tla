----------------------------- MODULE MCExchanges -----------------------------
(***************************************************************************)
(* The components that exchange data without threads of their own, on      *)
(* small instances.  They do not interact: a behaviour exercises one of    *)
(* them, and the others stay in their initial states.  Each begins with a  *)
(* step that nothing forces, so that no fairness of the others is awake.   *)
(***************************************************************************)
EXTENDS PushPull, SyncClientServer, HandShake, AddressExchange, Archive, RemoteMethods

CONSTANTS p1, p2, i1, i2, i3, r1, r2, a1, a2, a3

MCSizeOf == <<2, 1, 2>>

\* The methods of RMITest, and a void one, Set, with arguments; Ls has a string.
Sum == 1
Pi == 2
Set == 3
Exceptional == 4
Ls == 5

Item(t, v) == [type |-> t, value |-> v]
MCItems ==
  {Item("int", 1), Item("string", <<>>), Item("string", <<1, 2>>), Item("ints", <<3>>),
   Item("strings", << <<1>>, <<>> >>), Item("strings", << <<2>> >>),
   Item("map", (1 :> <<1>>) @@ (2 :> <<>>)), Item("map", 2 :> <<2, 2>>)}

PullIdle == PullInit /\ UNCHANGED pullVars
SyncIdle == SyncInit /\ UNCHANGED syncVars
ShakeIdle == ShakeInit /\ UNCHANGED shakeVars
AddrIdle == AddrInit /\ UNCHANGED addrVars
ArchiveIdle == ArchiveInit /\ UNCHANGED archiveVars
MethodsIdle == MethodsInit /\ UNCHANGED methodVars

Init == PullInit /\ SyncInit /\ ShakeInit /\ AddrInit /\ ArchiveInit /\ MethodsInit

Next ==
  \/ PullNext /\ SyncIdle /\ ShakeIdle /\ AddrIdle /\ ArchiveIdle /\ MethodsIdle
  \/ SyncNext /\ PullIdle /\ ShakeIdle /\ AddrIdle /\ ArchiveIdle /\ MethodsIdle
  \/ ShakeNext /\ PullIdle /\ SyncIdle /\ AddrIdle /\ ArchiveIdle /\ MethodsIdle
  \/ AddrNext /\ PullIdle /\ SyncIdle /\ ShakeIdle /\ ArchiveIdle /\ MethodsIdle
  \/ ArchiveNext /\ PullIdle /\ SyncIdle /\ ShakeIdle /\ AddrIdle /\ MethodsIdle
  \/ MethodsNext /\ PullIdle /\ SyncIdle /\ ShakeIdle /\ AddrIdle /\ ArchiveIdle

vars == <<pullVars, syncVars, shakeVars, addrVars, archiveVars, methodVars>>

FairSpec ==
  Init /\ [][Next]_vars /\ PullFairness /\ SyncFairness /\ ShakeFairness
=============================================================================
