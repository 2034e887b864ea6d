------------------------------ MODULE MCConIn ------------------------------
(* Two consoles with both protocols, and lists that grow by one.           *)
EXTENDS ConSplitterTextIn, TLC

CONSTANTS a, f

\* One function for a key with any shift state and for the shifted key alone.
MCClients == [code : {a}, shift : {0, 1}, fn : {f}]

\* The Ex consoles are alike.
Symmetry == Permutations(ExDevices)

\* Bounds: keys are typed only while no client has registered anything (what
\* clients register and what is typed do not meet in this module), and the
\* console without the Ex protocol takes part only where no call fails and
\* fewer keys are typed.
NoClients ==
  /\ Len(notifyList) = 1
  /\ \A d \in Devices : registered[d] \subseteq {SyncNotify}
PlainTakesPart ==
  \E d \in Devices \ ExDevices :
    d \in opened \/ pending[d] # << >> \/ lastRead[d] # 0
KeysOrNotifies ==
  /\ typed = 0 \/ NoClients
  /\ PlainTakesPart => NoClients /\ faults = 0 /\ typed < MaxKeys
=============================================================================
