------------------------------ MODULE PinRegister ------------------------------
(***************************************************************************)
(* What project.py promises of the workspace pin: a process that read it,  *)
(* then spent long resolving a release, replaces exactly the pin it read   *)
(* or changes nothing.                                                     *)
(***************************************************************************)
CONSTANTS Users, Releases, NoPin

VARIABLES
  pin,    \* the release the project is pinned to, or NoPin
  base    \* the pins each process may still replace: none, or the one it read

Init == pin \in Releases \cup {NoPin} /\ base = [p \in Users |-> {}]

Read(p) == base' = [base EXCEPT ![p] = {pin}] /\ UNCHANGED pin
GiveUp(p) == base' = [base EXCEPT ![p] = {}] /\ UNCHANGED pin

Replace(p) ==
  /\ base[p] = {pin}
  /\ pin' \in Releases
  /\ base' = [base EXCEPT ![p] = {}]

Next == \E p \in Users : Read(p) \/ GiveUp(p) \/ Replace(p)

Spec == Init /\ [][Next]_<<pin, base>>
==============================================================================
