---------------------------- MODULE PackageStore ----------------------------
(* What the cache promises of its packages and proofs: an entry appears whole, is    *)
(* leased only while it is whole, does not change while anyone leases it, and is     *)
(* never repaired: once damaged it can only be discarded.                            *)
CONSTANTS Entries, Users

VARIABLES
  state,  \* what a reader would find of each entry
  leases  \* who is using it

store == <<state, leases>>

StoreInit ==
  /\ state = [e \in Entries |-> "absent"]
  /\ leases = [e \in Entries |-> {}]

Publish(e) ==
  /\ state[e] = "absent"
  /\ state' = [state EXCEPT ![e] = "whole"]
  /\ UNCHANGED leases

Lease(e, u) ==
  /\ state[e] = "whole"
  /\ leases' = [leases EXCEPT ![e] = @ \cup {u}]
  /\ UNCHANGED state

EndLease(e, u) ==
  /\ leases' = [leases EXCEPT ![e] = @ \ {u}]
  /\ UNCHANGED state

Damage(e) ==
  /\ state[e] = "whole" /\ leases[e] = {}
  /\ state' = [state EXCEPT ![e] = "damaged"]
  /\ UNCHANGED leases

Discard(e) ==
  /\ state[e] = "damaged"
  /\ state' = [state EXCEPT ![e] = "absent"]
  /\ UNCHANGED leases

StoreNext ==
  \E e \in Entries :
    \/ Publish(e) \/ Damage(e) \/ Discard(e)
    \/ \E u \in Users : Lease(e, u) \/ EndLease(e, u)

StoreSpec == StoreInit /\ [][StoreNext]_store
==============================================================================
