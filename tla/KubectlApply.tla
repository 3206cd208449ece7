----------------------------- MODULE KubectlApply -----------------------------
(***************************************************************************)
(* kubectl steps of several Sites at once: AzCliExecutor.kubectl_apply in  *)
(* the worker of each Site, with the Arc proxy it runs through             *)
(* (_arc_proxy) and the port slots all proxies of the process share        *)
(* (_allocate_arc_port_slot, _release_arc_port_slot).                      *)
(***************************************************************************)
EXTENDS Naturals, FiniteSets

CONSTANTS
  Sites,        \* Sites whose workers run a kubectl step
  MaxSlots,     \* ARC_PROXY_MAX_SLOTS
  MaxAttempts,  \* ARC_PROXY_MAX_PORT_RETRIES
  TakenPorts    \* sets of slots whose port another program may hold

ASSUME KubectlAssumption ==
  /\ MaxSlots \in Nat
  /\ MaxAttempts \in Nat \ {0}
  /\ TakenPorts \subseteq SUBSET (0..(MaxSlots - 1))

Slots == 0..(MaxSlots - 1)
NoSlot == MaxSlots

VARIABLES
  stop,       \* stop_requested.is_set()
  allocated,  \* _allocated_arc_port_slots
  taken,      \* slots whose port is held by another program, or by a proxy
              \* that outlived its kill
  pc,         \* per Site: where its kubectl_apply is
  attempt,    \* per Site: attempt of _arc_proxy
  held,       \* per Site: held_ports, as slots
  proxy,      \* per Site: slot of its running proxy process, or NoSlot
  launched,   \* per Site: `kubectl apply` was started
  verdict,    \* per Site: the KubectlResult its body made
  why         \* per Site: "no-slot" when no slot was free

perSite == <<pc, attempt, held, proxy, launched, verdict, why>>
vars == <<stop, allocated, taken, perSite>>

Init ==
  /\ stop = FALSE
  /\ allocated = {}
  /\ taken \in TakenPorts
  /\ pc = [w \in Sites |-> "idle"]
  /\ attempt = [w \in Sites |-> 1]
  /\ held = [w \in Sites |-> {}]
  /\ proxy = [w \in Sites |-> NoSlot]
  /\ launched = [w \in Sites |-> FALSE]
  /\ verdict = [w \in Sites |-> "none"]
  /\ why = [w \in Sites |-> "none"]

-------------------------------------------------------------------------------
Move(w, to) == pc' = [pc EXCEPT ![w] = to]

(* The stop checks of kubectl_apply and _arc_proxy before any attempt.     *)
StopAtStart(w) ==
  /\ pc[w] = "idle"
  /\ stop
  /\ verdict' = [verdict EXCEPT ![w] = "cancelled"]
  /\ Move(w, "returned")
  /\ UNCHANGED <<stop, allocated, taken, attempt, held, proxy, launched, why>>

(* An invalid file, a missing tool, or no private kubeconfig.              *)
FailToStart(w) ==
  /\ pc[w] = "idle"
  /\ ~stop
  /\ verdict' = [verdict EXCEPT ![w] = "failed"]
  /\ Move(w, "returned")
  /\ UNCHANGED <<stop, allocated, taken, attempt, held, proxy, launched, why>>

Enter(w) ==
  /\ pc[w] = "idle"
  /\ ~stop
  /\ Move(w, "trying")
  /\ UNCHANGED <<stop, allocated, taken, attempt, held, proxy, launched,
                 verdict, why>>

-------------------------------------------------------------------------------
(* The attempts of _arc_proxy.                                             *)

(* Leave the attempts without a session.                                   *)
GiveUp(w) == Move(w, "sessionless") /\ UNCHANGED verdict

StopBeforeAttempt(w) ==
  /\ pc[w] = "trying"
  /\ stop
  /\ GiveUp(w)
  /\ UNCHANGED <<stop, allocated, taken, attempt, held, proxy, launched, why>>

Free == Slots \ allocated

(* _allocate_arc_port_slot, under its lock, and Popen of the proxy.        *)
StartProxy(w) ==
  /\ pc[w] = "trying"
  /\ ~stop
  /\ \E slot \in Free :
       /\ \A other \in Free : slot <= other
       /\ allocated' = allocated \cup {slot}
       /\ held' = [held EXCEPT ![w] = @ \cup {slot}]
       /\ \/ /\ proxy' = [proxy EXCEPT ![w] = slot]
             /\ Move(w, "probing")
          \/ /\ Move(w, "sessionless")
             /\ UNCHANGED proxy
  /\ UNCHANGED <<stop, taken, attempt, launched, verdict, why>>

(* RuntimeError of the allocation, which _arc_proxy turns into a failed    *)
(* session.                                                                *)
NoSlotIsFree(w) ==
  /\ pc[w] = "trying"
  /\ ~stop
  /\ Free = {}
  /\ GiveUp(w)
  /\ why' = [why EXCEPT ![w] = "no-slot"]
  /\ UNCHANGED <<stop, allocated, taken, attempt, held, proxy, launched>>

(* The proxy bound its port and answered through the tunnel.               *)
ProbeReady(w) ==
  /\ pc[w] = "probing"
  /\ proxy[w] \notin taken
  /\ Move(w, "ready")
  /\ UNCHANGED <<stop, allocated, taken, attempt, held, proxy, launched,
                 verdict, why>>

(* The deadline passed, or a stop cut the probe short: the process may be  *)
(* running, and is left to the cleanup.                                    *)
ProbeGivesUp(w) ==
  /\ pc[w] = "probing"
  /\ GiveUp(w)
  /\ UNCHANGED <<stop, allocated, taken, attempt, held, proxy, launched, why>>

(* The process ended for a reason that is not retried, or on the last      *)
(* attempt, or while a stop was requested.                                 *)
ProxyExits(w) ==
  /\ pc[w] = "probing"
  /\ proxy' = [proxy EXCEPT ![w] = NoSlot]
  /\ GiveUp(w)
  /\ UNCHANGED <<stop, allocated, taken, attempt, held, launched, why>>

(* The process ended because its port is in use: try the next slot and     *)
(* keep this one.                                                          *)
RetryOnNextSlot(w) ==
  /\ pc[w] = "probing"
  /\ ~stop
  /\ proxy[w] \in taken
  /\ attempt[w] < MaxAttempts
  /\ attempt' = [attempt EXCEPT ![w] = @ + 1]
  /\ proxy' = [proxy EXCEPT ![w] = NoSlot]
  /\ Move(w, "trying")
  /\ UNCHANGED <<stop, allocated, taken, held, launched, verdict, why>>

-------------------------------------------------------------------------------
(* The body of the `with` in kubectl_apply.                                *)

(* A stop comes first, whatever made a session fail.                       *)
StopInBody(w) ==
  /\ pc[w] \in {"sessionless", "ready"}
  /\ stop
  /\ verdict' = [verdict EXCEPT ![w] = "cancelled"]
  /\ Move(w, "closing")
  /\ UNCHANGED <<stop, allocated, taken, attempt, held, proxy, launched, why>>

FailWithoutSession(w) ==
  /\ pc[w] = "sessionless"
  /\ ~stop
  /\ verdict' = [verdict EXCEPT ![w] = "failed"]
  /\ Move(w, "closing")
  /\ UNCHANGED <<stop, allocated, taken, attempt, held, proxy, launched, why>>

Apply(w) ==
  /\ pc[w] = "ready"
  /\ ~stop
  /\ launched' = [launched EXCEPT ![w] = TRUE]
  /\ Move(w, "applying")
  /\ UNCHANGED <<stop, allocated, taken, attempt, held, proxy, verdict, why>>

(* kubectl ended or timed out: what did not succeed is in doubt.           *)
ApplyReturns(w) ==
  /\ pc[w] = "applying"
  /\ \E v \in {"succeeded", "unknown"} : verdict' = [verdict EXCEPT ![w] = v]
  /\ Move(w, "closing")
  /\ UNCHANGED <<stop, allocated, taken, attempt, held, proxy, launched, why>>

-------------------------------------------------------------------------------
(* The finally of _arc_proxy.                                              *)

(* Mutant: the slots are released before the proxy is ended.               *)
EndProxyLater(w) ==
  /\ pc[w] = "closing"
  /\ Move(w, "releasing")
  /\ UNCHANGED <<stop, allocated, taken, attempt, held, proxy, launched,
                 verdict, why>>

(* Terminate, then kill.  "Proxy did not exit after kill. Reap will        *)
(* defer.": the port stays taken.                                          *)
EndProxy(w) ==
  /\ pc[w] = "closing"
  /\ \/ UNCHANGED taken
     \/ /\ proxy[w] # NoSlot
        /\ taken' = taken \cup {proxy[w]}
  /\ proxy' = [proxy EXCEPT ![w] = NoSlot]
  /\ Move(w, "releasing")
  /\ UNCHANGED <<stop, allocated, attempt, held, launched, verdict, why>>

ReleaseSlot(w) ==
  /\ pc[w] = "releasing"
  /\ \E slot \in held[w] :
       /\ allocated' = allocated \ {slot}
       /\ held' = [held EXCEPT ![w] = @ \ {slot}]
  /\ UNCHANGED <<stop, taken, pc, attempt, proxy, launched, verdict, why>>

Return(w) ==
  /\ pc[w] = "releasing"
  /\ held[w] = {}
  /\ Move(w, "returned")
  /\ UNCHANGED <<stop, allocated, taken, attempt, held, proxy, launched,
                 verdict, why>>

-------------------------------------------------------------------------------
Attempts(w) ==
  \/ StopBeforeAttempt(w) \/ StartProxy(w) \/ NoSlotIsFree(w)
  \/ ProbeReady(w) \/ ProbeGivesUp(w) \/ ProxyExits(w) \/ RetryOnNextSlot(w)

Site(w) ==
  \/ StopAtStart(w) \/ FailToStart(w) \/ Enter(w)
  \/ Attempts(w)
  \/ StopInBody(w) \/ FailWithoutSession(w) \/ Apply(w) \/ ApplyReturns(w)
  \/ EndProxy(w) \/ ReleaseSlot(w) \/ Return(w)

RequestStop == ~stop /\ stop' = TRUE /\ UNCHANGED <<allocated, taken, perSite>>

AllReturned == \A w \in Sites : pc[w] = "returned"

Idle == AllReturned /\ UNCHANGED vars

Next == (\E w \in Sites : Site(w)) \/ RequestStop \/ Idle

Spec == Init /\ [][Next]_vars

(* Every worker keeps running: the probe has a deadline and each tool call *)
(* a timeout, and the lock of the slots is held for a moment only.         *)
FairSpec == Spec /\ \A w \in Sites : WF_vars(Site(w))

-------------------------------------------------------------------------------
(* Properties.                                                             *)

(* Every variable holds a value of its kind.                               *)
TypeOK ==
  /\ stop \in BOOLEAN
  /\ allocated \in SUBSET Slots
  /\ taken \in SUBSET Slots
  /\ pc \in [Sites -> {"idle", "trying", "probing", "ready", "sessionless", "applying",
                       "closing", "releasing", "returned"}]
  /\ attempt \in [Sites -> 1..MaxAttempts]
  /\ held \in [Sites -> SUBSET Slots]
  /\ proxy \in [Sites -> Slots \cup {NoSlot}]
  /\ launched \in [Sites -> BOOLEAN]
  /\ verdict \in [Sites -> {"none", "succeeded", "failed", "unknown", "cancelled"}]
  /\ why \in [Sites -> {"none", "no-slot"}]

(* A slot is held by one Site exactly while it is allocated: none is       *)
(* shared by two calls and none is lost by a retry, a stop or a failure.   *)
SlotsHeldOnce ==
  /\ allocated = UNION {held[w] : w \in Sites}
  /\ \A v, w \in Sites : v # w => held[v] \cap held[w] = {}

(* A Site's proxy runs only on a slot the Site alone holds: nobody is      *)
(* handed a slot whose proxy the engine has not ended.  Each attempt of a  *)
(* call is made on a slot the call has not tried before.                   *)
ProxyWithinSlot ==
  /\ SlotsHeldOnce
  /\ \A w \in Sites :
       /\ proxy[w] # NoSlot => proxy[w] \in held[w]
       /\ pc[w] = "trying" => Cardinality(held[w]) = attempt[w] - 1

(* The contract FleetRun relies on, for each Site: `launched` is the start *)
(* of `kubectl apply`, since a proxy changes nothing in the cluster.       *)
Call(w) == INSTANCE ProviderCall WITH
  call <- IF pc[w] = "returned" THEN "returned"
          ELSE IF launched[w] THEN "launched" ELSE "begun",
  outcome <- IF pc[w] = "returned" THEN verdict[w] ELSE "none"

CallSteps ==
  [][\A w \in Sites : Call(w)!Next \/ UNCHANGED Call(w)!callVars]_vars

(* Every kubectl step returns, also when slots run out.                    *)
AllReturn == <>AllReturned
===============================================================================
