-------------------------------- MODULE Edge --------------------------------
(***************************************************************************)
(* What a client meets: the proxy sends its requests to a slot, whose       *)
(* process limits them, while deployments replace the slots and with them   *)
(* the memory of the limiter.                                              *)
(***************************************************************************)
EXTENDS RateLimiter, Deployment

CONSTANT MaxRequests    \* bound on requests and deployments together

ASSUME EdgeAssumption == Slots = Slot /\ MaxRequests \in Nat

VARIABLE requests       \* requests so far

vars == <<rateVars, deployVars, requests>>

Init == RateInit /\ DeployInit /\ requests = 0

\* A request reaches the slot that the proxy has loaded.
Request(s) ==
    /\ proxy.up /\ proxy.upstream = s /\ slots[s].up
    /\ requests + deploys < MaxRequests /\ requests' = requests + 1
    /\ ReadCheck(s)

Replaced == {s \in Slots : slots'[s] # slots[s]}

Next ==
    \/ \E s \in Slots : Request(s) /\ UNCHANGED deployVars
    \/ /\ \E s \in Slots : AuthCheck(s) \/ AuthFallback(s) \/ WriteCheck(s)
       /\ UNCHANGED <<deployVars, requests>>
    \/ Tick /\ UNCHANGED <<deployVars, requests>>
    \/ /\ DeployStep
       /\ IF Replaced = {} THEN UNCHANGED rateVars ELSE \E s \in Replaced : Restarted(s)
       /\ requests + deploys' <= MaxRequests
       /\ UNCHANGED requests

Spec == Init /\ [][Next]_vars

\* The counters stay within their limits, the slots and the script have their
\* types.
TypeOK ==
    /\ elapsed \in Ages
    /\ \A t \in Tiers : \E u \in Tiers :
        Keys[u] = Keys[t] /\ counters[Keys[t]].current \in 0..Limit[u]
    /\ \A s \in Slots : memory[s].count \in 0..Limit["auth"] /\ memory[s].left \in -1..Window
    /\ slots \in [Slot -> [up : BOOLEAN, build : Builds]]
    /\ {file, proxy.upstream, script.new} \subseteq Slot \cup {"none"}
    /\ {schema, workerOf} \subseteq Builds /\ script.step \in ScriptSteps
    /\ requests + deploys \in 0..MaxRequests

=============================================================================
