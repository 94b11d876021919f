----------------------------- MODULE Deployment -----------------------------
(***************************************************************************)
(* deploy/scripts/deploy.sh: the build of an image, the migration, the two  *)
(* API slots, the proxy and the worker.  The script may be stopped between  *)
(* any two of its commands and a command may fail; it is run again later,  *)
(* never twice at once.  Every build needs a migration of its own.  A file *)
(* mounted into a container stays the one it was started with, and mv puts *)
(* another app-active.conf in its place, so a proxy keeps its upstream.    *)
(***************************************************************************)
EXTENDS Naturals

CONSTANT MaxDeploys     \* bound on runs of the script

ASSUME DeployAssumption == MaxDeploys \in Nat

Slot == {"blue", "green"}
Other(s) == IF s = "blue" THEN "green" ELSE "blue"
Builds == 0..MaxDeploys     \* by the run that built them, 0: none

VARIABLES
    deploys,    \* runs so far
    slots,      \* slots[s]: the container runs, and its build
    file,       \* the upstream in app-active.conf
    proxy,      \* the proxy runs, and the upstream it has loaded
    schema,     \* the last migration, by the build that needs it
    dirty,      \* it failed halfway
    workerOf,   \* build of the worker
    script,     \* the next command of the script, and the slots it works on
    strayed     \* a proxy came back on another upstream than it had left with

deployVars == <<deploys, slots, file, proxy, schema, dirty, workerOf, script, strayed>>

Idle == [step |-> "idle", new |-> "none", cold |-> FALSE]
ScriptSteps == {"idle", "build", "migrate", "infer", "write", "up", "wait", "recreate",
                "start", "check", "stop", "worker"}

Then(step) == script' = [script EXCEPT !.step = step]

\* exit 1 or a signal; also the end of a run.
Exit == script' = Idle

\* SchemaCurrent, part of /ready.
Ready(build) == ~dirty /\ schema >= build

-----------------------------------------------------------------------------

Deploy ==
    /\ script = Idle /\ deploys < MaxDeploys
    /\ deploys' = deploys + 1
    /\ Then("migrate") \/ Exit
    /\ UNCHANGED <<slots, file, proxy, schema, dirty, workerOf, strayed>>

\* run_migrate: skipped, successful, or failed and dirty; a dirty schema stays
\* so until an operator forces a version.
Migrate ==
    /\ script.step = "migrate"
    /\ \/ Then("infer") /\ UNCHANGED <<schema, dirty>>
       \/ ~dirty /\ schema' = deploys /\ Then("infer") /\ UNCHANGED dirty
       \/ dirty' = TRUE /\ Exit /\ UNCHANGED schema
    /\ UNCHANGED <<deploys, slots, file, proxy, workerOf, strayed>>

\* migrate force, by an operator.
ForceVersion ==
    /\ dirty /\ script = Idle
    /\ dirty' = FALSE
    /\ UNCHANGED <<deploys, slots, file, proxy, schema, workerOf, script, strayed>>

Running == {s \in Slot : slots[s].up}

\* Mutant: the upstream of the file on the host.
UpstreamInFile == IF proxy.up THEN file ELSE "none"

\* docker exec ... grep in the running proxy.
Upstream == IF proxy.up THEN proxy.upstream ELSE "none"

\* infer_active_slot_into: the slot that runs; of two, the one of the proxy.
InferSlot ==
    /\ script.step = "infer"
    /\ script' = IF Running = {} THEN [step |-> "write", new |-> "blue", cold |-> TRUE]
                 ELSE IF Running # Slot
                 THEN [step |-> "up", new |-> CHOOSE s \in Slot : s \notin Running, cold |-> FALSE]
                 ELSE IF Upstream \in Slot
                 THEN [step |-> "up", new |-> Other(Upstream), cold |-> FALSE]
                 ELSE Idle
    /\ UNCHANGED <<deploys, slots, file, proxy, schema, dirty, workerOf, strayed>>

\* compose up -d: a container of an older image is recreated.
UpSlot ==
    /\ script.step = "up"
    /\ slots' = [slots EXCEPT ![script.new] = [up |-> TRUE, build |-> deploys]]
    /\ Then("wait")
    /\ UNCHANGED <<deploys, file, proxy, schema, dirty, workerOf, strayed>>

\* wait_healthy.
WaitHealthy ==
    /\ script.step = "wait"
    /\ \/ Ready(slots[script.new].build) /\ Then(IF script.cold THEN "recreate" ELSE "write")
       \/ Exit
    /\ UNCHANGED <<deploys, slots, file, proxy, schema, dirty, workerOf, strayed>>

\* write_nginx_upstream.
WriteUpstream ==
    /\ script.step = "write"
    /\ file' = script.new
    /\ Then(IF script.cold THEN "up" ELSE "recreate")
    /\ UNCHANGED <<deploys, slots, proxy, schema, dirty, workerOf, strayed>>

\* recreate_proxy removes the old proxy ...
RemoveProxy ==
    /\ script.step = "recreate"
    /\ proxy' = [proxy EXCEPT !.up = FALSE]
    /\ Then("start")
    /\ UNCHANGED <<deploys, slots, file, schema, dirty, workerOf, strayed>>

\* ... and starts one with the file of the host.
StartProxy ==
    /\ script.step = "start"
    /\ proxy' = [up |-> TRUE, upstream |-> file]
    /\ Then("check")
    /\ UNCHANGED <<deploys, slots, file, schema, dirty, workerOf, strayed>>

\* wait_proxy_healthy; the deployment aborts before it stops the old slot.
WaitProxyHealthy ==
    /\ script.step = "check"
    /\ \/ /\ proxy.up /\ slots[proxy.upstream].up /\ Ready(slots[proxy.upstream].build)
          /\ Then(IF script.cold THEN "worker" ELSE "stop")
       \/ Exit
    /\ UNCHANGED <<deploys, slots, file, proxy, schema, dirty, workerOf, strayed>>

\* An error of compose stop is ignored.
StopOld ==
    /\ script.step = "stop"
    /\ slots' \in {slots, [slots EXCEPT ![Other(script.new)].up = FALSE]}
    /\ Then("worker")
    /\ UNCHANGED <<deploys, file, proxy, schema, dirty, workerOf, strayed>>

\* ensure_worker.
EnsureWorker ==
    /\ script.step = "worker"
    /\ workerOf' \in {workerOf, deploys}
    /\ Exit
    /\ UNCHANGED <<deploys, slots, file, proxy, schema, dirty, strayed>>

\* A command fails under set -e, or the job is stopped.
Interrupt ==
    /\ script # Idle
    /\ Exit
    /\ UNCHANGED <<deploys, slots, file, proxy, schema, dirty, workerOf, strayed>>

\* The daemon, or an operator, starts the proxy again: with the file of the host.
RestartProxy ==
    /\ proxy.upstream # "none"
    /\ proxy' = [up |-> TRUE, upstream |-> file]
    /\ strayed' = (strayed \/ (proxy.up /\ file # proxy.upstream))
    /\ UNCHANGED <<deploys, slots, file, schema, dirty, workerOf, script>>

DeployInit ==
    /\ deploys = 0
    /\ slots = [s \in Slot |-> [up |-> FALSE, build |-> 0]]
    /\ file = "none"
    /\ proxy = [up |-> FALSE, upstream |-> "none"]
    /\ schema = 0 /\ dirty = FALSE
    /\ workerOf = 0
    /\ script = Idle
    /\ strayed = FALSE

DeployStep ==
    \/ Deploy \/ Migrate \/ ForceVersion \/ InferSlot \/ UpSlot \/ WaitHealthy \/ WriteUpstream
    \/ RemoveProxy \/ StartProxy \/ WaitProxyHealthy \/ StopOld \/ EnsureWorker \/ Interrupt
    \/ RestartProxy

-----------------------------------------------------------------------------

\* deploy.sh:2, "new slot healthy before traffic switches; old slot stops
\* after": wherever earlier runs were stopped, a run neither stops nor replaces
\* the slot that the proxy sends traffic to, and the proxy is only switched to
\* a slot that runs on the schema it needs.  Excepted is a proxy that restarts
\* by itself after a run was stopped between the file and the proxy.
TrafficKept ==
    [][ ~strayed' /\ proxy'.up =>
            LET u == proxy'.upstream IN
            /\ slots'[u].up /\ schema' >= slots'[u].build
            /\ proxy.up /\ proxy.upstream = u => slots'[u] = slots[u] ]_deployVars

=============================================================================
