----------------------------- MODULE EdgeProofs -----------------------------
(***************************************************************************)
(* Proofs about deployments and the rate limiter, for any number of runs  *)
(* and of requests, any window and any limits.                            *)
(***************************************************************************)
EXTENDS Edge, FiniteSetTheorems, TLAPS

-----------------------------------------------------------------------------
(* Deployments.                                                            *)

DeployType ==
    /\ deploys \in Nat
    /\ slots \in [Slot -> [up : BOOLEAN, build : Nat]]
    /\ file \in Slot \cup {"none"}
    /\ proxy \in [up : BOOLEAN, upstream : Slot \cup {"none"}]
    /\ schema \in Nat /\ schema <= deploys
    /\ script \in [step : ScriptSteps, new : Slot \cup {"none"}, cold : BOOLEAN]

\* A slot that runs on the schema its build needs.
Serves(s) == slots[s].up /\ schema >= slots[s].build

\* What the next command of the script can rely on.
ScriptInv ==
    /\ script.step = "infer" \/ script.step = "migrate" \/ script.step = "idle"
       \/ script.new \in Slot
    /\ script.step \in {"write", "recreate", "start"} /\ ~script.cold => Serves(script.new)
    /\ script.step \in {"recreate", "start"} => Serves(script.new) /\ file = script.new
    /\ script.step = "wait" => slots[script.new].up
    /\ script.step \in {"up", "wait"} /\ script.cold => file = script.new
    /\ script.step \in {"write", "up", "wait", "recreate", "start"} /\ script.cold =>
           ~proxy.up /\ proxy.upstream = "none"

\* Where the requests go: to a slot that serves and that the script leaves alone.
ProxyInv ==
    /\ proxy.up => proxy.upstream \in Slot /\ Serves(proxy.upstream)
    /\ proxy.up /\ script.step \in {"up", "wait", "write", "recreate"} =>
           script.new # proxy.upstream
    /\ script.step \in {"check", "stop"} =>
           proxy.up /\ proxy.upstream = script.new /\ file = script.new
    /\ ~proxy.up /\ proxy.upstream # "none" =>
           /\ file \in Slot /\ Serves(file) /\ Running = Slot
           /\ script.step \in {"idle", "migrate", "infer", "start"}
    /\ Running = {} => proxy.upstream = "none"
    /\ proxy.upstream = "none" => ~proxy.up

DeployInv == DeployType /\ (~strayed => ScriptInv /\ ProxyInv)

LEMMA DeployInitially == DeployInit => DeployInv
<1> SUFFICES ASSUME DeployInit PROVE DeployInv
  OBVIOUS
<1> USE DEF DeployInit, Slot, Idle, ScriptSteps
<1>1. DeployType
  <2>1. script \in [step : ScriptSteps, new : Slot \cup {"none"}, cold : BOOLEAN]
    OBVIOUS
  <2>2. proxy \in [up : BOOLEAN, upstream : Slot \cup {"none"}]
    OBVIOUS
  <2>3. slots \in [Slot -> [up : BOOLEAN, build : Nat]]
    OBVIOUS
  <2>4. QED BY <2>1, <2>2, <2>3 DEF DeployType
<1>2. ScriptInv
  BY DEF ScriptInv
<1>3. ProxyInv
  BY DEF ProxyInv
<1>4. QED BY <1>1, <1>2, <1>3 DEF DeployInv

\* The two ways in which a command of the script ends.
Moves(step) ==
    /\ script' \in [step : ScriptSteps, new : Slot \cup {"none"}, cold : BOOLEAN]
    /\ script'.step = step /\ script'.new = script.new /\ script'.cold = script.cold
Ended ==
    /\ script' \in [step : ScriptSteps, new : Slot \cup {"none"}, cold : BOOLEAN]
    /\ script'.step = "idle" /\ script'.new = "none" /\ script'.cold = FALSE

LEMMA ThenMoves ==
    ASSUME DeployType, NEW step \in ScriptSteps, Then(step)
    PROVE  Moves(step)
BY DEF DeployType, Then, Moves

LEMMA ExitEnds == Exit => Ended
BY DEF Exit, Idle, Ended, ScriptSteps

\* What infer_active_slot_into leaves in the script's variables.
Inferred(step, new, cold) == script' = [step |-> step, new |-> new, cold |-> cold]

LEMMA InferredSlot ==
    ASSUME DeployType, InferSlot
    PROVE  \/ Ended
           \/ Inferred("write", "blue", TRUE) /\ Running = {}
           \/ \E s \in Slot :
                 /\ Inferred("up", s, FALSE)
                 /\ (Running # {} /\ s \notin Running) \/ (Running = Slot /\ Upstream = Other(s))
<1>1. Running \subseteq Slot
  BY DEF Running
<1>2. CASE Running = {}
  BY <1>2 DEF InferSlot, Inferred
<1>3. CASE Running # {} /\ Running # Slot
  <2> DEFINE s == CHOOSE t \in Slot : t \notin Running
  <2>1. s \in Slot /\ s \notin Running
    BY <1>1, <1>3
  <2>2. Inferred("up", s, FALSE)
    BY <1>3 DEF InferSlot, Inferred
  <2>3. QED BY <1>3, <2>1, <2>2
<1>4. CASE Running = Slot /\ Upstream \in Slot
  <2>1. Other(Upstream) \in Slot /\ Upstream = Other(Other(Upstream))
    BY <1>4 DEF Slot, Other
  <2>2. Inferred("up", Other(Upstream), FALSE)
    BY <1>4 DEF InferSlot, Inferred, Slot
  <2>3. QED BY <1>4, <2>1, <2>2
<1>5. CASE Running = Slot /\ Upstream \notin Slot
  <2>1. Exit
    BY <1>5 DEF InferSlot, Exit, Slot
  <2>2. QED BY <2>1, ExitEnds
<1>6. QED BY <1>2, <1>3, <1>4, <1>5

LEMMA DeployTypeStep ==
    ASSUME DeployType, DeployStep
    PROVE  DeployType'
<1> USE ThenMoves, ExitEnds DEF DeployType, Moves, Ended, ScriptSteps
<1>1. CASE Deploy
  BY <1>1 DEF Deploy
<1>2. CASE Migrate
  <2>1. script' \in [step : ScriptSteps, new : Slot \cup {"none"}, cold : BOOLEAN]
    BY <1>2 DEF Migrate
  <2>2. QED BY <1>2, <2>1 DEF Migrate
<1>3. CASE ForceVersion
  BY <1>3 DEF ForceVersion
<1>4. CASE InferSlot
  <2>1. script' \in [step : ScriptSteps, new : Slot \cup {"none"}, cold : BOOLEAN]
    <3>1. ASSUME NEW step \in ScriptSteps, NEW s \in Slot, NEW b \in BOOLEAN, Inferred(step, s, b)
          PROVE  script' \in [step : ScriptSteps, new : Slot \cup {"none"}, cold : BOOLEAN]
      BY <3>1 DEF Inferred
    <3>2. "blue" \in Slot
      BY DEF Slot
    <3>3. QED BY <1>4, <3>1, <3>2, InferredSlot
  <2>2. QED BY <1>4, <2>1 DEF InferSlot
<1>5. CASE UpSlot
  BY <1>5 DEF UpSlot
<1>6. CASE WaitHealthy
  BY <1>6 DEF WaitHealthy
<1>7. CASE WriteUpstream
  BY <1>7 DEF WriteUpstream
<1>8. CASE RemoveProxy
  BY <1>8 DEF RemoveProxy
<1>9. CASE StartProxy
  BY <1>9 DEF StartProxy
<1>10. CASE WaitProxyHealthy
  BY <1>10 DEF WaitProxyHealthy
<1>11. CASE StopOld
  <2>1. [slots EXCEPT ![Other(script.new)].up = FALSE] \in [Slot -> [up : BOOLEAN, build : Nat]]
    BY DEF DeployType
  <2>2. QED BY <1>11, <2>1 DEF StopOld
<1>12. CASE EnsureWorker
  BY <1>12 DEF EnsureWorker
<1>13. CASE Interrupt
  BY <1>13 DEF Interrupt
<1>14. CASE RestartProxy
  BY <1>14 DEF RestartProxy
<1>15. QED
  BY <1>1, <1>2, <1>3, <1>4, <1>5, <1>6, <1>7, <1>8, <1>9, <1>10, <1>11, <1>12, <1>13, <1>14
  DEF DeployStep

LEMMA DeployInvStep ==
    ASSUME DeployInv, DeployStep
    PROVE  DeployInv'
<1>0. DeployType /\ DeployType'
  BY DeployTypeStep DEF DeployInv
<1> SUFFICES ASSUME ~strayed, ~strayed' PROVE ScriptInv' /\ ProxyInv'
  BY <1>0 DEF DeployInv, DeployStep, Deploy, Migrate, ForceVersion, InferSlot, UpSlot,
     WaitHealthy, WriteUpstream, RemoveProxy, StartProxy, WaitProxyHealthy, StopOld,
     EnsureWorker, Interrupt, RestartProxy, DeployType
<1>a. ScriptInv /\ ProxyInv
  BY DEF DeployInv
<1> USE <1>0, <1>a, ThenMoves, ExitEnds
    DEF DeployType, ScriptInv, ProxyInv, Serves, Running, Slot, Other, Moves, Ended, ScriptSteps
<1>1. CASE Deploy
  BY <1>1 DEF Deploy
<1>2. CASE Migrate
  BY <1>2 DEF Migrate
<1>3. CASE ForceVersion
  BY <1>3 DEF ForceVersion
<1>4. CASE InferSlot
  <2>1. CASE Ended
    BY <1>4, <2>1 DEF InferSlot
  <2>2. CASE Inferred("write", "blue", TRUE) /\ Running = {}
    BY <1>4, <2>2 DEF InferSlot, Inferred
  <2>3. ASSUME NEW s \in Slot, Inferred("up", s, FALSE),
               (Running # {} /\ s \notin Running) \/ (Running = Slot /\ Upstream = Other(s))
        PROVE  ScriptInv' /\ ProxyInv'
    <3>1. UNCHANGED <<slots, file, proxy, schema>>
          /\ script'.step = "up" /\ script'.new = s /\ script'.cold = FALSE
      BY <1>4, <2>3 DEF InferSlot, Inferred
    <3>2. proxy.up => s # proxy.upstream
      BY <2>3 DEF Upstream
    <3>3. ~(~proxy.up /\ proxy.upstream # "none")
      BY <2>3 DEF Upstream
    <3>4. ScriptInv'
      BY <2>3, <3>1
    <3>5. ProxyInv'
      BY <2>3, <3>1, <3>2, <3>3
    <3>6. QED BY <3>4, <3>5
  <2>4. QED BY <1>4, <2>1, <2>2, <2>3, InferredSlot
<1>5. CASE UpSlot
  BY <1>5 DEF UpSlot
<1>6. CASE WaitHealthy
  <2>1. CASE Exit
    BY <1>6, <2>1 DEF WaitHealthy
  <2>2. CASE Serves(script.new) /\ Then(IF script.cold THEN "recreate" ELSE "write")
    BY <1>6, <2>2 DEF WaitHealthy
  <2>3. Ready(slots[script.new].build) => Serves(script.new)
    BY <1>6 DEF WaitHealthy, Ready
  <2>4. QED BY <1>6, <2>1, <2>2, <2>3 DEF WaitHealthy
<1>7. CASE WriteUpstream
  BY <1>7 DEF WriteUpstream
<1>8. CASE RemoveProxy
  BY <1>8 DEF RemoveProxy
<1>9. CASE StartProxy
  BY <1>9 DEF StartProxy
<1>10. CASE WaitProxyHealthy
  BY <1>10 DEF WaitProxyHealthy
<1>11. CASE StopOld
  BY <1>11 DEF StopOld
<1>12. CASE EnsureWorker
  BY <1>12 DEF EnsureWorker
<1>13. CASE Interrupt
  BY <1>13 DEF Interrupt
<1>14. CASE RestartProxy
  BY <1>14 DEF RestartProxy
<1>15. QED
  BY <1>1, <1>2, <1>3, <1>4, <1>5, <1>6, <1>7, <1>8, <1>9, <1>10, <1>11, <1>12, <1>13, <1>14
  DEF DeployStep

\* The invariant in a state of the whole system.
LEMMA DeployInvCorrect == Spec => []DeployInv
<1>1. Init => DeployInv
  BY DeployInitially DEF Init
<1>2. DeployInv /\ [Next]_vars => DeployInv'
  <2> SUFFICES ASSUME DeployInv, [Next]_vars PROVE DeployInv'
    OBVIOUS
  <2>1. CASE UNCHANGED deployVars
    BY <2>1 DEF deployVars, DeployInv, DeployType, ScriptInv, ProxyInv, Serves, Running
  <2>2. CASE DeployStep
    BY <2>2, DeployInvStep
  <2>3. QED BY <2>1, <2>2 DEF Next, vars
<1>3. QED BY <1>1, <1>2, PTL DEF Spec

\* deploy.sh:2, for any number of runs stopped anywhere: the slot that serves
\* is neither stopped nor replaced, and the proxy is only switched to a slot
\* that runs on the schema it needs (recreate_proxy, StopOld, infer_active_slot_into).
THEOREM TrafficKeptCorrect == Spec => TrafficKept
<1> DEFINE Kept == ~strayed' /\ proxy'.up =>
            LET u == proxy'.upstream IN
            /\ slots'[u].up /\ schema' >= slots'[u].build
            /\ proxy.up /\ proxy.upstream = u => slots'[u] = slots[u]
<1>1. DeployInv /\ DeployInv' /\ [Next]_vars => [Kept]_deployVars
  <2> SUFFICES ASSUME DeployInv, DeployInv', DeployStep, ~strayed', proxy'.up
               PROVE  LET u == proxy'.upstream IN
                      /\ slots'[u].up /\ schema' >= slots'[u].build
                      /\ proxy.up /\ proxy.upstream = u => slots'[u] = slots[u]
    BY DEF Next, vars
  <2>1. Serves(proxy.upstream)'
    BY DEF DeployInv, ProxyInv
  <2>2. ~strayed
    BY DEF DeployStep, Deploy, Migrate, ForceVersion, InferSlot, UpSlot, WaitHealthy,
           WriteUpstream, RemoveProxy, StartProxy, WaitProxyHealthy, StopOld, EnsureWorker,
           Interrupt, RestartProxy
  <2>3. DeployType /\ ScriptInv /\ ProxyInv
    BY <2>2 DEF DeployInv
  <2>4. ASSUME proxy.up, proxy.upstream = proxy'.upstream
        PROVE  slots'[proxy.upstream] = slots[proxy.upstream]
    <3>1. CASE UpSlot
      BY <2>3, <2>4, <3>1 DEF UpSlot, DeployType, ProxyInv
    <3>2. CASE StopOld
      BY <2>3, <2>4, <3>2 DEF StopOld, DeployType, ProxyInv, Slot, Other
    <3>3. CASE slots' = slots
      BY <3>3
    <3>4. QED
      BY <3>1, <3>2, <3>3 DEF DeployStep, Deploy, Migrate, ForceVersion, InferSlot, WaitHealthy,
         WriteUpstream, RemoveProxy, StartProxy, WaitProxyHealthy, EnsureWorker, Interrupt,
         RestartProxy
  <2>5. QED BY <2>1, <2>4 DEF Serves
<1>2. QED BY <1>1, DeployInvCorrect, PTL DEF Spec, TrafficKept

-----------------------------------------------------------------------------
(* The rate limiter: how many logins were admitted at which ages.          *)

Count(f, A) == Cardinality(Marks(f, A))

LEMMA MarkOf ==
    ASSUME NEW f, NEW A, NEW x
    PROVE  x \in Marks(f, A) <=> \E a \in A : \E n \in 1..f[a] : x = <<a, n>>
<1>1. x \in Marks(f, A) <=> \E a \in A : x \in {a} \X (1..f[a])
  BY DEF Marks
<1>2. \A a : x \in {a} \X (1..f[a]) <=> \E n \in 1..f[a] : x = <<a, n>>
  OBVIOUS
<1>3. QED BY <1>1, <1>2

LEMMA MarksFinite ==
    ASSUME NEW f \in [Ages -> Nat], NEW A \in SUBSET Ages
    PROVE  IsFiniteSet(Marks(f, A)) /\ Count(f, A) \in Nat
<1> DEFINE Row(a) == {a} \X (1..f[a])
           rowsOf == [a \in A |-> Row(a)]
           all == {Row(a) : a \in A}
<1>1. IsFiniteSet(A)
  <2>1. 0 \in Int /\ Window - 1 \in Int
    BY RateAssumption
  <2>2. IsFiniteSet(Ages)
    BY <2>1, FS_Interval DEF Ages
  <2>3. QED BY <2>2, FS_Subset
<1>2. ASSUME NEW a \in A PROVE IsFiniteSet(Row(a))
  <2>1. IsFiniteSet({a})
    BY FS_Singleton
  <2>2. IsFiniteSet(1..f[a])
    <3>1. 1 \in Int /\ f[a] \in Int
      OBVIOUS
    <3>2. QED BY <3>1, FS_Interval
  <2>3. QED BY <2>1, <2>2, FS_Product
<1>3. rowsOf \in Surjection(A, all)
  BY DEF Surjection
<1>4. IsFiniteSet(all)
  BY <1>1, <1>3, FS_Surjection
<1>5. \A T \in all : IsFiniteSet(T)
  BY <1>2
<1>6. IsFiniteSet(UNION all)
  <2> HIDE DEF all
  <2>1. QED BY <1>4, <1>5, FS_UNION
<1>7. Marks(f, A) = UNION all
  BY DEF Marks
<1>8. QED BY <1>6, <1>7, FS_CardinalityType DEF Count

\* Fewer ages have no more logins, and disjoint ages have those of both.
LEMMA CountSubset ==
    ASSUME NEW f \in [Ages -> Nat], NEW B \in SUBSET Ages, NEW A \in SUBSET B
    PROVE  Count(f, A) <= Count(f, B)
<1>1. Marks(f, A) \in SUBSET Marks(f, B)
  BY MarkOf
<1>2. QED BY <1>1, MarksFinite, FS_Subset DEF Count

LEMMA CountSplit ==
    ASSUME NEW f \in [Ages -> Nat], NEW A \in SUBSET Ages, NEW B \in SUBSET Ages, A \cap B = {}
    PROVE  Count(f, A \cup B) = Count(f, A) + Count(f, B)
<1> DEFINE P == Marks(f, A)
           Q == Marks(f, B)
<1>1. IsFiniteSet(P) /\ IsFiniteSet(Q) /\ Cardinality(P) \in Nat /\ Cardinality(Q) \in Nat
  BY MarksFinite DEF Count
<1>2. Marks(f, A \cup B) = P \cup Q
  BY MarkOf
<1>3. P \cap Q = {}
  <2> SUFFICES ASSUME NEW x \in P, x \in Q PROVE FALSE
    OBVIOUS
  <2>1. PICK a \in A : \E n \in 1..f[a] : x = <<a, n>>
    BY MarkOf
  <2>2. PICK b \in B : \E n \in 1..f[b] : x = <<b, n>>
    BY MarkOf
  <2>3. a = b
    BY <2>1, <2>2
  <2>4. QED BY <2>3
<1> HIDE DEF P, Q
<1>4. Cardinality(P \cup Q) = Cardinality(P) + Cardinality(Q) - Cardinality(P \cap Q)
  BY <1>1, FS_Union
<1>5. Cardinality(P \cup Q) = Cardinality(P) + Cardinality(Q)
  <2>1. Cardinality(P \cap Q) = 0
    BY <1>3, FS_EmptySet
  <2>2. QED BY <1>1, <1>4, <2>1
<1>6. QED BY <1>2, <1>5 DEF P, Q, Count

\* A login admitted now has the age 0.
Admitted(f) == [f EXCEPT ![0] = @ + 1]

LEMMA CountAdmitted ==
    ASSUME NEW f \in [Ages -> Nat], NEW A \in SUBSET Ages
    PROVE  /\ Admitted(f) \in [Ages -> Nat]
           /\ Count(Admitted(f), A) = Count(f, A) + (IF 0 \in A THEN 1 ELSE 0)
<1> DEFINE g == Admitted(f)
           new == <<0, f[0] + 1>>
<1>1. 0 \in Ages
  BY RateAssumption DEF Ages
<1>2. g \in [Ages -> Nat] /\ g[0] = f[0] + 1 /\ \A a \in Ages \ {0} : g[a] = f[a]
  BY <1>1 DEF Admitted
<1> HIDE DEF g
<1>3. CASE 0 \notin A
  <2>1. \A a \in A : g[a] = f[a]
    BY <1>2, <1>3
  <2>2. Marks(g, A) = Marks(f, A)
    <3>1. \A x : x \in Marks(g, A) <=> \E a \in A : \E n \in 1..g[a] : x = <<a, n>>
      BY MarkOf
    <3>2. \A x : x \in Marks(f, A) <=> \E a \in A : \E n \in 1..f[a] : x = <<a, n>>
      BY MarkOf
    <3>3. \A x : x \in Marks(g, A) <=> x \in Marks(f, A)
      BY <2>1, <3>1, <3>2
    <3>4. QED BY <3>3
  <2>3. QED BY <1>2, <1>3, <2>2, MarksFinite DEF Count, g
<1>4. CASE 0 \in A
  <2>1. new \notin Marks(f, A)
    <3> SUFFICES ASSUME new \in Marks(f, A) PROVE FALSE
      OBVIOUS
    <3>1. PICK a \in A : \E n \in 1..f[a] : new = <<a, n>>
      BY MarkOf
    <3>2. a = 0 /\ f[0] + 1 \in 1..f[0] /\ f[0] \in Nat
      BY <1>1, <3>1
    <3>3. QED BY <3>2
  <2>2. Marks(g, A) = Marks(f, A) \cup {new}
    <3>1. ASSUME NEW a \in A, NEW n PROVE n \in 1..g[a] <=> n \in 1..f[a] \/ <<a, n>> = new
      <4>1. CASE a = 0
        BY <1>1, <1>2, <4>1
      <4>2. CASE a # 0
        BY <1>2, <4>2
      <4>3. QED BY <4>1, <4>2
    <3>2. f[0] + 1 \in 1..g[0]
      BY <1>1, <1>2
    <3>3. \A x : x \in Marks(g, A) => x \in Marks(f, A) \cup {new}
      BY <3>1, MarkOf
    <3>4. \A x : x \in Marks(f, A) => x \in Marks(g, A)
      BY <3>1, MarkOf
    <3>5. new \in Marks(g, A)
      BY <1>4, <3>2, MarkOf
    <3>6. QED BY <3>3, <3>4, <3>5
  <2>3. Cardinality(Marks(g, A)) = Cardinality(Marks(f, A)) + 1
    BY <2>1, <2>2, MarksFinite, FS_AddElement
  <2>4. QED BY <1>2, <1>4, <2>3 DEF Count, g
<1>5. QED BY <1>3, <1>4

\* When time passes, the logins of the ages B had an age of A before.
LEMMA CountOlder ==
    ASSUME NEW f \in [Ages -> Nat], NEW A \in SUBSET Ages, NEW B \in SUBSET Ages,
           \A b \in B : b = 0 \/ b - 1 \in A
    PROVE  Older(f) \in [Ages -> Nat] /\ Count(Older(f), B) <= Count(f, A)
<1> DEFINE g == Older(f)
           P == Marks(g, B)
           Q == Marks(f, A)
           back == [x \in P |-> <<x[1] - 1, x[2]>>]
<1>1. /\ g \in [Ages -> Nat] /\ \A a \in Ages : g[a] = IF a = 0 THEN 0 ELSE f[a - 1]
      /\ \A a \in Ages : a \in Nat
  BY RateAssumption DEF Older, Ages
<1> HIDE DEF g
<1>2. ASSUME NEW x \in P
      PROVE  \E b \in B, n \in Nat : b \in Nat /\ x = <<b, n>> /\ back[x] = <<b - 1, n>> /\ back[x] \in Q
  <2>1. PICK b \in B : \E n \in 1..g[b] : x = <<b, n>>
    BY MarkOf
  <2>2. PICK n \in 1..g[b] : x = <<b, n>>
    BY <2>1
  <2>3. b # 0 /\ g[b] = f[b - 1] /\ b - 1 \in A /\ b \in Nat /\ n \in Nat
    BY <1>1, <2>2
  <2>4. <<b - 1, n>> \in Q
    BY <2>2, <2>3, MarkOf
  <2>5. back[x] = <<b - 1, n>>
    BY <2>2
  <2>6. QED BY <2>2, <2>3, <2>4, <2>5
<1>3. back \in Injection(P, Q)
  <2>1. back \in [P -> Q]
    BY <1>2
  <2>2. ASSUME NEW x \in P, NEW y \in P, back[x] = back[y] PROVE x = y
    <3>1. PICK b \in B, n \in Nat : b \in Nat /\ x = <<b, n>> /\ back[x] = <<b - 1, n>>
      BY <1>2
    <3>2. PICK c \in B, m \in Nat : c \in Nat /\ y = <<c, m>> /\ back[y] = <<c - 1, m>>
      BY <1>2
    <3>3. b - 1 = c - 1 /\ n = m
      BY <2>2, <3>1, <3>2
    <3>4. QED BY <3>1, <3>2, <3>3
  <2>3. QED BY <2>1, <2>2 DEF Injection, IsInjective
<1>4. IsFiniteSet(Q)
  BY MarksFinite
<1>5. Cardinality(P) <= Cardinality(Q)
  <2> HIDE DEF P, Q, back
  <2>1. QED BY <1>3, <1>4, FS_Injection
<1>6. QED BY <1>1, <1>5 DEF Count, g

LEMMA CountNone ==
    ASSUME NEW f, NEW A, \A a \in A : f[a] = 0
    PROVE  Count(f, A) = 0
<1>1. Marks(f, A) = {}
  BY MarkOf
<1>2. QED BY <1>1, FS_EmptySet DEF Count

-----------------------------------------------------------------------------
(* The rate limiter: its invariant.                                        *)

RateType ==
    /\ elapsed \in Ages
    /\ counters \in [{"ip", "user"} -> [current : Nat, previous : Nat]]
    /\ memory \in [Slots -> [count : 0..Limit["auth"], left : -1..Window]]
    /\ admitted \in [Ages -> Nat] /\ fellBack \in [Slots -> [Ages -> Nat]]

\* No bucket is above the largest limit of the tiers that count in it.
CounterInv == \A t \in Tiers : \E u \in Tiers :
                  Keys[u] = Keys[t] /\ counters[Keys[t]].current <= Limit[u]

\* The logins that Redis admitted in the current bucket and in the previous
\* one are in the counters of their key, and no bucket has more than the limit.
ThisBucket == {a \in Ages : a <= elapsed}
LastBucket == {a \in Ages : a > elapsed}

RedisInv ==
    LET this == Count(admitted, ThisBucket)
        last == Count(admitted, LastBucket)
    IN  /\ this <= counters[Keys["auth"]].current /\ this <= Limit["auth"]
        /\ last <= counters[Keys["auth"]].previous /\ last <= Limit["auth"]
        /\ (this + last - Limit["auth"]) * Window < Limit["auth"] * elapsed + Window

\* The logins that the memory of s admitted since its bucket began, and before.
Young(s) == {a \in Ages : a <= Window - memory[s].left}
Old(s) == {a \in Ages : a > Window - memory[s].left}

MemoryInv(s) ==
    /\ memory[s].left >= 0 => /\ Count(fellBack[s], Young(s)) <= memory[s].count
                              /\ Count(fellBack[s], Old(s)) <= Limit["auth"]
    /\ memory[s].left < 0 => Count(fellBack[s], Ages) <= Limit["auth"] /\ fellBack[s][0] = 0

RateInv == RateType /\ CounterInv /\ RedisInv /\ \A s \in Slots : MemoryInv(s)

\* The two factors of a product grow.
LEMMA Product ==
    ASSUME NEW a \in Int, NEW b \in Int, NEW n \in Nat, a <= b
    PROVE  a * n <= b * n
OBVIOUS

LEMMA RateConstants ==
    /\ Window \in Nat \ {0} /\ 0 \in Ages /\ Ages \subseteq Nat
    /\ \A a \in Ages : a < Window
    /\ \A t \in Tiers : Limit[t] \in Nat \ {0} /\ Keys[t] \in {"ip", "user"}
    /\ "auth" \in Tiers /\ Limit["auth"] \in Nat \ {0} /\ Keys["auth"] \in {"ip", "user"}
<1>1. "auth" \in Tiers
  BY DEF Tiers
<1>2. QED BY <1>1, RateAssumption DEF Ages

LEMMA NeverCounts ==
    ASSUME NEW A \in SUBSET Ages
    PROVE  Never \in [Ages -> Nat] /\ Count(Never, A) = 0
<1>1. Never \in [Ages -> Nat] /\ \A a \in A : Never[a] = 0
  BY DEF Never
<1>2. QED BY <1>1, CountNone

LEMMA RateInitially == RateInit => RateInv
<1> SUFFICES ASSUME RateInit PROVE RateInv
  OBVIOUS
<1> USE RateConstants
<1>1. RateType
  <2>1. Expired \in [count : 0..Limit["auth"], left : -1..Window]
    BY DEF Expired
  <2>2. Never \in [Ages -> Nat]
    BY DEF Never
  <2>3. QED BY <2>1, <2>2 DEF RateInit, RateType
<1>2. CounterInv
  BY DEF RateInit, CounterInv
<1>3. RedisInv
  <2>1. Count(admitted, ThisBucket) = 0 /\ Count(admitted, LastBucket) = 0
    BY NeverCounts DEF RateInit, ThisBucket, LastBucket
  <2>2. counters[Keys["auth"]].current = 0 /\ counters[Keys["auth"]].previous = 0 /\ elapsed = 0
    BY DEF RateInit
  <2>3. Limit["auth"] * 0 = 0 /\ (0 + 0 - Limit["auth"]) * Window <= 0 * Window /\ 0 * Window = 0
    BY Product
  <2>4. QED BY <2>1, <2>2, <2>3 DEF RedisInv
<1>4. ASSUME NEW s \in Slots PROVE MemoryInv(s)
  <2>1. memory[s] = Expired /\ fellBack[s] = Never
    BY DEF RateInit
  <2>2. memory[s].left = -1
    BY <2>1 DEF Expired
  <2>3. Count(fellBack[s], Ages) = 0 /\ fellBack[s][0] = 0
    BY <2>1, NeverCounts DEF Never
  <2>4. QED BY <2>2, <2>3 DEF MemoryInv
<1>5. QED BY <1>1, <1>2, <1>3, <1>4 DEF RateInv

\* A tier that admits has room in the bucket of its key.
LEMMA AdmitsBelow ==
    ASSUME RateType, NEW t \in Tiers, Admits(t)
    PROVE  counters[Keys[t]].current < Limit[t]
<1> DEFINE current == counters[Keys[t]].current
           previous == counters[Keys[t]].previous
<1>1. current \in Nat /\ previous \in Nat /\ Limit[t] \in Nat /\ Window \in Nat
      /\ elapsed \in Nat /\ elapsed < Window
  BY RateConstants DEF RateType
<1>2. previous * (Window - elapsed) + current * Window < Limit[t] * Window
  BY DEF Admits, Weighted
<1> HIDE DEF current, previous
<1>3. previous * (Window - elapsed) >= 0
  BY <1>1
<1>4. current * Window < Limit[t] * Window
  <2>1. current * Window \in Int /\ Limit[t] * Window \in Int /\ previous * (Window - elapsed) \in Int
    BY <1>1
  <2>2. QED BY <1>2, <1>3, <2>1
<1>5. ~(Limit[t] <= current)
  BY <1>1, <1>4, Product
<1>6. QED BY <1>1, <1>5 DEF current

\* What the script leaves in the counters.
Counted(key) == counters' = [counters EXCEPT ![key].current = @ + 1]

LEMMA CountedKeeps ==
    ASSUME RateType, CounterInv, NEW t \in Tiers, Counted(Keys[t]), Admits(t)
    PROVE  /\ counters' \in [{"ip", "user"} -> [current : Nat, previous : Nat]] /\ CounterInv'
           /\ \A k \in {"ip", "user"} :
                 /\ counters'[k].previous = counters[k].previous
                 /\ counters'[k].current >= counters[k].current
           /\ counters'[Keys[t]].current = counters[Keys[t]].current + 1
<1> DEFINE k == Keys[t]
           bucket == [counters[k] EXCEPT !.current = @ + 1]
<1>1. k \in {"ip", "user"} /\ counters \in [{"ip", "user"} -> [current : Nat, previous : Nat]]
  BY RateConstants DEF RateType
<1>2. /\ bucket \in [current : Nat, previous : Nat]
      /\ bucket.current = counters[k].current + 1 /\ bucket.previous = counters[k].previous
  BY <1>1
<1>3. counters' = [counters EXCEPT ![k] = bucket]
  BY <1>1 DEF Counted
<1>4. bucket.current <= Limit[t]
  <2>1. counters[k].current < Limit[t] /\ Limit[t] \in Nat /\ counters[k].current \in Nat
    BY <1>1, AdmitsBelow, RateConstants
  <2> HIDE DEF bucket
  <2>2. QED BY <1>2, <2>1
<1> HIDE DEF bucket
<1>5. ASSUME NEW v \in Tiers
      PROVE  \E u \in Tiers : Keys[u] = Keys[v] /\ counters'[Keys[v]].current <= Limit[u]
  <2>1. CASE Keys[v] = k
    BY <1>1, <1>3, <1>4, <2>1
  <2>2. CASE Keys[v] # k
    <3>1. counters'[Keys[v]] = counters[Keys[v]]
      BY <1>1, <1>3, <2>2, RateConstants
    <3>2. QED BY <3>1 DEF CounterInv
  <2>3. QED BY <2>1, <2>2
<1>6. CounterInv'
  BY <1>5 DEF CounterInv
<1>7. QED BY <1>1, <1>2, <1>3, <1>6

\* The script ran, or did not.
LEMMA ScriptKeeps ==
    ASSUME RateInv, NEW t \in Tiers, RedisAllows(t) \/ RedisDenies(t) \/ RedisFails(t),
           UNCHANGED <<elapsed, admitted>>
    PROVE  /\ counters' \in [{"ip", "user"} -> [current : Nat, previous : Nat]]
           /\ CounterInv' /\ RedisInv'
<1>1. CASE counters' = counters
  BY <1>1 DEF RateInv, RateType, CounterInv, RedisInv, ThisBucket, LastBucket
<1>2. CASE Admits(t) /\ Counted(Keys[t])
  <2>1. /\ counters' \in [{"ip", "user"} -> [current : Nat, previous : Nat]] /\ CounterInv'
        /\ \A k \in {"ip", "user"} : /\ counters'[k].previous = counters[k].previous
                                     /\ counters'[k].current >= counters[k].current
    BY <1>2, CountedKeeps DEF RateInv
  <2> DEFINE k == Keys["auth"]
             this == Count(admitted, ThisBucket)
             last == Count(admitted, LastBucket)
  <2>2. this \in Nat /\ last \in Nat
    BY MarksFinite DEF RateInv, RateType, ThisBucket, LastBucket
  <2>3. k \in {"ip", "user"} /\ counters[k].current \in Nat /\ counters'[k].current \in Nat
    BY <2>1, RateConstants DEF RateInv, RateType
  <2>4. /\ this <= counters[k].current /\ this <= Limit["auth"]
        /\ last <= counters[k].previous /\ last <= Limit["auth"]
        /\ (this + last - Limit["auth"]) * Window < Limit["auth"] * elapsed + Window
    BY DEF RateInv, RedisInv
  <2>5. ThisBucket' = ThisBucket /\ LastBucket' = LastBucket
    BY DEF ThisBucket, LastBucket
  <2>6. this' = this /\ last' = last
    BY <2>5
  <2> HIDE DEF this, last
  <2>7. this' <= counters'[k].current
    BY <2>1, <2>2, <2>3, <2>4, <2>6
  <2>8. last' <= counters'[k].previous
    BY <2>1, <2>3, <2>4, <2>6
  <2>9. (this' + last' - Limit["auth"]) * Window < Limit["auth"] * elapsed' + Window
    BY <2>4, <2>6
  <2>10. RedisInv'
    BY <2>4, <2>6, <2>7, <2>8, <2>9 DEF RedisInv, this, last
  <2>11. QED BY <2>1, <2>10
<1>3. QED BY <1>1, <1>2 DEF RedisAllows, RedisDenies, RedisFails, Counted

LEMMA MemoryKept ==
    ASSUME NEW s \in Slots, MemoryInv(s), memory'[s] = memory[s], fellBack'[s] = fellBack[s]
    PROVE  MemoryInv(s)'
BY DEF MemoryInv, Young, Old

\* A login that Redis admits: the weight of the previous bucket leaves room.
LEMMA LoginAdmitted ==
    ASSUME RateInv, Admits("auth"), Counted(Keys["auth"]), admitted' = Admitted(admitted),
           elapsed' = elapsed
    PROVE  admitted' \in [Ages -> Nat] /\ RedisInv'
<1> DEFINE key == Keys["auth"]
           this == Count(admitted, ThisBucket)
           last == Count(admitted, LastBucket)
           current == counters[key].current
           previous == counters[key].previous
           limit == Limit["auth"]
<1>1. ThisBucket' = ThisBucket /\ LastBucket' = LastBucket
  BY DEF ThisBucket, LastBucket
<1>2. admitted \in [Ages -> Nat] /\ ThisBucket \in SUBSET Ages /\ LastBucket \in SUBSET Ages
      /\ elapsed \in Nat /\ elapsed < Window /\ 0 \in ThisBucket /\ 0 \notin LastBucket
  BY RateConstants DEF RateInv, RateType, ThisBucket, LastBucket
<1>3. this \in Nat /\ last \in Nat
  BY <1>2, MarksFinite
<1>4. /\ admitted' \in [Ages -> Nat] /\ Count(admitted', ThisBucket') = this + 1
      /\ Count(admitted', LastBucket') = last
  <2>1. /\ Count(Admitted(admitted), ThisBucket) = this + 1
        /\ Count(Admitted(admitted), LastBucket) = last + 0
        /\ Admitted(admitted) \in [Ages -> Nat]
    BY <1>2, CountAdmitted
  <2>2. QED BY <1>1, <1>3, <2>1
<1>5. /\ key \in {"ip", "user"} /\ current \in Nat /\ previous \in Nat
      /\ limit \in Nat \ {0} /\ Window \in Nat \ {0}
  BY RateConstants DEF RateInv, RateType
<1>6. this <= current /\ last <= previous /\ last <= limit
  BY DEF RateInv, RedisInv
<1>7. current < limit /\ counters'[key].current = current + 1 /\ counters'[key].previous = previous
  BY <1>5, AdmitsBelow, CountedKeeps, RateConstants DEF RateInv
<1>8. previous * (Window - elapsed) + current * Window < limit * Window
  BY DEF Admits, Weighted
<1> HIDE DEF this, last, current, previous, limit, key
<1>9. (this + 1 + last - limit) * Window < limit * elapsed + Window
  <2>1. last * (Window - elapsed) <= previous * (Window - elapsed)
    <3>1. Window - elapsed \in Nat
      BY <1>2, <1>5
    <3>2. QED BY <1>3, <1>5, <1>6, <3>1, Product
  <2>2. this * Window <= current * Window
    BY <1>3, <1>5, <1>6, Product
  <2>3. last * elapsed <= limit * elapsed
    BY <1>2, <1>3, <1>5, <1>6, Product
  <2>4. /\ last * (Window - elapsed) = last * Window - last * elapsed
        /\ (this + 1 + last - limit) * Window
               = this * Window + Window + last * Window - limit * Window
    BY <1>2, <1>3, <1>5
  <2>5. /\ this * Window \in Int /\ last * Window \in Int /\ limit * Window \in Int
        /\ last * elapsed \in Int /\ limit * elapsed \in Int /\ current * Window \in Int
        /\ last * (Window - elapsed) \in Int /\ previous * (Window - elapsed) \in Int
        /\ Window \in Int
    BY <1>2, <1>3, <1>5
  <2>6. QED BY <1>8, <2>1, <2>2, <2>3, <2>4, <2>5
<1>10. this + 1 <= counters'[key].current /\ this + 1 <= limit
       /\ last <= counters'[key].previous /\ last <= limit
  BY <1>3, <1>5, <1>6, <1>7
<1>11. QED BY <1>4, <1>9, <1>10 DEF RedisInv, this, last, limit, key

LEMMA AuthCheckKeeps ==
    ASSUME RateInv, NEW s \in Slots, AuthCheck(s)
    PROVE  RateInv'
<1>1. UNCHANGED <<elapsed, memory, fellBack>>
  BY DEF AuthCheck
<1>2. \A q \in Slots : MemoryInv(q)'
  BY <1>1, MemoryKept DEF RateInv
<1>3. CASE RedisAllows("auth") /\ admitted' = Admitted(admitted)
  <2>1. Admits("auth") /\ Counted(Keys["auth"])
    BY <1>3 DEF RedisAllows, Counted
  <2>2. admitted' \in [Ages -> Nat] /\ RedisInv'
    BY <1>1, <1>3, <2>1, LoginAdmitted
  <2>3. counters' \in [{"ip", "user"} -> [current : Nat, previous : Nat]] /\ CounterInv'
    BY <2>1, CountedKeeps, RateConstants DEF RateInv
  <2>4. QED BY <1>1, <1>2, <2>2, <2>3 DEF RateInv, RateType
<1>4. CASE RedisDenies("auth") /\ admitted' = admitted
  <2>1. /\ counters' \in [{"ip", "user"} -> [current : Nat, previous : Nat]]
        /\ CounterInv' /\ RedisInv'
    BY <1>1, <1>4, ScriptKeeps, RateConstants
  <2>2. QED BY <1>1, <1>2, <1>4, <2>1 DEF RateInv, RateType
<1>5. QED BY <1>3, <1>4 DEF AuthCheck, Admitted

\* The other tiers leave the logins alone.
LEMMA OtherCheckKeeps ==
    ASSUME RateInv, NEW s \in Slots, ReadCheck(s) \/ WriteCheck(s)
    PROVE  RateInv'
<1>1. UNCHANGED <<elapsed, memory, admitted, fellBack>>
  BY DEF ReadCheck, WriteCheck
<1>2. \A q \in Slots : MemoryInv(q)'
  BY <1>1, MemoryKept DEF RateInv
<1>3. /\ counters' \in [{"ip", "user"} -> [current : Nat, previous : Nat]]
      /\ CounterInv' /\ RedisInv'
  BY <1>1, ScriptKeeps DEF ReadCheck, WriteCheck, Tiers
<1>4. QED BY <1>1, <1>2, <1>3 DEF RateInv, RateType

\* A login that the memory admits: a bucket that begins now has the earlier
\* ones of the process behind it, at most those of one bucket.
LEMMA AuthFallbackKeeps ==
    ASSUME RateInv, NEW s \in Slots, AuthFallback(s)
    PROVE  RateInv'
<1> DEFINE limit == Limit["auth"]
           f == fellBack[s]
           b == Bucket(s)
           Space == [count : 0..limit, left : -1..Window]
           young == {a \in Ages : a <= Window - b.left}
           old == {a \in Ages : a > Window - b.left}
<1>1. UNCHANGED <<elapsed, admitted>>
  BY DEF AuthFallback
<1>2. /\ counters' \in [{"ip", "user"} -> [current : Nat, previous : Nat]]
      /\ CounterInv' /\ RedisInv'
  BY <1>1, ScriptKeeps, RateConstants DEF AuthFallback
<1>3. /\ memory \in [Slots -> Space] /\ fellBack \in [Slots -> [Ages -> Nat]]
      /\ f \in [Ages -> Nat] /\ limit \in Nat \ {0} /\ Window \in Nat \ {0}
      /\ 0 \in Ages /\ Ages \subseteq Nat
  BY RateConstants DEF RateInv, RateType
<1>4. /\ b \in Space /\ b.left \in 0..Window /\ b.count \in 0..limit
      /\ Count(f, young) <= b.count /\ Count(f, old) <= limit
  <2>1. CASE memory[s].left < 0
    <3>1. b = [count |-> 0, left |-> Window]
      BY <2>1 DEF Bucket
    <3>2. young = {0} /\ old \in SUBSET Ages
      <4>1. b.left = Window /\ Window - Window = 0
        BY <1>3, <3>1
      <4>2. young = {a \in Ages : a <= 0}
        BY <4>1
      <4>3. \A a \in Ages : a <= 0 <=> a = 0
        BY <1>3
      <4>4. QED BY <1>3, <4>2, <4>3
    <3>3. f[0] = 0 /\ Count(f, Ages) <= limit
      BY <2>1 DEF RateInv, MemoryInv
    <3>4. Count(f, {0}) = 0
      BY <3>3, CountNone
    <3>5. Count(f, old) <= Count(f, Ages) /\ Count(f, old) \in Nat /\ Count(f, Ages) \in Nat
      BY <1>3, <3>2, CountSubset, MarksFinite
    <3> HIDE DEF young, old
    <3>6. b \in Space /\ b.left = Window /\ b.count = 0
      <4>1. 0 \in 0..limit /\ Window \in -1..Window
        BY <1>3
      <4> HIDE DEF b, limit
      <4>2. QED BY <3>1, <4>1
    <3>7. QED BY <1>3, <3>2, <3>3, <3>4, <3>5, <3>6
  <2>2. CASE ~(memory[s].left < 0)
    <3>1. b = memory[s]
      BY <2>2 DEF Bucket
    <3>2. memory[s] \in Space /\ memory[s].left \in 0..Window /\ memory[s].count \in 0..limit
      BY <1>3, <2>2
    <3>3. young = Young(s) /\ old = Old(s)
      BY <3>1 DEF Young, Old
    <3>4. memory[s].left >= 0
      BY <3>2
    <3>5. Count(f, Young(s)) <= memory[s].count /\ Count(f, Old(s)) <= limit
      BY <3>4 DEF RateInv, MemoryInv
    <3> HIDE DEF young, old, b
    <3>6. QED BY <3>1, <3>2, <3>3, <3>5
  <2>3. QED BY <2>1, <2>2
<1>5. \A q \in Slots \ {s} : memory'[q] = memory[q] /\ fellBack'[q] = fellBack[q]
  BY <1>3 DEF AuthFallback
<1>6. CASE b.count < limit
  <2> DEFINE m == [b EXCEPT !.count = @ + 1]
  <2>1. memory' = [memory EXCEPT ![s] = m] /\ fellBack' = [fellBack EXCEPT ![s] = Admitted(f)]
    BY <1>3, <1>6 DEF AuthFallback, Admitted
  <2>2. m \in Space /\ m.left = b.left /\ m.count = b.count + 1
    <3> HIDE DEF b
    <3>1. QED BY <1>3, <1>4, <1>6
  <2>3. 0 \in young /\ 0 \notin old /\ young \in SUBSET Ages /\ old \in SUBSET Ages
    <3> HIDE DEF b
    <3>1. QED BY <1>3, <1>4
  <2>4. /\ Admitted(f) \in [Ages -> Nat] /\ Count(Admitted(f), young) = Count(f, young) + 1
        /\ Count(Admitted(f), old) = Count(f, old) + 0
    BY <1>3, <2>3, CountAdmitted
  <2>5. Count(f, young) \in Nat /\ Count(f, old) \in Nat
    BY <1>3, <2>3, MarksFinite
  <2>6. memory'[s] = m /\ fellBack'[s] = Admitted(f)
        /\ memory' \in [Slots -> Space] /\ fellBack' \in [Slots -> [Ages -> Nat]]
    <3> HIDE DEF m
    <3>1. QED BY <1>3, <2>1, <2>2, <2>4
  <2>7. memory'[s].left = b.left /\ memory'[s].count = b.count + 1
    BY <2>2, <2>6
  <2>8. Young(s)' = young /\ Old(s)' = old
    BY <2>7 DEF Young, Old
  <2> HIDE DEF young, old, b, m
  <2>9. Count(fellBack'[s], Young(s)') <= memory'[s].count /\ Count(fellBack'[s], Old(s)') <= limit
    BY <1>4, <2>4, <2>5, <2>6, <2>7, <2>8
  <2>10. memory'[s].left \in 0..Window
    BY <1>4, <2>7
  <2>11. MemoryInv(s)'
    BY <1>3, <2>9, <2>10 DEF MemoryInv
  <2>12. \A q \in Slots : MemoryInv(q)'
    BY <1>5, <2>11, MemoryKept DEF RateInv
  <2>13. QED BY <1>1, <1>2, <2>6, <2>12 DEF RateInv, RateType
<1>7. CASE ~(b.count < limit)
  <2>1. memory' = [memory EXCEPT ![s] = b] /\ fellBack' = fellBack
    BY <1>7 DEF AuthFallback
  <2> HIDE DEF b
  <2>2. memory'[s] = b /\ memory' \in [Slots -> Space]
    BY <1>3, <1>4, <2>1
  <2>3. Young(s)' = young /\ Old(s)' = old
    BY <2>2 DEF Young, Old
  <2> HIDE DEF young, old
  <2>4. MemoryInv(s)'
    BY <1>3, <1>4, <2>1, <2>2, <2>3 DEF MemoryInv
  <2>5. \A q \in Slots : MemoryInv(q)'
    BY <1>5, <2>4, MemoryKept DEF RateInv
  <2>6. QED BY <1>1, <1>2, <1>3, <2>1, <2>2, <2>5 DEF RateInv, RateType
<1>8. QED BY <1>6, <1>7

\* Time passes in the memory of s: a bucket that ends had all of its logins
\* within one window.
LEMMA MemoryTicks ==
    ASSUME RateInv, Tick, NEW s \in Slots
    PROVE  /\ memory'[s] \in [count : 0..Limit["auth"], left : -1..Window]
           /\ fellBack'[s] \in [Ages -> Nat] /\ MemoryInv(s)'
<1> DEFINE limit == Limit["auth"]
           f == fellBack[s]
           m == memory[s]
           Space == [count : 0..limit, left : -1..Window]
<1>1. /\ m \in Space /\ m.left \in -1..Window /\ m.count \in 0..limit
      /\ f \in [Ages -> Nat] /\ limit \in Nat \ {0} /\ Window \in Nat \ {0}
      /\ 0 \in Ages /\ Ages \subseteq Nat /\ \A a \in Ages : a < Window
      /\ \A a \in Ages : a = 0 \/ a - 1 \in Ages
  <2>1. \A a \in Ages : a = 0 \/ a - 1 \in Ages
    BY RateAssumption DEF Ages
  <2>2. QED BY <2>1, RateConstants DEF RateInv, RateType
<1>2. /\ memory'[s] = IF m.left <= 0 THEN Expired ELSE [m EXCEPT !.left = @ - 1]
      /\ fellBack'[s] = Older(f)
  BY DEF Tick
<1>3. Older(f) \in [Ages -> Nat] /\ Older(f)[0] = 0
  BY <1>1, CountOlder DEF Older
<1>4. CASE m.left <= 0
  <2>1. memory'[s] = Expired /\ Expired \in Space /\ Expired.left = -1
    BY <1>1, <1>2, <1>4 DEF Expired
  <2>2. Count(f, Ages) <= limit /\ Count(f, Ages) \in Nat
    <3>1. CASE m.left < 0
      BY <1>1, <3>1, MarksFinite DEF RateInv, MemoryInv
    <3>2. CASE m.left = 0
      <4>1. Young(s) = Ages
        <5>1. Young(s) = {a \in Ages : a <= Window - m.left} /\ Window - m.left = Window
          BY <1>1, <3>2 DEF Young
        <5>2. \A a \in Ages : a <= Window
          BY <1>1
        <5>3. QED BY <5>1, <5>2
      <4>2. Count(f, Ages) <= m.count /\ Count(f, Ages) \in Nat
        BY <1>1, <3>2, <4>1, MarksFinite DEF RateInv, MemoryInv
      <4>3. QED BY <1>1, <4>2
    <3>3. QED BY <1>1, <1>4, <3>1, <3>2
  <2>3. Count(Older(f), Ages) <= Count(f, Ages) /\ Count(Older(f), Ages) \in Nat
    BY <1>1, <1>3, CountOlder, MarksFinite
  <2>4. Count(Older(f), Ages) <= limit
    BY <1>1, <2>2, <2>3
  <2>5. MemoryInv(s)'
    BY <1>2, <1>3, <2>1, <2>4 DEF MemoryInv
  <2>6. QED BY <1>2, <1>3, <2>1, <2>5
<1>5. CASE m.left > 0
  <2>1. memory'[s] = [m EXCEPT !.left = @ - 1]
    BY <1>1, <1>2, <1>5
  <2>2. memory'[s] \in Space /\ memory'[s].left = m.left - 1 /\ memory'[s].count = m.count
    BY <1>1, <1>5, <2>1
  <2> DEFINE young == {a \in Ages : a <= Window - (m.left - 1)}
             old == {a \in Ages : a > Window - (m.left - 1)}
  <2>3. Young(s)' = young /\ Old(s)' = old
    BY <2>2 DEF Young, Old
  <2>4. /\ \A a \in young : a = 0 \/ a - 1 \in Young(s)
        /\ \A a \in old : a = 0 \/ a - 1 \in Old(s)
    BY <1>1, <1>5 DEF Young, Old
  <2>5. young \in SUBSET Ages /\ old \in SUBSET Ages
        /\ Young(s) \in SUBSET Ages /\ Old(s) \in SUBSET Ages
    BY DEF Young, Old
  <2> HIDE DEF young, old
  <2>6. Count(Older(f), young) <= Count(f, Young(s)) /\ Count(Older(f), old) <= Count(f, Old(s))
    BY <1>1, <2>4, <2>5, CountOlder
  <2>7. /\ Count(Older(f), young) \in Nat /\ Count(Older(f), old) \in Nat
        /\ Count(f, Young(s)) \in Nat /\ Count(f, Old(s)) \in Nat
    BY <1>1, <1>3, <2>5, MarksFinite
  <2>8. Count(f, Young(s)) <= m.count /\ Count(f, Old(s)) <= limit
    BY <1>1, <1>5 DEF RateInv, MemoryInv
  <2>9. Count(Older(f), young) <= m.count /\ Count(Older(f), old) <= limit
    BY <1>1, <2>6, <2>7, <2>8
  <2>10. memory'[s].left \in 0..Window
    BY <1>1, <1>5, <2>2
  <2>11. MemoryInv(s)'
    BY <1>2, <2>2, <2>3, <2>9, <2>10 DEF MemoryInv
  <2>12. QED BY <1>2, <1>3, <2>2, <2>11
<1>6. QED BY <1>1, <1>4, <1>5

LEMMA Remainder ==
    ASSUME NEW a \in Nat, NEW n \in Nat \ {0}, a <= n
    PROVE  a % n = IF a = n THEN 0 ELSE a
OBVIOUS

\* Time passes in Redis: the weight lets go, or the buckets change places.
LEMMA RedisTicks ==
    ASSUME RateInv, Tick
    PROVE  /\ elapsed' \in Ages /\ admitted' \in [Ages -> Nat]
           /\ counters' \in [{"ip", "user"} -> [current : Nat, previous : Nat]]
           /\ CounterInv' /\ RedisInv'
<1> DEFINE key == Keys["auth"]
           this == Count(admitted, ThisBucket)
           last == Count(admitted, LastBucket)
           current == counters[key].current
           limit == Limit["auth"]
<1>1. /\ Window \in Nat \ {0} /\ Ages \subseteq Nat /\ 0 \in Ages
      /\ elapsed \in Ages /\ elapsed \in Nat /\ elapsed < Window
      /\ \A a \in Ages : a < Window /\ (a = 0 \/ a - 1 \in Ages)
  <2>1. \A a \in Ages : a = 0 \/ a - 1 \in Ages
    BY RateAssumption DEF Ages
  <2>2. QED BY <2>1, RateConstants DEF RateInv, RateType
<1>2. admitted \in [Ages -> Nat] /\ ThisBucket \in SUBSET Ages /\ LastBucket \in SUBSET Ages
  BY DEF RateInv, RateType, ThisBucket, LastBucket
<1>3. this \in Nat /\ last \in Nat
  BY <1>2, MarksFinite
<1>4. key \in {"ip", "user"} /\ limit \in Nat \ {0}
      /\ counters \in [{"ip", "user"} -> [current : Nat, previous : Nat]]
      /\ current \in Nat /\ counters[key].previous \in Nat
  BY RateConstants DEF RateInv, RateType
<1>5. /\ this <= current /\ this <= limit
      /\ last <= counters[key].previous /\ last <= limit
      /\ (this + last - limit) * Window < limit * elapsed + Window
  BY DEF RateInv, RedisInv
<1>6. admitted' = Older(admitted) /\ Older(admitted) \in [Ages -> Nat]
  <2>1. \A a \in Ages : a = 0 \/ a - 1 \in Ages
    BY <1>1
  <2>2. QED BY <1>2, <2>1, CountOlder DEF Tick
<1> DEFINE this2 == Count(admitted', ThisBucket')
           last2 == Count(admitted', LastBucket')
<1>7. ThisBucket' \in SUBSET Ages /\ LastBucket' \in SUBSET Ages
  BY DEF ThisBucket, LastBucket
<1>8. this2 \in Nat /\ last2 \in Nat
  BY <1>6, <1>7, MarksFinite
<1>9. CASE elapsed + 1 < Window
  <2>1. elapsed' = elapsed + 1
    <3>1. (elapsed + 1) % Window = elapsed + 1
      <4> DEFINE n == elapsed + 1
      <4>1. n \in Nat /\ n <= Window /\ n # Window
        BY <1>1, <1>9
      <4> HIDE DEF n
      <4>2. n % Window = n
        BY <1>1, <4>1, Remainder
      <4>3. QED BY <4>2 DEF n
    <3>2. QED BY <3>1 DEF Tick
  <2>2. elapsed' \in Ages /\ counters' = counters
    BY <1>1, <1>9, <2>1 DEF Tick, Ages
  <2>3. /\ \A a \in ThisBucket' : a = 0 \/ a - 1 \in ThisBucket
        /\ \A a \in LastBucket' : a = 0 \/ a - 1 \in LastBucket
    BY <1>1, <2>1 DEF ThisBucket, LastBucket
  <2>4. this2 <= this /\ last2 <= last
    BY <1>2, <1>6, <1>7, <2>3, CountOlder
  <2> HIDE DEF this, last, this2, last2, current, limit, key
  <2>5. (this2 + last2 - limit) * Window < limit * elapsed' + Window
    <3>1. (this2 + last2 - limit) * Window <= (this + last - limit) * Window
      <4>1. this2 + last2 - limit <= this + last - limit
            /\ this2 + last2 - limit \in Int /\ this + last - limit \in Int
        BY <1>3, <1>4, <1>8, <2>4
      <4>2. QED BY <1>1, <4>1, Product
    <3>2. limit * elapsed' = limit * elapsed + limit
      BY <1>1, <1>4, <2>1
    <3>3. /\ (this2 + last2 - limit) * Window \in Int /\ (this + last - limit) * Window \in Int
          /\ limit * elapsed \in Int
      BY <1>1, <1>3, <1>4, <1>8
    <3>4. QED BY <1>1, <1>4, <1>5, <3>1, <3>2, <3>3
  <2>6. this2 <= current /\ this2 <= limit /\ last2 <= counters[key].previous /\ last2 <= limit
    BY <1>3, <1>4, <1>5, <1>8, <2>4
  <2>7. RedisInv'
    BY <2>2, <2>5, <2>6 DEF RedisInv, this2, last2, current, limit, key
  <2>8. QED BY <1>4, <1>6, <2>2, <2>7 DEF RateInv, CounterInv
<1>10. CASE elapsed + 1 = Window
  <2>1. elapsed' = 0
    <3>1. (elapsed + 1) % Window = 0
      <4>1. elapsed + 1 \in Nat /\ elapsed + 1 <= Window
        BY <1>1, <1>10
      <4>2. QED BY <1>1, <1>10, <4>1, Remainder
    <3>2. QED BY <3>1 DEF Tick
  <2>2. counters' = [k \in {"ip", "user"} |-> [current |-> 0, previous |-> counters[k].current]]
    BY <1>4, <2>1 DEF Tick
  <2>3. /\ counters' \in [{"ip", "user"} -> [current : Nat, previous : Nat]]
        /\ \A k \in {"ip", "user"} : counters'[k].current = 0
        /\ counters'[key].previous = current
    BY <1>4, <2>2
  <2>4. CounterInv'
    BY <2>3, RateConstants DEF CounterInv
  <2>5. ThisBucket' = {0} /\ \A a \in LastBucket' : a = 0 \/ a - 1 \in ThisBucket
    <3>1. ThisBucket' = {a \in Ages : a <= 0}
      BY <2>1 DEF ThisBucket
    <3>2. \A a \in Ages : a <= 0 <=> a = 0
      BY <1>1
    <3>3. ThisBucket' = {0}
      BY <1>1, <3>1, <3>2
    <3>4. \A a \in Ages : a = 0 \/ a - 1 \in ThisBucket
      <4>1. \A a \in Ages : a = 0 \/ (a - 1 \in Ages /\ a - 1 <= elapsed)
        BY <1>1, <1>10
      <4>2. QED BY <4>1 DEF ThisBucket
    <3>5. QED BY <3>3, <3>4 DEF LastBucket
  <2>6. last2 <= this
    BY <1>2, <1>6, <1>7, <2>5, CountOlder
  <2>7. this2 = 0
    BY <1>1, <1>6, <2>5, CountNone DEF Older
  <2> HIDE DEF this, last, this2, last2, current, limit, key
  <2>8. (this2 + last2 - limit) * Window < limit * elapsed' + Window
    <3>1. this2 + last2 - limit \in Int /\ this2 + last2 - limit <= 0
      BY <1>3, <1>4, <1>5, <1>8, <2>6, <2>7
    <3>2. (this2 + last2 - limit) * Window <= 0 * Window
      BY <1>1, <3>1, Product
    <3>3. 0 * Window = 0 /\ limit * elapsed' = 0 /\ (this2 + last2 - limit) * Window \in Int
      BY <1>1, <1>4, <2>1, <3>1
    <3>4. QED BY <1>1, <3>2, <3>3
  <2>9. this2 <= 0 /\ this2 <= limit /\ last2 <= current /\ last2 <= limit
    BY <1>3, <1>4, <1>5, <1>8, <2>6, <2>7
  <2>10. RedisInv'
    BY <1>4, <2>3, <2>8, <2>9 DEF RedisInv, this2, last2, limit, key
  <2>11. QED BY <1>1, <1>6, <2>1, <2>3, <2>4, <2>10
<1>11. QED BY <1>1, <1>9, <1>10

LEMMA TickKeeps == RateInv /\ Tick => RateInv'
<1> SUFFICES ASSUME RateInv, Tick PROVE RateInv'
  OBVIOUS
<1>1. \A s \in Slots : MemoryInv(s)'
  BY MemoryTicks
<1>2. /\ memory' \in [Slots -> [count : 0..Limit["auth"], left : -1..Window]]
      /\ fellBack' \in [Slots -> [Ages -> Nat]]
  <2>1. /\ memory' = [s \in Slots |-> memory'[s]]
        /\ fellBack' = [s \in Slots |-> fellBack'[s]]
    BY DEF Tick
  <2>2. \A s \in Slots : /\ memory'[s] \in [count : 0..Limit["auth"], left : -1..Window]
                         /\ fellBack'[s] \in [Ages -> Nat]
    BY MemoryTicks
  <2>3. QED BY <2>1, <2>2
<1>3. QED BY <1>1, <1>2, RedisTicks DEF RateInv, RateType

\* A new process has admitted nothing.
LEMMA RestartKeeps ==
    ASSUME RateInv, NEW s \in Slots, Restarted(s)
    PROVE  RateInv'
<1>1. UNCHANGED <<elapsed, counters, admitted>>
  BY DEF Restarted
<1>2. /\ Expired \in [count : 0..Limit["auth"], left : -1..Window] /\ Expired.left = -1
      /\ Never \in [Ages -> Nat] /\ Never[0] = 0 /\ Count(Never, Ages) = 0
  <2>1. Expired \in [count : 0..Limit["auth"], left : -1..Window] /\ Expired.left = -1
    BY RateConstants DEF Expired
  <2>2. Never \in [Ages -> Nat] /\ Count(Never, Ages) = 0
    BY NeverCounts
  <2>3. QED BY <2>1, <2>2, RateConstants DEF Never
<1>3. /\ memory' \in [Slots -> [count : 0..Limit["auth"], left : -1..Window]]
      /\ fellBack' \in [Slots -> [Ages -> Nat]]
      /\ memory'[s] = Expired /\ fellBack'[s] = Never
      /\ \A q \in Slots \ {s} : memory'[q] = memory[q] /\ fellBack'[q] = fellBack[q]
  BY <1>2 DEF Restarted, RateInv, RateType
<1>4. MemoryInv(s)'
  BY <1>2, <1>3, RateConstants DEF MemoryInv
<1>5. \A q \in Slots : MemoryInv(q)'
  BY <1>3, <1>4, MemoryKept DEF RateInv
<1>6. QED BY <1>1, <1>3, <1>5
      DEF RateInv, RateType, CounterInv, RedisInv, ThisBucket, LastBucket

LEMMA RateInvCorrect == Spec => []RateInv
<1>1. Init => RateInv
  BY RateInitially DEF Init
<1>2. RateInv /\ [Next]_vars => RateInv'
  <2> SUFFICES ASSUME RateInv, [Next]_vars PROVE RateInv'
    OBVIOUS
  <2>1. CASE UNCHANGED rateVars
    <3>1. \A s \in Slots : MemoryInv(s)'
      BY <2>1, MemoryKept DEF rateVars, RateInv
    <3>2. QED BY <2>1, <3>1
          DEF rateVars, RateInv, RateType, CounterInv, RedisInv, ThisBucket, LastBucket
  <2>2. ASSUME NEW s \in Slots, Request(s) \/ WriteCheck(s) PROVE RateInv'
    BY <2>2, OtherCheckKeeps DEF Request
  <2>3. ASSUME NEW s \in Slots, AuthCheck(s) \/ AuthFallback(s) PROVE RateInv'
    BY <2>3, AuthCheckKeeps, AuthFallbackKeeps
  <2>4. CASE Tick
    BY <2>4, TickKeeps
  <2>5. ASSUME NEW s \in Replaced, Restarted(s) PROVE RateInv'
    BY <2>5, RestartKeeps DEF Replaced
  <2>6. QED BY <2>1, <2>2, <2>3, <2>4, <2>5 DEF Next, vars
<1>3. QED BY <1>1, <1>2, PTL DEF Spec

\* architecture.md, auth tier, for any window, limits and number of processes:
\* in any span of a window Redis admits at most the limit and the part of the
\* previous bucket that the weight has let go, and the memory of a process at
\* most twice the limit.
THEOREM LoginsBoundedCorrect == Spec => []LoginsBounded
<1>1. ASSUME RateInv PROVE LoginsBounded
  <2>1. /\ admitted \in [Ages -> Nat] /\ fellBack \in [Slots -> [Ages -> Nat]]
        /\ elapsed \in Nat /\ Ages \subseteq Nat /\ Limit["auth"] \in Nat /\ Window \in Nat
    BY <1>1, RateConstants DEF RateInv, RateType
  <2>2. Sum(admitted) = Count(admitted, ThisBucket) + Count(admitted, LastBucket)
    <3>1. /\ ThisBucket \in SUBSET Ages /\ LastBucket \in SUBSET Ages
          /\ ThisBucket \cap LastBucket = {} /\ ThisBucket \cup LastBucket = Ages
      <4>1. \A a \in Ages : a <= elapsed <=> ~(a > elapsed)
        BY <2>1
      <4>2. QED BY <4>1 DEF ThisBucket, LastBucket
    <3>2. Count(admitted, ThisBucket \cup LastBucket)
              = Count(admitted, ThisBucket) + Count(admitted, LastBucket)
      BY <2>1, <3>1, CountSplit
    <3>3. QED BY <3>1, <3>2 DEF Sum, Count
  <2>3. (Sum(admitted) - Limit["auth"]) * Window < Limit["auth"] * elapsed + Window
    <3>1. (Count(admitted, ThisBucket) + Count(admitted, LastBucket) - Limit["auth"]) * Window
              < Limit["auth"] * elapsed + Window
      BY <1>1 DEF RateInv, RedisInv
    <3> DEFINE this == Count(admitted, ThisBucket)
               last == Count(admitted, LastBucket)
    <3>2. this \in Nat /\ last \in Nat
      BY <2>1, MarksFinite DEF ThisBucket, LastBucket
    <3> HIDE DEF this, last
    <3>3. Sum(admitted) = this + last
      BY <2>2 DEF this, last
    <3>4. (this + last - Limit["auth"]) * Window < Limit["auth"] * elapsed + Window
      BY <3>1 DEF this, last
    <3>5. QED BY <2>1, <3>2, <3>3, <3>4
  <2>4. ASSUME NEW s \in Slots PROVE Sum(fellBack[s]) <= 2 * Limit["auth"]
    <3>1. /\ memory[s].left \in -1..Window /\ memory[s].count \in 0..Limit["auth"]
          /\ fellBack[s] \in [Ages -> Nat] /\ MemoryInv(s)
      BY <1>1, <2>1 DEF RateInv, RateType
    <3>2. CASE memory[s].left < 0
      <4>1. Count(fellBack[s], Ages) <= Limit["auth"] /\ Count(fellBack[s], Ages) \in Nat
        BY <3>1, <3>2, MarksFinite DEF MemoryInv
      <4>2. QED BY <2>1, <4>1 DEF Sum, Count
    <3>3. CASE ~(memory[s].left < 0)
      <4>1. /\ Young(s) \in SUBSET Ages /\ Old(s) \in SUBSET Ages
            /\ Young(s) \cap Old(s) = {} /\ Young(s) \cup Old(s) = Ages
        BY <2>1, <3>1 DEF Young, Old
      <4>2. Count(fellBack[s], Ages) = Count(fellBack[s], Young(s)) + Count(fellBack[s], Old(s))
        BY <3>1, <4>1, CountSplit
      <4>3. /\ Count(fellBack[s], Young(s)) <= memory[s].count
            /\ Count(fellBack[s], Old(s)) <= Limit["auth"]
        BY <3>1, <3>3 DEF MemoryInv
      <4>4. Count(fellBack[s], Young(s)) \in Nat /\ Count(fellBack[s], Old(s)) \in Nat
        BY <3>1, <4>1, MarksFinite
      <4>5. QED BY <2>1, <3>1, <4>2, <4>3, <4>4 DEF Sum, Count
    <3>4. QED BY <3>2, <3>3
  <2>5. QED BY <2>3, <2>4 DEF LoginsBounded
<1>2. QED BY <1>1, RateInvCorrect, PTL

-----------------------------------------------------------------------------
(* Types.                                                                  *)

\* No build is younger than the last run of the script.
BuildInv ==
    /\ deploys <= MaxDeploys
    /\ \A s \in Slot : slots[s].build <= deploys
    /\ workerOf \in 0..deploys
    /\ requests \in Nat /\ requests + deploys <= MaxRequests

LEMMA BuildInvStep ==
    ASSUME DeployInv, BuildInv, [Next]_vars
    PROVE  BuildInv'
<1> USE DeployAssumption, EdgeAssumption DEF DeployInv, DeployType, BuildInv
<1>1. CASE UNCHANGED deployVars /\ UNCHANGED requests
  BY <1>1 DEF deployVars
<1>2. ASSUME NEW s \in Slots, Request(s), UNCHANGED deployVars PROVE BuildInv'
  BY <1>2 DEF Request, deployVars
<1>3. CASE DeployStep /\ requests + deploys' <= MaxRequests /\ UNCHANGED requests
  <2>1. deploys' <= MaxDeploys /\ deploys' \in Nat /\ deploys <= deploys'
    BY <1>3 DEF DeployStep, Deploy, Migrate, ForceVersion, InferSlot, UpSlot, WaitHealthy,
       WriteUpstream, RemoveProxy, StartProxy, WaitProxyHealthy, StopOld, EnsureWorker,
       Interrupt, RestartProxy
  <2>2. workerOf' \in 0..deploys'
    BY <1>3, <2>1 DEF DeployStep, Deploy, Migrate, ForceVersion, InferSlot, UpSlot, WaitHealthy,
       WriteUpstream, RemoveProxy, StartProxy, WaitProxyHealthy, StopOld, EnsureWorker,
       Interrupt, RestartProxy
  <2>3. ASSUME NEW s \in Slot PROVE slots'[s].build <= deploys'
    <3>1. CASE UpSlot
      BY <3>1, <2>1 DEF UpSlot
    <3>2. CASE StopOld
      BY <3>2, <2>1 DEF StopOld
    <3>3. CASE slots' = slots
      BY <3>3, <2>1
    <3>4. QED
      BY <1>3, <3>1, <3>2, <3>3 DEF DeployStep, Deploy, Migrate, ForceVersion, InferSlot,
         WaitHealthy, WriteUpstream, RemoveProxy, StartProxy, WaitProxyHealthy, EnsureWorker,
         Interrupt, RestartProxy
  <2>4. QED BY <1>3, <2>1, <2>2, <2>3
<1>4. QED BY <1>1, <1>2, <1>3 DEF Next, vars

\* The counters are within the limits of the tiers, the slots and the script
\* have their types, and no build is ahead of the runs.
THEOREM TypeCorrect == Spec => []TypeOK
<1>1. Init => BuildInv
  BY DeployAssumption, EdgeAssumption DEF Init, DeployInit, BuildInv
<1>2. RateInv /\ DeployInv /\ BuildInv => TypeOK
  <2> SUFFICES ASSUME RateInv, DeployInv, BuildInv PROVE TypeOK
    OBVIOUS
  <2>1. ASSUME NEW t \in Tiers
        PROVE  \E u \in Tiers : Keys[u] = Keys[t] /\ counters[Keys[t]].current \in 0..Limit[u]
    BY RateConstants DEF RateInv, RateType, CounterInv
  <2>2. ASSUME NEW s \in Slots
        PROVE  memory[s].count \in 0..Limit["auth"] /\ memory[s].left \in -1..Window
    BY DEF RateInv, RateType
  <2>3. /\ slots \in [Slot -> [up : BOOLEAN, build : Builds]]
        /\ {schema, workerOf} \subseteq Builds /\ script.step \in ScriptSteps
        /\ {file, proxy.upstream, script.new} \subseteq Slot \cup {"none"}
        /\ requests + deploys \in 0..MaxRequests
    <3>1. DeployType
      BY DEF DeployInv
    <3>2. schema \in 0..MaxDeploys /\ workerOf \in 0..MaxDeploys
          /\ \A s \in Slot : slots[s].build \in 0..MaxDeploys
      BY <3>1, DeployAssumption DEF DeployType, BuildInv
    <3>3. slots \in [Slot -> [up : BOOLEAN, build : Builds]]
      BY <3>1, <3>2 DEF DeployType, Builds
    <3>4. requests + deploys \in 0..MaxRequests
      BY <3>1, EdgeAssumption DEF DeployType, BuildInv
    <3>5. QED BY <3>1, <3>2, <3>3, <3>4 DEF DeployType, Builds
  <2>4. elapsed \in Ages
    BY DEF RateInv, RateType
  <2>5. QED BY <2>1, <2>2, <2>3, <2>4 DEF TypeOK
<1>3. QED
  BY <1>1, <1>2, BuildInvStep, RateInvCorrect, DeployInvCorrect, PTL DEF Spec
=============================================================================
