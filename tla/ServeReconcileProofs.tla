------------------------ MODULE ServeReconcileProofs ------------------------
(***************************************************************************)
(* Theorems about ServeReconcile, for every set of containers, labels,     *)
(* names and ports and every bound on changes and failures.                *)
(***************************************************************************)
EXTENDS ServeReconcile, TLAPS

----------------------------------------------------------------------------
(* The inductive invariant. *)

\* Places where a plan exists.
PlanPCs == CyclePCs \ {"status", "prefs"}

\* A plan lives between the diff and the end of the cycle (or of the cleanup).
PlanScope ==
  /\ pc \notin PlanPCs => toAdd = {} /\ toAdvertise = {}
  /\ pc = "advertise" => toAdd = {}
  /\ pc \notin {"remove", "clear", "cleanup", "cleanupClear"} => toRemove = {}

\* Only unconflicted endpoints of the snapshot are added or advertised.
PlanFromDesired ==
  /\ toAdd \subseteq DesiredKeys(desired)
  /\ toAdvertise \subseteq SyncableNames(desired)

\* The operation in progress is about an entry of the plan.
JobFromPlan ==
  /\ pc \in {"clear", "cleanupClear"} => job \in toRemove
  /\ pc \in {"addCmd", "retryClear", "retryAdd"} => job \in toAdd

\* Nothing ignored, and in a cycle nothing of a frozen name, is ever removed.
RemovalsAllowed ==
  \A k \in toRemove :
    /\ ~ShouldIgnore(k[1])
    /\ pc \in CyclePCs => k[1] \notin ConflictedNames(desired)

DesiredFromLabels == \A c \in desired : c.label \in Labels[c.container]

IInv ==
  /\ TypeOK
  /\ PlanScope
  /\ PlanFromDesired
  /\ JobFromPlan
  /\ RemovalsAllowed
  /\ DesiredFromLabels
  /\ IgnoredUntouched
----------------------------------------------------------------------------
(* Operators of the model. *)

\* Labels of running containers parse to claims that carry those labels.
LEMMA ClaimsTyped ==
  ASSUME NEW S, S \subseteq Containers, addr \in [Containers -> Addrs]
  PROVE  /\ ClaimsOf(S) \subseteq Claim
         /\ \A c \in ClaimsOf(S) : c.label \in Labels[c.container]
BY ConstantAssumption DEF ClaimsOf, Claim, Label

\* A desired endpoint has a claim, and ClaimFor finds it.
LEMMA ClaimForDesired ==
  ASSUME NEW D, D \subseteq Claim, NEW k \in DesiredKeys(D)
  PROVE  /\ ClaimFor(D, k) \in D
         /\ ClaimFor(D, k) \in Claim
         /\ KeyOf(ClaimFor(D, k)) = k
         /\ k \in Keys
         /\ k \notin Conflicts(D)
<1>1. PICK c \in D : KeyOf(c) = k
  BY DEF DesiredKeys
<1>2. ClaimFor(D, k) \in D /\ KeyOf(ClaimFor(D, k)) = k
  BY <1>1 DEF ClaimFor
<1>3. k \in Keys
  BY <1>1 DEF KeyOf, Claim, Label, Keys
<1> QED
  BY <1>2, <1>3 DEF DesiredKeys

\* The name of a desired endpoint is declared by some container.
LEMMA DesiredIsClaimed ==
  ASSUME NEW D, D \subseteq Claim, \A c \in D : c.label \in Labels[c.container],
         NEW k \in DesiredKeys(D)
  PROVE  k[1] \in ClaimedNames
<1>1. PICK c \in D : KeyOf(c) = k
  BY DEF DesiredKeys
<1>2. c.container \in Containers /\ c.label \in Labels[c.container] /\ c.label.name = k[1]
  BY <1>1 DEF KeyOf, Claim
<1> QED
  BY <1>2 DEF ClaimedNames

LEMMA EndpointsTyped ==
  /\ NoEndpoint \in Endpoint
  /\ \A e \in Endpoint, c \in Claim : ServeSet(e, c) \in Endpoint
  /\ \A e \in Endpoint, p \in Paths \cup {NoPath} : PathOff(e, p) \in Endpoint
<1>1. NoEndpoint \in Endpoint
  BY DEF NoEndpoint, Endpoint
<1>2. ASSUME NEW e \in Endpoint, NEW c \in Claim PROVE ServeSet(e, c) \in Endpoint
  BY DEF ServeSet, Endpoint, Claim, Label, ServePath
<1>3. ASSUME NEW e \in Endpoint, NEW p \in Paths \cup {NoPath} PROVE PathOff(e, p) \in Endpoint
  BY <1>1 DEF PathOff, Endpoint
<1> QED
  BY <1>1, <1>2, <1>3

\* What a status read may report of a port is a view.
LEMMA ViewTyped ==
  ASSUME serve \in [Keys -> Endpoint]
  PROVE  /\ NoView \in View
         /\ \A k \in Keys : ViewsOf(k) \subseteq View
         /\ \A k \in Keys : serve[k] # NoEndpoint => NoView \notin ViewsOf(k)
         /\ \A blank \in BOOLEAN : CurrentServices(blank) \subseteq [Keys -> View]
<1>1. NoView \in View
  BY DEF NoView, View
<1>2. ASSUME NEW k \in Keys PROVE HandlersFor(k) \subseteq (Paths \cup {NoPath}) \X Addrs
  <2>1. \A q \in Ports : <<k[1], q>> \in Keys
    BY DEF Keys
  <2>2. \A x \in Keys : serve[x].handlers \subseteq (Paths \cup {NoPath}) \X Addrs
    BY DEF Endpoint
  <2>3. k[2] \in Ports /\ LooksLike[k[2]] \subseteq Ports
    BY ConstantAssumption DEF Keys
  <2> QED
    BY <2>1, <2>2, <2>3 DEF HandlersFor
<1>3. ASSUME NEW k \in Keys PROVE ViewsOf(k) \subseteq View
  BY <1>1, <1>2, <1>3 DEF ViewsOf, View, Endpoint
<1>4. ASSUME NEW k \in Keys, serve[k] # NoEndpoint, NoView \in ViewsOf(k) PROVE FALSE
  <2>1. PICK h \in HandlersFor(k) :
          NoView = [proto |-> serve[k].proto, path |-> h[1], dest |-> h[2]]
    BY <1>4 DEF ViewsOf
  <2>2. h[2] = None /\ h[2] \in Addrs
    BY <1>2, <2>1 DEF NoView
  <2> QED
    BY <2>2, ConstantAssumption
<1>5. ASSUME NEW blank \in BOOLEAN PROVE CurrentServices(blank) \subseteq [Keys -> View]
  <2>1. CASE blank
    BY <1>1, <2>1 DEF CurrentServices
  <2>2. CASE ~blank
    <3> SUFFICES ASSUME NEW cur \in CurrentServices(FALSE) PROVE cur \in [Keys -> View]
      BY <2>2
    <3>1. cur \in [Keys -> UNION {ViewsOf(k) : k \in Keys}]
      BY DEF CurrentServices
    <3>2. UNION {ViewsOf(k) : k \in Keys} \subseteq View
      BY <1>3
    <3> QED
      BY <3>1, <3>2
  <2> QED
    BY <2>1, <2>2
<1> QED
  BY <1>1, <1>3, <1>4, <1>5

\* A desired endpoint's name is the name of a claim.
LEMMA DesiredName ==
  ASSUME NEW D, NEW k \in DesiredKeys(D)
  PROVE  k[1] \in {c.label.name : c \in D}
BY DEF DesiredKeys, KeyOf

LEMMA SyncableTyped ==
  ASSUME NEW D, D \subseteq Claim
  PROVE  SyncableNames(D) \subseteq Names
BY DEF SyncableNames, Claim, Label

\* The diff yields endpoints and names of the snapshot.
LEMMA DiffTyped ==
  ASSUME NEW D, D \subseteq Claim, NEW cur \in [Keys -> View], NEW adv
  PROVE  /\ AddSet(D, cur) \subseteq DesiredKeys(D)
         /\ DesiredKeys(D) \subseteq Keys
         /\ PathSet(D, cur) \subseteq Keys \X (Paths \cup {NoPath})
         /\ RemoveSet(D, cur) \subseteq Keys
         /\ \A k \in RemoveSet(D, cur) : ~ShouldIgnore(k[1]) /\ k[1] \notin ConflictedNames(D)
         /\ AdvertiseSet(D, cur, adv) \subseteq SyncableNames(D)
         /\ AdvertiseSet(D, cur, adv) \subseteq Names
<1>1. DesiredKeys(D) \subseteq Keys
  BY ClaimForDesired
<1>2. AddSet(D, cur) \subseteq DesiredKeys(D)
  BY DEF AddSet
<1>3. PathSet(D, cur) \subseteq Keys \X (Paths \cup {NoPath})
  BY <1>1, <1>2 DEF PathSet, View
<1>4. /\ RemoveSet(D, cur) \subseteq Keys
      /\ \A k \in RemoveSet(D, cur) : ~ShouldIgnore(k[1]) /\ k[1] \notin ConflictedNames(D)
  BY DEF RemoveSet
<1>5. AdvertiseSet(D, cur, adv) \subseteq SyncableNames(D)
  BY DesiredName DEF AdvertiseSet, SyncableNames
<1> QED
  BY <1>1, <1>2, <1>3, <1>4, <1>5 DEF AdvertiseSet

----------------------------------------------------------------------------
(* Preservation. *)

LEMMA InitInv == Init => IInv
<1> SUFFICES ASSUME Init PROVE IInv
  OBVIOUS
<1>1. serve \in [Keys -> Endpoint] /\ NoView \in View
  BY ConstantAssumption DEF Init, NoView, View
<1>2. advertised \subseteq Names
  BY DEF Init, Keys
<1>3. TypeOK
  BY <1>1, <1>2 DEF Init, TypeOK, PCs
<1>4. PlanScope /\ JobFromPlan /\ RemovalsAllowed /\ DesiredFromLabels
  BY DEF Init, PlanScope, JobFromPlan, RemovalsAllowed, DesiredFromLabels
<1>5. PlanFromDesired /\ IgnoredUntouched
  BY DEF Init, PlanFromDesired, IgnoredUntouched
<1> QED
  BY <1>3, <1>4, <1>5 DEF IInv

\* A process that vanishes satisfies the invariant if the node is untouched.
LEMMA VanishInv ==
  ASSUME IInv, Vanish, UNCHANGED <<addr, serve, advertised, defined>>,
         running' \subseteq Containers, changes' \in Nat, faults' \in Nat
  PROVE  IInv'
BY ViewTyped
   DEF IInv, TypeOK, PlanScope, PlanFromDesired, JobFromPlan, RemovalsAllowed,
       DesiredFromLabels, IgnoredUntouched, PCs, PlanPCs, CyclePCs, Vanish

\* A command on an endpoint of the plan changes the node only there.
LEMMA ServedInv ==
  ASSUME IInv, NEW k \in toAdd, NEW done \in BOOLEAN, Served(k, done)
  PROVE  /\ serve' \in [Keys -> Endpoint]
         /\ advertised' \subseteq Names
         /\ \A x \in Keys : x # k => serve'[x] = serve[x]
         /\ k[1] \in ClaimedNames
         /\ k \in Keys /\ k \notin Conflicts(desired)
<1> USE DEF IInv, TypeOK, PlanFromDesired, DesiredFromLabels
<1>1. ClaimFor(desired, k) \in Claim /\ k \in Keys /\ k \notin Conflicts(desired)
  BY ClaimForDesired
<1>2. k[1] \in ClaimedNames
  BY DesiredIsClaimed
<1>3. ServeSet(serve[k], ClaimFor(desired, k)) \in Endpoint
  BY <1>1, EndpointsTyped
<1> QED
  BY <1>1, <1>2, <1>3 DEF Served, Keys

\* Clearing a name changes the node only there.
LEMMA ClearedInv ==
  ASSUME IInv, NEW k \in Keys
  PROVE  /\ ServeCleared(k[1]) \in [Keys -> Endpoint]
         /\ \A x \in Keys : x[1] # k[1] => ServeCleared(k[1])[x] = serve[x]
BY EndpointsTyped DEF IInv, TypeOK, ServeCleared

LEMMA NextInv == IInv /\ [Next]_vars => IInv'
<1> SUFFICES ASSUME IInv, [Next]_vars PROVE IInv'
  OBVIOUS
<1> USE ConstantAssumption
    DEF IInv, TypeOK, PlanScope, PlanFromDesired, JobFromPlan, RemovalsAllowed,
        DesiredFromLabels, IgnoredUntouched, PCs, PlanPCs, CyclePCs,
        envVars, nodeVars, planVars
<1>1. CASE \E c \in Containers, a \in Addrs : ContainerStart(c, a)
  BY <1>1 DEF ContainerStart, EnvStep, Vanish, Outcome
<1>2. CASE \E c \in Containers : ContainerStop(c)
  BY <1>2 DEF ContainerStop, EnvStep, Vanish, Outcome
<1>3. CASE \E n \in Names : OperatorDrain(n)
  BY <1>3 DEF OperatorDrain, EnvStep, Vanish, Outcome
<1>4. CASE Terminate
  BY <1>4 DEF Terminate, EnvStep, Vanish, Outcome
<1>5. CASE Crash
  BY <1>5, VanishInv DEF Crash, EnvStep
<1>6. CASE Restart
  BY <1>6 DEF Restart, EnvStep, Vanish, Outcome
<1>7. CASE ListFails
  BY <1>7 DEF ListFails, EnvStep, Vanish, Outcome
<1>8. CASE CleanupExpires
  BY <1>8, VanishInv DEF CleanupExpires, EnvStep
<1>9. CASE \E skipped \in SUBSET running : StartCycle(skipped)
  <2> PICK skipped \in SUBSET running : StartCycle(skipped)
    BY <1>9
  <2>1. /\ desired' \subseteq Claim
        /\ \A c \in desired' : c.label \in Labels[c.container]
    BY ClaimsTyped DEF StartCycle
  <2>2. pc = "idle" /\ pc' = "status"
    BY DEF StartCycle
  <2>3. TypeOK'
    <3>1. faults' \in Nat
      BY DEF StartCycle
    <3>2. /\ UNCHANGED <<running, addr, changes, serve, advertised, defined, cancelled, current>>
          /\ UNCHANGED <<toRemove, toAdd, pathsToRemove, toAdvertise, job>>
          /\ failed' = FALSE /\ cleared' = {} /\ unsynced' = {} /\ result' = "none"
      BY DEF StartCycle
    <3> QED
      BY <2>1, <2>2, <3>1, <3>2
  <2>4. toAdd = {} /\ toAdvertise = {} /\ toRemove = {}
    BY <2>2
  <2>5. (PlanScope /\ PlanFromDesired /\ JobFromPlan /\ RemovalsAllowed)'
    BY <2>2, <2>4 DEF StartCycle
  <2>6. (DesiredFromLabels /\ IgnoredUntouched)'
    BY <2>1 DEF StartCycle
  <2> QED
    BY <2>3, <2>5, <2>6
<1>10. CASE \E err \in BOOLEAN : ReadStatus(err)
  <2> PICK err \in BOOLEAN : ReadStatus(err)
    BY <1>10
  <2>1. current' \in [Keys -> View]
    BY ViewTyped DEF ReadStatus
  <2> QED
    BY <2>1 DEF ReadStatus, Outcome
<1>11. CASE \E err \in BOOLEAN : ReadPrefs(err)
  <2> PICK err \in BOOLEAN : ReadPrefs(err)
    BY <1>11
  <2>1. current' \in [Keys -> View]
    BY ViewTyped DEF ReadPrefs
  <2>2. /\ toAdd' \subseteq DesiredKeys(desired) /\ toAdd' \subseteq Keys
        /\ pathsToRemove' \subseteq Keys \X (Paths \cup {NoPath})
        /\ toRemove' \subseteq Keys
        /\ \A k \in toRemove' : ~ShouldIgnore(k[1]) /\ k[1] \notin ConflictedNames(desired)
        /\ toAdvertise' \subseteq SyncableNames(desired) /\ toAdvertise' \subseteq Names
    BY DiffTyped DEF ReadPrefs
  <2> QED
    BY <2>1, <2>2 DEF ReadPrefs, Outcome
<1>12. CASE \E k \in Keys, err, done \in BOOLEAN : Drain(k, err, done)
  BY <1>12 DEF Drain, EnvStep, Vanish, Outcome
<1>13. CASE \E err, done, w \in BOOLEAN : Clear(err, done, w)
  <2> PICK err \in BOOLEAN, done \in BOOLEAN, w \in BOOLEAN : Clear(err, done, w)
    BY <1>13
  <2>1. job \in toRemove /\ job \in Keys /\ ~ShouldIgnore(job[1])
    BY DEF Clear
  <2>2. /\ serve' \in [Keys -> Endpoint]
        /\ \A x \in Keys : x[1] # job[1] => serve'[x] = serve[x]
        /\ job[1] \in Names
    BY <2>1, ClearedInv DEF Clear, Keys
  <2> QED
    BY <2>1, <2>2 DEF Clear, FailedAfterClear, Outcome, ShouldIgnore
<1>14. CASE RemovalsDone
  BY <1>14 DEF RemovalsDone, EnvStep, Vanish, Outcome
<1>15. CASE \E failedNames \in SUBSET Names : Sync(failedNames)
  BY <1>15, SyncableTyped DEF Sync
<1>16. CASE \E k \in Keys, path \in Paths, err, done \in BOOLEAN : RemovePath(k, path, err, done)
  <2> PICK k \in Keys, path \in Paths, err \in BOOLEAN, done \in BOOLEAN :
         RemovePath(k, path, err, done)
    BY <1>16
  <2>1. k \in toAdd /\ k[1] \in ClaimedNames
    BY DesiredIsClaimed DEF RemovePath
  <2>2. /\ serve' \in [Keys -> Endpoint]
        /\ \A x \in Keys : x # k => serve'[x] = serve[x]
    BY EndpointsTyped DEF RemovePath
  <2>3. faults' \in Nat
    BY DEF RemovePath, Outcome
  <2>4. TypeOK'
    BY <2>1, <2>2, <2>3 DEF RemovePath
  <2>5. (PlanScope /\ PlanFromDesired /\ JobFromPlan /\ RemovalsAllowed /\ DesiredFromLabels)'
    BY <2>1 DEF RemovePath
  <2>6. IgnoredUntouched'
    BY <2>1, <2>2
  <2> QED
    BY <2>4, <2>5, <2>6
<1>17. CASE \E k \in Keys, err, done \in BOOLEAN : AddService(k, err, done)
  <2> PICK k \in Keys, err \in BOOLEAN, done \in BOOLEAN : AddService(k, err, done)
    BY <1>17
  <2>1. k \in toAdd
    BY DEF AddService, AddTurn
  <2>2. /\ serve' \in [Keys -> Endpoint]
        /\ advertised' \subseteq Names
        /\ \A x \in Keys : x # k => serve'[x] = serve[x]
        /\ k[1] \in ClaimedNames
    BY <2>1, ServedInv DEF AddService
  <2> QED
    BY <2>1, <2>2 DEF AddService, AddTurn, AddOver, Outcome
<1>18. CASE \E k \in Keys : AddRefused(k)
  BY <1>18 DEF AddRefused, AddTurn
<1>19. CASE \E k \in Keys : AddFails(k)
  BY <1>19 DEF AddFails, AddTurn, AddOver, Outcome
<1>20. CASE \E err, done, w \in BOOLEAN : RetryClear(err, done, w)
  <2> PICK err \in BOOLEAN, done \in BOOLEAN, w \in BOOLEAN : RetryClear(err, done, w)
    BY <1>20
  <2>1. job \in toAdd /\ job \in Keys /\ job[1] \in ClaimedNames
    BY DesiredIsClaimed DEF RetryClear
  <2>2. /\ serve' \in [Keys -> Endpoint]
        /\ \A x \in Keys : x[1] # job[1] => serve'[x] = serve[x]
        /\ job[1] \in Names
    BY <2>1, ClearedInv DEF RetryClear, Keys
  <2> QED
    BY <2>1, <2>2 DEF RetryClear, AddOver, Outcome
<1>21. CASE \E err, done \in BOOLEAN : RetryAdd(err, done)
  <2> PICK err \in BOOLEAN, done \in BOOLEAN : RetryAdd(err, done)
    BY <1>21
  <2>1. job \in toAdd
    BY DEF RetryAdd
  <2>2. /\ serve' \in [Keys -> Endpoint]
        /\ advertised' \subseteq Names
        /\ \A x \in Keys : x # job => serve'[x] = serve[x]
        /\ job[1] \in ClaimedNames
    BY <2>1, ServedInv DEF RetryAdd
  <2> QED
    BY <2>1, <2>2 DEF RetryAdd, AddOver, Outcome
<1>22. CASE AddsDone
  BY <1>22 DEF AddsDone, EnvStep, Vanish, Outcome
<1>23. CASE \E n \in Names, err, done \in BOOLEAN : Advertise(n, err, done)
  BY <1>23 DEF Advertise, EnvStep, Vanish, Outcome
<1>24. CASE EndCycle
  BY <1>24 DEF EndCycle
<1>25. CASE LeaveLoop
  <2>1. CASE SkipShutdownCleanup
    BY <1>25, <2>1, VanishInv DEF LeaveLoop
  <2>2. CASE ~SkipShutdownCleanup
    BY <1>25, <2>2 DEF LeaveLoop
  <2> QED
    BY <2>1, <2>2
<1>26. CASE \E blank \in BOOLEAN : CleanupRead(blank)
  <2> PICK blank \in BOOLEAN : CleanupRead(blank)
    BY <1>26
  <2>1. current' \in [Keys -> View]
    BY ViewTyped DEF CleanupRead
  <2>2. ASSUME NEW k \in toRemove' PROVE k \in Keys /\ ~ShouldIgnore(k[1])
    <3> DEFINE portOf(n) == CHOOSE p \in Ports : current'[<<n, p>>] # NoView
    <3> DEFINE Left(n) == ~ShouldIgnore(n) /\ \E p \in Ports : current'[<<n, p>>] # NoView
    <3>a. toRemove' = {<<n, portOf(n)>> : n \in {x \in Names : Left(x)}}
      BY DEF CleanupRead
    <3>1. PICK n \in Names : Left(n) /\ k = <<n, portOf(n)>>
      BY <3>a
    <3>2. portOf(n) \in Ports
      BY <3>1
    <3> HIDE DEF portOf
    <3> QED
      BY <3>1, <3>2 DEF Keys
  <2>3. /\ pc = "stop" /\ pc' = "cleanup"
        /\ UNCHANGED <<running, addr, changes, serve, advertised, defined, cancelled, desired>>
        /\ UNCHANGED <<toAdd, pathsToRemove, toAdvertise, job, failed, result, cleared, unsynced>>
        /\ faults' \in Nat
    BY DEF CleanupRead, Outcome
  <2> QED
    BY <2>1, <2>2, <2>3
<1>29. CASE CleanupReadFails
  BY <1>29, VanishInv DEF CleanupReadFails, Outcome
<1>27. CASE CleanupDone
  BY <1>27, VanishInv DEF CleanupDone, EnvStep
<1>28. CASE UNCHANGED vars
  BY <1>28 DEF vars
<1> QED
  BY <1>1, <1>2, <1>3, <1>4, <1>5, <1>6, <1>7, <1>8, <1>9, <1>10, <1>11, <1>12, <1>13, <1>14,
     <1>15, <1>16, <1>17, <1>18, <1>19, <1>20, <1>21, <1>22, <1>23, <1>24, <1>25, <1>26, <1>27,
     <1>28, <1>29 DEF Next, Process, Environment
----------------------------------------------------------------------------
(* Theorems that follow from IInv. *)

LEMMA SpecInv == Spec => []IInv
<1>1. Init => IInv
  BY InitInv
<1>2. IInv /\ [Next]_vars => IInv'
  BY NextInv
<1> QED
  BY <1>1, <1>2, PTL DEF Spec

\* Every variable keeps its type in every reachable state.
THEOREM TypeCorrect == Spec => []TypeOK
<1>1. IInv => TypeOK
  BY DEF IInv
<1> QED
  BY <1>1, SpecInv, PTL

\* What the node serves under an ignored name that no container declares is what
\* it served before DockTail ran: no cycle, cleanup, crash or failed command of
\* any number of containers touches it.
THEOREM IgnoredSafe == Spec => []IgnoredUntouched
<1>1. IInv => IgnoredUntouched
  BY DEF IInv
<1> QED
  BY <1>1, SpecInv, PTL

\* The actions that run a command on the Serve configuration.
ServeCommand ==
  \/ \E err, done, w \in BOOLEAN : Clear(err, done, w)
  \/ \E k \in Keys, path \in Paths, err, done \in BOOLEAN : RemovePath(k, path, err, done)
  \/ \E k \in Keys, err, done \in BOOLEAN : AddService(k, err, done)
  \/ \E err, done, w \in BOOLEAN : RetryClear(err, done, w)
  \/ \E err, done \in BOOLEAN : RetryAdd(err, done)

\* Every other step leaves the Serve configuration alone.
LEMMA ServeFrame == [Next]_vars => ServeCommand \/ UNCHANGED serve
<1> SUFFICES ASSUME [Next]_vars, ~ServeCommand PROVE UNCHANGED serve
  OBVIOUS
<1> USE DEF nodeVars
<1>1. CASE Environment
  BY <1>1 DEF Environment, ContainerStart, ContainerStop, OperatorDrain, Terminate, Crash,
              Restart, ListFails, CleanupExpires
<1>2. CASE Process
  BY <1>2 DEF Process, ServeCommand, StartCycle, ReadStatus, ReadPrefs, Drain, RemovalsDone,
              Sync, AddRefused, AddFails, AddsDone, Advertise, EndCycle, LeaveLoop,
              CleanupReadFails, CleanupRead, CleanupDone
<1>3. CASE UNCHANGED vars
  BY <1>3 DEF vars
<1> QED
  BY <1>1, <1>2, <1>3 DEF Next

\* A frozen endpoint changes in the cycle that froze it only by the clear that
\* resolves a refused add of another port of its name.
THEOREM FrozenSafe == Spec => FrozenUnlessSiblingRefused
<1>1. IInv /\ [Next]_vars =>
        [(pc \in CyclePCs) =>
           \A k \in Conflicts(desired) :
             serve'[k] # serve[k] => (pc = "retryClear" /\ job[1] = k[1] /\ job # k)]_vars
  <2> SUFFICES ASSUME IInv, ServeCommand, pc \in CyclePCs, NEW k \in Conflicts(desired),
                      serve'[k] # serve[k]
               PROVE  pc = "retryClear" /\ job[1] = k[1] /\ job # k
    BY ServeFrame
  <2> USE DEF IInv, TypeOK, PlanFromDesired, JobFromPlan
  <2>0. /\ k \in Keys /\ k[1] \in ConflictedNames(desired)
        /\ \A x \in toAdd : x \in Keys /\ x # k
    BY ClaimForDesired DEF Conflicts, ConflictedNames
  <2>1. CASE \E err, done, w \in BOOLEAN : Clear(err, done, w)
    <3>1. job \in toRemove /\ job \in Keys /\ job[1] # k[1]
      BY <2>0, <2>1 DEF Clear, RemovalsAllowed, CyclePCs
    <3> QED
      BY <2>0, <2>1, <3>1, ClearedInv DEF Clear
  <2>2. CASE \E x \in Keys, path \in Paths, err, done \in BOOLEAN : RemovePath(x, path, err, done)
    BY <2>0, <2>2 DEF RemovePath
  <2>3. CASE \E x \in Keys, err, done \in BOOLEAN : AddService(x, err, done)
    <3> PICK x \in Keys, err \in BOOLEAN, done \in BOOLEAN : AddService(x, err, done)
      BY <2>3
    <3>1. x \in toAdd /\ Served(x, done)
      BY DEF AddService, AddTurn
    <3> QED
      BY <2>0, <3>1, ServedInv
  <2>4. CASE \E err, done, w \in BOOLEAN : RetryClear(err, done, w)
    <3>1. job \in toAdd /\ pc = "retryClear"
      BY <2>4 DEF RetryClear
    <3>2. serve' = serve \/ serve' = ServeCleared(job[1])
      BY <2>4 DEF RetryClear
    <3> QED
      BY <2>0, <3>1, <3>2, ClearedInv
  <2>5. CASE \E err, done \in BOOLEAN : RetryAdd(err, done)
    <3> PICK err \in BOOLEAN, done \in BOOLEAN : RetryAdd(err, done)
      BY <2>5
    <3>1. job \in toAdd /\ Served(job, done)
      BY DEF RetryAdd
    <3> QED
      BY <2>0, <3>1, ServedInv
  <2> QED
    BY <2>1, <2>2, <2>3, <2>4, <2>5 DEF ServeCommand
<1> QED
  BY <1>1, SpecInv, PTL DEF Spec, FrozenUnlessSiblingRefused

----------------------------------------------------------------------------
(* Definitions precede advertisements. *)

\* From the API pass to the end of the cycle, every name it was to sync is
\* defined or known to have failed.
Synced ==
  APISync /\ pc \in {"add", "addCmd", "retryClear", "retryAdd", "advertise"} =>
    SyncableNames(desired) \subseteq defined \cup unsynced

LEMMA SyncedNext == Synced /\ [Next]_vars => Synced'
<1> SUFFICES ASSUME Synced, [Next]_vars PROVE Synced'
  OBVIOUS
<1> USE DEF Synced, envVars, nodeVars, planVars, Vanish
<1>1. CASE Environment
  BY <1>1 DEF Environment, ContainerStart, ContainerStop, OperatorDrain, Terminate, Crash,
              Restart, ListFails, CleanupExpires
<1>2. CASE \E failedNames \in SUBSET Names : Sync(failedNames)
  BY <1>2 DEF Sync
<1>3. CASE Process /\ ~\E failedNames \in SUBSET Names : Sync(failedNames)
  BY <1>3 DEF Process, StartCycle, ReadStatus, ReadPrefs, Drain, Clear, RemovalsDone,
              RemovePath, AddService, AddTurn, AddOver, AddRefused, AddFails, RetryClear,
              RetryAdd, AddsDone, Advertise, EndCycle, LeaveLoop, CleanupReadFails, CleanupRead,
              CleanupDone
<1>4. CASE UNCHANGED vars
  BY <1>4 DEF vars
<1> QED
  BY <1>1, <1>2, <1>3, <1>4 DEF Next

\* With API sync on, a name becomes advertised only when its definition exists,
\* its sync failed in this cycle, or an endpoint of the name is frozen.
THEOREM DefinedFirst == Spec => DefinedBeforeAdvertised
<1>1. Init => Synced
  BY DEF Init, Synced
<1>2. IInv /\ Synced /\ [Next]_vars =>
        [APISync => \A n \in advertised' \ advertised :
           n \in defined \cup unsynced \cup ConflictedNames(desired)]_vars
  <2> SUFFICES ASSUME IInv, Synced, Next, APISync, NEW n \in advertised' \ advertised
               PROVE  n \in defined \cup unsynced \cup ConflictedNames(desired)
    OBVIOUS
  <2> USE DEF IInv, PlanFromDesired, JobFromPlan, Synced
  <2>1. \A k \in toAdd : k[1] \in SyncableNames(desired) \cup ConflictedNames(desired)
    BY DesiredName DEF SyncableNames
  <2>2. CASE \E k \in Keys, err, done \in BOOLEAN : AddService(k, err, done)
    BY <2>1, <2>2 DEF AddService, AddTurn, Served
  <2>3. CASE \E err, done \in BOOLEAN : RetryAdd(err, done)
    BY <2>1, <2>3 DEF RetryAdd, Served
  <2>4. CASE \E x \in Names, err, done \in BOOLEAN : Advertise(x, err, done)
    BY <2>4 DEF Advertise
  <2>5. CASE /\ ~\E k \in Keys, err, done \in BOOLEAN : AddService(k, err, done)
             /\ ~\E err, done \in BOOLEAN : RetryAdd(err, done)
             /\ ~\E x \in Names, err, done \in BOOLEAN : Advertise(x, err, done)
    <3>1. Process => advertised' \subseteq advertised
      BY <2>5 DEF Process, nodeVars, StartCycle, ReadStatus, ReadPrefs, Drain, Clear,
                  RemovalsDone, Sync, RemovePath, AddRefused, AddFails, RetryClear, AddsDone,
                  EndCycle, LeaveLoop, CleanupReadFails, CleanupRead, CleanupDone
    <3>2. Environment => advertised' \subseteq advertised
      BY DEF Environment, nodeVars, ContainerStart, ContainerStop, OperatorDrain, Terminate,
             Crash, Restart, ListFails, CleanupExpires
    <3> QED
      BY <3>1, <3>2 DEF Next
  <2> QED
    BY <2>2, <2>3, <2>4, <2>5
<1> QED
  BY <1>1, <1>2, SyncedNext, SpecInv, PTL DEF Spec, DefinedBeforeAdvertised

----------------------------------------------------------------------------
(* A cleanup without errors is complete. *)

\* Whatever a cleanup may remove and has not failed on is still on its list,
\* unless its read was blank.
CleanupCovers ==
  pc \in {"cleanup", "cleanupClear"} /\ ~failed /\ (\E k \in Keys : current[k] # NoView) =>
    \A k \in Keys : ~ShouldIgnore(k[1]) /\ serve[k] # NoEndpoint =>
      \E x \in toRemove : x[1] = k[1]

LEMMA CleanupCoversNext == IInv /\ CleanupCovers /\ [Next]_vars => CleanupCovers'
<1> SUFFICES ASSUME IInv, CleanupCovers, [Next]_vars, (pc \in {"cleanup", "cleanupClear"})'
             PROVE  CleanupCovers'
  BY DEF CleanupCovers
<1> USE DEF CleanupCovers, envVars, nodeVars, planVars
<1>1. CASE \E blank \in BOOLEAN : CleanupRead(blank)
  <2> PICK blank \in BOOLEAN : CleanupRead(blank)
    BY <1>1
  <2> SUFFICES ASSUME \E x \in Keys : current'[x] # NoView,
                      NEW k \in Keys, ~ShouldIgnore(k[1]), serve[k] # NoEndpoint
               PROVE  \E x \in toRemove' : x[1] = k[1]
    BY DEF CleanupRead
  <2> DEFINE portOf(n) == CHOOSE p \in Ports : current'[<<n, p>>] # NoView
  <2> DEFINE Left(n) == ~ShouldIgnore(n) /\ \E p \in Ports : current'[<<n, p>>] # NoView
  <2>0. ~blank
    BY DEF CleanupRead, CurrentServices
  <2>1. toRemove' = {<<n, portOf(n)>> : n \in {x \in Names : Left(x)}}
    BY DEF CleanupRead
  <2>2. k[1] \in Names /\ k[2] \in Ports /\ k = <<k[1], k[2]>>
    BY DEF Keys
  <2>3. current'[k] # NoView
    <3>1. current'[k] \in ViewsOf(k)
      BY <2>0 DEF CleanupRead, CurrentServices
    <3> QED
      BY <3>1, ViewTyped DEF IInv, TypeOK
  <2>4. Left(k[1])
    BY <2>2, <2>3
  <2> HIDE DEF portOf, Left
  <2>5. <<k[1], portOf(k[1])>> \in toRemove'
    BY <2>1, <2>2, <2>4
  <2> QED
    BY <2>5
<1>2. CASE \E k \in Keys, err, done \in BOOLEAN : Drain(k, err, done)
  BY <1>2 DEF Drain
<1>3. CASE \E err, done, w \in BOOLEAN : Clear(err, done, w)
  <2> PICK err \in BOOLEAN, done \in BOOLEAN, w \in BOOLEAN : Clear(err, done, w)
    BY <1>3
  <2>1. pc = "cleanupClear" /\ job \in toRemove /\ job \in Keys
    BY DEF Clear, IInv, TypeOK, JobFromPlan
  <2>2. CASE err
    BY <2>1, <2>2 DEF Clear, FailedAfterClear
  <2>3. CASE ~err
    <3>1. serve' = ServeCleared(job[1]) /\ toRemove' = toRemove \ {job}
      BY <2>3 DEF Clear, Outcome
    <3>2. failed' = failed /\ current' = current
      BY <2>3 DEF Clear, FailedAfterClear, IInv, TypeOK
    <3>3. ASSUME \E x \in Keys : current[x] # NoView,
                 NEW k \in Keys, ~failed, ~ShouldIgnore(k[1]), serve'[k] # NoEndpoint
          PROVE  \E x \in toRemove' : x[1] = k[1]
      <4>1. k[1] # job[1] /\ serve[k] # NoEndpoint
        BY <3>1, <3>3 DEF ServeCleared
      <4> QED
        BY <2>1, <3>1, <3>3, <4>1
    <3> QED
      BY <3>2, <3>3
  <2> QED
    BY <2>2, <2>3
<1>4. CASE UNCHANGED vars
  BY <1>4 DEF vars
<1>5. CASE Environment
  BY <1>5 DEF Environment, ContainerStart, ContainerStop, OperatorDrain, Terminate, Crash,
              Restart, ListFails, CleanupExpires, Vanish
<1>6. CASE /\ Process
           /\ ~\E blank \in BOOLEAN : CleanupRead(blank)
           /\ ~\E k \in Keys, err, done \in BOOLEAN : Drain(k, err, done)
           /\ ~\E err, done, w \in BOOLEAN : Clear(err, done, w)
  BY <1>6 DEF Process, StartCycle, ReadStatus, ReadPrefs, RemovalsDone, Sync, RemovePath,
              AddService, AddTurn, AddOver, AddRefused, AddFails, RetryClear, RetryAdd,
              AddsDone, Advertise, EndCycle, LeaveLoop, CleanupReadFails, CleanupDone, Vanish
<1> QED
  BY <1>1, <1>2, <1>3, <1>4, <1>5, <1>6 DEF Next

\* A cleanup whose status read showed some service, and that worked through its
\* list without error, leaves no port of any name DockTail may touch, however many
\* ports a name has.
THEOREM CleanupSound == Spec => []CleanupComplete
<1>1. Init => CleanupCovers
  BY DEF Init, CleanupCovers
<1>2. CleanupCovers => CleanupComplete
  BY DEF CleanupCovers, CleanupComplete
<1> QED
  BY <1>1, <1>2, CleanupCoversNext, SpecInv, PTL DEF Spec
----------------------------------------------------------------------------
(* A cycle that reports success has done what the labels say. *)

Alone(k) == LooksLike[k[2]] = {k[2]}

\* Every port of the node is well formed; a clear empties the port it was for; a
\* process that is down has no result.
Shape ==
  /\ \A k \in Keys : WellFormed(serve[k])
  /\ pc = "retryAdd" => serve[job] = NoEndpoint
  /\ pc = "down" => result = "none"

\* The status snapshot is current when the diff uses it.
Seen ==
  pc = "prefs" =>
    \A k \in Keys : current[k] # NoView /\ Alone(k) =>
      /\ current[k].proto = serve[k].proto
      /\ <<current[k].path, current[k].dest>> \in serve[k].handlers

\* What is not (or no longer) on the list of adds is served.
Kept ==
  (pc \in PlanPCs /\ ~failed) \/ (pc = "idle" /\ result = "ok") =>
    \A k \in DesiredKeys(desired) \ toAdd :
      k[1] \notin cleared /\ Alone(k) => Serves(ClaimFor(desired, k))

SInv == Shape /\ Seen /\ Kept

\* The CLI's effects keep a port well formed.
LEMMA CommandsKeepShape ==
  /\ WellFormed(NoEndpoint)
  /\ \A e \in Endpoint, c \in Claim :
       WellFormed(e) /\ e.proto \in {None, c.label.proto} =>
         /\ WellFormed(ServeSet(e, c))
         /\ ServeSet(e, c).proto = c.label.proto
         /\ <<ServePath(c), c.dest>> \in ServeSet(e, c).handlers
  /\ \A e \in Endpoint, p \in Paths : WellFormed(e) => WellFormed(PathOff(e, p))
<1> USE ConstantAssumption DEF WellFormed
<1>1. WellFormed(NoEndpoint)
  BY DEF NoEndpoint
<1>2. ASSUME NEW e \in Endpoint, NEW c \in Claim, WellFormed(e), e.proto \in {None, c.label.proto}
      PROVE  /\ WellFormed(ServeSet(e, c))
             /\ ServeSet(e, c).proto = c.label.proto
             /\ <<ServePath(c), c.dest>> \in ServeSet(e, c).handlers
  <2>1. c.label.proto \in Protos /\ c.label.path \in Paths /\ c.label.proto # None
    BY DEF Claim, Label
  <2>2. ServePath(c) = NoPath <=> c.label.proto \notin HTTPProtos
    BY <2>1 DEF ServePath
  <2>3. \A h \in ServeSet(e, c).handlers : h[1] = NoPath <=> c.label.proto \notin HTTPProtos
    BY <1>2, <2>2 DEF ServeSet
  <2> QED
    BY <2>1, <2>3 DEF ServeSet
<1>3. ASSUME NEW e \in Endpoint, NEW p \in Paths, WellFormed(e) PROVE WellFormed(PathOff(e, p))
  BY <1>1, <1>3 DEF PathOff
<1> QED
  BY <1>1, <1>2, <1>3

\* An endpoint the diff leaves alone is served as its claim says.
LEMMA UnchangedIsServed ==
  ASSUME IInv, Shape, Seen, pc = "prefs",
         NEW k \in DesiredKeys(desired), k \notin AddSet(desired, current), Alone(k)
  PROVE  Serves(ClaimFor(desired, k))
<1> DEFINE c == ClaimFor(desired, k)
<1>1. c \in Claim /\ KeyOf(c) = k /\ k \in Keys
  BY ClaimForDesired DEF IInv, TypeOK
<1>2. current[k] # NoView /\ ~ConfigChanged(current[k], c)
  BY DEF AddSet
<1> HIDE DEF c
<1>3. /\ current[k].proto = serve[k].proto
      /\ <<current[k].path, current[k].dest>> \in serve[k].handlers
  BY <1>1, <1>2 DEF Seen
<1>4. current[k].dest = c.dest /\ current[k].proto = c.label.proto
  BY <1>2 DEF ConfigChanged
<1>5. current[k].path = ServePath(c)
  <2>1. CASE c.label.proto \in HTTPProtos
    BY <1>2, <2>1 DEF ConfigChanged
  <2>2. CASE c.label.proto \notin HTTPProtos
    <3>1. current[k].path = NoPath
      BY <1>1, <1>3, <1>4, <2>2 DEF Shape, WellFormed
    <3> QED
      BY <2>2, <3>1 DEF ServePath
  <2> QED
    BY <2>1, <2>2
<1> QED
  BY <1>1, <1>3, <1>4, <1>5 DEF Serves, c

\* A successful serve command serves its claim; other ports are as they were.
LEMMA ServedKeeps ==
  ASSUME IInv, Shape, NEW k \in toAdd, NEW done \in BOOLEAN, Served(k, done),
         ~Refused(ClaimFor(desired, k)), UNCHANGED desired
  PROVE  /\ \A x \in Keys : WellFormed(serve'[x])
         /\ done => Serves(ClaimFor(desired, k))'
         /\ \A x \in Keys : x # k => serve'[x] = serve[x]
<1> DEFINE c == ClaimFor(desired, k)
<1>1. c \in Claim /\ KeyOf(c) = k /\ k \in Keys
  BY ClaimForDesired DEF IInv, TypeOK, PlanFromDesired
<1>2. serve[k].proto \in {None, c.label.proto} /\ serve[k] \in Endpoint /\ WellFormed(serve[k])
  BY <1>1 DEF Refused, IInv, TypeOK, Shape
<1>3. CASE done
  <2>1. serve' = [serve EXCEPT ![k] = ServeSet(serve[k], c)]
    BY <1>3 DEF Served
  <2>2. serve'[k] = ServeSet(serve[k], c) /\ \A x \in Keys : x # k => serve'[x] = serve[x]
    BY <1>1, <2>1 DEF IInv, TypeOK
  <2> HIDE DEF c
  <2>3. /\ WellFormed(serve'[k])
        /\ serve'[k].proto = c.label.proto
        /\ <<ServePath(c), c.dest>> \in serve'[k].handlers
    BY <1>1, <1>2, <2>2, CommandsKeepShape
  <2>4. serve'[KeyOf(c)].proto = c.label.proto /\ <<ServePath(c), c.dest>> \in serve'[KeyOf(c)].handlers
    BY <1>1, <2>3
  <2>5. \A x \in Keys : WellFormed(serve'[x])
    BY <2>2, <2>3 DEF Shape
  <2> QED
    BY <2>2, <2>4, <2>5 DEF c, Serves
<1>4. CASE ~done
  BY <1>4 DEF Served, Shape
<1> QED
  BY <1>3, <1>4
LEMMA SInvNext == IInv /\ SInv /\ [Next]_vars => SInv'
<1> SUFFICES ASSUME IInv, SInv, [Next]_vars PROVE SInv'
  OBVIOUS
<1> USE DEF SInv, PlanPCs, CyclePCs, envVars, nodeVars, planVars
<1>0. /\ toAdd \subseteq DesiredKeys(desired)
      /\ DesiredKeys(desired) \subseteq Keys
      /\ job \in Keys \cup {NoJob}
      /\ \A k \in DesiredKeys(desired) :
           KeyOf(ClaimFor(desired, k)) = k /\ ClaimFor(desired, k) \in Claim
  BY ClaimForDesired DEF IInv, PlanFromDesired, TypeOK
<1>1. CASE Environment
  <2>1. UNCHANGED serve
    BY <1>1 DEF Environment, ContainerStart, ContainerStop, OperatorDrain, Terminate, Crash,
                Restart, ListFails, CleanupExpires
  <2>2. CASE Crash \/ CleanupExpires \/ Restart \/ ListFails
    BY <2>1, <2>2 DEF Crash, CleanupExpires, Restart, ListFails, Vanish, Shape, Seen, Kept, Serves
  <2>3. CASE Terminate \/ \E n \in Names : OperatorDrain(n)
    BY <2>1, <2>3 DEF Terminate, OperatorDrain, Shape, Seen, Kept, Serves
  <2>4. CASE \/ \E c \in Containers, a \in Addrs : ContainerStart(c, a)
             \/ \E c \in Containers : ContainerStop(c)
    BY <2>1, <2>4 DEF ContainerStart, ContainerStop, Shape, Seen, Kept, Serves
  <2> QED
    BY <1>1, <2>2, <2>3, <2>4 DEF Environment
<1>2. CASE \E skipped \in SUBSET running : StartCycle(skipped)
  BY <1>2 DEF StartCycle, Shape, Seen, Kept
<1>3. CASE \E err \in BOOLEAN : ReadStatus(err)
  <2> PICK err \in BOOLEAN : ReadStatus(err)
    BY <1>3
  <2>1. Seen'
    <3> SUFFICES ASSUME NEW k \in Keys, current'[k] # NoView, Alone(k)
                 PROVE  /\ current'[k].proto = serve[k].proto
                        /\ <<current'[k].path, current'[k].dest>> \in serve[k].handlers
      BY DEF Seen, ReadStatus, Alone
    <3>1. current'[k] \in ViewsOf(k) /\ serve[k] # NoEndpoint
      BY DEF ReadStatus, CurrentServices, ViewsOf
    <3>2. HandlersFor(k) = serve[k].handlers
      <4>1. k = <<k[1], k[2]>>
        BY DEF Keys
      <4> QED
        BY <4>1 DEF HandlersFor, Alone
    <3>3. serve[k].handlers \subseteq (Paths \cup {NoPath}) \X Addrs
      BY DEF IInv, TypeOK, Endpoint
    <3>4. PICK h \in serve[k].handlers :
             current'[k] = [proto |-> serve[k].proto, path |-> h[1], dest |-> h[2]]
      BY <3>1, <3>2 DEF ViewsOf
    <3> QED
      BY <3>3, <3>4
  <2>2. (Shape /\ Kept)'
    BY DEF ReadStatus, Shape, Kept
  <2> QED
    BY <2>1, <2>2
<1>4. CASE \E err \in BOOLEAN : ReadPrefs(err)
  <2> PICK err \in BOOLEAN : ReadPrefs(err)
    BY <1>4
  <2>1. Kept'
    <3> SUFFICES ASSUME NEW k \in DesiredKeys(desired), k \notin AddSet(desired, current), Alone(k)
                 PROVE  Serves(ClaimFor(desired, k))
      BY DEF Kept, ReadPrefs, Serves, Alone
    <3> QED
      BY UnchangedIsServed DEF ReadPrefs
  <2>2. (Shape /\ Seen)'
    BY DEF ReadPrefs, Shape, Seen
  <2> QED
    BY <2>1, <2>2
<1>5. CASE \E err, done, w \in BOOLEAN : Clear(err, done, w)
  <2> PICK err \in BOOLEAN, done \in BOOLEAN, w \in BOOLEAN : Clear(err, done, w)
    BY <1>5
  <2>1. job \in Keys /\ pc' \in {"remove", "cleanup"} /\ toAdd' = toAdd /\ desired' = desired
    BY DEF Clear, IInv, TypeOK, JobFromPlan
  <2>2. CASE done
    <3>1. serve' = ServeCleared(job[1]) /\ cleared' = cleared \cup {job[1]}
      BY <2>2 DEF Clear
    <3>2. \A x \in Keys : serve'[x] = IF x[1] = job[1] THEN NoEndpoint ELSE serve[x]
      BY <3>1 DEF ServeCleared
    <3>3. Shape' /\ Seen'
      BY <2>1, <3>2, CommandsKeepShape DEF Shape, Seen
    <3>4. Kept'
      <4> SUFFICES ASSUME pc' = "remove", ~failed', NEW k \in DesiredKeys(desired) \ toAdd,
                          k[1] \notin cleared', Alone(k)
                   PROVE  Serves(ClaimFor(desired, k))'
        BY <2>1 DEF Kept, Alone
      <4>1. pc = "clear" /\ ~failed
        BY DEF Clear, FailedAfterClear
      <4>2. k \in Keys /\ serve'[k] = serve[k] /\ k[1] \notin cleared
        BY <1>0, <3>1, <3>2
      <4>3. Serves(ClaimFor(desired, k))
        BY <4>1, <4>2 DEF Kept
      <4> QED
        BY <1>0, <2>1, <4>2, <4>3 DEF Serves
    <3> QED
      BY <3>3, <3>4
  <2>3. CASE ~done
    BY <2>1, <2>3 DEF Clear, FailedAfterClear, Shape, Seen, Kept, Serves, IInv, TypeOK
  <2> QED
    BY <2>2, <2>3
<1>6. CASE \E k \in Keys, path \in Paths, err, done \in BOOLEAN : RemovePath(k, path, err, done)
  <2> PICK k \in Keys, path \in Paths, err \in BOOLEAN, done \in BOOLEAN :
         RemovePath(k, path, err, done)
    BY <1>6
  <2>1. /\ \A x \in Keys : x # k => serve'[x] = serve[x]
        /\ serve'[k] \in {serve[k], PathOff(serve[k], path)}
    BY DEF RemovePath, IInv, TypeOK
  <2>2. Shape' /\ Seen'
    BY <2>1, CommandsKeepShape DEF RemovePath, Shape, Seen, IInv, TypeOK
  <2>3. Kept'
    BY <1>0, <2>1 DEF RemovePath, Kept, Serves
  <2> QED
    BY <2>2, <2>3
<1>7. CASE \E k \in Keys, err, done \in BOOLEAN : AddService(k, err, done)
  <2> PICK k \in Keys, err \in BOOLEAN, done \in BOOLEAN : AddService(k, err, done)
    BY <1>7
  <2>1. k \in toAdd /\ Served(k, done) /\ AddOver(k, err) /\ ~Refused(ClaimFor(desired, k))
    BY DEF AddService, AddTurn, IInv, JobFromPlan
  <2>2. UNCHANGED <<desired, cleared, result>> /\ (~err => done) /\ pc \in PlanPCs
    BY DEF AddService, AddTurn, Outcome
  <2>3. /\ \A x \in Keys : WellFormed(serve'[x])
        /\ done => Serves(ClaimFor(desired, k))'
        /\ \A x \in Keys : x # k => serve'[x] = serve[x]
    BY <2>1, <2>2, ServedKeeps
  <2>4. Shape' /\ Seen'
    BY <2>1, <2>3 DEF AddOver, Shape, Seen
  <2>5. Kept'
    BY <1>0, <2>1, <2>2, <2>3 DEF AddOver, Kept, Serves
  <2> QED
    BY <2>4, <2>5
<1>8. CASE \E err, done, w \in BOOLEAN : RetryClear(err, done, w)
  <2> PICK err \in BOOLEAN, done \in BOOLEAN, w \in BOOLEAN : RetryClear(err, done, w)
    BY <1>8
  <2>1. /\ job \in toAdd /\ job \in Keys /\ pc = "retryClear" /\ (~err => done)
        /\ UNCHANGED <<desired, result>>
    BY <1>0 DEF RetryClear, IInv, JobFromPlan, Outcome
  <2>2. CASE err
    <3>1. \A x \in Keys : serve'[x] \in {serve[x], NoEndpoint}
      BY DEF RetryClear, ServeCleared
    <3> QED
      BY <2>1, <2>2, <3>1, CommandsKeepShape DEF RetryClear, AddOver, Shape, Seen, Kept
  <2>3. CASE ~err
    <3>1. /\ serve' = ServeCleared(job[1]) /\ cleared' = cleared \cup {job[1]}
          /\ pc' = "retryAdd" /\ UNCHANGED <<toAdd, failed, job>>
      BY <2>1, <2>3 DEF RetryClear
    <3>2. \A x \in Keys : serve'[x] = IF x[1] = job[1] THEN NoEndpoint ELSE serve[x]
      BY <3>1 DEF ServeCleared
    <3>3. Shape' /\ Seen'
      BY <2>1, <3>1, <3>2, CommandsKeepShape DEF Shape, Seen
    <3>4. Kept'
      BY <1>0, <2>1, <3>1, <3>2 DEF Kept, Serves, Alone
    <3> QED
      BY <3>3, <3>4
  <2> QED
    BY <2>2, <2>3
<1>9. CASE \E err, done \in BOOLEAN : RetryAdd(err, done)
  <2> PICK err \in BOOLEAN, done \in BOOLEAN : RetryAdd(err, done)
    BY <1>9
  <2>0. job \in toAdd
    BY DEF RetryAdd, IInv, JobFromPlan
  <2> PICK k \in toAdd : k = job
    BY <2>0
  <2>1. k \in Keys /\ Served(k, done) /\ AddOver(k, err) /\ pc = "retryAdd"
    BY <1>0 DEF RetryAdd
  <2>2. UNCHANGED <<desired, cleared, result>> /\ (~err => done)
    BY DEF RetryAdd, Outcome
  <2>3. ~Refused(ClaimFor(desired, k))
    BY <1>0, <2>1 DEF Refused, Shape, NoEndpoint
  <2>4. /\ \A x \in Keys : WellFormed(serve'[x])
        /\ done => Serves(ClaimFor(desired, k))'
        /\ \A x \in Keys : x # k => serve'[x] = serve[x]
    BY <2>1, <2>2, <2>3, ServedKeeps
  <2>5. Shape' /\ Seen'
    BY <2>1, <2>4 DEF AddOver, Shape, Seen
  <2>6. Kept'
    BY <1>0, <2>1, <2>2, <2>4 DEF AddOver, Kept, Serves
  <2> QED
    BY <2>5, <2>6
<1>10. CASE \E k \in Keys, err, done \in BOOLEAN : Drain(k, err, done)
  BY <1>10 DEF Drain, Shape, Seen, Kept, Serves
<1>11. CASE RemovalsDone \/ AddsDone
  BY <1>11 DEF RemovalsDone, AddsDone, Shape, Seen, Kept, Serves
<1>12. CASE \E failedNames \in SUBSET Names : Sync(failedNames)
  BY <1>12 DEF Sync, Shape, Seen, Kept, Serves
<1>13. CASE \E k \in Keys : AddRefused(k)
  BY <1>13 DEF AddRefused, AddTurn, Shape, Seen, Kept, Serves
<1>14. CASE \E k \in Keys : AddFails(k)
  BY <1>14 DEF AddFails, AddOver, Shape, Seen, Kept
<1>15. CASE \E n \in Names, err, done \in BOOLEAN : Advertise(n, err, done)
  BY <1>15 DEF Advertise, Shape, Seen, Kept, Serves, IInv, TypeOK
<1>16. CASE EndCycle
  BY <1>16 DEF EndCycle, Shape, Seen, Kept, Serves
<1>17. CASE LeaveLoop \/ CleanupDone
  BY <1>17 DEF LeaveLoop, CleanupDone, Vanish, Shape, Seen, Kept
<1>18. CASE CleanupReadFails \/ \E blank \in BOOLEAN : CleanupRead(blank)
  BY <1>18 DEF CleanupReadFails, CleanupRead, Vanish, Shape, Seen, Kept
<1>19. CASE UNCHANGED vars
  BY <1>19 DEF vars, Shape, Seen, Kept, Serves
<1> QED
  BY <1>1, <1>2, <1>3, <1>4, <1>5, <1>6, <1>7, <1>8, <1>9, <1>10, <1>11, <1>12, <1>13, <1>14,
     <1>15, <1>16, <1>17, <1>18, <1>19 DEF Next, Process

\* A cycle that reported success left every endpoint it wanted served as the
\* labels say, unless it cleared the name or another port starts with its digits.
THEOREM SuccessSound == Spec => []SuccessMeansServedUnlessCleared
<1>1. Init => SInv
  BY ConstantAssumption DEF Init, SInv, Shape, Seen, Kept, PlanPCs, CyclePCs
<1>2. IInv /\ SInv => SuccessMeansServedUnlessCleared
  BY DEF IInv, SInv, PlanScope, Kept, PlanPCs, CyclePCs, SuccessMeansServedUnlessCleared, Alone
<1> QED
  BY <1>1, <1>2, SInvNext, SpecInv, PTL DEF Spec
=============================================================================
