---------------------------- MODULE FunnelsProofs ----------------------------
(***************************************************************************)
(* Theorems about Funnels, for every set of containers and endpoints.      *)
(***************************************************************************)
EXTENDS Funnels, TLAPS

\* At a reset everything the status read showed is DockTail's.
ResetOwnsAll ==
  pc \in {"reset", "stopReset"} => \A k \in Endpoints : seen[k] # None => k \in managed

\* Only desired endpoints are added.
TodoDesired ==
  /\ todo \subseteq DesiredKeys(desired)
  /\ pc = "verify" => job \in todo
  /\ pc = "reset" => todo = DesiredKeys(desired)

\* The status of an HTTP(S) endpoint that is still to be handled is current.
SeenCurrent ==
  (pc \in {"plan", "reset"} \/ (pc \in {"apply", "verify"} /\ ~failed)) =>
    \A k \in Endpoints \ TCPEndpoints :
      /\ seen[k] # Unshown
      /\ (seen[k] # None /\ (pc \in {"plan", "reset"} \/ k \in todo) /\ (pc = "verify" => k # job))
           => funnels[k].dest = seen[k]

\* What was handled without error leads to its container.
Handled ==
  ((pc \in {"apply", "verify"} /\ ~failed) \/ (pc = "idle" /\ result = "ok")) =>
    \A k \in DesiredKeys(desired) \ (todo \cup TCPEndpoints) :
      funnels[k].dest = DestFor(desired, k)

\* No plan outlives its cycle, no result outlives its process.
Scope ==
  /\ pc \notin {"reset", "apply", "verify"} => todo = {}
  /\ pc \in {"services", "plan", "reset", "apply", "verify"} => result = "none"

IInv == TypeOK /\ ResetOwnsAll /\ TodoDesired /\ SeenCurrent /\ Handled /\ Scope

\* A desired endpoint has a claim with a destination.
LEMMA DestTyped ==
  ASSUME NEW D, D \subseteq Claim, NEW k \in DesiredKeys(D)
  PROVE  DestFor(D, k) \in Addrs /\ k \in Endpoints
<1>1. PICK c \in D : c.key = k
  BY DEF DesiredKeys
<1>2. (CHOOSE x \in D : x.key = k) \in D
  BY <1>1
<1> QED
  BY <1>1, <1>2 DEF DestFor, Claim

LEMMA FunnelTyped ==
  /\ Nothing \in Funnel
  /\ \A a \in Addrs : /\ [dest |-> a, by |-> "operator"] \in Funnel
                      /\ [dest |-> a, by |-> "docktail"] \in Funnel
BY DEF Nothing, Funnel

\* A status read shows addresses, and of HTTP(S) endpoints all of them.
LEMMA ShownTyped ==
  ASSUME funnels \in [Endpoints -> Funnel], NEW k \in Endpoints
  PROVE  /\ Shown(k) \in Addrs \cup {None, Unshown}
         /\ k \notin TCPEndpoints => Shown(k) = funnels[k].dest
BY DEF Shown, Funnel, Nothing

LEMMA ListedTyped ==
  ASSUME funnels \in [Endpoints -> Funnel]
  PROVE  /\ Listed \in [Endpoints -> Addrs \cup {None, Unshown}]
         /\ NothingListed \in [Endpoints -> Addrs \cup {None, Unshown}]
         /\ \A k \in Endpoints : Listed[k] = Shown(k) /\ NothingListed[k] = None
BY ShownTyped DEF Listed, NothingListed

LEMMA InitInv == Init => IInv
<1> SUFFICES ASSUME Init PROVE IInv
  OBVIOUS
<1>1. TypeOK
  BY FunnelTyped DEF Init, TypeOK, PCs, NothingListed
<1>2. ResetOwnsAll /\ TodoDesired /\ SeenCurrent /\ Handled /\ Scope
  BY DEF Init, ResetOwnsAll, TodoDesired, SeenCurrent, Handled, Scope
<1> QED
  BY <1>1, <1>2 DEF IInv

\* A process that ends satisfies the invariant whatever the node looks like.
LEMMA VanishInv ==
  ASSUME IInv, NEW r \in {"none", "ok", "error"}, Vanish(r),
         running' \subseteq Containers, addr' = addr, changes' \in Nat, faults' \in Nat,
         funnels' \in [Endpoints -> Funnel]
  PROVE  IInv'
<1>1. TypeOK'
  BY ListedTyped DEF IInv, TypeOK, Vanish, PCs
<1>2. (ResetOwnsAll /\ TodoDesired /\ SeenCurrent /\ Handled /\ Scope)'
  BY DEF Vanish, ResetOwnsAll, TodoDesired, SeenCurrent, Handled, Scope
<1> QED
  BY <1>1, <1>2 DEF IInv

LEMMA NextInv == IInv /\ [Next]_vars => IInv'
<1> SUFFICES ASSUME IInv, [Next]_vars PROVE IInv'
  OBVIOUS
<1> USE ConstantAssumption
    DEF IInv, TypeOK, ResetOwnsAll, TodoDesired, SeenCurrent, Handled, Scope, PCs, envVars, planVars
<1>1. CASE \E c \in Containers, a \in Addrs : ContainerStart(c, a)
  BY <1>1 DEF ContainerStart, EnvStep
<1>2. CASE \E c \in Containers : ContainerStop(c)
  BY <1>2 DEF ContainerStop, EnvStep
<1>3. CASE \E k \in Endpoints, a \in Addrs : OperatorFunnel(k, a)
  <2> PICK k \in Endpoints, a \in Addrs : OperatorFunnel(k, a)
    BY <1>3
  <2>1. /\ funnels' \in [Endpoints -> Funnel]
        /\ \A x \in Endpoints : x # k => funnels'[x] = funnels[x]
        /\ funnels[k].dest = None
    <3>1. PICK f \in Funnel : funnels' = [funnels EXCEPT ![k] = f]
      BY FunnelTyped DEF OperatorFunnel
    <3>2. funnels[k].dest = None
      BY DEF OperatorFunnel, Nothing
    <3> QED
      BY <3>1, <3>2
  <2>2. (TypeOK /\ ResetOwnsAll /\ TodoDesired /\ Scope)'
    BY <2>1 DEF OperatorFunnel, EnvStep
  <2>3. SeenCurrent'
    BY <2>1 DEF OperatorFunnel
  <2>4. Handled'
    <3>1. \A x \in DesiredKeys(desired) : DestFor(desired, x) \in Addrs /\ x \in Endpoints
      BY DestTyped
    <3> QED
      BY <2>1, <3>1 DEF OperatorFunnel
  <2> QED
    BY <2>2, <2>3, <2>4
<1>4. CASE Terminate
  BY <1>4 DEF Terminate, EnvStep
<1>5. CASE Crash
  BY <1>5, VanishInv DEF Crash, EnvStep
<1>6. CASE Restart
  BY <1>6 DEF Restart
<1>7. CASE ServicesFail
  BY <1>7 DEF ServicesFail, Outcome
<1>8. CASE BeginCycle
  <2>1. desired' \subseteq Claim
    BY <1>8 DEF BeginCycle, ClaimsOf, Claim
  <2> QED
    BY <1>8, <2>1 DEF BeginCycle
<1>9. CASE \E err \in BOOLEAN : ReadFunnels(err)
  <2> PICK err \in BOOLEAN : ReadFunnels(err)
    BY <1>9
  <2>1. /\ seen' \in [Endpoints -> Addrs \cup {None, Unshown}]
        /\ \A k \in Endpoints \ TCPEndpoints : seen'[k] \in {None, funnels[k].dest}
    BY ListedTyped, ShownTyped DEF ReadFunnels
  <2>2. \A k \in Endpoints : funnels[k].dest # Unshown
    BY DEF Funnel
  <2> QED
    BY <2>1, <2>2 DEF ReadFunnels, Outcome
<1>10. CASE Plan
  <2>1. DesiredKeys(desired) \subseteq Endpoints /\ Stale \subseteq Endpoints
    BY DestTyped DEF Stale
  <2>2. (TypeOK /\ TodoDesired /\ Scope /\ Handled)'
    BY <1>10, <2>1 DEF Plan
  <2>3. ResetOwnsAll'
    BY <1>10 DEF Plan, Foreign
  <2>4. SeenCurrent'
    BY <1>10 DEF Plan
  <2> QED
    BY <2>2, <2>3, <2>4
<1>11. CASE \E err, done \in BOOLEAN : Reset(err, done)
  <2> PICK err \in BOOLEAN, done \in BOOLEAN : Reset(err, done)
    BY <1>11
  <2>1. funnels' \in [Endpoints -> Funnel] /\ faults' \in Nat
    BY FunnelTyped DEF Reset, Outcome
  <2>2. CASE err
    BY <2>1, <2>2 DEF Reset
  <2>3. CASE ~err
    <3>1. \A k \in Endpoints : seen'[k] = None
      BY <2>3, ListedTyped DEF Reset
    <3>2. seen' \in [Endpoints -> Addrs \cup {None, Unshown}]
      BY <2>3, ListedTyped DEF Reset
    <3>3. (TypeOK /\ ResetOwnsAll /\ TodoDesired /\ Scope)'
      BY <2>1, <2>3, <3>2 DEF Reset
    <3>4. SeenCurrent'
      BY <3>1
    <3>5. Handled'
      <4>1. todo = DesiredKeys(desired)
        BY DEF Reset
      <4> QED
        BY <2>3, <4>1 DEF Reset
    <3> QED
      BY <3>3, <3>4, <3>5
  <2> QED
    BY <2>2, <2>3
<1>12. CASE \E k \in Endpoints : Keep(k)
  <2> PICK k \in Endpoints : Keep(k)
    BY <1>12
  <2>1. DestFor(desired, k) \in Addrs
    BY DestTyped DEF Keep
  <2>2. ~failed /\ k \notin TCPEndpoints => funnels[k].dest = DestFor(desired, k)
    BY <2>1 DEF Keep, Matches
  <2> QED
    BY <2>2 DEF Keep
<1>13. CASE \E k \in Endpoints, err, done \in BOOLEAN : AddFunnel(k, err, done)
  <2> PICK k \in Endpoints, err \in BOOLEAN, done \in BOOLEAN : AddFunnel(k, err, done)
    BY <1>13
  <2>1. k \in todo /\ DestFor(desired, k) \in Addrs
    BY DestTyped DEF AddFunnel
  <2>2. /\ funnels' \in [Endpoints -> Funnel]
        /\ \A x \in Endpoints : x # k => funnels'[x] = funnels[x]
    <3>1. PICK f \in Funnel : funnels' = funnels \/ funnels' = [funnels EXCEPT ![k] = f]
      BY <2>1, FunnelTyped DEF AddFunnel
    <3> QED
      BY <3>1
  <2>3. (TypeOK /\ ResetOwnsAll /\ TodoDesired /\ Scope)'
    <3>1. faults' \in Nat
      BY DEF AddFunnel, Outcome
    <3>2. /\ UNCHANGED <<running, addr, changes, managed, cancelled, desired, seen, stale,
                         applied, result>>
          /\ pc = "apply"
          /\ \/ failed' = TRUE /\ todo' = todo \ {k} /\ pc' = pc /\ job' = job
             \/ pc' = "verify" /\ job' = k /\ failed' = failed /\ todo' = todo
      BY DEF AddFunnel
    <3>3. TypeOK'
      BY <2>1, <2>2, <3>1, <3>2
    <3> QED
      BY <2>1, <3>2, <3>3
  <2>4. CASE err
    BY <2>3, <2>4 DEF AddFunnel
  <2>5. CASE ~err
    <3>1. /\ pc = "apply" /\ pc' = "verify" /\ job' = k
          /\ UNCHANGED <<failed, todo, desired, seen, result>>
      BY <2>5 DEF AddFunnel
    <3>2. SeenCurrent'
      BY <2>2, <3>1
    <3>3. Handled'
      <4>1. DesiredKeys(desired) \subseteq Endpoints
        BY DestTyped
      <4> QED
        BY <2>1, <2>2, <3>1, <4>1
    <3> QED
      BY <2>3, <3>2, <3>3
  <2> QED
    BY <2>4, <2>5
<1>14. CASE \E err \in BOOLEAN : Verify(err)
  <2> PICK err \in BOOLEAN : Verify(err)
    BY <1>14
  <2>1. job \in todo /\ job \in Endpoints /\ DestFor(desired, job) \in Addrs
    BY DestTyped DEF Verify
  <2>2. ~failed' /\ job \notin TCPEndpoints => funnels[job].dest = DestFor(desired, job)
    <3>1. SUFFICES ASSUME ~failed', job \notin TCPEndpoints
                   PROVE  funnels[job].dest = DestFor(desired, job)
      OBVIOUS
    <3>2. Matches(Shown(job), DestFor(desired, job))
      BY <3>1 DEF Verify
    <3> QED
      BY <2>1, <3>1, <3>2, ShownTyped DEF Matches, Funnel
  <2>3. (TypeOK /\ ResetOwnsAll /\ TodoDesired /\ Scope)'
    <3>1. faults' \in Nat
      BY DEF Verify, Outcome
    <3>2. /\ UNCHANGED <<running, addr, changes, funnels, managed, cancelled, desired, seen,
                         stale, result>>
          /\ pc = "verify" /\ pc' = "apply" /\ job' = None /\ todo' = todo \ {job}
          /\ applied' \in {applied, applied \cup {job}} /\ failed' \in {failed, TRUE}
      BY DEF Verify
    <3> QED
      BY <2>1, <3>1, <3>2
  <2>a. /\ pc = "verify" /\ pc' = "apply" /\ todo' = todo \ {job}
        /\ UNCHANGED <<funnels, desired, seen, result>>
        /\ ~failed' => ~failed
    BY DEF Verify
  <2>4. SeenCurrent'
    BY <2>a
  <2>5. Handled'
    BY <2>a, <2>2
  <2> QED
    BY <2>3, <2>4, <2>5
<1>15. CASE Finish
  BY <1>15 DEF Finish
<1>16. CASE LeaveLoop
  <2>1. CASE SkipShutdownCleanup
    BY <1>16, <2>1, VanishInv DEF LeaveLoop
  <2>2. CASE ~SkipShutdownCleanup
    BY <1>16, <2>2 DEF LeaveLoop
  <2> QED
    BY <2>1, <2>2
<1>17. CASE \E err \in BOOLEAN : CleanupRead(err)
  <2> PICK err \in BOOLEAN : CleanupRead(err)
    BY <1>17
  <2>1. faults' \in Nat
    BY DEF CleanupRead, Outcome
  <2>2. CASE Vanish("ok")
    BY <2>1, <2>2, VanishInv DEF CleanupRead
  <2>3. CASE ~Vanish("ok")
    <3>1. /\ pc' = "stopReset" /\ seen' = Listed
          /\ UNCHANGED <<managed, cancelled, desired, stale, todo, job, applied, failed, result>>
          /\ ~\E k \in Endpoints \ managed : Shown(k) # None
      BY <2>3 DEF CleanupRead
    <3>2. UNCHANGED <<running, addr, changes, funnels>> /\ pc = "stop"
      BY DEF CleanupRead
    <3>3. TypeOK'
      BY <2>1, <3>1, <3>2, ListedTyped
    <3>4. ResetOwnsAll'
      BY <3>1, ListedTyped
    <3>5. (TodoDesired /\ SeenCurrent /\ Handled /\ Scope)'
      BY <3>1, <3>2
    <3> QED
      BY <3>3, <3>4, <3>5
  <2> QED
    BY <2>2, <2>3
<1>18. CASE \E err, done \in BOOLEAN : CleanupReset(err, done)
  <2> PICK err \in BOOLEAN, done \in BOOLEAN : CleanupReset(err, done)
    BY <1>18
  <2>1. funnels' \in [Endpoints -> Funnel] /\ faults' \in Nat
    BY FunnelTyped DEF CleanupReset, Outcome
  <2> QED
    BY <2>1, VanishInv DEF CleanupReset
<1>19. CASE UNCHANGED vars
  BY <1>19 DEF vars
<1> QED
  BY <1>1, <1>2, <1>3, <1>4, <1>5, <1>6, <1>7, <1>8, <1>9, <1>10, <1>11, <1>12, <1>13, <1>14,
     <1>15, <1>16, <1>17, <1>18, <1>19 DEF Next, Process, Environment

LEMMA SpecInv == Spec => []IInv
BY InitInv, NextInv, PTL DEF Spec

\* Every variable keeps its type in every reachable state.
THEOREM TypeCorrect == Spec => []TypeOK
<1>1. IInv => TypeOK
  BY DEF IInv
<1> QED
  BY <1>1, SpecInv, PTL

\* A successful pass left every HTTP(S) funnel of the labels up and pointing at
\* its container, whatever an operator and a SIGTERM did meanwhile.
THEOREM SuccessSound == Spec => []SuccessMeansFunnelled
<1>1. IInv => SuccessMeansFunnelled
  BY DEF IInv, Handled, Scope, SuccessMeansFunnelled
<1> QED
  BY <1>1, SpecInv, PTL

\* DockTail destroys an operator's funnel only where it did not see it, took it
\* for its own, or serves a container at the same endpoint.
THEOREM ForeignSafe == Spec => ForeignFunnelsKept
<1>1. IInv /\ [Next]_vars =>
        [\A k \in Endpoints :
           (funnels[k].by = "operator" /\ funnels'[k] # funnels[k]) =>
             k \in managed \/ k \in DesiredKeys(desired) \/ seen[k] = None]_vars
  <2> SUFFICES ASSUME IInv, Next, NEW k \in Endpoints,
                      funnels[k].by = "operator", funnels'[k] # funnels[k]
               PROVE  k \in managed \/ k \in DesiredKeys(desired) \/ seen[k] = None
    OBVIOUS
  <2> USE DEF IInv, TypeOK
  <2>1. CASE Environment
    <3>1. \A x \in Endpoints : funnels'[x] # funnels[x] => funnels[x] = Nothing
      BY <2>1 DEF Environment, ContainerStart, ContainerStop, OperatorFunnel, Terminate,
                  Crash, Restart, ServicesFail
    <3> QED
      BY <3>1 DEF Nothing
  <2>2. CASE (\E err, done \in BOOLEAN : Reset(err, done))
             \/ (\E err, done \in BOOLEAN : CleanupReset(err, done))
    BY <2>2 DEF Reset, CleanupReset, ResetOwnsAll
  <2>3. CASE \E x \in Endpoints, err, done \in BOOLEAN : AddFunnel(x, err, done)
    BY <2>3 DEF AddFunnel, TodoDesired
  <2>4. CASE \/ BeginCycle \/ Plan \/ Finish \/ LeaveLoop
             \/ \E err \in BOOLEAN : ReadFunnels(err) \/ Verify(err) \/ CleanupRead(err)
             \/ \E x \in Endpoints : Keep(x)
    BY <2>4 DEF BeginCycle, Plan, Finish, LeaveLoop, ReadFunnels, Verify, CleanupRead, Keep
  <2> QED
    BY <2>1, <2>2, <2>3, <2>4 DEF Next, Process
<1> QED
  BY <1>1, SpecInv, PTL DEF Spec, ForeignFunnelsKept

----------------------------------------------------------------------------
(* The shutdown cleanup. *)

NoFunnels == \A k \in Endpoints : funnels[k] = Nothing

\* The circumstances in which DockTail never loses track of a funnel: no command fails,
\* nobody else uses Funnel, and a SIGTERM does not cut into the funnel half of a cycle.
Orderly ==
  /\ faults = 0 /\ \A k \in Endpoints : funnels[k].by # "operator"
  /\ cancelled => pc \in {"idle", "services"}

\* Every funnel on the node is owned or about to be: by managedFunnels between the
\* passes, and within a pass by the endpoints still to be handled and those applied.
FunnelsOwned ==
  /\ \A k \in Endpoints : funnels[k] # Nothing => funnels[k].dest \in Addrs
  /\ pc \in {"idle", "services", "plan", "reset", "stop", "stopReset"} =>
       \A k \in Endpoints : funnels[k] # Nothing => k \in managed
  /\ pc \in {"plan", "reset"} => seen = Listed
  /\ pc \in {"reset", "apply", "verify"} => stale = {}
  /\ pc \in {"apply", "verify"} =>
       \A k \in Endpoints : funnels[k] # Nothing => k \in todo \cup applied
  /\ pc = "verify" => funnels[job].dest = DestFor(desired, job)
  /\ pc = "down" /\ result = "ok" => NoFunnels

\* Without failures a command of an uncancelled pass does what it reports.
LEMMA FaultlessOutcome ==
  ASSUME IInv, Orderly, Orderly', NEW err \in BOOLEAN, NEW done \in BOOLEAN,
         Outcome(err, done), ~cancelled
  PROVE  ~err /\ done
BY DEF Orderly, Outcome, IInv, TypeOK

LEMMA ShownExactly ==
  ASSUME funnels \in [Endpoints -> Funnel], FunnelsOwned, NEW k \in Endpoints
  PROVE  Shown(k) = None <=> funnels[k] = Nothing
BY ConstantAssumption DEF Shown, FunnelsOwned, Nothing

LEMMA InitOwned == Init => FunnelsOwned
BY DEF Init, FunnelsOwned

\* Containers, the signal, the crash, a restart on an empty node, and the steps of a
\* cycle that change neither funnels nor ownership.
LEMMA QuietOwned ==
  ASSUME IInv, FunnelsOwned, Orderly, Orderly', Restart => NoFunnels,
         \/ \E c \in Containers, a \in Addrs : ContainerStart(c, a)
         \/ \E c \in Containers : ContainerStop(c)
         \/ Terminate \/ Crash \/ Restart \/ ServicesFail \/ BeginCycle
         \/ \E err \in BOOLEAN : ReadFunnels(err)
  PROVE  FunnelsOwned'
<1> USE DEF FunnelsOwned, NoFunnels, planVars, envVars
<1>0. UNCHANGED funnels /\ (Listed' = Listed)
  BY DEF ContainerStart, ContainerStop, Terminate, Crash, Restart, ServicesFail, BeginCycle,
         ReadFunnels, Listed, Shown
<1>1. CASE \E c \in Containers, a \in Addrs : ContainerStart(c, a)
  BY <1>0, <1>1 DEF ContainerStart
<1>2. CASE \E c \in Containers : ContainerStop(c) BY <1>0, <1>2 DEF ContainerStop
<1>3. CASE Terminate BY <1>0, <1>3 DEF Terminate
<1>4. CASE Crash BY <1>0, <1>4 DEF Crash, Vanish
<1>5. CASE Restart BY <1>0, <1>5 DEF Restart
<1>6. CASE ServicesFail BY <1>0, <1>6 DEF ServicesFail
<1>7. CASE BeginCycle BY <1>0, <1>7 DEF BeginCycle
<1>8. ASSUME NEW err \in BOOLEAN, ReadFunnels(err) PROVE FunnelsOwned'
  <2>1. CASE pc' = "idle" BY <1>0, <1>8, <2>1 DEF ReadFunnels
  <2>2. CASE pc' = "plan"
    <3>1. ~cancelled' BY <2>2 DEF Orderly
    <3>2. ~cancelled BY <1>8, <3>1 DEF ReadFunnels
    <3>3. Outcome(err, ~err) BY <1>8 DEF ReadFunnels
    <3>4. ~err BY <3>2, <3>3, FaultlessOutcome
    <3>5. seen' = Listed BY <1>8, <3>4 DEF ReadFunnels
    <3>6. QED BY <1>0, <1>8, <2>2, <3>5 DEF ReadFunnels
  <2>3. QED BY <1>8, <2>1, <2>2 DEF ReadFunnels
<1>9. QED BY <1>1, <1>2, <1>3, <1>4, <1>5, <1>6, <1>7, <1>8

\* Nothing on the node is foreign, so what is stale is reset, and what is left is desired.
LEMMA PlanOwned ==
  ASSUME IInv, FunnelsOwned, Plan
  PROVE  FunnelsOwned'
<1>1. /\ pc = "plan" /\ todo' = DesiredKeys(desired) /\ applied' = {}
      /\ UNCHANGED <<funnels, managed, desired, seen, result>> /\ Listed' = Listed
  BY DEF Plan, envVars, Listed, Shown
<1>2. \A k \in Endpoints : seen[k] # None <=> funnels[k] # Nothing
  BY <1>1, ShownExactly, ListedTyped DEF FunnelsOwned, IInv, TypeOK
<1>3. Foreign = {} BY <1>1, <1>2 DEF Foreign, FunnelsOwned
<1>4. CASE Stale # {}
  <2>1. pc' = "reset" /\ stale' = {} BY <1>3, <1>4 DEF Plan
  <2>2. QED BY <1>1, <2>1 DEF FunnelsOwned
<1>5. CASE Stale = {}
  <2>1. pc' = "apply" /\ stale' = {} BY <1>5 DEF Plan
  <2>2. \A k \in Endpoints : funnels[k] # Nothing => k \in todo'
    BY <1>1, <1>2, <1>5 DEF Stale, FunnelsOwned
  <2>3. QED BY <1>1, <2>1, <2>2 DEF FunnelsOwned
<1>6. QED BY <1>4, <1>5

LEMMA ResetOwned ==
  ASSUME IInv, FunnelsOwned, Orderly, Orderly', NEW err \in BOOLEAN, NEW done \in BOOLEAN,
         Reset(err, done)
  PROVE  FunnelsOwned'
<1>1. pc = "reset" /\ ~cancelled BY DEF Reset, Orderly
<1>2. ~err /\ done BY <1>1, FaultlessOutcome DEF Reset
<1>3. \A k \in Endpoints : funnels'[k] = Nothing BY <1>2 DEF Reset
<1>4. pc' = "apply" /\ stale' = {} BY <1>1, <1>2 DEF Reset, FunnelsOwned
<1>5. QED BY <1>3, <1>4 DEF FunnelsOwned

\* What is kept becomes applied, what is applied becomes owned.
LEMMA KeepFinishOwned ==
  ASSUME IInv, FunnelsOwned, Finish \/ \E k \in Endpoints : Keep(k)
  PROVE  FunnelsOwned'
<1> USE DEF FunnelsOwned, envVars
<1>1. CASE Finish BY <1>1 DEF Finish
<1>2. ASSUME NEW k \in Endpoints, Keep(k) PROVE FunnelsOwned'
  BY <1>2 DEF Keep
<1>3. QED BY <1>1, <1>2

LEMMA AddFunnelOwned ==
  ASSUME IInv, FunnelsOwned, Orderly, Orderly', NEW k \in Endpoints,
         NEW err \in BOOLEAN, NEW done \in BOOLEAN, AddFunnel(k, err, done)
  PROVE  FunnelsOwned'
<1>1. pc = "apply" /\ k \in todo /\ ~cancelled BY DEF AddFunnel, Orderly
<1>2. ~err /\ done BY <1>1, FaultlessOutcome DEF AddFunnel
<1>3. DestFor(desired, k) \in Addrs BY <1>1, DestTyped DEF IInv, TypeOK, TodoDesired
<1>4. PICK f : /\ funnels' = [funnels EXCEPT ![k] = f] /\ f.dest = DestFor(desired, k)
  <2> DEFINE f == [dest |-> DestFor(desired, k), by |-> "docktail"]
  <2>1. f.dest = DestFor(desired, k) OBVIOUS
  <2>2. funnels' = [funnels EXCEPT ![k] = f] BY <1>2 DEF AddFunnel
  <2> HIDE DEF f
  <2>3. QED BY <2>1, <2>2
<1>5. /\ funnels'[k].dest = DestFor(desired, k)
      /\ \A x \in Endpoints : x # k => funnels'[x] = funnels[x]
  BY <1>4 DEF IInv, TypeOK
<1>6. /\ pc' = "verify" /\ job' = k
      /\ UNCHANGED <<managed, desired, seen, stale, todo, applied, result>>
  BY <1>2 DEF AddFunnel
<1>7. QED BY <1>1, <1>3, <1>5, <1>6 DEF FunnelsOwned

\* The read that verifies an add shows the funnel the command has just created.
LEMMA VerifyOwned ==
  ASSUME IInv, FunnelsOwned, Orderly, Orderly', NEW err \in BOOLEAN, Verify(err)
  PROVE  FunnelsOwned'
<1>1. pc = "verify" /\ ~cancelled BY DEF Verify, Orderly
<1>2. ~err BY <1>1, FaultlessOutcome DEF Verify
<1>3. job \in todo /\ job \in Endpoints /\ DestFor(desired, job) \in Addrs
  BY <1>1, DestTyped DEF IInv, TypeOK, TodoDesired
<1>4. funnels[job].dest = DestFor(desired, job) BY <1>1 DEF FunnelsOwned
<1>5. funnels[job] # Nothing BY <1>3, <1>4, ConstantAssumption DEF Nothing
<1>6. Matches(Shown(job), DestFor(desired, job)) BY <1>4, <1>5 DEF Matches, Shown
<1>7. /\ applied' = applied \cup {job} /\ todo' = todo \ {job} /\ pc' = "apply"
      /\ UNCHANGED <<funnels, managed, desired, seen, stale, result>>
  BY <1>2, <1>6 DEF Verify, envVars
<1>8. QED BY <1>1, <1>7 DEF FunnelsOwned

\* The cleanup finds only funnels of its own: none, or all of them are reset.
LEMMA ShutdownOwned ==
  ASSUME IInv, FunnelsOwned, Orderly, Orderly',
         \/ LeaveLoop
         \/ \E err \in BOOLEAN : CleanupRead(err)
         \/ \E err, done \in BOOLEAN : CleanupReset(err, done)
  PROVE  FunnelsOwned'
<1> USE DEF FunnelsOwned, NoFunnels, envVars, planVars
<1>1. CASE LeaveLoop
  <2>1. CASE SkipShutdownCleanup BY <1>1, <2>1 DEF LeaveLoop, Vanish
  <2>2. CASE ~SkipShutdownCleanup BY <1>1, <2>2 DEF LeaveLoop
  <2>3. QED BY <2>1, <2>2
<1>2. ASSUME NEW err \in BOOLEAN, CleanupRead(err) PROVE FunnelsOwned'
  <2>1. pc = "stop" /\ ~cancelled BY <1>2 DEF CleanupRead, Orderly
  <2>2. ~err BY <1>2, <2>1, FaultlessOutcome DEF CleanupRead
  <2>3. UNCHANGED funnels /\ Listed' = Listed BY <1>2 DEF CleanupRead, Listed, Shown
  <2>4. \A k \in Endpoints : Shown(k) = None <=> funnels[k] = Nothing
    BY ShownExactly DEF IInv, TypeOK
  <2>5. ~\E k \in Endpoints \ managed : Shown(k) # None BY <2>1, <2>4
  <2>6. CASE \A k \in managed : Shown(k) = None
    <3>1. Vanish("ok") BY <1>2, <2>6 DEF CleanupRead
    <3>2. \A k \in Endpoints : funnels'[k] = Nothing BY <2>3, <2>4, <2>5, <2>6
    <3>3. QED BY <3>1, <3>2 DEF Vanish
  <2>7. CASE ~\A k \in managed : Shown(k) = None
    <3>1. /\ pc' = "stopReset"
          /\ UNCHANGED <<managed, desired, stale, todo, job, applied, result>>
      BY <1>2, <2>2, <2>5, <2>7 DEF CleanupRead
    <3>2. QED BY <2>1, <2>3, <3>1
  <2>8. QED BY <2>6, <2>7
<1>3. ASSUME NEW err \in BOOLEAN, NEW done \in BOOLEAN, CleanupReset(err, done)
      PROVE  FunnelsOwned'
  <2>1. pc = "stopReset" /\ ~cancelled BY <1>3 DEF CleanupReset, Orderly
  <2>2. ~err /\ done BY <1>3, <2>1, FaultlessOutcome DEF CleanupReset
  <2>3. \A k \in Endpoints : funnels'[k] = Nothing BY <1>3, <2>2 DEF CleanupReset
  <2>4. pc' = "down" BY <1>3 DEF CleanupReset, Vanish
  <2>5. QED BY <2>3, <2>4
<1>4. QED BY <1>1, <1>2, <1>3

LEMMA NextOwned ==
  IInv /\ FunnelsOwned /\ Orderly /\ Orderly' /\ [Next]_vars /\ [Restart => NoFunnels]_vars
    => FunnelsOwned'
<1> SUFFICES ASSUME IInv, FunnelsOwned, Orderly, Orderly', [Next]_vars,
                    [Restart => NoFunnels]_vars
             PROVE  FunnelsOwned'
  OBVIOUS
<1>1. CASE UNCHANGED vars
  BY <1>1 DEF vars, FunnelsOwned, NoFunnels, Listed, Shown
<1> SUFFICES ASSUME Next, Restart => NoFunnels PROVE FunnelsOwned' BY <1>1
<1>2. ASSUME NEW k \in Endpoints, NEW a \in Addrs, OperatorFunnel(k, a) PROVE FALSE
  <2>1. PICK f : funnels' = [funnels EXCEPT ![k] = f] /\ f.by = "operator"
    <3> DEFINE f == [dest |-> a, by |-> "operator"]
    <3>1. f.by = "operator" OBVIOUS
    <3>2. funnels' = [funnels EXCEPT ![k] = f] BY <1>2 DEF OperatorFunnel
    <3> HIDE DEF f
    <3>3. QED BY <3>1, <3>2
  <2>2. funnels'[k].by = "operator" BY <2>1 DEF IInv, TypeOK
  <2>3. QED BY <2>2 DEF Orderly
<1>3. CASE \/ \E c \in Containers, a \in Addrs : ContainerStart(c, a)
           \/ \E c \in Containers : ContainerStop(c)
           \/ Terminate \/ Crash \/ Restart \/ ServicesFail \/ BeginCycle
           \/ \E err \in BOOLEAN : ReadFunnels(err)
  BY <1>3, QuietOwned
<1>4. CASE Plan BY <1>4, PlanOwned
<1>5. CASE \E err, done \in BOOLEAN : Reset(err, done) BY <1>5, ResetOwned
<1>6. CASE Finish \/ \E k \in Endpoints : Keep(k) BY <1>6, KeepFinishOwned
<1>7. CASE \E k \in Endpoints, err, done \in BOOLEAN : AddFunnel(k, err, done)
  BY <1>7, AddFunnelOwned
<1>8. CASE \E err \in BOOLEAN : Verify(err) BY <1>8, VerifyOwned
<1>9. CASE \/ LeaveLoop
           \/ \E err \in BOOLEAN : CleanupRead(err)
           \/ \E err, done \in BOOLEAN : CleanupReset(err, done)
  BY <1>9, ShutdownOwned
<1>10. QED
  BY <1>2, <1>3, <1>4, <1>5, <1>6, <1>7, <1>8, <1>9 DEF Next, Process, Environment

\* What is left of the promise CleanupRemovesFunnels, which a SIGTERM in the middle of
\* a cycle breaks: as long as no command fails, nobody else uses Funnel, DockTail only
\* ever starts on a node without funnels and no signal cuts into the funnel half of a
\* cycle, a shutdown cleanup that reported success left no funnel up.
THEOREM OrderlyCleanup ==
  Spec /\ []Orderly /\ [][Restart => NoFunnels]_vars => []CleanupRemovesFunnels
<1>1. FunnelsOwned => CleanupRemovesFunnels
  BY DEF FunnelsOwned, NoFunnels, CleanupRemovesFunnels
<1>2. QED BY <1>1, InitOwned, NextOwned, SpecInv, PTL DEF Spec
=============================================================================
