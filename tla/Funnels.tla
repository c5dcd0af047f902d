------------------------------- MODULE Funnels -------------------------------
(***************************************************************************)
(* Tailscale Funnel: the node's public endpoints.  Unlike services they    *)
(* carry no owner, and the only way to remove one is `funnel reset`, which *)
(* removes all of them.  DockTail therefore remembers in managedFunnels    *)
(* which endpoints it set up, and resets only when everything it saw on    *)
(* the node is its own.  The module models reconcileFunnels (the tail of a *)
(* reconcile cycle) and the funnel half of CleanupAllServices, one CLI     *)
(* command per step, beside an operator who uses Funnel by hand.           *)
(*                                                                         *)
(* An endpoint is a funnelKey: a public port, with a path for HTTP(S).     *)
(***************************************************************************)
EXTENDS Naturals

CONSTANTS
  Containers,
  Endpoints, TCPEndpoints, \* public endpoints; those of TCP-style protocols
  Addrs,                   \* backend destinations
  None, Unshown,           \* no funnel; a funnel whose destination is not shown
  Label,                   \* [Containers -> Endpoints]: the docktail.funnel labels
  SkipShutdownCleanup,
  MaxChanges, MaxFaults

ASSUME ConstantAssumption ==
  /\ TCPEndpoints \subseteq Endpoints
  /\ None \notin Addrs /\ Unshown \notin Addrs /\ None # Unshown
  /\ Label \in [Containers -> Endpoints]
  /\ SkipShutdownCleanup \in BOOLEAN
  /\ MaxChanges \in Nat /\ MaxFaults \in Nat

VARIABLES
  running, addr, changes, faults,
  funnels,   \* [Endpoints -> Funnel]: the node's configuration
  managed,   \* managedFunnels
  pc, cancelled,
  desired,   \* the claims of this cycle
  seen,      \* currentFunnels: what the last status read reported
  stale,     \* staleManagedFunnels that could not be reset
  todo,      \* desired endpoints not handled yet
  job,       \* the endpoint being verified
  applied,   \* successfulFunnels
  failed, result

envVars  == <<running, addr, changes>>
planVars == <<stale, todo, job, applied, failed>>
vars == <<running, addr, changes, faults, funnels, managed, pc, cancelled, desired, seen,
          stale, todo, job, applied, failed, result>>

\* by (an observer) is who last set the endpoint.
Funnel == [dest : Addrs \cup {None}, by : {"nobody", "docktail", "operator"}]
Nothing == [dest |-> None, by |-> "nobody"]
Claim == [container : Containers, key : Endpoints, dest : Addrs]

ClaimsOf(S) == {[container |-> c, key |-> Label[c], dest |-> addr[c]] : c \in S}
\* Mutant: indexed by container.
DesiredByContainer(D) == {c.container : c \in D}
\* The index of desiredFunnels (desiredFunnelKey).
DesiredKeys(D) == {c.key : c \in D}
Duplicates(D) == {k \in Endpoints : \E c, d \in D : c # d /\ c.key = k /\ d.key = k}
DestFor(D, k) == (CHOOSE c \in D : c.key = k).dest

\* parseFunnelStatus: a TCP-style funnel is listed without its destination.
Shown(k) ==
  IF funnels[k] = Nothing THEN None
  ELSE IF k \in TCPEndpoints THEN Unshown ELSE funnels[k].dest
Listed == [k \in Endpoints |-> Shown(k)]
NothingListed == [k \in Endpoints |-> None]

\* Mutant: any funnel at the endpoint will do.
MatchesAny(v, d) == v # None
\* currentFunnelMatchesDesired
Matches(v, d) == v \in {Unshown, d}

\* A command's outcome, as in ServeReconcile.
Outcome(err, done) ==
  /\ cancelled => err /\ ~done
  /\ faults' = IF (err \/ ~done) /\ ~cancelled THEN faults + 1 ELSE faults
  /\ faults' <= MaxFaults

----------------------------------------------------------------------------
Init ==
  /\ running = {} /\ addr \in [Containers -> Addrs] /\ changes = 0 /\ faults = 0
  /\ funnels = [k \in Endpoints |-> Nothing] /\ managed = {}
  /\ pc = "idle" /\ cancelled = FALSE
  /\ desired = {} /\ seen = NothingListed
  /\ stale = {} /\ todo = {} /\ job = None /\ applied = {} /\ failed = FALSE
  /\ result = "none"

EnvStep == changes < MaxChanges /\ changes' = changes + 1

ContainerStart(c, a) ==
  /\ EnvStep
  /\ c \notin running
  /\ running' = running \cup {c}
  /\ addr' = [addr EXCEPT ![c] = a]
  /\ UNCHANGED <<faults, funnels, managed, pc, cancelled, desired, seen, planVars, result>>

ContainerStop(c) ==
  /\ EnvStep
  /\ c \in running
  /\ running' = running \ {c}
  /\ UNCHANGED <<addr, faults, funnels, managed, pc, cancelled, desired, seen, planVars, result>>

\* Somebody runs `tailscale funnel` on the node by hand.
OperatorFunnel(k, a) ==
  /\ EnvStep
  /\ funnels[k] = Nothing
  /\ funnels' = [funnels EXCEPT ![k] = [dest |-> a, by |-> "operator"]]
  /\ UNCHANGED <<running, addr, faults, managed, pc, cancelled, desired, seen, planVars, result>>

Terminate ==
  /\ EnvStep
  /\ pc \notin {"stop", "stopReset", "down"} /\ ~cancelled
  /\ cancelled' = TRUE
  /\ UNCHANGED <<running, addr, faults, funnels, managed, pc, desired, seen, planVars, result>>

\* The process ends; r is what its cleanup, if any, reported.
Vanish(r) ==
  /\ pc' = "down" /\ cancelled' = FALSE /\ managed' = {}
  /\ desired' = {} /\ seen' = NothingListed
  /\ stale' = {} /\ todo' = {} /\ job' = None /\ applied' = {} /\ failed' = FALSE
  /\ result' = r

Crash ==
  /\ EnvStep
  /\ pc # "down"
  /\ Vanish("none")
  /\ UNCHANGED <<running, addr, faults, funnels>>

\* A new process knows of no funnel of its own.
Restart ==
  /\ pc = "down"
  /\ pc' = "idle" /\ result' = "none"
  /\ UNCHANGED <<envVars, faults, funnels, managed, cancelled, desired, seen, planVars>>

(* ------------------------ the funnel half of a cycle --------------------- *)
\* The cycle's container snapshot; ReconcileServices then works on services.
BeginCycle ==
  /\ pc = "idle" /\ ~cancelled
  /\ desired' = ClaimsOf(running)
  /\ pc' = "services" /\ result' = "none"
  /\ UNCHANGED <<envVars, faults, funnels, managed, cancelled, seen, planVars>>

\* The cycle ends without a look at the funnels: a service command failed.
ServicesFail ==
  /\ pc = "services"
  /\ Outcome(TRUE, FALSE)
  /\ pc' = "idle" /\ result' = "error"
  /\ UNCHANGED <<envVars, funnels, managed, cancelled, desired, seen, planVars>>

\* getCurrentFunnels; a failed read counts as "no funnels". Two containers that
\* claim one endpoint end the pass.
ReadFunnels(err) ==
  /\ pc = "services"
  /\ Outcome(err, ~err)
  /\ seen' = IF err THEN NothingListed ELSE Listed
  /\ IF Duplicates(desired) # {}
     THEN pc' = "idle" /\ result' = "error"
     ELSE pc' = "plan" /\ UNCHANGED result
  /\ UNCHANGED <<envVars, funnels, managed, cancelled, desired, planVars>>

\* Mutant: nobody else uses Funnel.
ForeignIgnored == {k \in Endpoints : seen[k] = None /\ seen[k] # None}
\* unmanagedCurrentFunnels
Foreign == {k \in Endpoints : seen[k] # None /\ k \notin managed}
\* Mutant: stopped containers are not looked for.
StaleNever == managed \cap {k \in Endpoints : seen[k] # None /\ seen[k] = None}
\* staleManagedFunnels
Stale == {k \in managed : seen[k] # None /\ k \notin DesiredKeys(desired)}

\* Stale funnels are reset only when the node shows no foreign one.
Plan ==
  /\ pc = "plan"
  /\ todo' = DesiredKeys(desired)
  /\ applied' = {} /\ failed' = FALSE
  /\ IF Stale # {} /\ Foreign = {}
     THEN pc' = "reset" /\ stale' = {}
     ELSE pc' = "apply" /\ stale' = Stale
  /\ UNCHANGED <<envVars, faults, funnels, managed, cancelled, desired, seen, job, result>>

\* resetFunnels; its failure ends the pass and the ownership stays as it was.
Reset(err, done) ==
  /\ pc = "reset"
  /\ ~err => done
  /\ Outcome(err, done)
  /\ funnels' = IF done THEN [k \in Endpoints |-> Nothing] ELSE funnels
  /\ IF err
     THEN pc' = "idle" /\ result' = "error" /\ todo' = {} /\ UNCHANGED seen
     ELSE pc' = "apply" /\ seen' = NothingListed /\ UNCHANGED <<result, todo>>
  /\ UNCHANGED <<envVars, managed, cancelled, desired, stale, job, applied, failed>>

\* The endpoint is configured correctly; from here on it is DockTail's.
Keep(k) ==
  /\ pc = "apply" /\ k \in todo
  /\ Matches(seen[k], DestFor(desired, k))
  /\ applied' = applied \cup {k}
  /\ todo' = todo \ {k}
  /\ UNCHANGED <<envVars, faults, funnels, managed, pc, cancelled, desired, seen, stale, job,
                 failed, result>>

\* addFunnel: the command. It may succeed without creating the funnel (policy).
AddFunnel(k, err, done) ==
  /\ pc = "apply" /\ k \in todo
  /\ ~Matches(seen[k], DestFor(desired, k))
  /\ Outcome(err, done)
  /\ funnels' = IF done
                THEN [funnels EXCEPT ![k] = [dest |-> DestFor(desired, k), by |-> "docktail"]]
                ELSE funnels
  /\ IF err
     THEN failed' = TRUE /\ todo' = todo \ {k} /\ UNCHANGED <<pc, job>>
     ELSE pc' = "verify" /\ job' = k /\ UNCHANGED <<failed, todo>>
  /\ UNCHANGED <<envVars, managed, cancelled, desired, seen, stale, applied, result>>

\* addFunnel: the status read that verifies it.
Verify(err) ==
  /\ pc = "verify"
  /\ Outcome(err, ~err)
  /\ IF ~err /\ Matches(Shown(job), DestFor(desired, job))
     THEN applied' = applied \cup {job} /\ UNCHANGED failed
     ELSE failed' = TRUE /\ UNCHANGED applied
  /\ todo' = todo \ {job}
  /\ pc' = "apply" /\ job' = None
  /\ UNCHANGED <<envVars, funnels, managed, cancelled, desired, seen, stale, result>>

\* What was applied, and what was stale but could not be reset, is DockTail's.
Finish ==
  /\ pc = "apply" /\ todo = {}
  /\ managed' = applied \cup stale
  /\ result' = IF failed THEN "error" ELSE "ok"
  /\ stale' = {} /\ applied' = {} /\ failed' = FALSE
  /\ pc' = "idle"
  /\ UNCHANGED <<envVars, faults, funnels, cancelled, desired, seen, todo, job>>

(* ------------------------------- shutdown -------------------------------- *)
LeaveLoop ==
  /\ pc = "idle" /\ cancelled
  /\ IF SkipShutdownCleanup
     THEN Vanish("none")
     ELSE /\ pc' = "stop" /\ cancelled' = FALSE /\ result' = "none" /\ desired' = {}
          /\ UNCHANGED <<managed, seen, planVars>>
  /\ UNCHANGED <<envVars, faults, funnels>>

\* CleanupAllServices: reset if something is owned and nothing is foreign. A
\* failed read only skips the funnels.
CleanupRead(err) ==
  /\ pc = "stop"
  /\ Outcome(err, ~err)
  /\ IF err \/ (\A k \in managed : Shown(k) = None)
            \/ (\E k \in Endpoints \ managed : Shown(k) # None)
     THEN Vanish("ok")
     ELSE /\ pc' = "stopReset" /\ seen' = Listed
          /\ UNCHANGED <<managed, cancelled, desired, planVars, result>>
  /\ UNCHANGED <<envVars, funnels>>

CleanupReset(err, done) ==
  /\ pc = "stopReset"
  /\ ~err => done
  /\ Outcome(err, done)
  /\ funnels' = IF done THEN [k \in Endpoints |-> Nothing] ELSE funnels
  /\ Vanish(IF err THEN "error" ELSE "ok")
  /\ UNCHANGED envVars

----------------------------------------------------------------------------
Process ==
  \/ BeginCycle
  \/ \E err \in BOOLEAN : ReadFunnels(err)
  \/ Plan
  \/ \E err, done \in BOOLEAN : Reset(err, done)
  \/ \E k \in Endpoints : Keep(k)
  \/ \E k \in Endpoints, err, done \in BOOLEAN : AddFunnel(k, err, done)
  \/ \E err \in BOOLEAN : Verify(err)
  \/ Finish
  \/ LeaveLoop
  \/ \E err \in BOOLEAN : CleanupRead(err)
  \/ \E err, done \in BOOLEAN : CleanupReset(err, done)

Environment ==
  \/ \E c \in Containers, a \in Addrs : ContainerStart(c, a)
  \/ \E c \in Containers : ContainerStop(c)
  \/ \E k \in Endpoints, a \in Addrs : OperatorFunnel(k, a)
  \/ Terminate
  \/ Crash
  \/ Restart
  \/ ServicesFail

Next == Process \/ Environment

Spec == Init /\ [][Next]_vars
\* Cycles keep coming and sequential code keeps taking its next step.
FairSpec == Spec /\ WF_vars(Process)
----------------------------------------------------------------------------
PCs == {"idle", "services", "plan", "reset", "apply", "verify", "stop", "stopReset", "down"}

TypeOK ==
  /\ running \subseteq Containers /\ addr \in [Containers -> Addrs]
  /\ changes \in Nat /\ faults \in Nat
  /\ funnels \in [Endpoints -> Funnel]
  /\ managed \subseteq Endpoints
  /\ pc \in PCs /\ cancelled \in BOOLEAN
  /\ desired \subseteq Claim
  /\ seen \in [Endpoints -> Addrs \cup {None, Unshown}]
  /\ stale \subseteq Endpoints /\ todo \subseteq Endpoints /\ applied \subseteq Endpoints
  /\ job \in Endpoints \cup {None}
  /\ failed \in BOOLEAN /\ result \in {"none", "ok", "error"}

\* DockTail never destroys an operator's funnel it saw on the node and did not
\* count as its own, except by putting a funnel of a container in its place. What
\* is left open is a funnel that appears between the status read and the reset,
\* and one DockTail adopted because it matched a label.
ForeignFunnelsKept ==
  [][\A k \in Endpoints :
       (funnels[k].by = "operator" /\ funnels'[k] # funnels[k]) =>
         k \in managed \/ k \in DesiredKeys(desired) \/ seen[k] = None]_vars

\* A cycle that reported success left every HTTP(S) funnel the labels ask for up
\* and pointing at its container.
SuccessMeansFunnelled ==
  (pc = "idle" /\ result = "ok") =>
    \A k \in DesiredKeys(desired) \ TCPEndpoints : funnels[k].dest = DestFor(desired, k)

\* A shutdown cleanup that reported no error, on a node nobody else uses Funnel
\* on, leaves no funnel up. (A SIGTERM in the middle of a cycle makes the pass
\* fail, which empties managedFunnels, and the cleanup then owns nothing.)
CleanupRemovesFunnels ==
  (pc = "down" /\ result = "ok" /\ \A k \in Endpoints : funnels[k].by # "operator") =>
    \A k \in Endpoints : funnels[k] = Nothing

\* Nothing has made DockTail forget what it owns or keeps it from a reset: no
\* failure, no restart, no operator's funnel.
Undisturbed ==
  faults = 0 /\ pc # "down" /\ \A k \in Endpoints : funnels[k].by # "operator"

\* Once changes and failures stop, the HTTP(S) funnels of the running containers
\* are up and lead to them, unless two containers claim one endpoint or DockTail is
\* down; and if nothing ever disturbed it, every other funnel is gone.
FunnelsSettle ==
  LET now == ClaimsOf(running) IN
  /\ <>[](\/ pc = "down" \/ Duplicates(now) # {}
          \/ \A k \in DesiredKeys(now) \ TCPEndpoints : funnels[k].dest = DestFor(now, k))
  /\ []Undisturbed =>
       <>[](\/ Duplicates(now) # {}
            \/ \A k \in Endpoints : funnels[k] # Nothing => k \in DesiredKeys(now))
=============================================================================
