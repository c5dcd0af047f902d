---------------------------- MODULE CloudChecks ----------------------------
(***************************************************************************)
(* The local checks of the cloud collector and the log excerpts they lead  *)
(* to (cloud.Collector.checkLoop, runChecks, captureOnCheckFailures).      *)
(*                                                                         *)
(* Every accepted connection starts a check loop. The loop of a lost       *)
(* connection finishes its round beside the loop of the next one, and all  *)
(* of them share the failure streaks in c.checkFails and the service list  *)
(* c.latest, which the reconciler (running containers) and the discovery   *)
(* loop (all containers) overwrite. Services are numbered in list order.   *)
(***************************************************************************)
EXTENDS Naturals, FiniteSets, FiniteSetsExt

CONSTANTS
  Keys,        \* service keys, one container each
  LabelOff,    \* those labelled docktail.cloud.logs=off
  Changing,    \* those whose containers change
  Flaky,       \* those whose containers are not always inspected with success
  Threshold,   \* incidentCaptureThreshold
  MaxConns,    \* bound on connections; the last one stays up
  MaxEvents    \* bound on changes of the containers, configurations pushed by the cloud
               \* and lists cut short by a failed inspection, together

Conns == 1..MaxConns

ASSUME ConstantAssumption ==
  /\ Keys \subseteq Nat /\ IsFiniteSet(Keys) /\ LabelOff \subseteq Keys
  /\ Changing \subseteq Keys /\ Flaky \subseteq Keys
  /\ Threshold \in Nat \ {0}
  /\ MaxConns \in Nat /\ MaxEvents \in Nat

VARIABLES
  \* the collector
  latest,       \* c.latest
  checkFails,   \* [Keys -> Nat]: consecutive failures, those past the threshold alike
  unmonitored,  \* c.unmonitored
  capture,      \* c.logMode is not off
  loop,         \* [Conns -> [pc, seen, todo, bad, took]]: the check loops; bad are
                \* the failed probes, took the services an excerpt was taken for
  \* the surroundings
  containers,   \* [Keys -> {"up", "sick", "stopped"}]
  cycle,        \* a reconcile cycle is under way
  listed,       \* the list it works from
  conns, dead,  \* connections accepted so far, and those whose context is cancelled
  events,
  \* observers
  due,          \* [Changing -> Nat]: how often a live connection's round came to the
                \* threshold since the container broke or changed its state
  torn          \* those whose streak was since cut by a prune or an outdated result

collVars == <<latest, checkFails, unmonitored, capture>>
envVars  == <<containers, cycle, listed, conns, dead, events>>
obsVars  == <<due, torn>>
vars == <<collVars, loop, envVars, obsVars>>

Off == [pc |-> "off", seen |-> {}, todo |-> {}, bad |-> {},
        took |-> {}]

\* The containers that fail their checks and may do so for good.
Watched == {s \in Changing : containers[s] # "up"}
Running == {s \in Keys : containers[s] # "stopped"}

Init ==
  /\ latest = {} /\ checkFails = [s \in Keys |-> 0] /\ unmonitored = FALSE /\ capture = FALSE
  /\ loop = [k \in Conns |-> Off]
  /\ containers \in [Keys -> {"up", "sick", "stopped"}]
  /\ \A s \in Keys \ Changing : containers[s] = "up"
  /\ cycle = FALSE /\ listed = {} /\ conns = 0 /\ dead = {} /\ events = 0
  /\ due = [s \in Changing |-> 0] /\ torn = {}

Happens == events < MaxEvents /\ events' = events + 1

----------------------------------------------------------------------------
(* The service list. *)

\* A list misses the services in M, whose containers could not be inspected.
Misses(M) == IF M = {} THEN UNCHANGED events ELSE Happens

\* GetEnabledContainers: the reconciler lists the running containers at the start of a
\* cycle, but for those whose inspection fails ...
List ==
  /\ \E M \in SUBSET (Running \cap Flaky) : Misses(M) /\ listed' = Running \ M
  /\ cycle' = TRUE
  /\ UNCHANGED <<collVars, loop, containers, conns, dead, obsVars>>

\* ... and hands the list over when the cycle has succeeded. One that fails never does.
OnReconcile ==
  /\ cycle /\ cycle' = FALSE
  /\ latest' = listed /\ listed' = {}
  /\ UNCHANGED <<checkFails, unmonitored, capture, loop, containers, conns, dead,
                 events, obsVars>>

Live(k) == k \in 1..conns \ dead

\* scanAndSnapshot lists the stopped containers too, but not those whose inspection
\* failed while they ran; they may have stopped since. The last scan of a lost
\* connection, its inspections cancelled from some container on, still becomes the list.
\* An unmonitored host scans rarely.
Scan(k) ==
  /\ k \in 1..conns
  /\ \E M \in SUBSET Flaky : Misses(M) /\ latest' = Keys \ M
  /\ UNCHANGED <<checkFails, unmonitored, capture, loop, containers, cycle, listed, conns, dead,
                 obsVars>>

----------------------------------------------------------------------------
(* Connections, configurations and containers. *)

Accept ==
  /\ conns < MaxConns /\ 1..conns \subseteq dead
  /\ conns' = conns + 1
  /\ loop' = [loop EXCEPT ![conns + 1] = [Off EXCEPT !.pc = "idle"]]
  /\ UNCHANGED <<collVars, containers, cycle, listed, dead, events, obsVars>>

\* The connection is lost: connCancel.
Disconnect(k) ==
  /\ Live(k) /\ k < MaxConns
  /\ dead' = dead \cup {k}
  /\ UNCHANGED <<collVars, loop, containers, cycle, listed, conns, events, obsVars>>

ApplyConfig ==
  /\ \E k \in Conns : Live(k)
  /\ Happens
  /\ unmonitored' \in BOOLEAN /\ capture' \in BOOLEAN
  /\ <<unmonitored', capture'>> # <<unmonitored, capture>>
  /\ UNCHANGED <<latest, checkFails, loop, containers, cycle, listed, conns, dead, obsVars>>

ContainerChanges(s) ==
  /\ Happens
  /\ \E c \in {"up", "sick", "stopped"} \ {containers[s]} :
       containers' = [containers EXCEPT ![s] = c]
  /\ due' = [due EXCEPT ![s] = 0] /\ torn' = torn \ {s}
  /\ UNCHANGED <<collVars, loop, cycle, listed, conns, dead>>

----------------------------------------------------------------------------
(* The check loop of connection k. *)

\* Mutant: the list is read a second time for the probes.
RunChecksReadsTwice(k) ==
  /\ loop[k].pc = "idle" /\ ~unmonitored /\ latest # {}
  /\ \E again \in {latest, listed} : again # {} /\
       loop' = [loop EXCEPT ![k] = [Off EXCEPT !.pc = "probe", !.seen = latest, !.todo = again]]
  /\ UNCHANGED <<collVars, envVars, obsVars>>
\* runChecks: the list and the monitored flag are read once, before the probes.
RunChecks(k) ==
  /\ loop[k].pc = "idle" /\ ~unmonitored /\ latest # {}
  /\ loop' = [loop EXCEPT ![k] = [Off EXCEPT !.pc = "probe", !.seen = latest, !.todo = latest]]
  /\ UNCHANGED <<collVars, envVars, obsVars>>

LoopExit(k) ==
  /\ loop[k].pc = "idle" /\ k \in dead
  /\ loop' = [loop EXCEPT ![k] = Off]
  /\ UNCHANGED <<collVars, envVars, obsVars>>

\* checker.run: with the context cancelled every probe fails at once, which befalls the
\* services from some point of the list on. The results are sent, then counted.
Probe(k) ==
  /\ loop[k].pc = "probe"
  /\ \E cut \in IF k \in dead THEN loop[k].todo ELSE {Max(Keys) + 1} :
       LET moot == {s \in loop[k].todo : s >= cut}
           bad == moot \cup {s \in loop[k].todo : containers[s] # "up"} IN
       loop' = [loop EXCEPT ![k].pc = "count", ![k].bad = bad]
  /\ UNCHANGED <<collVars, envVars, obsVars>>

\* The streaks of the services in S end.
Reset(S) == checkFails' = [s \in Keys |-> IF s \in S THEN 0 ELSE checkFails[s]]

\* Mutant: every failure from the threshold on takes an excerpt.
AtEdgeOrPast(n) == n >= Threshold
AtEdge(n) == n = Threshold

\* captureOnCheckFailures, one result: the streak is updated under the lock.
CountOK(k) ==
  LET s == Min(loop[k].todo) IN
  /\ loop[k].pc = "count" /\ loop[k].todo # {} /\ s \notin loop[k].bad
  /\ Reset({s})
  /\ loop' = [loop EXCEPT ![k].todo = @ \ {s}]
  /\ torn' = IF k \in dead THEN torn \cup ({s} \cap Watched) ELSE torn
  /\ UNCHANGED <<latest, unmonitored, capture, envVars, due>>

CountFailure(k) ==
  LET s == Min(loop[k].todo)
      n == checkFails[s] + 1 IN
  /\ loop[k].pc = "count" /\ loop[k].todo # {} /\ s \in loop[k].bad
  /\ checkFails' = [checkFails EXCEPT ![s] = IF n > Threshold THEN Threshold + 1 ELSE n]
  /\ loop' = IF AtEdge(n) THEN [loop EXCEPT ![k].pc = "log"]
                          ELSE [loop EXCEPT ![k].todo = @ \ {s}]
  /\ due' = IF AtEdge(n) /\ k \notin dead /\ s \in Watched
            THEN [due EXCEPT ![s] = IF @ = 2 THEN 2 ELSE @ + 1] ELSE due
  /\ UNCHANGED <<latest, unmonitored, capture, envVars, torn>>

\* logModeFor: the label is looked up in the list of the moment.
Captures(s) == capture /\ ~(s \in LabelOff /\ s \in latest)

MayRead(k) == k \notin dead

\* captureAndSend: an excerpt, unless capture is off or the logs cannot be read.
Capture(k) ==
  LET s == Min(loop[k].todo) IN
  /\ loop[k].pc = "log"
  /\ \E got \in SUBSET {s} :
       /\ got # {} => Captures(s) /\ MayRead(k)
       /\ loop' = [loop EXCEPT ![k].pc = "count", ![k].todo = @ \ {s}, ![k].took = @ \cup got]
  /\ UNCHANGED <<collVars, envVars, obsVars>>

\* Mutant: every streak is dropped.
PrunedAll(k) == Keys
\* pruneCheckFails drops the streaks of services this round did not see.
Pruned(k) == Keys \ loop[k].seen

Prune(k) ==
  /\ loop[k].pc = "count" /\ loop[k].todo = {}
  /\ Reset(Pruned(k))
  /\ torn' = torn \cup (Pruned(k) \cap Watched)
  /\ loop' = [loop EXCEPT ![k] = [Off EXCEPT !.pc = "idle"]]
  /\ UNCHANGED <<latest, unmonitored, capture, envVars, due>>

----------------------------------------------------------------------------
Round(k) ==
  RunChecks(k) \/ Probe(k) \/ CountOK(k) \/ CountFailure(k) \/ Capture(k) \/ Prune(k)

Next ==
  \/ List \/ OnReconcile \/ Accept \/ ApplyConfig
  \/ \E s \in Changing : ContainerChanges(s)
  \/ \E k \in Conns : Scan(k) \/ Disconnect(k) \/ Round(k) \/ LoopExit(k)

Spec == Init /\ [][Next]_vars
\* The collector reconnects, its discovery ticks on while a connection is up, and every
\* check loop goes on and notices in the end that its context is cancelled. Of the
\* reconciler nothing is asked: its cycles may fail for ever.
FairSpec ==
  /\ Spec /\ WF_vars(Accept)
  /\ \A k \in Conns : WF_vars(Live(k) /\ Scan(k)) /\ WF_vars(Round(k)) /\ SF_vars(LoopExit(k))

----------------------------------------------------------------------------
(* Properties. *)

PCs == {"off", "idle", "probe", "count", "log"}

TypeOK ==
  /\ latest \subseteq Keys /\ checkFails \in [Keys -> 0..Threshold + 1]
  /\ unmonitored \in BOOLEAN /\ capture \in BOOLEAN
  /\ \A k \in Conns :
       /\ loop[k].pc \in PCs /\ loop[k].seen \subseteq Keys
       /\ loop[k].todo \subseteq loop[k].seen
       /\ loop[k].bad \subseteq loop[k].seen
       /\ loop[k].took \subseteq loop[k].seen
  /\ containers \in [Keys -> {"up", "sick", "stopped"}] /\ listed \subseteq Keys
  /\ conns \in 0..MaxConns /\ dead \subseteq 1..conns
  /\ cycle \in BOOLEAN /\ events \in 0..MaxEvents
  /\ due \in [Changing -> 0..2] /\ torn \subseteq Changing

\* While a container stays in the state it is in, at most one excerpt is due for it
\* ("Capture fires exactly once per failing episode"), unless its streak was cut: by
\* a round that worked from a list without it, stopped or not inspected, or by a result
\* that the round of a lost connection had obtained earlier. Rounds that mix in any
\* other way never repeat an excerpt.
OnceUnlessTorn == \A s \in Changing : due[s] > 1 => s \in torn

\* A running container that keeps failing while the host is monitored comes to the
\* threshold and stays past it, once inspections no longer fail: stale lists, the results
\* of an older round and the pruning of streaks only delay it, whether the reconcile
\* cycles succeed or not.
FailingIsNoticed ==
  \A s \in Keys : <>[](containers[s] = "sick" /\ ~unmonitored) => <>[](checkFails[s] >= Threshold)

\* What docs/04-labels.md says of docktail.cloud.logs=off: "Never capture incident
\* log excerpts for this container."
OptOutHonoured == \A k \in Conns : loop[k].took \cap LabelOff = {}
=============================================================================
