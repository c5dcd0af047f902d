--------------------------- MODULE ServeReconcile ---------------------------
(***************************************************************************)
(* DockTail's core: one process that repeatedly compares the services the  *)
(* labels of the running containers ask for with what the local tailscaled *)
(* serves and advertises, and issues one `tailscale` command at a time to  *)
(* close the gap (tailscale.Client.ReconcileServices), plus the cleanup it *)
(* runs on shutdown (CleanupAllServices).                                  *)
(*                                                                         *)
(* Every command, status read and API pass is a step of its own, so        *)
(* container starts and stops, an operator's `serve drain`, SIGTERM, a     *)
(* crash and a restart interleave with a cycle anywhere.  A command can    *)
(* fail, and a command that reports failure may still have taken effect.   *)
(***************************************************************************)
EXTENDS Naturals

CONSTANTS
  Containers,          \* containers DockTail may see
  Names, Ports,        \* service names (normalised) and service ports
  Protos, HTTPProtos,  \* service protocols; the ones with a path
  Paths, NoPath,       \* HTTP(S) mount points; the "path" of a TCP forward
  LooksLike,           \* [Ports -> SUBSET Ports]: ports whose digits start with p's
  Addrs,               \* backend destinations (with their PROXY protocol setting)
  None,                \* "nothing here" in the protocol field
  Labels,              \* [Containers -> SUBSET Label]: what each one declares
  Ignored,             \* IGNORE_SERVICE_NAMES
  Preconfigured,       \* what the node serves before DockTail first starts
  APISync,             \* API credentials configured
  SkipShutdownCleanup, \* SKIP_SHUTDOWN_CLEANUP
  MaxChanges,          \* bound on environment steps
  MaxFaults            \* bound on failed reads, commands and API passes

Keys == Names \X Ports

\* One docktail.service[.idx] block of a container's labels. path is the
\* normalised one: a TCP block cannot set it and has the root path.
Label == [idx : Nat, name : Names, port : Ports, proto : Protos, path : Paths]

\* A parsed ContainerService: the label block and the resolved backend.
Claim == [container : Containers, label : Label, dest : Addrs]

\* A port of a service in tailscaled's Serve configuration.
Endpoint == [proto : Protos \cup {None},
             handlers : SUBSET ((Paths \cup {NoPath}) \X Addrs)]
NoEndpoint == [proto |-> None, handlers |-> {}]
\* A port without handlers does not exist; exactly HTTP(S) handlers have a path.
WellFormed(e) ==
  /\ e.proto = None <=> e.handlers = {}
  /\ \A h \in e.handlers : h[1] = NoPath <=> e.proto \notin HTTPProtos

\* ServiceEndpoint: what GetCurrentServices reports for a port.
View == [proto : Protos \cup {None}, path : Paths \cup {NoPath}, dest : Addrs \cup {None}]
NoView == [proto |-> None, path |-> NoPath, dest |-> None]

ASSUME ConstantAssumption ==
  /\ HTTPProtos \subseteq Protos
  /\ None \notin Protos /\ None \notin Addrs /\ NoPath \notin Paths
  /\ Labels \in [Containers -> SUBSET Label]
  /\ LooksLike \in [Ports -> SUBSET Ports]
  /\ \A p \in Ports : p \in LooksLike[p]
  /\ Ignored \subseteq Names
  /\ Preconfigured \in [Keys -> Endpoint]
  /\ \A k \in Keys : WellFormed(Preconfigured[k])
  /\ APISync \in BOOLEAN /\ SkipShutdownCleanup \in BOOLEAN
  /\ MaxChanges \in Nat /\ MaxFaults \in Nat

VARIABLES
  \* the environment
  running,       \* running containers
  addr,          \* the destination each container resolves to
  changes,       \* environment steps taken so far
  faults,        \* failures injected so far
  \* the node and the control plane
  serve,         \* [Keys -> Endpoint]: tailscaled's Serve configuration
  advertised,    \* prefs.AdvertiseServices
  defined,       \* Service definitions known to the control plane
  \* the DockTail process
  pc,            \* where the process is
  cancelled,     \* SIGTERM cancelled the context
  desired,       \* desiredServices of this cycle: a set of claims
  current,       \* currentServices of this cycle
  toRemove,      \* endpoints to remove (keys; one command pair each)
  toAdd,         \* endpoints to add or update
  pathsToRemove, \* <<key, old path>> to switch off before the add
  toAdvertise,   \* names whose advertisement is restored
  job,           \* the key the multi-command operation in progress is about
  failed,        \* some counted command of the cycle, or of the cleanup, failed
  result,        \* outcome of the last cycle
  \* observers
  cleared,       \* names this cycle issued an effective `serve clear` for
  unsynced       \* names whose definition sync failed in this cycle

envVars   == <<running, addr, changes>>
nodeVars  == <<serve, advertised, defined>>
planVars  == <<toRemove, toAdd, pathsToRemove, toAdvertise>>
vars == <<running, addr, changes, faults, serve, advertised, defined, pc, cancelled,
          desired, current, toRemove, toAdd, pathsToRemove, toAdvertise, job,
          failed, result, cleared, unsynced>>

NoJob == <<None, None>>

PCs == {"idle", "status", "prefs", "remove", "clear", "sync", "add", "addCmd",
        "retryClear", "retryAdd", "advertise", "stop", "cleanup", "cleanupClear", "down"}
\* A cycle holds a snapshot of the desired services at these places.
CyclePCs == {"status", "prefs", "remove", "clear", "sync", "add", "addCmd",
             "retryClear", "retryAdd", "advertise"}

----------------------------------------------------------------------------
(* Desired state: labels to claims to endpoints. *)

\* desiredServiceKey
KeyOf(c) == <<c.label.name, c.label.port>>

\* GetEnabledContainers over the containers that parse.
ClaimsOf(S) ==
  UNION {{[container |-> c, label |-> l, dest |-> addr[c]] : l \in Labels[c]} : c \in S}

\* buildDesiredServiceMap: a key claimed more than once is a conflict ...
Conflicts(D) == {k \in Keys : \E c, d \in D : c # d /\ KeyOf(c) = k /\ KeyOf(d) = k}
\* Mutant: the last claimant wins.
DesiredKeysLastWins(D) == {KeyOf(c) : c \in D}
\* ... and is left out of the desired map.
DesiredKeys(D) == {KeyOf(c) : c \in D} \ Conflicts(D)
ClaimFor(D, k) == CHOOSE c \in D : KeyOf(c) = k
ConflictedNames(D) == {k[1] : k \in Conflicts(D)}

\* Mutant: the ignore list is not consulted.
IgnoreNothing(n) == n \in {}
\* shouldIgnoreService
ShouldIgnore(n) == n \in Ignored

\* normalizeServicePath, for the protocols that have a path
ServePath(c) == IF c.label.proto \in HTTPProtos THEN c.label.path ELSE NoPath

----------------------------------------------------------------------------
(* The tailscale CLI (external): what a command does to the node. *)

\* `tailscale serve --service=... --<proto>=<port> [--set-path=...] <dest>`
ServeSet(e, c) ==
  [proto |-> c.label.proto,
   handlers |-> {h \in e.handlers : c.label.proto \in HTTPProtos /\ h[1] # ServePath(c)}
                  \cup {<<ServePath(c), c.dest>>}]

\* It refuses a port that already serves another protocol (isConfigConflictError).
Refused(c) == serve[KeyOf(c)].proto \notin {None, c.label.proto}

\* `... --set-path=<path> off`: the port disappears with its last handler.
PathOff(e, path) ==
  LET rest == {h \in e.handlers : h[1] # path}
  IN IF rest = {} THEN NoEndpoint ELSE [proto |-> e.proto, handlers |-> rest]

\* `tailscale serve clear <name>` drops every port of the service.
ServeCleared(n) == [k \in Keys |-> IF k[1] = n THEN NoEndpoint ELSE serve[k]]

\* serviceHandler: which handlers may be taken for port k's. The web keys that
\* contain ":<port>" are those of every port that starts with the same digits.
HandlersFor(k) ==
  IF serve[k].proto \in HTTPProtos
  THEN UNION {serve[<<k[1], q>>].handlers :
                q \in {p \in LooksLike[k[2]] : serve[<<k[1], p>>].proto \in HTTPProtos}}
  ELSE serve[k].handlers

\* parseManagedServices: what GetCurrentServices may report for a port. The
\* handler is whichever Go's random map iteration meets first.
ViewsOf(k) ==
  IF serve[k] = NoEndpoint THEN {NoView}
  ELSE {[proto |-> serve[k].proto, path |-> h[1], dest |-> h[2]] : h \in HandlersFor(k)}

\* What GetCurrentServices may return without an error: one view of every port,
\* or, when it is blank, no service at all. It is blank, and still a success, when
\* the status JSON does not parse or the command's failure mentions "not found".
CurrentServices(blank) ==
  IF blank THEN {[k \in Keys |-> NoView]}
  ELSE {cur \in [Keys -> UNION {ViewsOf(k) : k \in Keys}] : \A k \in Keys : cur[k] \in ViewsOf(k)}

\* A command's outcome: reported failure (err), effect on the node (done).
\* After cancellation exec fails before the command starts.
Outcome(err, done) ==
  /\ ~err => done
  /\ cancelled => err /\ ~done
  /\ faults' = IF err /\ ~cancelled THEN faults + 1 ELSE faults
  /\ faults' <= MaxFaults

----------------------------------------------------------------------------
Init ==
  /\ running = {}
  /\ addr \in [Containers -> Addrs]
  /\ changes = 0 /\ faults = 0
  /\ serve = Preconfigured
  /\ advertised = {k[1] : k \in {x \in Keys : Preconfigured[x] # NoEndpoint}}
  /\ defined = {}
  /\ pc = "idle" /\ cancelled = FALSE
  /\ desired = {} /\ current = [k \in Keys |-> NoView]
  /\ toRemove = {} /\ toAdd = {} /\ pathsToRemove = {} /\ toAdvertise = {}
  /\ job = NoJob /\ failed = FALSE /\ result = "none"
  /\ cleared = {} /\ unsynced = {}

(* ------------------------------ environment ------------------------------ *)
EnvStep == changes < MaxChanges /\ changes' = changes + 1

\* A container starts, possibly on another address than last time.
ContainerStart(c, a) ==
  /\ EnvStep
  /\ c \notin running
  /\ running' = running \cup {c}
  /\ addr' = [addr EXCEPT ![c] = a]
  /\ UNCHANGED <<faults, nodeVars, pc, cancelled, desired, current, planVars, job,
                 failed, result, cleared, unsynced>>

ContainerStop(c) ==
  /\ EnvStep
  /\ c \in running
  /\ running' = running \ {c}
  /\ UNCHANGED <<addr, faults, nodeVars, pc, cancelled, desired, current, planVars, job,
                 failed, result, cleared, unsynced>>

\* An operator drains a service by hand.
OperatorDrain(n) ==
  /\ EnvStep
  /\ n \in advertised
  /\ advertised' = advertised \ {n}
  /\ UNCHANGED <<running, addr, faults, serve, defined, pc, cancelled, desired, current,
                 planVars, job, failed, result, cleared, unsynced>>

\* SIGTERM: the signal goroutine cancels the context of the loop.
Terminate ==
  /\ EnvStep
  /\ pc \notin {"stop", "cleanup", "cleanupClear", "down"}
  /\ ~cancelled
  /\ cancelled' = TRUE
  /\ UNCHANGED <<running, addr, faults, nodeVars, pc, desired, current, planVars, job,
                 failed, result, cleared, unsynced>>

\* Everything the process holds in memory is gone.
Vanish ==
  /\ pc' = "down" /\ cancelled' = FALSE
  /\ desired' = {} /\ current' = [k \in Keys |-> NoView]
  /\ toRemove' = {} /\ toAdd' = {} /\ pathsToRemove' = {} /\ toAdvertise' = {}
  /\ job' = NoJob /\ failed' = FALSE /\ result' = "none"
  /\ cleared' = {} /\ unsynced' = {}

\* SIGKILL, a crash, or the socket watchdog's log.Fatal.
Crash ==
  /\ EnvStep
  /\ pc # "down"
  /\ Vanish
  /\ UNCHANGED <<running, addr, faults, nodeVars>>

Restart ==
  /\ pc = "down"
  /\ pc' = "idle"
  /\ UNCHANGED <<envVars, faults, nodeVars, cancelled, desired, current, planVars, job,
                 failed, result, cleared, unsynced>>

(* ------------------------- one reconcile cycle --------------------------- *)
\* reconcile: list the containers; one whose inspect fails is skipped.
StartCycle(skipped) ==
  /\ pc = "idle" /\ ~cancelled
  /\ desired' = ClaimsOf(running \ skipped)
  /\ faults' = IF skipped = {} THEN faults ELSE faults + 1
  /\ faults' <= MaxFaults
  /\ pc' = "status"
  /\ failed' = FALSE /\ cleared' = {} /\ unsynced' = {} /\ result' = "none"
  /\ UNCHANGED <<envVars, nodeVars, cancelled, current, planVars, job>>

\* ErrListContainers: the cycle ends before it looked at anything.
ListFails ==
  /\ pc = "idle" /\ ~cancelled
  /\ faults < MaxFaults /\ faults' = faults + 1
  /\ result' = "error"
  /\ desired' = {}
  /\ UNCHANGED <<envVars, nodeVars, pc, cancelled, current, planVars, job, failed,
                 cleared, unsynced>>

\* GetCurrentServices; a failed read, like a blank one, counts as "nothing is
\* served".
ReadStatus(err) ==
  /\ pc = "status"
  /\ Outcome(err, ~err)
  /\ current' \in CurrentServices(err)
  /\ pc' = "prefs"
  /\ UNCHANGED <<envVars, nodeVars, cancelled, desired, planVars, job, failed, result,
                 cleared, unsynced>>

\* Mutant: a moved backend is not a change.
ConfigChangedButDest(v, c) ==
  v.proto # c.label.proto \/ (c.label.proto \in HTTPProtos /\ v.path # ServePath(c))
\* serviceConfigChanged
ConfigChanged(v, c) ==
  \/ v.dest # c.dest
  \/ v.proto # c.label.proto
  \/ c.label.proto \in HTTPProtos /\ v.path # ServePath(c)

\* The diff of ReconcileServices, on the snapshots D, cur and adv.
AddSet(D, cur) ==
  {k \in DesiredKeys(D) : cur[k] = NoView \/ ConfigChanged(cur[k], ClaimFor(D, k))}
PathSet(D, cur) ==
  {<<k, cur[k].path>> : k \in {x \in AddSet(D, cur) :
       cur[x].proto \in HTTPProtos /\ cur[x].path # ClaimFor(D, x).label.path}}
RemoveSet(D, cur) ==
  {k \in Keys : /\ cur[k] # NoView
                /\ k[1] \notin ConflictedNames(D)
                /\ k \notin DesiredKeys(D)
                /\ ~ShouldIgnore(k[1])}
\* Mutants: endpoints in place of names; a lost advertisement is never repaired.
AdvertiseEndpoints(D, cur, adv) == {k \in DesiredKeys(D) \ AddSet(D, cur) : k[1] \notin adv}
AdvertiseNothing(D, cur, adv) == {n \in adv : n \notin adv}
AdvertiseSet(D, cur, adv) ==
  {n \in Names :
     /\ \E k \in DesiredKeys(D) \ AddSet(D, cur) : k[1] = n
     /\ n \notin adv /\ n \notin ConflictedNames(D) /\ ~ShouldIgnore(n)
     /\ \A k \in AddSet(D, cur) \cup RemoveSet(D, cur) : k[1] # n}

\* getAdvertisedServices, then the diff. A failed prefs read means unknown:
\* no advertisement is repaired in this cycle.
ReadPrefs(err) ==
  /\ pc = "prefs"
  /\ IF desired = {} THEN ~err /\ UNCHANGED faults ELSE Outcome(err, ~err)
  /\ toAdd' = AddSet(desired, current)
  /\ pathsToRemove' = PathSet(desired, current)
  /\ toRemove' = RemoveSet(desired, current)
  /\ toAdvertise' = IF err THEN {} ELSE AdvertiseSet(desired, current, advertised)
  /\ current' = [k \in Keys |-> NoView]
  /\ pc' = "remove"
  /\ UNCHANGED <<envVars, nodeVars, cancelled, desired, job, failed, result, cleared, unsynced>>

\* removeService, step 1: `serve drain`. A failure is only logged.
Drain(k, err, done) ==
  /\ pc \in {"remove", "cleanup"}
  /\ k \in toRemove
  /\ ~ShouldIgnore(k[1])
  /\ Outcome(err, done)
  /\ advertised' = IF done THEN advertised \ {k[1]} ELSE advertised
  /\ job' = k
  /\ pc' = IF pc = "remove" THEN "clear" ELSE "cleanupClear"
  /\ UNCHANGED <<envVars, serve, defined, cancelled, desired, current, planVars, failed,
                 result, cleared, unsynced>>

\* Mutant: the cleanup does not count a failed clear.
FailureLogged(err) == failed
\* What a failed clear counts as: the cycle only logs it, the cleanup counts it.
FailedAfterClear(err) == failed \/ (pc = "cleanupClear" /\ err)

\* removeService, step 2: `serve clear` of the whole service. Whether clear also
\* withdraws a leftover advertisement is up to the CLI.
Clear(err, done, alsoWithdraw) ==
  /\ pc \in {"clear", "cleanupClear"}
  /\ Outcome(err, done)
  /\ serve' = IF done THEN ServeCleared(job[1]) ELSE serve
  /\ advertised' = IF done /\ alsoWithdraw THEN advertised \ {job[1]} ELSE advertised
  /\ cleared' = IF done THEN cleared \cup {job[1]} ELSE cleared
  /\ toRemove' = toRemove \ {job}
  /\ job' = NoJob
  /\ failed' = FailedAfterClear(err)
  /\ pc' = IF pc = "clear" THEN "remove" ELSE "cleanup"
  /\ UNCHANGED <<envVars, defined, cancelled, desired, current, toAdd, pathsToRemove,
                 toAdvertise, result, unsynced>>

\* Mutant: the adds come before the API pass.
RemovalsDoneUnsynced ==
  /\ pc = "remove" /\ toRemove = {}
  /\ pc' = "add"
  /\ UNCHANGED <<envVars, faults, nodeVars, cancelled, desired, current, planVars, job,
                 failed, result, cleared, unsynced>>
RemovalsDone ==
  /\ pc = "remove" /\ toRemove = {}
  /\ pc' = "sync"
  /\ UNCHANGED <<envVars, faults, nodeVars, cancelled, desired, current, planVars, job,
                 failed, result, cleared, unsynced>>

SyncableNames(D) == {c.label.name : c \in D} \ ConflictedNames(D)

\* syncServiceDefinitions: per-name failures are logged, never blocking.
Sync(failedNames) ==
  /\ pc = "sync"
  /\ failedNames \subseteq (IF APISync THEN SyncableNames(desired) ELSE {})
  /\ cancelled => ~APISync \/ failedNames = SyncableNames(desired)
  /\ faults' = IF failedNames = {} \/ cancelled THEN faults ELSE faults + 1
  /\ faults' <= MaxFaults
  /\ defined' = IF APISync THEN defined \cup (SyncableNames(desired) \ failedNames) ELSE defined
  /\ unsynced' = failedNames
  /\ pc' = "add"
  /\ UNCHANGED <<envVars, serve, advertised, cancelled, desired, current, planVars, job,
                 failed, result, cleared>>

\* removeServicePath; its failure skips the add of this endpoint. Switching off a
\* path that is not there is an error.
RemovePath(k, path, err, done) ==
  /\ pc = "add"
  /\ k \in toAdd /\ <<k, path>> \in pathsToRemove
  /\ IF \E h \in serve[k].handlers : h[1] = path
     THEN Outcome(err, done)
     ELSE err /\ ~done /\ UNCHANGED faults
  /\ serve' = IF done THEN [serve EXCEPT ![k] = PathOff(@, path)] ELSE serve
  /\ pathsToRemove' = pathsToRemove \ {<<k, path>>}
  /\ IF err
     THEN /\ failed' = TRUE
          /\ toAdd' = toAdd \ {k}
          /\ UNCHANGED <<pc, job>>
     ELSE /\ pc' = "addCmd" /\ job' = k
          /\ UNCHANGED <<failed, toAdd>>
  /\ UNCHANGED <<envVars, advertised, defined, cancelled, desired, current, toRemove,
                 toAdvertise, result, cleared, unsynced>>

\* The add of k is over, with or without success.
AddOver(k, err) ==
  /\ toAdd' = toAdd \ {k}
  /\ failed' = (failed \/ err)
  /\ pc' = "add" /\ job' = NoJob

\* `serve --service` took effect: the endpoint is set and the name advertised.
Served(k, done) ==
  /\ serve' = IF done THEN [serve EXCEPT ![k] = ServeSet(@, ClaimFor(desired, k))] ELSE serve
  /\ advertised' = IF done THEN advertised \cup {k[1]} ELSE advertised

AddTurn(k) ==
  \/ pc = "add" /\ k \in toAdd /\ \A x \in pathsToRemove : x[1] # k
  \/ pc = "addCmd" /\ job = k

\* addService, first attempt.
AddService(k, err, done) ==
  /\ AddTurn(k)
  /\ ~Refused(ClaimFor(desired, k))
  /\ Outcome(err, done)
  /\ Served(k, done)
  /\ AddOver(k, err)
  /\ UNCHANGED <<envVars, defined, cancelled, desired, current, toRemove, pathsToRemove,
                 toAdvertise, result, cleared, unsynced>>

\* addService: the first attempt is refused, the old configuration must go.
AddRefused(k) ==
  /\ AddTurn(k)
  /\ Refused(ClaimFor(desired, k))
  /\ ~cancelled
  /\ pc' = "retryClear" /\ job' = k
  /\ UNCHANGED <<envVars, faults, nodeVars, cancelled, desired, current, planVars,
                 failed, result, cleared, unsynced>>

\* addService fails for another reason (context, denied write) than a conflict.
AddFails(k) ==
  /\ AddTurn(k)
  /\ Refused(ClaimFor(desired, k))
  /\ Outcome(TRUE, FALSE)
  /\ AddOver(k, TRUE)
  /\ UNCHANGED <<envVars, nodeVars, cancelled, desired, current, toRemove,
                 pathsToRemove, toAdvertise, result, cleared, unsynced>>

\* addService: clearServiceOnly, on the whole service name.
RetryClear(err, done, alsoWithdraw) ==
  /\ pc = "retryClear"
  /\ Outcome(err, done)
  /\ serve' = IF done THEN ServeCleared(job[1]) ELSE serve
  /\ advertised' = IF done /\ alsoWithdraw THEN advertised \ {job[1]} ELSE advertised
  /\ cleared' = IF done THEN cleared \cup {job[1]} ELSE cleared
  /\ IF err THEN AddOver(job, TRUE)
            ELSE pc' = "retryAdd" /\ UNCHANGED <<toAdd, failed, job>>
  /\ UNCHANGED <<envVars, defined, cancelled, desired, current, toRemove, pathsToRemove,
                 toAdvertise, result, unsynced>>

\* addService: the retried command.
RetryAdd(err, done) ==
  /\ pc = "retryAdd"
  /\ Outcome(err, done)
  /\ Served(job, done)
  /\ AddOver(job, err)
  /\ UNCHANGED <<envVars, defined, cancelled, desired, current, toRemove, pathsToRemove,
                 toAdvertise, result, cleared, unsynced>>

AddsDone ==
  /\ pc = "add" /\ toAdd = {}
  /\ pc' = "advertise"
  /\ UNCHANGED <<envVars, faults, nodeVars, cancelled, desired, current, planVars, job,
                 failed, result, cleared, unsynced>>

\* advertiseService: restore a missing advertisement.
Advertise(n, err, done) ==
  /\ pc = "advertise"
  /\ n \in toAdvertise
  /\ Outcome(err, done)
  /\ advertised' = IF done THEN advertised \cup {n} ELSE advertised
  /\ toAdvertise' = toAdvertise \ {n}
  /\ failed' = (failed \/ err)
  /\ UNCHANGED <<envVars, serve, defined, pc, cancelled, desired, current, toRemove, toAdd,
                 pathsToRemove, job, result, cleared, unsynced>>

\* The return value of ReconcileServices, as far as services decide it.
EndCycle ==
  /\ pc = "advertise" /\ toAdvertise = {}
  /\ result' = IF failed \/ Conflicts(desired) # {} THEN "error" ELSE "ok"
  /\ pc' = "idle"
  /\ UNCHANGED <<envVars, faults, nodeVars, cancelled, desired, current, planVars, job,
                 failed, cleared, unsynced>>

(* ------------------------------- shutdown -------------------------------- *)
\* Run returns on ctx.Done; cleanup gets a fresh context with a deadline.
LeaveLoop ==
  /\ pc = "idle" /\ cancelled
  /\ IF SkipShutdownCleanup
     THEN Vanish
     ELSE /\ pc' = "stop" /\ cancelled' = FALSE
          /\ result' = "none" /\ desired' = {} /\ failed' = FALSE
          /\ cleared' = {} /\ unsynced' = {}
          /\ UNCHANGED <<current, planVars, job>>
  /\ UNCHANGED <<envVars, faults, nodeVars>>

\* CleanupAllServices: read what is served; each name is removed once. A failed
\* read ends the cleanup with an error; a blank one is a success with nothing to
\* remove, whatever the node serves.
CleanupReadFails ==
  /\ pc = "stop"
  /\ Outcome(TRUE, FALSE)
  /\ Vanish
  /\ UNCHANGED <<envVars, nodeVars>>

CleanupRead(blank) ==
  /\ pc = "stop"
  /\ ~cancelled
  /\ Outcome(blank, ~blank)
  /\ current' \in CurrentServices(blank)
  /\ toRemove' = {<<n, CHOOSE p \in Ports : current'[<<n, p>>] # NoView>> :
       n \in {x \in Names : ~ShouldIgnore(x) /\ \E p \in Ports : current'[<<x, p>>] # NoView}}
  /\ pc' = "cleanup"
  /\ UNCHANGED <<envVars, nodeVars, cancelled, desired, toAdd, pathsToRemove, toAdvertise, job,
                 failed, result, cleared, unsynced>>

CleanupDone ==
  /\ pc = "cleanup" /\ toRemove = {}
  /\ Vanish
  /\ UNCHANGED <<envVars, faults, nodeVars>>

\* The 8-second budget expires between two commands.
CleanupExpires ==
  /\ pc \in {"cleanup", "cleanupClear"}
  /\ faults < MaxFaults /\ faults' = faults + 1
  /\ Vanish
  /\ UNCHANGED <<envVars, nodeVars>>

----------------------------------------------------------------------------
Process ==
  \/ \E skipped \in SUBSET running : StartCycle(skipped)
  \/ \E err \in BOOLEAN : ReadStatus(err)
  \/ \E err \in BOOLEAN : ReadPrefs(err)
  \/ \E k \in Keys, err, done \in BOOLEAN : Drain(k, err, done)
  \/ \E err, done, w \in BOOLEAN : Clear(err, done, w)
  \/ RemovalsDone
  \/ \E failedNames \in SUBSET Names : Sync(failedNames)
  \/ \E k \in Keys, path \in Paths, err, done \in BOOLEAN : RemovePath(k, path, err, done)
  \/ \E k \in Keys, err, done \in BOOLEAN : AddService(k, err, done)
  \/ \E k \in Keys : AddRefused(k)
  \/ \E k \in Keys : AddFails(k)
  \/ \E err, done, w \in BOOLEAN : RetryClear(err, done, w)
  \/ \E err, done \in BOOLEAN : RetryAdd(err, done)
  \/ AddsDone
  \/ \E n \in Names, err, done \in BOOLEAN : Advertise(n, err, done)
  \/ EndCycle
  \/ LeaveLoop
  \/ CleanupReadFails
  \/ \E blank \in BOOLEAN : CleanupRead(blank)
  \/ CleanupDone

Environment ==
  \/ \E c \in Containers, a \in Addrs : ContainerStart(c, a)
  \/ \E c \in Containers : ContainerStop(c)
  \/ \E n \in Names : OperatorDrain(n)
  \/ Terminate
  \/ Crash
  \/ Restart
  \/ ListFails
  \/ CleanupExpires

Next == Process \/ Environment

Spec == Init /\ [][Next]_vars
\* The loop's ticker keeps cycles coming and the process is sequential code
\* that keeps taking its next step.
FairSpec == Spec /\ WF_vars(Process)
----------------------------------------------------------------------------
(* Properties. *)

TypeOK ==
  /\ running \subseteq Containers
  /\ addr \in [Containers -> Addrs]
  /\ changes \in Nat /\ faults \in Nat
  /\ serve \in [Keys -> Endpoint]
  /\ advertised \subseteq Names /\ defined \subseteq Names
  /\ pc \in PCs /\ cancelled \in BOOLEAN
  /\ desired \subseteq Claim
  /\ current \in [Keys -> View]
  /\ toRemove \subseteq Keys /\ toAdd \subseteq Keys
  /\ pathsToRemove \subseteq Keys \X (Paths \cup {NoPath})
  /\ toAdvertise \subseteq Names
  /\ job \in Keys \cup {NoJob}
  /\ failed \in BOOLEAN /\ result \in {"none", "ok", "error"}
  /\ cleared \subseteq Names /\ unsynced \subseteq Names

\* The node proxies claim c's endpoint to c's backend.
Serves(c) ==
  /\ serve[KeyOf(c)].proto = c.label.proto
  /\ <<ServePath(c), c.dest>> \in serve[KeyOf(c)].handlers

\* A cycle that reported success left every endpoint it wanted served as the
\* labels say, if it cleared no service of that name on the way and no other port
\* starts with the same digits: whatever it skipped as "already correct" was, and
\* nothing it did elsewhere undid it.
SuccessMeansServedUnlessCleared ==
  (pc = "idle" /\ result = "ok") =>
    \A k \in DesiredKeys(desired) :
      k[1] \notin cleared /\ LooksLike[k[2]] = {k[2]} => Serves(ClaimFor(desired, k))

\* An endpoint several containers claim is left alone by the cycle that saw the
\* conflict, except that a refused add of another port of the name clears it.
FrozenUnlessSiblingRefused ==
  [][(pc \in CyclePCs) =>
       \A k \in Conflicts(desired) :
         serve'[k] # serve[k] => (pc = "retryClear" /\ job[1] = k[1] /\ job # k)]_vars

ClaimedNames == UNION {{l.name : l \in Labels[c]} : c \in Containers}

\* What the node serves under an ignored name that no container declares is
\* what it served before DockTail ever ran, through every cycle, failed command,
\* shutdown cleanup, crash and restart.
IgnoredUntouched ==
  \A k \in Keys : k[1] \in Ignored \ ClaimedNames => serve[k] = Preconfigured[k]

\* With API sync on, a name becomes advertised only when its definition exists
\* or its sync was tried in this cycle and failed. Frozen names are excepted: they
\* are not synced, but another port of such a name may still be added.
DefinedBeforeAdvertised ==
  [][APISync => \A n \in advertised' \ advertised :
       n \in defined \cup unsynced \cup ConflictedNames(desired)]_vars

\* A cleanup whose status read showed some service, and that worked through its
\* list without error, leaves no port of any name DockTail may touch, although it
\* issues one removal per name. (A blank read of a node that serves something is
\* reported as a success too, and leaves everything in place.)
CleanupComplete ==
  (pc = "cleanup" /\ toRemove = {} /\ ~failed /\ \E k \in Keys : current[k] # NoView) =>
    \A k \in Keys : ~ShouldIgnore(k[1]) => serve[k] = NoEndpoint

\* For every name the running containers agree on: each claimed endpoint is
\* served (and the name advertised, unless ignored), each other one is gone.
Converged ==
  LET now == ClaimsOf(running) IN
  \A n \in Names \ ConflictedNames(now) : \A p \in Ports :
    IF <<n, p>> \in DesiredKeys(now)
    THEN Serves(ClaimFor(now, <<n, p>>)) /\ (n \in advertised \/ ShouldIgnore(n))
    ELSE ShouldIgnore(n) \/ serve[<<n, p>>] = NoEndpoint

\* Once the environment and the failures stop, the node reaches the state the
\* labels describe and stays there (or DockTail is down), whatever conflicts
\* remain on other names.
Converges == <>[](pc = "down" \/ Converged)
=============================================================================
