------------------------------ MODULE Lifecycle ------------------------------
(***************************************************************************)
(* The life of the DockTail process: main, the reconcile loop with its     *)
(* select over the context, the Docker event stream and the ticker, the    *)
(* shutdown inside Docker's stop timeout, and the health tracker, whose    *)
(* status file "docktail health" turns into a verdict.                     *)
(*                                                                         *)
(* What a cycle does to tailscaled is in ServeReconcile and Funnels: here  *)
(* a cycle reads the containers and ends, or waits on a tailscaled that    *)
(* does not answer.  Time passes in Tick, one interval of the ticker; ages *)
(* are counted to just past their limit.  Goroutines may be arbitrarily    *)
(* slow, but once the stop signal has come the loop only waits where the   *)
(* code does, for that is what the stop timeout is about: in the sleep, in *)
(* the cleanup and in what the cycle under way does without the context.   *)
(***************************************************************************)
EXTENDS Naturals

CONSTANTS
  StaleAfter, Budget,                   \* staleAfter; budget of Check
  SleepTime, CleanupTime, StopTimeout,  \* 5 s, 8 s and Docker's 10 s, scaled
  CycleTail,                            \* what a cycle may still take when ctx is cancelled
  MaxEvents                             \* bound on what the surroundings do

ASSUME ConstantAssumption ==
  /\ StaleAfter \in Nat /\ Budget \in Nat
  /\ SleepTime \in Nat \ {0} /\ CleanupTime \in Nat \ {0} /\ StopTimeout \in Nat \ {0}
  /\ SleepTime < StopTimeout /\ CleanupTime < StopTimeout
  /\ CycleTail \in Nat /\ MaxEvents \in Nat

VARIABLES
  \* the surroundings
  docker,     \* "up", "down" (calls fail) or "hung" (calls do not return)
  socket,     \* the tailscaled socket is reachable
  hung,       \* tailscaled accepts commands and does not answer them
  events,     \* how much has happened
  \* main and the reconcile loop
  pc,         \* starting, read, apply, select, sleep, cleanup, dead
  first,      \* the cycle under way is the initial one
  cancelled,  \* ctx is cancelled
  left,       \* time left of the sleep, of the interrupted cycle, or of cleanupCtx
  stop,       \* time since the stop signal
  ticked,     \* a tick is in the ticker's channel
  stream,     \* errChan: "live", or "err" once it holds an error
  event,      \* an event that triggers a reconcile is on its way
  unread,     \* the containers changed and no cycle has read them since
  \* health.Tracker
  status,     \* t.status: time since the last cycle ended, or the start; DockerFailures
  nudge,      \* t.nudge holds a token
  tpc,        \* off, snap, write, wait, gone
  copy,       \* the status being written
  file,       \* the status file, or NoFile
  \* observers
  excused,    \* what is unread waits for the ticker: no stream told of it, or a read failed
  held,       \* how much of stop the sleep and the interrupted cycle took
  sinceAlive  \* how long the process has been dead

envVars   == <<docker, socket, hung, events>>
loopVars  == <<pc, first, cancelled, left, stop, ticked>>
watchVars == <<stream, event, unread, excused>>
trackVars == <<status, nudge, tpc, copy, file>>
vars == <<docker, socket, hung, events, pc, first, cancelled, left, stop,
          ticked, stream, event, unread, status, nudge, tpc, copy, file,
          excused, held, sinceAlive>>

NewStatus == [since |-> 0, failures |-> 0]
NoFile == [since |-> 0, failures |-> 0, updated |-> StaleAfter + 1, reachable |-> FALSE]

Init ==
  /\ docker = "up" /\ socket = TRUE /\ hung = FALSE
  /\ events = 0
  /\ pc = "starting" /\ first = TRUE /\ cancelled = FALSE
  /\ left = 0 /\ stop = 0 /\ ticked = FALSE
  /\ stream = "live" /\ event = FALSE /\ unread = TRUE /\ excused = TRUE
  /\ status = NewStatus /\ nudge = FALSE /\ tpc = "off"
  /\ copy = NewStatus /\ file = NoFile
  /\ held = 0 /\ sinceAlive = 0

----------------------------------------------------------------------------
(* The surroundings. *)

Happens == events < MaxEvents /\ events' = events + 1

\* WatchEvents: a daemon that is gone fails the stream at once, and so does a
\* context that is cancelled.
Subscribed == IF docker = "down" \/ cancelled THEN "err" ELSE "live"

\* A container starts, stops, dies or restarts.
Change ==
  /\ Happens
  /\ docker = "up" /\ pc # "dead"
  /\ unread' = TRUE
  /\ LET seen == stream = "live" /\ pc # "starting" /\ ~first IN
     /\ event' = (event \/ seen)
     /\ excused' = (excused \/ ~seen)
  /\ UNCHANGED <<docker, socket, hung, loopVars, stream, trackVars, held,
                 sinceAlive>>

DockerFails ==
  /\ Happens
  /\ \E d \in {"up", "down", "hung"} \ {docker} :
       /\ docker' = d
       /\ stream' = IF d = "down" /\ ~first THEN "err" ELSE stream
  /\ UNCHANGED <<socket, hung, loopVars, event, unread, excused, trackVars,
                 held, sinceAlive>>

StreamBreaks ==
  /\ Happens /\ stream = "live" /\ ~first /\ pc # "dead"
  /\ stream' = "err"
  /\ UNCHANGED <<docker, socket, hung, loopVars, event, unread, excused, trackVars,
                 held, sinceAlive>>

SocketChanges ==
  /\ Happens /\ socket' = ~socket
  /\ UNCHANGED <<docker, hung, loopVars, watchVars, trackVars, held, sinceAlive>>

\* Commands and API calls of a cycle have no timeout of their own.
TailscaledHangs ==
  /\ Happens /\ hung' = ~hung
  /\ UNCHANGED <<docker, socket, loopVars, watchVars, trackVars, held, sinceAlive>>

\* What a process starts with; the containers are still to be read.
Fresh ==
  /\ first' = TRUE /\ cancelled' = FALSE /\ left' = 0 /\ stop' = 0 /\ ticked' = FALSE
  /\ stream' = "live" /\ event' = FALSE /\ unread' = TRUE /\ excused' = TRUE
  /\ nudge' = FALSE /\ tpc' = "off" /\ copy' = NewStatus
  /\ held' = 0 /\ sinceAlive' = 0

\* The end of the process takes its goroutines with it; the file stays.
Ends == pc' = "dead" /\ Fresh /\ UNCHANGED <<status, file>>

\* log.Fatal (the socket watchdog), an out-of-memory kill.
Crash ==
  /\ Happens /\ pc # "dead"
  /\ Ends
  /\ UNCHANGED <<docker, socket, hung>>

----------------------------------------------------------------------------
(* main, up to the loop. *)

\* Mutant: the previous run's status file is left in place.
StartKeepsFile ==
  /\ Happens /\ pc = "dead"
  /\ pc' = "starting" /\ Fresh /\ status' = NewStatus
  /\ UNCHANGED <<docker, socket, hung, file>>
\* The restart policy or an operator starts the container again.
Start ==
  /\ Happens /\ pc = "dead"
  /\ pc' = "starting" /\ Fresh /\ status' = NewStatus /\ file' = NoFile
  /\ UNCHANGED <<docker, socket, hung>>

\* The startup wait is over (WaitForSocket, DetectVersionMismatch); the goroutines
\* start.
Started ==
  /\ pc = "starting" /\ ~cancelled /\ ~hung
  /\ pc' = "read" /\ tpc' = "snap" /\ status' = NewStatus
  /\ UNCHANGED <<envVars, first, cancelled, left, stop, ticked, watchVars, nudge, copy,
                 file, held, sinceAlive>>

StartInterrupted ==
  /\ pc = "starting" /\ cancelled
  /\ Ends
  /\ UNCHANGED envVars

\* SIGINT or SIGTERM; the Docker client puts the context's error on errChan. The
\* cycle under way may be in calls that do not look at ctx: a dial of a second for
\* each service of a container, the agent's look at itself, an OAuth token.
Signal ==
  /\ pc # "dead" /\ ~cancelled
  /\ cancelled' = TRUE /\ stop' = 0
  /\ stream' = IF first THEN stream ELSE "err"
  /\ left' \in IF pc \in {"read", "apply"} THEN 0..CycleTail ELSE {left}
  /\ UNCHANGED <<envVars, pc, first, ticked, event, unread, excused, trackVars,
                 held, sinceAlive>>

----------------------------------------------------------------------------
(* Reconciler.Run and Reconcile. *)

Capped(limit, n) == IF n < limit THEN n + 1 ELSE n

\* Mutant: a failed cycle forgets the earlier failures to reach Docker.
DoneForgets(unreachable) ==
  /\ status' = [since |-> 0, failures |-> IF unreachable THEN 1 ELSE 0]
  /\ nudge' = (tpc # "gone")
  /\ UNCHANGED <<tpc, copy, file>>
\* ReconcileDone
Done(unreachable) ==
  /\ status' = [since |-> 0,
                failures |-> IF unreachable THEN Capped(2, status.failures) ELSE 0]
  /\ nudge' = (tpc # "gone")
  /\ UNCHANGED <<tpc, copy, file>>

\* The end of a cycle; the initial one is followed by the subscription.
CycleEnds(unreachable) ==
  /\ Done(unreachable)
  /\ pc' = "select" /\ first' = FALSE
  /\ stream' = IF first THEN Subscribed ELSE stream
  /\ UNCHANGED <<envVars, cancelled, left, stop, ticked, event, held, sinceAlive>>

\* GetEnabledContainers reads every container ...
Read ==
  /\ pc = "read" /\ docker = "up" /\ ~cancelled
  /\ pc' = "apply" /\ unread' = FALSE /\ excused' = FALSE
  /\ UNCHANGED <<envVars, first, cancelled, left, stop, ticked, stream, event, trackVars,
                 held, sinceAlive>>

\* ... or leaves out one whose inspection fails, which it only logs ...
ReadSkips ==
  /\ pc = "read" /\ docker = "up" /\ left = 0
  /\ IF cancelled THEN UNCHANGED events ELSE Happens
  /\ pc' = "apply" /\ unread' = TRUE /\ excused' = TRUE
  /\ UNCHANGED <<docker, socket, hung, first, cancelled, left, stop, ticked, stream, event,
                 trackVars, held, sinceAlive>>

\* ... or cannot list the containers at all.
ReadFails ==
  /\ pc = "read" /\ (docker = "down" \/ cancelled) /\ left = 0
  /\ excused' = TRUE /\ UNCHANGED unread
  /\ CycleEnds(TRUE)

\* The rest of the cycle, whether or not it succeeds. Only ctx ends a command that
\* tailscaled does not answer.
Apply ==
  /\ pc = "apply" /\ left = 0 /\ (~hung \/ cancelled)
  /\ UNCHANGED <<unread, excused>>
  /\ CycleEnds(FALSE)

Selecting == pc = "select" /\ UNCHANGED <<envVars, first, cancelled, trackVars, sinceAlive>>

\* Mutant: the event is passed to the observer only.
TakeEventIgnored ==
  /\ Selecting /\ event
  /\ event' = FALSE
  /\ UNCHANGED <<pc, left, stop, ticked, stream, unread, excused, held>>
TakeEvent ==
  /\ Selecting /\ event
  /\ event' = FALSE /\ pc' = "read"
  /\ UNCHANGED <<left, stop, ticked, stream, unread, excused, held>>

\* Mutant: the periodic cycle is skipped.
TakeTickIgnored ==
  /\ Selecting /\ ticked
  /\ ticked' = FALSE
  /\ UNCHANGED <<pc, left, stop, stream, event, unread, excused, held>>
TakeTick ==
  /\ Selecting /\ ticked
  /\ ticked' = FALSE /\ pc' = "read"
  /\ UNCHANGED <<left, stop, stream, event, unread, excused, held>>

\* The error of a broken stream comes after its last event, that of the context at
\* once. time.Sleep does not look at the context.
TakeError ==
  /\ Selecting /\ stream = "err" /\ (~event \/ cancelled)
  /\ pc' = "sleep" /\ left' = SleepTime
  /\ UNCHANGED <<stop, ticked, stream, event, unread, excused, held>>

SleepEnds ==
  /\ pc = "sleep" /\ left = 0
  /\ pc' = "select" /\ stream' = Subscribed
  /\ event' = FALSE /\ excused' = (excused \/ event)
  /\ UNCHANGED <<envVars, first, cancelled, left, stop, ticked, unread, trackVars,
                 held, sinceAlive>>

\* Mutant: the cleanup gets the whole stop timeout.
TakeDoneFullTime ==
  /\ pc = "select" /\ cancelled
  /\ pc' = "cleanup" /\ left' = StopTimeout
  /\ UNCHANGED <<envVars, first, cancelled, stop, ticked, watchVars, trackVars,
                 held, sinceAlive>>
TakeDone ==
  /\ pc = "select" /\ cancelled
  /\ pc' = "cleanup" /\ left' = CleanupTime
  /\ UNCHANGED <<envVars, first, cancelled, stop, ticked, watchVars, trackVars,
                 held, sinceAlive>>

\* main returns after the cleanup, which its context bounds.
Exit ==
  /\ pc = "cleanup"
  /\ Ends
  /\ UNCHANGED envVars

\* Docker's stop timeout.
Kill ==
  /\ cancelled /\ pc # "dead" /\ stop = StopTimeout
  /\ Ends
  /\ UNCHANGED envVars

Loop ==
  \/ Started \/ StartInterrupted \/ Read \/ ReadSkips \/ ReadFails \/ Apply
  \/ TakeEvent \/ TakeTick \/ TakeError \/ SleepEnds \/ TakeDone \/ Exit

----------------------------------------------------------------------------
(* Tracker.Run and write. *)

Tracking == UNCHANGED <<envVars, loopVars, watchVars, held, sinceAlive>>

\* snapshot, under the lock.
Snapshot ==
  /\ tpc = "snap" /\ tpc' = "write"
  /\ copy' = status
  /\ UNCHANGED <<status, nudge, file>> /\ Tracking

\* The socket probe, the time of the update, and the rename.
Write ==
  /\ tpc = "write" /\ tpc' = "wait"
  /\ file' = [since |-> copy.since, failures |-> copy.failures, updated |-> 0, reachable |-> socket]
  /\ copy' = NewStatus
  /\ UNCHANGED <<status, nudge>> /\ Tracking

WriteFails ==
  /\ tpc = "write" /\ tpc' = "wait" /\ Happens
  /\ copy' = NewStatus
  /\ UNCHANGED <<docker, socket, hung, loopVars, watchVars, held, sinceAlive>>
  /\ UNCHANGED <<status, nudge, file>>

\* The ticker, or a nudge.
WakeOnTicker ==
  /\ tpc = "wait" /\ tpc' = "snap"
  /\ UNCHANGED <<status, nudge, copy, file>> /\ Tracking

WakeOnNudge ==
  /\ tpc = "wait" /\ nudge /\ tpc' = "snap" /\ nudge' = FALSE
  /\ UNCHANGED <<status, copy, file>> /\ Tracking

\* ctx.Done and the deferred os.Remove; main does not wait for it.
Remove ==
  /\ tpc = "wait" /\ cancelled
  /\ tpc' = "gone" /\ nudge' = FALSE /\ file' = NoFile
  /\ UNCHANGED <<status, copy>> /\ Tracking

Tracker == Snapshot \/ Write \/ WriteFails \/ WakeOnTicker \/ WakeOnNudge \/ Remove

----------------------------------------------------------------------------
(* Time. *)

\* Nothing is left for the loop to do at once.
LoopWaits ==
  \/ pc \in {"read", "apply", "sleep", "cleanup"} /\ left > 0
  \/ pc = "dead"

Aged(s) == [since |-> Capped(Budget + 1, s.since), failures |-> s.failures]
AgedFile(f) ==
  IF f = NoFile THEN f
  ELSE [since |-> Capped(Budget + 1, f.since), failures |-> f.failures,
        updated |-> Capped(StaleAfter + 1, f.updated), reachable |-> f.reachable]

Tick ==
  /\ cancelled => LoopWaits
  /\ cancelled /\ pc # "dead" => stop < StopTimeout
  /\ stop' = IF cancelled /\ pc # "dead" THEN stop + 1 ELSE stop
  /\ held' = IF cancelled /\ pc \in {"read", "apply", "sleep"} THEN held + 1 ELSE held
  /\ left' = IF left > 0 THEN left - 1 ELSE left
  /\ ticked' = (ticked \/ (pc \notin {"starting", "dead"} /\ ~first))
  /\ status' = Aged(status) /\ file' = AgedFile(file)
  /\ copy' = IF tpc = "write" THEN Aged(copy) ELSE copy
  /\ sinceAlive' = IF pc = "dead" THEN Capped(StaleAfter + 1, sinceAlive) ELSE 0
  /\ UNCHANGED <<envVars, pc, first, cancelled, watchVars, nudge, tpc>>

Environment ==
  \/ Change \/ DockerFails \/ StreamBreaks \/ SocketChanges \/ TailscaledHangs
  \/ Crash \/ Start \/ Signal

Next == Environment \/ Loop \/ Kill \/ Tracker \/ Tick

Spec == Init /\ [][Next]_vars
\* Time passes, the goroutines run, and a select that finds several things ready
\* chooses at random.
FairSpec ==
  /\ Spec /\ WF_vars(Tick) /\ WF_vars(Loop)
  /\ WF_vars(Kill) /\ SF_vars(TakeTick) /\ SF_vars(Snapshot) /\ SF_vars(Write)
  /\ WF_vars(WakeOnTicker)

----------------------------------------------------------------------------
(* Check: the verdict of "docktail health". *)

Healthy ==
  /\ file # NoFile /\ file.updated <= StaleAfter /\ file.reachable
  /\ file.failures < 2
  /\ file.since <= Budget

----------------------------------------------------------------------------
(* Properties. *)

Statuses == [since : 0..(Budget + 1), failures : 0..2]
Files == [since : 0..(Budget + 1), failures : 0..2,
          updated : 0..(StaleAfter + 1), reachable : BOOLEAN]

TypeOK ==
  /\ docker \in {"up", "down", "hung"} /\ socket \in BOOLEAN /\ hung \in BOOLEAN
  /\ events \in 0..MaxEvents
  /\ pc \in {"starting", "read", "apply", "select", "sleep", "cleanup", "dead"}
  /\ first \in BOOLEAN /\ cancelled \in BOOLEAN
  /\ left \in Nat
  /\ pc = "sleep" => left <= SleepTime
  /\ pc = "cleanup" => left <= CleanupTime
  /\ pc \in {"read", "apply"} => left <= CycleTail
  /\ left > 0 => pc \in {"sleep", "cleanup"} \/ (pc \in {"read", "apply"} /\ cancelled)
  /\ stop \in 0..StopTimeout /\ ticked \in BOOLEAN
  /\ stream \in {"live", "err"} /\ event \in BOOLEAN /\ unread \in BOOLEAN
  /\ status \in Statuses /\ nudge \in BOOLEAN
  /\ tpc \in {"off", "snap", "write", "wait", "gone"}
  /\ copy \in Statuses /\ file \in Files
  /\ excused \in BOOLEAN /\ held \in 0..stop /\ sinceAlive \in 0..(StaleAfter + 1)

\* A healthy verdict is about the process that runs now, or one that stopped less than
\* the staleness limit ago, and a cycle of it has ended (or it has started) within
\* the budget: no file of an earlier run, and no slow write, vouches for a process
\* that is starting, gone or stalled.
HealthyJustified ==
  Healthy =>
    /\ pc # "starting" /\ sinceAlive <= StaleAfter
    /\ status.since <= Budget

\* A loop that waits has read every change of the containers, or its event is on the
\* way; only a change made while there was no event stream (before the first
\* subscription, or around a broken one), or one whose cycle could not read Docker
\* or could not inspect a container, waits for the ticker.
ChangeNotMissed ==
  pc = "select" /\ unread /\ ~excused => event

\* Docker kills a process that is shutting down only if the interrupted cycle and
\* the sleep after an event stream error kept it from the cleanup for at least what
\* the stop timeout leaves beside the cleanup: the cleanup itself never overruns.
KilledOnlyHeldUp ==
  [][Kill => held >= StopTimeout - CleanupTime]_vars

\* Whatever is broken for good is reported in the end: Docker that fails or hangs,
\* a tailscaled that does not answer, a socket that is gone, a process that is dead.
BrokenIsReported ==
  <>[](docker # "up" \/ hung \/ ~socket \/ pc = "dead") => <>[]~Healthy

\* Every change is read in the end while Docker and tailscaled answer, also one no
\* event told of and one that a cycle had to leave out; a command that tailscaled does
\* not answer stalls the loop.
EveryChangeRead ==
  unread ~> (~unread \/ docker # "up" \/ hung \/ pc = "dead")
=============================================================================
