--------------------------- MODULE SocketWatchdog ---------------------------
(***************************************************************************)
(* The tailscaled socket as DockTail's container sees it, the startup wait *)
(* (Client.WaitForSocket) and the watchdog (SocketWatchdog.check) that     *)
(* exits when the socket stays unreachable, so that the restart policy     *)
(* re-creates the container and with it the bind mount.                    *)
(*                                                                         *)
(* Time passes in Tick.  A probe happens when the watchdog's ticker fired, *)
(* possibly late; ticks that fire meanwhile are dropped, as Go's ticker    *)
(* drops them.  Durations are only ever compared with Grace, so counting   *)
(* them up to Grace loses nothing.                                         *)
(*                                                                         *)
(* What Lifecycle, the other model of the process, has under the same name *)
(* is called after the watchdog here: LifecycleProofs extends both.        *)
(***************************************************************************)
EXTENDS Naturals

CONSTANTS
  ExitOnSocketLoss,  \* EXIT_ON_SOCKET_LOSS
  Grace,             \* SOCKET_LOSS_GRACE_PERIOD, in ticks of time
  Interval,          \* ticks of time between two probes
  StartupWait,       \* socketStartupWait, in ticks of time
  MaxChanges         \* bound on environment steps

ASSUME WatchdogAssumption ==
  /\ ExitOnSocketLoss \in BOOLEAN
  /\ Grace \in Nat /\ StartupWait \in Nat /\ MaxChanges \in Nat
  /\ Interval \in Nat \ {0}

VARIABLES
  changes,
  up,       \* tailscaled listens
  stale,    \* the mount is pinned to a directory that was replaced
  proc,     \* "waiting", "running", "lost" (exited by the watchdog), "stopped"
  waited,   \* time spent in WaitForSocket
  phase,    \* time since the ticker last fired
  pending,  \* a tick is in the ticker's channel
  armed,    \* SocketWatchdog.armed
  lost,     \* lostAt is set
  downFor,  \* now - lostAt, counted up to Grace
  \* observers
  reached,  \* some probe of this process found the socket reachable
  outage,   \* how long the socket has been unreachable, counted up to Grace
  blink     \* since lostAt was set the socket was back, and no probe saw it

procVars == <<proc, waited, phase, pending, armed, lost, downFor, reached, blink>>
watchdogVars == <<changes, up, stale, proc, waited, phase, pending, armed, lost, downFor,
                  reached, outage, blink>>

\* ProbeSocket
Reachable == up /\ ~stale
Watching == proc = "running" /\ ExitOnSocketLoss /\ Grace > 0
UpTo(limit, n) == IF n < limit THEN n + 1 ELSE n

WatchdogInit ==
  /\ changes = 0
  /\ up \in BOOLEAN /\ stale = FALSE
  /\ proc = "waiting" /\ waited = 0 /\ phase = 0 /\ pending = FALSE
  /\ armed = FALSE /\ lost = FALSE /\ downFor = 0
  /\ reached = FALSE /\ outage = 0 /\ blink = FALSE

(* ------------------------------ environment ------------------------------ *)
EnvStep == changes < MaxChanges /\ changes' = changes + 1

\* tailscaled stops; systemd (replaced) removes its runtime directory with it.
DaemonStop(replaced) ==
  /\ EnvStep
  /\ up
  /\ up' = FALSE
  /\ stale' = (stale \/ replaced)
  /\ UNCHANGED <<procVars, outage>>

DaemonStart ==
  /\ EnvStep
  /\ ~up
  /\ up' = TRUE
  /\ outage' = IF stale THEN outage ELSE 0
  /\ blink' = (blink \/ (lost /\ ~stale))
  /\ UNCHANGED <<stale, proc, waited, phase, pending, armed, lost, downFor, reached>>

\* SIGTERM, during the startup wait or later, ends the process without the watchdog.
Terminate ==
  /\ EnvStep
  /\ proc \in {"waiting", "running"}
  /\ proc' = "stopped"
  /\ UNCHANGED <<up, stale, waited, phase, pending, armed, lost, downFor, reached,
                 outage, blink>>

WatchdogTick ==
  /\ outage' = IF Reachable THEN 0 ELSE UpTo(Grace, outage)
  /\ waited' = IF proc = "waiting" THEN UpTo(StartupWait, waited) ELSE waited
  /\ downFor' = IF lost THEN UpTo(Grace, downFor) ELSE downFor
  /\ phase' = IF Watching THEN (phase + 1) % Interval ELSE phase
  /\ pending' = (pending \/ (Watching /\ phase + 1 = Interval))
  /\ UNCHANGED <<changes, up, stale, proc, armed, lost, reached, blink>>

(* ------------------------- WaitForSocket, at startup --------------------- *)
\* Everything a new container starts with: a freshly resolved mount.
StartContainer ==
  /\ stale' = FALSE
  /\ outage' = IF up THEN 0 ELSE outage
  /\ proc' = "waiting" /\ waited' = 0 /\ phase' = 0 /\ pending' = FALSE
  /\ armed' = FALSE /\ lost' = FALSE /\ downFor' = 0
  /\ reached' = FALSE /\ blink' = FALSE
  /\ UNCHANGED up

\* The restart policy, and an operator who starts a stopped container.
PolicyRestart == proc = "lost" /\ StartContainer /\ UNCHANGED changes
OperatorStart == proc = "stopped" /\ EnvStep /\ StartContainer

\* One of the probes, 250 ms apart, finds the socket.
WaitProbe ==
  /\ proc = "waiting"
  /\ Reachable
  /\ proc' = "running" /\ reached' = TRUE
  /\ UNCHANGED <<changes, up, stale, waited, phase, pending, armed, lost, downFor, outage, blink>>

\* DockTail starts anyway and retries on every reconcile.
WaitTimeout ==
  /\ proc = "waiting"
  /\ waited = StartupWait
  /\ proc' = "running"
  /\ UNCHANGED <<changes, up, stale, waited, phase, pending, armed, lost, downFor,
                 reached, outage, blink>>

(* ------------------------- SocketWatchdog.check -------------------------- *)
\* One check consumes the pending tick.
Checking ==
  /\ Watching /\ pending
  /\ pending' = FALSE
  /\ UNCHANGED <<changes, up, stale, waited, phase, outage>>

\* Mutant: lostAt survives the recovery.
ProbeOKKeepsLostAt ==
  /\ Checking
  /\ Reachable
  /\ armed' = TRUE /\ reached' = TRUE /\ blink' = FALSE
  /\ UNCHANGED <<proc, lost, downFor>>
ProbeOK ==
  /\ Checking
  /\ Reachable
  /\ armed' = TRUE /\ reached' = TRUE
  /\ lost' = FALSE /\ downFor' = 0 /\ blink' = FALSE
  /\ UNCHANGED proc

\* Never reachable since startup: keep waiting.
ProbeUnarmed ==
  /\ Checking
  /\ ~Reachable /\ ~armed
  /\ UNCHANGED <<proc, armed, lost, downFor, reached, blink>>

\* Mutant: an unreachable socket counts before it was ever reachable.
LossUnarmed ==
  /\ Checking
  /\ ~Reachable /\ ~lost
  /\ lost' = TRUE /\ downFor' = 0
  /\ UNCHANGED <<proc, armed, reached, blink>>
ProbeFirstLoss ==
  /\ Checking
  /\ ~Reachable /\ armed /\ ~lost
  /\ lost' = TRUE /\ downFor' = 0
  /\ UNCHANGED <<proc, armed, reached, blink>>

\* Mutant: every failing probe starts the outage anew.
ProbeAnew ==
  /\ Checking
  /\ ~Reachable /\ armed /\ lost /\ downFor < Grace
  /\ downFor' = 0
  /\ UNCHANGED <<proc, armed, lost, reached, blink>>
ProbeWithinGrace ==
  /\ Checking
  /\ ~Reachable /\ armed /\ lost /\ downFor < Grace
  /\ UNCHANGED <<proc, armed, lost, downFor, reached, blink>>

\* onLost: log.Fatal, without the shutdown cleanup.
GiveUp ==
  /\ Checking
  /\ ~Reachable /\ armed /\ lost /\ downFor >= Grace
  /\ proc' = "lost"
  /\ UNCHANGED <<armed, lost, downFor, reached, blink>>

Check == ProbeOK \/ ProbeUnarmed \/ ProbeFirstLoss \/ ProbeWithinGrace \/ GiveUp

----------------------------------------------------------------------------
WatchdogNext ==
  \/ \E replaced \in BOOLEAN : DaemonStop(replaced)
  \/ DaemonStart
  \/ Terminate
  \/ WatchdogTick
  \/ PolicyRestart
  \/ OperatorStart
  \/ WaitProbe
  \/ WaitTimeout
  \/ Check

WatchdogSpec == WatchdogInit /\ [][WatchdogNext]_watchdogVars
\* Time passes, the watchdog's goroutine runs, and a restart policy is set.
FairWatchdogSpec ==
  /\ WatchdogSpec
  /\ WF_watchdogVars(WatchdogTick) /\ WF_watchdogVars(Check) /\ WF_watchdogVars(PolicyRestart)
----------------------------------------------------------------------------
\* The order of events in a process: a probe reaches the socket, then the watchdog
\* is armed, then the socket can be lost.
InOrder == (lost => armed) /\ (blink => armed) /\ (armed => reached)

\* The types, and the order of the watchdog's events.
WatchdogTypeOK ==
  /\ changes \in Nat
  /\ up \in BOOLEAN /\ stale \in BOOLEAN
  /\ proc \in {"waiting", "running", "lost", "stopped"}
  /\ waited \in 0..StartupWait
  /\ phase \in 0..(Interval - 1)
  /\ pending \in BOOLEAN /\ armed \in BOOLEAN /\ lost \in BOOLEAN
  /\ downFor \in 0..Grace /\ outage \in 0..Grace
  /\ reached \in BOOLEAN /\ blink \in BOOLEAN
  /\ InOrder

\* The watchdog ends the process only if it had reached the socket before, the
\* socket is unreachable now, and it has been so for the whole grace period; or it
\* was back for a while that fell between two probes. A brief outage, or several
\* that probes told apart, never adds up to an exit.
ExitJustified ==
  [][(proc = "running" /\ proc' = "lost") =>
       reached /\ ~Reachable /\ (outage = Grace \/ blink)]_watchdogVars

\* A watchdog that was armed gets DockTail out of a mount that can never come
\* back: the process exits and the new container sees the socket directory again.
StaleMountRecovers ==
  (Watching /\ armed /\ stale) ~> (~stale \/ proc = "stopped")
=============================================================================
