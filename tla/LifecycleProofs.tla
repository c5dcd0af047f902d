-------------------------- MODULE LifecycleProofs ---------------------------
(***************************************************************************)
(* Proofs about the DockTail process. About Lifecycle, for any staleness   *)
(* limit, budget, sleep, cleanup and stop timeout that ConstantAssumption  *)
(* admits: the type invariant, that a healthy verdict is about a live      *)
(* process, that no change is missed, and that Docker's stop timeout never *)
(* cuts a cleanup short that began in time. About SocketWatchdog,          *)
(* which shares no state with it, for any grace period, probe interval and *)
(* startup wait: the type invariant, and that no exit is unjustified.      *)
(***************************************************************************)
EXTENDS Lifecycle, SocketWatchdog, TLAPS

\* TypeOK in two parts: the Boolean variables, and the others.
Flags ==
  /\ socket \in BOOLEAN /\ first \in BOOLEAN /\ cancelled \in BOOLEAN /\ ticked \in BOOLEAN
  /\ event \in BOOLEAN /\ unread \in BOOLEAN /\ nudge \in BOOLEAN
  /\ excused \in BOOLEAN /\ hung \in BOOLEAN

Integral ==
  /\ docker \in {"up", "down", "hung"} /\ events \in 0..MaxEvents
  /\ pc \in {"starting", "read", "apply", "select", "sleep", "cleanup", "dead"}
  /\ left \in Nat
  /\ pc = "sleep" => left <= SleepTime
  /\ pc = "cleanup" => left <= CleanupTime
  /\ pc \in {"read", "apply"} => left <= CycleTail
  /\ left > 0 => pc \in {"sleep", "cleanup"} \/ (pc \in {"read", "apply"} /\ cancelled)
  /\ stop \in 0..StopTimeout
  /\ stream \in {"live", "err"} /\ tpc \in {"off", "snap", "write", "wait", "gone"}
  /\ status \in Statuses /\ copy \in Statuses /\ file \in Files
  /\ sinceAlive \in 0..(StaleAfter + 1)

\* The tracker runs from the end of the startup wait to the end of the process.
TrackerLives ==
  /\ pc \in {"starting", "dead"} => tpc = "off"
  /\ pc # "dead" => sinceAlive = 0

\* A starting process has no file; a file is at least as old as its process is dead,
\* and says nothing newer than the tracker knows, and neither does a copy under way.
FileVouches ==
  /\ pc = "starting" => file = NoFile
  /\ sinceAlive <= file.updated
  /\ file # NoFile => status.since <= file.since
  /\ tpc = "write" => status.since <= copy.since

\* A change that no cycle has read, and that the stream showed, has its event on the
\* way, or a cycle that is about to read it.
ChangeNoted == unread /\ ~excused => event \/ pc = "read"

\* The stop signal's clock shows what the loop was held up for and what the cleanup
\* has used of its time.
StopsInTime ==
  /\ pc = "dead" => ~cancelled
  /\ held \in 0..stop
  /\ pc = "cleanup" => cancelled /\ stop + left = held + CleanupTime
  /\ pc # "cleanup" => held = stop
  /\ ~cancelled => stop = 0

IInv ==
  /\ Flags /\ Integral /\ TrackerLives /\ FileVouches /\ ChangeNoted /\ StopsInTime

----------------------------------------------------------------------------
(* Ages. *)

\* Ageing keeps a status and a file in their types, and the order of two ages.
LEMMA AgedType ==
  ASSUME NEW s \in Statuses
  PROVE  /\ Aged(s) \in Statuses /\ Aged(s).since = Capped(Budget + 1, s.since)
BY ConstantAssumption DEF Aged, Capped, Statuses

LEMMA AgedFileType ==
  ASSUME NEW f \in Files
  PROVE  /\ AgedFile(f) \in Files
         /\ f # NoFile => /\ AgedFile(f).since = Capped(Budget + 1, f.since)
                          /\ AgedFile(f).updated = Capped(StaleAfter + 1, f.updated)
         /\ f = NoFile => AgedFile(f) = NoFile /\ AgedFile(f).updated = StaleAfter + 1
<1>1. CASE f = NoFile BY <1>1, ConstantAssumption DEF AgedFile, NoFile, Files
<1>2. CASE f # NoFile
  <2>1. /\ f.since \in 0..(Budget + 1) /\ f.failures \in 0..2
        /\ f.updated \in 0..(StaleAfter + 1) /\ f.reachable \in BOOLEAN
    BY DEF Files
  <2>2. /\ Capped(Budget + 1, f.since) \in 0..(Budget + 1)
        /\ Capped(StaleAfter + 1, f.updated) \in 0..(StaleAfter + 1)
    BY <2>1, ConstantAssumption DEF Capped
  <2>3. AgedFile(f) = [since |-> Capped(Budget + 1, f.since), failures |-> f.failures,
                       updated |-> Capped(StaleAfter + 1, f.updated), reachable |-> f.reachable]
    BY <1>2, Zenon DEF AgedFile
  <2>4. QED BY <1>2, <2>1, <2>2, <2>3 DEF Files
<1>3. QED BY <1>1, <1>2

LEMMA CappedMonotone ==
  ASSUME NEW limit \in Nat, NEW m \in 0..limit, NEW n \in 0..limit, m <= n
  PROVE  /\ Capped(limit, m) \in 0..limit /\ Capped(limit, m) <= Capped(limit, n)
BY DEF Capped

\* What a process starts with is in its types.
LEMMA NewTypes ==
  /\ NewStatus \in Statuses /\ NoFile \in Files
  /\ NewStatus.since = 0 /\ NoFile.updated = StaleAfter + 1
BY ConstantAssumption DEF NewStatus, NoFile, Statuses, Files

\* The status after a cycle, whatever the cycle met.
LEMMA DoneType ==
  ASSUME NEW unreachable \in BOOLEAN, status \in Statuses, Done(unreachable)
  PROVE  /\ status' \in Statuses /\ status'.since = 0
         /\ UNCHANGED <<tpc, copy, file>>
<1>1. PICK n \in 0..2 : status' = [since |-> 0, failures |-> n]
  <2>1. Capped(2, status.failures) \in 0..2 BY DEF Capped, Statuses
  <2>2. QED BY <2>1 DEF Done
<1>2. QED BY <1>1, ConstantAssumption DEF Done, Statuses

----------------------------------------------------------------------------
(* The invariant. *)

LEMMA InitInv == Init => IInv
<1> SUFFICES ASSUME Init PROVE IInv OBVIOUS
<1>1. Flags BY Zenon DEF Init, Flags
<1>2. Integral BY NewTypes, ConstantAssumption DEF Init, Integral
<1>3. TrackerLives /\ FileVouches /\ ChangeNoted /\ StopsInTime
  BY NewTypes, ConstantAssumption DEF Init, TrackerLives, FileVouches, ChangeNoted, StopsInTime
<1>4. QED BY <1>1, <1>2, <1>3 DEF IInv

LEMMA NextInv == IInv /\ [Next]_vars => IInv'
<1> SUFFICES ASSUME IInv, [Next]_vars PROVE IInv' OBVIOUS
<1> USE ConstantAssumption DEF IInv, envVars, loopVars, watchVars, trackVars
<1>1. CASE Change
  <2>1. Flags' BY <1>1, Zenon DEF Change, Happens, Flags
  <2>2. Integral' BY <1>1, NewTypes DEF Change, Happens, Integral
  <2>3. TrackerLives' /\ FileVouches'
    BY <1>1, NewTypes DEF Change, Happens, TrackerLives, FileVouches, Integral
  <2>4. ChangeNoted' /\ StopsInTime'
    BY <1>1 DEF Change, Happens, ChangeNoted, StopsInTime, Flags, Integral
  <2>5. QED BY <2>1, <2>2, <2>3, <2>4
<1>2. CASE DockerFails
  <2>1. Flags' BY <1>2, Zenon DEF DockerFails, Happens, Flags
  <2>2. Integral' BY <1>2, NewTypes DEF DockerFails, Happens, Integral
  <2>3. TrackerLives' /\ FileVouches'
    BY <1>2, NewTypes DEF DockerFails, Happens, TrackerLives, FileVouches, Integral
  <2>4. ChangeNoted' /\ StopsInTime'
    BY <1>2 DEF DockerFails, Happens, ChangeNoted, StopsInTime, Flags, Integral
  <2>5. QED BY <2>1, <2>2, <2>3, <2>4
<1>3. CASE StreamBreaks
  <2>1. Flags' BY <1>3, Zenon DEF StreamBreaks, Happens, Flags
  <2>2. Integral' BY <1>3, NewTypes DEF StreamBreaks, Happens, Integral
  <2>3. TrackerLives' /\ FileVouches'
    BY <1>3, NewTypes DEF StreamBreaks, Happens, TrackerLives, FileVouches, Integral
  <2>4. ChangeNoted' /\ StopsInTime'
    BY <1>3 DEF StreamBreaks, Happens, ChangeNoted, StopsInTime, Flags, Integral
  <2>5. QED BY <2>1, <2>2, <2>3, <2>4
<1>4. CASE SocketChanges
  <2>1. Flags' BY <1>4, Zenon DEF SocketChanges, Happens, Flags
  <2>2. Integral' BY <1>4, NewTypes DEF SocketChanges, Happens, Integral
  <2>3. TrackerLives' /\ FileVouches'
    BY <1>4, NewTypes DEF SocketChanges, Happens, TrackerLives, FileVouches, Integral
  <2>4. ChangeNoted' /\ StopsInTime'
    BY <1>4 DEF SocketChanges, Happens, ChangeNoted, StopsInTime, Flags, Integral
  <2>5. QED BY <2>1, <2>2, <2>3, <2>4
<1>28. CASE TailscaledHangs
  <2>1. Flags' BY <1>28, Zenon DEF TailscaledHangs, Happens, Flags
  <2>2. Integral' BY <1>28, NewTypes DEF TailscaledHangs, Happens, Integral
  <2>3. TrackerLives' /\ FileVouches'
    BY <1>28, NewTypes DEF TailscaledHangs, Happens, TrackerLives, FileVouches, Integral
  <2>4. ChangeNoted' /\ StopsInTime'
    BY <1>28 DEF TailscaledHangs, Happens, ChangeNoted, StopsInTime, Flags, Integral
  <2>5. QED BY <2>1, <2>2, <2>3, <2>4
<1>5. CASE Crash
  <2>1. Flags' BY <1>5, Zenon DEF Crash, Happens, Ends, Fresh, Flags
  <2>2. Integral' BY <1>5, NewTypes DEF Crash, Happens, Ends, Fresh, Integral
  <2>3. TrackerLives' BY <1>5 DEF Crash, Happens, Ends, Fresh, Integral, TrackerLives
  <2>4. FileVouches'
    BY <1>5, NewTypes DEF Crash, Happens, Ends, Fresh, Integral, TrackerLives, FileVouches
  <2>5. ChangeNoted' BY <1>5 DEF Crash, Happens, Ends, Fresh, ChangeNoted, Flags
  <2>6. StopsInTime' BY <1>5 DEF Crash, Happens, Ends, Fresh, StopsInTime, Flags, Integral
  <2>7. QED BY <2>1, <2>2, <2>3, <2>4, <2>5, <2>6
<1>6. CASE Start
  <2>1. Flags' BY <1>6, Zenon DEF Start, Happens, Fresh, Flags
  <2>2. Integral' BY <1>6, NewTypes DEF Start, Happens, Fresh, Integral
  <2>3. TrackerLives' BY <1>6 DEF Start, Happens, Fresh, Integral, TrackerLives
  <2>4. FileVouches'
    BY <1>6, NewTypes DEF Start, Happens, Fresh, Integral, TrackerLives, FileVouches
  <2>5. ChangeNoted' BY <1>6 DEF Start, Happens, Fresh, ChangeNoted, Flags
  <2>6. StopsInTime' BY <1>6 DEF Start, Happens, Fresh, StopsInTime, Flags, Integral
  <2>7. QED BY <2>1, <2>2, <2>3, <2>4, <2>5, <2>6
<1>7. CASE Started
  <2>1. Flags' BY <1>7, Zenon DEF Started, Flags
  <2>2. Integral' BY <1>7, NewTypes DEF Started, Integral
  <2>3. TrackerLives' /\ FileVouches'
    BY <1>7, NewTypes DEF Started, TrackerLives, FileVouches, Integral
  <2>4. ChangeNoted' /\ StopsInTime' BY <1>7 DEF Started, ChangeNoted, StopsInTime, Flags, Integral
  <2>5. QED BY <2>1, <2>2, <2>3, <2>4
<1>8. CASE StartInterrupted
  <2>1. Flags' BY <1>8, Zenon DEF StartInterrupted, Ends, Fresh, Flags
  <2>2. Integral' BY <1>8, NewTypes DEF StartInterrupted, Ends, Fresh, Integral
  <2>3. TrackerLives' BY <1>8 DEF StartInterrupted, Ends, Fresh, Integral, TrackerLives
  <2>4. FileVouches'
    BY <1>8, NewTypes DEF StartInterrupted, Ends, Fresh, Integral, TrackerLives, FileVouches
  <2>5. ChangeNoted' BY <1>8 DEF StartInterrupted, Ends, Fresh, ChangeNoted, Flags
  <2>6. StopsInTime' BY <1>8 DEF StartInterrupted, Ends, Fresh, StopsInTime, Flags, Integral
  <2>7. QED BY <2>1, <2>2, <2>3, <2>4, <2>5, <2>6
<1>9. CASE Signal
  <2>1. Flags' BY <1>9, Zenon DEF Signal, Flags
  <2>2. Integral' BY <1>9, NewTypes DEF Signal, Integral
  <2>3. TrackerLives' /\ FileVouches'
    BY <1>9, NewTypes DEF Signal, TrackerLives, FileVouches, Integral
  <2>4. ChangeNoted' /\ StopsInTime' BY <1>9 DEF Signal, ChangeNoted, StopsInTime, Flags, Integral
  <2>5. QED BY <2>1, <2>2, <2>3, <2>4
<1>10. CASE Read
  <2>1. Flags' BY <1>10, Zenon DEF Read, Flags
  <2>2. Integral' BY <1>10, NewTypes DEF Read, Integral
  <2>3. TrackerLives' /\ FileVouches'
    BY <1>10, NewTypes DEF Read, TrackerLives, FileVouches, Integral
  <2>4. ChangeNoted' /\ StopsInTime' BY <1>10 DEF Read, ChangeNoted, StopsInTime, Flags, Integral
  <2>5. QED BY <2>1, <2>2, <2>3, <2>4
<1>29. CASE ReadSkips
  <2>1. Flags' BY <1>29, Zenon DEF ReadSkips, Happens, Flags
  <2>2. Integral' BY <1>29, NewTypes DEF ReadSkips, Happens, Integral
  <2>3. TrackerLives' /\ FileVouches'
    BY <1>29, NewTypes DEF ReadSkips, Happens, TrackerLives, FileVouches, Integral
  <2>4. ChangeNoted' /\ StopsInTime'
    BY <1>29 DEF ReadSkips, Happens, ChangeNoted, StopsInTime, Flags, Integral
  <2>5. QED BY <2>1, <2>2, <2>3, <2>4
<1>11. CASE ReadFails
  <2>0. /\ status' \in Statuses /\ status'.since = 0
        /\ UNCHANGED <<tpc, copy, file>>
    BY <1>11, DoneType DEF ReadFails, CycleEnds, Integral
  <2>1. Flags' BY <1>11, Zenon DEF ReadFails, CycleEnds, Done, Subscribed, Flags
  <2>2. Integral' BY <1>11, <2>0 DEF ReadFails, CycleEnds, Subscribed, Integral
  <2>3. TrackerLives' BY <1>11 DEF ReadFails, CycleEnds, Done, Subscribed, Integral, TrackerLives
  <2>4. FileVouches'
    <3>1. file \in Files /\ copy \in Statuses BY DEF Integral
    <3>2. 0 <= file.since /\ 0 <= copy.since BY <3>1 DEF Files, Statuses
    <3>3. QED BY <1>11, <2>0, <3>2 DEF ReadFails, CycleEnds, FileVouches
  <2>5. ChangeNoted' BY <1>11 DEF ReadFails, CycleEnds, Done, Subscribed, ChangeNoted, Flags
  <2>6. StopsInTime'
    BY <1>11 DEF ReadFails, CycleEnds, Done, Subscribed, StopsInTime, Flags, Integral
  <2>7. QED BY <2>1, <2>2, <2>3, <2>4, <2>5, <2>6
<1>12. CASE Apply
  <2>0. /\ status' \in Statuses /\ status'.since = 0
        /\ UNCHANGED <<tpc, copy, file>>
    BY <1>12, DoneType DEF Apply, CycleEnds, Integral
  <2>1. Flags' BY <1>12, Zenon DEF Apply, CycleEnds, Done, Subscribed, Flags
  <2>2. Integral' BY <1>12, <2>0 DEF Apply, CycleEnds, Subscribed, Integral
  <2>3. TrackerLives' BY <1>12 DEF Apply, CycleEnds, Done, Subscribed, Integral, TrackerLives
  <2>4. FileVouches'
    <3>1. file \in Files /\ copy \in Statuses BY DEF Integral
    <3>2. 0 <= file.since /\ 0 <= copy.since BY <3>1 DEF Files, Statuses
    <3>3. QED BY <1>12, <2>0, <3>2 DEF Apply, CycleEnds, FileVouches
  <2>5. ChangeNoted' BY <1>12 DEF Apply, CycleEnds, Done, Subscribed, ChangeNoted, Flags
  <2>6. StopsInTime' BY <1>12 DEF Apply, CycleEnds, Done, Subscribed, StopsInTime, Flags, Integral
  <2>7. QED BY <2>1, <2>2, <2>3, <2>4, <2>5, <2>6
<1>13. CASE TakeEvent
  <2>1. Flags' BY <1>13, Zenon DEF TakeEvent, Selecting, Flags
  <2>2. Integral' BY <1>13, NewTypes DEF TakeEvent, Selecting, Integral
  <2>3. TrackerLives' /\ FileVouches'
    BY <1>13, NewTypes DEF TakeEvent, Selecting, TrackerLives, FileVouches, Integral
  <2>4. ChangeNoted' /\ StopsInTime'
    BY <1>13 DEF TakeEvent, Selecting, ChangeNoted, StopsInTime, Flags, Integral
  <2>5. QED BY <2>1, <2>2, <2>3, <2>4
<1>14. CASE TakeTick
  <2>1. Flags' BY <1>14, Zenon DEF TakeTick, Selecting, Flags
  <2>2. Integral' BY <1>14, NewTypes DEF TakeTick, Selecting, Integral
  <2>3. TrackerLives' /\ FileVouches'
    BY <1>14, NewTypes DEF TakeTick, Selecting, TrackerLives, FileVouches, Integral
  <2>4. ChangeNoted' /\ StopsInTime'
    BY <1>14 DEF TakeTick, Selecting, ChangeNoted, StopsInTime, Flags, Integral
  <2>5. QED BY <2>1, <2>2, <2>3, <2>4
<1>15. CASE TakeError
  <2>1. Flags' BY <1>15, Zenon DEF TakeError, Selecting, Flags
  <2>2. Integral' BY <1>15, NewTypes DEF TakeError, Selecting, Integral
  <2>3. TrackerLives' /\ FileVouches'
    BY <1>15, NewTypes DEF TakeError, Selecting, TrackerLives, FileVouches, Integral
  <2>4. ChangeNoted' /\ StopsInTime'
    BY <1>15 DEF TakeError, Selecting, ChangeNoted, StopsInTime, Flags, Integral
  <2>5. QED BY <2>1, <2>2, <2>3, <2>4
<1>16. CASE SleepEnds
  <2>1. Flags' BY <1>16, Zenon DEF SleepEnds, Subscribed, Flags
  <2>2. Integral' BY <1>16, NewTypes DEF SleepEnds, Subscribed, Integral
  <2>3. TrackerLives' BY <1>16 DEF SleepEnds, Subscribed, Integral, TrackerLives
  <2>4. FileVouches'
    BY <1>16, NewTypes DEF SleepEnds, Subscribed, Integral, TrackerLives, FileVouches
  <2>5. ChangeNoted' BY <1>16 DEF SleepEnds, Subscribed, ChangeNoted, Flags
  <2>6. StopsInTime' BY <1>16 DEF SleepEnds, Subscribed, StopsInTime, Flags, Integral
  <2>7. QED BY <2>1, <2>2, <2>3, <2>4, <2>5, <2>6
<1>17. CASE TakeDone
  <2>1. Flags' BY <1>17, Zenon DEF TakeDone, Flags
  <2>2. Integral' BY <1>17, NewTypes DEF TakeDone, Integral
  <2>3. TrackerLives' /\ FileVouches'
    BY <1>17, NewTypes DEF TakeDone, TrackerLives, FileVouches, Integral
  <2>4. ChangeNoted' /\ StopsInTime'
    BY <1>17 DEF TakeDone, ChangeNoted, StopsInTime, Flags, Integral
  <2>5. QED BY <2>1, <2>2, <2>3, <2>4
<1>18. CASE Exit
  <2>1. Flags' BY <1>18, Zenon DEF Exit, Ends, Fresh, Flags
  <2>2. Integral' BY <1>18, NewTypes DEF Exit, Ends, Fresh, Integral
  <2>3. TrackerLives' BY <1>18 DEF Exit, Ends, Fresh, Integral, TrackerLives
  <2>4. FileVouches' BY <1>18, NewTypes DEF Exit, Ends, Fresh, Integral, TrackerLives, FileVouches
  <2>5. ChangeNoted' BY <1>18 DEF Exit, Ends, Fresh, ChangeNoted, Flags
  <2>6. StopsInTime' BY <1>18 DEF Exit, Ends, Fresh, StopsInTime, Flags, Integral
  <2>7. QED BY <2>1, <2>2, <2>3, <2>4, <2>5, <2>6
<1>19. CASE Kill
  <2>1. Flags' BY <1>19, Zenon DEF Kill, Ends, Fresh, Flags
  <2>2. Integral' BY <1>19, NewTypes DEF Kill, Ends, Fresh, Integral
  <2>3. TrackerLives' BY <1>19 DEF Kill, Ends, Fresh, Integral, TrackerLives
  <2>4. FileVouches' BY <1>19, NewTypes DEF Kill, Ends, Fresh, Integral, TrackerLives, FileVouches
  <2>5. ChangeNoted' BY <1>19 DEF Kill, Ends, Fresh, ChangeNoted, Flags
  <2>6. StopsInTime' BY <1>19 DEF Kill, Ends, Fresh, StopsInTime, Flags, Integral
  <2>7. QED BY <2>1, <2>2, <2>3, <2>4, <2>5, <2>6
<1>20. CASE Snapshot
  <2>1. Flags' BY <1>20, Zenon DEF Snapshot, Tracking, Flags
  <2>2. Integral' BY <1>20, NewTypes DEF Snapshot, Tracking, Integral
  <2>3. TrackerLives' BY <1>20 DEF Snapshot, Tracking, Integral, TrackerLives
  <2>4. FileVouches'
    <3>1. status.since <= status.since BY DEF Integral, Statuses
    <3>2. QED BY <1>20, <3>1 DEF Snapshot, Tracking, FileVouches
  <2>5. ChangeNoted' BY <1>20 DEF Snapshot, Tracking, ChangeNoted, Flags
  <2>6. StopsInTime' BY <1>20 DEF Snapshot, Tracking, StopsInTime, Flags, Integral
  <2>7. QED BY <2>1, <2>2, <2>3, <2>4, <2>5, <2>6
<1>21. CASE Write
  <2>1. Flags' BY <1>21, Zenon DEF Write, Tracking, Flags
  <2>2. Integral'
    <3>1. file' \in Files BY <1>21 DEF Write, Integral, Files, Statuses, Flags
    <3>2. QED BY <1>21, <3>1, NewTypes DEF Write, Tracking, Integral
  <2>3. TrackerLives' BY <1>21 DEF Write, Tracking, Integral, TrackerLives
  <2>4. FileVouches' BY <1>21, NewTypes DEF Write, Tracking, Integral, TrackerLives, FileVouches
  <2>5. ChangeNoted' BY <1>21 DEF Write, Tracking, ChangeNoted, Flags
  <2>6. StopsInTime' BY <1>21 DEF Write, Tracking, StopsInTime, Flags, Integral
  <2>7. QED BY <2>1, <2>2, <2>3, <2>4, <2>5, <2>6
<1>22. CASE WriteFails
  <2>1. Flags' BY <1>22, Zenon DEF WriteFails, Happens, Flags
  <2>2. Integral' BY <1>22, NewTypes DEF WriteFails, Happens, Integral
  <2>3. TrackerLives' /\ FileVouches'
    BY <1>22, NewTypes DEF WriteFails, Happens, TrackerLives, FileVouches, Integral
  <2>4. ChangeNoted' /\ StopsInTime'
    BY <1>22 DEF WriteFails, Happens, ChangeNoted, StopsInTime, Flags, Integral
  <2>5. QED BY <2>1, <2>2, <2>3, <2>4
<1>23. CASE WakeOnTicker
  <2>1. Flags' BY <1>23, Zenon DEF WakeOnTicker, Tracking, Flags
  <2>2. Integral' BY <1>23, NewTypes DEF WakeOnTicker, Tracking, Integral
  <2>3. TrackerLives' /\ FileVouches'
    BY <1>23, NewTypes DEF WakeOnTicker, Tracking, TrackerLives, FileVouches, Integral
  <2>4. ChangeNoted' /\ StopsInTime'
    BY <1>23 DEF WakeOnTicker, Tracking, ChangeNoted, StopsInTime, Flags, Integral
  <2>5. QED BY <2>1, <2>2, <2>3, <2>4
<1>24. CASE WakeOnNudge
  <2>1. Flags' BY <1>24, Zenon DEF WakeOnNudge, Tracking, Flags
  <2>2. Integral' BY <1>24, NewTypes DEF WakeOnNudge, Tracking, Integral
  <2>3. TrackerLives' /\ FileVouches'
    BY <1>24, NewTypes DEF WakeOnNudge, Tracking, TrackerLives, FileVouches, Integral
  <2>4. ChangeNoted' /\ StopsInTime'
    BY <1>24 DEF WakeOnNudge, Tracking, ChangeNoted, StopsInTime, Flags, Integral
  <2>5. QED BY <2>1, <2>2, <2>3, <2>4
<1>25. CASE Remove
  <2>1. Flags' BY <1>25, Zenon DEF Remove, Tracking, Flags
  <2>2. Integral' BY <1>25, NewTypes DEF Remove, Tracking, Integral
  <2>3. TrackerLives' BY <1>25 DEF Remove, Tracking, Integral, TrackerLives
  <2>4. FileVouches' BY <1>25, NewTypes DEF Remove, Tracking, Integral, TrackerLives, FileVouches
  <2>5. ChangeNoted' BY <1>25 DEF Remove, Tracking, ChangeNoted, Flags
  <2>6. StopsInTime' BY <1>25 DEF Remove, Tracking, StopsInTime, Flags, Integral
  <2>7. QED BY <2>1, <2>2, <2>3, <2>4, <2>5, <2>6
<1>26. CASE Tick
  <2>0. /\ status' = Aged(status) /\ file' = AgedFile(file)
        /\ copy' = IF tpc = "write" THEN Aged(copy) ELSE copy
        /\ UNCHANGED <<docker, events, pc, first, cancelled, stream, tpc>>
        /\ sinceAlive' = IF pc = "dead" THEN Capped(StaleAfter + 1, sinceAlive) ELSE 0
    BY <1>26 DEF Tick
  <2>1. Flags' BY <1>26, Zenon DEF Tick, Flags
  <2>2. Integral'
    <3>1. status' \in Statuses /\ copy' \in Statuses /\ file' \in Files
      BY <2>0, AgedType, AgedFileType DEF Integral
    <3>2. sinceAlive' \in 0..(StaleAfter + 1) BY <2>0 DEF Capped, Integral
    <3>3. stop' \in 0..StopTimeout BY <1>26 DEF Tick, Integral
    <3>4. left' \in Nat /\ left' <= left BY <1>26 DEF Tick, Integral
    <3>5. QED BY <2>0, <3>1, <3>2, <3>3, <3>4 DEF Integral
  <2>3. TrackerLives' BY <1>26 DEF Tick, Integral, TrackerLives
  <2>4. FileVouches'
    <3>1. /\ status.since \in 0..(Budget + 1) /\ copy.since \in 0..(Budget + 1)
          /\ file.since \in 0..(Budget + 1) /\ file.updated \in 0..(StaleAfter + 1)
          /\ sinceAlive \in 0..(StaleAfter + 1) /\ Budget + 1 \in Nat /\ StaleAfter + 1 \in Nat
      BY DEF Integral, Statuses, Files
    <3>2. status'.since = Capped(Budget + 1, status.since)
      BY <2>0, AgedType DEF Integral
    <3>3. tpc = "write" => copy'.since = Capped(Budget + 1, copy.since)
      BY <2>0, AgedType DEF Integral
    <3>4. tpc' = "write" => status'.since <= copy'.since
      BY <2>0, <3>1, <3>2, <3>3, CappedMonotone DEF FileVouches
    <3>5. CASE file = NoFile
      <4>1. file' = NoFile /\ file'.updated = StaleAfter + 1
        BY <2>0, <3>5, AgedFileType DEF Integral
      <4>2. sinceAlive' <= StaleAfter + 1 BY <2>2 DEF Integral
      <4>3. QED BY <4>1, <4>2, <3>4 DEF FileVouches
    <3>6. CASE file # NoFile
      <4>1. /\ file'.since = Capped(Budget + 1, file.since)
            /\ file'.updated = Capped(StaleAfter + 1, file.updated)
        BY <2>0, <3>6, AgedFileType DEF Integral
      <4>2. status'.since <= file'.since
        BY <3>1, <3>2, <3>6, <4>1, CappedMonotone DEF FileVouches
      <4>3. sinceAlive' <= file'.updated
        <5>1. CASE pc = "dead"
          <6>1. sinceAlive <= file.updated BY DEF FileVouches
          <6>2. Capped(StaleAfter + 1, sinceAlive) <= Capped(StaleAfter + 1, file.updated)
            BY <3>1, <6>1, CappedMonotone
          <6>3. QED BY <2>0, <4>1, <5>1, <6>2
        <5>2. CASE pc # "dead"
          BY <2>0, <2>2, <3>1, <4>1, <5>2 DEF Capped
        <5>3. QED BY <5>1, <5>2
      <4>4. QED BY <2>0, <3>4, <3>6, <4>2, <4>3 DEF FileVouches
    <3>7. QED BY <3>5, <3>6
  <2>5. ChangeNoted' BY <1>26 DEF Tick, ChangeNoted, Flags
  <2>6. StopsInTime'
    <3>1. CASE ~cancelled BY <1>26, <2>0, <3>1 DEF Tick, StopsInTime
    <3>2. CASE cancelled
      <4>1. /\ pc \in {"read", "apply", "sleep", "cleanup"} /\ left > 0
            /\ stop' = stop + 1 /\ left' = left - 1
            /\ held' = IF pc = "cleanup" THEN held ELSE held + 1
        BY <1>26, <3>2 DEF Tick, LoopWaits, StopsInTime
      <4>2. stop \in Nat /\ left \in Nat /\ held \in 0..stop
        BY DEF StopsInTime, Integral
      <4>3. QED BY <2>0, <3>2, <4>1, <4>2 DEF StopsInTime
    <3>3. QED BY <3>1, <3>2
  <2>7. QED BY <2>1, <2>2, <2>3, <2>4, <2>5, <2>6
<1>27. CASE UNCHANGED vars
  <2>1. Flags' BY <1>27, Zenon DEF vars, Flags
  <2>2. QED BY <1>27, <2>1 DEF vars, Integral, TrackerLives, FileVouches, ChangeNoted, StopsInTime
<1>30. QED
  BY <1>1, <1>2, <1>3, <1>4, <1>5, <1>6, <1>7, <1>8, <1>9, <1>10, <1>11, <1>12, <1>13, <1>14,
     <1>15, <1>16, <1>17, <1>18, <1>19, <1>20, <1>21, <1>22, <1>23, <1>24, <1>25, <1>26, <1>27, <1>28,
     <1>29 DEF Next, Environment, Loop, Tracker

LEMMA Invariant == Spec => []IInv
BY InitInv, NextInv, PTL DEF Spec

----------------------------------------------------------------------------
(* The theorems. *)

\* main, the reconcile loop, the tracker and the clock keep every variable in its
\* type: in particular the shutdown clock never passes Docker's stop timeout, and no
\* wait is longer than the sleep or the cleanup it belongs to.
THEOREM TypeCorrect == Spec => []TypeOK
<1>1. IInv => TypeOK BY DEF IInv, Flags, Integral, StopsInTime, TypeOK
<1>2. QED BY <1>1, Invariant, PTL

\* "docktail health" says healthy only of a process that runs, or stopped less than
\* staleAfter ago, and that ended a cycle, or started, within the budget: the file of
\* an earlier run, a slow write and a stalled loop never pass for it.
THEOREM VerdictJustified == Spec => []HealthyJustified
<1>1. IInv => HealthyJustified
  <2> SUFFICES ASSUME IInv, Healthy PROVE
        pc # "starting" /\ sinceAlive <= StaleAfter /\ status.since <= Budget
    BY DEF HealthyJustified
  <2>1. /\ sinceAlive \in Nat /\ file.updated \in Nat /\ file.since \in Nat /\ status.since \in Nat
    BY ConstantAssumption DEF IInv, Integral, Files, Statuses
  <2>2. QED BY <2>1, ConstantAssumption DEF IInv, FileVouches, Healthy
<1>2. QED BY <1>1, Invariant, PTL

\* The select of Reconciler.Run never waits on a change that nothing will tell it of,
\* unless there was no event stream when it happened, or the cycle that answered it
\* could not read Docker or could not inspect a container.
THEOREM NoChangeMissed == Spec => []ChangeNotMissed
<1>1. IInv => ChangeNotMissed BY DEF IInv, ChangeNoted, ChangeNotMissed
<1>2. QED BY <1>1, Invariant, PTL

\* For any sleep, cleanup and stop timeout, and however long an interrupted cycle goes
\* on, Docker kills a process that is shutting down only if the sleep of the event
\* stream's error path and that cycle kept it from the cleanup for at least what the
\* stop timeout leaves beside the cleanup.
THEOREM CleanupFitsStopTimeout == Spec => KilledOnlyHeldUp
<1>1. IInv /\ [Next]_vars => [Kill => held >= StopTimeout - CleanupTime]_vars
  <2> SUFFICES ASSUME IInv, Kill PROVE held >= StopTimeout - CleanupTime OBVIOUS
  <2>1. /\ cancelled /\ stop = StopTimeout /\ left \in Nat /\ held \in 0..stop
        /\ CleanupTime \in Nat /\ StopTimeout \in Nat
    BY ConstantAssumption DEF IInv, Integral, StopsInTime, Kill
  <2>2. QED BY <2>1 DEF IInv, StopsInTime
<1>2. QED BY <1>1, Invariant, PTL DEF Spec, KilledOnlyHeldUp

----------------------------------------------------------------------------
(* The socket watchdog. *)

\* While the watchdog holds the socket for lost and no recovery slipped between
\* its probes, the socket is unreachable and has been for as long as it thinks.
OutageCounted == lost /\ ~blink => ~Reachable /\ downFor <= outage

WatchdogInv == WatchdogTypeOK /\ OutageCounted

LEMMA WatchdogInitInv == WatchdogInit => WatchdogInv
<1> SUFFICES ASSUME WatchdogInit PROVE WatchdogInv
  OBVIOUS
<1>1. WatchdogTypeOK
  <2>1. InOrder
    BY DEF InOrder, WatchdogInit
  <2>2. /\ up \in BOOLEAN /\ stale \in BOOLEAN /\ pending \in BOOLEAN
        /\ armed \in BOOLEAN /\ lost \in BOOLEAN /\ reached \in BOOLEAN /\ blink \in BOOLEAN
    BY Zenon DEF WatchdogInit
  <2>3. /\ changes \in Nat /\ waited \in 0..StartupWait /\ phase \in 0..(Interval - 1)
        /\ downFor \in 0..Grace /\ outage \in 0..Grace
    BY WatchdogAssumption DEF WatchdogInit
  <2> QED
    BY <2>1, <2>2, <2>3 DEF WatchdogInit, WatchdogTypeOK
<1>2. OutageCounted
  BY DEF WatchdogInit, OutageCounted
<1> QED
  BY <1>1, <1>2 DEF WatchdogInv

\* Counting up to a limit stays below it and keeps the order of two counters.
LEMMA UpToLimit ==
  ASSUME NEW limit \in Nat, NEW m \in 0..limit, NEW n \in 0..limit
  PROVE  /\ UpTo(limit, m) \in 0..limit
         /\ m <= n => UpTo(limit, m) <= UpTo(limit, n)
BY DEF UpTo

LEMMA WatchdogTickInv == WatchdogInv /\ WatchdogTick => WatchdogInv'
<1> SUFFICES ASSUME WatchdogInv, WatchdogTick PROVE WatchdogInv'
  OBVIOUS
<1> USE WatchdogAssumption DEF WatchdogInv
<1>1. /\ UpTo(StartupWait, waited) \in 0..StartupWait
      /\ UpTo(Grace, downFor) \in 0..Grace
      /\ UpTo(Grace, outage) \in 0..Grace
      /\ downFor <= outage => UpTo(Grace, downFor) <= UpTo(Grace, outage)
  BY UpToLimit DEF WatchdogTypeOK
<1>2. WatchdogTypeOK'
  <2>1. waited' \in 0..StartupWait /\ downFor' \in 0..Grace /\ outage' \in 0..Grace
    BY <1>1 DEF WatchdogTypeOK, WatchdogTick
  <2>2. phase' \in 0..(Interval - 1)
    BY DEF WatchdogTypeOK, WatchdogTick
  <2>3. pending' \in BOOLEAN
    BY DEF WatchdogTypeOK, WatchdogTick
  <2> QED
    BY <2>1, <2>2, <2>3 DEF WatchdogTypeOK, InOrder, WatchdogTick
<1>3. OutageCounted'
  <2> SUFFICES ASSUME lost, ~blink PROVE ~Reachable' /\ downFor' <= outage'
    BY DEF OutageCounted, WatchdogTick
  <2> QED
    BY <1>1 DEF OutageCounted, WatchdogTick, Reachable
<1> QED
  BY <1>2, <1>3

LEMMA WatchdogStartInv == WatchdogInv /\ StartContainer /\ changes' \in Nat => WatchdogInv'
<1> SUFFICES ASSUME WatchdogInv, StartContainer, changes' \in Nat PROVE WatchdogInv'
  OBVIOUS
<1>1. WatchdogTypeOK'
  <2>1. InOrder'
    BY DEF InOrder, StartContainer
  <2>2. /\ (up \in BOOLEAN)' /\ (stale \in BOOLEAN)' /\ (pending \in BOOLEAN)'
        /\ (armed \in BOOLEAN)' /\ (lost \in BOOLEAN)' /\ (reached \in BOOLEAN)'
        /\ (blink \in BOOLEAN)'
    BY Zenon DEF WatchdogInv, WatchdogTypeOK, StartContainer
  <2>3. /\ waited' \in 0..StartupWait /\ phase' \in 0..(Interval - 1)
        /\ downFor' \in 0..Grace /\ outage' \in 0..Grace
    BY WatchdogAssumption DEF WatchdogInv, WatchdogTypeOK, StartContainer
  <2> QED
    BY <2>1, <2>2, <2>3 DEF WatchdogTypeOK, StartContainer
<1>2. OutageCounted'
  BY DEF OutageCounted, StartContainer
<1> QED
  BY <1>1, <1>2 DEF WatchdogInv

LEMMA WatchdogCheckInv == WatchdogInv /\ Check => WatchdogInv'
<1> SUFFICES ASSUME WatchdogInv, Check PROVE WatchdogInv'
  OBVIOUS
<1> USE DEF Checking
<1>1. WatchdogTypeOK'
  <2>1. InOrder'
    BY DEF InOrder, WatchdogInv, WatchdogTypeOK, Check, ProbeOK, ProbeUnarmed, ProbeFirstLoss,
           ProbeWithinGrace, GiveUp
  <2>2. /\ (pending \in BOOLEAN)' /\ (armed \in BOOLEAN)' /\ (lost \in BOOLEAN)'
        /\ (reached \in BOOLEAN)' /\ (blink \in BOOLEAN)'
    BY Zenon DEF WatchdogInv, WatchdogTypeOK, Check, ProbeOK, ProbeUnarmed, ProbeFirstLoss,
                 ProbeWithinGrace, GiveUp
  <2>3. downFor' \in 0..Grace /\ proc' \in {"waiting", "running", "lost", "stopped"}
    BY WatchdogAssumption
    DEF WatchdogInv, WatchdogTypeOK, Check, ProbeOK, ProbeUnarmed, ProbeFirstLoss,
        ProbeWithinGrace, GiveUp
  <2>4. UNCHANGED <<changes, up, stale, waited, phase, outage>>
    BY DEF Check, ProbeOK, ProbeUnarmed, ProbeFirstLoss, ProbeWithinGrace, GiveUp
  <2> QED
    BY <2>1, <2>2, <2>3, <2>4 DEF WatchdogInv, WatchdogTypeOK
<1>2. OutageCounted'
  <2>1. CASE ProbeOK
    BY <2>1 DEF ProbeOK, OutageCounted
  <2>2. CASE ProbeFirstLoss
    BY <2>2, WatchdogAssumption
    DEF ProbeFirstLoss, WatchdogInv, WatchdogTypeOK, OutageCounted, Reachable
  <2>3. CASE ProbeUnarmed \/ ProbeWithinGrace \/ GiveUp
    BY <2>3 DEF ProbeUnarmed, ProbeWithinGrace, GiveUp, WatchdogInv, OutageCounted, Reachable
  <2> QED
    BY <2>1, <2>2, <2>3 DEF Check
<1> QED
  BY <1>1, <1>2 DEF WatchdogInv

LEMMA WatchdogNextInv == WatchdogInv /\ [WatchdogNext]_watchdogVars => WatchdogInv'
<1> SUFFICES ASSUME WatchdogInv, [WatchdogNext]_watchdogVars PROVE WatchdogInv'
  OBVIOUS
<1> USE WatchdogAssumption
<1>1. ASSUME NEW replaced \in BOOLEAN, DaemonStop(replaced) PROVE WatchdogInv'
  <2> USE <1>1 DEF DaemonStop, EnvStep, procVars
  <2>1. (up \in BOOLEAN)' /\ (stale \in BOOLEAN)'
    BY Zenon DEF WatchdogInv, WatchdogTypeOK
  <2>2. WatchdogTypeOK'
    BY <2>1 DEF WatchdogInv, WatchdogTypeOK, InOrder
  <2>3. OutageCounted'
    BY DEF WatchdogInv, OutageCounted, Reachable
  <2> QED
    BY <2>2, <2>3 DEF WatchdogInv
<1>2. CASE DaemonStart
  BY <1>2 DEF WatchdogInv, WatchdogTypeOK, InOrder, OutageCounted, Reachable, DaemonStart, EnvStep
<1>3. CASE Terminate
  BY <1>3 DEF WatchdogInv, WatchdogTypeOK, InOrder, OutageCounted, Reachable, Terminate, EnvStep
<1>4. CASE WatchdogTick
  BY <1>4, WatchdogTickInv
<1>5. CASE PolicyRestart
  BY <1>5, WatchdogStartInv DEF PolicyRestart, WatchdogInv, WatchdogTypeOK
<1>6. CASE OperatorStart
  BY <1>6, WatchdogStartInv DEF OperatorStart, EnvStep, WatchdogInv, WatchdogTypeOK
<1>7. CASE WaitProbe
  BY <1>7 DEF WatchdogInv, WatchdogTypeOK, InOrder, OutageCounted, Reachable, WaitProbe
<1>8. CASE WaitTimeout
  BY <1>8 DEF WatchdogInv, WatchdogTypeOK, InOrder, OutageCounted, Reachable, WaitTimeout
<1>9. CASE Check
  BY <1>9, WatchdogCheckInv
<1>10. CASE UNCHANGED watchdogVars
  BY <1>10 DEF WatchdogInv, WatchdogTypeOK, InOrder, OutageCounted, Reachable, watchdogVars
<1> QED
  BY <1>1, <1>2, <1>3, <1>4, <1>5, <1>6, <1>7, <1>8, <1>9, <1>10 DEF WatchdogNext

LEMMA WatchdogInvariant == WatchdogSpec => []WatchdogInv
<1>1. WatchdogInit => WatchdogInv
  BY WatchdogInitInv
<1>2. WatchdogInv /\ [WatchdogNext]_watchdogVars => WatchdogInv'
  BY WatchdogNextInv
<1> QED
  BY <1>1, <1>2, PTL DEF WatchdogSpec

\* Every reachable state is well typed, and a process loses the socket only after
\* it was armed, and is armed only after a probe reached the socket.
THEOREM WatchdogTypeCorrect == WatchdogSpec => []WatchdogTypeOK
<1>1. WatchdogInv => WatchdogTypeOK
  BY DEF WatchdogInv
<1> QED
  BY <1>1, WatchdogInvariant, PTL

LEMMA WatchdogExitStep ==
  WatchdogInv /\ [WatchdogNext]_watchdogVars /\ proc = "running" /\ proc' = "lost" =>
    reached /\ ~Reachable /\ (outage = Grace \/ blink)
<1> SUFFICES ASSUME WatchdogInv, [WatchdogNext]_watchdogVars, proc = "running", proc' = "lost"
             PROVE  reached /\ ~Reachable /\ (outage = Grace \/ blink)
  OBVIOUS
<1>1. GiveUp
  BY DEF WatchdogNext, watchdogVars, DaemonStop, DaemonStart, Terminate, WatchdogTick,
         PolicyRestart, OperatorStart,
         WaitProbe, WaitTimeout, Check, ProbeOK, ProbeUnarmed, ProbeFirstLoss,
         ProbeWithinGrace, StartContainer, procVars
<1>2. ~Reachable /\ armed /\ lost /\ downFor = Grace
  BY <1>1, WatchdogAssumption DEF GiveUp, WatchdogInv, WatchdogTypeOK
<1> QED
  BY <1>2, WatchdogAssumption DEF WatchdogInv, WatchdogTypeOK, InOrder, OutageCounted

\* The watchdog never ends DockTail for an outage shorter than the grace period,
\* nor before the socket was reachable, whatever the daemon, the mount, the
\* signals and the lateness of the probes.
THEOREM WatchdogExitSafe == WatchdogSpec => ExitJustified
<1>1. WatchdogInv /\ [WatchdogNext]_watchdogVars =>
        [(proc = "running" /\ proc' = "lost") =>
           reached /\ ~Reachable /\ (outage = Grace \/ blink)]_watchdogVars
  BY WatchdogExitStep
<1> QED
  BY <1>1, WatchdogInvariant, PTL DEF WatchdogSpec, ExitJustified
=============================================================================
