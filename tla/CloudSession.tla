---------------------------- MODULE CloudSession ----------------------------
(***************************************************************************)
(* The reconnect loop of the cloud collector (cloud.Collector.Run and      *)
(* session): dial, hello, the answer, serving, and what a refusal or a     *)
(* failure leads to. The session's goroutine waits for three things at     *)
(* once: the answer handed over by the read loop, the end of the           *)
(* connection, and a timeout. The cloud's mood decides what it answers.    *)
(*                                                                         *)
(* Delays are in seconds; the clock ticks in steps of the rare retry       *)
(* interval, at any moment.                                                *)
(***************************************************************************)
EXTENDS Integers, FiniteSets

CONSTANTS
  MinBackoff, MaxBackoff,  \* minBackoff, maxBackoff
  Window,                  \* rareRetryWindow
  MaxMoods,                \* bound on changes of the cloud's mood
  MaxBreaks                \* bound on connections an answering cloud breaks off

ASSUME ConstantAssumption ==
  /\ MinBackoff \in Nat \ {0} /\ MaxBackoff \in Nat /\ MinBackoff <= MaxBackoff
  /\ Window \in Nat \ {0} /\ MaxMoods \in Nat /\ MaxBreaks \in Nat

\* What a refusal leads to (rejectAction), and what stands for none.
Actions == {"retry", "slow", "rare", "stop"}
None == "none"

\* The cloud: takes the hello, cannot be reached, says nothing, or refuses with a
\* code (some in the hello_ack, some as the status of the upgrade).
Answers == {"accepted", "invalid_key", "blocked", "over_cap", "unknown"}
Moods == Answers \cup {"down", "silent", "http_401", "http_403"}

VARIABLES
  \* Run
  pc,         \* dial, hello, wait, abandon, serve, sleep, parked, done
  cur,        \* backoff.cur
  rareSince,  \* how long ago rareSince is; -1 when it is zero
  \* the connection
  open,       \* the read loop runs
  wire,       \* the hello_ack on its way
  ackCh,      \* ackCh
  ended,      \* runDone holds a value
  link,       \* linkTracker.status.State
  \* the surroundings
  mood, moods, breaks, cancelled,
  \* observers
  quiet,      \* how long ago a connection was accepted
  refusal     \* what the last refusal the session returned leads to

runVars  == <<pc, cur, rareSince>>
connVars == <<open, wire, ackCh, ended>>
envVars  == <<mood, moods, breaks, cancelled>>
obsVars  == <<quiet, refusal>>
vars == <<pc, cur, rareSince, open, wire, ackCh, ended, link, mood, moods, breaks, cancelled,
          quiet, refusal>>

Init ==
  /\ pc = "dial" /\ cur = 0 /\ rareSince = -1
  /\ open = FALSE /\ wire = None /\ ackCh = None /\ ended = FALSE /\ link = "connecting"
  /\ mood \in Moods /\ moods = 0 /\ breaks = 0 /\ cancelled = FALSE
  /\ quiet = 0 /\ refusal = None

----------------------------------------------------------------------------
(* Refusals and delays. *)

\* httpRejection and helloRejection.
Leads(code) ==
  CASE code \in {"http_401", "invalid_key"} -> "stop"
    [] code \in {"http_403", "blocked"} -> "rare"
    [] code = "over_cap" -> "slow"
    [] OTHER -> "retry"

\* Mutant: the delay is not capped.
NextBackoffUncapped(c) == IF c < MinBackoff THEN MinBackoff ELSE 2 * c
\* backoff.next
NextBackoff(c) ==
  IF c < MinBackoff THEN MinBackoff ELSE IF 2 * c > MaxBackoff THEN MaxBackoff ELSE 2 * c

\* Mutant: only a refusal ends the run of rare ones.
EndsRareRunUnlessAccepted(accepted, rej) == rej \notin {None, "rare"}
EndsRareRun(accepted, rej) == accepted \/ rej \notin {None, "rare"}

\* Run, after session returned (accepted, rej).
Returned(accepted, rej) ==
  LET since == IF EndsRareRun(accepted, rej) THEN -1 ELSE rareSince IN
  /\ refusal' = IF rej = None THEN refusal ELSE rej
  /\ open' = FALSE /\ wire' = None /\ ackCh' = None /\ ended' = FALSE
  /\ CASE rej = "stop" ->
            pc' = "parked" /\ UNCHANGED cur /\ rareSince' = since
       [] rej = "rare" /\ since >= Window ->
            pc' = "parked" /\ UNCHANGED cur /\ rareSince' = since
       [] rej = "rare" /\ since < Window ->
            pc' = "sleep" /\ UNCHANGED cur /\ rareSince' = IF since = -1 THEN 0 ELSE since
       [] rej = "slow" ->
            pc' = "sleep" /\ cur' = NextBackoff(MaxBackoff) /\ rareSince' = since
       [] OTHER ->
            pc' = "sleep" /\ cur' = NextBackoff(cur) /\ rareSince' = since

\* An attempt that was not accepted.
Failed(rej) ==
  /\ Returned(FALSE, rej)
  /\ UNCHANGED <<envVars, quiet>>

----------------------------------------------------------------------------
(* session *)

\* dial and noteDial.
DialRefused ==
  /\ pc = "dial" /\ mood \in {"http_401", "http_403"}
  /\ link' = "rejected"
  /\ Failed(Leads(mood))

DialFails ==
  /\ pc = "dial" /\ mood = "down"
  /\ link' = "disconnected"
  /\ Failed(None)

DialOK ==
  /\ pc = "dial" /\ mood \in Answers \cup {"silent"}
  /\ pc' = "hello" /\ open' = TRUE
  /\ UNCHANGED <<cur, rareSince, wire, ackCh, ended, link, envVars, obsVars>>

\* sendHello; a connection that is already closed does not take it.
SendHello ==
  /\ pc = "hello" /\ ~ended
  /\ pc' = "wait"
  /\ wire' = IF mood \in Answers THEN mood ELSE None
  /\ UNCHANGED <<cur, rareSince, open, ackCh, ended, link, envVars, obsVars>>

SendHelloFails ==
  /\ pc = "hello" /\ ended
  /\ Failed(None) /\ UNCHANGED link

\* readLoop and onHelloAck, on the read loop's goroutine.
ReadAck ==
  /\ open /\ wire # None
  /\ wire' = None /\ ackCh' = wire
  /\ link' = IF wire = "accepted" THEN link ELSE "rejected"
  /\ UNCHANGED <<runVars, open, ended, envVars, obsVars>>

\* The connection ends: the cloud closes it, after a refusal or otherwise, or it
\* breaks, with the answer still on its way or just handed over. run returns once
\* the read loop has. MaxBreaks bounds how often a cloud that answers breaks off.
ConnEnds ==
  /\ open
  /\ LET closes == \/ mood \notin Answers
                     \/ (mood # "accepted" /\ pc = "serve")
                     \/ ackCh \notin {None, "accepted"}
     IN /\ closes \/ breaks < MaxBreaks
        /\ breaks' = IF closes THEN breaks ELSE breaks + 1
  /\ open' = FALSE /\ ended' = TRUE /\ wire' = None
  /\ UNCHANGED <<runVars, ackCh, link, mood, moods, cancelled, obsVars>>

\* The select: an answer ...
TakeAccept ==
  /\ pc = "wait" /\ ackCh = "accepted"
  /\ pc' = "serve" /\ cur' = 0 /\ link' = "connected"
  /\ quiet' = 0
  /\ UNCHANGED <<rareSince, connVars, envVars, refusal>>

\* Mutant: a refusal is an ordinary failure.
TakeRefusalAsFailure ==
  /\ pc = "wait" /\ ackCh \notin {None, "accepted"}
  /\ Failed(None) /\ UNCHANGED link
TakeRefusal ==
  /\ pc = "wait" /\ ackCh \notin {None, "accepted"}
  /\ Failed(Leads(ackCh)) /\ UNCHANGED link

\* ... the end of the connection ...
ClosedBeforeAck ==
  /\ pc = "wait" /\ ended
  /\ Failed(None) /\ UNCHANGED link

\* ... or the timeout, which fires while there may be an answer too.
TimeOut ==
  /\ pc = "wait"
  /\ pc' = "abandon"
  /\ UNCHANGED <<cur, rareSince, connVars, link, envVars, obsVars>>

\* connCancel and awaitRun: the read loop may still handle an answer.
Abandon ==
  /\ pc = "abandon"
  /\ Failed(None) /\ UNCHANGED link

\* clearConn
ClearConn == link' = "disconnected"

\* The accepted connection is gone.
ServeEnds ==
  /\ pc = "serve" /\ ended
  /\ ClearConn
  /\ Returned(TRUE, None)
  /\ UNCHANGED <<envVars, quiet>>

Wake ==
  /\ pc = "sleep"
  /\ pc' = "dial"
  /\ UNCHANGED <<cur, rareSince, connVars, link, envVars, obsVars>>

\* main's context is cancelled, and every wait ends.
Cancel ==
  /\ ~cancelled /\ cancelled' = TRUE
  /\ UNCHANGED <<runVars, connVars, link, mood, moods, breaks, obsVars>>

Stops ==
  /\ cancelled /\ pc # "done"
  /\ pc' = "done" /\ open' = FALSE /\ wire' = None /\ ackCh' = None /\ ended' = FALSE
  /\ link' = IF pc = "serve" THEN "disconnected" ELSE link
  /\ UNCHANGED <<cur, rareSince, envVars, obsVars>>

----------------------------------------------------------------------------
(* The surroundings. *)

MoodChanges ==
  /\ moods < MaxMoods /\ moods' = moods + 1
  /\ \E m \in Moods \ {mood} : mood' = m
  /\ UNCHANGED <<runVars, connVars, link, breaks, cancelled, obsVars>>

Older(age) == IF age = -1 \/ age >= Window THEN age ELSE age + 1

Tick ==
  /\ pc # "done" /\ <<Older(rareSince), Older(quiet)>> # <<rareSince, quiet>>
  /\ rareSince' = Older(rareSince) /\ quiet' = Older(quiet)
  /\ UNCHANGED <<pc, cur, connVars, link, envVars, refusal>>

Session ==
  \/ DialRefused \/ DialFails \/ DialOK \/ SendHello \/ SendHelloFails
  \/ TakeAccept \/ TakeRefusal \/ ClosedBeforeAck \/ Abandon \/ ServeEnds \/ Wake \/ Stops

Next == Session \/ ReadAck \/ ConnEnds \/ TimeOut \/ Cancel \/ MoodChanges \/ Tick

Spec == Init /\ [][Next]_vars
\* The session runs on, time passes, a waiting session does time out, the read loop
\* is faster than the timeout in the end, and so is the select, which chooses at
\* random among what is ready.
FairSpec ==
  /\ Spec /\ WF_vars(Session) /\ WF_vars(Tick) /\ WF_vars(ReadAck) /\ WF_vars(TimeOut)
  /\ SF_vars(ReadAck /\ pc = "wait") /\ SF_vars(TakeAccept) /\ SF_vars(TakeRefusal)
----------------------------------------------------------------------------
(* Properties. *)

PCs == {"dial", "hello", "wait", "abandon", "serve", "sleep", "parked", "done"}

TypeOK ==
  /\ pc \in PCs /\ cur \in 0..MaxBackoff /\ rareSince \in -1..Window
  /\ open \in BOOLEAN /\ ended \in BOOLEAN /\ ~(open /\ ended)
  /\ wire \in Answers \cup {None} /\ ackCh \in Answers \cup {None}
  /\ link \in {"connecting", "connected", "disconnected", "rejected"}
  /\ mood \in Moods /\ moods \in 0..MaxMoods /\ breaks \in 0..MaxBreaks /\ cancelled \in BOOLEAN
  /\ quiet \in 0..Window /\ refusal \in Actions \cup {None}

\* The collector gives up only when it was refused for good, or when it was refused
\* and has not been accepted for the whole window: a lost connection, an unreachable
\* cloud or a hello without an answer never stops it. The local health status then
\* says that it was rejected.
ParkedJustified ==
  pc = "parked" =>
    /\ refusal = "stop" \/ (refusal = "rare" /\ quiet = Window)
    /\ link = "rejected"

\* A cloud that settles is met in the end, whatever came before and however its
\* answers race with timeouts and closed connections: the collector is connected, and
\* the local health status says so, or has given up, and under a lasting refusal it
\* has given up.
SteadyCloudSettles ==
  /\ <>[](mood = "accepted") => <>[](link = "connected" \/ pc \in {"parked", "done"})
  /\ <>[](mood \in {"invalid_key", "http_401", "blocked", "http_403"}) =>
       <>[](pc \in {"serve", "parked", "done"})
=============================================================================
