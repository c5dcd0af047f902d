------------------------- MODULE CloudSessionProofs -------------------------
(***************************************************************************)
(* Proofs about CloudSession: the type invariant, and that the collector   *)
(* gives up only on a refusal, for any backoff, window and number of mood  *)
(* changes. What makes ParkedJustified inductive is the relation between   *)
(* the age of the run of rare refusals and the age of the last accepted    *)
(* connection, and that nothing can touch the link state of a collector    *)
(* that has no connection.                                                 *)
(***************************************************************************)
EXTENDS CloudSession, TLAPS

Integral ==
  /\ pc \in PCs /\ cur \in 0..MaxBackoff /\ rareSince \in -1..Window
  /\ wire \in Answers \cup {None} /\ ackCh \in Answers \cup {None}
  /\ link \in {"connecting", "connected", "disconnected", "rejected"}
  /\ mood \in Moods /\ moods \in 0..MaxMoods /\ breaks \in 0..MaxBreaks
  /\ quiet \in 0..Window /\ refusal \in Actions \cup {None}

Flags == open \in BOOLEAN /\ ended \in BOOLEAN /\ cancelled \in BOOLEAN /\ ~(open /\ ended)

\* Between two sessions nothing of a connection is left, and before the hello there
\* is no answer.
NoConnection ==
  /\ pc \in {"dial", "sleep", "parked", "done"} => ~open /\ ~ended
  /\ pc \in {"dial", "hello", "sleep", "parked", "done"} => wire = None /\ ackCh = None

\* A hello is answered once, and a served connection by its acceptance.
OneAnswer ==
  /\ ackCh # None => wire = None
  /\ pc = "serve" => ackCh = "accepted"

\* A refusal that was handed over is on the local health status.
RefusalShown == ackCh \notin {None, "accepted"} => link = "rejected"

\* A run of rare refusals is no older than the last accepted connection, but for the
\* connection that is being served, whose end closes the run.
RareRunSinceAccepted == pc \notin {"serve", "done"} => rareSince <= quiet

IInv ==
  /\ Integral /\ Flags /\ NoConnection /\ OneAnswer /\ RefusalShown
  /\ RareRunSinceAccepted /\ ParkedJustified

----------------------------------------------------------------------------
(* Refusals and delays. *)

\* A delay after any delay is within the cap.
LEMMA NextBackoffBounded ==
  ASSUME NEW c \in 0..MaxBackoff PROVE NextBackoff(c) \in 0..MaxBackoff
BY ConstantAssumption DEF NextBackoff

\* Every code leads to an action.
LEMMA LeadsType == ASSUME NEW code PROVE Leads(code) \in Actions
BY DEF Leads, Actions

\* What Run does with a session that was not accepted keeps the types, and it parks
\* only on a refusal that justifies it.
LEMMA ReturnedRefused ==
  ASSUME Integral, RareRunSinceAccepted, pc \notin {"serve", "done"},
         NEW rej \in Actions \cup {None}, Returned(FALSE, rej)
  PROVE  /\ pc' \in {"sleep", "parked"} /\ cur' \in 0..MaxBackoff
         /\ rareSince' \in -1..Window /\ rareSince' <= quiet
         /\ refusal' \in Actions \cup {None}
         /\ pc' = "parked" => /\ rej # None
                              /\ refusal' = "stop" \/ (refusal' = "rare" /\ quiet = Window)
<1>0. /\ NextBackoff(cur) \in 0..MaxBackoff /\ NextBackoff(MaxBackoff) \in 0..MaxBackoff
      /\ MaxBackoff \in 0..MaxBackoff
  BY NextBackoffBounded, ConstantAssumption DEF Integral
<1>1. refusal' \in Actions \cup {None} BY DEF Returned, Integral
<1>2. CASE rej = "rare"
  BY <1>0, <1>1, <1>2, ConstantAssumption DEF Returned, EndsRareRun, Integral,
     RareRunSinceAccepted, None
<1>3. CASE rej = "stop"
  BY <1>0, <1>1, <1>3, ConstantAssumption DEF Returned, EndsRareRun, Integral,
     RareRunSinceAccepted, None
<1>4. CASE rej \notin {"rare", "stop"}
  BY <1>0, <1>1, <1>4, ConstantAssumption DEF Returned, EndsRareRun, Integral,
     RareRunSinceAccepted, None
<1>5. QED BY <1>2, <1>3, <1>4

\* An attempt that fails, refused or not, keeps the invariant, when a refusal is on
\* the local health status.
LEMMA FailedInv ==
  ASSUME IInv, pc \notin {"serve", "done"}, NEW rej \in Actions \cup {None}, Failed(rej),
         link' \in {"disconnected", "rejected"} \/ link' = link,
         rej # None => link' = "rejected"
  PROVE  IInv'
<1>1. /\ pc' \in {"sleep", "parked"} /\ cur' \in 0..MaxBackoff
      /\ rareSince' \in -1..Window /\ rareSince' <= quiet
      /\ refusal' \in Actions \cup {None}
      /\ pc' = "parked" => /\ rej # None
                           /\ refusal' = "stop" \/ (refusal' = "rare" /\ quiet = Window)
  BY ReturnedRefused DEF Failed, IInv
<1>2. /\ ~open' /\ wire' = None /\ ackCh' = None /\ ~ended'
      /\ UNCHANGED <<mood, moods, breaks, cancelled, quiet>>
  BY DEF Failed, Returned, envVars
<1>3. Integral' BY <1>1, <1>2 DEF Integral, IInv, PCs
<1>4. Flags'
  <2>1. open' = FALSE /\ ended' = FALSE BY DEF Failed, Returned
  <2>2. QED BY <1>2, <2>1, Zenon DEF Flags, IInv
<1>5. NoConnection' /\ OneAnswer' /\ RefusalShown'
  BY <1>1, <1>2 DEF NoConnection, OneAnswer, RefusalShown
<1>6. RareRunSinceAccepted' /\ ParkedJustified'
  BY <1>1, <1>2 DEF RareRunSinceAccepted, ParkedJustified
<1>7. QED BY <1>3, <1>4, <1>5, <1>6 DEF IInv

----------------------------------------------------------------------------
(* The invariant. *)

LEMMA InitInv == Init => IInv
<1> SUFFICES ASSUME Init PROVE IInv OBVIOUS
<1>1. Integral BY ConstantAssumption DEF Init, Integral, PCs
<1>2. Flags BY Zenon DEF Init, Flags
<1>3. NoConnection /\ OneAnswer /\ RefusalShown /\ RareRunSinceAccepted /\ ParkedJustified
  BY DEF Init, NoConnection, OneAnswer, RefusalShown, RareRunSinceAccepted, ParkedJustified
<1>4. QED BY <1>1, <1>2, <1>3 DEF IInv

LEMMA NextInv == IInv /\ [Next]_vars => IInv'
<1> SUFFICES ASSUME IInv, [Next]_vars PROVE IInv' OBVIOUS
<1> USE DEF envVars, runVars, connVars, obsVars
<1>1. CASE DialRefused
  <2>1. Leads(mood) \in Actions BY LeadsType
  <2>2. QED BY <1>1, <2>1, FailedInv DEF DialRefused
<1>2. CASE DialFails BY <1>2, FailedInv DEF DialFails
<1>3. CASE DialOK
  <2>1. Flags' BY <1>3, Zenon DEF DialOK, Flags, NoConnection, IInv
  <2>2. Integral' BY <1>3 DEF DialOK, Integral, IInv, PCs
  <2>3. QED BY <1>3, <2>1, <2>2 DEF DialOK, IInv, NoConnection, OneAnswer, RefusalShown,
             RareRunSinceAccepted, ParkedJustified
<1>4. CASE SendHello
  <2>1. Flags' BY <1>4, Zenon DEF SendHello, Flags, IInv
  <2>2. Integral' BY <1>4 DEF SendHello, Integral, IInv, PCs
  <2>3. QED BY <1>4, <2>1, <2>2 DEF SendHello, IInv, NoConnection, OneAnswer, RefusalShown,
             RareRunSinceAccepted, ParkedJustified
<1>5. CASE SendHelloFails BY <1>5, FailedInv DEF SendHelloFails
<1>6. CASE ReadAck
  <2>1. Flags' BY <1>6, Zenon DEF ReadAck, Flags, IInv
  <2>2. Integral' BY <1>6 DEF ReadAck, Integral, IInv
  <2>3. pc \in {"wait", "abandon"}
    BY <1>6 DEF ReadAck, IInv, NoConnection, OneAnswer, Integral, PCs, None
  <2>4. QED BY <1>6, <2>1, <2>2, <2>3 DEF ReadAck, IInv, NoConnection, OneAnswer, RefusalShown,
             RareRunSinceAccepted, ParkedJustified
<1>7. CASE ConnEnds
  <2>1. Flags' BY <1>7, Zenon DEF ConnEnds, Flags, IInv
  <2>2. breaks' \in 0..MaxBreaks
    BY <1>7, ConstantAssumption DEF ConnEnds, Integral, IInv
  <2>3. Integral' BY <1>7, <2>2 DEF ConnEnds, Integral, IInv
  <2>4. QED BY <1>7, <2>1, <2>3 DEF ConnEnds, IInv, NoConnection, OneAnswer, RefusalShown,
             RareRunSinceAccepted, ParkedJustified
<1>8. CASE TakeAccept
  <2>1. Flags' BY <1>8, Zenon DEF TakeAccept, Flags, IInv
  <2>2. Integral' BY <1>8, ConstantAssumption DEF TakeAccept, Integral, IInv, PCs
  <2>3. QED BY <1>8, <2>1, <2>2 DEF TakeAccept, IInv, NoConnection, OneAnswer, RefusalShown,
             RareRunSinceAccepted, ParkedJustified
<1>9. CASE TakeRefusal
  <2>1. Leads(ackCh) \in Actions BY LeadsType
  <2>2. link' = "rejected" BY <1>9 DEF TakeRefusal, RefusalShown, IInv
  <2>3. QED BY <1>9, <2>1, <2>2, FailedInv DEF TakeRefusal
<1>10. CASE ClosedBeforeAck BY <1>10, FailedInv DEF ClosedBeforeAck
<1>11. CASE TimeOut
  <2>1. Flags' BY <1>11, Zenon DEF TimeOut, Flags, IInv
  <2>2. Integral' BY <1>11 DEF TimeOut, Integral, IInv, PCs
  <2>3. QED BY <1>11, <2>1, <2>2 DEF TimeOut, IInv, NoConnection, OneAnswer, RefusalShown,
             RareRunSinceAccepted, ParkedJustified
<1>12. CASE Abandon BY <1>12, FailedInv DEF Abandon
<1>13. CASE ServeEnds
  <2>0. NextBackoff(cur) \in 0..MaxBackoff BY NextBackoffBounded DEF Integral, IInv
  <2>1. /\ pc' = "sleep" /\ cur' = NextBackoff(cur) /\ rareSince' = -1 /\ refusal' = refusal
        /\ open' = FALSE /\ ended' = FALSE /\ wire' = None /\ ackCh' = None
        /\ link' = "disconnected" /\ UNCHANGED <<mood, moods, breaks, cancelled, quiet>>
    BY <1>13 DEF ServeEnds, Returned, EndsRareRun, ClearConn, None
  <2>2. Flags' BY <2>1, Zenon DEF Flags, IInv
  <2>3. Integral' BY <2>0, <2>1, ConstantAssumption DEF Integral, IInv, PCs
  <2>4. QED BY <2>1, <2>2, <2>3 DEF IInv, NoConnection, OneAnswer, RefusalShown,
             RareRunSinceAccepted, ParkedJustified, Integral
<1>14. CASE Wake
  <2>1. Flags' BY <1>14, Zenon DEF Wake, Flags, IInv
  <2>2. Integral' BY <1>14 DEF Wake, Integral, IInv, PCs
  <2>3. QED BY <1>14, <2>1, <2>2 DEF Wake, IInv, NoConnection, OneAnswer, RefusalShown,
             RareRunSinceAccepted, ParkedJustified
<1>15. CASE Stops
  <2>1. Flags' BY <1>15, Zenon DEF Stops, Flags, IInv
  <2>2. Integral' BY <1>15 DEF Stops, Integral, IInv, PCs
  <2>3. QED BY <1>15, <2>1, <2>2 DEF Stops, IInv, NoConnection, OneAnswer, RefusalShown,
             RareRunSinceAccepted, ParkedJustified
<1>16. CASE Cancel
  <2>1. Flags' BY <1>16, Zenon DEF Cancel, Flags, IInv
  <2>2. Integral' BY <1>16 DEF Cancel, Integral, IInv
  <2>3. QED BY <1>16, <2>1, <2>2 DEF Cancel, IInv, NoConnection, OneAnswer, RefusalShown,
             RareRunSinceAccepted, ParkedJustified
<1>17. CASE MoodChanges
  <2>1. Flags' BY <1>17, Zenon DEF MoodChanges, Flags, IInv
  <2>2. Integral' BY <1>17, ConstantAssumption DEF MoodChanges, Integral, IInv
  <2>3. QED BY <1>17, <2>1, <2>2 DEF MoodChanges, IInv, NoConnection, OneAnswer, RefusalShown,
             RareRunSinceAccepted, ParkedJustified
<1>18. CASE Tick
  <2>1. Flags' BY <1>18, Zenon DEF Tick, Flags, IInv
  <2>2. /\ Older(rareSince) \in -1..Window /\ Older(quiet) \in 0..Window
        /\ rareSince <= quiet => Older(rareSince) <= Older(quiet)
        /\ quiet = Window => Older(quiet) = Window
    BY ConstantAssumption DEF Older, Integral, IInv
  <2>3. Integral' BY <1>18, <2>2 DEF Tick, Integral, IInv
  <2>4. QED BY <1>18, <2>1, <2>2, <2>3 DEF Tick, IInv, NoConnection, OneAnswer, RefusalShown,
             RareRunSinceAccepted, ParkedJustified
<1>19. CASE UNCHANGED vars
  <2>1. Flags' BY <1>19, Zenon DEF vars, Flags, IInv
  <2>2. Integral' BY <1>19 DEF vars, Integral, IInv
  <2>3. QED BY <1>19, <2>1, <2>2 DEF vars, IInv, NoConnection, OneAnswer, RefusalShown,
             RareRunSinceAccepted, ParkedJustified
<1>20. QED BY <1>1, <1>2, <1>3, <1>4, <1>5, <1>6, <1>7, <1>8, <1>9, <1>10, <1>11, <1>12,
              <1>13, <1>14, <1>15, <1>16, <1>17, <1>18, <1>19 DEF Next, Session

LEMMA Invariant == Spec => []IInv
BY InitInv, NextInv, PTL DEF Spec

----------------------------------------------------------------------------
(* The theorems. *)

\* Run, session and the read loop keep every variable in its type: in particular the
\* backoff never exceeds maxBackoff, and runDone holds a value only once the read loop
\* has ended.
THEOREM TypeCorrect == Spec => []TypeOK
<1>1. IInv => TypeOK BY DEF IInv, Integral, Flags, TypeOK
<1>2. QED BY <1>1, Invariant, PTL

\* The collector parks only when the last refusal was for good, or when it was a rare
\* one and no connection was accepted for the whole rareRetryWindow, and the local
\* health status says so: for every window, backoff and sequence of answers.
THEOREM GivesUpOnlyRefused == Spec => []ParkedJustified
<1>1. IInv => ParkedJustified BY DEF IInv
<1>2. QED BY <1>1, Invariant, PTL
=============================================================================
