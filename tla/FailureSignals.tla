--------------------------- MODULE FailureSignals ---------------------------
(***************************************************************************)
(* What the cloud collector promises about the failure signals it observes *)
(* (Docker failure events and the log excerpts taken with them): a signal  *)
(* is put on the wire at most once, and one that is not was lost for a     *)
(* reason: the host is not monitored, it waited longer than MaxAge, more   *)
(* signals were waiting than the collector keeps, or a connection broke.   *)
(* One broken connection costs at most PerBreak signals.                   *)
(***************************************************************************)
EXTENDS Naturals, FiniteSets

CONSTANTS
  Frames,      \* the signals
  Size,        \* [SUBSET Frames -> Nat]: what the signals of a set take together
  MaxEntries,  \* signals the collector keeps waiting
  MaxBytes,    \* and their size
  MaxAge,      \* how long a signal is worth sending
  PerBreak     \* signals one broken connection may cost

VARIABLES
  fate,    \* [Frames -> Fates]
  born,    \* [Frames -> Nat]: when each of the held ones was observed
  breaks,  \* connections that broke so far
  muted,   \* the host counts as not monitored
  now

vars == <<fate, born, breaks, muted, now>>

Fates == {"unseen", "held", "written", "muted", "aged", "evicted", "broken"}

Held == {f \in Frames : fate[f] = "held"}

\* The signals in F meet the same fate in one step.
Become(F, end) ==
  /\ fate' = [f \in Frames |-> IF f \in F THEN end ELSE fate[f]]
  /\ born' = [f \in Frames |-> IF f \notin F THEN born[f] ELSE IF end = "held" THEN now ELSE 0]

Init ==
  /\ fate = [f \in Frames |-> "unseen"]
  /\ born = [f \in Frames |-> 0]
  /\ breaks = 0 /\ muted = FALSE /\ now = 0

Observe(f) ==
  /\ fate[f] = "unseen"
  /\ Become({f}, "held") \/ (muted /\ Become({f}, "muted"))
  /\ UNCHANGED <<breaks, muted, now>>

Write(f) ==
  /\ f \in Held
  /\ Become({f}, "written")
  /\ UNCHANGED <<breaks, muted, now>>

\* Nobody listens to the signals of a host that is not monitored.
Discard(F) ==
  /\ muted /\ F \subseteq Held
  /\ Become(F, "muted")
  /\ muted' \in BOOLEAN
  /\ UNCHANGED <<breaks, now>>

AgeOut(F) ==
  /\ F \subseteq Held
  /\ \A f \in F : now - born[f] > MaxAge
  /\ Become(F, "aged")
  /\ UNCHANGED <<breaks, muted, now>>

\* Only what does not fit is given up.
Evict(F) ==
  /\ F \subseteq Held
  /\ Cardinality(Held) > MaxEntries \/ Size[Held] > MaxBytes
  /\ Become(F, "evicted")
  /\ UNCHANGED <<breaks, muted, now>>

\* A connection breaks, or an already broken one swallows another signal.
LoseToBreaks(F) ==
  /\ F \subseteq Held
  /\ breaks' \in {breaks, breaks + 1}
  /\ Become(F, "broken")
  /\ Cardinality({f \in Frames : fate'[f] = "broken"}) <= PerBreak * breaks'
  /\ UNCHANGED <<muted, now>>

Surroundings ==
  /\ muted' \in BOOLEAN
  /\ now' \in {now, now + 1}
  /\ UNCHANGED <<fate, born, breaks>>

Next ==
  \/ \E f \in Frames : Observe(f) \/ Write(f)
  \/ \E F \in SUBSET Held : Discard(F) \/ AgeOut(F) \/ Evict(F) \/ LoseToBreaks(F)
  \/ Surroundings

Spec == Init /\ [][Next]_vars
=============================================================================
