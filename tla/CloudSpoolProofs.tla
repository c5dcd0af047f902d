-------------------------- MODULE CloudSpoolProofs --------------------------
(***************************************************************************)
(* Proofs about CloudSpool, for any number of signals and connections and  *)
(* any caps: the type invariant, the bound on what waits, the order of     *)
(* what is written, and that the collector implements FailureSignals.      *)
(*                                                                         *)
(* The invariant follows a signal through the collector: while it is held  *)
(* it is in exactly one place (Located), the places are in order           *)
(* (InOrder), and a signal a broken connection took is in its queue or was *)
(* the one in the pump's hand (Accounted).                                 *)
(***************************************************************************)
EXTENDS CloudSpool, SequenceTheorems, FiniteSetTheorems, TLAPS

Entries == [frame : Frames, at : 0..MaxTime]
Hands == [pc : {"idle", "more", "push", "spool"}, frame : 0..MaxFrames, conn : Conns \cup {NoConn}]

\* TypeOK without its Boolean variable, and the type of fate.
Typed ==
  /\ cur \in Conns \cup {NoConn}
  /\ spool \in Seq(Entries) /\ replayMu \in Replayers \cup {Nobody}
  /\ hand \in [Producers -> Hands]
  /\ rpc \in [Replayers -> RPCs] /\ batch \in [Replayers -> Seq(Frames)]
  /\ conns \in 0..MaxConns /\ queue \in [Conns -> Seq(Frames)]
  /\ closed \subseteq Conns /\ ended \subseteq closed
  /\ now \in 0..MaxTime /\ configs \in 0..MaxConfigs
  /\ fate \in [Frames -> Signals!Fates]
  /\ born \in [Frames -> 0..MaxTime] /\ by \in [Frames -> Producers]
  /\ replayed \subseteq Frames
  /\ written \in Seq(Frames)

\* sendOrSpool is under way with a frame.
Busy(p) == hand[p].pc \in {"push", "spool"}

\* Only the published connection can be open, and only accepted ones are used.
OneOpen ==
  /\ closed \subseteq 1..conns /\ cur \in 0..conns /\ 1..conns \ closed \subseteq {cur}
  /\ \A k \in Conns : /\ Len(queue[k]) <= SendBuffer
                      /\ k > conns => queue[k] = <<>>
  /\ \A p \in Producers : /\ hand[p].conn \in 0..conns
                          /\ hand[p].pc = "push" => hand[p].conn # NoConn
                          /\ Busy(p) => hand[p].frame \in Frames
  /\ \A r \in Replayers : rpc[r] # "off" => r[1] \in 1..conns

\* Whoever replays holds the lock, and sends from a batch no larger than the spool.
Serialised ==
  \A r \in Replayers :
    /\ rpc[r] \in {"discard", "push", "back"} => replayMu = r
    /\ batch[r] # <<>> <=> rpc[r] \in {"push", "back"}
    /\ Len(batch[r]) <= MaxEntries

\* A held frame is in one place: what is found in two of them would be in two places.
Places == Producers \cup {"spool", "batch", "queue", "gone"}
At(place) ==
  /\ \A p \in Producers : Busy(p) => place[hand[p].frame] = p
  /\ \A i \in DOMAIN spool : place[spool[i].frame] = "spool"
  /\ \A r \in Replayers : \A i \in DOMAIN batch[r] : place[batch[r][i]] = "batch"
  /\ \A k \in Conns \ closed : \A i \in DOMAIN queue[k] : place[queue[k][i]] = "queue"
  /\ \A f \in Frames : place[f] # "gone" => fate[f] = "held"
  /\ \A f \in replayed : place[f] \in {"queue", "gone"} /\ fate[f] # "unseen"
Located == \E place \in [Frames -> Places] : At(place)

\* No open queue holds a frame twice.
NoneTwice ==
  \A k \in Conns \ closed : \A i, j \in DOMAIN queue[k] : i # j => queue[k][i] # queue[k][j]

\* The spool is within its caps, and its times are those of the observation or later.
SpoolKept ==
  /\ FitsCaps(spool)
  /\ \A i \in DOMAIN spool : born[spool[i].frame] <= spool[i].at /\ spool[i].at <= now
  /\ \A f \in Frames : born[f] <= now

\* Signals are observed in the order of their numbers, so that the one in a producer's
\* hand is its last.
LastInHand ==
  /\ \A f, g \in Frames : f < g /\ fate[g] # "unseen" => fate[f] # "unseen"
  /\ \A p \in Producers : Busy(p) =>
       /\ by[hand[p].frame] = p
       /\ \A f \in Frames : fate[f] # "unseen" /\ by[f] = p => f <= hand[p].frame

\* Frame f may be on the wire before g.
Before(f, g) == by[f] = by[g] /\ f > g => f \notin replayed /\ g \in replayed
\* Frame f waits in front of g.
Older(f, g) == by[f] = by[g] => f < g
\* Frame g may wait while f is on its way.
Overtakes(f, g) == by[f] = by[g] /\ f > g => f \notin replayed

InOrder ==
  /\ \A i \in DOMAIN written : fate[written[i]] = "written"
  /\ \A i, j \in DOMAIN written : i < j => Before(written[i], written[j])
  /\ \A k \in Conns \ closed :
       /\ \A i \in DOMAIN written, j \in DOMAIN queue[k] : Before(written[i], queue[k][j])
       /\ \A i, j \in DOMAIN queue[k] : i < j => Before(queue[k][i], queue[k][j])

WaitInOrder ==
  /\ \A i, j \in DOMAIN spool : i < j => Older(spool[i].frame, spool[j].frame)
  /\ \A r \in Replayers :
       /\ \A i, j \in DOMAIN batch[r] : i < j => Older(batch[r][i], batch[r][j])
       /\ \A i \in DOMAIN batch[r], j \in DOMAIN spool : Older(batch[r][i], spool[j].frame)

OvertakenWait ==
  \A g \in Frames :
    (g \in FramesOf(spool) \/ \E r \in Replayers : g \in Range(batch[r])) =>
      /\ \A i \in DOMAIN written : Overtakes(written[i], g)
      /\ \A k \in Conns \ closed : \A i \in DOMAIN queue[k] : Overtakes(queue[k][i], g)

\* What broken connections took is in their queues, but for one frame each.
Took(lost) ==
  \A f \in Frames : fate[f] = "broken" =>
    \E k \in closed : f = lost[k] \/ f \in Range(queue[k])
Accounted == \E lost \in [Conns -> 0..MaxFrames] : Took(lost)

\* What the collector's goroutines are at, and what they do with the signals.
Control == unmonitored \in BOOLEAN /\ Typed /\ OneOpen /\ Serialised
Flow ==
  /\ Located /\ NoneTwice /\ SpoolKept /\ LastInHand
  /\ InOrder /\ WaitInOrder /\ OvertakenWait /\ Accounted

IInv == Control /\ Flow

----------------------------------------------------------------------------
(* Sequences and sets. *)

LEMMA ConstantTypes ==
  /\ Frames \subseteq Nat /\ 0 \notin Frames /\ NoConn \notin Conns /\ Conns \subseteq Nat
  /\ Nobody \notin Replayers
  /\ \A r \in Replayers : r[1] \in Conns /\ r[2] \in {"post", "loop"}
BY ConstantAssumption DEF Frames, Conns, NoConn, Nobody, Replayers

LEMMA TailElements ==
  ASSUME NEW S, NEW s \in Seq(S), s # <<>>
  PROVE  /\ Head(s) \in S /\ Tail(s) \in Seq(S) /\ 1 \in DOMAIN s /\ Head(s) = s[1]
         /\ Len(s) \in Nat /\ Len(Tail(s)) = Len(s) - 1
         /\ \A i \in DOMAIN Tail(s) : i + 1 \in DOMAIN s /\ Tail(s)[i] = s[i + 1]
         /\ \A i \in DOMAIN s : i = 1 \/ (i - 1 \in DOMAIN Tail(s) /\ s[i] = Tail(s)[i - 1])
<1>1. Len(s) \in Nat \ {0} /\ DOMAIN s = 1..Len(s) BY EmptySeq, LenProperties
<1>2. /\ Head(s) \in S /\ Tail(s) \in Seq(S) /\ Len(Tail(s)) = Len(s) - 1
      /\ \A i \in 1..Len(Tail(s)) : Tail(s)[i] = s[i + 1]
  BY HeadTailProperties
<1>3. DOMAIN Tail(s) = 1..(Len(s) - 1) BY <1>2, LenProperties
<1>4. Head(s) = s[1] OBVIOUS
<1>5. ASSUME NEW i \in DOMAIN Tail(s) PROVE i + 1 \in DOMAIN s /\ Tail(s)[i] = s[i + 1]
  BY <1>1, <1>2, <1>3
<1>6. ASSUME NEW i \in DOMAIN s, i # 1
      PROVE  i - 1 \in DOMAIN Tail(s) /\ s[i] = Tail(s)[i - 1]
  <2>1. i - 1 \in 1..(Len(s) - 1) /\ (i - 1) + 1 = i BY <1>1, <1>6
  <2>2. QED BY <1>2, <1>3, <2>1
<1>7. QED BY <1>1, <1>2, <1>4, <1>5, <1>6

LEMMA AppendElements ==
  ASSUME NEW S, NEW s \in Seq(S), NEW e \in S
  PROVE  /\ Append(s, e) \in Seq(S) /\ Len(Append(s, e)) = Len(s) + 1 /\ Len(s) \in Nat
         /\ \A i \in DOMAIN Append(s, e) :
              i \in Nat /\ (\/ i \in DOMAIN s /\ Append(s, e)[i] = s[i]
                            \/ i = Len(s) + 1 /\ Append(s, e)[i] = e)
         /\ \A i \in DOMAIN s : i <= Len(s) /\ i \in DOMAIN Append(s, e) /\ Append(s, e)[i] = s[i]
         /\ Len(s) + 1 \in DOMAIN Append(s, e) /\ Append(s, e)[Len(s) + 1] = e
<1>1. Len(s) \in Nat /\ DOMAIN s = 1..Len(s) BY LenProperties
<1>2. /\ Append(s, e) \in Seq(S) /\ Len(Append(s, e)) = Len(s) + 1
      /\ \A i \in 1..Len(s) : Append(s, e)[i] = s[i]
      /\ Append(s, e)[Len(s) + 1] = e
  BY AppendProperties
<1>3. DOMAIN Append(s, e) = 1..(Len(s) + 1) BY <1>2, LenProperties
<1>4. QED BY <1>1, <1>2, <1>3

\* The least element of a set of naturals.
LEMMA MinOfNaturals ==
  ASSUME NEW S \in SUBSET Nat, S # {}
  PROVE  Min(S) \in S /\ \A y \in S : Min(S) <= y
<1>1. PICK x \in S : \A y \in S : <<y, x>> \notin OpToRel(<, Nat)
  BY NatLessThanWellFounded, WFMin
<1>2. ASSUME NEW y \in S PROVE x =< y
  <2>1. x \in Nat /\ y \in Nat OBVIOUS
  <2>2. ~(y < x) BY <1>1, <2>1 DEF OpToRel
  <2>3. QED BY <2>1, <2>2
<1>3. \E z \in S : \A y \in S : z =< y BY <1>2
<1>4. QED BY <1>3 DEF Min

LEMMA BecomeType ==
  ASSUME Typed, NEW F \in SUBSET Frames, NEW end \in Signals!Fates, Become(F, end)
  PROVE  /\ fate' \in [Frames -> Signals!Fates] /\ born' \in [Frames -> 0..MaxTime]
         /\ \A f \in Frames : fate'[f] = IF f \in F THEN end ELSE fate[f]
         /\ \A f \in Frames :
              born'[f] = IF f \notin F THEN born[f] ELSE IF end = "held" THEN now ELSE 0
BY ConstantAssumption DEF Become, Typed

----------------------------------------------------------------------------
(* The spool. *)

\* More signals take at least as many bytes.
LEMMA SizeMonotone ==
  ASSUME NEW F \in SUBSET Frames, NEW G \in SUBSET Frames, F \subseteq G
  PROVE  Size[F] \in Nat /\ Size[G] \in Nat /\ Size[F] <= Size[G]
<1>1. G \ F \in SUBSET Frames /\ F \cap (G \ F) = {} /\ F \cup (G \ F) = G OBVIOUS
<1>2. Size[F] \in Nat /\ Size[G] \in Nat /\ Size[G \ F] \in Nat BY <1>1, ConstantAssumption
<1>3. Size[F \cup (G \ F)] = Size[F] + Size[G \ F] BY <1>1, ConstantAssumption
<1>4. QED BY <1>1, <1>2, <1>3

LEMMA FramesOfType ==
  ASSUME NEW s \in Seq(Entries)
  PROVE  FramesOf(s) \in SUBSET Frames /\ \A i \in DOMAIN s : s[i].frame \in FramesOf(s)
<1>1. \A i \in DOMAIN s : s[i] \in Entries BY ElementOfSeq, LenProperties
<1>2. QED BY <1>1 DEF FramesOf, Entries

\* enforceCaps keeps the newest entries, as many as fit, and drops one only from a
\* spool that does not fit.
LEMMA EnforceCapsSuffix ==
  ASSUME NEW s \in Seq(Entries)
  PROVE  /\ EnforceCaps(s) \in Seq(Entries) /\ FitsCaps(EnforceCaps(s))
         /\ \E n \in Nat :
              /\ \A i \in DOMAIN EnforceCaps(s) :
                   i + n \in DOMAIN s /\ EnforceCaps(s)[i] = s[i + n]
              /\ n = 0 => EnforceCaps(s) = s
              /\ n > 0 => Len(s) > MaxEntries \/ Size[FramesOf(s)] > MaxBytes
<1> DEFINE rest(n) == SubSeq(s, n + 1, Len(s))
           N == {n \in 0..Len(s) : FitsCaps(rest(n))}
<1>1. Len(s) \in Nat /\ DOMAIN s = 1..Len(s) BY LenProperties
<1>2. Len(s) \in N
  <2>1. rest(Len(s)) = <<>> BY <1>1, SubSeqEmpty
  <2>2. FitsCaps(<<>>) BY EmptySeq, ConstantAssumption DEF FitsCaps
  <2>3. FitsCaps(rest(Len(s))) BY <2>1, <2>2, Zenon
  <2>4. Len(s) \in 0..Len(s) BY <1>1
  <2>5. QED BY <2>3, <2>4, Zenon
<1>3. N \in SUBSET Nat /\ N # {} BY <1>1, <1>2
<1> DEFINE m == Min(N)
<1>4. m \in N /\ \A n \in N : m <= n BY <1>3, MinOfNaturals
<1>5. EnforceCaps(s) = SubSeq(s, 1 + m, Len(s)) BY DEF EnforceCaps
<1>6. m \in 0..Len(s) /\ FitsCaps(rest(m)) BY <1>4
<1>7. 1 + m = m + 1 BY <1>1, <1>6
<1> HIDE DEF m, N
<1>8. FitsCaps(EnforceCaps(s)) BY <1>5, <1>6, <1>7
<1>9. /\ EnforceCaps(s) \in Seq(Entries)
      /\ Len(EnforceCaps(s)) = Len(s) - m
      /\ \A i \in 1..(Len(s) - m) : EnforceCaps(s)[i] = s[m + i]
  <2>1. \A i \in (1 + m)..Len(s) : s[i] \in Entries BY <1>1, <1>6, ElementOfSeq
  <2>2. 1 + m \in Int /\ Len(s) \in Int BY <1>1, <1>6
  <2>3. /\ EnforceCaps(s) \in Seq(Entries)
        /\ Len(EnforceCaps(s)) = IF 1 + m <= Len(s) THEN Len(s) - (1 + m) + 1 ELSE 0
        /\ \A i \in 1..(Len(s) - (1 + m) + 1) : EnforceCaps(s)[i] = s[(1 + m) + i - 1]
    BY <1>5, <2>1, <2>2, SubSeqProperties
  <2>4. Len(s) - (1 + m) + 1 = Len(s) - m /\ 1 + m = m + 1 BY <1>1, <1>6
  <2>5. ASSUME NEW i \in 1..(Len(s) - m) PROVE EnforceCaps(s)[i] = s[m + i]
    <3>1. (1 + m) + i - 1 = m + i BY <1>1, <1>6
    <3>2. QED BY <2>3, <2>4, <3>1
  <2>6. Len(EnforceCaps(s)) = Len(s) - m
    <3>1. m \in Nat /\ m <= Len(s) /\ Len(s) \in Nat BY <1>1, <1>6
    <3>2. CASE 1 + m <= Len(s)
      <4>1. Len(EnforceCaps(s)) = Len(s) - (1 + m) + 1 BY <2>3, <3>2, Zenon
      <4>2. QED BY <2>4, <4>1
    <3>3. CASE ~(1 + m <= Len(s))
      <4>1. Len(EnforceCaps(s)) = 0 BY <2>3, <3>3, Zenon
      <4>2. Len(s) - m = 0 BY <3>1, <3>3
      <4>3. QED BY <4>1, <4>2
    <3>4. QED BY <3>2, <3>3
  <2>7. QED BY <2>3, <2>5, <2>6
<1>10. \A i \in DOMAIN EnforceCaps(s) : i + m \in DOMAIN s /\ EnforceCaps(s)[i] = s[i + m]
  <2>1. DOMAIN EnforceCaps(s) = 1..Len(EnforceCaps(s)) BY <1>9, LenProperties
  <2>2. ASSUME NEW i \in DOMAIN EnforceCaps(s)
        PROVE  i + m \in DOMAIN s /\ EnforceCaps(s)[i] = s[i + m]
    <3>1. i \in Nat /\ m \in Nat /\ i \in 1..(Len(s) - m) BY <1>1, <1>6, <1>9, <2>1
    <3>2. i + m \in 1..Len(s) /\ m + i = i + m BY <1>1, <3>1
    <3>3. QED BY <1>1, <1>9, <3>1, <3>2
  <2>3. QED BY <2>2
<1>11. m = 0 => EnforceCaps(s) = s BY <1>5, <1>7, SubSeqFull
<1>12. ASSUME m > 0 PROVE Len(s) > MaxEntries \/ Size[FramesOf(s)] > MaxBytes
  <2>1. 0 \notin N BY <1>4, <1>6, <1>12
  <2>2. rest(0) = s
    <3>1. 0 + 1 = 1 OBVIOUS
    <3>2. QED BY <3>1, SubSeqFull
  <2>3. ~FitsCaps(s)
    <3>1. 0 \in 0..Len(s) BY <1>1
    <3>2. ~FitsCaps(rest(0)) BY <2>1, <3>1, Zenon DEF N
    <3>3. QED BY <2>2, <3>2, Zenon
  <2>4. Size[FramesOf(s)] \in Nat BY FramesOfType, ConstantAssumption
  <2>5. QED BY <1>1, <2>3, <2>4, ConstantAssumption DEF FitsCaps, Bytes
<1>13. m \in Nat BY <1>1, <1>6
<1>14. QED BY <1>8, <1>9, <1>10, <1>11, <1>12, <1>13

----------------------------------------------------------------------------
(* The initial state, and the steps that touch no signal. *)

LEMMA InitInv == Init => IInv
<1> SUFFICES ASSUME Init PROVE IInv OBVIOUS
<1> USE DEF Init
<1>1. Typed
  <2>1. Idle \in Hands BY ConstantAssumption DEF Idle, Hands, NoConn
  <2>2. "unseen" \in Signals!Fates BY DEF Signals!Fates
  <2>3. QED BY <2>1, <2>2, ConstantAssumption, EmptySeq DEF Typed, Producers, RPCs, NoConn
<1>2. OneOpen
  <2>1. Len(<<>>) = 0 BY EmptySeq
  <2>2. \A p \in Producers : hand[p].conn = 0 /\ hand[p].pc = "idle" BY DEF Idle, NoConn
  <2>3. QED BY <2>1, <2>2, ConstantAssumption DEF OneOpen, Busy, NoConn
<1>3. Serialised
  <2>1. Len(<<>>) = 0 BY EmptySeq
  <2>2. QED BY <2>1, ConstantAssumption DEF Serialised
<1>4. Control
  <2>1. unmonitored \in BOOLEAN BY Zenon
  <2>2. QED BY <1>1, <1>2, <1>3, <2>1 DEF Control
<1>5. \A p \in Producers : ~Busy(p) BY DEF Busy, Idle
<1>6. DOMAIN spool = {} /\ DOMAIN written = {} BY EmptySeq, LenProperties
<1>7. /\ \A r \in Replayers : DOMAIN batch[r] = {}
      /\ \A k \in Conns : DOMAIN queue[k] = {}
  BY EmptySeq, LenProperties
<1>8. Located
  <2> DEFINE place == [f \in Frames |-> "gone"]
  <2>1. place \in [Frames -> Places] BY DEF Places
  <2>2. At(place) BY <1>5, <1>6, <1>7 DEF At
  <2>3. QED BY <2>1, <2>2 DEF Located
<1>9. SpoolKept
  <2>1. Len(<<>>) = 0 BY EmptySeq
  <2>2. FitsCaps(spool) BY <2>1, ConstantAssumption DEF FitsCaps
  <2>3. QED BY <1>6, <2>2 DEF SpoolKept
<1>10. NoneTwice /\ LastInHand BY <1>5, <1>7 DEF NoneTwice, LastInHand
<1>11. InOrder /\ WaitInOrder BY <1>6, <1>7 DEF InOrder, WaitInOrder
<1>12. OvertakenWait BY <1>6, <1>7 DEF OvertakenWait
<1>13. Accounted
  <2> DEFINE lost == [k \in Conns |-> 0]
  <2>1. lost \in [Conns -> 0..MaxFrames] BY ConstantAssumption
  <2>2. Took(lost) BY DEF Took
  <2>3. QED BY <2>1, <2>2 DEF Accounted
<1>14. QED BY <1>4, <1>8, <1>9, <1>10, <1>11, <1>12, <1>13 DEF IInv, Flow

\* What says where the signals are.
signalVars == <<spool, batch, queue, closed, fate, born, by, replayed, written>>

\* A step that moves no signal keeps their flow.
LEMMA FlowUnchanged ==
  ASSUME Typed, Flow, UNCHANGED signalVars, now' \in {now, now + 1},
         \A p \in Producers : Busy(p)' = Busy(p) /\ hand'[p].frame = hand[p].frame
  PROVE  Flow'
<1> USE DEF signalVars
<1>1. Located' BY DEF Flow, Located, At
<1>2. SpoolKept'
  <2>1. FitsCaps(spool)' BY DEF Flow, SpoolKept, FitsCaps, Bytes, FramesOf
  <2>2. now \in Nat BY ConstantAssumption DEF Typed
  <2>3. ASSUME NEW i \in DOMAIN spool PROVE spool[i].at \in Nat
    <3>1. spool[i] \in Entries BY ElementOfSeq, LenProperties DEF Typed
    <3>2. QED BY <3>1, ConstantAssumption DEF Entries
  <2>4. ASSUME NEW f \in Frames PROVE born[f] \in Nat BY ConstantAssumption DEF Typed
  <2>5. QED BY <2>1, <2>2, <2>3, <2>4 DEF Flow, SpoolKept
<1>3. NoneTwice' BY DEF Flow, NoneTwice
<1>4. LastInHand' BY DEF Flow, LastInHand
<1>5. InOrder' BY DEF Flow, InOrder, Before
<1>6. WaitInOrder' BY DEF Flow, WaitInOrder, Older
<1>7. OvertakenWait' BY DEF Flow, OvertakenWait, Overtakes, FramesOf, Range
<1>8. Accounted' BY DEF Flow, Accounted, Took, Range
<1>9. QED BY <1>1, <1>2, <1>3, <1>4, <1>5, <1>6, <1>7, <1>8 DEF Flow

LEMMA StutterInv == ASSUME IInv, UNCHANGED vars PROVE IInv'
<1>1. Control' BY DEF vars, IInv, Control, Typed, OneOpen, Serialised, Busy
<1>2. Flow'
  <2>1. UNCHANGED <<signalVars, hand, now>> BY DEF vars, signalVars
  <2>2. QED BY <2>1, FlowUnchanged DEF IInv, Control, Busy
<1>3. QED BY <1>1, <1>2 DEF IInv

\* The clock and the configuration.
LEMMA TickInv == ASSUME IInv, Tick \/ ApplyConfig PROVE IInv'
<1> USE DEF IInv, Control, collVars, connVars, obsVars
<1>1. UNCHANGED <<cur, spool, replayMu, hand, rpc, batch, conns, queue, closed, ended, fate,
                  born, by, replayed, written>> /\ now' \in {now, now + 1}
  BY DEF Tick, ApplyConfig, Typed
<1>2. now' \in 0..MaxTime /\ configs' \in 0..MaxConfigs
  BY ConstantAssumption DEF Tick, ApplyConfig, Typed
<1>3. unmonitored' \in BOOLEAN
  <2>1. CASE Tick BY <2>1 DEF Tick
  <2>2. CASE ApplyConfig BY <2>2, Zenon DEF ApplyConfig
  <2>3. QED BY <2>1, <2>2
<1>4. Typed' BY <1>1, <1>2 DEF Typed
<1>5. OneOpen' /\ Serialised' BY <1>1 DEF OneOpen, Serialised, Busy
<1>6. Flow' BY <1>1, FlowUnchanged DEF signalVars, Busy
<1>7. QED BY <1>3, <1>4, <1>5, <1>6

LEMMA AcceptInv == ASSUME IInv, Accept PROVE IInv'
<1> USE DEF IInv, Control, envVars, obsVars
<1>1. /\ UNCHANGED <<spool, replayMu, hand, batch, queue, closed, ended, now, configs, fate, born,
                     by, replayed, written, unmonitored>>
      /\ conns' = conns + 1 /\ cur' = conns + 1 /\ cur = NoConn /\ conns < MaxConns
      /\ conns \in Nat /\ MaxConns \in Nat
  BY ConstantAssumption DEF Accept, Typed
<1>2. /\ <<conns + 1, "post">> \in Replayers /\ <<conns + 1, "loop">> \in Replayers
      /\ conns + 1 \in Conns
  BY <1>1 DEF Replayers, Conns
<1>3. /\ rpc' \in [Replayers -> RPCs]
      /\ \A r \in Replayers : rpc'[r] = IF r \in {<<conns + 1, "post">>, <<conns + 1, "loop">>}
                                        THEN "idle" ELSE rpc[r]
  BY <1>2 DEF Accept, Typed, RPCs
<1>4. Typed'
  <2>1. conns' \in 0..MaxConns /\ cur' \in Conns \cup {NoConn} BY <1>1, <1>2
  <2>2. QED BY <1>1, <1>3, <2>1 DEF Typed
<1>5. OneOpen'
  <2>1. 1..conns \subseteq closed BY <1>1, ConstantAssumption DEF OneOpen, NoConn
  <2>2. closed' \subseteq 1..conns' /\ cur' \in 0..conns' /\ 1..conns' \ closed' \subseteq {cur'}
    BY <1>1, <2>1 DEF OneOpen
  <2>3. ASSUME NEW k \in Conns, k > conns' PROVE queue'[k] = <<>>
    <3>1. k > conns BY <1>1, <2>3, ConstantAssumption DEF Conns
    <3>2. QED BY <1>1, <3>1 DEF OneOpen
  <2>4. ASSUME NEW p \in Producers PROVE hand'[p].conn \in 0..conns' BY <1>1 DEF OneOpen
  <2>5. ASSUME NEW r \in Replayers, rpc'[r] # "off" PROVE r[1] \in 1..conns'
    <3>1. CASE r \in {<<conns + 1, "post">>, <<conns + 1, "loop">>} BY <1>1, <3>1
    <3>2. CASE r \notin {<<conns + 1, "post">>, <<conns + 1, "loop">>}
      BY <1>1, <1>3, <2>5, <3>2 DEF OneOpen
    <3>3. QED BY <3>1, <3>2
  <2>6. QED BY <1>1, <2>2, <2>3, <2>4, <2>5 DEF OneOpen, Busy
<1>6. Serialised'
  <2>1. \A r \in {<<conns + 1, "post">>, <<conns + 1, "loop">>} : r[1] \notin 1..conns BY <1>1
  <2>2. \A r \in {<<conns + 1, "post">>, <<conns + 1, "loop">>} : rpc[r] = "off"
    BY <1>2, <2>1 DEF OneOpen
  <2>3. QED BY <1>1, <1>3, <2>2 DEF Serialised
<1>7. Flow' BY <1>1, FlowUnchanged DEF signalVars, Busy
<1>8. QED BY <1>1, <1>4, <1>5, <1>6, <1>7

LEMMA SessionEndsInv == ASSUME IInv, NEW k \in Conns, SessionEnds(k) PROVE IInv'
<1> USE DEF IInv, Control, envVars, obsVars
<1>1. /\ UNCHANGED <<spool, replayMu, hand, rpc, batch, conns, queue, closed, now, configs, fate,
                     born, by, replayed, written, unmonitored>>
      /\ cur' = NoConn /\ ended' = ended \cup {k} /\ k \in closed /\ cur = k
  BY DEF SessionEnds
<1>2. Typed' BY <1>1 DEF Typed
<1>3. OneOpen' BY <1>1, ConstantAssumption DEF OneOpen, Busy, NoConn, Typed
<1>4. Serialised' BY <1>1 DEF Serialised
<1>5. Flow' BY <1>1, FlowUnchanged DEF signalVars, Busy
<1>6. QED BY <1>1, <1>2, <1>3, <1>4, <1>5

LEMMA SendRefusedInv == ASSUME IInv, NEW p \in Producers, SendRefused(p) PROVE IInv'
<1> USE DEF IInv, Control, envVars, obsVars, collVars, connVars
<1>1. /\ UNCHANGED <<cur, spool, replayMu, rpc, batch, conns, queue, closed, ended, now, configs,
                     fate, born, by, replayed, written, unmonitored>>
      /\ hand[p].pc = "push" /\ hand' = [hand EXCEPT ![p].pc = "spool"]
  BY DEF SendRefused
<1>2. /\ hand' \in [Producers -> Hands] /\ hand'[p].pc = "spool"
      /\ hand'[p].frame = hand[p].frame /\ hand'[p].conn = hand[p].conn
      /\ \A q \in Producers : q # p => hand'[q] = hand[q]
  BY <1>1 DEF Typed, Hands
<1>3. \A q \in Producers : /\ Busy(q)' = Busy(q) /\ hand'[q].frame = hand[q].frame
                           /\ hand'[q].conn = hand[q].conn
  BY <1>1, <1>2 DEF Busy
<1>4. Typed' BY <1>1, <1>2 DEF Typed
<1>5. OneOpen' BY <1>1, <1>2, <1>3 DEF OneOpen
<1>6. Serialised' BY <1>1 DEF Serialised
<1>7. Flow' BY <1>1, <1>3, FlowUnchanged DEF signalVars
<1>8. QED BY <1>1, <1>4, <1>5, <1>6, <1>7

\* A replayer that takes nothing out: it leaves, finds the spool empty, or is about to
\* discard it.
LEMMA ReplayIdleInv ==
  ASSUME IInv, NEW r \in Replayers, rpc[r] = "idle",
         NEW to \in {"off", "idle", "discard"}, rpc' = [rpc EXCEPT ![r] = to],
         IF to = "discard" THEN replayMu = Nobody /\ replayMu' = r ELSE replayMu' = replayMu,
         UNCHANGED <<cur, unmonitored, spool, hand, batch, connVars, envVars, obsVars>>
  PROVE  IInv'
<1> USE DEF IInv, Control, connVars, envVars, obsVars
<1>1. Typed' BY DEF Typed, RPCs
<1>2. OneOpen' BY DEF OneOpen, Busy, Typed
<1>3. Serialised' BY ConstantTypes DEF Serialised, Typed
<1>4. Flow' BY FlowUnchanged DEF signalVars, Busy
<1>5. QED BY <1>1, <1>2, <1>3, <1>4

LEMMA ReplayExitInv ==
  ASSUME IInv, NEW r \in Replayers, ReplayExit(r) \/ ReplayNothing(r) PROVE IInv'
BY ReplayIdleInv DEF ReplayExit, ReplayNothing, Returns, collVars

LEMMA ReplayDiscardsInv ==
  ASSUME IInv, NEW r \in Replayers, ReplayBegin(r), unmonitored PROVE IInv'
<1>1. UNCHANGED <<cur, unmonitored, spool, hand, batch, connVars, envVars, obsVars>>
  BY DEF ReplayBegin, obsVars
<1>2. QED BY <1>1, ReplayIdleInv DEF ReplayBegin

----------------------------------------------------------------------------
(* A signal is observed. *)

LEMMA ElementTypes ==
  ASSUME Typed
  PROVE  /\ Len(spool) \in Nat /\ DOMAIN spool = 1..Len(spool)
         /\ Len(written) \in Nat /\ DOMAIN written = 1..Len(written)
         /\ \A i \in DOMAIN spool : spool[i].frame \in Frames /\ spool[i].at \in 0..MaxTime
         /\ \A i \in DOMAIN written : written[i] \in Frames
         /\ \A r \in Replayers : /\ Len(batch[r]) \in Nat /\ DOMAIN batch[r] = 1..Len(batch[r])
                                 /\ \A i \in DOMAIN batch[r] : batch[r][i] \in Frames
         /\ \A k \in Conns : /\ Len(queue[k]) \in Nat /\ DOMAIN queue[k] = 1..Len(queue[k])
                             /\ \A i \in DOMAIN queue[k] : queue[k][i] \in Frames
<1>1. /\ Len(spool) \in Nat /\ DOMAIN spool = 1..Len(spool)
      /\ Len(written) \in Nat /\ DOMAIN written = 1..Len(written)
  BY LenProperties DEF Typed
<1>2. ASSUME NEW i \in DOMAIN spool PROVE spool[i].frame \in Frames /\ spool[i].at \in 0..MaxTime
  <2>1. spool[i] \in Entries BY <1>1, ElementOfSeq DEF Typed
  <2>2. QED BY <2>1 DEF Entries
<1>3. \A i \in DOMAIN written : written[i] \in Frames BY <1>1, ElementOfSeq DEF Typed
<1>4. ASSUME NEW r \in Replayers
      PROVE  /\ Len(batch[r]) \in Nat /\ DOMAIN batch[r] = 1..Len(batch[r])
             /\ \A i \in DOMAIN batch[r] : batch[r][i] \in Frames
  <2>1. batch[r] \in Seq(Frames) BY DEF Typed
  <2>2. QED BY <2>1, LenProperties, ElementOfSeq
<1>5. ASSUME NEW k \in Conns
      PROVE  /\ Len(queue[k]) \in Nat /\ DOMAIN queue[k] = 1..Len(queue[k])
             /\ \A i \in DOMAIN queue[k] : queue[k][i] \in Frames
  <2>1. queue[k] \in Seq(Frames) BY DEF Typed
  <2>2. QED BY <2>1, LenProperties, ElementOfSeq
<1>6. QED BY <1>1, <1>2, <1>3, <1>4, <1>5

\* A signal that was not observed is nowhere.
LEMMA UnseenNowhere ==
  ASSUME Control, Flow, NEW f \in Frames, fate[f] = "unseen"
  PROVE  /\ \A p \in Producers : Busy(p) => hand[p].frame # f
         /\ \A i \in DOMAIN spool : spool[i].frame # f
         /\ \A r \in Replayers : \A i \in DOMAIN batch[r] : batch[r][i] # f
         /\ \A k \in Conns \ closed : \A i \in DOMAIN queue[k] : queue[k][i] # f
         /\ \A i \in DOMAIN written : written[i] # f
         /\ f \notin replayed
<1>1. PICK place \in [Frames -> Places] : At(place) BY DEF Flow, Located
<1>2. place[f] = "gone" BY <1>1 DEF At
<1>3. "gone" \notin Producers BY DEF Producers
<1>4. QED BY <1>1, <1>2, <1>3 DEF At, Flow, InOrder

\* A signal that is observed and touches no place but a hand: which it is in, or in
\* none, because the host is not monitored.
LEMMA ObservedFlow ==
  ASSUME Control, Flow, Typed', NEW p \in Producers, NEW f \in Frames, ~Busy(p), Observed(p, f),
         NEW end \in {"held", "muted"}, Become({f}, end),
         Busy(p)' = (end = "held"), Busy(p)' => hand'[p].frame = f,
         \A q \in Producers : q # p => hand'[q] = hand[q]
  PROVE  Flow'
<1> USE DEF Control, collVars, connVars, envVars
<1>1. /\ UNCHANGED <<spool, batch, queue, closed, now, replayed, written>>
      /\ by' = [by EXCEPT ![f] = p] /\ fate[f] = "unseen"
      /\ \A g \in 1..(f - 1) : fate[g] # "unseen"
  BY DEF Observed, Newest
<1>2. /\ \A g \in Frames : fate'[g] = IF g = f THEN end ELSE fate[g]
      /\ \A g \in Frames : g # f => born'[g] = born[g]
      /\ born'[f] <= now
  <2>1. end \in Signals!Fates /\ {f} \in SUBSET Frames BY DEF Signals!Fates
  <2>2. /\ \A g \in Frames : fate'[g] = IF g \in {f} THEN end ELSE fate[g]
        /\ \A g \in Frames :
             born'[g] = IF g \notin {f} THEN born[g] ELSE IF end = "held" THEN now ELSE 0
    BY <2>1, BecomeType
  <2>3. 0 <= now /\ now <= now BY ConstantAssumption DEF Typed
  <2>4. born'[f] = now \/ born'[f] = 0 BY <2>2
  <2>5. QED BY <2>2, <2>3, <2>4
<1>3. \A g \in Frames : g # f => by'[g] = by[g] BY <1>1 DEF Typed
<1>4. by'[f] = p BY <1>1 DEF Typed
<1>5. /\ \A q \in Producers : Busy(q) => hand[q].frame # f
      /\ \A i \in DOMAIN spool : spool[i].frame # f
      /\ \A r \in Replayers : \A i \in DOMAIN batch[r] : batch[r][i] # f
      /\ \A k \in Conns \ closed : \A i \in DOMAIN queue[k] : queue[k][i] # f
      /\ \A i \in DOMAIN written : written[i] # f
      /\ f \notin replayed
  BY <1>1, UnseenNowhere
<1>6. \A q \in Producers : q # p => Busy(q)' = Busy(q) BY DEF Busy
<1>7. \A q \in Producers : Busy(q) => hand[q].frame \in Frames BY DEF OneOpen
<1>8. Located'
  <2>1. PICK place \in [Frames -> Places] : At(place) BY DEF Flow, Located
  <2> DEFINE new == IF end = "held" THEN [place EXCEPT ![f] = p] ELSE place
  <2>2. new \in [Frames -> Places] BY DEF Places
  <2>3. \A g \in Frames : new[g] = IF g = f /\ end = "held" THEN p ELSE place[g] BY <2>1
  <2>4. place[f] = "gone" BY <1>1, <2>1 DEF At
  <2> HIDE DEF new
  <2>5. ASSUME NEW q \in Producers, Busy(q)' PROVE new[hand'[q].frame] = q
    <3>1. CASE q = p BY <2>3, <2>5, <3>1
    <3>2. CASE q # p BY <1>5, <1>6, <1>7, <2>1, <2>3, <2>5, <3>2 DEF At
    <3>3. QED BY <3>1, <3>2
  <2>6. /\ \A i \in DOMAIN spool : new[spool[i].frame] = "spool"
        /\ \A r \in Replayers : \A i \in DOMAIN batch[r] : new[batch[r][i]] = "batch"
        /\ \A k \in Conns \ closed : \A i \in DOMAIN queue[k] : new[queue[k][i]] = "queue"
    BY <1>5, <2>1, <2>3, ElementTypes DEF At
  <2>7. \A g \in Frames : new[g] # "gone" => fate'[g] = "held" BY <1>2, <2>1, <2>3, <2>4 DEF At
  <2>8. \A g \in replayed : new[g] \in {"queue", "gone"} /\ fate'[g] # "unseen"
    <3>1. ASSUME NEW g \in replayed PROVE g \in Frames /\ g # f BY <1>5 DEF Typed
    <3>2. QED BY <1>2, <2>1, <2>3, <3>1 DEF At
  <2>9. At(new)' BY <1>1, <2>5, <2>6, <2>7, <2>8 DEF At
  <2>10. QED BY <2>2, <2>9 DEF Located
<1>9. NoneTwice' BY <1>1 DEF Flow, NoneTwice
<1>10. SpoolKept'
  <2>1. FitsCaps(spool)' BY <1>1 DEF Flow, SpoolKept, FitsCaps, Bytes, FramesOf
  <2>2. QED BY <1>1, <1>2, <1>5, <2>1, ElementTypes DEF Flow, SpoolKept
<1>11. LastInHand'
  <2>1. ASSUME NEW a \in Frames, NEW b \in Frames, a < b, fate'[b] # "unseen"
        PROVE  fate'[a] # "unseen"
    <3>1. a \in Nat /\ b \in Nat /\ a >= 1 BY ConstantAssumption DEF Frames
    <3>2. end # "unseen" OBVIOUS
    <3>3. CASE b = f BY <1>1, <1>2, <2>1, <3>1, <3>2, <3>3
    <3>4. CASE b # f BY <1>2, <2>1, <3>2, <3>4 DEF Flow, LastInHand
    <3>5. QED BY <3>3, <3>4
  <2>2. ASSUME NEW q \in Producers, Busy(q)', NEW a \in Frames, fate'[a] # "unseen", by'[a] = q
        PROVE  by'[hand'[q].frame] = q /\ a <= hand'[q].frame
    <3>1. CASE q = p
      <4>1. a \in Nat /\ f \in Nat BY ConstantTypes
      <4>2. CASE a = f BY <1>4, <2>2, <3>1, <4>1, <4>2
      <4>3. CASE a # f
        <5>1. fate[a] # "unseen" BY <1>2, <2>2, <4>3
        <5>2. ~(f < a) BY <1>1, <5>1 DEF Flow, LastInHand
        <5>3. QED BY <1>4, <2>2, <3>1, <4>1, <5>2
      <4>4. QED BY <4>2, <4>3
    <3>2. CASE q # p
      <4>1. a # f BY <1>4, <2>2, <3>2
      <4>2. Busy(q) /\ hand'[q].frame = hand[q].frame BY <1>6, <2>2, <3>2
      <4>3. fate[a] # "unseen" /\ by[a] = q BY <1>2, <1>3, <2>2, <4>1
      <4>4. by[hand[q].frame] = q /\ a <= hand[q].frame BY <4>2, <4>3 DEF Flow, LastInHand
      <4>5. by'[hand[q].frame] = q BY <1>3, <1>5, <1>7, <4>2, <4>4
      <4>6. QED BY <4>2, <4>4, <4>5
    <3>3. QED BY <3>1, <3>2
  <2>3. ASSUME NEW q \in Producers, Busy(q)' PROVE by'[hand'[q].frame] = q
    BY <1>3, <1>4, <1>5, <1>6, <1>7, <2>3 DEF Flow, LastInHand
  <2>4. QED BY <2>1, <2>2, <2>3 DEF LastInHand
<1>12. InOrder'
  <2>1. \A i \in DOMAIN written : by'[written[i]] = by[written[i]] /\ fate'[written[i]] = fate[written[i]]
    BY <1>2, <1>3, <1>5, ElementTypes
  <2>2. \A k \in Conns \ closed : \A i \in DOMAIN queue[k] : by'[queue[k][i]] = by[queue[k][i]]
    BY <1>3, <1>5, ElementTypes
  <2>3. QED BY <1>1, <2>1, <2>2 DEF Flow, InOrder, Before
<1>13. WaitInOrder'
  <2>1. \A i \in DOMAIN spool : by'[spool[i].frame] = by[spool[i].frame]
    BY <1>3, <1>5, ElementTypes
  <2>2. \A r \in Replayers : \A i \in DOMAIN batch[r] : by'[batch[r][i]] = by[batch[r][i]]
    BY <1>3, <1>5, ElementTypes
  <2>3. QED BY <1>1, <2>1, <2>2 DEF Flow, WaitInOrder, Older
<1>14. OvertakenWait'
  <2> SUFFICES ASSUME NEW g \in Frames,
                      g \in FramesOf(spool) \/ \E r \in Replayers : g \in Range(batch[r])
               PROVE  /\ \A i \in DOMAIN written : Overtakes(written[i], g)'
                      /\ \A k \in Conns \ closed :
                           \A i \in DOMAIN queue[k] : Overtakes(queue[k][i], g)'
    BY <1>1 DEF OvertakenWait, FramesOf, Range
  <2>1. g # f BY <1>5 DEF FramesOf, Range
  <2>2. by'[g] = by[g] BY <1>3, <2>1
  <2>3. \A i \in DOMAIN written : by'[written[i]] = by[written[i]]
    BY <1>3, <1>5, ElementTypes
  <2>4. \A k \in Conns \ closed : \A i \in DOMAIN queue[k] : by'[queue[k][i]] = by[queue[k][i]]
    BY <1>3, <1>5, ElementTypes
  <2>5. QED BY <1>1, <2>2, <2>3, <2>4 DEF Flow, OvertakenWait, Overtakes
<1>15. Accounted'
  <2>1. PICK lost \in [Conns -> 0..MaxFrames] : Took(lost) BY DEF Flow, Accounted
  <2>2. Took(lost)' BY <1>1, <1>2, <2>1 DEF Took
  <2>3. QED BY <2>1, <2>2 DEF Accounted
<1>16. QED BY <1>8, <1>9, <1>10, <1>11, <1>12, <1>13, <1>14, <1>15 DEF Flow

\* sendOrSpool begins with a frame.
LEMMA TakesInv ==
  ASSUME IInv, NEW p \in Producers, NEW f \in Frames, NEW k \in 0..conns, ~Busy(p),
         Takes(p, f, k), Observed(p, f)
  PROVE  IInv'
<1> USE DEF IInv, Control, collVars, connVars, envVars
<1>1. PICK x \in {"push", "spool"} :
        /\ hand' = [hand EXCEPT ![p] = [pc |-> x, frame |-> f, conn |-> k]]
        /\ x = "push" => k # NoConn
  BY DEF Takes
<1>2. k \in Conns \cup {NoConn} BY ConstantAssumption DEF Typed, Conns, NoConn
<1>3. /\ hand' \in [Producers -> Hands] /\ hand'[p].pc = x /\ hand'[p].frame = f /\ hand'[p].conn = k
      /\ \A q \in Producers : q # p => hand'[q] = hand[q]
  <2>1. [pc |-> x, frame |-> f, conn |-> k] \in Hands BY <1>2, ConstantAssumption DEF Hands, Frames
  <2>2. QED BY <1>1, <2>1 DEF Typed
<1>4. fate' \in [Frames -> Signals!Fates] /\ born' \in [Frames -> 0..MaxTime]
  <2>1. "held" \in Signals!Fates /\ {f} \in SUBSET Frames BY DEF Signals!Fates
  <2>2. QED BY <2>1, BecomeType DEF Takes
<1>5. Typed' BY <1>3, <1>4 DEF Typed, Observed
<1>6. OneOpen' BY <1>1, <1>3 DEF OneOpen, Observed, Busy
<1>7. Serialised' BY DEF Serialised, Observed
<1>8. Busy(p)' BY <1>3 DEF Busy
<1>9. Flow'
  <2>1. Busy(p)' = ("held" = "held") BY <1>8 DEF Busy
  <2>2. QED BY <1>3, <1>5, <1>8, <2>1, ObservedFlow DEF Takes
<1>10. QED BY <1>5, <1>6, <1>7, <1>9 DEF Observed

LEMMA OnEventInv == ASSUME IInv, NEW f \in Frames, OnEvent(f) PROVE IInv'
<1> USE DEF IInv, Control, collVars, connVars, envVars
<1> DEFINE p == "watch"
<1>0. p \in Producers /\ ~Busy(p) BY DEF OnEvent, Busy, Producers
<1>1. CASE ~unmonitored
  <2>1. cur \in 0..conns BY DEF OneOpen
  <2>2. QED BY <1>0, <1>1, <2>1, TakesInv DEF OnEvent
<1>2. CASE unmonitored
  <2>1. /\ Become({f}, "muted") /\ hand' = [hand EXCEPT ![p] = Idle] /\ Observed(p, f)
    BY <1>2 DEF OnEvent
  <2>2. /\ hand' \in [Producers -> Hands] /\ hand'[p].pc = "idle" /\ hand'[p].conn = 0
        /\ \A q \in Producers : q # p => hand'[q] = hand[q]
    <3>1. Idle \in Hands /\ Idle.pc = "idle" /\ Idle.conn = 0
      BY ConstantAssumption DEF Idle, Hands, NoConn
    <3>2. QED BY <1>0, <2>1, <3>1 DEF Typed
  <2>3. fate' \in [Frames -> Signals!Fates] /\ born' \in [Frames -> 0..MaxTime]
    <3>1. "muted" \in Signals!Fates /\ {f} \in SUBSET Frames BY DEF Signals!Fates
    <3>2. QED BY <2>1, <3>1, BecomeType
  <2>4. Typed' BY <1>0, <2>1, <2>2, <2>3 DEF Typed, Observed
  <2>5. OneOpen'
    <3>1. 0 \in 0..conns BY DEF Typed
    <3>2. QED BY <2>1, <2>2, <3>1 DEF OneOpen, Observed, Busy
  <2>6. Serialised' BY <2>1 DEF Serialised, Observed
  <2>7. Flow'
    <3>1. Busy(p)' = ("muted" = "held") /\ ~Busy(p)' BY <2>2 DEF Busy
    <3>2. QED BY <1>0, <2>1, <2>2, <2>4, <3>1, ObservedFlow
  <2>8. QED BY <2>1, <2>4, <2>5, <2>6, <2>7 DEF Observed
<1>3. QED BY <1>1, <1>2

LEMMA NextFrameInv == ASSUME IInv, NEW f \in Frames, NextFrame(f) PROVE IInv'
<1>1. "watch" \in Producers /\ ~Busy("watch") BY DEF NextFrame, Busy, Producers
<1>2. hand["watch"].conn \in 0..conns BY <1>1 DEF IInv, Control, OneOpen
<1>3. QED BY <1>1, <1>2, TakesInv DEF NextFrame

LEMMA CheckCaptureInv ==
  ASSUME IInv, NEW f \in Frames, NEW k \in Conns, CheckCapture(f, k) PROVE IInv'
<1>1. "check" \in Producers /\ ~Busy("check") BY DEF CheckCapture, Busy, Producers
<1>2. k \in 0..conns BY ConstantAssumption DEF CheckCapture, IInv, Control, Typed
<1>3. QED BY <1>1, <1>2, TakesInv DEF CheckCapture

----------------------------------------------------------------------------
(* Signals are lost. *)

\* What t holds is in s, in the same order.
Within(t, s) ==
  /\ \A i \in DOMAIN t : \E a \in DOMAIN s : t[i] = s[a]
  /\ \A i, j \in DOMAIN t : i < j => \E a, b \in DOMAIN s : a < b /\ t[i] = s[a] /\ t[j] = s[b]

LEMMA WithinSelf == \A s : Within(s, s)
BY DEF Within

LEMMA WithinEmpty == \A s : Within(<<>>, s)
<1>1. DOMAIN <<>> = {} OBVIOUS
<1>2. QED BY <1>1 DEF Within

LEMMA WithinTail == ASSUME NEW S, NEW s \in Seq(S), s # <<>> PROVE Within(Tail(s), s)
<1>1. /\ DOMAIN s = 1..Len(s) /\ Len(s) \in Nat
      /\ DOMAIN Tail(s) = 1..Len(Tail(s)) /\ Len(Tail(s)) \in Nat
  BY TailElements, LenProperties
<1>2. \A i \in DOMAIN Tail(s) : i + 1 \in DOMAIN s /\ Tail(s)[i] = s[i + 1] BY TailElements
<1>3. ASSUME NEW i \in DOMAIN Tail(s), NEW j \in DOMAIN Tail(s), i < j
      PROVE  \E a, b \in DOMAIN s : a < b /\ Tail(s)[i] = s[a] /\ Tail(s)[j] = s[b]
  <2>1. i + 1 < j + 1 BY <1>1, <1>3
  <2>2. QED BY <1>2, <2>1
<1>4. QED BY <1>2, <1>3 DEF Within

\* The signals in F are lost for one reason; those that still wait are where they were.
LEMMA RemovedFlow ==
  ASSUME Control, Flow, Typed',
         NEW F \in SUBSET Frames, \A f \in F : fate[f] = "held",
         NEW end \in {"muted", "aged", "evicted", "broken"}, Become(F, end),
         closed \subseteq closed', UNCHANGED <<now, by, written>>,
         replayed \subseteq replayed', replayed' \subseteq replayed \cup F,
         \A q \in Producers : Busy(q)' =>
           Busy(q) /\ hand'[q].frame = hand[q].frame /\ hand[q].frame \notin F,
         Within(spool', spool), \A i \in DOMAIN spool' : spool'[i].frame \notin F, FitsCaps(spool)',
         \A r \in Replayers : /\ Within(batch'[r], batch[r])
                              /\ \A i \in DOMAIN batch'[r] : batch'[r][i] \notin F,
         \A k \in Conns \ closed' : /\ Within(queue'[k], queue[k])
                                    /\ \A i \in DOMAIN queue'[k] : queue'[k][i] \notin F,
         Accounted'
  PROVE  Flow'
<1> USE DEF Control
<1>1. /\ \A f \in Frames : fate'[f] = IF f \in F THEN end ELSE fate[f]
      /\ \A f \in Frames : born'[f] = IF f \in F THEN 0 ELSE born[f]
  <2>1. end \in Signals!Fates BY DEF Signals!Fates
  <2>2. QED BY <2>1, BecomeType
<1>2. PICK place \in [Frames -> Places] : At(place) BY DEF Flow, Located
<1>3. \A i \in DOMAIN written : written[i] \in Frames \ F
  BY ElementTypes DEF Flow, InOrder
<1>4. \A k \in Conns \ closed' : \A i \in DOMAIN queue'[k] : queue'[k][i] \in Frames \ F
  BY ElementTypes DEF Within
<1>5. \A i \in DOMAIN spool' : spool'[i].frame \in Frames \ F BY ElementTypes DEF Within
<1>6. \A r \in Replayers : \A i \in DOMAIN batch'[r] : batch'[r][i] \in Frames \ F
  BY ElementTypes DEF Within
<1>7. \A f \in Frames \ F : f \in replayed' <=> f \in replayed OBVIOUS
<1>8. Located'
  <2> DEFINE new == [f \in Frames |-> IF f \in F THEN "gone" ELSE place[f]]
  <2>1. new \in [Frames -> Places] BY DEF Places
  <2>2. \A f \in Frames : new[f] = IF f \in F THEN "gone" ELSE place[f] OBVIOUS
  <2> HIDE DEF new
  <2>3. ASSUME NEW q \in Producers, Busy(q)' PROVE new[hand'[q].frame] = q
    <3>1. Busy(q) /\ hand'[q].frame = hand[q].frame /\ hand[q].frame \in Frames \ F
      BY <2>3 DEF OneOpen
    <3>2. QED BY <1>2, <2>2, <3>1 DEF At
  <2>4. \A i \in DOMAIN spool' : new[spool'[i].frame] = "spool" BY <1>2, <1>5, <2>2 DEF At, Within
  <2>5. \A r \in Replayers : \A i \in DOMAIN batch'[r] : new[batch'[r][i]] = "batch"
    BY <1>2, <1>6, <2>2 DEF At, Within
  <2>6. \A k \in Conns \ closed' : \A i \in DOMAIN queue'[k] : new[queue'[k][i]] = "queue"
    BY <1>2, <1>4, <2>2 DEF At, Within
  <2>7. \A f \in Frames : new[f] # "gone" => fate'[f] = "held" BY <1>1, <1>2, <2>2 DEF At
  <2>8. ASSUME NEW f \in replayed' PROVE new[f] \in {"queue", "gone"} /\ fate'[f] # "unseen"
    <3>1. f \in Frames BY DEF Typed
    <3>2. CASE f \in F BY <1>1, <2>2, <3>1, <3>2
    <3>3. CASE f \notin F BY <1>1, <1>2, <2>2, <3>1, <3>3 DEF At
    <3>4. QED BY <3>2, <3>3
  <2>9. At(new)' BY <2>3, <2>4, <2>5, <2>6, <2>7, <2>8 DEF At
  <2>10. QED BY <2>1, <2>9 DEF Located
<1>9. NoneTwice'
  <2> SUFFICES ASSUME NEW k \in Conns \ closed', NEW i \in DOMAIN queue'[k],
                      NEW j \in DOMAIN queue'[k], i # j
               PROVE  queue'[k][i] # queue'[k][j]
    BY DEF NoneTwice
  <2>1. i \in Nat /\ j \in Nat
    <3>1. queue'[k] \in Seq(Frames) BY DEF Typed
    <3>2. QED BY <3>1, LenProperties
  <2>2. DOMAIN queue[k] \subseteq Nat BY ElementTypes
  <2>3. \A a, b \in DOMAIN queue[k] : a # b => queue[k][a] # queue[k][b]
    BY DEF Flow, NoneTwice
  <2>4. CASE i < j
    <3>1. PICK a \in DOMAIN queue[k], b \in DOMAIN queue[k] :
            a < b /\ queue'[k][i] = queue[k][a] /\ queue'[k][j] = queue[k][b]
      BY <2>4 DEF Within
    <3>2. a # b BY <2>2, <3>1
    <3>3. QED BY <2>3, <3>1, <3>2
  <2>5. CASE j < i
    <3>1. PICK a \in DOMAIN queue[k], b \in DOMAIN queue[k] :
            a < b /\ queue'[k][j] = queue[k][a] /\ queue'[k][i] = queue[k][b]
      BY <2>5 DEF Within
    <3>2. a # b BY <2>2, <3>1
    <3>3. QED BY <2>3, <3>1, <3>2
  <2>6. QED BY <2>1, <2>4, <2>5
<1>10. SpoolKept'
  <2>1. ASSUME NEW i \in DOMAIN spool'
        PROVE  born'[spool'[i].frame] <= spool'[i].at /\ spool'[i].at <= now
    BY <1>1, <1>5 DEF Within, Flow, SpoolKept
  <2>2. \A f \in Frames : born'[f] <= now
    <3>1. 0 <= now BY ConstantAssumption DEF Typed
    <3>2. \A f \in Frames : born[f] <= now BY DEF Flow, SpoolKept
    <3>3. QED BY <1>1, <3>1, <3>2
  <2>3. QED BY <2>1, <2>2 DEF SpoolKept
<1>11. LastInHand'
  <2>1. \A f \in Frames : fate'[f] # "unseen" <=> fate[f] # "unseen" BY <1>1
  <2>2. QED BY <2>1 DEF Flow, LastInHand
<1>12. InOrder'
  <2>1. \A i \in DOMAIN written : fate'[written[i]] = "written" BY <1>1, <1>3 DEF Flow, InOrder
  <2>2. \A i, j \in DOMAIN written : i < j => Before(written[i], written[j])'
    BY <1>3, <1>7 DEF Flow, InOrder, Before
  <2>3. ASSUME NEW k \in Conns \ closed'
        PROVE  /\ \A i \in DOMAIN written, j \in DOMAIN queue'[k] : Before(written[i], queue[k][j])'
               /\ \A i, j \in DOMAIN queue'[k] : i < j => Before(queue[k][i], queue[k][j])'
    <3>1. k \in Conns \ closed BY <2>3
    <3>2. ASSUME NEW i \in DOMAIN written, NEW j \in DOMAIN queue'[k]
          PROVE  Before(written[i], queue[k][j])'
      <4>1. Before(written[i], queue'[k][j]) BY <3>1 DEF Flow, InOrder, Within
      <4>2. QED BY <1>3, <1>4, <1>7, <4>1 DEF Before
    <3>3. ASSUME NEW i \in DOMAIN queue'[k], NEW j \in DOMAIN queue'[k], i < j
          PROVE  Before(queue[k][i], queue[k][j])'
      <4>1. Before(queue'[k][i], queue'[k][j]) BY <3>1, <3>3 DEF Flow, InOrder, Within
      <4>2. QED BY <1>4, <1>7, <4>1 DEF Before
    <3>4. QED BY <3>2, <3>3
  <2>4. QED BY <2>1, <2>2, <2>3 DEF InOrder
<1>13. WaitInOrder'
  <2>1. \A i, j \in DOMAIN spool' : i < j => Older(spool'[i].frame, spool'[j].frame)
    BY DEF Flow, WaitInOrder, Within
  <2>2. ASSUME NEW r \in Replayers
        PROVE  /\ \A i, j \in DOMAIN batch'[r] : i < j => Older(batch'[r][i], batch'[r][j])
               /\ \A i \in DOMAIN batch'[r], j \in DOMAIN spool' :
                    Older(batch'[r][i], spool'[j].frame)
    BY DEF Flow, WaitInOrder, Within
  <2>3. QED BY <2>1, <2>2 DEF WaitInOrder, Older
<1>14. OvertakenWait'
  <2> SUFFICES ASSUME NEW g \in Frames,
                      (g \in FramesOf(spool) \/ \E r \in Replayers : g \in Range(batch[r]))'
               PROVE  /\ \A i \in DOMAIN written : Overtakes(written[i], g)'
                      /\ \A k \in Conns \ closed' :
                           \A i \in DOMAIN queue'[k] : Overtakes(queue[k][i], g)'
    BY DEF OvertakenWait
  <2>1. g \in FramesOf(spool) \/ \E r \in Replayers : g \in Range(batch[r])
    BY DEF FramesOf, Range, Within
  <2>2. /\ \A i \in DOMAIN written : Overtakes(written[i], g)
        /\ \A k \in Conns \ closed : \A i \in DOMAIN queue[k] : Overtakes(queue[k][i], g)
    BY <2>1 DEF Flow, OvertakenWait
  <2>3. \A i \in DOMAIN written : Overtakes(written[i], g)' BY <1>3, <1>7, <2>2 DEF Overtakes
  <2>4. ASSUME NEW k \in Conns \ closed', NEW i \in DOMAIN queue'[k]
        PROVE  Overtakes(queue[k][i], g)'
    <3>1. Overtakes(queue'[k][i], g) BY <2>2 DEF Within
    <3>2. QED BY <1>4, <1>7, <3>1 DEF Overtakes
  <2>5. QED BY <2>3, <2>4
<1>15. QED
  BY <1>8, <1>9, <1>10, <1>11, <1>12, <1>13, <1>14 DEF Flow

\* No signal is in two places, and what is in a place is held.
LEMMA Apart ==
  ASSUME Control, Flow
  PROVE  /\ \A p \in Producers : Busy(p) =>
              /\ fate[hand[p].frame] = "held" /\ hand[p].frame \in Frames \ replayed
              /\ \A q \in Producers : Busy(q) /\ q # p => hand[q].frame # hand[p].frame
              /\ \A i \in DOMAIN spool : spool[i].frame # hand[p].frame
              /\ \A r \in Replayers : \A i \in DOMAIN batch[r] : batch[r][i] # hand[p].frame
              /\ \A k \in Conns \ closed : \A i \in DOMAIN queue[k] : queue[k][i] # hand[p].frame
         /\ \A i \in DOMAIN spool :
              /\ fate[spool[i].frame] = "held" /\ spool[i].frame \in Frames \ replayed
              /\ \A r \in Replayers : \A j \in DOMAIN batch[r] : batch[r][j] # spool[i].frame
              /\ \A k \in Conns \ closed : \A j \in DOMAIN queue[k] : queue[k][j] # spool[i].frame
         /\ \A r \in Replayers : \A i \in DOMAIN batch[r] :
              /\ fate[batch[r][i]] = "held" /\ batch[r][i] \in Frames \ replayed
              /\ \A k \in Conns \ closed : \A j \in DOMAIN queue[k] : queue[k][j] # batch[r][i]
         /\ \A k \in Conns \ closed : \A i \in DOMAIN queue[k] :
              fate[queue[k][i]] = "held" /\ queue[k][i] \in Frames
         /\ \A i \in DOMAIN written : fate[written[i]] = "written" /\ written[i] \in Frames
<1>1. PICK place \in [Frames -> Places] : At(place) BY DEF Flow, Located
<1>2. \A p \in Producers : p \notin {"spool", "batch", "queue", "gone"} BY DEF Producers
<1>3. \A p \in Producers : Busy(p) => hand[p].frame \in Frames BY DEF Control, OneOpen
<1>4. Typed BY DEF Control
<1>5. ASSUME NEW p \in Producers, Busy(p)
      PROVE  /\ fate[hand[p].frame] = "held" /\ hand[p].frame \in Frames \ replayed
             /\ \A q \in Producers : Busy(q) /\ q # p => hand[q].frame # hand[p].frame
             /\ \A i \in DOMAIN spool : spool[i].frame # hand[p].frame
             /\ \A r \in Replayers : \A i \in DOMAIN batch[r] : batch[r][i] # hand[p].frame
             /\ \A k \in Conns \ closed : \A i \in DOMAIN queue[k] : queue[k][i] # hand[p].frame
  BY <1>1, <1>2, <1>3, <1>5 DEF At
<1>6. ASSUME NEW i \in DOMAIN spool
      PROVE  /\ fate[spool[i].frame] = "held" /\ spool[i].frame \in Frames \ replayed
             /\ \A r \in Replayers : \A j \in DOMAIN batch[r] : batch[r][j] # spool[i].frame
             /\ \A k \in Conns \ closed : \A j \in DOMAIN queue[k] : queue[k][j] # spool[i].frame
  BY <1>1, <1>4, ElementTypes DEF At
<1>7. ASSUME NEW r \in Replayers, NEW i \in DOMAIN batch[r]
      PROVE  /\ fate[batch[r][i]] = "held" /\ batch[r][i] \in Frames \ replayed
             /\ \A k \in Conns \ closed : \A j \in DOMAIN queue[k] : queue[k][j] # batch[r][i]
  BY <1>1, <1>4, ElementTypes DEF At
<1>8. \A k \in Conns \ closed : \A i \in DOMAIN queue[k] :
        fate[queue[k][i]] = "held" /\ queue[k][i] \in Frames
  BY <1>1, <1>4, ElementTypes DEF At
<1>9. \A i \in DOMAIN written : fate[written[i]] = "written" /\ written[i] \in Frames
  BY <1>4, ElementTypes DEF Flow, InOrder
<1>10. QED BY <1>5, <1>6, <1>7, <1>8, <1>9

\* sendOrSpool returns.
LEMMA KeptHand ==
  ASSUME Control, NEW p \in Producers, Kept(p)
  PROVE  /\ hand' \in [Producers -> Hands] /\ ~Busy(p)' /\ hand'[p].pc # "push"
         /\ hand'[p].conn \in 0..conns
         /\ \A q \in Producers : q # p => hand'[q] = hand[q] /\ Busy(q)' = Busy(q)
<1> DEFINE new == IF p = "watch" THEN [pc |-> "more", frame |-> 0, conn |-> hand[p].conn] ELSE Idle
<1>1. hand \in [Producers -> Hands] /\ hand[p].conn \in 0..conns /\ 0 \in 0..conns
  BY ConstantAssumption DEF Control, Typed, OneOpen
<1>2. hand[p].conn \in Conns \cup {NoConn} BY <1>1 DEF Hands
<1>3. new \in Hands /\ new.pc \in {"idle", "more"} /\ new.conn \in 0..conns
  <2>1. Idle \in Hands /\ Idle.pc = "idle" /\ Idle.conn = 0
    BY ConstantAssumption DEF Idle, Hands, NoConn
  <2> DEFINE more == [pc |-> "more", frame |-> 0, conn |-> hand[p].conn]
  <2>2. more \in Hands /\ more.pc = "more" /\ more.conn = hand[p].conn
    BY <1>2, ConstantAssumption DEF Hands
  <2> HIDE DEF more
  <2>3. new = more \/ new = Idle BY DEF more
  <2>4. QED BY <1>1, <2>1, <2>2, <2>3
<1>4. hand' = [hand EXCEPT ![p] = new] BY DEF Kept
<1> HIDE DEF new
<1>5. QED BY <1>1, <1>3, <1>4 DEF Busy

\* A replayer returns with nothing left in its batch.
LEMMA ReturnsControl ==
  ASSUME Control, NEW r \in Replayers, rpc[r] # "off", replayMu = r, replayMu' = Nobody, Returns(r),
         \A q \in Replayers : batch'[q] = IF q = r THEN <<>> ELSE batch[q], conns' = conns
  PROVE  /\ rpc' \in [Replayers -> RPCs]
         /\ \A q \in Replayers : rpc'[q] # "off" => q[1] \in 1..conns'
         /\ Serialised'
<1>1. PICK x \in {"off", "idle"} : rpc' = [rpc EXCEPT ![r] = x] BY DEF Returns
<1>2. rpc \in [Replayers -> RPCs] BY DEF Control, Typed
<1>3. rpc' \in [Replayers -> RPCs] BY <1>1, <1>2 DEF RPCs
<1>4. \A q \in Replayers : rpc'[q] = IF q = r THEN x ELSE rpc[q] BY <1>1, <1>2
<1>5. Serialised'
  <2>1. Len(<<>>) = 0 BY EmptySeq
  <2>2. \A q \in Replayers \ {r} : batch[q] = <<>> /\ rpc[q] \notin {"discard", "push", "back"}
    BY DEF Control, Serialised
  <2>3. QED BY <1>4, <2>1, <2>2, ConstantAssumption DEF Serialised
<1>6. r[1] \in 1..conns BY DEF Control, OneOpen
<1>7. QED BY <1>3, <1>4, <1>5, <1>6 DEF Control, OneOpen

LEMMA RangeType ==
  ASSUME NEW S, NEW s \in Seq(S)
  PROVE  Range(s) \in SUBSET S /\ \A i \in DOMAIN s : s[i] \in Range(s)
BY LenProperties, ElementOfSeq DEF Range

\* A connection breaks: the frames in its queue, or the one that could not be written
\* and the rest of the queue, are lost.
LEMMA ClosesInv ==
  ASSUME IInv, NEW k \in 1..conns \ closed, Closes(k, Range(queue[k])),
         NEW rest, queue' = [queue EXCEPT ![k] = rest],
         rest = queue[k] \/ (queue[k] # <<>> /\ rest = Tail(queue[k])),
         UNCHANGED <<collVars, hand, rpc, batch, conns, ended, envVars, by, replayed, written>>
  PROVE  IInv'
<1> USE DEF IInv, Control, collVars, envVars
<1>0. PICK F : F = Range(queue[k]) OBVIOUS
<1>1. k \in Conns /\ queue[k] \in Seq(Frames) /\ Conns \subseteq Nat
  BY ConstantAssumption DEF Typed, Conns
<1>2. F \in SUBSET Frames /\ \A i \in DOMAIN queue[k] : queue[k][i] \in F
  BY <1>0, <1>1, RangeType
<1>3. /\ rest \in Seq(Frames) /\ Len(rest) <= SendBuffer
  <2>1. Len(queue[k]) <= SendBuffer /\ Len(queue[k]) \in Nat BY <1>1, LenProperties DEF OneOpen
  <2>2. CASE rest = queue[k] BY <1>1, <2>1, <2>2
  <2>3. CASE queue[k] # <<>> /\ rest = Tail(queue[k])
    BY <1>1, <2>1, <2>3, TailElements, ConstantAssumption
  <2>4. QED BY <2>2, <2>3
<1>4. queue' \in [Conns -> Seq(Frames)] /\ \A c \in Conns : queue'[c] = IF c = k THEN rest ELSE queue[c]
  BY <1>1, <1>3 DEF Typed
<1>5. closed' = closed \cup {k} /\ Become(F, "broken") BY <1>0 DEF Closes
<1>6. fate' \in [Frames -> Signals!Fates] /\ born' \in [Frames -> 0..MaxTime]
      /\ \A f \in Frames : fate'[f] = IF f \in F THEN "broken" ELSE fate[f]
  <2>1. "broken" \in Signals!Fates BY DEF Signals!Fates
  <2>2. QED BY <1>2, <1>5, <2>1, BecomeType
<1>7. Typed' BY <1>1, <1>4, <1>5, <1>6 DEF Typed
<1>8. OneOpen' BY <1>1, <1>3, <1>4, <1>5 DEF OneOpen, Busy
<1>9. Serialised' BY DEF Serialised
<1>10. /\ \A f \in F : fate[f] = "held"
       /\ \A q \in Producers : Busy(q) => hand[q].frame \notin F
       /\ \A i \in DOMAIN spool : spool[i].frame \notin F
       /\ \A r \in Replayers : \A i \in DOMAIN batch[r] : batch[r][i] \notin F
  BY <1>0, <1>1, Apart DEF Range
<1>11. ASSUME NEW c \in Conns \ closed'
       PROVE  queue'[c] = queue[c] /\ \A i \in DOMAIN queue'[c] : queue'[c][i] \notin F
  <2>1. c \in Conns \ closed /\ c # k BY <1>5
  <2>2. queue[c] = <<>>
    <3>1. CASE c \in 1..conns BY <2>1, <3>1 DEF OneOpen
    <3>2. CASE c \notin 1..conns
      <4>1. c > conns BY <2>1, <3>2, ConstantAssumption DEF Typed, Conns
      <4>2. QED BY <4>1 DEF OneOpen
    <3>3. QED BY <3>1, <3>2
  <2>3. QED BY <1>4, <2>1, <2>2
<1>12. Accounted'
  <2>1. PICK lost \in [Conns -> 0..MaxFrames] : Took(lost) BY DEF Flow, Accounted
  <2>2. PICK x \in 0..MaxFrames : queue[k] # <<>> => x = Head(queue[k])
    <3>1. CASE queue[k] = <<>> BY <3>1, ConstantAssumption
    <3>2. CASE queue[k] # <<>>
      <4>1. Head(queue[k]) \in Frames BY <1>1, <3>2, TailElements
      <4>2. QED BY <4>1 DEF Frames
    <3>3. QED BY <3>1, <3>2
  <2> DEFINE new == [lost EXCEPT ![k] = x]
  <2>3. new \in [Conns -> 0..MaxFrames] BY <2>2
  <2>4. /\ \A c \in Conns : c # k => new[c] = lost[c]
        /\ queue[k] # <<>> => new[k] = Head(queue[k])
    BY <1>1, <2>1, <2>2
  <2> HIDE DEF new
  <2>5. ASSUME NEW f \in Frames, fate'[f] = "broken"
        PROVE  \E c \in closed' : f = new[c] \/ f \in Range(queue'[c])
    <3>1. CASE f \in F
      <4>1. PICK i \in DOMAIN queue[k] : f = queue[k][i] BY <1>0, <3>1 DEF Range
      <4>2. queue[k] # <<>> BY <4>1
      <4>3. CASE rest = queue[k] BY <1>0, <1>1, <1>4, <1>5, <3>1, <4>3
      <4>4. CASE rest = Tail(queue[k])
        <5>1. i = 1 \/ (i - 1 \in DOMAIN rest /\ f = rest[i - 1])
          BY <1>1, <4>1, <4>2, <4>4, TailElements
        <5>2. Head(queue[k]) = queue[k][1] OBVIOUS
        <5>3. i = 1 => f = new[k] BY <2>4, <4>1, <4>2, <5>2
        <5>4. i # 1 => f \in Range(queue'[k]) BY <1>1, <1>4, <5>1 DEF Range
        <5>5. QED BY <1>5, <5>3, <5>4
      <4>5. QED BY <4>3, <4>4
    <3>2. CASE f \notin F
      <4>1. PICK c \in closed : f = lost[c] \/ f \in Range(queue[c])
        BY <1>6, <2>1, <2>5, <3>2 DEF Took
      <4>2. c # k /\ c \in Conns BY DEF Typed
      <4>3. QED BY <1>4, <1>5, <2>4, <4>1, <4>2
    <3>3. QED BY <3>1, <3>2
  <2>6. Took(new)' BY <2>5 DEF Took
  <2>7. QED BY <2>3, <2>6 DEF Accounted
<1>13. FitsCaps(spool)' BY DEF Flow, SpoolKept, FitsCaps, Bytes, FramesOf
<1>14. \A q \in Producers : Busy(q)' = Busy(q) BY DEF Busy
<1>15. Flow'
  BY <1>2, <1>5, <1>7, <1>10, <1>11, <1>12, <1>13, <1>14, RemovedFlow, WithinSelf
<1>16. QED BY <1>7, <1>8, <1>9, <1>15

LEMMA BreakInv ==
  ASSUME IInv, NEW k \in Conns, ReadFails(k) \/ PumpFails(k) PROVE IInv'
<1>1. CASE ReadFails(k)
  <2>1. queue' = [queue EXCEPT ![k] = queue[k]] BY <1>1 DEF ReadFails, IInv, Control, Typed
  <2>2. QED BY <1>1, <2>1, ClosesInv DEF ReadFails
<1>2. CASE PumpFails(k) BY <1>2, ClosesInv DEF PumpFails
<1>3. QED BY <1>1, <1>2

\* A host that is not monitored: the spool is emptied.
LEMMA ReplayDiscardInv ==
  ASSUME IInv, NEW r \in Replayers, ReplayDiscard(r) PROVE IInv'
<1> USE DEF IInv, Control, connVars, envVars
<1> DEFINE F == FramesOf(spool)
<1>1. /\ rpc[r] = "discard" /\ replayMu = r /\ replayMu' = Nobody /\ Returns(r)
      /\ Become(F, "muted") /\ spool' = <<>>
      /\ UNCHANGED <<cur, unmonitored, hand, batch, conns, queue, closed, ended, now, configs,
                     by, replayed, written>>
      /\ batch[r] = <<>>
  BY DEF ReplayDiscard, Serialised
<1>2. F \in SUBSET Frames BY FramesOfType DEF Typed
<1>3. fate' \in [Frames -> Signals!Fates] /\ born' \in [Frames -> 0..MaxTime]
      /\ \A f \in Frames : fate'[f] = IF f \in F THEN "muted" ELSE fate[f]
  <2>1. "muted" \in Signals!Fates BY DEF Signals!Fates
  <2>2. QED BY <1>1, <1>2, <2>1, BecomeType
<1>4. /\ rpc' \in [Replayers -> RPCs]
      /\ \A q \in Replayers : rpc'[q] # "off" => q[1] \in 1..conns'
      /\ Serialised'
  BY <1>1, ReturnsControl
<1>5. spool' \in Seq(Entries) /\ Len(<<>>) = 0 BY <1>1, EmptySeq
<1>6. Typed' BY <1>1, <1>3, <1>4, <1>5 DEF Typed
<1>7. OneOpen' BY <1>1, <1>4 DEF OneOpen, Busy
<1>8. /\ \A f \in F : fate[f] = "held"
      /\ \A q \in Producers : Busy(q) => hand[q].frame \notin F
      /\ \A c \in Replayers : \A i \in DOMAIN batch[c] : batch[c][i] \notin F
      /\ \A k \in Conns \ closed : \A i \in DOMAIN queue[k] : queue[k][i] \notin F
  BY Apart DEF FramesOf
<1>9. Accounted'
  <2>1. PICK lost \in [Conns -> 0..MaxFrames] : Took(lost) BY DEF Flow, Accounted
  <2>2. Took(lost)' BY <1>1, <1>3, <2>1 DEF Took
  <2>3. QED BY <2>1, <2>2 DEF Accounted
<1>10. FitsCaps(spool)' BY <1>1, <1>5, ConstantAssumption DEF FitsCaps
<1>11. \A q \in Producers : Busy(q)' = Busy(q) BY <1>1 DEF Busy
<1>12. Within(spool', spool) /\ DOMAIN spool' = {} BY <1>1, WithinEmpty
<1> HIDE DEF F
<1>13. Flow'
  BY <1>1, <1>2, <1>6, <1>8, <1>9, <1>10, <1>11, <1>12, RemovedFlow, WithinSelf
<1>14. QED BY <1>1, <1>4, <1>6, <1>7, <1>13

----------------------------------------------------------------------------
(* Signals enter a send queue. *)

\* An open connection takes frame f: a fresh one, which is its producer's last, or the
\* oldest one of a batch.
LEMMA EnqueuedFlow ==
  ASSUME Control, Flow, Typed', NEW k \in Conns \ closed, NEW f \in Frames \ replayed,
         fate[f] = "held",
         queue' = [queue EXCEPT ![k] = Append(@, f)],
         UNCHANGED <<spool, closed, now, fate, born, by, written>>,
         replayed' \in {replayed, replayed \cup {f}},
         \A q \in Producers : Busy(q)' =>
           Busy(q) /\ hand'[q].frame = hand[q].frame /\ hand[q].frame # f,
         \A i \in DOMAIN spool : spool[i].frame # f,
         \A r \in Replayers : /\ Within(batch'[r], batch[r])
                              /\ \A i \in DOMAIN batch'[r] : batch'[r][i] # f,
         \A c \in Conns \ closed : \A i \in DOMAIN queue[c] : queue[c][i] # f,
         \A g \in Frames : g \in Range(written) \/ g \in Range(queue[k]) => Before(g, f)',
         \A g \in Frames :
           (g \in FramesOf(spool) \/ \E r \in Replayers : g \in Range(batch'[r])) => Overtakes(f, g)'
  PROVE  Flow'
<1> USE DEF Control
<1>1. queue[k] \in Seq(Frames) BY DEF Typed
<1>2. /\ \A c \in Conns : c # k => queue'[c] = queue[c]
      /\ queue'[k] = Append(queue[k], f)
  BY DEF Typed
<1>3. /\ Len(queue[k]) \in Nat
      /\ \A i \in DOMAIN queue'[k] :
           i \in Nat /\ (\/ i \in DOMAIN queue[k] /\ queue'[k][i] = queue[k][i]
                         \/ i = Len(queue[k]) + 1 /\ queue'[k][i] = f)
      /\ \A i \in DOMAIN queue[k] : i <= Len(queue[k])
  BY <1>1, <1>2, AppendElements
<1>4. PICK place \in [Frames -> Places] : At(place) BY DEF Flow, Located
<1>5. /\ \A i \in DOMAIN written : written[i] \in Frames \ {f} /\ fate[written[i]] = "written"
      /\ \A c \in Conns \ closed : \A i \in DOMAIN queue[c] : queue[c][i] \in Frames \ {f}
      /\ \A i \in DOMAIN spool : spool[i].frame \in Frames \ {f}
      /\ \A r \in Replayers : \A i \in DOMAIN batch'[r] : batch'[r][i] \in Frames \ {f}
  BY ElementTypes DEF Flow, InOrder, Within
<1>6. \A g \in Frames \ {f} : g \in replayed' <=> g \in replayed OBVIOUS
<1>7. Located'
  <2> DEFINE new == [place EXCEPT ![f] = "queue"]
  <2>1. new \in [Frames -> Places] BY DEF Places
  <2>2. \A g \in Frames : new[g] = IF g = f THEN "queue" ELSE place[g] BY <1>4
  <2> HIDE DEF new
  <2>3. ASSUME NEW q \in Producers, Busy(q)' PROVE new[hand'[q].frame] = q
    <3>1. Busy(q) /\ hand'[q].frame = hand[q].frame /\ hand[q].frame \in Frames \ {f}
      BY <2>3 DEF OneOpen
    <3>2. QED BY <1>4, <2>2, <3>1 DEF At
  <2>4. \A i \in DOMAIN spool : new[spool[i].frame] = "spool" BY <1>4, <1>5, <2>2 DEF At
  <2>5. \A r \in Replayers : \A i \in DOMAIN batch'[r] : new[batch'[r][i]] = "batch"
    BY <1>4, <1>5, <2>2 DEF At, Within
  <2>6. ASSUME NEW c \in Conns \ closed, NEW i \in DOMAIN queue'[c]
        PROVE  new[queue'[c][i]] = "queue"
    <3>1. \A j \in DOMAIN queue[c] : new[queue[c][j]] = "queue" BY <1>4, <1>5, <2>2 DEF At
    <3>2. CASE c = k BY <1>3, <2>2, <2>6, <3>1, <3>2
    <3>3. CASE c # k BY <1>2, <2>6, <3>1, <3>3
    <3>4. QED BY <3>2, <3>3
  <2>7. \A g \in Frames : new[g] # "gone" => fate[g] = "held" BY <1>4, <2>2 DEF At
  <2>8. ASSUME NEW g \in replayed' PROVE new[g] \in {"queue", "gone"} /\ fate[g] # "unseen"
    <3>1. g \in Frames /\ (g # f => g \in replayed) BY DEF Typed
    <3>2. QED BY <1>4, <2>2, <3>1 DEF At
  <2>9. At(new)' BY <2>3, <2>4, <2>5, <2>6, <2>7, <2>8 DEF At
  <2>10. QED BY <2>1, <2>9 DEF Located
<1>8. NoneTwice'
  <2> SUFFICES ASSUME NEW c \in Conns \ closed, NEW i \in DOMAIN queue'[c],
                      NEW j \in DOMAIN queue'[c], i # j
               PROVE  queue'[c][i] # queue'[c][j]
    BY DEF NoneTwice
  <2>1. \A a, b \in DOMAIN queue[c] : a # b => queue[c][a] # queue[c][b] BY DEF Flow, NoneTwice
  <2>2. CASE c # k BY <1>2, <2>1, <2>2
  <2>3. CASE c = k BY <1>3, <1>5, <2>1, <2>3
  <2>4. QED BY <2>2, <2>3
<1>9. SpoolKept' BY DEF Flow, SpoolKept, FitsCaps, Bytes, FramesOf
<1>10. LastInHand' BY DEF Flow, LastInHand
<1>11. InOrder'
  <2>1. \A i, j \in DOMAIN written : i < j => Before(written[i], written[j])'
    BY <1>5, <1>6 DEF Flow, InOrder, Before
  <2>2. ASSUME NEW c \in Conns \ closed
        PROVE  /\ \A i \in DOMAIN written, j \in DOMAIN queue[c] : Before(written[i], queue[c][j])
               /\ \A i, j \in DOMAIN queue[c] : i < j => Before(queue[c][i], queue[c][j])
    BY DEF Flow, InOrder
  <2>3. ASSUME NEW c \in Conns \ closed, NEW i \in DOMAIN written, NEW j \in DOMAIN queue'[c]
        PROVE  Before(written[i], queue[c][j])'
    <3>1. CASE c # k
      <4>1. Before(written[i], queue'[c][j]) BY <1>2, <2>2, <2>3, <3>1
      <4>2. QED BY <1>2, <1>5, <1>6, <2>3, <3>1, <4>1 DEF Before
    <3>2. CASE c = k /\ j \in DOMAIN queue[k] /\ queue'[k][j] = queue[k][j]
      <4>1. Before(written[i], queue'[c][j]) BY <2>2, <2>3, <3>2
      <4>2. QED BY <1>5, <1>6, <2>3, <3>2, <4>1 DEF Before
    <3>3. CASE c = k /\ queue'[k][j] = f BY <1>5, <2>3, <3>3 DEF Range
    <3>4. QED BY <1>3, <2>3, <3>1, <3>2, <3>3
  <2>4. ASSUME NEW c \in Conns \ closed, NEW i \in DOMAIN queue'[c], NEW j \in DOMAIN queue'[c],
               i < j
        PROVE  Before(queue[c][i], queue[c][j])'
    <3>1. CASE c # k
      <4>1. Before(queue'[c][i], queue'[c][j]) BY <1>2, <2>2, <2>4, <3>1
      <4>2. QED BY <1>2, <1>5, <1>6, <2>4, <3>1, <4>1 DEF Before
    <3>2. CASE c = k
      <4>1. i \in DOMAIN queue[k] /\ queue'[k][i] = queue[k][i]
        BY <1>3, <2>4, <3>2
      <4>2. CASE j \in DOMAIN queue[k] /\ queue'[k][j] = queue[k][j]
        <5>1. Before(queue'[c][i], queue'[c][j]) BY <2>2, <2>4, <3>2, <4>1, <4>2
        <5>2. QED BY <1>5, <1>6, <3>2, <4>1, <4>2, <5>1 DEF Before
      <4>3. CASE queue'[k][j] = f BY <1>5, <3>2, <4>1, <4>3 DEF Range
      <4>4. QED BY <1>3, <2>4, <3>2, <4>2, <4>3
    <3>3. QED BY <3>1, <3>2
  <2>5. QED BY <1>5, <2>1, <2>3, <2>4 DEF InOrder
<1>12. WaitInOrder'
  <2>1. ASSUME NEW r \in Replayers
        PROVE  /\ \A i, j \in DOMAIN batch'[r] : i < j => Older(batch'[r][i], batch'[r][j])
               /\ \A i \in DOMAIN batch'[r], j \in DOMAIN spool : Older(batch'[r][i], spool[j].frame)
    BY DEF Flow, WaitInOrder, Within
  <2>2. QED BY <2>1 DEF Flow, WaitInOrder, Older
<1>13. OvertakenWait'
  <2> SUFFICES ASSUME NEW g \in Frames,
                      g \in FramesOf(spool) \/ \E r \in Replayers : g \in Range(batch'[r])
               PROVE  /\ \A i \in DOMAIN written : Overtakes(written[i], g)'
                      /\ \A c \in Conns \ closed :
                           \A i \in DOMAIN queue'[c] : Overtakes(queue[c][i], g)'
    BY DEF OvertakenWait, FramesOf, Range
  <2>1. g \in FramesOf(spool) \/ \E r \in Replayers : g \in Range(batch[r])
    BY DEF FramesOf, Range, Within
  <2>2. /\ \A i \in DOMAIN written : Overtakes(written[i], g)
        /\ \A c \in Conns \ closed : \A i \in DOMAIN queue[c] : Overtakes(queue[c][i], g)
    BY <2>1 DEF Flow, OvertakenWait
  <2>3. \A i \in DOMAIN written : Overtakes(written[i], g)' BY <1>5, <1>6, <2>2 DEF Overtakes
  <2>4. ASSUME NEW c \in Conns \ closed, NEW i \in DOMAIN queue'[c]
        PROVE  Overtakes(queue[c][i], g)'
    <3>1. Overtakes(f, g)' OBVIOUS
    <3>2. CASE c # k
      <4>1. Overtakes(queue'[c][i], g) BY <1>2, <2>2, <2>4, <3>2
      <4>2. QED BY <1>2, <1>5, <1>6, <2>4, <3>2, <4>1 DEF Overtakes
    <3>3. CASE c = k /\ i \in DOMAIN queue[k] /\ queue'[k][i] = queue[k][i]
      <4>1. Overtakes(queue'[c][i], g) BY <2>2, <2>4, <3>3
      <4>2. QED BY <1>5, <1>6, <3>3, <4>1 DEF Overtakes
    <3>4. CASE c = k /\ queue'[k][i] = f BY <3>1, <3>4
    <3>5. QED BY <1>3, <2>4, <3>2, <3>3, <3>4
  <2>5. QED BY <2>3, <2>4
<1>14. Accounted'
  <2>1. PICK lost \in [Conns -> 0..MaxFrames] : Took(lost) BY DEF Flow, Accounted
  <2>2. \A c \in closed : queue'[c] = queue[c] BY <1>2 DEF Typed
  <2>3. Took(lost)' BY <2>1, <2>2 DEF Took
  <2>4. QED BY <2>1, <2>3 DEF Accounted
<1>15. QED
  BY <1>7, <1>8, <1>9, <1>10, <1>11, <1>12, <1>13, <1>14 DEF Flow

\* A connection that broke meanwhile takes frame f, which is lost with it.
LEMMA SwallowedFlow ==
  ASSUME Control, Flow, Typed', NEW k \in closed, NEW f \in Frames,
         fate[f] = "held", Become({f}, "broken"),
         queue' = [queue EXCEPT ![k] = Append(@, f)],
         UNCHANGED <<spool, closed, now, by, written>>,
         replayed' \in {replayed, replayed \cup {f}},
         \A q \in Producers : Busy(q)' =>
           Busy(q) /\ hand'[q].frame = hand[q].frame /\ hand[q].frame # f,
         \A i \in DOMAIN spool : spool[i].frame # f,
         \A r \in Replayers : /\ Within(batch'[r], batch[r])
                              /\ \A i \in DOMAIN batch'[r] : batch'[r][i] # f,
         \A c \in Conns \ closed : \A i \in DOMAIN queue[c] : queue[c][i] # f
  PROVE  Flow'
<1> USE DEF Control
<1>1. k \in Conns /\ queue[k] \in Seq(Frames) /\ closed \subseteq Conns BY DEF Typed
<1>2. /\ \A c \in Conns : c # k => queue'[c] = queue[c]
      /\ queue'[k] = Append(queue[k], f)
  BY <1>1 DEF Typed
<1>3. f \in Range(queue'[k]) /\ Range(queue[k]) \subseteq Range(queue'[k])
  BY <1>1, <1>2, AppendElements DEF Range
<1>4. \A g \in Frames : fate'[g] = IF g = f THEN "broken" ELSE fate[g]
  <2>1. "broken" \in Signals!Fates /\ {f} \in SUBSET Frames BY DEF Signals!Fates
  <2>2. \A g \in Frames : fate'[g] = IF g \in {f} THEN "broken" ELSE fate[g] BY <2>1, BecomeType
  <2>3. QED BY <2>2
<1>5. Accounted'
  <2>1. PICK lost \in [Conns -> 0..MaxFrames] : Took(lost) BY DEF Flow, Accounted
  <2>2. ASSUME NEW g \in Frames, fate'[g] = "broken"
        PROVE  \E c \in closed : g = lost[c] \/ g \in Range(queue'[c])
    <3>1. CASE g = f BY <1>3, <3>1
    <3>2. CASE g # f
      <4>1. PICK c \in closed : g = lost[c] \/ g \in Range(queue[c])
        BY <1>4, <2>1, <2>2, <3>2 DEF Took
      <4>2. c \in Conns BY <1>1
      <4>3. QED BY <1>2, <1>3, <4>1, <4>2
    <3>3. QED BY <3>1, <3>2
  <2>3. Took(lost)' BY <2>2 DEF Took
  <2>4. QED BY <2>1, <2>3 DEF Accounted
<1>6. FitsCaps(spool)' BY DEF Flow, SpoolKept, FitsCaps, Bytes, FramesOf
<1>7. \A c \in Conns \ closed' : Within(queue'[c], queue[c]) /\ queue'[c] = queue[c]
  BY <1>2, WithinSelf
<1>8. Within(spool', spool) BY WithinSelf
<1>9. {f} \in SUBSET Frames /\ \A g : g \in {f} <=> g = f OBVIOUS
<1>10. PICK F : F = {f} OBVIOUS
<1>11. QED BY <1>5, <1>6, <1>7, <1>8, <1>9, <1>10, RemovedFlow

LEMMA EnqueuedControl ==
  ASSUME Control, NEW k \in 1..conns, NEW f \in Frames, Enqueued(k, f)
  PROVE  /\ k \in Conns /\ queue' = [queue EXCEPT ![k] = Append(@, f)]
         /\ queue' \in [Conns -> Seq(Frames)]
         /\ \A c \in Conns : Len(queue'[c]) <= SendBuffer /\ (c > conns => queue'[c] = <<>>)
         /\ fate' \in [Frames -> Signals!Fates] /\ born' \in [Frames -> 0..MaxTime]
<1> USE DEF Control
<1>1. k \in Conns /\ Conns \subseteq Nat /\ conns \in Nat BY ConstantAssumption DEF Typed, Conns
<1>2. Len(queue[k]) < SendBuffer /\ queue' = [queue EXCEPT ![k] = Append(@, f)] BY DEF Enqueued
<1>3. queue[k] \in Seq(Frames) BY <1>1 DEF Typed
<1>4. /\ Append(queue[k], f) \in Seq(Frames) /\ Len(Append(queue[k], f)) = Len(queue[k]) + 1
      /\ Len(queue[k]) \in Nat
  BY <1>3, AppendElements
<1>5. \A c \in Conns : queue'[c] = IF c = k THEN Append(queue[k], f) ELSE queue[c]
  BY <1>1, <1>2 DEF Typed
<1>6. queue' \in [Conns -> Seq(Frames)] BY <1>1, <1>2, <1>4 DEF Typed
<1>7. ASSUME NEW c \in Conns PROVE Len(queue'[c]) <= SendBuffer /\ (c > conns => queue'[c] = <<>>)
  <2>1. CASE c = k BY <1>1, <1>2, <1>4, <1>5, <2>1, ConstantAssumption
  <2>2. CASE c # k BY <1>5, <2>2 DEF OneOpen
  <2>3. QED BY <2>1, <2>2
<1>8. fate' \in [Frames -> Signals!Fates] /\ born' \in [Frames -> 0..MaxTime]
  <2>1. CASE k \in closed
    <3>1. "broken" \in Signals!Fates /\ {f} \in SUBSET Frames BY DEF Signals!Fates
    <3>2. QED BY <2>1, <3>1, BecomeType DEF Enqueued
  <2>2. CASE k \notin closed BY <2>2 DEF Enqueued, Typed
  <2>3. QED BY <2>1, <2>2
<1>9. QED BY <1>1, <1>2, <1>6, <1>7, <1>8

LEMMA SendPushInv == ASSUME IInv, NEW p \in Producers, SendPush(p) PROVE IInv'
<1> USE DEF IInv, Control, collVars, envVars
<1>1. PICK k : k = hand[p].conn OBVIOUS
<1>2. PICK f : f = hand[p].frame OBVIOUS
<1>3. /\ Busy(p) /\ k \in 1..conns /\ f \in Frames
      /\ Enqueued(k, f) /\ Kept(p)
      /\ UNCHANGED <<cur, unmonitored, spool, replayMu, rpc, batch, conns, closed, ended, now,
                     configs, by, replayed, written>>
  <2>1. Busy(p) /\ k # NoConn /\ k \in 0..conns BY <1>1 DEF SendPush, Busy, OneOpen
  <2>2. k \in 1..conns BY <2>1 DEF NoConn, Typed
  <2>3. QED BY <1>1, <1>2, <2>1, <2>2 DEF SendPush, OneOpen
<1>4. /\ hand' \in [Producers -> Hands] /\ ~Busy(p)' /\ hand'[p].pc # "push"
      /\ hand'[p].conn \in 0..conns
      /\ \A q \in Producers : q # p => hand'[q] = hand[q] /\ Busy(q)' = Busy(q)
  BY <1>3, KeptHand
<1>5. /\ k \in Conns /\ queue' = [queue EXCEPT ![k] = Append(@, f)]
      /\ queue' \in [Conns -> Seq(Frames)]
      /\ \A c \in Conns : Len(queue'[c]) <= SendBuffer /\ (c > conns => queue'[c] = <<>>)
      /\ fate' \in [Frames -> Signals!Fates] /\ born' \in [Frames -> 0..MaxTime]
  BY <1>3, EnqueuedControl
<1>6. Typed' BY <1>3, <1>4, <1>5 DEF Typed
<1>7. OneOpen' BY <1>3, <1>4, <1>5 DEF OneOpen
<1>8. Serialised' BY <1>3 DEF Serialised
<1>9. /\ fate[f] = "held" /\ f \in Frames \ replayed
      /\ \A q \in Producers : Busy(q) /\ q # p => hand[q].frame # f
      /\ \A i \in DOMAIN spool : spool[i].frame # f
      /\ \A r \in Replayers : \A i \in DOMAIN batch[r] : batch[r][i] # f
      /\ \A c \in Conns \ closed : \A i \in DOMAIN queue[c] : queue[c][i] # f
  BY <1>2, <1>3, Apart
<1>10. \A q \in Producers : Busy(q)' =>
         Busy(q) /\ hand'[q].frame = hand[q].frame /\ hand[q].frame # f
  BY <1>4, <1>9
<1>11. \A r \in Replayers : /\ Within(batch'[r], batch[r])
                            /\ \A i \in DOMAIN batch'[r] : batch'[r][i] # f
  BY <1>3, <1>9, WithinSelf
<1>12. Flow'
  <2>1. CASE k \in closed
    <3>1. Become({f}, "broken") BY <1>3, <2>1 DEF Enqueued
    <3>2. QED BY <1>3, <1>5, <1>6, <1>9, <1>10, <1>11, <2>1, <3>1, SwallowedFlow
  <2>2. CASE k \notin closed
    <3>1. UNCHANGED <<fate, born>> BY <1>3, <2>2 DEF Enqueued
    <3>2. \A g \in Frames : fate[g] # "unseen" /\ by[g] = by[f] => g <= f
      BY <1>2, <1>3 DEF Flow, LastInHand
    <3>3. ASSUME NEW g \in Frames, g \in Range(written) \/ g \in Range(queue[k])
          PROVE  Before(g, f)'
      <4>1. fate[g] # "unseen" BY <1>5, <2>2, <3>3, Apart DEF Range
      <4>2. g \in Nat /\ f \in Nat BY <1>3, ConstantTypes
      <4>3. QED BY <1>3, <3>2, <4>1, <4>2 DEF Before
    <3>4. \A g \in Frames : Overtakes(f, g)' BY <1>3, <1>9 DEF Overtakes
    <3>5. QED BY <1>3, <1>5, <1>6, <1>9, <1>10, <1>11, <2>2, <3>1, <3>3, <3>4, EnqueuedFlow
  <2>3. QED BY <2>1, <2>2
<1>13. QED BY <1>3, <1>6, <1>7, <1>8, <1>12

\* The head of the replay loop, over the rest b of the batch.
LEMMA ProceedControl ==
  ASSUME Control, NEW r \in Replayers, rpc[r] # "off", replayMu \in {Nobody, r},
         NEW b \in Seq(Frames), Len(b) <= MaxEntries, Proceed(r, b), conns' = conns
  PROVE  /\ rpc' \in [Replayers -> RPCs] /\ batch' \in [Replayers -> Seq(Frames)]
         /\ replayMu' \in Replayers \cup {Nobody}
         /\ \A q \in Replayers : rpc'[q] # "off" => q[1] \in 1..conns'
         /\ \A q \in Replayers : batch'[q] = IF q = r THEN b ELSE <<>>
         /\ Serialised'
         /\ \A q \in Replayers \ {r} : batch[q] = <<>>
<1>1. \A q \in Replayers \ {r} : batch[q] = <<>> /\ rpc[q] \notin {"discard", "push", "back"}
  BY ConstantTypes DEF Control, Serialised
<1>2. PICK x \in {"off", "idle", "back", "push"} :
        /\ rpc' = [rpc EXCEPT ![r] = x]
        /\ IF x \in {"back", "push"} THEN replayMu' = r /\ b # <<>> ELSE replayMu' = Nobody /\ b = <<>>
  <2>1. CASE b = <<>> BY <2>1 DEF Proceed, Returns
  <2>2. CASE b # <<>> BY <2>2 DEF Proceed
  <2>3. QED BY <2>1, <2>2
<1>3. rpc \in [Replayers -> RPCs] /\ batch \in [Replayers -> Seq(Frames)] BY DEF Control, Typed
<1>4. rpc' \in [Replayers -> RPCs] /\ \A q \in Replayers : rpc'[q] = IF q = r THEN x ELSE rpc[q]
  BY <1>2, <1>3 DEF RPCs
<1>5. batch' = [batch EXCEPT ![r] = b] BY DEF Proceed
<1>6. batch' \in [Replayers -> Seq(Frames)] /\ \A q \in Replayers : batch'[q] = IF q = r THEN b ELSE <<>>
  BY <1>1, <1>3, <1>5
<1>7. \A q \in Replayers : rpc'[q] # "off" => q[1] \in 1..conns' BY <1>4 DEF Control, OneOpen
<1>8. Serialised'
  <2>1. Len(<<>>) = 0 BY EmptySeq
  <2>2. QED BY <1>1, <1>2, <1>4, <1>6, <2>1, ConstantAssumption DEF Serialised
<1>9. replayMu' \in Replayers \cup {Nobody} BY <1>2
<1>10. QED BY <1>1, <1>4, <1>6, <1>7, <1>8, <1>9

LEMMA ReplayPushInv == ASSUME IInv, NEW r \in Replayers, ReplayPush(r) PROVE IInv'
<1> USE DEF IInv, Control, envVars
<1>1. PICK f : f = Head(batch[r]) OBVIOUS
<1>2. PICK k : k = r[1] OBVIOUS
<1>3. PICK b : b = Tail(batch[r]) OBVIOUS
<1>4. /\ rpc[r] = "push" /\ replayMu = r /\ batch[r] # <<>> /\ k \in 1..conns
      /\ Enqueued(k, f) /\ Proceed(r, b) /\ replayed' = replayed \cup {f}
      /\ UNCHANGED <<cur, unmonitored, spool, hand, conns, closed, ended, now, configs, by, written>>
  BY <1>1, <1>2, <1>3 DEF ReplayPush, Serialised, OneOpen
<1>5. batch[r] \in Seq(Frames) /\ Len(batch[r]) <= MaxEntries BY DEF Typed, Serialised
<1>6. /\ f \in Frames /\ b \in Seq(Frames) /\ 1 \in DOMAIN batch[r] /\ f = batch[r][1]
      /\ Len(b) = Len(batch[r]) - 1 /\ Len(batch[r]) \in Nat
      /\ \A i \in DOMAIN b : i + 1 \in DOMAIN batch[r] /\ b[i] = batch[r][i + 1]
  BY <1>1, <1>3, <1>4, <1>5, TailElements
<1>7. Len(b) <= MaxEntries BY <1>5, <1>6, ConstantAssumption
<1>8. /\ rpc' \in [Replayers -> RPCs] /\ batch' \in [Replayers -> Seq(Frames)]
      /\ replayMu' \in Replayers \cup {Nobody}
      /\ \A q \in Replayers : rpc'[q] # "off" => q[1] \in 1..conns'
      /\ \A q \in Replayers : batch'[q] = IF q = r THEN b ELSE <<>>
      /\ Serialised'
      /\ \A q \in Replayers \ {r} : batch[q] = <<>>
  BY <1>4, <1>6, <1>7, ProceedControl
<1>9. /\ k \in Conns /\ queue' = [queue EXCEPT ![k] = Append(@, f)]
      /\ queue' \in [Conns -> Seq(Frames)]
      /\ \A c \in Conns : Len(queue'[c]) <= SendBuffer /\ (c > conns => queue'[c] = <<>>)
      /\ fate' \in [Frames -> Signals!Fates] /\ born' \in [Frames -> 0..MaxTime]
  BY <1>4, <1>6, EnqueuedControl
<1>10. Typed' BY <1>4, <1>6, <1>8, <1>9 DEF Typed
<1>11. OneOpen' BY <1>4, <1>8, <1>9 DEF OneOpen, Busy
<1>12. /\ fate[f] = "held" /\ f \in Frames \ replayed
       /\ \A q \in Producers : Busy(q) => hand[q].frame # f
       /\ \A i \in DOMAIN spool : spool[i].frame # f
       /\ \A c \in Conns \ closed : \A i \in DOMAIN queue[c] : queue[c][i] # f
  BY <1>6, Apart
<1>13. \A i \in DOMAIN b : b[i] \in Frames /\ Older(f, b[i])
  <2>1. ASSUME NEW i \in DOMAIN b PROVE b[i] \in Frames /\ Older(f, b[i])
    <3>1. i \in 1..Len(b) BY <1>6, LenProperties
    <3>2. 1 < i + 1 BY <1>6, <3>1
    <3>3. QED BY <1>6, <3>1, <3>2, ElementOfSeq DEF Flow, WaitInOrder
  <2>2. QED BY <2>1
<1>14. \A q \in Producers : Busy(q)' =>
         Busy(q) /\ hand'[q].frame = hand[q].frame /\ hand[q].frame # f
  BY <1>4, <1>12 DEF Busy
<1>15. ASSUME NEW q \in Replayers
       PROVE  /\ Within(batch'[q], batch[q])
              /\ \A i \in DOMAIN batch'[q] : batch'[q][i] # f
  <2>1. CASE q # r BY <1>8, <2>1, WithinEmpty
  <2>2. CASE q = r
    <3>1. Within(b, batch[r]) BY <1>3, <1>4, <1>5, WithinTail
    <3>2. \A i \in DOMAIN b : b[i] # f 
      <4>1. f \in Nat /\ ~(f < f) BY <1>6, ConstantTypes
      <4>2. QED BY <1>13, <4>1 DEF Older
    <3>3. QED BY <1>8, <2>2, <3>1, <3>2
  <2>3. QED BY <2>1, <2>2
<1>16. Flow'
  <2>1. CASE k \in closed
    <3>1. Become({f}, "broken") BY <1>4, <2>1 DEF Enqueued
    <3>2. QED BY <1>4, <1>9, <1>10, <1>12, <1>14, <1>15, <2>1, <3>1, SwallowedFlow
  <2>2. CASE k \notin closed
    <3>1. UNCHANGED <<fate, born>> BY <1>4, <2>2 DEF Enqueued
    <3>2. f \in Range(batch[r]) BY <1>6 DEF Range
    <3>3. ASSUME NEW g \in Frames, g \in Range(written) \/ g \in Range(queue[k])
          PROVE  Before(g, f)'
      <4>1. /\ \A i \in DOMAIN written : Overtakes(written[i], f)
            /\ \A i \in DOMAIN queue[k] : Overtakes(queue[k][i], f)
        BY <1>6, <1>9, <2>2, <3>2 DEF Flow, OvertakenWait
      <4>2. g # f BY <1>9, <1>12, <2>2, <3>3, Apart DEF Range
      <4>3. Overtakes(g, f) BY <3>3, <4>1 DEF Range
      <4>4. QED BY <1>4, <4>2, <4>3 DEF Overtakes, Before
    <3>4. ASSUME NEW g \in Frames, g \in FramesOf(spool) \/ \E q \in Replayers : g \in Range(batch'[q])
          PROVE  Overtakes(f, g)'
      <4>1. Older(f, g)
        <5>1. CASE g \in FramesOf(spool) BY <1>6, <5>1 DEF FramesOf, Flow, WaitInOrder
        <5>2. CASE \E q \in Replayers : g \in Range(batch'[q])
          <6>1. PICK q \in Replayers : g \in Range(batch'[q]) BY <5>2
          <6>2. PICK i \in DOMAIN batch'[q] : g = batch'[q][i] BY <6>1 DEF Range
          <6>3. q = r BY <1>8, <6>2
          <6>4. QED BY <1>8, <1>13, <6>2, <6>3
        <5>3. QED BY <3>4, <5>1, <5>2
      <4>2. g \in Nat /\ f \in Nat BY <1>6, ConstantTypes
      <4>3. QED BY <1>4, <4>1, <4>2 DEF Older, Overtakes
    <3>5. QED BY <1>4, <1>9, <1>10, <1>12, <1>14, <1>15, <2>2, <3>1, <3>3, <3>4, EnqueuedFlow
  <2>3. QED BY <2>1, <2>2
<1>17. QED BY <1>4, <1>8, <1>10, <1>11, <1>16

----------------------------------------------------------------------------
(* A signal is written. *)

LEMMA PumpWriteInv == ASSUME IInv, NEW k \in Conns, PumpWrite(k) PROVE IInv'
<1> USE DEF IInv, Control, collVars, envVars
<1>1. PICK f : f = Head(queue[k]) OBVIOUS
<1>2. PICK rest : rest = Tail(queue[k]) OBVIOUS
<1>3. /\ k \in 1..conns \ closed /\ queue[k] # <<>> /\ queue' = [queue EXCEPT ![k] = rest]
      /\ Become({f}, "written") /\ written' = Append(written, f)
      /\ UNCHANGED <<cur, unmonitored, spool, replayMu, hand, rpc, batch, conns, closed, ended, now,
                     configs, by, replayed>>
  BY <1>1, <1>2 DEF PumpWrite
<1>4. queue[k] \in Seq(Frames) /\ Len(queue[k]) <= SendBuffer /\ written \in Seq(Frames)
  BY DEF Typed, OneOpen
<1>5. /\ f \in Frames /\ rest \in Seq(Frames) /\ 1 \in DOMAIN queue[k] /\ f = queue[k][1]
      /\ Len(rest) = Len(queue[k]) - 1 /\ Len(queue[k]) \in Nat
      /\ \A i \in DOMAIN rest : i + 1 \in DOMAIN queue[k] /\ rest[i] = queue[k][i + 1]
  BY <1>1, <1>2, <1>3, <1>4, TailElements
<1>6. Len(rest) <= SendBuffer /\ \A i \in DOMAIN rest : i \in Nat /\ 1 < i + 1
  <2>1. DOMAIN rest = 1..Len(rest) BY <1>5, LenProperties
  <2>2. QED BY <1>4, <1>5, <2>1, ConstantAssumption
<1>7. queue' \in [Conns -> Seq(Frames)] /\ \A c \in Conns : queue'[c] = IF c = k THEN rest ELSE queue[c]
  BY <1>3, <1>5 DEF Typed
<1>8. /\ fate' \in [Frames -> Signals!Fates] /\ born' \in [Frames -> 0..MaxTime]
      /\ \A g \in Frames : fate'[g] = IF g = f THEN "written" ELSE fate[g]
      /\ \A g \in Frames : born'[g] = IF g = f THEN 0 ELSE born[g]
  <2>1. "written" \in Signals!Fates /\ {f} \in SUBSET Frames BY <1>5 DEF Signals!Fates
  <2>2. /\ fate' \in [Frames -> Signals!Fates] /\ born' \in [Frames -> 0..MaxTime]
        /\ \A g \in Frames : fate'[g] = IF g \in {f} THEN "written" ELSE fate[g]
        /\ \A g \in Frames :
             born'[g] = IF g \notin {f} THEN born[g] ELSE IF "written" = "held" THEN now ELSE 0
    BY <1>3, <2>1, BecomeType
  <2>3. QED BY <2>2
<1>9. /\ written' \in Seq(Frames) /\ Len(written) \in Nat
      /\ \A i \in DOMAIN written' :
           i \in Nat /\ (\/ i \in DOMAIN written /\ written'[i] = written[i]
                         \/ i = Len(written) + 1 /\ written'[i] = f)
      /\ \A i \in DOMAIN written : i <= Len(written)
  BY <1>3, <1>4, <1>5, AppendElements
<1>10. Typed' BY <1>3, <1>7, <1>8, <1>9 DEF Typed
<1>11. OneOpen'
  <2>1. \A c \in Conns : c > conns => c # k BY <1>3, ConstantAssumption DEF Typed, Conns
  <2>2. QED BY <1>3, <1>6, <1>7, <2>1 DEF OneOpen, Busy
<1>12. Serialised' BY <1>3 DEF Serialised
<1>13. /\ fate[f] = "held"
       /\ \A q \in Producers : Busy(q) => hand[q].frame \in Frames \ {f}
       /\ \A i \in DOMAIN spool : spool[i].frame \in Frames \ {f}
       /\ \A r \in Replayers : \A i \in DOMAIN batch[r] : batch[r][i] \in Frames \ {f}
       /\ \A i \in DOMAIN written : written[i] \in Frames \ {f} /\ fate[written[i]] = "written"
  BY <1>3, <1>5, Apart
<1>14. \A i \in DOMAIN rest : rest[i] \in Frames \ {f}
  BY <1>3, <1>5, <1>6, Apart DEF Flow, NoneTwice
<1>15. ASSUME NEW c \in Conns \ closed, c # k PROVE DOMAIN queue[c] = {} /\ queue'[c] = queue[c]
  <2>1. queue[c] = <<>>
    <3>1. CASE c \in 1..conns BY <1>3, <1>15, <3>1 DEF OneOpen
    <3>2. CASE c \notin 1..conns
      <4>1. c > conns BY <1>15, <3>2, ConstantAssumption DEF Typed, Conns
      <4>2. QED BY <4>1 DEF OneOpen
    <3>3. QED BY <3>1, <3>2
  <2>2. QED BY <1>7, <1>15, <2>1
<1>16. Located'
  <2>1. PICK place \in [Frames -> Places] : At(place) BY DEF Flow, Located
  <2> DEFINE new == [place EXCEPT ![f] = "gone"]
  <2>2. new \in [Frames -> Places] BY DEF Places
  <2>3. \A g \in Frames : new[g] = IF g = f THEN "gone" ELSE place[g] BY <2>1
  <2> HIDE DEF new
  <2>4. \A q \in Producers : Busy(q)' => new[hand'[q].frame] = q
    BY <1>3, <1>13, <2>1, <2>3 DEF At, Busy
  <2>5. \A i \in DOMAIN spool : new[spool[i].frame] = "spool" BY <1>13, <2>1, <2>3 DEF At
  <2>6. \A r \in Replayers : \A i \in DOMAIN batch[r] : new[batch[r][i]] = "batch"
    BY <1>13, <2>1, <2>3 DEF At
  <2>7. ASSUME NEW c \in Conns \ closed, NEW i \in DOMAIN queue'[c]
        PROVE  new[queue'[c][i]] = "queue"
    <3>1. c = k BY <1>15, <2>7
    <3>2. i \in DOMAIN rest /\ queue'[c][i] = rest[i] BY <1>7, <2>7, <3>1
    <3>3. place[rest[i]] = "queue" BY <1>3, <1>5, <2>1, <3>2 DEF At
    <3>4. QED BY <1>14, <2>3, <3>2, <3>3
  <2>8. \A g \in Frames : new[g] # "gone" => fate'[g] = "held" BY <1>8, <2>1, <2>3 DEF At
  <2>9. \A g \in replayed : new[g] \in {"queue", "gone"} /\ fate'[g] # "unseen"
    <3>1. replayed \subseteq Frames BY DEF Typed
    <3>2. QED BY <1>8, <2>1, <2>3, <3>1 DEF At
  <2>10. At(new)' BY <1>3, <2>4, <2>5, <2>6, <2>7, <2>8, <2>9 DEF At
  <2>11. QED BY <2>2, <2>10 DEF Located
<1>17. NoneTwice'
  <2>1. ASSUME NEW i \in DOMAIN rest, NEW j \in DOMAIN rest, i # j PROVE rest[i] # rest[j]
    <3>1. i + 1 # j + 1 BY <1>6, <2>1
    <3>2. QED BY <1>3, <1>5, <3>1 DEF Flow, NoneTwice
  <2>2. QED BY <1>3, <1>7, <1>15, <2>1 DEF NoneTwice
<1>18. SpoolKept'
  <2>1. FitsCaps(spool)' BY <1>3 DEF Flow, SpoolKept, FitsCaps, Bytes, FramesOf
  <2>2. 0 <= now BY ConstantAssumption DEF Typed
  <2>3. QED BY <1>3, <1>8, <1>13, <2>1, <2>2 DEF Flow, SpoolKept
<1>19. LastInHand'
  <2>1. \A g \in Frames : fate'[g] # "unseen" <=> fate[g] # "unseen" BY <1>8, <1>13
  <2>2. QED BY <1>3, <2>1 DEF Flow, LastInHand, Busy
<1>20. InOrder'
  <2>1. /\ \A i, j \in DOMAIN written : i < j => Before(written[i], written[j])
        /\ \A i \in DOMAIN written, j \in DOMAIN queue[k] : Before(written[i], queue[k][j])
        /\ \A i, j \in DOMAIN queue[k] : i < j => Before(queue[k][i], queue[k][j])
    BY <1>3 DEF Flow, InOrder
  <2>2. ASSUME NEW i \in DOMAIN written' PROVE fate'[written'[i]] = "written"
    <3>1. CASE i \in DOMAIN written /\ written'[i] = written[i] BY <1>8, <1>13, <3>1
    <3>2. CASE written'[i] = f BY <1>5, <1>8, <3>2
    <3>3. QED BY <1>9, <3>1, <3>2
  <2>3. ASSUME NEW i \in DOMAIN written', NEW j \in DOMAIN written', i < j
        PROVE  Before(written'[i], written'[j])
    <3>1. i \in DOMAIN written /\ written'[i] = written[i] BY <1>9, <2>3
    <3>2. CASE j \in DOMAIN written /\ written'[j] = written[j] BY <2>1, <2>3, <3>1, <3>2
    <3>3. CASE written'[j] = f BY <1>5, <2>1, <3>1, <3>3
    <3>4. QED BY <1>9, <3>2, <3>3
  <2>4. ASSUME NEW i \in DOMAIN written', NEW j \in DOMAIN rest PROVE Before(written'[i], rest[j])
    <3>1. j + 1 \in DOMAIN queue[k] /\ rest[j] = queue[k][j + 1] /\ 1 < j + 1 BY <1>5, <1>6
    <3>2. CASE i \in DOMAIN written /\ written'[i] = written[i] BY <2>1, <3>1, <3>2
    <3>3. CASE written'[i] = f BY <1>5, <2>1, <3>1, <3>3
    <3>4. QED BY <1>9, <3>2, <3>3
  <2>5. ASSUME NEW i \in DOMAIN rest, NEW j \in DOMAIN rest, i < j PROVE Before(rest[i], rest[j])
    <3>1. i + 1 < j + 1 BY <1>6, <2>5
    <3>2. QED BY <1>5, <2>1, <3>1
  <2>6. QED BY <1>3, <1>7, <1>15, <2>2, <2>3, <2>4, <2>5 DEF InOrder, Before
<1>21. WaitInOrder' BY <1>3 DEF Flow, WaitInOrder, Older
<1>22. OvertakenWait'
  <2> SUFFICES ASSUME NEW g \in Frames,
                      g \in FramesOf(spool) \/ \E r \in Replayers : g \in Range(batch[r])
               PROVE  /\ \A i \in DOMAIN written' : Overtakes(written'[i], g)
                      /\ \A c \in Conns \ closed :
                           \A i \in DOMAIN queue'[c] : Overtakes(queue'[c][i], g)
    BY <1>3 DEF OvertakenWait, FramesOf, Range, Overtakes
  <2>1. /\ \A i \in DOMAIN written : Overtakes(written[i], g)
        /\ \A i \in DOMAIN queue[k] : Overtakes(queue[k][i], g)
    BY <1>3 DEF Flow, OvertakenWait
  <2>2. \A i \in DOMAIN written' : Overtakes(written'[i], g) BY <1>5, <1>9, <2>1
  <2>3. \A i \in DOMAIN rest : Overtakes(rest[i], g) BY <1>5, <2>1
  <2>4. QED BY <1>7, <1>15, <2>2, <2>3
<1>23. Accounted'
  <2>1. PICK lost \in [Conns -> 0..MaxFrames] : Took(lost) BY DEF Flow, Accounted
  <2>2. \A c \in closed : queue'[c] = queue[c] BY <1>3, <1>7 DEF Typed
  <2>3. Took(lost)' BY <1>3, <1>8, <2>1, <2>2 DEF Took
  <2>4. QED BY <2>1, <2>3 DEF Accounted
<1>24. Flow'
  BY <1>16, <1>17, <1>18, <1>19, <1>20, <1>21, <1>22, <1>23 DEF Flow
<1>25. QED BY <1>3, <1>10, <1>11, <1>12, <1>24

----------------------------------------------------------------------------
(* Signals enter the spool. *)

LEMMA StoreWithin ==
  ASSUME NEW s \in Seq(Entries)
  PROVE  /\ Within(EnforceCaps(s), s)
         /\ FramesOf(EnforceCaps(s)) \subseteq FramesOf(s)
<1>1. PICK n \in Nat : \A i \in DOMAIN EnforceCaps(s) :
                         i + n \in DOMAIN s /\ EnforceCaps(s)[i] = s[i + n]
  BY EnforceCapsSuffix
<1>2. EnforceCaps(s) \in Seq(Entries) BY EnforceCapsSuffix
<1>3. DOMAIN EnforceCaps(s) \subseteq Nat BY <1>2, LenProperties
<1>4. ASSUME NEW i \in DOMAIN EnforceCaps(s), NEW j \in DOMAIN EnforceCaps(s), i < j
      PROVE  \E a, b \in DOMAIN s : a < b /\ EnforceCaps(s)[i] = s[a] /\ EnforceCaps(s)[j] = s[b]
  <2>1. i + n < j + n BY <1>3, <1>4
  <2>2. QED BY <1>1, <2>1
<1>5. Within(EnforceCaps(s), s) BY <1>1, <1>4 DEF Within
<1>6. QED BY <1>5 DEF Within, FramesOf

LEMMA StoreType ==
  ASSUME Typed, NEW s \in Seq(Entries), Store(s)
  PROVE  /\ spool' \in Seq(Entries) /\ fate' \in [Frames -> Signals!Fates]
         /\ born' \in [Frames -> 0..MaxTime]
<1>1. PICK D : D = FramesOf(s) \ FramesOf(EnforceCaps(s)) OBVIOUS
<1>2. "evicted" \in Signals!Fates /\ D \in SUBSET Frames BY <1>1, FramesOfType DEF Signals!Fates
<1>3. spool' = EnforceCaps(s) /\ Become(D, "evicted") BY <1>1 DEF Store
<1>4. QED BY <1>2, <1>3, BecomeType, EnforceCapsSuffix

\* The spool becomes s, which holds what it held and more, as far as it fits.
LEMMA StoreFlow ==
  ASSUME Control, Flow, Typed', NEW s \in Seq(Entries), Store(s),
         UNCHANGED <<queue, closed, now, by, replayed, written>>,
         \A q \in Producers : Busy(q)' =>
           Busy(q) /\ hand'[q].frame = hand[q].frame /\ hand[q].frame \notin FramesOf(s),
         \A r \in Replayers : /\ batch'[r] \in {batch[r], <<>>}
                              /\ \A i \in DOMAIN batch'[r] : batch'[r][i] \notin FramesOf(s),
         \A g \in FramesOf(s) :
           /\ fate[g] = "held" /\ g \notin replayed
           /\ \A k \in Conns \ closed : \A i \in DOMAIN queue[k] : queue[k][i] # g
           /\ \A i \in DOMAIN written : Overtakes(written[i], g)
           /\ \A k \in Conns \ closed : \A i \in DOMAIN queue[k] : Overtakes(queue[k][i], g),
         \A i, j \in DOMAIN s : i < j => Older(s[i].frame, s[j].frame),
         \A r \in Replayers : \A i \in DOMAIN batch'[r], j \in DOMAIN s :
           Older(batch'[r][i], s[j].frame),
         \A i \in DOMAIN s : born[s[i].frame] <= s[i].at /\ s[i].at <= now
  PROVE  Flow'
<1> USE DEF Control
<1>1. PICK t : t = EnforceCaps(s) OBVIOUS
<1>2. PICK D : D = FramesOf(s) \ FramesOf(t) OBVIOUS
<1>3. PICK G : G = FramesOf(s) OBVIOUS
<1>4. spool' = t /\ Become(D, "evicted") BY <1>1, <1>2 DEF Store
<1>5. /\ t \in Seq(Entries) /\ FitsCaps(t) /\ Within(t, s) /\ FramesOf(t) \subseteq G
  BY <1>1, <1>3, EnforceCapsSuffix, StoreWithin
<1>6. G \in SUBSET Frames /\ D \subseteq G /\ \A i \in DOMAIN s : s[i].frame \in G
  BY <1>2, <1>3, FramesOfType
<1>7. \A i \in DOMAIN t : t[i].frame \in G \ D BY <1>2, <1>5, FramesOfType
<1>8. /\ \A g \in Frames : fate'[g] = IF g \in D THEN "evicted" ELSE fate[g]
      /\ \A g \in Frames :
           born'[g] = IF g \notin D THEN born[g] ELSE IF "evicted" = "held" THEN now ELSE 0
  <2>1. "evicted" \in Signals!Fates /\ D \in SUBSET Frames BY <1>6 DEF Signals!Fates
  <2>2. QED BY <1>4, <2>1, BecomeType
<1>9. \A g \in Frames : born'[g] = IF g \in D THEN 0 ELSE born[g] BY <1>8
<1>10. Located'
  <2>1. PICK place \in [Frames -> Places] : At(place) BY DEF Flow, Located
  <2> DEFINE new ==
               [g \in Frames |-> IF g \in D THEN "gone" ELSE IF g \in G THEN "spool" ELSE place[g]]
  <2>2. new \in [Frames -> Places] BY DEF Places
  <2>3. \A g \in Frames :
          new[g] = IF g \in D THEN "gone" ELSE IF g \in G THEN "spool" ELSE place[g]
    OBVIOUS
  <2> HIDE DEF new
  <2>4. ASSUME NEW q \in Producers, Busy(q)' PROVE new[hand'[q].frame] = q
    <3>1. Busy(q) /\ hand'[q].frame = hand[q].frame /\ hand[q].frame \in Frames \ G
      BY <1>3, <2>4 DEF OneOpen
    <3>2. QED BY <1>6, <2>1, <2>3, <3>1 DEF At
  <2>5. \A i \in DOMAIN t : new[t[i].frame] = "spool" BY <1>6, <1>7, <2>3
  <2>6. ASSUME NEW r \in Replayers, NEW i \in DOMAIN batch'[r] PROVE new[batch'[r][i]] = "batch"
    <3>1. batch'[r] = batch[r] \/ DOMAIN batch'[r] = {} OBVIOUS
    <3>2. place[batch'[r][i]] = "batch" /\ batch'[r][i] \in Frames \ G
      BY <1>3, <2>1, <2>6, <3>1, ElementTypes DEF At
    <3>3. QED BY <1>6, <2>3, <3>2
  <2>7. \A k \in Conns \ closed : \A i \in DOMAIN queue[k] : new[queue[k][i]] = "queue"
    BY <1>3, <1>6, <2>1, <2>3, ElementTypes DEF At
  <2>8. \A g \in Frames : new[g] # "gone" => fate'[g] = "held" BY <1>3, <1>8, <2>1, <2>3 DEF At
  <2>9. ASSUME NEW g \in replayed PROVE new[g] \in {"queue", "gone"} /\ fate'[g] # "unseen"
    <3>1. g \in Frames \ G BY <1>3 DEF Typed
    <3>2. QED BY <1>6, <1>8, <2>1, <2>3, <3>1 DEF At
  <2>10. At(new)' BY <1>4, <2>4, <2>5, <2>6, <2>7, <2>8, <2>9 DEF At
  <2>11. QED BY <2>2, <2>10 DEF Located
<1>11. NoneTwice' BY DEF Flow, NoneTwice
<1>12. SpoolKept'
  <2>1. FitsCaps(spool)' BY <1>4, <1>5 DEF FitsCaps, Bytes, FramesOf
  <2>2. ASSUME NEW i \in DOMAIN t PROVE born'[t[i].frame] <= t[i].at /\ t[i].at <= now
    <3>1. born[t[i].frame] <= t[i].at /\ t[i].at <= now BY <1>5 DEF Within
    <3>2. QED BY <1>6, <1>7, <1>9, <3>1
  <2>3. \A g \in Frames : born'[g] <= now
    <3>1. 0 <= now BY ConstantAssumption DEF Typed
    <3>2. \A g \in Frames : born[g] <= now BY DEF Flow, SpoolKept
    <3>3. QED BY <1>9, <3>1, <3>2
  <2>4. QED BY <1>4, <2>1, <2>2, <2>3 DEF SpoolKept
<1>13. LastInHand'
  <2>1. \A g \in Frames : fate'[g] # "unseen" <=> fate[g] # "unseen" BY <1>3, <1>6, <1>8
  <2>2. QED BY <2>1 DEF Flow, LastInHand
<1>14. InOrder'
  <2>1. \A i \in DOMAIN written : written[i] \in Frames /\ fate[written[i]] = "written"
    BY ElementTypes DEF Flow, InOrder
  <2>2. \A i \in DOMAIN written : fate'[written[i]] = "written" BY <1>3, <1>6, <1>8, <2>1
  <2>3. QED BY <2>2 DEF Flow, InOrder, Before
<1>15. WaitInOrder'
  <2>1. \A i, j \in DOMAIN t : i < j => Older(t[i].frame, t[j].frame) BY <1>5 DEF Within
  <2>2. ASSUME NEW r \in Replayers
        PROVE  /\ \A i, j \in DOMAIN batch'[r] : i < j => Older(batch'[r][i], batch'[r][j])
               /\ \A i \in DOMAIN batch'[r], j \in DOMAIN t : Older(batch'[r][i], t[j].frame)
    <3>1. batch'[r] = batch[r] \/ DOMAIN batch'[r] = {} OBVIOUS
    <3>2. QED BY <1>5, <3>1 DEF Flow, WaitInOrder, Within
  <2>3. QED BY <1>4, <2>1, <2>2 DEF WaitInOrder, Older
<1>16. OvertakenWait'
  <2> SUFFICES ASSUME NEW g \in Frames,
                      g \in FramesOf(t) \/ \E r \in Replayers : g \in Range(batch'[r])
               PROVE  /\ \A i \in DOMAIN written : Overtakes(written[i], g)
                      /\ \A k \in Conns \ closed :
                           \A i \in DOMAIN queue[k] : Overtakes(queue[k][i], g)
    BY <1>4 DEF OvertakenWait, FramesOf, Range, Overtakes
  <2>1. CASE g \in FramesOf(t) BY <1>3, <1>5, <2>1
  <2>2. CASE \E r \in Replayers : g \in Range(batch'[r])
    <3>1. PICK r \in Replayers : g \in Range(batch'[r]) BY <2>2
    <3>2. batch'[r] = batch[r] \/ DOMAIN batch'[r] = {} OBVIOUS
    <3>3. g \in Range(batch[r]) BY <3>1, <3>2 DEF Range
    <3>4. QED BY <3>3 DEF Flow, OvertakenWait
  <2>3. QED BY <2>1, <2>2
<1>17. Accounted'
  <2>1. PICK lost \in [Conns -> 0..MaxFrames] : Took(lost) BY DEF Flow, Accounted
  <2>2. Took(lost)' BY <1>8, <2>1 DEF Took
  <2>3. QED BY <2>1, <2>2 DEF Accounted
<1>18. QED
  BY <1>10, <1>11, <1>12, <1>13, <1>14, <1>15, <1>16, <1>17 DEF Flow

\* What the spool would be, caps aside: all of it is held, in order.
Stored(s) ==
  /\ s \in Seq(Entries)
  /\ \A i \in DOMAIN s : fate[s[i].frame] = "held" /\ s[i].frame \in Frames
  /\ \A i, j \in DOMAIN s : i < j => Older(s[i].frame, s[j].frame)
  /\ \A i \in DOMAIN s : born[s[i].frame] <= s[i].at /\ s[i].at <= now

\* spool.add: the frame is younger than all that wait.
LEMMA AddStored ==
  ASSUME IInv, NEW p \in Producers, Busy(p),
         NEW s, s = Append(spool, [frame |-> hand[p].frame, at |-> now])
  PROVE  /\ Stored(s) /\ FramesOf(s) = FramesOf(spool) \cup {hand[p].frame}
         /\ \A r \in Replayers : \A i \in DOMAIN batch[r], j \in DOMAIN s :
              Older(batch[r][i], s[j].frame)
<1> USE DEF IInv, Control
<1>1. PICK f : f = hand[p].frame OBVIOUS
<1>2. PICK e : e = [frame |-> f, at |-> now] OBVIOUS
<1>3. f \in Frames /\ now \in 0..MaxTime /\ spool \in Seq(Entries) BY <1>1 DEF Typed, OneOpen
<1>4. e \in Entries /\ e.frame = f /\ e.at = now BY <1>2, <1>3 DEF Entries
<1>5. /\ s \in Seq(Entries) /\ Len(spool) \in Nat
      /\ \A i \in DOMAIN s :
           i \in Nat /\ (\/ i \in DOMAIN spool /\ s[i] = spool[i]
                         \/ i = Len(spool) + 1 /\ s[i] = e)
      /\ \A i \in DOMAIN spool : i <= Len(spool) /\ i \in DOMAIN s /\ s[i] = spool[i]
      /\ Len(spool) + 1 \in DOMAIN s /\ s[Len(spool) + 1] = e
  <2>1. s = Append(spool, e) BY <1>1, <1>2
  <2>2. QED BY <1>3, <1>4, <2>1, AppendElements
<1>6. /\ fate[f] = "held"
      /\ \A i \in DOMAIN spool : /\ spool[i].frame # f /\ fate[spool[i].frame] = "held"
                                 /\ spool[i].frame \in Frames
      /\ \A r \in Replayers : \A i \in DOMAIN batch[r] :
           batch[r][i] # f /\ fate[batch[r][i]] = "held" /\ batch[r][i] \in Frames
  BY <1>1, Apart
<1>7. ASSUME NEW g \in Frames, g # f, fate[g] = "held" PROVE Older(g, f)
  <2>1. g \in Nat /\ f \in Nat BY <1>3, ConstantTypes
  <2>2. by[g] = by[f] => g <= f BY <1>1, <1>7 DEF Flow, LastInHand
  <2>3. QED BY <1>7, <2>1, <2>2 DEF Older
<1>8. ASSUME NEW i \in DOMAIN s PROVE fate[s[i].frame] = "held" /\ s[i].frame \in Frames
  BY <1>3, <1>4, <1>5, <1>6
<1>9. ASSUME NEW i \in DOMAIN s, NEW j \in DOMAIN s, i < j PROVE Older(s[i].frame, s[j].frame)
  <2>1. i \in DOMAIN spool /\ s[i] = spool[i] BY <1>5, <1>9
  <2>2. CASE j \in DOMAIN spool /\ s[j] = spool[j]
    BY <1>9, <2>1, <2>2 DEF Flow, WaitInOrder
  <2>3. CASE s[j] = e BY <1>4, <1>6, <1>7, <2>1, <2>3
  <2>4. QED BY <1>5, <2>2, <2>3
<1>10. ASSUME NEW i \in DOMAIN s PROVE born[s[i].frame] <= s[i].at /\ s[i].at <= now
  <2>1. born[f] <= now /\ now <= now BY <1>3 DEF Flow, SpoolKept
  <2>2. CASE i \in DOMAIN spool /\ s[i] = spool[i] BY <2>2 DEF Flow, SpoolKept
  <2>3. CASE s[i] = e BY <1>4, <2>1, <2>3
  <2>4. QED BY <1>5, <2>2, <2>3
<1>11. FramesOf(s) = FramesOf(spool) \cup {f}
  <2>1. ASSUME NEW g \in FramesOf(s) PROVE g \in FramesOf(spool) \cup {f}
    BY <1>4, <1>5 DEF FramesOf
  <2>2. ASSUME NEW g \in FramesOf(spool) \cup {f} PROVE g \in FramesOf(s)
    <3>1. CASE g \in FramesOf(spool)
      <4>1. PICK i \in DOMAIN spool : g = spool[i].frame BY <3>1 DEF FramesOf
      <4>2. i \in DOMAIN s /\ g = s[i].frame BY <1>5, <4>1
      <4>3. QED BY <4>2 DEF FramesOf
    <3>2. CASE g = f BY <1>4, <1>5, <3>2 DEF FramesOf
    <3>3. QED BY <3>1, <3>2
  <2>3. QED BY <2>1, <2>2
<1>12. ASSUME NEW r \in Replayers, NEW i \in DOMAIN batch[r], NEW j \in DOMAIN s
       PROVE  Older(batch[r][i], s[j].frame)
  <2>1. CASE j \in DOMAIN spool /\ s[j] = spool[j] BY <2>1 DEF Flow, WaitInOrder
  <2>2. CASE s[j] = e BY <1>4, <1>6, <1>7, <2>2
  <2>3. QED BY <1>5, <2>1, <2>2
<1>13. Stored(s) BY <1>5, <1>8, <1>9, <1>10 DEF Stored
<1>14. QED BY <1>1, <1>11, <1>12, <1>13

\* unshift: what was not sent is older than what came in meanwhile.
LEMMA UnshiftStored ==
  ASSUME IInv, NEW r \in Replayers, NEW s, s = Unshift(batch[r])
  PROVE  Stored(s) /\ FramesOf(s) = FramesOf(spool) \cup Range(batch[r])
<1> USE DEF IInv, Control
<1>1. PICK b : b = batch[r] OBVIOUS
<1>2. PICK h : h = [i \in DOMAIN b |-> [frame |-> b[i], at |-> now]] OBVIOUS
<1>3. /\ b \in Seq(Frames) /\ now \in 0..MaxTime /\ spool \in Seq(Entries)
      /\ Len(b) \in Nat /\ DOMAIN b = 1..Len(b) /\ Len(spool) \in Nat /\ DOMAIN spool = 1..Len(spool)
  <2>1. b \in Seq(Frames) /\ now \in 0..MaxTime /\ spool \in Seq(Entries) BY <1>1 DEF Typed
  <2>2. QED BY <2>1, LenProperties
<1>4. /\ h \in Seq(Entries) /\ Len(h) = Len(b) /\ DOMAIN h = DOMAIN b
      /\ \A i \in DOMAIN b : h[i].frame = b[i] /\ h[i].at = now
  <2>1. ASSUME NEW i \in DOMAIN b PROVE [frame |-> b[i], at |-> now] \in Entries
    BY <1>3, ElementOfSeq DEF Entries
  <2>2. h \in [1..Len(b) -> Entries] BY <1>2, <1>3, <2>1
  <2>3. h \in Seq(Entries) BY <1>3, <2>2
  <2>4. Len(h) = Len(b) BY <1>3, <2>2, <2>3, LenProperties
  <2>5. QED BY <1>2, <1>3, <2>3, <2>4
<1>5. s = h \o spool BY <1>1, <1>2 DEF Unshift
<1>6. /\ s \in Seq(Entries) /\ DOMAIN s = 1..(Len(b) + Len(spool))
      /\ \A i \in 1..(Len(b) + Len(spool)) : s[i] = IF i <= Len(b) THEN h[i] ELSE spool[i - Len(b)]
  <2>1. /\ s \in Seq(Entries) /\ Len(s) = Len(h) + Len(spool)
        /\ \A i \in 1..(Len(h) + Len(spool)) : s[i] = IF i <= Len(h) THEN h[i] ELSE spool[i - Len(h)]
    <3>1. /\ h \o spool \in Seq(Entries) /\ Len(h \o spool) = Len(h) + Len(spool)
          /\ \A i \in 1..Len(h) + Len(spool) :
               (h \o spool)[i] = IF i <= Len(h) THEN h[i] ELSE spool[i - Len(h)]
      <4>1. h \in Seq(Entries) /\ spool \in Seq(Entries) BY <1>3, <1>4
      <4>2. QED BY <4>1, ConcatProperties, ZenonT(30)
    <3>2. QED BY <1>5, <3>1, Zenon
  <2>2. DOMAIN s = 1..Len(s) BY <2>1, LenProperties
  <2>3. QED BY <1>4, <2>1, <2>2
<1>7. ASSUME NEW i \in DOMAIN s
      PROVE  /\ i \in Nat
             /\ \/ i \in DOMAIN b /\ s[i] = h[i]
                \/ i > Len(b) /\ i - Len(b) \in DOMAIN spool /\ s[i] = spool[i - Len(b)]
  <2>1. i \in Nat /\ 1 <= i /\ i <= Len(b) + Len(spool) BY <1>3, <1>6
  <2>2. CASE i <= Len(b) BY <1>3, <1>6, <2>1, <2>2
  <2>3. CASE ~(i <= Len(b))
    <3>1. i > Len(b) /\ i - Len(b) \in 1..Len(spool) BY <1>3, <2>1, <2>3
    <3>2. QED BY <1>3, <1>6, <2>1, <2>3, <3>1
  <2>4. QED BY <2>2, <2>3
<1>8. /\ \A i \in DOMAIN spool : fate[spool[i].frame] = "held" /\ spool[i].frame \in Frames
      /\ \A i \in DOMAIN b : fate[b[i]] = "held" /\ b[i] \in Frames
  BY <1>1, Apart
<1>9. ASSUME NEW i \in DOMAIN s PROVE fate[s[i].frame] = "held" /\ s[i].frame \in Frames
  BY <1>4, <1>7, <1>8
<1>10. ASSUME NEW i \in DOMAIN s, NEW j \in DOMAIN s, i < j PROVE Older(s[i].frame, s[j].frame)
  <2>1. CASE j \in DOMAIN b /\ s[j] = h[j]
    <3>1. i \in DOMAIN b /\ s[i] = h[i] BY <1>3, <1>7, <1>10, <2>1
    <3>2. Older(b[i], b[j]) BY <1>1, <1>10, <2>1, <3>1 DEF Flow, WaitInOrder
    <3>3. QED BY <1>4, <2>1, <3>1, <3>2
  <2>2. CASE j > Len(b) /\ j - Len(b) \in DOMAIN spool /\ s[j] = spool[j - Len(b)]
    <3>1. CASE i \in DOMAIN b /\ s[i] = h[i]
      <4>1. Older(b[i], spool[j - Len(b)].frame) BY <1>1, <2>2, <3>1 DEF Flow, WaitInOrder
      <4>2. QED BY <1>4, <2>2, <3>1, <4>1
    <3>2. CASE i > Len(b) /\ i - Len(b) \in DOMAIN spool /\ s[i] = spool[i - Len(b)]
      <4>1. i - Len(b) < j - Len(b) BY <1>3, <1>7, <1>10
      <4>2. Older(spool[i - Len(b)].frame, spool[j - Len(b)].frame)
        BY <2>2, <3>2, <4>1 DEF Flow, WaitInOrder
      <4>3. QED BY <2>2, <3>2, <4>2
    <3>3. QED BY <1>7, <3>1, <3>2
  <2>3. QED BY <1>7, <2>1, <2>2
<1>11. ASSUME NEW i \in DOMAIN s PROVE born[s[i].frame] <= s[i].at /\ s[i].at <= now
  <2>1. \A g \in Frames : born[g] <= now BY DEF Flow, SpoolKept
  <2>2. now <= now BY <1>3
  <2>3. CASE i \in DOMAIN b /\ s[i] = h[i] BY <1>4, <1>8, <2>1, <2>2, <2>3
  <2>4. CASE i - Len(b) \in DOMAIN spool /\ s[i] = spool[i - Len(b)] BY <2>4 DEF Flow, SpoolKept
  <2>5. QED BY <1>7, <2>3, <2>4
<1>12. FramesOf(s) = FramesOf(spool) \cup Range(b)
  <2>1. ASSUME NEW g \in FramesOf(s) PROVE g \in FramesOf(spool) \cup Range(b)
    <3>1. PICK i \in DOMAIN s : g = s[i].frame BY <2>1 DEF FramesOf
    <3>2. CASE i \in DOMAIN b /\ s[i] = h[i] BY <1>4, <3>1, <3>2 DEF Range
    <3>3. CASE i - Len(b) \in DOMAIN spool /\ s[i] = spool[i - Len(b)] BY <3>1, <3>3 DEF FramesOf
    <3>4. QED BY <1>7, <3>2, <3>3
  <2>2. ASSUME NEW i \in DOMAIN b PROVE i \in DOMAIN s /\ s[i].frame = b[i]
    <3>1. i \in 1..(Len(b) + Len(spool)) /\ i <= Len(b) BY <1>3, <2>2
    <3>2. QED BY <1>4, <1>6, <2>2, <3>1
  <2>3. ASSUME NEW i \in DOMAIN spool PROVE i + Len(b) \in DOMAIN s /\ s[i + Len(b)] = spool[i]
    <3>1. /\ i \in Nat /\ i + Len(b) \in 1..(Len(b) + Len(spool)) /\ ~(i + Len(b) <= Len(b))
          /\ (i + Len(b)) - Len(b) = i
      BY <1>3, <2>3
    <3>2. QED BY <1>6, <3>1
  <2>4. QED BY <2>1, <2>2, <2>3 DEF FramesOf, Range
<1>13. QED BY <1>1, <1>6, <1>9, <1>10, <1>11, <1>12 DEF Stored

LEMMA SpoolAddInv == ASSUME IInv, NEW p \in Producers, SpoolAdd(p) PROVE IInv'
<1> USE DEF IInv, Control, connVars, envVars
<1>1. PICK s : s = Append(spool, [frame |-> hand[p].frame, at |-> now]) OBVIOUS
<1>2. PICK f : f = hand[p].frame OBVIOUS
<1>3. /\ Busy(p) /\ Store(s) /\ Kept(p)
      /\ UNCHANGED <<cur, unmonitored, replayMu, rpc, batch, conns, queue, closed, ended, now,
                     configs, by, replayed, written>>
  BY <1>1 DEF SpoolAdd, Busy
<1>4. /\ hand' \in [Producers -> Hands] /\ ~Busy(p)' /\ hand'[p].pc # "push"
      /\ hand'[p].conn \in 0..conns
      /\ \A q \in Producers : q # p => hand'[q] = hand[q] /\ Busy(q)' = Busy(q)
  BY <1>3, KeptHand
<1>5. /\ Stored(s) /\ FramesOf(s) = FramesOf(spool) \cup {f}
      /\ \A r \in Replayers : \A i \in DOMAIN batch[r], j \in DOMAIN s :
           Older(batch[r][i], s[j].frame)
  BY <1>1, <1>2, <1>3, AddStored
<1>6. spool' \in Seq(Entries) /\ fate' \in [Frames -> Signals!Fates] /\ born' \in [Frames -> 0..MaxTime]
  BY <1>3, <1>5, StoreType DEF Stored
<1>7. Typed' BY <1>3, <1>4, <1>6 DEF Typed
<1>8. OneOpen' BY <1>3, <1>4 DEF OneOpen
<1>9. Serialised' BY <1>3 DEF Serialised
<1>10. /\ fate[f] = "held" /\ f \in Frames \ replayed
       /\ \A q \in Producers : Busy(q) /\ q # p => hand[q].frame \notin FramesOf(s)
       /\ \A r \in Replayers : \A i \in DOMAIN batch[r] : batch[r][i] \notin FramesOf(s)
       /\ \A k \in Conns \ closed : \A i \in DOMAIN queue[k] : queue[k][i] \notin FramesOf(s)
  <2>1. /\ fate[f] = "held" /\ f \in Frames \ replayed
        /\ \A q \in Producers : Busy(q) /\ q # p => hand[q].frame # f
        /\ \A r \in Replayers : \A i \in DOMAIN batch[r] : batch[r][i] # f
        /\ \A k \in Conns \ closed : \A i \in DOMAIN queue[k] : queue[k][i] # f
    BY <1>2, <1>3, Apart
  <2>2. /\ \A q \in Producers : Busy(q) => hand[q].frame \notin FramesOf(spool)
        /\ \A r \in Replayers : \A i \in DOMAIN batch[r] : batch[r][i] \notin FramesOf(spool)
        /\ \A k \in Conns \ closed : \A i \in DOMAIN queue[k] : queue[k][i] \notin FramesOf(spool)
    BY Apart DEF FramesOf
  <2>3. QED BY <1>5, <2>1, <2>2
<1>11. \A g \in FramesOf(s) : fate[g] = "held" /\ g \in Frames \ replayed
  BY <1>5, <1>10, Apart DEF FramesOf
<1>12. /\ \A i \in DOMAIN written : Overtakes(written[i], f)
       /\ \A k \in Conns \ closed : \A i \in DOMAIN queue[k] : Overtakes(queue[k][i], f)
  <2>1. ASSUME NEW g \in Frames, fate[g] # "unseen" PROVE Overtakes(g, f)
    <3>1. g \in Nat /\ f \in Nat BY <1>10, ConstantTypes
    <3>2. by[g] = by[f] => g <= f BY <1>2, <1>3, <2>1 DEF Flow, LastInHand
    <3>3. QED BY <3>1, <3>2 DEF Overtakes
  <2>2. QED BY <2>1, Apart
<1>13. \A g \in FramesOf(s) :
         /\ \A i \in DOMAIN written : Overtakes(written[i], g)
         /\ \A k \in Conns \ closed : \A i \in DOMAIN queue[k] : Overtakes(queue[k][i], g)
  <2>1. FramesOf(spool) \subseteq Frames BY FramesOfType DEF Typed
  <2>2. QED BY <1>5, <1>12, <2>1 DEF Flow, OvertakenWait
<1>14. /\ \A q \in Producers : Busy(q)' =>
            Busy(q) /\ hand'[q].frame = hand[q].frame /\ hand[q].frame \notin FramesOf(s)
       /\ \A r \in Replayers : batch'[r] = batch[r]
  BY <1>3, <1>4, <1>10
<1>15. Flow' BY <1>3, <1>5, <1>7, <1>10, <1>11, <1>13, <1>14, StoreFlow DEF Stored
<1>16. QED BY <1>3, <1>7, <1>8, <1>9, <1>15

LEMMA ReplayUnshiftInv == ASSUME IInv, NEW r \in Replayers, ReplayUnshift(r) PROVE IInv'
<1> USE DEF IInv, Control, connVars, envVars
<1>1. PICK s : s = Unshift(batch[r]) OBVIOUS
<1>2. /\ rpc[r] # "off" /\ replayMu = r /\ replayMu' = Nobody /\ Returns(r) /\ Store(s)
      /\ batch' = [batch EXCEPT ![r] = <<>>]
      /\ UNCHANGED <<cur, unmonitored, hand, conns, queue, closed, ended, now, configs, by,
                     replayed, written>>
  BY <1>1 DEF ReplayUnshift, Serialised
<1>3. /\ batch' \in [Replayers -> Seq(Frames)]
      /\ \A q \in Replayers : batch'[q] = IF q = r THEN <<>> ELSE batch[q]
  BY <1>2, EmptySeq DEF Typed
<1>4. /\ rpc' \in [Replayers -> RPCs]
      /\ \A q \in Replayers : rpc'[q] # "off" => q[1] \in 1..conns'
      /\ Serialised'
  BY <1>2, <1>3, ReturnsControl
<1>5. \A q \in Replayers : batch'[q] = <<>> BY <1>2, <1>3 DEF Serialised
<1>6. Stored(s) /\ FramesOf(s) = FramesOf(spool) \cup Range(batch[r]) BY <1>1, UnshiftStored
<1>7. spool' \in Seq(Entries) /\ fate' \in [Frames -> Signals!Fates] /\ born' \in [Frames -> 0..MaxTime]
  BY <1>2, <1>6, StoreType DEF Stored
<1>8. Typed' BY <1>2, <1>3, <1>4, <1>7 DEF Typed
<1>9. OneOpen' BY <1>2, <1>4 DEF OneOpen, Busy
<1>10. /\ \A q \in Producers : Busy(q) => hand[q].frame \notin FramesOf(s)
       /\ \A k \in Conns \ closed : \A i \in DOMAIN queue[k] : queue[k][i] \notin FramesOf(s)
       /\ \A g \in FramesOf(s) : fate[g] = "held" /\ g \in Frames \ replayed
  <2>1. /\ \A q \in Producers : Busy(q) => hand[q].frame \notin FramesOf(spool)
        /\ \A k \in Conns \ closed : \A i \in DOMAIN queue[k] : queue[k][i] \notin FramesOf(spool)
        /\ \A g \in FramesOf(spool) : fate[g] = "held" /\ g \in Frames \ replayed
    BY Apart DEF FramesOf
  <2>2. /\ \A q \in Producers : Busy(q) => hand[q].frame \notin Range(batch[r])
        /\ \A k \in Conns \ closed : \A i \in DOMAIN queue[k] : queue[k][i] \notin Range(batch[r])
        /\ \A g \in Range(batch[r]) : fate[g] = "held" /\ g \in Frames \ replayed
    BY Apart DEF Range
  <2>3. QED BY <1>6, <2>1, <2>2
<1>11. \A g \in FramesOf(s) :
         /\ \A i \in DOMAIN written : Overtakes(written[i], g)
         /\ \A k \in Conns \ closed : \A i \in DOMAIN queue[k] : Overtakes(queue[k][i], g)
  BY <1>6, <1>10 DEF Flow, OvertakenWait
<1>12. /\ \A q \in Producers : Busy(q)' =>
            Busy(q) /\ hand'[q].frame = hand[q].frame /\ hand[q].frame \notin FramesOf(s)
       /\ \A q \in Replayers : batch'[q] \in {batch[q], <<>>} /\ DOMAIN batch'[q] = {}
  BY <1>2, <1>5, <1>10 DEF Busy
<1>13. Flow' BY <1>2, <1>6, <1>8, <1>10, <1>11, <1>12, StoreFlow DEF Stored
<1>14. QED BY <1>2, <1>4, <1>8, <1>9, <1>13

----------------------------------------------------------------------------
(* A replay takes the spool. *)

\* The batch is what is young enough of the spool, in order; the rest is given up.
LEMMA DrainedBatch ==
  ASSUME IInv, NEW r \in Replayers, Drain(r)
  PROVE  \E b \in Seq(Frames), A \in SUBSET Frames :
           /\ Proceed(r, b) /\ Len(b) <= MaxEntries /\ Become(A, "aged") /\ spool' = <<>>
           /\ \A i \in DOMAIN b : b[i] \in FramesOf(spool) \ A
           /\ \A i, j \in DOMAIN b : i < j => Older(b[i], b[j])
           /\ A \subseteq FramesOf(spool)
           /\ \A g \in A : \E i \in DOMAIN spool : g = spool[i].frame /\ ~Young(spool[i])
<1> USE DEF IInv, Control
<1>1. PICK young : young = {i \in DOMAIN spool : Young(spool[i])} OBVIOUS
<1>2. PICK A : A = {spool[i].frame : i \in DOMAIN spool \ young} OBVIOUS
<1>3. PICK n : n = Cardinality(young) OBVIOUS
<1>4. PICK kept \in [1..n -> young] :
        /\ \A i, j \in DOMAIN kept : i < j => kept[i] < kept[j]
        /\ Proceed(r, [i \in DOMAIN kept |-> spool[kept[i]].frame])
  BY <1>1, <1>3 DEF Drain
<1>5. Become(A, "aged") /\ spool' = <<>> BY <1>1, <1>2 DEF Drain
<1>6. /\ Len(spool) \in Nat /\ DOMAIN spool = 1..Len(spool) /\ Len(spool) <= MaxEntries
      /\ \A i \in DOMAIN spool : spool[i].frame \in Frames
  BY ElementTypes DEF Flow, SpoolKept, FitsCaps
<1>7. n \in Nat /\ n <= MaxEntries
  <2>1. IsFiniteSet(1..Len(spool)) /\ Cardinality(1..Len(spool)) <= Len(spool)
    <3>1. 1 \in Int /\ Len(spool) \in Int BY <1>6
    <3>2. /\ IsFiniteSet(1..Len(spool))
          /\ Cardinality(1..Len(spool)) = IF 1 > Len(spool) THEN 0 ELSE Len(spool) - 1 + 1
      BY <3>1, FS_Interval
    <3>3. QED BY <1>6, <3>2
  <2>2. young \in SUBSET (1..Len(spool)) BY <1>1, <1>6
  <2>3. IsFiniteSet(young) /\ Cardinality(young) <= Cardinality(1..Len(spool))
    BY <2>1, <2>2, FS_Subset
  <2>4. Cardinality(young) \in Nat /\ Cardinality(1..Len(spool)) \in Nat
    BY <2>1, <2>3, FS_CardinalityType
  <2>5. QED BY <1>3, <1>6, <2>1, <2>3, <2>4, ConstantAssumption
<1>8. PICK b : b = [i \in 1..n |-> spool[kept[i]].frame] OBVIOUS
<1>9. \A i \in 1..n : /\ kept[i] \in DOMAIN spool /\ Young(spool[kept[i]])
                      /\ kept[i] \in young /\ b[i] = spool[kept[i]].frame
  BY <1>1, <1>4, <1>8
<1>10. b \in Seq(Frames) /\ Len(b) = n /\ DOMAIN b = 1..n
  <2>1. b \in [1..n -> Frames] BY <1>6, <1>8, <1>9
  <2>2. b \in Seq(Frames) BY <1>7, <2>1
  <2>3. QED BY <1>7, <2>1, <2>2, LenProperties
<1>11. Proceed(r, b)
  <2>1. DOMAIN kept = 1..n BY <1>4
  <2>2. QED BY <1>4, <1>8, <2>1
<1>12. \A i, j \in DOMAIN spool : i # j => spool[i].frame # spool[j].frame
  <2>1. ASSUME NEW i \in DOMAIN spool, NEW j \in DOMAIN spool, i < j
        PROVE  spool[i].frame # spool[j].frame
    <3>1. spool[i].frame \in Nat BY <1>6, ConstantTypes
    <3>2. Older(spool[i].frame, spool[j].frame) BY <2>1 DEF Flow, WaitInOrder
    <3>3. QED BY <3>1, <3>2 DEF Older
  <2>2. QED BY <1>6, <2>1
<1>13. ASSUME NEW i \in DOMAIN b PROVE b[i] \in FramesOf(spool) \ A
  <2>1. b[i] = spool[kept[i]].frame /\ kept[i] \in DOMAIN spool /\ kept[i] \in young
    BY <1>9, <1>10
  <2>2. b[i] \in FramesOf(spool) BY <2>1 DEF FramesOf
  <2>3. b[i] \notin A BY <1>2, <1>12, <2>1
  <2>4. QED BY <2>2, <2>3
<1>14. ASSUME NEW i \in DOMAIN b, NEW j \in DOMAIN b, i < j PROVE Older(b[i], b[j])
  <2>1. kept[i] < kept[j] BY <1>4, <1>10, <1>14
  <2>2. QED BY <1>9, <1>10, <2>1 DEF Flow, WaitInOrder
<1>15. A \subseteq FramesOf(spool) BY <1>2 DEF FramesOf
<1>16. \A g \in A : \E i \in DOMAIN spool : g = spool[i].frame /\ ~Young(spool[i]) BY <1>1, <1>2
<1>17. A \in SUBSET Frames BY <1>2, <1>6
<1>18. QED BY <1>5, <1>7, <1>10, <1>11, <1>13, <1>14, <1>15, <1>16, <1>17

LEMMA ReplayDrainsInv ==
  ASSUME IInv, NEW r \in Replayers, ReplayBegin(r), ~unmonitored PROVE IInv'
<1> USE DEF IInv, Control, connVars, envVars
<1>1. /\ rpc[r] = "idle" /\ replayMu = Nobody /\ Drain(r)
      /\ UNCHANGED <<cur, unmonitored, hand, conns, queue, closed, ended, now, configs, by,
                     replayed, written>>
  BY DEF ReplayBegin
<1>2. PICK b \in Seq(Frames), A \in SUBSET Frames :
        /\ Proceed(r, b) /\ Len(b) <= MaxEntries /\ Become(A, "aged") /\ spool' = <<>>
        /\ \A i \in DOMAIN b : b[i] \in FramesOf(spool) \ A
        /\ \A i, j \in DOMAIN b : i < j => Older(b[i], b[j])
        /\ A \subseteq FramesOf(spool)
  BY <1>1, DrainedBatch
<1>3. /\ rpc' \in [Replayers -> RPCs] /\ batch' \in [Replayers -> Seq(Frames)]
      /\ replayMu' \in Replayers \cup {Nobody}
      /\ \A q \in Replayers : rpc'[q] # "off" => q[1] \in 1..conns'
      /\ \A q \in Replayers : batch'[q] = IF q = r THEN b ELSE <<>>
      /\ Serialised'
      /\ \A q \in Replayers \ {r} : batch[q] = <<>>
  BY <1>1, <1>2, ProceedControl
<1>4. /\ fate' \in [Frames -> Signals!Fates] /\ born' \in [Frames -> 0..MaxTime]
      /\ \A g \in Frames : fate'[g] = IF g \in A THEN "aged" ELSE fate[g]
      /\ \A g \in Frames :
           born'[g] = IF g \notin A THEN born[g] ELSE IF "aged" = "held" THEN now ELSE 0
  <2>1. "aged" \in Signals!Fates BY DEF Signals!Fates
  <2>2. QED BY <1>2, <2>1, BecomeType
<1>5. spool' \in Seq(Entries) /\ Len(<<>>) = 0 /\ DOMAIN spool' = {} BY <1>2, EmptySeq
<1>6. Typed' BY <1>1, <1>3, <1>4, <1>5 DEF Typed
<1>7. OneOpen' BY <1>1, <1>3 DEF OneOpen, Busy
<1>8. PICK G : G = FramesOf(spool) OBVIOUS
<1>9. /\ \A g \in G : fate[g] = "held" /\ g \in Frames \ replayed
      /\ \A q \in Producers : Busy(q) => hand[q].frame \in Frames \ G
      /\ \A k \in Conns \ closed : \A i \in DOMAIN queue[k] : queue[k][i] \in Frames \ G
      /\ \A i \in DOMAIN written : written[i] \in Frames \ G /\ fate[written[i]] = "written"
  BY <1>8, Apart DEF FramesOf
<1>10. Located'
  <2>1. PICK place \in [Frames -> Places] : At(place) BY DEF Flow, Located
  <2> DEFINE new ==
               [g \in Frames |-> IF g \in A THEN "gone" ELSE IF g \in G THEN "batch" ELSE place[g]]
  <2>2. new \in [Frames -> Places] BY DEF Places
  <2>3. \A g \in Frames :
          new[g] = IF g \in A THEN "gone" ELSE IF g \in G THEN "batch" ELSE place[g]
    OBVIOUS
  <2> HIDE DEF new
  <2>4. \A q \in Producers : Busy(q)' => new[hand'[q].frame] = q
    BY <1>1, <1>2, <1>8, <1>9, <2>1, <2>3 DEF At, Busy
  <2>5. \A q \in Replayers : \A i \in DOMAIN batch'[q] : new[batch'[q][i]] = "batch"
    <3>1. \A i \in DOMAIN b : new[b[i]] = "batch" BY <1>2, <1>8, <1>9, <2>3
    <3>2. QED BY <1>3, <3>1
  <2>6. \A k \in Conns \ closed : \A i \in DOMAIN queue[k] : new[queue[k][i]] = "queue"
    BY <1>2, <1>8, <1>9, <2>1, <2>3 DEF At
  <2>7. \A g \in Frames : new[g] # "gone" => fate'[g] = "held" BY <1>4, <1>9, <2>1, <2>3 DEF At
  <2>8. ASSUME NEW g \in replayed PROVE new[g] \in {"queue", "gone"} /\ fate'[g] # "unseen"
    <3>1. g \in Frames \ G BY <1>9 DEF Typed
    <3>2. QED BY <1>2, <1>4, <1>8, <2>1, <2>3, <3>1 DEF At
  <2>9. At(new)' BY <1>1, <1>5, <2>4, <2>5, <2>6, <2>7, <2>8 DEF At
  <2>10. QED BY <2>2, <2>9 DEF Located
<1>11. NoneTwice' BY <1>1 DEF Flow, NoneTwice
<1>12. SpoolKept'
  <2>1. FitsCaps(spool)' BY <1>2, <1>5, ConstantAssumption DEF FitsCaps
  <2>2. 0 <= now BY ConstantAssumption DEF Typed
  <2>3. \A g \in Frames : born[g] <= now BY DEF Flow, SpoolKept
  <2>4. \A g \in Frames : born'[g] <= now BY <1>4, <2>2, <2>3
  <2>5. QED BY <1>1, <1>5, <2>1, <2>4 DEF SpoolKept
<1>13. LastInHand'
  <2>1. \A g \in Frames : fate'[g] # "unseen" <=> fate[g] # "unseen" BY <1>2, <1>4, <1>8, <1>9
  <2>2. QED BY <1>1, <2>1 DEF Flow, LastInHand, Busy
<1>14. InOrder'
  <2>1. \A i \in DOMAIN written : fate'[written[i]] = "written" BY <1>2, <1>4, <1>8, <1>9
  <2>2. QED BY <1>1, <2>1 DEF Flow, InOrder, Before
<1>15. WaitInOrder' BY <1>1, <1>2, <1>3, <1>5 DEF WaitInOrder, Older
<1>16. OvertakenWait'
  <2> SUFFICES ASSUME NEW g \in Frames,
                      (g \in FramesOf(spool) \/ \E q \in Replayers : g \in Range(batch[q]))'
               PROVE  /\ \A i \in DOMAIN written : Overtakes(written[i], g)
                      /\ \A k \in Conns \ closed :
                           \A i \in DOMAIN queue[k] : Overtakes(queue[k][i], g)
    BY <1>1 DEF OvertakenWait, Overtakes
  <2>1. g \in FramesOf(spool)
    <3>1. g \notin FramesOf(spool)' BY <1>5 DEF FramesOf
    <3>2. PICK q \in Replayers : g \in Range(batch'[q]) BY <3>1
    <3>3. PICK i \in DOMAIN batch'[q] : g = batch'[q][i] BY <3>2 DEF Range
    <3>4. i \in DOMAIN b /\ g = b[i] BY <1>3, <3>3
    <3>5. QED BY <1>2, <3>4
  <2>2. QED BY <2>1 DEF Flow, OvertakenWait
<1>17. Accounted'
  <2>1. PICK lost \in [Conns -> 0..MaxFrames] : Took(lost) BY DEF Flow, Accounted
  <2>2. Took(lost)' BY <1>1, <1>4, <2>1 DEF Took
  <2>3. QED BY <2>1, <2>2 DEF Accounted
<1>18. Flow'
  BY <1>10, <1>11, <1>12, <1>13, <1>14, <1>15, <1>16, <1>17 DEF Flow
<1>19. QED BY <1>1, <1>3, <1>6, <1>7, <1>18

----------------------------------------------------------------------------
(* The invariant. *)

LEMMA NextInv == ASSUME IInv, [Next]_vars PROVE IInv'
<1>1. CASE UNCHANGED vars BY <1>1, StutterInv
<1>2. ASSUME NEW f \in Frames, OnEvent(f) PROVE IInv' BY <1>2, OnEventInv
<1>3. ASSUME NEW f \in Frames, NextFrame(f) PROVE IInv' BY <1>3, NextFrameInv
<1>4. ASSUME NEW f \in Frames, NEW k \in Conns, CheckCapture(f, k) PROVE IInv'
  BY <1>4, CheckCaptureInv
<1>5. ASSUME NEW p \in Producers, Producer(p) PROVE IInv'
  BY <1>5, SendPushInv, SendRefusedInv, SpoolAddInv DEF Producer
<1>6. CASE Accept BY <1>6, AcceptInv
<1>7. ASSUME NEW k \in Conns, SessionEnds(k) PROVE IInv' BY <1>7, SessionEndsInv
<1>8. ASSUME NEW k \in Conns, ReadFails(k) \/ PumpFails(k) PROVE IInv' BY <1>8, BreakInv
<1>9. ASSUME NEW k \in Conns, PumpWrite(k) PROVE IInv' BY <1>9, PumpWriteInv
<1>10. CASE ApplyConfig \/ Tick BY <1>10, TickInv
<1>11. ASSUME NEW r \in Replayers, Replay(r) PROVE IInv'
  <2>1. CASE ReplayExit(r) \/ ReplayNothing(r) BY <2>1, ReplayExitInv
  <2>2. CASE ReplayBegin(r) BY <2>2, ReplayDiscardsInv, ReplayDrainsInv
  <2>3. CASE ReplayDiscard(r) BY <2>3, ReplayDiscardInv
  <2>4. CASE ReplayPush(r) BY <2>4, ReplayPushInv
  <2>5. CASE ReplayUnshift(r) BY <2>5, ReplayUnshiftInv
  <2>6. QED BY <1>11, <2>1, <2>2, <2>3, <2>4, <2>5 DEF Replay
<1>12. QED
  BY <1>1, <1>2, <1>3, <1>4, <1>5, <1>6, <1>7, <1>8, <1>9, <1>10, <1>11 DEF Next, Session

LEMMA Invariant == Spec => []IInv
<1>1. Init => IInv BY InitInv
<1>2. IInv /\ [Next]_vars => IInv' BY NextInv
<1>3. QED BY <1>1, <1>2, PTL DEF Spec

\* The type invariant: every variable stays in its domain for any number of frames,
\* connections and configurations, while goroutines of broken connections run on.
THEOREM TypeCorrect == Spec => []TypeOK
<1>1. ASSUME IInv PROVE TypeOK
  <2>1. Typed /\ unmonitored \in BOOLEAN BY <1>1 DEF IInv, Control
  <2>2. QED BY <2>1 DEF Typed, TypeOK, Entries, Hands
<1>2. QED BY <1>1, Invariant, PTL

\* What waits is bounded: the spool fits its caps, at most one replayer holds a batch,
\* and together they are at most twice the entries cap.
THEOREM WaitsBounded == Spec => []WaitingBounded
<1>1. ASSUME IInv PROVE WaitingBounded
  <2> USE <1>1 DEF IInv, Control
  <2>1. FitsCaps(spool) BY DEF Flow, SpoolKept
  <2>2. ASSUME NEW r \in Replayers, NEW q \in Replayers, r # q
        PROVE  batch[r] = <<>> \/ batch[q] = <<>>
    BY <2>2 DEF Serialised
  <2>3. ASSUME NEW r \in Replayers PROVE Len(spool) + Len(batch[r]) <= 2 * MaxEntries
    <3>1. Len(spool) \in Nat /\ Len(batch[r]) \in Nat BY ElementTypes
    <3>2. Len(spool) <= MaxEntries /\ Len(batch[r]) <= MaxEntries
      BY <2>1 DEF FitsCaps, Serialised
    <3>3. QED BY <3>1, <3>2, ConstantAssumption
  <2>4. QED BY <2>1, <2>2, <2>3 DEF WaitingBounded
<1>2. QED BY <1>1, Invariant, PTL

\* On the wire, the signals of one goroutine are in the order they were observed, but
\* for fresh ones that overtake those waiting for their replay.
THEOREM WrittenInOrder == Spec => []OnlyFreshOvertakes
<1>1. ASSUME IInv PROVE OnlyFreshOvertakes
  BY <1>1 DEF IInv, Flow, InOrder, Before, OnlyFreshOvertakes
<1>2. QED BY <1>1, Invariant, PTL

----------------------------------------------------------------------------
(* The refinement. *)

\* A broken connection costs its send queue and the frame in the pump's hand.
BreaksCost ==
  Cardinality({f \in Frames : fate[f] = "broken"}) <= (SendBuffer + 1) * Cardinality(closed)

LEMMA BreaksBounded == ASSUME IInv PROVE BreaksCost
<1> USE DEF IInv, Control
<1>1. PICK B : B = {f \in Frames : fate[f] = "broken"} OBVIOUS
<1>2. PICK lost \in [Conns -> 0..MaxFrames] : Took(lost) BY DEF Flow, Accounted
<1>3. IsFiniteSet(closed) /\ Cardinality(closed) \in Nat
  <2>1. IsFiniteSet(Conns) BY FS_Interval, ConstantAssumption DEF Conns
  <2>2. closed \in SUBSET Conns BY DEF Typed
  <2>3. IsFiniteSet(closed) BY <2>1, <2>2, FS_Subset
  <2>4. QED BY <2>3, FS_CardinalityType
<1>4. IsFiniteSet(0..SendBuffer) /\ Cardinality(0..SendBuffer) = SendBuffer + 1
  <2>1. 0 \in Int /\ SendBuffer \in Int /\ ~(0 > SendBuffer) BY ConstantAssumption
  <2>2. /\ IsFiniteSet(0..SendBuffer)
        /\ Cardinality(0..SendBuffer) = IF 0 > SendBuffer THEN 0 ELSE SendBuffer - 0 + 1
    BY <2>1, FS_Interval
  <2>3. QED BY <2>1, <2>2
<1>5. PICK D : D = closed \X (0..SendBuffer) OBVIOUS
<1>6. IsFiniteSet(D) /\ Cardinality(D) = Cardinality(closed) * (SendBuffer + 1)
  <2>1. /\ IsFiniteSet(closed \X (0..SendBuffer))
        /\ Cardinality(closed \X (0..SendBuffer)) = Cardinality(closed) * Cardinality(0..SendBuffer)
    BY <1>3, <1>4, FS_Product
  <2>2. QED BY <1>4, <1>5, <2>1
<1>7. Cardinality(D) = (SendBuffer + 1) * Cardinality(closed) /\ Cardinality(D) \in Nat
  BY <1>3, <1>6, ConstantAssumption
<1>8. CASE B = {}
  <2>1. Cardinality(B) = 0 BY <1>8, FS_EmptySet
  <2>2. QED BY <1>1, <1>7, <2>1 DEF BreaksCost
<1>9. CASE B # {}
  <2>1. PICK some \in B : TRUE BY <1>9
  \* Position 0 is the frame in the pump's hand, the others are those of the queue.
  <2> DEFINE at(x) == IF x[2] = 0 THEN lost[x[1]] ELSE queue[x[1]][x[2]]
  <2>2. PICK took : took = [x \in D |-> IF at(x) \in B THEN at(x) ELSE some] OBVIOUS
  <2>3. took \in [D -> B] BY <2>1, <2>2
  <2>4. ASSUME NEW f \in B PROVE \E x \in D : took[x] = f
    <3>1. PICK k \in closed : f = lost[k] \/ f \in Range(queue[k]) BY <1>1, <1>2 DEF Took
    <3>2. CASE f = lost[k]
      <4>1. <<k, 0>> \in D BY <1>5, ConstantAssumption
      <4>2. took[<<k, 0>>] = f BY <2>2, <3>2, <4>1
      <4>3. QED BY <4>1, <4>2
    <3>3. CASE f \in Range(queue[k])
      <4>1. PICK i \in DOMAIN queue[k] : f = queue[k][i] BY <3>3 DEF Range
      <4>2. k \in Conns BY DEF Typed
      <4>3. i \in 1..Len(queue[k]) /\ Len(queue[k]) \in Nat /\ Len(queue[k]) <= SendBuffer
        BY <4>2, ElementTypes DEF OneOpen
      <4>4. i \in 0..SendBuffer /\ i # 0 BY <4>3, ConstantAssumption
      <4>5. <<k, i>> \in D BY <1>5, <4>4
      <4>6. took[<<k, i>>] = f BY <2>2, <4>1, <4>4, <4>5
      <4>7. QED BY <4>5, <4>6
    <3>4. QED BY <3>1, <3>2, <3>3
  <2>5. took \in Surjection(D, B) BY <2>3, <2>4 DEF Surjection
  <2>6. Cardinality(B) <= Cardinality(D) BY <1>6, <2>5, FS_Surjection
  <2>7. QED BY <1>1, <1>7, <2>6 DEF BreaksCost
<1>10. QED BY <1>8, <1>9

\* What does not fit the spool does not fit FailureSignals' caps either.
LEMMA OverflowHeld ==
  ASSUME IInv, NEW s, Stored(s), Len(s) > MaxEntries \/ Size[FramesOf(s)] > MaxBytes
  PROVE  Cardinality(Signals!Held) > MaxEntries \/ Size[Signals!Held] > MaxBytes
<1> USE DEF IInv, Control
<1>1. PICK H : H = {f \in Frames : fate[f] = "held"} OBVIOUS
<1>2. Signals!Held = H BY <1>1 DEF Signals!Held
<1>3. /\ s \in Seq(Entries) /\ Len(s) \in Nat /\ DOMAIN s = 1..Len(s)
      /\ \A i \in DOMAIN s : s[i].frame \in H
  BY <1>1, LenProperties DEF Stored
<1>4. H \in SUBSET Frames /\ IsFiniteSet(H) /\ Cardinality(H) \in Nat
  <2>1. IsFiniteSet(Frames) BY FS_Interval, ConstantAssumption DEF Frames
  <2>2. H \in SUBSET Frames BY <1>1
  <2>3. QED BY <2>1, <2>2, FS_Subset, FS_CardinalityType
<1>5. CASE Len(s) > MaxEntries
  <2>1. PICK e : e = [i \in 1..Len(s) |-> s[i].frame] OBVIOUS
  <2>2. e \in [1..Len(s) -> H] BY <1>3, <2>1
  <2>3. ASSUME NEW i \in 1..Len(s), NEW j \in 1..Len(s), i < j PROVE e[i] # e[j]
    <3>1. s[i].frame \in Nat BY <1>3, <1>4, ConstantTypes
    <3>2. Older(s[i].frame, s[j].frame) BY <1>3, <2>3 DEF Stored
    <3>3. QED BY <2>1, <3>1, <3>2 DEF Older
  <2>4. \A i, j \in 1..Len(s) : e[i] = e[j] => i = j BY <1>3, <2>3
  <2>5. e \in Injection(1..Len(s), H) BY <2>2, <2>4 DEF Injection, IsInjective
  <2>6. Cardinality(1..Len(s)) <= Cardinality(H) BY <1>4, <2>5, FS_Injection
  <2>7. Cardinality(1..Len(s)) = Len(s)
    <3>1. 1 \in Int /\ Len(s) \in Int /\ ~(1 > Len(s)) BY <1>3, <1>5, ConstantAssumption
    <3>2. Cardinality(1..Len(s)) = IF 1 > Len(s) THEN 0 ELSE Len(s) - 1 + 1 BY <3>1, FS_Interval
    <3>3. QED BY <1>3, <3>1, <3>2
  <2>8. QED BY <1>2, <1>3, <1>4, <1>5, <2>6, <2>7, ConstantAssumption
<1>6. CASE Size[FramesOf(s)] > MaxBytes
  <2>1. FramesOf(s) \in SUBSET Frames /\ FramesOf(s) \subseteq H BY <1>3, <1>4 DEF FramesOf
  <2>2. Size[FramesOf(s)] \in Nat /\ Size[H] \in Nat /\ Size[FramesOf(s)] <= Size[H]
    BY <1>4, <2>1, SizeMonotone
  <2>3. QED BY <1>2, <1>6, <2>2, ConstantAssumption
<1>7. QED BY <1>5, <1>6

\* FailureSignals counts with an instance of its own of the standard module.
LEMMA SameCardinality == \A S : Signals!Cardinality(S) = Cardinality(S)
<1>1. \A S : Signals!IsFiniteSet(S) <=> IsFiniteSet(S)
  BY Zenon DEF Signals!IsFiniteSet, IsFiniteSet
<1>2. QED BY Zenon DEF Signals!Cardinality, Cardinality

LEMMA MutedType ==
  /\ (unmonitored \/ \E r \in Replayers : rpc[r] = "discard") \in BOOLEAN
  /\ (unmonitored' \/ \E r \in Replayers : rpc'[r] = "discard") \in BOOLEAN
BY Zenon

\* A step that decides no signal's fate.
LEMMA QuietStep ==
  ASSUME UNCHANGED <<fate, born, closed>>, now' \in {now, now + 1}
  PROVE  Signals!Next
<1>1. Cardinality(closed') = Cardinality(closed) BY Zenon
<1>2. Signals!Surroundings BY <1>1, MutedType DEF Signals!Surroundings
<1>3. QED BY <1>2 DEF Signals!Next

\* FailureSignals' view of the host being monitored does not change.
SameMuted ==
  unmonitored' = unmonitored /\ \A r \in Replayers : rpc'[r] = "discard" <=> rpc[r] = "discard"

LEMMA MutedSame ==
  ASSUME SameMuted
  PROVE  (unmonitored' \/ \E r \in Replayers : rpc'[r] = "discard")
           = (unmonitored \/ \E r \in Replayers : rpc[r] = "discard")
BY DEF SameMuted

LEMMA ObserveStep ==
  ASSUME NEW f \in Frames, fate[f] = "unseen",
         Become({f}, "held") \/ (unmonitored /\ Become({f}, "muted")),
         SameMuted, UNCHANGED <<closed, now>>
  PROVE  Signals!Next
<1>1. Cardinality(closed') = Cardinality(closed) BY Zenon
<1>2. Signals!Become({f}, "held") \/ (unmonitored /\ Signals!Become({f}, "muted"))
  BY DEF Become, Signals!Become
<1>3. Signals!Observe(f) BY <1>1, <1>2, MutedSame DEF Signals!Observe
<1>4. QED BY <1>3 DEF Signals!Next

LEMMA WriteStep ==
  ASSUME NEW f \in Frames, fate[f] = "held", Become({f}, "written"),
         SameMuted, UNCHANGED <<closed, now>>
  PROVE  Signals!Next
<1>1. Cardinality(closed') = Cardinality(closed) BY Zenon
<1>2. Signals!Become({f}, "written") BY DEF Become, Signals!Become
<1>3. f \in Signals!Held BY DEF Signals!Held
<1>4. Signals!Write(f) BY <1>1, <1>2, <1>3, MutedSame DEF Signals!Write
<1>5. QED BY <1>4 DEF Signals!Next

LEMMA DiscardStep ==
  ASSUME NEW F \in SUBSET Frames, \A f \in F : fate[f] = "held", Become(F, "muted"),
         NEW r \in Replayers, rpc[r] = "discard", UNCHANGED <<closed, now>>
  PROVE  Signals!Next
<1>1. Cardinality(closed') = Cardinality(closed) BY Zenon
<1>2. Signals!Become(F, "muted") BY DEF Become, Signals!Become
<1>3. F \in SUBSET Signals!Held BY DEF Signals!Held
<1>4. Signals!Discard(F) BY <1>1, <1>2, <1>3, MutedType DEF Signals!Discard
<1>5. QED BY <1>3, <1>4 DEF Signals!Next

LEMMA AgeOutStep ==
  ASSUME NEW F \in SUBSET Frames, \A f \in F : fate[f] = "held" /\ now - born[f] > MaxAge,
         Become(F, "aged"), SameMuted, UNCHANGED <<closed, now>>
  PROVE  Signals!Next
<1>1. Cardinality(closed') = Cardinality(closed) BY Zenon
<1>2. Signals!Become(F, "aged") BY DEF Become, Signals!Become
<1>3. F \in SUBSET Signals!Held BY DEF Signals!Held
<1>4. Signals!AgeOut(F) BY <1>1, <1>2, <1>3, MutedSame DEF Signals!AgeOut
<1>5. QED BY <1>3, <1>4 DEF Signals!Next

\* The spool takes what it is given, or the oldest of it is evicted.
LEMMA StoreStep ==
  ASSUME IInv, NEW s, Stored(s), Store(s), SameMuted, UNCHANGED <<closed, now>>
  PROVE  Signals!Next
<1>1. PICK F : F = FramesOf(s) \ FramesOf(EnforceCaps(s)) OBVIOUS
<1>2. s \in Seq(Entries) /\ F \in SUBSET Frames /\ \A f \in F : fate[f] = "held"
  BY <1>1 DEF Stored, FramesOf
<1>3. Become(F, "evicted") BY <1>1 DEF Store
<1>4. CASE F = {}
  <2>1. fate \in [Frames -> Signals!Fates] /\ born \in [Frames -> 0..MaxTime]
    BY DEF IInv, Control, Typed
  <2>2. fate' = fate /\ born' = born BY <1>3, <1>4, <2>1 DEF Become
  <2>3. QED BY <2>2, QuietStep
<1>5. CASE F # {}
  <2>1. Len(s) > MaxEntries \/ Size[FramesOf(s)] > MaxBytes
    <3>1. PICK n \in Nat : /\ n = 0 => EnforceCaps(s) = s
                           /\ n > 0 => Len(s) > MaxEntries \/ Size[FramesOf(s)] > MaxBytes
      BY <1>2, EnforceCapsSuffix
    <3>2. n # 0 BY <1>1, <1>5, <3>1
    <3>3. QED BY <3>1, <3>2
  <2>2. Cardinality(Signals!Held) > MaxEntries \/ Size[Signals!Held] > MaxBytes
    BY <2>1, OverflowHeld
  <2>3. Cardinality(closed') = Cardinality(closed) BY Zenon
  <2>4. Signals!Become(F, "evicted") BY <1>3 DEF Become, Signals!Become
  <2>5. F \in SUBSET Signals!Held BY <1>2 DEF Signals!Held
  <2>6. Signals!Evict(F) BY <2>2, <2>3, <2>4, <2>5, MutedSame, SameCardinality DEF Signals!Evict
  <2>7. QED BY <2>5, <2>6 DEF Signals!Next
<1>6. QED BY <1>4, <1>5

LEMMA LoseStep ==
  ASSUME NEW F \in SUBSET Frames, \A f \in F : fate[f] = "held", Become(F, "broken"),
         Cardinality(closed') \in {Cardinality(closed), Cardinality(closed) + 1},
         BreaksCost', SameMuted, now' = now
  PROVE  Signals!Next
<1>1. Signals!Become(F, "broken") BY DEF Become, Signals!Become
<1>2. F \in SUBSET Signals!Held BY DEF Signals!Held
<1>3. Cardinality({f \in Frames : fate'[f] = "broken"}) <= (SendBuffer + 1) * Cardinality(closed')
  BY DEF BreaksCost
<1>4. Signals!LoseToBreaks(F)
  BY <1>1, <1>2, <1>3, MutedSame, SameCardinality DEF Signals!LoseToBreaks
<1>5. QED BY <1>2, <1>4 DEF Signals!Next

\* Takes and OnEvent observe a signal.
LEMMA ObservedStep ==
  ASSUME NEW p \in Producers, NEW f \in Frames, Observed(p, f),
         Become({f}, "held") \/ (unmonitored /\ Become({f}, "muted"))
  PROVE  Signals!Next
<1>1. fate[f] = "unseen" /\ UNCHANGED <<closed, now>> /\ SameMuted
  BY DEF Observed, Newest, collVars, connVars, envVars, SameMuted
<1>2. QED BY <1>1, ObserveStep

LEMMA SendPushStep ==
  ASSUME IInv, NEW p \in Producers, SendPush(p), BreaksCost' PROVE Signals!Next
<1>1. PICK f : f = hand[p].frame OBVIOUS
<1>2. PICK k : k = hand[p].conn OBVIOUS
<1>3. /\ Busy(p) /\ Enqueued(k, f) /\ UNCHANGED <<closed, now>> /\ SameMuted
  BY <1>1, <1>2 DEF SendPush, Busy, collVars, envVars, SameMuted
<1>4. f \in Frames /\ fate[f] = "held" BY <1>1, <1>3, Apart DEF IInv
<1>5. CASE k \in closed
  <2>1. Become({f}, "broken") BY <1>3, <1>5 DEF Enqueued
  <2>2. {f} \in SUBSET Frames /\ \A g \in {f} : fate[g] = "held" BY <1>4
  <2>3. Cardinality(closed') = Cardinality(closed) BY <1>3, Zenon
  <2>4. QED BY <1>3, <2>1, <2>2, <2>3, LoseStep
<1>6. CASE k \notin closed
  <2>1. UNCHANGED <<fate, born>> BY <1>3, <1>6 DEF Enqueued
  <2>2. QED BY <1>3, <2>1, QuietStep
<1>7. QED BY <1>5, <1>6

LEMMA ClosesStep ==
  ASSUME IInv, NEW k \in 1..conns \ closed, Closes(k, Range(queue[k])), SameMuted, now' = now,
         BreaksCost'
  PROVE  Signals!Next
<1> USE DEF IInv, Control
<1>1. PICK F : F = Range(queue[k]) OBVIOUS
<1>2. k \in Conns \ closed BY ConstantAssumption DEF Typed, Conns
<1>3. F \in SUBSET Frames /\ \A f \in F : fate[f] = "held" BY <1>1, <1>2, Apart DEF Range
<1>4. Become(F, "broken") /\ closed' = closed \cup {k} BY <1>1 DEF Closes
<1>5. Cardinality(closed') = Cardinality(closed) + 1
  <2>1. IsFiniteSet(Conns) BY FS_Interval, ConstantAssumption DEF Conns
  <2>2. closed \in SUBSET Conns BY DEF Typed
  <2>3. IsFiniteSet(closed) BY <2>1, <2>2, FS_Subset
  <2>4. QED BY <1>4, <2>3, FS_AddElement
<1>6. QED BY <1>3, <1>4, <1>5, LoseStep

LEMMA PumpWriteStep == ASSUME IInv, NEW k \in Conns, PumpWrite(k) PROVE Signals!Next
<1> USE DEF IInv, Control
<1>1. PICK f : f = Head(queue[k]) OBVIOUS
<1>2. queue[k] \in Seq(Frames) /\ queue[k] # <<>> /\ k \notin closed BY DEF Typed, PumpWrite
<1>3. 1 \in DOMAIN queue[k] /\ f = queue[k][1] BY <1>1, <1>2, TailElements
<1>4. f \in Frames /\ fate[f] = "held" BY <1>2, <1>3, Apart
<1>5. Become({f}, "written") /\ UNCHANGED <<closed, now>> /\ SameMuted
  BY <1>1 DEF PumpWrite, collVars, envVars, SameMuted
<1>6. QED BY <1>4, <1>5, WriteStep

LEMMA ReplayBeginStep ==
  ASSUME IInv, NEW r \in Replayers, ReplayBegin(r) PROVE Signals!Next
<1> USE DEF IInv, Control, connVars, envVars
<1>1. CASE unmonitored
  <2>1. UNCHANGED <<fate, born, closed, now>> BY <1>1 DEF ReplayBegin
  <2>2. QED BY <2>1, QuietStep
<1>2. CASE ~unmonitored
  <2>1. rpc[r] = "idle" /\ Drain(r) /\ UNCHANGED <<unmonitored, closed, now>>
    BY <1>2 DEF ReplayBegin
  <2>2. PICK b \in Seq(Frames), A \in SUBSET Frames :
          /\ Proceed(r, b) /\ Become(A, "aged") /\ A \subseteq FramesOf(spool)
          /\ \A g \in A : \E i \in DOMAIN spool : g = spool[i].frame /\ ~Young(spool[i])
    BY <2>1, DrainedBatch
  <2>3. SameMuted
    <3>1. PICK x \in {"off", "idle", "back", "push"} : rpc' = [rpc EXCEPT ![r] = x]
      BY <2>2 DEF Proceed, Returns
    <3>2. QED BY <2>1, <3>1 DEF SameMuted, Typed
  <2>4. ASSUME NEW g \in A PROVE fate[g] = "held" /\ now - born[g] > MaxAge
    <3>1. PICK i \in DOMAIN spool : g = spool[i].frame /\ ~Young(spool[i]) BY <2>2
    <3>2. fate[g] = "held" BY <3>1, Apart
    <3>3. born[g] <= spool[i].at BY <3>1 DEF Flow, SpoolKept
    <3>4. spool[i].at \in Nat /\ born[g] \in Nat /\ now \in Nat
      BY ElementTypes, ConstantAssumption DEF Typed
    <3>5. ~(now - spool[i].at <= MaxAge) BY <3>1 DEF Young
    <3>6. QED BY <3>2, <3>3, <3>4, <3>5, ConstantAssumption
  <2>5. QED BY <2>1, <2>2, <2>3, <2>4, AgeOutStep
<1>3. QED BY <1>1, <1>2

LEMMA ReplayDiscardStep ==
  ASSUME IInv, NEW r \in Replayers, ReplayDiscard(r) PROVE Signals!Next
<1>1. PICK F : F = FramesOf(spool) OBVIOUS
<1>2. F \in SUBSET Frames /\ \A f \in F : fate[f] = "held" BY <1>1, Apart DEF IInv, FramesOf
<1>3. rpc[r] = "discard" /\ Become(F, "muted") /\ UNCHANGED <<closed, now>>
  BY <1>1 DEF ReplayDiscard, connVars, envVars
<1>4. QED BY <1>2, <1>3, DiscardStep

LEMMA ReplayPushStep ==
  ASSUME IInv, NEW r \in Replayers, ReplayPush(r), BreaksCost' PROVE Signals!Next
<1> USE DEF IInv, Control, envVars
<1>1. PICK f : f = Head(batch[r]) OBVIOUS
<1>2. PICK k : k = r[1] OBVIOUS
<1>3. rpc[r] = "push" /\ Enqueued(k, f) /\ UNCHANGED <<unmonitored, closed, now>>
  BY <1>1, <1>2 DEF ReplayPush
<1>4. SameMuted
  <2>1. PICK x \in {"off", "idle", "back", "push"} : rpc' = [rpc EXCEPT ![r] = x]
    BY DEF ReplayPush, Proceed, Returns
  <2>2. QED BY <1>3, <2>1 DEF SameMuted, Typed
<1>5. f \in Frames /\ fate[f] = "held"
  <2>1. batch[r] \in Seq(Frames) /\ batch[r] # <<>> BY <1>3 DEF Typed, Serialised
  <2>2. 1 \in DOMAIN batch[r] /\ f = batch[r][1] BY <1>1, <2>1, TailElements
  <2>3. QED BY <2>2, Apart
<1>6. CASE k \in closed
  <2>1. Become({f}, "broken") BY <1>3, <1>6 DEF Enqueued
  <2>2. {f} \in SUBSET Frames /\ \A g \in {f} : fate[g] = "held" BY <1>5
  <2>3. Cardinality(closed') = Cardinality(closed) BY <1>3, Zenon
  <2>4. QED BY <1>3, <1>4, <2>1, <2>2, <2>3, LoseStep
<1>7. CASE k \notin closed
  <2>1. UNCHANGED <<fate, born>> BY <1>3, <1>7 DEF Enqueued
  <2>2. QED BY <1>3, <2>1, QuietStep
<1>8. QED BY <1>6, <1>7

LEMMA ReplayUnshiftStep ==
  ASSUME IInv, NEW r \in Replayers, ReplayUnshift(r) PROVE Signals!Next
<1> USE DEF IInv, Control, connVars, envVars
<1>1. PICK s : s = Unshift(batch[r]) OBVIOUS
<1>2. rpc[r] # "discard" /\ Store(s) /\ UNCHANGED <<unmonitored, closed, now>>
  BY <1>1 DEF ReplayUnshift
<1>3. SameMuted
  <2>1. PICK x \in {"off", "idle"} : rpc' = [rpc EXCEPT ![r] = x] BY DEF ReplayUnshift, Returns
  <2>2. QED BY <1>2, <2>1 DEF SameMuted, Typed
<1>4. QED BY <1>1, <1>2, <1>3, UnshiftStored, StoreStep

LEMMA SpoolAddStep == ASSUME IInv, NEW p \in Producers, SpoolAdd(p) PROVE Signals!Next
<1>1. PICK s : s = Append(spool, [frame |-> hand[p].frame, at |-> now]) OBVIOUS
<1>2. Busy(p) /\ Store(s) /\ UNCHANGED <<closed, now>> /\ SameMuted
  BY <1>1 DEF SpoolAdd, Busy, connVars, envVars, SameMuted
<1>3. QED BY <1>1, <1>2, AddStored, StoreStep

\* Every step of the collector is one that FailureSignals allows, or none.
LEMMA NextStep ==
  ASSUME IInv, [Next]_vars, BreaksCost' PROVE [Signals!Next]_Signals!vars
<1> USE DEF collVars, connVars, envVars, obsVars
<1>1. CASE UNCHANGED vars
  <2>1. UNCHANGED <<fate, born, closed, now>> BY <1>1 DEF vars
  <2>2. QED BY <2>1, QuietStep
<1>2. ASSUME NEW f \in Frames, OnEvent(f) PROVE Signals!Next
  <2>1. "watch" \in Producers BY DEF Producers
  <2>2. QED BY <1>2, <2>1, ObservedStep DEF OnEvent, Takes
<1>3. ASSUME NEW f \in Frames, NextFrame(f) PROVE Signals!Next
  <2>1. "watch" \in Producers BY DEF Producers
  <2>2. QED BY <1>3, <2>1, ObservedStep DEF NextFrame, Takes
<1>4. ASSUME NEW f \in Frames, NEW k \in Conns, CheckCapture(f, k) PROVE Signals!Next
  <2>1. "check" \in Producers BY DEF Producers
  <2>2. QED BY <1>4, <2>1, ObservedStep DEF CheckCapture, Takes
<1>5. ASSUME NEW p \in Producers, Producer(p) PROVE Signals!Next
  <2>1. CASE SendRefused(p)
    <3>1. UNCHANGED <<fate, born, closed, now>> BY <2>1 DEF SendRefused
    <3>2. QED BY <3>1, QuietStep
  <2>2. QED BY <1>5, <2>1, SendPushStep, SpoolAddStep DEF Producer
<1>6. CASE Session
  <2>1. UNCHANGED <<fate, born, closed, now>> BY <1>6 DEF Session, Accept, SessionEnds
  <2>2. QED BY <2>1, QuietStep
<1>7. ASSUME NEW k \in Conns, ReadFails(k) \/ PumpFails(k) PROVE Signals!Next
  <2>1. /\ k \in 1..conns \ closed /\ Closes(k, Range(queue[k])) /\ SameMuted /\ now' = now
    BY <1>7 DEF ReadFails, PumpFails, SameMuted
  <2>2. QED BY <2>1, ClosesStep
<1>8. ASSUME NEW k \in Conns, PumpWrite(k) PROVE Signals!Next BY <1>8, PumpWriteStep
<1>9. CASE ApplyConfig \/ Tick
  <2>1. UNCHANGED <<fate, born, closed>> /\ now' \in {now, now + 1} BY <1>9 DEF ApplyConfig, Tick
  <2>2. QED BY <2>1, QuietStep
<1>10. ASSUME NEW r \in Replayers, Replay(r) PROVE Signals!Next
  <2>1. CASE ReplayExit(r) \/ ReplayNothing(r)
    <3>1. UNCHANGED <<fate, born, closed, now>> BY <2>1 DEF ReplayExit, ReplayNothing
    <3>2. QED BY <3>1, QuietStep
  <2>2. QED
    BY <1>10, <2>1, ReplayBeginStep, ReplayDiscardStep, ReplayPushStep, ReplayUnshiftStep DEF Replay
<1>11. QED
  BY <1>1, <1>2, <1>3, <1>4, <1>5, <1>6, <1>7, <1>8, <1>9, <1>10 DEF Next

\* The collector implements FailureSignals for any number of signals, connections and
\* replayers: nothing arrives twice, every loss has one of the reasons, and a broken
\* connection costs at most its send queue and the frame in the pump's hand.
THEOREM SignalsImplemented == Spec => ImplementsFailureSignals
<1>1. Init => Signals!Init
  <2>1. ASSUME Init PROVE Signals!Init
    <3>1. Cardinality(closed) = 0 BY <2>1, FS_EmptySet DEF Init
    <3>2. (unmonitored \/ \E r \in Replayers : rpc[r] = "discard") = FALSE
      BY <2>1 DEF Init
    <3>3. QED BY <2>1, <3>1, <3>2 DEF Init, Signals!Init
  <2>2. QED BY <2>1
<1>2. IInv => BreaksCost BY BreaksBounded
<1>3. IInv /\ [Next]_vars /\ BreaksCost' => [Signals!Next]_Signals!vars BY NextStep
<1>4. QED BY <1>1, <1>2, <1>3, Invariant, PTL DEF Spec, ImplementsFailureSignals, Signals!Spec
=============================================================================
