------------------------- MODULE CloudChecksProofs --------------------------
(***************************************************************************)
(* Proofs about CloudChecks, for any services, threshold and number of     *)
(* connections: the type invariant, that check rounds which overlap never  *)
(* make a second excerpt due for the same failure unless one of them cut   *)
(* the streak, and that a container that keeps running and is always       *)
(* inspected is never captured against its label.                          *)
(***************************************************************************)
EXTENDS CloudChecks, WellFoundedInduction, TLAPS

Loops == [pc : PCs, seen : SUBSET Keys, todo : SUBSET Keys, bad : SUBSET Keys, took : SUBSET Keys]

\* TypeOK in parts: the Boolean variables, the others, and what a round works on.
Flags == unmonitored \in BOOLEAN /\ capture \in BOOLEAN /\ cycle \in BOOLEAN

Typed ==
  /\ latest \subseteq Keys /\ checkFails \in [Keys -> 0..Threshold + 1]
  /\ loop \in [Conns -> Loops]
  /\ containers \in [Keys -> {"up", "sick", "stopped"}] /\ listed \subseteq Keys
  /\ conns \in 0..MaxConns /\ dead \subseteq 1..conns
  /\ events \in 0..MaxEvents
  /\ due \in [Changing -> 0..2] /\ torn \subseteq Changing

\* What a round handles is on the list it read, and an excerpt is for some service.
InRound(r) ==
  /\ r.todo \subseteq r.seen /\ r.bad \subseteq r.seen /\ r.took \subseteq r.seen
  /\ r.pc = "log" => r.todo # {}

RoundsHandleSeen == \A k \in Conns : InRound(loop[k])

\* Only the last connection accepted can be live, and only those accepted have a loop.
OneLive ==
  /\ 1..(conns - 1) \subseteq dead
  /\ \A k \in Conns : k > conns => loop[k].pc = "off"

\* A streak that came to the threshold on a live connection and was not cut stands:
\* the container still fails, the count is still there, and the live round knows.
StreakStands ==
  \A s \in Changing \ torn : due[s] > 0 =>
    /\ containers[s] # "up" /\ checkFails[s] >= Threshold
    /\ \A k \in Conns \ dead :
         loop[k].pc \in {"count", "log"} /\ s \in loop[k].todo => s \in loop[k].bad

IInv == Flags /\ Typed /\ RoundsHandleSeen /\ OneLive /\ StreakStands /\ OnceUnlessTorn

----------------------------------------------------------------------------
(* Services and rounds. *)

\* The first service of a list that is not empty is on it.
LEMMA MinInSet ==
  ASSUME NEW S \in SUBSET Keys, S # {}
  PROVE  Min(S) \in S
<1>1. S \subseteq Nat BY ConstantAssumption
<1>2. \E x \in S : \A y \in S : <<y, x>> \notin OpToRel(<, Nat)
  BY <1>1, NatLessThanWellFounded, WFMin
<1>3. \E x \in S : \A y \in S : x =< y
  <2>1. PICK x \in S : \A y \in S : <<y, x>> \notin OpToRel(<, Nat) BY <1>2
  <2>2. ASSUME NEW y \in S PROVE x =< y
    <3>1. x \in Nat /\ y \in Nat BY <1>1
    <3>2. ~(y < x) BY <2>1, <3>1 DEF OpToRel
    <3>3. QED BY <3>1, <3>2
  <2>3. QED BY <2>2
<1>4. QED BY <1>3 DEF Min

\* A loop that has nothing under way.
LEMMA IdleRound ==
  /\ Off \in Loops /\ InRound(Off) /\ Off.pc = "off"
  /\ [Off EXCEPT !.pc = "idle"] \in Loops /\ InRound([Off EXCEPT !.pc = "idle"])
  /\ [Off EXCEPT !.pc = "idle"].pc = "idle"
BY DEF Off, Loops, PCs, InRound

\* A round is only under way on a connection that was accepted, and a live one is on
\* the only live connection.
LEMMA LiveIsLast ==
  ASSUME Typed, OneLive, NEW k \in Conns, loop[k].pc # "off"
  PROVE  /\ k \in 1..conns
         /\ k \notin dead => \A j \in Conns \ dead : j # k => loop[j].pc = "off"
<1>1. k \in Nat /\ k >= 1 /\ conns \in Nat /\ MaxConns \in Nat /\ k <= conns
  BY ConstantAssumption DEF Typed, OneLive, Conns
<1>2. ASSUME k \notin dead, NEW j \in Conns \ dead, j # k PROVE loop[j].pc = "off"
  <2>1. j \in Nat /\ j >= 1 BY ConstantAssumption DEF Conns
  <2>2. k = conns BY <1>1, <1>2 DEF OneLive
  <2>3. j > conns BY <1>1, <1>2, <2>1, <2>2 DEF OneLive
  <2>4. QED BY <2>3 DEF OneLive
<1>3. QED BY <1>1, <1>2

----------------------------------------------------------------------------
(* The invariant. *)

LEMMA InitInv == Init => IInv
<1> SUFFICES ASSUME Init PROVE IInv OBVIOUS
<1>1. Flags BY Zenon DEF Init, Flags
<1>2. Typed
  BY IdleRound, ConstantAssumption DEF Init, Typed
<1>3. RoundsHandleSeen /\ OneLive BY IdleRound DEF Init, RoundsHandleSeen, OneLive, Conns
<1>4. StreakStands /\ OnceUnlessTorn BY DEF Init, StreakStands, OnceUnlessTorn
<1>5. QED BY <1>1, <1>2, <1>3, <1>4 DEF IInv

\* The service list, the configuration and the end of a connection touch no round.
LEMMA SurroundingsInv ==
  ASSUME IInv, \/ List \/ OnReconcile \/ ApplyConfig
               \/ \E k \in Conns : Scan(k) \/ Disconnect(k)
  PROVE  IInv'
<1> USE DEF IInv, collVars, envVars, obsVars
<1>1. Running \subseteq Keys /\ Flaky \subseteq Keys BY ConstantAssumption DEF Running
<1>2. ASSUME NEW M, Misses(M) PROVE events' \in 0..MaxEvents
  BY <1>2, ConstantAssumption DEF Misses, Happens, Typed
<1>3. CASE List
  <2>1. Flags' BY Zenon, <1>3 DEF List, Flags
  <2>2. listed' \subseteq Keys /\ events' \in 0..MaxEvents BY <1>1, <1>2, <1>3 DEF List
  <2>3. Typed' BY <1>3, <2>2 DEF List, Typed
  <2>4. QED
    BY <1>3, <2>1, <2>3 DEF List, RoundsHandleSeen, OneLive, StreakStands, OnceUnlessTorn
<1>4. CASE OnReconcile
  <2>1. Flags' BY Zenon, <1>4 DEF OnReconcile, Flags
  <2>2. Typed' BY <1>4 DEF OnReconcile, Typed
  <2>3. QED
    BY <1>4, <2>1, <2>2
    DEF OnReconcile, RoundsHandleSeen, OneLive, StreakStands, OnceUnlessTorn
<1>5. CASE ApplyConfig
  <2>1. Flags' BY Zenon, <1>5 DEF ApplyConfig, Flags
  <2>2. Typed' BY <1>5, ConstantAssumption DEF ApplyConfig, Happens, Typed
  <2>3. QED
    BY <1>5, <2>1, <2>2
    DEF ApplyConfig, RoundsHandleSeen, OneLive, StreakStands, OnceUnlessTorn
<1>6. ASSUME NEW k \in Conns, Scan(k) PROVE IInv'
  <2>1. Flags' BY Zenon, <1>6 DEF Scan, Flags
  <2>2. latest' \subseteq Keys /\ events' \in 0..MaxEvents BY <1>2, <1>6 DEF Scan
  <2>3. Typed' BY <1>6, <2>2 DEF Scan, Typed
  <2>4. QED
    BY <1>6, <2>1, <2>3 DEF Scan, RoundsHandleSeen, OneLive, StreakStands, OnceUnlessTorn
<1>7. ASSUME NEW k \in Conns, Disconnect(k) PROVE IInv'
  <2>1. Flags' /\ RoundsHandleSeen' /\ OnceUnlessTorn'
    BY <1>7 DEF Disconnect, Flags, RoundsHandleSeen, OnceUnlessTorn
  <2>2. Typed' BY <1>7 DEF Disconnect, Live, Typed
  <2>3. OneLive' BY <1>7 DEF Disconnect, OneLive
  <2>4. StreakStands' BY <1>7 DEF Disconnect, StreakStands
  <2>5. QED BY <2>1, <2>2, <2>3, <2>4
<1>8. QED BY <1>3, <1>4, <1>5, <1>6, <1>7

LEMMA AcceptInv == ASSUME IInv, Accept PROVE IInv'
<1> USE DEF IInv, collVars, obsVars
<1>0. PICK r \in Loops : InRound(r) /\ r.pc = "idle" /\ loop' = [loop EXCEPT ![conns + 1] = r]
  BY IdleRound DEF Accept
<1>1. /\ conns + 1 \in Conns /\ conns' = conns + 1 /\ conns \in Nat /\ MaxConns \in Nat
      /\ 1..conns \subseteq dead
  BY ConstantAssumption DEF Accept, Typed, Conns
<1>2. Flags' BY DEF Accept, Flags
<1>3. Typed'
  <2>1. loop' \in [Conns -> Loops] BY <1>0, <1>1 DEF Typed
  <2>2. conns' \in 0..MaxConns /\ dead' \subseteq 1..conns'
    BY <1>1 DEF Accept, Typed
  <2>3. QED BY <2>1, <2>2 DEF Accept, Typed
<1>4. RoundsHandleSeen' BY <1>0, <1>1 DEF RoundsHandleSeen, Typed
<1>5. OneLive'
  <2>1. 1..(conns' - 1) \subseteq dead' BY <1>1 DEF Accept
  <2>2. ASSUME NEW k \in Conns, k > conns' PROVE loop'[k].pc = "off"
    <3>1. k \in Nat BY ConstantAssumption DEF Conns
    <3>2. k > conns /\ k # conns + 1 BY <1>1, <2>2, <3>1
    <3>3. QED BY <1>0, <1>1, <3>2 DEF OneLive, Typed
  <2>3. QED BY <2>1, <2>2 DEF OneLive
<1>6. StreakStands' BY <1>0, <1>1 DEF Accept, StreakStands, Typed
<1>7. QED BY <1>2, <1>3, <1>4, <1>5, <1>6 DEF Accept, OnceUnlessTorn

\* A container that changes starts a new episode.
LEMMA ContainerChangesInv ==
  ASSUME IInv, NEW s \in Changing, ContainerChanges(s) PROVE IInv'
<1> USE DEF IInv, collVars
<1>1. PICK c \in {"up", "sick", "stopped"} : containers' = [containers EXCEPT ![s] = c]
  BY DEF ContainerChanges
<1>2. s \in Keys BY ConstantAssumption
<1>3. Flags' /\ RoundsHandleSeen' /\ OneLive'
  BY DEF ContainerChanges, Flags, RoundsHandleSeen, OneLive
<1>4. Typed'
  <2>1. containers' \in [Keys -> {"up", "sick", "stopped"}] BY <1>1, <1>2 DEF Typed
  <2>2. due' \in [Changing -> 0..2] BY DEF ContainerChanges, Typed
  <2>3. events' \in 0..MaxEvents /\ torn' \subseteq Changing
    <3>1. /\ events < MaxEvents /\ events' = events + 1 /\ torn' = torn \ {s}
          /\ events \in 0..MaxEvents /\ torn \subseteq Changing
      BY DEF ContainerChanges, Happens, Typed
    <3>2. QED BY <3>1, ConstantAssumption
  <2>4. QED BY <2>1, <2>2, <2>3 DEF ContainerChanges, Typed
<1>5. StreakStands' BY <1>1, <1>2 DEF ContainerChanges, StreakStands, Typed
<1>6. OnceUnlessTorn' BY DEF ContainerChanges, OnceUnlessTorn, Typed
<1>7. QED BY <1>3, <1>4, <1>5, <1>6

\* A step of connection k's loop that leaves counts and observers alone.
LEMMA LoopStepInv ==
  ASSUME IInv, NEW k \in Conns, loop[k].pc # "off",
         NEW r \in Loops, InRound(r), loop' = [loop EXCEPT ![k] = r],
         UNCHANGED <<collVars, envVars, obsVars>>,
         \/ r.pc \notin {"count", "log"}
         \/ {s \in r.todo : containers[s] # "up"} \subseteq r.bad
         \/ loop[k].pc \in {"count", "log"} /\ r.todo \subseteq loop[k].todo /\ r.bad = loop[k].bad
  PROVE  IInv'
<1> USE DEF IInv, collVars, envVars, obsVars
<1>1. Flags' BY DEF Flags
<1>2. Typed' BY DEF Typed
<1>3. RoundsHandleSeen' BY DEF RoundsHandleSeen, Typed
<1>4. OneLive'
  <2>1. k <= conns BY LiveIsLast DEF Typed
  <2>2. ASSUME NEW j \in Conns, j > conns PROVE loop'[j].pc = "off"
    <3>1. j # k BY <2>1, <2>2, ConstantAssumption DEF Conns, Typed
    <3>2. QED BY <2>2, <3>1 DEF OneLive, Typed
  <2>3. QED BY <2>2 DEF OneLive
<1>5. StreakStands' BY DEF StreakStands, Typed
<1>6. OnceUnlessTorn' BY DEF OnceUnlessTorn
<1>7. QED BY <1>1, <1>2, <1>3, <1>4, <1>5, <1>6

LEMMA RunChecksInv == ASSUME IInv, NEW k \in Conns, RunChecks(k) PROVE IInv'
<1>1. PICK r \in Loops : InRound(r) /\ r.pc = "probe" /\ loop' = [loop EXCEPT ![k] = r]
  <2> DEFINE r == [Off EXCEPT !.pc = "probe", !.seen = latest, !.todo = latest]
  <2>1. r \in Loops /\ InRound(r) /\ r.pc = "probe"
    BY DEF Off, Loops, PCs, InRound, IInv, Typed
  <2>2. QED BY <2>1 DEF RunChecks
<1>2. QED BY <1>1, LoopStepInv DEF RunChecks

LEMMA LoopExitInv == ASSUME IInv, NEW k \in Conns, LoopExit(k) PROVE IInv'
BY IdleRound, LoopStepInv DEF LoopExit

LEMMA ProbeInv == ASSUME IInv, NEW k \in Conns, Probe(k) PROVE IInv'
<1>1. PICK cut : loop' = [loop EXCEPT ![k].pc = "count",
                    ![k].bad = {s \in loop[k].todo : s >= cut}
                                 \cup {s \in loop[k].todo : containers[s] # "up"}]
  BY DEF Probe
<1> DEFINE bad == {s \in loop[k].todo : s >= cut} \cup {s \in loop[k].todo : containers[s] # "up"}
<1>2. bad \subseteq loop[k].todo /\ {s \in loop[k].todo : containers[s] # "up"} \subseteq bad
  OBVIOUS
<1>3. loop' = [loop EXCEPT ![k] = [loop[k] EXCEPT !.pc = "count", !.bad = bad]]
  BY <1>1 DEF IInv, Typed
<1> HIDE DEF bad
<1>4. PICK r \in Loops : /\ InRound(r) /\ loop' = [loop EXCEPT ![k] = r]
                         /\ r.todo = loop[k].todo /\ r.bad = bad
  <2> DEFINE r == [loop[k] EXCEPT !.pc = "count", !.bad = bad]
  <2>1. loop[k] \in Loops /\ InRound(loop[k]) BY DEF IInv, Typed, RoundsHandleSeen
  <2>2. r \in Loops /\ InRound(r) /\ r.todo = loop[k].todo /\ r.bad = bad
    BY <1>2, <2>1 DEF Loops, PCs, InRound
  <2>3. QED BY <1>3, <2>2
<1>5. QED BY <1>2, <1>4, LoopStepInv DEF Probe

LEMMA CaptureInv == ASSUME IInv, NEW k \in Conns, Capture(k) PROVE IInv'
<1> DEFINE s == Min(loop[k].todo)
<1>1. loop[k] \in Loops /\ InRound(loop[k]) /\ loop[k].todo # {}
  BY DEF Capture, IInv, Typed, RoundsHandleSeen, InRound
<1>2. s \in loop[k].todo BY <1>1, MinInSet DEF Loops
<1>3. PICK got \in SUBSET {s} :
        loop' = [loop EXCEPT ![k].pc = "count", ![k].todo = @ \ {s}, ![k].took = @ \cup got]
  BY DEF Capture
<1> HIDE DEF s
<1>4. PICK r \in Loops : /\ InRound(r) /\ loop' = [loop EXCEPT ![k] = r]
                         /\ r.todo \subseteq loop[k].todo /\ r.bad = loop[k].bad
  <2> DEFINE r == [loop[k] EXCEPT !.pc = "count", !.todo = loop[k].todo \ {s},
                                  !.took = loop[k].took \cup got]
  <2>1. r \in Loops /\ InRound(r) /\ r.todo \subseteq loop[k].todo /\ r.bad = loop[k].bad
    BY <1>1, <1>2, <1>3 DEF Loops, PCs, InRound
  <2>2. loop' = [loop EXCEPT ![k] = r] BY <1>1, <1>3 DEF IInv, Typed, Loops
  <2>3. QED BY <2>1, <2>2
<1>5. QED BY <1>4, LoopStepInv DEF Capture

\* A result that ends a streak: of the live round it is about a container that works,
\* and of an older round it cuts the streak.
LEMMA CountOKInv == ASSUME IInv, NEW k \in Conns, CountOK(k) PROVE IInv'
<1> DEFINE s == Min(loop[k].todo)
<1> USE DEF IInv, envVars
<1>1. loop[k] \in Loops /\ InRound(loop[k]) /\ loop[k].todo # {} /\ loop[k].pc = "count"
  BY DEF CountOK, Typed, RoundsHandleSeen
<1>2. s \in loop[k].todo /\ s \in Keys /\ s \notin loop[k].bad
  BY <1>1, MinInSet DEF Loops, CountOK
<1>3. /\ checkFails' = [t \in Keys |-> IF t = s THEN 0 ELSE checkFails[t]]
      /\ loop' = [loop EXCEPT ![k].todo = @ \ {s}]
      /\ torn' = IF k \in dead THEN torn \cup ({s} \cap Watched) ELSE torn
      /\ UNCHANGED <<latest, unmonitored, capture, envVars, due>>
  BY DEF CountOK, Reset
<1> HIDE DEF s
<1>4. PICK r \in Loops : /\ InRound(r) /\ loop' = [loop EXCEPT ![k] = r] /\ r.pc = "count"
                         /\ r.todo = loop[k].todo \ {s} /\ r.bad = loop[k].bad
  <2> DEFINE r == [loop[k] EXCEPT !.todo = loop[k].todo \ {s}]
  <2>1. r \in Loops /\ InRound(r) /\ r.pc = "count" /\ r.todo = loop[k].todo \ {s}
        /\ r.bad = loop[k].bad
    BY <1>1 DEF Loops, InRound
  <2>2. loop' = [loop EXCEPT ![k] = r] BY <1>1, <1>3 DEF Typed, Loops
  <2>3. QED BY <2>1, <2>2
<1>5. Flags' BY <1>3 DEF Flags
<1>6. Typed'
  <2>1. checkFails' \in [Keys -> 0..Threshold + 1] BY <1>3, ConstantAssumption DEF Typed
  <2>2. torn' \subseteq Changing BY <1>3 DEF Typed, Watched
  <2>3. loop' \in [Conns -> Loops] BY <1>4 DEF Typed
  <2>4. QED BY <1>3, <2>1, <2>2, <2>3 DEF Typed
<1>7. RoundsHandleSeen' BY <1>4 DEF RoundsHandleSeen, Typed
<1>8. OneLive'
  <2>1. k <= conns BY <1>1, LiveIsLast DEF Typed
  <2>2. ASSUME NEW j \in Conns, j > conns PROVE loop'[j].pc = "off"
    <3>1. j # k BY <2>1, <2>2, ConstantAssumption DEF Conns, Typed
    <3>2. QED BY <1>4, <2>2, <3>1 DEF OneLive, Typed
  <2>3. QED BY <1>3, <2>2 DEF OneLive
<1>9. StreakStands'
  <2> SUFFICES ASSUME NEW t \in Changing, t \notin torn', due[t] > 0
               PROVE  /\ containers[t] # "up" /\ checkFails'[t] >= Threshold
                      /\ \A j \in Conns \ dead :
                           loop'[j].pc \in {"count", "log"} /\ t \in loop'[j].todo
                             => t \in loop'[j].bad
    BY <1>3 DEF StreakStands
  <2>1. t \notin torn BY <1>3
  <2>2. /\ containers[t] # "up" /\ checkFails[t] >= Threshold
        /\ \A j \in Conns \ dead : loop[j].pc \in {"count", "log"} /\ t \in loop[j].todo
                                     => t \in loop[j].bad
    BY <2>1 DEF StreakStands
  <2>3. t # s BY <1>1, <1>2, <1>3, <2>2 DEF Watched
  <2>4. t \in Keys BY ConstantAssumption
  <2>5. QED BY <1>1, <1>3, <1>4, <2>2, <2>3, <2>4 DEF Typed
<1>10. OnceUnlessTorn' BY <1>3 DEF OnceUnlessTorn
<1>11. QED BY <1>5, <1>6, <1>7, <1>8, <1>9, <1>10

\* A failure that is counted: a streak that stands only grows, so that an excerpt is due
\* at the threshold and not again.
LEMMA CountFailureInv == ASSUME IInv, NEW k \in Conns, CountFailure(k) PROVE IInv'
<1> DEFINE s == Min(loop[k].todo)
<1> DEFINE n == checkFails[s] + 1
<1> USE DEF IInv, envVars
<1>1. loop[k] \in Loops /\ InRound(loop[k]) /\ loop[k].todo # {} /\ loop[k].pc = "count"
  BY DEF CountFailure, Typed, RoundsHandleSeen
<1>2. s \in loop[k].todo /\ s \in Keys /\ s \in loop[k].bad
  BY <1>1, MinInSet DEF Loops, CountFailure
<1>3. /\ checkFails' = [checkFails EXCEPT ![s] = IF n > Threshold THEN Threshold + 1 ELSE n]
      /\ loop' = IF n = Threshold THEN [loop EXCEPT ![k].pc = "log"]
                                  ELSE [loop EXCEPT ![k].todo = @ \ {s}]
      /\ due' = IF n = Threshold /\ k \notin dead /\ s \in Watched
                THEN [due EXCEPT ![s] = IF @ = 2 THEN 2 ELSE @ + 1] ELSE due
      /\ UNCHANGED <<latest, unmonitored, capture, envVars, torn>>
  BY DEF CountFailure, AtEdge
<1> HIDE DEF s
<1>4. PICK r \in Loops : /\ InRound(r) /\ loop' = [loop EXCEPT ![k] = r]
                         /\ r.todo \subseteq loop[k].todo /\ r.bad = loop[k].bad
  <2>1. CASE n = Threshold
    <3> DEFINE r == [loop[k] EXCEPT !.pc = "log"]
    <3>1. r \in Loops /\ InRound(r) /\ r.todo = loop[k].todo /\ r.bad = loop[k].bad
      BY <1>1 DEF Loops, InRound, PCs
    <3>2. loop' = [loop EXCEPT ![k] = r] BY <1>1, <1>3, <2>1 DEF Typed, Loops
    <3>3. QED BY <3>1, <3>2
  <2>2. CASE n # Threshold
    <3> DEFINE r == [loop[k] EXCEPT !.todo = loop[k].todo \ {s}]
    <3>1. r \in Loops /\ InRound(r) /\ r.todo \subseteq loop[k].todo /\ r.bad = loop[k].bad
      BY <1>1 DEF Loops, InRound
    <3>2. loop' = [loop EXCEPT ![k] = r] BY <1>1, <1>3, <2>2 DEF Typed, Loops
    <3>3. QED BY <3>1, <3>2
  <2>3. QED BY <2>1, <2>2
<1>5. Flags' BY <1>3 DEF Flags
<1>6. checkFails[s] \in 0..(Threshold + 1) /\ Threshold \in Nat /\ Changing \subseteq Keys
  BY <1>2, ConstantAssumption DEF Typed
<1>7. Typed'
  <2>1. checkFails' \in [Keys -> 0..Threshold + 1] BY <1>2, <1>3, <1>6 DEF Typed
  <2>2. due' \in [Changing -> 0..2] BY <1>3 DEF Typed, Watched
  <2>3. loop' \in [Conns -> Loops] BY <1>4 DEF Typed
  <2>4. QED BY <1>3, <2>1, <2>2, <2>3 DEF Typed
<1>8. RoundsHandleSeen' BY <1>4 DEF RoundsHandleSeen, Typed
<1>9. OneLive'
  <2>1. k <= conns BY <1>1, LiveIsLast DEF Typed
  <2>2. ASSUME NEW j \in Conns, j > conns PROVE loop'[j].pc = "off"
    <3>1. j # k BY <2>1, <2>2, ConstantAssumption DEF Conns, Typed
    <3>2. QED BY <1>4, <2>2, <3>1 DEF OneLive, Typed
  <2>3. QED BY <1>3, <2>2 DEF OneLive
<1>10. StreakStands'
  <2> SUFFICES ASSUME NEW t \in Changing, t \notin torn, due'[t] > 0
               PROVE  /\ containers[t] # "up" /\ checkFails'[t] >= Threshold
                      /\ \A j \in Conns \ dead :
                           loop'[j].pc \in {"count", "log"} /\ t \in loop'[j].todo
                             => t \in loop'[j].bad
    BY <1>3 DEF StreakStands
  <2>1. t \in Keys BY <1>6
  <2>2. CASE due[t] > 0
    <3>1. /\ containers[t] # "up" /\ checkFails[t] >= Threshold
          /\ \A j \in Conns \ dead : loop[j].pc \in {"count", "log"} /\ t \in loop[j].todo
                                       => t \in loop[j].bad
      BY <2>2 DEF StreakStands
    <3>2. checkFails'[t] >= Threshold BY <1>2, <1>3, <1>6, <2>1, <3>1 DEF Typed
    <3>3. QED BY <1>1, <1>4, <3>1, <3>2 DEF Typed
  <2>3. CASE ~(due[t] > 0)
    <3>1. due[t] \in 0..2 BY DEF Typed
    <3>2. t = s /\ n = Threshold /\ k \notin dead /\ s \in Watched
      BY <1>3, <2>3, <3>1 DEF Typed
    <3>3. \A j \in Conns \ dead : j # k => loop[j].pc = "off"
      BY <1>1, <3>2, LiveIsLast
    <3>4. containers[t] # "up" /\ checkFails'[t] >= Threshold
      BY <1>2, <1>3, <1>6, <3>2 DEF Typed, Watched
    <3>5. QED BY <1>2, <1>4, <3>2, <3>3, <3>4 DEF Typed
  <2>4. QED BY <2>2, <2>3
<1>11. OnceUnlessTorn'
  <2> SUFFICES ASSUME NEW t \in Changing, due'[t] > 1, t \notin torn PROVE FALSE
    BY <1>3 DEF OnceUnlessTorn
  <2>1. due[t] \in 0..2 /\ ~(due[t] > 1) BY DEF OnceUnlessTorn, Typed
  <2>2. t = s /\ n = Threshold /\ due[t] > 0 BY <1>3, <2>1 DEF Typed
  <2>3. checkFails[t] >= Threshold BY <2>2 DEF StreakStands
  <2>4. QED BY <1>6, <2>2, <2>3
<1>12. QED BY <1>5, <1>7, <1>8, <1>9, <1>10, <1>11

\* The end of a round cuts the streaks of the services it did not see.
LEMMA PruneInv == ASSUME IInv, NEW k \in Conns, Prune(k) PROVE IInv'
<1> USE DEF IInv, envVars
<1>1. PICK r \in Loops : InRound(r) /\ r.pc = "idle" /\ loop' = [loop EXCEPT ![k] = r]
  BY IdleRound DEF Prune
<1>2. /\ checkFails' = [t \in Keys |-> IF t \in Pruned(k) THEN 0 ELSE checkFails[t]]
      /\ torn' = torn \cup (Pruned(k) \cap Watched)
      /\ UNCHANGED <<latest, unmonitored, capture, envVars, due>>
      /\ loop[k].pc = "count"
  BY DEF Prune, Reset
<1>3. Flags' BY <1>2 DEF Flags
<1>4. Typed'
  <2>1. checkFails' \in [Keys -> 0..Threshold + 1] BY <1>2, ConstantAssumption DEF Typed
  <2>2. torn' \subseteq Changing BY <1>2 DEF Typed, Watched
  <2>3. loop' \in [Conns -> Loops] BY <1>1 DEF Typed
  <2>4. QED BY <1>2, <2>1, <2>2, <2>3 DEF Typed
<1>5. RoundsHandleSeen' BY <1>1 DEF RoundsHandleSeen, Typed
<1>6. OneLive'
  <2>1. k <= conns BY <1>2, LiveIsLast DEF Typed
  <2>2. ASSUME NEW j \in Conns, j > conns PROVE loop'[j].pc = "off"
    <3>1. j # k BY <2>1, <2>2, ConstantAssumption DEF Conns, Typed
    <3>2. QED BY <1>1, <2>2, <3>1 DEF OneLive, Typed
  <2>3. QED BY <1>2, <2>2 DEF OneLive
<1>7. StreakStands'
  <2> SUFFICES ASSUME NEW t \in Changing, t \notin torn', due[t] > 0
               PROVE  /\ containers[t] # "up" /\ checkFails'[t] >= Threshold
                      /\ \A j \in Conns \ dead :
                           loop'[j].pc \in {"count", "log"} /\ t \in loop'[j].todo
                             => t \in loop'[j].bad
    BY <1>2 DEF StreakStands
  <2>1. t \notin torn /\ t \in Keys BY <1>2, ConstantAssumption
  <2>2. /\ containers[t] # "up" /\ checkFails[t] >= Threshold
        /\ \A j \in Conns \ dead : loop[j].pc \in {"count", "log"} /\ t \in loop[j].todo
                                     => t \in loop[j].bad
    BY <2>1 DEF StreakStands
  <2>3. t \notin Pruned(k) BY <1>2, <2>2 DEF Watched
  <2>4. QED BY <1>1, <1>2, <2>1, <2>2, <2>3 DEF Typed
<1>8. OnceUnlessTorn' BY <1>2 DEF OnceUnlessTorn
<1>9. QED BY <1>3, <1>4, <1>5, <1>6, <1>7, <1>8

LEMMA NextInv == IInv /\ [Next]_vars => IInv'
<1> SUFFICES ASSUME IInv, [Next]_vars PROVE IInv' OBVIOUS
<1>1. CASE UNCHANGED vars
  BY <1>1 DEF vars, collVars, envVars, obsVars, IInv, Flags, Typed, RoundsHandleSeen,
     OneLive, StreakStands, OnceUnlessTorn
<1>2. CASE \/ List \/ OnReconcile \/ ApplyConfig
           \/ \E k \in Conns : Scan(k) \/ Disconnect(k)
  BY <1>2, SurroundingsInv
<1>3. CASE Accept BY <1>3, AcceptInv
<1>4. ASSUME NEW s \in Changing, ContainerChanges(s) PROVE IInv' BY <1>4, ContainerChangesInv
<1>5. ASSUME NEW k \in Conns, Round(k) \/ LoopExit(k) PROVE IInv'
  BY <1>5, RunChecksInv, ProbeInv, CountOKInv, CountFailureInv, CaptureInv, PruneInv, LoopExitInv
  DEF Round
<1>6. QED BY <1>1, <1>2, <1>3, <1>4, <1>5 DEF Next

LEMMA Invariant == Spec => []IInv
BY InitInv, NextInv, PTL DEF Spec

----------------------------------------------------------------------------
(* The theorems. *)

\* The check loops of any number of connections keep every variable in its type: a
\* round only ever handles, finds bad or takes an excerpt for services of the list it
\* read at its start, whatever replaces c.latest meanwhile.
THEOREM TypeCorrect == Spec => []TypeOK
<1>1. IInv => TypeOK
  <2> SUFFICES ASSUME IInv PROVE TypeOK OBVIOUS
  <2>1. ASSUME NEW k \in Conns
        PROVE  /\ loop[k].pc \in PCs /\ loop[k].seen \subseteq Keys
               /\ loop[k].todo \subseteq loop[k].seen
               /\ loop[k].bad \subseteq loop[k].seen
               /\ loop[k].took \subseteq loop[k].seen
    BY DEF IInv, Typed, Loops, RoundsHandleSeen, InRound
  <2>2. QED BY <2>1 DEF IInv, Flags, Typed, TypeOK
<1>2. QED BY <1>1, Invariant, PTL

\* captureOnCheckFailures fires once per failing episode for any threshold, any number
\* of services, and the rounds of any number of lost connections running beside the live
\* one, unless a round of theirs, or a list without the service, cut the streak.
THEOREM OneExcerptPerEpisode == Spec => []OnceUnlessTorn
<1>1. IInv => OnceUnlessTorn BY DEF IInv
<1>2. QED BY <1>1, Invariant, PTL

----------------------------------------------------------------------------
(* The opt-out from log excerpts. *)

\* What is left of the promise OptOutHonoured, which the code breaks: no excerpt is
\* taken against its label for a service whose container keeps running and is inspected
\* with success every time. logModeFor looks the label up in a list that may be newer
\* than the round's, but every list of the reconciler and of the discovery loop holds
\* these containers.
OptOutOfRunning == \A k \in Conns : loop[k].took \cap LabelOff \subseteq Changing \cup Flaky

\* Such a container is on every list but the empty one before the first cycle, and a
\* round only works from a list there is.
Steady == Keys \ (Changing \cup Flaky)

SteadyListed ==
  /\ \A s \in Steady : containers[s] = "up"
  /\ cycle => Steady \subseteq listed
  /\ latest = {} \/ Steady \subseteq latest
  /\ \A k \in Conns : loop[k].pc \in {"probe", "count", "log"} => Steady \subseteq latest

OptInv == SteadyListed /\ OptOutOfRunning

LEMMA InitOptInv == Init => OptInv
BY IdleRound DEF Init, OptInv, SteadyListed, Steady, OptOutOfRunning, Off

\* The lists that replace one another hold what keeps running.
LEMMA ListsOptInv ==
  ASSUME IInv, OptInv,
         \/ List \/ OnReconcile \/ ApplyConfig \/ Accept
         \/ \E s \in Changing : ContainerChanges(s)
         \/ \E k \in Conns : Scan(k) \/ Disconnect(k)
  PROVE  OptInv'
<1> USE DEF OptInv, SteadyListed, OptOutOfRunning, collVars, envVars, obsVars
<1>1. CASE List
  <2>1. Steady \subseteq Running \ Flaky BY DEF Steady, Running
  <2>2. Steady \subseteq listed' BY <1>1, <2>1 DEF List
  <2>3. QED BY <1>1, <2>2 DEF List
<1>2. CASE OnReconcile BY <1>2 DEF OnReconcile
<1>3. CASE ApplyConfig BY <1>3 DEF ApplyConfig
<1>4. CASE Accept
  <2>1. \A k \in Conns : loop'[k] = loop[k] \/ (loop'[k].pc = "idle" /\ loop'[k].took = {})
    BY <1>4 DEF Accept, Off, IInv, Typed
  <2>2. QED BY <1>4, <2>1 DEF Accept
<1>5. ASSUME NEW s \in Changing, ContainerChanges(s) PROVE OptInv'
  <2>1. \A t \in Steady : containers'[t] = containers[t]
    BY <1>5 DEF ContainerChanges, Steady, IInv, Typed
  <2>2. QED BY <1>5, <2>1 DEF ContainerChanges
<1>6. ASSUME NEW k \in Conns, Scan(k) PROVE OptInv'
  <2>1. Steady \subseteq Keys \ Flaky BY DEF Steady
  <2>2. Steady \subseteq latest' BY <1>6, <2>1 DEF Scan
  <2>3. QED BY <1>6, <2>2 DEF Scan
<1>7. ASSUME NEW k \in Conns, Disconnect(k) PROVE OptInv' BY <1>7 DEF Disconnect
<1>8. QED BY <1>1, <1>2, <1>3, <1>4, <1>5, <1>6, <1>7

\* A step of connection k's loop that starts no round without a list and takes no
\* excerpt against the label of a container that is on every list.
LEMMA RoundOptInv ==
  ASSUME IInv, OptInv, NEW k \in Conns,
         UNCHANGED <<latest, envVars>>,
         \A j \in Conns : j # k => loop'[j] = loop[j],
         \/ loop'[k].pc \notin {"probe", "count", "log"}
         \/ loop[k].pc \in {"probe", "count", "log"}
         \/ latest # {},
         loop'[k].took \cap LabelOff \subseteq (loop[k].took \cap LabelOff) \cup Changing \cup Flaky
  PROVE  OptInv'
BY DEF OptInv, SteadyListed, OptOutOfRunning, envVars

LEMMA CaptureOptInv == ASSUME IInv, OptInv, NEW k \in Conns, Capture(k) PROVE OptInv'
<1> DEFINE s == Min(loop[k].todo)
<1>1. loop[k] \in Loops /\ loop[k].todo # {} /\ loop[k].pc = "log"
  BY DEF Capture, IInv, Typed, RoundsHandleSeen, InRound
<1>2. s \in Keys BY <1>1, MinInSet DEF Loops
<1>3. PICK got \in SUBSET {s} :
        /\ got # {} => Captures(s)
        /\ loop' = [loop EXCEPT ![k].pc = "count", ![k].todo = @ \ {s}, ![k].took = @ \cup got]
  BY DEF Capture
<1> HIDE DEF s
<1>4. Steady \subseteq latest BY <1>1 DEF OptInv, SteadyListed
<1>5. got \cap LabelOff \subseteq Changing \cup Flaky BY <1>2, <1>3, <1>4 DEF Captures, Steady
<1>6. loop'[k].took = loop[k].took \cup got /\ \A j \in Conns : j # k => loop'[j] = loop[j]
  BY <1>1, <1>3 DEF IInv, Typed, Loops
<1>7. UNCHANGED <<latest, envVars>> BY DEF Capture, collVars
<1>8. loop'[k].took \cap LabelOff \subseteq (loop[k].took \cap LabelOff) \cup Changing \cup Flaky
  BY <1>5, <1>6
<1>9. QED BY <1>1, <1>6, <1>7, <1>8, RoundOptInv

LEMMA NextOptInv == IInv /\ OptInv /\ [Next]_vars => OptInv'
<1> SUFFICES ASSUME IInv, OptInv, [Next]_vars PROVE OptInv' OBVIOUS
<1>1. CASE UNCHANGED vars
  BY <1>1 DEF vars, collVars, envVars, obsVars, OptInv, SteadyListed, OptOutOfRunning
<1>2. CASE \/ List \/ OnReconcile \/ ApplyConfig \/ Accept
           \/ \E s \in Changing : ContainerChanges(s)
           \/ \E k \in Conns : Scan(k) \/ Disconnect(k)
  BY <1>2, ListsOptInv
<1>3. ASSUME NEW k \in Conns, RunChecks(k) \/ LoopExit(k) \/ Prune(k) PROVE OptInv'
  <2>1. UNCHANGED <<latest, envVars>> BY <1>3 DEF RunChecks, LoopExit, Prune, collVars
  <2>2. /\ \A j \in Conns : j # k => loop'[j] = loop[j]
        /\ loop'[k].took = {}
        /\ loop'[k].pc \notin {"probe", "count", "log"} \/ latest # {}
    <3>1. PICK r : /\ loop' = [loop EXCEPT ![k] = r] /\ r.took = {}
                   /\ r.pc \in {"off", "idle"} \/ latest # {}
      <4>1. CASE RunChecks(k)
        <5> DEFINE r == [Off EXCEPT !.pc = "probe", !.seen = latest, !.todo = latest]
        <5>1. r.took = {} /\ (latest # {}) BY <4>1 DEF Off, RunChecks
        <5>2. loop' = [loop EXCEPT ![k] = r] BY <4>1 DEF RunChecks
        <5> HIDE DEF r
        <5>3. QED BY <5>1, <5>2
      <4>2. CASE LoopExit(k)
        <5> DEFINE r == Off
        <5>1. r.took = {} /\ (r.pc = "off") BY <4>2 DEF Off, LoopExit
        <5>2. loop' = [loop EXCEPT ![k] = r] BY <4>2 DEF LoopExit
        <5> HIDE DEF r
        <5>3. QED BY <5>1, <5>2
      <4>3. CASE Prune(k)
        <5> DEFINE r == [Off EXCEPT !.pc = "idle"]
        <5>1. r.took = {} /\ (r.pc = "idle") BY <4>3 DEF Off, Prune
        <5>2. loop' = [loop EXCEPT ![k] = r] BY <4>3 DEF Prune
        <5> HIDE DEF r
        <5>3. QED BY <5>1, <5>2
      <4>4. QED BY <1>3, <4>1, <4>2, <4>3
    <3>2. QED BY <3>1 DEF IInv, Typed
  <2>3. QED BY <2>1, <2>2, RoundOptInv
<1>4. ASSUME NEW k \in Conns, Probe(k) \/ CountOK(k) \/ CountFailure(k) PROVE OptInv'
  <2>1. UNCHANGED <<latest, envVars>> /\ loop[k].pc \in {"probe", "count", "log"}
    BY <1>4 DEF Probe, CountOK, CountFailure, collVars
  <2>2. loop[k] \in Loops BY DEF IInv, Typed
  <2>3. (\A j \in Conns : j # k => loop'[j] = loop[j]) /\ loop'[k].took = loop[k].took
    <3>1. CASE Probe(k) BY <2>2, <3>1 DEF Probe, IInv, Typed, Loops
    <3>2. CASE CountOK(k) BY <2>2, <3>2 DEF CountOK, IInv, Typed, Loops
    <3>3. CASE CountFailure(k) BY <2>2, <3>3 DEF CountFailure, IInv, Typed, Loops
    <3>4. QED BY <1>4, <3>1, <3>2, <3>3
  <2>4. QED BY <2>1, <2>3, RoundOptInv
<1>5. ASSUME NEW k \in Conns, Capture(k) PROVE OptInv' BY <1>5, CaptureOptInv
<1>6. QED BY <1>1, <1>2, <1>3, <1>4, <1>5 DEF Next, Round

\* docktail.cloud.logs=off holds for every container that keeps running and whose
\* inspections succeed, whatever the other containers do, whichever inspections of theirs
\* fail, however often the cloud pushes a configuration and however many connections are
\* lost: an excerpt against the label needs a container that changes or that some list
\* missed.
THEOREM OptOutWhileRunning == Spec => []OptOutOfRunning
<1>1. OptInv => OptOutOfRunning BY DEF OptInv
<1>2. QED BY <1>1, InitOptInv, NextOptInv, Invariant, PTL DEF Spec
=============================================================================
