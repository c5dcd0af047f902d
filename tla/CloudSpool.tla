----------------------------- MODULE CloudSpool -----------------------------
(***************************************************************************)
(* How a failure signal travels from the collector to DockTail Cloud       *)
(* (cloud.Collector.sendOrSpool, spool, replaySpool, wsConn): straight     *)
(* into the send queue of the current connection, or into the bounded      *)
(* in-memory spool when there is none or its queue is full, from where the *)
(* replayers of the next connection that takes it send it.                 *)
(*                                                                         *)
(* The goroutines are the reconciler's loop that calls OnEvent, the check  *)
(* loop that captures logs, a write pump and two replayers per connection, *)
(* and the session that publishes and clears the connection.  Goroutines   *)
(* of a broken connection run on beside those of the next one.  How a      *)
(* connection comes to be accepted is the business of CloudSession.        *)
(***************************************************************************)
EXTENDS Naturals, Sequences, FiniteSetsExt

CONSTANTS
  MaxFrames,   \* bound on the signals observed; signal f is the f-th one
  Size,        \* [SUBSET Frames -> Nat]: the bytes of the encoded signals of a set
  MaxConns,    \* bound on connections; the last one stays up
  SendBuffer,  \* sendBuffer
  MaxEntries,  \* spoolMaxEntries
  MaxBytes,    \* spoolMaxBytes
  MaxAge,      \* spoolMaxAge
  MaxTime,     \* bound on the clock
  MaxConfigs,  \* bound on configurations pushed by the cloud
  MaxCaptures  \* bound on the signals that come from the check loop

Frames == 1..MaxFrames
Conns == 1..MaxConns
NoConn == 0

\* OnEvent runs on the reconciler's goroutine, captureOnCheckFailures on that of
\* the check loop.
Producers == {"watch", "check"}
\* Each connection replays once after it was accepted, then on a ticker.
Replayers == Conns \X {"post", "loop"}
Nobody == <<NoConn, "post">>

ASSUME ConstantAssumption ==
  /\ MaxFrames \in Nat /\ MaxConns \in Nat
  /\ Size \in [SUBSET Frames -> Nat]
  /\ \A F, G \in SUBSET Frames : F \cap G = {} => Size[F \cup G] = Size[F] + Size[G]
  /\ SendBuffer \in Nat \ {0} /\ MaxEntries \in Nat \ {0} /\ MaxBytes \in Nat
  /\ MaxAge \in Nat /\ MaxTime \in Nat /\ MaxConfigs \in Nat
  /\ MaxCaptures \in Nat

VARIABLES
  \* the collector
  cur,         \* c.conn
  unmonitored, \* c.unmonitored
  spool,       \* c.offline.entries: a sequence of [frame, at]
  replayMu,    \* the replayer that holds c.offline.replayMu
  hand,        \* [Producers -> [pc, frame, conn]]: sendOrSpool in progress
  rpc, batch,  \* per replayer: where it is, what it drained and has not sent
  \* the connections
  conns,       \* connections accepted so far
  queue,       \* [Conns -> Seq(Frames)]: wsConn.send
  closed,      \* connections that are closed
  ended,       \* connections whose session returned: their context is cancelled
  \* the surroundings
  now, configs,
  \* observers
  fate, born, by,  \* per signal: its fate, when and by whom it was observed
  replayed,        \* signals that went through a replay
  written          \* the signals put on the wire, in order

collVars == <<cur, unmonitored, spool, replayMu>>
connVars == <<conns, queue, closed, ended>>
envVars  == <<now, configs>>
obsVars  == <<fate, born, by, replayed, written>>
vars == <<cur, unmonitored, spool, replayMu, hand, rpc, batch, conns, queue, closed,
          ended, now, configs, fate, born, by, replayed, written>>

Idle == [pc |-> "idle", frame |-> 0, conn |-> NoConn]

Init ==
  /\ cur = NoConn /\ unmonitored = FALSE /\ spool = <<>> /\ replayMu = Nobody
  /\ hand = [p \in Producers |-> Idle]
  /\ rpc = [r \in Replayers |-> "off"] /\ batch = [r \in Replayers |-> <<>>]
  /\ conns = 0 /\ queue = [k \in Conns |-> <<>>] /\ closed = {} /\ ended = {}
  /\ now = 0 /\ configs = 0
  /\ fate = [f \in Frames |-> "unseen"] /\ born = [f \in Frames |-> 0]
  /\ by = [f \in Frames |-> "watch"] /\ replayed = {} /\ written = <<>>

\* The frames in F meet the same fate; the time they were observed is kept while
\* they are held.
Become(F, end) ==
  /\ fate' = [f \in Frames |-> IF f \in F THEN end ELSE fate[f]]
  /\ born' = [f \in Frames |-> IF f \notin F THEN born[f] ELSE IF end = "held" THEN now ELSE 0]

----------------------------------------------------------------------------
(* The spool. *)

FramesOf(s) == {s[i].frame : i \in DOMAIN s}
Bytes(s) == Size[FramesOf(s)]  \* no signal is in the spool twice

\* A single frame is kept however large it is.
FitsCaps(s) == Len(s) <= MaxEntries /\ (Bytes(s) <= MaxBytes \/ Len(s) <= 1)
\* enforceCaps: the oldest entries are dropped until the rest fits.
EnforceCaps(s) ==
  SubSeq(s, 1 + Min({n \in 0..Len(s) : FitsCaps(SubSeq(s, n + 1, Len(s)))}), Len(s))

\* Mutant: the caps are not enforced.
StoreUncapped(s) == spool' = s /\ Become({}, "evicted")
\* The spool becomes s, as far as it fits.
Store(s) ==
  /\ spool' = EnforceCaps(s)
  /\ Become(FramesOf(s) \ FramesOf(EnforceCaps(s)), "evicted")

\* drain: what is still worth sending.
Young(e) == now - e.at <= MaxAge

\* unshift: in front, with a new observation time.
Unshift(envs) == [i \in DOMAIN envs |-> [frame |-> envs[i], at |-> now]] \o spool

----------------------------------------------------------------------------
(* sendOrSpool, called with a connection and a monitored flag read earlier. *)

\* Signals are numbered in the order they are observed.
Newest(f) == fate[f] = "unseen" /\ \A g \in 1..(f - 1) : fate[g] # "unseen"

\* With no connection, or one that sendFrame's first select finds closed, the frame
\* is for the spool.
Takes(p, f, k) ==
  /\ Become({f}, "held")
  /\ hand' = [hand EXCEPT ![p] = [pc |-> IF k \in closed \cup {NoConn} THEN "spool" ELSE "push",
                                  frame |-> f, conn |-> k]]

Observed(p, f) ==
  /\ Newest(f)
  /\ by' = [by EXCEPT ![f] = p]
  /\ UNCHANGED <<collVars, rpc, batch, connVars, envVars, replayed, written>>

\* OnEvent reads c.conn and the flag once for all the frames of the event.
OnEvent(f) ==
  /\ hand["watch"].pc \in {"idle", "more"}
  /\ IF unmonitored THEN Become({f}, "muted") /\ hand' = [hand EXCEPT !["watch"] = Idle]
                    ELSE Takes("watch", f, cur)
  /\ Observed("watch", f)

\* captureAndSend on the check loop of connection k, which may be gone from c.conn;
\* runChecks read the flag before it probed.
CheckCapture(f, k) ==
  /\ hand["check"].pc = "idle"
  /\ k \in 1..conns /\ Cardinality({g \in Frames : by[g] = "check"}) < MaxCaptures
  /\ Takes("check", f, k)
  /\ Observed("check", f)

\* Another frame of the same event: of another service of the container, or the log
\* excerpt.
NextFrame(f) ==
  /\ hand["watch"].pc = "more"
  /\ Takes("watch", f, hand["watch"].conn)
  /\ Observed("watch", f)

\* sendOrSpool returns; the event may have more frames.
Kept(p) ==
  hand' = [hand EXCEPT ![p] =
             IF p = "watch" THEN [pc |-> "more", frame |-> 0, conn |-> hand[p].conn] ELSE Idle]

\* The frame is in k's queue; if k broke since the check, it is in there for good.
Enqueued(k, f) ==
  /\ Len(queue[k]) < SendBuffer
  /\ queue' = [queue EXCEPT ![k] = Append(@, f)]
  /\ IF k \in closed THEN Become({f}, "broken") ELSE UNCHANGED <<fate, born>>

\* sendFrame, the second select: room in the queue.
SendPush(p) ==
  /\ hand[p].pc = "push"
  /\ Enqueued(hand[p].conn, hand[p].frame)
  /\ Kept(p)
  /\ UNCHANGED <<collVars, rpc, batch, conns, closed, ended, envVars, by, replayed,
                 written>>

\* sendFrame, the second select: closed meanwhile, or full.
SendRefused(p) ==
  /\ hand[p].pc = "push"
  /\ hand[p].conn \in closed \/ Len(queue[hand[p].conn]) = SendBuffer
  /\ hand' = [hand EXCEPT ![p].pc = "spool"]
  /\ UNCHANGED <<collVars, rpc, batch, connVars, envVars, obsVars>>

\* spool.add
SpoolAdd(p) ==
  /\ hand[p].pc = "spool"
  /\ Store(Append(spool, [frame |-> hand[p].frame, at |-> now]))
  /\ Kept(p)
  /\ UNCHANGED <<cur, unmonitored, replayMu, rpc, batch, connVars, envVars, by, replayed, written>>

----------------------------------------------------------------------------
(* Connections. *)

\* session, once the hello is accepted: setConn publishes the connection before
\* anything is replayed on it.
Accept ==
  /\ cur = NoConn /\ conns < MaxConns
  /\ conns' = conns + 1 /\ cur' = conns + 1
  /\ rpc' = [rpc EXCEPT ![<<conns + 1, "post">>] = "idle", ![<<conns + 1, "loop">>] = "idle"]
  /\ UNCHANGED <<unmonitored, spool, replayMu, hand, batch, queue, closed, ended, envVars,
                 obsVars>>

\* The connection is closed; what its queue holds is never written.
Closes(k, lost) ==
  /\ k < MaxConns
  /\ closed' = closed \cup {k}
  /\ Become(lost, "broken")

\* wsConn.run: the read loop ends with an error, a missed pong or a close frame.
ReadFails(k) ==
  /\ k \in 1..conns \ closed
  /\ Closes(k, Range(queue[k]))
  /\ UNCHANGED <<collVars, hand, rpc, batch, conns, queue, ended, envVars, by, replayed, written>>

\* writePump: the frame at the head is written.
PumpWrite(k) ==
  /\ k \in 1..conns \ closed /\ queue[k] # <<>>
  /\ queue' = [queue EXCEPT ![k] = Tail(@)]
  /\ Become({Head(queue[k])}, "written")
  /\ written' = Append(written, Head(queue[k]))
  /\ UNCHANGED <<collVars, hand, rpc, batch, conns, closed, ended, envVars, by, replayed>>

\* Mutant: a failed write loses the frame and goes on with the next one.
PumpFailsOpen(k) ==
  /\ k \in 1..conns \ closed /\ queue[k] # <<>> /\ k < MaxConns
  /\ queue' = [queue EXCEPT ![k] = Tail(@)]
  /\ Become({Head(queue[k])}, "broken")
  /\ UNCHANGED <<collVars, hand, rpc, batch, conns, closed, ended, envVars, by, replayed, written>>
\* writePump: the write of the frame at the head fails, which closes the connection.
PumpFails(k) ==
  /\ k \in 1..conns \ closed /\ queue[k] # <<>>
  /\ queue' = [queue EXCEPT ![k] = Tail(@)]
  /\ Closes(k, Range(queue[k]))
  /\ UNCHANGED <<collVars, hand, rpc, batch, conns, ended, envVars, by, replayed,
                 written>>

\* Mutant: the session returns without waiting for the connection's goroutines.
SessionEndsOpen(k) ==
  /\ k \in Conns /\ cur = k
  /\ cur' = NoConn /\ ended' = ended \cup {k}
  /\ UNCHANGED <<unmonitored, spool, replayMu, hand, rpc, batch, conns, queue, closed, envVars,
                 obsVars>>
\* session: run returned, clearConn, and the deferred connCancel.
SessionEnds(k) ==
  /\ k \in closed /\ cur = k
  /\ cur' = NoConn /\ ended' = ended \cup {k}
  /\ UNCHANGED <<unmonitored, spool, replayMu, hand, rpc, batch, conns, queue, closed, envVars,
                 obsVars>>

\* applyConfig: the cloud says whether the host is monitored, on a connection that may
\* not be published yet or is just being torn down.
ApplyConfig ==
  /\ configs < MaxConfigs /\ configs' = configs + 1
  /\ unmonitored' = ~unmonitored
  /\ UNCHANGED <<cur, spool, replayMu, hand, rpc, batch, connVars, now, obsVars>>

Tick ==
  /\ now < MaxTime /\ now' = now + 1
  /\ UNCHANGED <<collVars, hand, rpc, batch, connVars, configs, obsVars>>

----------------------------------------------------------------------------
(* replaySpool on connection r[1], by the post-accept goroutine or the loop. *)

\* Back to the caller: the goroutine after accept replays once, the loop waits for
\* its next tick.
Returns(r) == rpc' = [rpc EXCEPT ![r] = IF r[2] = "post" THEN "off" ELSE "idle"]

\* The loop leaves when the session's context is cancelled.
ReplayExit(r) ==
  /\ rpc[r] = "idle" /\ r[2] = "loop" /\ r[1] \in ended
  /\ rpc' = [rpc EXCEPT ![r] = "off"]
  /\ UNCHANGED <<collVars, hand, batch, connVars, envVars, obsVars>>

\* Nothing was spooled: a look at the length, without the replay lock.
ReplayNothing(r) ==
  /\ rpc[r] = "idle" /\ r[2] = "post" /\ spool = <<>>
  /\ Returns(r)
  /\ UNCHANGED <<collVars, hand, batch, connVars, envVars, obsVars>>

\* The head of the loop over the rest b of the batch: done, give up, or send the next
\* frame (the context, then sendFrameWait's first select).
Proceed(r, b) ==
  /\ batch' = [batch EXCEPT ![r] = b]
  /\ IF b = <<>> THEN Returns(r) /\ replayMu' = Nobody
     ELSE /\ rpc' = [rpc EXCEPT ![r] = IF r[1] \in closed \cup ended THEN "back" ELSE "push"]
          /\ replayMu' = r

\* drain keeps what is young enough and empties the spool.
Drain(r) ==
  LET young == {i \in DOMAIN spool : Young(spool[i])} IN
  /\ \E kept \in [1..Cardinality(young) -> young] :
       /\ \A i, j \in DOMAIN kept : i < j => kept[i] < kept[j]
       /\ Proceed(r, [i \in DOMAIN kept |-> spool[kept[i]].frame])
  /\ Become({spool[i].frame : i \in DOMAIN spool \ young}, "aged")
  /\ spool' = <<>>

\* Mutant: replays are not serialised.
ReplayUnlocked(r) ==
  /\ rpc[r] = "idle" /\ spool # <<>> /\ ~unmonitored
  /\ Drain(r)
  /\ UNCHANGED <<cur, unmonitored, hand, connVars, envVars, by, replayed, written>>
\* Mutant: the retry loop does nothing.
ReplayOnce(r) ==
  /\ rpc[r] = "idle" /\ spool # <<>> /\ replayMu = Nobody /\ r[2] = "post"
  /\ IF unmonitored THEN /\ rpc' = [rpc EXCEPT ![r] = "discard"] /\ replayMu' = r
                         /\ UNCHANGED <<spool, batch, fate, born>>
                    ELSE Drain(r)
  /\ UNCHANGED <<cur, unmonitored, hand, connVars, envVars, by, replayed, written>>
\* The lock, the flag, and the drain of a monitored host. To wait for the lock is to
\* come back when it is free.
ReplayBegin(r) ==
  /\ rpc[r] = "idle" /\ spool # <<>> /\ replayMu = Nobody
  /\ IF unmonitored THEN /\ rpc' = [rpc EXCEPT ![r] = "discard"] /\ replayMu' = r
                         /\ UNCHANGED <<spool, batch, fate, born>>
                    ELSE Drain(r)
  /\ UNCHANGED <<cur, unmonitored, hand, connVars, envVars, by, replayed, written>>

\* discard: the flag was read a moment ago.
ReplayDiscard(r) ==
  /\ rpc[r] = "discard"
  /\ Become(FramesOf(spool), "muted")
  /\ spool' = <<>> /\ replayMu' = Nobody
  /\ Returns(r)
  /\ UNCHANGED <<cur, unmonitored, hand, batch, connVars, envVars, by, replayed, written>>

\* sendFrameWait: the queue has room.
ReplayPush(r) ==
  /\ rpc[r] = "push"
  /\ Enqueued(r[1], Head(batch[r]))
  /\ Proceed(r, Tail(batch[r]))
  /\ replayed' = replayed \cup {Head(batch[r])}
  /\ UNCHANGED <<cur, unmonitored, spool, hand, conns, closed, ended, envVars, by, written>>

\* The connection is gone, or its queue stayed full: put back what was not sent.
ReplayUnshift(r) ==
  /\ \/ rpc[r] = "back"
     \/ rpc[r] = "push" /\ (r[1] \in closed \/ Len(queue[r[1]]) = SendBuffer)
  /\ Store(Unshift(batch[r]))
  /\ batch' = [batch EXCEPT ![r] = <<>>]
  /\ replayMu' = Nobody
  /\ Returns(r)
  /\ UNCHANGED <<cur, unmonitored, hand, connVars, envVars, by, replayed, written>>

----------------------------------------------------------------------------
Producer(p) ==
  SendPush(p) \/ SendRefused(p) \/ SpoolAdd(p)
Replay(r) ==
  \/ ReplayExit(r) \/ ReplayNothing(r) \/ ReplayBegin(r) \/ ReplayDiscard(r)
  \/ ReplayPush(r) \/ ReplayUnshift(r)
Session == Accept \/ \E k \in Conns : SessionEnds(k)

Next ==
  \/ \E f \in Frames : OnEvent(f) \/ NextFrame(f) \/ \E k \in Conns : CheckCapture(f, k)
  \/ \E p \in Producers : Producer(p)
  \/ Session
  \/ \E k \in Conns : ReadFails(k) \/ PumpWrite(k) \/ PumpFails(k)
  \/ ApplyConfig \/ Tick
  \/ \E r \in Replayers : Replay(r)

Spec == Init /\ [][Next]_vars
\* Every goroutine keeps running, the collector reconnects for ever, a Go mutex
\* starves nobody, and a select that finds the context cancelled beside a tick takes
\* the former in the end: it chooses at random.
FairSpec ==
  /\ Spec /\ WF_vars(Session)
  /\ \A p \in Producers : WF_vars(Producer(p))
  /\ \A k \in Conns : WF_vars(PumpWrite(k))
  /\ \A r \in Replayers :
       WF_vars(Replay(r)) /\ SF_vars(ReplayBegin(r)) /\ SF_vars(ReplayExit(r))
----------------------------------------------------------------------------
(* Properties. *)

RPCs == {"off", "idle", "discard", "push", "back"}

TypeOK ==
  /\ cur \in Conns \cup {NoConn} /\ unmonitored \in BOOLEAN
  /\ spool \in Seq([frame : Frames, at : 0..MaxTime]) /\ replayMu \in Replayers \cup {Nobody}
  /\ hand \in [Producers -> [pc : {"idle", "more", "push", "spool"}, frame : 0..MaxFrames,
                             conn : Conns \cup {NoConn}]]
  /\ rpc \in [Replayers -> RPCs] /\ batch \in [Replayers -> Seq(Frames)]
  /\ conns \in 0..MaxConns /\ queue \in [Conns -> Seq(Frames)]
  /\ closed \subseteq Conns /\ ended \subseteq closed
  /\ now \in 0..MaxTime /\ configs \in 0..MaxConfigs
  /\ born \in [Frames -> 0..MaxTime] /\ by \in [Frames -> Producers]
  /\ replayed \subseteq Frames
  /\ written \in Seq(Frames)

\* What waits is bounded although a replay takes the whole spool out while new
\* signals come in: replays are serialised, so there is one batch at a time.
WaitingBounded ==
  /\ FitsCaps(spool)
  /\ \A r, q \in Replayers : r # q => batch[r] = <<>> \/ batch[q] = <<>>
  /\ \A r \in Replayers : Len(spool) + Len(batch[r]) <= 2 * MaxEntries

\* The cloud gets the signals of one goroutine in the order they were observed
\* ("a die that preceded a start still reads that way"), with one exception: a
\* fresh signal sent straight into a new connection overtakes older ones that still
\* wait for their replay. A failed replay never turns the order around.
OnlyFreshOvertakes ==
  \A i, j \in DOMAIN written :
    (i < j /\ by[written[i]] = by[written[j]] /\ written[i] > written[j]) =>
      written[i] \notin replayed /\ written[j] \in replayed

\* Every loss has a reason and every signal arrives at most once: see FailureSignals.
Signals == INSTANCE FailureSignals WITH
  breaks <- Cardinality(closed),
  muted <- unmonitored \/ \E r \in Replayers : rpc[r] = "discard",
  PerBreak <- SendBuffer + 1

\* The collector implements FailureSignals: a connection that breaks costs at most
\* its send queue and the frame in the pump's hand, a signal leaves the spool unsent
\* only when it is too old, does not fit, or the host is not monitored.
ImplementsFailureSignals == Signals!Spec

\* No signal waits for ever once a connection stays up: when no more are observed,
\* all of them have been written or lost for one of those reasons, also one that was
\* put back after the replay of a new connection found the spool empty.
EverySignalSettles == []<>(\A f \in Frames : fate[f] # "held")
=============================================================================
