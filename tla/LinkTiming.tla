---- MODULE LinkTiming ----
(* The clock of the WebSocket client, pkg/websocket/client.go: the heartbeat     *)
(* ticker with the ping that goes out behind every heartbeat, the read deadline  *)
(* that pongs and frames move on, the write under way that keeps messageLoop     *)
(* from its select, and the delays between dials. Time is an integer and passes  *)
(* only while nothing is due: a timer fires when it expires, and the bounds      *)
(* below are what is assumed of the socket and the network.                      *)
(* WSClient has the interleavings of the same goroutines, without the time.      *)
EXTENDS Integers

CONSTANTS
    HeartbeatInterval,  \* ping_interval of the configuration
    ReadTimeout, WriteTimeout,
    ReconnectInterval, MaxReconnectDelay,
    HandshakeTimeout,   \* 30 s in connect
    WriteDelay,         \* bound: time until the next heartbeat in outboundCh and its ping
                        \* are written, while the link lives
    RoundTrip,          \* bound: time from a ping to its pong, while the link lives
    MaxGap,             \* bound: time between two ticks whose heartbeat is not refused
    MaxLate,            \* bound: envelopes the select picks although the reader is done
    MaxTime             \* bound: the clock stops here

\* NewClient replaces a duration that is not positive by its default.
ASSUME TimingAssumption ==
    /\ HeartbeatInterval \in Nat \ {0} /\ ReadTimeout \in Nat \ {0}
    /\ WriteTimeout \in Nat \ {0} /\ MaxLate \in Nat
    /\ ReconnectInterval \in Nat \ {0} /\ MaxReconnectDelay \in Nat \ {0}
    /\ HandshakeTimeout \in Nat \ {0}
    /\ WriteDelay \in Nat /\ RoundTrip \in Nat /\ MaxTime \in Nat
    /\ MaxGap \in Nat /\ MaxGap >= HeartbeatInterval

VARIABLES
    now,
    phase,      \* connectionManager: in connect, in messageLoop, in one of its waits
    from, by,   \* when the dial or the wait began, and when it ends at the latest
    delay,      \* reconnectDelay
    tick,       \* when the heartbeat ticker fires next
    gapEnds,    \* bound: by then a tick's heartbeat is accepted
    queued,     \* heartbeats in outboundCh, with one being written
    writeBy,    \* when the next of them is written at the latest
    inHand,     \* what messageLoop is writing, a heartbeat with its ping or another envelope
    writeEnds,  \* when that write ends at the latest
    reader,     \* the connection's reader
    late,       \* history: envelopes taken on this connection after its reader was done
    pongs,      \* for each ping under way, when its pong is here at the latest
    deadline,   \* the read deadline of the connection
    alive,      \* the far end of the connection is there
    platform,   \* the platform accepts connections
    diedAt,     \* history: when the far end of the connection was lost
    goodFrom,   \* history: while none is there, since when that and platform are so
    failures    \* history: dials failed since the last connection

linkVars == <<queued, writeBy, pongs, deadline, alive>>
loopVars == <<inHand, writeEnds, reader, late>>
beatVars == <<tick, gapEnds>>
dialVars == <<phase, from, by, delay>>
histVars == <<diedAt, goodFrom, failures>>
vars == <<now, dialVars, beatVars, linkVars, loopVars, platform, histVars>>

\* The ticker starts with Start and is never reset.
Init ==
    /\ now = 0
    /\ phase = "dial" /\ from = 0 /\ by = HandshakeTimeout /\ delay = ReconnectInterval
    /\ tick = HeartbeatInterval /\ gapEnds = MaxGap
    /\ queued = 0 /\ writeBy = 0 /\ pongs = {} /\ deadline = 0 /\ alive = FALSE
    /\ inHand = "none" /\ writeEnds = 0 /\ reader = "done" /\ late = 0
    /\ platform \in BOOLEAN
    /\ diedAt = 0 /\ goodFrom = 0 /\ failures = 0

----------------------------------------------------------------------------
(* Time                                                                       *)

\* Nothing is due now: a timer that has expired fires before time passes, and a select
\* with a ready case picks one. Its reader being done is such a case.
TimePasses ==
    /\ now < MaxTime
    /\ now < tick
    /\ phase \in {"dial", "wait"} => now < by
    /\ phase = "up" =>
         /\ reader = "reading" => now < deadline
         /\ inHand # "none" => now < writeEnds
         /\ reader = "done" => inHand # "none"
         /\ alive /\ queued > 0 => now < writeBy
         /\ alive /\ reader = "reading" => \A p \in pongs : now < p
    /\ now' = now + 1
    /\ UNCHANGED <<dialVars, beatVars, linkVars, loopVars, platform, histVars>>

----------------------------------------------------------------------------
(* connectionManager                                                          *)

\* A dial that began when the platform accepts connections is not failed by it.
DialFails ==
    /\ phase = "dial"
    /\ ~platform \/ from < goodFrom
    /\ phase' = "wait" /\ from' = now /\ by' = now + delay
    /\ failures' = failures + 1
    /\ UNCHANGED <<now, delay, beatVars, linkVars, loopVars, platform, diedAt, goodFrom>>

\* Mutant: the doubled delay is not capped.
WaitEndsUncapped ==
    /\ phase = "wait" /\ now = by
    /\ phase' = "dial" /\ from' = now /\ by' = now + HandshakeTimeout
    /\ delay' = IF failures = 0 THEN delay ELSE 2 * delay
    /\ UNCHANGED <<now, beatVars, linkVars, loopVars, platform, histVars>>

\* The delay doubles after it was waited out; the long wait after a refusal,
\* which follows a connection, leaves it alone.
WaitEnds ==
    /\ phase = "wait" /\ now = by
    /\ phase' = "dial" /\ from' = now /\ by' = now + HandshakeTimeout
    /\ delay' = IF failures = 0 THEN delay
                ELSE IF 2 * delay < MaxReconnectDelay THEN 2 * delay ELSE MaxReconnectDelay
    /\ UNCHANGED <<now, beatVars, linkVars, loopVars, platform, histVars>>

\* Mutant: the delay does not start over with a connection.
DialSucceedsNotResetting ==
    /\ phase = "dial"
    /\ platform
    /\ phase' = "up" /\ from' = 0 /\ by' = 0
    /\ alive' = TRUE /\ pongs' = {} /\ deadline' = now + ReadTimeout
    /\ reader' = "reading" /\ inHand' = "none" /\ late' = 0
    /\ writeBy' = now + WriteDelay /\ gapEnds' = now + MaxGap
    /\ failures' = 0
    /\ diedAt' = 0 /\ goodFrom' = 0
    /\ UNCHANGED <<now, delay, tick, queued, writeEnds, platform>>

\* Mutant: the first read has no deadline of its own.
DialSucceedsNoDeadline ==
    /\ phase = "dial"
    /\ platform
    /\ phase' = "up" /\ from' = 0 /\ by' = 0 /\ delay' = ReconnectInterval
    /\ alive' = TRUE /\ pongs' = {}
    /\ reader' = "reading" /\ inHand' = "none" /\ late' = 0
    /\ writeBy' = now + WriteDelay /\ gapEnds' = now + MaxGap
    /\ failures' = 0
    /\ diedAt' = 0 /\ goodFrom' = 0
    /\ UNCHANGED <<now, tick, queued, deadline, writeEnds, platform>>

\* The reader sets the first deadline. Heartbeats queued on an earlier connection
\* go out on this one.
DialSucceeds ==
    /\ phase = "dial"
    /\ platform
    /\ phase' = "up" /\ from' = 0 /\ by' = 0 /\ delay' = ReconnectInterval
    /\ alive' = TRUE /\ pongs' = {} /\ deadline' = now + ReadTimeout
    /\ reader' = "reading" /\ inHand' = "none" /\ late' = 0
    /\ writeBy' = now + WriteDelay /\ gapEnds' = now + MaxGap
    /\ failures' = 0
    /\ diedAt' = 0 /\ goodFrom' = 0
    /\ UNCHANGED <<now, tick, queued, writeEnds, platform>>

\* The loop is over, and the connection with it: dial again at once, or wait the maximum
\* delay after a refusal that a reader, of this connection or an earlier one, has stored.
LoopReturns ==
    \E refused \in BOOLEAN :
        /\ phase' = IF refused THEN "wait" ELSE "dial"
        /\ from' = now
        /\ by' = now + IF refused THEN MaxReconnectDelay ELSE HandshakeTimeout
        /\ goodFrom' = now
        /\ queued' = IF inHand = "beat" THEN queued - 1 ELSE queued
        /\ alive' = FALSE /\ pongs' = {} /\ deadline' = 0 /\ writeBy' = 0 /\ gapEnds' = 0
        /\ reader' = "done" /\ inHand' = "none" /\ writeEnds' = 0 /\ late' = 0
        /\ UNCHANGED <<now, delay, tick, platform, diedAt, failures>>

\* messageLoop leaves at its select, not while it writes.
LoopSeesReaderDone ==
    /\ phase = "up" /\ inHand = "none" /\ reader = "done"
    /\ LoopReturns

\* The write of an envelope fails, at its deadline or before. A ping that fails is only
\* logged.
WriteFails ==
    /\ phase = "up" /\ inHand # "none"
    /\ LoopReturns

----------------------------------------------------------------------------
(* messageReader                                                              *)

\* The read deadline passes.
ReaderTimesOut ==
    /\ phase = "up" /\ reader = "reading" /\ now = deadline
    /\ reader' = "done"
    /\ UNCHANGED <<now, dialVars, beatVars, linkVars, inHand, writeEnds, late, platform,
                   histVars>>

\* The far end closes or resets the connection, and the read fails at once.
ReaderSeesEnd ==
    /\ phase = "up" /\ reader = "reading"
    /\ reader' = "done"
    /\ alive' = FALSE /\ pongs' = {} /\ diedAt' = IF alive THEN now ELSE diedAt
    /\ UNCHANGED <<now, dialVars, beatVars, queued, writeBy, deadline, inHand, writeEnds,
                   late, platform, goodFrom, failures>>

\* Mutant: no pong handler.
PongArrivesUnheeded ==
    /\ phase = "up" /\ reader = "reading" /\ alive
    /\ \E p \in pongs : pongs' = pongs \ {p}
    /\ UNCHANGED <<now, dialVars, beatVars, queued, writeBy, deadline, alive, loopVars,
                   platform, histVars>>

PongArrives ==
    /\ phase = "up" /\ reader = "reading" /\ alive
    /\ \E p \in pongs : pongs' = pongs \ {p}
    /\ deadline' = now + ReadTimeout
    /\ UNCHANGED <<now, dialVars, beatVars, queued, writeBy, alive, loopVars, platform,
                   histVars>>

\* Every message read moves the deadline on.
FrameArrives ==
    /\ phase = "up" /\ reader = "reading" /\ alive
    /\ deadline' = now + ReadTimeout
    /\ UNCHANGED <<now, dialVars, beatVars, queued, writeBy, pongs, alive, loopVars,
                   platform, histVars>>

----------------------------------------------------------------------------
(* heartbeatRoutine, messageLoop and writeEnvelope                            *)

\* A heartbeat is queued only while connected, and a full outboundCh refuses it;
\* nobody tries again before the next tick.
TickerFires ==
    /\ now = tick
    /\ tick' = now + HeartbeatInterval
    /\ \/ /\ phase = "up"
          /\ queued' = queued + 1
          /\ writeBy' = IF queued = 0 THEN now + WriteDelay ELSE writeBy
          /\ gapEnds' = now + MaxGap
       \/ /\ phase = "up" /\ alive => now + HeartbeatInterval <= gapEnds
          /\ UNCHANGED <<queued, writeBy, gapEnds>>
    /\ UNCHANGED <<now, dialVars, pongs, deadline, alive, loopVars, platform, histVars>>

\* The select picks among its ready cases at random: an envelope may be taken although
\* the reader is done. Each write has a deadline, and the ping behind a heartbeat
\* another one.
LoopTakesEnvelope ==
    /\ phase = "up" /\ inHand = "none"
    /\ \/ queued > 0 /\ inHand' = "beat" /\ writeEnds' = now + 2 * WriteTimeout
       \/ inHand' = "other" /\ writeEnds' = now + WriteTimeout
    /\ reader = "done" => late < MaxLate
    /\ late' = IF reader = "done" THEN late + 1 ELSE late
    /\ UNCHANGED <<now, dialVars, beatVars, linkVars, reader, platform, histVars>>

\* Mutant: a write counts as a sign of life.
WriteEndsRefreshing ==
    /\ phase = "up" /\ inHand # "none"
    /\ inHand' = "none" /\ writeEnds' = 0
    /\ IF inHand = "beat"
       THEN /\ queued' = queued - 1 /\ writeBy' = now + WriteDelay
            /\ pongs' = IF alive THEN pongs \cup {now + RoundTrip} ELSE pongs
       ELSE UNCHANGED <<queued, writeBy, pongs>>
    /\ deadline' = now + ReadTimeout
    /\ UNCHANGED <<now, dialVars, beatVars, alive, reader, late, platform, histVars>>

\* The write may succeed although the far end is gone; then no pong comes.
WriteEnds ==
    /\ phase = "up" /\ inHand # "none"
    /\ inHand' = "none" /\ writeEnds' = 0
    /\ IF inHand = "beat"
       THEN /\ queued' = queued - 1 /\ writeBy' = now + WriteDelay
            /\ pongs' = IF alive THEN pongs \cup {now + RoundTrip} ELSE pongs
       ELSE UNCHANGED <<queued, writeBy, pongs>>
    /\ UNCHANGED <<now, dialVars, beatVars, deadline, alive, reader, late, platform,
                   histVars>>

----------------------------------------------------------------------------
(* The network and the platform                                               *)

\* The far end is gone and says nothing.
LinkDies ==
    /\ phase = "up" /\ alive
    /\ alive' = FALSE /\ pongs' = {} /\ diedAt' = now
    /\ UNCHANGED <<now, dialVars, beatVars, queued, writeBy, deadline, loopVars, platform,
                   goodFrom, failures>>

PlatformChanges ==
    /\ platform' = ~platform
    /\ goodFrom' = IF phase = "up" THEN goodFrom ELSE now
    /\ UNCHANGED <<now, dialVars, beatVars, linkVars, loopVars, diedAt, failures>>

----------------------------------------------------------------------------
Manager ==
    \/ DialFails \/ WaitEnds \/ DialSucceeds
    \/ LoopSeesReaderDone \/ LoopTakesEnvelope \/ WriteEnds \/ WriteFails

Reader == ReaderTimesOut \/ ReaderSeesEnd \/ PongArrives \/ FrameArrives

Next ==
    \/ TimePasses
    \/ Manager \/ Reader \/ TickerFires
    \/ LinkDies \/ PlatformChanges

Spec == Init /\ [][Next]_vars

----------------------------------------------------------------------------
Larger(a, b) == IF a < b THEN b ELSE a
Smaller(a, b) == IF a < b THEN a ELSE b

LongestWait == Larger(ReconnectInterval, MaxReconnectDelay)

\* The configuration leaves a heartbeat and its pong time to keep the link up.
\* With the defaults, 30 s and 60 s, one refused heartbeat is already too many.
PaceFits == MaxGap + WriteDelay + RoundTrip < ReadTimeout

TypeOK ==
    /\ now \in Nat
    /\ phase \in {"dial", "wait", "up"} /\ from \in Nat /\ by \in Nat /\ delay \in Nat
    /\ tick \in Nat /\ gapEnds \in Nat
    /\ queued \in Nat /\ writeBy \in Nat /\ pongs \subseteq Nat /\ deadline \in Nat
    /\ inHand \in {"none", "beat", "other"} /\ writeEnds \in Nat
    /\ reader \in {"reading", "done"} /\ late \in Nat
    /\ alive \in BOOLEAN /\ platform \in BOOLEAN
    /\ diedAt \in Nat /\ goodFrom \in Nat /\ failures \in Nat

\* A connection whose far end is there is never given up for silence, however
\* little the platform has to say: the ping behind the heartbeat brings a pong in
\* time (client.go:299-305, 404-406, 487-494, 499-520).
HealthyLinkSurvives == PaceFits /\ phase = "up" /\ alive => reader = "reading"

\* A connection whose far end is gone is given up within the read timeout and the two
\* write timeouts of a heartbeat, though heartbeats can still be written to it and its
\* reader ends in the midst of a write. Each envelope that the loop's select prefers to
\* the end of the reader may add two write timeouts more (client.go:368-382, 404-421,
\* 482-494).
DeadLinkEndsInTime ==
    phase = "up" /\ ~alive => now <= diedAt + ReadTimeout + 2 * WriteTimeout * (1 + late)

\* Once the platform accepts connections, the client is back after one dial that
\* still fails, the longest wait and one dial more, whatever it was doing, however
\* long the outage was and whichever of the two delays is the longer
\* (client.go:226-237, 266-275).
BackInTime ==
    platform /\ phase # "up" => now <= goodFrom + 2 * HandshakeTimeout + LongestWait

TwoTo[n \in Nat] == IF n = 0 THEN 1 ELSE 2 * TwoTo[n - 1]

\* The wait after the n-th failed dial in a row.
NthWait(n) ==
    IF n = 1 THEN ReconnectInterval
    ELSE Smaller(ReconnectInterval * TwoTo[n - 1], MaxReconnectDelay)

\* The n-th failed dial after a connection is followed by a wait of 2^(n-1) times
\* the interval, at most the maximum; the first wait is the interval even when
\* that is the larger one (client.go:215-239).
WaitsAreExponential == phase = "wait" /\ failures > 0 => by - from = NthWait(failures)

\* What makes them inductive. A dial or a wait ends in time, and while the platform
\* accepts connections none began too late.
DialInv ==
    /\ delay <= LongestWait /\ from <= now /\ goodFrom <= now
    /\ phase = "dial" => now <= by /\ by = from + HandshakeTimeout
    /\ phase = "wait" => now <= by /\ by <= from + LongestWait
    /\ platform /\ phase = "dial" => from <= goodFrom + HandshakeTimeout + LongestWait
    /\ platform /\ phase = "wait" => by <= goodFrom + HandshakeTimeout + LongestWait

\* No timer is overdue, and none runs longer than it was set for.
TimerInv ==
    /\ now <= tick /\ tick <= now + HeartbeatInterval
    /\ phase = "up" =>
         /\ deadline <= now + ReadTimeout
         /\ reader = "reading" => now <= deadline /\ late = 0
         /\ inHand # "none" => now <= writeEnds /\ writeEnds <= now + 2 * WriteTimeout
         /\ inHand = "beat" => queued > 0
         /\ alive => tick <= gapEnds
         /\ gapEnds <= now + MaxGap
         /\ alive /\ queued > 0 => now <= writeBy
         /\ queued > 0 => writeBy <= now + WriteDelay
         /\ alive /\ reader = "reading" => \A p \in pongs : now <= p

\* A dead link is given up when its reader is done, after the write under way then and
\* those taken since.
EndInv ==
    phase = "up" /\ ~alive =>
        /\ diedAt <= now
        /\ reader = "reading" => deadline <= diedAt + ReadTimeout
        /\ reader = "done" =>
             \A t \in {now} \cup (IF inHand = "none" THEN {} ELSE {writeEnds}) :
                t <= diedAt + ReadTimeout + 2 * WriteTimeout * (1 + late)

\* The next sign of life comes before the deadline: a pong under way, or the pong
\* to a heartbeat in the queue, or to the next one that is accepted.
PaceInv ==
    PaceFits /\ phase = "up" /\ alive =>
        /\ reader = "reading"
        /\ \/ \E p \in pongs : p < deadline
           \/ queued > 0 /\ writeBy + RoundTrip < deadline
           \/ gapEnds + WriteDelay + RoundTrip < deadline

\* The delay is the one of the wait under way, or of the wait that the next failed
\* dial would bring.
DelayInv ==
    /\ phase = "up" => failures = 0
    /\ failures = 0 => delay = ReconnectInterval
    /\ phase = "wait" /\ failures > 0 => delay = NthWait(failures) /\ by = from + delay
    /\ phase = "dial" => delay = NthWait(failures + 1)

\* The inductive invariant.
TimingInv == TypeOK /\ DialInv /\ TimerInv /\ EndInv /\ PaceInv /\ DelayInv
====
