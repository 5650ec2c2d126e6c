---- MODULE WSClient ----
(* The kubelet's WebSocket client, pkg/websocket/client.go, with the code that  *)
(* calls it: the goroutine running connectionManager and messageLoop, one       *)
(* reader goroutine per messageLoop, the heartbeat goroutine, the onConnect     *)
(* goroutine of every connection, the goroutines that send events and           *)
(* responses, and Stop. An action is the code between two points where another  *)
(* goroutine can interfere: a lock section, a channel operation, a call on the  *)
(* socket. The network and the platform act on a connection at any time.        *)
EXTENDS Integers, Sequences, FiniteSets, Functions

CONSTANTS
    MaxConns,          \* bound: connections made in a behaviour
    OutboundCap,       \* capacity of outboundCh (200 in the code)
    CommandCap,        \* capacity of commandCh (100 in the code)
    Apps,              \* goroutines that call SendEvent and SendResponse
    Heart,             \* the goroutine running heartbeatRoutine
    MaxSends,          \* bound: sends by one of Apps
    MaxBeats,          \* bound: heartbeats sent
    MaxCommands,       \* bound: commands the platform sends
    FarEndMay,         \* bound: what the far end may do to an open connection
    OnConnect,         \* whether a callback is set, as the kubelet does
    ReconnectInterval, MaxReconnectDelay

Conns == 1 .. MaxConns
Callers == Apps \cup {Heart} \cup Conns

ASSUME BoundsAssumption ==
    /\ MaxConns \in Nat /\ MaxSends \in Nat /\ MaxBeats \in Nat /\ MaxCommands \in Nat
    /\ OutboundCap \in Nat \ {0}
    /\ CommandCap \in Nat \ {0}
    /\ FarEndMay \subseteq {"refused", "refusedNoText", "down"}
    /\ OnConnect \in BOOLEAN

ASSUME CallersAssumption ==
    /\ Heart \notin Apps \cup Conns
    /\ Apps \cap Conns = {}

\* config.Load keeps ReconnectInterval positive; it does not compare the two.
ASSUME DelayAssumption ==
    /\ ReconnectInterval \in Nat \ {0}
    /\ MaxReconnectDelay \in Nat \ {0}

VARIABLES
    mgr,            \* where connectionManager (with messageLoop) is
    delay,          \* reconnectDelay
    dialled,        \* connections made so far; the latest has this number
    conn,           \* c.conn: a connection number, 0 for nil
    connected,      \* c.connected
    refusedReason,  \* c.refusedReason: the connection whose close text it is, 0 for ""
    closed,         \* connections this process has closed
    link,           \* connection -> what the far end has done with it
    closeSeen,      \* connections whose close frame was read: later writes fail
    inbox,          \* connection -> commands received on it and not yet read
    issued,         \* commands the platform has sent
    commandCh,      \* commands read and not yet taken by processCommands
    reader,         \* the reader spawned for each connection
    caller,         \* the goroutines inside, or about to call, sendEnvelope
    calls,          \* sends begun by each of Apps and by Heart
    accepted,       \* envelopes outboundCh has taken
    outboundCh,
    writing,        \* the envelope messageLoop has taken and not yet written
    wire,           \* history: envelopes written, with the connection
    stop            \* how far Stop has come

mgrVars == <<mgr, delay>>
connVars == <<dialled, conn, connected, closed>>
inVars == <<closeSeen, inbox, issued, commandCh, reader>>
sendVars == <<caller, calls>>
outVars == <<outboundCh, writing, wire, accepted>>
vars == <<mgrVars, connVars, refusedReason, link, inVars, sendVars, outVars, stop>>

MsgTypes == {"registration", "ready", "event", "heartbeat"}

\* An envelope on its way out. id is its place in the order of acceptance.
Envelope == [id : Nat \ {0}, type : MsgTypes, by : Callers]

MgrStates == {"check", "dial", "backoff", "loop", "write", "leave", "ended",
              "collect", "refused", "done"}
FarEnds == {"refused", "refusedNoText", "down"}
LinkStates == {"none", "open"} \cup FarEnds
ReaderStates == {"none", "start", "check", "read", "record", "queue", "done"}
CallerStates == {"idle", "check", "push", "done"}
StopStates == {"running", "signalled", "waiting", "stopped"}

\* c.ctx is cancelled just before closeCh is closed, and whoever waits for one
\* waits for both, except where only the context is awaited.
Stopping == stop # "running"

\* What a goroutine that calls sendEnvelope sends first.
FirstMsg(c) == IF c = Heart THEN "heartbeat"
               ELSE IF c \in Apps THEN "event" ELSE "registration"

Init ==
    /\ mgr = "check" /\ delay = ReconnectInterval
    /\ dialled = 0 /\ conn = 0 /\ connected = FALSE /\ closed = {}
    /\ refusedReason = 0
    /\ link = [k \in Conns |-> "none"]
    /\ closeSeen = {}
    /\ inbox = [k \in Conns |-> <<>>]
    /\ issued = 0
    /\ commandCh = <<>>
    /\ reader = [k \in Conns |-> [at |-> "none", on |-> 0, got |-> 0]]
    /\ caller = [c \in Callers |-> [at |-> "idle", msg |-> FirstMsg(c)]]
    /\ calls = [c \in Apps \cup {Heart} |-> 0]
    /\ accepted = 0 /\ outboundCh = <<>> /\ writing = <<>> /\ wire = <<>>
    /\ stop = "running"

----------------------------------------------------------------------------
(* connectionManager                                                          *)

\* Mutant: the delay starts over in every round.
ManagerChecksStopResetting ==
    /\ mgr = "check"
    /\ mgr' = IF Stopping THEN "done" ELSE "dial"
    /\ delay' = ReconnectInterval
    /\ UNCHANGED <<connVars, refusedReason, link, inVars, sendVars, outVars, stop>>


ManagerChecksStop ==
    /\ mgr = "check"
    /\ mgr' = IF Stopping THEN "done" ELSE "dial"
    /\ UNCHANGED <<delay, connVars, refusedReason, link, inVars, sendVars, outVars, stop>>

\* The dial does not watch the context: it fails within its handshake timeout.
DialFails ==
    /\ mgr = "dial"
    /\ mgr' = "backoff"
    /\ UNCHANGED <<delay, connVars, refusedReason, link, inVars, sendVars, outVars, stop>>

BackoffElapses ==
    /\ mgr = "backoff"
    /\ mgr' = "check"
    /\ delay' = IF 2 * delay < MaxReconnectDelay THEN 2 * delay ELSE MaxReconnectDelay
    /\ UNCHANGED <<connVars, refusedReason, link, inVars, sendVars, outVars, stop>>

\* connect sets the connection under the lock; the onConnect goroutine and
\* messageLoop's reader are spawned before the loop selects anything.
DialSucceeds ==
    /\ mgr = "dial"
    /\ dialled < MaxConns
    /\ dialled' = dialled + 1
    /\ conn' = dialled + 1
    /\ connected' = TRUE
    /\ link' = [link EXCEPT ![dialled + 1] = "open"]
    /\ delay' = ReconnectInterval
    /\ caller' = IF OnConnect THEN [caller EXCEPT ![dialled + 1].at = "check"] ELSE caller
    /\ reader' = [reader EXCEPT ![dialled + 1].at = "start"]
    /\ mgr' = "loop"
    /\ UNCHANGED <<closed, refusedReason, closeSeen, inbox, issued, commandCh, calls,
                   outVars, stop>>

\* Both waits give up when the context is cancelled.
WaitCancelled ==
    /\ mgr \in {"backoff", "refused"}
    /\ Stopping
    /\ mgr' = "done"
    /\ UNCHANGED <<delay, connVars, refusedReason, link, inVars, sendVars, outVars, stop>>

ManagerAfterLoop ==
    /\ mgr = "ended"
    /\ mgr' = IF Stopping THEN "done" ELSE "collect"
    /\ UNCHANGED <<delay, connVars, refusedReason, link, inVars, sendVars, outVars, stop>>

\* The reason is taken and cleared under the lock. Without one the client dials
\* again at once, with one it waits the maximum delay.
CollectRefusal ==
    /\ mgr = "collect"
    /\ mgr' = IF refusedReason = 0 THEN "check" ELSE "refused"
    /\ refusedReason' = 0
    /\ UNCHANGED <<delay, connVars, link, inVars, sendVars, outVars, stop>>

RefusedWaitElapses ==
    /\ mgr = "refused"
    /\ mgr' = "check"
    /\ UNCHANGED <<delay, connVars, refusedReason, link, inVars, sendVars, outVars, stop>>

----------------------------------------------------------------------------
(* messageLoop: the select picks any of its ready cases.                      *)

\* Mutant: the loop returns without its deferred cleanup.
LoopSeesStopNoCleanup ==
    /\ mgr = "loop"
    /\ Stopping
    /\ mgr' = "done"
    /\ UNCHANGED <<delay, connVars, refusedReason, link, inVars, sendVars, outVars, stop>>


LoopSeesStop ==
    /\ mgr = "loop"
    /\ Stopping
    /\ mgr' = "leave"
    /\ UNCHANGED <<delay, connVars, refusedReason, link, inVars, sendVars, outVars, stop>>

\* readerDone is closed by the reader this loop spawned, the latest one.
LoopSeesReaderDone ==
    /\ mgr = "loop"
    /\ reader[dialled].at = "done"
    /\ mgr' = "leave"
    /\ UNCHANGED <<delay, connVars, refusedReason, link, inVars, sendVars, outVars, stop>>

LoopTakesEnvelope ==
    /\ mgr = "loop"
    /\ outboundCh # <<>>
    /\ writing' = <<Head(outboundCh)>>
    /\ outboundCh' = Tail(outboundCh)
    /\ mgr' = "write"
    /\ UNCHANGED <<delay, connVars, refusedReason, link, inVars, sendVars, wire, accepted,
                   stop>>

\* A write into a connection whose far end is gone may still succeed here.
WriteSucceeds ==
    /\ mgr = "write"
    /\ conn \notin closed \cup closeSeen
    /\ wire' = Append(wire, [id |-> writing[1].id, type |-> writing[1].type,
                             by |-> writing[1].by, conn |-> conn])
    /\ writing' = <<>>
    /\ mgr' = "loop"
    /\ UNCHANGED <<delay, connVars, refusedReason, link, inVars, sendVars, outboundCh,
                   accepted, stop>>

\* Mutant: an envelope that could not be written is queued again.
WriteFailsRequeueing ==
    /\ mgr = "write"
    /\ outboundCh' = Append(outboundCh, writing[1])
    /\ writing' = <<>>
    /\ mgr' = "leave"
    /\ UNCHANGED <<delay, connVars, refusedReason, link, inVars, sendVars, wire, accepted,
                   stop>>

\* Mutant: the loop goes on after a failed write.
WriteFailsContinuing ==
    /\ mgr = "write"
    /\ writing' = <<>>
    /\ mgr' = "loop"
    /\ UNCHANGED <<delay, connVars, refusedReason, link, inVars, sendVars, outboundCh,
                   wire, accepted, stop>>

\* The envelope is gone and the loop returns: a closed connection, a close
\* frame already answered, a write deadline.
WriteFails ==
    /\ mgr = "write"
    /\ writing' = <<>>
    /\ mgr' = "leave"
    /\ UNCHANGED <<delay, connVars, refusedReason, link, inVars, sendVars, outboundCh,
                   wire, accepted, stop>>

\* Mutant: the queue is flushed with the connection.
LeaveLoopFlushing ==
    /\ mgr = "leave"
    /\ closed' = IF conn # 0 THEN closed \cup {conn} ELSE closed
    /\ conn' = 0
    /\ connected' = FALSE
    /\ outboundCh' = <<>>
    /\ mgr' = "ended"
    /\ UNCHANGED <<delay, dialled, refusedReason, link, inVars, sendVars, writing, wire,
                   accepted, stop>>

\* Mutant: the connection is forgotten and not closed.
LeaveLoopNotClosing ==
    /\ mgr = "leave"
    /\ conn' = 0
    /\ connected' = FALSE
    /\ mgr' = "ended"
    /\ UNCHANGED <<delay, dialled, closed, refusedReason, link, inVars, sendVars, outVars,
                   stop>>

\* Mutant: the connected flag is left set.
LeaveLoopStillConnected ==
    /\ mgr = "leave"
    /\ closed' = IF conn # 0 THEN closed \cup {conn} ELSE closed
    /\ conn' = 0
    /\ mgr' = "ended"
    /\ UNCHANGED <<delay, dialled, connected, refusedReason, link, inVars, sendVars,
                   outVars, stop>>

\* The deferred cleanup. outboundCh keeps what it holds.
LeaveLoop ==
    /\ mgr = "leave"
    /\ closed' = IF conn # 0 THEN closed \cup {conn} ELSE closed
    /\ conn' = 0
    /\ connected' = FALSE
    /\ mgr' = "ended"
    /\ UNCHANGED <<delay, dialled, refusedReason, link, inVars, sendVars, outVars, stop>>

----------------------------------------------------------------------------
(* messageReader, spawned by the messageLoop of connection r                  *)

\* It reads c.conn when it first runs, which may be after its loop has ended.
ReaderStarts(r) ==
    /\ reader[r].at = "start"
    /\ reader' = [reader EXCEPT ![r].at = IF conn = 0 THEN "done" ELSE "check",
                                ![r].on = conn]
    /\ UNCHANGED <<mgrVars, connVars, refusedReason, link, closeSeen, inbox, issued,
                   commandCh, sendVars, outVars, stop>>

ReaderChecksStop(r) ==
    /\ reader[r].at = "check"
    /\ reader' = [reader EXCEPT ![r].at = IF Stopping THEN "done" ELSE "read"]
    /\ UNCHANGED <<mgrVars, connVars, refusedReason, link, closeSeen, inbox, issued,
                   commandCh, sendVars, outVars, stop>>

\* What is already buffered can be read even after the connection was closed.
ReaderGetsCommand(r) ==
    LET k == reader[r].on IN
    /\ reader[r].at = "read"
    /\ inbox[k] # <<>>
    /\ inbox' = [inbox EXCEPT ![k] = Tail(inbox[k])]
    /\ reader' = [reader EXCEPT ![r].at = "queue", ![r].got = Head(inbox[k])]
    /\ UNCHANGED <<mgrVars, connVars, refusedReason, link, closeSeen, issued, commandCh,
                   sendVars, outVars, stop>>

\* Mutant: the push waits for room in commandCh.
ReaderQueuesBlocking(r) ==
    /\ reader[r].at = "queue"
    /\ Len(commandCh) < CommandCap
    /\ commandCh' = Append(commandCh, reader[r].got)
    /\ reader' = [reader EXCEPT ![r].at = "check", ![r].got = 0]
    /\ UNCHANGED <<mgrVars, connVars, refusedReason, link, closeSeen, inbox, issued,
                   sendVars, outVars, stop>>

\* Mutant: the push is tried again although it may have succeeded.
ReaderQueuesRetrying(r) ==
    /\ reader[r].at = "queue"
    /\ commandCh' = IF Len(commandCh) < CommandCap
                    THEN Append(commandCh, reader[r].got) ELSE commandCh
    /\ \/ reader' = [reader EXCEPT ![r].at = "check", ![r].got = 0]
       \/ UNCHANGED reader
    /\ UNCHANGED <<mgrVars, connVars, refusedReason, link, closeSeen, inbox, issued,
                   sendVars, outVars, stop>>

\* handleIncomingMessage never blocks: a command that finds commandCh full is
\* dropped.
ReaderQueuesCommand(r) ==
    /\ reader[r].at = "queue"
    /\ commandCh' = IF Len(commandCh) < CommandCap
                    THEN Append(commandCh, reader[r].got) ELSE commandCh
    /\ reader' = [reader EXCEPT ![r].at = "check", ![r].got = 0]
    /\ UNCHANGED <<mgrVars, connVars, refusedReason, link, closeSeen, inbox, issued,
                   sendVars, outVars, stop>>

\* The library answers a close frame while reading it, so writes fail from here
\* on. An empty close text leaves refusedReason as good as unset.
ReaderGetsClose(r) ==
    LET k == reader[r].on IN
    /\ reader[r].at = "read"
    /\ inbox[k] = <<>>
    /\ link[k] \in {"refused", "refusedNoText"}
    /\ closeSeen' = closeSeen \cup {k}
    /\ reader' = [reader EXCEPT ![r].at = "record"]
    /\ UNCHANGED <<mgrVars, connVars, refusedReason, link, inbox, issued, commandCh,
                   sendVars, outVars, stop>>

ReaderRecordsRefusal(r) ==
    LET k == reader[r].on IN
    /\ reader[r].at = "record"
    /\ refusedReason' = IF link[k] = "refused" THEN k ELSE 0
    /\ reader' = [reader EXCEPT ![r].at = "done"]
    /\ UNCHANGED <<mgrVars, connVars, link, closeSeen, inbox, issued, commandCh, sendVars,
                   outVars, stop>>

\* Mutant: no read deadline, so only a close of our own ends the read.
ReaderFailsNoDeadline(r) ==
    LET k == reader[r].on IN
    /\ reader[r].at = "read"
    /\ k \in closed
    /\ reader' = [reader EXCEPT ![r].at = "done"]
    /\ UNCHANGED <<mgrVars, connVars, refusedReason, link, closeSeen, inbox, issued,
                   commandCh, sendVars, outVars, stop>>

\* Mutant: any failed read counts as a refusal.
ReaderFailsRefused(r) ==
    LET k == reader[r].on IN
    /\ reader[r].at = "read"
    /\ link[k] = "down" \/ k \in closed
    /\ reader' = [reader EXCEPT ![r].at = "done"]
    /\ refusedReason' = k
    /\ UNCHANGED <<mgrVars, connVars, link, closeSeen, inbox, issued, commandCh, sendVars,
                   outVars, stop>>

\* A dead link fails the read at the read deadline, a closed one at once.
ReaderFails(r) ==
    LET k == reader[r].on IN
    /\ reader[r].at = "read"
    /\ link[k] = "down" \/ k \in closed
    /\ reader' = [reader EXCEPT ![r].at = "done"]
    /\ UNCHANGED <<mgrVars, connVars, refusedReason, link, closeSeen, inbox, issued,
                   commandCh, sendVars, outVars, stop>>

\* The read deadline passes on a link that is still open: no pong came in time.
ReaderTimesOut(r) ==
    LET k == reader[r].on IN
    /\ reader[r].at = "read"
    /\ link[k] = "open" /\ k \notin closed
    /\ reader' = [reader EXCEPT ![r].at = "done"]
    /\ UNCHANGED <<mgrVars, connVars, refusedReason, link, closeSeen, inbox, issued,
                   commandCh, sendVars, outVars, stop>>

\* processCommands takes the next command.
TakeCommand ==
    /\ commandCh # <<>>
    /\ commandCh' = Tail(commandCh)
    /\ UNCHANGED <<mgrVars, connVars, refusedReason, link, closeSeen, inbox, issued,
                   reader, sendVars, outVars, stop>>

----------------------------------------------------------------------------
(* sendEnvelope and its callers                                               *)

\* An event or a response is sent at any time, a heartbeat on a tick that finds
\* the client connected.
BeginSend(c) ==
    /\ c \in Apps \cup {Heart}
    /\ caller[c].at = "idle"
    /\ calls[c] < IF c = Heart THEN MaxBeats ELSE MaxSends
    /\ c = Heart => connected
    /\ calls' = [calls EXCEPT ![c] = calls[c] + 1]
    /\ caller' = [caller EXCEPT ![c].at = "check"]
    /\ UNCHANGED <<mgrVars, connVars, refusedReason, link, inVars, outVars, stop>>

\* Where a caller goes when sendEnvelope has returned. registerWithBackend sends
\* kubelet_ready after a registration that was accepted, and gives up otherwise.
Returned(c, ok) ==
    IF c \notin Conns THEN [caller[c] EXCEPT !.at = "idle"]
    ELSE IF ok /\ caller[c].msg = "registration" THEN [at |-> "check", msg |-> "ready"]
    ELSE [caller[c] EXCEPT !.at = "done"]

\* IsConnected, under its own read lock.
SendChecksConnected(c) ==
    /\ caller[c].at = "check"
    /\ caller' = [caller EXCEPT ![c] =
                    IF connected THEN [@ EXCEPT !.at = "push"] ELSE Returned(c, FALSE)]
    /\ UNCHANGED <<mgrVars, connVars, refusedReason, link, inVars, calls, outVars, stop>>

\* The push comes later and is refused only by a full queue.
SendPushes(c) ==
    /\ caller[c].at = "push"
    /\ IF Len(outboundCh) < OutboundCap
       THEN /\ accepted' = accepted + 1
            /\ outboundCh' = Append(outboundCh,
                  [id |-> accepted + 1, type |-> caller[c].msg, by |-> c])
            /\ caller' = [caller EXCEPT ![c] = Returned(c, TRUE)]
       ELSE /\ caller' = [caller EXCEPT ![c] = Returned(c, FALSE)]
            /\ UNCHANGED <<accepted, outboundCh>>
    /\ UNCHANGED <<mgrVars, connVars, refusedReason, link, inVars, calls, writing, wire, stop>>

HeartSeesStop ==
    /\ caller[Heart].at = "idle"
    /\ Stopping
    /\ caller' = [caller EXCEPT ![Heart].at = "done"]
    /\ UNCHANGED <<mgrVars, connVars, refusedReason, link, inVars, calls, outVars, stop>>

----------------------------------------------------------------------------
(* Stop                                                                       *)

StopSignals ==
    /\ stop = "running"
    /\ stop' = "signalled"
    /\ UNCHANGED <<mgrVars, connVars, refusedReason, link, inVars, sendVars, outVars>>

StopClosesConn ==
    /\ stop = "signalled"
    /\ closed' = IF conn # 0 THEN closed \cup {conn} ELSE closed
    /\ stop' = "waiting"
    /\ UNCHANGED <<mgrVars, dialled, conn, connected, refusedReason, link, inVars,
                   sendVars, outVars>>

\* The goroutines counted by c.wg; the onConnect goroutines are not.
AllGoroutinesDone ==
    /\ mgr = "done"
    /\ caller[Heart].at = "done"
    /\ \A k \in Conns : reader[k].at \in {"none", "done"}

StopReturns ==
    /\ stop = "waiting"
    /\ AllGoroutinesDone
    /\ stop' = "stopped"
    /\ UNCHANGED <<mgrVars, connVars, refusedReason, link, inVars, sendVars, outVars>>

----------------------------------------------------------------------------
(* The network and the platform                                               *)

\* The link dies or is closed normally, or the platform closes with code 1008
\* (policy violation), with or without a text.
FarEndLeaves(k) ==
    /\ link[k] = "open" /\ k \notin closed
    /\ \E s \in FarEndMay : link' = [link EXCEPT ![k] = s]
    /\ UNCHANGED <<mgrVars, connVars, refusedReason, inVars, sendVars, outVars, stop>>

PlatformSendsCommand(k) ==
    /\ link[k] = "open" /\ k \notin closed
    /\ issued < MaxCommands
    /\ issued' = issued + 1
    /\ inbox' = [inbox EXCEPT ![k] = Append(@, issued + 1)]
    /\ UNCHANGED <<mgrVars, connVars, refusedReason, link, closeSeen, commandCh, reader,
                   sendVars, outVars, stop>>

----------------------------------------------------------------------------
ManagerStep ==
    \/ ManagerChecksStop \/ DialFails \/ BackoffElapses \/ DialSucceeds \/ WaitCancelled
    \/ ManagerAfterLoop \/ CollectRefusal \/ RefusedWaitElapses
    \/ LoopSeesStop \/ LoopSeesReaderDone \/ LoopTakesEnvelope
    \/ WriteSucceeds \/ WriteFails \/ LeaveLoop

ReaderStep(r) ==
    \/ ReaderStarts(r) \/ ReaderChecksStop(r) \/ ReaderGetsCommand(r)
    \/ ReaderQueuesCommand(r) \/ ReaderGetsClose(r) \/ ReaderRecordsRefusal(r)
    \/ ReaderFails(r)

SendStep(c) == SendChecksConnected(c) \/ SendPushes(c)

StopStep == StopClosesConn \/ StopReturns

Network(k) ==
    FarEndLeaves(k) \/ PlatformSendsCommand(k) \/ ReaderTimesOut(k)

Next ==
    \/ ManagerStep
    \/ \E r \in Conns : ReaderStep(r)
    \/ TakeCommand
    \/ \E c \in Callers : BeginSend(c) \/ SendStep(c)
    \/ HeartSeesStop
    \/ StopSignals
    \/ StopStep
    \/ \E k \in Conns : Network(k)

Spec == Init /\ [][Next]_vars

\* A goroutine that can run runs, and a dial, a timed wait and a blocked read
\* end. Go's select chooses at random among its ready cases, so a case that is
\* ready again and again is taken: strong fairness on the loop's ways out.
\* Nothing is assumed of the network, of the platform, of who sends, nor of
\* processCommands.
Fairness ==
    /\ WF_vars(ManagerStep)
    /\ SF_vars(LoopSeesStop) /\ SF_vars(LoopSeesReaderDone)
    /\ \A r \in Conns : WF_vars(ReaderStep(r))
    /\ \A c \in Callers : WF_vars(SendStep(c))
    /\ WF_vars(HeartSeesStop)
    /\ WF_vars(StopStep)

FairSpec == Spec /\ Fairness

----------------------------------------------------------------------------
WireRecord == [id : Nat \ {0}, type : MsgTypes, by : Callers, conn : Conns]
ReaderRecord == [at : ReaderStates, on : 0 .. MaxConns, got : Nat]
CallerRecord == [at : CallerStates, msg : MsgTypes]

TypeConn ==
    /\ mgr \in MgrStates /\ delay \in Nat
    /\ dialled \in 0 .. MaxConns /\ conn \in 0 .. dialled /\ connected \in BOOLEAN
    /\ closed \subseteq 1 .. dialled
    /\ stop \in StopStates

TypeIn ==
    /\ refusedReason \in 0 .. MaxConns
    /\ link \in [Conns -> LinkStates] /\ closeSeen \subseteq Conns
    /\ inbox \in [Conns -> Seq(Nat)] /\ issued \in Nat
    /\ commandCh \in Seq(Nat) /\ Len(commandCh) <= CommandCap
    /\ reader \in [Conns -> ReaderRecord]

TypeOut ==
    /\ caller \in [Callers -> CallerRecord]
    /\ calls \in [Apps \cup {Heart} -> Nat]
    /\ accepted \in Nat
    /\ outboundCh \in Seq(Envelope) /\ Len(outboundCh) <= OutboundCap
    /\ writing \in Seq(Envelope) /\ Len(writing) <= 1
    /\ wire \in Seq(WireRecord)

\* Both queues stay within the capacity of their channels (client.go:111-112).
TypeOK == TypeConn /\ TypeIn /\ TypeOut

\* Envelopes are written in the order sendEnvelope accepted them, none twice,
\* whatever connections came and went (outboundCh survives a reconnect,
\* client.go:376 and 458).
WrittenInOrder ==
    \A i, j \in DOMAIN wire :
        i < j => wire[i].id < wire[j].id /\ wire[i].conn <= wire[j].conn

\* An accepted envelope is lost only by a write that ends its connection, so no
\* connection costs more than one (client.go:376-380).
AtMostOneLostPerConnection ==
    /\ wire # <<>> => wire[1].id <= wire[1].conn
    /\ \A i \in DOMAIN wire :
         i + 1 \in DOMAIN wire =>
            wire[i + 1].id - wire[i].id <= 1 + wire[i + 1].conn - wire[i].conn

\* Of the two envelopes that the goroutine of a connection sends, each is written at
\* most once, the registration comes before kubelet_ready, and neither goes out on an
\* older connection than its own, also when both outlive it in outboundCh. This is said
\* of each goroutine, not of each connection: what outlives its connection is written on
\* the next one, next to that one's own; see OneRegistrationPerConnection
\* (kubelet.go:569-607, client.go:241-245).
RegistersInOrder ==
    \A i \in DOMAIN wire : wire[i].by \in Conns =>
        /\ wire[i].by <= wire[i].conn
        /\ \A j \in DOMAIN wire : i < j /\ wire[j].by = wire[i].by
             => wire[i].type = "registration" /\ wire[j].type = "ready"

\* Disagreement with protocol.go:10 ("Registration (once after connect)"): no two
\* registrations are written on one connection.
OneRegistrationPerConnection ==
    \A i, j \in DOMAIN wire :
        wire[i].type = "registration" /\ wire[j].type = "registration"
          /\ wire[i].conn = wire[j].conn => i = j

\* Every connection but the current one has been closed by this process: no
\* reconnect, refusal or Stop leaves a socket behind (client.go:151-155,350-358).
NoLeakedConnection == \A k \in 1 .. dialled : k = conn \/ k \in closed

\* What callers read as connected is exactly that there is a connection, and the
\* loop that serves it is running or about to clean up (client.go:205-209,307-311).
ConnectedIsServed ==
    /\ connected <=> conn # 0
    /\ connected <=> mgr \in {"loop", "write", "leave"}
    /\ connected => conn = dialled

\* Stop has returned: no connection is open, also when its own close came before
\* a dial in flight set the connection (client.go:145-161 against 294-311).
StopClosesEverything ==
    stop = "stopped" => conn = 0 /\ ~connected /\ closed = 1 .. dialled

\* The long wait has a cause: a close with code 1008 and a text was read, on this
\* connection or an earlier one (client.go:256-274, 414-417).
LongWaitHasCause == mgr = "refused" => \E k \in closeSeen : link[k] = "refused"

\* The delay never shrinks while connecting fails, and starts over only with a
\* connection (client.go:226-239).
BackoffGrows ==
    [][delay' < delay => dialled' = dialled + 1]_vars

\* Once Stop is called it returns, whatever the client was doing: dialling,
\* waiting, writing, reading, or queueing a command nobody takes.
StopTerminates == stop = "signalled" ~> stop = "stopped"

\* A connection whose far end is gone or has closed is given up: the reader's
\* deadline ends the reader, and that ends the loop (client.go:374,404-421).
DeadLinkNoticed == \A k \in Conns : (conn = k /\ link[k] # "open") ~> conn # k

\* The commands of a live connection are read although nobody may be taking them
\* from commandCh: a slow or stuck handler does not stall the reader, which must
\* keep answering pings and seeing the close (client.go:439-443).
CommandsAreRead ==
    \A k \in Conns : (conn = k /\ inbox[k] # <<>>) ~> (conn # k \/ inbox[k] = <<>>)

\* The ids of what is queued are the latest ones given out, in order, and the one
\* being written comes just before them.
QueueIds ==
    /\ writing # <<>> <=> mgr = "write"
    /\ accepted >= Len(outboundCh) + Len(writing)
    /\ \A i \in DOMAIN outboundCh : outboundCh[i].id = accepted - Len(outboundCh) + i
    /\ writing # <<>> => writing[1].id = accepted - Len(outboundCh)

\* A reader that reads has a connection to read from.
ReadersHaveConn ==
    \A r \in Conns : reader[r].at \in {"check", "read", "record", "queue"} => reader[r].on # 0

\* The inductive invariant: with the types and what ties the loop, the connection
\* and the queue together, every step preserves each part.
ClientInv ==
    /\ TypeOK
    /\ ReadersHaveConn
    /\ ConnectedIsServed
    /\ NoLeakedConnection
    /\ stop = "stopped" => mgr = "done"
    /\ QueueIds

\* The commands on their way from connection k, in reader r, and in commandCh.
Received(k) == Range(inbox[k])
InReader(r) == IF reader[r].at = "queue" THEN {reader[r].got} ELSE {}
Queued == Range(commandCh)
OnTheirWay == Queued \cup UNION {Received(k) \cup InReader(k) : k \in Conns}

\* A command reaches processCommands once at most: once it has been taken or dropped
\* no reader, of its connection or of a later one, brings it up again, and one that
\* waits is in no second place (client.go:388-443).
CommandsRunOnce ==
    [][/\ OnTheirWay' \cap (1 .. issued) \subseteq OnTheirWay
       /\ commandCh # <<>> /\ commandCh' = Tail(commandCh)
            => Head(commandCh) \notin OnTheirWay']_vars

\* What that rests on: a command on its way is in one place, and was sent.
OnePlace ==
    /\ IsInjective(commandCh) /\ \A k \in Conns : IsInjective(inbox[k])
    /\ OnTheirWay \subseteq 1 .. issued
    /\ \A j, k \in Conns :
         /\ Received(j) \cap InReader(k) = {}
         /\ j # k => /\ Received(j) \cap Received(k) = {}
                     /\ InReader(j) \cap InReader(k) = {}
    /\ \A k \in Conns : Queued \cap (Received(k) \cup InReader(k)) = {}

\* Disagreement with client.go:410-412 and 266-267: after the platform refused a
\* connection with a reason, and the client read it, the client backs off.
RefusalBacksOff ==
    [][mgr = "collect" /\ mgr' = "check"
         => ~(link[dialled] = "refused" /\ dialled \in closeSeen)]_vars

\* The client implements the contract of LossyFifo.
Fifo == INSTANCE LossyFifo WITH
            taken <- accepted - Len(outboundCh) - Len(writing),
            delivered <- [i \in DOMAIN wire |-> [id |-> wire[i].id, conn |-> wire[i].conn]],
            up <- mgr \in {"loop", "write"},
            epoch <- dialled

ImplementsLossyFifo == Fifo!Spec
====
