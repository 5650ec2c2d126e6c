---- MODULE WSClientProofs ----
(* The WebSocket client keeps its inductive invariant, and from it: the types,   *)
(* no leaked connection, nothing open once Stop has returned, and the contract   *)
(* of LossyFifo with the order and the loss bound that follow; a long wait only  *)
(* after a refusal, commands taken once, one registration per connection.        *)
EXTENDS WSClient, TLAPS

\* Appending to a queue of envelopes (outboundCh <- env, client.go:458): the old
\* elements stay and the new one is last.
LEMMA AppendIn ==
    ASSUME NEW S, NEW s \in Seq(S), NEW e \in S
    PROVE  /\ Append(s, e) \in Seq(S)
           /\ Len(Append(s, e)) = Len(s) + 1
           /\ DOMAIN s = 1 .. Len(s)
           /\ DOMAIN Append(s, e) = 1 .. Len(s) + 1
           /\ \A i \in 1 .. Len(s) : Append(s, e)[i] = s[i]
           /\ Append(s, e)[Len(s) + 1] = e
    OBVIOUS

\* Taking the first of a queue (client.go:376): the rest moves up by one.
LEMMA TailIn ==
    ASSUME NEW S, NEW s \in Seq(S), s # <<>>
    PROVE  /\ Head(s) \in S
           /\ Head(s) = s[1]
           /\ Tail(s) \in Seq(S)
           /\ Len(s) \in Nat \ {0}
           /\ Len(Tail(s)) = Len(s) - 1
           /\ DOMAIN s = 1 .. Len(s)
           /\ DOMAIN Tail(s) = 1 .. Len(s) - 1
           /\ \A i \in 1 .. Len(s) - 1 : Tail(s)[i] = s[i + 1]
    OBVIOUS

\* The sequence of the one envelope being written (client.go:376-377).
LEMMA One ==
    ASSUME NEW S, NEW e \in S
    PROVE  /\ <<e>> \in Seq(S) /\ Len(<<e>>) = 1 /\ <<e>> # <<>> /\ <<e>>[1] = e
           /\ <<>> \in Seq(S) /\ Len(<<>>) = 0
    OBVIOUS

----------------------------------------------------------------------------
(* The connection, its manager and Stop                                       *)

\* What the manager, the connection and Stop keep between them.
ConnInv ==
    /\ TypeConn
    /\ ConnectedIsServed
    /\ NoLeakedConnection
    /\ stop = "stopped" => mgr = "done"

\* NewClient leaves the client unconnected, with nothing to close (client.go:80-117).
LEMMA ConnInit == Init => ConnInv
<1> SUFFICES ASSUME Init PROVE ConnInv
    OBVIOUS
<1>1. /\ mgr = "check" /\ delay = ReconnectInterval /\ stop = "running"
      /\ dialled = 0 /\ conn = 0 /\ connected = FALSE /\ closed = {}
    BY DEF Init
<1>2. connected \in BOOLEAN
    BY <1>1, Zenon
<1>3. /\ mgr \in MgrStates /\ delay \in Nat /\ dialled \in 0 .. MaxConns
      /\ conn \in 0 .. dialled /\ closed \subseteq 1 .. dialled /\ stop \in StopStates
    BY <1>1, BoundsAssumption, DelayAssumption DEF MgrStates, StopStates
<1>4. TypeConn
    BY <1>2, <1>3 DEF TypeConn
<1> QED
    BY <1>1, <1>4 DEF ConnInv, ConnectedIsServed, NoLeakedConnection

\* Each step of the manager.
LEMMA ConnManagerStep == ConnInv /\ ManagerStep => ConnInv'
<1> SUFFICES ASSUME ConnInv, ManagerStep PROVE ConnInv'
    OBVIOUS
<1> USE BoundsAssumption, DelayAssumption
    DEF ConnInv, TypeConn, ConnectedIsServed, NoLeakedConnection, MgrStates, StopStates,
        connVars, Stopping
<1>1. CASE ManagerChecksStop
    BY <1>1 DEF ManagerChecksStop
<1>2. CASE DialFails
    BY <1>2 DEF DialFails
<1>3. CASE BackoffElapses
    BY <1>3 DEF BackoffElapses
<1>4. CASE DialSucceeds
    BY <1>4 DEF DialSucceeds
<1>5. CASE WaitCancelled
    BY <1>5 DEF WaitCancelled
<1>6. CASE ManagerAfterLoop
    BY <1>6 DEF ManagerAfterLoop
<1>7. CASE CollectRefusal
    BY <1>7 DEF CollectRefusal
<1>8. CASE RefusedWaitElapses
    BY <1>8 DEF RefusedWaitElapses
<1>9. CASE LoopSeesStop
    BY <1>9 DEF LoopSeesStop
<1>10. CASE LoopSeesReaderDone
    BY <1>10 DEF LoopSeesReaderDone
<1>11. CASE LoopTakesEnvelope
    BY <1>11 DEF LoopTakesEnvelope
<1>12. CASE WriteSucceeds
    BY <1>12 DEF WriteSucceeds
<1>13. CASE WriteFails
    BY <1>13 DEF WriteFails
<1>14. CASE LeaveLoop
  <2>1. /\ conn = dialled /\ conn # 0 /\ dialled' = dialled /\ closed' = closed \cup {conn}
        /\ conn' = 0 /\ connected' = FALSE /\ mgr' = "ended" /\ delay' = delay
        /\ stop' = stop
      BY <1>14 DEF LeaveLoop
  <2>2. TypeConn'
    <3>1. connected' \in BOOLEAN
        BY <2>1, Zenon
    <3>2. /\ mgr' \in MgrStates /\ delay' \in Nat /\ dialled' \in 0 .. MaxConns
          /\ conn' \in 0 .. dialled' /\ closed' \subseteq 1 .. dialled' /\ stop' \in StopStates
        BY <2>1
    <3> QED
        BY <3>1, <3>2
  <2>3. NoLeakedConnection'
      BY <2>1
  <2> QED
      BY <2>1, <2>2, <2>3
<1> QED
    BY <1>1, <1>2, <1>3, <1>4, <1>5, <1>6, <1>7, <1>8, <1>9, <1>10, <1>11, <1>12, <1>13,
       <1>14 DEF ManagerStep

\* Stop closes the connection it finds and changes nothing else of it
\* (client.go:145-161).
LEMMA ConnStopStep == ConnInv /\ (StopSignals \/ StopStep) => ConnInv'
<1> SUFFICES ASSUME ConnInv, StopSignals \/ StopStep PROVE ConnInv'
    OBVIOUS
<1> USE DEF ConnInv, TypeConn, ConnectedIsServed, NoLeakedConnection, MgrStates, StopStates,
        connVars, mgrVars
<1>1. CASE StopSignals
    BY <1>1 DEF StopSignals
<1>2. CASE StopClosesConn
    BY <1>2 DEF StopClosesConn
<1>3. CASE StopReturns
    BY <1>3 DEF StopReturns, AllGoroutinesDone
<1> QED
    BY <1>1, <1>2, <1>3 DEF StopStep

\* Everyone else leaves them alone.
LEMMA ConnFrame ==
    ASSUME \/ \E r \in Conns : ReaderStep(r)
           \/ TakeCommand
           \/ \E c \in Callers : BeginSend(c) \/ SendStep(c)
           \/ HeartSeesStop
           \/ \E k \in Conns : Network(k)
           \/ UNCHANGED vars
    PROVE  UNCHANGED <<mgr, delay, dialled, conn, connected, closed, stop>>
<1> USE DEF mgrVars, connVars
<1>1. CASE \E r \in Conns : ReaderStep(r)
    BY <1>1 DEF ReaderStep, ReaderStarts, ReaderChecksStop, ReaderGetsCommand,
       ReaderQueuesCommand, ReaderGetsClose, ReaderRecordsRefusal, ReaderFails
<1>2. CASE TakeCommand
    BY <1>2 DEF TakeCommand
<1>3. CASE \E c \in Callers : BeginSend(c) \/ SendStep(c)
    BY <1>3 DEF BeginSend, SendStep, SendChecksConnected, SendPushes
<1>4. CASE HeartSeesStop
    BY <1>4 DEF HeartSeesStop
<1>5. CASE \E k \in Conns : Network(k)
    BY <1>5 DEF Network, FarEndLeaves, PlatformSendsCommand, ReaderTimesOut
<1>6. CASE UNCHANGED vars
    BY <1>6 DEF vars
<1> QED
    BY <1>1, <1>2, <1>3, <1>4, <1>5, <1>6

\* Every step keeps the connection, the loop that serves it and the set of closed
\* connections in line (client.go:205-209, 307-311, 349-358).
LEMMA ConnStep == ConnInv /\ [Next]_vars => ConnInv'
<1> SUFFICES ASSUME ConnInv, [Next]_vars PROVE ConnInv'
    OBVIOUS
<1>1. CASE ManagerStep \/ StopSignals \/ StopStep
    BY <1>1, ConnManagerStep, ConnStopStep
<1>2. CASE UNCHANGED <<mgr, delay, dialled, conn, connected, closed, stop>>
    BY <1>2 DEF ConnInv, TypeConn, ConnectedIsServed, NoLeakedConnection
<1> QED
    BY <1>1, <1>2, ConnFrame DEF Next

\* Every connection but the current one has been closed here, and being
\* connected is having a connection the loop serves, in every behaviour.
THEOREM ConnectionsKept == Spec => [](NoLeakedConnection /\ ConnectedIsServed)
<1>1. Spec => []ConnInv
    BY ConnInit, ConnStep, PTL DEF Spec
<1>2. ConnInv => NoLeakedConnection /\ ConnectedIsServed
    BY DEF ConnInv
<1> QED
    BY <1>1, <1>2, PTL

\* Once Stop has returned nothing is open, whatever it met under way.
THEOREM NothingOpenAfterStop == Spec => []StopClosesEverything
<1>1. Spec => []ConnInv
    BY ConnInit, ConnStep, PTL DEF Spec
<1>2. ConnInv => StopClosesEverything
  <2> SUFFICES ASSUME ConnInv, stop = "stopped"
               PROVE  conn = 0 /\ ~connected /\ closed = 1 .. dialled
      BY DEF StopClosesEverything
  <2>1. mgr = "done"
      BY DEF ConnInv
  <2>2. conn = 0 /\ ~connected
      BY <2>1 DEF ConnInv, ConnectedIsServed
  <2>3. closed = 1 .. dialled
    <3>1. closed \subseteq 1 .. dialled /\ dialled \in Nat
        BY BoundsAssumption DEF ConnInv, TypeConn
    <3>2. ASSUME NEW k \in 1 .. dialled PROVE k \in closed
        BY <2>2, <3>1 DEF ConnInv, NoLeakedConnection
    <3> QED
        BY <3>1, <3>2
  <2> QED
      BY <2>2, <2>3
<1> QED
    BY <1>1, <1>2, PTL

----------------------------------------------------------------------------
(* The way out: callers, queue, the envelope being written and the wire       *)

OutInv == TypeOut /\ QueueIds

\* What an envelope made by sendEnvelope consists of (client.go:167-197, 457-463).
LEMMA EnvelopeFacts ==
    /\ \A e \in Envelope : e.id \in Nat \ {0} /\ e.type \in MsgTypes /\ e.by \in Callers
    /\ \A n \in Nat \ {0}, t \in MsgTypes, c \in Callers :
          [id |-> n, type |-> t, by |-> c] \in Envelope
    /\ \A n \in Nat \ {0}, t \in MsgTypes, c \in Callers, k \in Conns :
          [id |-> n, type |-> t, by |-> c, conn |-> k] \in WireRecord
    BY DEF Envelope, WireRecord

\* A caller's record stays one.
LEMMA ReturnedType ==
    ASSUME TypeOut, NEW c \in Callers, NEW ok \in BOOLEAN
    PROVE  Returned(c, ok) \in CallerRecord
    BY DEF TypeOut, Returned, CallerRecord, CallerStates, MsgTypes

\* The queue of NewClient is empty (client.go:111).
LEMMA OutInit == Init => OutInv
<1> SUFFICES ASSUME Init PROVE OutInv
    OBVIOUS
<1>1. /\ outboundCh = <<>> /\ writing = <<>> /\ wire = <<>> /\ accepted = 0 /\ mgr = "check"
    BY DEF Init
<1>2. caller \in [Callers -> CallerRecord] /\ calls \in [Apps \cup {Heart} -> Nat]
    BY DEF Init, CallerRecord, CallerStates, FirstMsg, MsgTypes
<1>3. /\ outboundCh \in Seq(Envelope) /\ Len(outboundCh) = 0
      /\ writing \in Seq(Envelope) /\ Len(writing) = 0
      /\ wire \in Seq(WireRecord)
    BY <1>1
<1>4. TypeOut
    BY <1>1, <1>2, <1>3, BoundsAssumption DEF TypeOut
<1>5. DOMAIN outboundCh = {}
    BY <1>1
<1> QED
    BY <1>1, <1>3, <1>4, <1>5 DEF OutInv, QueueIds

\* The loop takes the head of the queue.
LEMMA TakeOut == OutInv /\ LoopTakesEnvelope => OutInv'
<1> SUFFICES ASSUME OutInv, LoopTakesEnvelope PROVE OutInv'
    OBVIOUS
<1>1. /\ outboundCh # <<>> /\ writing' = <<Head(outboundCh)>>
      /\ outboundCh' = Tail(outboundCh) /\ mgr = "loop" /\ mgr' = "write"
      /\ wire' = wire /\ accepted' = accepted /\ caller' = caller /\ calls' = calls
    BY DEF LoopTakesEnvelope, sendVars
<1>2. /\ outboundCh \in Seq(Envelope) /\ Len(outboundCh) <= OutboundCap /\ accepted \in Nat
      /\ writing \in Seq(Envelope)
      /\ accepted >= Len(outboundCh) + Len(writing)
      /\ \A i \in DOMAIN outboundCh : outboundCh[i].id = accepted - Len(outboundCh) + i
      /\ writing # <<>> <=> mgr = "write"
    BY DEF OutInv, TypeOut, QueueIds
<1>3. /\ Head(outboundCh) \in Envelope /\ Head(outboundCh) = outboundCh[1]
      /\ outboundCh' \in Seq(Envelope)
      /\ Len(outboundCh) \in Nat \ {0} /\ Len(outboundCh') = Len(outboundCh) - 1
      /\ DOMAIN outboundCh = 1 .. Len(outboundCh)
      /\ DOMAIN outboundCh' = 1 .. Len(outboundCh) - 1
      /\ \A i \in 1 .. Len(outboundCh) - 1 : outboundCh'[i] = outboundCh[i + 1]
    BY <1>1, <1>2, TailIn
<1>4. /\ writing' \in Seq(Envelope) /\ Len(writing') = 1 /\ writing' # <<>>
      /\ writing'[1] = outboundCh[1]
    BY <1>1, <1>3, One
<1>5. Len(writing) = 0
    BY <1>1, <1>2
<1>6. TypeOut'
    BY <1>1, <1>2, <1>3, <1>4, BoundsAssumption DEF OutInv, TypeOut
<1>7. QueueIds'
  <2>1. \A i \in DOMAIN outboundCh' : outboundCh'[i].id = accepted' - Len(outboundCh') + i
    <3> SUFFICES ASSUME NEW i \in 1 .. Len(outboundCh) - 1
                 PROVE  outboundCh'[i].id = accepted' - Len(outboundCh') + i
        BY <1>3
    <3>1. i + 1 \in DOMAIN outboundCh /\ outboundCh'[i] = outboundCh[i + 1]
        BY <1>3
    <3>2. outboundCh[i + 1].id = accepted - Len(outboundCh) + (i + 1)
        BY <1>2, <3>1
    <3> QED
        BY <1>1, <1>2, <1>3, <3>1, <3>2
  <2>2. writing'[1].id = accepted' - Len(outboundCh')
      BY <1>1, <1>2, <1>3, <1>4
  <2>3. accepted' >= Len(outboundCh') + Len(writing')
      BY <1>1, <1>2, <1>3, <1>4, <1>5
  <2> QED
      BY <1>1, <1>4, <2>1, <2>2, <2>3 DEF QueueIds
<1> QED
    BY <1>6, <1>7 DEF OutInv

\* The write ends, one way or the other.
LEMMA WriteOut == ConnInv /\ OutInv /\ (WriteSucceeds \/ WriteFails) => OutInv'
<1> SUFFICES ASSUME ConnInv, OutInv, WriteSucceeds \/ WriteFails PROVE OutInv'
    OBVIOUS
<1>1. /\ writing' = <<>> /\ outboundCh' = outboundCh /\ mgr = "write"
      /\ mgr' \in {"loop", "leave"} /\ accepted' = accepted
      /\ caller' = caller /\ calls' = calls
    BY DEF WriteSucceeds, WriteFails, sendVars
<1>2. /\ outboundCh \in Seq(Envelope) /\ Len(outboundCh) <= OutboundCap /\ accepted \in Nat
      /\ writing \in Seq(Envelope) /\ writing # <<>>
      /\ accepted >= Len(outboundCh) + Len(writing)
      /\ \A i \in DOMAIN outboundCh : outboundCh[i].id = accepted - Len(outboundCh) + i
    BY <1>1 DEF OutInv, TypeOut, QueueIds
<1>3. writing[1] \in Envelope /\ Len(writing) \in Nat \ {0}
    BY <1>2
<1>4. wire' \in Seq(WireRecord)
  <2>1. CASE WriteSucceeds
    <3>1. conn \in Conns
        BY <1>1, BoundsAssumption
        DEF ConnInv, TypeConn, ConnectedIsServed, Conns
    <3>2. [id |-> writing[1].id, type |-> writing[1].type, by |-> writing[1].by,
           conn |-> conn] \in WireRecord
        BY <1>3, <3>1, EnvelopeFacts
    <3> QED
        BY <2>1, <3>2, AppendIn DEF WriteSucceeds, OutInv, TypeOut
  <2>2. CASE WriteFails
      BY <2>2 DEF WriteFails, OutInv, TypeOut
  <2> QED
      BY <2>1, <2>2
<1>5. writing' \in Seq(Envelope) /\ Len(writing') = 0
    BY <1>1
<1>6. TypeOut'
    BY <1>1, <1>2, <1>4, <1>5 DEF OutInv, TypeOut
<1>7. QueueIds'
    BY <1>1, <1>2, <1>3, <1>5 DEF QueueIds
<1> QED
    BY <1>6, <1>7 DEF OutInv

\* The push gives out the next id, or refuses and changes nothing.
LEMMA PushOut ==
    ASSUME OutInv, NEW c \in Callers, SendPushes(c)
    PROVE  OutInv'
<1>1. /\ writing' = writing /\ wire' = wire /\ calls' = calls /\ mgr' = mgr
    BY DEF SendPushes, mgrVars
<1>2. /\ outboundCh \in Seq(Envelope) /\ Len(outboundCh) <= OutboundCap /\ accepted \in Nat
      /\ writing \in Seq(Envelope) /\ Len(writing) <= 1 /\ wire \in Seq(WireRecord)
      /\ caller \in [Callers -> CallerRecord] /\ calls \in [Apps \cup {Heart} -> Nat]
      /\ Len(outboundCh) \in Nat /\ Len(writing) \in Nat
    BY DEF OutInv, TypeOut
<1>3. caller' \in [Callers -> CallerRecord]
    BY <1>2, ReturnedType DEF SendPushes, OutInv
<1>4. CASE Len(outboundCh) < OutboundCap
  <2> DEFINE e == [id |-> accepted + 1, type |-> caller[c].msg, by |-> c]
  <2>1. accepted' = accepted + 1 /\ outboundCh' = Append(outboundCh, e)
      BY <1>4 DEF SendPushes
  <2>2. e \in Envelope
    <3>1. caller[c].msg \in MsgTypes
        BY <1>2 DEF CallerRecord
    <3> QED
        BY <1>2, <3>1, EnvelopeFacts
  <2>3. e.id = accepted + 1
      OBVIOUS
  <2> HIDE DEF e
  <2>4. /\ outboundCh' \in Seq(Envelope) /\ Len(outboundCh') = Len(outboundCh) + 1
        /\ DOMAIN outboundCh = 1 .. Len(outboundCh)
        /\ DOMAIN outboundCh' = 1 .. Len(outboundCh) + 1
        /\ \A i \in 1 .. Len(outboundCh) : outboundCh'[i] = outboundCh[i]
        /\ outboundCh'[Len(outboundCh) + 1] = e
      BY <1>2, <2>1, <2>2, AppendIn
  <2>5. TypeOut'
      BY <1>1, <1>2, <1>3, <1>4, <2>1, <2>4, BoundsAssumption DEF TypeOut
  <2>6. \A i \in DOMAIN outboundCh' : outboundCh'[i].id = accepted' - Len(outboundCh') + i
    <3> SUFFICES ASSUME NEW i \in 1 .. Len(outboundCh) + 1
                 PROVE  outboundCh'[i].id = accepted' - Len(outboundCh') + i
        BY <2>4
    <3>1. CASE i = Len(outboundCh) + 1
        BY <1>2, <2>1, <2>3, <2>4, <3>1
    <3>2. CASE i \in 1 .. Len(outboundCh)
        BY <1>2, <2>1, <2>4, <3>2 DEF OutInv, QueueIds
    <3> QED
        BY <1>2, <3>1, <3>2
  <2>7. QueueIds'
      BY <1>1, <1>2, <2>1, <2>4, <2>6 DEF OutInv, QueueIds
  <2> QED
      BY <2>5, <2>7 DEF OutInv
<1>5. CASE ~(Len(outboundCh) < OutboundCap)
  <2>1. accepted' = accepted /\ outboundCh' = outboundCh
      BY <1>5 DEF SendPushes
  <2> QED
      BY <1>1, <1>2, <1>3, <2>1 DEF OutInv, TypeOut, QueueIds
<1> QED
    BY <1>4, <1>5

\* Steps that move callers without touching the queue.
LEMMA CallersOut ==
    ASSUME OutInv, DialSucceeds \/ HeartSeesStop
                   \/ \E c \in Callers : BeginSend(c) \/ SendChecksConnected(c)
    PROVE  OutInv'
<1>1. UNCHANGED <<outboundCh, writing, wire, accepted>>
    BY DEF DialSucceeds, HeartSeesStop, BeginSend, SendChecksConnected, outVars
<1>2. mgr' = mgr \/ (mgr = "dial" /\ mgr' = "loop")
    BY DEF DialSucceeds, HeartSeesStop, BeginSend, SendChecksConnected, mgrVars
<1>3. caller \in [Callers -> CallerRecord] /\ calls \in [Apps \cup {Heart} -> Nat]
    BY DEF OutInv, TypeOut
<1>4. caller' \in [Callers -> CallerRecord] /\ calls' \in [Apps \cup {Heart} -> Nat]
  <2>1. CASE DialSucceeds
      BY <1>3, <2>1 DEF DialSucceeds, sendVars, CallerRecord, CallerStates
  <2>2. CASE HeartSeesStop
      BY <1>3, <2>2 DEF HeartSeesStop, CallerRecord, CallerStates
  <2>3. ASSUME NEW c \in Callers, BeginSend(c)
        PROVE  caller' \in [Callers -> CallerRecord] /\ calls' \in [Apps \cup {Heart} -> Nat]
      BY <1>3, <2>3 DEF BeginSend, CallerRecord, CallerStates
  <2>4. ASSUME NEW c \in Callers, SendChecksConnected(c)
        PROVE  caller' \in [Callers -> CallerRecord] /\ calls' \in [Apps \cup {Heart} -> Nat]
    <3>1. Returned(c, FALSE) \in CallerRecord
        BY ReturnedType DEF OutInv
    <3>2. [caller[c] EXCEPT !.at = "push"] \in CallerRecord
        BY <1>3 DEF CallerRecord, CallerStates
    <3> QED
        BY <1>3, <2>4, <3>1, <3>2 DEF SendChecksConnected
  <2> QED
      BY <2>1, <2>2, <2>3, <2>4
<1> QED
    BY <1>1, <1>2, <1>4 DEF OutInv, TypeOut, QueueIds

\* The rest moves neither callers nor queue, and neither begins nor ends a write.
LEMMA OutFrame ==
    ASSUME \/ ManagerChecksStop \/ DialFails \/ BackoffElapses \/ WaitCancelled
           \/ ManagerAfterLoop \/ CollectRefusal \/ RefusedWaitElapses
           \/ LoopSeesStop \/ LoopSeesReaderDone \/ LeaveLoop
           \/ \E r \in Conns : ReaderStep(r)
           \/ TakeCommand
           \/ StopSignals \/ StopStep
           \/ \E k \in Conns : Network(k)
           \/ UNCHANGED vars
    PROVE  /\ UNCHANGED <<outboundCh, writing, wire, accepted, caller, calls>>
           /\ mgr = "write" <=> mgr' = "write"
<1> USE DEF mgrVars, outVars, sendVars
<1>1. CASE \/ ManagerChecksStop \/ DialFails \/ BackoffElapses \/ WaitCancelled
           \/ ManagerAfterLoop \/ CollectRefusal \/ RefusedWaitElapses
           \/ LoopSeesStop \/ LoopSeesReaderDone \/ LeaveLoop
    BY <1>1 DEF ManagerChecksStop, DialFails, BackoffElapses, WaitCancelled,
       ManagerAfterLoop, CollectRefusal, RefusedWaitElapses, LoopSeesStop,
       LoopSeesReaderDone, LeaveLoop
<1>2. CASE \E r \in Conns : ReaderStep(r)
    BY <1>2 DEF ReaderStep, ReaderStarts, ReaderChecksStop, ReaderGetsCommand,
       ReaderQueuesCommand, ReaderGetsClose, ReaderRecordsRefusal, ReaderFails
<1>3. CASE TakeCommand
    BY <1>3 DEF TakeCommand
<1>4. CASE StopSignals \/ StopStep
    BY <1>4 DEF StopSignals, StopStep, StopClosesConn, StopReturns
<1>5. CASE \E k \in Conns : Network(k)
    BY <1>5 DEF Network, FarEndLeaves, PlatformSendsCommand, ReaderTimesOut
<1>6. CASE UNCHANGED vars
    BY <1>6 DEF vars
<1> QED
    BY <1>1, <1>2, <1>3, <1>4, <1>5, <1>6

\* Every step keeps the ids in outboundCh consecutive, its length within the
\* capacity and the types of what is sent (client.go:376-380, 452-463).
LEMMA OutStep == ConnInv /\ OutInv /\ [Next]_vars => OutInv'
<1> SUFFICES ASSUME ConnInv, OutInv, [Next]_vars PROVE OutInv'
    OBVIOUS
<1>1. CASE LoopTakesEnvelope
    BY <1>1, TakeOut
<1>2. CASE WriteSucceeds \/ WriteFails
    BY <1>2, WriteOut
<1>3. CASE \E c \in Callers : SendPushes(c)
    BY <1>3, PushOut
<1>4. CASE DialSucceeds \/ HeartSeesStop
           \/ \E c \in Callers : BeginSend(c) \/ SendChecksConnected(c)
    BY <1>4, CallersOut
<1>5. CASE /\ UNCHANGED <<outboundCh, writing, wire, accepted, caller, calls>>
           /\ mgr = "write" <=> mgr' = "write"
    BY <1>5 DEF OutInv, TypeOut, QueueIds
<1> QED
    BY <1>1, <1>2, <1>3, <1>4, <1>5, OutFrame DEF Next, ManagerStep, SendStep

----------------------------------------------------------------------------
(* The way in: links, readers and the command queue                           *)

InInv == TypeIn /\ ReadersHaveConn

\* No reader runs and nothing was received at the start (client.go:80-117).
LEMMA InInit == Init => InInv
<1> SUFFICES ASSUME Init PROVE InInv
    OBVIOUS
<1>1. reader \in [Conns -> ReaderRecord]
    BY BoundsAssumption DEF Init, ReaderRecord, ReaderStates
<1>2. /\ refusedReason \in 0 .. MaxConns /\ link \in [Conns -> LinkStates]
      /\ closeSeen \subseteq Conns
    BY BoundsAssumption DEF Init, LinkStates
<1>3. inbox \in [Conns -> Seq(Nat)] /\ issued \in Nat
    BY DEF Init
<1>4. commandCh \in Seq(Nat) /\ Len(commandCh) <= CommandCap
    BY BoundsAssumption DEF Init
<1>5. ReadersHaveConn
    BY DEF Init, ReadersHaveConn
<1> QED
    BY <1>1, <1>2, <1>3, <1>4, <1>5 DEF InInv, TypeIn

\* One reader's steps. What it reads from is a connection once it reads.
LEMMA ReaderStepIn ==
    ASSUME ConnInv, InInv, NEW r \in Conns, ReaderStep(r) \/ ReaderTimesOut(r)
    PROVE  InInv'
<1>1. /\ reader \in [Conns -> ReaderRecord]
      /\ reader[r].at \in ReaderStates /\ reader[r].on \in 0 .. MaxConns
      /\ reader[r].got \in Nat
      /\ reader[r].at \in {"check", "read", "record", "queue"} => reader[r].on \in Conns
      /\ conn \in 0 .. MaxConns
    BY BoundsAssumption
    DEF InInv, TypeIn, ReadersHaveConn, ReaderRecord, Conns, ConnInv, TypeConn
<1>2. /\ link \in [Conns -> LinkStates] /\ closeSeen \subseteq Conns
      /\ inbox \in [Conns -> Seq(Nat)] /\ issued \in Nat
      /\ commandCh \in Seq(Nat) /\ Len(commandCh) <= CommandCap
      /\ refusedReason \in 0 .. MaxConns /\ ReadersHaveConn
    BY DEF InInv, TypeIn
<1> USE DEF InInv, TypeIn, ReadersHaveConn, ReaderRecord, ReaderStates
<1>3. CASE ReaderStarts(r)
    BY <1>1, <1>2, <1>3 DEF ReaderStarts
<1>4. CASE ReaderChecksStop(r)
    BY <1>1, <1>2, <1>4 DEF ReaderChecksStop
<1>5. CASE ReaderGetsCommand(r)
  <2> DEFINE k == reader[r].on
  <2>1. k \in Conns /\ inbox[k] \in Seq(Nat) /\ inbox[k] # <<>>
      BY <1>1, <1>2, <1>5 DEF ReaderGetsCommand
  <2>2. Head(inbox[k]) \in Nat /\ Tail(inbox[k]) \in Seq(Nat)
      BY <2>1, TailIn
  <2>3. inbox' \in [Conns -> Seq(Nat)]
      BY <1>2, <1>5, <2>1, <2>2 DEF ReaderGetsCommand
  <2>4. reader' \in [Conns -> ReaderRecord] /\ ReadersHaveConn'
      BY <1>1, <1>2, <1>5, <2>1, <2>2 DEF ReaderGetsCommand
  <2>5. UNCHANGED <<refusedReason, link, closeSeen, issued, commandCh>>
      BY <1>5 DEF ReaderGetsCommand
  <2> QED
      BY <1>2, <2>3, <2>4, <2>5
<1>6. CASE ReaderQueuesCommand(r)
  <2>1. Append(commandCh, reader[r].got) \in Seq(Nat)
        /\ Len(Append(commandCh, reader[r].got)) = Len(commandCh) + 1
        /\ Len(commandCh) \in Nat
      BY <1>1, <1>2, AppendIn
  <2>2. commandCh' \in Seq(Nat) /\ Len(commandCh') <= CommandCap
      BY <1>2, <1>6, <2>1, BoundsAssumption DEF ReaderQueuesCommand
  <2>3. reader' \in [Conns -> ReaderRecord] /\ ReadersHaveConn'
      BY <1>1, <1>2, <1>6 DEF ReaderQueuesCommand
  <2>4. UNCHANGED <<refusedReason, link, closeSeen, inbox, issued>>
      BY <1>6 DEF ReaderQueuesCommand
  <2> QED
      BY <1>2, <2>2, <2>3, <2>4
<1>7. CASE ReaderGetsClose(r)
    BY <1>1, <1>2, <1>7 DEF ReaderGetsClose
<1>8. CASE ReaderRecordsRefusal(r)
    BY <1>1, <1>2, <1>8, BoundsAssumption DEF ReaderRecordsRefusal
<1>9. CASE ReaderFails(r) \/ ReaderTimesOut(r)
  <2>1. /\ reader' = [reader EXCEPT ![r].at = "done"]
        /\ UNCHANGED <<refusedReason, link, closeSeen, inbox, issued, commandCh>>
      BY <1>9 DEF ReaderFails, ReaderTimesOut
  <2>2. reader' \in [Conns -> ReaderRecord] /\ ReadersHaveConn'
      BY <1>1, <1>2, <2>1
  <2> QED
      BY <1>2, <2>1, <2>2
<1> QED
    BY <1>3, <1>4, <1>5, <1>6, <1>7, <1>8, <1>9 DEF ReaderStep

\* The other steps that touch links, inboxes or the command queue.
LEMMA OtherStepsIn ==
    ASSUME ConnInv, InInv,
           \/ DialSucceeds \/ CollectRefusal \/ TakeCommand
           \/ \E k \in Conns : FarEndLeaves(k) \/ PlatformSendsCommand(k)
    PROVE  InInv'
<1>1. /\ link \in [Conns -> LinkStates] /\ closeSeen \subseteq Conns
      /\ inbox \in [Conns -> Seq(Nat)] /\ issued \in Nat
      /\ commandCh \in Seq(Nat) /\ Len(commandCh) <= CommandCap
      /\ refusedReason \in 0 .. MaxConns /\ ReadersHaveConn
      /\ reader \in [Conns -> ReaderRecord]
    BY DEF InInv, TypeIn
<1>2. CASE DialSucceeds
  <2>1. link' \in [Conns -> LinkStates]
      BY <1>1, <1>2 DEF DialSucceeds, LinkStates
  <2>2. reader' \in [Conns -> ReaderRecord] /\ ReadersHaveConn'
      BY <1>1, <1>2 DEF DialSucceeds, ReaderRecord, ReaderStates, ReadersHaveConn
  <2>3. UNCHANGED <<refusedReason, closeSeen, inbox, issued, commandCh>>
      BY <1>2 DEF DialSucceeds
  <2> QED
      BY <1>1, <2>1, <2>2, <2>3 DEF InInv, TypeIn
<1>3. CASE CollectRefusal
  <2>1. refusedReason' = 0 /\ UNCHANGED <<link, closeSeen, inbox, issued, commandCh, reader>>
      BY <1>3 DEF CollectRefusal, inVars
  <2>2. refusedReason' \in 0 .. MaxConns
      BY <2>1, BoundsAssumption
  <2> QED
      BY <1>1, <2>1, <2>2 DEF InInv, TypeIn, ReadersHaveConn
<1>4. CASE TakeCommand
  <2>1. commandCh' \in Seq(Nat) /\ Len(commandCh') <= CommandCap
    <3>1. Tail(commandCh) \in Seq(Nat) /\ Len(Tail(commandCh)) = Len(commandCh) - 1
          /\ Len(commandCh) \in Nat
        BY <1>1, <1>4, TailIn DEF TakeCommand
    <3> QED
        BY <1>1, <1>4, <3>1, BoundsAssumption DEF TakeCommand
  <2>2. UNCHANGED <<refusedReason, link, closeSeen, inbox, issued, reader>>
      BY <1>4 DEF TakeCommand
  <2> QED
      BY <1>1, <2>1, <2>2 DEF InInv, TypeIn, ReadersHaveConn
<1>5. ASSUME NEW k \in Conns, FarEndLeaves(k) PROVE InInv'
  <2>1. FarEndMay \subseteq LinkStates
      BY BoundsAssumption DEF LinkStates, FarEnds
  <2>2. link' \in [Conns -> LinkStates]
      BY <1>1, <1>5, <2>1 DEF FarEndLeaves
  <2> QED
      BY <1>1, <1>5, <2>2 DEF FarEndLeaves, InInv, TypeIn, ReadersHaveConn, inVars
<1>6. ASSUME NEW k \in Conns, PlatformSendsCommand(k) PROVE InInv'
  <2>1. issued + 1 \in Nat /\ inbox[k] \in Seq(Nat)
      BY <1>1
  <2>2. Append(inbox[k], issued + 1) \in Seq(Nat)
      BY <2>1, AppendIn
  <2>3. inbox' \in [Conns -> Seq(Nat)] /\ issued' \in Nat
      BY <1>1, <1>6, <2>1, <2>2 DEF PlatformSendsCommand
  <2>4. UNCHANGED <<refusedReason, link, closeSeen, commandCh, reader>>
      BY <1>6 DEF PlatformSendsCommand
  <2> QED
      BY <1>1, <2>3, <2>4 DEF InInv, TypeIn, ReadersHaveConn
<1> QED
    BY <1>2, <1>3, <1>4, <1>5, <1>6

\* Every other step leaves links, inboxes, readers and commandCh alone.
LEMMA InFrame ==
    ASSUME \/ ManagerChecksStop \/ DialFails \/ BackoffElapses \/ WaitCancelled
           \/ ManagerAfterLoop \/ RefusedWaitElapses
           \/ LoopSeesStop \/ LoopSeesReaderDone \/ LoopTakesEnvelope
           \/ WriteSucceeds \/ WriteFails \/ LeaveLoop
           \/ \E c \in Callers : BeginSend(c) \/ SendStep(c)
           \/ HeartSeesStop
           \/ StopSignals \/ StopStep
           \/ UNCHANGED vars
    PROVE  UNCHANGED <<refusedReason, link, closeSeen, inbox, issued, commandCh, reader>>
<1> USE DEF inVars
<1>1. CASE \/ ManagerChecksStop \/ DialFails \/ BackoffElapses \/ WaitCancelled
           \/ ManagerAfterLoop \/ RefusedWaitElapses
           \/ LoopSeesStop \/ LoopSeesReaderDone \/ LoopTakesEnvelope
           \/ WriteSucceeds \/ WriteFails \/ LeaveLoop
    BY <1>1 DEF ManagerChecksStop, DialFails, BackoffElapses, WaitCancelled,
       ManagerAfterLoop, RefusedWaitElapses, LoopSeesStop, LoopSeesReaderDone,
       LoopTakesEnvelope, WriteSucceeds, WriteFails, LeaveLoop
<1>2. CASE \E c \in Callers : BeginSend(c) \/ SendStep(c)
    BY <1>2 DEF BeginSend, SendStep, SendChecksConnected, SendPushes
<1>3. CASE HeartSeesStop
    BY <1>3 DEF HeartSeesStop
<1>4. CASE StopSignals \/ StopStep
    BY <1>4 DEF StopSignals, StopStep, StopClosesConn, StopReturns
<1>5. CASE UNCHANGED vars
    BY <1>5 DEF vars
<1> QED
    BY <1>1, <1>2, <1>3, <1>4, <1>5

\* Every step keeps commandCh within its capacity, and a reader that reads has a
\* connection (client.go:385-449).
LEMMA InStep == ConnInv /\ InInv /\ [Next]_vars => InInv'
<1> SUFFICES ASSUME ConnInv, InInv, [Next]_vars PROVE InInv'
    OBVIOUS
<1>1. CASE \E r \in Conns : ReaderStep(r) \/ ReaderTimesOut(r)
    BY <1>1, ReaderStepIn
<1>2. CASE \/ DialSucceeds \/ CollectRefusal \/ TakeCommand
           \/ \E k \in Conns : FarEndLeaves(k) \/ PlatformSendsCommand(k)
    BY <1>2, OtherStepsIn
<1>3. CASE UNCHANGED <<refusedReason, link, closeSeen, inbox, issued, commandCh, reader>>
    BY <1>3 DEF InInv, TypeIn, ReadersHaveConn
<1> QED
    BY <1>1, <1>2, <1>3, InFrame DEF Next, ManagerStep, Network

----------------------------------------------------------------------------
(* Together                                                                   *)

\* The inductive invariant holds in every reachable state.
THEOREM ClientInvariant == Spec => []ClientInv
<1>1. ClientInv <=> ConnInv /\ OutInv /\ InInv
    BY DEF ClientInv, ConnInv, OutInv, InInv, TypeOK
<1>2. Init => ConnInv /\ OutInv /\ InInv
    BY ConnInit, OutInit, InInit
<1>3. ConnInv /\ OutInv /\ InInv /\ [Next]_vars => (ConnInv /\ OutInv /\ InInv)'
    BY ConnStep, OutStep, InStep
<1> QED
    BY <1>1, <1>2, <1>3, PTL DEF Spec

\* Types, and the queues within their channels' capacity.
THEOREM TypeCorrect == Spec => []TypeOK
<1>1. ClientInv => TypeOK
    BY DEF ClientInv
<1> QED
    BY ClientInvariant, <1>1, PTL

----------------------------------------------------------------------------
(* The contract                                                               *)

Sent(w) == [i \in DOMAIN w |-> [id |-> w[i].id, conn |-> w[i].conn]]
Taken == accepted - Len(outboundCh) - Len(writing)

\* A queue that is not empty and holds at most one envelope holds one.
LEMMA OneLeft ==
    ASSUME NEW n \in Nat \ {0}, n <= 1 PROVE n = 1
    OBVIOUS

\* Writing one more envelope appends it to what was delivered.
LEMMA SentAppend ==
    ASSUME NEW S, NEW w \in Seq(S), NEW e \in S
    PROVE  Sent(Append(w, e)) = Append(Sent(w), [id |-> e.id, conn |-> e.conn])
<1> DEFINE a == Sent(Append(w, e))
           b == Append(Sent(w), [id |-> e.id, conn |-> e.conn])
           n == Len(w)
<1>1. /\ n \in Nat /\ DOMAIN w = 1 .. n /\ DOMAIN Append(w, e) = 1 .. n + 1
      /\ \A i \in 1 .. n : Append(w, e)[i] = w[i]
      /\ Append(w, e)[n + 1] = e
    BY AppendIn
<1>2. Sent(w) \in Seq({[id |-> w[i].id, conn |-> w[i].conn] : i \in 1 .. n}) /\ Len(Sent(w)) = n
    BY <1>1 DEF Sent
<1>3. /\ DOMAIN b = 1 .. n + 1
      /\ \A i \in 1 .. n : b[i] = Sent(w)[i]
      /\ b[n + 1] = [id |-> e.id, conn |-> e.conn]
  <2> DEFINE x == [id |-> e.id, conn |-> e.conn]
             T == {[id |-> w[i].id, conn |-> w[i].conn] : i \in 1 .. n} \cup {x}
  <2>1. Sent(w) \in Seq(T) /\ x \in T
      BY <1>1, <1>2 DEF Sent
  <2> HIDE DEF x, T
  <2>2. /\ DOMAIN Append(Sent(w), x) = 1 .. Len(Sent(w)) + 1
        /\ \A i \in 1 .. Len(Sent(w)) : Append(Sent(w), x)[i] = Sent(w)[i]
        /\ Append(Sent(w), x)[Len(Sent(w)) + 1] = x
      BY <2>1, AppendIn
  <2> QED
      BY <1>2, <2>2 DEF x
<1>4. \A i \in 1 .. n + 1 : a[i] = b[i]
  <2>1. ASSUME NEW i \in 1 .. n PROVE a[i] = b[i]
      BY <1>1, <1>3 DEF Sent
  <2>2. a[n + 1] = b[n + 1]
      BY <1>1, <1>3 DEF Sent
  <2>3. n \in Nat
      BY <1>1
  <2> HIDE DEF a, b, n
  <2> QED
      BY <2>1, <2>2, <2>3
<1>5. a = [i \in 1 .. n + 1 |-> a[i]] /\ b = [i \in 1 .. n + 1 |-> b[i]]
    BY <1>1, <1>3 DEF Sent
<1> QED
    BY <1>4, <1>5

\* A client just made is the contract's initial state: nothing taken or delivered.
LEMMA MappedInit == Init => Fifo!Init
<1> SUFFICES ASSUME Init PROVE Fifo!Init
    OBVIOUS
<1>1. /\ mgr = "check" /\ dialled = 0 /\ wire = <<>> /\ accepted = 0
      /\ Len(outboundCh) = 0 /\ Len(writing) = 0
    BY DEF Init
<1>2. [i \in DOMAIN wire |-> [id |-> wire[i].id, conn |-> wire[i].conn]] = <<>>
    BY <1>1
<1>3. (mgr \in {"loop", "write"}) = FALSE
    BY <1>1
<1> QED
    BY <1>1, <1>2, <1>3 DEF Fifo!Init

\* What the contract sees of a step: five mapped variables.
LEMMA MappedStep == ClientInv /\ [Next]_vars => [Fifo!Next]_(Fifo!vars)
<1> SUFFICES ASSUME ClientInv, [Next]_vars PROVE [Fifo!Next]_(Fifo!vars)
    OBVIOUS
<1>0. /\ accepted \in Nat /\ Len(outboundCh) \in Nat /\ Len(writing) \in Nat
      /\ outboundCh \in Seq(Envelope) /\ writing \in Seq(Envelope) /\ wire \in Seq(WireRecord)
      /\ dialled \in Nat
    BY BoundsAssumption DEF ClientInv, TypeOK, TypeOut, TypeConn
<1>1. CASE DialSucceeds
  <2>1. /\ mgr = "dial" /\ mgr' = "loop" /\ dialled' = dialled + 1
        /\ UNCHANGED <<outboundCh, writing, wire, accepted>>
      BY <1>1 DEF DialSucceeds, outVars
  <2> QED
      BY <2>1 DEF Fifo!Next, Fifo!Connect
<1>2. CASE LoopTakesEnvelope
  <2>1. /\ mgr = "loop" /\ mgr' = "write" /\ dialled' = dialled
        /\ wire' = wire /\ accepted' = accepted
        /\ outboundCh # <<>> /\ outboundCh' = Tail(outboundCh)
        /\ writing' = <<Head(outboundCh)>>
      BY <1>2 DEF LoopTakesEnvelope, connVars
  <2>2. Len(outboundCh') = Len(outboundCh) - 1 /\ Len(writing') = 1 /\ Len(writing) = 0
      BY <1>0, <2>1, TailIn, One DEF ClientInv, QueueIds
  <2>3. Taken' = Taken
      BY <1>0, <2>1, <2>2 DEF Taken
  <2> QED
      BY <2>1, <2>3 DEF Taken, Fifo!vars
<1>3. CASE WriteSucceeds
  <2> DEFINE w == [id |-> writing[1].id, type |-> writing[1].type, by |-> writing[1].by,
                   conn |-> conn]
  <2>1. /\ mgr = "write" /\ mgr' = "loop" /\ dialled' = dialled
        /\ accepted' = accepted /\ outboundCh' = outboundCh
        /\ wire' = Append(wire, w)
        /\ writing' = <<>>
      BY <1>3 DEF WriteSucceeds, connVars
  <2>2. /\ writing # <<>> /\ Len(writing) = 1 /\ Len(writing') = 0
        /\ writing[1] \in Envelope
        /\ writing[1].id = accepted - Len(outboundCh)
    <3>1. writing # <<>> /\ Len(writing) <= 1 /\ writing[1].id = accepted - Len(outboundCh)
        BY <2>1 DEF ClientInv, QueueIds, TypeOK, TypeOut
    <3>2. Len(writing) \in Nat \ {0} /\ writing[1] \in Envelope
        BY <1>0, <3>1, TailIn
    <3>3. Len(writing') = 0
        BY <2>1
    <3>4. Len(writing) = 1
        BY <3>1, <3>2, OneLeft
    <3> QED
        BY <3>1, <3>2, <3>3, <3>4, Zenon
  <2>3. conn = dialled /\ conn \in Conns
      BY <2>1, BoundsAssumption DEF ClientInv, ConnectedIsServed, TypeOK, TypeConn, Conns
  <2>4. w \in WireRecord /\ w.id = accepted - Len(outboundCh) /\ w.conn = dialled
      BY <2>2, <2>3, EnvelopeFacts
  <2> HIDE DEF w
  <2>5. Sent(wire') = Append(Sent(wire), [id |-> w.id, conn |-> w.conn])
      BY <1>0, <2>1, <2>4, SentAppend
  <2>6. Taken' = Taken + 1 /\ Taken < accepted /\ w.id = Taken + 1
      BY <1>0, <2>1, <2>2, <2>4 DEF Taken
  <2>7. Sent(wire') = Append(Sent(wire), [id |-> Taken + 1, conn |-> dialled])
      BY <2>4, <2>5, <2>6
  <2>8. Fifo!Deliver
      BY <2>1, <2>6, <2>7 DEF Fifo!Deliver, Taken, Sent
  <2> QED
      BY <2>8 DEF Fifo!Next
<1>4. CASE WriteFails
  <2>1. /\ mgr = "write" /\ mgr' = "leave" /\ dialled' = dialled
        /\ wire' = wire /\ accepted' = accepted /\ outboundCh' = outboundCh
        /\ writing' = <<>>
      BY <1>4 DEF WriteFails, connVars
  <2>2. Len(writing') = 0 /\ Len(writing) = 1
    <3>1. writing # <<>> /\ Len(writing) <= 1
        BY <2>1 DEF ClientInv, QueueIds, TypeOK, TypeOut
    <3>2. Len(writing) \in Nat \ {0}
        BY <1>0, <3>1, TailIn
    <3>3. Len(writing') = 0
        BY <2>1
    <3>4. Len(writing) = 1
        BY <3>1, <3>2, OneLeft
    <3> QED
        BY <3>1, <3>2, <3>3, <3>4, Zenon
  <2>3. Taken' = Taken + 1 /\ Taken < accepted
      BY <1>0, <2>1, <2>2 DEF Taken
  <2>4. Fifo!Lose
      BY <2>1, <2>3 DEF Fifo!Lose, Taken
  <2> QED
      BY <2>4 DEF Fifo!Next
<1>5. CASE LoopSeesStop \/ LoopSeesReaderDone
  <2>1. /\ mgr = "loop" /\ mgr' = "leave" /\ dialled' = dialled
        /\ UNCHANGED <<outboundCh, writing, wire, accepted>>
      BY <1>5 DEF LoopSeesStop, LoopSeesReaderDone, connVars, outVars
  <2> QED
      BY <2>1 DEF Fifo!Next, Fifo!Break
<1>6. ASSUME NEW c \in Callers, SendPushes(c) PROVE [Fifo!Next]_(Fifo!vars)
  <2>1. mgr' = mgr /\ dialled' = dialled /\ writing' = writing /\ wire' = wire
      BY <1>6 DEF SendPushes, mgrVars, connVars
  <2>2. CASE Len(outboundCh) < OutboundCap
    <3>1. accepted' = accepted + 1 /\ Len(outboundCh') = Len(outboundCh) + 1
      <4> DEFINE e == [id |-> accepted + 1, type |-> caller[c].msg, by |-> c]
      <4>1. accepted' = accepted + 1 /\ outboundCh' = Append(outboundCh, e)
          BY <1>6, <2>2 DEF SendPushes
      <4>2. Len(Append(outboundCh, e)) = Len(outboundCh) + 1
        <5>1. outboundCh \in Seq(Envelope \cup {e}) /\ e \in Envelope \cup {e}
            BY <1>0
        <5> HIDE DEF e
        <5> QED
            BY <5>1, AppendIn
      <4> QED
          BY <4>1, <4>2
    <3>2. Taken' = Taken
        BY <1>0, <2>1, <3>1 DEF Taken
    <3>3. Fifo!Accept
        BY <2>1, <3>1, <3>2 DEF Fifo!Accept, Taken
    <3> QED
        BY <3>3 DEF Fifo!Next
  <2>3. CASE ~(Len(outboundCh) < OutboundCap)
    <3>1. accepted' = accepted /\ outboundCh' = outboundCh
        BY <1>6, <2>3 DEF SendPushes
    <3> QED
        BY <2>1, <3>1 DEF Fifo!vars
  <2> QED
      BY <2>2, <2>3
<1>7. CASE \/ ManagerChecksStop \/ DialFails \/ BackoffElapses \/ WaitCancelled
           \/ ManagerAfterLoop \/ CollectRefusal \/ RefusedWaitElapses \/ LeaveLoop
  <2>1. /\ mgr \notin {"loop", "write"} /\ mgr' \notin {"loop", "write"}
        /\ dialled' = dialled /\ UNCHANGED <<outboundCh, writing, wire, accepted>>
      BY <1>7 DEF ManagerChecksStop, DialFails, BackoffElapses, WaitCancelled,
         ManagerAfterLoop, CollectRefusal, RefusedWaitElapses, LeaveLoop, connVars, outVars
  <2> QED
      BY <2>1 DEF Fifo!vars
<1>8. CASE \/ \E r \in Conns : ReaderStep(r)
           \/ TakeCommand
           \/ \E c \in Callers : BeginSend(c) \/ SendChecksConnected(c)
           \/ HeartSeesStop \/ StopSignals \/ StopStep
           \/ \E k \in Conns : Network(k)
           \/ UNCHANGED vars
  <2>1. UNCHANGED <<mgr, dialled, outboundCh, writing, wire, accepted>>
    <3> USE DEF mgrVars, connVars, outVars
    <3>1. CASE \E r \in Conns : ReaderStep(r)
        BY <3>1 DEF ReaderStep, ReaderStarts, ReaderChecksStop, ReaderGetsCommand,
           ReaderQueuesCommand, ReaderGetsClose, ReaderRecordsRefusal, ReaderFails
    <3>2. CASE TakeCommand
        BY <3>2 DEF TakeCommand
    <3>3. CASE \E c \in Callers : BeginSend(c) \/ SendChecksConnected(c)
        BY <3>3 DEF BeginSend, SendChecksConnected
    <3>4. CASE HeartSeesStop \/ StopSignals \/ StopStep
        BY <3>4 DEF HeartSeesStop, StopSignals, StopStep, StopClosesConn, StopReturns
    <3>5. CASE \E k \in Conns : Network(k)
        BY <3>5 DEF Network, FarEndLeaves, PlatformSendsCommand, ReaderTimesOut
    <3>6. CASE UNCHANGED vars
        BY <3>6 DEF vars
    <3> QED
        BY <1>8, <3>1, <3>2, <3>3, <3>4, <3>5, <3>6
  <2> QED
      BY <2>1 DEF Fifo!vars
<1> QED
    BY <1>1, <1>2, <1>3, <1>4, <1>5, <1>6, <1>7, <1>8 DEF Next, ManagerStep, SendStep

\* The client implements the contract, for any number of connections, callers and
\* envelopes and any capacity of the queue.
THEOREM Implements == Spec => ImplementsLossyFifo
<1>1. Spec => []ClientInv
    BY ClientInvariant
<1> QED
    BY <1>1, MappedInit, MappedStep, PTL DEF Spec, ImplementsLossyFifo, Fifo!Spec

\* What is proved of the contract, under the same mapping.
Contract == INSTANCE LossyFifoProofs WITH
                taken <- accepted - Len(outboundCh) - Len(writing),
                delivered <- [i \in DOMAIN wire |->
                                 [id |-> wire[i].id, conn |-> wire[i].conn]],
                up <- mgr \in {"loop", "write"},
                epoch <- dialled

\* Envelopes are written in the order they were accepted, none twice, and no
\* connection costs more than one of them: the contract's promise, for the client.
THEOREM OrderAndLoss == Spec => [](WrittenInOrder /\ AtMostOneLostPerConnection)
<1>1. Spec => Contract!Spec
  <2>1. Init => Contract!Init
      BY MappedInit DEF Fifo!Init, Contract!Init
  <2>2. ClientInv /\ [Next]_vars => [Contract!Next]_(Contract!vars)
      BY MappedStep
      DEF Fifo!Next, Fifo!vars, Fifo!Accept, Fifo!Deliver, Fifo!Lose, Fifo!Break, Fifo!Connect,
          Contract!Next, Contract!vars, Contract!Accept, Contract!Deliver, Contract!Lose,
          Contract!Break, Contract!Connect
  <2> QED
      BY <2>1, <2>2, ClientInvariant, PTL DEF Spec, Contract!Spec
<1>2. Contract!Spec => [](Contract!InOrder /\ Contract!OneLossPerConnection)
    BY Contract!ContractKept
<1>3. ASSUME ClientInv, Contract!InOrder, Contract!OneLossPerConnection
      PROVE  WrittenInOrder /\ AtMostOneLostPerConnection
  <2> DEFINE d == [i \in DOMAIN wire |-> [id |-> wire[i].id, conn |-> wire[i].conn]]
  <2>1. /\ DOMAIN d = DOMAIN wire
        /\ \A i \in DOMAIN wire : d[i].id = wire[i].id /\ d[i].conn = wire[i].conn
      OBVIOUS
  <2>2. wire # <<>> => 1 \in DOMAIN wire /\ d # <<>>
    <3> SUFFICES ASSUME wire # <<>> PROVE 1 \in DOMAIN wire /\ d # <<>>
        OBVIOUS
    <3>1. wire \in Seq(WireRecord)
        BY <1>3 DEF ClientInv, TypeOK, TypeOut
    <3>2. 1 \in DOMAIN wire
        BY <3>1, TailIn
    <3>3. DOMAIN <<>> = {}
        OBVIOUS
    <3> HIDE DEF d
    <3> QED
        BY <2>1, <3>2, <3>3
  <2>3. /\ \A i, j \in DOMAIN d : i < j => d[i].id < d[j].id /\ d[i].conn <= d[j].conn
        /\ d # <<>> => d[1].id <= d[1].conn
        /\ \A i \in DOMAIN d : i + 1 \in DOMAIN d =>
              d[i + 1].id - d[i].id <= 1 + d[i + 1].conn - d[i].conn
      BY <1>3 DEF Contract!InOrder, Contract!OneLossPerConnection
  <2> HIDE DEF d
  <2>4. WrittenInOrder
      BY <2>1, <2>3 DEF WrittenInOrder
  <2>5. AtMostOneLostPerConnection
    <3>1. wire # <<>> => wire[1].id <= wire[1].conn
        BY <2>1, <2>2, <2>3
    <3>2. ASSUME NEW i \in DOMAIN wire, i + 1 \in DOMAIN wire
          PROVE  wire[i + 1].id - wire[i].id <= 1 + wire[i + 1].conn - wire[i].conn
        BY <2>1, <2>3, <3>2
    <3> QED
        BY <3>1, <3>2 DEF AtMostOneLostPerConnection
  <2> QED
      BY <2>4, <2>5
<1> QED
    BY <1>1, <1>2, <1>3, ClientInvariant, PTL

----------------------------------------------------------------------------
(* The two waits                                                              *)

\* No more than one envelope is lost with a connection, taken by itself.
THEOREM LossIsBounded == Spec => []AtMostOneLostPerConnection
BY OrderAndLoss, PTL

\* What callers read as connected is always a connection that is served, taken by
\* itself (client.go:205-209).
THEOREM ServedWhenConnected == Spec => []ConnectedIsServed
BY ConnectionsKept, PTL

\* How a refusal travels from the close frame to the long wait: only a connection
\* that was made is closed, only a refused one is recorded, and it stays refused.
RefusalInv ==
    /\ \A k \in Conns : k > dialled => link[k] = "none"
    /\ \A k \in closeSeen : link[k] \in {"refused", "refusedNoText"}
    /\ refusedReason # 0 => refusedReason \in closeSeen /\ link[refusedReason] = "refused"
    /\ \A r \in Conns : reader[r].at = "record" => reader[r].on \in closeSeen
    /\ LongWaitHasCause

\* Nothing was refused at the start.
LEMMA RefusalInit == Init => RefusalInv
BY DEF Init, RefusalInv, LongWaitHasCause

\* A reader records what it read, and goes to recording only with a close read
\* (client.go:404-421).
LEMMA RefusalReaders ==
    ASSUME ClientInv, RefusalInv, NEW r \in Conns, ReaderStep(r) \/ ReaderTimesOut(r)
    PROVE  RefusalInv'
<1> USE DEF mgrVars, connVars, RefusalInv, LongWaitHasCause
<1>0. /\ reader \in [Conns -> ReaderRecord] /\ mgr' = mgr /\ dialled' = dialled
      /\ link' = link
    BY DEF ClientInv, TypeOK, TypeIn, ReaderStep, ReaderStarts, ReaderChecksStop,
       ReaderGetsCommand, ReaderQueuesCommand, ReaderGetsClose, ReaderRecordsRefusal,
       ReaderFails, ReaderTimesOut
<1>1. CASE ReaderGetsClose(r)
  <2> DEFINE k == reader[r].on
  <2>1. closeSeen' = closeSeen \cup {k} /\ link[k] \in {"refused", "refusedNoText"}
        /\ refusedReason' = refusedReason /\ reader' = [reader EXCEPT ![r].at = "record"]
      BY <1>1 DEF ReaderGetsClose
  <2>2. \A q \in Conns : reader'[q].at = "record" => reader'[q].on \in closeSeen'
    <3> TAKE q \in Conns
    <3>1. CASE q = r
        BY <1>0, <2>1, <3>1 DEF ReaderRecord
    <3>2. CASE q # r
        BY <1>0, <2>1, <3>2
    <3> QED
        BY <3>1, <3>2
  <2> QED
      BY <1>0, <2>1, <2>2
<1>2. CASE ReaderRecordsRefusal(r)
  <2> DEFINE k == reader[r].on
  <2>1. /\ k \in closeSeen /\ closeSeen' = closeSeen
        /\ refusedReason' = IF link[k] = "refused" THEN k ELSE 0
        /\ reader' = [reader EXCEPT ![r].at = "done"]
      BY <1>2 DEF ReaderRecordsRefusal
  <2>2. \A q \in Conns : reader'[q].at = "record" => reader'[q].on \in closeSeen'
      BY <1>0, <2>1
  <2> QED
      BY <1>0, <2>1, <2>2
<1>3. CASE \/ ReaderStarts(r) \/ ReaderChecksStop(r) \/ ReaderGetsCommand(r)
           \/ ReaderQueuesCommand(r) \/ ReaderFails(r) \/ ReaderTimesOut(r)
  <2>1. UNCHANGED <<closeSeen, refusedReason>>
      BY <1>3 DEF ReaderStarts, ReaderChecksStop, ReaderGetsCommand, ReaderQueuesCommand,
         ReaderFails, ReaderTimesOut
  <2>2. reader'[r].at # "record" /\ \A q \in Conns \ {r} : reader'[q] = reader[q]
    <3> USE <1>0 DEF ReaderRecord
    <3>1. CASE ReaderStarts(r)
        BY <3>1 DEF ReaderStarts
    <3>2. CASE ReaderChecksStop(r)
        BY <3>2 DEF ReaderChecksStop
    <3>3. CASE ReaderGetsCommand(r)
        BY <3>3 DEF ReaderGetsCommand
    <3>4. CASE ReaderQueuesCommand(r)
        BY <3>4 DEF ReaderQueuesCommand
    <3>5. CASE ReaderFails(r) \/ ReaderTimesOut(r)
        BY <3>5 DEF ReaderFails, ReaderTimesOut
    <3> QED
        BY <1>3, <3>1, <3>2, <3>3, <3>4, <3>5
  <2> QED
      BY <1>0, <2>1, <2>2
<1> QED
    BY <1>1, <1>2, <1>3 DEF ReaderStep

\* Every step leaves a refusal that was read on record (client.go:256-275).
LEMMA RefusalStep == ClientInv /\ RefusalInv /\ [Next]_vars => RefusalInv'
<1> SUFFICES ASSUME ClientInv, RefusalInv, [Next]_vars PROVE RefusalInv'
    OBVIOUS
<1> USE DEF mgrVars, connVars, inVars, RefusalInv, LongWaitHasCause
<1>1. ASSUME NEW r \in Conns, ReaderStep(r) \/ ReaderTimesOut(r) PROVE RefusalInv'
    BY <1>1, RefusalReaders
<1>2. CASE DialSucceeds
  <2>1. /\ dialled \in 0 .. MaxConns /\ dialled' = dialled + 1
        /\ link \in [Conns -> LinkStates] /\ reader \in [Conns -> ReaderRecord]
        /\ closeSeen \subseteq Conns /\ MaxConns \in Nat
      BY <1>2, BoundsAssumption DEF ClientInv, TypeOK, TypeConn, TypeIn, DialSucceeds
  <2>2. /\ link' = [link EXCEPT ![dialled + 1] = "open"] /\ mgr' = "loop"
        /\ reader' = [reader EXCEPT ![dialled + 1].at = "start"]
        /\ UNCHANGED <<refusedReason, closeSeen>> /\ dialled + 1 \in Conns
      BY <1>2, <2>1 DEF DialSucceeds, Conns
  <2>3. link[dialled + 1] = "none" /\ dialled + 1 \notin closeSeen
      BY <2>1, <2>2
  <2>4. \A k \in closeSeen : link'[k] = link[k]
      BY <2>1, <2>2, <2>3
  <2>5. \A k \in Conns : k > dialled' => link'[k] = "none"
    <3> SUFFICES ASSUME NEW k \in Conns, k > dialled + 1 PROVE link'[k] = "none"
        BY <2>1
    <3>1. k # dialled + 1 /\ k > dialled
        BY <2>1 DEF Conns
    <3> QED
        BY <2>1, <2>2, <3>1
  <2>6. \A r \in Conns : reader'[r].at = "record" => reader'[r].on \in closeSeen
    <3> TAKE r \in Conns
    <3>1. CASE r = dialled + 1
        BY <2>1, <2>2, <3>1 DEF ReaderRecord
    <3>2. CASE r # dialled + 1
        BY <2>1, <2>2, <3>2
    <3> QED
        BY <3>1, <3>2
  <2> QED
      BY <2>2, <2>4, <2>5, <2>6
<1>3. CASE CollectRefusal
    BY <1>3 DEF CollectRefusal
<1>4. ASSUME NEW k \in Conns, FarEndLeaves(k) PROVE RefusalInv'
  <2>1. /\ UNCHANGED <<mgr, dialled, closeSeen, refusedReason, reader>>
        /\ link[k] = "open" /\ \A j \in Conns \ {k} : link'[j] = link[j]
        /\ closeSeen \subseteq Conns
      BY <1>4 DEF FarEndLeaves, ClientInv, TypeOK, TypeIn
  <2>2. k \notin closeSeen /\ ~(k > dialled)
      BY <2>1
  <2> QED
      BY <2>1, <2>2
<1>5. ASSUME NEW k \in Conns, PlatformSendsCommand(k) PROVE RefusalInv'
    BY <1>5 DEF PlatformSendsCommand
<1>6. CASE TakeCommand
    BY <1>6 DEF TakeCommand
<1>7. CASE \/ ManagerChecksStop \/ DialFails \/ BackoffElapses \/ WaitCancelled
           \/ ManagerAfterLoop \/ RefusedWaitElapses
           \/ LoopSeesStop \/ LoopSeesReaderDone \/ LoopTakesEnvelope
           \/ WriteSucceeds \/ WriteFails \/ LeaveLoop
  <2>1. mgr' # "refused" /\ dialled' = dialled
      BY <1>7 DEF ManagerChecksStop, DialFails, BackoffElapses, WaitCancelled,
         ManagerAfterLoop, RefusedWaitElapses, LoopSeesStop, LoopSeesReaderDone,
         LoopTakesEnvelope, WriteSucceeds, WriteFails, LeaveLoop
  <2> QED
      BY <1>7, <2>1, InFrame
<1>8. CASE \/ \E c \in Callers : BeginSend(c) \/ SendStep(c)
           \/ HeartSeesStop \/ StopSignals \/ StopStep \/ UNCHANGED vars
  <2>1. mgr' = mgr /\ dialled' = dialled
      BY <1>8 DEF BeginSend, SendStep, SendChecksConnected, SendPushes, HeartSeesStop,
         StopSignals, StopStep, StopClosesConn, StopReturns, vars
  <2> QED
      BY <1>8, <2>1, InFrame
<1> QED
    BY <1>1, <1>2, <1>3, <1>4, <1>5, <1>6, <1>7, <1>8 DEF Next, ManagerStep, Network

\* The maximum wait before a dial follows a refusal that was read, for any number
\* of connections and readers (client.go:256-274).
THEOREM LongWaitJustified == Spec => []LongWaitHasCause
<1>1. Spec => []RefusalInv
    BY RefusalInit, RefusalStep, ClientInvariant, PTL DEF Spec
<1>2. RefusalInv => LongWaitHasCause
    BY DEF RefusalInv
<1> QED
    BY <1>1, <1>2, PTL

\* With an interval that is not above the maximum, which config.Load does not check,
\* the delay shrinks with a new connection only (client.go:226-239).
THEOREM BackoffOnlyGrows ==
    ASSUME ReconnectInterval <= MaxReconnectDelay
    PROVE  Spec => BackoffGrows
<1> DEFINE Capped == delay \in Nat /\ delay <= MaxReconnectDelay
<1>1. Init => Capped
    BY DelayAssumption DEF Init
<1>2. ASSUME Capped, [Next]_vars
      PROVE  Capped' /\ (delay' < delay => dialled' = dialled + 1)
  <2> USE DelayAssumption
  <2>1. CASE BackoffElapses
      BY <1>2, <2>1 DEF BackoffElapses
  <2>2. CASE DialSucceeds
      BY <1>2, <2>2 DEF DialSucceeds
  <2>3. CASE delay' = delay
      BY <1>2, <2>3
  <2>4. CASE ManagerStep
      BY <2>1, <2>2, <2>3, <2>4 DEF ManagerStep, ManagerChecksStop, DialFails, WaitCancelled,
         ManagerAfterLoop, CollectRefusal, RefusedWaitElapses, LoopSeesStop,
         LoopSeesReaderDone, LoopTakesEnvelope, WriteSucceeds, WriteFails, LeaveLoop
  <2>5. CASE ~ManagerStep
      BY <1>2, <2>3, <2>5 DEF Next, vars, mgrVars, ReaderStep, ReaderStarts, ReaderChecksStop,
         ReaderGetsCommand, ReaderQueuesCommand, ReaderGetsClose, ReaderRecordsRefusal,
         ReaderFails, ReaderTimesOut, TakeCommand, BeginSend, SendStep, SendChecksConnected,
         SendPushes, HeartSeesStop, StopSignals, StopStep, StopClosesConn, StopReturns,
         Network, FarEndLeaves, PlatformSendsCommand
  <2> QED
      BY <2>4, <2>5
<1>3. ASSUME Capped, [Next]_vars
      PROVE  [delay' < delay => dialled' = dialled + 1]_vars
    BY <1>2, <1>3
<1> QED
    BY <1>1, <1>2, <1>3, PTL DEF Spec, BackoffGrows
----------------------------------------------------------------------------
(* Commands on their way to processCommands                                   *)

\* What CommandsRunOnce says of one step.
RunOnce ==
    /\ OnTheirWay' \cap (1 .. issued) \subseteq OnTheirWay
    /\ commandCh # <<>> /\ commandCh' = Tail(commandCh) => Head(commandCh) \notin OnTheirWay'

\* Appending what is not there yet adds it and repeats nothing.
LEMMA AppendOnce ==
    ASSUME NEW S, NEW s \in Seq(S), NEW e \in S
    PROVE  /\ Range(Append(s, e)) = Range(s) \cup {e}
           /\ IsInjective(s) /\ e \notin Range(s) => IsInjective(Append(s, e))
<1>1. /\ DOMAIN s = 1 .. Len(s) /\ DOMAIN Append(s, e) = 1 .. Len(s) + 1
      /\ \A i \in 1 .. Len(s) : Append(s, e)[i] = s[i]
      /\ Append(s, e)[Len(s) + 1] = e
      /\ Len(s) \in Nat
    BY AppendIn
<1> DEFINE t == Append(s, e)
<1> HIDE DEF t
<1>2. Range(t) = Range(s) \cup {e}
    BY <1>1 DEF Range, t
<1>3. ASSUME IsInjective(s), e \notin Range(s) PROVE IsInjective(t)
    BY <1>1, <1>3 DEF Range, IsInjective, t
<1> QED
    BY <1>2, <1>3 DEF t

\* Taking the first of what has no repetition takes it away altogether.
LEMMA TailOnce ==
    ASSUME NEW S, NEW s \in Seq(S), s # <<>>, IsInjective(s)
    PROVE  /\ Range(Tail(s)) = Range(s) \ {Head(s)} /\ Head(s) \in Range(s)
           /\ IsInjective(Tail(s))
<1>1. /\ Head(s) = s[1] /\ Len(s) \in Nat \ {0}
      /\ DOMAIN s = 1 .. Len(s) /\ DOMAIN Tail(s) = 1 .. Len(s) - 1
      /\ \A i \in 1 .. Len(s) - 1 : Tail(s)[i] = s[i + 1]
    BY TailIn
<1> DEFINE t == Tail(s)
<1> HIDE DEF t
<1>2. 1 \in DOMAIN s /\ Head(s) \in Range(s)
    BY <1>1 DEF Range
<1>3. ASSUME NEW c \in Range(t) PROVE c \in Range(s) /\ c # Head(s)
  <2>1. PICK i \in 1 .. Len(s) - 1 : c = s[i + 1]
      BY <1>1, <1>3 DEF Range, t
  <2>2. i + 1 \in DOMAIN s /\ i + 1 # 1
      BY <1>1, <2>1
  <2> QED
      BY <1>1, <1>2, <2>1, <2>2 DEF Range, IsInjective
<1>4. ASSUME NEW c \in Range(s), c # Head(s) PROVE c \in Range(t)
  <2>1. PICK i \in 1 .. Len(s) : c = s[i]
      BY <1>1, <1>4 DEF Range
  <2>2. i # 1
      BY <1>1, <1>4, <2>1
  <2>3. i - 1 \in 1 .. Len(s) - 1 /\ (i - 1) + 1 = i
      BY <1>1, <2>1, <2>2
  <2>4. i - 1 \in DOMAIN t /\ t[i - 1] = s[i]
      BY <1>1, <2>3 DEF t
  <2> QED
      BY <2>1, <2>4 DEF Range
<1>5. IsInjective(t)
    BY <1>1 DEF IsInjective, t
<1> QED
    BY <1>2, <1>3, <1>4, <1>5 DEF t

\* Where a command on its way can be (client.go:385-449).
LEMMA Places ==
    /\ \A c : c \in OnTheirWay <=>
               c \in Queued \/ \E k \in Conns : c \in Received(k) \/ c \in InReader(k)
    /\ \A c : c \in OnTheirWay' <=>
               c \in Queued' \/ \E k \in Conns : c \in Received(k)' \/ c \in InReader(k)'
<1>1. ASSUME NEW c
      PROVE  /\ c \in UNION {Received(k) \cup InReader(k) : k \in Conns}
                    <=> \E k \in Conns : c \in Received(k) \cup InReader(k)
             /\ c \in UNION {Received(k)' \cup InReader(k)' : k \in Conns}
                    <=> \E k \in Conns : c \in Received(k)' \cup InReader(k)'
    OBVIOUS
<1>2. ASSUME NEW c
      PROVE  /\ c \in OnTheirWay <=>
                    c \in Queued \/ \E k \in Conns : c \in Received(k) \cup InReader(k)
             /\ c \in OnTheirWay' <=>
                    c \in Queued' \/ \E k \in Conns : c \in Received(k)' \cup InReader(k)'
    BY <1>1, Zenon DEF OnTheirWay
<1> QED
    BY <1>2

\* At first nothing is on its way.
LEMMA OnePlaceInit == Init => OnePlace
<1> SUFFICES ASSUME Init PROVE OnePlace
    OBVIOUS
<1>1. /\ commandCh = <<>> /\ issued = 0
      /\ \A k \in Conns : inbox[k] = <<>> /\ reader[k].at = "none"
    BY DEF Init
<1>2. IsInjective(<<>>) /\ Range(<<>>) = {}
    BY DEF IsInjective, Range
<1>3. Queued = {} /\ \A k \in Conns : Received(k) = {} /\ InReader(k) = {}
    BY <1>1, <1>2 DEF Queued, Received, InReader
<1> QED
    BY <1>1, <1>2, <1>3, Places DEF OnePlace

\* A step that receives, queues and takes nothing: a reader may give up.
LEMMA QuietStep ==
    ASSUME ClientInv, OnePlace, UNCHANGED <<inbox, commandCh, issued>>,
           \A r \in Conns : InReader(r)' \subseteq InReader(r)
    PROVE  OnePlace' /\ RunOnce
<1>1. Queued' = Queued /\ \A k \in Conns : Received(k)' = Received(k)
    BY DEF Queued, Received
<1>2. OnTheirWay' \subseteq OnTheirWay
    BY <1>1, Places
<1>3. ~(commandCh # <<>> /\ commandCh' = Tail(commandCh))
  <2>1. commandCh \in Seq(Nat)
      BY DEF ClientInv, TypeOK, TypeIn
  <2>2. commandCh # <<>> => Len(commandCh) \in Nat /\ Len(Tail(commandCh)) = Len(commandCh) - 1
      BY <2>1, TailIn
  <2> QED
      BY <2>2
<1> QED
    BY <1>1, <1>2, <1>3 DEF OnePlace, RunOnce

\* The platform's next command is on its way from one connection, and new.
LEMMA SentOnce ==
    ASSUME ClientInv, OnePlace, NEW k \in Conns, PlatformSendsCommand(k)
    PROVE  OnePlace' /\ RunOnce
<1>1. /\ inbox \in [Conns -> Seq(Nat)] /\ issued \in Nat /\ commandCh \in Seq(Nat)
    BY DEF ClientInv, TypeOK, TypeIn
<1>2. /\ inbox' = [inbox EXCEPT ![k] = Append(inbox[k], issued + 1)]
      /\ issued' = issued + 1 /\ UNCHANGED <<commandCh, reader>>
    BY DEF PlatformSendsCommand
<1>3. issued + 1 \notin OnTheirWay /\ OnTheirWay \subseteq 1 .. issued
    BY <1>1 DEF OnePlace
<1>4. /\ Range(Append(inbox[k], issued + 1)) = Received(k) \cup {issued + 1}
      /\ IsInjective(Append(inbox[k], issued + 1))
  <2>1. inbox[k] \in Seq(Nat) /\ issued + 1 \in Nat /\ IsInjective(inbox[k])
      BY <1>1 DEF OnePlace
  <2>2. issued + 1 \notin Range(inbox[k])
      BY <1>3, Places DEF Received
  <2> QED
      BY <2>1, <2>2, AppendOnce DEF Received
<1>5. /\ Queued' = Queued /\ \A j \in Conns : InReader(j)' = InReader(j)
      /\ Received(k)' = Received(k) \cup {issued + 1}
      /\ \A j \in Conns \ {k} : Received(j)' = Received(j)
      /\ \A j \in Conns : IsInjective(inbox'[j])
    BY <1>1, <1>2, <1>4 DEF Queued, InReader, Received, OnePlace
<1>6. \A c : c \in OnTheirWay' <=> c \in OnTheirWay \/ c = issued + 1
    BY <1>5, Places
<1>7. OnePlace'
  <2>1. ASSUME NEW c \in OnTheirWay' PROVE c \in 1 .. issued'
    <3>1. c \in 1 .. issued \/ c = issued + 1
        BY <1>3, <1>6
    <3> QED
        BY <1>1, <1>2, <3>1
  <2>2. issued + 1 \notin Queued
        /\ \A j \in Conns : issued + 1 \notin Received(j) /\ issued + 1 \notin InReader(j)
      BY <1>3, Places
  <2> QED
      BY <1>2, <1>5, <2>1, <2>2 DEF OnePlace
<1>8. ~(commandCh # <<>> /\ commandCh' = Tail(commandCh))
  <2>1. commandCh # <<>> => Len(commandCh) \in Nat /\ Len(Tail(commandCh)) = Len(commandCh) - 1
      BY <1>1, TailIn
  <2> QED
      BY <1>2, <2>1
<1>9. OnTheirWay' \cap (1 .. issued) \subseteq OnTheirWay
    BY <1>1, <1>6
<1> QED
    BY <1>7, <1>8, <1>9 DEF RunOnce

\* A reader takes the first command of its connection away from it
\* (client.go:404-421).
LEMMA GotOnce ==
    ASSUME ClientInv, OnePlace, NEW r \in Conns, ReaderGetsCommand(r)
    PROVE  OnePlace' /\ RunOnce
<1>1. /\ inbox \in [Conns -> Seq(Nat)] /\ commandCh \in Seq(Nat)
      /\ reader \in [Conns -> ReaderRecord] /\ reader[r].on \in Conns
    BY BoundsAssumption
       DEF ClientInv, TypeOK, TypeIn, ReadersHaveConn, ReaderGetsCommand, ReaderRecord, Conns
<1>2. PICK k \in Conns : k = reader[r].on
    BY <1>1
<1> DEFINE c == Head(inbox[k])
<1>3. /\ reader[r].at = "read" /\ inbox[k] # <<>>
      /\ inbox' = [inbox EXCEPT ![k] = Tail(inbox[k])]
      /\ reader' = [reader EXCEPT ![r].at = "queue", ![r].got = c]
      /\ UNCHANGED <<commandCh, issued>>
    BY <1>2 DEF ReaderGetsCommand
<1>4. /\ Range(Tail(inbox[k])) = Range(inbox[k]) \ {c} /\ c \in Range(inbox[k])
      /\ IsInjective(Tail(inbox[k]))
  <2>1. inbox[k] \in Seq(Nat) /\ IsInjective(inbox[k])
      BY <1>1 DEF OnePlace
  <2> QED
      BY <1>3, <2>1, TailOnce
<1> HIDE DEF c
<1>5. /\ reader'[r].at = "queue" /\ reader'[r].got = c
      /\ \A q \in Conns \ {r} : reader'[q] = reader[q]
    BY <1>1, <1>3 DEF ReaderRecord
<1>6. /\ Queued' = Queued /\ InReader(r) = {} /\ InReader(r)' = {c}
      /\ \A q \in Conns \ {r} : InReader(q)' = InReader(q)
    BY <1>3, <1>5 DEF Queued, InReader
<1>7. /\ c \in Received(k) /\ Received(k)' = Received(k) \ {c}
      /\ \A j \in Conns \ {k} : Received(j)' = Received(j)
      /\ \A j \in Conns : IsInjective(inbox'[j])
    BY <1>1, <1>3, <1>4 DEF Received, OnePlace
<1>8. OnTheirWay' \subseteq OnTheirWay
    BY <1>6, <1>7, Places
<1>9. ~(commandCh # <<>> /\ commandCh' = Tail(commandCh))
  <2>1. commandCh # <<>> => Len(commandCh) \in Nat /\ Len(Tail(commandCh)) = Len(commandCh) - 1
      BY <1>1, TailIn
  <2> QED
      BY <1>3, <2>1
<1>10. OnePlace'
    BY <1>3, <1>6, <1>7, <1>8 DEF OnePlace
<1> QED
    BY <1>8, <1>9, <1>10 DEF RunOnce

\* It hands the command to commandCh or drops it, and has it no more
\* (client.go:439-443).
LEMMA QueuedOnce ==
    ASSUME ClientInv, OnePlace, NEW r \in Conns, ReaderQueuesCommand(r)
    PROVE  OnePlace' /\ RunOnce
<1> DEFINE c == reader[r].got
<1>1. commandCh \in Seq(Nat) /\ reader \in [Conns -> ReaderRecord] /\ c \in Nat
    BY DEF ClientInv, TypeOK, TypeIn, ReaderRecord
<1>2. /\ reader[r].at = "queue"
      /\ commandCh' = Append(commandCh, c) \/ commandCh' = commandCh
      /\ reader' = [reader EXCEPT ![r].at = "check", ![r].got = 0]
      /\ UNCHANGED <<inbox, issued>>
    BY DEF ReaderQueuesCommand
<1>3. /\ Range(Append(commandCh, c)) = Range(commandCh) \cup {c}
      /\ c \notin Range(commandCh) /\ IsInjective(Append(commandCh, c))
  <2>1. IsInjective(commandCh) /\ c \notin Range(commandCh)
      BY <1>2 DEF OnePlace, InReader, Queued
  <2> QED
      BY <1>1, <2>1, AppendOnce
<1>4. ~(commandCh # <<>> /\ commandCh' = Tail(commandCh))
  <2>1. commandCh # <<>> => Len(commandCh) \in Nat /\ Len(Tail(commandCh)) = Len(commandCh) - 1
      BY <1>1, TailIn
  <2>2. Len(Append(commandCh, c)) = Len(commandCh) + 1
      BY <1>1, AppendIn
  <2> QED
      BY <1>2, <2>1, <2>2
<1> HIDE DEF c
<1>5. /\ InReader(r) = {c} /\ InReader(r)' = {}
      /\ \A q \in Conns \ {r} : InReader(q)' = InReader(q)
    BY <1>1, <1>2 DEF InReader, ReaderRecord, c
<1>6. /\ Queued' \subseteq Queued \cup {c} /\ IsInjective(commandCh')
      /\ \A j \in Conns : Received(j)' = Received(j)
    BY <1>2, <1>3 DEF Queued, Received, OnePlace
<1>7. OnTheirWay' \subseteq OnTheirWay
    BY <1>5, <1>6, Places
<1>8. OnePlace'
    BY <1>2, <1>5, <1>6, <1>7 DEF OnePlace
<1> QED
    BY <1>4, <1>7, <1>8 DEF RunOnce

\* processCommands takes a command out of commandCh, and it is nowhere else
\* (kubelet.go:487-493).
LEMMA TakenOnce == ASSUME ClientInv, OnePlace, TakeCommand PROVE OnePlace' /\ RunOnce
<1> DEFINE c == Head(commandCh)
<1>1. /\ commandCh # <<>> /\ commandCh' = Tail(commandCh)
      /\ UNCHANGED <<inbox, issued, reader>>
    BY DEF TakeCommand
<1>2. /\ Queued' = Queued \ {c} /\ c \in Queued /\ IsInjective(commandCh')
      /\ \A k \in Conns : Received(k)' = Received(k) /\ InReader(k)' = InReader(k)
  <2>1. commandCh \in Seq(Nat) /\ IsInjective(commandCh)
      BY DEF ClientInv, TypeOK, TypeIn, OnePlace
  <2>2. /\ Range(Tail(commandCh)) = Range(commandCh) \ {c} /\ c \in Range(commandCh)
        /\ IsInjective(Tail(commandCh))
      BY <1>1, <2>1, TailOnce
  <2> QED
      BY <1>1, <2>2 DEF Queued, Received, InReader
<1> HIDE DEF c
<1>3. OnTheirWay' \subseteq OnTheirWay
    BY <1>2, Places
<1>4. c \notin OnTheirWay'
    BY <1>2, Places DEF OnePlace
<1>5. OnePlace'
    BY <1>1, <1>2, <1>3 DEF OnePlace
<1> QED
    BY <1>3, <1>4, <1>5 DEF RunOnce, c

\* The reader's other steps and the dial bring up no command (client.go:385-449).
LEMMA OtherReaderSteps ==
    ASSUME ClientInv,
           \/ DialSucceeds
           \/ \E r \in Conns : \/ ReaderStarts(r) \/ ReaderChecksStop(r) \/ ReaderGetsClose(r)
                               \/ ReaderRecordsRefusal(r) \/ ReaderFails(r)
                               \/ ReaderTimesOut(r)
    PROVE  /\ UNCHANGED <<inbox, commandCh, issued>>
           /\ \A q \in Conns : InReader(q)' \subseteq InReader(q)
<1>1. reader \in [Conns -> ReaderRecord]
    BY DEF ClientInv, TypeOK, TypeIn
<1>2. ASSUME NEW r, UNCHANGED <<inbox, commandCh, issued>>,
             \A q \in Conns \ {r} : reader'[q] = reader[q],
             r \in Conns => reader'[r].at # "queue"
      PROVE  /\ UNCHANGED <<inbox, commandCh, issued>>
             /\ \A q \in Conns : InReader(q)' \subseteq InReader(q)
    BY <1>2 DEF InReader
<1>3. CASE DialSucceeds
  <2>1. /\ reader' = [reader EXCEPT ![dialled + 1].at = "start"]
        /\ UNCHANGED <<inbox, commandCh, issued>>
      BY <1>3 DEF DialSucceeds
  <2>2. PICK r : r = dialled + 1
      OBVIOUS
  <2>3. /\ \A q \in Conns \ {r} : reader'[q] = reader[q]
        /\ r \in Conns => reader'[r].at # "queue"
      BY <1>1, <2>1, <2>2 DEF ReaderRecord
  <2> QED
      BY <1>2, <2>1, <2>3
<1>4. ASSUME NEW r \in Conns,
             \/ ReaderStarts(r) \/ ReaderChecksStop(r) \/ ReaderGetsClose(r)
             \/ ReaderRecordsRefusal(r) \/ ReaderFails(r) \/ ReaderTimesOut(r)
      PROVE  /\ UNCHANGED <<inbox, commandCh, issued>>
             /\ \A q \in Conns : InReader(q)' \subseteq InReader(q)
  <2>1. UNCHANGED <<inbox, commandCh, issued>>
      BY <1>4 DEF ReaderStarts, ReaderChecksStop, ReaderGetsClose, ReaderRecordsRefusal,
         ReaderFails, ReaderTimesOut
  <2>2. reader'[r].at # "queue" /\ \A q \in Conns \ {r} : reader'[q] = reader[q]
    <3> USE <1>1 DEF ReaderRecord
    <3>1. CASE ReaderStarts(r)
        BY <3>1 DEF ReaderStarts
    <3>2. CASE ReaderChecksStop(r)
        BY <3>2 DEF ReaderChecksStop
    <3>3. CASE ReaderGetsClose(r)
        BY <3>3 DEF ReaderGetsClose
    <3>4. CASE ReaderRecordsRefusal(r)
        BY <3>4 DEF ReaderRecordsRefusal
    <3>5. CASE ReaderFails(r) \/ ReaderTimesOut(r)
        BY <3>5 DEF ReaderFails, ReaderTimesOut
    <3> QED
        BY <1>4, <3>1, <3>2, <3>3, <3>4, <3>5
  <2> QED
      BY <1>2, <2>1, <2>2
<1> QED
    BY <1>3, <1>4

\* Every step keeps each command in one place, and brings up none that has left
\* (client.go:385-449, kubelet.go:487-493).
LEMMA RunOnceStep == ClientInv /\ OnePlace /\ [Next]_vars => OnePlace' /\ RunOnce
<1> SUFFICES ASSUME ClientInv, OnePlace, [Next]_vars PROVE OnePlace' /\ RunOnce
    OBVIOUS
<1>1. ASSUME NEW r \in Conns, ReaderStep(r) \/ ReaderTimesOut(r) PROVE OnePlace' /\ RunOnce
    BY <1>1, GotOnce, QueuedOnce, OtherReaderSteps, QuietStep DEF ReaderStep
<1>2. ASSUME NEW k \in Conns, Network(k) PROVE OnePlace' /\ RunOnce
  <2>1. CASE FarEndLeaves(k)
    <3>1. UNCHANGED <<inbox, commandCh, issued, reader>>
        BY <2>1 DEF FarEndLeaves, inVars
    <3> QED
        BY <3>1, QuietStep DEF InReader
  <2> QED
      BY <1>1, <1>2, <2>1, SentOnce DEF Network
<1>3. CASE TakeCommand
    BY <1>3, TakenOnce
<1>4. CASE DialSucceeds
    BY <1>4, OtherReaderSteps, QuietStep
<1>5. CASE CollectRefusal \/ UNCHANGED <<inbox, commandCh, issued, reader>>
  <2>1. UNCHANGED <<inbox, commandCh, issued, reader>>
      BY <1>5 DEF CollectRefusal, inVars
  <2> QED
      BY <2>1, QuietStep DEF InReader
<1> QED
    BY <1>1, <1>2, <1>3, <1>4, <1>5, InFrame DEF Next, ManagerStep

\* A command the platform sent is in one place until it is taken or dropped, for any
\* number of connections and readers (client.go:385-449).
THEOREM CommandsInOnePlace == Spec => []OnePlace
BY OnePlaceInit, RunOnceStep, ClientInvariant, PTL DEF Spec

\* No command reaches processCommands twice, for any number of connections, readers
\* and commands and any capacity of the queue (client.go:388-443).
THEOREM CommandsNeverRepeat == Spec => CommandsRunOnce
<1>1. ClientInv /\ OnePlace /\ [Next]_vars => [RunOnce]_vars
    BY RunOnceStep
<1> QED
    BY <1>1, ClientInvariant, CommandsInOnePlace, PTL DEF Spec, CommandsRunOnce, RunOnce

----------------------------------------------------------------------------
(* The two envelopes of a connection's own goroutine                          *)

\* The envelopes that were accepted and are not lost.
Made == {[id |-> wire[i].id, type |-> wire[i].type, by |-> wire[i].by] : i \in DOMAIN wire}
        \cup Range(outboundCh) \cup Range(writing)

\* The goroutine of a connection runs once the connection was made, and from what it
\* sends next one can tell what it has sent.
SignOnInv ==
    /\ \A k \in Conns : /\ k > dialled => caller[k].at = "idle"
                        /\ caller[k].at = "idle" => caller[k].msg = "registration"
                        /\ caller[k].msg \in {"registration", "ready"}
    /\ \A e \in Made : e.by \in Conns =>
          /\ e.by <= dialled /\ e.id <= accepted
          /\ caller[e.by].msg = "ready"
          /\ e.type = "registration" \/ (e.type = "ready" /\ caller[e.by].at = "done")
    /\ \A e, f \in Made : e.by \in Conns /\ f.by = e.by /\ e.id < f.id
                            => e.type = "registration" /\ f.type = "ready"
    /\ \A i \in DOMAIN wire : wire[i].by \in Conns => wire[i].by <= wire[i].conn

\* Where an envelope that is not lost can be, and what it consists of.
LEMMA MadePlaces ==
    ASSUME ClientInv
    PROVE  /\ \A e \in Range(outboundCh) \cup Range(writing) : e \in Envelope /\ e \in Made
           /\ \A i \in DOMAIN wire :
                 [id |-> wire[i].id, type |-> wire[i].type, by |-> wire[i].by] \in Made
           /\ \A i \in DOMAIN wire : wire[i] \in WireRecord
           /\ \A e \in Made : e \in Envelope
<1>1. /\ outboundCh \in Seq(Envelope) /\ writing \in Seq(Envelope) /\ wire \in Seq(WireRecord)
    BY DEF ClientInv, TypeOK, TypeOut
<1>2. \A e \in Range(outboundCh) \cup Range(writing) : e \in Envelope
    BY <1>1 DEF Range
<1>3. \A i \in DOMAIN wire : wire[i] \in WireRecord
    BY <1>1
<1>4. \A w \in WireRecord : [id |-> w.id, type |-> w.type, by |-> w.by] \in Envelope
    BY DEF WireRecord, Envelope
<1> QED
    BY <1>2, <1>3, <1>4, Zenon DEF Made

\* At first nothing was sent and no such goroutine runs.
LEMMA SignOnInit == Init => SignOnInv
<1> SUFFICES ASSUME Init PROVE SignOnInv
    OBVIOUS
<1>1. Made = {}
    BY DEF Init, Made, Range
<1>2. wire = <<>> /\ dialled = 0
    BY DEF Init
<1>3. \A k \in Conns : caller[k].at = "idle" /\ caller[k].msg = "registration"
    BY CallersAssumption DEF Init, Callers, FirstMsg
<1> QED
    BY <1>1, <1>2, <1>3 DEF SignOnInv

\* The loop takes, writes or loses an envelope: nothing is made, and what is written
\* goes out on the latest connection.
LEMMA LoopMakesNothing ==
    ASSUME ClientInv, SignOnInv, LoopTakesEnvelope \/ WriteSucceeds \/ WriteFails
    PROVE  SignOnInv'
<1>1. /\ outboundCh \in Seq(Envelope) /\ writing \in Seq(Envelope) /\ wire \in Seq(WireRecord)
      /\ UNCHANGED <<dialled, accepted, caller>>
    BY DEF ClientInv, TypeOK, TypeOut, LoopTakesEnvelope, WriteSucceeds, WriteFails,
           connVars, sendVars
<1>2. /\ Made' \subseteq Made
      /\ \A i \in DOMAIN wire' : wire'[i].by \in Conns => wire'[i].by <= wire'[i].conn
  <2>1. CASE LoopTakesEnvelope
    <3>1. /\ outboundCh # <<>> /\ writing' = <<Head(outboundCh)>>
          /\ outboundCh' = Tail(outboundCh) /\ wire' = wire
        BY <2>1 DEF LoopTakesEnvelope
    <3>2. /\ Head(outboundCh) \in Range(outboundCh)
          /\ Range(Tail(outboundCh)) \subseteq Range(outboundCh)
      <4>1. /\ Head(outboundCh) = outboundCh[1] /\ Len(outboundCh) \in Nat \ {0}
            /\ DOMAIN outboundCh = 1 .. Len(outboundCh)
            /\ DOMAIN Tail(outboundCh) = 1 .. Len(outboundCh) - 1
            /\ \A i \in 1 .. Len(outboundCh) - 1 : Tail(outboundCh)[i] = outboundCh[i + 1]
          BY <1>1, <3>1, TailIn
      <4>2. \A i \in 1 .. Len(outboundCh) - 1 : i + 1 \in 1 .. Len(outboundCh)
          BY <4>1
      <4> QED
          BY <4>1, <4>2 DEF Range
    <3>3. Range(writing') = {Head(outboundCh)}
        BY <3>1 DEF Range
    <3> QED
        BY <3>1, <3>2, <3>3 DEF Made, SignOnInv
  <2>2. CASE WriteFails
    <3>1. writing' = <<>> /\ outboundCh' = outboundCh /\ wire' = wire
        BY <2>2 DEF WriteFails
    <3>2. Range(writing') = {}
        BY <3>1 DEF Range
    <3> QED
        BY <3>1, <3>2 DEF Made, SignOnInv
  <2>3. CASE WriteSucceeds
    <3> DEFINE e == writing[1]
               w == [id |-> e.id, type |-> e.type, by |-> e.by, conn |-> conn]
    <3>1. /\ writing' = <<>> /\ outboundCh' = outboundCh /\ wire' = Append(wire, w)
          /\ mgr = "write"
        BY <2>3 DEF WriteSucceeds
    <3>2. writing # <<>> /\ conn = dialled /\ conn \in Conns
        BY <3>1, BoundsAssumption
        DEF ClientInv, QueueIds, ConnectedIsServed, TypeOK, TypeConn, Conns
    <3>3. e \in Range(writing) /\ e \in Envelope
        BY <1>1, <3>2, TailIn DEF Range
    <3>4. w \in WireRecord /\ [id |-> w.id, type |-> w.type, by |-> w.by] = e
        BY <3>2, <3>3 DEF WireRecord, Envelope
    <3> HIDE DEF w
    <3>5. /\ DOMAIN wire = 1 .. Len(wire) /\ DOMAIN wire' = 1 .. Len(wire) + 1
          /\ \A i \in 1 .. Len(wire) : wire'[i] = wire[i]
          /\ wire'[Len(wire) + 1] = w /\ Len(wire) \in Nat
        BY <1>1, <3>1, <3>4, AppendIn
    <3>6. \A i \in DOMAIN wire' : (i \in DOMAIN wire /\ wire'[i] = wire[i]) \/ wire'[i] = w
        BY <3>5
    <3>7. Range(writing') = {}
        BY <3>1 DEF Range
    <3>8. ASSUME NEW f \in Made' PROVE f \in Made
      <4>1. CASE f \in Range(outboundCh)
          BY <4>1 DEF Made
      <4>2. ASSUME NEW i \in DOMAIN wire',
                   f = [id |-> wire'[i].id, type |-> wire'[i].type, by |-> wire'[i].by]
            PROVE  f \in Made
        <5>1. CASE wire'[i] = w
            BY <3>3, <3>4, <4>2, <5>1 DEF Made
        <5>2. CASE i \in DOMAIN wire /\ wire'[i] = wire[i]
            BY <4>2, <5>2 DEF Made
        <5> QED
            BY <3>6, <5>1, <5>2
      <4> QED
          BY <3>1, <3>7, <3>8, <4>1, <4>2 DEF Made
    <3>9. w.by \in Conns => w.by <= w.conn
      <4>1. e \in Made /\ w.by = e.by /\ w.conn = dialled
          BY <3>2, <3>3 DEF Made, w
      <4> QED
          BY <4>1 DEF SignOnInv
    <3> QED
        BY <3>6, <3>8, <3>9 DEF SignOnInv
  <2> QED
      BY <2>1, <2>2, <2>3
<1> QED
    BY <1>1, <1>2 DEF SignOnInv

\* A push adds one envelope, with the next id. The goroutine of a connection pushes
\* its registration when nothing of it was sent, and kubelet_ready after it.
LEMMA PushSignsOn ==
    ASSUME ClientInv, SignOnInv, NEW c \in Callers, SendPushes(c)
    PROVE  SignOnInv'
<1> DEFINE e == [id |-> accepted + 1, type |-> caller[c].msg, by |-> c]
<1>1. /\ UNCHANGED <<dialled, wire, writing>> /\ caller[c].at = "push"
      /\ outboundCh \in Seq(Envelope) /\ accepted \in Nat
      /\ caller \in [Callers -> CallerRecord] /\ caller[c].msg \in MsgTypes
    BY DEF SendPushes, connVars, ClientInv, TypeOK, TypeOut, CallerRecord
<1>2. \A k \in Conns \ {c} : caller'[k] = caller[k]
    BY <1>1 DEF SendPushes, Callers
<1>3. CASE Len(outboundCh) < OutboundCap
  <2>1. /\ accepted' = accepted + 1 /\ outboundCh' = Append(outboundCh, e)
        /\ caller' = [caller EXCEPT ![c] = Returned(c, TRUE)]
      BY <1>3 DEF SendPushes
  <2>2. e \in Envelope /\ e.id = accepted + 1 /\ e.type = caller[c].msg /\ e.by = c
      BY <1>1, EnvelopeFacts
  <2> HIDE DEF e
  <2>3. Range(outboundCh') = Range(outboundCh) \cup {e}
      BY <1>1, <2>1, <2>2, AppendOnce
  <2>4. Made' = Made \cup {e}
      BY <1>1, <2>3 DEF Made
  <2>5. ASSUME c \in Conns
        PROVE  /\ c <= dialled
               /\ caller[c].msg = "registration"
                     => /\ caller'[c].at = "check" /\ caller'[c].msg = "ready"
                        /\ \A f \in Made : f.by # c
               /\ caller[c].msg = "ready"
                     => /\ caller'[c].at = "done" /\ caller'[c].msg = "ready"
                        /\ \A f \in Made : f.by = c => f.type = "registration"
    <3>1. caller'[c] = Returned(c, TRUE)
        BY <1>1, <2>1
    <3>2. /\ caller[c].msg = "registration" =>
                caller'[c] = [at |-> "check", msg |-> "ready"]
          /\ caller[c].msg = "ready" => caller'[c] = [caller[c] EXCEPT !.at = "done"]
        BY <2>5, <3>1 DEF Returned
    <3>3. caller[c] \in CallerRecord
        BY <1>1
    <3>4. c <= dialled
        BY <1>1, <2>5, BoundsAssumption
        DEF SignOnInv, Conns, ClientInv, TypeOK, TypeConn
    <3> QED
        BY <1>1, <2>5, <3>2, <3>3, <3>4 DEF SignOnInv, CallerRecord
  <2>10. dialled' = dialled /\ accepted' = accepted + 1 /\ accepted \in Nat
      BY <1>1, <2>1
  <2>6. \A f \in Made : f.by \in Conns => f.id <= accepted /\ f.id \in Nat
      BY MadePlaces DEF SignOnInv, Envelope
  <2>7. \A k \in Conns : /\ k > dialled' => caller'[k].at = "idle"
                         /\ caller'[k].at = "idle" => caller'[k].msg = "registration"
                         /\ caller'[k].msg \in {"registration", "ready"}
    <3>1. ASSUME c \in Conns
          PROVE  /\ ~(c > dialled) /\ caller'[c].at # "idle" /\ caller'[c].msg = "ready"
      <4>1. caller[c].msg \in {"registration", "ready"} /\ c \in Nat /\ dialled \in Nat
          BY <3>1, BoundsAssumption DEF SignOnInv, Conns, ClientInv, TypeOK, TypeConn
      <4> QED
          BY <2>5, <3>1, <4>1
    <3> QED
        BY <1>1, <1>2, <3>1 DEF SignOnInv
  <2>8. ASSUME NEW f \in Made', f.by \in Conns
        PROVE  /\ f.by <= dialled' /\ f.id <= accepted'
               /\ caller'[f.by].msg = "ready"
               /\ f.type = "registration" \/ (f.type = "ready" /\ caller'[f.by].at = "done")
    <3>1. CASE f \in Made /\ f.by # c
        BY <1>1, <1>2, <2>1, <2>6, <2>8, <3>1 DEF SignOnInv
    <3>2. CASE f \in Made /\ f.by = c
      <4>1. /\ c \in Conns /\ caller[c].msg = "ready" /\ f.id <= accepted /\ f.id \in Nat
          BY <2>6, <2>8, <3>2 DEF SignOnInv
      <4>2. /\ c <= dialled /\ caller'[c].msg = "ready" /\ f.type = "registration"
          BY <2>5, <3>2, <4>1
      <4> QED
          BY <2>10, <3>2, <4>1, <4>2
    <3>3. CASE f = e
      <4>1. c \in Conns /\ f.by = c /\ f.id = accepted + 1 /\ f.type = caller[c].msg
          BY <2>2, <2>8, <3>3
      <4>2. caller[c].msg \in {"registration", "ready"}
          BY <4>1 DEF SignOnInv
      <4>3. /\ c <= dialled /\ caller'[c].msg = "ready"
            /\ caller[c].msg = "ready" => caller'[c].at = "done"
          BY <2>5, <4>1, <4>2
      <4> QED
          BY <2>10, <4>1, <4>2, <4>3
    <3> QED
        BY <2>4, <3>1, <3>2, <3>3
  <2>9. ASSUME NEW f \in Made', NEW g \in Made', f.by \in Conns, g.by = f.by, f.id < g.id
        PROVE  f.type = "registration" /\ g.type = "ready"
    <3>1. CASE f \in Made /\ g \in Made
        BY <2>9, <3>1 DEF SignOnInv
    <3>2. CASE f \in Made /\ g = e
      <4>1. c \in Conns /\ f.by = c
          BY <2>2, <2>9, <3>2
      <4>2. caller[c].msg = "ready"
          BY <2>5, <3>2, <4>1 DEF SignOnInv
      <4> QED
          BY <2>2, <2>5, <3>2, <4>1, <4>2
    <3>3. CASE f = e
        BY <1>1, <2>2, <2>4, <2>6, <2>9, <3>3
    <3> QED
        BY <2>4, <3>1, <3>2, <3>3
  <2> QED
      BY <1>1, <2>7, <2>8, <2>9 DEF SignOnInv
<1>4. CASE ~(Len(outboundCh) < OutboundCap)
  <2>1. /\ accepted' = accepted /\ outboundCh' = outboundCh
        /\ caller' = [caller EXCEPT ![c] = Returned(c, FALSE)]
      BY <1>4 DEF SendPushes
  <2>2. Made' = Made
      BY <1>1, <2>1 DEF Made
  <2>3. c \in Conns => caller'[c].at = "done" /\ caller'[c].msg = caller[c].msg
      BY <1>1, <2>1 DEF Returned, CallerRecord
  <2>4. \A k \in Conns : /\ k > dialled => k # c
                         /\ k = c \/ caller'[k] = caller[k]
                         /\ caller'[k].msg = caller[k].msg
                         /\ caller[k].at = "done" => caller'[k].at = "done"
    <3>1. \A k \in Conns : k > dialled => k # c
        BY <1>1 DEF SignOnInv
    <3> QED
        BY <1>2, <2>3, <3>1
  <2>5. \A k \in Conns : /\ k > dialled => caller'[k].at = "idle"
                         /\ caller'[k].at = "idle" => caller'[k].msg = "registration"
                         /\ caller'[k].msg \in {"registration", "ready"}
      BY <2>3, <2>4 DEF SignOnInv
  <2>6. dialled' = dialled /\ wire' = wire
      BY <1>1
  <2>7. \A f \in Made : f.by \in Conns =>
          /\ f.by <= dialled /\ f.id <= accepted /\ caller'[f.by].msg = "ready"
          /\ f.type = "registration" \/ (f.type = "ready" /\ caller'[f.by].at = "done")
      BY <2>4 DEF SignOnInv
  <2>8. accepted' = accepted
      BY <2>1
  <2> QED
      BY <2>2, <2>5, <2>6, <2>7, <2>8 DEF SignOnInv
<1> QED
    BY <1>3, <1>4

\* The goroutine of a connection is started with it, and gives up when it finds the
\* client disconnected; other callers are none of these.
LEMMA CallersSignOn ==
    ASSUME ClientInv, SignOnInv,
           DialSucceeds \/ HeartSeesStop
           \/ \E c \in Callers : BeginSend(c) \/ SendChecksConnected(c)
    PROVE  SignOnInv'
<1>0. dialled \in Nat /\ caller \in [Callers -> CallerRecord]
    BY BoundsAssumption DEF ClientInv, TypeOK, TypeOut, TypeConn
<1>1. /\ UNCHANGED <<outboundCh, writing, wire, accepted>>
      /\ caller \in [Callers -> CallerRecord] /\ dialled \in Nat /\ dialled' \in Nat
  <2>1. CASE DialSucceeds
      BY <1>0, <2>1 DEF DialSucceeds, outVars
  <2>2. CASE HeartSeesStop
      BY <1>0, <2>2 DEF HeartSeesStop, outVars, connVars
  <2>3. CASE \E c \in Callers : BeginSend(c) \/ SendChecksConnected(c)
      BY <1>0, <2>3 DEF BeginSend, SendChecksConnected, outVars, connVars
  <2> QED
      BY <2>1, <2>2, <2>3
<1>2. Made' = Made
    BY <1>1 DEF Made
<1>3. \A e \in Made : e.by \in Conns => caller[e.by].at # "idle"
  <2> SUFFICES ASSUME NEW e \in Made, e.by \in Conns PROVE caller[e.by].at # "idle"
      OBVIOUS
  <2> QED
      BY DEF SignOnInv
<1>4. ASSUME NEW k \in Conns
      PROVE  /\ dialled <= dialled'
             /\ k > dialled' => caller'[k].at = "idle"
             /\ caller'[k].at = "idle" => caller[k].at = "idle"
             /\ caller'[k].msg = caller[k].msg
             /\ caller[k].at = "done" => caller'[k].at = "done"
  <2>0. k \in Callers /\ k \notin Apps \cup {Heart} /\ caller[k] \in CallerRecord
        /\ (k > dialled => caller[k].at = "idle") /\ k \in Nat
      BY <1>1, CallersAssumption, BoundsAssumption DEF Callers, SignOnInv, Conns
  <2>1. CASE DialSucceeds
    <3>1. dialled' = dialled + 1 /\ dialled + 1 \in Conns /\ caller[dialled + 1].at = "idle"
        BY <1>1, <2>1, BoundsAssumption DEF DialSucceeds, SignOnInv, Conns
    <3>2. caller' = caller \/ caller' = [caller EXCEPT ![dialled + 1].at = "check"]
        BY <2>1 DEF DialSucceeds
    <3> QED
        BY <1>1, <2>0, <3>1, <3>2 DEF CallerRecord
  <2>2. CASE HeartSeesStop
      BY <1>1, <2>0, <2>2 DEF HeartSeesStop, connVars
  <2>3. ASSUME NEW c \in Callers, BeginSend(c)
        PROVE  caller'[k] = caller[k] /\ dialled' = dialled
      BY <1>1, <2>0, <2>3 DEF BeginSend, connVars
  <2>4. ASSUME NEW c \in Callers, SendChecksConnected(c)
        PROVE  /\ dialled' = dialled
               /\ k = c => /\ caller[k].at = "check" /\ caller'[k].at \in {"push", "done"}
                           /\ caller'[k].msg = caller[k].msg
               /\ k # c => caller'[k] = caller[k]
    <3>1. k = c => Returned(c, FALSE) = [caller[c] EXCEPT !.at = "done"]
        BY DEF Returned
    <3>2. dialled' = dialled
        BY <2>4 DEF SendChecksConnected, connVars
    <3>3. /\ caller[c].at = "check"
          /\ \/ caller'[c] = [caller[c] EXCEPT !.at = "push"]
             \/ caller'[c] = Returned(c, FALSE)
          /\ k # c => caller'[k] = caller[k]
        BY <1>1, <2>0, <2>4 DEF SendChecksConnected
    <3> QED
        BY <2>0, <3>1, <3>2, <3>3 DEF CallerRecord
  <2> QED
      BY <1>1, <2>0, <2>1, <2>2, <2>3, <2>4
<1>5. ASSUME NEW e \in Made, e.by \in Conns
      PROVE  /\ e.by <= dialled' /\ e.id <= accepted' /\ caller'[e.by].msg = "ready"
             /\ e.type = "registration" \/ (e.type = "ready" /\ caller'[e.by].at = "done")
  <2>1. e.by \in Nat
      BY <1>5, BoundsAssumption DEF Conns
  <2> QED
      BY <1>1, <1>4, <1>5, <2>1 DEF SignOnInv
<1>6. \A k \in Conns : /\ k > dialled' => caller'[k].at = "idle"
                       /\ caller'[k].at = "idle" => caller'[k].msg = "registration"
                       /\ caller'[k].msg \in {"registration", "ready"}
    BY <1>4 DEF SignOnInv
<1> QED
    BY <1>1, <1>2, <1>5, <1>6 DEF SignOnInv

\* Every step keeps what the two envelopes say of their sender (kubelet.go:569-607).
LEMMA SignOnStep == ClientInv /\ SignOnInv /\ [Next]_vars => SignOnInv'
<1> SUFFICES ASSUME ClientInv, SignOnInv, [Next]_vars PROVE SignOnInv'
    OBVIOUS
<1>1. CASE LoopTakesEnvelope \/ WriteSucceeds \/ WriteFails
    BY <1>1, LoopMakesNothing
<1>2. CASE \E c \in Callers : SendPushes(c)
    BY <1>2, PushSignsOn
<1>3. CASE DialSucceeds \/ HeartSeesStop
           \/ \E c \in Callers : BeginSend(c) \/ SendChecksConnected(c)
    BY <1>3, CallersSignOn
<1>4. CASE UNCHANGED <<outboundCh, writing, wire, accepted, caller, dialled>>
  <2>1. Made' = Made
      BY <1>4 DEF Made
  <2> QED
      BY <1>4, <2>1 DEF SignOnInv
<1>5. CASE \/ ManagerChecksStop \/ DialFails \/ BackoffElapses \/ WaitCancelled
           \/ ManagerAfterLoop \/ CollectRefusal \/ RefusedWaitElapses
           \/ LoopSeesStop \/ LoopSeesReaderDone \/ LeaveLoop
           \/ \E r \in Conns : ReaderStep(r)
           \/ TakeCommand
           \/ StopSignals \/ StopStep
           \/ \E k \in Conns : Network(k)
           \/ UNCHANGED vars
  <2>1. dialled' = dialled
    <3> USE DEF connVars
    <3>1. CASE \/ ManagerChecksStop \/ DialFails \/ BackoffElapses \/ WaitCancelled
               \/ ManagerAfterLoop \/ CollectRefusal \/ RefusedWaitElapses
               \/ LoopSeesStop \/ LoopSeesReaderDone \/ LeaveLoop
        BY <3>1 DEF ManagerChecksStop, DialFails, BackoffElapses, WaitCancelled,
           ManagerAfterLoop, CollectRefusal, RefusedWaitElapses, LoopSeesStop,
           LoopSeesReaderDone, LeaveLoop
    <3>2. CASE \E r \in Conns : ReaderStep(r)
        BY <3>2 DEF ReaderStep, ReaderStarts, ReaderChecksStop, ReaderGetsCommand,
           ReaderQueuesCommand, ReaderGetsClose, ReaderRecordsRefusal, ReaderFails
    <3>3. CASE TakeCommand \/ StopSignals \/ StopStep
        BY <3>3 DEF TakeCommand, StopSignals, StopStep, StopClosesConn, StopReturns
    <3>4. CASE \E k \in Conns : Network(k)
        BY <3>4 DEF Network, FarEndLeaves, PlatformSendsCommand, ReaderTimesOut
    <3>5. CASE UNCHANGED vars
        BY <3>5 DEF vars
    <3> QED
        BY <1>5, <3>1, <3>2, <3>3, <3>4, <3>5
  <2> QED
      BY <1>4, <1>5, <2>1, OutFrame
<1> QED
    BY <1>1, <1>2, <1>3, <1>5 DEF Next, ManagerStep, SendStep

\* The goroutine of every connection tells the platform of itself once, registration
\* before kubelet_ready and not before its connection was made, for any number of
\* connections and any loss on the way (kubelet.go:569-607).
THEOREM RegistersOnce == Spec => []RegistersInOrder
<1>1. ASSUME ClientInv, SignOnInv, WrittenInOrder PROVE RegistersInOrder
  <2> SUFFICES ASSUME NEW i \in DOMAIN wire, wire[i].by \in Conns
               PROVE  /\ wire[i].by <= wire[i].conn
                      /\ \A j \in DOMAIN wire : i < j /\ wire[j].by = wire[i].by
                           => wire[i].type = "registration" /\ wire[j].type = "ready"
      BY DEF RegistersInOrder
  <2>1. ASSUME NEW j \in DOMAIN wire, i < j, wire[j].by = wire[i].by
        PROVE  wire[i].type = "registration" /\ wire[j].type = "ready"
    <3> DEFINE e == [id |-> wire[i].id, type |-> wire[i].type, by |-> wire[i].by]
               f == [id |-> wire[j].id, type |-> wire[j].type, by |-> wire[j].by]
    <3>1. e \in Made /\ f \in Made
        BY DEF Made
    <3>2. wire[i].id < wire[j].id
        BY <1>1, <2>1 DEF WrittenInOrder
    <3>3. /\ e.id = wire[i].id /\ e.type = wire[i].type /\ e.by = wire[i].by
          /\ f.id = wire[j].id /\ f.type = wire[j].type /\ f.by = wire[j].by
        OBVIOUS
    <3> HIDE DEF e, f
    <3> QED
        BY <1>1, <2>1, <3>1, <3>2, <3>3 DEF SignOnInv
  <2> QED
      BY <1>1, <2>1 DEF SignOnInv
<1>2. Spec => []SignOnInv
    BY SignOnInit, SignOnStep, ClientInvariant, PTL DEF Spec
<1> QED
    BY <1>1, <1>2, ClientInvariant, OrderAndLoss, PTL
====
