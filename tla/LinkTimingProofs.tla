---- MODULE LinkTimingProofs ----
(* Proofs about LinkTiming for every interval, timeout and bound: TimingInv is  *)
(* inductive, and the real-time promises and the length of the waits follow.    *)
EXTENDS LinkTiming, WellFoundedInduction, TLAPS

----------------------------------------------------------------------------
(* Powers of two. Induction is stated over a set of naturals, for which the   *)
(* well-foundedness of < is cited as a fact about a relation.                 *)

\* A set of naturals that has a member has a least one.
LEMMA LeastNatural ==
  ASSUME NEW T \in SUBSET Nat, T # {}
  PROVE  \E m \in T : \A k \in T : m <= k
<1> DEFINE Less == {p \in Nat \X Nat : p[1] < p[2]}
<1>1. IsWellFoundedOn(Less, Nat)
  BY NatLessThanWellFounded DEF OpToRel
<1>2. PICK m \in T : \A k \in T : <<k, m>> \notin Less
  BY <1>1, WFMin
<1>3. ASSUME NEW k \in T PROVE m <= k
  <2>1. m \in Nat /\ k \in Nat
    OBVIOUS
  <2>2. k < m => <<k, m>> \in Less
    BY <2>1
  <2> QED
    BY <1>2, <2>1, <2>2
<1> QED
  BY <1>3

\* A set that has 0, and with a natural the next one, has them all.
LEMMA NaturalsByInduction ==
  ASSUME NEW S, 0 \in S, \A n \in Nat : n \in S => n + 1 \in S
  PROVE  Nat \subseteq S
<1> SUFFICES ASSUME Nat \ S # {} PROVE FALSE
  OBVIOUS
<1>1. PICK m \in Nat \ S : \A k \in Nat \ S : m <= k
  BY LeastNatural
<1>2. m # 0 /\ m - 1 \in Nat /\ m - 1 \in S
  BY <1>1
<1> QED
  BY <1>1, <1>2

\* There is a function that doubles on 0 .. m, for every m; each is a part of
\* the next, so that together they are the function on all naturals.
LEMMA TwoToUnfolds == TwoTo = [n \in Nat |-> IF n = 0 THEN 1 ELSE 2 * TwoTo[n - 1]]
<1> DEFINE Doubles(m, f) ==
             /\ f \in [0 .. m -> Nat] /\ f[0] = 1
             /\ \A n \in 1 .. m : f[n] = 2 * f[n - 1]
           Reached == {m \in Nat : \E f \in [0 .. m -> Nat] : Doubles(m, f)}
<1>1. 0 \in Reached
  <2> DEFINE f == [i \in 0 .. 0 |-> 1]
  <2>1. Doubles(0, f)
    OBVIOUS
  <2> QED
    BY <2>1
<1>2. ASSUME NEW m \in Nat, m \in Reached PROVE m + 1 \in Reached
  <2>1. PICK f \in [0 .. m -> Nat] : Doubles(m, f)
    BY <1>2
  <2> DEFINE g == [i \in 0 .. m + 1 |-> IF i = m + 1 THEN 2 * f[m] ELSE f[i]]
  <2>2. g \in [0 .. m + 1 -> Nat]
    BY <2>1
  <2>3. g[0] = 1
    BY <2>1
  <2>4. ASSUME NEW n \in 1 .. m + 1 PROVE g[n] = 2 * g[n - 1]
    <3>1. CASE n = m + 1
      BY <3>1
    <3>2. CASE n # m + 1
      <4>1. n \in 1 .. m /\ n - 1 \in 0 .. m
        BY <3>2
      <4>2. f[n] = 2 * f[n - 1]
        BY <2>1, <4>1
      <4> QED
        BY <4>1, <4>2
    <3> QED
      BY <3>1, <3>2
  <2>5. Doubles(m + 1, g)
    BY <2>2, <2>3, <2>4
  <2> HIDE DEF g, Doubles
  <2> QED
    BY <2>2, <2>5
<1>3. Nat \subseteq Reached
  BY <1>1, <1>2, NaturalsByInduction
<1> DEFINE part == [m \in Nat |-> CHOOSE f \in [0 .. m -> Nat] : Doubles(m, f)]
           whole == [m \in Nat |-> part[m][m]]
<1>4. \A m \in Nat : Doubles(m, part[m])
  BY <1>3
<1>5. ASSUME NEW m \in Nat PROVE part[m + 1][m] = part[m][m]
  <2> DEFINE Same == {i \in Nat : i <= m => part[m + 1][i] = part[m][i]}
  <2>1. Doubles(m + 1, part[m + 1]) /\ Doubles(m, part[m])
    <3>1. m + 1 \in Nat
      OBVIOUS
    <3> HIDE DEF part, Doubles
    <3> QED
      BY <1>4, <3>1
  <2> HIDE DEF part
  <2>2. 0 \in Same
    BY <2>1
  <2>3. ASSUME NEW i \in Nat, i \in Same PROVE i + 1 \in Same
    <3> SUFFICES ASSUME i + 1 <= m PROVE part[m + 1][i + 1] = part[m][i + 1]
      OBVIOUS
    <3>1. i + 1 \in 1 .. m /\ i + 1 \in 1 .. m + 1 /\ (i + 1) - 1 = i
      OBVIOUS
    <3>2. part[m + 1][i + 1] = 2 * part[m + 1][i] /\ part[m][i + 1] = 2 * part[m][i]
      BY <2>1, <3>1
    <3> QED
      BY <2>3, <3>2
  <2> HIDE DEF Same
  <2>4. Nat \subseteq Same
    BY <2>2, <2>3, NaturalsByInduction
  <2>5. m \in Same
    BY <2>4
  <2> QED
    BY <2>5 DEF Same
<1>6. whole = [n \in Nat |-> IF n = 0 THEN 1 ELSE 2 * whole[n - 1]]
  <2> HIDE DEF part
  <2> SUFFICES ASSUME NEW n \in Nat
               PROVE  whole[n] = IF n = 0 THEN 1 ELSE 2 * whole[n - 1]
    OBVIOUS
  <2>1. CASE n = 0
    BY <2>1, <1>4
  <2>2. CASE n # 0
    <3>1. n - 1 \in Nat /\ n \in 1 .. n /\ (n - 1) + 1 = n
      BY <2>2
    <3>2. part[n][n] = 2 * part[n][n - 1]
      BY <1>4, <3>1
    <3>3. part[n][n - 1] = part[n - 1][n - 1]
      BY <1>5, <3>1
    <3> QED
      BY <3>1, <3>2, <3>3, <2>2
  <2> QED
    BY <2>1, <2>2
<1> HIDE DEF whole
<1> QED
  BY <1>6 DEF TwoTo

\* What the waits need of it.
LEMMA TwoToGrows ==
  /\ TwoTo[0] = 1
  /\ \A n \in Nat : TwoTo[n] \in Nat \ {0} /\ TwoTo[n + 1] = 2 * TwoTo[n]
<1>1. TwoTo[0] = 1 /\ \A n \in Nat : TwoTo[n + 1] = 2 * TwoTo[n]
  BY TwoToUnfolds
<1> DEFINE Positive == {n \in Nat : TwoTo[n] \in Nat \ {0}}
<1>2. 0 \in Positive /\ \A n \in Nat : n \in Positive => n + 1 \in Positive
  BY <1>1
<1> HIDE DEF Positive
<1>3. Nat \subseteq Positive
  BY <1>2, NaturalsByInduction
<1> QED
  BY <1>1, <1>3 DEF Positive

----------------------------------------------------------------------------
(* The timers                                                                 *)

\* The clock starts with the first dial under way and nothing overdue.
LEMMA InitTiming == Init => TimingInv
<1> SUFFICES ASSUME Init PROVE TimingInv
  OBVIOUS
<1>1. TypeOK
  BY TimingAssumption DEF Init, TypeOK
<1>2. DialInv
  BY TimingAssumption DEF Init, DialInv, LongestWait, Larger
<1>3. TimerInv
  BY TimingAssumption DEF Init, TimerInv
<1>6. EndInv
  BY DEF Init, EndInv
<1>4. PaceInv
  BY DEF Init, PaceInv
<1>5. DelayInv
  BY TimingAssumption DEF Init, DelayInv, NthWait
<1> QED
  BY <1>1, <1>2, <1>3, <1>4, <1>5, <1>6 DEF TimingInv

\* Values stay within their sorts.
LEMMA TypeStep == TypeOK /\ TimerInv /\ [Next]_vars => TypeOK'
<1> SUFFICES ASSUME TypeOK, TimerInv, [Next]_vars PROVE TypeOK'
  OBVIOUS
<1>0. phase = "up" /\ inHand = "beat" => queued - 1 \in Nat
  BY DEF TypeOK, TimerInv
<1> USE <1>0, TimingAssumption DEF TypeOK
<1>1. CASE TimePasses
  BY <1>1 DEF TimePasses, dialVars, beatVars, linkVars, loopVars, histVars
<1>2. CASE DialFails
  BY <1>2 DEF DialFails, beatVars, linkVars, loopVars
<1>3. CASE WaitEnds
  BY <1>3 DEF WaitEnds, beatVars, linkVars, loopVars, histVars
<1>4. CASE DialSucceeds
  BY <1>4 DEF DialSucceeds
<1>5. CASE LoopSeesReaderDone \/ WriteFails
  <2>1. queued' \in Nat
    BY <1>5 DEF LoopSeesReaderDone, WriteFails, LoopReturns
  <2>2. phase' \in {"dial", "wait", "up"} /\ by' \in Nat
    BY <1>5 DEF LoopSeesReaderDone, WriteFails, LoopReturns
  <2>3. /\ from' = now /\ goodFrom' = now /\ alive' = FALSE /\ pongs' = {}
        /\ deadline' = 0 /\ writeBy' = 0 /\ gapEnds' = 0 /\ writeEnds' = 0 /\ late' = 0
        /\ reader' = "done" /\ inHand' = "none"
    BY <1>5 DEF LoopSeesReaderDone, WriteFails, LoopReturns
  <2>4. UNCHANGED <<now, delay, tick, platform, diedAt, failures>>
    BY <1>5 DEF LoopSeesReaderDone, WriteFails, LoopReturns
  <2> QED
    BY <2>1, <2>2, <2>3, <2>4
<1>6. CASE LoopTakesEnvelope
  BY <1>6 DEF LoopTakesEnvelope, dialVars, beatVars, linkVars, histVars
<1>7. CASE WriteEnds
  <2>1. CASE inHand = "beat"
    <3>1. queued' = queued - 1 /\ queued - 1 \in Nat /\ writeBy' = now + WriteDelay
      BY <1>7, <2>1 DEF WriteEnds
    <3>2. pongs' = IF alive THEN pongs \cup {now + RoundTrip} ELSE pongs
      BY <1>7, <2>1 DEF WriteEnds
    <3>3. /\ inHand' = "none" /\ writeEnds' = 0
          /\ UNCHANGED <<now, dialVars, beatVars, deadline, alive, reader, late, platform,
                         histVars>>
      BY <1>7 DEF WriteEnds
    <3> QED
      BY <3>1, <3>2, <3>3 DEF dialVars, beatVars, histVars
  <2>2. CASE inHand # "beat"
    BY <1>7, <2>2 DEF WriteEnds, dialVars, beatVars, histVars
  <2> QED
    BY <2>1, <2>2
<1>8. CASE ReaderTimesOut
  BY <1>8 DEF ReaderTimesOut, dialVars, beatVars, linkVars, histVars
<1>9. CASE ReaderSeesEnd
  BY <1>9 DEF ReaderSeesEnd, dialVars, beatVars
<1>10. CASE PongArrives
  BY <1>10 DEF PongArrives, dialVars, beatVars, loopVars, histVars
<1>11. CASE FrameArrives
  BY <1>11 DEF FrameArrives, dialVars, beatVars, loopVars, histVars
<1>12. CASE TickerFires
  BY <1>12 DEF TickerFires, dialVars, loopVars, histVars
<1>13. CASE LinkDies
  BY <1>13 DEF LinkDies, dialVars, beatVars, loopVars
<1>14. CASE PlatformChanges
  BY <1>14 DEF PlatformChanges, dialVars, beatVars, linkVars, loopVars
<1>15. CASE UNCHANGED vars
  BY <1>15 DEF vars, dialVars, beatVars, linkVars, loopVars, histVars
<1> QED
  BY <1>1, <1>2, <1>3, <1>4, <1>5, <1>6, <1>7, <1>8,
     <1>9, <1>10, <1>11, <1>12, <1>13, <1>14, <1>15
     DEF Next, Manager, Reader

\* Dials and waits end in time. Only the manager, the clock and the platform
\* disturb this.
LEMMA DialStep == TypeOK /\ DialInv /\ [Next]_vars => DialInv'
<1> SUFFICES ASSUME TypeOK, DialInv, [Next]_vars PROVE DialInv'
  OBVIOUS
<1> USE TimingAssumption DEF TypeOK, DialInv, LongestWait, Larger
<1>1. CASE TimePasses
  BY <1>1 DEF TimePasses, dialVars, histVars
<1>2. CASE DialFails
  BY <1>2 DEF DialFails
<1>3. CASE WaitEnds
  BY <1>3 DEF WaitEnds, histVars
<1>4. CASE DialSucceeds
  BY <1>4 DEF DialSucceeds
<1>5. CASE LoopSeesReaderDone \/ WriteFails
  BY <1>5 DEF LoopSeesReaderDone, WriteFails, LoopReturns
<1>6. CASE UNCHANGED <<now, dialVars, platform, goodFrom>>
  BY <1>6 DEF dialVars
<1>7. CASE PlatformChanges
  BY <1>7 DEF PlatformChanges, dialVars
<1> QED
  BY <1>1, <1>2, <1>3, <1>4, <1>5, <1>6, <1>7
     DEF Next, Manager, Reader, LoopTakesEnvelope, WriteEnds, ReaderTimesOut,
         ReaderSeesEnd, PongArrives, FrameArrives, TickerFires, LinkDies, vars, histVars

\* No timer becomes overdue.
LEMMA TimerStep == TypeOK /\ TimerInv /\ [Next]_vars => TimerInv'
<1> SUFFICES ASSUME TypeOK, TimerInv, [Next]_vars PROVE TimerInv'
  OBVIOUS
<1> USE TimingAssumption DEF TypeOK, TimerInv
<1>1. CASE TimePasses
  BY <1>1 DEF TimePasses, dialVars, beatVars, linkVars, loopVars, histVars
<1>2. CASE DialFails
  BY <1>2 DEF DialFails, beatVars, linkVars, loopVars
<1>3. CASE WaitEnds
  BY <1>3 DEF WaitEnds, beatVars, linkVars, loopVars, histVars
<1>4. CASE DialSucceeds
  BY <1>4 DEF DialSucceeds
<1>5. CASE LoopSeesReaderDone \/ WriteFails
  BY <1>5 DEF LoopSeesReaderDone, WriteFails, LoopReturns, beatVars
<1>6. CASE LoopTakesEnvelope
  BY <1>6 DEF LoopTakesEnvelope, dialVars, beatVars, linkVars, histVars
<1>7. CASE WriteEnds
  <2>1. CASE inHand = "beat"
    <3>1. queued' = queued - 1 /\ queued - 1 \in Nat /\ writeBy' = now + WriteDelay
      BY <1>7, <2>1 DEF WriteEnds
    <3>2. pongs' = IF alive THEN pongs \cup {now + RoundTrip} ELSE pongs
      BY <1>7, <2>1 DEF WriteEnds
    <3>3. /\ inHand' = "none" /\ writeEnds' = 0
          /\ UNCHANGED <<now, dialVars, beatVars, deadline, alive, reader, late, platform,
                         histVars>>
      BY <1>7 DEF WriteEnds
    <3> QED
      BY <3>1, <3>2, <3>3 DEF dialVars, beatVars, histVars
  <2>2. CASE inHand # "beat"
    BY <1>7, <2>2 DEF WriteEnds, dialVars, beatVars, histVars
  <2> QED
    BY <2>1, <2>2
<1>8. CASE ReaderTimesOut
  BY <1>8 DEF ReaderTimesOut, dialVars, beatVars, linkVars, histVars
<1>9. CASE ReaderSeesEnd
  BY <1>9 DEF ReaderSeesEnd, dialVars, beatVars
<1>10. CASE PongArrives
  BY <1>10 DEF PongArrives, dialVars, beatVars, loopVars, histVars
<1>11. CASE FrameArrives
  BY <1>11 DEF FrameArrives, dialVars, beatVars, loopVars, histVars
<1>12. CASE TickerFires
  BY <1>12 DEF TickerFires, dialVars, loopVars, histVars
<1>13. CASE LinkDies
  BY <1>13 DEF LinkDies, dialVars, beatVars, loopVars
<1>14. CASE PlatformChanges
  BY <1>14 DEF PlatformChanges, dialVars, beatVars, linkVars, loopVars
<1>15. CASE UNCHANGED vars
  BY <1>15 DEF vars, dialVars, beatVars, linkVars, loopVars, histVars
<1> QED
  BY <1>1, <1>2, <1>3, <1>4, <1>5, <1>6, <1>7, <1>8,
     <1>9, <1>10, <1>11, <1>12, <1>13, <1>14, <1>15
     DEF Next, Manager, Reader

\* The end of a dead link stays in reach: the reader's deadline is not moved on, and a
\* write begun after it moves the bound as far as itself.
LEMMA EndStep == TypeOK /\ TimerInv /\ EndInv /\ [Next]_vars => EndInv'
<1> SUFFICES ASSUME TypeOK, TimerInv, EndInv, [Next]_vars PROVE EndInv'
  OBVIOUS
<1> USE TimingAssumption DEF TypeOK, TimerInv, EndInv
<1>1. CASE TimePasses
  BY <1>1 DEF TimePasses, dialVars, beatVars, linkVars, loopVars, histVars
<1>2. CASE DialFails
  BY <1>2 DEF DialFails, beatVars, linkVars, loopVars
<1>3. CASE WaitEnds
  BY <1>3 DEF WaitEnds, beatVars, linkVars, loopVars, histVars
<1>4. CASE DialSucceeds
  BY <1>4 DEF DialSucceeds
<1>5. CASE LoopSeesReaderDone \/ WriteFails
  BY <1>5 DEF LoopSeesReaderDone, WriteFails, LoopReturns, beatVars
<1>6. CASE LoopTakesEnvelope
  BY <1>6 DEF LoopTakesEnvelope, dialVars, beatVars, linkVars, histVars
<1>7. CASE WriteEnds
  BY <1>7 DEF WriteEnds, dialVars, beatVars, histVars
<1>8. CASE ReaderTimesOut
  BY <1>8 DEF ReaderTimesOut, dialVars, beatVars, linkVars, histVars
<1>9. CASE ReaderSeesEnd
  BY <1>9 DEF ReaderSeesEnd, dialVars, beatVars
<1>10. CASE PongArrives
  BY <1>10 DEF PongArrives, dialVars, beatVars, loopVars, histVars
<1>11. CASE FrameArrives
  BY <1>11 DEF FrameArrives, dialVars, beatVars, loopVars, histVars
<1>12. CASE TickerFires
  BY <1>12 DEF TickerFires, dialVars, loopVars, histVars
<1>13. CASE LinkDies
  BY <1>13 DEF LinkDies, dialVars, beatVars, loopVars
<1>14. CASE PlatformChanges
  BY <1>14 DEF PlatformChanges, dialVars, beatVars, linkVars, loopVars
<1>15. CASE UNCHANGED vars
  BY <1>15 DEF vars, dialVars, beatVars, linkVars, loopVars, histVars
<1> QED
  BY <1>1, <1>2, <1>3, <1>4, <1>5, <1>6, <1>7, <1>8,
     <1>9, <1>10, <1>11, <1>12, <1>13, <1>14, <1>15
     DEF Next, Manager, Reader

\* The next sign of life stays ahead of the deadline: each step of the heartbeat
\* hands the promise on, from the tick to the queue, to the ping, to the pong.
LEMMA PaceStep == TypeOK /\ TimerInv /\ PaceInv /\ [Next]_vars => PaceInv'
<1> SUFFICES ASSUME TypeOK, TimerInv, PaceInv, [Next]_vars,
                    PaceFits, (phase = "up")', alive'
             PROVE  /\ reader' = "reading"
                    /\ \/ \E p \in pongs' : p < deadline'
                       \/ queued' > 0 /\ writeBy' + RoundTrip < deadline'
                       \/ gapEnds' + WriteDelay + RoundTrip < deadline'
  BY DEF PaceInv, PaceFits
<1> USE TimingAssumption DEF TypeOK, TimerInv, PaceInv, PaceFits
<1>1. CASE TimePasses
  BY <1>1 DEF TimePasses, dialVars, beatVars, linkVars, loopVars, histVars
<1>2. CASE DialFails
  BY <1>2 DEF DialFails, beatVars, linkVars, loopVars
<1>3. CASE WaitEnds
  BY <1>3 DEF WaitEnds, beatVars, linkVars, loopVars, histVars
<1>4. CASE DialSucceeds
  BY <1>4 DEF DialSucceeds
<1>5. CASE LoopSeesReaderDone \/ WriteFails
  BY <1>5 DEF LoopSeesReaderDone, WriteFails, LoopReturns, beatVars
<1>6. CASE LoopTakesEnvelope
  BY <1>6 DEF LoopTakesEnvelope, dialVars, beatVars, linkVars, histVars
<1>7. CASE WriteEnds
  BY <1>7 DEF WriteEnds, dialVars, beatVars, histVars
<1>8. CASE ReaderTimesOut
  BY <1>8 DEF ReaderTimesOut, dialVars, beatVars, linkVars, histVars
<1>9. CASE ReaderSeesEnd
  BY <1>9 DEF ReaderSeesEnd, dialVars, beatVars
<1>10. CASE PongArrives
  BY <1>10 DEF PongArrives, dialVars, beatVars, loopVars, histVars
<1>11. CASE FrameArrives
  BY <1>11 DEF FrameArrives, dialVars, beatVars, loopVars, histVars
<1>12. CASE TickerFires
  BY <1>12 DEF TickerFires, dialVars, loopVars, histVars
<1>13. CASE LinkDies
  BY <1>13 DEF LinkDies, dialVars, beatVars, loopVars
<1>14. CASE PlatformChanges
  BY <1>14 DEF PlatformChanges, dialVars, beatVars, linkVars, loopVars
<1>15. CASE UNCHANGED vars
  BY <1>15 DEF vars, dialVars, beatVars, linkVars, loopVars, histVars
<1> QED
  BY <1>1, <1>2, <1>3, <1>4, <1>5, <1>6, <1>7, <1>8,
     <1>9, <1>10, <1>11, <1>12, <1>13, <1>14, <1>15
     DEF Next, Manager, Reader

\* Doubling a wait, capped, gives the next one.
LEMMA WaitDoubles ==
  ASSUME NEW n \in Nat \ {0}
  PROVE  NthWait(n + 1) = Smaller(2 * NthWait(n), MaxReconnectDelay)
<1>1. CASE n = 1
  <2>1. TwoTo[1] = 2
    BY TwoToGrows
  <2> QED
    BY <1>1, <2>1, TimingAssumption DEF NthWait, Smaller
<1>2. CASE n # 1
  <2>1. n - 1 \in Nat /\ (n - 1) + 1 = n /\ (n + 1) - 1 = n
    BY <1>2
  <2>2. TwoTo[n - 1] \in Nat /\ TwoTo[n] = 2 * TwoTo[n - 1]
    BY <2>1, TwoToGrows
  <2> DEFINE wait == ReconnectInterval * TwoTo[n - 1]
  <2>3. ReconnectInterval * TwoTo[n] = 2 * wait /\ wait \in Nat
    BY <2>2, TimingAssumption
  <2>4. NthWait(n) = Smaller(wait, MaxReconnectDelay)
    BY <1>2 DEF NthWait
  <2>5. NthWait(n + 1) = Smaller(2 * wait, MaxReconnectDelay)
    BY <1>2, <2>1, <2>3 DEF NthWait
  <2> HIDE DEF wait
  <2> QED
    BY <2>3, <2>4, <2>5, TimingAssumption DEF Smaller
<1> QED
  BY <1>1, <1>2

\* Each failed dial uses the delay the wait before it prepared, and a connection
\* starts over.
LEMMA DelayStep == TypeOK /\ DelayInv /\ [Next]_vars => DelayInv'
<1> SUFFICES ASSUME TypeOK, DelayInv, [Next]_vars PROVE DelayInv'
  OBVIOUS
<1>0. NthWait(1) = ReconnectInterval /\ failures \in Nat
  BY DEF NthWait, TypeOK
<1>1. CASE UNCHANGED <<dialVars, failures>>
  BY <1>1 DEF DelayInv, dialVars, NthWait
<1>2. CASE DialFails
  BY <1>2 DEF DialFails, DelayInv, TypeOK, NthWait
<1>3. CASE WaitEnds
  <2>1. phase' = "dial" /\ failures' = failures /\ phase = "wait"
    BY <1>3 DEF WaitEnds, histVars
  <2>2. CASE failures = 0
    BY <1>0, <1>3, <2>1, <2>2 DEF WaitEnds, DelayInv, NthWait
  <2>3. CASE failures # 0
    <3>1. delay' = Smaller(2 * NthWait(failures), MaxReconnectDelay)
      BY <1>0, <1>3, <2>1, <2>3 DEF WaitEnds, DelayInv, Smaller
    <3>2. delay' = NthWait(failures + 1)
      BY <1>0, <2>3, <3>1, WaitDoubles
    <3> QED
      BY <2>1, <2>3, <3>2 DEF DelayInv, NthWait
  <2> QED
    BY <2>2, <2>3
<1>4. CASE DialSucceeds
  BY <1>4 DEF DialSucceeds, DelayInv
<1>5. CASE LoopSeesReaderDone \/ WriteFails
  BY <1>0, <1>5 DEF LoopSeesReaderDone, WriteFails, LoopReturns, DelayInv, NthWait
<1> QED
  BY <1>1, <1>2, <1>3, <1>4, <1>5
     DEF Next, Manager, Reader, TimePasses, LoopTakesEnvelope, WriteEnds, ReaderTimesOut,
         ReaderSeesEnd, PongArrives, FrameArrives, TickerFires, LinkDies, PlatformChanges,
         vars, histVars, dialVars

\* The inductive invariant holds for every value of the durations: no timer of
\* the client is ever overdue (client.go:211-276, 404-406, 499-520).
THEOREM TimingInvariant == Spec => []TimingInv
<1>1. TimingInv /\ [Next]_vars => TimingInv'
  BY TypeStep, DialStep, TimerStep, EndStep, PaceStep, DelayStep DEF TimingInv
<1> QED
  BY InitTiming, <1>1, PTL DEF Spec

\* A link whose far end answers pings is never given up for silence, whatever the
\* intervals, as long as they leave room for one heartbeat and its pong
\* (client.go:299-305, 487-494).
THEOREM HealthyLinksSurvive == Spec => []HealthyLinkSurvives
<1>1. TimingInv => HealthyLinkSurvives
  BY DEF TimingInv, PaceInv, HealthyLinkSurvives
<1> QED
  BY TimingInvariant, <1>1, PTL

\* A dead link is given up within the read timeout, the two write timeouts of a
\* heartbeat under way, and two more for each envelope the select picks although the
\* reader is done (client.go:368-382, 404-421, 482-494).
THEOREM DeadLinksEndInTime == Spec => []DeadLinkEndsInTime
<1>1. TimingInv => DeadLinkEndsInTime
  <2> SUFFICES ASSUME TypeOK, TimerInv, EndInv, phase = "up", ~alive
               PROVE  now <= diedAt + ReadTimeout + 2 * WriteTimeout * (1 + late)
    BY DEF TimingInv, DeadLinkEndsInTime
  <2>1. CASE reader = "done"
    BY <2>1 DEF EndInv
  <2>2. CASE reader = "reading"
    BY <2>2, TimingAssumption DEF TypeOK, TimerInv, EndInv
  <2> QED
    BY <2>1, <2>2 DEF TypeOK
<1> QED
  BY TimingInvariant, <1>1, PTL

\* The client is back in bounded time after the platform is, also when
\* reconnect_interval exceeds max_reconnect_delay (client.go:226-237, 266-275).
THEOREM AlwaysBackInTime == Spec => []BackInTime
<1>1. TimingInv => BackInTime
  BY TimingAssumption, SMT
     DEF TimingInv, TypeOK, DialInv, BackInTime, LongestWait, Larger
<1> QED
  BY TimingInvariant, <1>1, PTL

\* The waits double from the interval up to the maximum, after any number of
\* failed dials and whatever the two delays are (client.go:215-239).
THEOREM WaitsAlwaysDouble == Spec => []WaitsAreExponential
<1>1. TimingInv => WaitsAreExponential
  <2> SUFFICES ASSUME TypeOK, DelayInv, phase = "wait", failures > 0
               PROVE  by - from = NthWait(failures)
    BY DEF TimingInv, WaitsAreExponential
  <2>1. delay = NthWait(failures) /\ by = from + delay
    BY DEF DelayInv
  <2> QED
    BY <2>1 DEF TypeOK
<1> QED
  BY TimingInvariant, <1>1, PTL
====
