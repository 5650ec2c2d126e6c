---- MODULE CommandPathProofs ----
(* Proofs about CommandPath for any accounts, any number of instances, commands *)
(* and restarts: CommandInv is inductive, and what an answer of the kubelet     *)
(* promises follows from it.                                                    *)
EXTENDS CommandPath, TLAPS

\* Nothing is under way at the start.
LEMMA InitCommand == Init => CommandInv
<1> SUFFICES ASSUME Init PROVE CommandInv
  OBVIOUS
<1> USE KeyAssumption, CommandBounds DEF Init, Ids, Keys
<1>1. TypeOK
  BY DEF TypeOK, TypeRunPod, TypeCommand, Runtimes, RawStatuses, CommandRecord,
                  NoCommand, ReplyRecord, NoReply, AnswerRecord, NoAnswer, Codes
<1>2. CreatedOnce /\ InHand
  BY DEF CreatedOnce, InHand, NoCommand
<1>3. ReplyTrue /\ EndedForGood /\ OneInstancePerDeploy /\ StatusAnswerWasTrue
      /\ RefusedLeavesNothing /\ KeysGoAlong
  BY DEF ReplyTrue, EndedForGood, OneInstancePerDeploy, StatusAnswerWasTrue,
         RefusedLeavesNothing, KeysGoAlong
<1> QED
  BY <1>1, <1>2, <1>3 DEF CommandInv

----------------------------------------------------------------------------
\* A command, or none, names an instance and a key or neither.
LEMMA CommandTyped == \A c \in CommandRecord : c.id \in Nat /\ c.key \in Keys
<1> SUFFICES ASSUME NEW c \in CommandRecord PROVE c.id \in Nat /\ c.key \in Keys
  OBVIOUS
<1>1. CASE c \in SentRecord
  <2>1. c.id \in {0} \cup Ids /\ c.key \in Keys
    BY <1>1 DEF SentRecord
  <2> QED
    BY <2>1, CommandBounds DEF Ids
<1>2. CASE c = NoCommand
  BY <1>2 DEF NoCommand, Keys
<1> QED
  BY <1>1, <1>2 DEF CommandRecord

\* A request names the account whose key it carries.
LEMMA RequestTyped == TypeOK /\ at = "sent" /\ InHand => Request \in RequestRecord
  BY CommandTyped DEF TypeOK, TypeCommand, InHand, Request, RequestRecord, getAPIKey, Keys

\* What a request does keeps the instances within their sorts.
LEMMA EffectTyped ==
  ASSUME TypeOK, NEW r \in RequestRecord, Effect(r)
  PROVE  /\ made' \in 0 .. MaxInstances /\ account' \in [Ids -> Keys]
         /\ desired' \in [Ids -> RawStatuses \cup {"gone"}] /\ runtime' \in [Ids -> Runtimes]
         /\ madeBy' \in [Ids -> Nat]
<1> USE CommandBounds DEF TypeOK, TypeRunPod, RequestRecord
<1>1. CASE r.kind = "deploy"
  <2> PICK s \in {"STARTING", "RUNNING", "other"} : Creates(r, s)
    BY <1>1 DEF Effect
  <2>1. made' \in 0 .. MaxInstances /\ runtime' = runtime
    BY DEF Creates
  <2>2. account' \in [Ids -> Keys] /\ madeBy' \in [Ids -> Nat]
    BY DEF Creates
  <2>3. desired' \in [Ids -> RawStatuses \cup {"gone"}]
    BY DEF Creates, RawStatuses
  <2> QED
    BY <2>1, <2>2, <2>3
<1>2. CASE r.kind = "terminate"
  BY <1>2 DEF Effect
<1>3. CASE r.kind = "status"
  BY <1>3 DEF Effect, runpodVars
<1> QED
  BY <1>1, <1>2, <1>3

\* RunPod's answers are of the sort the client reads.
LEMMA ReplyTyped ==
  ASSUME TypeOK, NEW r \in RequestRecord
  PROVE  ReplyTo(r) \in ReplyRecord
<1> DEFINE s == Seen(r.id, r.key)
<1> USE CommandBounds DEF TypeOK, TypeRunPod, RequestRecord, ReplyRecord
<1>1. NoReply \in ReplyRecord
  BY DEF NoReply, Runtimes
<1>2. s.status # "gone" => s.status \in RawStatuses /\ s.runtime \in Runtimes
  BY DEF Seen
<1>3. CASE r.kind = "deploy"
  <2>1. ReplyTo(r) = [NoReply EXCEPT !.http = "ok", !.id = made + 1]
    BY <1>3 DEF ReplyTo
  <2>2. made + 1 \in Nat
    OBVIOUS
  <2> QED
    BY <2>1, <2>2 DEF NoReply, Runtimes
<1>4. CASE r.kind # "deploy" /\ s.status = "gone"
  BY <1>1, <1>4 DEF ReplyTo
<1>5. CASE r.kind # "deploy" /\ s.status # "gone"
  <2>1. ReplyTo(r) = [http |-> "ok", id |-> r.id, status |-> s.status, runtime |-> s.runtime]
    BY <1>5 DEF ReplyTo
  <2> HIDE DEF s
  <2> QED
    BY <1>2, <1>5, <2>1
<1> QED
  BY <1>3, <1>4, <1>5

\* Values stay within their sorts.
LEMMA TypeStep == TypeOK /\ InHand /\ [Next]_vars => TypeOK'
<1> SUFFICES ASSUME TypeOK, InHand, [Next]_vars PROVE TypeOK'
  OBVIOUS
<1> USE KeyAssumption, CommandBounds DEF TypeOK, TypeRunPod, TypeCommand
<1>a. ASSUME NEW a \in AnswerRecord, Answers(a) PROVE TypeOK'
  BY <1>a DEF Answers, runpodVars, handVars, boundVars, ReplyRecord, NoReply, Runtimes
<1>b. NoAnswer \in AnswerRecord /\ [NoAnswer EXCEPT !.ok = TRUE] \in AnswerRecord
  BY DEF NoAnswer, AnswerRecord, Codes
<1>c. \A c \in Codes : [NoAnswer EXCEPT !.code = c] \in AnswerRecord
                       /\ [NoAnswer EXCEPT !.code = c, !.provider = TRUE] \in AnswerRecord
  BY DEF NoAnswer, AnswerRecord
<1>d. HandlerCode \in Codes
  BY DEF HandlerCode, Codes
<1>1. ASSUME NEW i \in Ids, InstanceMoves(i) PROVE TypeOK'
  BY <1>1 DEF InstanceMoves, handVars
<1>2. CASE ServesRequest
  BY <1>2, RequestTyped, EffectTyped, ReplyTyped DEF ServesRequest, handVars, boundVars
<1>3. CASE RefusesRequest
  BY <1>3 DEF RefusesRequest, runpodVars, handVars, boundVars, ReplyRecord, NoReply, Runtimes
<1>4. CASE ServesLateRequest
  BY <1>4, EffectTyped DEF ServesLateRequest, handVars, boundVars
<1>5. CASE TakeCommand
  <2>1. cmd' \in CommandRecord
    BY <1>5 DEF TakeCommand, CommandRecord
  <2>2. taken' = taken + 1 /\ at' = "handle"
        /\ UNCHANGED <<runpodVars, apiKey, late, reply, answer, boundVars, requests>>
    BY <1>5 DEF TakeCommand
  <2>3. keyed' \in [1 .. MaxCommands -> Keys]
    BY <1>5 DEF TakeCommand, SentRecord
  <2> QED
    BY <2>1, <2>2, <2>3 DEF runpodVars, boundVars
<1>6. CASE Handle
  <2> HIDE DEF TypeOK
  <2>1. ASSUME NEW c \in Codes, Plain(c) \/ ProviderFails(c) PROVE TypeOK'
    BY <1>a, <1>c, <2>1 DEF Plain, ProviderFails
  <2>2. CASE CommandUnreadable \/ CommandUnknown \/ ParamsUnreadable
    BY <2>1, <2>2 DEF CommandUnreadable, CommandUnknown, ParamsUnreadable, Codes
  <2>3. CASE handlePing \/ handleReject
    BY <1>a, <1>b, <2>1, <2>3 DEF handlePing, handleReject, Codes
  <2>4. CASE ProviderNotFound \/ KeyMissing \/ PodIDInvalid
    BY <1>d, <2>1, <2>4 DEF ProviderNotFound, KeyMissing, PodIDInvalid, Codes
  <2>5. CASE SendsRequest
    BY <2>5 DEF TypeOK, SendsRequest, runpodVars, handVars, boundVars
  <2> QED
    BY <1>6, <2>2, <2>3, <2>4, <2>5 DEF Handle
<1>7. CASE TimesOut
  BY <1>7, RequestTyped
     DEF TimesOut, runpodVars, handVars, boundVars, ReplyRecord, NoReply, Runtimes
<1>8. CASE ReplyUnreadable
  BY <1>8 DEF ReplyUnreadable, runpodVars, handVars, boundVars, ReplyRecord, NoReply, Runtimes
<1>9. CASE ReadReply
  <2>1. CASE RequestFails
    BY <1>a, <1>c, <1>d, <2>1 DEF RequestFails, ProviderFails, Codes
  <2>2. CASE Deployed
    BY <1>a, <2>2 DEF Deployed, NoAnswer, AnswerRecord, Codes, ReplyRecord
  <2>3. CASE Terminated
    BY <1>a, <2>3, CommandTyped DEF Terminated, NoAnswer, AnswerRecord, Codes
  <2>4. CASE InstanceNotFound
    BY <1>a, <2>4, CommandTyped DEF InstanceNotFound, NoAnswer, AnswerRecord, Codes
  <2>5. CASE StatusReported
    <3>1. \A t, b : PhaseForStatus(t, b) \in
                      {"none", "Pending", "Running", "Succeeded", "Failed", "Unknown"}
      BY DEF PhaseForStatus
    <3>2. (reply.status = "RUNNING") \in BOOLEAN
          /\ (reply.status \in {"TERMINATED", "EXITED"}) \in BOOLEAN
      OBVIOUS
    <3>3. \A t \in {"none", "Pending", "Running", "Succeeded", "Failed", "Unknown"},
             u, v \in BOOLEAN :
            [NoAnswer EXCEPT !.ok = TRUE, !.id = cmd.id, !.status = reply.status, !.phase = t,
                             !.isRunning = u, !.isTerminated = v] \in AnswerRecord
      BY CommandTyped DEF NoAnswer, AnswerRecord, Codes, ReplyRecord
    <3> QED
      BY <1>a, <2>5, <3>1, <3>2, <3>3 DEF StatusReported
  <2> QED
    BY <1>9, <2>1, <2>2, <2>3, <2>4, <2>5 DEF ReadReply
<1>10. ASSUME Forgets PROVE (at \in {"idle"} /\ cmd \in CommandRecord /\ reply \in ReplyRecord
                             /\ answer \in AnswerRecord /\ requests \in Nat)'
  BY <1>10 DEF Forgets, CommandRecord, NoReply, ReplyRecord, Runtimes, NoAnswer,
               AnswerRecord, Codes, Keys
<1>11. CASE Responds
  BY <1>10, <1>11 DEF Responds, runpodVars, boundVars
<1>12. CASE Restart
  BY <1>10, <1>12, RequestTyped DEF Restart, runpodVars
<1>13. CASE UNCHANGED vars
  BY <1>13 DEF vars, runpodVars, handVars, boundVars
<1> QED
  BY <1>1, <1>2, <1>3, <1>4, <1>5, <1>6, <1>7, <1>8, <1>9, <1>11, <1>12, <1>13 DEF Next

----------------------------------------------------------------------------
\* A request of the handler answers at once, or is sent to RunPod.
LEMMA HandleShape ==
  ASSUME Handle
  PROVE  /\ at = "handle"
         /\ SendsRequest \/ \E a : Answers(a) /\ (a.ok => cmd.kind \in {"ping", "reject"})
<1> USE DEF Dispatches, CallsProvider
<1>1. at = "handle"
  BY DEF Handle, CommandUnreadable, CommandUnknown, handlePing, ParamsUnreadable, handleReject,
         ProviderNotFound, KeyMissing, PodIDInvalid, SendsRequest
<1>2. \A c : ~[NoAnswer EXCEPT !.code = c].ok
              /\ ~[NoAnswer EXCEPT !.code = c, !.provider = TRUE].ok
  BY DEF NoAnswer
<1>3. ASSUME NEW c, Plain(c) \/ ProviderFails(c)
      PROVE  \E a : Answers(a) /\ ~a.ok
  BY <1>2, <1>3 DEF Plain, ProviderFails
<1>4. CASE handlePing \/ handleReject
  BY <1>3, <1>4 DEF handlePing, handleReject
<1>5. CASE ~(handlePing \/ handleReject \/ SendsRequest)
  BY <1>3, <1>5 DEF Handle, CommandUnreadable, CommandUnknown, ParamsUnreadable,
                    ProviderNotFound, KeyMissing, PodIDInvalid
<1> QED
  BY <1>1, <1>4, <1>5

\* A request creates the next instance, for its command and in its account, or it
\* creates none and brings none back.
LEMMA EffectShape ==
  ASSUME TypeOK, NEW r \in RequestRecord, Effect(r)
  PROVE  \/ /\ r.kind = "deploy" /\ made + 1 \in Ids /\ made' = made + 1
            /\ madeBy' = [madeBy EXCEPT ![made + 1] = r.by]
            /\ account' = [account EXCEPT ![made + 1] = r.key]
            /\ \A i \in Ids : i # made + 1 => desired'[i] = desired[i]
         \/ /\ r.kind # "deploy" /\ UNCHANGED <<made, madeBy, account>>
            /\ \A i \in Ids : desired'[i] # desired[i] =>
                 r.kind = "terminate" /\ desired'[i] = "gone" /\ account[i] = r.key
<1> USE CommandBounds DEF TypeOK, TypeRunPod, Ids
<1>1. CASE r.kind = "deploy"
  <2>1. PICK s : Creates(r, s)
    BY <1>1 DEF Effect
  <2>2. made + 1 \in Ids
    BY <2>1 DEF Creates
  <2>3. \A i \in Ids : i # made + 1 => desired'[i] = desired[i]
    BY <2>1 DEF Creates
  <2> QED
    BY <1>1, <2>1, <2>2, <2>3 DEF Creates
<1>2. CASE r.kind = "terminate"
  BY <1>2 DEF Effect
<1>3. CASE r.kind = "status"
  BY <1>3 DEF Effect, runpodVars
<1> QED
  BY <1>1, <1>2, <1>3 DEF RequestRecord

\* What CreatedOnce says of the instances survives a request of a command that has
\* created none yet.
LEMMA EffectCreatesOnce ==
  ASSUME TypeOK, CreatedOnce, NEW r \in RequestRecord, Effect(r), r.by <= taken,
         r.kind = "deploy" => \A i \in 1 .. made : madeBy[i] # r.by
  PROVE  /\ made <= made'
         /\ \A i \in Ids : i <= made' => madeBy'[i] <= taken
         /\ \A i, j \in 1 .. made' : madeBy'[i] = madeBy'[j] => i = j
         /\ \A i \in Ids : i > made' => desired'[i] = "gone"
         /\ \A n : n # r.by /\ (\A i \in 1 .. made : madeBy[i] # n) =>
              \A i \in 1 .. made' : madeBy'[i] # n
<1> USE CommandBounds DEF TypeOK, TypeRunPod, Ids, CreatedOnce
<1>1. CASE r.kind = "deploy"
  <2>1. /\ made + 1 \in Ids /\ made' = made + 1 /\ madeBy' = [madeBy EXCEPT ![made + 1] = r.by]
        /\ \A i \in Ids : i # made + 1 => desired'[i] = desired[i]
    BY <1>1, EffectShape
  <2>2. madeBy'[made + 1] = r.by /\ \A i \in 1 .. made : madeBy'[i] = madeBy[i]
    BY <2>1
  <2>3. \A i \in 1 .. made' : i \in 1 .. made \/ i = made + 1
    BY <2>1
  <2>4. \A i \in 1 .. made : madeBy'[i] # r.by
    BY <1>1, <2>2
  <2>5. \A i \in Ids : i <= made' => madeBy'[i] <= taken
    <3> SUFFICES ASSUME NEW i \in Ids, i <= made' PROVE madeBy'[i] <= taken
      OBVIOUS
    <3>1. i \in 1 .. made'
      BY <2>1
    <3>2. CASE i \in 1 .. made
      BY <2>2, <3>2
    <3>3. CASE i = made + 1
      BY <2>2, <3>3
    <3> QED
      BY <2>3, <3>1, <3>2, <3>3
  <2>6. \A i, j \in 1 .. made' : madeBy'[i] = madeBy'[j] => i = j
    BY <2>2, <2>3, <2>4
  <2>7. \A i \in Ids : i > made' => desired'[i] = "gone"
    BY <2>1
  <2>8. ASSUME NEW n, n # r.by, \A i \in 1 .. made : madeBy[i] # n
        PROVE  \A i \in 1 .. made' : madeBy'[i] # n
    BY <2>2, <2>3, <2>8
  <2> QED
    BY <2>1, <2>5, <2>6, <2>7, <2>8
<1>2. CASE r.kind # "deploy"
  <2>1. /\ UNCHANGED <<made, madeBy>>
        /\ \A i \in Ids : desired'[i] # desired[i] => desired'[i] = "gone"
    BY <1>2, EffectShape
  <2> QED
    BY <2>1
<1> QED
  BY <1>1, <1>2

\* No command creates twice, and what is in hand has created nothing before it is
\* sent.
LEMMA CreatedStep == TypeOK /\ CreatedOnce /\ InHand /\ [Next]_vars => CreatedOnce' /\ InHand'
<1> SUFFICES ASSUME TypeOK, CreatedOnce, InHand, [Next]_vars PROVE CreatedOnce' /\ InHand'
  OBVIOUS
<1>t. /\ made \in 0 .. MaxInstances /\ taken \in Nat /\ late \subseteq RequestRecord
      /\ madeBy \in [Ids -> Nat] /\ cmd.id \in Nat
  BY CommandTyped DEF TypeOK, TypeRunPod, TypeCommand
<1>u. made' \in 0 .. MaxInstances
  BY TypeStep DEF TypeOK, TypeRunPod
<1> USE CommandBounds, <1>t DEF Ids
<1> DEFINE EffectOnce(m) ==
      /\ made <= made'
      /\ \A i \in Ids : i <= made' => madeBy'[i] <= taken
      /\ \A i, j \in 1 .. made' : madeBy'[i] = madeBy'[j] => i = j
      /\ \A i \in Ids : i > made' => desired'[i] = "gone"
      /\ \A n : n # m /\ (\A i \in 1 .. made : madeBy[i] # n) =>
           \A i \in 1 .. made' : madeBy'[i] # n
<1>a. ASSUME NEW a, Answers(a),
             a.ok /\ cmd.kind = "deploy" => \A r \in late : r.by # taken
      PROVE  CreatedOnce' /\ InHand'
  BY <1>a DEF Answers, CreatedOnce, InHand, runpodVars, handVars
<1>1. ASSUME NEW i \in Ids, InstanceMoves(i) PROVE CreatedOnce' /\ InHand'
  <2>1. CreatedOnce'
    BY <1>1 DEF InstanceMoves, CreatedOnce, handVars, TypeOK, TypeRunPod
  <2>2. InHand'
    BY <1>1 DEF InstanceMoves, InHand, handVars
  <2> QED
    BY <2>1, <2>2
<1>2. CASE ServesRequest
  <2>1. Request \in RequestRecord /\ Request.by = taken /\ at = "sent" /\ Effect(Request)
        /\ at' = "replied" /\ UNCHANGED <<late, taken, cmd>>
    BY <1>2, RequestTyped DEF ServesRequest, handVars, Request
  <2>2. (\A i \in 1 .. made : madeBy[i] # taken) /\ (\A q \in late : q.by # taken)
    BY <2>1 DEF InHand
  <2>e. EffectOnce(taken)
    <3>1. Request.by <= taken /\ \A i \in 1 .. made : madeBy[i] # Request.by
      BY <2>1, <2>2
    <3>2. EffectOnce(Request.by)
      BY <2>1, <3>1, EffectCreatesOnce
    <3> QED
      BY <2>1, <3>2
  <2>3. CreatedOnce'
    BY <2>1, <2>2, <2>e DEF CreatedOnce
  <2>4. InHand'
    BY <2>1, <2>2, <2>e, <1>u DEF InHand
  <2> QED
    BY <2>3, <2>4
<1>3. CASE RefusesRequest
  BY <1>3 DEF RefusesRequest, CreatedOnce, InHand, runpodVars, handVars
<1>4. CASE ServesLateRequest
  <2>1. PICK r \in late : Effect(r) /\ late' = late \ {r}
    BY <1>4 DEF ServesLateRequest
  <2>2. UNCHANGED <<taken, cmd, at, reply, answer, requests>>
    BY <1>4 DEF ServesLateRequest, handVars
  <2>3. r \in RequestRecord /\ r.by <= taken
        /\ (r.kind = "deploy" => \A i \in 1 .. made : madeBy[i] # r.by)
        /\ \A q \in late' : q \in late /\ q.by # r.by
    BY <2>1 DEF CreatedOnce
  <2>e. EffectOnce(r.by)
    BY <2>1, <2>3, EffectCreatesOnce
  <2>4. CreatedOnce'
    BY <2>2, <2>3, <2>e DEF CreatedOnce
  <2>5. InHand'
    <3>1. at \in {"handle", "sent"} => r.by # taken /\ \A i \in 1 .. made' : madeBy'[i] # taken
      BY <2>1, <2>e DEF InHand
    <3>2. cmd.id <= made'
      BY <2>e, <1>u DEF InHand
    <3> QED
      BY <2>2, <2>3, <3>1, <3>2 DEF InHand
  <2> QED
    BY <2>4, <2>5
<1>5. CASE TakeCommand
  BY <1>5 DEF TakeCommand, CreatedOnce, InHand, runpodVars, RequestRecord
<1>6. CASE Handle
  <2>1. CASE SendsRequest
    BY <2>1 DEF SendsRequest, CallsProvider, Dispatches, CreatedOnce, InHand, runpodVars, handVars
  <2> QED
    BY <1>6, <1>a, <2>1, HandleShape
<1>7. CASE TimesOut
  BY <1>7 DEF TimesOut, CreatedOnce, InHand, Request, runpodVars, handVars
<1>8. CASE ReplyUnreadable
  BY <1>8 DEF ReplyUnreadable, CreatedOnce, InHand, runpodVars, handVars
<1>9. CASE ReadReply
  <2>1. CASE RequestFails
    BY <1>a, <2>1 DEF RequestFails, ProviderFails, NoAnswer
  <2>2. CASE Deployed
    BY <1>a, <2>2 DEF Deployed, InHand
  <2>3. CASE Terminated
    BY <1>a, <2>3 DEF Terminated
  <2>4. CASE InstanceNotFound
    BY <1>a, <2>4 DEF InstanceNotFound
  <2>5. CASE StatusReported
    BY <1>a, <2>5 DEF StatusReported
  <2> QED
    BY <1>9, <2>1, <2>2, <2>3, <2>4, <2>5 DEF ReadReply
<1>10. CASE Responds
  BY <1>10 DEF Responds, Forgets, NoCommand, CreatedOnce, InHand, runpodVars
<1>11. CASE Restart
  BY <1>11 DEF Restart, Forgets, NoCommand, CreatedOnce, InHand, Request, runpodVars
<1>12. CASE UNCHANGED vars
  BY <1>12 DEF vars, runpodVars, handVars, CreatedOnce, InHand
<1> QED
  BY <1>1, <1>2, <1>3, <1>4, <1>5, <1>6, <1>7, <1>8, <1>9, <1>10, <1>11, <1>12 DEF Next

----------------------------------------------------------------------------
\* Only requests and the instances themselves change what RunPod has.
LEMMA RunPodMoves ==
  ASSUME TypeOK, CreatedOnce, InHand, [Next]_vars
  PROVE  \/ \E i \in Ids : InstanceMoves(i)
         \/ \E r \in RequestRecord : Effect(r) /\ (r.kind = "deploy" =>
              r.by <= taken /\ \A i \in 1 .. made : madeBy[i] # r.by)
         \/ UNCHANGED runpodVars
<1>1. CASE ServesRequest
  BY <1>1, RequestTyped DEF ServesRequest, Request, InHand, TypeOK, TypeCommand
<1>2. CASE ServesLateRequest
  BY <1>2 DEF ServesLateRequest, TypeOK, TypeRunPod, CreatedOnce
<1>3. CASE RefusesRequest \/ TakeCommand \/ TimesOut \/ ReplyUnreadable \/ Responds \/ Restart
  BY <1>3 DEF RefusesRequest, TakeCommand, TimesOut, ReplyUnreadable, Responds, Restart
<1>4. CASE Handle
  BY <1>4, HandleShape DEF SendsRequest, Answers
<1>5. CASE ReadReply
  BY <1>5 DEF ReadReply, RequestFails, Deployed, Terminated, InstanceNotFound, StatusReported,
              ProviderFails, Answers
<1>6. CASE UNCHANGED vars
  BY <1>6 DEF vars
<1> QED
  BY <1>1, <1>2, <1>3, <1>4, <1>5, <1>6 DEF Next

\* What exists keeps its account and its command, and is not brought back once it is
\* gone.
LEMMA GoneStays ==
  ASSUME TypeOK, CreatedOnce, InHand, [Next]_vars
  PROVE  /\ made <= made'
         /\ \A i \in Ids : i <= made =>
              /\ account'[i] = account[i] /\ madeBy'[i] = madeBy[i]
              /\ desired[i] = "gone" => desired'[i] = "gone"
<1> USE CommandBounds DEF TypeOK, TypeRunPod, Ids
<1>1. ASSUME NEW i \in Ids, InstanceMoves(i)
      PROVE  /\ UNCHANGED <<made, account, madeBy>>
             /\ \A j \in Ids : desired[j] = "gone" => desired'[j] = "gone"
  BY <1>1 DEF InstanceMoves
<1>2. ASSUME NEW r \in RequestRecord, Effect(r)
      PROVE  /\ made <= made'
             /\ \A i \in Ids : i <= made =>
                  /\ account'[i] = account[i] /\ madeBy'[i] = madeBy[i]
                  /\ desired[i] = "gone" => desired'[i] = "gone"
  BY <1>2, EffectShape
<1>3. CASE UNCHANGED runpodVars
  BY <1>3 DEF runpodVars
<1> QED
  BY <1>1, <1>2, <1>3, RunPodMoves

\* While a command waits with an answer of RunPod, or with its own, only the instances
\* change.
LEMMA Waits ==
  ASSUME [Next]_vars, at' = at, at \in {"replied", "respond"}
  PROVE  /\ UNCHANGED <<cmd, apiKey, taken, answer, requests, ended>> /\ past \subseteq past'
         /\ reply' = reply \/ (reply'.http = "lost" /\ reply'.http # reply.http)
         /\ UNCHANGED late \/ ServesLateRequest
<1> USE DEF handVars, boundVars, runpodVars
<1>1. ASSUME NEW i \in Ids, InstanceMoves(i) PROVE past \subseteq past'
  BY <1>1 DEF InstanceMoves, Watches
<1>2. CASE \E i \in Ids : InstanceMoves(i)
  BY <1>1, <1>2 DEF InstanceMoves
<1>3. CASE ServesLateRequest
  BY <1>3 DEF ServesLateRequest, Watches
<1>4. CASE ReplyUnreadable
  BY <1>4 DEF ReplyUnreadable, NoReply
<1>5. CASE UNCHANGED vars
  BY <1>5 DEF vars
<1>6. CASE ReadReply
  BY <1>6 DEF ReadReply, RequestFails, Deployed, Terminated, InstanceNotFound, StatusReported,
              ProviderFails, Answers
<1>7. CASE Handle \/ ServesRequest \/ RefusesRequest \/ TimesOut \/ TakeCommand \/ Responds
           \/ Restart
  BY <1>7, HandleShape DEF ServesRequest, RefusesRequest, TimesOut, TakeCommand, Responds,
                           Restart, Forgets
<1> QED
  BY <1>2, <1>3, <1>4, <1>5, <1>6, <1>7 DEF Next

\* An answer of RunPod comes from a request served, and an answer to the platform from
\* the handler or from RunPod's.
LEMMA Arrives ==
  ASSUME [Next]_vars, at' # at
  PROVE  /\ at' = "replied" => ServesRequest \/ reply'.http \in {"error", "lost"}
         /\ at' = "respond" => Handle \/ ReadReply
<1>1. CASE \E i \in Ids : InstanceMoves(i)
  BY <1>1 DEF InstanceMoves
<1>2. CASE RefusesRequest \/ TimesOut \/ ReplyUnreadable
  BY <1>2 DEF RefusesRequest, TimesOut, ReplyUnreadable, NoReply
<1>3. CASE ServesLateRequest \/ TakeCommand \/ Responds \/ Restart
  BY <1>3 DEF ServesLateRequest, TakeCommand, Responds, Restart, Forgets
<1>4. CASE Handle
  BY <1>4, HandleShape DEF SendsRequest, Answers
<1>5. CASE ReadReply
  BY <1>5 DEF ReadReply, RequestFails, Deployed, Terminated, InstanceNotFound, StatusReported,
              ProviderFails, Answers
<1>6. CASE UNCHANGED vars
  BY <1>6 DEF vars
<1>7. CASE ServesRequest
  BY <1>7 DEF ServesRequest
<1> QED
  BY <1>1, <1>2, <1>3, <1>4, <1>5, <1>6, <1>7 DEF Next

\* What a request is answered is so.
LEMMA ServedTrue ==
  ASSUME TypeOK, InHand, ServesRequest PROVE ReplyTrue'
<1>1. Request \in RequestRecord /\ Effect(Request) /\ reply' = ReplyTo(Request)
      /\ UNCHANGED <<cmd, apiKey, taken>> /\ Request.kind = cmd.kind /\ Request.id = cmd.id
      /\ Request.by = taken /\ Request.key = getAPIKey(cmd.key)
      /\ at = "sent" /\ past' = past \cup {Seen(cmd.id, getAPIKey(cmd.key))'}
  BY RequestTyped DEF ServesRequest, handVars, Request, Watches
<1>2. getAPIKey(cmd.key)' = getAPIKey(cmd.key)
  BY <1>1 DEF getAPIKey
<1>3. CASE cmd.kind = "deploy"
  <2>1. reply'.id = made + 1
    BY <1>1, <1>3 DEF ReplyTo, NoReply
  <2> QED
    BY <1>1, <1>2, <1>3, <2>1, EffectShape, CommandBounds
       DEF ReplyTrue, TypeOK, TypeRunPod, Ids
<1>4. CASE cmd.kind = "terminate"
  <2>1. desired' = [i \in Ids |-> IF i = cmd.id /\ account[i] = getAPIKey(cmd.key)
                                    THEN "gone" ELSE desired[i]]
        /\ account' = account
    BY <1>1, <1>4 DEF Effect
  <2>2. Seen(cmd.id, getAPIKey(cmd.key))'.status = "gone"
    BY <1>1, <1>2, <2>1 DEF Seen
  <2> QED
    BY <1>1, <1>4, <2>2 DEF ReplyTrue
<1>5. CASE cmd.kind = "status"
  <2> DEFINE s == Seen(cmd.id, getAPIKey(cmd.key))
  <2>1. UNCHANGED runpodVars
    BY <1>1, <1>5 DEF Effect
  <2>2. s' = s /\ s' \in past'
    BY <1>1, <1>2, <2>1 DEF Seen, runpodVars
  <2>3. s.status = "gone" \/ s.status \in RawStatuses
    BY DEF Seen, TypeOK, TypeRunPod
  <2>4. s = [status |-> s.status, runtime |-> s.runtime]
        /\ (s.status = "gone" => s = [status |-> "gone", runtime |-> "none"])
    BY DEF Seen
  <2>5. CASE s.status = "gone"
    <3>1. reply'.http = "404"
      BY <1>1, <1>5, <2>5 DEF ReplyTo, NoReply
    <3> QED
      BY <1>1, <1>5, <2>2, <2>4, <2>5, <3>1 DEF ReplyTrue
  <2>6. CASE s.status # "gone"
    <3>1. reply' = [http |-> "ok", id |-> cmd.id, status |-> s.status, runtime |-> s.runtime]
      BY <1>1, <1>5, <2>6 DEF ReplyTo
    <3> HIDE DEF s
    <3> QED
      BY <1>1, <1>5, <2>2, <2>3, <2>4, <2>6, <3>1 DEF ReplyTrue
  <2> QED
    BY <2>5, <2>6
<1> QED
  BY <1>1, <1>3, <1>4, <1>5 DEF InHand

\* What RunPod answered stays so until it is passed on.
LEMMA ReplyStep ==
  ASSUME TypeOK, CreatedOnce, InHand, ReplyTrue, [Next]_vars PROVE ReplyTrue'
<1>1. CASE at' = "replied" /\ at # "replied"
  <2>1. CASE ServesRequest
    BY <2>1, ServedTrue
  <2>2. CASE reply'.http \in {"error", "lost"}
    BY <2>2 DEF ReplyTrue
  <2> QED
    BY <1>1, <2>1, <2>2, Arrives
<1>2. CASE at' = "replied" /\ at = "replied"
  <2>1. CASE reply'.http = "lost"
    BY <2>1 DEF ReplyTrue
  <2>2. CASE reply' = reply
    <3>1. /\ UNCHANGED <<cmd, apiKey, taken>> /\ past \subseteq past'
          /\ getAPIKey(cmd.key)' = getAPIKey(cmd.key)
      BY <1>2, Waits DEF getAPIKey
    <3>2. cmd.kind = "deploy" /\ reply.http = "ok" =>
            /\ reply.id \in 1 .. made' /\ madeBy'[reply.id] = taken
            /\ account'[reply.id] = getAPIKey(cmd.key)
      <4> SUFFICES ASSUME cmd.kind = "deploy", reply.http = "ok"
                   PROVE  /\ reply.id \in 1 .. made' /\ madeBy'[reply.id] = taken
                          /\ account'[reply.id] = getAPIKey(cmd.key)
        OBVIOUS
      <4>1. /\ reply.id \in 1 .. made /\ madeBy[reply.id] = taken
            /\ account[reply.id] = getAPIKey(cmd.key)
        BY <1>2 DEF ReplyTrue
      <4>2. made \in 0 .. MaxInstances /\ made' \in 0 .. MaxInstances /\ made <= made'
        BY TypeStep, GoneStays DEF TypeOK, TypeRunPod
      <4>3. reply.id \in Ids /\ reply.id <= made /\ reply.id \in 1 .. made'
        BY <4>1, <4>2, CommandBounds DEF Ids
      <4> QED
        BY <4>1, <4>3, GoneStays
    <3>3. Seen(cmd.id, getAPIKey(cmd.key)).status = "gone" =>
            Seen(cmd.id, getAPIKey(cmd.key))'.status = "gone"
      BY <3>1, GoneStays DEF Seen, InHand, TypeOK, TypeRunPod, RawStatuses
    <3> QED
      BY <1>2, <2>2, <3>1, <3>2, <3>3 DEF ReplyTrue
  <2> QED
    BY <1>2, <2>1, <2>2, Waits
<1>3. CASE at' # "replied"
  BY <1>3 DEF ReplyTrue
<1> QED
  BY <1>1, <1>2, <1>3

\* An instance answered as terminated is not brought back.
LEMMA EndedStep ==
  ASSUME TypeOK, CreatedOnce, InHand, ReplyTrue, EndedForGood, [Next]_vars PROVE EndedForGood'
<1>a. \A i, key : Seen(i, key).status = "gone" <=>
                    (i \in Ids /\ account[i] = key => desired[i] = "gone")
  BY DEF Seen, TypeOK, TypeRunPod
<1>b. \A i, key : Seen(i, key)'.status = "gone" <=>
                    (i \in Ids /\ account'[i] = key => desired'[i] = "gone")
  BY TypeStep DEF Seen, TypeOK, TypeRunPod
<1>c. made \in Int /\ made' \in Int /\ cmd.id \in Nat /\ cmd.id <= made
  BY TypeStep, CommandTyped DEF TypeOK, TypeRunPod, TypeCommand, InHand
<1>2. at' = "respond" /\ answer'.ok /\ cmd'.kind = "terminate" =>
        Seen(cmd.id, getAPIKey(cmd.key))'.status = "gone" /\ cmd' = cmd /\ apiKey' = apiKey
  <2> SUFFICES ASSUME at' = "respond", answer'.ok, cmd'.kind = "terminate"
               PROVE  Seen(cmd.id, getAPIKey(cmd.key))'.status = "gone" /\ cmd' = cmd
                      /\ apiKey' = apiKey
    OBVIOUS
  <2>1. CASE at = "respond"
    <3>1. UNCHANGED <<cmd, apiKey, answer>> /\ getAPIKey(cmd.key)' = getAPIKey(cmd.key)
      BY <2>1, Waits DEF getAPIKey
    <3>2. Seen(cmd.id, getAPIKey(cmd.key)).status = "gone"
      BY <2>1, <3>1 DEF EndedForGood
    <3> QED
      BY <3>1, <3>2, <1>c, GoneStays DEF Seen, TypeOK, TypeRunPod, RawStatuses
  <2>2. CASE Handle
    BY <2>2, HandleShape DEF Answers, SendsRequest, handVars
  <2>3. CASE ReadReply
    <3>1. cmd' = cmd /\ at = "replied" /\ apiKey' = apiKey
          /\ UNCHANGED runpodVars
      BY <2>3 DEF ReadReply, RequestFails, Deployed, Terminated, InstanceNotFound,
                  StatusReported, ProviderFails, Answers, handVars
    <3>2. Terminated
      BY <2>3, <3>1 DEF ReadReply, RequestFails, Deployed, InstanceNotFound, StatusReported,
                        ProviderFails, Answers, NoAnswer
    <3>3. Seen(cmd.id, getAPIKey(cmd.key)).status = "gone"
      BY <3>2 DEF Terminated, ReplyTrue
    <3> QED
      BY <3>1, <3>3 DEF runpodVars, Seen, getAPIKey
  <2> QED
    BY <2>1, <2>2, <2>3, Arrives
<1>3. \A e \in ended : e[1] \in 0 .. made' /\ (e[1] \in Ids /\ account'[e[1]] = e[2] =>
                                             desired'[e[1]] = "gone")
  BY <1>c, GoneStays, CommandBounds DEF EndedForGood, Ids
<1>4. \A e \in ended' : e \in ended \/
         (e[1] \in 0 .. made' /\ (e[1] \in Ids /\ account'[e[1]] = e[2] => desired'[e[1]] = "gone"))
  <2>1. CASE Responds
    <3>1. CASE answer.ok /\ cmd.kind = "terminate"
      <4>1. ended' = ended \cup {<<cmd.id, getAPIKey(cmd.key)>>} /\ UNCHANGED runpodVars
        BY <2>1, <3>1 DEF Responds
      <4>2. Seen(cmd.id, getAPIKey(cmd.key)).status = "gone"
        BY <2>1, <3>1 DEF Responds, EndedForGood
      <4> QED
        BY <4>1, <4>2, <1>a, <1>c DEF runpodVars
    <3>2. CASE ~(answer.ok /\ cmd.kind = "terminate")
      BY <2>1, <3>2 DEF Responds
    <3> QED
      BY <3>1, <3>2
  <2>2. CASE ~Responds
    <3>1. CASE Handle
      BY <3>1, HandleShape DEF SendsRequest, Answers
    <3>2. CASE ReadReply
      BY <3>2 DEF ReadReply, RequestFails, Deployed, Terminated, InstanceNotFound,
                  StatusReported, ProviderFails, Answers
    <3>3. CASE (\E i \in Ids : InstanceMoves(i)) \/ ServesRequest \/ RefusesRequest
               \/ ServesLateRequest \/ TakeCommand \/ TimesOut \/ ReplyUnreadable \/ Restart
      BY <3>3 DEF InstanceMoves, ServesRequest, RefusesRequest, ServesLateRequest, TakeCommand,
                  TimesOut, ReplyUnreadable, Restart
    <3> QED
      BY <2>2, <3>1, <3>2, <3>3 DEF Next, vars
  <2> QED
    BY <2>1, <2>2
<1>5. cmd' = cmd /\ apiKey' = apiKey => getAPIKey(cmd.key)' = getAPIKey(cmd.key)
  BY DEF getAPIKey
<1> QED
  BY <1>2, <1>3, <1>4, <1>5 DEF EndedForGood

\* No command creates twice, and an answer names what its command created.
LEMMA OneStep ==
  ASSUME TypeOK, CreatedOnce, InHand, ReplyTrue, OneInstancePerDeploy, [Next]_vars
  PROVE  OneInstancePerDeploy'
<1> SUFFICES ASSUME at' = "respond", answer'.ok, cmd'.kind = "deploy"
             PROVE  (/\ answer.id \in 1 .. made /\ madeBy[answer.id] = taken
                     /\ account[answer.id] = IF cmd.key # NoKey THEN cmd.key ELSE apiKey)'
  BY CreatedStep DEF CreatedOnce, OneInstancePerDeploy
<1>1. CASE at = "respond"
  <2>1. UNCHANGED <<cmd, apiKey, taken, answer>>
    BY <1>1, Waits
  <2>2. /\ answer.id \in 1 .. made /\ madeBy[answer.id] = taken
        /\ account[answer.id] = IF cmd.key # NoKey THEN cmd.key ELSE apiKey
    BY <1>1, <2>1 DEF OneInstancePerDeploy
  <2>3. made \in 0 .. MaxInstances /\ made' \in 0 .. MaxInstances /\ made <= made'
    BY TypeStep, GoneStays DEF TypeOK, TypeRunPod
  <2>4. answer.id \in Ids /\ answer.id <= made /\ answer.id \in 1 .. made'
    BY <2>2, <2>3, CommandBounds DEF Ids
  <2> QED
    BY <2>1, <2>2, <2>4, GoneStays
<1>2. CASE Handle
  BY <1>2, HandleShape DEF Answers, SendsRequest, handVars
<1>3. CASE ReadReply
  <2>1. UNCHANGED <<cmd, apiKey, taken>> /\ UNCHANGED runpodVars
    BY <1>3 DEF ReadReply, RequestFails, Deployed, Terminated, InstanceNotFound,
                StatusReported, ProviderFails, Answers, handVars
  <2>2. Deployed
    BY <1>3, <2>1 DEF ReadReply, RequestFails, Terminated, InstanceNotFound, StatusReported,
                      ProviderFails, Answers, NoAnswer
  <2>3. answer'.id = reply.id
    BY <2>2 DEF Deployed, Answers, NoAnswer
  <2> QED
    BY <2>1, <2>2, <2>3 DEF Deployed, ReplyTrue, getAPIKey, runpodVars
<1> QED
  BY <1>1, <1>2, <1>3, Arrives

\* What a status answer says was seen while the command was in hand.
LEMMA StatusStep ==
  ASSUME TypeOK, ReplyTrue, StatusAnswerWasTrue, [Next]_vars
  PROVE  StatusAnswerWasTrue'
<1> SUFFICES ASSUME at' = "respond", answer'.ok, cmd'.kind = "status"
             PROVE  StatusAnswerWasTrue'
  BY DEF StatusAnswerWasTrue
<1>1. CASE at = "respond"
  BY <1>1, Waits DEF StatusAnswerWasTrue
<1>2. CASE Handle
  BY <1>2, HandleShape DEF Answers, SendsRequest, handVars
<1>3. CASE ReadReply
  <2>1. cmd' = cmd /\ past' = past /\ at = "replied"
    BY <1>3 DEF ReadReply, RequestFails, Deployed, Terminated, InstanceNotFound,
                StatusReported, ProviderFails, Answers, handVars
  <2>2. CASE InstanceNotFound
    <3>1. /\ ~answer'.isRunning /\ answer'.isTerminated /\ answer'.phase = "Failed"
      BY <2>2 DEF InstanceNotFound, Answers, NoAnswer
    <3>2. [status |-> "gone", runtime |-> "none"] \in past
      BY <2>2 DEF InstanceNotFound, ReplyTrue
    <3> QED
      BY <2>1, <3>1, <3>2 DEF StatusAnswerWasTrue
  <2>3. CASE StatusReported
    <3>1. /\ answer'.phase = PhaseForStatus(reply.status, isSuccessfulCompletion(reply.runtime))
          /\ answer'.isRunning = (reply.status = "RUNNING")
          /\ answer'.isTerminated = (reply.status \in {"TERMINATED", "EXITED"})
      BY <2>3 DEF StatusReported, Answers, NoAnswer
    <3>2. reply.status \in RawStatuses
          /\ [status |-> reply.status, runtime |-> reply.runtime] \in past
      BY <2>3 DEF StatusReported, ReplyTrue
    <3>3. PICK p \in past : p = [status |-> reply.status, runtime |-> reply.runtime]
      BY <3>2
    <3>4. /\ answer'.isRunning <=> p.status = "RUNNING"
          /\ answer'.isTerminated <=> p.status \in {"TERMINATED", "EXITED", "gone"}
          /\ answer'.phase = "Succeeded" => answer'.isTerminated /\ p.runtime = "success"
          /\ answer'.phase = "Failed" => answer'.isTerminated \/ p.status = "FAILED"
          /\ answer'.phase = "Running" => answer'.isRunning \/ p.status = "TERMINATING"
          /\ answer'.phase = "Unknown" => ~answer'.isRunning /\ ~answer'.isTerminated
      BY <3>1, <3>2, <3>3 DEF PhaseForStatus, isSuccessfulCompletion, RawStatuses
    <3> QED
      BY <2>1, <3>3, <3>4 DEF StatusAnswerWasTrue
  <2> QED
    BY <1>3, <2>1, <2>2, <2>3 DEF ReadReply, RequestFails, Deployed, Terminated, ProviderFails,
                                  Answers, NoAnswer
<1> QED
  BY <1>1, <1>2, <1>3, Arrives

\* A refusal comes from the handler, which has sent nothing yet.
LEMMA RefusedStep ==
  ASSUME TypeOK, CreatedOnce, InHand, RefusedLeavesNothing, [Next]_vars
  PROVE  RefusedLeavesNothing'
<1> SUFFICES ASSUME at' = "respond", ~answer'.ok,
                    ~answer'.provider \/ answer'.code = "missing_api_key"
             PROVE  (/\ requests = 0 /\ (\A i \in 1 .. made : madeBy[i] # taken)
                     /\ \A r \in late : r.by # taken)'
  BY DEF RefusedLeavesNothing
<1>1. CASE at = "respond"
  <2>1. UNCHANGED <<taken, answer, requests>> /\ (UNCHANGED late \/ ServesLateRequest)
    BY <1>1, Waits
  <2>2. /\ requests = 0 /\ (\A i \in 1 .. made : madeBy[i] # taken)
        /\ \A r \in late : r.by # taken
    BY <1>1, <2>1 DEF RefusedLeavesNothing
  <2>3. \A r \in late' : r.by # taken
    BY <2>1, <2>2 DEF ServesLateRequest
  <2>4. ASSUME NEW i \in 1 .. made' PROVE madeBy'[i] # taken
    <3>1. CASE ServesLateRequest
      <4>1. PICK r \in late : Effect(r)
        BY <3>1 DEF ServesLateRequest
      <4>2. r \in RequestRecord /\ r.by # taken /\ r.by <= taken
            /\ (r.kind = "deploy" => \A j \in 1 .. made : madeBy[j] # r.by)
        BY <2>2 DEF TypeOK, TypeRunPod, CreatedOnce
      <4> QED
        BY <2>2, <4>1, <4>2, EffectCreatesOnce
    <3>2. CASE UNCHANGED <<made, madeBy>>
      BY <2>2, <3>2
    <3>3. CASE \E j \in Ids : InstanceMoves(j)
      BY <2>2, <3>3 DEF InstanceMoves
    <3>4. CASE ReplyUnreadable \/ UNCHANGED vars
      BY <3>2, <3>4 DEF ReplyUnreadable, vars, runpodVars
    <3>5. CASE ReadReply
      BY <1>1, <3>5 DEF ReadReply, RequestFails, Deployed, Terminated, InstanceNotFound,
                        StatusReported
    <3>6. CASE Handle \/ ServesRequest \/ RefusesRequest \/ TimesOut \/ TakeCommand \/ Responds
               \/ Restart
      BY <1>1, <3>6, HandleShape DEF ServesRequest, RefusesRequest, TimesOut, TakeCommand,
                                     Responds, Restart, Forgets
    <3> QED
      BY <3>1, <3>3, <3>4, <3>5, <3>6 DEF Next
  <2> QED
    BY <2>1, <2>2, <2>3, <2>4
<1>2. CASE Handle
  <2>1. UNCHANGED <<runpodVars, taken, late>> /\ requests' = requests /\ at = "handle"
    BY <1>2, HandleShape DEF SendsRequest, Answers, handVars
  <2> QED
    BY <2>1 DEF InHand, runpodVars
<1>3. CASE ReadReply
  BY <1>3 DEF ReadReply, RequestFails, Deployed, Terminated, InstanceNotFound, StatusReported,
              ProviderFails, Answers, NoAnswer, HandlerCode
<1> QED
  BY <1>1, <1>2, <1>3, Arrives

----------------------------------------------------------------------------
\* Each request in the state after a step was there before, or is that of the command
\* in hand.
LEMMA LateRequests ==
  ASSUME InHand, [Next]_vars
  PROVE  late' \subseteq late \/ (at = "sent" /\ late' = late \cup {Request})
<1>1. CASE Handle
  BY <1>1, HandleShape DEF SendsRequest, Answers
<1>2. CASE ReadReply
  BY <1>2 DEF ReadReply, RequestFails, Deployed, Terminated, InstanceNotFound, StatusReported,
              ProviderFails, Answers
<1>3. CASE (\E i \in Ids : InstanceMoves(i)) \/ ServesRequest \/ RefusesRequest
           \/ ServesLateRequest \/ TakeCommand \/ ReplyUnreadable \/ Responds
  BY <1>3 DEF InstanceMoves, ServesRequest, RefusesRequest, ServesLateRequest, TakeCommand,
              ReplyUnreadable, Responds
<1>4. CASE TimesOut \/ Restart
  BY <1>4 DEF TimesOut, Restart
<1>5. CASE UNCHANGED vars
  BY <1>5 DEF vars
<1> QED
  BY <1>1, <1>2, <1>3, <1>4, <1>5 DEF Next

\* The command in hand is the same after a step, or there is none, or one has been
\* taken.
LEMMA CommandStays ==
  ASSUME [Next]_vars
  PROVE  \/ TakeCommand
         \/ at' = "idle" /\ UNCHANGED <<taken, keyed>>
         \/ UNCHANGED <<taken, keyed, cmd, apiKey>> /\ (at' # "idle" => at # "idle")
<1>1. CASE Handle
  BY <1>1, HandleShape DEF SendsRequest, Answers, handVars
<1>2. CASE ReadReply
  BY <1>2 DEF ReadReply, RequestFails, Deployed, Terminated, InstanceNotFound, StatusReported,
              ProviderFails, Answers, handVars
<1>3. CASE (\E i \in Ids : InstanceMoves(i)) \/ ServesRequest \/ RefusesRequest
           \/ ServesLateRequest \/ TimesOut \/ ReplyUnreadable
  BY <1>3 DEF InstanceMoves, ServesRequest, RefusesRequest, ServesLateRequest, TimesOut,
              ReplyUnreadable, handVars
<1>4. CASE Responds \/ Restart
  BY <1>4 DEF Responds, Restart, Forgets
<1>5. CASE UNCHANGED vars
  BY <1>5 DEF vars, handVars
<1> QED
  BY <1>1, <1>2, <1>3, <1>4, <1>5 DEF Next

\* A request keeps the key its command had when it was taken.
LEMMA KeysStep ==
  ASSUME TypeOK, InHand, KeysGoAlong, [Next]_vars PROVE KeysGoAlong'
<1> USE CommandBounds DEF TypeOK, TypeCommand
<1>1. CASE TakeCommand
  <2>1. PICK k \in Keys : /\ k = IF cmd'.key # NoKey THEN cmd'.key ELSE apiKey
                          /\ keyed' = [keyed EXCEPT ![taken + 1] = k]
    BY <1>1 DEF TakeCommand, SentRecord
  <2>2. taken < MaxCommands /\ taken' = taken + 1 /\ UNCHANGED <<late, apiKey>>
    BY <1>1 DEF TakeCommand
  <2>3. getAPIKey(cmd.key)' = keyed'[taken']
    BY <2>1, <2>2 DEF getAPIKey
  <2>4. \A n \in 1 .. taken : n \in 1 .. taken' /\ keyed'[n] = keyed[n]
    BY <2>1, <2>2
  <2>5. \A r \in late : r.by \in 1 .. taken' /\ r.key = keyed'[r.by]
    BY <2>4 DEF KeysGoAlong
  <2>6. taken' <= MaxCommands /\ taken' # 0
    BY <2>2
  <2> QED
    BY <2>2, <2>3, <2>5, <2>6 DEF KeysGoAlong
<1>2. CASE ~TakeCommand
  <2>1. UNCHANGED <<taken, keyed>>
    BY <1>2, CommandStays
  <2>2. (at # "idle" => taken # 0 /\ getAPIKey(cmd.key) = keyed[taken])'
    BY <1>2, <2>1, CommandStays DEF KeysGoAlong, getAPIKey
  <2>3. at = "sent" => Request.by \in 1 .. taken /\ Request.key = keyed[Request.by]
    BY DEF KeysGoAlong, Request
  <2>4. \A r \in late' : r.by \in 1 .. taken /\ r.key = keyed[r.by]
    BY <2>3, LateRequests DEF KeysGoAlong
  <2> QED
    BY <2>1, <2>2, <2>4 DEF KeysGoAlong
<1> QED
  BY <1>1, <1>2

----------------------------------------------------------------------------
\* In every reachable state each command has created at most one instance and what
\* RunPod answered last still holds (handler.go:49-240; runpod/client.go:112-222,
\* 411-560).
THEOREM CommandInvariant == Spec => []CommandInv
<1>1. CommandInv /\ [Next]_vars => CommandInv'
  BY TypeStep, CreatedStep, ReplyStep, EndedStep, OneStep, StatusStep, RefusedStep,
     KeysStep DEF CommandInv
<1> QED
  BY InitCommand, <1>1, PTL DEF Spec

\* A deploy command never leaves two instances behind, and its answer names the one it
\* made (runpod/client.go:113-150).
THEOREM DeploysOnce == Spec => []OneInstancePerDeploy
<1>1. CommandInv => OneInstancePerDeploy
  BY DEF CommandInv
<1> QED
  BY CommandInvariant, <1>1, PTL

\* Terminated, once answered, is for good (runpod/client.go:505-532).
THEOREM TerminatedForGood == Spec => []TerminatedStaysGone
<1>1. CommandInv => TerminatedStaysGone
  BY DEF CommandInv, EndedForGood, TerminatedStaysGone
<1> QED
  BY CommandInvariant, <1>1, PTL

\* A status answer never invents the end of an instance (runpod/client.go:174-221).
THEOREM StatusWasTrue == Spec => []StatusAnswerWasTrue
<1>1. CommandInv => StatusAnswerWasTrue
  BY DEF CommandInv
<1> QED
  BY CommandInvariant, <1>1, PTL

\* A refused command has asked RunPod for nothing (handler.go:230-240).
THEOREM RefusalsAreClean == Spec => []RefusedLeavesNothing
<1>1. CommandInv => RefusedLeavesNothing
  BY DEF CommandInv
<1> QED
  BY CommandInvariant, <1>1, PTL

\* A request works in the account of the key its command had when it was taken, though
\* it be served late or after a restart with another key (runpod/client.go:433-442,
\* 505-514, 581-595).
THEOREM AccountsNeverMix == Spec => AccountsAreKept
<1> DEFINE Kept == \A i \in Ids : desired'[i] # desired[i] /\ moves' = moves =>
                     \E n \in 1 .. taken :
                        /\ (n = taken /\ at' # at) \/ (\E r \in late \ late' : r.by = n)
                        /\ account'[i] = keyed[n]
<1>1. CommandInv /\ [Next]_vars => [Kept]_vars
  <2> SUFFICES ASSUME CommandInv, Next PROVE Kept
    OBVIOUS
  <2> USE CommandBounds DEF CommandInv
  <2>1. ASSUME NEW r \in RequestRecord, Effect(r), NEW i \in Ids, desired'[i] # desired[i]
        PROVE  account'[i] = r.key
    BY <2>1, EffectShape DEF TypeOK, TypeRunPod, Ids
  <2>2. CASE ServesRequest
    <3>1. Request \in RequestRecord /\ Effect(Request) /\ at' # at
      BY <2>2, RequestTyped DEF ServesRequest
    <3>2. taken \in 1 .. taken /\ Request.key = keyed[taken]
      BY <2>2 DEF ServesRequest, KeysGoAlong, Request, TypeOK, TypeCommand
    <3> QED
      BY <2>1, <3>1, <3>2
  <2>3. CASE ServesLateRequest
    <3>1. PICK r \in late : Effect(r) /\ late' = late \ {r}
      BY <2>3 DEF ServesLateRequest
    <3>2. r \in RequestRecord /\ r \in late \ late'
      BY <3>1 DEF TypeOK, TypeRunPod
    <3>3. r.by \in 1 .. taken /\ r.key = keyed[r.by]
      BY DEF KeysGoAlong
    <3> QED
      BY <2>1, <3>1, <3>2, <3>3
  <2>4. CASE \E i \in Ids : InstanceMoves(i)
    BY <2>4 DEF InstanceMoves, TypeOK, TypeCommand
  <2>5. CASE ~ServesRequest /\ ~ServesLateRequest /\ ~\E i \in Ids : InstanceMoves(i)
    <3>1. CASE Handle
      BY <3>1, HandleShape DEF SendsRequest, Answers, runpodVars
    <3>2. CASE ReadReply
      BY <3>2 DEF ReadReply, RequestFails, Deployed, Terminated, InstanceNotFound,
                  StatusReported, ProviderFails, Answers, runpodVars
    <3>3. CASE RefusesRequest \/ TakeCommand \/ TimesOut \/ ReplyUnreadable \/ Responds
               \/ Restart
      BY <3>3 DEF RefusesRequest, TakeCommand, TimesOut, ReplyUnreadable, Responds, Restart,
                  runpodVars
    <3> QED
      BY <2>5, <3>1, <3>2, <3>3 DEF Next
  <2> QED
    BY <2>2, <2>3, <2>4, <2>5
<1> QED
  BY CommandInvariant, <1>1, PTL DEF Spec, AccountsAreKept
====
