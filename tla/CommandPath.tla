---- MODULE CommandPath ----
(* One command of the platform on its way through the kubelet: the handler,      *)
(* pkg/command/handler.go, the provider manager and the RunPod client,           *)
(* pkg/providers, and the RunPod API behind it, which the instances live in. The *)
(* instances change by themselves meanwhile, a request may be served after its   *)
(* timeout, and commands of several accounts follow each other. PodProvider      *)
(* leaves all this out: there a command is done or fails at a stroke.            *)
EXTENDS Integers

CONSTANTS
    Accounts,       \* RunPod accounts; an API key stands for its account
    NoKey,
    MaxInstances,   \* bound: instances RunPod creates
    MaxCommands,    \* bound: commands the platform sends
    MaxMoves,       \* bound: changes of an instance that no command asked for
    MaxRestarts     \* bound: restarts of the kubelet

ASSUME KeyAssumption == NoKey \notin Accounts

ASSUME CommandBounds ==
    /\ MaxInstances \in Nat /\ MaxCommands \in Nat
    /\ MaxMoves \in Nat /\ MaxRestarts \in Nat

VARIABLES
    made,       \* instances RunPod has created so far
    account,    \* instance -> account it was created in
    desired,    \* instance -> desiredStatus of RunPod, or "gone"
    runtime,    \* instance -> what its container reports
    apiKey,     \* the kubelet's own key, RUNPOD_API_KEY at its start
    late,       \* requests the client gave up on and RunPod may still serve
    taken,      \* commands taken; the number of the one in hand
    at, cmd,    \* where the command in hand is, and what it says
    reply,      \* what the RunPod API answered
    answer,     \* the response to the platform
    moves, restarts,
    madeBy,     \* history: instance -> the command whose request created it
    requests,   \* history: requests the command in hand has sent
    past,       \* history: what its instance was like while it was in hand
    ended,      \* history: instances answered as terminated, with the key used
    keyed       \* history: command -> its key, or the kubelet's own when it was taken

runpodVars == <<made, account, desired, runtime, madeBy>>
handVars == <<apiKey, taken, cmd, keyed>>
boundVars == <<moves, restarts>>
vars == <<runpodVars, handVars, late, at, reply, answer, boundVars, requests, past, ended>>

Ids == 1 .. MaxInstances
Keys == Accounts \cup {NoKey}

\* What RunPod may send as desiredStatus: what PhaseForStatus knows, PENDING and
\* STARTING as one, and one for all the rest, the empty status included.
RawStatuses == {"STARTING", "RUNNING", "TERMINATING", "TERMINATED", "EXITED", "FAILED",
                "other"}

\* No runtime; exit code 0, or a completion status that says success; neither.
Runtimes == {"none", "success", "failure"}

\* What the platform may send: the command, what can be read of it, the provider and
\* the instance it names and the API key it carries, an empty id or key included.
SentRecord == [kind : {"deploy", "terminate", "status", "reject", "ping", "unknown"},
               form : {"good", "no payload", "no data"}, provider : {"runpod", "vastai"},
               id : {0} \cup Ids, key : Keys]

NoCommand == [kind |-> "none", form |-> "good", provider |-> "none", id |-> 0,
              key |-> NoKey]
NoReply == [http |-> "none", id |-> 0, status |-> "none", runtime |-> "none"]
NoAnswer == [ok |-> FALSE, code |-> "none", provider |-> FALSE, id |-> 0, status |-> "none",
             phase |-> "none", isRunning |-> FALSE, isTerminated |-> FALSE]

Init ==
    /\ made = 0 /\ account = [i \in Ids |-> NoKey] /\ desired = [i \in Ids |-> "gone"]
    /\ runtime = [i \in Ids |-> "none"] /\ madeBy = [i \in Ids |-> 0]
    /\ apiKey \in Keys /\ late = {} /\ taken = 0 /\ at = "idle"
    /\ cmd = NoCommand /\ reply = NoReply /\ answer = NoAnswer
    /\ moves = 0 /\ restarts = 0 /\ requests = 0 /\ past = {} /\ ended = {}
    /\ keyed = [n \in 1 .. MaxCommands |-> NoKey]

----------------------------------------------------------------------------
(* Statuses                                                                   *)

\* successful decides a terminal status only. GetStandardStatus is applied first; it
\* gives every RunPod status its own name.
PhaseForStatus(status, successful) ==
    CASE status = "STARTING" -> "Pending"
      [] status \in {"RUNNING", "TERMINATING"} -> "Running"
      [] status \in {"TERMINATED", "EXITED"} -> IF successful THEN "Succeeded" ELSE "Failed"
      [] status = "FAILED" -> "Failed"
      [] OTHER -> "Unknown"

isSuccessfulCompletion(run) == run = "success"

\* Mutant: the local key comes first.
getAPIKeyLocalFirst(key) == IF apiKey # NoKey THEN apiKey ELSE key

\* The key of the command, else the kubelet's own.
getAPIKey(key) == IF key # NoKey THEN key ELSE apiKey

----------------------------------------------------------------------------
(* RunPod                                                                     *)

\* What an account's key shows of an instance.
Seen(i, key) ==
    IF i \in Ids /\ account[i] = key /\ desired[i] # "gone"
      THEN [status |-> desired[i], runtime |-> runtime[i]]
      ELSE [status |-> "gone", runtime |-> "none"]

\* History: what became of the instance the command in hand is about.
Watches == past' = IF at = "idle" THEN {} ELSE past \cup {Seen(cmd.id, getAPIKey(cmd.key))'}

InstanceMoves(i) ==
    /\ moves < MaxMoves /\ moves' = moves + 1
    /\ desired[i] # "gone"
    /\ \E s \in RawStatuses \cup {"gone"}, r \in Runtimes :
         /\ desired' = [desired EXCEPT ![i] = s]
         /\ runtime' = [runtime EXCEPT ![i] = r]
    /\ UNCHANGED <<made, account, madeBy, handVars, late, at, reply, answer, restarts,
                   requests, ended>>
    /\ Watches

Request == [kind |-> cmd.kind, id |-> cmd.id, key |-> getAPIKey(cmd.key), by |-> taken]

Creates(r, s) ==
    /\ made < MaxInstances /\ made' = made + 1
    /\ account' = [account EXCEPT ![made + 1] = r.key]
    /\ desired' = [desired EXCEPT ![made + 1] = s]
    /\ madeBy' = [madeBy EXCEPT ![made + 1] = r.by]
    /\ UNCHANGED runtime

\* What the API does with a request, before anybody hears of it.
Effect(r) ==
    \/ r.kind = "deploy" /\ \E s \in {"STARTING", "RUNNING", "other"} : Creates(r, s)
    \/ /\ r.kind = "terminate"
       /\ desired' = [i \in Ids |->
                       IF i = r.id /\ account[i] = r.key THEN "gone" ELSE desired[i]]
       /\ UNCHANGED <<made, account, runtime, madeBy>>
    \/ r.kind = "status" /\ UNCHANGED runpodVars

\* The answer that goes with it: 404 for an instance the key does not show.
ReplyTo(r) ==
    LET s == Seen(r.id, r.key) IN
    IF r.kind = "deploy" THEN [NoReply EXCEPT !.http = "ok", !.id = made + 1]
    ELSE IF s.status = "gone" THEN [NoReply EXCEPT !.http = "404"]
    ELSE [http |-> "ok", id |-> r.id, status |-> s.status, runtime |-> s.runtime]

ServesRequest ==
    /\ at = "sent"
    /\ Effect(Request)
    /\ reply' = ReplyTo(Request)
    /\ at' = "replied"
    /\ UNCHANGED <<handVars, late, answer, boundVars, requests, ended>>
    /\ Watches

\* Any other status code, the request without effect.
RefusesRequest ==
    /\ at = "sent"
    /\ reply' = [NoReply EXCEPT !.http = "error"]
    /\ at' = "replied"
    /\ UNCHANGED <<runpodVars, handVars, late, answer, boundVars, requests, past, ended>>

\* A request the client no longer waits for is served, or never.
ServesLateRequest ==
    /\ \E r \in late : Effect(r) /\ late' = late \ {r}
    /\ UNCHANGED <<handVars, at, reply, answer, boundVars, requests, ended>>
    /\ Watches

----------------------------------------------------------------------------
(* The handler up to the provider                                             *)

\* Whatever the platform may put into an envelope. What nobody will read of it is
\* left blank.
TakeCommand ==
    /\ at = "idle" /\ taken < MaxCommands
    /\ \E c \in SentRecord :
         /\ c.id <= made
         /\ c.kind = "deploy" \/ c.provider # "runpod" => c.id = 0
         /\ c.kind \in {"reject", "ping", "unknown"} \/ c.form # "good" =>
              c.provider = "runpod" /\ c.id = 0 /\ c.key = NoKey
         /\ cmd' = c
         /\ past' = {Seen(c.id, getAPIKey(c.key))}
         /\ keyed' = [keyed EXCEPT ![taken + 1] = IF c.key # NoKey THEN c.key ELSE apiKey]
    /\ taken' = taken + 1
    /\ at' = "handle"
    /\ UNCHANGED <<runpodVars, apiKey, late, reply, answer, boundVars, requests, ended>>

Answers(a) ==
    /\ at' = "respond"
    /\ answer' = a /\ reply' = NoReply
    /\ UNCHANGED <<runpodVars, handVars, late, boundVars, requests, past, ended>>

Plain(code) == Answers([NoAnswer EXCEPT !.code = code])

\* Mutant: a provider's error is reported like any other.
ProviderFailsPlain(code) == Answers([NoAnswer EXCEPT !.code = code])

\* errorResponse of a ProviderError: its code goes before the handler's, and its
\* message is passed on.
ProviderFails(code) == Answers([NoAnswer EXCEPT !.code = code, !.provider = TRUE])

\* The code of the handler when there is no better one.
HandlerCode ==
    CASE cmd.kind = "deploy" -> "deployment_failed"
      [] cmd.kind = "terminate" -> "termination_failed"
      [] OTHER -> "status_failed"

Dispatches(kinds) == at = "handle" /\ cmd.form # "no payload" /\ cmd.kind \in kinds

CallsProvider == Dispatches({"deploy", "terminate", "status"}) /\ cmd.form = "good"

CommandUnreadable == at = "handle" /\ cmd.form = "no payload" /\ Plain("invalid_command")

CommandUnknown == Dispatches({"unknown"}) /\ Plain("unknown_command")

handlePing == Dispatches({"ping"}) /\ Answers([NoAnswer EXCEPT !.ok = TRUE])

ParamsUnreadable ==
    /\ Dispatches({"deploy", "terminate", "status", "reject"})
    /\ cmd.form = "no data"
    /\ Plain("invalid_params")

\* The callback is PodProvider's RejectBooks; it fails for a pod that is not there.
handleReject ==
    /\ Dispatches({"reject"}) /\ cmd.form = "good"
    /\ Plain("reject_failed") \/ Answers([NoAnswer EXCEPT !.ok = TRUE])

\* Only runpod is ever registered.
ProviderNotFound == CallsProvider /\ cmd.provider # "runpod" /\ Plain(HandlerCode)

KeyMissing ==
    /\ CallsProvider /\ cmd.provider = "runpod"
    /\ getAPIKey(cmd.key) = NoKey
    /\ ProviderFails("missing_api_key")

\* Only Terminate looks at the id.
PodIDInvalid ==
    /\ CallsProvider /\ cmd.provider = "runpod"
    /\ getAPIKey(cmd.key) # NoKey
    /\ cmd.kind = "terminate" /\ cmd.id = 0
    /\ ProviderFails("termination_failed")

SendsRequest ==
    /\ CallsProvider /\ cmd.provider = "runpod"
    /\ getAPIKey(cmd.key) # NoKey
    /\ cmd.kind = "terminate" => cmd.id # 0
    /\ at' = "sent" /\ requests' = requests + 1
    /\ UNCHANGED <<runpodVars, handVars, late, reply, answer, boundVars, past, ended>>

----------------------------------------------------------------------------
(* The RunPod client                                                          *)

\* Mutant: a create request has no time limit.
TimesOutNotCreating ==
    /\ at = "sent" /\ cmd.kind # "deploy"
    /\ at' = "replied" /\ reply' = [NoReply EXCEPT !.http = "lost"]
    /\ late' = late \cup {Request}
    /\ UNCHANGED <<runpodVars, handVars, answer, boundVars, requests, past, ended>>

\* No answer within the timeout, or no connection.
TimesOut ==
    /\ at = "sent"
    /\ at' = "replied" /\ reply' = [NoReply EXCEPT !.http = "lost"]
    /\ late' = late \cup {Request}
    /\ UNCHANGED <<runpodVars, handVars, answer, boundVars, requests, past, ended>>

\* The body cannot be read or parsed, or a created pod has no id in it.
ReplyUnreadable ==
    /\ at = "replied" /\ reply.http = "ok"
    /\ reply' = [NoReply EXCEPT !.http = "lost"]
    /\ UNCHANGED <<runpodVars, handVars, late, at, answer, boundVars, requests, past, ended>>

\* Mutant: a create request that got no answer is sent once more.
RequestFailsRetrying ==
    /\ at = "replied"
    /\ IF cmd.kind = "deploy" /\ reply.http = "lost" /\ requests = 1
         THEN /\ at' = "sent" /\ requests' = 2
              /\ UNCHANGED <<runpodVars, handVars, late, reply, answer, boundVars, past, ended>>
         ELSE reply.http \in {"error", "lost"} /\ ProviderFails(HandlerCode)

\* It is not sent again. Status errors have a code of their own.
RequestFails ==
    /\ at = "replied" /\ reply.http \in {"error", "lost"}
    /\ ProviderFails(IF cmd.kind = "status" THEN "status_check_failed" ELSE HandlerCode)

Deployed ==
    /\ at = "replied" /\ cmd.kind = "deploy" /\ reply.http = "ok"
    /\ Answers([NoAnswer EXCEPT !.ok = TRUE, !.id = reply.id])

\* Mutant: whatever RunPod answers, the instance is terminated.
TerminatedAnyway ==
    /\ at = "replied" /\ cmd.kind = "terminate"
    /\ Answers([NoAnswer EXCEPT !.ok = TRUE, !.id = cmd.id])

\* Already gone counts as terminated.
Terminated ==
    /\ at = "replied" /\ cmd.kind = "terminate" /\ reply.http \in {"ok", "404"}
    /\ Answers([NoAnswer EXCEPT !.ok = TRUE, !.id = cmd.id])

\* Mutant: any error counts as not found.
InstanceNotFoundAnyhow ==
    /\ at = "replied" /\ cmd.kind = "status" /\ reply.http \in {"404", "error"}
    /\ Answers([NoAnswer EXCEPT !.ok = TRUE, !.id = cmd.id, !.status = "NOT_FOUND",
                                !.phase = "Failed", !.isTerminated = TRUE])

InstanceNotFound ==
    /\ at = "replied" /\ cmd.kind = "status" /\ reply.http = "404"
    /\ Answers([NoAnswer EXCEPT !.ok = TRUE, !.id = cmd.id, !.status = "NOT_FOUND",
                                !.phase = "Failed", !.isTerminated = TRUE])

\* The flags come from RunPod's own status, the phase from the mapped one.
StatusReported ==
    /\ at = "replied" /\ cmd.kind = "status" /\ reply.http = "ok"
    /\ Answers([NoAnswer EXCEPT
          !.ok = TRUE, !.id = cmd.id, !.status = reply.status,
          !.phase = PhaseForStatus(reply.status, isSuccessfulCompletion(reply.runtime)),
          !.isRunning = reply.status = "RUNNING",
          !.isTerminated = reply.status \in {"TERMINATED", "EXITED"}])

\* The command is done with.
Forgets ==
    /\ at' = "idle" /\ cmd' = NoCommand /\ reply' = NoReply /\ answer' = NoAnswer
    /\ requests' = 0 /\ past' = {}

Responds ==
    /\ at = "respond"
    /\ Forgets
    /\ ended' = IF answer.ok /\ cmd.kind = "terminate"
                  THEN ended \cup {<<cmd.id, getAPIKey(cmd.key)>>} ELSE ended
    /\ UNCHANGED <<runpodVars, apiKey, late, taken, keyed, boundVars>>

----------------------------------------------------------------------------
\* The process ends and starts again, with another key perhaps. The command in hand
\* is lost, though its request may be served yet.
Restart ==
    /\ restarts < MaxRestarts /\ restarts' = restarts + 1
    /\ apiKey' \in Keys
    /\ late' = IF at = "sent" THEN late \cup {Request} ELSE late
    /\ Forgets
    /\ UNCHANGED <<runpodVars, taken, keyed, moves, ended>>

----------------------------------------------------------------------------
Handle ==
    \/ CommandUnreadable \/ CommandUnknown \/ handlePing \/ ParamsUnreadable \/ handleReject
    \/ ProviderNotFound \/ KeyMissing \/ PodIDInvalid \/ SendsRequest

ReadReply ==
    \/ RequestFails \/ Deployed \/ Terminated \/ InstanceNotFound \/ StatusReported

Next ==
    \/ \E i \in Ids : InstanceMoves(i)
    \/ ServesRequest \/ RefusesRequest \/ ServesLateRequest
    \/ TakeCommand
    \/ Handle
    \/ TimesOut \/ ReplyUnreadable \/ ReadReply
    \/ Responds
    \/ Restart

Spec == Init /\ [][Next]_vars

\* The goroutine goes on, and every request has a timeout. RunPod, the platform and
\* the instances owe nothing.
Fairness == WF_vars(Handle) /\ WF_vars(TimesOut) /\ WF_vars(ReadReply) /\ WF_vars(Responds)

FairSpec == Spec /\ Fairness

----------------------------------------------------------------------------
CommandRecord == SentRecord \cup {NoCommand}
RequestRecord == [kind : {"deploy", "terminate", "status"}, id : Nat, key : Keys, by : Nat]
ReplyRecord == [http : {"none", "ok", "404", "error", "lost"}, id : Nat,
                status : RawStatuses \cup {"none"}, runtime : Runtimes]
Codes == {"none", "invalid_command", "invalid_params", "unknown_command", "reject_failed",
          "missing_api_key", "deployment_failed", "termination_failed", "status_failed",
          "status_check_failed"}
AnswerRecord == [ok : BOOLEAN, code : Codes, provider : BOOLEAN, id : Nat,
                 status : RawStatuses \cup {"none", "NOT_FOUND"},
                 phase : {"none", "Pending", "Running", "Succeeded", "Failed", "Unknown"},
                 isRunning : BOOLEAN, isTerminated : BOOLEAN]

TypeRunPod ==
    /\ made \in 0 .. MaxInstances /\ account \in [Ids -> Keys]
    /\ desired \in [Ids -> RawStatuses \cup {"gone"}] /\ runtime \in [Ids -> Runtimes]
    /\ madeBy \in [Ids -> Nat] /\ late \subseteq RequestRecord

TypeCommand ==
    /\ apiKey \in Keys /\ keyed \in [1 .. MaxCommands -> Keys]
    /\ taken \in Nat /\ moves \in Nat /\ restarts \in Nat /\ requests \in Nat
    /\ at \in {"idle", "handle", "sent", "replied", "respond"}
    /\ cmd \in CommandRecord /\ reply \in ReplyRecord /\ answer \in AnswerRecord

\* Values stay within their sorts.
TypeOK == TypeRunPod /\ TypeCommand

\* A deploy command brings forth at most one instance, in the account of its key,
\* however its request fares, and a successful answer names that instance
\* (runpod/client.go:113-150, 433-464; handler.go:84-120).
OneInstancePerDeploy ==
    /\ \A i, j \in 1 .. made : madeBy[i] = madeBy[j] => i = j
    /\ at = "respond" /\ answer.ok /\ cmd.kind = "deploy" =>
         /\ answer.id \in 1 .. made /\ madeBy[answer.id] = taken
         /\ account[answer.id] = IF cmd.key # NoKey THEN cmd.key ELSE apiKey

\* An instance answered as terminated is gone from the account of the key, and no
\* request still under way brings it back (runpod/client.go:505-532).
TerminatedStaysGone ==
    \A e \in ended : e[1] \in Ids /\ account[e[1]] = e[2] => desired[e[1]] = "gone"

\* A status answer describes the instance as it was at one moment while the command
\* was in hand, its parts agree with each other, and an error of the API is never
\* taken for the end of an instance (runpod/client.go:174-221, 470-499, 562-579;
\* interface.go:92-141).
StatusAnswerWasTrue ==
    at = "respond" /\ answer.ok /\ cmd.kind = "status" =>
        \E p \in past :
            /\ answer.isRunning <=> p.status = "RUNNING"
            /\ answer.isTerminated <=> p.status \in {"TERMINATED", "EXITED", "gone"}
            /\ answer.phase = "Succeeded" =>
                 answer.isTerminated /\ p.runtime = "success"
            /\ answer.phase = "Failed" => answer.isTerminated \/ p.status = "FAILED"
            /\ answer.phase = "Running" => answer.isRunning \/ p.status = "TERMINATING"
            /\ answer.phase = "Unknown" => ~answer.isRunning /\ ~answer.isTerminated

\* A command that is refused for what it says, or for want of a key, leaves nothing
\* behind: an answer without a provider's error, or with missing_api_key, means that
\* RunPod was not asked (handler.go:230-240; runpod/client.go:116-120).
RefusedLeavesNothing ==
    at = "respond" /\ ~answer.ok /\ (~answer.provider \/ answer.code = "missing_api_key") =>
        /\ requests = 0
        /\ \A i \in 1 .. made : madeBy[i] # taken
        /\ \A r \in late : r.by # taken

\* Whatever a request does, and whenever RunPod comes to serve it, after its timeout and
\* after a restart with another key too, it does in the account of the key its command
\* carried or, if it carried none, of the key the kubelet had of its own when it took the
\* command. A restart with another key moves the commands without a key that come after
\* it into another account, and no others (runpod/client.go:433-442, 505-514, 581-595).
AccountsAreKept ==
    [][\A i \in Ids : desired'[i] # desired[i] /\ moves' = moves =>
         \E n \in 1 .. taken :
            /\ (n = taken /\ at' # at) \/ (\E r \in late \ late' : r.by = n)
            /\ account'[i] = keyed[n]]_vars

\* A command is answered, whether RunPod answers or not, unless the kubelet is started
\* anew meanwhile (handler.go:49-81; runpod/client.go:548-557).
CommandsAreAnswered == at = "handle" ~> at \in {"respond", "idle"}

\* What makes them inductive. Ids are given out in turn, each command's request
\* creates once, and only a request that is still under way may create yet.
CreatedOnce ==
    /\ \A i \in Ids : i <= made => madeBy[i] <= taken
    /\ \A i, j \in 1 .. made : madeBy[i] = madeBy[j] => i = j
    /\ \A i \in Ids : i > made => desired[i] = "gone"
    /\ \A r \in late :
         /\ r.by <= taken
         /\ r.kind = "deploy" => \A i \in 1 .. made : madeBy[i] # r.by
    /\ \A r, q \in late : r.by = q.by => r = q

InHand ==
    /\ cmd.id <= made
    /\ at \in {"idle", "handle"} => requests = 0
    /\ at \in {"handle", "sent"} =>
         /\ \A i \in 1 .. made : madeBy[i] # taken
         /\ \A r \in late : r.by # taken
    /\ at \in {"sent", "replied"} => cmd.kind \in {"deploy", "terminate", "status"}
    /\ at = "replied" /\ reply.http # "lost" => \A r \in late : r.by # taken
    /\ at = "respond" /\ answer.ok /\ cmd.kind = "deploy" => \A r \in late : r.by # taken

\* What an answer of RunPod says is so, until the kubelet has passed it on.
ReplyTrue ==
    at = "replied" =>
        /\ cmd.kind = "deploy" /\ reply.http = "ok" =>
             /\ reply.id \in 1 .. made /\ madeBy[reply.id] = taken
             /\ account[reply.id] = getAPIKey(cmd.key)
        /\ cmd.kind = "terminate" /\ reply.http \in {"ok", "404"} =>
             Seen(cmd.id, getAPIKey(cmd.key)).status = "gone"
        /\ cmd.kind = "status" /\ reply.http = "ok" =>
             reply.status \in RawStatuses
             /\ [status |-> reply.status, runtime |-> reply.runtime] \in past
        /\ cmd.kind = "status" /\ reply.http = "404" =>
             [status |-> "gone", runtime |-> "none"] \in past

EndedForGood ==
    /\ at = "respond" /\ answer.ok /\ cmd.kind = "terminate" =>
         Seen(cmd.id, getAPIKey(cmd.key)).status = "gone"
    /\ \A e \in ended :
         /\ e[1] \in 0 .. made
         /\ e[1] \in Ids /\ account[e[1]] = e[2] => desired[e[1]] = "gone"

\* A request carries the key of its command wherever it is.
KeysGoAlong ==
    /\ taken <= MaxCommands
    /\ at # "idle" => taken # 0 /\ getAPIKey(cmd.key) = keyed[taken]
    /\ \A r \in late : r.by \in 1 .. taken /\ r.key = keyed[r.by]

\* The inductive invariant.
CommandInv ==
    /\ TypeOK /\ CreatedOnce /\ InHand /\ ReplyTrue /\ EndedForGood /\ KeysGoAlong
    /\ OneInstancePerDeploy /\ StatusAnswerWasTrue /\ RefusedLeavesNothing
====
