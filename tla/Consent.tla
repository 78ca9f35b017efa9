-------------------------------- MODULE Consent --------------------------------
(***************************************************************************)
(* The consent registry (internal/wallet/wallet_events.go), the flows that *)
(* wait for a decision (awaitConsent and its callers) and the calls that   *)
(* answer (handleApproveRequest, handleDenyRequest).  A flow creates a     *)
(* request and waits on its result channel or a timer.  Any number of open *)
(* tabs can answer it, each call in several steps.  Creating a request     *)
(* prunes old ones.                                                        *)
(***************************************************************************)
EXTENDS Naturals, FiniteSets

CONSTANTS
    Request,            \* consent requests, one per flow
    Call,               \* approve and deny calls
    Owns,               \* which call comes from an owner of which request
    ConsentTimeout,     \* how long a flow waits
    ResolvedRetention,  \* how long a resolved request stays in the registry
    MaxAge              \* how long any request stays in the registry

ASSUME TimeAssumption ==
    /\ ConsentTimeout \in Nat /\ ResolvedRetention \in Nat /\ MaxAge \in Nat
    /\ ConsentTimeout <= MaxAge
ASSUME OwnsAssumption == Owns \subseteq Call \X Request
ASSUME RequestAssumption == Request # {}

VARIABLES
    registry,      \* the requests rt.requests holds
    status,        \* [Request -> status], "none" before the request exists
    age,           \* [Request -> time since it was age, up to MaxAge + 1]
    resultCh,      \* [Request -> the decision in the channel, or "empty"]
    submissionCh,  \* [Request -> the outcome in the channel, or "empty"]
    flow,          \* [Request -> where its flow is]
    decision,      \* [Request -> what the flow goes on with]
    pc,            \* [Call -> where the call is]
    about,         \* [Call -> the request it names]
    verdict,       \* [Call -> "approved" or "denied"]
    reply          \* [Call -> what its caller is told]

flowVars == <<age, submissionCh, flow, decision>>
callVars == <<pc, about, verdict, reply>>
vars == <<registry, status, age, resultCh, submissionCh, flow, decision,
          pc, about, verdict, reply>>

Verdict == {"approved", "denied"}
Decided == Verdict \cup {"expired"}

--------------------------------------------------------------------------------
(* CreateConsentRequest drops what is too old and adds the new request.    *)
Prunable(r) ==
    \/ age[r] > MaxAge
    \/ status[r] # "pending" /\ age[r] > ResolvedRetention

CreateConsentRequest(r) ==
    /\ flow[r] = "idle"
    /\ registry' = {q \in registry : ~Prunable(q)} \cup {r}
    /\ status' = [status EXCEPT ![r] = "pending"]
    /\ age' = [age EXCEPT ![r] = 0]
    /\ flow' = [flow EXCEPT ![r] = "waiting"]
    /\ UNCHANGED <<resultCh, submissionCh, decision, callVars>>

(* ResolveRequest succeeds once, for a request the registry still holds.   *)
ResolvableAgain(r) == r \in registry  \* faulty: whatever its status
Resolvable(r) == r \in registry /\ status[r] = "pending"

(* awaitConsent: the decision arrives, before the timer or after it.       *)
TakeResult(r) ==
    /\ flow[r] \in {"waiting", "late"}
    /\ resultCh[r] # "empty"
    /\ decision' = [decision EXCEPT ![r] = resultCh[r]]
    /\ resultCh' = [resultCh EXCEPT ![r] = "empty"]
    /\ flow' = [flow EXCEPT ![r] = "submitting"]
    /\ UNCHANGED <<registry, status, age, submissionCh, callVars>>

(* The timer fires.  A pending request expires.  Otherwise somebody has    *)
(* just answered, and the flow waits for the decision without a timer.     *)
TimerFires(r) ==
    /\ flow[r] = "waiting"
    /\ age[r] >= ConsentTimeout
    /\ \/ /\ Resolvable(r)
          /\ status' = [status EXCEPT ![r] = "expired"]
          /\ decision' = [decision EXCEPT ![r] = "expired"]
          /\ flow' = [flow EXCEPT ![r] = "submitting"]
       \/ /\ ~Resolvable(r)
          /\ flow' = [flow EXCEPT ![r] = "late"]
          /\ UNCHANGED <<status, decision>>
    /\ UNCHANGED <<registry, age, resultCh, submissionCh, callVars>>

(* The flow acts on the decision (a presentation, an error response, an    *)
(* issuance, nothing) and reports the outcome on a channel of one slot.    *)
Submit(r) ==
    /\ flow[r] = "submitting"
    /\ submissionCh[r] = "empty"
    /\ submissionCh' = [submissionCh EXCEPT ![r] = decision[r]]
    /\ flow' = [flow EXCEPT ![r] = "ended"]
    /\ UNCHANGED <<registry, status, age, resultCh, decision, callVars>>

--------------------------------------------------------------------------------
(* A call answers its caller and ends.                                     *)
Finish(c, told) ==
    /\ pc' = [pc EXCEPT ![c] = "done"]
    /\ reply' = [reply EXCEPT ![c] = told]

(* An approve or deny call looks the request up.  A request of somebody    *)
(* else is not found, and an approval with an invalid selection is refused *)
(* before the request is resolved.                                         *)
CallCheck(c, r, v) ==
    /\ pc[c] = "idle"
    /\ about' = [about EXCEPT ![c] = r]
    /\ verdict' = [verdict EXCEPT ![c] = v]
    /\ \/ r \in registry /\ <<c, r>> \notin Owns /\ Finish(c, "not found")
       \/ r \in registry /\ <<c, r>> \in Owns /\ v = "approved" /\ Finish(c, "invalid")
       \/ /\ r \in registry => <<c, r>> \in Owns
          /\ pc' = [pc EXCEPT ![c] = "checked"]
          /\ UNCHANGED reply
    /\ UNCHANGED <<registry, status, resultCh, flowVars>>

CallResolve(c) ==
    LET r == about[c] IN
    /\ pc[c] = "checked"
    /\ \/ /\ Resolvable(r)
          /\ status' = [status EXCEPT ![r] = verdict[c]]
          /\ pc' = [pc EXCEPT ![c] = "resolved"]
          /\ UNCHANGED reply
       \/ r \notin registry /\ Finish(c, "not found") /\ UNCHANGED status
       \/ /\ r \in registry /\ status[r] # "pending"
          /\ Finish(c, IF status[r] = "expired" THEN "timed out" ELSE "already answered")
          /\ UNCHANGED status
    /\ UNCHANGED <<registry, resultCh, about, verdict, flowVars>>

CallSend(c) ==
    /\ pc[c] = "resolved"
    /\ resultCh[about[c]] = "empty"
    /\ resultCh' = [resultCh EXCEPT ![about[c]] = verdict[c]]
    /\ pc' = [pc EXCEPT ![c] = "sent"]
    /\ UNCHANGED <<registry, status, about, verdict, reply, flowVars>>

(* The caller gets the flow's outcome, or gives up waiting for it.         *)
CallSubmission(c) ==
    /\ pc[c] = "sent"
    /\ submissionCh[about[c]] # "empty"
    /\ Finish(c, submissionCh[about[c]])
    /\ submissionCh' = [submissionCh EXCEPT ![about[c]] = "empty"]
    /\ UNCHANGED <<registry, status, age, resultCh, flow, decision, about, verdict>>

CallGiveUp(c) ==
    /\ pc[c] = "sent"
    /\ Finish(c, "submission timeout")
    /\ UNCHANGED <<registry, status, resultCh, about, verdict, flowVars>>

--------------------------------------------------------------------------------
(* Time passes.  A timer that is due fires before the clock moves on.      *)
Tick ==
    /\ \A r \in Request : flow[r] = "waiting" => age[r] < ConsentTimeout
    /\ age' = [r \in Request |-> IF flow[r] = "idle" \/ age[r] > MaxAge THEN age[r]
                                ELSE age[r] + 1]
    /\ UNCHANGED <<registry, status, resultCh, submissionCh, flow, decision, callVars>>

Init ==
    /\ registry = {}
    /\ status = [r \in Request |-> "none"]
    /\ age = [r \in Request |-> 0]
    /\ resultCh = [r \in Request |-> "empty"]
    /\ submissionCh = [r \in Request |-> "empty"]
    /\ flow = [r \in Request |-> "idle"]
    /\ decision = [r \in Request |-> "none"]
    /\ pc = [c \in Call |-> "idle"]
    /\ about = [c \in Call |-> CHOOSE r \in Request : TRUE]
    /\ verdict = [c \in Call |-> "denied"]
    /\ reply = [c \in Call |-> "none"]

(* A call that has found its request goes on.                              *)
Answer(c) == CallResolve(c) \/ CallSend(c) \/ CallSubmission(c) \/ CallGiveUp(c)

Flow(r) == TakeResult(r) \/ TimerFires(r) \/ Submit(r)

Next ==
    \/ \E r \in Request : CreateConsentRequest(r) \/ Flow(r)
    \/ \E c \in Call, r \in Request, v \in Verdict : CallCheck(c, r, v)
    \/ \E c \in Call : Answer(c)
    \/ Tick

Spec == Init /\ [][Next]_vars

--------------------------------------------------------------------------------
(* Every variable has the shape its declaration names.                     *)
TypeOK ==
    /\ registry \subseteq Request
    /\ status \in [Request -> Decided \cup {"none", "pending"}]
    /\ age \in [Request -> 0..(MaxAge + 1)]
    /\ resultCh \in [Request -> Verdict \cup {"empty"}]
    /\ submissionCh \in [Request -> Decided \cup {"empty"}]
    /\ flow \in [Request -> {"idle", "waiting", "late", "submitting", "ended"}]
    /\ decision \in [Request -> Decided \cup {"none"}]
    /\ pc \in [Call -> {"idle", "checked", "resolved", "sent", "done"}]
    /\ about \in [Call -> Request]
    /\ verdict \in [Call -> Verdict]
    /\ reply \in [Call -> Decided \cup {"none", "not found", "invalid", "timed out",
                                        "already answered", "submission timeout"}]

(* A call whose answer was taken.                                          *)
Accepted(c) ==
    \/ pc[c] \in {"resolved", "sent"}
    \/ pc[c] = "done" /\ reply[c] \in Decided \cup {"submission timeout"}

(* A flow goes on with the decision the registry shows: approvals, denials *)
(* and the timeout of awaitConsent can race, and what the tabs are told is *)
(* what the verifier or issuer gets.                                       *)
DecisionIsTheStatus ==
    \A r \in Request : decision[r] # "none" => decision[r] = status[r]

(* One answer counts.  Of the calls that approve or deny a request at most *)
(* one is accepted, none if the request expired, and the outcome it        *)
(* reports to its caller is the outcome of its own verdict.                *)
OneAnswerCounts ==
    \A c \in Call : Accepted(c) =>
        /\ status[about[c]] = verdict[c]
        /\ \A d \in Call : Accepted(d) /\ about[d] = about[c] => d = c
        /\ reply[c] \in Decided => reply[c] = verdict[c] /\ decision[about[c]] = verdict[c]

(* "A decision that arrives together with the timeout wins": a flow that   *)
(* waits without a timer has a decision in its channel, or a call that has *)
(* resolved the request and is about to send it.  It never waits for a     *)
(* request that was pruned, or resolved by a call that then gave up.       *)
LateDecisionArrives ==
    \A r \in Request : flow[r] = "late" =>
        \/ resultCh[r] # "empty"
        \/ \E c \in Call : pc[c] = "resolved" /\ about[c] = r

(* Neither side blocks on a full channel: one slot is enough.              *)
ChannelsHaveRoom ==
    /\ \A c \in Call : pc[c] = "resolved" => resultCh[about[c]] = "empty"
    /\ \A r \in Request : flow[r] = "submitting" => submissionCh[r] = "empty"

(* The registry, the answering calls and the waiting flow agree about every*)
(* request (ResolveRequest, awaitConsent, handleApproveRequest).           *)
ConsentIsSound ==
    TypeOK /\ DecisionIsTheStatus /\ OneAnswerCounts /\ LateDecisionArrives /\ ChannelsHaveRoom

--------------------------------------------------------------------------------
(* Something goes on while a goroutine can or the clock can move.  Each of *)
(* them takes a bounded number of steps, so none is left behind.           *)
GoesOn == Tick \/ (\E r \in Request : Flow(r)) \/ (\E c \in Call : Answer(c))
Fairness == WF_vars(GoesOn)

FairSpec == Spec /\ Fairness

(* Every flow that asks for consent ends, also when nobody answers         *)
(* (awaitConsent's timer).                                                 *)
FlowsEnd ==
    (\E r \in Request : flow[r] \notin {"idle", "ended"})
        ~> (\A r \in Request : flow[r] \in {"idle", "ended"})
================================================================================
