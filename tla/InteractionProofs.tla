-------------------------- MODULE InteractionProofs --------------------------
(***************************************************************************)
(* The two parts of the server that wait for somebody. The consent         *)
(* registry, the answering calls and the waiting flows agree (Consent),    *)
(* for any number of requests and calls and any timeouts with              *)
(* ConsentTimeout <= MaxAge. The jobs of the offers, what the wallet holds *)
(* for them and the calls that wait for them agree (OfferFlows).           *)
(***************************************************************************)
EXTENDS Consent, OfferFlows, TLAPS

Waits(r) == flow[r] \in {"waiting", "late"}

(* A pending request is waited for and still registered, since its flow    *)
(* gives up before the registry forgets it.  A flow that waits has no      *)
(* decision, one that went on has the decision the registry shows, and     *)
(* both channels hold what was decided.                                    *)
RequestInv(r) ==
    /\ flow[r] = "idle" => status[r] = "none" /\ decision[r] = "none"
    /\ status[r] = "none" => flow[r] = "idle"
    /\ status[r] = "pending" => flow[r] = "waiting" /\ r \in registry
    /\ flow[r] = "waiting" => age[r] <= ConsentTimeout
    /\ Waits(r) => decision[r] = "none" /\ status[r] # "expired"
    /\ flow[r] \in {"submitting", "ended"} => decision[r] = status[r]
    /\ resultCh[r] # "empty" => resultCh[r] = status[r] /\ Waits(r)
    /\ submissionCh[r] # "empty" => submissionCh[r] = decision[r] /\ flow[r] = "ended"

(* An accepted call has set the status, and while it has not sent its      *)
(* verdict the flow waits and its channel is empty.                        *)
CallInv(c) ==
    /\ pc[c] # "done" => reply[c] = "none"
    /\ Accepted(c) => status[about[c]] = verdict[c]
    /\ pc[c] = "resolved" => Waits(about[c]) /\ resultCh[about[c]] = "empty"
    /\ reply[c] \in Decided => reply[c] = verdict[c] /\ decision[about[c]] = verdict[c]

OneAccepted ==
    \A c, d \in Call : Accepted(c) /\ Accepted(d) /\ about[c] = about[d] => c = d

(* The verdict on a request whose flow waits is in the channel or about to *)
(* be sent.                                                                *)
VerdictArrives ==
    \A r \in Request : Waits(r) /\ status[r] \in Verdict =>
        resultCh[r] # "empty" \/ \E c \in Call : pc[c] = "resolved" /\ about[c] = r

ConsentInv ==
    /\ TypeOK
    /\ \A r \in Request : RequestInv(r)
    /\ \A c \in Call : CallInv(c)
    /\ OneAccepted
    /\ VerdictArrives

--------------------------------------------------------------------------------
LEMMA ConsentInit == Init => ConsentInv
<1> SUFFICES ASSUME Init PROVE ConsentInv
    BY Zenon
<1> USE DEF Init
<1>1. TypeOK
    BY TimeAssumption, RequestAssumption DEF TypeOK, Decided, Verdict
<1>2. ASSUME NEW r \in Request PROVE RequestInv(r)
    BY Zenon DEF RequestInv, Waits
<1>3. ASSUME NEW c \in Call PROVE CallInv(c) /\ ~Accepted(c)
    BY Zenon DEF CallInv, Accepted, Decided, Verdict
<1> QED
    BY Zenon, <1>1, <1>2, <1>3 DEF ConsentInv, OneAccepted, VerdictArrives, Waits

LEMMA ConsentSound == ConsentInv => ConsentIsSound
<1> SUFFICES ASSUME ConsentInv PROVE ConsentIsSound
    BY Zenon
<1> USE DEF ConsentInv
<1>1. DecisionIsTheStatus
    <2> SUFFICES ASSUME NEW r \in Request, decision[r] # "none"
                 PROVE  decision[r] = status[r]
        BY Zenon DEF DecisionIsTheStatus
    <2>1. RequestInv(r) /\ flow[r] \in {"idle", "waiting", "late", "submitting", "ended"}
        BY Zenon DEF TypeOK
    <2> QED
        BY Zenon, <2>1 DEF RequestInv, Waits
<1>2. OneAnswerCounts
    BY Zenon DEF OneAnswerCounts, CallInv, OneAccepted
<1>3. LateDecisionArrives
    <2> SUFFICES ASSUME NEW r \in Request, flow[r] = "late"
                 PROVE  \/ resultCh[r] # "empty"
                        \/ \E c \in Call : pc[c] = "resolved" /\ about[c] = r
        BY Zenon DEF LateDecisionArrives
    <2>1. Waits(r) /\ status[r] \in Verdict
        BY ZenonT(60) DEF Waits, RequestInv, TypeOK, Decided
    <2> QED
        BY Zenon, <2>1 DEF VerdictArrives
<1>4. ChannelsHaveRoom
    BY Zenon DEF ChannelsHaveRoom, CallInv, RequestInv
<1> QED
    BY Zenon, <1>1, <1>2, <1>3, <1>4 DEF ConsentIsSound

--------------------------------------------------------------------------------
(* A step that leaves a request, or a call and its request, alone.         *)
SameRequest(r) ==
    /\ UNCHANGED <<status[r], age[r], resultCh[r], submissionCh[r], flow[r], decision[r]>>
    /\ status[r] = "pending" /\ r \in registry => r \in registry'

SameCall(c) == UNCHANGED <<pc[c], about[c], verdict[c], reply[c]>>

LEMMA RequestKept ==
    ASSUME NEW r \in Request, RequestInv(r), SameRequest(r)
    PROVE  RequestInv(r)'
BY Zenon DEF RequestInv, SameRequest, Waits

LEMMA CallKept ==
    ASSUME NEW c \in Call, SameCall(c)
    PROVE  /\ Accepted(c)' <=> Accepted(c)
           /\ CallInv(c) /\ SameRequest(about[c]) => CallInv(c)'
<1>1. Accepted(c)' <=> Accepted(c)
    BY Zenon DEF SameCall, Accepted
<1> QED
    BY Zenon, <1>1 DEF CallInv, SameCall, SameRequest, Waits

(* CreateConsentRequest never prunes a request that is waited for.         *)
LEMMA CreateInv ==
    ASSUME ConsentInv, NEW r \in Request, CreateConsentRequest(r)
    PROVE  ConsentInv'
<1> USE DEF ConsentInv
<1>1. /\ UNCHANGED <<resultCh, submissionCh, decision, pc, about, verdict, reply>>
      /\ flow[r] = "idle"
    BY Zenon DEF CreateConsentRequest, callVars
<1>2. TypeOK'
    <2>0. 0 \in 0..(MaxAge + 1)
        BY TimeAssumption
    <2>1. age' \in [Request -> 0..(MaxAge + 1)]
        BY Zenon, <2>0 DEF CreateConsentRequest, TypeOK
    <2>2. /\ registry' \subseteq Request
          /\ status' \in [Request -> Decided \cup {"none", "pending"}]
          /\ flow' \in [Request -> {"idle", "waiting", "late", "submitting", "ended"}]
        BY ZenonT(60) DEF CreateConsentRequest, TypeOK
    <2> QED
        BY Zenon, <1>1, <2>1, <2>2 DEF TypeOK
<1>3. /\ status'[r] = "pending" /\ age'[r] = 0 /\ flow'[r] = "waiting" /\ r \in registry'
      /\ \A q \in Request : q # r => UNCHANGED <<status[q], age[q], flow[q]>>
    BY ZenonT(200) DEF CreateConsentRequest, TypeOK
<1>4. ASSUME NEW q \in Request, q # r
      PROVE  SameRequest(q)
    <2>1. ASSUME status[q] = "pending", q \in registry
          PROVE  q \in registry'
        <3>1. age[q] <= ConsentTimeout /\ age[q] \in 0..(MaxAge + 1)
            BY ZenonT(60), <2>1 DEF RequestInv, TypeOK
        <3>2. ~(age[q] > MaxAge)
            BY TimeAssumption, <3>1
        <3> QED
            BY Zenon, <2>1, <3>2 DEF CreateConsentRequest, Prunable
    <2> QED
        BY Zenon, <1>1, <1>3, <1>4, <2>1 DEF SameRequest
<1>5. status[r] = "none" /\ decision[r] = "none" /\ resultCh[r] = "empty" /\ submissionCh[r] = "empty"
    BY Zenon, <1>1 DEF RequestInv, Waits
<1>6. RequestInv(r)'
    BY TimeAssumption, <1>1, <1>3, <1>5 DEF RequestInv, Waits
<1>7. ASSUME NEW c \in Call
      PROVE  CallInv(c)' /\ (Accepted(c)' <=> Accepted(c))
    <2>1. SameCall(c)
        BY Zenon, <1>1 DEF SameCall
    <2>2. CASE about[c] = r
        <3>1. ~Accepted(c) /\ reply[c] \notin Decided /\ pc[c] # "resolved"
            BY Zenon, <1>1, <1>5, <2>2 DEF CallInv, TypeOK, Verdict, Waits
        <3> QED
            BY ZenonT(200), <1>1, <2>1, <3>1, CallKept DEF CallInv
    <2>3. CASE about[c] # r
        BY Zenon, <1>4, <2>1, <2>3, CallKept DEF TypeOK
    <2> QED
        BY Zenon, <2>2, <2>3
<1>8. OneAccepted'
    BY Zenon, <1>1, <1>7 DEF OneAccepted
<1>9. VerdictArrives'
    BY Zenon, <1>1, <1>3 DEF VerdictArrives, Verdict, Waits
<1> QED
    BY Zenon, <1>2, <1>4, <1>6, <1>7, <1>8, <1>9, RequestKept

(* awaitConsent takes the verdict of the one accepted call.                *)
LEMMA TakeInv ==
    ASSUME ConsentInv, NEW r \in Request, TakeResult(r)
    PROVE  ConsentInv'
<1> USE DEF ConsentInv
<1>1. /\ UNCHANGED <<registry, status, age, submissionCh, pc, about, verdict, reply>>
      /\ Waits(r) /\ resultCh[r] # "empty"
    BY Zenon DEF TakeResult, callVars, Waits
<1>2. /\ decision'[r] = resultCh[r] /\ resultCh'[r] = "empty" /\ flow'[r] = "submitting"
      /\ \A q \in Request : q # r => UNCHANGED <<decision[q], resultCh[q], flow[q]>>
    BY ZenonT(200) DEF TakeResult, TypeOK
<1>3. TypeOK'
    <2>1. resultCh[r] \in Verdict
        BY Zenon, <1>1 DEF TypeOK
    <2>2. /\ decision' \in [Request -> Decided \cup {"none"}]
          /\ resultCh' \in [Request -> Verdict \cup {"empty"}]
          /\ flow' \in [Request -> {"idle", "waiting", "late", "submitting", "ended"}]
        BY Zenon, <2>1 DEF TakeResult, TypeOK, Decided
    <2> QED
        BY Zenon, <1>1, <2>2 DEF TypeOK
<1>4. ASSUME NEW q \in Request, q # r
      PROVE  SameRequest(q)
    BY Zenon, <1>1, <1>2, <1>4 DEF SameRequest
<1>5. /\ resultCh[r] = status[r] /\ decision[r] = "none" /\ submissionCh[r] = "empty"
      /\ status[r] # "none" /\ status[r] # "pending"
    <2>1. resultCh[r] = status[r] /\ decision[r] = "none"
        BY Zenon, <1>1 DEF RequestInv
    <2>2. resultCh[r] \in Verdict
        BY Zenon, <1>1 DEF TypeOK
    <2>3. submissionCh[r] = "empty"
        BY Zenon, <1>1 DEF RequestInv, Waits
    <2> QED
        BY Zenon, <2>1, <2>2, <2>3 DEF Verdict
<1>6. RequestInv(r)'
    BY Zenon, <1>1, <1>2, <1>5 DEF RequestInv, Waits
<1>7. ASSUME NEW c \in Call
      PROVE  CallInv(c)' /\ (Accepted(c)' <=> Accepted(c))
    <2>1. SameCall(c)
        BY Zenon, <1>1 DEF SameCall
    <2>2. CASE about[c] = r
        <3>1. pc[c] # "resolved" /\ reply[c] \notin Decided
            BY Zenon, <1>1, <1>5, <2>2 DEF CallInv, TypeOK, Verdict
        <3> QED
            BY ZenonT(60), <1>1, <2>1, <3>1, CallKept DEF CallInv
    <2>3. CASE about[c] # r
        BY Zenon, <1>4, <2>1, <2>3, CallKept DEF TypeOK
    <2> QED
        BY Zenon, <2>2, <2>3
<1>8. OneAccepted'
    BY Zenon, <1>1, <1>7 DEF OneAccepted
<1>9. VerdictArrives'
    BY <1>1, <1>2 DEF VerdictArrives, Waits
<1> QED
    BY Zenon, <1>3, <1>4, <1>6, <1>7, <1>8, <1>9, RequestKept

(* A timer expires a pending request, or the flow waits for the verdict.   *)
LEMMA TimerInv ==
    ASSUME ConsentInv, NEW r \in Request, TimerFires(r)
    PROVE  ConsentInv'
<1> USE DEF ConsentInv
<1>1. /\ UNCHANGED <<registry, age, resultCh, submissionCh, pc, about, verdict, reply>>
      /\ flow[r] = "waiting"
    BY Zenon DEF TimerFires, callVars
<1> DEFINE Expires ==
        /\ Resolvable(r)
        /\ status' = [status EXCEPT ![r] = "expired"]
        /\ decision' = [decision EXCEPT ![r] = "expired"]
        /\ flow' = [flow EXCEPT ![r] = "submitting"]
    TurnsLate ==
        /\ ~Resolvable(r)
        /\ flow' = [flow EXCEPT ![r] = "late"]
        /\ UNCHANGED <<status, decision>>
<1>0. Expires \/ TurnsLate
    BY Zenon DEF TimerFires
<1>2. /\ \A q \in Request : q # r => UNCHANGED <<decision[q], status[q], flow[q]>>
      /\ \/ /\ status[r] = "pending" /\ status'[r] = "expired"
            /\ decision'[r] = "expired" /\ flow'[r] = "submitting"
         \/ status[r] # "pending" /\ UNCHANGED <<status, decision>> /\ flow'[r] = "late"
    <2>1. CASE Expires
        BY ZenonT(200), <2>1 DEF TypeOK, Resolvable
    <2>2. CASE TurnsLate
        <3>1. status[r] # "pending"
            BY Zenon, <2>2 DEF RequestInv, Resolvable
        <3> QED
            BY ZenonT(60), <2>2, <3>1 DEF TypeOK
    <2> QED
        BY Zenon, <1>0, <2>1, <2>2
<1>3. TypeOK'
    <2>1. /\ decision' \in [Request -> Decided \cup {"none"}]
          /\ status' \in [Request -> Decided \cup {"none", "pending"}]
          /\ flow' \in [Request -> {"idle", "waiting", "late", "submitting", "ended"}]
        <3>1. CASE Expires
            BY Zenon, <3>1 DEF TypeOK, Decided
        <3>2. CASE TurnsLate
            BY Zenon, <3>2 DEF TypeOK
        <3> QED
            BY Zenon, <1>0, <3>1, <3>2
    <2> QED
        BY Zenon, <1>1, <2>1 DEF TypeOK
<1>4. ASSUME NEW q \in Request, q # r
      PROVE  SameRequest(q)
    BY Zenon, <1>1, <1>2, <1>4 DEF SameRequest
<1>5. decision[r] = "none" /\ submissionCh[r] = "empty" /\ status[r] # "expired" /\ status[r] # "none"
    BY Zenon, <1>1 DEF RequestInv, Waits
<1>6. RequestInv(r)'
    <2>1. status[r] = "pending" => resultCh[r] = "empty"
        BY ZenonT(60) DEF RequestInv, TypeOK, Verdict
    <2>2. resultCh[r] # "empty" => resultCh[r] = status[r]
        BY Zenon DEF RequestInv
    <2> QED
        BY Zenon, <1>1, <1>2, <1>5, <2>1, <2>2 DEF RequestInv, Waits
<1>7. ASSUME NEW c \in Call
      PROVE  CallInv(c)' /\ (Accepted(c)' <=> Accepted(c))
    <2>1. SameCall(c)
        BY Zenon, <1>1 DEF SameCall
    <2>2. CASE about[c] = r
        <3>1. CASE status[r] = "pending"
            <4>1. ~Accepted(c) /\ reply[c] \notin Decided
                BY Zenon, <1>5, <2>2, <3>1 DEF CallInv, TypeOK, Verdict
            <4>2. pc[c] # "resolved"
                BY Zenon, <4>1 DEF Accepted
            <4> QED
                BY ZenonT(60), <1>1, <2>1, <4>1, <4>2, CallKept DEF CallInv
        <3>2. CASE status[r] # "pending"
            <4>1. UNCHANGED <<status, decision>> /\ flow'[r] = "late"
                BY Zenon, <1>2, <3>2
            <4>2. Waits(r)'
                BY Zenon, <4>1 DEF Waits
            <4> QED
                BY Zenon, <1>1, <2>1, <2>2, <4>1, <4>2, CallKept DEF CallInv
        <3> QED
            BY Zenon, <3>1, <3>2
    <2>3. CASE about[c] # r
        BY Zenon, <1>4, <2>1, <2>3, CallKept DEF TypeOK
    <2> QED
        BY Zenon, <2>2, <2>3
<1>8. OneAccepted'
    BY Zenon, <1>1, <1>7 DEF OneAccepted
<1>9. VerdictArrives'
    BY <1>1, <1>2 DEF VerdictArrives, Waits
<1> QED
    BY Zenon, <1>3, <1>4, <1>6, <1>7, <1>8, <1>9, RequestKept

(* The flow reports the outcome of its decision.                           *)
LEMMA SubmitInv ==
    ASSUME ConsentInv, NEW r \in Request, Submit(r)
    PROVE  ConsentInv'
<1> USE DEF ConsentInv
<1>1. /\ UNCHANGED <<registry, status, age, resultCh, decision, pc, about, verdict, reply>>
      /\ flow[r] = "submitting"
      /\ submissionCh'[r] = decision[r] /\ flow'[r] = "ended"
      /\ \A q \in Request : q # r => UNCHANGED <<submissionCh[q], flow[q]>>
    BY ZenonT(60) DEF Submit, callVars, TypeOK
<1>2. decision[r] = status[r] /\ status[r] # "none" /\ status[r] # "pending" /\ resultCh[r] = "empty"
    BY Zenon, <1>1 DEF RequestInv, Waits
<1>3. TypeOK'
    <2>1. decision[r] \in Decided
        BY Zenon, <1>2 DEF TypeOK
    <2>2. /\ submissionCh' \in [Request -> Decided \cup {"empty"}]
          /\ flow' \in [Request -> {"idle", "waiting", "late", "submitting", "ended"}]
        BY Zenon, <2>1 DEF Submit, TypeOK
    <2> QED
        BY Zenon, <1>1, <2>2 DEF TypeOK
<1>4. ASSUME NEW q \in Request, q # r
      PROVE  SameRequest(q)
    BY Zenon, <1>1, <1>4 DEF SameRequest
<1>5. RequestInv(r)'
    BY Zenon, <1>1, <1>2 DEF RequestInv, Waits
<1>6. ASSUME NEW c \in Call
      PROVE  CallInv(c)' /\ (Accepted(c)' <=> Accepted(c))
    <2>1. SameCall(c)
        BY Zenon, <1>1 DEF SameCall
    <2>2. CASE about[c] = r
        <3>1. pc[c] # "resolved"
            BY Zenon, <1>1, <2>2 DEF CallInv, Waits
        <3> QED
            BY <1>1, <2>1, <3>1, CallKept DEF CallInv
    <2>3. CASE about[c] # r
        BY Zenon, <1>4, <2>1, <2>3, CallKept DEF TypeOK
    <2> QED
        BY Zenon, <2>2, <2>3
<1>7. OneAccepted'
    BY Zenon, <1>1, <1>6 DEF OneAccepted
<1>8. VerdictArrives'
    BY Zenon, <1>1 DEF VerdictArrives, Waits
<1> QED
    BY Zenon, <1>3, <1>4, <1>5, <1>6, <1>7, <1>8, RequestKept

(* A call that looks a request up, or ends without having been accepted.   *)
LEMMA CheckInv ==
    ASSUME ConsentInv, NEW c \in Call, NEW r \in Request, NEW v \in Verdict, CallCheck(c, r, v)
    PROVE  ConsentInv'
<1> USE DEF ConsentInv
<1>1. /\ UNCHANGED <<registry, status, age, resultCh, submissionCh, flow, decision>>
      /\ pc[c] = "idle"
      /\ about' = [about EXCEPT ![c] = r] /\ verdict' = [verdict EXCEPT ![c] = v]
    BY Zenon DEF CallCheck, flowVars
<1>2. PICK at \in {"checked", "done"}, told \in {reply[c], "not found", "invalid"} :
        /\ pc' = [pc EXCEPT ![c] = at] /\ reply' = [reply EXCEPT ![c] = told]
        /\ at = "checked" => told = reply[c]
    <2>1. CASE UNCHANGED reply /\ pc' = [pc EXCEPT ![c] = "checked"]
        <3>1. reply' = [reply EXCEPT ![c] = reply[c]]
            BY Zenon, <2>1 DEF TypeOK
        <3> QED
            BY Zenon, <2>1, <3>1
    <2>2. CASE Finish(c, "not found")
        BY Zenon, <2>2 DEF Finish
    <2>3. CASE Finish(c, "invalid")
        BY Zenon, <2>3 DEF Finish
    <2> QED
        BY Zenon, <2>1, <2>2, <2>3 DEF CallCheck
<1>3. TypeOK'
    <2>1. about' \in [Call -> Request] /\ verdict' \in [Call -> Verdict]
        BY Zenon, <1>1 DEF TypeOK
    <2>2. pc' \in [Call -> {"idle", "checked", "resolved", "sent", "done"}]
        BY Zenon, <1>2 DEF TypeOK
    <2>3. reply' \in [Call -> Decided \cup {"none", "not found", "invalid", "timed out",
                                            "already answered", "submission timeout"}]
        BY Zenon, <1>2 DEF TypeOK
    <2> QED
        BY Zenon, <1>1, <2>1, <2>2, <2>3 DEF TypeOK
<1>4. /\ \A d \in Call : d # c => SameCall(d)
      /\ pc'[c] = at /\ reply'[c] = told /\ about'[c] = r /\ verdict'[c] = v
    <2>1. /\ about \in [Call -> Request] /\ verdict \in [Call -> Verdict]
          /\ DOMAIN pc = Call /\ DOMAIN reply = Call
          /\ pc = [d \in Call |-> pc[d]] /\ reply = [d \in Call |-> reply[d]]
        BY ZenonT(60) DEF TypeOK
    <2> QED
        BY Zenon, <1>1, <1>2, <2>1 DEF SameCall
<1>5. \A q \in Request : SameRequest(q)
    BY Zenon, <1>1 DEF SameRequest
<1>6. reply[c] = "none"
    BY Zenon, <1>1 DEF CallInv
<1>7. ~Accepted(c) /\ ~Accepted(c)' /\ CallInv(c)'
    BY Zenon, <1>1, <1>2, <1>4, <1>6 DEF Accepted, CallInv, Decided, Verdict
<1>8. \A d \in Call : CallInv(d)' /\ (Accepted(d)' <=> Accepted(d))
    BY ZenonT(200), <1>4, <1>5, <1>7, CallKept DEF TypeOK
<1>9. OneAccepted'
    BY Zenon, <1>4, <1>7, <1>8 DEF OneAccepted, SameCall
<1>10. VerdictArrives'
    <2>1. \A d \in Call : pc[d] = "resolved" => pc'[d] = "resolved" /\ about'[d] = about[d]
        BY Zenon, <1>1, <1>4 DEF SameCall
    <2> SUFFICES ASSUME NEW q \in Request, Waits(q), status[q] \in Verdict, resultCh[q] = "empty"
                 PROVE  \E d \in Call : pc'[d] = "resolved" /\ about'[d] = q
        BY Zenon, <1>1 DEF VerdictArrives, Waits
    <2>2. PICK d \in Call : pc[d] = "resolved" /\ about[d] = q
        BY Zenon DEF VerdictArrives
    <2> QED
        BY Zenon, <2>1, <2>2
<1> QED
    BY Zenon, <1>3, <1>5, <1>8, <1>9, <1>10, RequestKept

(* ResolveRequest accepts a verdict only while the request is pending, so  *)
(* no other call has been accepted.                                        *)
LEMMA ResolveInv ==
    ASSUME ConsentInv, NEW c \in Call, CallResolve(c), Resolvable(about[c])
    PROVE  ConsentInv'
<1> USE DEF ConsentInv
<1>0. PICK r \in Request : r = about[c]
    BY Zenon DEF TypeOK
<1>1. status[r] = "pending" /\ r \in registry
    BY Zenon, <1>0 DEF Resolvable
<1>2. /\ UNCHANGED <<registry, age, resultCh, submissionCh, flow, decision, about, verdict, reply>>
      /\ pc[c] = "checked"
      /\ status' = [status EXCEPT ![r] = verdict[c]] /\ pc' = [pc EXCEPT ![c] = "resolved"]
    BY Zenon, <1>0, <1>1 DEF CallResolve, flowVars
<1>3. /\ status'[r] = verdict[c] /\ pc'[c] = "resolved" /\ verdict[c] \in Verdict
      /\ \A q \in Request : q # r => SameRequest(q)
      /\ \A d \in Call : d # c => SameCall(d)
    BY ZenonT(60), <1>1, <1>2 DEF TypeOK, SameRequest, SameCall
<1>4. TypeOK'
    <2>1. /\ pc' \in [Call -> {"idle", "checked", "resolved", "sent", "done"}]
          /\ status' \in [Request -> Decided \cup {"none", "pending"}]
        BY Zenon, <1>1, <1>2, <1>3 DEF TypeOK, Decided
    <2> QED
        BY Zenon, <1>2, <2>1 DEF TypeOK
<1>5. /\ flow[r] = "waiting" /\ age[r] <= ConsentTimeout /\ resultCh[r] = "empty"
      /\ submissionCh[r] = "empty" /\ decision[r] = "none"
    <2>1. resultCh[r] \in Verdict \cup {"empty"}
        BY Zenon, <1>1 DEF TypeOK
    <2>2. RequestInv(r)
        BY Zenon, <1>1
    <2> QED
        BY Zenon, <1>1, <2>1, <2>2 DEF RequestInv, Waits, Verdict
<1>6. RequestInv(r)'
    <2>1. /\ status'[r] # "none" /\ status'[r] # "pending" /\ status'[r] # "expired"
        BY Zenon, <1>3 DEF Verdict
    <2> QED
        BY Zenon, <1>2, <1>5, <2>1 DEF RequestInv, Waits
<1>7. ASSUME NEW d \in Call, about[d] = r
      PROVE  ~Accepted(d) /\ reply[d] \notin Decided
    BY ZenonT(60), <1>1, <1>5, <1>7 DEF CallInv, TypeOK, Verdict
<1>8. CallInv(c)' /\ about[c] = r
    BY Zenon, <1>0, <1>2, <1>3, <1>5, <1>7 DEF CallInv, Waits
<1>9. ASSUME NEW d \in Call, d # c
      PROVE  CallInv(d)' /\ (Accepted(d)' <=> Accepted(d))
    <2>1. CASE about[d] = r
        <3>1. ~Accepted(d) /\ reply[d] \notin Decided /\ pc[d] # "resolved"
            BY Zenon, <1>7, <2>1 DEF Accepted
        <3>2. SameCall(d) /\ CallInv(d)
            BY Zenon, <1>3, <1>9
        <3> QED
            BY Zenon, <3>1, <3>2, CallKept DEF CallInv, SameCall
    <2>2. CASE about[d] # r
        BY Zenon, <1>3, <1>9, <2>2, CallKept DEF TypeOK
    <2> QED
        BY Zenon, <2>1, <2>2
<1>10. OneAccepted'
    BY Zenon, <1>2, <1>7, <1>8, <1>9 DEF OneAccepted
<1>11. VerdictArrives'
    <2>1. \A d \in Call : pc[d] = "resolved" => pc'[d] = "resolved" /\ about'[d] = about[d]
        BY Zenon, <1>2, <1>3 DEF SameCall
    <2>2. ASSUME NEW q \in Request, q # r, Waits(q)', status'[q] \in Verdict
          PROVE  resultCh'[q] # "empty" \/ \E d \in Call : pc'[d] = "resolved" /\ about'[d] = q
        BY Zenon, <1>2, <1>3, <2>1, <2>2 DEF VerdictArrives, Waits, SameRequest
    <2> QED
        BY Zenon, <1>2, <1>3, <1>8, <2>2 DEF VerdictArrives
<1>12. \A q \in Request : RequestInv(q)'
    BY Zenon, <1>3, <1>6, RequestKept
<1> QED
    BY Zenon, <1>4, <1>8, <1>9, <1>10, <1>11, <1>12

(* A call that comes too late is told so and is not accepted.              *)
LEMMA RefuseInv ==
    ASSUME ConsentInv, NEW c \in Call, CallResolve(c), ~Resolvable(about[c])
    PROVE  ConsentInv'
<1> USE DEF ConsentInv
<1>1. /\ UNCHANGED <<registry, status, age, resultCh, submissionCh, flow, decision, about, verdict>>
      /\ pc[c] = "checked"
    BY Zenon DEF CallResolve, flowVars
<1>2. PICK told \in {"not found", "timed out", "already answered"} :
        pc' = [pc EXCEPT ![c] = "done"] /\ reply' = [reply EXCEPT ![c] = told]
    BY Zenon DEF CallResolve, Finish
<1>3. TypeOK'
    <2>1. pc' \in [Call -> {"idle", "checked", "resolved", "sent", "done"}]
        BY Zenon, <1>2 DEF TypeOK
    <2>2. reply' \in [Call -> Decided \cup {"none", "not found", "invalid", "timed out",
                                            "already answered", "submission timeout"}]
        BY Zenon, <1>2 DEF TypeOK
    <2> QED
        BY Zenon, <1>1, <2>1, <2>2 DEF TypeOK
<1>4. /\ \A d \in Call : d # c => SameCall(d)
      /\ pc'[c] = "done" /\ reply'[c] = told
    <2>1. pc = [d \in Call |-> pc[d]] /\ reply = [d \in Call |-> reply[d]]
        BY Zenon DEF TypeOK
    <2> QED
        BY Zenon, <1>1, <1>2, <2>1 DEF SameCall
<1>5. \A q \in Request : SameRequest(q)
    BY Zenon, <1>1 DEF SameRequest
<1>6. ~Accepted(c) /\ ~Accepted(c)' /\ CallInv(c)'
    BY Zenon, <1>1, <1>2, <1>4 DEF Accepted, CallInv, Decided, Verdict
<1>7. \A d \in Call : CallInv(d)' /\ (Accepted(d)' <=> Accepted(d))
    BY ZenonT(200), <1>4, <1>5, <1>6, CallKept DEF TypeOK
<1>8. OneAccepted'
    BY Zenon, <1>1, <1>7 DEF OneAccepted
<1>9. VerdictArrives'
    <2>1. \A d \in Call : pc[d] = "resolved" => pc'[d] = "resolved" /\ about'[d] = about[d]
        BY Zenon, <1>1, <1>4 DEF SameCall
    <2> QED
        BY Zenon, <1>1, <2>1 DEF VerdictArrives, Waits
<1> QED
    BY Zenon, <1>3, <1>5, <1>7, <1>8, <1>9, RequestKept

(* The accepted call puts its verdict where the flow waits for it.         *)
LEMMA SendInv ==
    ASSUME ConsentInv, NEW c \in Call, CallSend(c)
    PROVE  ConsentInv'
<1> USE DEF ConsentInv
<1>0. PICK r \in Request : r = about[c]
    BY Zenon DEF TypeOK
<1>1. /\ UNCHANGED <<registry, status, age, submissionCh, flow, decision, about, verdict, reply>>
      /\ pc[c] = "resolved"
      /\ resultCh' = [resultCh EXCEPT ![r] = verdict[c]] /\ pc' = [pc EXCEPT ![c] = "sent"]
    BY Zenon, <1>0 DEF CallSend, flowVars
<1>2. /\ resultCh'[r] = verdict[c] /\ pc'[c] = "sent" /\ verdict[c] \in Verdict
      /\ \A q \in Request : q # r => SameRequest(q)
      /\ \A d \in Call : d # c => SameCall(d)
    BY ZenonT(200), <1>0, <1>1 DEF TypeOK, SameRequest, SameCall
<1>3. TypeOK'
    <2>1. /\ pc' \in [Call -> {"idle", "checked", "resolved", "sent", "done"}]
          /\ resultCh' \in [Request -> Verdict \cup {"empty"}]
        BY Zenon, <1>1, <1>2 DEF TypeOK
    <2> QED
        BY Zenon, <1>1, <2>1 DEF TypeOK
<1>4. Accepted(c) /\ Accepted(c)'
    BY Zenon, <1>1, <1>2 DEF Accepted
<1>5. status[r] = verdict[c] /\ Waits(r) /\ reply[c] = "none"
    BY Zenon, <1>0, <1>1, <1>4 DEF CallInv
<1>6. RequestInv(r)'
    BY Zenon, <1>1, <1>2, <1>5 DEF RequestInv, Waits
<1>7. CallInv(c)'
    BY Zenon, <1>0, <1>1, <1>2, <1>4, <1>5 DEF CallInv
<1>8. ASSUME NEW d \in Call, d # c
      PROVE  CallInv(d)' /\ (Accepted(d)' <=> Accepted(d))
    <2>1. SameCall(d)
        BY ZenonT(60), <1>2, <1>8
    <2>2. CASE about[d] = r
        <3>1. ~Accepted(d)
            BY Zenon, <1>0, <1>4, <1>8, <2>2 DEF OneAccepted
        <3>2. pc[d] # "resolved"
            BY Zenon, <3>1 DEF Accepted
        <3> QED
            BY <1>1, <2>1, <3>1, <3>2, CallKept DEF CallInv, SameCall
    <2>3. CASE about[d] # r
        BY Zenon, <1>2, <2>1, <2>3, CallKept DEF TypeOK
    <2> QED
        BY Zenon, <2>2, <2>3
<1>9. OneAccepted'
    BY Zenon, <1>1, <1>4, <1>8 DEF OneAccepted
<1>10. VerdictArrives'
    <2> SUFFICES ASSUME NEW q \in Request, Waits(q)', status'[q] \in Verdict
                 PROVE  resultCh'[q] # "empty"
                        \/ \E d \in Call : pc'[d] = "resolved" /\ about'[d] = q
        BY Zenon DEF VerdictArrives
    <2>1. CASE q = r
        BY Zenon, <1>2, <2>1 DEF Verdict
    <2>2. CASE q # r
        <3>1. Waits(q) /\ status[q] \in Verdict /\ resultCh'[q] = resultCh[q]
            BY Zenon, <1>1, <1>2, <2>2 DEF Waits, SameRequest
        <3>2. \A d \in Call : about[d] = q => d # c
            BY Zenon, <1>0, <2>2
        <3>3. \A d \in Call : pc[d] = "resolved" /\ about[d] = q
                                => pc'[d] = "resolved" /\ about'[d] = q
            BY Zenon, <1>1, <1>2, <3>2 DEF SameCall
        <3> QED
            BY Zenon, <3>1, <3>3 DEF VerdictArrives
    <2> QED
        BY Zenon, <2>1, <2>2
<1>11. \A q \in Request : RequestInv(q)'
    BY Zenon, <1>2, <1>6, RequestKept
<1> QED
    BY Zenon, <1>3, <1>7, <1>8, <1>9, <1>10, <1>11

(* The accepted call hears the outcome of its own verdict, or nothing.     *)
LEMMA EndInv ==
    ASSUME ConsentInv, NEW c \in Call, CallSubmission(c) \/ CallGiveUp(c)
    PROVE  ConsentInv'
<1> USE DEF ConsentInv
<1>0. PICK r \in Request : r = about[c]
    BY Zenon DEF TypeOK
<1>1. /\ UNCHANGED <<registry, status, age, resultCh, flow, decision, about, verdict>>
      /\ pc[c] = "sent"
    BY Zenon DEF CallSubmission, CallGiveUp, flowVars
<1>2. PICK told :
        /\ pc' = [pc EXCEPT ![c] = "done"] /\ reply' = [reply EXCEPT ![c] = told]
        /\ \/ told = submissionCh[r] /\ told # "empty"
              /\ submissionCh' = [submissionCh EXCEPT ![r] = "empty"]
           \/ told = "submission timeout" /\ UNCHANGED submissionCh
    BY Zenon, <1>0 DEF CallSubmission, CallGiveUp, Finish, flowVars
<1>3. Accepted(c) /\ status[r] = verdict[c]
    BY Zenon, <1>0, <1>1 DEF Accepted, CallInv
<1>4. told \in Decided => told = verdict[c] /\ decision[r] = verdict[c]
    <2>1. CASE told = submissionCh[r] /\ told # "empty"
        <3>1. told = decision[r] /\ flow[r] = "ended"
            BY Zenon, <2>1 DEF RequestInv
        <3>2. decision[r] = status[r]
            BY Zenon, <3>1 DEF RequestInv
        <3> QED
            BY Zenon, <1>3, <3>1, <3>2
    <2>2. CASE told = "submission timeout"
        BY Zenon, <2>2 DEF Decided, Verdict
    <2> QED
        BY Zenon, <1>2, <2>1, <2>2
<1>5. told \in Decided \cup {"submission timeout"}
    BY ZenonT(60), <1>2 DEF TypeOK
<1>6. TypeOK'
    <2>1. /\ pc' \in [Call -> {"idle", "checked", "resolved", "sent", "done"}]
          /\ reply' \in [Call -> Decided \cup {"none", "not found", "invalid", "timed out",
                                               "already answered", "submission timeout"}]
        BY Zenon, <1>2, <1>5 DEF TypeOK
    <2>2. submissionCh' \in [Request -> Decided \cup {"empty"}]
        BY ZenonT(60), <1>2 DEF TypeOK
    <2> QED
        BY Zenon, <1>1, <2>1, <2>2 DEF TypeOK
<1>7. /\ \A d \in Call : d # c => SameCall(d)
      /\ pc'[c] = "done" /\ reply'[c] = told
    <2>1. pc = [d \in Call |-> pc[d]] /\ reply = [d \in Call |-> reply[d]]
        BY ZenonT(60) DEF TypeOK
    <2> QED
        BY Zenon, <1>1, <1>2, <2>1 DEF SameCall
<1>8. \A q \in Request : submissionCh'[q] = submissionCh[q] \/ submissionCh'[q] = "empty"
    BY ZenonT(200), <1>2 DEF TypeOK
<1>9. \A q \in Request : RequestInv(q)'
    BY ZenonT(60), <1>1, <1>8 DEF RequestInv, Waits
<1>10. Accepted(c)' /\ CallInv(c)'
    BY Zenon, <1>0, <1>1, <1>3, <1>4, <1>5, <1>7 DEF Accepted, CallInv
<1>11. ASSUME NEW d \in Call, d # c
       PROVE  CallInv(d)' /\ (Accepted(d)' <=> Accepted(d))
    <2>1. SameCall(d) /\ CallInv(d)
        BY Zenon, <1>7, <1>11
    <2>2. Accepted(d)' <=> Accepted(d)
        BY Zenon, <2>1, CallKept
    <2> QED
        BY Zenon, <1>1, <2>1, <2>2 DEF CallInv, SameCall, Waits
<1>12. OneAccepted'
    BY Zenon, <1>1, <1>3, <1>10, <1>11 DEF OneAccepted
<1>13. VerdictArrives'
    <2>1. \A d \in Call : pc[d] = "resolved" => pc'[d] = "resolved" /\ about'[d] = about[d]
        BY Zenon, <1>1, <1>7 DEF SameCall
    <2> QED
        BY Zenon, <1>1, <2>1 DEF VerdictArrives, Waits
<1> QED
    BY Zenon, <1>6, <1>9, <1>10, <1>11, <1>12, <1>13

(* No flow waits longer than ConsentTimeout.                               *)
LEMMA TickInv ==
    ASSUME ConsentInv, Tick
    PROVE  ConsentInv'
<1> USE DEF ConsentInv
<1>1. UNCHANGED <<registry, status, resultCh, submissionCh, flow, decision, pc, about, verdict, reply>>
    BY Zenon DEF Tick, callVars
<1>2. ASSUME NEW r \in Request
      PROVE  /\ age'[r] \in 0..(MaxAge + 1)
             /\ flow[r] = "waiting" => age'[r] <= ConsentTimeout
    <2>1. /\ age[r] \in 0..(MaxAge + 1)
          /\ age'[r] = IF flow[r] = "idle" \/ age[r] > MaxAge THEN age[r] ELSE age[r] + 1
          /\ flow[r] = "waiting" => age[r] < ConsentTimeout
        BY Zenon DEF Tick, TypeOK
    <2> QED
        BY TimeAssumption, <2>1
<1>3. TypeOK'
    <2>1. age' \in [Request -> 0..(MaxAge + 1)]
        BY Zenon, <1>2 DEF Tick
    <2> QED
        BY Zenon, <1>1, <2>1 DEF TypeOK
<1>4. \A r \in Request : RequestInv(r)'
    BY Zenon, <1>1, <1>2 DEF RequestInv, Waits
<1>5. \A c \in Call : CallInv(c)' /\ (Accepted(c)' <=> Accepted(c))
    BY Zenon, <1>1 DEF CallInv, Accepted, Waits
<1>6. OneAccepted' /\ VerdictArrives'
    BY Zenon, <1>1, <1>5 DEF OneAccepted, VerdictArrives, Waits
<1> QED
    BY Zenon, <1>3, <1>4, <1>5, <1>6

LEMMA ConsentStep == ConsentInv /\ [Next]_vars => ConsentInv'
<1> SUFFICES ASSUME ConsentInv, [Next]_vars PROVE ConsentInv'
    BY Zenon
<1>1. CASE UNCHANGED vars
    <2>1. \A c \in Call : Accepted(c)' <=> Accepted(c)
        BY Zenon, <1>1 DEF vars, Accepted
    <2>2. TypeOK'
        BY Zenon, <1>1 DEF vars, ConsentInv, TypeOK
    <2>3. \A r \in Request : RequestInv(r)'
        BY ZenonT(60), <1>1 DEF vars, ConsentInv, RequestInv, Waits
    <2>4. \A c \in Call : CallInv(c)'
        BY Zenon, <1>1, <2>1 DEF vars, ConsentInv, CallInv, Waits
    <2>5. OneAccepted' /\ VerdictArrives'
        BY Zenon, <1>1, <2>1 DEF vars, ConsentInv, OneAccepted, VerdictArrives, Waits
    <2> QED
        BY Zenon, <2>2, <2>3, <2>4, <2>5 DEF ConsentInv
<1> QED
    BY Zenon, <1>1, CreateInv, TakeInv, TimerInv, SubmitInv, CheckInv, ResolveInv, RefuseInv,
       SendInv, EndInv, TickInv DEF Next, Flow, Answer

(* Whatever tabs answer, in whatever order their calls run, and whenever   *)
(* the timers fire: a flow goes on with the decision the registry shows,   *)
(* one call at most is accepted and hears the outcome of its own verdict,  *)
(* a flow that waits without a timer is answered, and no channel of one    *)
(* slot is full (ResolveRequest, awaitConsent, handleApproveRequest).      *)
THEOREM ConsentCorrect == Spec => []ConsentIsSound
BY ConsentInit, ConsentStep, ConsentSound, PTL DEF Spec

--------------------------------------------------------------------------------
(* A flow with one sign-in, as every OID4VCI 1.0 flow is, and a            *)
(* pendingOfferTTL that outlasts its requests and its wait.                *)
OneSignIn == MaxSignIns = 1
OffersOutlast == StepTime + CallbackWait + StepTime <= OfferTTL

(* A job's time is counted: what it is old and what it has left together   *)
(* never exceed its requests and its one wait, so it ends before OfferTTL. *)
(* Its goroutine applies the outcome, then shows it, then exits.           *)
JobInv(j) ==
    /\ j \in JobState
    /\ j.at \in {"signing in", "presenting"} =>
         j.round = 1 /\ j.age + j.left <= StepTime + CallbackWait
    /\ j.at = "running" /\ j.round = 0 => j.age + j.left <= StepTime
    /\ j.at = "running" => j.age + j.left <= StepTime + CallbackWait + StepTime
    /\ j.at = "ended" /\ ~j.done => j.age <= OfferTTL
    /\ j.at = "none" => j.round = 0
    /\ j.done => j.applied
    /\ j.applied => j.at = "ended"
    /\ j.exited => j.done

(* What the wallet holds for a job: its callback only while it signs in,   *)
(* and not again once a browser has come back; its pending offer until it  *)
(* is done, if its call was given one; no subscription after it exits.     *)
HeldInv(o, j, registered, accepted, held, listening) ==
    /\ o \in registered => j.at = "signing in"
    /\ \A url \in accepted : url[1] = o => o \notin registered /\ j.round = 1
    /\ j.call = "sign-in" /\ j.at # "none" /\ ~j.done => o \in held
    /\ j.exited => o \notin listening

OfferInv(o) ==
    JobInv(job[o]) /\ HeldInv(o, job[o], callbacks, returned, pending, DOMAIN channel)

(* The parts of the type invariant that a step of a job can disturb.       *)
ChannelsOK ==
    \A s \in DOMAIN channel : /\ s \in Subscriber
                              /\ channel[s] \in Seq(SignIn) /\ Len(channel[s]) <= ChannelSize
SetsOK ==
    /\ callbacks \subseteq Offer /\ answers \subseteq SignIn /\ pending \subseteq Offer
    /\ DOMAIN errors \subseteq Owner
OffersInv ==
    /\ job \in [Offer -> JobState] /\ ChannelsOK /\ SetsOK
    /\ \A o \in Offer : OfferInv(o)

LEMMA OffersInvInit ==
    OffersInit => OffersInv
<1> SUFFICES ASSUME OffersInit PROVE OffersInv
    BY Zenon
<1> DEFINE fresh == [at |-> "none", call |-> "none", round |-> 0, result |-> "none", url |-> <<>>,
          applied |-> FALSE, done |-> FALSE, exited |-> FALSE, age |-> 0, left |-> 0]
<1>1. fresh \in JobState
    BY OffersAssumption DEF JobState
<1>2. JobInv(fresh)
    BY <1>1, Zenon DEF JobInv
<1>3. \A o \in Offer : job[o] = fresh
    BY Zenon DEF OffersInit
<1>4. ASSUME NEW o \in Offer PROVE HeldInv(o, fresh, callbacks, returned, pending, DOMAIN channel)
    BY Zenon DEF HeldInv, OffersInit
<1>5. job \in [Offer -> JobState]
    BY Zenon, <1>1 DEF OffersInit
<1>6. ChannelsOK
    BY OffersAssumption DEF OffersInit, ChannelsOK, Subscriber
<1>7. SetsOK
    BY Zenon DEF OffersInit, SetsOK
<1> HIDE DEF fresh
<1> QED
    BY <1>2, <1>3, <1>4, <1>5, <1>6, <1>7, Zenon DEF OffersInv, OfferInv

(* The arithmetic of a job's time, and what its record holds.              *)
LEMMA JobFields ==
    ASSUME NEW j \in JobState
    PROVE  /\ j.age \in Nat /\ j.left \in Nat /\ j.round \in Nat
           /\ j.at \in {"none", "running", "signing in", "presenting", "ended"}
<1>1. j.age \in 0..OfferTTL + 1 /\ j.left \in Nat /\ j.round \in 0..MaxSignIns
      /\ j.at \in {"none", "running", "signing in", "presenting", "ended"}
    BY Zenon DEF JobState
<1>2. \A n : n \in 0..OfferTTL + 1 \/ n \in 0..MaxSignIns => n \in Nat
    BY OffersAssumption
<1> QED
    BY <1>1, <1>2, Zenon

LEMMA InTime ==
    ASSUME OffersOutlast, NEW a \in Nat, NEW l \in Nat,
           a + l <= StepTime + CallbackWait \/ a + l <= StepTime + CallbackWait + StepTime
    PROVE  a <= OfferTTL
BY OffersAssumption DEF OffersOutlast

(* A job that has not ended is younger than OfferTTL.                      *)
LEMMA StillYoung ==
    ASSUME OffersOutlast, NEW j, JobInv(j), j.at # "none", ~j.done
    PROVE  j.age <= OfferTTL
<1>1. j \in JobState
    BY Zenon DEF JobInv
<1>2. j.age <= OfferTTL \/ j.age + j.left <= StepTime + CallbackWait \/ j.age + j.left <= StepTime + CallbackWait + StepTime
    BY <1>1, JobFields, Zenon DEF JobInv
<1> QED
    BY <1>1, <1>2, JobFields, InTime, Zenon

At == {"none", "running", "signing in", "presenting", "ended"}

(* One job moves: what is held for the others may only change in ways that *)
(* do not matter to them.                                                  *)
LEMMA OneJobMoves ==
    ASSUME OffersOutlast, OffersInv, NEW o \in Offer, NEW j,
           job' = [job EXCEPT ![o] = j],
           JobInv(j), HeldInv(o, j, callbacks', returned', pending', DOMAIN channel'),
           callbacks' \subseteq callbacks \cup {o},
           \A url \in returned' : url \in returned \/ url[1] = o,
           \A p \in pending : job[p].age <= OfferTTL => p \in pending',
           DOMAIN channel' \subseteq DOMAIN channel \cup {o},
           ChannelsOK', SetsOK'
    PROVE  OffersInv'
<1>1. job' \in [Offer -> JobState] /\ job'[o] = j
    BY Zenon DEF OffersInv, JobInv
<1>2. ASSUME NEW p \in Offer, p # o PROVE OfferInv(p)'
  <2>1. job'[p] = job[p]
    BY <1>2, Zenon DEF OffersInv
  <2>2. OfferInv(p)
    BY Zenon DEF OffersInv
  <2>3. job[p].call = "sign-in" /\ job[p].at # "none" /\ ~job[p].done => p \in pending'
    BY <2>2, StillYoung, Zenon DEF OfferInv, HeldInv
  <2>4. HeldInv(p, job[p], callbacks', returned', pending', DOMAIN channel')
    BY <1>2, <2>2, <2>3, Zenon DEF OfferInv, HeldInv
  <2> QED
    BY <2>1, <2>2, <2>4, Zenon DEF OfferInv
<1>3. OfferInv(o)'
    BY <1>1, Zenon DEF OfferInv
<1> QED
    BY <1>1, <1>2, <1>3, Zenon DEF OffersInv

--------------------------------------------------------------------------------
(* One lemma per step of a job, its call, a browser, a stream and the      *)
(* clock.                                                                  *)
LEMMA SubmitOfferKeeps ==
    ASSUME OffersOutlast, OffersInv, NEW o \in Offer, SubmitOffer(o)
    PROVE  OffersInv'
<1> DEFINE s == job[o]
           j == [s EXCEPT !.at = "running", !.call = "waiting", !.age = 0, !.left = StepTime]
<1>1. s \in JobState /\ s.at = "none" /\ OfferInv(o)
    BY Zenon DEF OffersInv, SubmitOffer
<1>2. 0 \in 0..OfferTTL + 1 /\ StepTime \in Nat
      /\ 0 + StepTime <= StepTime /\ 0 + StepTime <= StepTime + CallbackWait + StepTime
    BY OffersAssumption
<1>3. /\ j \in JobState
      /\ j.at = "running" /\ j.call = "waiting" /\ j.age = 0 /\ j.left = StepTime
      /\ j.round = s.round /\ j.applied = s.applied /\ j.done = s.done /\ j.exited = s.exited
    BY <1>1, <1>2, Zenon DEF JobState
<1>4. s.round = 0 /\ ~s.done /\ ~s.applied /\ ~s.exited
    BY <1>1, Zenon DEF OfferInv, JobInv
<1>5. job' = [job EXCEPT ![o] = j] /\ UNCHANGED <<callbacks, answers, pending, returned>>
    BY Zenon DEF SubmitOffer
<1>7. DOMAIN channel' = DOMAIN channel \cup {o}
    BY Zenon DEF SubmitOffer
<1>8. ChannelsOK'
    BY OffersAssumption DEF SubmitOffer, OffersInv, ChannelsOK, Subscriber
<1>9. SetsOK'
    BY <1>5, Zenon DEF SubmitOffer, OffersInv, SetsOK, ClearLastError
<1> HIDE DEF j
<1>10. JobInv(j)
    BY <1>2, <1>3, <1>4, Zenon DEF JobInv
<1>11. HeldInv(o, j, callbacks', returned', pending', DOMAIN channel')
    BY <1>1, <1>3, <1>4, <1>5, Zenon DEF HeldInv, OfferInv
<1> QED
    BY <1>5, <1>7, <1>8, <1>9, <1>10, <1>11, OneJobMoves, Zenon

(* A job that was running without a sign-in has time for one.              *)
LEMMA FirstWait ==
    ASSUME OneSignIn, NEW s, JobInv(s), s.at = "running", s.round < MaxSignIns
    PROVE  /\ s.round # 1 /\ s.round + 1 = 1 /\ 1 \in 0..MaxSignIns /\ 1 \in 1..MaxSignIns
           /\ s.age + CallbackWait <= StepTime + CallbackWait
<1>1. s \in JobState /\ s.age \in Nat /\ s.left \in Nat /\ s.round \in Nat
    BY JobFields, Zenon DEF JobInv
<1>2. \A n \in Nat : n < MaxSignIns => n = 0 /\ n # 1 /\ n + 1 = 1 /\ 1 \in 0..MaxSignIns /\ 1 \in 1..MaxSignIns
    BY DEF OneSignIn
<1>3. s.round = 0 /\ s.round # 1 /\ s.round + 1 = 1 /\ 1 \in 0..MaxSignIns /\ 1 \in 1..MaxSignIns
    BY <1>1, <1>2, Zenon
<1>4. s.age + s.left <= StepTime
    BY <1>3, Zenon DEF JobInv
<1>5. \A a, l \in Nat : a + l <= StepTime => a + CallbackWait <= StepTime + CallbackWait
    BY OffersAssumption
<1> QED
    BY <1>1, <1>3, <1>4, <1>5, Zenon

LEMMA OneIsNotZero ==
    1 # 0
OBVIOUS

LEMMA WaitFits ==
    ASSUME NEW a \in Nat, NEW l \in Nat, a + l <= StepTime + CallbackWait
    PROVE  a + StepTime <= StepTime + CallbackWait + StepTime
BY OffersAssumption

(* A wait that is over leaves time for the requests after it.              *)
LEMMA TimeLeft ==
    ASSUME NEW s, JobInv(s), s.at \in {"signing in", "presenting"}
    PROVE  s.age + StepTime <= StepTime + CallbackWait + StepTime
<1>1. s.age \in Nat /\ s.left \in Nat /\ s.age + s.left <= StepTime + CallbackWait
    BY JobFields, Zenon DEF JobInv
<1> QED
    BY <1>1, WaitFits, Zenon

LEMMA JobWaitsKeeps ==
    ASSUME OneSignIn, OffersOutlast, OffersInv, NEW o \in Offer,
           NEW at \in {"signing in", "presenting"},
           job[o].at = "running", job[o].round < MaxSignIns,
           job' = [job EXCEPT ![o] = [@ EXCEPT !.at = at, !.round = job[o].round + 1, !.left = CallbackWait]],
           callbacks' = IF at = "signing in" THEN callbacks \cup {o} ELSE callbacks,
           UNCHANGED <<returned, pending>>, DOMAIN channel' = DOMAIN channel, ChannelsOK', SetsOK'
    PROVE  OffersInv'
<1> DEFINE s == job[o]
           j == [s EXCEPT !.at = at, !.round = 1, !.left = CallbackWait]
<1>1. s \in JobState /\ OfferInv(o) /\ JobInv(s)
    BY Zenon DEF OffersInv, OfferInv
<1>2. s.round # 1 /\ s.round + 1 = 1 /\ 1 \in 0..MaxSignIns /\ 1 \in 1..MaxSignIns
      /\ s.age + CallbackWait <= StepTime + CallbackWait
    BY <1>1, FirstWait, Zenon
<1>3. CallbackWait \in Nat /\ at \in At
    BY OffersAssumption, Zenon DEF At
<1>4. /\ j \in JobState
      /\ j.at = at /\ j.round = 1 /\ j.left = CallbackWait /\ j.age = s.age
      /\ j.call = s.call /\ j.applied = s.applied /\ j.done = s.done /\ j.exited = s.exited
    BY <1>1, <1>2, <1>3, Zenon DEF JobState, At
<1>5. ~s.done /\ ~s.applied /\ ~s.exited
    BY <1>1, Zenon DEF JobInv
<1>6. job' = [job EXCEPT ![o] = j]
    BY <1>2, Zenon
<1> HIDE DEF j
<1>7. JobInv(j)
    BY <1>2, <1>4, <1>5, Zenon DEF JobInv
<1>8. \A url \in returned : url[1] # o
    BY <1>1, <1>2, Zenon DEF OfferInv, HeldInv
<1>9. HeldInv(o, j, callbacks', returned', pending', DOMAIN channel')
    BY <1>1, <1>4, <1>5, <1>8, Zenon DEF HeldInv, OfferInv
<1> QED
    BY <1>6, <1>7, <1>9, OneJobMoves, Zenon

LEMMA JobGoesOnKeeps ==
    ASSUME OffersOutlast, OffersInv, NEW o \in Offer,
           job[o].at \in {"signing in", "presenting"},
           job' = [job EXCEPT ![o] = [@ EXCEPT !.at = "running", !.left = StepTime]],
           callbacks' \subseteq callbacks, o \notin callbacks',
           UNCHANGED <<channel, returned, pending>>, ChannelsOK', SetsOK'
    PROVE  OffersInv'
<1> DEFINE s == job[o]
           j == [s EXCEPT !.at = "running", !.left = StepTime]
<1>1. s \in JobState /\ OfferInv(o) /\ JobInv(s)
    BY Zenon DEF OffersInv, OfferInv
<1>2. StepTime \in Nat
    BY OffersAssumption, Zenon
<1>3. /\ j \in JobState
      /\ j.at = "running" /\ j.round = s.round /\ j.left = StepTime /\ j.age = s.age
      /\ j.call = s.call /\ j.applied = s.applied /\ j.done = s.done /\ j.exited = s.exited
    BY <1>1, <1>2, Zenon DEF JobState
<1>4. ~s.done /\ ~s.applied /\ ~s.exited /\ s.round = 1
    BY <1>1, Zenon DEF JobInv
<1>5. s.age + StepTime <= StepTime + CallbackWait + StepTime
    BY <1>1, TimeLeft, Zenon
<1>6. job' = [job EXCEPT ![o] = j]
    BY Zenon
<1>7. 1 # 0
    BY Zenon, OneIsNotZero
<1> HIDE DEF j
<1>8. JobInv(j)
    BY <1>3, <1>4, <1>5, <1>7, Zenon DEF JobInv
<1>9. HeldInv(o, j, callbacks', returned', pending', DOMAIN channel')
    BY <1>1, <1>3, <1>4, Zenon DEF HeldInv, OfferInv
<1> QED
    BY <1>6, <1>8, <1>9, OneJobMoves, Zenon

(* A busy job ends before its pending offer expires.                       *)
LEMMA JobEndsKeeps ==
    ASSUME OffersOutlast, OffersInv, NEW o \in Offer, NEW result \in Result,
           job[o].at \in {"running", "signing in", "presenting"},
           job' = [job EXCEPT ![o] = [@ EXCEPT !.at = "ended", !.result = result]],
           callbacks' \subseteq callbacks, o \notin callbacks',
           UNCHANGED <<channel, returned, pending>>, ChannelsOK', SetsOK'
    PROVE  OffersInv'
<1> DEFINE s == job[o]
           j == [s EXCEPT !.at = "ended", !.result = result]
<1>1. s \in JobState /\ OfferInv(o) /\ JobInv(s)
    BY Zenon DEF OffersInv, OfferInv
<1>3. /\ j \in JobState
      /\ j.at = "ended" /\ j.round = s.round /\ j.age = s.age
      /\ j.call = s.call /\ j.applied = s.applied /\ j.done = s.done /\ j.exited = s.exited
    BY <1>1, Zenon DEF JobState
<1>4. ~s.done /\ ~s.applied /\ ~s.exited
    BY <1>1, Zenon DEF JobInv
<1>5. s.age <= OfferTTL
    BY <1>1, <1>4, StillYoung, Zenon
<1>6. job' = [job EXCEPT ![o] = j]
    BY Zenon
<1> HIDE DEF j
<1>8. JobInv(j)
    BY <1>3, <1>4, <1>5, Zenon DEF JobInv
<1>9. HeldInv(o, j, callbacks', returned', pending', DOMAIN channel')
    BY <1>1, <1>3, <1>4, Zenon DEF HeldInv, OfferInv
<1> QED
    BY <1>6, <1>8, <1>9, OneJobMoves, Zenon

LEMMA SignInStartsKeeps ==
    ASSUME OneSignIn, OffersOutlast, OffersInv, NEW o \in Offer, SignInStarts(o)
    PROVE  OffersInv'
<1> DEFINE url == <<o, job[o].round + 1>>
<1>1. job[o].at = "running" /\ job[o].round < MaxSignIns /\ UNCHANGED <<returned, pending>>
    BY Zenon DEF SignInStarts
<1>2. CASE Delivered
  <2>1. job[o] \in JobState /\ JobInv(job[o])
    BY Zenon DEF OffersInv, OfferInv
  <2>2. job[o].round + 1 = 1 /\ 1 \in 1..MaxSignIns
    BY <1>1, <2>1, FirstWait, Zenon
  <2>3. url \in SignIn
    BY Zenon, <2>2 DEF SignIn
  <2>4. /\ job' = [job EXCEPT ![o] = [@ EXCEPT !.at = "signing in",
                                    !.round = job[o].round + 1, !.left = CallbackWait]]
        /\ callbacks' = callbacks \cup {o}
        /\ channel' = [s \in DOMAIN channel |->
                         IF Fits(s) THEN Append(channel[s], url) ELSE channel[s]]
    BY <1>2, Zenon DEF SignInStarts
  <2>5. DOMAIN channel' = DOMAIN channel
    BY <2>4, Zenon
  <2> HIDE DEF url
  <2>6. ASSUME NEW s \in DOMAIN channel
        PROVE  channel'[s] \in Seq(SignIn) /\ Len(channel'[s]) <= ChannelSize
    <3>1. channel[s] \in Seq(SignIn) /\ Len(channel[s]) <= ChannelSize
      BY Zenon DEF OffersInv, ChannelsOK
    <3>2. channel'[s] = IF Len(channel[s]) < ChannelSize THEN Append(channel[s], url) ELSE channel[s]
      BY <2>4, Zenon DEF Fits
    <3> QED
      BY <2>3, <3>1, <3>2, OffersAssumption
  <2>7. ChannelsOK'
    BY <2>5, <2>6, Zenon DEF OffersInv, ChannelsOK
  <2>8. SetsOK'
    BY <2>4, Zenon DEF OffersInv, SetsOK, SignInStarts
  <2> QED
    BY <1>1, <2>4, <2>5, <2>7, <2>8, JobWaitsKeeps, Zenon
<1>3. CASE ~Delivered
  <2>1. /\ job' = [job EXCEPT ![o] = [@ EXCEPT !.at = "ended", !.result = "failed"]]
        /\ UNCHANGED <<callbacks, channel>>
    BY <1>3, Zenon DEF SignInStarts
  <2>2. ChannelsOK' /\ SetsOK'
    BY <2>1, Zenon DEF OffersInv, SetsOK, ChannelsOK, SignInStarts
  <2>3. o \notin callbacks'
    BY <1>1, <2>1, Zenon DEF OffersInv, OfferInv, HeldInv
  <2> QED
    BY <1>1, <2>1, <2>2, <2>3, JobEndsKeeps, Zenon DEF Result
<1> QED
    BY <1>2, <1>3, Zenon

LEMMA PresentationAskedKeeps ==
    ASSUME OneSignIn, OffersOutlast, OffersInv, NEW o \in Offer, PresentationAsked(o)
    PROVE  OffersInv'
<1>1. ChannelsOK' /\ SetsOK'
    BY Zenon DEF OffersInv, SetsOK, ChannelsOK, PresentationAsked
<1> QED
    BY <1>1, JobWaitsKeeps, Zenon DEF PresentationAsked

LEMMA PresentationAnsweredKeeps ==
    ASSUME OffersOutlast, OffersInv, NEW o \in Offer, PresentationAnswered(o)
    PROVE  OffersInv'
<1>1. ChannelsOK' /\ SetsOK'
    BY Zenon DEF OffersInv, SetsOK, ChannelsOK, PresentationAnswered
<1>2. o \notin callbacks'
    BY Zenon DEF OffersInv, OfferInv, HeldInv, PresentationAnswered
<1> QED
    BY <1>1, <1>2, JobGoesOnKeeps, Zenon DEF PresentationAnswered

LEMMA SignInAnsweredKeeps ==
    ASSUME OffersOutlast, OffersInv, NEW o \in Offer, SignInAnswered(o)
    PROVE  OffersInv'
<1>1. ChannelsOK' /\ SetsOK'
    BY Zenon DEF OffersInv, SetsOK, ChannelsOK, SignInAnswered
<1>2. o \notin callbacks' /\ callbacks' \subseteq callbacks
    BY Zenon DEF SignInAnswered
<1> QED
    BY <1>1, <1>2, JobGoesOnKeeps, Zenon DEF SignInAnswered

LEMMA TimedOutKeeps ==
    ASSUME OffersOutlast, OffersInv, NEW o \in Offer, TimedOut(o)
    PROVE  OffersInv'
<1>1. ChannelsOK' /\ SetsOK'
    BY Zenon DEF OffersInv, SetsOK, ChannelsOK, TimedOut, Unregister
<1>2. o \notin callbacks' /\ callbacks' \subseteq callbacks
    BY Zenon DEF TimedOut, Unregister
<1> QED
    BY <1>1, <1>2, JobEndsKeeps, Zenon DEF TimedOut, Waiting, Result

LEMMA FlowEndsKeeps ==
    ASSUME OffersOutlast, OffersInv, NEW o \in Offer, NEW result \in Result, FlowEnds(o, result)
    PROVE  OffersInv'
<1>1. ChannelsOK' /\ SetsOK'
    BY Zenon DEF OffersInv, SetsOK, ChannelsOK, FlowEnds
<1>2. o \notin callbacks'
    BY Zenon DEF OffersInv, OfferInv, HeldInv, FlowEnds
<1> QED
    BY <1>1, <1>2, JobEndsKeeps, Zenon DEF FlowEnds

(* An ended job's record changes in one place.                             *)
LEMMA EndedJobKeeps ==
    ASSUME OffersOutlast, OffersInv, NEW o \in Offer, NEW j,
           job' = [job EXCEPT ![o] = j], JobInv(j), j.at = job[o].at, j.round = job[o].round,
           j.call = "sign-in" /\ j.at # "none" /\ ~j.done => o \in pending',
           j.exited => o \notin DOMAIN channel',
           UNCHANGED <<callbacks, returned>>,
           \A p \in pending : job[p].age <= OfferTTL => p \in pending',
           DOMAIN channel' \subseteq DOMAIN channel,
           ChannelsOK', SetsOK'
    PROVE  OffersInv'
<1>1. OfferInv(o)
    BY Zenon DEF OffersInv
<1>2. HeldInv(o, j, callbacks', returned', pending', DOMAIN channel')
    BY <1>1, Zenon DEF HeldInv, OfferInv
<1> QED
    BY <1>2, OneJobMoves, Zenon

LEMMA ApplyKeeps ==
    ASSUME OffersOutlast, OffersInv, NEW o \in Offer, Apply(o)
    PROVE  OffersInv'
<1> DEFINE s == job[o]
           j == [s EXCEPT !.applied = TRUE]
<1>1. s \in JobState /\ OfferInv(o) /\ JobInv(s) /\ s.at = "ended"
    BY Zenon DEF OffersInv, OfferInv, Apply, ApplyOfferOutcome, Ends
<1>2. /\ j \in JobState
      /\ j.at = s.at /\ j.round = s.round /\ j.age = s.age /\ j.left = s.left
      /\ j.call = s.call /\ j.applied = TRUE /\ j.done = s.done /\ j.exited = s.exited
    BY <1>1, Zenon DEF JobState
<1>3. job' = [job EXCEPT ![o] = j]
    BY Zenon DEF Apply, ApplyOfferOutcome
<1>4. UNCHANGED <<channel, callbacks, answers, pending, returned>>
    BY Zenon DEF Apply
<1>5. DOMAIN errors' \subseteq Owner
  <2>1. DOMAIN errors \subseteq Owner /\ Owners[o] \in Owner
    BY Zenon DEF OffersInv, SetsOK, Owner, Subscriber
  <2>2. DOMAIN errors' \subseteq DOMAIN errors \cup {Owners[o]}
    <3>1. CASE s.result = "failed"
      BY ZenonT(60), <3>1 DEF Apply, ApplyOfferOutcome, NotifyError
    <3>2. CASE s.result # "failed"
      BY <3>2, Zenon DEF Apply, ApplyOfferOutcome
    <3> QED
      BY <3>1, <3>2, Zenon
  <2> QED
    BY <2>1, <2>2, Zenon
<1>6. ChannelsOK' /\ SetsOK'
    BY <1>4, <1>5, Zenon DEF OffersInv, SetsOK, ChannelsOK
<1> HIDE DEF j
<1>7. JobInv(j)
    BY <1>1, <1>2, Zenon DEF JobInv
<1>8. HeldInv(o, s, callbacks, returned, pending, DOMAIN channel)
    BY <1>1, Zenon DEF OfferInv
<1> QED
    BY <1>2, <1>3, <1>4, <1>6, <1>7, <1>8, EndedJobKeeps, Zenon DEF HeldInv

LEMMA CompleteKeeps ==
    ASSUME OffersOutlast, OffersInv, NEW o \in Offer, Complete(o)
    PROVE  OffersInv'
<1> DEFINE s == job[o]
           j == [s EXCEPT !.done = TRUE]
<1>1. s \in JobState /\ OfferInv(o) /\ JobInv(s) /\ s.at = "ended" /\ s.applied
    BY Zenon DEF OffersInv, OfferInv, Complete, Ends
<1>2. /\ j \in JobState
      /\ j.at = s.at /\ j.round = s.round /\ j.age = s.age /\ j.left = s.left
      /\ j.call = s.call /\ j.applied = s.applied /\ j.done = TRUE /\ j.exited = s.exited
    BY <1>1, Zenon DEF JobState
<1>3. job' = [job EXCEPT ![o] = j]
    BY Zenon DEF Complete
<1>4. UNCHANGED <<channel, callbacks, answers, pending, errors, returned>>
    BY Zenon DEF Complete
<1>6. ChannelsOK' /\ SetsOK'
    BY <1>4, Zenon DEF OffersInv, SetsOK, ChannelsOK
<1> HIDE DEF j
<1>7. JobInv(j)
    BY <1>1, <1>2, Zenon DEF JobInv
<1>8. HeldInv(o, s, callbacks, returned, pending, DOMAIN channel)
    BY <1>1, Zenon DEF OfferInv
<1> QED
    BY <1>2, <1>3, <1>4, <1>6, <1>7, <1>8, EndedJobKeeps, Zenon DEF HeldInv

LEMMA GoroutineExitsKeeps ==
    ASSUME OffersOutlast, OffersInv, NEW o \in Offer, GoroutineExits(o)
    PROVE  OffersInv'
<1> DEFINE s == job[o]
           j == [s EXCEPT !.exited = TRUE]
<1>1. s \in JobState /\ OfferInv(o) /\ JobInv(s) /\ s.at = "ended" /\ s.done
    BY Zenon DEF OffersInv, OfferInv, GoroutineExits, Ends
<1>2. /\ j \in JobState
      /\ j.at = s.at /\ j.round = s.round /\ j.age = s.age /\ j.left = s.left
      /\ j.call = s.call /\ j.applied = s.applied /\ j.done = s.done /\ j.exited = TRUE
    BY <1>1, Zenon DEF JobState
<1>3. job' = [job EXCEPT ![o] = j]
    BY Zenon DEF GoroutineExits
<1>4. UNCHANGED <<callbacks, answers, pending, errors, returned>>
      /\ channel' = [t \in DOMAIN channel \ {o} |-> channel[t]]
    BY Zenon DEF GoroutineExits, Unsubscribe
<1>5. DOMAIN channel' = DOMAIN channel \ {o} /\ \A t \in DOMAIN channel' : channel'[t] = channel[t]
    BY <1>4, Zenon
<1>6. ChannelsOK' /\ SetsOK'
    BY <1>4, <1>5, Zenon DEF OffersInv, SetsOK, ChannelsOK
<1> HIDE DEF j
<1>7. JobInv(j)
    BY <1>1, <1>2, Zenon DEF JobInv
<1> QED
    BY <1>1, <1>2, <1>3, <1>4, <1>5, <1>6, <1>7, EndedJobKeeps, Zenon

LEMMA PromptTaken ==
    ASSUME NEW q \in Seq(SignIn), q # <<>>, Len(q) <= ChannelSize
    PROVE  Head(q) \in SignIn /\ Tail(q) \in Seq(SignIn) /\ Len(Tail(q)) <= ChannelSize
BY OffersAssumption

LEMMA CallTakesPromptKeeps ==
    ASSUME OffersOutlast, OffersInv, NEW o \in Offer, CallTakesPrompt(o)
    PROVE  OffersInv'
<1> DEFINE s == job[o]
           j == [s EXCEPT !.call = "sign-in", !.url = Head(channel[o])]
<1>1. s \in JobState /\ OfferInv(o) /\ JobInv(s)
    BY Zenon DEF OffersInv, OfferInv
<1>2. /\ o \in DOMAIN channel /\ channel[o] # <<>> /\ job' = [job EXCEPT ![o] = j]
      /\ channel' = [channel EXCEPT ![o] = Tail(channel[o])]
      /\ pending' = {p \in pending : job[p].age <= OfferTTL} \cup {o}
      /\ UNCHANGED <<callbacks, answers, errors, returned>>
    BY Zenon DEF CallTakesPrompt, TrackPendingOffer
<1>3. channel[o] \in Seq(SignIn) /\ Len(channel[o]) <= ChannelSize
    BY <1>2, Zenon DEF OffersInv, ChannelsOK
<1>4. Head(channel[o]) \in SignIn /\ Tail(channel[o]) \in Seq(SignIn)
      /\ Len(Tail(channel[o])) <= ChannelSize
    BY <1>2, <1>3, PromptTaken, Zenon
<1>5. /\ j \in JobState
      /\ j.at = s.at /\ j.round = s.round /\ j.age = s.age /\ j.left = s.left
      /\ j.call = "sign-in" /\ j.applied = s.applied /\ j.done = s.done /\ j.exited = s.exited
    BY <1>1, <1>4, Zenon DEF JobState
<1> HIDE DEF j
<1>6. DOMAIN channel' = DOMAIN channel
    BY <1>2, Zenon
<1>7. ChannelsOK'
    BY <1>2, <1>4, <1>6, Zenon DEF OffersInv, ChannelsOK
<1>8. SetsOK'
    BY <1>2, Zenon DEF OffersInv, SetsOK
<1>9. JobInv(j)
    BY <1>1, <1>5, Zenon DEF JobInv
<1>10. ~j.exited \/ o \notin DOMAIN channel
    BY <1>1, <1>5, Zenon DEF OfferInv, HeldInv
<1> QED
    BY <1>2, <1>5, <1>6, <1>7, <1>8, <1>9, <1>10, EndedJobKeeps, Zenon

LEMMA CallSeesOutcomeKeeps ==
    ASSUME OffersOutlast, OffersInv, NEW o \in Offer, CallSeesOutcome(o)
    PROVE  OffersInv'
<1> DEFINE s == job[o]
           j == [s EXCEPT !.call = job[o].result]
<1>1. s \in JobState /\ OfferInv(o) /\ JobInv(s) /\ s.done
    BY Zenon DEF OffersInv, OfferInv, CallSeesOutcome
<1>2. s.result \in Result \cup {"none"}
    BY <1>1, Zenon DEF JobState
<1>3. /\ j \in JobState
      /\ j.at = s.at /\ j.round = s.round /\ j.age = s.age /\ j.left = s.left
      /\ j.applied = s.applied /\ j.done = s.done /\ j.exited = s.exited
    BY <1>1, <1>2, Zenon DEF JobState
<1>4. job' = [job EXCEPT ![o] = j] /\ UNCHANGED <<channel, callbacks, answers, pending, errors, returned>>
    BY Zenon DEF CallSeesOutcome
<1>6. ChannelsOK' /\ SetsOK'
    BY <1>4, Zenon DEF OffersInv, SetsOK, ChannelsOK
<1> HIDE DEF j
<1>7. JobInv(j)
    BY <1>1, <1>3, Zenon DEF JobInv
<1>8. HeldInv(o, s, callbacks, returned, pending, DOMAIN channel)
    BY <1>1, Zenon DEF OfferInv
<1> QED
    BY <1>1, <1>3, <1>4, <1>6, <1>7, <1>8, EndedJobKeeps, Zenon DEF HeldInv

LEMMA BrowserReturnsKeeps ==
    ASSUME OffersOutlast, OffersInv, NEW url \in SignIn, BrowserReturns(url)
    PROVE  OffersInv'
<1> DEFINE o == url[1]
<1>1. /\ o \in callbacks /\ callbacks' = callbacks \ {o} /\ answers' = answers \cup {url}
      /\ returned' = returned \cup {url} /\ UNCHANGED <<job, channel, pending, errors>>
    BY Zenon DEF BrowserReturns, Callback
<1>2. ChannelsOK' /\ SetsOK'
    BY <1>1, Zenon DEF OffersInv, SetsOK, ChannelsOK
<1> HIDE DEF o
<1>3. ASSUME NEW p \in Offer PROVE OfferInv(p)'
  <2>1. OfferInv(p) /\ job'[p] = job[p]
    BY <1>1, Zenon DEF OffersInv
  <2>2. p = o => job[p].round = 1
    BY <1>1, <2>1, Zenon DEF OfferInv, HeldInv, JobInv
  <2>3. HeldInv(p, job[p], callbacks', returned', pending', DOMAIN channel')
    BY <1>1, <2>1, <2>2, Zenon DEF OfferInv, HeldInv, o
  <2> QED
    BY <2>1, <2>3, Zenon DEF OfferInv
<1> QED
    BY <1>1, <1>2, <1>3, Zenon DEF OffersInv

(* A step of the streams leaves the jobs alone, and no channel is added.   *)
LEMMA StreamStepKeeps ==
    ASSUME OffersInv, UNCHANGED <<job, callbacks, answers, pending, errors, returned>>,
           DOMAIN channel' \subseteq DOMAIN channel, ChannelsOK'
    PROVE  OffersInv'
<1>1. SetsOK'
    BY Zenon DEF OffersInv, SetsOK
<1>2. ASSUME NEW p \in Offer PROVE OfferInv(p)'
  <2>1. OfferInv(p) /\ job'[p] = job[p]
    BY Zenon DEF OffersInv
  <2>2. HeldInv(p, job[p], callbacks', returned', pending', DOMAIN channel')
    BY <2>1, Zenon DEF OfferInv, HeldInv
  <2> QED
    BY <2>1, <2>2, Zenon DEF OfferInv
<1> QED
    BY <1>1, <1>2, Zenon DEF OffersInv

LEMMA StreamTakesPromptKeeps ==
    ASSUME OffersInv, NEW s \in Stream, StreamTakesPrompt(s)
    PROVE  OffersInv'
<1>1. s \in DOMAIN channel /\ channel[s] # <<>> /\ channel' = [channel EXCEPT ![s] = Tail(channel[s])]
    BY Zenon DEF StreamTakesPrompt
<1>2. channel[s] \in Seq(SignIn) /\ Len(channel[s]) <= ChannelSize
    BY <1>1, Zenon DEF OffersInv, ChannelsOK
<1>3. Tail(channel[s]) \in Seq(SignIn) /\ Len(Tail(channel[s])) <= ChannelSize
    BY <1>1, <1>2, PromptTaken, Zenon
<1>4. DOMAIN channel' = DOMAIN channel
    BY <1>1, Zenon
<1>5. ChannelsOK'
    BY <1>1, <1>3, <1>4, Zenon DEF OffersInv, ChannelsOK
<1> QED
    BY <1>4, <1>5, StreamStepKeeps, Zenon DEF StreamTakesPrompt

LEMMA StreamClosesKeeps ==
    ASSUME OffersInv, NEW s \in Stream, StreamCloses(s)
    PROVE  OffersInv'
<1>1. channel' = [t \in DOMAIN channel \ {s} |-> channel[t]]
    BY Zenon DEF StreamCloses
<1>2. DOMAIN channel' = DOMAIN channel \ {s} /\ \A t \in DOMAIN channel' : channel'[t] = channel[t]
    BY <1>1, Zenon
<1>3. ChannelsOK'
    BY <1>2, Zenon DEF OffersInv, ChannelsOK
<1> QED
    BY <1>2, <1>3, StreamStepKeeps, Zenon DEF StreamCloses

(* The clock: a busy job has as much time in all as before, and a job that *)
(* has ended is done.                                                      *)
LEMMA ClockFits ==
    ASSUME NEW a \in 0..OfferTTL + 1, NEW l \in Nat
    PROVE  /\ Older(a, OfferTTL) \in 0..OfferTTL + 1
           /\ (IF l > 0 THEN l - 1 ELSE 0) \in Nat
           /\ \A n \in Nat : a <= OfferTTL /\ l > 0 /\ a + l <= n =>
                Older(a, OfferTTL) + (IF l > 0 THEN l - 1 ELSE 0) <= n
BY OffersAssumption DEF Older

LEMMA TimesAdd ==
    /\ StepTime \in Nat /\ StepTime + CallbackWait \in Nat
    /\ StepTime + CallbackWait + StepTime \in Nat
BY OffersAssumption

LEMMA JobTick ==
    ASSUME OffersOutlast, NEW s, JobInv(s), s.at = "ended" => s.done,
           s.at \in {"running", "signing in", "presenting"} => s.left > 0,
           NEW j, j = [s EXCEPT !.age = Older(@, OfferTTL), !.left = IF @ > 0 THEN @ - 1 ELSE 0]
    PROVE  /\ JobInv(j)
           /\ j.at = s.at /\ j.round = s.round /\ j.call = s.call /\ j.done = s.done
           /\ j.exited = s.exited
<1> DEFINE older == Older(s.age, OfferTTL)
           less == IF s.left > 0 THEN s.left - 1 ELSE 0
<1>1. s \in JobState /\ s.age \in 0..OfferTTL + 1 /\ s.left \in Nat
    BY Zenon DEF JobInv, JobState
<1>2. older \in 0..OfferTTL + 1 /\ less \in Nat
    BY <1>1, ClockFits, Zenon
<1>3. s.at \in {"running", "signing in", "presenting"} => s.age <= OfferTTL /\ s.left > 0
    BY StillYoung, Zenon DEF JobInv
<1>4. StepTime \in Nat /\ StepTime + CallbackWait \in Nat /\ StepTime + CallbackWait + StepTime \in Nat
    BY TimesAdd, Zenon
<1>5. \A n \in Nat : s.at \in {"running", "signing in", "presenting"} /\ s.age + s.left <= n => older + less <= n
    BY <1>1, <1>3, ClockFits, Zenon
<1>6. j = [s EXCEPT !.age = older, !.left = less]
    BY Zenon
<1> HIDE DEF older, less
<1>7. /\ j \in JobState
      /\ j.at = s.at /\ j.round = s.round /\ j.age = older /\ j.left = less
      /\ j.call = s.call /\ j.applied = s.applied /\ j.done = s.done /\ j.exited = s.exited
    BY <1>1, <1>2, <1>6, ZenonT(60) DEF JobState
<1>8. JobInv(j)
    BY <1>4, <1>5, <1>7, Zenon DEF JobInv
<1> QED
    BY <1>7, <1>8, Zenon

LEMMA OffersTickKeeps ==
    ASSUME OffersOutlast, OffersInv, OffersTick
    PROVE  OffersInv'
<1>1. UNCHANGED <<channel, callbacks, answers, pending, returned>> /\ DOMAIN errors' = DOMAIN errors
    BY Zenon DEF OffersTick
<1>2. ChannelsOK' /\ SetsOK'
    BY <1>1, Zenon DEF OffersInv, SetsOK, ChannelsOK
<1>3. ASSUME NEW o \in Offer PROVE OfferInv(o)'
  <2>1. OfferInv(o) /\ JobInv(job[o])
    BY Zenon DEF OffersInv, OfferInv
  <2>2. /\ job[o].at = "ended" => job[o].done
        /\ job[o].at \in {"running", "signing in", "presenting"} => job[o].left > 0
    BY Zenon DEF OffersTick, Ends, Busy
  <2>3. \/ job'[o] = job[o]
        \/ job'[o] = [job[o] EXCEPT !.age = Older(@, OfferTTL), !.left = IF @ > 0 THEN @ - 1 ELSE 0]
    BY Zenon DEF OffersTick
  <2>4. /\ JobInv(job'[o])
        /\ job'[o].at = job[o].at /\ job'[o].round = job[o].round /\ job'[o].call = job[o].call
        /\ job'[o].done = job[o].done /\ job'[o].exited = job[o].exited
    <3>1. CASE job'[o] = job[o]
      BY <2>1, <3>1, Zenon
    <3>2. CASE job'[o] = [job[o] EXCEPT !.age = Older(@, OfferTTL),
                                        !.left = IF @ > 0 THEN @ - 1 ELSE 0]
      BY <2>1, <2>2, <3>2, JobTick, ZenonT(200)
    <3> QED
      BY <2>3, <3>1, <3>2, Zenon
  <2> QED
    BY <1>1, <2>1, <2>4, Zenon DEF OfferInv, HeldInv
<1>4. job' \in [Offer -> JobState]
  <2>1. job' = [o \in Offer |-> job'[o]]
    BY Zenon DEF OffersTick
  <2>2. \A o \in Offer : job'[o] \in JobState
    BY <1>3, Zenon DEF OfferInv, JobInv
  <2> QED
    BY <2>1, <2>2, Zenon
<1> QED
    BY <1>2, <1>3, <1>4, Zenon DEF OffersInv

LEMMA OffersStep ==
    ASSUME OneSignIn, OffersOutlast, OffersInv, [OffersNext]_offerVars
    PROVE  OffersInv'
<1>1. CASE UNCHANGED offerVars
    BY <1>1, Zenon DEF offerVars, OffersInv, OfferInv, ChannelsOK, SetsOK
<1>2. ASSUME NEW o \in Offer, JobStep(o) \/ CallStep(o) PROVE OffersInv'
    BY Zenon, <1>2, SignInAnsweredKeeps, PresentationAnsweredKeeps, TimedOutKeeps, ApplyKeeps,
       CompleteKeeps, GoroutineExitsKeeps, FlowEndsKeeps, CallTakesPromptKeeps,
       CallSeesOutcomeKeeps, Zenon DEF JobStep, CallStep
<1>3. CASE OffersNext
    BY Zenon, <1>2, <1>3, SubmitOfferKeeps, SignInStartsKeeps, PresentationAskedKeeps,
       BrowserReturnsKeeps, StreamTakesPromptKeeps, StreamClosesKeeps, OffersTickKeeps,
       Zenon DEF OffersNext
<1> QED
    BY <1>1, <1>3, Zenon

LEMMA OffersInvSound ==
    ASSUME OffersInv
    PROVE  OffersAreSound
<1>1. OffersTypeOK
    BY Zenon DEF OffersInv, OffersTypeOK, ChannelsOK, SetsOK
<1>2. RegisteredIsAwaited /\ OutcomeIsRecordedFirst /\ OutcomeIsKept /\ NoListenerLeft
    BY Zenon DEF OffersInv, SetsOK, OfferInv, HeldInv, JobInv, RegisteredIsAwaited,
       OutcomeIsRecordedFirst, OutcomeIsKept, NoListenerLeft, Ends
<1>3. CallbackAcceptedOnce
    BY Zenon DEF OffersInv, SetsOK, OfferInv, HeldInv, CallbackAcceptedOnce
<1> QED
    BY <1>1, <1>2, <1>3, Zenon DEF OffersAreSound

(***************************************************************************)
(* For any number of offers and event streams and any timeouts: a callback *)
(* is registered only while its job waits, is accepted once, the outcome   *)
(* is recorded before it is shown, the pending offer is still there when   *)
(* the job ends, and a finished job listens no more (runOffer,             *)
(* runAuthorizationCodeRequest, CompleteAuthorizationCodeCallback,         *)
(* trackPendingOffer). Flows have one sign-in, and pendingOfferTTL         *)
(* outlasts the requests before and after it and the wait.                 *)
(***************************************************************************)
THEOREM OffersSound ==
    ASSUME OneSignIn, OffersOutlast
    PROVE  OffersSpec => []OffersAreSound
<1>1. OffersInit => OffersInv
    BY OffersInvInit, Zenon
<1>2. OffersInv /\ [OffersNext]_offerVars => OffersInv'
    BY OffersStep, Zenon
<1>3. OffersInv => OffersAreSound
    BY OffersInvSound, Zenon
<1> QED
    BY <1>1, <1>2, <1>3, PTL DEF OffersSpec

================================================================================
