------------------------------- MODULE OfferFlows ------------------------------
(***************************************************************************)
(* Credential offers on a running wallet (internal/wallet/server_offers.go)*)
(* and what connects a job with the people around it: the sign-in prompts  *)
(* and errors of wallet_events.go and the callbacks of                     *)
(* authcode_callback.go.  Every offer is run by a goroutine.  The call that*)
(* submitted it returns when the job ends or when a sign-in prompt comes   *)
(* in; the job then goes on, and its pending offer is polled.  A job       *)
(* has up to MaxSignIns interactions: a sign-in in a browser, which comes  *)
(* back through /callback, or a presentation the user is asked for.  A     *)
(* prompt goes to every subscriber: the open event streams and the calls   *)
(* that wait for their flows.                                              *)
(***************************************************************************)
EXTENDS Naturals, FiniteSets, Sequences

CONSTANTS
    Offer,            \* the offers submitted
    Stream,           \* event streams of open browser tabs
    Owners,           \* [Offer \cup Stream -> browser ID, Unowned without one]
    Unowned,
    MaxSignIns,       \* interactions of one job (maxInteractiveRounds)
    ChannelSize,      \* prompts a subscriber's channel holds
    MaxStoredErrors,  \* errors kept for browsers that reload
    ErrorRetention,   \* how long an error is kept
    CallbackWait,     \* how long a job waits for a sign-in or a presentation
    StepTime,         \* how long the requests between two waits take
    OfferTTL          \* how long a pending offer is kept

ASSUME OffersAssumption ==
    /\ MaxSignIns \in Nat /\ ChannelSize \in Nat
    /\ CallbackWait \in Nat /\ StepTime \in Nat /\ OfferTTL \in Nat

VARIABLES
    job,       \* [Offer -> its goroutine and the call that waits for it;
                \*  age since it began, left until its step has timed out]
    channel,    \* [subscribers -> the prompts in their channels]
    callbacks,  \* offers whose state is registered in authCodeCallbacks
    answers,    \* sign-ins whose callback is in the job's channel
    pending,    \* offers pendingOffers holds
    errors,     \* [owners with a stored error -> its age]
    opened,     \* [Stream -> sign-ins the browser was told to open]
    returned    \* sign-ins whose callback the wallet accepted

offerVars == <<job, channel, callbacks, answers, pending, errors, opened, returned>>

Subscriber == Offer \cup Stream
SignIn == Offer \X (1..MaxSignIns)
Result == {"issued", "deferred", "failed"}
Owner == {Owners[s] : s \in Subscriber} \cup {Unowned}

Ends(o) == job[o].at = "ended"
Busy(o) == job[o].at \in {"running", "signing in", "presenting"}
Waiting(o) == job[o].at \in {"signing in", "presenting"}
Fits(s) == Len(channel[s]) < ChannelSize

--------------------------------------------------------------------------------
(* NotifyError stores one error per owner and drops the oldest at the      *)
(* limit; ClearLastError forgets the caller's own error and the unowned    *)
(* one.                                                                    *)
Oldest(held) == CHOOSE w \in held : \A v \in held : errors[w] >= errors[v]
NotifyError(o) ==
    LET w == Owners[o]
        held == {v \in DOMAIN errors : errors[v] <= ErrorRetention}
        kept == IF w \notin held /\ Cardinality(held) >= MaxStoredErrors
                THEN held \ {Oldest(held)} ELSE held
    IN errors' = [v \in kept \cup {w} |-> IF v = w THEN 0 ELSE errors[v]]
ClearLastError(o) ==
    errors' = [v \in DOMAIN errors \ {Owners[o], Unowned} |-> errors[v]]

(* handleOfferAPI and runOffer: the call subscribes and waits, the job     *)
(* starts.                                                                 *)
SubmitOffer(o) ==
    /\ job[o].at = "none"
    /\ ClearLastError(o)
    /\ job' = [job EXCEPT ![o] = [@ EXCEPT !.at = "running", !.call = "waiting",
                                            !.age = 0, !.left = StepTime]]
    /\ channel' = [s \in DOMAIN channel \cup {o} |-> IF s = o THEN <<>> ELSE channel[s]]
    /\ UNCHANGED <<callbacks, answers, pending, opened, returned>>

(* runAuthorizationCodeRequest registers the callback under the request's  *)
(* state before the URL is shown, and gives the prompt to everyone who     *)
(* listens and has room for it.  Without a listener the job fails.         *)
Delivered == \E s \in DOMAIN channel : Fits(s)
SignInStarts(o) ==
    /\ job[o].at = "running" /\ job[o].round < MaxSignIns
    /\ LET url == <<o, job[o].round + 1>> IN
       IF Delivered
       THEN /\ job' = [job EXCEPT ![o] = [@ EXCEPT !.at = "signing in", !.round = job[o].round + 1,
                                                    !.left = CallbackWait]]
            /\ callbacks' = callbacks \cup {o}
            /\ channel' = [s \in DOMAIN channel |->
                 IF Fits(s) THEN Append(channel[s], url) ELSE channel[s]]
       ELSE /\ job' = [job EXCEPT ![o] = [@ EXCEPT !.at = "ended", !.result = "failed"]]
            /\ UNCHANGED <<callbacks, channel>>
    /\ UNCHANGED <<answers, pending, errors, opened, returned>>

(* awaitInteractivePresentationConsent: the user is asked in the wallet.   *)
PresentationAsked(o) ==
    /\ job[o].at = "running" /\ job[o].round < MaxSignIns
    /\ job' = [job EXCEPT ![o] = [@ EXCEPT !.at = "presenting", !.round = job[o].round + 1,
                                            !.left = CallbackWait]]
    /\ UNCHANGED <<channel, callbacks, answers, pending, errors, opened, returned>>
PresentationAnswered(o) ==
    /\ job[o].at = "presenting"
    /\ job' = [job EXCEPT ![o] = [@ EXCEPT !.at = "running", !.left = StepTime]]
    /\ UNCHANGED <<channel, callbacks, answers, pending, errors, opened, returned>>

(* CompleteAuthorizationCodeCallback: the browser comes back with the      *)
(* state of the job, which is the same for all its sign-ins, possibly      *)
(* more than once.                                                         *)
Known(url) ==
    \/ \E s \in Stream : url \in opened[s]
    \/ \E o \in Offer : job[o].url = url
Callback(url) ==
    /\ callbacks' = callbacks \ {url[1]}
    /\ answers' = answers \cup {url}
BrowserReturns(url) ==
    /\ Known(url)
    /\ url[1] \in callbacks   \* otherwise the browser is told there is no such job
    /\ Callback(url)
    /\ returned' = returned \cup {url}
    /\ UNCHANGED <<job, channel, pending, errors, opened>>

(* The job takes the callback, or its timer fires.  Either way the         *)
(* callback is no longer registered.                                       *)
AnswersTo(o) == {url \in answers : url[1] = o}
SignInAnswered(o) ==
    /\ job[o].at = "signing in" /\ AnswersTo(o) # {}
    /\ answers' = answers \ AnswersTo(o)
    /\ callbacks' = callbacks \ {o}
    /\ job' = [job EXCEPT ![o] = [@ EXCEPT !.at = "running", !.left = StepTime]]
    /\ UNCHANGED <<channel, pending, errors, opened, returned>>
Unregister(o) ==
    /\ answers' = answers \ AnswersTo(o)  \* the channel goes with the job
    /\ callbacks' = callbacks \ {o}
WaitForSignIn(o) ==  \* faulty: only a presentation has a timer
    /\ job[o].at = "presenting" /\ job[o].left = 0
    /\ job' = [job EXCEPT ![o] = [@ EXCEPT !.at = "ended", !.result = "failed"]]
    /\ UNCHANGED <<channel, callbacks, answers, pending, errors, opened, returned>>
TimedOut(o) ==
    /\ Waiting(o) /\ job[o].left = 0
    /\ Unregister(o)
    /\ job' = [job EXCEPT ![o] = [@ EXCEPT !.at = "ended", !.result = "failed"]]
    /\ UNCHANGED <<channel, pending, errors, opened, returned>>

(* ProcessCredentialOfferWithOptions returns.                              *)
FlowEnds(o, result) ==
    /\ job[o].at = "running"
    /\ job' = [job EXCEPT ![o] = [@ EXCEPT !.at = "ended", !.result = result]]
    /\ UNCHANGED <<channel, callbacks, answers, pending, errors, opened, returned>>

(* The goroutine of runOffer: the outcome is recorded (an error for the    *)
(* owner's browser, or the wallet saved), then shown on the pending offer, *)
(* then the call is released and the subscription ends.                    *)
CompleteFirst(o) ==  \* faulty: the outcome is shown before it is recorded
    /\ Ends(o) /\ ~job[o].done
    /\ job' = [job EXCEPT ![o].done = TRUE]
    /\ errors' = errors
ApplyOfferOutcome(o) ==
    /\ Ends(o) /\ ~job[o].applied
    /\ job' = [job EXCEPT ![o].applied = TRUE]
    /\ IF job[o].result = "failed" THEN NotifyError(o) ELSE errors' = errors
Apply(o) ==
    /\ ApplyOfferOutcome(o)
    /\ UNCHANGED <<channel, callbacks, answers, pending, opened, returned>>
Complete(o) ==
    /\ Ends(o) /\ job[o].applied /\ ~job[o].done
    /\ job' = [job EXCEPT ![o].done = TRUE]
    /\ UNCHANGED <<channel, callbacks, answers, pending, errors, opened, returned>>
Unsubscribe(o) == channel' = [s \in DOMAIN channel \ {o} |-> channel[s]]
GoroutineExits(o) ==
    /\ Ends(o) /\ job[o].done /\ ~job[o].exited
    /\ job' = [job EXCEPT ![o].exited = TRUE]
    /\ Unsubscribe(o)
    /\ UNCHANGED <<callbacks, answers, pending, errors, opened, returned>>

(* The call in runOffer: the first prompt in its channel is returned with  *)
(* a pending offer (trackPendingOffer drops the expired ones), or the      *)
(* outcome.  A select with both ready takes either.                        *)
TrackPendingOffer(o) ==
    {p \in pending : job[p].age <= OfferTTL} \cup {o}
CallTakesPrompt(o) ==
    /\ job[o].call = "waiting" /\ o \in DOMAIN channel /\ channel[o] # <<>>
    /\ job' = [job EXCEPT ![o] = [@ EXCEPT !.call = "sign-in", !.url = Head(channel[o])]]
    /\ channel' = [channel EXCEPT ![o] = Tail(@)]
    /\ pending' = TrackPendingOffer(o)
    /\ UNCHANGED <<callbacks, answers, errors, opened, returned>>
CallSeesOutcome(o) ==
    /\ job[o].call = "waiting" /\ job[o].done
    /\ job' = [job EXCEPT ![o].call = job[o].result]
    /\ UNCHANGED <<channel, callbacks, answers, pending, errors, opened, returned>>

(* handleRequestStream: only the browser that owns the job opens the URL.  *)
StreamTakesPrompt(s) ==
    /\ s \in DOMAIN channel /\ channel[s] # <<>>
    /\ LET url == Head(channel[s]) IN
       opened' = [opened EXCEPT ![s] =
           IF Owners[s] = Owners[url[1]] /\ Owners[s] # Unowned THEN @ \cup {url} ELSE @]
    /\ channel' = [channel EXCEPT ![s] = Tail(@)]
    /\ UNCHANGED <<job, callbacks, answers, pending, errors, returned>>
StreamCloses(s) ==
    /\ s \in DOMAIN channel
    /\ channel' = [t \in DOMAIN channel \ {s} |-> channel[t]]
    /\ UNCHANGED <<job, callbacks, answers, pending, errors, opened, returned>>

(* Timers fire on time, and the requests of a running job have timeouts.   *)
Older(a, most) == IF a > most THEN a ELSE a + 1
OffersTick ==
    /\ \A o \in Offer : Ends(o) => job[o].done
    /\ \A o \in Offer : Busy(o) => job[o].left > 0
    /\ job' = [o \in Offer |->
         IF Busy(o) \/ o \in pending
         THEN [job[o] EXCEPT !.age = Older(@, OfferTTL), !.left = IF @ > 0 THEN @ - 1 ELSE 0]
         ELSE job[o]]
    /\ errors' = [v \in DOMAIN errors |-> Older(errors[v], ErrorRetention)]
    /\ UNCHANGED <<channel, callbacks, answers, pending, opened, returned>>

--------------------------------------------------------------------------------
OffersInit ==
    /\ job = [o \in Offer |->
         [at |-> "none", call |-> "none", round |-> 0, result |-> "none", url |-> <<>>,
          applied |-> FALSE, done |-> FALSE, exited |-> FALSE, age |-> 0, left |-> 0]]
    /\ channel = [s \in Stream |-> <<>>]
    /\ callbacks = {} /\ answers = {} /\ pending = {} /\ returned = {}
    /\ errors = [v \in {} |-> 0]
    /\ opened = [s \in Stream |-> {}]

JobStep(o) ==
    \/ SignInAnswered(o) \/ PresentationAnswered(o) \/ TimedOut(o)
    \/ Apply(o) \/ Complete(o) \/ GoroutineExits(o)
    \/ \E result \in Result : FlowEnds(o, result)
CallStep(o) == CallTakesPrompt(o) \/ CallSeesOutcome(o)

OffersNext ==
    \/ \E o \in Offer : SubmitOffer(o) \/ SignInStarts(o) \/ PresentationAsked(o)
                        \/ JobStep(o) \/ CallStep(o)
    \/ \E url \in SignIn : BrowserReturns(url)
    \/ \E s \in Stream : StreamTakesPrompt(s) \/ StreamCloses(s)
    \/ OffersTick

OffersSpec == OffersInit /\ [][OffersNext]_offerVars

(* Something goes on while a goroutine or a handler can, or the clock can  *)
(* move.  Each takes a bounded number of steps, so none is left behind.    *)
(* Nothing is assumed of users, browsers and streams.                      *)
OffersGoOn == OffersTick \/ \E o \in Offer : JobStep(o) \/ CallStep(o)
OffersFairness == WF_offerVars(OffersGoOn)

--------------------------------------------------------------------------------
JobState ==
    [at : {"none", "running", "signing in", "presenting", "ended"},
     call : {"none", "waiting", "sign-in"} \cup Result, round : 0..MaxSignIns,
     result : Result \cup {"none"}, url : SignIn \cup {<<>>}, applied : BOOLEAN,
     done : BOOLEAN, exited : BOOLEAN, age : 0..OfferTTL + 1, left : Nat]
OffersTypeOK ==
    /\ job \in [Offer -> JobState]
    /\ \A s \in DOMAIN channel : /\ s \in Subscriber
                                 /\ channel[s] \in Seq(SignIn) /\ Len(channel[s]) <= ChannelSize
    /\ callbacks \subseteq Offer /\ answers \subseteq SignIn /\ pending \subseteq Offer
    /\ DOMAIN errors \subseteq Owner

(* A callback is registered only while its job waits for a sign-in:        *)
(* RegisterAuthorizationCodeCallback's undo runs on every way out of       *)
(* runAuthorizationCodeRequest, so a browser that comes back late is told  *)
(* so and revives nothing.                                                 *)
RegisteredIsAwaited == \A o \in callbacks : job[o].at = "signing in"

(* CompleteAuthorizationCodeCallback accepts a sign-in once: a reloaded    *)
(* callback page is told that no job waits for it.  (A job keeps its       *)
(* state, so this is about flows with one sign-in.)                        *)
CallbackAcceptedOnce == \A url \in returned : url[1] \notin callbacks

(* Whoever polls a pending offer and reads its outcome finds the wallet    *)
(* saved or the error stored: complete comes after applyOfferOutcome.      *)
OutcomeIsRecordedFirst == \A o \in Offer : job[o].done => job[o].applied

(* pendingOfferTTL outlasts a job with one sign-in: a caller that was      *)
(* given a pending offer still finds it when the job ends.                 *)
OutcomeIsKept ==
    \A o \in Offer : Ends(o) /\ ~job[o].done /\ job[o].call = "sign-in" => o \in pending

(* A finished job listens no more: its subscription would fill up and      *)
(* count as a browser that can open the URL.                               *)
NoListenerLeft == \A o \in Offer : job[o].exited => o \notin DOMAIN channel

(* What a flow registers, records and listens to fits where it is          *)
(* (runOffer, runAuthorizationCodeRequest).                                *)
OffersAreSound ==
    /\ OffersTypeOK /\ RegisteredIsAwaited /\ CallbackAcceptedOnce
    /\ OutcomeIsRecordedFirst /\ OutcomeIsKept /\ NoListenerLeft

(* Every offer's goroutine ends and every call is answered, whatever users *)
(* and browsers do: every wait has a timer, and the call sees the outcome  *)
(* or a prompt (runOffer, handleOfferAPI).                                 *)
Unfinished(o) == job[o].at # "none" /\ (~job[o].done \/ job[o].call = "waiting")
OffersEnd == (\E o \in Offer : Unfinished(o)) ~> (\A o \in Offer : ~Unfinished(o))

(* The sign-in URL a call is given is a URL of its own job.                *)
OwnSignInURL == \A o \in Offer : job[o].url # <<>> => job[o].url[1] = o

================================================================================
