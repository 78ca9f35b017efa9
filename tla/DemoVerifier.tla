------------------------------ MODULE DemoVerifier ------------------------------
(***************************************************************************)
(* The demo verifier (internal/demorp/verifier.go).  The page asks for a   *)
(* presentation with a form, the wallet posts a response, and the page     *)
(* polls for the verdict.  A response is verified without the mutex, one   *)
(* credential query after the other.                                       *)
(*                                                                         *)
(* A presentation is what the checks tell apart: its format and type, the  *)
(* results of the shared credential checks (internal/validate), the        *)
(* request it was signed for and whether it has the requested claims.      *)
(***************************************************************************)
EXTENDS Naturals, FiniteSets, Sequences, SequencesExt

CONSTANTS
    Request,       \* requestState ids, random
    Call,          \* responses handled at the same time
    EntryTTL, MaxEntries,
    Setups         \* [name -> the pages and wallets of a behaviour]

\* A setup has its requests and calls, the forms its pages ask with, the
\* responses its wallets post, and a bound on the clock (time).

VARIABLES
    setup,      \* which setup
    now,
    req,        \* [Request -> requestState]
    requests,   \* the map
    call,       \* [Call -> a response being verified]
    told        \* [Request -> what the page was told last]

vars == <<setup, now, req, requests, call, told>>

--------------------------------------------------------------------------------
(* The credential queries of a form, in order.  A national PID type has no *)
(* mdoc form, and the ticket exists as an SD-JWT only.                     *)
Query(id, format, type, multiple) ==
    [id |-> id, format |-> format, type |-> type, multiple |-> multiple]
WantsSDJWT(form) == form.format \in {"both", "sd-jwt"}
WantsMDOC(form) == form.format \in {"both", "mdoc"} /\ form.type = "pid" /\ form.vct = "pid"

Queries(form) ==
    IF form.type = "custom" THEN form.credentials
    ELSE (IF WantsSDJWT(form)
          THEN <<Query(form.type, "sd-jwt", form.vct, form.multiple)>> ELSE <<>>)
      \o (IF WantsMDOC(form) THEN <<Query("pid_mdoc", "mdoc", "pid", form.multiple)>> ELSE <<>>)
      \o (IF form.ticket # "" THEN <<Query("ticket", "sd-jwt", "ticket", form.multiple)>> ELSE <<>>)

Ids(form) == {Queries(form)[i].id : i \in DOMAIN Queries(form)}

(* The credential sets: one PID format is enough, and a ticket goes with   *)
(* the SD-JWT PID (combined) or is a set of its own (optional).            *)
SetsTicketFirst(form) ==  \* faulty: the optional ticket replaces the PID's set
    IF form.type = "pid" /\ form.ticket = "optional"
    THEN {[options |-> {{"ticket"}}, optional |-> TRUE]} ELSE {}
Sets(form) ==
    LET pidOptions == {{id} : id \in Ids(form) \ {"ticket"}} IN
    CASE form.type # "pid" -> {}
      [] form.ticket = "combined" ->
            {[options |-> pidOptions \cup {{"pid", "ticket"}}, optional |-> FALSE]}
      [] form.ticket = "optional" ->
            {[options |-> pidOptions, optional |-> FALSE],
             [options |-> {{"ticket"}}, optional |-> TRUE]}
      [] OTHER -> IF Len(Queries(form)) > 1
                  THEN {[options |-> pidOptions, optional |-> FALSE]} ELSE {}

(* The forms handleCreateRequest and createCustomRequest refuse.           *)
Refused(form) ==
    \/ form.type = "custom" /\ form.credentials = <<>>
    \/ form.type = "ticket" /\ (form.ticket # "" \/ ~WantsSDJWT(form))
    \/ form.type = "pid" /\ form.vct # "pid" /\ form.format = "mdoc"
    \/ form.type = "pid" /\ form.ticket = "combined" /\ ~WantsSDJWT(form)

--------------------------------------------------------------------------------
(* unsatisfied: without sets every query must be answered, with them one   *)
(* option of each required set.                                            *)
Satisfied(form, answered) ==
    IF Sets(form) = {} THEN Ids(form) \subseteq answered
    ELSE \A set \in Sets(form) : set.optional \/ \E option \in set.options : option \subseteq answered

(* credtype.Answers: a national PID answers a query for the base type.  An *)
(* mdoc is compared by its doctype.                                        *)
Answers(type, wanted) == type = wanted \/ (type = "pid_de" /\ wanted = "pid")

(* checklist.credential: the signature must pass, another deciding check   *)
(* may be skipped, and a check that does not decide only warns.            *)
Accepts(p) == p.checks["signature"] = "pass" /\ p.checks["status"] # "fail"

(* verifySDJWTEntry: the key binding names the request, and every          *)
(* requested claim is disclosed.                                           *)
VerifySDJWTEntry(r, q, p) ==
    /\ p.format = "sd-jwt"
    /\ Answers(p.type, q.type)
    /\ Accepts(p)
    /\ p.for = r
    /\ p.claims

(* verifyMDOCPresentation: the doctype is compared as it is, and the       *)
(* holder signs the session transcript of the request.                     *)
VerifyMDOCPresentation(r, q, p) ==
    /\ p.format = "mdoc"
    /\ p.type = q.type
    /\ Accepts(p)
    /\ p.for = r
    /\ p.claims

VerifyEntry(r, q, p) ==
    IF q.format = "mdoc" THEN VerifyMDOCPresentation(r, q, p) ELSE VerifySDJWTEntry(r, q, p)

--------------------------------------------------------------------------------
NoRequest == [form |-> "none", status |-> "none", answered |-> FALSE, shown |-> <<>>,
              verified |-> <<>>, expires |-> 0]
Idle == [pc |-> "idle", of |-> "none", resp |-> "none", at |-> 0, ok |-> FALSE]

Init ==
    /\ setup \in DOMAIN Setups
    /\ now = 0
    /\ req = [r \in Request |-> NoRequest]
    /\ requests = {}
    /\ call = [c \in Call |-> Idle]
    /\ told = [r \in Request |-> "nothing"]

(* finalizeRequest and deliverUnsignedRequest prune, make room and store.  *)
CreateRequest(r, form) ==
    /\ req[r].status = "none"
    /\ ~Refused(form)
    /\ req' = [req EXCEPT ![r] = [NoRequest EXCEPT !.form = form, !.status = "pending",
                                                   !.expires = now + EntryTTL]]
    /\ LET live == {q \in requests : now <= req[q].expires} IN
        \/ Cardinality(live) < MaxEntries /\ requests' = live \cup {r}
        \/ /\ Cardinality(live) = MaxEntries
           /\ \E out \in live :
                /\ \A q \in live : req[out].expires <= req[q].expires
                /\ requests' = (live \ {out}) \cup {r}
    /\ UNCHANGED <<now, call, told>>

(* handlePresentationResponse takes a request's only answer.               *)
ReceiveAgain(c, r, resp) ==  \* faulty: an answered request takes another response
    /\ call[c].pc = "idle" /\ r \in requests /\ now <= req[r].expires
    /\ req' = [req EXCEPT ![r].answered = TRUE]
    /\ call' = [call EXCEPT ![c] = [pc |-> "decrypt", of |-> r, resp |-> resp, at |-> 1, ok |-> TRUE]]
    /\ UNCHANGED <<now, requests, told>>
ReceiveResponse(c, r, resp) ==
    /\ call[c].pc = "idle" /\ r \in requests
    /\ \/ /\ now <= req[r].expires /\ ~req[r].answered
          /\ req' = [req EXCEPT ![r].answered = TRUE]
          /\ call' = [call EXCEPT ![c] =
                [pc |-> "decrypt", of |-> r, resp |-> resp, at |-> 1, ok |-> TRUE]]
          /\ UNCHANGED requests
       \/ /\ now > req[r].expires
          /\ requests' = requests \ {r}
          /\ UNCHANGED <<req, call>>
    /\ UNCHANGED <<now, told>>

(* decryptResponse: the state inside the JWE must name the request.  Then  *)
(* verifyPresentation looks at the query ids of the vp_token.              *)
Readable(c) ==
    LET r == call[c].of
        token == call[c].resp.token
    IN  /\ call[c].resp.state = r
        /\ DOMAIN token \subseteq Ids(req[r].form)
        /\ Satisfied(req[r].form, {id \in DOMAIN token : token[id] # <<>>})
DecryptResponse(c) ==
    /\ call[c].pc = "decrypt"
    /\ call' = [call EXCEPT ![c].pc = IF Readable(c) THEN "verify" ELSE "finish", ![c].ok = Readable(c)]
    /\ UNCHANGED <<now, req, requests, told>>

(* One turn of verifyPresentation's loop.  The first presentation is kept  *)
(* for the decoder, and the one that fails in its place.                   *)
VerifyQuery(c) ==
    /\ call[c].pc = "verify"
    /\ LET r == call[c].of
           q == Queries(req[r].form)[call[c].at]
           ps == IF q.id \in DOMAIN call[c].resp.token THEN call[c].resp.token[q.id] ELSE <<>>
           bad == SelectInSeq(ps, LAMBDA p : ~VerifyEntry(r, q, p))
           fails == bad # 0 \/ (~q.multiple /\ Len(ps) > 1)
           last == call[c].at = Len(Queries(req[r].form))
       IN  /\ req' = [req EXCEPT ![r].shown =
                CASE bad # 0 /\ (q.multiple \/ Len(ps) = 1) -> <<ps[bad]>>
                  [] ps # <<>> /\ @ = <<>> -> <<ps[1]>>
                  [] OTHER -> @]
           /\ call' = [call EXCEPT ![c].ok = ~fails,
                                   ![c].pc = IF fails \/ last THEN "finish" ELSE "verify",
                                   ![c].at = IF fails \/ last THEN @ ELSE @ + 1]
    /\ UNCHANGED <<now, requests, told>>

(* finishRequest writes the verdict, also of a request that was pruned.    *)
FinishRequest(c) ==
    /\ call[c].pc = "finish"
    /\ req' = [req EXCEPT ![call[c].of].status = IF call[c].ok THEN "verified" ELSE "failed",
                          ![call[c].of].verified = IF call[c].ok THEN call[c].resp.token ELSE <<>>]
    /\ call' = [call EXCEPT ![c] = Idle]
    /\ UNCHANGED <<now, requests, told>>

(* handleRequestStatus.                                                    *)
PollStatus(r) ==
    /\ req[r].status # "none"
    /\ told' = [told EXCEPT ![r] =
            IF r \notin requests THEN "unknown"
            ELSE IF req[r].status = "pending" /\ now > req[r].expires THEN "expired"
            ELSE req[r].status]
    /\ UNCHANGED <<now, req, requests, call>>

(* Handlers of the demo issuer prune the same map.                         *)
PruneLocked ==
    /\ requests' = {r \in requests : now <= req[r].expires}
    /\ UNCHANGED <<now, req, call, told>>

Tick ==
    /\ now < Setups[setup].time
    /\ now' = now + 1
    /\ UNCHANGED <<req, requests, call, told>>

Handle(c) == DecryptResponse(c) \/ VerifyQuery(c) \/ FinishRequest(c)

Next ==
    /\ \/ \E r \in Setups[setup].requests, form \in Setups[setup].forms : CreateRequest(r, form)
       \/ \E c \in Setups[setup].calls, r \in Request, resp \in Setups[setup].responses :
             ReceiveResponse(c, r, resp)
       \/ \E c \in Call : Handle(c)
       \/ \E r \in Request : PollStatus(r)
       \/ PruneLocked
       \/ Tick
    /\ UNCHANGED setup

(* A handler that has a response runs to its end.                          *)
Spec == Init /\ [][Next]_vars /\ \A c \in Call : WF_vars(Handle(c) /\ UNCHANGED setup)

--------------------------------------------------------------------------------
TypeOK ==
    /\ now \in 0..Setups[setup].time
    /\ \A r \in Request :
        /\ req[r].status \in {"none", "pending", "verified", "failed"}
        /\ req[r].answered \in BOOLEAN /\ Len(req[r].shown) <= 1
    /\ requests \subseteq {r \in Request : req[r].status # "none"}
    /\ \A c \in Call : /\ call[c].pc \in {"idle", "decrypt", "verify", "finish"}
                       /\ call[c].pc = "verify" => call[c].at \in DOMAIN Queries(req[call[c].of].form)

(* A verified request was answered for itself: every presentation was      *)
(* signed for it, has a passed signature and the type of its query, and    *)
(* a query that does not take several got one.                             *)
VerifiedIsBound ==
    \A r \in Request : req[r].status = "verified" =>
        \A i \in DOMAIN Queries(req[r].form) :
            LET q == Queries(req[r].form)[i] IN
            q.id \in DOMAIN req[r].verified =>
                /\ \A p \in ToSet(req[r].verified[q.id]) :
                    /\ p.for = r /\ p.format = q.format
                    /\ p.checks["signature"] = "pass" /\ p.checks["status"] # "fail"
                    /\ p.type = q.type \/ p.type = "pid_de"
                /\ Len(req[r].verified[q.id]) > 1 => q.multiple

(* What the page asked for was presented: a PID request ends verified only *)
(* with a PID, of the national type where one was asked for, and a ticket  *)
(* request only with a ticket, whatever the form says of the other one.    *)
VerifiedHoldsThePID ==
    \A r \in Request : req[r].status = "verified" /\ req[r].form.type \in {"pid", "ticket"} =>
        \E id \in DOMAIN req[r].verified \cap {req[r].form.type, "pid_mdoc"} :
            \E p \in ToSet(req[r].verified[id]) :
                /\ req[r].form.type = "ticket" => p.type = "ticket"
                /\ req[r].form.type = "pid" => p.type \in {"pid", "pid_de"}
                /\ req[r].form.vct = "pid_de" => p.type = "pid_de"

(* A verified request got what it asked for, presented for it              *)
(* (verifyResponse, checkCredentialSets).                                  *)
VerifiedIsWhatWasAsked == TypeOK /\ VerifiedIsBound /\ VerifiedHoldsThePID

(* The first response decides: a verdict never changes, and what the       *)
(* decoder shows of a decided request stays (answered).                    *)
VerdictStays ==
    [][\A r \in Request : req[r].status \in {"verified", "failed"} =>
        req'[r].status = req[r].status /\ req'[r].shown = req[r].shown]_vars

(* A response that was taken gets a verdict, also when it cannot be        *)
(* decrypted, its verification fails or its request is pruned meanwhile.   *)
AnswersAreDecided ==
    \A r \in Request : req[r].answered ~> req[r].status \in {"verified", "failed"}

(* Every response that was taken gets a verdict, and the verdict is final. *)
VerdictsAreFinal == VerdictStays /\ AnswersAreDecided
================================================================================
