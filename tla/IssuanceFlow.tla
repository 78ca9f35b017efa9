------------------------------ MODULE IssuanceFlow -----------------------------
(***************************************************************************)
(* One credential issuance from the offer to the stored credential         *)
(* (internal/wallet: issuance.go, issuance_steps.go, issuance_authcode.go, *)
(* issuance_interactive.go).  Each step is one action.  What the issuer,   *)
(* the authorization server and the user answer is chosen when the wallet  *)
(* learns it; IssuanceRequests models the retries inside one request.      *)
(* A deviation from the specifications is refused in strict mode and       *)
(* reported in debug mode.                                                 *)
(***************************************************************************)
EXTENDS Naturals, Sequences

CONSTANTS
    AuthServers,  \* authorization servers an issuer can list
    MaxListed,    \* bound: how many it lists
    MaxRounds     \* rounds of an interactive authorization

Issuer == "issuer"           \* an issuer that is its own authorization server

ASSUME FlowAssumption == MaxListed \in Nat /\ MaxRounds \in Nat \ {0}

VARIABLES
    wallet,    \* its settings: strict, haip, vci11, redirect URI; the approved offer
    s,         \* the flow: its step, and what later steps need
    deviated,  \* whether a deviation of a peer was reported so far
    token      \* the token request, <<>> before it is sent

flowVars == <<wallet, s, deviated, token>>

Grant == {"pre-authorized", "code"}
Offers == [issuer : {"approved", "other"}, grant : Grant]
Wallets == [strict : BOOLEAN, vci11 : BOOLEAN, redirect : BOOLEAN, haip : BOOLEAN,
            approved : {<<>>} \cup {<<o>> : o \in {v \in Offers : v.issuer = "approved"}}]
NoEndpoints == [challenge |-> FALSE, authorize |-> FALSE, par |-> FALSE]
FlowStart == [at |-> "offer", offer |-> <<>>, server |-> "none", endpoint |-> "none",
          oauth |-> FALSE, grants |-> "unstated", has |-> NoEndpoints,
          pushed |-> FALSE, redirected |-> FALSE, round |-> 0, session |-> 0, given |-> 0,
          request |-> <<>>]
FailedFlow == [FlowStart EXCEPT !.at = "failed"]

(* reportDeviation, reportHAIPViolations, reportARFIssuanceFindings: D is  *)
(* what the step found, next what the flow is after it.                    *)
WarnOnly(D, next) ==  \* faulty: what is wrong with a received credential only warns
    /\ deviated' = (deviated \/ D # {})
    /\ s' = IF wallet.strict /\ D # {} /\ s.at # "import" THEN FailedFlow ELSE next
ReportDeviation(D, next) ==
    /\ deviated' = (deviated \/ D # {})
    /\ s' = IF wallet.strict /\ D # {} THEN FailedFlow ELSE next
Go(next) == s' = next /\ UNCHANGED deviated
FailFlow == Go(FailedFlow)
Unless(ok, step) == IF ok THEN step ELSE FailFlow

--------------------------------------------------------------------------------
(* resolveOffer reads the URI again.  The approved offer is kept when the  *)
(* answer is an error or another offer; fresh grants are taken.            *)
KeptOfferFresh(read, offer) ==  \* faulty: whatever is offered now
    IF read THEN <<offer>> ELSE wallet.approved
KeptOffer(read, offer) ==
    IF read /\ (wallet.approved = <<>> \/ wallet.approved[1].issuer = offer.issuer)
    THEN <<offer>> ELSE wallet.approved
ResolveOffer ==
    /\ s.at = "offer"
    /\ \E read \in BOOLEAN, offer \in Offers :
         LET kept == KeptOffer(read, offer) IN
         Unless(kept # <<>>, Go([s EXCEPT !.at = "metadata", !.offer = kept[1]]))
    /\ UNCHANGED <<wallet, token>>

(* chooseOfferConfiguration, then loadIssuerMetadata: the document names   *)
(* the issuer it was fetched for, and a signed one is validly signed.  An  *)
(* old signature and the findings of the ARF checks are deviations.        *)
Document == [signed : BOOLEAN, valid : BOOLEAN, fresh : BOOLEAN, named : BOOLEAN]
VerifySigned(d) == d.signed => d.valid
IdentifierMatches(d) == d.named
Stale(d) == d.signed /\ ~d.fresh
LoadIssuerMetadata ==
    /\ s.at = "metadata"
    /\ \E chosen, fetched, arf \in BOOLEAN, d \in Document :
         Unless(chosen /\ fetched /\ VerifySigned(d) /\ IdentifierMatches(d),
                ReportDeviation({x \in {"stale metadata"} : Stale(d)}
                                  \cup {x \in {"ARF issuer"} : arf}, [s EXCEPT !.at = "server"]))
    /\ UNCHANGED <<wallet, token>>

(* selectAuthorizationServer: the offer's hint has to be listed.  What a   *)
(* server's metadata states is m.                                          *)
Meta == [read : BOOLEAN, grants : {"unstated", "listed", "left out"}, tokenEndpoint : BOOLEAN]
Unread == [read |-> FALSE, grants |-> "unstated", tokenEndpoint |-> FALSE]
Listings == UNION {[1..n -> AuthServers] : n \in 0..MaxListed}
Listed(list) == {list[i] : i \in DOMAIN list}
Candidates(list) == IF Len(list) = 0 THEN {Issuer} ELSE Listed(list)
SelectServer(list, hint) ==
    IF hint = "" THEN IF Len(list) = 0 THEN Issuer ELSE list[1]
    ELSE IF hint \in Listed(list) THEN hint ELSE "none"
(* fallbackAuthorizationServer: the first other server that lists the      *)
(* grant, when the selected one leaves it out.                             *)
FallbackServer(list, selected, m) ==
    LET others == {i \in DOMAIN list : list[i] # selected /\ m[list[i]].grants = "listed"}
    IN IF m[selected].grants = "left out" /\ others # {}
       THEN {list[i] : i \in {j \in others : \A k \in others : j <= k}} ELSE {selected}
(* resolveTokenEndpoint: the server's, then the issuer's, then a guess.    *)
TokenEndpoint(list, server, m, fromIssuer) ==
    IF m[server].tokenEndpoint THEN server
    ELSE IF fromIssuer THEN Issuer
    ELSE IF Len(list) = 0 THEN Issuer ELSE list[1]
ChooseServer(list, hint, m, fromIssuer, endpoints) ==
    LET selected == SelectServer(list, hint)
    IN Unless(selected # "none",
         \E server \in FallbackServer(list, selected, m) :
           ReportDeviation(
             {d \in {"grant type"} : m[selected].grants = "left out"}
               \cup {d \in {"token endpoint"} : ~m[server].tokenEndpoint /\ ~fromIssuer}
               \cup {d \in {"credential endpoint"} : ~endpoints},
             [s EXCEPT !.at = "HAIP", !.server = server, !.oauth = m[server].read,
                       !.grants = m[server].grants,
                       !.endpoint = TokenEndpoint(list, server, m, fromIssuer)]))
SelectAuthorizationServer ==
    /\ s.at = "server"
    /\ \E list \in Listings : \E m \in [Candidates(list) -> {v \in Meta : v.read \/ v = Unread}],
          hint \in AuthServers \cup {""}, fromIssuer, endpoints \in BOOLEAN :
            ChooseServer(list, hint, m, fromIssuer, endpoints)
    /\ UNCHANGED <<wallet, token>>

(* ValidateHAIPIssuanceCompliance, for the endpoints f the server has.     *)
Endpoints == [challenge : BOOLEAN, authorize : BOOLEAN, par : BOOLEAN]
SupportsCodeFlow(f) ==
    IF s.grants = "unstated" THEN f.challenge \/ f.authorize ELSE s.grants = "listed"
HAIPFindings(f, https, algorithms) ==
    IF ~wallet.haip THEN {}
    ELSE {x \in {"https"} : ~https} \cup
         (IF s.offer.grant = "pre-authorized" THEN {}
          ELSE {x \in {"metadata"} : ~s.oauth}
               \cup {x \in {"code flow"} : s.oauth /\ ~SupportsCodeFlow(f)}
               \cup {x \in {"PAR"} : s.oauth /\ ~f.par /\ ~f.challenge}
               \cup {x \in {"algorithms"} : s.oauth /\ ~algorithms})

(* The HAIP checks, then the branches of processCredentialOffer: the       *)
(* transaction code is asked for before the grant is spent, and strict     *)
(* mode starts no code flow without the server's own metadata.             *)
CheckHAIP ==
    /\ s.at = "HAIP"
    /\ \E f \in Endpoints, https, algorithms, sameIssuer, txMissing \in BOOLEAN :
       LET D == HAIPFindings(f, https, algorithms)
           known == IF s.oauth THEN f ELSE NoEndpoints
           next(step) == [s EXCEPT !.at = step, !.has = known]
       IN IF s.offer.grant = "pre-authorized"
          THEN Unless(~txMissing, ReportDeviation(D, next("token")))
          ELSE Unless(wallet.strict => s.oauth /\ sameIssuer, ReportDeviation(D, next("client")))
    /\ UNCHANGED <<wallet, token>>

(* detectTokenEndpointAuthMethod, then processAuthorizationCodeOffer: what *)
(* the flow needs, and which of the two ways to a code it takes.           *)
Method == {"attestation", "private_key_jwt", "none", "public", "other"}
Rank == [x \in Method |-> CASE x = "attestation" -> 1 [] x = "private_key_jwt" -> 2
                            [] x \in {"none", "public"} -> 3 [] x = "other" -> 4]
DetectMethod(methods) ==
    IF methods = {} THEN {"none"} ELSE {x \in methods : \A y \in methods : Rank[x] <= Rank[y]}
CanRedirect == wallet.redirect /\ s.has.authorize
PrepareClient ==
    /\ s.at = "client"
    /\ \E scope \in BOOLEAN, methods \in SUBSET Method : \E method \in DetectMethod(methods) :
         LET interactive == s.has.challenge /\ wallet.vci11
         IN Unless(/\ interactive \/ CanRedirect
                   /\ method # "other" /\ scope,
              ReportDeviation({x \in {"client method"} : method = "public"},
                [s EXCEPT !.at = IF interactive THEN "challenge" ELSE "push"]))
    /\ UNCHANGED <<wallet, token>>

(* completeAuthorizationCodeIssuance: the code goes to the token endpoint. *)
WithCode(viaRedirect) ==
    [s EXCEPT !.at = "token", !.redirected = viaRedirect, !.has = NoEndpoints,
              !.pushed = FALSE, !.round = 0, !.session = 0, !.given = 0]

(* obtainInteractiveAuthorizationCode, one round: sessions are numbered as *)
(* the server gives them, f.given of them so far, and f.session is the     *)
(* newest one, which the next request carries.  0 is the empty string.     *)
FirstSession(f) ==  \* faulty: the session of the first answer is kept
    [f EXCEPT !.given = @ + 1, !.session = IF @ = 0 THEN f.given + 1 ELSE @]
TakeSession(f) == [f EXCEPT !.given = @ + 1, !.session = f.given + 1]
Rounds(n) == n < MaxRounds
(* authorizationChallengeCode, noteRedirectToWeb and                       *)
(* runAuthorizationInteraction: what the wallet does with an answer.       *)
ChallengeCode(alias) == ReportDeviation({d \in {"code alias"} : alias}, WithCode(FALSE))
RedirectToWeb(next, uri) ==
    Unless(CanRedirect, Go([next EXCEPT !.at = "push", !.pushed = uri]))
RunInteraction(next, kind) ==
    CASE next.session = 0 \/ kind = "other" -> FailFlow
      [] next.session # 0 /\ kind = "via web" ->
           Unless(CanRedirect, Go([next EXCEPT !.at = "via web"]))
      [] next.session # 0 /\ kind = "presentation" ->
           Unless(Rounds(next.round), Go([next EXCEPT !.at = "challenge"]))
ChallengeRequest ==
    /\ s.at = "challenge"
    /\ \E given, alias, uri \in BOOLEAN, kind \in {"presentation", "via web", "other"} :
       LET next == [(IF given THEN TakeSession(s) ELSE s) EXCEPT !.round = @ + 1]
       IN \/ ChallengeCode(alias)
          \/ RedirectToWeb(next, uri)
          \/ RunInteraction(next, kind)
          \/ FailFlow
    /\ UNCHANGED <<wallet, token>>

(* validateAuthorizationCodeResponse: what can be wrong with a response.   *)
ResponseDeviation == {"state", "iss"}

(* runAuthViaWebInteraction: the browser comes back with a code, with a    *)
(* session to go on with, or with neither.                                 *)
AuthViaWeb ==
    /\ s.at = "via web"
    /\ \E answer \in {"code", "session", "neither"}, D \in SUBSET ResponseDeviation :
         CASE answer = "neither" -> FailFlow
           [] answer = "code" -> ReportDeviation(D, WithCode(TRUE))
           [] answer = "session" ->
                Unless(Rounds(s.round),
                  ReportDeviation(D, [TakeSession(s) EXCEPT !.at = "challenge"]))
    /\ UNCHANGED <<wallet, token>>

(* The redirect flow: PAR unless the server pushed a request itself, then  *)
(* the authorization request in a browser or by a direct call.             *)
PushRequest ==
    /\ s.at = "push"
    /\ \E accepted \in BOOLEAN :
         Unless(accepted \/ s.pushed \/ ~s.has.par,
                Go([s EXCEPT !.at = "authorize", !.pushed = @ \/ s.has.par]))
    /\ UNCHANGED <<wallet, token>>
AuthorizationRequest ==
    /\ s.at = "authorize"
    /\ \E code \in BOOLEAN, D \in SUBSET ResponseDeviation : Unless(code, ReportDeviation(D, WithCode(TRUE)))
    /\ UNCHANGED <<wallet, token>>

(* requestAccessToken: the grant is spent.  checkTokenType wants a type:   *)
(* Bearer or DPoP.                                                         *)
TokenTypeFinding(known) == {d \in {"token type"} : ~known}
RequestToken ==
    /\ s.at = "token"
    /\ token' = <<[endpoint |-> s.endpoint, server |-> s.server, grants |-> s.grants,
                    redirect |-> s.redirected]>>
    /\ \E granted, known \in BOOLEAN :
         Unless(granted, ReportDeviation(TokenTypeFinding(known), [s EXCEPT !.at = "credential"]))
    /\ UNCHANGED wallet

(* buildCredentialResponseEncryptionRequest and prepareCredentialRequest-  *)
(* Body: each direction is offered or required, with or without a key the  *)
(* wallet can use.                                                         *)
Encryption == {[stated |-> FALSE, required |-> FALSE, usable |-> FALSE]}
              \cup [stated : {TRUE}, required : BOOLEAN, usable : BOOLEAN]
EncryptsRequest(req) == req.stated /\ req.usable
AsksEncryption(req, resp) == resp.stated /\ resp.usable /\ EncryptsRequest(req)
(* issuanceChallenge and proofSigningAlgFinding: an advertised nonce       *)
(* endpoint answers, and a list of proof algorithms has ES256.             *)
ChallengeFinding(endpoint, answered) == {d \in {"no c_nonce"} : endpoint /\ ~answered}
ProofFinding(listed, es256) == {d \in {"proof algorithm"} : listed /\ ~es256}
RequestFindings == {ChallengeFinding(endpoint, answered) \cup ProofFinding(listed, es256) :
                      endpoint, answered, listed, es256 \in BOOLEAN}
(* requestCredential.  issueWithToken takes a transaction_id to the        *)
(* deferred collection.                                                    *)
Delivery(answer) == IF answer = "transaction" THEN "deferred" ELSE "import"
CredentialRequest ==
    /\ s.at = "credential"
    /\ \E req, resp \in Encryption, D \in RequestFindings,
          answer \in {"credential", "transaction", "error"} :
         LET asks == AsksEncryption(req, resp)
             sends == EncryptsRequest(req)
         IN Unless((req.required => sends) /\ (resp.required => asks) /\ answer # "error",
              ReportDeviation(D, [s EXCEPT !.at = Delivery(answer),
                !.request = [encrypted |-> sends, asks |-> asks,
                             needed |-> req.required, wanted |-> resp.required]]))
    /\ UNCHANGED <<wallet, token>>

(* storeIssuedCredential: the checks of the received credentials and of    *)
(* the batch come before anything is stored.                               *)
Import ==
    /\ s.at = "import"
    /\ \E D \in SUBSET {"trust anchor", "batch"}, readable \in BOOLEAN :
         Unless(readable, ReportDeviation(D, [s EXCEPT !.at = "stored"]))
    /\ UNCHANGED <<wallet, token>>

--------------------------------------------------------------------------------
FlowInit ==
    /\ wallet \in Wallets
    /\ s = FlowStart
    /\ deviated = FALSE /\ token = <<>>

FlowEnded == s.at \in {"failed", "stored", "deferred"}
Done == FlowEnded /\ UNCHANGED flowVars

FlowStep ==
    \/ ResolveOffer \/ LoadIssuerMetadata \/ SelectAuthorizationServer \/ CheckHAIP
    \/ PrepareClient \/ ChallengeRequest \/ AuthViaWeb \/ PushRequest \/ AuthorizationRequest
    \/ RequestToken \/ CredentialRequest \/ Import
FlowNext == FlowStep \/ Done

FlowSpec == FlowInit /\ [][FlowNext]_flowVars

--------------------------------------------------------------------------------
Steps == {"offer", "metadata", "server", "HAIP", "client", "challenge", "via web", "push",
          "authorize", "token", "credential", "import", "deferred", "stored", "failed"}
Servers == AuthServers \cup {Issuer, "none"}
Grants == {"unstated", "listed", "left out"}
Requests == [encrypted : BOOLEAN, asks : BOOLEAN, needed : BOOLEAN, wanted : BOOLEAN]
Flow == [at : Steps, offer : Offers \cup {<<>>}, server : Servers, endpoint : Servers,
         oauth : BOOLEAN, grants : Grants, has : Endpoints, pushed : BOOLEAN,
         redirected : BOOLEAN, round : 0..MaxRounds, session : Nat, given : Nat,
         request : Requests \cup {<<>>}]

(* The flow's state has its type, and the rounds of an interactive         *)
(* authorization stay within the wallet's limit.                           *)
FlowTypeOK ==
    /\ wallet \in Wallets /\ s \in Flow /\ deviated \in BOOLEAN
    /\ token \in {<<>>} \cup {<<t>> : t \in [endpoint : Servers, server : Servers,
                                             grants : Grants, redirect : BOOLEAN]}

(* A wallet in strict mode stores or waits for a credential only if the    *)
(* issuer and the server deviated nowhere on the way there.                *)
StrictIsConformant == s.at \in {"stored", "deferred"} /\ wallet.strict => ~deviated

(* What was approved is what is issued: whatever the offer's URI answers   *)
(* the second time, the flow stays with the issuer the user approved.      *)
ApprovedIssuer ==
    s.offer # <<>> /\ wallet.approved # <<>> => s.offer.issuer = wallet.approved[1].issuer

(* Every request to the challenge endpoint carries the newest auth_session *)
(* the server gave, in an answer or through the browser, and only the      *)
(* first one carries none (obtainInteractiveAuthorizationCode).            *)
NewestSession ==
    s.at = "challenge" => s.session = s.given /\ (s.round > 0 => s.session > 0)

(* The browser is used only by a wallet with a redirect URI and with a     *)
(* server that has an authorization endpoint, and the token request        *)
(* repeats a redirect URI only then (runAuthViaWebInteraction,             *)
(* processAuthorizationCodeOffer).                                         *)
BrowserIsUsable ==
    /\ s.at \in {"via web", "push", "authorize"} => CanRedirect
    /\ token # <<>> => (token[1].redirect => wallet.redirect)

(* OID4VCI 8.2: an encrypted response is asked for only in an encrypted    *)
(* request, and what the issuer requires is done.                          *)
EncryptionIsConsistent ==
    s.request # <<>> => /\ s.request.asks => s.request.encrypted
                        /\ s.request.needed => s.request.encrypted
                        /\ s.request.wanted => s.request.asks

(* What the flow sends fits what it was given: the approved issuer, the    *)
(* newest session, the browser, the encryption the issuer supports.        *)
FlowIsConsistent ==
    FlowTypeOK /\ ApprovedIssuer /\ NewestSession /\ BrowserIsUsable /\ EncryptionIsConsistent

(* A strict wallet spends the grant only with a server whose metadata does *)
(* not leave out the grant type, at a token endpoint that this server or   *)
(* the issuer names (checkAuthorizationServerGrant, resolveTokenEndpoint). *)
GrantIsNotWasted ==
    token # <<>> /\ wallet.strict =>
        token[1].grants # "left out" /\ token[1].endpoint \in {token[1].server, Issuer}

(* Strict mode refuses a deviating issuer before it stores anything, and   *)
(* one that leaves out the grant type or the token endpoint before it      *)
(* spends the grant (reportDeviation, selectAuthorizationServer).          *)
StrictRefusesInTime == StrictIsConformant /\ GrantIsNotWasted

================================================================================
