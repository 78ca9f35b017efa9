---------------------------- MODULE AuthRequests ----------------------------
(***************************************************************************)
(* The wallet answers OpenID4VP authorization requests: GET or POST        *)
(* /authorize, POST /api/presentations and the Digital Credentials API.    *)
(* Requests run concurrently.  They share the wallet's settings, which may *)
(* change while a consent dialog is open, its credentials, and the error   *)
(* that /api/next-error puts in place of the next answer.                  *)
(*                                                                         *)
(* RequestChecks reads and judges a request; Dcql and ClaimPaths choose    *)
(* credentials and claims, of which this module keeps whether the formats  *)
(* asked for are held.                                                     *)
(***************************************************************************)
EXTENDS RequestChecks, TLC

CONSTANTS
    Cases,          \* a sequence of arrivals, which run concurrently, and the
                    \* settings of the wallet
    MaxChanges      \* how often settings, credentials or the override change

VARIABLES
    arrival,        \* what arrives as each request
    settings, held, \* the wallet's settings, the credential formats it holds
    nextError,      \* the override is armed
    armed,          \* how often it was armed
    changes,
    at,             \* where each handler is
    req, judged,    \* the parsed request, the settings it was judged under
    findings, dialog,   \* what the consent dialog shows
    agreed,         \* the user or the setting agreed to the presentation
    prepared,       \* the presentation that is ready to be sent
    answers, told   \* what the verifier and the caller received
authVars == <<arrival, settings, held, nextError, armed, changes, at, req, judged, findings,
              dialog, agreed, prepared, answers, told>>
Requests == DOMAIN arrival
walletVars == <<settings, held, nextError, armed, changes>>

NothingPrepared == [tokens |-> {}, transcripts |-> {}, nonce |-> ""]
AuthInit ==
    /\ held = {"dc+sd-jwt", "mso_mdoc"}
    /\ nextError = FALSE /\ armed = 0 /\ changes = 0
    /\ at = [p \in Requests |-> "arrived"]
    /\ req = [p \in Requests |-> NotParsed]
    /\ judged = [p \in Requests |-> settings]
    /\ findings = [p \in Requests |-> {}]
    /\ dialog = [p \in Requests |-> {}]
    /\ agreed = [p \in Requests |-> FALSE]
    /\ prepared = [p \in Requests |-> NothingPrepared]
    /\ answers = [p \in Requests |-> <<>>]
    /\ told = [p \in Requests |-> ""]

\* The handler of p ends: the caller is told the outcome.
EndsWith(p, outcome) == at' = [at EXCEPT ![p] = "ended"] /\ told' = [told EXCEPT ![p] = outcome]
Continues(p, step) == at' = [at EXCEPT ![p] = step] /\ UNCHANGED told
Replies(p, answer) == answers' = [answers EXCEPT ![p] = Append(@, answer)]

----------------------------------------------------------------------------
(* Arrival.                                                                *)

\* A request that does not parse is refused to the caller alone.  The three
\* handlers then take the same steps; they differ in how they answer.
Arrives(p, r) ==
    /\ at[p] = "arrived"
    /\ req' = [req EXCEPT ![p] = r]
    /\ IF r.parsed THEN Continues(p, "parsed") ELSE EndsWith(p, "bad request")
    /\ UNCHANGED <<arrival, judged, findings, dialog, agreed, prepared, answers, walletVars>>
HandleAuthorize(p) == arrival[p].via = "authorize" /\ Arrives(p, ParseAuthParams(arrival[p], settings))
HandlePresentationAPI(p) == arrival[p].via = "api" /\ Arrives(p, ParseAny(arrival[p], settings))
HandleBrowserPresentation(p) == arrival[p].via = "dc_api" /\ Arrives(p, ParseBrowser(arrival[p], settings))

----------------------------------------------------------------------------
(* The answer.                                                             *)

\* What an error or a presentation travels in: who receives it, and the key it
\* is encrypted to ("" in plain).  No envelope when it cannot be built.
Envelope(r, kind, code, ready) ==
    [kind |-> kind, code |-> code, key |-> "",
     to |-> IF r.via = "dc_api" THEN "caller" ELSE Destination(r), ready |-> ready]
EncryptJWE(envelope, jwk) == [envelope EXCEPT !.key = jwk.id]
ResponseMode(r) == IF r.mode = "" THEN "direct_post" ELSE r.mode
Keyed(r, kind, code, ready) ==
    LET key == ExtractEncryptionKey(r, settings.mode)
    IN IF key = <<>> THEN {} ELSE {EncryptJWE(Envelope(r, kind, code, ready), key[1])}

ErrorResponse(r, code) ==
    LET mode == ResponseMode(r) IN
    CASE mode \in {"direct_post.jwt", "ia_post.jwt"} -> Keyed(r, "error", code, NothingPrepared)
      [] OTHER -> {Envelope(r, "error", code, NothingPrepared)}
AuthorizationResponse(r, ready) ==
    IF ResponseMode(r) \in JwtModes THEN Keyed(r, "vp", "", ready)
    ELSE {Envelope(r, "vp", "", ready)}

\* A direct post may fail before or after the verifier has it; the fragment is
\* the caller's redirect.  The response modes of another channel do not go out.
Fragment(r) == ResponseMode(r) = "fragment"
Channel(r) ==
    IF r.via = "dc_api" THEN r.mode \in DCModes
    ELSE Fragment(r) \/ (ResponseMode(r) \in PostModes /\ Destination(r) # "")
Posted(r) == r.via # "dc_api" /\ ~Fragment(r)
Delivered(p, envelopes) == Channel(req[p]) /\ \E e \in envelopes : Replies(p, e)
NotDelivered(p, envelopes) ==
    (envelopes = {} \/ ~Channel(req[p]) \/ Posted(req[p])) /\ UNCHANGED answers

Failed(r, ok) ==
    CASE r.via # "dc_api" \/ ok \in {"override", "denied"} -> "bad gateway"
      [] ok = "presented" -> "internal error"
      [] OTHER -> ok
Deliver(p, envelopes, ok) ==
    \/ Delivered(p, envelopes) /\ EndsWith(p, ok)
    \/ Posted(req[p]) /\ Delivered(p, envelopes) /\ EndsWith(p, "bad gateway")
    \/ NotDelivered(p, envelopes) /\ EndsWith(p, Failed(req[p], ok))
DeliverError(p, code, ok) == Deliver(p, ErrorResponse(req[p], code), ok)

\* A query nothing answers: the caller learns it whether the verifier did.
CanDeliver(r) == r.via = "dc_api" \/ (r.mode \notin DCModes /\ Destination(r) # "")
ReportNoMatch(p, code) ==
    LET envelopes == ErrorResponse(req[p], code) IN
    /\ EndsWith(p, "no_match")
    /\ \/ CanDeliver(req[p]) /\ (Delivered(p, envelopes) \/ NotDelivered(p, envelopes))
       \/ ~CanDeliver(req[p]) /\ UNCHANGED answers

----------------------------------------------------------------------------
(* Judging the request.                                                    *)

RefusalCode(r) == IF r.tx THEN "invalid_transaction_data" ELSE "invalid_request"

Judge(p) ==
    /\ at[p] = "parsed"
    /\ LET v == Validate(req[p], settings) IN
       /\ judged' = [judged EXCEPT ![p] = settings]
       /\ findings' = [findings EXCEPT ![p] = v.findings]
       /\ \/ v.verdict = "invalid" /\ EndsWith(p, RefusalCode(req[p])) /\ UNCHANGED answers
          \/ v.verdict = "arf" /\ DeliverError(p, "access_denied", "refused")
          \/ v.verdict = "valid" /\ Continues(p, "valid") /\ UNCHANGED answers
    /\ UNCHANGED <<arrival, req, dialog, agreed, prepared, walletVars>>

\* The override answers a valid request, and only the next one.
Override(p) ==
    /\ at[p] = "valid"
    /\ nextError' = FALSE
    /\ IF nextError THEN DeliverError(p, "override", "override")
       ELSE Continues(p, "evaluate") /\ UNCHANGED answers
    /\ UNCHANGED <<arrival, settings, held, armed, changes, req, judged, findings, dialog, agreed, prepared>>
AutoAccepts(r) == settings.auto \/ r.auto \/ r.via = "api"
Formats(r) == {q.format : q \in ToSet(r.query)}
Unsatisfiable(r) ==
    IF r.query # <<>> /\ Formats(r) \cap {"", "dc+sd-jwt", "mso_mdoc", "jwt_vc_json"} = {}
      THEN "vp_formats_not_supported" ELSE "access_denied"

\* The query is evaluated: refused, without a match, or answered by the
\* credentials held.  Debug mode then offers other credentials in the dialog.
EvaluateQuery(p) ==
    LET r == req[p]
        strict == settings.mode = "strict"
        asked == r.query # <<>> /\ RequiresVP(r)
        malformed == asked /\ strict /\ \E q \in ToSet(r.query) : ~q.ok
        noList == asked /\ strict /\ \E q \in ToSet(r.query) : ~q.lists
        matched == asked /\ Formats(r) \subseteq held
        offered == asked /\ ~strict /\ ~AutoAccepts(r)
    IN /\ at[p] = "evaluate"
       /\ \/ malformed /\ EndsWith(p, "invalid_request") /\ UNCHANGED <<answers, dialog, agreed, prepared>>
          \/ ~malformed /\ noList /\ DeliverError(p, "access_denied", "refused")
             /\ UNCHANGED <<dialog, agreed, prepared>>
          \/ /\ ~malformed /\ ~noList /\ RequiresVP(r) /\ ~matched /\ ~offered
             /\ ReportNoMatch(p, Unsatisfiable(r)) /\ UNCHANGED <<dialog, agreed, prepared>>
          \/ /\ ~malformed /\ ~noList /\ (RequiresVP(r) => matched \/ offered)
             /\ IF AutoAccepts(r)
                  THEN /\ Continues(p, "present") /\ agreed' = [agreed EXCEPT ![p] = TRUE]
                       /\ UNCHANGED dialog
                  ELSE /\ Continues(p, "consent") /\ UNCHANGED agreed
                       /\ dialog' = [dialog EXCEPT ![p] = ConsentRegistration(r)]
             /\ prepared' = [prepared EXCEPT ![p].tokens = IF matched THEN Formats(r) ELSE {}]
             /\ UNCHANGED answers
       /\ UNCHANGED <<arrival, req, judged, findings, walletVars>>

\* The user approves, denies or lets the dialog expire.  Where nothing matched
\* they approve with a credential of their choice.
Consented(p) ==
    /\ at[p] = "consent"
    /\ \/ /\ Continues(p, "present") /\ agreed' = [agreed EXCEPT ![p] = TRUE]
          /\ \/ (prepared[p].tokens # {} \/ ~RequiresVP(req[p])) /\ UNCHANGED prepared
             \/ /\ prepared[p].tokens = {} /\ RequiresVP(req[p])
                /\ \E f \in held : prepared' = [prepared EXCEPT ![p].tokens = {f}]
          /\ UNCHANGED answers
       \/ DeliverError(p, "access_denied", "denied") /\ UNCHANGED <<agreed, prepared>>
       \/ EndsWith(p, "consent timeout") /\ UNCHANGED <<answers, agreed, prepared>>
    /\ UNCHANGED <<arrival, req, judged, findings, dialog, walletVars>>

----------------------------------------------------------------------------
(* The presentation.                                                       *)

Thumbprint(r) == LET k == FindEncryptionJWK(r) IN IF k = <<>> THEN "" ELSE k[1].id
\* The session transcript an mdoc is signed over, and the audience of an
\* SD-JWT: the fields that bind it to this request.
SessionTranscript(r, nonce) ==
    CASE r.mode \in IAModes ->
             [kind |-> "iae", thumb |-> IF r.mode = "ia_post" THEN "" ELSE Thumbprint(r), nonce |-> ""]
      [] settings.iso -> [kind |-> "iso", thumb |-> "", nonce |-> nonce]
      [] OTHER -> [kind |-> IF r.mode \in DCModes THEN "dc_api" ELSE "oid4vp",
                   thumb |-> Thumbprint(r), nonce |-> ""]
IdToken(r) == Flag(Contains(r.type, "id_token"), "id_token")
\* The nonce of the ISO transcript is drawn once for the whole response.
NonceFor(p) == IF settings.iso THEN ToString(p) ELSE ""
Documents(p) ==
    LET q == req[p].query IN
    IF prepared[p].tokens = Formats(req[p]) THEN {i \in DOMAIN q : q[i].format = "mso_mdoc"}
    ELSE {n \in {1} : "mso_mdoc" \in prepared[p].tokens}
VPTokenMap(p) ==
    [tokens |-> prepared[p].tokens \cup IdToken(req[p]),
     transcripts |-> {SessionTranscript(req[p], NonceFor(p)) : i \in Documents(p)},
     nonce |-> IF Documents(p) = {} THEN "" ELSE NonceFor(p)]

\* A credential that went away after the query was evaluated ends the request.
CreatePresentation(p) ==
    /\ at[p] = "present"
    /\ CASE ~RequiresVP(req[p]) ->
               prepared' = [prepared EXCEPT ![p].tokens = IdToken(req[p])] /\ Continues(p, "submit")
         [] prepared[p].tokens \subseteq held ->
               prepared' = [prepared EXCEPT ![p] = VPTokenMap(p)] /\ Continues(p, "submit")
         [] OTHER -> EndsWith(p, "internal error") /\ UNCHANGED prepared
    /\ UNCHANGED <<arrival, req, judged, findings, dialog, agreed, answers, walletVars>>

Submit(p) ==
    /\ at[p] = "submit"
    /\ Deliver(p, AuthorizationResponse(req[p], prepared[p]), "presented")
    /\ UNCHANGED <<arrival, req, judged, findings, dialog, agreed, prepared, walletVars>>

----------------------------------------------------------------------------
(* What happens meanwhile.                                                 *)

Changing == changes < MaxChanges /\ changes' = changes + 1
SetNextError ==
    /\ Changing /\ nextError' \in BOOLEAN /\ nextError' # nextError
    /\ armed' = armed + (IF nextError' THEN 1 ELSE 0)
    /\ UNCHANGED <<arrival, settings, held, at, req, judged, findings, dialog, agreed, prepared, answers, told>>
SetMode ==
    /\ Changing
    /\ settings' = [settings EXCEPT !.mode = IF @ = "strict" THEN "debug" ELSE "strict"]
    /\ UNCHANGED <<arrival, held, nextError, armed, at, req, judged, findings, dialog, agreed, prepared, answers, told>>
RemoveHeld ==
    /\ Changing
    /\ \E f \in held : held' = held \ {f}
    /\ UNCHANGED <<arrival, settings, nextError, armed, at, req, judged, findings, dialog, agreed, prepared, answers, told>>

AuthNext ==
    \/ \E p \in Requests : \/ HandleAuthorize(p) \/ HandlePresentationAPI(p) \/ HandleBrowserPresentation(p)
                           \/ Judge(p) \/ Override(p) \/ EvaluateQuery(p)
                           \/ Consented(p) \/ CreatePresentation(p) \/ Submit(p)
    \/ SetNextError \/ SetMode \/ RemoveHeld

----------------------------------------------------------------------------
(* The parameters the request itself vouches for: those of its Request     *)
(* Object when it has one.                                                 *)
Vouched(p) == IF HasObject(req[p]) THEN req[p].object.payload ELSE arrival[p].outer

\* A request gets at most one answer.  The answer goes to an address that the
\* request's own Request Object names when there is one, and a presentation
\* goes out only after the user or auto-accept agreed.  The modes that end in
\* .jwt are answered encrypted, to a key of that same request, except for a
\* Digital Credentials API error.  Every mdoc of a response is signed over the
\* nonce and the key of that response.  (submitPresentation,
\* deliverAuthorizationError, applyRequestObjectPayload, EncryptResponse,
\* CreateVPTokenMap; an invalid request is answered to nobody but the caller.)
AnswerIsAddressed(p, e) ==
    LET v == Vouched(p) IN
    /\ e.kind = "vp" => agreed[p] /\ told[p] \in {"presented", "bad gateway"}
    /\ e.to \in (IF req[p].via = "dc_api" THEN {"caller"} ELSE {v.response, v.redirect, v.names} \ {""})
    /\ v.mode \in JwtModes => e.key # "" \/ (e.kind = "error" /\ v.mode = "dc_api.jwt")
    /\ e.key # "" => \E k \in ToSet(v.metadata.keys) : k.id = e.key
    /\ \A t \in e.ready.transcripts :
           /\ t.kind = "iso" => t.nonce = e.ready.nonce
           /\ t.thumb # "" /\ e.key # "" => t.thumb = e.key
\* The override of /api/next-error answers at most one request each time it is
\* armed.
OverrideAnswersOne ==
    Cardinality({p \in Requests : \E e \in ToSet(answers[p]) : e.code = "override"}) <= armed
AnswersAreSound ==
    /\ \A p \in Requests : /\ Len(answers[p]) <= 1
                           /\ \A e \in ToSet(answers[p]) : AnswerIsAddressed(p, e)
    /\ OverrideAnswersOne

\* A request that strict mode judged is presented to only when it is what it
\* says: a nonce, no transaction_data, an x509 client named by the certificate
\* that signed it; with HAIP, an answer encrypted to an EC key; with the ARF
\* rules, one registration certificate that its registrar did not revoke, that
\* belongs to the holder of a trusted access certificate and registers every
\* claim asked for.  The consent dialog shows the purposes of no other
\* certificate, in either mode.  (ValidateAuthorizationRequest, ARFFindings,
\* consentRegistration.)
BelongsTo(e, r) ==
    /\ e.x5c # <<>> /\ e.signer = e.x5c[1].name
    /\ \E c \in ToSet(r.object.x5c) : c.name = r.object.signer /\ c.org \in {e.sub, e.act}
Registers(e, r) ==
    \A q \in ToSet(r.query), t \in UNION {x.types : x \in ToSet(r.query)}, asked \in UNION {x.claims : x \in ToSet(r.query)} :
        t \in q.types /\ asked \in q.claims =>
            \E c \in ToSet(e.credentials) :
                c.format = q.format /\ c.type = t /\ \E n \in 1..Len(asked) : SubSeq(asked, 1, n) \in c.claims
Authentic(p) ==
    LET r == req[p] IN
    /\ r.nonce /\ ~r.tx
    /\ ViaX5C(r) => HasObject(r) /\ r.object.signer = r.names
    /\ judged[p].haip => \E k \in ToSet(r.metadata.keys) : k.kty = "EC" /\ k.id = answers[p][1].key
    /\ judged[p].arf =>
           \E e \in ToSet(r.info) :
               /\ e.status = "valid" /\ BelongsTo(e, r) /\ Registers(e, r)
               /\ \A f \in ToSet(r.info) : f.typ = e.typ => f = e
StrictPresentsOnlyAuthentic ==
    \A p \in Requests :
        /\ judged[p].mode = "strict" /\ (\E e \in ToSet(answers[p]) : e.kind = "vp") => Authentic(p)
        /\ \A purpose \in dialog[p] : \E e \in ToSet(req[p].info) : e.purpose = purpose /\ BelongsTo(e, req[p])

\* Strict mode rejects every request that carries transaction_data, as the
\* table of supported parameters says (ValidateAuthorizationRequest,
\* parseAuthParams).  It does not hold.
StrictRejectsTransactionData ==
    \A p \in Requests :
        (\E e \in ToSet(answers[p]) : e.kind = "vp") => ~(judged[p].mode = "strict" /\ Vouched(p).tx)
=============================================================================
