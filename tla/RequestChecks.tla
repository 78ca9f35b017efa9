---------------------------- MODULE RequestChecks ----------------------------
(***************************************************************************)
(* How the wallet reads an OpenID4VP authorization request and judges it:  *)
(* the parser of internal/oid4vc, the Digital Credentials API envelope,    *)
(* the client identifier prefixes, the Request Object signature, HAIP, and *)
(* the ARF rules on registration certificates.                             *)
(*                                                                         *)
(* A set of parameters is a record                                         *)
(*   prefix, names   the client_id: its prefix ("" without a client_id,    *)
(*                   "plain" without a colon) and the value after it       *)
(*   type, mode, nonce, response, redirect, scope, tx, origins, query      *)
(*                   the parameters; a URI is its host, "custom" one that  *)
(*                   is not http(s); origins is {} or {expected_origins}   *)
(*   metadata        client_metadata: given, ok (shape), keys, encs        *)
(*   info            the entries of verifier_info                          *)
(* A Request Object has alg ("absent" without one), typ, x5c, signer (the  *)
(* certificate whose key signed it), sub and kid (of the prefixes that use *)
(* them), prefix and names (a client_id in the header) and payload.  A     *)
(* certificate is a record name, issuer, kty, org.                         *)
(***************************************************************************)
EXTENDS Naturals, Sequences, FiniteSets, SequencesExt

Flag(condition, finding) == IF condition THEN {finding} ELSE {}
First(s, Test(_)) == IF \E i \in DOMAIN s : Test(s[i]) THEN <<SelectSeq(s, Test)[1]>> ELSE <<>>
DCModes == {"dc_api", "dc_api.jwt"}
PostModes == {"direct_post", "direct_post.jwt"}
IAModes == {"ia_post", "ia_post.jwt"}
JwtModes == {"direct_post.jwt", "dc_api.jwt", "ia_post.jwt"}
HasObject(r) == r.object.alg # "absent"
Destination(r) == IF r.response # "" THEN r.response ELSE r.redirect
RequiresVP(p) == p.type = <<>> \/ Contains(p.type, "vp_token")

----------------------------------------------------------------------------
(* Reading a request.                                                      *)

\* A redirect_uri client names its own response endpoint.
DeriveResponseURI(p) ==
    IF p.response = "" /\ p.mode \in PostModes /\ p.prefix = "redirect_uri"
      THEN [p EXCEPT !.response = p.names] ELSE p

\* An outer destination stands in for a missing one.
OuterFillsGaps(outer, object) ==
    LET p == DeriveResponseURI(object.payload)
    IN IF Destination(p) = "" THEN [p EXCEPT !.response = outer.response] ELSE p
\* The Request Object replaces every parameter; outer ones do not fill gaps.
ApplyRequestObject(outer, object) == DeriveResponseURI(object.payload)
SameClient(outer, object) ==
    outer.prefix = "" \/ (object.payload.prefix = outer.prefix /\ object.payload.names = outer.names)

\* The answer of the request_uri: GET takes any body, POST wants a JWT or JWE,
\* can decrypt it, and compares an echoed wallet_nonce.
FetchGET(f, s) == f.status = "ok" /\ (f.media \/ s.mode = "debug")
FetchPOST(f, s) ==
    /\ FetchGET(f, s)
    /\ f.body \in {"jwt", "jwe"}
    /\ s.encrypted => f.body = "jwe"
    /\ f.body = "jwe" => s.key
    /\ f.echo # "other"
FetchWorks(f, how, s) == IF how = "post" THEN FetchPOST(f, s) ELSE FetchGET(f, s)
\* A JWE that arrives by GET is no JWT, so the request has no Request Object.
FetchedObject(a) ==
    IF a.fetch.body = "jwt" \/ (a.fetch.body = "jwe" /\ a.method = "post") THEN a.object
    ELSE [alg |-> "absent"]

NotParsed == [parsed |-> FALSE]
\* The parameters of a parsed request with what the transport adds.
Parsed(a, p, object) ==
    p @@ [parsed |-> TRUE, object |-> object, byUri |-> a.deliver = "request_uri",
          via |-> a.via, origin |-> a.origin, unsigned |-> a.deliver = "unsigned", auto |-> a.auto]

\* Without a Request Object the parameters carry no payload, in which alone a
\* later check looks for transaction_data.
ParseVPParams(a, s) ==
    LET object == CASE a.deliver = "request_uri" -> FetchedObject(a)
                    [] a.deliver = "request" -> a.object
                    [] OTHER -> [alg |-> "absent"]
    IN CASE a.deliver = "request_uri" /\ ~FetchWorks(a.fetch, a.method, s) -> NotParsed
         [] object.alg = "absent" ->
                Parsed(a, [DeriveResponseURI(a.outer) EXCEPT !.tx = FALSE], object)
         [] ~SameClient(a.outer, object) -> NotParsed
         [] OTHER -> Parsed(a, ApplyRequestObject(a.outer, object), object)

\* GET or POST /authorize.
ParseAuthParams(a, s) ==
    IF \/ ~a.json
       \/ a.outer.tx /\ s.mode = "strict"
       \/ a.method # "" /\ (a.deliver # "request_uri" \/ a.method \notin {"get", "post"})
      THEN NotParsed
    ELSE LET r == ParseVPParams(a, s) IN IF r.parsed /\ r.prefix = "" THEN NotParsed ELSE r

\* POST /api/presentations and the payload of a Digital Credentials API call:
\* a URI, a bare Request Object, or a JSON object.
ParseAny(a, s) ==
    CASE a.deliver = "jwt" -> Parsed(a, ApplyRequestObject(a.outer, a.object), a.object)
      [] a.deliver = "json" -> Parsed(a, DeriveResponseURI(a.outer), [alg |-> "absent"])
      [] OTHER -> ParseVPParams(a, s)

----------------------------------------------------------------------------
(* The client identifier and the Request Object's signature.               *)

\* x509 Verify: the leaf reaches a root directly or over one other certificate.
Chains(chain, roots) ==
    /\ chain # <<>>
    /\ \/ chain[1].name \in roots
       \/ chain[1].issuer \in roots
       \/ \E c \in ToSet(Tail(chain)) : c.name = chain[1].issuer /\ c.issuer \in roots
SuppliedChainAgrees(x5c) == Len(x5c) < 2 \/ Chains(x5c, {x5c[Len(x5c)].name})

ViaX5C(r) == r.prefix \in {"x509_san_dns", "x509_hash"}
RequiresSigning(r) == ViaX5C(r) \/ r.prefix \in {"decentralized_identifier", "verifier_attestation"}

\* No key is resolved without x5c; a signed redirect_uri client is reported by
\* VerifyClientID.
UnverifiedSignature(r) == Flag(r.prefix \notin {"redirect_uri", ""}, "signature")
\* The certificate is read; the signature is taken as it is.
SignatureUnread(r) ==
    LET o == r.object IN
    CASE o.alg \in {"absent", "none"} -> {}
      [] o.x5c = <<>> -> UnverifiedSignature(r)
      [] OTHER -> Flag(~SuppliedChainAgrees(o.x5c), "signature")
RequestObjectSignature(r) ==
    LET o == r.object IN
    CASE o.alg \in {"absent", "none"} -> {}
      [] o.x5c = <<>> -> UnverifiedSignature(r)
      [] OTHER -> Flag(~SuppliedChainAgrees(o.x5c) \/ o.signer # o.x5c[1].name, "signature")

LeafCertificate(r) == IF HasObject(r) /\ r.object.x5c # <<>> THEN {r.object.x5c[1]} ELSE {}
LeafNames(r) == \E c \in LeafCertificate(r) : c.name = r.names
X509SAN(r) ==
    Flag(~LeafNames(r) \/ (r.origin = "" /\ Destination(r) \notin {"", r.names}), "client_id")
X509Hash(r) == Flag(~LeafNames(r), "client_id")
RedirectPrefix(r) ==
    Flag(r.object.alg \notin {"absent", "none"} \/ Destination(r) \notin {"", r.names}, "client_id")
VerifierAttestation(r) == Flag(~HasObject(r) \/ r.object.sub \notin {"", r.names}, "client_id")
DecentralizedIdentifier(r) ==
    Flag(r.names = "not a DID" \/ ~HasObject(r) \/ r.object.kid \notin {"", r.names}, "client_id")
VerifyClientID(r) ==
    CASE r.prefix = "x509_san_dns" -> X509SAN(r)
      [] r.prefix = "x509_hash" -> X509Hash(r)
      [] r.prefix \in {"origin", "openid_federation"} -> {"client_id"}
      [] r.prefix = "redirect_uri" -> RedirectPrefix(r)
      [] r.prefix = "verifier_attestation" -> VerifierAttestation(r)
      [] r.prefix = "decentralized_identifier" -> DecentralizedIdentifier(r)
      [] OTHER -> {}

AlgMatchesCert(o) ==
    o.x5c = <<>> \/ o.alg \in (IF o.x5c[1].kty = "EC" THEN {"ES256"} ELSE {"RS256", "PS256"})
ValidateRequestObject(r) ==
    LET o == r.object IN
    CASE o.alg \in {"absent", "none"} /\ RequiresSigning(r) -> {"unsigned"}
      [] o.alg = "absent" \/ (o.alg = "none" /\ o.typ = "") -> {}
      [] OTHER -> Flag(o.typ # "oauth-authz-req+jwt" \/ ~AlgMatchesCert(o), "typ")
----------------------------------------------------------------------------
(* The Digital Credentials API.                                            *)

\* One payload under several signatures: the first that verifies counts, else
\* the first.  A payload without a client_id takes the one of the header.
MultiSigned(a) ==
    LET Candidate(o) ==
            LET p == ApplyRequestObject(a.outer, o)
            IN Parsed(a, IF p.prefix # "" THEN p
                         ELSE [p EXCEPT !.prefix = o.prefix, !.names = o.names], o)
        verified == {i \in DOMAIN a.objects :
                        LET c == Candidate(a.objects[i]) IN c.prefix # "" /\ RequestObjectSignature(c) = {}}
    IN Candidate(a.objects[IF verified = {} THEN 1 ELSE Min(verified)])

\* An unsigned request has no client_id and no expected_origins.
ParseBrowser(a, s) ==
    CASE ~a.json -> NotParsed
      [] a.deliver = "unsigned" ->
             Parsed(a, DeriveResponseURI([a.outer EXCEPT !.prefix = "", !.names = "", !.origins = {}]),
                    [alg |-> "absent"])
      [] a.deliver = "multi" -> MultiSigned(a)
      [] OTHER -> ParseAny(a, s)

----------------------------------------------------------------------------
(* The parameters.                                                         *)

\* What no mode accepts.
SyntaxOK(r) ==
    /\ r.prefix # "" \/ r.unsigned \/ (r.mode \in IAModes /\ ~HasObject(r))
    /\ \A i \in DOMAIN r.type : r.type[i] \in {"vp_token", "id_token"}
    /\ IsInjective(r.type)
    /\ r.mode \in PostModes => r.response # ""
    /\ r.mode = "fragment" => r.redirect # ""
    /\ r.mode \in {"", "fragment"} \cup PostModes \cup DCModes \cup IAModes
    /\ "custom" \notin {r.response, r.redirect}
ClientMetadataOK(r) == r.metadata.ok

ExpectedOrigins(r) ==
    CASE r.origin = "" -> {}
      [] r.mode \in IAModes -> Flag(r.origins \notin {{}, {<<r.origin>>}}, "origins")
      [] r.mode \in DCModes /\ ~r.unsigned ->
             Flag(~\E list \in r.origins : Contains(list, r.origin), "origins")
      [] OTHER -> {}
AuthorizationFindings(r) ==
    Flag(r.prefix \in {"unknown", "origin", "openid_federation"}, "prefix")
    \cup Flag(~r.nonce, "nonce")
    \cup Flag(r.mode \in PostModes /\ r.redirect # "", "redirect_uri")
    \cup Flag(RequiresVP(r) /\ ((r.query # <<>>) <=> r.scope), "query")
    \cup Flag(\E q \in ToSet(r.query) : ~q.ok, "query")
    \cup Flag(r.tx, "transaction_data")
    \cup ExpectedOrigins(r)

----------------------------------------------------------------------------
(* The key a response is encrypted to.                                     *)

Usable(jwk) == jwk.use \in {"", "enc"} /\ jwk.material
FindEncryptionJWK(r) ==
    LET usable == SelectSeq(r.metadata.keys, Usable)
        ec == First(usable, LAMBDA k : k.kty = "EC")
    IN IF ec # <<>> THEN ec ELSE SubSeq(usable, 1, IF usable = <<>> THEN 0 ELSE 1)
SigningOnlyJWK(r) == First(r.metadata.keys, LAMBDA k : k.use = "sig" /\ k.material)
ExtractEncryptionKey(r, mode) ==
    LET found == FindEncryptionJWK(r)
        key == IF found = <<>> /\ mode = "debug" THEN SigningOnlyJWK(r) ELSE found
    IN IF key # <<>> /\ key[1].alg THEN key ELSE <<>>

----------------------------------------------------------------------------
(* HAIP 1.0.                                                               *)

HaipSigned(r) ==
    Flag(r.prefix # "x509_hash" \/ ~HasObject(r), "haip")
    \cup Flag(HasObject(r) /\ r.mode \notin DCModes /\ ~r.byUri, "haip")
    \cup Flag(HasObject(r) /\ \E c \in ToSet(r.object.x5c) : c.name = c.issuer, "haip")
HaipKey(r) == Flag(\E k \in ToSet(FindEncryptionJWK(r)) : k.kty # "EC", "haip")
HaipFormats(r) ==
    Flag(r.query = <<>> \/ \E q \in ToSet(r.query) : q.format \notin {"mso_mdoc", "dc+sd-jwt"}, "haip")
HaipMetadata(r) == Flag(r.metadata.given /\ r.metadata.encs = {}, "haip")
HAIPCompliance(r) ==
    LET unsigned == r.unsigned \/ (~HasObject(r) /\ r.mode \in DCModes)
        interactive == r.mode \in IAModes
    IN Flag(r.type # <<"vp_token">>, "haip")
       \cup Flag(~interactive /\ r.mode \notin {"direct_post.jwt", "dc_api.jwt"}, "haip")
       \cup (IF unsigned \/ interactive THEN {} ELSE HaipSigned(r))
       \cup HaipFormats(r)
       \cup (IF interactive THEN {} ELSE HaipMetadata(r) \cup HaipKey(r))
HAIPAdvisories(r) ==
    Flag(r.metadata.given /\ r.mode \notin IAModes /\ Cardinality(r.metadata.encs) = 1, "advisory")

----------------------------------------------------------------------------
(* Registration certificates.  An entry of verifier_info is a record typ,  *)
(* x5c, signer, sub, act ("" without an intermediary), complete (every     *)
(* required field is there), valid (iat, exp), status ("none", "valid",    *)
(* "revoked", "unreadable"), credentials (format, type, claims) and        *)
(* purpose.                                                                *)

Entries(r) == SelectSeq(r.info, LAMBDA e : e.typ = "rc-wrp+jwt")
VerifiedRegistrations(r) ==
    SelectSeq(Entries(r), LAMBDA e : e.x5c # <<>> /\ e.signer = e.x5c[1].name)
\* The chain counts only when its leaf signed the request.
RequestAccessChain(r) ==
    IF r.object.alg \notin {"absent", "none"} /\ r.object.x5c # <<>>
         /\ r.object.signer = r.object.x5c[1].name
      THEN r.object.x5c ELSE <<>>
RelyingPartyAuthenticated(r, s) == Chains(RequestAccessChain(r), s.accessCAs)
BoundTo(e, access) == LET id == IF e.act # "" THEN e.act ELSE e.sub IN id # "" /\ id = access.org

PathPrefix(registered, asked) ==
    Len(registered) <= Len(asked) /\ SubSeq(asked, 1, Len(registered)) = registered
RegisteredFor(e, format, type) ==
    {c \in ToSet(e.credentials) : c.format # "" /\ c.format = format /\ c.type = type}
OverAsking(e, r) ==
    Flag(/\ e.credentials # <<>>
         /\ \E q \in ToSet(r.query) :
                \/ q.types = {}
                \/ \E t \in q.types :
                       LET reg == RegisteredFor(e, q.format, t) IN
                       \/ reg = {}
                       \/ \E asked \in q.claims :
                              ~\E c \in reg, p \in UNION {x.claims : x \in reg} :
                                   p \in c.claims /\ PathPrefix(p, asked), "over-asking")
RegistrationStatus(e) == Flag(e.status \in {"revoked", "unreadable"}, "status")
RegistrationContent(e) ==
    Flag(~e.complete \/ ~e.valid \/ e.credentials = <<>> \/ e.status = "none", "content")
ARFFindings(r, s) ==
    LET chain == RequestAccessChain(r)
        verified == VerifiedRegistrations(r)
    IN Flag(Len(Entries(r)) # Len(verified), "registration signature")
       \cup Flag(Len(Entries(r)) # 1, "one registration")
       \cup Flag(~Chains(chain, s.accessCAs), "access certificate")
       \cup UNION {RegistrationContent(e) \cup RegistrationStatus(e)
                     \cup Flag(chain # <<>> /\ ~BoundTo(e, chain[1]), "binding")
                     \cup Flag(~Chains(e.x5c, s.registrarCAs), "registrar") : e \in ToSet(verified)}
       \cup (IF Len(verified) = 1 THEN OverAsking(verified[1], r) ELSE {})

\* The purposes the consent dialog shows.
ConsentRegistration(r) ==
    LET chain == RequestAccessChain(r)
    IN IF chain = <<>> THEN {}
       ELSE {e.purpose : e \in {x \in ToSet(VerifiedRegistrations(r)) : BoundTo(x, chain[1])}} \ {""}

----------------------------------------------------------------------------
\* The verdict: "invalid", "arf" (a refusal the relying party is told of) or
\* "valid" with the findings to warn of.
Validate(r, s) ==
    LET general == VerifyClientID(r) \cup ValidateRequestObject(r) \cup RequestObjectSignature(r)
                   \cup AuthorizationFindings(r) \cup (IF s.haip THEN HAIPCompliance(r) ELSE {})
        arf == IF s.arf THEN ARFFindings(r, s) ELSE {}
        strict == s.mode = "strict"
    IN CASE ~SyntaxOK(r) \/ ~ClientMetadataOK(r) -> [verdict |-> "invalid", findings |-> {}]
         [] strict /\ general = {} /\ arf # {} /\ RelyingPartyAuthenticated(r, s) ->
                [verdict |-> "arf", findings |-> arf]
         [] strict /\ general \cup arf # {} -> [verdict |-> "invalid", findings |-> general \cup arf]
         [] OTHER -> [verdict |-> "valid",
                      findings |-> general \cup arf \cup (IF s.haip THEN HAIPAdvisories(r) ELSE {})]
=============================================================================
