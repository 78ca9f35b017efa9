---------------------------- MODULE IssuanceRequests ----------------------------
(***************************************************************************)
(* The wallet's requests of one issuance and the retries they make         *)
(* (internal/wallet/issuance_authcode.go, issuance.go, issuance_steps.go). *)
(* A pushed authorization request and a token request go to the            *)
(* authorization server; the nonce, credential and notification requests   *)
(* go to the credential issuer.  Both servers may demand a DPoP nonce, the *)
(* authorization server an attestation challenge and the issuer a c_nonce. *)
(*                                                                         *)
(* Nonces and challenges are numbers, 0 is the empty string.  A server     *)
(* answers by its state at that moment, so it can change a nonce between   *)
(* two requests.  The servers are external: they answer as RFC 9449, the   *)
(* attestation drafts and OID4VCI allow.                                   *)
(***************************************************************************)
EXTENDS Naturals

CONSTANTS
    World,           \* the servers and the wallet's settings
    MaxNonceChanges  \* bound: how often a server changes one of its nonces

AllWorlds ==
    [mode : {"strict", "debug"}, par : BOOLEAN, dpop : BOOLEAN, attests : BOOLEAN,
     demandsNonce : BOOLEAN, announces : BOOLEAN, demandsChallenge : BOOLEAN,
     offersChallenge : BOOLEAN, freshens : BOOLEAN, challengeEndpoint : BOOLEAN,
     cnonce : {"endpoint", "token", "none"}, notifies : BOOLEAN]

ASSUME RequestsAssumption == World \subseteq AllWorlds /\ MaxNonceChanges \in Nat

VARIABLES
    world,      \* a member of World, fixed
    current,    \* the servers' DPoP nonces and the issuer's c_nonce
    issued,     \* attestation challenges handed out so far
    open,       \* the challenges the authorization server still accepts
    granted,    \* the authorization server has granted the token
    req,        \* the request being made and the state of its retries
    known,      \* dpopNonceState and the c_nonce of the key proofs
    last,       \* the request sent last
    used,       \* the challenges sent
    error       \* the error of the last response

requestVars == <<world, current, issued, open, granted, req, known, last, used, error>>

RequestKinds == {"par", "token", "nonce", "nonceGet", "credential", "notification"}
Server == [x \in RequestKinds |-> IF x \in {"par", "token"} THEN "authz" ELSE "issuer"]
Strict == world.mode = "strict"

(* Only the two authorization server requests are attested, and the nonce  *)
(* request carries no DPoP proof.                                          *)
Attests == world.attests /\ req.step \in {"par", "token"}
SendsDPoP == world.dpop /\ req.step \notin {"nonce", "nonceGet"}

(* doDPoPRequest starts with no retries, and attestorFor with a new        *)
(* attestor.  proofRetried belongs to the flow, not to the request.        *)
Begin(step) ==
    [step |-> step, phase |-> "ready", dpopRetried |-> FALSE, attestationRetried |-> FALSE,
     challenge |-> 0, proofRetried |-> req.proofRetried, sends |-> 0]
End(result) == [req EXCEPT !.phase = result]

RequestsInit ==
    /\ world \in World
    /\ current = [authz |-> 1, issuer |-> 1, c_nonce |-> 1]
    /\ issued = 0 /\ open = {} /\ granted = FALSE
    /\ req = [step |-> IF world.par THEN "par" ELSE "token", phase |-> "ready",
              dpopRetried |-> FALSE, attestationRetried |-> FALSE, challenge |-> 0,
              proofRetried |-> FALSE, sends |-> 0]
    /\ known = [authz |-> 0, issuer |-> 0, c_nonce |-> 0]
    /\ used = {} /\ error = "none"
    /\ last = [dpop |-> 0, challenge |-> 0, proof |-> 0]

--------------------------------------------------------------------------------
(* requestChallenge: a challenge of an earlier response is used up by this *)
(* request; without one the challenge endpoint gives one.                  *)
Fetches == Attests /\ req.challenge = 0 /\ world.challengeEndpoint
PopChallenge == IF Fetches THEN issued + 1 ELSE IF Attests THEN req.challenge ELSE 0
LeftChallenge == 0

(* One turn of doDPoPRequest: the request with its attestation, its DPoP   *)
(* proof and, at the credential endpoint, the key proofs.                  *)
Send ==
    /\ req.phase = "ready"
    /\ req' = [req EXCEPT !.phase = "sent", !.challenge = LeftChallenge, !.sends = @ + 1]
    /\ issued' = IF Fetches THEN issued + 1 ELSE issued
    /\ open' = IF Fetches THEN open \cup {issued + 1} ELSE open
    /\ last' = [dpop |-> IF SendsDPoP THEN known[Server[req.step]] ELSE 0,
                challenge |-> PopChallenge,
                proof |-> IF req.step = "credential" THEN known.c_nonce ELSE 0]
    /\ used' = used \cup ({PopChallenge} \ {0})
    /\ UNCHANGED <<world, current, granted, known, error>>

(* fetchAttestationChallenge fails: the request is not sent.               *)
ChallengeUnavailable ==
    /\ req.phase = "ready" /\ Fetches
    /\ req' = End("failed") /\ error' = "transport"
    /\ UNCHANGED <<world, current, issued, open, granted, known, last, used>>

--------------------------------------------------------------------------------
(* What a server finds wrong with the request it got.                      *)
Demands ==
    (IF world.demandsNonce /\ SendsDPoP /\ last.dpop # current[Server[req.step]]
     THEN {"use_dpop_nonce"} ELSE {})
    \cup (IF world.demandsChallenge /\ Attests /\ last.challenge \notin open
          THEN {"use_attestation_challenge"} ELSE {})
    \cup (IF req.step = "credential" /\ world.cnonce # "none" /\ last.proof # current.c_nonce
          THEN {"invalid_nonce"} ELSE {})

(* A DPoP-Nonce header comes with a demand for one and, from an announcing *)
(* server, with every response; a fresh challenge with a demand for one    *)
(* and, from an offering server, with every response.                      *)
NonceHeader(code) ==
    IF code = "use_dpop_nonce" \/ (world.announces /\ world.demandsNonce)
    THEN current[Server[req.step]] ELSE 0
ChallengeHeader(code) ==
    IF Attests /\ world.demandsChallenge
               /\ (code = "use_attestation_challenge" \/ world.offersChallenge)
    THEN issued + 1 ELSE 0

(* updateDPoPNonce and observe: the headers of refusals count as well.     *)
Observed(code) ==
    IF ChallengeHeader(code) # 0 THEN [req EXCEPT !.challenge = ChallengeHeader(code)] ELSE req
Heard(code) ==
    IF NonceHeader(code) # 0 THEN [known EXCEPT ![Server[req.step]] = NonceHeader(code)] ELSE known
Observe(code) ==
    /\ issued' = IF ChallengeHeader(code) # 0 THEN issued + 1 ELSE issued
    /\ open' = (open \ {last.challenge}) \cup ({ChallengeHeader(code)} \ {0})

NeedsDPoPRetry(code) == code = "use_dpop_nonce" \/ NonceHeader(code) # 0
RetryAfterRefusal(code) ==
    \/ code = "use_attestation_challenge" /\ Observed(code).challenge # 0
    \/ code = "use_fresh_attestation"

(* The end of a request that is refused.  fetchNonce repeats a POST that   *)
(* is not allowed as a GET in debug mode; without a c_nonce a strict       *)
(* wallet stops, and so does the retry of a refused proof.                 *)
(* requestCredentialWithNonceRetry asks for a fresh c_nonce once.  A       *)
(* notification is only logged.                                            *)
NoNonce == IF Strict \/ req.proofRetried THEN End("failed") ELSE Begin("credential")
Refused(code) ==
    CASE req.step = "nonce" /\ code = "method_not_allowed" /\ ~Strict -> Begin("nonceGet")
      [] req.step = "nonce" /\ (code # "method_not_allowed" \/ Strict) -> NoNonce
      [] req.step = "nonceGet" -> NoNonce
      [] req.step = "credential" /\ code = "invalid_nonce" /\ ~req.proofRetried
         /\ world.cnonce = "endpoint" -> [Begin("nonce") EXCEPT !.proofRetried = TRUE]
      [] req.step = "notification" -> End("done")
      [] OTHER -> End("failed")

(* doDPoPRequest: one retry for a DPoP nonce, one for an attestation       *)
(* challenge, and then the refusal is the caller's.                        *)
RetrySharedFlag(code) ==  \* faulty: one retry for both demands
    IF ~req.dpopRetried /\ (NeedsDPoPRetry(code) \/ (Attests /\ RetryAfterRefusal(code)))
    THEN [Observed(code) EXCEPT !.phase = "ready", !.dpopRetried = TRUE]
    ELSE Refused(code)
RetryOrRefused(code) ==
    CASE NeedsDPoPRetry(code) /\ ~req.dpopRetried ->
            [Observed(code) EXCEPT !.phase = "ready", !.dpopRetried = TRUE]
      [] ~(NeedsDPoPRetry(code) /\ ~req.dpopRetried)
         /\ Attests /\ RetryAfterRefusal(code) /\ ~req.attestationRetried ->
            [Observed(code) EXCEPT !.phase = "ready", !.attestationRetried = TRUE]
      [] OTHER -> Refused(code)

(* The server refuses, for a demand or for a reason of its own.            *)
Refuse ==
    /\ req.phase = "sent"
    /\ \E code \in Demands \cup {"refused"}
                   \cup (IF Attests /\ world.freshens THEN {"use_fresh_attestation"} ELSE {})
                   \cup (IF req.step = "nonce" THEN {"method_not_allowed"} ELSE {}) :
        /\ Observe(code)
        /\ known' = Heard(code)
        /\ req' = RetryOrRefused(code)
        /\ error' = IF req.step \in {"nonce", "nonceGet"} /\ req.proofRetried
                    THEN "invalid_nonce" ELSE code
    /\ UNCHANGED <<world, current, granted, last, used>>

(* The server accepts.  A c_nonce of a token response counts only in debug *)
(* mode and only without a nonce endpoint.                                 *)
Accepted ==
    CASE req.step = "par" -> Begin("token")
      [] req.step = "token" -> Begin(IF world.cnonce = "endpoint" THEN "nonce" ELSE "credential")
      [] req.step \in {"nonce", "nonceGet"} -> Begin("credential")
      [] req.step = "credential" -> IF world.notifies THEN Begin("notification") ELSE End("done")
      [] OTHER -> End("done")
GivesNonce ==
    \/ req.step \in {"nonce", "nonceGet"}
    \/ req.step = "token" /\ world.cnonce = "token" /\ ~Strict

Accept ==
    /\ req.phase = "sent" /\ Demands = {}
    /\ Observe("none")
    /\ known' = IF GivesNonce THEN [Heard("none") EXCEPT !.c_nonce = current.c_nonce]
                ELSE Heard("none")
    /\ granted' = (granted \/ req.step = "token")
    /\ req' = Accepted
    /\ error' = "none"
    /\ UNCHANGED <<world, current, last, used>>

(* The request or its response is lost.  The server may have acted on it.  *)
LostRetries ==  \* faulty: a request without an answer is sent again
    /\ req.phase = "sent"
    /\ granted' \in {granted, granted \/ (req.step = "token" /\ Demands = {})}
    /\ req' = [req EXCEPT !.phase = "ready"]
    /\ error' = "transport"
    /\ UNCHANGED <<world, current, issued, open, known, last, used>>
Lost ==
    /\ req.phase = "sent"
    /\ granted' \in {granted, granted \/ (req.step = "token" /\ Demands = {})}
    /\ req' = Refused("transport")
    /\ error' = IF req.step \in {"nonce", "nonceGet"} /\ req.proofRetried
                THEN "invalid_nonce" ELSE "transport"
    /\ UNCHANGED <<world, current, issued, open, known, last, used>>

(* A server changes a nonce.                                               *)
Rotate ==
    /\ req.phase \in {"ready", "sent"}
    /\ \E which \in DOMAIN current :
        /\ current[which] <= MaxNonceChanges
        /\ current' = [current EXCEPT ![which] = @ + 1]
    /\ UNCHANGED <<world, issued, open, granted, req, known, last, used, error>>

RequestsNext == Send \/ ChallengeUnavailable \/ Refuse \/ Accept \/ Lost \/ Rotate

RequestsSpec == RequestsInit /\ [][RequestsNext]_requestVars

--------------------------------------------------------------------------------
(* The variables have their types, and no request is sent more than three  *)
(* times in a row (the loop of doDPoPRequest).                             *)
Numbered == {"authz", "issuer", "c_nonce"}
RequestState ==
    [step : RequestKinds, phase : {"ready", "sent", "done", "failed"}, dpopRetried : BOOLEAN,
     attestationRetried : BOOLEAN, challenge : Nat, proofRetried : BOOLEAN, sends : 0..3]
RequestsTypeOK ==
    /\ world \in World /\ granted \in BOOLEAN /\ issued \in Nat
    /\ current \in [Numbered -> 1..(MaxNonceChanges + 1)]
    /\ known \in [Numbered -> Nat]
    /\ last \in [dpop : Nat, challenge : Nat, proof : Nat]
    /\ open \cup used \subseteq 1..issued
    /\ req \in RequestState

(* A request is being sent.                                                *)
Sending == req.phase = "ready" /\ req'.phase = "sent"

(* No two proofs of possession carry the same challenge: requestChallenge  *)
(* uses a challenge up, whichever retry comes next.                        *)
SendsNewChallenge == Sending => last'.challenge \notin used
ChallengeSentOnce == [][SendsNewChallenge]_requestVars

(* doDPoPRequest gives up on a demanded nonce or challenge only if the     *)
(* server changed its nonce meanwhile: with a nonce that stays, a request  *)
(* meets both demands, in whatever order the server makes them.            *)
DemandsAreMet ==
    req.phase = "failed" /\ error \in {"use_dpop_nonce", "use_attestation_challenge"} =>
        current.authz > 1 \/ current.issuer > 1

(* The same for servers that give a challenge with every response or have  *)
(* a challenge endpoint: a retry of doDPoPRequest then always has one.     *)
FreshDemandsAreMet ==
    (world.demandsChallenge => world.offersChallenge \/ world.challengeEndpoint) => DemandsAreMet

(* requestCredentialWithNonceRetry: a strict wallet's proofs are refused   *)
(* for good only if the issuer withdrew two nonces of its nonce endpoint.  *)
ProofsAreRenewed ==
    /\ req.phase = "failed" /\ req.step = "credential" /\ error = "invalid_nonce"
    /\ Strict /\ world.cnonce = "endpoint"
    => current.c_nonce > 2

(* A request is refused for a demand of the server only if the server      *)
(* changes its demand between the attempts (doDPoPRequest,                 *)
(* requestCredentialWithNonceRetry).                                       *)
DemandsAreAnswered == RequestsTypeOK /\ FreshDemandsAreMet /\ ProofsAreRenewed

(* A code that the authorization server has accepted is never sent again,  *)
(* even if its answer was lost (requestAccessToken, doDPoPRequest).        *)
SpendsNoGrantAgain == granted /\ Sending => req.step # "token"
GrantUsedOnce == [][SpendsNoGrantAgain]_requestVars

(* Neither a challenge nor a grant is sent again once the server has taken *)
(* it.                                                                     *)
NothingSentTwice == ChallengeSentOnce /\ GrantUsedOnce

================================================================================
