------------------------------- MODULE DemoGrants -------------------------------
(***************************************************************************)
(* The authorization server of the demo issuer (internal/demorp/issuer.go, *)
(* issuer_authcode.go, issuer_interactive.go): offers, pushed requests,    *)
(* authorization codes, challenge sessions and access tokens, kept in maps *)
(* under one mutex.  Several handlers take the mutex more than once, so a  *)
(* call of them is two or three steps.                                     *)
(*                                                                         *)
(* A map holds pointers.  Here the structs are functions on their ids, and *)
(* a map is the set of the ids it holds.  An id is fresh until its struct  *)
(* is made (randToken), and no struct is made twice.                       *)
(***************************************************************************)
EXTENDS Naturals, FiniteSets

CONSTANTS
    Offer, Request, Code, Session, Token,  \* random ids, which bound how many are made
    Call,        \* requests the server handles at the same time
    Client,      \* wallets, by client_id
    Key,         \* DPoP keys
    None,        \* no offer, no key, no struct
    Asked,       \* the grants that wallets ask for
    EntryTTL,    \* entryTTL
    AuthTTL,     \* authRequestTTL
    MaxEntries,  \* maxEntries
    MaxTime      \* bound: the clock

ASSUME BoundsAssumption ==
    /\ EntryTTL \in Nat /\ AuthTTL \in Nat /\ MaxTime \in Nat
    /\ MaxEntries \in Nat \ {0}
ASSUME NoneAssumption ==
    None \notin Offer \cup Request \cup Code \cup Session \cup Token \cup Client \cup Key
ASSUME DisjointAssumption == Offer \cap Request = {}

VARIABLES
    now,
    offer,         \* [Offer -> offerState]
    request,       \* [Request -> authRequestState]
    codeOf,        \* [Code -> the request a code was made for, or None]
    session,       \* [Session -> interactiveSession with its presentation request]
    token,         \* [Token -> tokenState]
    offers, authRequests, codes, interactive, requests, tokens,  \* the maps
    call,          \* [Call -> where a handler is, and its locals]
    pages,         \* sign-in pages rendered: a bag, [Request -> number]
    evicted        \* what makeRoom deleted

structs == <<offer, request, codeOf, session, token>>
maps == <<offers, authRequests, codes, interactive, requests, tokens>>
vars == <<now, structs, maps, call, pages, evicted>>

Grant == [client : Client \cup {None}, key : Key \cup {None}, redirect : BOOLEAN,
          offer : Offer \cup {None}]
NoGrant == [client |-> None, key |-> None, redirect |-> FALSE, offer |-> None]
ASSUME AskedAssumption == Asked \subseteq {g \in Grant : g.client # None}
Idle == [pc |-> "idle", grant |-> NoGrant, at |-> None, holder |-> "none"]

NoOffer == [grant |-> "none", mode |-> "browser", redeemed |-> FALSE, expires |-> 0]
NoRequest == [made |-> FALSE, grant |-> NoGrant, from |-> None, holder |-> "none",
              codeUsed |-> FALSE, resolved |-> FALSE, expires |-> 0]
NoSession == [made |-> FALSE, grant |-> NoGrant, browser |-> FALSE, status |-> "pending",
              expires |-> 0]
NoToken == [via |-> None, offer |-> None, holder |-> "none", key |-> None, expires |-> 0]

Init ==
    /\ now = 0
    /\ offer = [o \in Offer |-> NoOffer]
    /\ request = [r \in Request |-> NoRequest]
    /\ codeOf = [d \in Code |-> None]
    /\ session = [s \in Session |-> NoSession]
    /\ token = [t \in Token |-> NoToken]
    /\ offers = {} /\ authRequests = {} /\ codes = {}
    /\ interactive = {} /\ requests = {} /\ tokens = {}
    /\ call = [c \in Call |-> Idle]
    /\ pages = [r \in Request |-> 0]
    /\ evicted = {}

--------------------------------------------------------------------------------
(* pruneLocked keeps what has not expired, and of the codes only those     *)
(* whose request has not been used.                                        *)
Keeps(expires) == now <= expires

LiveOffers == {o \in offers : Keeps(offer[o].expires)}
LiveRequests == {r \in authRequests : Keeps(request[r].expires)}
LiveCodesTooFew ==  \* faulty: a request that rendered its page counts as used
    {d \in codes : Keeps(request[codeOf[d]].expires) /\ ~request[codeOf[d]].resolved}
LiveCodes == {d \in codes : Keeps(request[codeOf[d]].expires) /\ ~request[codeOf[d]].codeUsed}
LiveSessions == {s \in interactive : Keeps(session[s].expires)}
LivePresentations == {s \in requests : Keeps(session[s].expires)}
LiveTokens == {t \in tokens : Keeps(token[t].expires)}

(* makeRoom evicts what expires first until one more fits.  Go iterates a  *)
(* map in any order, so any of those that expire together may go.          *)
Room(n) == IF n < MaxEntries THEN n ELSE MaxEntries - 1
MakeRoom(S, expires(_)) ==
    {R \in SUBSET S :
        /\ Cardinality(R) = Room(Cardinality(S))
        /\ \A r \in R, s \in S \ R : expires(s) <= expires(r)}

OfferExpires(o) == offer[o].expires
RequestExpires(r) == request[r].expires
CodeExpires(d) == request[codeOf[d]].expires
SessionExpires(s) == session[s].expires
TokenExpires(t) == token[t].expires

--------------------------------------------------------------------------------
(* handleCreateOffer.                                                      *)
CreateOffer(o, grant, mode) ==
    /\ offer[o].grant = "none"
    /\ \E room \in MakeRoom(LiveOffers, OfferExpires) :
        /\ offers' = room \cup {o}
        /\ evicted' = evicted \cup (LiveOffers \ room)
    /\ offer' = [offer EXCEPT ![o] =
            [grant |-> grant, mode |-> mode, redeemed |-> FALSE, expires |-> now + EntryTTL]]
    /\ tokens' = LiveTokens /\ requests' = LivePresentations
    /\ authRequests' = LiveRequests /\ codes' = LiveCodes /\ interactive' = LiveSessions
    /\ UNCHANGED <<now, request, codeOf, session, token, call, pages>>

(* handleOfferByReference drops an offer that is past its time.            *)
FetchExpiredOffer(o) ==
    /\ o \in offers /\ ~Keeps(offer[o].expires)
    /\ offers' = offers \ {o}
    /\ UNCHANGED <<now, structs, authRequests, codes, interactive, requests, tokens, call, pages,
                   evicted>>

(* offerLocked: the offer whose grant key a wallet sends, while it lives.  *)
OfferLocked(o, grant) == o \in offers /\ offer[o].grant = grant /\ now < offer[o].expires

(* issueTokenLocked.                                                       *)
IssueTokenLocked(t, granted) ==
    /\ token[t].via = None
    /\ token' = [token EXCEPT ![t] = granted]
    /\ \E room \in MakeRoom(LiveTokens, TokenExpires) :
        /\ tokens' = room \cup {t}
        /\ evicted' = evicted \cup (LiveTokens \ room)
    /\ offers' = LiveOffers /\ requests' = LivePresentations
    /\ authRequests' = LiveRequests /\ codes' = LiveCodes /\ interactive' = LiveSessions

(* handleToken with a pre-authorized code, which is redeemed once.         *)
TokenPreAuthorized(t, o, key) ==
    /\ OfferLocked(o, "pre") /\ ~offer[o].redeemed
    /\ offer' = [offer EXCEPT ![o].redeemed = TRUE]
    /\ IssueTokenLocked(t, [via |-> o, offer |-> o, holder |-> "none", key |-> key,
                            expires |-> now + EntryTTL])
    /\ UNCHANGED <<now, request, codeOf, session, call, pages>>

--------------------------------------------------------------------------------
(* resolveAuthGrant: what a flow issues is fixed here.  issuer_state names *)
(* an offer, and a flow started by scope has none.                         *)
ResolveAuthGrant(c, grant, pc) ==
    /\ call[c].pc = "idle"
    /\ grant.offer = None \/ OfferLocked(grant.offer, "auth")
    /\ call' = [call EXCEPT ![c] = [Idle EXCEPT !.pc = pc, !.grant = grant]]
    /\ UNCHANGED <<now, structs, maps, pages, evicted>>

Mode(o) == IF o = None THEN "browser" ELSE offer[o].mode

(* handlePushedAuthorizationRequest, up to the request it stores.          *)
PushedAuthorizationRequest(c, grant) == grant.redirect /\ ResolveAuthGrant(c, grant, "push")

(* The pushed request is stored, by the PAR endpoint or by                 *)
(* pushChallengeAuthRequest.                                               *)
StoreRequest(c, r) ==
    /\ call[c].pc = "push"
    /\ ~request[r].made
    /\ request' = [request EXCEPT ![r] = [NoRequest EXCEPT !.made = TRUE, !.grant = call[c].grant,
                                                           !.expires = now + AuthTTL]]
    /\ \E room \in MakeRoom(LiveRequests, RequestExpires) :
        /\ authRequests' = room \cup {r}
        /\ evicted' = evicted \cup (LiveRequests \ room)
    /\ offers' = LiveOffers /\ tokens' = LiveTokens /\ requests' = LivePresentations
    /\ codes' = LiveCodes /\ interactive' = LiveSessions
    /\ call' = [call EXCEPT ![c] = Idle]
    /\ UNCHANGED <<now, offer, codeOf, session, token, pages>>

(* lookupAuthRequest, the first step of the sign-in page (pc "resolve")    *)
(* and of its form (pc "signin").                                          *)
LookupAuthRequest(c, r, pc) ==
    /\ call[c].pc = "idle"
    /\ request[r].made
    /\ \/ /\ r \in authRequests /\ Keeps(request[r].expires)
          /\ call' = [call EXCEPT ![c] = [Idle EXCEPT !.pc = pc, !.at = r]]
          /\ UNCHANGED authRequests
       \/ /\ r \in authRequests /\ ~Keeps(request[r].expires)
          /\ authRequests' = authRequests \ {r}
          /\ UNCHANGED call
    /\ UNCHANGED <<now, structs, offers, codes, interactive, requests, tokens, pages, evicted>>

(* resolveAuthRequest: the page is rendered for the first to ask.          *)
ResolveAuthRequest(c) ==
    /\ call[c].pc = "resolve"
    /\ LET r == call[c].at IN
        \/ /\ r \in authRequests /\ ~request[r].resolved
           /\ request' = [request EXCEPT ![r].resolved = TRUE]
           /\ pages' = [pages EXCEPT ![r] = @ + 1]
        \/ /\ r \notin authRequests \/ request[r].resolved
           /\ UNCHANGED <<request, pages>>
    /\ call' = [call EXCEPT ![c] = Idle]
    /\ UNCHANGED <<now, offer, codeOf, session, token, maps, evicted>>

(* redirectWithCode: a code for the request the form was looked up with.   *)
RedirectWithCode(c, d) ==
    /\ call[c].pc = "signin"
    /\ codeOf[d] = None
    /\ request' = [request EXCEPT ![call[c].at].holder = "account"]
    /\ codeOf' = [codeOf EXCEPT ![d] = call[c].at]
    /\ \E room \in MakeRoom(codes, CodeExpires) :
        /\ codes' = room \cup {d}
        /\ evicted' = evicted \cup (codes \ room)
    /\ call' = [call EXCEPT ![c] = Idle]
    /\ UNCHANGED <<now, offer, session, token, offers, authRequests, interactive, requests, tokens,
                   pages>>

--------------------------------------------------------------------------------
(* handleAuthorizationCodeToken, first step: a code is taken once, and so  *)
(* is every other code of the same request.                                *)
TakeCodeUnmarked(c, d) ==  \* faulty: the code is marked when its token is issued
    /\ call[c].pc = "idle"
    /\ d \in codes
    /\ LET r == codeOf[d] IN
        \/ /\ Keeps(request[r].expires) /\ ~request[r].codeUsed
           /\ call' = [call EXCEPT ![c] = [pc |-> "exchange", grant |-> request[r].grant, at |-> r,
                                           holder |-> request[r].holder]]
           /\ UNCHANGED <<request, codes>>
        \/ /\ ~Keeps(request[r].expires) \/ request[r].codeUsed
           /\ codes' = codes \ {d}
           /\ UNCHANGED <<request, call>>
    /\ UNCHANGED <<now, offer, codeOf, session, token, offers, authRequests, interactive, requests,
                   tokens, pages, evicted>>
TakeCode(c, d) ==
    /\ call[c].pc = "idle"
    /\ d \in codes
    /\ LET r == codeOf[d] IN
        \/ /\ Keeps(request[r].expires) /\ ~request[r].codeUsed
           /\ request' = [request EXCEPT ![r].codeUsed = TRUE]
           /\ call' = [call EXCEPT ![c] = [pc |-> "exchange", grant |-> request[r].grant, at |-> r,
                                           holder |-> request[r].holder]]
           /\ UNCHANGED codes
        \/ /\ ~Keeps(request[r].expires) \/ request[r].codeUsed
           /\ codes' = codes \ {d}
           /\ UNCHANGED <<request, call>>
    /\ UNCHANGED <<now, offer, codeOf, session, token, offers, authRequests, interactive, requests,
                   tokens, pages, evicted>>

(* Its second step: the client, the redirect URI and the DPoP key must be  *)
(* those of the request.  PKCE binds the code to the wallet that pushed    *)
(* the request, which Client already tells apart.                          *)
ExchangeAllowed(grant, client, redirect, key) ==
    /\ client = grant.client
    /\ redirect = grant.redirect
    /\ grant.key # None => key = grant.key

Exchange(c, t, client, redirect, key) ==
    /\ call[c].pc = "exchange"
    /\ ExchangeAllowed(call[c].grant, client, redirect, key)
    /\ IssueTokenLocked(t, [via |-> call[c].at, offer |-> call[c].grant.offer,
                            holder |-> call[c].holder, key |-> key, expires |-> now + EntryTTL])
    /\ call' = [call EXCEPT ![c] = Idle]
    /\ UNCHANGED <<now, offer, request, codeOf, session, pages>>

--------------------------------------------------------------------------------
(* startInteractiveAuthorization resolves the grant and then asks for the  *)
(* interaction the offer wants: the sign-in as auth_via_web, with a        *)
(* session, or as redirect_to_web, without one, or a presentation.         *)
StartChallenge(c, grant) == ResolveAuthGrant(c, grant, "challenge")

StoreSession(c, s, fields) ==
    /\ call[c].pc = "challenge"
    /\ ~session[s].made
    /\ session' = [session EXCEPT ![s] = fields]
    /\ \E room \in MakeRoom(LiveSessions, SessionExpires) :
        /\ interactive' = room \cup {s}
        /\ evicted' = evicted \cup (LiveSessions \ room)
    /\ offers' = LiveOffers /\ tokens' = LiveTokens
    /\ authRequests' = LiveRequests /\ codes' = LiveCodes
    /\ UNCHANGED <<now, offer, request, codeOf, token, pages>>

AuthViaWeb(c, s) ==
    /\ Mode(call[c].grant.offer) = "browser" /\ call[c].grant.redirect
    /\ StoreSession(c, s, [made |-> TRUE, grant |-> call[c].grant, browser |-> TRUE,
                           status |-> "pending", expires |-> now + EntryTTL])
    /\ requests' = LivePresentations
    /\ call' = [call EXCEPT ![c].pc = "push"]

RedirectToWeb(c) ==
    /\ call[c].pc = "challenge"
    /\ Mode(call[c].grant.offer) = "browser" /\ call[c].grant.redirect
    /\ call' = [call EXCEPT ![c].pc = "push"]
    /\ UNCHANGED <<now, structs, maps, pages, evicted>>

AskForPresentation(c, s) ==
    /\ Mode(call[c].grant.offer) = "presentation"
    /\ StoreSession(c, s, [made |-> TRUE, grant |-> [call[c].grant EXCEPT !.redirect = FALSE],
                           browser |-> FALSE, status |-> "pending", expires |-> now + EntryTTL])
    /\ \E room \in MakeRoom(LivePresentations, SessionExpires) : requests' = room \cup {s}
    /\ call' = [call EXCEPT ![c] = Idle]

(* continueInteractiveAuthorization: the session is looked up, its browser *)
(* interaction repeated or its presentation verified, and a verified       *)
(* presentation gets a code.                                               *)
ContinueBlindly(c, s, client) ==  \* faulty: a browser session is taken for a presentation
    /\ call[c].pc = "idle"
    /\ s \in interactive /\ Keeps(session[s].expires) /\ client = session[s].grant.client
    /\ call' = [call EXCEPT ![c] = [Idle EXCEPT !.pc = "verify", !.at = s,
                                                !.grant = session[s].grant]]
    /\ UNCHANGED <<now, structs, maps, pages, evicted>>
ContinueSession(c, s, client) ==
    /\ call[c].pc = "idle"
    /\ s \in interactive
    /\ \/ /\ Keeps(session[s].expires) /\ client = session[s].grant.client
          /\ call' = [call EXCEPT ![c] =
                [Idle EXCEPT !.pc = IF session[s].browser THEN "push" ELSE "verify", !.at = s,
                             !.grant = session[s].grant]]
          /\ UNCHANGED interactive
       \/ /\ ~Keeps(session[s].expires)
          /\ interactive' = interactive \ {s}
          /\ UNCHANGED call
    /\ UNCHANGED <<now, structs, offers, authRequests, codes, requests, tokens, pages, evicted>>

VerifyPresentation(c, status) ==
    /\ call[c].pc = "verify"
    /\ session' = [session EXCEPT ![call[c].at].status = status]
    /\ call' = [call EXCEPT ![c] = IF status = "verified" THEN [@ EXCEPT !.pc = "grant"] ELSE Idle]
    /\ UNCHANGED <<now, offer, request, codeOf, token, maps, pages, evicted>>

GrantCode(c, d, r) ==
    /\ call[c].pc = "grant"
    /\ codeOf[d] = None /\ ~request[r].made
    /\ request' = [request EXCEPT ![r] =
            [NoRequest EXCEPT !.made = TRUE, !.grant = call[c].grant, !.from = call[c].at,
                              !.holder = "presented", !.expires = now + EntryTTL]]
    /\ codeOf' = [codeOf EXCEPT ![d] = r]
    /\ \E room \in MakeRoom(codes, CodeExpires) :
        /\ codes' = room \cup {d}
        /\ evicted' = evicted \cup (codes \ room)
    /\ interactive' = interactive \ {call[c].at}
    /\ call' = [call EXCEPT ![c] = Idle]
    /\ UNCHANGED <<now, offer, session, token, offers, authRequests, requests, tokens, pages>>

--------------------------------------------------------------------------------
(* A call is refused after its first step: a wrong account, a check of the *)
(* code that fails, an interaction the wallet does not support, a          *)
(* malformed response.                                                     *)
Refuse(c) ==
    /\ call[c].pc \in {"signin", "exchange", "challenge", "verify"}
    /\ call' = [call EXCEPT ![c] = Idle]
    /\ UNCHANGED <<now, structs, maps, pages, evicted>>

(* handleNonce, deferIssuance and the verifier's finalizeRequest prune     *)
(* these maps too.                                                         *)
PruneLocked ==
    /\ offers' = LiveOffers /\ tokens' = LiveTokens /\ requests' = LivePresentations
    /\ authRequests' = LiveRequests /\ codes' = LiveCodes /\ interactive' = LiveSessions
    /\ UNCHANGED <<now, structs, call, pages, evicted>>

Tick ==
    /\ now < MaxTime
    /\ now' = now + 1
    /\ UNCHANGED <<structs, maps, call, pages, evicted>>

Next ==
    \/ \E o \in Offer, mode \in {"browser", "presentation"} :
        CreateOffer(o, "pre", mode) \/ CreateOffer(o, "auth", mode)
    \/ \E o \in Offer : FetchExpiredOffer(o)
    \/ \E t \in Token, o \in Offer, k \in Key \cup {None} : TokenPreAuthorized(t, o, k)
    \/ \E c \in Call, g \in Asked :
        PushedAuthorizationRequest(c, g) \/ StartChallenge(c, g)
    \/ \E c \in Call, r \in Request :
        \/ StoreRequest(c, r)
        \/ LookupAuthRequest(c, r, "resolve")
        \/ LookupAuthRequest(c, r, "signin")
    \/ \E c \in Call : ResolveAuthRequest(c)
    \/ \E c \in Call, d \in Code : RedirectWithCode(c, d) \/ TakeCode(c, d)
    \/ \E c \in Call, t \in Token, w \in Client, u \in BOOLEAN, k \in Key \cup {None} :
        Exchange(c, t, w, u, k)
    \/ \E c \in Call, s \in Session : AuthViaWeb(c, s) \/ AskForPresentation(c, s)
    \/ \E c \in Call : RedirectToWeb(c) \/ Refuse(c)
    \/ \E c \in Call, s \in Session, w \in Client : ContinueSession(c, s, w)
    \/ \E c \in Call, status \in {"verified", "failed"} : VerifyPresentation(c, status)
    \/ \E c \in Call, d \in Code, r \in Request : GrantCode(c, d, r)
    \/ PruneLocked
    \/ Tick

Spec == Init /\ [][Next]_vars

--------------------------------------------------------------------------------
OfferState == [grant : {"none", "pre", "auth"}, mode : {"browser", "presentation"},
               redeemed : BOOLEAN, expires : Nat]
Holder == {"none", "account", "presented"}
RequestState == [made : BOOLEAN, grant : Grant, from : Session \cup {None}, holder : Holder,
                 codeUsed : BOOLEAN, resolved : BOOLEAN, expires : Nat]
SessionState == [made : BOOLEAN, grant : Grant, browser : BOOLEAN,
                 status : {"pending", "verified", "failed"}, expires : Nat]
TokenState == [via : Offer \cup Request \cup {None}, offer : Offer \cup {None}, holder : Holder,
               key : Key \cup {None}, expires : Nat]
CallState == [pc : {"idle", "push", "resolve", "signin", "exchange", "challenge", "verify",
                    "grant"},
              grant : Grant, at : Request \cup Session \cup {None}, holder : Holder]

TypeOK ==
    /\ now \in Nat
    /\ offer \in [Offer -> OfferState]
    /\ request \in [Request -> RequestState]
    /\ codeOf \in [Code -> Request \cup {None}]
    /\ session \in [Session -> SessionState]
    /\ token \in [Token -> TokenState]
    /\ offers \subseteq Offer /\ authRequests \subseteq Request
    /\ codes \subseteq {d \in Code : codeOf[d] # None}
    /\ interactive \subseteq Session /\ requests \subseteq Session /\ tokens \subseteq Token
    /\ call \in [Call -> CallState]
    /\ pages \in [Request -> Nat]
    /\ evicted \subseteq Offer \cup Request \cup Code \cup Session \cup Token

(* A pre-authorized code, and a pushed or challenged authorization, gives  *)
(* one access token, however many codes the form handed out for it and     *)
(* however the exchanges interleave (redeemOfferLocked, codeUsed).         *)
OneTokenPerGrant ==
    \A t, u \in Token : token[t].via = token[u].via /\ token[t].via # None => t = u

(* A token carries the settings, the DPoP key and the holder of the grant  *)
(* it was exchanged for, and a presentation stands in for the sign-in only *)
(* where the offer asked for one.                                          *)
TokensMatchTheirGrant ==
    \A t \in Token :
        /\ token[t].via \in Offer =>
            token[t].offer = token[t].via /\ token[t].holder = "none"
        /\ token[t].via \in Request =>
            LET r == request[token[t].via] IN
            /\ token[t].offer = r.grant.offer
            /\ r.grant.key # None => token[t].key = r.grant.key
            /\ token[t].holder = IF r.from = None THEN "account" ELSE "presented"
            /\ token[t].holder = "presented" => Mode(token[t].offer) = "presentation"

(* The sign-in page of a pushed request is rendered once (RFC 9126 §4 in   *)
(* handleAuthorize), also when two browsers looked the request up before   *)
(* either was marked.                                                      *)
PageRenderedOnce == \A r \in Request : pages[r] <= 1

(* No map grows past maxEntries, also where a handler adds an entry        *)
(* without pruning first.                                                  *)
MapsBounded ==
    \A S \in {offers, authRequests, codes, interactive, requests, tokens} :
        Cardinality(S) <= MaxEntries

(* Pruning and the lookups delete only what expired or was used: an entry  *)
(* makeRoom did not evict is found until then.                             *)
LiveEntriesStay ==
    /\ \A o \in Offer \ evicted : offer[o].grant # "none" /\ Keeps(offer[o].expires) => o \in offers
    /\ \A r \in Request \ evicted :
        request[r].made /\ request[r].from = None /\ Keeps(request[r].expires) => r \in authRequests
    /\ \A d \in Code \ evicted :
        codeOf[d] # None /\ Keeps(CodeExpires(d)) /\ ~request[codeOf[d]].codeUsed => d \in codes
    /\ \A t \in Token \ evicted : token[t].via # None /\ Keeps(token[t].expires) => t \in tokens

(* The maps of the demo issuer stay within their bound, lose nothing that  *)
(* is still usable and serve a pushed request once (pruneLocked, makeRoom, *)
(* handleAuthorize).                                                       *)
MapsAreSound == MapsBounded /\ LiveEntriesStay /\ PageRenderedOnce

================================================================================
