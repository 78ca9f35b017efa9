---------------------------- MODULE DemoGrantsMaps -----------------------------
(***************************************************************************)
(* The maps of the demo issuer stay within maxEntries, lose nothing that is *)
(* live and unused, and serve a pushed request once, for any number of     *)
(* entries and concurrent calls.                                           *)
(***************************************************************************)
EXTENDS DemoGrantsProofs, FiniteSetTheorems

USE BoundsAssumption, NoneAssumption, DisjointAssumption, AskedAssumption

(* The maps of the issuer: finite, and within their bound.                 *)
Bounded(S) == IsFiniteSet(S) /\ Cardinality(S) <= MaxEntries
BoundInv ==
    /\ Bounded(offers) /\ Bounded(authRequests) /\ Bounded(codes)
    /\ Bounded(interactive) /\ Bounded(requests) /\ Bounded(tokens)

(* A map either loses entries or gains one that makeRoom made room for.    *)
Fits(S, T) ==
    \/ T \subseteq S
    \/ \E L \in SUBSET S : \E R \in SUBSET L : \E x :
        Cardinality(R) = Room(Cardinality(L)) /\ T = R \cup {x}

MapsFit ==
    /\ Fits(offers, offers') /\ Fits(authRequests, authRequests') /\ Fits(codes, codes')
    /\ Fits(interactive, interactive') /\ Fits(requests, requests') /\ Fits(tokens, tokens')

LEMMA FitsBounded ==
    ASSUME NEW S, NEW T, Bounded(S), Fits(S, T)
    PROVE  Bounded(T)
<1>1. ASSUME NEW L, L \subseteq S
      PROVE  Bounded(L) /\ Cardinality(L) \in Nat
    <2>1. IsFiniteSet(L) /\ Cardinality(L) <= Cardinality(S)
        BY ZenonT(60), <1>1, FS_Subset DEF Bounded
    <2>2. Cardinality(L) \in Nat /\ Cardinality(S) \in Nat
        BY ZenonT(60), <2>1, FS_CardinalityType DEF Bounded
    <2> QED
        BY SMTT(60), <2>1, <2>2 DEF Bounded
<1>2. ASSUME NEW L, L \subseteq S, NEW R, R \subseteq L, NEW x,
             Cardinality(R) = Room(Cardinality(L)), T = R \cup {x}
      PROVE  Bounded(T)
    <2>1. Cardinality(L) \in Nat /\ IsFiniteSet(R) /\ Cardinality(R) \in Nat
        BY ZenonT(60), <1>1, <1>2 DEF Bounded
    <2>2. Cardinality(R) + 1 <= MaxEntries
        BY SMTT(60), <1>2, <2>1 DEF Room
    <2>3. IsFiniteSet(T) /\ (Cardinality(T) = Cardinality(R) \/ Cardinality(T) = Cardinality(R) + 1)
        BY ZenonT(60), <1>2, <2>1, FS_AddElement
    <2> QED
        BY SMTT(60), <2>1, <2>2, <2>3 DEF Bounded
<1> QED
    BY ZenonT(60), <1>1, <1>2 DEF Fits

LEMMA LosesFits == ASSUME NEW S, NEW T, T \subseteq S PROVE Fits(S, T)
BY Zenon DEF Fits

LEMMA GainsFits ==
    ASSUME NEW S, NEW L, L \subseteq S, NEW R, R \subseteq L,
           Cardinality(R) = Room(Cardinality(L)), NEW x
    PROVE  Fits(S, R \cup {x})
BY Zenon DEF Fits

LEMMA OfferFits ==
    ASSUME NEW o, NEW g, NEW m, CreateOffer(o, g, m)
    PROVE  MapsFit
<1>1. Fits(offers, offers')
    <2>1. PICK room \in SUBSET LiveOffers : /\ Cardinality(room) = Room(Cardinality(LiveOffers))
                                            /\ offers' = room \cup {o}
        BY Zenon DEF CreateOffer, MakeRoom
    <2> QED
        BY ZenonT(60), <2>1, LiveSubsets, GainsFits
<1> QED
    BY ZenonT(60), <1>1, LosesFits, LiveSubsets DEF CreateOffer, MapsFit

LEMMA IssueFits ==
    ASSUME NEW t, NEW granted, IssueTokenLocked(t, granted)
    PROVE  MapsFit
<1>1. Fits(tokens, tokens')
    <2>1. PICK room \in SUBSET LiveTokens : /\ Cardinality(room) = Room(Cardinality(LiveTokens))
                                            /\ tokens' = room \cup {t}
        BY Zenon DEF IssueTokenLocked, MakeRoom
    <2> QED
        BY ZenonT(60), <2>1, LiveSubsets, GainsFits
<1> QED
    BY ZenonT(60), <1>1, LosesFits, LiveSubsets DEF IssueTokenLocked, MapsFit

LEMMA StoreRequestFits ==
    ASSUME NEW c, NEW r, StoreRequest(c, r)
    PROVE  MapsFit
<1>1. Fits(authRequests, authRequests')
    <2>1. PICK room \in SUBSET LiveRequests : /\ Cardinality(room) = Room(Cardinality(LiveRequests))
                                              /\ authRequests' = room \cup {r}
        BY Zenon DEF StoreRequest, MakeRoom
    <2> QED
        BY ZenonT(60), <2>1, LiveSubsets, GainsFits
<1> QED
    BY ZenonT(60), <1>1, LosesFits, LiveSubsets DEF StoreRequest, MapsFit

LEMMA CodeFits ==
    ASSUME NEW c, NEW d, NEW r, RedirectWithCode(c, d) \/ GrantCode(c, d, r)
    PROVE  MapsFit
<1>1. Fits(codes, codes')
    <2>1. PICK room \in SUBSET codes : /\ Cardinality(room) = Room(Cardinality(codes))
                                       /\ codes' = room \cup {d}
        BY Zenon DEF RedirectWithCode, GrantCode, MakeRoom
    <2> QED
        BY ZenonT(60), <2>1, GainsFits
<1>2. /\ UNCHANGED <<offers, authRequests, requests, tokens>>
      /\ interactive' \subseteq interactive
    BY Zenon DEF RedirectWithCode, GrantCode
<1> QED
    BY ZenonT(60), <1>1, <1>2, LosesFits DEF MapsFit

LEMMA SessionFits ==
    ASSUME NEW c, NEW s, AuthViaWeb(c, s) \/ AskForPresentation(c, s)
    PROVE  MapsFit
<1>1. PICK fields : StoreSession(c, s, fields)
    BY Zenon DEF AuthViaWeb, AskForPresentation
<1>2. Fits(interactive, interactive')
    <2>1. PICK room \in SUBSET LiveSessions : /\ Cardinality(room) = Room(Cardinality(LiveSessions))
                                              /\ interactive' = room \cup {s}
        BY ZenonT(60), <1>1 DEF StoreSession, MakeRoom
    <2> QED
        BY ZenonT(60), <2>1, LiveSubsets, GainsFits
<1>3. Fits(requests, requests')
    <2>1. CASE AuthViaWeb(c, s)
        BY ZenonT(60), <2>1, LiveSubsets, LosesFits DEF AuthViaWeb
    <2>2. CASE AskForPresentation(c, s)
        <3>1. PICK room \in SUBSET LivePresentations :
                    /\ Cardinality(room) = Room(Cardinality(LivePresentations))
                    /\ requests' = room \cup {s}
            BY ZenonT(60), <2>2 DEF AskForPresentation, MakeRoom
        <3> QED
            BY ZenonT(60), <3>1, LiveSubsets, GainsFits
    <2> QED
        BY ZenonT(60), <2>1, <2>2
<1> QED
    BY ZenonT(60), <1>1, <1>2, <1>3, LosesFits, LiveSubsets DEF StoreSession, MapsFit
(* The other actions add nothing to a map.                                 *)
LEMMA OtherFits ==
    ASSUME \/ \E o \in Offer : FetchExpiredOffer(o)
           \/ \E c \in Call, g \in Asked :
                ResolveAuthGrant(c, g, "push") \/ ResolveAuthGrant(c, g, "challenge")
           \/ \E c \in Call, r \in Request :
                LookupAuthRequest(c, r, "resolve") \/ LookupAuthRequest(c, r, "signin")
           \/ \E c \in Call : ResolveAuthRequest(c) \/ RedirectToWeb(c) \/ Refuse(c)
           \/ \E c \in Call, d \in Code : TakeCode(c, d)
           \/ \E c \in Call, s \in Session, w \in Client : ContinueSession(c, s, w)
           \/ \E c \in Call, status \in {"verified", "failed"} : VerifyPresentation(c, status)
           \/ PruneLocked
           \/ Tick
           \/ UNCHANGED vars
    PROVE  MapsFit
<1>1. /\ offers' \subseteq offers /\ authRequests' \subseteq authRequests /\ codes' \subseteq codes
      /\ interactive' \subseteq interactive /\ requests' \subseteq requests /\ tokens' \subseteq tokens
    <2>1. CASE \E o \in Offer : FetchExpiredOffer(o)
        BY ZenonT(60), <2>1 DEF FetchExpiredOffer
    <2>2. CASE \E c \in Call, r \in Request :
                LookupAuthRequest(c, r, "resolve") \/ LookupAuthRequest(c, r, "signin")
        BY ZenonT(60), <2>2 DEF LookupAuthRequest
    <2>3. CASE \E c \in Call, d \in Code : TakeCode(c, d)
        BY ZenonT(60), <2>3 DEF TakeCode
    <2>4. CASE \E c \in Call, s \in Session, w \in Client : ContinueSession(c, s, w)
        BY ZenonT(60), <2>4 DEF ContinueSession
    <2>5. CASE PruneLocked
        BY ZenonT(60), <2>5, LiveSubsets DEF PruneLocked
    <2>6. CASE UNCHANGED maps
        BY ZenonT(60), <2>6 DEF maps
    <2> QED
        BY ZenonT(60), <2>1, <2>2, <2>3, <2>4, <2>5, <2>6
           DEF ResolveAuthGrant, ResolveAuthRequest, RedirectToWeb, Refuse, VerifyPresentation,
               Tick, vars
<1> QED
    BY ZenonT(60), <1>1, LosesFits DEF MapsFit

LEMMA NextFits == [Next]_vars => MapsFit
<1> SUFFICES ASSUME [Next]_vars PROVE MapsFit
    BY Zenon
<1>1. CASE \E o \in Offer, mode \in {"browser", "presentation"} :
               CreateOffer(o, "pre", mode) \/ CreateOffer(o, "auth", mode)
    BY ZenonT(60), <1>1, OfferFits
<1>2. CASE \E t \in Token, o \in Offer, k \in Key \cup {None} : TokenPreAuthorized(t, o, k)
    BY ZenonT(60), <1>2, IssueFits DEF TokenPreAuthorized
<1>3. CASE \E c \in Call, r \in Request : StoreRequest(c, r)
    BY ZenonT(60), <1>3, StoreRequestFits
<1>4. CASE \E c \in Call, d \in Code : RedirectWithCode(c, d)
    BY ZenonT(60), <1>4, CodeFits
<1>5. CASE \E c \in Call, t \in Token, w \in Client, u \in BOOLEAN, k \in Key \cup {None} :
               Exchange(c, t, w, u, k)
    BY ZenonT(60), <1>5, IssueFits DEF Exchange
<1>6. CASE \E c \in Call, s \in Session : AuthViaWeb(c, s) \/ AskForPresentation(c, s)
    BY ZenonT(60), <1>6, SessionFits
<1>7. CASE \E c \in Call, d \in Code, r \in Request : GrantCode(c, d, r)
    BY ZenonT(60), <1>7, CodeFits
<1> QED
    BY ZenonT(60), <1>1, <1>2, <1>3, <1>4, <1>5, <1>6, <1>7, OtherFits
       DEF Next, PushedAuthorizationRequest, StartChallenge

LEMMA InitBounded == Init => BoundInv
BY SMTT(60), FS_EmptySet DEF Init, BoundInv, Bounded

LEMMA NextBounded == BoundInv /\ [Next]_vars => BoundInv'
BY ZenonT(60), NextFits, FitsBounded DEF BoundInv, MapsFit, Bounded

(* A page is rendered for a request that is then marked as resolved.       *)
PageInv ==
    \A r \in Request :
        /\ request[r].resolved => request[r].made
        /\ pages[r] <= 1
        /\ ~request[r].resolved => pages[r] = 0

PagesAdvance ==
    \A r \in Request :
        \/ /\ pages'[r] = pages[r] /\ request'[r].resolved = request[r].resolved
           /\ request[r].made => request'[r].made
        \/ pages'[r] = pages[r] /\ ~request[r].made /\ ~request'[r].resolved
        \/ /\ ~request[r].resolved /\ pages'[r] = pages[r] + 1
           /\ request'[r].resolved /\ request'[r].made

LEMMA PagesKept ==
    ASSUME TypeOK, TypeOK', PageInv, PagesAdvance
    PROVE  PageInv'
BY SMTT(120) DEF PageInv, PagesAdvance, TypeOK, RequestState

LEMMA NextPages == IInv /\ [Next]_vars => PagesAdvance
<1> SUFFICES ASSUME IInv, [Next]_vars PROVE PagesAdvance
    BY Zenon
<1>1. CASE UNCHANGED <<request, pages>>
    BY ZenonT(60), <1>1 DEF PagesAdvance
<1>2. ASSUME NEW c \in Call, NEW r \in Request, StoreRequest(c, r)
      PROVE  PagesAdvance
    BY ZenonT(60), <1>2 DEF StoreRequest, PagesAdvance, NoRequest, IInv, TypeOK
<1>3. ASSUME NEW c \in Call, ResolveAuthRequest(c)
      PROVE  PagesAdvance
    BY SMTT(60), <1>3 DEF ResolveAuthRequest, PagesAdvance, IInv, TypeOK, RequestState, Made
<1>4. ASSUME NEW c \in Call, NEW d \in Code, RedirectWithCode(c, d)
      PROVE  PagesAdvance
    BY SMTT(60), <1>4 DEF RedirectWithCode, PagesAdvance, IInv, TypeOK, RequestState
<1>5. ASSUME NEW c \in Call, NEW d \in Code, TakeCode(c, d)
      PROVE  PagesAdvance
    BY SMTT(60), <1>5 DEF TakeCode, PagesAdvance, IInv, TypeOK, RequestState
<1>6. ASSUME NEW c \in Call, NEW d \in Code, NEW r \in Request, GrantCode(c, d, r)
      PROVE  PagesAdvance
    BY ZenonT(60), <1>6 DEF GrantCode, PagesAdvance, NoRequest, IInv, TypeOK
<1>7. ASSUME NEW c \in Call, NEW s \in Session, AuthViaWeb(c, s) \/ AskForPresentation(c, s)
      PROVE  UNCHANGED <<request, pages>>
    BY ZenonT(60), <1>7 DEF AuthViaWeb, AskForPresentation, StoreSession
<1>8. \/ \E c \in Call, r \in Request : StoreRequest(c, r)
      \/ \E c \in Call : ResolveAuthRequest(c)
      \/ \E c \in Call, d \in Code : RedirectWithCode(c, d) \/ TakeCode(c, d)
      \/ \E c \in Call, d \in Code, r \in Request : GrantCode(c, d, r)
      \/ UNCHANGED <<request, pages>>
    BY ZenonT(60), <1>7 DEF Next, vars, structs, CreateOffer, FetchExpiredOffer, TokenPreAuthorized,
        PushedAuthorizationRequest, StartChallenge, ResolveAuthGrant, LookupAuthRequest, Exchange,
        RedirectToWeb, Refuse, ContinueSession, VerifyPresentation, PruneLocked, Tick
<1> QED
    BY Zenon, <1>1, <1>2, <1>3, <1>4, <1>5, <1>6, <1>8

--------------------------------------------------------------------------------
(* What a step may do to entries: a live one stays in its map or is        *)
(* evicted, a new one is put there, and no other lives longer for it.      *)
OffersStay ==
    /\ LiveOffers \subseteq offers' \cup evicted'
    /\ \A o \in Offer :
        \/ o \in offers' \/ offer'[o].grant = "none"
        \/ offer[o].grant # "none" /\ offer'[o].expires = offer[o].expires
RequestsStay ==
    /\ LiveRequests \subseteq authRequests' \cup evicted'
    /\ \A r \in Request :
        \/ r \in authRequests' \/ ~request'[r].made \/ request'[r].from # None
        \/ /\ request[r].made /\ request[r].from = None
           /\ request'[r].expires = request[r].expires
CodesStay ==
    /\ LiveCodes \subseteq codes' \cup evicted'
    /\ \A d \in Code : d \in codes' \/ codeOf'[d] = codeOf[d]
    /\ \A r \in Request : request[r].made =>
        /\ request'[r].expires = request[r].expires
        /\ request[r].codeUsed => request'[r].codeUsed
TokensStay ==
    /\ LiveTokens \subseteq tokens' \cup evicted'
    /\ \A t \in Token :
        \/ t \in tokens' \/ token'[t].via = None
        \/ token[t].via # None /\ token'[t].expires = token[t].expires
EntriesStay ==
    /\ evicted \subseteq evicted' /\ now <= now'
    /\ OffersStay /\ RequestsStay /\ CodesStay /\ TokensStay

LEMMA EntriesKept ==
    ASSUME IInv, IInv', LiveEntriesStay, EntriesStay
    PROVE  LiveEntriesStay'
<1>1. ASSUME NEW e \in Nat, ~Keeps(e)
      PROVE  ~Keeps(e)'
    BY SMTT(60), <1>1 DEF Keeps, EntriesStay, IInv, TypeOK
<1>2. \A e \in Nat : Keeps(e)' => Keeps(e)
    BY ZenonT(60), <1>1 DEF Keeps
<1>3. \A o \in Offer \ evicted' : offer'[o].grant # "none" /\ Keeps(offer[o].expires)' => o \in offers'
    BY ZenonT(60), <1>2 DEF EntriesStay, OffersStay, LiveEntriesStay, LiveOffers, IInv, TypeOK, OfferState
<1>4. \A r \in Request \ evicted' :
        request'[r].made /\ request'[r].from = None /\ Keeps(request[r].expires)' => r \in authRequests'
    BY ZenonT(60), <1>2 DEF EntriesStay, RequestsStay, LiveEntriesStay, LiveRequests, IInv, TypeOK, RequestState
<1>5. \A d \in Code \ evicted' :
        codeOf'[d] # None /\ Keeps(CodeExpires(d))' /\ ~request'[codeOf'[d]].codeUsed => d \in codes'
    <2> SUFFICES ASSUME NEW d \in Code, d \notin evicted', codeOf'[d] # None,
                        Keeps(CodeExpires(d))', ~request'[codeOf'[d]].codeUsed, d \notin codes'
                 PROVE  FALSE
        BY ZenonT(60)
    <2> DEFINE r == codeOf[d]
    <2>1. codeOf'[d] = r /\ r \in Request /\ request[r].made /\ request[r].expires \in Nat
        BY SMTT(60) DEF EntriesStay, CodesStay, IInv, TypeOK, Made, RequestState
    <2>2. request'[r].expires = request[r].expires /\ ~request[r].codeUsed
        BY ZenonT(60), <2>1 DEF EntriesStay, CodesStay
    <2>3. Keeps(request[r].expires)
        BY ZenonT(60), <1>2, <2>1, <2>2 DEF CodeExpires
    <2>4. d \in codes
        BY ZenonT(60), <2>1, <2>2, <2>3 DEF LiveEntriesStay, EntriesStay, CodeExpires
    <2> QED
        BY ZenonT(60), <2>2, <2>3, <2>4 DEF LiveCodes, EntriesStay, CodesStay
<1>6. \A t \in Token \ evicted' : token'[t].via # None /\ Keeps(token[t].expires)' => t \in tokens'
    BY ZenonT(60), <1>2 DEF EntriesStay, TokensStay, LiveEntriesStay, LiveTokens, IInv, TypeOK, TokenState
<1> QED
    BY ZenonT(60), <1>3, <1>4, <1>5, <1>6 DEF LiveEntriesStay
(* A step that changes no struct and deletes from the maps at most what    *)
(* pruneLocked deletes.                                                    *)
LEMMA StructsStay ==
    ASSUME IInv, UNCHANGED structs, evicted' = evicted, now <= now',
           LiveOffers \subseteq offers', LiveRequests \subseteq authRequests',
           LiveCodes \subseteq codes', LiveTokens \subseteq tokens'
    PROVE  EntriesStay
BY Zenon DEF EntriesStay, OffersStay, RequestsStay, CodesStay, TokensStay, structs

LEMMA OtherEntries ==
    ASSUME IInv,
           \/ \E o \in Offer : FetchExpiredOffer(o)
           \/ \E c \in Call, g \in Asked :
                ResolveAuthGrant(c, g, "push") \/ ResolveAuthGrant(c, g, "challenge")
           \/ \E c \in Call, r \in Request :
                LookupAuthRequest(c, r, "resolve") \/ LookupAuthRequest(c, r, "signin")
           \/ \E c \in Call : RedirectToWeb(c) \/ Refuse(c)
           \/ \E c \in Call, s \in Session, w \in Client : ContinueSession(c, s, w)
           \/ PruneLocked
           \/ Tick
           \/ UNCHANGED vars
    PROVE  EntriesStay
<1>1. UNCHANGED <<structs, evicted>>
    BY ZenonT(60) DEF FetchExpiredOffer, ResolveAuthGrant, LookupAuthRequest, RedirectToWeb, Refuse,
           ContinueSession, PruneLocked, Tick, vars
<1>2. now <= now'
    <2>1. now' = now \/ now' = now + 1
        BY ZenonT(60) DEF FetchExpiredOffer, ResolveAuthGrant, LookupAuthRequest, RedirectToWeb, Refuse,
                     ContinueSession, PruneLocked, Tick, vars
    <2> QED
        BY SMTT(60), <2>1 DEF IInv, TypeOK
<1>3. /\ LiveOffers \subseteq offers' /\ LiveRequests \subseteq authRequests'
      /\ LiveCodes \subseteq codes' /\ LiveTokens \subseteq tokens'
    <2>1. CASE \E o \in Offer : FetchExpiredOffer(o)
        BY ZenonT(60), <2>1, LiveSubsets DEF FetchExpiredOffer, LiveOffers
    <2>2. CASE \E c \in Call, r \in Request :
                LookupAuthRequest(c, r, "resolve") \/ LookupAuthRequest(c, r, "signin")
        BY ZenonT(60), <2>2, LiveSubsets DEF LookupAuthRequest, LiveRequests
    <2>3. CASE \E c \in Call, s \in Session, w \in Client : ContinueSession(c, s, w)
        BY ZenonT(60), <2>3, LiveSubsets DEF ContinueSession
    <2>4. CASE PruneLocked
        BY ZenonT(60), <2>4 DEF PruneLocked
    <2>5. CASE UNCHANGED maps
        BY ZenonT(60), <2>5, LiveSubsets DEF maps
    <2> QED
        BY ZenonT(60), <2>1, <2>2, <2>3, <2>4, <2>5 DEF ResolveAuthGrant, RedirectToWeb, Refuse, Tick, vars
<1> QED
    BY ZenonT(60), <1>1, <1>2, <1>3, StructsStay

LEMMA OfferEntries ==
    ASSUME IInv, NEW o \in Offer, NEW g, NEW m, CreateOffer(o, g, m)
    PROVE  EntriesStay
<1>1. /\ LiveOffers \subseteq offers' \cup evicted' /\ o \in offers' /\ evicted \subseteq evicted'
      /\ \A p \in Offer : p # o => offer'[p] = offer[p]
    BY ZenonT(60) DEF CreateOffer, MakeRoom, IInv, TypeOK
<1>2. /\ tokens' = LiveTokens /\ authRequests' = LiveRequests /\ codes' = LiveCodes
      /\ UNCHANGED <<now, request, codeOf, token>>
    BY ZenonT(60) DEF CreateOffer
<1> QED
    BY SMTT(120), <1>1, <1>2 DEF EntriesStay, OffersStay, RequestsStay, CodesStay, TokensStay, IInv, TypeOK

LEMMA IssueEntries ==
    ASSUME IInv, NEW t \in Token, NEW granted, IssueTokenLocked(t, granted),
           UNCHANGED <<now, request, codeOf>>,
           \A o \in Offer : offer'[o].grant = offer[o].grant /\ offer'[o].expires = offer[o].expires
    PROVE  EntriesStay
<1>1. /\ LiveTokens \subseteq tokens' \cup evicted' /\ t \in tokens' /\ evicted \subseteq evicted'
      /\ \A u \in Token : u # t => token'[u] = token[u]
    BY ZenonT(60) DEF IssueTokenLocked, MakeRoom, IInv, TypeOK
<1>2. offers' = LiveOffers /\ authRequests' = LiveRequests /\ codes' = LiveCodes
    BY ZenonT(60) DEF IssueTokenLocked
<1> QED
    BY SMTT(120), <1>1, <1>2 DEF EntriesStay, OffersStay, RequestsStay, CodesStay, TokensStay, IInv, TypeOK

LEMMA TokenEntries ==
    ASSUME IInv, \/ \E t \in Token, o \in Offer, k \in Key \cup {None} : TokenPreAuthorized(t, o, k)
                 \/ \E c \in Call, t \in Token, w \in Client, u \in BOOLEAN, k \in Key \cup {None} :
                        Exchange(c, t, w, u, k)
    PROVE  EntriesStay
<1>1. ASSUME NEW t \in Token, NEW o \in Offer, NEW k \in Key \cup {None},
             TokenPreAuthorized(t, o, k)
      PROVE  EntriesStay
    <2>1. \A p \in Offer : offer'[p].grant = offer[p].grant /\ offer'[p].expires = offer[p].expires
        BY SMTT(60), <1>1 DEF TokenPreAuthorized, IInv, TypeOK, OfferState
    <2> QED
        BY ZenonT(60), <1>1, <2>1, IssueEntries DEF TokenPreAuthorized
<1>2. ASSUME NEW c \in Call, NEW t \in Token, NEW w \in Client, NEW u \in BOOLEAN,
             NEW k \in Key \cup {None}, Exchange(c, t, w, u, k)
      PROVE  EntriesStay
    BY ZenonT(60), <1>2, IssueEntries DEF Exchange
<1> QED
    BY ZenonT(60), <1>1, <1>2

LEMMA RequestEntries ==
    ASSUME IInv, NEW c \in Call, NEW r \in Request, StoreRequest(c, r)
    PROVE  EntriesStay
<1>1. /\ LiveRequests \subseteq authRequests' \cup evicted' /\ r \in authRequests'
      /\ evicted \subseteq evicted' /\ ~request[r].made
      /\ \A q \in Request : q # r => request'[q] = request[q]
    BY ZenonT(60) DEF StoreRequest, MakeRoom, IInv, TypeOK
<1>2. /\ offers' = LiveOffers /\ tokens' = LiveTokens /\ codes' = LiveCodes
      /\ UNCHANGED <<now, offer, codeOf, token>>
    BY ZenonT(60) DEF StoreRequest
<1> QED
    BY SMTT(120), <1>1, <1>2 DEF EntriesStay, OffersStay, RequestsStay, CodesStay, TokensStay, IInv, TypeOK

LEMMA SessionEntries ==
    ASSUME IInv, NEW c \in Call, NEW s \in Session, AuthViaWeb(c, s) \/ AskForPresentation(c, s)
    PROVE  EntriesStay
<1>1. PICK fields : StoreSession(c, s, fields)
    BY ZenonT(60) DEF AuthViaWeb, AskForPresentation
<1>2. /\ offers' = LiveOffers /\ tokens' = LiveTokens
      /\ authRequests' = LiveRequests /\ codes' = LiveCodes
      /\ UNCHANGED <<now, offer, request, codeOf, token>>
      /\ evicted \subseteq evicted'
    BY ZenonT(60), <1>1 DEF StoreSession
<1> QED
    BY SMTT(60), <1>2 DEF EntriesStay, OffersStay, RequestsStay, CodesStay, TokensStay, IInv, TypeOK

LEMMA MarkEntries ==
    ASSUME IInv, NEW c \in Call,
           \/ ResolveAuthRequest(c)
           \/ \E d \in Code : TakeCode(c, d)
           \/ \E status \in {"verified", "failed"} : VerifyPresentation(c, status)
    PROVE  EntriesStay
<1>1. \A q \in Request :
        /\ request'[q].made = request[q].made
        /\ request'[q].from = request[q].from
        /\ request'[q].expires = request[q].expires
        /\ request[q].codeUsed => request'[q].codeUsed
    <2>1. CASE ResolveAuthRequest(c)
        BY SMTT(120), <2>1 DEF ResolveAuthRequest, IInv, TypeOK, RequestState
    <2>2. CASE \E d \in Code : TakeCode(c, d)
        BY SMTT(60), <2>2 DEF TakeCode, IInv, TypeOK, RequestState
    <2>3. CASE \E status \in {"verified", "failed"} : VerifyPresentation(c, status)
        BY ZenonT(60), <2>3 DEF VerifyPresentation
    <2> QED
        BY ZenonT(60), <2>1, <2>2, <2>3
<1>2. /\ UNCHANGED <<now, offer, codeOf, token, offers, authRequests, tokens, evicted>>
      /\ LiveCodes \subseteq codes'
    <2>1. CASE \E d \in Code : TakeCode(c, d)
        BY ZenonT(60), <2>1 DEF TakeCode, LiveCodes
    <2> QED
        BY ZenonT(60), <2>1, LiveSubsets DEF ResolveAuthRequest, VerifyPresentation, maps
<1>3. OffersStay /\ TokensStay /\ CodesStay
    BY ZenonT(60), <1>1, <1>2, LiveSubsets DEF OffersStay, CodesStay, TokensStay
<1>4. RequestsStay
    BY ZenonT(60), <1>1, <1>2, LiveSubsets DEF RequestsStay
<1> QED
    BY SMTT(120), <1>2, <1>3, <1>4 DEF EntriesStay, IInv, TypeOK

LEMMA CodeEntries ==
    ASSUME IInv, NEW c \in Call, NEW d \in Code, NEW r \in Request,
           RedirectWithCode(c, d) \/ GrantCode(c, d, r)
    PROVE  EntriesStay
<1>1. /\ codes \subseteq codes' \cup evicted' /\ d \in codes' /\ evicted \subseteq evicted'
      /\ \A e \in Code : e # d => codeOf'[e] = codeOf[e]
      /\ UNCHANGED <<now, offer, token, offers, authRequests, tokens>>
    BY SMTT(60) DEF RedirectWithCode, GrantCode, MakeRoom, IInv, TypeOK
<1>2. \A q \in Request :
        /\ request[q].made => /\ request'[q].expires = request[q].expires
                              /\ request'[q].from = request[q].from
                              /\ request[q].codeUsed => request'[q].codeUsed
        /\ request[q].made \/ ~request'[q].made \/ request'[q].from # None
    <2>1. CASE RedirectWithCode(c, d)
        BY SMTT(60), <2>1 DEF RedirectWithCode, IInv, TypeOK, RequestState
    <2>2. CASE GrantCode(c, d, r)
        <3>1. call[c].at \in Session
            BY ZenonT(60), <2>2 DEF GrantCode, IInv, Made
        <3> QED
            BY ZenonT(60), <2>2, <3>1 DEF GrantCode, IInv, TypeOK, NoRequest
    <2> QED
        BY ZenonT(60), <2>1, <2>2
<1> QED
    BY SMTT(120), <1>1, <1>2, LiveSubsets
       DEF EntriesStay, OffersStay, RequestsStay, CodesStay, TokensStay, IInv, TypeOK
LEMMA NextEntries == IInv /\ [Next]_vars => EntriesStay
<1> SUFFICES ASSUME IInv, [Next]_vars PROVE EntriesStay
    BY Zenon
<1>1. CASE \E o \in Offer, mode \in {"browser", "presentation"} :
               CreateOffer(o, "pre", mode) \/ CreateOffer(o, "auth", mode)
    BY ZenonT(60), <1>1, OfferEntries
<1>2. CASE \E c \in Call, r \in Request : StoreRequest(c, r)
    BY ZenonT(60), <1>2, RequestEntries
<1>3. CASE \/ \E c \in Call : ResolveAuthRequest(c)
           \/ \E c \in Call, d \in Code : TakeCode(c, d)
           \/ \E c \in Call, status \in {"verified", "failed"} : VerifyPresentation(c, status)
    BY ZenonT(60), <1>3, MarkEntries
<1>4. CASE \E c \in Call, d \in Code : RedirectWithCode(c, d)
    <2> PICK c \in Call, d \in Code : RedirectWithCode(c, d)
        BY ZenonT(60), <1>4
    <2>1. call[c].at \in Request
        BY ZenonT(60) DEF RedirectWithCode, IInv, Made
    <2> QED
        BY ZenonT(60), <2>1, CodeEntries
<1>5. CASE \E c \in Call, d \in Code, r \in Request : GrantCode(c, d, r)
    BY ZenonT(60), <1>5, CodeEntries
<1>6. CASE \E c \in Call, s \in Session : AuthViaWeb(c, s) \/ AskForPresentation(c, s)
    BY ZenonT(60), <1>6, SessionEntries
<1> QED
    BY ZenonT(60), <1>1, <1>2, <1>3, <1>4, <1>5, <1>6, OtherEntries, TokenEntries
       DEF Next, PushedAuthorizationRequest, StartChallenge

(* The maps of the demo issuer, for any number of calls: none holds more   *)
(* than maxEntries, none loses an entry that is live, unused and not       *)
(* evicted, and a pushed request is rendered once (pruneLocked, makeRoom,  *)
(* handleAuthorize).                                                       *)
THEOREM MapsSound == Spec => []MapsAreSound
<1> DEFINE MInv == BoundInv /\ PageInv /\ LiveEntriesStay
<1>1. Init => MInv
    <2>1. Init => PageInv
        BY SMTT(60) DEF Init, PageInv, NoRequest
    <2>2. Init => LiveEntriesStay
        BY SMTT(60) DEF Init, LiveEntriesStay, NoOffer, NoRequest, NoToken
    <2> QED
        BY ZenonT(60), <2>1, <2>2, InitBounded
<1>2. IInv /\ IInv' /\ MInv /\ [Next]_vars => MInv'
    BY SMTT(120), NextBounded, NextPages, PagesKept, NextEntries, EntriesKept DEF IInv
<1>3. MInv => MapsAreSound
    BY Zenon DEF MapsAreSound, BoundInv, Bounded, MapsBounded, PageInv, PageRenderedOnce
<1> HIDE DEF MInv
<1> QED
    BY <1>1, <1>2, <1>3, InitHolds, NextKeeps, PTL DEF Spec
================================================================================
