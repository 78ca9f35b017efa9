---------------------------- MODULE DemoGrantsProofs ----------------------------
(***************************************************************************)
(* A grant of the demo issuer gives one access token, and the token        *)
(* carries what its grant says, for any number of offers, requests, codes, *)
(* sessions and concurrent calls.                                          *)
(***************************************************************************)
EXTENDS DemoGrants, TLAPS

USE BoundsAssumption, NoneAssumption, DisjointAssumption, AskedAssumption

(* A struct that is used has been made, and a code or a sign-in under way  *)
(* refers to a request that has been made.                                 *)
Made ==
    /\ \A o \in Offer : offer[o].redeemed => offer[o].grant # "none"
    /\ \A r \in Request : request[r].codeUsed => request[r].made
    /\ \A d \in Code : codeOf[d] # None => request[codeOf[d]].made
    /\ \A c \in Call : call[c].pc \in {"signin", "exchange", "resolve"} =>
        call[c].at \in Request /\ request[call[c].at].made
    /\ \A c \in Call : call[c].pc \in {"verify", "grant"} => call[c].at \in Session

(* A token's grant is marked as used.  An exchange under way has marked    *)
(* its request, has no token yet and shares its request with no other.     *)
Spent ==
    /\ \A t \in Token : token[t].via \in Offer => offer[token[t].via].redeemed
    /\ \A t \in Token : token[t].via \in Request => request[token[t].via].codeUsed
    /\ \A c \in Call : call[c].pc = "exchange" =>
        /\ request[call[c].at].codeUsed
        /\ \A t \in Token : token[t].via # call[c].at
        /\ \A b \in Call : call[b].pc = "exchange" /\ call[b].at = call[c].at => b = c

IInv == TypeOK /\ Made /\ Spent /\ OneTokenPerGrant

LEMMA InitHolds == Init => IInv
<1> SUFFICES ASSUME Init PROVE IInv
    BY Zenon
<1>1. NoGrant \in Grant
    BY Zenon DEF NoGrant, Grant
<1>2. TypeOK
    BY Zenon, <1>1 DEF Init, TypeOK, NoOffer, NoRequest, NoSession, NoToken, Idle, OfferState,
                RequestState, SessionState, TokenState, CallState, Holder
<1> QED
    BY Zenon, <1>2 DEF Init, IInv, Made, Spent, OneTokenPerGrant, NoOffer, NoRequest, NoToken, Idle

LEMMA IdleTyped == Idle \in CallState /\ Idle.pc = "idle"
BY Zenon DEF Idle, CallState, Holder, NoGrant, Grant

(* One field of one struct changes.                                        *)
LEMMA RequestMarked ==
    ASSUME TypeOK, NEW r \in Request,
           \/ request' = request
           \/ request' = [request EXCEPT ![r].codeUsed = TRUE]
           \/ request' = [request EXCEPT ![r].resolved = TRUE]
    PROVE  \A q \in Request : /\ request'[q].made = request[q].made
                              /\ request'[q].grant = request[q].grant
                              /\ request'[q].from = request[q].from
                              /\ request'[q].holder = request[q].holder
BY SMTT(60) DEF TypeOK, RequestState

LEMMA RequestHeld ==
    ASSUME TypeOK, NEW r \in Request, request' = [request EXCEPT ![r].holder = "account"]
    PROVE  /\ request'[r].holder = "account"
           /\ \A q \in Request : /\ request'[q].made = request[q].made
                                 /\ request'[q].grant = request[q].grant
                                 /\ request'[q].from = request[q].from
                                 /\ q # r => request'[q].holder = request[q].holder
BY SMTT(60) DEF TypeOK, RequestState

LEMMA SessionJudged ==
    ASSUME TypeOK, NEW s \in Session, NEW v, session' = [session EXCEPT ![s].status = v]
    PROVE  \A q \in Session : /\ session'[q].made = session[q].made
                              /\ session'[q].grant = session[q].grant
                              /\ session'[q].browser = session[q].browser
BY SMTT(60) DEF TypeOK, SessionState

LEMMA OfferRedeemed ==
    ASSUME TypeOK, NEW o \in Offer, offer' = [offer EXCEPT ![o].redeemed = TRUE]
    PROVE  \A p \in Offer : /\ offer'[p].grant = offer[p].grant /\ offer'[p].mode = offer[p].mode
                            /\ p # o => offer'[p] = offer[p]
BY SMTT(60) DEF TypeOK, OfferState

LEMMA CallMoved ==
    ASSUME TypeOK, NEW c \in Call, NEW x, call' = [call EXCEPT ![c] = x]
    PROVE  call'[c] = x /\ \A b \in Call : b # c => call'[b] = call[b]
BY SMTT(60) DEF TypeOK

LEMMA Expiry ==
    ASSUME TypeOK
    PROVE  now + EntryTTL \in Nat
BY SMTT(60), BoundsAssumption DEF TypeOK

LEMMA TokenMade ==
    ASSUME NEW via \in Offer \cup Request, NEW o \in Offer \cup {None}, NEW h \in Holder,
           NEW k \in Key \cup {None}, NEW e \in Nat
    PROVE  LET new == [via |-> via, offer |-> o, holder |-> h, key |-> k, expires |-> e]
           IN  /\ new \in TokenState /\ new.via = via /\ new.offer = o /\ new.holder = h
               /\ new.key = k
BY SMTT(60) DEF TokenState

(* Marking a request and making one keep its type.                         *)
LEMMA MarkTyped ==
    ASSUME NEW x \in RequestState
    PROVE  /\ [x EXCEPT !.codeUsed = TRUE] \in RequestState
           /\ [x EXCEPT !.resolved = TRUE] \in RequestState
BY Zenon DEF RequestState

LEMMA NewRequestTyped ==
    ASSUME NEW g \in Grant, NEW e \in Nat
    PROVE  /\ [NoRequest EXCEPT !.made = TRUE, !.grant = g, !.expires = e] \in RequestState
           /\ [NoRequest EXCEPT !.made = TRUE, !.grant = g, !.expires = e].made
           /\ \A s \in Session :
                LET new == [NoRequest EXCEPT !.made = TRUE, !.grant = g, !.from = s,
                                             !.holder = "presented", !.expires = e]
                IN  new \in RequestState /\ new.made
BY Zenon DEF NoRequest, RequestState, Holder

(* What pruneLocked leaves of a map, with what makeRoom leaves of it.      *)
LEMMA LiveSubsets ==
    /\ LiveOffers \subseteq offers /\ LiveTokens \subseteq tokens /\ LiveCodes \subseteq codes
    /\ LiveRequests \subseteq authRequests /\ LiveSessions \subseteq interactive
    /\ LivePresentations \subseteq requests
BY Zenon DEF LiveOffers, LiveTokens, LivePresentations, LiveRequests, LiveCodes, LiveSessions

(* A step that issues no token, unmarks nothing and lets no call enter the *)
(* exchange keeps what is spent.                                           *)
LEMMA NothingSpent ==
    ASSUME IInv, token' = token,
           \A o \in Offer : offer[o].redeemed => offer'[o].redeemed,
           \A r \in Request : request[r].codeUsed => request'[r].codeUsed,
           \A c \in Call : call'[c].pc = "exchange" => call'[c] = call[c]
    PROVE  Spent' /\ OneTokenPerGrant'
BY SMTT(60) DEF IInv, Spent, OneTokenPerGrant, Made

LEMMA CreateOfferStep ==
    ASSUME IInv, NEW o \in Offer, NEW g \in {"pre", "auth"}, NEW m \in {"browser", "presentation"},
           CreateOffer(o, g, m)
    PROVE  IInv'
<1> USE DEF IInv
<1>1. TypeOK'
    BY LiveSubsets DEF TypeOK, OfferState, CreateOffer, MakeRoom
<1>2. Made'
    BY ZenonT(60) DEF TypeOK, CreateOffer, Made
<1>3. Spent' /\ OneTokenPerGrant'
    BY ZenonT(60), NothingSpent DEF TypeOK, OfferState, CreateOffer, Made
<1> QED
    BY Zenon, <1>1, <1>2, <1>3

(* A step that changes only the maps, the clock or ghosts.                 *)
LEMMA StructsSame ==
    ASSUME IInv, TypeOK', UNCHANGED <<structs, call>>
    PROVE  IInv'
BY Zenon, NothingSpent DEF IInv, Made, structs

LEMMA MapSteps ==
    ASSUME IInv,
           \/ \E o \in Offer : FetchExpiredOffer(o)
           \/ PruneLocked
           \/ Tick
           \/ UNCHANGED vars
    PROVE  IInv'
<1>1. UNCHANGED <<structs, call>>
    BY Zenon DEF FetchExpiredOffer, PruneLocked, Tick, vars
<1>2. TypeOK'
    BY LiveSubsets DEF IInv, TypeOK, FetchExpiredOffer, PruneLocked, Tick, vars, structs, maps
<1> QED
    BY Zenon, <1>1, <1>2, StructsSame

(* A step that moves a call to its next stage and leaves the structs.      *)
LEMMA CallMoves ==
    ASSUME IInv, TypeOK', UNCHANGED structs, NEW c \in Call, NEW next \in CallState,
           call' = [call EXCEPT ![c] = next],
           next.pc \in {"signin", "resolve"} => next.at \in Request /\ request[next.at].made,
           next.pc \in {"verify", "grant"} => next.at \in Session,
           next.pc # "exchange"
    PROVE  IInv'
<1>1. /\ \A b \in Call : b # c => call'[b] = call[b]
      /\ call'[c] = next
    BY ZenonT(60) DEF IInv, TypeOK
<1>2. Made'
    BY ZenonT(60), <1>1 DEF IInv, Made, structs
<1>3. Spent' /\ OneTokenPerGrant'
    BY Zenon, <1>1, NothingSpent DEF structs
<1> QED
    BY Zenon, <1>2, <1>3 DEF IInv

LEMMA ResolveGrantStep ==
    ASSUME IInv, NEW c \in Call, NEW g \in Asked,
           ResolveAuthGrant(c, g, "push") \/ ResolveAuthGrant(c, g, "challenge")
    PROVE  IInv'
<1> PICK pc \in {"push", "challenge"} : ResolveAuthGrant(c, g, pc)
    BY Zenon
<1> DEFINE next == [Idle EXCEPT !.pc = pc, !.grant = g]
<1>1. next \in CallState /\ next.pc = pc
    BY Zenon, IdleTyped DEF CallState, Idle
<1>2. call' = [call EXCEPT ![c] = next] /\ UNCHANGED <<now, structs, maps, pages, evicted>>
    BY Zenon DEF ResolveAuthGrant
<1> HIDE DEF next
<1>3. TypeOK'
    BY Zenon, <1>1, <1>2 DEF IInv, TypeOK, structs, maps
<1> QED
    BY Zenon, <1>1, <1>2, <1>3, CallMoves

LEMMA LookupStep ==
    ASSUME IInv, NEW c \in Call, NEW r \in Request, NEW pc \in {"resolve", "signin"},
           LookupAuthRequest(c, r, pc)
    PROVE  IInv'
<1> DEFINE next == [Idle EXCEPT !.pc = pc, !.at = r]
<1>1. next \in CallState /\ next.pc = pc /\ next.at = r
    BY Zenon, IdleTyped DEF CallState, Idle
<1>2. /\ UNCHANGED <<now, structs, offers, codes, interactive, requests, tokens, pages, evicted>>
      /\ authRequests' \subseteq authRequests
      /\ request[r].made
      /\ call' = [call EXCEPT ![c] = next] \/ UNCHANGED call
    BY Zenon DEF LookupAuthRequest
<1> HIDE DEF next
<1>3. TypeOK'
    BY <1>1, <1>2 DEF IInv, TypeOK, structs
<1>4. CASE UNCHANGED call
    BY Zenon, <1>2, <1>3, <1>4, StructsSame
<1>5. CASE call' = [call EXCEPT ![c] = next]
    BY Zenon, <1>1, <1>2, <1>3, <1>5, CallMoves
<1> QED
    BY Zenon, <1>2, <1>4, <1>5

LEMMA ContinueStep ==
    ASSUME IInv, NEW c \in Call, NEW s \in Session, NEW w \in Client, ContinueSession(c, s, w)
    PROVE  IInv'
<1> DEFINE next == [Idle EXCEPT !.pc = IF session[s].browser THEN "push" ELSE "verify", !.at = s,
                                !.grant = session[s].grant]
<1>1. next \in CallState /\ next.pc \in {"push", "verify"} /\ next.at = s
    BY ZenonT(60), IdleTyped DEF CallState, Idle, IInv, TypeOK, SessionState
<1>2. /\ UNCHANGED <<now, structs, offers, authRequests, codes, requests, tokens, pages, evicted>>
      /\ interactive' \subseteq interactive
      /\ call' = [call EXCEPT ![c] = next] \/ UNCHANGED call
    BY Zenon DEF ContinueSession
<1> HIDE DEF next
<1>3. TypeOK'
    BY <1>1, <1>2 DEF IInv, TypeOK, structs
<1>4. CASE UNCHANGED call
    BY Zenon, <1>2, <1>3, <1>4, StructsSame
<1>5. CASE call' = [call EXCEPT ![c] = next]
    BY Zenon, <1>1, <1>2, <1>3, <1>5, CallMoves
<1> QED
    BY Zenon, <1>2, <1>4, <1>5

LEMMA RefuseStep ==
    ASSUME IInv, NEW c \in Call, RedirectToWeb(c) \/ Refuse(c)
    PROVE  IInv'
<1>1. UNCHANGED <<now, structs, maps, pages, evicted>>
    BY Zenon DEF RedirectToWeb, Refuse
<1>2. PICK next \in CallState : call' = [call EXCEPT ![c] = next] /\ next.pc \in {"idle", "push"}
    BY SMTT(120), IdleTyped DEF RedirectToWeb, Refuse, IInv, TypeOK, CallState
<1>3. TypeOK'
    BY Zenon, <1>1, <1>2 DEF IInv, TypeOK, structs, maps
<1> QED
    BY Zenon, <1>1, <1>2, <1>3, CallMoves

LEMMA TakeCodeStep ==
    ASSUME IInv, NEW c \in Call, NEW d \in Code, TakeCode(c, d)
    PROVE  IInv'
<1> USE DEF IInv
<1> DEFINE r == codeOf[d]
<1>1. r \in Request /\ request[r].made
    BY Zenon DEF TypeOK, TakeCode, Made
<1>2. UNCHANGED <<now, offer, codeOf, session, token, offers, authRequests, interactive, requests,
                  tokens, pages, evicted>>
    BY Zenon DEF TakeCode
<1>3. CASE Keeps(request[r].expires) /\ ~request[r].codeUsed
    <2>1. /\ request' = [request EXCEPT ![r].codeUsed = TRUE]
          /\ call' = [call EXCEPT ![c] = [pc |-> "exchange", grant |-> request[r].grant, at |-> r,
                                          holder |-> request[r].holder]]
          /\ codes' = codes
        BY Zenon, <1>3 DEF TakeCode
    <2>2. TypeOK'
        <3>1. [request[r] EXCEPT !.codeUsed = TRUE] \in RequestState
            BY Zenon, <1>1, MarkTyped DEF TypeOK
        <3>2. [pc |-> "exchange", grant |-> request[r].grant, at |-> r,
               holder |-> request[r].holder] \in CallState
            BY <1>1 DEF TypeOK, RequestState, CallState
        <3> QED
            BY Zenon, <1>1, <1>2, <2>1, <3>1, <3>2 DEF TypeOK
    <2>3. /\ \A b \in Call : b # c => call'[b] = call[b]
          /\ call'[c].pc = "exchange" /\ call'[c].at = r
          /\ \A q \in Request : q # r => request'[q] = request[q]
          /\ request'[r].codeUsed /\ request'[r].made
        BY SMTT(60), <1>1, <2>1 DEF TypeOK, RequestState
    <2>4. Made'
        BY SMTT(30), <1>1, <1>2, <2>3 DEF Made, TypeOK
    <2>5. Spent'
        BY SMTT(30), <1>1, <1>2, <1>3, <2>3 DEF Spent, Made, TypeOK, TokenState
    <2>6. OneTokenPerGrant'
        BY SMTT(30), <1>2 DEF OneTokenPerGrant
    <2> QED
        BY Zenon, <2>2, <2>4, <2>5, <2>6
<1>4. CASE ~(Keeps(request[r].expires) /\ ~request[r].codeUsed)
    <2>1. codes' \subseteq codes /\ UNCHANGED <<request, call>>
        BY Zenon, <1>4 DEF TakeCode
    <2> QED
        BY Zenon, <1>2, <2>1 DEF TypeOK, Made, Spent, OneTokenPerGrant
<1> QED
    BY Zenon, <1>3, <1>4

LEMMA StoreRequestStep ==
    ASSUME IInv, NEW c \in Call, NEW r \in Request, StoreRequest(c, r)
    PROVE  IInv'
<1> DEFINE new == [NoRequest EXCEPT !.made = TRUE, !.grant = call[c].grant,
                                    !.expires = now + AuthTTL]
<1>1. new \in RequestState /\ new.made
    <2>1. call[c].grant \in Grant /\ now + AuthTTL \in Nat
        BY DEF IInv, TypeOK, CallState
    <2> QED
        BY ZenonT(60), <2>1, NewRequestTyped
<1>2. /\ UNCHANGED <<now, offer, codeOf, session, token, pages>>
      /\ request' = [request EXCEPT ![r] = new]
      /\ call' = [call EXCEPT ![c] = Idle]
      /\ ~request[r].made
    BY Zenon DEF StoreRequest
<1> HIDE DEF new
<1>3. TypeOK'
    BY SMTT(60), <1>1, <1>2, LiveSubsets, IdleTyped DEF IInv, TypeOK, StoreRequest, MakeRoom
<1>4. /\ \A b \in Call : b # c => call'[b] = call[b]
      /\ call'[c].pc = "idle"
      /\ \A q \in Request : q # r => request'[q] = request[q]
      /\ request'[r].made
    BY SMTT(60), <1>1, <1>2, IdleTyped DEF IInv, TypeOK
<1>5. Made'
    BY <1>2, <1>4 DEF IInv, Made, TypeOK
<1>6. Spent' /\ OneTokenPerGrant'
    BY Zenon, <1>2, <1>4, NothingSpent DEF IInv, Made
<1> QED
    BY SMTT(30), <1>3, <1>5, <1>6 DEF IInv

LEMMA ResolveRequestStep ==
    ASSUME IInv, NEW c \in Call, ResolveAuthRequest(c)
    PROVE  IInv'
<1> DEFINE r == call[c].at
<1>1. r \in Request
    BY Zenon DEF IInv, Made, ResolveAuthRequest
<1>2. /\ UNCHANGED <<now, offer, codeOf, session, token, maps, evicted>>
      /\ request' = [request EXCEPT ![r].resolved = TRUE] \/ request' = request
      /\ pages' = [pages EXCEPT ![r] = @ + 1] \/ pages' = pages
      /\ call' = [call EXCEPT ![c] = Idle]
    BY Zenon DEF ResolveAuthRequest
<1>3. [request[r] EXCEPT !.resolved = TRUE] \in RequestState
    BY Zenon, <1>1, MarkTyped DEF IInv, TypeOK
<1>4. TypeOK'
    BY SMTT(60), <1>1, <1>2, <1>3, IdleTyped DEF IInv, TypeOK, maps
<1>5. /\ \A b \in Call : b # c => call'[b] = call[b]
      /\ call'[c].pc = "idle"
      /\ \A q \in Request : /\ request'[q].made = request[q].made
                            /\ request'[q].codeUsed = request[q].codeUsed
    BY SMTT(60), <1>1, <1>2, IdleTyped DEF IInv, TypeOK, RequestState
<1>6. Made'
    BY SMTT(60), <1>2, <1>5 DEF IInv, Made, TypeOK
<1>7. Spent' /\ OneTokenPerGrant'
    BY Zenon, <1>2, <1>5, NothingSpent
<1> QED
    BY Zenon, <1>4, <1>6, <1>7 DEF IInv

LEMMA RedirectWithCodeStep ==
    ASSUME IInv, NEW c \in Call, NEW d \in Code, RedirectWithCode(c, d)
    PROVE  IInv'
<1> DEFINE r == call[c].at
<1>1. r \in Request /\ request[r].made
    BY Zenon DEF IInv, Made, RedirectWithCode
<1>2. /\ UNCHANGED <<now, offer, session, token, offers, authRequests, interactive, requests, tokens,
                     pages>>
      /\ request' = [request EXCEPT ![r].holder = "account"]
      /\ codeOf' = [codeOf EXCEPT ![d] = r]
      /\ call' = [call EXCEPT ![c] = Idle]
    BY Zenon DEF RedirectWithCode
<1>3. [request[r] EXCEPT !.holder = "account"] \in RequestState
    BY SMTT(120), <1>1 DEF IInv, TypeOK, RequestState, Holder
<1>4. TypeOK'
    BY <1>1, <1>2, <1>3, IdleTyped DEF IInv, TypeOK, RedirectWithCode, MakeRoom
<1>5. /\ \A b \in Call : b # c => call'[b] = call[b]
      /\ call'[c].pc = "idle"
      /\ \A q \in Request : /\ request'[q].made = request[q].made
                            /\ request'[q].codeUsed = request[q].codeUsed
      /\ \A e \in Code : e # d => codeOf'[e] = codeOf[e]
      /\ codeOf'[d] = r
    BY <1>1, <1>2, IdleTyped DEF IInv, TypeOK, RequestState
<1>6. Made'
    BY <1>1, <1>2, <1>5 DEF IInv, Made, TypeOK
<1>7. Spent' /\ OneTokenPerGrant'
    BY ZenonT(60), <1>2, <1>5, NothingSpent
<1> QED
    BY Zenon, <1>4, <1>6, <1>7 DEF IInv

LEMMA GrantCodeStep ==
    ASSUME IInv, NEW c \in Call, NEW d \in Code, NEW r \in Request, GrantCode(c, d, r)
    PROVE  IInv'
<1> DEFINE new == [NoRequest EXCEPT !.made = TRUE, !.grant = call[c].grant, !.from = call[c].at,
                                    !.holder = "presented", !.expires = now + EntryTTL]
<1>1. new \in RequestState /\ new.made
    <2>1. call[c].grant \in Grant /\ call[c].at \in Session /\ now + EntryTTL \in Nat
        BY DEF IInv, TypeOK, CallState, GrantCode, Made
    <2> QED
        BY ZenonT(60), <2>1, NewRequestTyped
<1>2. /\ UNCHANGED <<now, offer, session, token, offers, authRequests, requests, tokens, pages>>
      /\ request' = [request EXCEPT ![r] = new]
      /\ codeOf' = [codeOf EXCEPT ![d] = r]
      /\ interactive' \subseteq interactive
      /\ call' = [call EXCEPT ![c] = Idle]
      /\ ~request[r].made
    BY Zenon DEF GrantCode
<1> HIDE DEF new
<1>3. TypeOK'
    BY SMTT(60), <1>1, <1>2, IdleTyped DEF IInv, TypeOK, GrantCode, MakeRoom
<1>4. /\ \A b \in Call : b # c => call'[b] = call[b]
      /\ call'[c].pc = "idle"
      /\ \A q \in Request : q # r => request'[q] = request[q]
      /\ request'[r].made
      /\ \A e \in Code : e # d => codeOf'[e] = codeOf[e]
      /\ codeOf'[d] = r
    BY SMTT(120), <1>1, <1>2, IdleTyped DEF IInv, TypeOK
<1>5. Made'
    BY SMTT(30), <1>2, <1>4 DEF IInv, Made, TypeOK
<1>6. Spent' /\ OneTokenPerGrant'
    BY Zenon, <1>2, <1>4, NothingSpent DEF IInv, Made
<1> QED
    BY SMTT(30), <1>3, <1>5, <1>6 DEF IInv

(* A call that moves on keeps its type, its locals and what it is about.   *)
LEMMA PushTyped ==
    ASSUME NEW x \in CallState, NEW f \in [Call -> CallState], NEW c \in Call
    PROVE  \A pc \in {"push", "grant"} :
             /\ [x EXCEPT !.pc = pc] \in CallState
             /\ [x EXCEPT !.pc = pc].pc = pc
             /\ [x EXCEPT !.pc = pc].at = x.at
             /\ [f EXCEPT ![c].pc = pc] = [f EXCEPT ![c] = [f[c] EXCEPT !.pc = pc]]
BY Zenon DEF CallState

LEMMA RedeemTyped ==
    ASSUME NEW x \in OfferState
    PROVE  [x EXCEPT !.redeemed = TRUE] \in OfferState
BY Zenon DEF OfferState

LEMMA SessionStep ==
    ASSUME IInv, NEW c \in Call, NEW s \in Session, AuthViaWeb(c, s) \/ AskForPresentation(c, s)
    PROVE  IInv'
<1>1. call[c].grant \in Grant /\ now + EntryTTL \in Nat
    BY DEF IInv, TypeOK, CallState
<1>2. [call[c].grant EXCEPT !.redirect = FALSE] \in Grant
    BY Zenon, <1>1 DEF Grant
<1>3. PICK fields \in SessionState : StoreSession(c, s, fields)
    BY Zenon, <1>1, <1>2 DEF AuthViaWeb, AskForPresentation, SessionState
<1>4. /\ session' = [session EXCEPT ![s] = fields]
      /\ UNCHANGED <<now, offer, request, codeOf, token, pages>>
    BY Zenon, <1>3 DEF StoreSession
<1>5. PICK next \in CallState : call' = [call EXCEPT ![c] = next] /\ next.pc \in {"idle", "push"}
    <2>1. CASE AuthViaWeb(c, s)
        BY ZenonT(60), <2>1, PushTyped DEF AuthViaWeb, IInv, TypeOK
    <2>2. CASE AskForPresentation(c, s)
        BY Zenon, <2>2, IdleTyped DEF AskForPresentation
    <2> QED
        BY Zenon, <2>1, <2>2
<1>6. /\ interactive' \subseteq interactive \cup {s}
      /\ evicted' \subseteq evicted \cup interactive
      /\ requests' \subseteq requests \cup {s}
      /\ offers' \subseteq offers /\ tokens' \subseteq tokens
      /\ authRequests' \subseteq authRequests /\ codes' \subseteq codes
    BY Zenon, <1>3, LiveSubsets DEF StoreSession, AuthViaWeb, AskForPresentation, MakeRoom
<1>7. TypeOK'
    BY ZenonT(60), <1>4, <1>5, <1>6 DEF IInv, TypeOK
<1>8. /\ \A b \in Call : b # c => call'[b] = call[b]
      /\ call'[c].pc \in {"idle", "push"}
    BY Zenon, <1>5 DEF IInv, TypeOK
<1>9. Made' /\ Spent' /\ OneTokenPerGrant'
    BY Zenon, <1>4, <1>8, NothingSpent DEF IInv, Made
<1> QED
    BY ZenonT(60), <1>7, <1>9 DEF IInv

LEMMA VerifyStep ==
    ASSUME IInv, NEW c \in Call, NEW status \in {"verified", "failed"},
           VerifyPresentation(c, status)
    PROVE  IInv'
<1> DEFINE s == call[c].at
<1>1. s \in Session
    BY Zenon DEF IInv, Made, VerifyPresentation
<1>2. /\ UNCHANGED <<now, offer, request, codeOf, token, maps, pages, evicted>>
      /\ session' = [session EXCEPT ![s].status = status]
    BY Zenon DEF VerifyPresentation
<1>3. PICK next \in CallState : /\ call' = [call EXCEPT ![c] = next]
                                /\ next.pc \in {"idle", "grant"}
                                /\ next.pc = "grant" => next.at = s
    <2>1. CASE status = "verified"
        <3> DEFINE next == [call[c] EXCEPT !.pc = "grant"]
        <3>1. call' = [call EXCEPT ![c] = next]
            BY Zenon, <2>1 DEF VerifyPresentation
        <3>2. next \in CallState /\ next.pc = "grant" /\ next.at = s
            BY ZenonT(60), PushTyped DEF IInv, TypeOK
        <3> QED
            BY Zenon, <3>1, <3>2
    <2>2. CASE status = "failed"
        BY Zenon, <2>2, IdleTyped DEF VerifyPresentation
    <2> QED
        BY Zenon, <2>1, <2>2
<1>4. [session[s] EXCEPT !.status = status] \in SessionState
    BY SMTT(60), <1>1 DEF IInv, TypeOK, SessionState
<1>5. TypeOK'
    BY Zenon, <1>1, <1>2, <1>3, <1>4 DEF IInv, TypeOK, maps
<1>6. /\ \A b \in Call : b # c => call'[b] = call[b]
      /\ call'[c] = next
    BY ZenonT(60), <1>3 DEF IInv, TypeOK
<1>7. Made' /\ Spent' /\ OneTokenPerGrant'
    BY SMTT(30), <1>1, <1>2, <1>3, <1>6, NothingSpent DEF IInv, Made
<1> QED
    BY Zenon, <1>5, <1>7 DEF IInv

(* A token is issued for a grant that has none yet.                        *)
LEMMA IssueTyped ==
    ASSUME IInv, NEW t \in Token, NEW granted \in TokenState, IssueTokenLocked(t, granted)
    PROVE  /\ token' = [token EXCEPT ![t] = granted] /\ token[t].via = None
           /\ tokens' \subseteq Token
           /\ evicted' \subseteq Offer \cup Request \cup Code \cup Session \cup Token
           /\ offers' \subseteq offers /\ requests' \subseteq requests
           /\ authRequests' \subseteq authRequests /\ codes' \subseteq codes
           /\ interactive' \subseteq interactive
           /\ \A u \in Token : u # t => token'[u] = token[u]
           /\ token'[t] = granted
BY LiveSubsets DEF IssueTokenLocked, MakeRoom, IInv, TypeOK

LEMMA PreAuthorizedStep ==
    ASSUME IInv, NEW t \in Token, NEW o \in Offer, NEW k \in Key \cup {None},
           TokenPreAuthorized(t, o, k)
    PROVE  IInv'
<1> DEFINE granted == [via |-> o, offer |-> o, holder |-> "none", key |-> k,
                       expires |-> now + EntryTTL]
<1>1. granted \in TokenState /\ granted.via = o
    <2>1. o \in Offer \cup Request /\ "none" \in Holder /\ now + EntryTTL \in Nat
        BY Zenon, Expiry DEF IInv, Holder
    <2> QED
        BY ZenonT(60), <2>1, TokenMade
<1>2. /\ IssueTokenLocked(t, granted)
      /\ offer' = [offer EXCEPT ![o].redeemed = TRUE]
      /\ ~offer[o].redeemed /\ offer[o].grant = "pre"
      /\ UNCHANGED <<now, request, codeOf, session, call, pages>>
    BY Zenon DEF TokenPreAuthorized, OfferLocked
<1> HIDE DEF granted
<1>3. [offer[o] EXCEPT !.redeemed = TRUE] \in OfferState
    BY Zenon, RedeemTyped DEF IInv, TypeOK
<1>4. TypeOK'
    BY SMTT(60), <1>1, <1>2, <1>3, IssueTyped DEF IInv, TypeOK
<1>5. /\ \A p \in Offer : p # o => offer'[p] = offer[p]
      /\ offer'[o].redeemed /\ offer'[o].grant = "pre"
    BY SMTT(60), <1>2 DEF IInv, TypeOK, OfferState
<1>6. Made'
    BY SMTT(120), <1>2, <1>5 DEF IInv, Made
<1>7. Spent' /\ OneTokenPerGrant'
    BY SMTT(60), <1>1, <1>2, <1>5, IssueTyped DEF IInv, Spent, Made, OneTokenPerGrant
<1> QED
    BY ZenonT(60), <1>4, <1>6, <1>7 DEF IInv

LEMMA ExchangeStep ==
    ASSUME IInv, NEW c \in Call, NEW t \in Token, NEW w \in Client, NEW u \in BOOLEAN,
           NEW k \in Key \cup {None}, Exchange(c, t, w, u, k)
    PROVE  IInv'
<1> DEFINE granted == [via |-> call[c].at, offer |-> call[c].grant.offer,
                       holder |-> call[c].holder, key |-> k, expires |-> now + EntryTTL]
<1>1. call[c].at \in Request /\ call[c].pc = "exchange"
    BY Zenon DEF IInv, Made, Exchange
<1>2. granted \in TokenState /\ granted.via = call[c].at
    <2>1. now + EntryTTL \in Nat
        BY Zenon, Expiry DEF IInv
    <2>2. call[c].grant \in Grant /\ call[c].holder \in Holder
        BY Zenon DEF IInv, TypeOK, CallState
    <2>3. call[c].grant.offer \in Offer \cup {None}
        BY Zenon, <2>2 DEF Grant
    <2> QED
        BY ZenonT(60), <1>1, <2>1, <2>2, <2>3, TokenMade
<1>3. /\ IssueTokenLocked(t, granted)
      /\ call' = [call EXCEPT ![c] = Idle]
      /\ UNCHANGED <<now, offer, request, codeOf, session, pages>>
    BY SMTT(120) DEF Exchange
<1> HIDE DEF granted
<1>4. TypeOK'
    BY SMTT(30), <1>2, <1>3, IssueTyped, IdleTyped DEF IInv, TypeOK
<1>5. /\ \A b \in Call : b # c => call'[b] = call[b]
      /\ call'[c].pc = "idle"
    BY ZenonT(60), <1>3, IdleTyped DEF IInv, TypeOK
<1>6. Made'
    BY <1>3, <1>5 DEF IInv, Made
<1>7. /\ \A v \in Token : v # t => token'[v] = token[v] /\ token[v].via # call[c].at
      /\ token'[t].via = call[c].at
      /\ UNCHANGED <<offer, request>>
    <2>1. \A v \in Token : token[v].via # call[c].at
        BY SMTT(30), <1>1 DEF IInv, Spent
    <2>2. /\ \A v \in Token : v # t => token'[v] = token[v]
          /\ token'[t] = granted
        BY ZenonT(60), <1>2, <1>3, IssueTyped
    <2> QED
        BY ZenonT(60), <1>2, <1>3, <2>1, <2>2
<1>8. OneTokenPerGrant'
    BY SMTT(60), <1>7 DEF IInv, OneTokenPerGrant
<1>9. Spent'
    <2>1. \A b \in Call : call'[b].pc = "exchange" => b # c /\ call'[b] = call[b]
        BY SMTT(30), <1>5
    <2>2. \A b \in Call : call[b].pc = "exchange" /\ b # c => call[b].at # call[c].at
        BY Zenon, <1>1 DEF IInv, Spent
    <2>3. request[call[c].at].codeUsed
        BY Zenon, <1>1 DEF IInv, Spent
    <2> QED
        BY SMTT(60), <1>1, <1>7, <2>1, <2>2, <2>3 DEF IInv, Spent
<1> QED
    BY Zenon, <1>4, <1>6, <1>8, <1>9 DEF IInv

LEMMA NextKeeps == IInv /\ [Next]_vars => IInv'
<1> SUFFICES ASSUME IInv, [Next]_vars PROVE IInv'
    BY Zenon
<1>1. CASE UNCHANGED vars
    BY Zenon, <1>1, MapSteps
<1>2. CASE \E o \in Offer, mode \in {"browser", "presentation"} :
               CreateOffer(o, "pre", mode) \/ CreateOffer(o, "auth", mode)
    BY Zenon, <1>2, CreateOfferStep
<1>3. CASE (\E o \in Offer : FetchExpiredOffer(o)) \/ PruneLocked \/ Tick
    BY Zenon, <1>3, MapSteps
<1>4. CASE \E t \in Token, o \in Offer, k \in Key \cup {None} : TokenPreAuthorized(t, o, k)
    BY Zenon, <1>4, PreAuthorizedStep
<1>5. CASE \E c \in Call, g \in Asked : PushedAuthorizationRequest(c, g) \/ StartChallenge(c, g)
    BY Zenon, <1>5, ResolveGrantStep DEF PushedAuthorizationRequest, StartChallenge
<1>6. CASE \E c \in Call, r \in Request :
               \/ StoreRequest(c, r)
               \/ LookupAuthRequest(c, r, "resolve")
               \/ LookupAuthRequest(c, r, "signin")
    BY Zenon, <1>6, StoreRequestStep, LookupStep
<1>7. CASE \E c \in Call : ResolveAuthRequest(c) \/ RedirectToWeb(c) \/ Refuse(c)
    BY Zenon, <1>7, ResolveRequestStep, RefuseStep
<1>8. CASE \E c \in Call, d \in Code : RedirectWithCode(c, d) \/ TakeCode(c, d)
    BY Zenon, <1>8, RedirectWithCodeStep, TakeCodeStep
<1>9. CASE \E c \in Call, t \in Token, w \in Client, u \in BOOLEAN, k \in Key \cup {None} :
               Exchange(c, t, w, u, k)
    <2> PICK c \in Call, t \in Token, w \in Client, u \in BOOLEAN, k \in Key \cup {None} :
                 Exchange(c, t, w, u, k)
        BY Zenon, <1>9
    <2> QED
        BY ZenonT(60), ExchangeStep
<1>10. CASE \E c \in Call, s \in Session : AuthViaWeb(c, s) \/ AskForPresentation(c, s)
    BY Zenon, <1>10, SessionStep
<1>11. CASE \E c \in Call, s \in Session, w \in Client : ContinueSession(c, s, w)
    BY Zenon, <1>11, ContinueStep
<1>12. CASE \E c \in Call, status \in {"verified", "failed"} : VerifyPresentation(c, status)
    BY Zenon, <1>12, VerifyStep
<1>13. CASE \E c \in Call, d \in Code, r \in Request : GrantCode(c, d, r)
    BY Zenon, <1>13, GrantCodeStep
<1> QED
    BY ZenonT(60), <1>1, <1>2, <1>3, <1>4, <1>5, <1>6, <1>7, <1>8, <1>9, <1>10, <1>11, <1>12, <1>13 DEF Next

(* However handlers interleave, a pre-authorized code, a pushed request    *)
(* and a challenge give at most one access token each (redeemOfferLocked,  *)
(* handleAuthorizationCodeToken).                                          *)
THEOREM OneToken == Spec => []OneTokenPerGrant
<1>1. IInv => OneTokenPerGrant
    BY Zenon DEF IInv
<1> QED
    BY <1>1, InitHolds, NextKeeps, PTL DEF Spec

-----------------------------------------------------------------------------
(***************************************************************************)
(* An access token carries what its grant says.  The invariant says what   *)
(* every struct and every call under way has copied: GrantsKept shows once *)
(* that copies stay true while structs only gain marks, and each action is *)
(* shown to be such a step.                                                *)
(***************************************************************************)
(* What a grant says of its offer, in a table of offers: the offer exists, *)
(* and it asks for a presentation.                                         *)
Exists(g, table) == g.offer # None => table[g.offer].grant # "none"
WantsPresentation(g, table) == g.offer # None /\ table[g.offer].mode = "presentation"

(* Who a token of the request is issued to.                                *)
HolderOf(r) == IF request[r].from = None THEN "account" ELSE "presented"

RequestSound(r) ==
    request[r].made =>
        /\ Exists(request[r].grant, offer)
        /\ request[r].from # None =>
            request[r].holder = "presented" /\ WantsPresentation(request[r].grant, offer)

SessionSound(s) ==
    session[s].made =>
        /\ Exists(session[s].grant, offer)
        /\ ~session[s].browser => WantsPresentation(session[s].grant, offer)

CodeSound(d) == codeOf[d] # None => request[codeOf[d]].holder = HolderOf(codeOf[d])

CallSound(x) ==
    /\ Exists(x.grant, offer)
    /\ x.pc = "signin" => request[x.at].from = None
    /\ x.pc \in {"verify", "grant"} => WantsPresentation(x.grant, offer)
    /\ x.pc = "exchange" =>
        x.grant = request[x.at].grant /\ x.holder = HolderOf(x.at)

TokenSound(t) ==
    /\ token[t].via \in Offer => token[t].offer = token[t].via /\ token[t].holder = "none"
    /\ token[t].via \in Request =>
        LET g == request[token[t].via].grant IN
        /\ token[t].offer = g.offer
        /\ g.key # None => token[t].key = g.key
        /\ token[t].holder = HolderOf(token[t].via)
        /\ token[t].holder = "presented" => WantsPresentation(g, offer)

(* The maps of pushed requests and of sessions hold nothing else.          *)
ListedSound ==
    /\ \A r \in authRequests : request[r].made /\ request[r].from = None
    /\ \A s \in interactive : session[s].made

Granted ==
    /\ ListedSound
    /\ \A r \in Request : RequestSound(r)
    /\ \A s \in Session : SessionSound(s)
    /\ \A d \in Code : CodeSound(d)
    /\ \A c \in Call : CallSound(call[c])
    /\ \A t \in Token : TokenSound(t)

LEMMA ExchangeSound ==
    ASSUME NEW c \in Call, NEW r \in Request,
           call'[c] = [pc |-> "exchange", grant |-> request[r].grant, at |-> r,
                       holder |-> request[r].holder],
           UNCHANGED offer, Exists(request[r].grant, offer), request[r].holder = HolderOf(r),
           request'[r].grant = request[r].grant, request'[r].from = request[r].from
    PROVE  CallSound(call[c])'
BY SMTT(60) DEF CallSound, Exists, HolderOf

(* A call that moves on keeps what makes it sound, a session that is asked *)
(* for has its grant from the call.                                        *)
LEMMA MovedSound ==
    ASSUME NEW x \in CallState, NEW pc \in {"push", "grant"}, CallSound(x),
           pc = "grant" => WantsPresentation(x.grant, offer)
    PROVE  CallSound([x EXCEPT !.pc = pc])
BY SMTT(60) DEF CallSound, CallState

LEMMA GrantedMatches == Granted => TokensMatchTheirGrant
BY ZenonT(60) DEF Granted, TokensMatchTheirGrant, TokenSound, HolderOf, WantsPresentation, Mode

(* What a step may do to grants: offers keep their mode, requests and      *)
(* sessions their grant, and what it makes or changes is sound.            *)
GrantsAdvance ==
    /\ \A o \in Offer : offer[o].grant # "none" =>
        offer'[o].grant # "none" /\ offer'[o].mode = offer[o].mode
    /\ \A r \in Request : request[r].made =>
        /\ request'[r].made /\ request'[r].grant = request[r].grant
        /\ request'[r].from = request[r].from
        /\ request'[r].holder \in {request[r].holder, HolderOf(r)}
    /\ \A r \in Request : request[r].made \/ RequestSound(r)'
    /\ \A s \in Session : session[s].made =>
        /\ session'[s].made /\ session'[s].grant = session[s].grant
        /\ session'[s].browser = session[s].browser
    /\ \A s \in Session : session[s].made \/ SessionSound(s)'
    /\ \A d \in Code : codeOf'[d] = codeOf[d] \/ CodeSound(d)'
    /\ \A c \in Call : call'[c] = call[c] \/ CallSound(call[c])'
    /\ \A t \in Token : token'[t] = token[t] \/ TokenSound(t)'
    /\ \A r \in authRequests' : r \in authRequests \/ (request'[r].made /\ request'[r].from = None)
    /\ \A s \in interactive' : s \in interactive \/ session'[s].made

LEMMA OfferKept ==
    ASSUME NEW g \in Grant, NEW old \in [Offer -> OfferState], NEW new \in [Offer -> OfferState],
           \A o \in Offer : old[o].grant # "none" =>
               new[o].grant # "none" /\ new[o].mode = old[o].mode,
           Exists(g, old)
    PROVE  /\ Exists(g, new)
           /\ WantsPresentation(g, old) => WantsPresentation(g, new)
BY Zenon DEF Exists, WantsPresentation, Grant

LEMMA GrantsKept ==
    ASSUME IInv, IInv', Granted, GrantsAdvance
    PROVE  Granted'
<1> USE DEF GrantsAdvance
<1>1. /\ offer \in [Offer -> OfferState] /\ offer' \in [Offer -> OfferState]
      /\ \A r \in Request : request[r].grant \in Grant
      /\ \A s \in Session : session[s].grant \in Grant
      /\ \A c \in Call : call[c].grant \in Grant
    BY ZenonT(200) DEF IInv, TypeOK, RequestState, SessionState, CallState
<1>2. \A g \in Grant : Exists(g, offer) =>
          Exists(g, offer') /\ (WantsPresentation(g, offer) => WantsPresentation(g, offer'))
    BY Zenon, <1>1, OfferKept
<1>3. ListedSound'
    BY ZenonT(60) DEF Granted, ListedSound, IInv, TypeOK
<1>4. \A r \in Request : RequestSound(r)'
    BY ZenonT(200), <1>1, <1>2 DEF Granted, RequestSound, HolderOf
<1>5. \A s \in Session : SessionSound(s)'
    BY Zenon, <1>1, <1>2 DEF Granted, SessionSound
<1>6. \A d \in Code : CodeSound(d)'
    <2> SUFFICES ASSUME NEW d \in Code, codeOf'[d] = codeOf[d], codeOf[d] # None
                 PROVE  CodeSound(d)'
        BY Zenon DEF CodeSound
    <2>1. PICK r : r = codeOf[d]
        BY Zenon
    <2>2. r \in Request /\ request[r].made /\ request[r].holder = HolderOf(r)
        <3>1. codeOf[d] \in Request /\ request[codeOf[d]].made
            <4>1. codeOf \in [Code -> Request \cup {None}]
                BY Zenon DEF IInv, TypeOK
            <4>2. codeOf[d] \in Request
                BY Zenon, <4>1
            <4> QED
                BY Zenon, <4>2 DEF IInv, Made
        <3>2. CodeSound(d)
            BY Zenon DEF Granted
        <3> QED
            BY Zenon, <2>1, <3>1, <3>2 DEF CodeSound
    <2>3. request'[r].holder = HolderOf(r) /\ request'[r].from = request[r].from
        BY Zenon, <2>2
    <2>4. request'[r].holder = HolderOf(r)'
        BY ZenonT(60), <2>3 DEF HolderOf
    <2>5. codeOf'[d] = r
        BY Zenon, <2>1
    <2> QED
        BY Zenon, <2>4, <2>5 DEF CodeSound, HolderOf
<1>7. \A c \in Call : CallSound(call[c])'
    <2> SUFFICES ASSUME NEW c \in Call, call'[c] = call[c], CallSound(call[c])
                 PROVE  CallSound(call[c])'
        BY Zenon DEF Granted
    <2>1. /\ Exists(call[c].grant, offer')
          /\ WantsPresentation(call[c].grant, offer) => WantsPresentation(call[c].grant, offer')
        BY Zenon, <1>1, <1>2 DEF CallSound
    <2>2. call[c].pc \in {"signin", "exchange"} =>
            LET r == call[c].at IN
            request'[r].grant = request[r].grant /\ request'[r].from = request[r].from
        BY Zenon DEF IInv, Made
    <2> QED
        BY <2>1, <2>2 DEF CallSound, HolderOf
<1>8. \A t \in Token : TokenSound(t)'
    <2> SUFFICES ASSUME NEW t \in Token, token'[t] = token[t], TokenSound(t)
                 PROVE  TokenSound(t)'
        BY ZenonT(200) DEF Granted
    <2> DEFINE r == token[t].via
    <2>1. CASE r \in Request
        <3>1. request[r].made /\ RequestSound(r)
            BY Zenon, <2>1 DEF IInv, Spent, Made, Granted
        <3>2. request'[r].grant = request[r].grant /\ request'[r].from = request[r].from
            BY Zenon, <2>1, <3>1
        <3>3. WantsPresentation(request[r].grant, offer) => WantsPresentation(request[r].grant, offer')
            BY ZenonT(200), <1>1, <1>2, <2>1, <3>1 DEF RequestSound
        <3> QED
            BY SMTT(60), <2>1, <3>2, <3>3 DEF TokenSound, HolderOf
    <2>2. CASE r \notin Request
        BY ZenonT(60), <2>2 DEF TokenSound
    <2> QED
        BY Zenon, <2>1, <2>2
<1> QED
    BY Zenon, <1>3, <1>4, <1>5, <1>6, <1>7, <1>8 DEF Granted

LEMMA InitGranted == Init => Granted
BY DEF Init, Granted, ListedSound, RequestSound, SessionSound, CodeSound, CallSound, TokenSound,
       Exists, WantsPresentation, NoRequest, NoSession, NoToken, Idle, NoGrant

LEMMA IdleSound == CallSound(Idle) /\ CallSound(Idle)'
BY Zenon DEF CallSound, Exists, Idle, NoGrant

(* A step that changes no struct but offers, and may move a call.          *)
LEMMA StructsKept ==
    ASSUME IInv, IInv', Granted, UNCHANGED <<request, codeOf, session, token>>,
           \A o \in Offer : offer[o].grant # "none" =>
               offer'[o].grant # "none" /\ offer'[o].mode = offer[o].mode,
           authRequests' \subseteq authRequests, interactive' \subseteq interactive,
           \A c \in Call : call'[c] = call[c] \/ CallSound(call[c])'
    PROVE  Granted'
<1>1. /\ \A r \in Request : request[r].made \/ RequestSound(r)'
      /\ \A s \in Session : session[s].made \/ SessionSound(s)'
    BY Zenon DEF RequestSound, SessionSound
<1> QED
    BY Zenon, <1>1, GrantsKept DEF GrantsAdvance, IInv, Granted, TypeOK, ListedSound

LEMMA OfferGrants ==
    ASSUME IInv, IInv', Granted, NEW o \in Offer, NEW g \in {"pre", "auth"},
           NEW m \in {"browser", "presentation"}, CreateOffer(o, g, m)
    PROVE  Granted'
<1>1. /\ \A p \in Offer : offer[p].grant # "none" => offer'[p] = offer[p]
      /\ UNCHANGED <<request, codeOf, session, token, call>>
    BY ZenonT(200) DEF CreateOffer, IInv, TypeOK
<1>2. authRequests' \subseteq authRequests /\ interactive' \subseteq interactive
    BY Zenon, LiveSubsets DEF CreateOffer
<1> QED
    BY ZenonT(60), <1>1, <1>2, StructsKept

LEMMA MapGrants ==
    ASSUME IInv, IInv', Granted,
           \/ \E o \in Offer : FetchExpiredOffer(o)
           \/ PruneLocked
           \/ Tick
           \/ UNCHANGED vars
    PROVE  Granted'
<1>1. UNCHANGED <<structs, call>>
    BY Zenon DEF FetchExpiredOffer, PruneLocked, Tick, vars
<1>2. authRequests' \subseteq authRequests /\ interactive' \subseteq interactive
    BY Zenon, LiveSubsets DEF FetchExpiredOffer, PruneLocked, Tick, vars, maps
<1> QED
    BY Zenon, <1>1, <1>2, StructsKept DEF structs

(* A step that moves a call and changes no struct.                         *)
LEMMA CallGrants ==
    ASSUME IInv, IInv', Granted, UNCHANGED structs,
           authRequests' \subseteq authRequests, interactive' \subseteq interactive,
           NEW c \in Call, NEW next, call' = [call EXCEPT ![c] = next], CallSound(next)
    PROVE  Granted'
<1>1. /\ UNCHANGED <<request, codeOf, session, token, offer>>
      /\ \A b \in Call : b # c => call'[b] = call[b]
      /\ call'[c] = next
    BY ZenonT(60) DEF structs, IInv, TypeOK
<1>2. CallSound(call[c])'
    BY ZenonT(60), <1>1 DEF CallSound, Exists, WantsPresentation, HolderOf
<1> QED
    BY Zenon, <1>1, <1>2, StructsKept

LEMMA ResolveGrants ==
    ASSUME IInv, IInv', Granted, NEW c \in Call, NEW g \in Asked, NEW pc \in {"push", "challenge"},
           ResolveAuthGrant(c, g, pc)
    PROVE  Granted'
<1> DEFINE next == [Idle EXCEPT !.pc = pc, !.grant = g]
<1>1. /\ call' = [call EXCEPT ![c] = next] /\ UNCHANGED structs
      /\ authRequests' \subseteq authRequests /\ interactive' \subseteq interactive
    BY Zenon DEF ResolveAuthGrant, maps
<1>2. CallSound(next)
    BY Zenon DEF CallSound, Idle, Exists, ResolveAuthGrant, OfferLocked
<1> QED
    BY Zenon, <1>1, <1>2, CallGrants

LEMMA LookupGrants ==
    ASSUME IInv, IInv', Granted, NEW c \in Call, NEW r \in Request,
           NEW pc \in {"resolve", "signin"}, LookupAuthRequest(c, r, pc)
    PROVE  Granted'
<1> DEFINE next == [Idle EXCEPT !.pc = pc, !.at = r]
<1>1. /\ UNCHANGED structs
      /\ authRequests' \subseteq authRequests /\ interactive' \subseteq interactive
      /\ call' = [call EXCEPT ![c] = next] \/ UNCHANGED call
      /\ r \in authRequests
    BY Zenon DEF LookupAuthRequest
<1>2. CallSound(next)
    BY Zenon, <1>1 DEF CallSound, Idle, NoGrant, Exists, Granted, ListedSound
<1>3. CASE UNCHANGED call
    BY Zenon, <1>1, <1>3, StructsKept DEF structs
<1> QED
    BY Zenon, <1>1, <1>2, <1>3, CallGrants

LEMMA ContinueGrants ==
    ASSUME IInv, IInv', Granted, NEW c \in Call, NEW s \in Session, NEW w \in Client,
           ContinueSession(c, s, w)
    PROVE  Granted'
<1> DEFINE next == [Idle EXCEPT !.pc = IF session[s].browser THEN "push" ELSE "verify", !.at = s,
                                !.grant = session[s].grant]
<1>1. /\ UNCHANGED structs
      /\ authRequests' \subseteq authRequests /\ interactive' \subseteq interactive
      /\ call' = [call EXCEPT ![c] = next] \/ UNCHANGED call
      /\ s \in interactive
    BY Zenon DEF ContinueSession
<1>2. CallSound(next)
    <2>1. SessionSound(s) /\ session[s].made
        BY Zenon, <1>1 DEF Granted, ListedSound
    <2> QED
        BY Zenon, <2>1 DEF CallSound, Idle, SessionSound
<1>3. CASE UNCHANGED call
    BY Zenon, <1>1, <1>3, StructsKept DEF structs
<1> QED
    BY Zenon, <1>1, <1>2, <1>3, CallGrants

LEMMA RefuseGrants ==
    ASSUME IInv, IInv', Granted, NEW c \in Call, RedirectToWeb(c) \/ Refuse(c)
    PROVE  Granted'
<1>1. UNCHANGED structs /\ authRequests' \subseteq authRequests /\ interactive' \subseteq interactive
    BY Zenon DEF RedirectToWeb, Refuse, maps
<1>2. PICK next : call' = [call EXCEPT ![c] = next] /\ CallSound(next)
    <2>1. CASE RedirectToWeb(c)
        <3> DEFINE next == [call[c] EXCEPT !.pc = "push"]
        <3>1. call' = [call EXCEPT ![c] = next]
            BY ZenonT(60), <2>1, PushTyped DEF RedirectToWeb, IInv, TypeOK
        <3>2. CallSound(next)
            BY ZenonT(60), MovedSound DEF Granted, IInv, TypeOK
        <3> QED
            BY Zenon, <3>1, <3>2
    <2>2. CASE Refuse(c)
        BY Zenon, <2>2, IdleSound DEF Refuse
    <2> QED
        BY Zenon, <2>1, <2>2
<1> QED
    BY Zenon, <1>1, <1>2, CallGrants
(* A step that changes the requests as below, and moves one call.          *)
LEMMA RequestGrants ==
    ASSUME IInv, IInv', Granted, UNCHANGED <<offer, session, token>>,
           NEW c \in Call, \A b \in Call : b # c => call'[b] = call[b], CallSound(call[c])',
           \A r \in Request : request[r].made =>
               /\ request'[r].made /\ request'[r].grant = request[r].grant
               /\ request'[r].from = request[r].from
               /\ request'[r].holder \in {request[r].holder, HolderOf(r)},
           \A r \in Request : request[r].made \/ request'[r] = request[r] \/ RequestSound(r)',
           \A d \in Code : codeOf'[d] = codeOf[d] \/ CodeSound(d)',
           \A r \in authRequests' :
               r \in authRequests \/ (request'[r].made /\ request'[r].from = None),
           interactive' \subseteq interactive
    PROVE  Granted'
<1>1. /\ \A r \in Request : request[r].made \/ RequestSound(r)'
      /\ \A s \in Session : session[s].made \/ SessionSound(s)'
    BY Zenon DEF RequestSound, SessionSound
<1>2. GrantsAdvance
    BY Zenon, <1>1 DEF GrantsAdvance
<1> QED
    BY Zenon, <1>2, GrantsKept

LEMMA TakeCodeGrants ==
    ASSUME IInv, IInv', Granted, NEW c \in Call, NEW d \in Code, TakeCode(c, d)
    PROVE  Granted'
<1> DEFINE r == codeOf[d]
<1>1. r \in Request /\ request[r].made /\ CodeSound(d)
    BY Zenon DEF IInv, TypeOK, TakeCode, Made, Granted
<1>2. UNCHANGED <<offer, codeOf, session, token, authRequests, interactive>>
    BY Zenon DEF TakeCode
<1>3. CASE Keeps(request[r].expires) /\ ~request[r].codeUsed
    <2>1. /\ request' = [request EXCEPT ![r].codeUsed = TRUE]
          /\ call' = [call EXCEPT ![c] = [pc |-> "exchange", grant |-> request[r].grant, at |-> r,
                                          holder |-> request[r].holder]]
        BY Zenon, <1>3 DEF TakeCode
    <2>2. /\ \A b \in Call : b # c => call'[b] = call[b]
          /\ \A q \in Request : /\ request'[q].made = request[q].made
                                /\ request'[q].grant = request[q].grant
                                /\ request'[q].from = request[q].from
                                /\ request'[q].holder = request[q].holder
          /\ call'[c] = [pc |-> "exchange", grant |-> request[r].grant, at |-> r,
                         holder |-> request[r].holder]
        <3>1. TypeOK
            BY DEF IInv
        <3>2. \A q \in Request : /\ request'[q].made = request[q].made
                                 /\ request'[q].grant = request[q].grant
                                 /\ request'[q].from = request[q].from
                                 /\ request'[q].holder = request[q].holder
            BY ZenonT(60), <1>1, <2>1, <3>1, RequestMarked
        <3> DEFINE next == [pc |-> "exchange", grant |-> request[r].grant, at |-> r,
                            holder |-> request[r].holder]
        <3>3. call' = [call EXCEPT ![c] = next]
            BY Zenon, <2>1
        <3> HIDE DEF next
        <3>4. call'[c] = next /\ \A b \in Call : b # c => call'[b] = call[b]
            BY ZenonT(60), <3>1, <3>3, CallMoved
        <3> QED
            BY ZenonT(60), <3>2, <3>4 DEF next
    <2>3. CallSound(call[c])'
        <3>1. Exists(request[r].grant, offer) /\ request[r].holder = HolderOf(r)
            BY ZenonT(200), <1>1 DEF Granted, RequestSound, CodeSound, IInv, TypeOK
        <3> QED
            BY ZenonT(60), <1>1, <1>2, <2>2, <3>1, ExchangeSound
    <2>4. \A q \in Request : request[q].made \/ RequestSound(q)'
        BY Zenon, <2>2 DEF RequestSound
    <2> QED
        BY ZenonT(60), <1>2, <2>2, <2>3, <2>4, RequestGrants
<1>4. CASE ~(Keeps(request[r].expires) /\ ~request[r].codeUsed)
    <2>1. UNCHANGED <<request, call>>
        BY Zenon, <1>4 DEF TakeCode
    <2> QED
        BY Zenon, <1>2, <2>1, StructsKept
<1> QED
    BY Zenon, <1>3, <1>4

LEMMA StoreRequestGrants ==
    ASSUME IInv, IInv', Granted, NEW c \in Call, NEW r \in Request, StoreRequest(c, r)
    PROVE  Granted'
<1> DEFINE new == [NoRequest EXCEPT !.made = TRUE, !.grant = call[c].grant,
                                    !.expires = now + AuthTTL]
<1>1. new.made /\ new.grant = call[c].grant /\ new.from = None
    BY Zenon DEF NoRequest
<1>2. /\ UNCHANGED <<offer, codeOf, session, token>>
      /\ request' = [request EXCEPT ![r] = new]
      /\ call' = [call EXCEPT ![c] = Idle]
      /\ ~request[r].made
    BY Zenon DEF StoreRequest
<1> HIDE DEF new
<1>3. authRequests' \subseteq authRequests \cup {r} /\ interactive' \subseteq interactive
    BY ZenonT(60), LiveSubsets DEF StoreRequest, MakeRoom
<1>4. /\ \A b \in Call : b # c => call'[b] = call[b]
      /\ call'[c] = Idle
      /\ \A q \in Request : q # r => request'[q] = request[q]
      /\ request'[r] = new
    BY ZenonT(60), <1>2 DEF IInv, TypeOK
<1>5. RequestSound(r)'
    BY ZenonT(200), <1>1, <1>2, <1>4 DEF RequestSound, Granted, CallSound
<1>6. CallSound(call[c])'
    BY Zenon, <1>4, IdleSound
<1>7. \A q \in authRequests' : q \in authRequests \/ (request'[q].made /\ request'[q].from = None)
    BY ZenonT(60), <1>1, <1>3, <1>4
<1>8. \A q \in Request : request[q].made => request'[q] = request[q]
    BY ZenonT(60), <1>2, <1>4
<1>9. \A q \in Request : request[q].made \/ request'[q] = request[q] \/ RequestSound(q)'
    BY ZenonT(60), <1>4, <1>5
<1> QED
    BY ZenonT(60), <1>2, <1>3, <1>4, <1>6, <1>7, <1>8, <1>9, RequestGrants

LEMMA ResolveRequestGrants ==
    ASSUME IInv, IInv', Granted, NEW c \in Call, ResolveAuthRequest(c)
    PROVE  Granted'
<1> DEFINE r == call[c].at
<1>1. r \in Request
    BY Zenon DEF IInv, Made, ResolveAuthRequest
<1>2. /\ UNCHANGED <<offer, codeOf, session, token, authRequests, interactive>>
      /\ request' = [request EXCEPT ![r].resolved = TRUE] \/ request' = request
      /\ call' = [call EXCEPT ![c] = Idle]
    BY ZenonT(60) DEF ResolveAuthRequest, maps
<1>3. /\ \A b \in Call : b # c => call'[b] = call[b]
      /\ call'[c] = Idle
      /\ \A q \in Request : /\ request'[q].made = request[q].made
                            /\ request'[q].grant = request[q].grant
                            /\ request'[q].from = request[q].from
                            /\ request'[q].holder = request[q].holder
    <2>1. TypeOK
        BY DEF IInv
    <2>2. \A q \in Request : /\ request'[q].made = request[q].made
                             /\ request'[q].grant = request[q].grant
                             /\ request'[q].from = request[q].from
                             /\ request'[q].holder = request[q].holder
        BY ZenonT(60), <1>1, <1>2, <2>1, RequestMarked
    <2> QED
        BY ZenonT(60), <1>2, <2>1, <2>2, CallMoved
<1>4. \A q \in Request : request[q].made \/ RequestSound(q)'
    BY Zenon, <1>3 DEF RequestSound
<1>5. CallSound(call[c])'
    BY ZenonT(60), <1>3, IdleSound
<1> QED
    BY ZenonT(60), <1>2, <1>3, <1>4, <1>5, RequestGrants

LEMMA RedirectGrants ==
    ASSUME IInv, IInv', Granted, NEW c \in Call, NEW d \in Code, RedirectWithCode(c, d)
    PROVE  Granted'
<1>0. PICK r : r = call[c].at
    BY Zenon
<1>1. r \in Request /\ request[r].made /\ request[r].from = None
    BY Zenon, <1>0 DEF IInv, Made, RedirectWithCode, Granted, CallSound
<1>2. /\ UNCHANGED <<offer, session, token, authRequests, interactive>>
      /\ request' = [request EXCEPT ![r].holder = "account"]
      /\ codeOf' = [codeOf EXCEPT ![d] = r]
      /\ call' = [call EXCEPT ![c] = Idle]
    BY ZenonT(60), <1>0 DEF RedirectWithCode
<1>3. /\ \A b \in Call : b # c => call'[b] = call[b]
      /\ call'[c] = Idle
      /\ \A q \in Request : /\ request'[q].made = request[q].made
                            /\ request'[q].grant = request[q].grant
                            /\ request'[q].from = request[q].from
                            /\ q # r => request'[q].holder = request[q].holder
      /\ request'[r].holder = "account"
      /\ \A e \in Code : e # d => codeOf'[e] = codeOf[e]
      /\ codeOf'[d] = r
    <2>1. TypeOK /\ codeOf \in [Code -> Request \cup {None}]
        BY Zenon DEF IInv, TypeOK
    <2>2. call'[c] = Idle /\ \A b \in Call : b # c => call'[b] = call[b]
        BY ZenonT(60), <1>2, <2>1, CallMoved
    <2>3. codeOf'[d] = r /\ \A e \in Code : e # d => codeOf'[e] = codeOf[e]
        BY ZenonT(60), <1>2, <2>1
    <2>4. request' = [request EXCEPT ![r].holder = "account"]
        BY Zenon, <1>2
    <2> QED
        BY ZenonT(60), <1>1, <2>1, <2>2, <2>3, <2>4, RequestHeld
<1>4. \A q \in Request : request[q].made \/ RequestSound(q)'
    BY ZenonT(60), <1>3 DEF RequestSound
<1>5. CallSound(call[c])' /\ CodeSound(d)' /\ HolderOf(r) = "account"
    BY ZenonT(60), <1>1, <1>3, IdleSound DEF CodeSound, HolderOf
<1>6. /\ \A q \in Request : request'[q].holder \in {request[q].holder, HolderOf(q)}
      /\ \A e \in Code : codeOf'[e] = codeOf[e] \/ CodeSound(e)'
    BY ZenonT(60), <1>3, <1>5
<1>7. \A q \in Request : request[q].made =>
          /\ request'[q].made /\ request'[q].grant = request[q].grant
          /\ request'[q].from = request[q].from
          /\ request'[q].holder \in {request[q].holder, HolderOf(q)}
    BY Zenon, <1>3, <1>6
<1>8. /\ \A q \in Request : request[q].made \/ request'[q] = request[q] \/ RequestSound(q)'
      /\ \A q \in authRequests' : q \in authRequests \/ (request'[q].made /\ request'[q].from = None)
    BY Zenon, <1>2, <1>4
<1> QED
    BY ZenonT(60), <1>2, <1>3, <1>5, <1>6, <1>7, <1>8, RequestGrants

LEMMA CodeGrants ==
    ASSUME IInv, IInv', Granted, NEW c \in Call, NEW d \in Code, NEW r \in Request,
           GrantCode(c, d, r)
    PROVE  Granted'
<1> DEFINE new == [NoRequest EXCEPT !.made = TRUE, !.grant = call[c].grant, !.from = call[c].at,
                                    !.holder = "presented", !.expires = now + EntryTTL]
<1>1. /\ new.made /\ new.grant = call[c].grant /\ new.from = call[c].at
      /\ new.holder = "presented" /\ call[c].at \in Session
    BY Zenon DEF NoRequest, IInv, Made, GrantCode
<1>2. /\ UNCHANGED <<offer, session, token, authRequests>>
      /\ request' = [request EXCEPT ![r] = new]
      /\ codeOf' = [codeOf EXCEPT ![d] = r]
      /\ interactive' \subseteq interactive
      /\ call' = [call EXCEPT ![c] = Idle]
      /\ ~request[r].made
    BY ZenonT(60) DEF GrantCode
<1> HIDE DEF new
<1>3. /\ \A b \in Call : b # c => call'[b] = call[b]
      /\ call'[c] = Idle
      /\ \A q \in Request : q # r => request'[q] = request[q]
      /\ request'[r] = new
      /\ \A e \in Code : e # d => codeOf'[e] = codeOf[e]
      /\ codeOf'[d] = r
    BY ZenonT(60), <1>2 DEF IInv, TypeOK
<1>4. RequestSound(r)'
    <2>1. Exists(call[c].grant, offer) /\ WantsPresentation(call[c].grant, offer)
        BY Zenon DEF Granted, CallSound, GrantCode
    <2> QED
        BY ZenonT(200), <1>1, <1>2, <1>3, <2>1 DEF RequestSound
<1>5. CodeSound(d)' /\ CallSound(call[c])'
    BY ZenonT(60), <1>1, <1>3, IdleSound DEF CodeSound, HolderOf
<1> QED
    BY ZenonT(60), <1>2, <1>3, <1>4, <1>5, RequestGrants

LEMMA SessionGrants ==
    ASSUME IInv, IInv', Granted, NEW c \in Call, NEW s \in Session,
           AuthViaWeb(c, s) \/ AskForPresentation(c, s)
    PROVE  Granted'
<1>1. call[c].grant \in Grant /\ CallSound(call[c])
    BY Zenon DEF IInv, TypeOK, CallState, Granted
<1>2. PICK fields : /\ StoreSession(c, s, fields) /\ fields.made
                    /\ fields.grant.offer = call[c].grant.offer
                    /\ ~fields.browser => WantsPresentation(call[c].grant, offer)
    <2>1. CASE AuthViaWeb(c, s)
        <3> DEFINE new == [made |-> TRUE, grant |-> call[c].grant, browser |-> TRUE,
                           status |-> "pending", expires |-> now + EntryTTL]
        <3>1. StoreSession(c, s, new)
            BY Zenon, <2>1 DEF AuthViaWeb
        <3>2. new.made /\ new.grant.offer = call[c].grant.offer /\ new.browser
            BY Zenon
        <3> HIDE DEF new
        <3> QED
            BY ZenonT(60), <3>1, <3>2
    <2>2. CASE AskForPresentation(c, s)
        <3> DEFINE new == [made |-> TRUE, grant |-> [call[c].grant EXCEPT !.redirect = FALSE],
                           browser |-> FALSE, status |-> "pending", expires |-> now + EntryTTL]
        <3>1. StoreSession(c, s, new)
            BY Zenon, <2>2 DEF AskForPresentation
        <3>2. new.grant.offer = call[c].grant.offer
            BY Zenon, <1>1 DEF Grant
        <3>3. WantsPresentation(call[c].grant, offer)
            BY Zenon, <2>2 DEF AskForPresentation, WantsPresentation, Mode
        <3>4. new.made
            BY Zenon
        <3> HIDE DEF new
        <3> QED
            BY Zenon, <3>1, <3>2, <3>3, <3>4
    <2> QED
        BY ZenonT(60), <2>1, <2>2
<1>3. PICK next : call' = [call EXCEPT ![c] = next] /\ CallSound(next)
    <2>1. CASE AuthViaWeb(c, s)
        <3> DEFINE next == [call[c] EXCEPT !.pc = "push"]
        <3>1. call' = [call EXCEPT ![c] = next]
            BY ZenonT(60), <2>1, PushTyped DEF AuthViaWeb, IInv, TypeOK
        <3>2. CallSound(next)
            BY ZenonT(60), <1>1, MovedSound DEF IInv, TypeOK
        <3> QED
            BY Zenon, <3>1, <3>2
    <2>2. CASE AskForPresentation(c, s)
        BY Zenon, <2>2, IdleSound DEF AskForPresentation
    <2> QED
        BY Zenon, <2>1, <2>2
<1>4. /\ ~session[s].made
      /\ session' = [session EXCEPT ![s] = fields]
      /\ UNCHANGED <<offer, request, codeOf, token>>
      /\ authRequests' \subseteq authRequests /\ interactive' \subseteq interactive \cup {s}
    BY ZenonT(60), <1>2, LiveSubsets DEF StoreSession, MakeRoom
<1>5. /\ \A b \in Call : b # c => call'[b] = call[b]
      /\ call'[c] = next
      /\ \A q \in Session : q # s => session'[q] = session[q]
      /\ session'[s] = fields
    BY ZenonT(60), <1>3, <1>4 DEF IInv, TypeOK
<1>6. SessionSound(s)'
    BY ZenonT(60), <1>1, <1>2, <1>4, <1>5 DEF SessionSound, CallSound, Exists, WantsPresentation
<1>7. CallSound(call[c])'
    BY Zenon, <1>3, <1>4, <1>5 DEF CallSound, HolderOf
<1>8. /\ \A q \in Session : session[q].made \/ SessionSound(q)'
      /\ \A r \in Request : request[r].made \/ RequestSound(r)'
    BY Zenon, <1>4, <1>5, <1>6 DEF SessionSound, RequestSound
<1>9. GrantsAdvance
    BY ZenonT(60), <1>2, <1>4, <1>5, <1>7, <1>8 DEF GrantsAdvance
<1> QED
    BY Zenon, <1>9, GrantsKept

LEMMA VerifyGrants ==
    ASSUME IInv, IInv', Granted, NEW c \in Call, NEW status \in {"verified", "failed"},
           VerifyPresentation(c, status)
    PROVE  Granted'
<1> DEFINE s == call[c].at
<1>1. s \in Session /\ CallSound(call[c]) /\ call[c].pc = "verify"
    BY Zenon DEF IInv, Made, VerifyPresentation, Granted
<1>2. /\ UNCHANGED <<offer, request, codeOf, token, authRequests, interactive>>
      /\ session' = [session EXCEPT ![s].status = status]
      /\ call' = [call EXCEPT ![c] = IF status = "verified" THEN [call[c] EXCEPT !.pc = "grant"]
                                                           ELSE Idle]
    BY ZenonT(60) DEF VerifyPresentation, maps
<1>3. /\ \A b \in Call : b # c => call'[b] = call[b]
      /\ call'[c] = IF status = "verified" THEN [call[c] EXCEPT !.pc = "grant"] ELSE Idle
      /\ \A q \in Session : /\ session'[q].made = session[q].made
                            /\ session'[q].grant = session[q].grant
                            /\ session'[q].browser = session[q].browser
    <2>1. TypeOK
        BY DEF IInv
    <2>2. \A q \in Session : /\ session'[q].made = session[q].made
                             /\ session'[q].grant = session[q].grant
                             /\ session'[q].browser = session[q].browser
        BY ZenonT(60), <1>1, <1>2, <2>1, SessionJudged
    <2> DEFINE next == IF status = "verified" THEN [call[c] EXCEPT !.pc = "grant"] ELSE Idle
    <2>3. call' = [call EXCEPT ![c] = next]
        BY Zenon, <1>2
    <2> HIDE DEF next
    <2>4. call'[c] = next /\ \A b \in Call : b # c => call'[b] = call[b]
        BY ZenonT(60), <2>1, <2>3, CallMoved
    <2> QED
        BY ZenonT(60), <2>2, <2>4 DEF next
<1>4. CallSound(call[c])'
    <2>1. CASE status = "verified"
        <3>1. call[c] \in CallState
            BY Zenon DEF IInv, TypeOK
        <3>2. CallSound([call[c] EXCEPT !.pc = "grant"])
            BY ZenonT(60), <1>1, <3>1, MovedSound DEF CallSound
        <3>3. call'[c] = [call[c] EXCEPT !.pc = "grant"]
            BY Zenon, <1>3, <2>1
        <3> QED
            BY ZenonT(60), <1>2, <3>2, <3>3 DEF CallSound, HolderOf
    <2> QED
        BY ZenonT(60), <1>3, <2>1, IdleSound
<1>5. /\ \A q \in Session : session[q].made \/ SessionSound(q)'
      /\ \A r \in Request : request[r].made \/ RequestSound(r)'
    BY Zenon, <1>2, <1>3 DEF SessionSound, RequestSound
<1>6. GrantsAdvance
    BY ZenonT(60), <1>2, <1>3, <1>4, <1>5 DEF GrantsAdvance
<1> QED
    BY Zenon, <1>6, GrantsKept

(* A step that issues one token.                                           *)
LEMMA TokenGrants ==
    ASSUME IInv, IInv', Granted, UNCHANGED <<request, codeOf, session>>,
           \A o \in Offer : offer[o].grant # "none" =>
               offer'[o].grant # "none" /\ offer'[o].mode = offer[o].mode,
           \A c \in Call : call'[c] = call[c] \/ CallSound(call[c])',
           NEW t \in Token, NEW granted \in TokenState, IssueTokenLocked(t, granted),
           TokenSound(t)'
    PROVE  Granted'
<1>1. /\ \A u \in Token : u # t => token'[u] = token[u]
      /\ authRequests' \subseteq authRequests /\ interactive' \subseteq interactive
    BY Zenon, IssueTyped
<1>2. /\ \A q \in Session : session[q].made \/ SessionSound(q)'
      /\ \A r \in Request : request[r].made \/ RequestSound(r)'
    BY Zenon DEF SessionSound, RequestSound
<1>3. GrantsAdvance
    BY Zenon, <1>1, <1>2 DEF GrantsAdvance
<1> QED
    BY Zenon, <1>3, GrantsKept

LEMMA PreAuthorizedGrants ==
    ASSUME IInv, IInv', Granted, NEW t \in Token, NEW o \in Offer, NEW k \in Key \cup {None},
           TokenPreAuthorized(t, o, k)
    PROVE  Granted'
<1> DEFINE granted == [via |-> o, offer |-> o, holder |-> "none", key |-> k,
                       expires |-> now + EntryTTL]
<1>1. granted \in TokenState /\ granted.via = o /\ granted.offer = o /\ granted.holder = "none"
    <2>1. o \in Offer \cup Request /\ "none" \in Holder /\ now + EntryTTL \in Nat
        BY Zenon, Expiry DEF IInv, Holder
    <2> QED
        BY ZenonT(60), <2>1, TokenMade
<1>2. /\ IssueTokenLocked(t, granted)
      /\ offer' = [offer EXCEPT ![o].redeemed = TRUE]
      /\ UNCHANGED <<request, codeOf, session, call>>
    BY Zenon DEF TokenPreAuthorized
<1> HIDE DEF granted
<1>3. token'[t] = granted
    BY Zenon, <1>1, <1>2, IssueTyped
<1>4. TokenSound(t)'
    BY ZenonT(60), <1>1, <1>3 DEF TokenSound
<1>5. \A p \in Offer : offer'[p].grant = offer[p].grant /\ offer'[p].mode = offer[p].mode
    BY Zenon, <1>2, OfferRedeemed DEF IInv
<1> QED
    BY ZenonT(60), <1>1, <1>2, <1>4, <1>5, TokenGrants

LEMMA ExchangeGrants ==
    ASSUME IInv, IInv', Granted, NEW c \in Call, NEW t \in Token, NEW w \in Client,
           NEW u \in BOOLEAN, NEW k \in Key \cup {None}, Exchange(c, t, w, u, k)
    PROVE  Granted'
<1> DEFINE granted == [via |-> call[c].at, offer |-> call[c].grant.offer,
                       holder |-> call[c].holder, key |-> k, expires |-> now + EntryTTL]
           r == call[c].at
<1>1. /\ r \in Request /\ request[r].made /\ call[c].pc = "exchange" /\ CallSound(call[c])
      /\ RequestSound(r)
    BY ZenonT(60) DEF IInv, Made, Exchange, Granted
<1>2. /\ granted \in TokenState /\ granted.via = r /\ granted.offer = call[c].grant.offer
      /\ granted.holder = call[c].holder /\ granted.key = k
    <2>1. now + EntryTTL \in Nat
        BY Zenon, Expiry DEF IInv
    <2>2. call[c].grant \in Grant /\ call[c].holder \in Holder
        BY Zenon DEF IInv, TypeOK, CallState
    <2>3. call[c].grant.offer \in Offer \cup {None}
        BY Zenon, <2>2 DEF Grant
    <2> QED
        BY ZenonT(60), <1>1, <2>1, <2>2, <2>3, TokenMade
<1>3. /\ IssueTokenLocked(t, granted)
      /\ call' = [call EXCEPT ![c] = Idle]
      /\ UNCHANGED <<offer, request, codeOf, session>>
      /\ call[c].grant.key # None => k = call[c].grant.key
    <2>1. ExchangeAllowed(call[c].grant, w, u, k)
        BY Zenon DEF Exchange
    <2>2. /\ IssueTokenLocked(t, granted)
          /\ call' = [call EXCEPT ![c] = Idle]
          /\ UNCHANGED <<offer, request, codeOf, session>>
        BY Zenon DEF Exchange
    <2> QED
        BY Zenon, <2>1, <2>2 DEF ExchangeAllowed
<1> HIDE DEF granted
<1>4. /\ \A b \in Call : b # c => call'[b] = call[b]
      /\ call'[c] = Idle
      /\ token'[t] = granted
    <2>1. call \in [Call -> CallState] /\ token \in [Token -> TokenState]
        BY Zenon DEF IInv, TypeOK
    <2>2. token' = [token EXCEPT ![t] = granted]
        BY ZenonT(60), <1>2, <1>3, IssueTyped
    <2> QED
        BY Zenon, <1>3, <2>1, <2>2
<1>5. TokenSound(t)'
    <2>1. call[c].grant = request[r].grant /\ call[c].holder = HolderOf(r)
        BY Zenon, <1>1 DEF CallSound
    <2>2. HolderOf(r) = "presented" => WantsPresentation(request[r].grant, offer)
        BY Zenon, <1>1 DEF RequestSound, HolderOf
    <2> QED
        BY ZenonT(200), <1>1, <1>2, <1>3, <1>4, <2>1, <2>2 DEF TokenSound, HolderOf
<1>6. CallSound(call[c])'
    BY Zenon, <1>4, IdleSound
<1> QED
    BY ZenonT(60), <1>2, <1>3, <1>4, <1>5, <1>6, TokenGrants
LEMMA NextGrants == IInv /\ IInv' /\ Granted /\ [Next]_vars => Granted'
<1> SUFFICES ASSUME IInv, IInv', Granted, [Next]_vars PROVE Granted'
    BY Zenon
<1>1. CASE UNCHANGED vars
    BY Zenon, <1>1, MapGrants
<1>2. CASE \E o \in Offer, mode \in {"browser", "presentation"} :
               CreateOffer(o, "pre", mode) \/ CreateOffer(o, "auth", mode)
    BY Zenon, <1>2, OfferGrants
<1>3. CASE (\E o \in Offer : FetchExpiredOffer(o)) \/ PruneLocked \/ Tick
    BY Zenon, <1>3, MapGrants
<1>4. CASE \E t \in Token, o \in Offer, k \in Key \cup {None} : TokenPreAuthorized(t, o, k)
    BY Zenon, <1>4, PreAuthorizedGrants
<1>5. CASE \E c \in Call, g \in Asked : PushedAuthorizationRequest(c, g) \/ StartChallenge(c, g)
    BY Zenon, <1>5, ResolveGrants DEF PushedAuthorizationRequest, StartChallenge
<1>6. CASE \E c \in Call, r \in Request :
               \/ StoreRequest(c, r)
               \/ LookupAuthRequest(c, r, "resolve")
               \/ LookupAuthRequest(c, r, "signin")
    BY Zenon, <1>6, StoreRequestGrants, LookupGrants
<1>7. CASE \E c \in Call : ResolveAuthRequest(c) \/ RedirectToWeb(c) \/ Refuse(c)
    BY Zenon, <1>7, ResolveRequestGrants, RefuseGrants
<1>8. CASE \E c \in Call, d \in Code : RedirectWithCode(c, d) \/ TakeCode(c, d)
    BY Zenon, <1>8, RedirectGrants, TakeCodeGrants
<1>9. CASE \E c \in Call, t \in Token, w \in Client, u \in BOOLEAN, k \in Key \cup {None} :
               Exchange(c, t, w, u, k)
    <2> PICK c \in Call, t \in Token, w \in Client, u \in BOOLEAN, k \in Key \cup {None} :
                 Exchange(c, t, w, u, k)
        BY Zenon, <1>9
    <2> QED
        BY ZenonT(60), ExchangeGrants
<1>10. CASE \E c \in Call, s \in Session : AuthViaWeb(c, s) \/ AskForPresentation(c, s)
    BY Zenon, <1>10, SessionGrants
<1>11. CASE \E c \in Call, s \in Session, w \in Client : ContinueSession(c, s, w)
    BY Zenon, <1>11, ContinueGrants
<1>12. CASE \E c \in Call, status \in {"verified", "failed"} : VerifyPresentation(c, status)
    BY Zenon, <1>12, VerifyGrants
<1>13. CASE \E c \in Call, d \in Code, r \in Request : GrantCode(c, d, r)
    BY Zenon, <1>13, CodeGrants
<1> QED
    BY Zenon, <1>1, <1>2, <1>3, <1>4, <1>5, <1>6, <1>7, <1>8, <1>9, <1>10, <1>11, <1>12, <1>13 DEF Next

(* A token is for what its grant says, however the calls that led to it    *)
(* interleave: an exchange has copied the grant of its request, and no     *)
(* sign-in and no presentation is taken for the other                      *)
(* (resolveAuthGrant, handleAuthorizationCodeToken,                        *)
(* continueInteractiveAuthorization).                                      *)
THEOREM TokensMatch == Spec => []TokensMatchTheirGrant
BY GrantedMatches, InitHolds, NextKeeps, InitGranted, NextGrants, PTL DEF Spec

================================================================================
