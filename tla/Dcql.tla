------------------------------- MODULE Dcql -------------------------------
(***************************************************************************)
(* Credential selection for a presentation: the evaluation of a DCQL query *)
(* (internal/wallet/dcql.go), the choices the consent dialog offers and    *)
(* what the wallet makes of them (consent_selection.go), with the          *)
(* validation mode changing under an open dialog (the conformance API).    *)
(*                                                                         *)
(* A credential is what the evaluation reads of it: its format, type,      *)
(* key binding, claims, issuance date (0: undated), batch and the          *)
(* authorities that vouch for its issuer.  A claim is a name: paths and    *)
(* value constraints are the subject of module ClaimPaths.                 *)
(***************************************************************************)
EXTENDS Integers, Sequences, FiniteSets, SequencesExt

CONSTANTS Scenes,       \* [held, queries, sets, preferred, auto, wellFormed]
          MaxSwitches   \* mode changes considered per request

VARIABLES scene,      \* the request and the wallet that answers it
          mode,       \* w.Mode(), "strict" or "debug"
          stage,      \* where the request is
          matches,    \* the automatic selection (Nil: none)
          options,    \* ConsentCredentialOptions (Nil: none)
          answer,     \* the ConsentResult, with the mode it was approved in
          sent,       \* the matches the presentation is built from
          switches

dcqlVars == <<scene, mode, stage, matches, options, answer, sent, switches>>

Nil == [nil |-> TRUE]
Held == scene.held
Queries == scene.queries
CredSets == scene.sets
PreferredFormat == scene.preferred
QueryIDs == {Queries[i].id : i \in DOMAIN Queries}
QueryNamed(id) == Queries[CHOOSE i \in DOMAIN Queries : Queries[i].id = id]
Cred(id) == Held[CHOOSE i \in DOMAIN Held : Held[i].id = id]

----------------------------------------------------------------------------
(* Matching one credential against one credential query.                   *)

\* credtype.Extends: a domestic PID type extends the general one.
Extends(t) == IF t = "pid:de" THEN {"pid"} ELSE {}

\* credtype.Chain: the types a credential answers for.
Chain(vct, aka) ==
    IF vct = "" THEN {}
    ELSE LET own == {vct} \cup aka IN own \cup UNION {Extends(t) : t \in own}

\* matchesMeta: vct_values by inheritance, doctype_value exactly.
MatchesMeta(c, q) ==
    /\ q.vcts # {} => Chain(c.vct, c.aka) \cap q.vcts # {}
    /\ q.doctype # "" => c.doctype = q.doctype

MatchesFormat(c, q) == q.format \in {"", c.format}

\* Faulty variant: strict mode also takes an unbound credential.
\* The holder binding case of the evaluation loop.
BindingMismatch(c, q, m) ==
    ~c.bound /\ m = "strict" /\ (q.binding \/ c.format = "mso_mdoc")

\* satisfiableClaimSets: the claim_sets options a credential answers.
SatisfiableClaimSets(c, q) ==
    {i \in DOMAIN q.claimSets :
        q.claimSets[i] # {} /\ q.claimSets[i] \subseteq (q.claims \cap c.claims)}

\* selectClaims: the claims to disclose and the requested ones that are missing.
SelectClaims(c, q) ==
    LET sets == SatisfiableClaimSets(c, q)
        held == q.claims \cap c.claims
    IN IF q.claims = {} THEN [keys |-> {}, missing |-> {}, match |-> TRUE]
       ELSE IF q.claimSets # <<>>
       THEN [keys |-> IF sets = {} THEN {}
                      ELSE q.claimSets[CHOOSE i \in sets : \A j \in sets : i <= j],
             missing |-> {}, match |-> sets # {}]
       ELSE [keys |-> held, missing |-> q.claims \ held, match |-> held # {}]

\* Whether the loop over the credentials lists c as an answer to q.
Answers(c, q, m) ==
    LET sel == SelectClaims(c, q)
    IN /\ MatchesFormat(c, q) /\ MatchesMeta(c, q) /\ ~BindingMismatch(c, q, m)
       /\ sel.missing # {} => m = "debug" /\ sel.keys # {}
       /\ sel.match

\* checkTrustedAuthorities.
Untrusted(c, q) == q.authorities # {} /\ c.authorities \cap q.authorities = {}

\* The CredentialMatch for c, bad when it only is offered as non-matching.
MatchOf(c, q, m) ==
    LET sel == SelectClaims(c, q)
        ok == Answers(c, q, m)
        sets == SatisfiableClaimSets(c, q)
    IN [cred |-> c.id, query |-> q.id, keys |-> sel.keys, bad |-> ~ok,
        untrusted |-> ok /\ Untrusted(c, q),
        unbound |-> ok /\ ~c.bound /\ q.binding,
        missing |-> IF ok THEN sel.missing ELSE {},
        claimSets |-> IF ok /\ m = "debug" /\ Cardinality(sets) > 1 THEN sets ELSE {}]

Listed(q, m, wanted) ==
    LET cs == SelectSeq(Held, LAMBDA c : c \in wanted)
    IN [i \in DOMAIN cs |-> MatchOf(cs[i], q, m)]
\* The matching list of query q, before batches are collapsed.
Matching(q, m) ==
    Listed(q, m, {c \in ToSet(Held) : Answers(c, q, m) /\ (Untrusted(c, q) => m = "debug")})
NonMatching(q, m) ==
    IF m = "debug" THEN Listed(q, m, {c \in ToSet(Held) : ~Answers(c, q, m)}) ELSE <<>>

----------------------------------------------------------------------------
(* Order and reduction of the candidates.                                  *)

\* Faulty variant: any copy of the batch is kept, used or not.
\* chooseBatchCopy: one copy per batch, at random among the least used.
KeepsOneCopy(list, keep) ==
    \A i \in DOMAIN list : LET g == Cred(list[i].cred).group
                               copies == {Cred(list[j].cred) : j \in {k \in DOMAIN list :
                                             Cred(list[k].cred).group = g}}
                               kept == {c \in copies : c.id \in keep}
        IN g # "" => /\ Cardinality(kept) = 1
                     /\ \A c \in kept, d \in copies : c.uses <= d.uses
\* collapseBatchMatches.
CollapseBatch(list, keep) ==
    SelectSeq(list, LAMBDA m : Cred(m.cred).group = "" \/ m.cred \in keep)

\* sort.SliceStable on the matches of one query.
StableSort(list, Less(_, _)) ==
    FoldLeft(LAMBDA done, x :
                LET before == Cardinality({i \in DOMAIN done : ~Less(x, done[i])})
                IN SubSeq(done, 1, before) \o <<x>> \o SubSeq(done, before + 1, Len(done)),
             <<>>, list)
NewestFirst(list) ==
    StableSort(list, LAMBDA a, b : Cred(a.cred).issued > Cred(b.cred).issued)
PreferredFirst(list) ==
    StableSort(list, LAMBDA a, b : PreferredFormat # ""
                                   /\ Cred(a.cred).format = PreferredFormat
                                   /\ Cred(b.cred).format # PreferredFormat)
TrustedFirst(list) ==
    StableSort(list, LAMBDA a, b : IF a.untrusted # b.untrusted THEN b.untrusted
                                   ELSE ~a.unbound /\ b.unbound)
CompleteFirst(list) ==
    StableSort(list, LAMBDA a, b : a.missing = {} /\ b.missing # {})
\* Faulty variant: completeness no longer applied last.
PreferenceReordered(list) == NewestFirst(TrustedFirst(PreferredFirst(CompleteFirst(list))))
Preference(list) == CompleteFirst(TrustedFirst(PreferredFirst(NewestFirst(list))))

\* keepOnePresentationPerQuery.
KeepOne(q, list) == IF q.multiple \/ list = <<>> THEN list ELSE <<Head(list)>>

----------------------------------------------------------------------------
(* credential_sets.  cand and non give each query id its candidate lists.  *)

Satisfiable(opt, answered) == ToSet(opt) \subseteq answered
OptionHasFormat(opt, cand) ==
    \E q \in ToSet(opt) : q \in DOMAIN cand /\ cand[q] # <<>>
                          /\ Cred(Head(cand[q]).cred).format = PreferredFormat
OrderedOptions(opts, cand) ==
    IF PreferredFormat = "" THEN opts
    ELSE StableSort(opts, LAMBDA a, b : OptionHasFormat(a, cand) /\ ~OptionHasFormat(b, cand))
Nonempty(lists) == {q \in DOMAIN lists : lists[q] # <<>>}
SatisfiableOptions(s, cand, answered) ==
    SelectSeq(OrderedOptions(s.options, cand), LAMBDA o : Satisfiable(o, answered))

InOrder(lists, ids) ==
    FoldLeft(LAMBDA out, q : IF q.id \in ids THEN out \o lists[q.id] ELSE out, <<>>, Queries)
\* Faulty variant: a required set that cannot be answered is passed over.
ApplySetsLeniently(cand) ==
    LET opts(i) == SatisfiableOptions(CredSets[i], cand, Nonempty(cand))
        needed == UNION {ToSet(Head(opts(i))) : i \in {j \in DOMAIN CredSets : opts(j) # <<>>}}
    IN IF needed = {} THEN Nil ELSE [list |-> InOrder(cand, needed)]
\* applyCredentialSets: the first option of each set that can be satisfied.
ApplyCredentialSets(cand) ==
    LET opts(i) == SatisfiableOptions(CredSets[i], cand, Nonempty(cand))
        needed == UNION {ToSet(Head(opts(i))) : i \in {j \in DOMAIN CredSets : opts(j) # <<>>}}
    IN IF \/ \E i \in DOMAIN CredSets : CredSets[i].required /\ opts(i) = <<>>
          \/ needed = {}
       THEN Nil ELSE [list |-> InOrder(cand, needed)]

\* The automatic selection.
Automatic(cand) ==
    LET kept == [q \in DOMAIN cand |-> KeepOne(QueryNamed(q), cand[q])]
    IN IF CredSets # <<>> THEN ApplyCredentialSets(kept)
       ELSE IF Nonempty(kept) # QueryIDs THEN Nil
       ELSE [list |-> InOrder(kept, QueryIDs)]

\* The options of one credential set: matching ones first, then those that
\* only non-matching credentials answer.
SetOptions(s, cand, non) ==
    LET good == SatisfiableOptions(s, cand, Nonempty(cand))
        rest == SelectSeq(OrderedOptions(s.options, cand),
                          LAMBDA o : /\ ~Satisfiable(o, Nonempty(cand))
                                     /\ Satisfiable(o, Nonempty(cand) \cup Nonempty(non)))
    IN [optional |-> ~s.required, options |-> good \o rest, unmatched |-> Len(rest)]
\* buildConsentCredentialOptions.
BuildOptions(cand, non) ==
    LET offered == Nonempty(cand) \cup Nonempty(non)
        sets == [i \in DOMAIN CredSets |-> SetOptions(CredSets[i], cand, non)]
    IN IF offered = {} THEN Nil
       ELSE [queries |-> [q \in offered |-> [candidates |-> cand[q], nonMatching |-> non[q],
                                             multiple |-> QueryNamed(q).multiple]],
             sets |-> SelectSeq(sets, LAMBDA s : s.options # <<>>)]

----------------------------------------------------------------------------
(* consent_selection.go.  A set choice is an option's number, 0 to skip.   *)

DefaultChoice(s) == IF s.optional /\ s.unmatched = Len(s.options) THEN 0 ELSE 1
ChoiceOf(i, choices) ==
    IF i \in DOMAIN choices THEN choices[i] ELSE DefaultChoice(options.sets[i])
PickFor(picks, q) == IF q \in DOMAIN picks THEN picks[q] ELSE {}

\* Faulty variant: one candidate is preselected, multiple or not.
\* pickedCandidates.
PickedCandidates(q, picked) ==
    LET o == options.queries[q]
        chosen == SelectSeq(o.candidates \o o.nonMatching, LAMBDA m : m.cred \in picked)
    IN IF chosen # <<>> THEN chosen
       ELSE IF o.multiple \/ o.candidates = <<>> THEN o.candidates
       ELSE <<Head(o.candidates)>>

\* Faulty variant: no query is looked at before the presentation.
\* activeQueries.
ActiveQueries(choices) ==
    IF options.sets = <<>> THEN DOMAIN options.queries
    ELSE UNION {LET c == ChoiceOf(i, choices) IN
                IF c \in DOMAIN options.sets[i].options
                THEN ToSet(options.sets[i].options[c]) ELSE {} : i \in DOMAIN options.sets}

HasClaimSet(m, i) == i \in m.claimSets
\* Faulty variant: several credentials are taken for any query.
\* The picks of one query in ValidateConsentSelection.
PickAllowed(q, picked) ==
    /\ q \in DOMAIN options.queries /\ picked # {}
    /\ LET o == options.queries[q] IN
       /\ Cardinality(picked) > 1 => o.multiple
       /\ \A id \in picked : \E m \in ToSet(o.candidates \o o.nonMatching) : m.cred = id
\* The set choices in ValidateConsentSelection.
SetsAllowed(choices) ==
    /\ Len(choices) <= Len(options.sets)
    /\ \A i \in DOMAIN options.sets :
          \/ ChoiceOf(i, choices) = 0 /\ options.sets[i].optional
          \/ ChoiceOf(i, choices) \in DOMAIN options.sets[i].options
    /\ options.sets # <<>> => \E i \in DOMAIN options.sets : ChoiceOf(i, choices) # 0
\* ValidateConsentSelection, with validateClaimSetChoices.
ValidSelection(picks, choices, claimSets) ==
    /\ SetsAllowed(choices)
    /\ \A q \in DOMAIN picks : PickAllowed(q, picks[q])
    /\ \A q \in ActiveQueries(choices) \cap DOMAIN options.queries :
          PickedCandidates(q, PickFor(picks, q)) # <<>>
    /\ \A q \in DOMAIN claimSets :
          /\ q \in DOMAIN options.queries
          /\ \A m \in ToSet(PickedCandidates(q, PickFor(picks, q))) : HasClaimSet(m, claimSets[q])
\* Faulty variant: the claim sets are not looked at.
DebugOnlyPicks(picks, claimSets) ==
    \E q \in DOMAIN picks : \E m \in ToSet(options.queries[q].nonMatching) : m.cred \in picks[q]
\* debugOnlySelection.
DebugOnlySelection(picks, claimSets) ==
    \/ \E q \in DOMAIN picks : \E m \in ToSet(options.queries[q].nonMatching) : m.cred \in picks[q]
    \/ DOMAIN claimSets # {}

Automatically == IF matches = Nil THEN <<>> ELSE matches.list
\* The queries of the chosen options, the first option for a choice out of range.
NeededQueries(choices) ==
    IF options.sets = <<>> THEN DOMAIN options.queries
    ELSE UNION {LET s == options.sets[i]
                    c == ChoiceOf(i, choices)
                IN IF c = 0 /\ s.optional THEN {}
                   ELSE ToSet(s.options[IF c \in DOMAIN s.options THEN c ELSE 1])
                : i \in DOMAIN options.sets}
\* selectCredentials.
SelectCredentials(picks, choices) ==
    IF DOMAIN picks = {} /\ choices = <<>> THEN Automatically
    ELSE LET out == InOrder([q \in QueryIDs |->
                                IF q \in DOMAIN options.queries
                                THEN PickedCandidates(q, PickFor(picks, q)) ELSE <<>>],
                            NeededQueries(choices))
         IN IF out = <<>> THEN Automatically ELSE out
\* applyClaimSetChoices: the chosen claim set instead of the first one.
WithClaimSet(m, claimSets) ==
    IF m.query \in DOMAIN claimSets /\ HasClaimSet(m, claimSets[m.query])
    THEN [m EXCEPT !.keys = QueryNamed(m.query).claimSets[claimSets[m.query]]] ELSE m
\* applySelectedClaims: strict mode withholds, debug mode sends the selection.
WithClaims(m, claims) ==
    IF m.cred \notin DOMAIN claims THEN m
    ELSE [m EXCEPT !.keys = IF mode = "strict" THEN claims[m.cred] \cap @ ELSE claims[m.cred]]
\* consentedMatches.
ConsentedMatches(a) ==
    LET chosen == IF options = Nil THEN Automatically ELSE SelectCredentials(a.picks, a.choices)
    IN [i \in DOMAIN chosen |-> WithClaims(WithClaimSet(chosen[i], a.claimSets), a.claims)]

----------------------------------------------------------------------------
DcqlInit ==
    /\ scene \in Scenes
    /\ mode \in {"strict", "debug"}
    /\ stage = "arrived" /\ switches = 0
    /\ matches = Nil /\ options = Nil /\ answer = Nil /\ sent = <<>>

\* What strict mode refuses before it looks at a credential.
QueryRefused ==
    mode = "strict" /\ (~scene.wellFormed \/ \E i \in DOMAIN Queries : ~Queries[i].listsUsable)

\* handleAuthFlow refuses the query (refuseQuery).
RefuseQuery ==
    /\ stage = "arrived" /\ QueryRefused
    /\ stage' = "refused"
    /\ UNCHANGED <<scene, mode, matches, options, answer, sent, switches>>

BatchCopies == {Held[i].id : i \in {j \in DOMAIN Held : Held[j].group # ""}}

\* EvaluateDCQLWithOptions, and what handleAuthFlow does with the result.
Evaluate ==
    /\ stage = "arrived" /\ ~QueryRefused
    /\ \E keep, keepNon \in [QueryIDs -> SUBSET BatchCopies] :
          /\ \A q \in QueryIDs : /\ KeepsOneCopy(Matching(QueryNamed(q), mode), keep[q])
                                 /\ KeepsOneCopy(NonMatching(QueryNamed(q), mode), keepNon[q])
          /\ LET cand == [q \in QueryIDs |->
                             Preference(CollapseBatch(Matching(QueryNamed(q), mode), keep[q]))]
                 non == [q \in QueryIDs |->
                             NewestFirst(CollapseBatch(NonMatching(QueryNamed(q), mode), keepNon[q]))]
                 auto == Automatic(cand)
                 opts == IF auto = Nil /\ Nonempty(non) = {} THEN Nil ELSE BuildOptions(cand, non)
             IN /\ matches' = auto /\ options' = opts
                /\ \/ auto = Nil /\ (opts = Nil \/ scene.auto)
                      /\ stage' = "no_match" /\ sent' = sent
                   \/ auto # Nil /\ scene.auto
                      /\ stage' = "sent" /\ sent' = auto.list
                   \/ opts # Nil /\ ~scene.auto
                      /\ stage' = "consent" /\ sent' = sent
    /\ UNCHANGED <<scene, mode, answer, switches>>

\* PATCH /api/config/conformance.
SwitchMode ==
    /\ stage \in {"arrived", "consent", "approved"} /\ switches < MaxSwitches
    /\ mode' = IF mode = "strict" THEN "debug" ELSE "strict"
    /\ switches' = switches + 1
    /\ UNCHANGED <<scene, stage, matches, options, answer, sent>>

Partial(D, R) == UNION {[S -> R] : S \in SUBSET D}
HeldIDs == {Held[i].id : i \in DOMAIN Held}
SmallSets(S) == {T \in SUBSET S : Cardinality(T) <= 2}
\* What the dialog can post: picks, set choices, claim sets, claims of one credential.
Picks == Partial(QueryIDs, SmallSets(HeldIDs))
SetChoices == UNION {[1..n -> 0..2] : n \in 0..2}
ClaimSetChoices == Partial({q \in QueryIDs : QueryNamed(q).claimSets # <<>>}, 1..3)
ClaimChoices == {<<>>} \cup UNION {[{c} -> {{}, {"name", "age"}}] : c \in HeldIDs}

\* handleApproveRequest: an invalid choice leaves the dialog open.
Approve ==
    /\ stage = "consent"
    /\ \E choices \in SetChoices :
          /\ SetsAllowed(choices)
          /\ \E picks \in {p \in Picks : \A q \in DOMAIN p : PickAllowed(q, p[q])},
                claimSets \in ClaimSetChoices, claims \in ClaimChoices :
                /\ ValidSelection(picks, choices, claimSets)
                /\ ~(mode = "strict" /\ DebugOnlySelection(picks, claimSets))
                /\ answer' = [picks |-> picks, choices |-> choices, claimSets |-> claimSets,
                              claims |-> claims, mode |-> mode]
    /\ stage' = "approved"
    /\ UNCHANGED <<scene, mode, matches, options, sent, switches>>

\* awaitPresentationConsent reads the decision and builds the presentation.
Present ==
    /\ stage = "approved"
    /\ sent' = ConsentedMatches(answer)
    /\ stage' = "sent"
    /\ UNCHANGED <<scene, mode, matches, options, answer, switches>>

DcqlNext == RefuseQuery \/ Evaluate \/ SwitchMode \/ Approve \/ Present
DcqlSpec == DcqlInit /\ [][DcqlNext]_dcqlVars

----------------------------------------------------------------------------
\* Type invariant of the credential selection.
DcqlTypeOK ==
    /\ scene \in Scenes /\ mode \in {"strict", "debug"}
    /\ stage \in {"arrived", "refused", "no_match", "consent", "approved", "sent"}
    /\ switches \in 0..MaxSwitches
    /\ stage \in {"consent", "approved"} => options # Nil
    /\ stage = "sent" => sent # <<>>

Rank(m) ==
    <<IF m.missing = {} THEN 0 ELSE 1, IF m.untrusted THEN 1 ELSE 0, IF m.unbound THEN 1 ELSE 0,
      IF Cred(m.cred).format = PreferredFormat THEN 0 ELSE 1, -Cred(m.cred).issued>>
Better(a, b) ==
    \E i \in 1..5 : Rank(a)[i] < Rank(b)[i] /\ \A j \in 1..(i - 1) : Rank(a)[j] = Rank(b)[j]
\* Four stable sorts in a row order the candidates of a query by one rule: a
\* complete claim match before a partial one, then trusted, bound, of the
\* preferred format, newest.  The first one is the automatic selection
\* (dcql.go:223-236).
BestCandidateFirst ==
    options # Nil => \A q \in DOMAIN options.queries :
        LET list == options.queries[q].candidates
        IN \A i, j \in DOMAIN list : i < j => ~Better(list[j], list[i])

SentFor(q) == {m \in ToSet(sent) : m.query = q}
AnswersSet(s) == \E i \in DOMAIN s.options : \A q \in ToSet(s.options[i]) : SentFor(q) # {}
\* Whatever the user picks in the dialog, a presentation answers every
\* required set, or every query without credential_sets, provided the wallet
\* had an automatic selection at all (OpenID4VP 1.0 6.4.2, dcql.go:241-260).
RequiredIsAnswered ==
    stage = "sent" /\ matches # Nil =>
        IF CredSets = <<>> THEN \A q \in QueryIDs : SentFor(q) # {}
        ELSE \A i \in DOMAIN CredSets : CredSets[i].required => AnswersSet(CredSets[i])

\* One presentation per query that does not set multiple, and never the same
\* credential or two copies of one batch twice in a query, automatic or picked
\* (OpenID4VP 1.0 8.1, consent_selection.go:64-68).
OnePerQuery ==
    stage = "sent" => \A i, j \in DOMAIN sent : i < j /\ sent[i].query = sent[j].query =>
        LET a == Cred(sent[i].cred) b == Cred(sent[j].cred)
        IN QueryNamed(sent[i].query).multiple /\ a.id # b.id /\ (a.group = "" \/ a.group # b.group)

\* What is sent answers the query: every required set, with one presentation
\* where one is asked for.
QueryIsAnswered == DcqlTypeOK /\ RequiredIsAnswered /\ OnePerQuery

\* A copy of a batch is presented only while no other copy that would do has
\* been presented less often (issuance_batch.go:267-270).
LeastUsedCopy ==
    options # Nil => \A q \in DOMAIN options.queries :
        \A m \in ToSet(options.queries[q].candidates), i \in DOMAIN Held :
            LET c == Cred(m.cred) IN
            c.group # "" /\ Held[i].group = c.group
            /\ Answers(Held[i], QueryNamed(q), "strict") /\ ~Untrusted(Held[i], QueryNamed(q))
            => c.uses <= Held[i].uses

Confirms(a) ==
    /\ \A i \in DOMAIN a.choices : a.choices[i] = DefaultChoice(options.sets[i])
    /\ \A q \in DOMAIN a.picks : a.picks[q] = {m.cred : m \in {n \in ToSet(matches.list) : n.query = q}}
    /\ a.claimSets = <<>> /\ a.claims = <<>>
\* A dialog that posts exactly the preselected credentials and options sends
\* the automatic selection, so auto-accept and an unchanged consent agree
\* (ApplyConsentSelection, consent_selection.go:142-144).
ConfirmedIsAutomatic ==
    stage = "sent" /\ answer # Nil /\ matches # Nil /\ Confirms(answer) =>
        ToSet(sent) = ToSet(matches.list)

\* The best candidate and the least used copy are preselected, and confirming
\* the preselection sends it.
BestIsPreselected == BestCandidateFirst /\ LeastUsedCopy /\ ConfirmedIsAutomatic

\* An approval given in strict mode sends neither a credential that does not
\* match nor a claim set other than the first one that can be satisfied,
\* although the dialog was opened in debug mode (debugOnlySelection).
StrictSendsMatching ==
    stage = "sent" /\ answer # Nil /\ answer.mode = "strict" /\ mode = "strict" =>
        \A i \in DOMAIN sent :
            ~sent[i].bad /\ sent[i].keys \subseteq SelectClaims(Cred(sent[i].cred), QueryNamed(sent[i].query)).keys

\* Strict mode, chosen from the evaluation to the presentation, answers a query
\* that requires holder binding only with a bound credential (dcql.go:87-89).
\* It does not hold once the mode changes under an open dialog.
StrictIsBound ==
    stage = "sent" /\ mode = "strict" /\ switches = 0 =>
        \A i \in DOMAIN sent : QueryNamed(sent[i].query).binding => Cred(sent[i].cred).bound

\* A strict wallet sends only matching and, where asked for, bound
\* credentials.
StrictAnswersOnlyMatching == StrictSendsMatching /\ StrictIsBound
=============================================================================
