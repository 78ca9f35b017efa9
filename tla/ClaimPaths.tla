----------------------------- MODULE ClaimPaths -----------------------------
(***************************************************************************)
(* Claims path pointers and selective disclosure: how the wallet decides   *)
(* that an SD-JWT answers a claims query, which disclosures it sends for   *)
(* the selected paths, and what a verifier reads from them                 *)
(* (internal/wallet/dcql.go, internal/wallet/presentation.go,              *)
(* internal/sdjwt).                                                        *)
(*                                                                         *)
(* A JSON value is a leaf, an object with members and _sd digests, an      *)
(* array, or the {"...": digest} reference of an array element.  A leaf    *)
(* occurs once in a credential and stands for its content.  A digest       *)
(* identifies one disclosure or, as a decoy, none.                         *)
(***************************************************************************)
EXTENDS Integers, Sequences, FiniteSets, SequencesExt, TLC

CONSTANTS
    Tokens,     \* credentials: [payload, disclosures]
    ClaimsQueries,    \* claims queries: sets of [path, values]
    Spelled     \* what parseSDJWTSelector makes of a member name

VARIABLES token, asked, selected, presented, received, step
pathVars == <<token, asked, selected, presented, received, step>>

Leaf(v) == [t |-> "leaf", v |-> v]
Obj(m, sd) == [t |-> "obj", m |-> m, sd |-> sd]
Arr(items) == [t |-> "arr", items |-> items]
Ref(d) == [t |-> "ref", d |-> d]
Nothing == [t |-> "nothing"]

\* A disclosure; name "" marks an array element, readable is FALSE for one
\* that cannot be decoded.
Disc(digest, name, value) == [digest |-> digest, name |-> name, value |-> value, readable |-> TRUE]

Key(n) == [k |-> "key", n |-> n]
Index(i) == [k |-> "index", i |-> i]
Every == [k |-> "every"]

----------------------------------------------------------------------------
(* Parsing (internal/sdjwt).                                               *)

\* parseDisclosure drops what it cannot read; the first copy of a disclosure counts.
Readable(discs) == SelectSeq(discs, LAMBDA d : d.readable)
Found(d, discs) == \E i \in DOMAIN discs : discs[i].digest = d
Lookup(d, discs) == discs[CHOOSE i \in DOMAIN discs :
                        discs[i].digest = d /\ \A j \in 1..(i - 1) : discs[j].digest # d]

\* What the processor has resolved, encountered, used, and deviated from.
Result(value, seen, used, bad) == [value |-> value, seen |-> seen, used |-> used, bad |-> bad]
Twice(a, b) == IF a \cap b # {} THEN {"repeated digest"} ELSE {}

\* The pieces of a list of results, with the digests they share.
Joined(results) ==
    FoldLeft(LAMBDA acc, r : [seen |-> acc.seen \cup r.seen, used |-> acc.used \cup r.used,
                              bad |-> acc.bad \cup r.bad \cup Twice(acc.seen, r.seen)],
             [seen |-> {}, used |-> {}, bad |-> {}], results)

RECURSIVE Resolve(_, _, _)

\* processor.object for the entries of one _sd array, after the plain members.
Disclose(acc, d, discs) ==
    LET marked == [acc EXCEPT !.bad = @ \cup Twice(acc.seen, {d}), !.seen = @ \cup {d},
                              !.local = @ \cup {d}]
        disc == Lookup(d, discs)
        r == Resolve(disc.value, discs, FALSE)
        deviates(why) == [marked EXCEPT !.bad = @ \cup {why}]
    IN IF d \in acc.local THEN [acc EXCEPT !.bad = @ \cup {"repeated in one _sd"}]
       ELSE IF ~Found(d, discs) THEN marked
       ELSE IF disc.name = "" THEN deviates("two elements in _sd")
       ELSE IF disc.name \in {"_sd", "..."} THEN deviates("reserved name")
       ELSE IF disc.name \in DOMAIN acc.m THEN deviates("redefined claim")
       ELSE [marked EXCEPT !.m = (disc.name :> r.value) @@ @,
                           !.used = @ \cup {d} \cup r.used,
                           !.seen = @ \cup r.seen,
                           !.bad = @ \cup r.bad \cup Twice(marked.seen, r.seen)]

\* processor.array for one element: its value, or none.
Element(item, discs) ==
    LET disc == Lookup(item.d, discs)
        r == Resolve(disc.value, discs, FALSE)
    IN IF item.t # "ref" THEN Resolve(item, discs, FALSE)
       ELSE IF ~Found(item.d, discs) THEN Result(Nothing, {item.d}, {}, {})
       ELSE IF disc.name # "" THEN Result(Nothing, {item.d}, {}, {"three elements in an array"})
       ELSE Result(r.value, {item.d} \cup r.seen, {item.d} \cup r.used,
                   r.bad \cup Twice({item.d}, r.seen))

\* processor.value, processor.object and processor.array.
Resolve(v, discs, top) ==
    CASE v.t = "obj" ->
            LET names == SetToSeq(DOMAIN v.m \ {"_sd_alg"})
                kids == [i \in DOMAIN names |-> Resolve(v.m[names[i]], discs, FALSE)]
                plain == Joined(kids)
                start == [m |-> [n \in ToSet(names) |-> kids[CHOOSE i \in DOMAIN names : names[i] = n].value],
                          seen |-> plain.seen, used |-> plain.used, local |-> {},
                          bad |-> plain.bad \cup
                                  IF ~top /\ "_sd_alg" \in DOMAIN v.m THEN {"nested _sd_alg"} ELSE {}]
                all == FoldLeft(LAMBDA acc, d : Disclose(acc, d, discs), start, v.sd)
            IN Result(Obj(all.m, <<>>), all.seen, all.used, all.bad)
      [] v.t = "arr" ->
            LET items == [i \in DOMAIN v.items |-> Element(v.items[i], discs)]
                join == Joined(items)
                kept == SelectSeq(items, LAMBDA r : r.value # Nothing)
            IN Result(Arr([i \in DOMAIN kept |-> kept[i].value]), join.seen, join.used, join.bad)
      [] OTHER -> Result(v, {}, {}, {})

\* ParseLenient: the resolved claims and every recoverable violation.
ParseLenient(tok) ==
    LET discs == Readable(tok.disclosures)
        r == Resolve(tok.payload, discs, TRUE)
        digests == [i \in DOMAIN discs |-> discs[i].digest]
    IN [claims |-> r.value,
        bad |-> r.bad
                \cup (IF Len(discs) # Len(tok.disclosures) THEN {"unreadable disclosure"} ELSE {})
                \cup (IF Cardinality(ToSet(digests)) # Len(digests) THEN {"repeated disclosure"} ELSE {})
                \cup (IF ToSet(digests) \subseteq r.used THEN {} ELSE {"unreferenced disclosure"})]

\* Parse: strict, as the demo verifier reads a presentation.
Parse(tok) ==
    LET lenient == ParseLenient(tok)
    IN IF lenient.bad = {} THEN lenient.claims ELSE Nothing

----------------------------------------------------------------------------
(* Claims path pointers (internal/wallet/dcql.go).                         *)

\* One segment of selectJSONClaims, on one selected value.
Step(v, seg) ==
    CASE seg.k = "key" -> IF v.t = "obj" /\ seg.n \in DOMAIN v.m THEN {v.m[seg.n]} ELSE {}
      [] seg.k = "index" -> IF v.t = "arr" /\ seg.i \in 0..(Len(v.items) - 1)
                            THEN {v.items[seg.i + 1]} ELSE {}
      [] OTHER -> IF v.t = "arr" THEN ToSet(v.items) ELSE {}

\* selectJSONClaims: the selected values.
SelectJSONClaims(root, path) ==
    FoldLeft(LAMBDA sel, seg : UNION {Step(v, seg) : v \in sel}, {root}, path)

\* claimPathExists, and claimValueAtPath, which succeeds for the same paths.
RECURSIVE ClaimPathExists(_, _)
ClaimPathExists(v, path) ==
    path = <<>> \/
    IF path[1] = Every
    THEN v.t = "arr" /\ (Len(path) = 1 \/ \E w \in Step(v, Every) : ClaimPathExists(w, Tail(path)))
    ELSE \E w \in Step(v, path[1]) : ClaimPathExists(w, Tail(path))

\* claimKeyFromPath: the first segment names a member.
ClaimKeyFromPath(claims, path) ==
    path # <<>> /\ path[1].k = "key" /\ ClaimPathExists(claims, path)

\* parseSDJWTSelector: a member name reads as the keys it spells.
ParseSelector(segment) ==
    IF segment.k = "key" /\ segment.n \in DOMAIN Spelled
    THEN [j \in DOMAIN Spelled[segment.n] |-> Key(Spelled[segment.n][j])]
    ELSE <<segment>>

\* claimPathString: the path that the selector spells.
Selector(path) == FlattenSeq([i \in DOMAIN path |-> ParseSelector(path[i])])

\* valuesConstraintSatisfied.
ValuesSatisfied(selection, values) ==
    values = {} \/ \E v \in selection : v.t = "leaf" /\ v.v \in values

\* claimSelectorFor answers a claims query.
AnswersQuery(claims, q) ==
    /\ ClaimKeyFromPath(claims, q.path)
    /\ ValuesSatisfied(SelectJSONClaims(claims, q.path), q.values)

----------------------------------------------------------------------------
(* Which disclosures are sent (internal/wallet/presentation.go).           *)

\* collectAllNestedDisclosureDigests.
RECURSIVE AllNested(_, _)
NestedOrNothing(d, discs) == IF Found(d, discs) THEN AllNested(Lookup(d, discs).value, discs) ELSE {}
NestedOnce(v, discs) ==  \* faulty: does not look into the disclosed values
    CASE v.t = "obj" -> ToSet(v.sd) \cup UNION {AllNested(v.m[n], discs) : n \in DOMAIN v.m}
      [] OTHER -> {}
AllNested(v, discs) ==
    CASE v.t = "obj" -> ToSet(v.sd) \cup UNION {NestedOrNothing(d, discs) : d \in ToSet(v.sd)}
                        \cup UNION {AllNested(v.m[n], discs) : n \in DOMAIN v.m}
      [] v.t = "arr" -> UNION {AllNested(v.items[i], discs) :
                               i \in {j \in DOMAIN v.items : v.items[j].t # "ref"}}
      [] OTHER -> {}

RECURSIVE PathDigests(_, _, _)
\* collectArrayItemDisclosureDigests.
ItemDigests(item, path, discs) ==
    IF item.t # "ref" THEN PathDigests(item, path, discs)
    ELSE {item.d} \cup IF Found(item.d, discs)
                       THEN PathDigests(Lookup(item.d, discs).value, path, discs) ELSE {}

\* The members that _sd discloses under a name.
NamedAny(v, name, discs) ==  \* faulty: the name is not compared
    {d \in ToSet(v.sd) : Found(d, discs) /\ Lookup(d, discs).name # ""}
Named(v, name, discs) ==
    {d \in ToSet(v.sd) : Found(d, discs) /\ Lookup(d, discs).name = name}

\* collectPathDisclosureDigests.
PathDigests(v, path, discs) ==
    IF path = <<>> THEN AllNested(v, discs)
    ELSE CASE path[1].k = "key" ->
                IF v.t # "obj" THEN {}
                ELSE IF path[1].n \in DOMAIN v.m THEN PathDigests(v.m[path[1].n], Tail(path), discs)
                ELSE UNION {{d} \cup PathDigests(Lookup(d, discs).value, Tail(path), discs) :
                            d \in Named(v, path[1].n, discs)}
           [] OTHER -> UNION {ItemDigests(item, Tail(path), discs) : item \in Step(v, path[1])}

\* createSDJWTPresentation: the disclosures sent for the selected paths.
DisclosuresFor(tok, paths) ==
    LET discs == Readable(tok.disclosures)
        digests == UNION {PathDigests(tok.payload, Selector(p), discs) : p \in paths}
    IN SelectSeq(discs, LAMBDA d : d.digest \in digests)

\* placeholderValueAtPath.
RECURSIVE PlaceholderAt(_, _, _)
PlaceholderAt(v, path, discs) ==
    IF path = <<>> THEN v
    ELSE IF path[1].k # "key" \/ v.t # "obj" THEN Nothing
    ELSE IF path[1].n \in DOMAIN v.m THEN PlaceholderAt(v.m[path[1].n], Tail(path), discs)
    ELSE LET hits == SelectSeq(v.sd, LAMBDA d : d \in Named(v, path[1].n, discs))
         IN IF hits = <<>> THEN Nothing
            ELSE PlaceholderAt(Lookup(hits[1], discs).value, Tail(path), discs)

\* disclosesEmptyArray: the dialog warns that a path shows an array without its elements.
DisclosesEmptyArray(tok, path) ==
    LET v == PlaceholderAt(tok.payload, path, Readable(tok.disclosures))
    IN /\ path[Len(path)].k = "key"
       /\ v.t = "arr" /\ v.items # <<>> /\ \A i \in DOMAIN v.items : v.items[i].t = "ref"

----------------------------------------------------------------------------
PathsInit ==
    /\ token \in Tokens /\ asked = {} /\ selected = {} /\ presented = <<>>
    /\ received = Nothing /\ step = "held"

HeldClaims(tok) == ParseLenient(tok).claims

\* selectAllRequestedClaims: the paths the credential answers.
SelectPaths ==
    /\ step = "held"
    /\ asked' \in ClaimsQueries
    /\ selected' = {q \in asked' : AnswersQuery(HeldClaims(token), q)}
    /\ step' = IF selected' = {} THEN "no_match" ELSE "selected"
    /\ UNCHANGED <<token, presented, received>>

Send ==
    /\ step = "selected"
    /\ presented' = DisclosuresFor(token, {q.path : q \in selected})
    /\ step' = "sent"
    /\ UNCHANGED <<token, asked, selected, received>>

\* The verifier parses strictly; a refused presentation reads as Nothing.
Receive ==
    /\ step = "sent"
    /\ received' = Parse([token EXCEPT !.disclosures = presented])
    /\ step' = "received"
    /\ UNCHANGED <<token, asked, selected, presented>>

PathsNext == SelectPaths \/ Send \/ Receive
PathsSpec == PathsInit /\ [][PathsNext]_pathVars

----------------------------------------------------------------------------
RECURSIVE Leaves(_)
Leaves(v) ==
    CASE v.t = "leaf" -> {v.v}
      [] v.t = "obj" -> UNION {Leaves(v.m[n]) : n \in DOMAIN v.m \ {"_sd_alg"}}
      [] v.t = "arr" -> UNION {Leaves(v.items[i]) : i \in DOMAIN v.items}
      [] OTHER -> {}

RECURSIVE SubValues(_)
SubValues(v) ==
    {v} \cup CASE v.t = "obj" -> UNION {SubValues(v.m[n]) : n \in DOMAIN v.m}
               [] v.t = "arr" -> UNION {SubValues(v.items[i]) : i \in DOMAIN v.items}
               [] OTHER -> {}

SelectedValues == UNION {SelectJSONClaims(HeldClaims(token), q.path) : q \in selected}

\* What the presentation shows: the signed payload and the disclosures sent.
Shown == Leaves(token.payload) \cup UNION {Leaves(presented[i].value) : i \in DOMAIN presented}

ResolvedDisclosure(d) == Resolve(d.value, Readable(token.disclosures), FALSE).value

\* A value kept back in an array element that no path selects.
KeptBack(v) ==
    UNION {Leaves(w) : w \in (SubValues(v) \ {v}) \cap
              {ResolvedDisclosure(d) : d \in {e \in ToSet(token.disclosures) : e.name = "" /\ e \notin ToSet(presented)}}}

(* Only what a path needs is sent: every disclosure in a presentation      *)
(* carries a selected value or a part of one, or has one inside, because   *)
(* OpenID4VP section 6.4 "forbids sending a claim the path did not select" *)
(* (collectAllNestedDisclosureDigests).                                    *)
OnlyNeededIsSent ==
    step = "received" /\ ParseLenient(token).bad = {} =>
        \A i \in DOMAIN presented : \E v \in SelectedValues :
            \/ ResolvedDisclosure(presented[i]) \in SubValues(v)
            \/ v \in SubValues(ResolvedDisclosure(presented[i]))

(* Every claim under a selected path is shown, except in                   *)
(* array elements below the path's end, which take a path of their own.    *)
AskedIsShown ==
    step = "received" => \A v \in SelectedValues : Leaves(v) \subseteq Shown \cup KeptBack(v)

(* The disclosures sent are complete: whatever paths are selected, a       *)
(* verifier that parses strictly accepts the presentation of a credential  *)
(* that it would accept with all disclosures, because the disclosures on   *)
(* the way to a selected claim come along (Parse).                         *)
PresentationIsReadable ==
    step = "received" /\ ParseLenient(token).bad = {} => received # Nothing

(* Matching and value selection agree on which paths exist: they differ    *)
(* only in a null at the end of a path to an empty array, which            *)
(* claimPathExists accepts and selectJSONClaims does not.                  *)
PathsAgree ==
    step \in {"selected", "no_match"} => \A q \in asked :
        q.path[1].k = "key" =>
            LET claims == HeldClaims(token) IN
            ClaimPathExists(claims, q.path) =
                (SelectJSONClaims(claims, q.path) # {}
                 \/ (q.path[Len(q.path)] = Every
                     /\ Arr(<<>>) \in SelectJSONClaims(claims, Front(q.path))))

(* A values constraint that the wallet found satisfied is satisfied for    *)
(* the verifier too, by what it received.  It is claimed for paths without *)
(* an index: hidden elements are left out, so later ones move up.          *)
ConstraintSurvives ==
    step = "received" /\ received # Nothing => \A q \in selected :
        (\A i \in DOMAIN q.path : q.path[i].k # "index") =>
            ValuesSatisfied(SelectJSONClaims(received, q.path), q.values)

(* The dialog's warning is right: where disclosesEmptyArray warns, and the *)
(* path is the only one asked for, the verifier gets an empty array in     *)
(* place of the credential's elements, and nowhere else on a path of       *)
(* member names.                                                           *)
WarningIsRight ==
    step = "received" /\ received # Nothing /\ Cardinality(asked) = 1 => \A q \in selected :
        (\A i \in DOMAIN q.path : q.path[i].k = "key") =>
            (DisclosesEmptyArray(token, q.path) <=>
                /\ Arr(<<>>) \in SelectJSONClaims(received, q.path)
                /\ Arr(<<>>) \notin SelectedValues)

(* What the paths ask for reaches the verifier: matching agrees with       *)
(* selection, the presentation parses, holds the claims and satisfies the  *)
(* values the wallet matched, and the dialog warns of what is left out.    *)
AskedIsReceived ==
    PresentationIsReadable /\ AskedIsShown /\ PathsAgree /\ ConstraintSurvives /\ WarningIsRight
=============================================================================
