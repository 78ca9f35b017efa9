--------------------------- MODULE MCPresentation ---------------------------
(* How the wallet answers a presentation request, for TLC: what it makes   *)
(* of the request and whom it answers (AuthRequests), which credentials it *)
(* offers and sends (Dcql) and which disclosures of one (ClaimPaths).      *)
(* They share no state; in each behaviour one part runs and the others     *)
(* rest.                                                                   *)
EXTENDS Dcql, ClaimPaths, AuthRequests

VARIABLE part
allVars == <<part, dcqlVars, pathVars, authVars>>

C(id, format, type, flags, claims, issued) ==
    [id |-> id, format |-> format, aka |-> IF "aka" \in flags THEN {"pid"} ELSE {},
     vct |-> IF format = "mso_mdoc" THEN "" ELSE type,
     doctype |-> IF format = "mso_mdoc" THEN type ELSE "",
     bound |-> "unbound" \notin flags, claims |-> claims, issued |-> issued,
     group |-> IF flags \cap {"fresh", "used"} # {} THEN "g" ELSE "",
     uses |-> IF "used" \in flags THEN 1 ELSE 0,
     authorities |-> IF "trusted" \in flags THEN {"ca"} ELSE {}]
Q(id, format, type, flags, claims, claimSets) ==
    [id |-> id, format |-> format, vcts |-> IF format = "mso_mdoc" \/ type = "" THEN {} ELSE {type},
     doctype |-> IF format = "mso_mdoc" THEN type ELSE "",
     binding |-> "unbound" \notin flags, multiple |-> "multiple" \in flags,
     claims |-> claims, claimSets |-> claimSets,
     authorities |-> IF "trusted" \in flags THEN {"ca"} ELSE {},
     listsUsable |-> "badList" \notin flags]
Set(required, opts) == [required |-> required, options |-> opts]
S(creds, queries, sets, preferred, flags) ==
    [held |-> creds, queries |-> queries, sets |-> sets, preferred |-> preferred,
     auto |-> "auto" \in flags, wellFormed |-> "malformed" \notin flags]

NA == {"name", "age"}
PidDE == C("de", "dc+sd-jwt", "pid:de", {"trusted"}, NA, 1)
PidAka == C("aka", "dc+sd-jwt", "other", {"aka"}, {"name"}, 3)
PidUnbound == C("un", "dc+sd-jwt", "pid", {"unbound", "trusted"}, NA, 4)
Mdoc == C("md", "mso_mdoc", "mpid", {}, NA, 0)
Loyal == C("lo", "dc+sd-jwt", "loyalty", {}, {"name"}, 2)
Copy1 == C("b1", "dc+sd-jwt", "ticket", {"used"}, {"name"}, 1)
Copy2 == C("b2", "dc+sd-jwt", "ticket", {"fresh"}, {"name"}, 1)
Copy3 == C("b3", "dc+sd-jwt", "ticket", {"fresh"}, {"name"}, 1)

SD == "dc+sd-jwt"
AllScenes ==
    {S(<<Loyal, PidAka, PidDE, PidUnbound>>, <<Q("p", SD, "pid", {}, NA, <<>>)>>, <<>>, "", {}),
     S(<<PidAka, PidDE, PidUnbound>>, <<Q("p", SD, "pid", {}, NA, <<>>)>>, <<>>, "", {"auto"}),
     S(<<PidAka, PidUnbound, PidDE>>, <<Q("p", SD, "pid", {"trusted"}, {"name"}, <<>>)>>, <<>>, "", {}),
     S(<<PidDE, Loyal>>, <<Q("p", SD, "pid", {}, {"age"}, <<>>), Q("m", "mso_mdoc", "mpid", {}, {}, <<>>)>>,
                <<Set(TRUE, <<<<"m">>>>), Set(FALSE, <<<<"p">>>>)>>, "", {"auto"}),
     S(<<PidDE, PidAka, Loyal>>, <<Q("p", SD, "pid", {"multiple"}, {"name"}, <<>>), Q("l", SD, "loyalty", {}, {}, <<>>)>>, <<>>, "", {}),
     S(<<PidDE, Mdoc>>, <<Q("p", SD, "pid", {}, NA, <<>>), Q("m", "mso_mdoc", "mpid", {}, NA, <<>>)>>,
                   <<Set(TRUE, <<<<"p">>, <<"m">>>>)>>, "mso_mdoc", {}),
     S(<<PidDE, Mdoc>>, <<Q("x", "", "", {}, {"name"}, <<>>)>>, <<>>, "mso_mdoc", {"malformed"}),
     S(<<Copy1, Copy2, Copy3, Loyal>>,
                 <<Q("t", SD, "ticket", {"multiple"}, {"name"}, <<>>), Q("l", SD, "loyalty", {"multiple"}, {}, <<>>)>>,
                 <<Set(TRUE, <<<<"t">>>>), Set(FALSE, <<<<"l">>>>)>>, "", {}),
     S(<<PidDE, Loyal>>,
                <<Q("p", SD, "pid", {}, {"age"}, <<>>), Q("m", "mso_mdoc", "mpid", {}, {}, <<>>)>>,
                <<Set(FALSE, <<<<"m">>>>), Set(TRUE, <<<<"m">>, <<"p">>>>)>>, "", {}),
     S(<<PidAka, PidDE>>, <<Q("p", SD, "pid", {}, NA, <<{"name"}, NA, {"age"}>>)>>, <<>>, "", {}),
     S(<<Loyal>>, <<Q("m", "mso_mdoc", "mpid", {}, {}, <<>>)>>, <<>>, "", {}),
     S(<<PidDE>>, <<Q("p", SD, "pid", {"badList"}, {"name"}, <<>>)>>, <<>>, "", {}),
     S(<<PidUnbound, C("mu", "mso_mdoc", "mpid", {"unbound"}, NA, 2)>>,
                 <<Q("x", SD, "pid", {"unbound", "multiple"}, {}, <<>>), Q("m", "mso_mdoc", "mpid", {"unbound"}, {}, <<>>)>>,
                 <<Set(FALSE, <<<<"m">>>>), Set(TRUE, <<<<"x">>>>)>>, "", {})}

Token(payload, discs) == [payload |-> payload, disclosures |-> discs]
Plain(n, v) == n :> v

\* Flat: a signed claim, two disclosable ones and a decoy.
Flat == Token(Obj(Plain("c", Leaf(1)) @@ Plain("_sd_alg", Leaf(0)), <<"d1", "decoy", "d2">>),
              <<Disc("d2", "b", Leaf(3)), Disc("d1", "a", Leaf(2))>>)
\* A disclosable object with disclosable members, below a visible one too.
Nested == Token(Obj(Plain("c", Obj(Plain("b", Leaf(1)), <<"d3">>)), <<"d1">>),
                <<Disc("d1", "a", Obj(Plain("c", Leaf(2)), <<"d2">>)),
                  Disc("d2", "b", Leaf(3)), Disc("d3", "a", Leaf(4))>>)
\* A disclosable array of disclosable elements, and a visible mixed array.
Arrays == Token(Obj(Plain("b", Arr(<<Leaf(1), Ref("d4"), Leaf(5)>>)), <<"d1">>),
                <<Disc("d1", "a", Arr(<<Ref("d2"), Ref("d3")>>)),
                  Disc("d2", "", Leaf(2)), Disc("d3", "", Leaf(3)), Disc("d4", "", Leaf(4))>>)
\* Elements that are objects with disclosable members, inside an object.
Objects == Token(Obj(Plain("a", Arr(<<Ref("d1"), Obj(Plain("c", Leaf(1)), <<"d2">>)>>)), <<"d6">>),
                 <<Disc("d1", "", Obj(Plain("c", Leaf(2)), <<"d3">>)),
                   Disc("d2", "b", Leaf(3)), Disc("d3", "b", Leaf(4)),
                   Disc("d6", "b", Obj(Plain("a", Arr(<<Ref("d5")>>)), <<>>)),
                   Disc("d5", "", Leaf(6))>>)
\* Arrays in arrays, an empty one, and elements of different kinds.
Deep == Token(Obj(Plain("a", Arr(<<Arr(<<Ref("d1"), Leaf(1)>>), Ref("d2")>>))
                  @@ Plain("b", Arr(<<>>))
                  @@ Plain("c", Arr(<<Leaf(5), Obj(Plain("a", Leaf(6)), <<>>)>>)), <<>>),
              <<Disc("d1", "", Leaf(2)), Disc("d2", "", Arr(<<Leaf(3), Ref("d3")>>)),
                Disc("d3", "", Leaf(4))>>)
\* Tokens that only lenient parsing reads: claims mirrored in a second object,
\* a redefined claim, wrong shapes and repetitions.
Mirrored == Token(Obj(Plain("c", Obj(Plain("_sd_alg", Leaf(0)), <<"d1", "d1">>)), <<"d1", "d2">>),
                  <<Disc("d1", "a", Leaf(1)), Disc("d2", "b", Leaf(2)), Disc("d2", "b", Leaf(2))>>)
Redefined == Token(Obj(Plain("a", Leaf(1)), <<"d1", "d2", "d3", "d5">>),
                   <<Disc("d1", "a", Leaf(2)), Disc("d2", "", Leaf(3)),
                     Disc("d3", "b", Arr(<<Ref("d4"), Leaf(7)>>)), Disc("d4", "c", Leaf(4)),
                     Disc("d5", "_sd", Leaf(6)), Disc("d9", "c", Leaf(5)),
                     [Disc("d8", "c", Leaf(8)) EXCEPT !.readable = FALSE]>>)

Credentials == {Flat, Nested, Arrays, Objects, Deep, Mirrored, Redefined}

Segments == {Key("a"), Key("b"), Key("c"), Index(0), Index(1), Every}
PathsTo(n) == UNION {[1..k -> Segments] : k \in 1..n}
Ask(p) == [path |-> p, values |-> {}]

\* Every path up to three segments, with and without a value; every two paths
\* up to two segments.
AllQueries ==
    {{Ask(p)} : p \in PathsTo(3)}
    \cup {{[path |-> p, values |-> {2, 4}]} : p \in PathsTo(3)}
    \cup {{Ask(p), Ask(q)} : p, q \in {r \in PathsTo(2) : r[1].k = "key"}}

\* No member name is changed by its selector.
NoDots == [n \in {} |-> <<>>]
----------------------------------------------------------------------------
(* Authorization requests.                                                 *)

Cert(n, ca, kty) == [name |-> n, issuer |-> ca, kty |-> kty, org |-> "org " \o n]
Jwk(id, kty, use) == [id |-> id, kty |-> kty, use |-> use, alg |-> TRUE, material |-> TRUE]
NameOf(format) ==
    [format |-> format, types |-> {"pid"}, claims |-> {<<"name">>}, ok |-> TRUE, lists |-> TRUE]
Registration ==
    [typ |-> "rc-wrp+jwt", x5c |-> <<Cert("registrar", "registrarCA", "EC")>>, signer |-> "registrar",
     sub |-> "org rp", act |-> "", complete |-> TRUE, valid |-> TRUE, status |-> "valid",
     credentials |-> <<[format |-> SD, type |-> "pid", claims |-> {<<"name">>}],
                       [format |-> "mso_mdoc", type |-> "pid", claims |-> {<<"name">>}]>>,
     purpose |-> "age check"]

\* A request that every rule accepts.
Params ==
    [prefix |-> "x509_hash", names |-> "rp", type |-> <<"vp_token">>, mode |-> "direct_post.jwt",
     nonce |-> TRUE, response |-> "rp", redirect |-> "", scope |-> FALSE, tx |-> FALSE,
     origins |-> {}, query |-> <<NameOf(SD), NameOf("mso_mdoc")>>,
     metadata |-> [given |-> TRUE, ok |-> TRUE, keys |-> <<Jwk("k1", "EC", "enc")>>,
                   encs |-> {"A128GCM", "A256GCM"}],
     info |-> <<Registration>>]
Signed(p) ==
    [alg |-> "ES256", typ |-> "oauth-authz-req+jwt", x5c |-> <<Cert("rp", "accessCA", "EC")>>,
     signer |-> "rp", sub |-> "", kid |-> "", prefix |-> "", names |-> "", payload |-> p]
Arriving(deliver, outer, object) ==
    [via |-> "authorize", deliver |-> deliver, outer |-> outer, object |-> object,
     objects |-> <<object>>, fetch |-> [status |-> "ok", media |-> TRUE, body |-> "jwt", echo |-> ""],
     method |-> "", json |-> TRUE, origin |-> "", auto |-> FALSE]
ByURI(p) == Arriving("request_uri", Params, Signed(p))
Base == ByURI(Params)
API(p) == [Arriving("plain", p, Signed(p)) EXCEPT !.via = "api"]
Browser(deliver, p) ==
    [Arriving(deliver, p, Signed(p)) EXCEPT !.via = "dc_api", !.origin = "https://rp"]
DC == [Params EXCEPT !.mode = "dc_api.jwt", !.response = "", !.origins = {<<"https://rp">>}]
RedirectClient == [Params EXCEPT !.prefix = "redirect_uri", !.response = ""]
Metadata(keys) == [Params EXCEPT !.metadata.keys = keys]
Info(info) == ByURI([Params EXCEPT !.info = info])
R(e) == Info(<<e>>)

\* The base request with one thing about it different.
Transport ==
    {Base, [Base EXCEPT !.json = FALSE], [Base EXCEPT !.method = "put"], [Base EXCEPT !.auto = TRUE],
     [Base EXCEPT !.fetch.status = "error"], [Base EXCEPT !.fetch.media = FALSE],
     [Base EXCEPT !.fetch.body = "other"], [Base EXCEPT !.fetch.body = "jwe"],
     [Base EXCEPT !.outer.tx = TRUE], [Base EXCEPT !.outer.names = "other"],
     [Base EXCEPT !.outer.response = "outer", !.object.payload.response = ""],
     Arriving("request", Params, Signed(Params)), Arriving("plain", Params, Signed(Params)),
     [Arriving("plain", Params, Signed(Params)) EXCEPT !.method = "post"],
     Arriving("plain", RedirectClient, Signed(Params)), Arriving("jwt", Params, Signed(Params)),
     API(Params), API(RedirectClient), [API(RedirectClient) EXCEPT !.outer.tx = TRUE],
     [API(RedirectClient) EXCEPT !.deliver = "json", !.outer.tx = TRUE],
     [API(Params) EXCEPT !.deliver = "jwt"], [API(Params) EXCEPT !.deliver = "request_uri", !.method = "post"],
     [API(Params) EXCEPT !.deliver = "request_uri", !.fetch.status = "error"]}
    \cup {[Base EXCEPT !.method = "post", !.fetch.body = b, !.fetch.echo = e] :
            b \in {"jwt", "jwe", "other"}, e \in {"same", "other"}}
ObjectForms ==
    {[Base EXCEPT !.object = o] :
       o \in LET s == Signed(Params) IN
             {[s EXCEPT !.alg = "none"], [s EXCEPT !.alg = "RS256"], [s EXCEPT !.typ = ""], [s EXCEPT !.x5c = <<>>],
              [s EXCEPT !.signer = "other"], [s EXCEPT !.x5c = <<Cert("rp", "rp", "RSA")>>],
              [s EXCEPT !.x5c = <<Cert("rp", "middle", "EC"), Cert("middle", "accessCA", "EC")>>],
              [s EXCEPT !.x5c = <<Cert("rp", "middle", "EC"), Cert("other", "accessCA", "EC")>>],
              [s EXCEPT !.x5c = <<Cert("other", "accessCA", "EC")>>],
              [s EXCEPT !.payload.response = "", !.payload.mode = "direct_post"]}}
    \cup {[Base EXCEPT !.outer.prefix = "", !.object = [o EXCEPT !.payload.prefix = prefix]] :
            prefix \in {"", "x509_san_dns", "redirect_uri", "verifier_attestation", "decentralized_identifier",
                        "origin", "unknown"},
            o \in {Signed(Params), [Signed(Params) EXCEPT !.alg = "none"], [Signed(Params) EXCEPT !.x5c = <<>>],
                   [Signed(Params) EXCEPT !.sub = "other", !.kid = "other"],
                   Signed([Params EXCEPT !.response = "other"])}}
Parameters ==
    {ByURI(p) :
       p \in {[Params EXCEPT !.nonce = FALSE], [Params EXCEPT !.redirect = "rp"], [Params EXCEPT !.scope = TRUE],
              [Params EXCEPT !.query = <<>>, !.scope = TRUE], [Params EXCEPT !.query = <<>>],
              [Params EXCEPT !.tx = TRUE], [Params EXCEPT !.mode = "ia_post"],
              [Params EXCEPT !.mode = "direct_post"], [Params EXCEPT !.mode = ""],
              [Params EXCEPT !.mode = "fragment", !.redirect = "rp", !.response = ""],
              [Params EXCEPT !.mode = "dc_api"], [Params EXCEPT !.response = "custom"],
              [Params EXCEPT !.response = "other"], [Params EXCEPT !.metadata.ok = FALSE],
              [Params EXCEPT !.metadata.encs = {}], [Params EXCEPT !.metadata.encs = {"A256GCM"}],
              [Params EXCEPT !.type = <<"vp_token", "vp_token">>], [Params EXCEPT !.type = <<"code">>],
              [Params EXCEPT !.type = <<"id_token">>, !.query = <<>>],
              [Params EXCEPT !.type = <<"vp_token", "id_token">>],
              Metadata(<<>>), Metadata(<<Jwk("k1", "RSA", ""), Jwk("k2", "EC", "enc")>>),
              Metadata(<<Jwk("k1", "RSA", "")>>), Metadata(<<Jwk("k1", "EC", "sig")>>),
              Metadata(<<[Jwk("k1", "EC", "enc") EXCEPT !.alg = FALSE], Jwk("k2", "EC", "sig")>>),
              [Params EXCEPT !.query = <<[NameOf(SD) EXCEPT !.ok = FALSE]>>],
              [Params EXCEPT !.query = <<[NameOf(SD) EXCEPT !.lists = FALSE]>>],
              [Params EXCEPT !.query = <<[NameOf(SD) EXCEPT !.types = {}]>>],
              [Params EXCEPT !.query = <<[NameOf("other") EXCEPT !.claims = {}]>>]}}
Registrations ==
    {Info(<<>>), Info(<<Registration, Registration>>),
     Info(<<Registration, [Registration EXCEPT !.typ = "other"]>>),
     R([Registration EXCEPT !.signer = "other"]), R([Registration EXCEPT !.x5c = <<>>]),
     R([Registration EXCEPT !.sub = "org other"]), R([Registration EXCEPT !.act = "org other"]),
     R([Registration EXCEPT !.sub = "org other", !.act = "org rp"]),
     R([Registration EXCEPT !.complete = FALSE]), R([Registration EXCEPT !.valid = FALSE]),
     R([Registration EXCEPT !.x5c = <<Cert("registrar", "other", "EC")>>]),
     R([Registration EXCEPT !.credentials = <<>>]),
     R([Registration EXCEPT !.credentials[1].claims = {<<"name", "given">>}]),
     R([Registration EXCEPT !.credentials[1].type = "other"])}
    \cup {R([Registration EXCEPT !.status = st]) : st \in {"none", "revoked", "unreadable"}}
BrowserCalls ==
    {Browser("jwt", DC), Browser("unsigned", DC), Browser("json", DC), Browser("jwt", [DC EXCEPT !.origins = {}]),
     [Browser("jwt", DC) EXCEPT !.json = FALSE], Browser("jwt", [DC EXCEPT !.mode = "dc_api"]), Browser("jwt", Params),
     Browser("unsigned", [DC EXCEPT !.mode = "dc_api"]),
     Browser("jwt", [DC EXCEPT !.query = <<NameOf("other")>>]),
     [Browser("multi", [DC EXCEPT !.prefix = "", !.names = ""]) EXCEPT
        !.objects = LET s == Signed([DC EXCEPT !.prefix = "", !.names = ""])
                    IN <<[s EXCEPT !.prefix = "x509_hash", !.names = "other", !.signer = "other"],
                         [s EXCEPT !.prefix = "x509_hash", !.names = "rp"]>>]}

Setting(checks, flags) ==
    [mode |-> checks, haip |-> "haip" \in flags, arf |-> "arf" \in flags, auto |-> "auto" \in flags,
     iso |-> "iso" \in flags, encrypted |-> "encrypted" \in flags, key |-> "key" \in flags,
     accessCAs |-> {"accessCA"}, registrarCAs |-> {"registrarCA"}]
Strict(flags) == Setting("strict", flags)
Debug(flags) == Setting("debug", flags)
AllCases ==
    LET all == Transport \cup ObjectForms \cup Parameters \cup Registrations \cup BrowserCalls
        settled == {Strict({}), Strict({"haip", "key"}), Strict({"arf", "auto"}), Strict({"haip", "arf", "iso"}),
                    Strict({"encrypted", "key", "auto"}),
                    Debug({"haip", "arf"}), Debug({"iso", "key"}), Debug({"auto"})}
    IN {[arrivals |-> <<a>>, settings |-> s] : a \in all, s \in settled}
       \cup {[arrivals |-> <<a, b>>, settings |-> s] :
               a \in {Base, API(RedirectClient)}, b \in {Base, Browser("jwt", DC)}, s \in {Strict({}), Debug({"iso"})}}

\* Strict mode and transaction_data in each place it can be.
TransactionData ==
    {[arrivals |-> <<a>>, settings |-> Strict({"auto"})] :
        a \in {[Base EXCEPT !.outer.tx = TRUE], ByURI([Params EXCEPT !.tx = TRUE]), API([RedirectClient EXCEPT !.tx = TRUE]),
               [API([RedirectClient EXCEPT !.tx = TRUE]) EXCEPT !.deliver = "json"]}}
----------------------------------------------------------------------------
InitOf(parts) ==
    /\ part \in parts
    /\ scene \in IF part = "credentials" THEN Scenes ELSE {CHOOSE s \in Scenes : TRUE}
    /\ mode \in IF part = "credentials" THEN {"strict", "debug"} ELSE {"strict"}
    /\ token \in IF part = "claims" THEN Tokens ELSE {CHOOSE t \in Tokens : TRUE}
    /\ \E c \in IF part = "requests" THEN Cases ELSE {CHOOSE c \in Cases : TRUE} :
           arrival = c.arrivals /\ settings = c.settings
    /\ DcqlInit /\ PathsInit /\ AuthInit

MCNext ==
    /\ UNCHANGED part
    /\ \/ part = "credentials" /\ DcqlNext /\ UNCHANGED <<pathVars, authVars>>
       \/ part = "claims" /\ PathsNext /\ UNCHANGED <<dcqlVars, authVars>>
       \/ part = "requests" /\ AuthNext /\ UNCHANGED <<dcqlVars, pathVars>>
MCSpec == InitOf({"credentials", "claims", "requests"}) /\ [][MCNext]_allVars
RequestsOnly == InitOf({"requests"}) /\ [][MCNext]_allVars
=============================================================================
