----------------------------- MODULE MCDemoVerifier -----------------------------
(* Instances of DemoVerifier for TLC: every form with every response, one  *)
(* at a time, and two requests whose responses race.                       *)
EXTENDS DemoVerifier, TLC

CONSTANTS r1, r2, c1, c2

Presentation(format, type, signature, status, for, claims) ==
    [format |-> format, type |-> type, for |-> for, claims |-> claims,
     checks |-> [signature |-> signature, status |-> status]]
Good(format, type, r) == Presentation(format, type, "pass", "skipped", r, TRUE)

(* Every form of the page, and a custom request with two credentials.      *)
Forms ==
    [type : {"pid", "ticket"}, format : {"both", "sd-jwt", "mdoc"}, vct : {"pid", "pid_de", "ticket"},
     ticket : {"", "combined", "optional"}, multiple : BOOLEAN]
PageForms == {f \in Forms : f.type = "ticket" <=> f.vct = "ticket"}
Custom(credentials) == [type |-> "custom", credentials |-> credentials, vct |-> "", ticket |-> ""]
AllForms ==
    PageForms \cup {Custom(<<>>),
        Custom(<<Query("cred_0", "sd-jwt", "pid", FALSE), Query("cred_1", "mdoc", "pid", TRUE)>>)}

(* Per format, good presentations and one that fails each check.           *)
SomePresentations(r) ==
    {Good("sd-jwt", "pid", r), Good("sd-jwt", "pid_de", r), Good("sd-jwt", "ticket", r),
     Good("mdoc", "pid", r), Good("sd-jwt", "pid", r2),
     Presentation("sd-jwt", "pid", "skipped", "pass", r, TRUE),
     Presentation("mdoc", "pid", "pass", "fail", r, TRUE),
     Presentation("sd-jwt", "pid", "pass", "pass", r, FALSE)}
Entries == {<<>>, <<Good("sd-jwt", "pid", r1), Good("sd-jwt", "pid_de", r1)>>,
            <<Good("mdoc", "pid", r1), Presentation("mdoc", "pid", "fail", "pass", r1, TRUE)>>}
           \cup {<<p>> : p \in SomePresentations(r1)}
Tokens ==
    {<<>>} \cup [{"pid"} -> Entries] \cup [{"pid_mdoc"} -> Entries] \cup [{"ticket"} -> Entries]
    \cup [{"pid", "ticket"} -> Entries] \cup [{"pid", "pid_mdoc"} -> Entries]
    \cup [{"cred_0", "cred_1"} -> Entries]
AllResponses == [state : {r1}, token : Tokens] \cup [state : {r2}, token : [{"pid"} -> Entries]]

(* Two requests and a response for the first: one that verifies, and one   *)
(* with a presentation that was signed for the second.                     *)
PidForm == [type |-> "pid", format |-> "both", vct |-> "pid", ticket |-> "", multiple |-> FALSE]
ForTheFirst ==
    {[state |-> r1, token |-> [pid |-> <<Good("sd-jwt", "pid", r1)>>]],
     [state |-> r1, token |-> [pid |-> <<Good("sd-jwt", "pid", r2)>>,
                               pid_mdoc |-> <<Good("mdoc", "pid", r1)>>]]}

AllSetups ==
    [forms |-> [requests |-> {r1}, calls |-> {c1}, forms |-> AllForms,
                responses |-> AllResponses, time |-> 0],
     races |-> [requests |-> {r1, r2}, calls |-> {c1, c2}, forms |-> {PidForm},
                responses |-> ForTheFirst, time |-> 2]]
================================================================================
