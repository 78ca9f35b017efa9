---------------------------- MODULE MCHoldings ----------------------------
(* Holdings for TLC.                                                       *)
EXTENDS Holdings

C(key, readable) == [key |-> key, readable |-> readable]

\* A single credential, full batches in either order, a batch without the
\* holder key, a key used twice, a foreign key, an unreadable copy.
AllResponses ==
    { <<C(0, TRUE)>>, <<C(NoKey, TRUE)>>,
      <<C(0, TRUE), C(1, TRUE)>>, <<C(1, TRUE), C(0, TRUE)>>,
      <<C(1, TRUE), C(2, TRUE)>>, <<C(1, TRUE), C(1, TRUE), C(0, TRUE)>>,
      <<C(NoKey, TRUE), C(1, TRUE)>>, <<C(NoKey, TRUE), C(NoKey, TRUE)>>,
      <<C(0, TRUE), C(1, FALSE), C(2, TRUE)>>, <<C(0, FALSE), C(1, TRUE)>> }

SomeResponses ==
    { <<C(0, TRUE)>>, <<C(1, TRUE), C(2, TRUE)>>, <<C(1, TRUE), C(1, TRUE), C(0, TRUE)>>,
      <<C(0, FALSE), C(1, TRUE)>> }

BatchOrSingle == { <<C(0, TRUE)>>, <<C(2, TRUE), C(1, TRUE)>> }
IssuerResponses ==
    [any |-> AllResponses, some |-> SomeResponses, batches |-> BatchOrSingle]

Setup(issuer, offers, shows, capacity, baseline, flags) ==
    [issuer |-> issuer, offers |-> offers, shows |-> shows, capacity |-> capacity,
     baseline |-> baseline, strict |-> "strict" \in flags, deletes |-> "deletes" \in flags,
     settled |-> "settled" \in flags, file |-> "file" \in flags, others |-> "others" \in flags]

\* Anything at any time; rotation; a full wallet; an undisturbed one.
AllSetups ==
    { Setup("some", Offers, {}, 0, 0, {"deletes", "others"}),
      Setup("any", {"a"}, Presentations, 0, 0, {"strict", "deletes", "settled", "others"}),
      Setup("batches", Offers, {}, 3, 1, {"deletes", "file"}),
      Setup("any", Offers, {}, 0, 0, {"deletes", "settled"}) }
=============================================================================
