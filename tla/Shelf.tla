------------------------------- MODULE Shelf -------------------------------
(***************************************************************************)
(* What the wallet's credential list promises its user.  Every issuance    *)
(* shows at most one entry, however many copies the issuer sent.  While    *)
(* the issuance runs, its entry may come and go.  Once the issuance has    *)
(* ended the entry keeps its ID until it is removed, and a removed entry   *)
(* stays removed.                                                          *)
(***************************************************************************)
CONSTANTS Offers, Ids, NotListed

VARIABLES
    listed,     \* the ID under which each issuance is listed, or NotListed
    open        \* the issuances that have not ended
shelfVars == <<listed, open>>

ShelfInit ==
    /\ listed = [o \in Offers |-> NotListed]
    /\ open = Offers

\* An issuance that runs shows, renames or hides its own entry.  The step
\* may remove entries of others (a full wallet) and may be the issuance's
\* last.
Work(o) ==
    /\ o \in open
    /\ \E id \in Ids \cup {NotListed}, gone \in SUBSET (Offers \ {o}) :
           listed' = [p \in Offers |-> IF p = o THEN id
                                       ELSE IF p \in gone THEN NotListed
                                       ELSE listed[p]]
    /\ open' \in {open, open \ {o}}

\* The user removes entries, one or all.
Remove ==
    /\ \E gone \in SUBSET Offers :
           /\ gone # {}
           /\ listed' = [p \in Offers |-> IF p \in gone THEN NotListed ELSE listed[p]]
    /\ open' = open

\* A reload takes back what running issuances showed.
Refresh ==
    /\ listed' \in [Offers -> Ids \cup {NotListed}]
    /\ \A o \in Offers \ open : listed'[o] = listed[o]
    /\ open' = open

ShelfNext == (\E o \in Offers : Work(o)) \/ Remove \/ Refresh

ShelfSpec == ShelfInit /\ [][ShelfNext]_shelfVars
=============================================================================
