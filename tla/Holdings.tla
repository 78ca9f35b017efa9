------------------------------ MODULE Holdings ------------------------------
(***************************************************************************)
(* The wallet's list of credentials: the copies of a batch and the keys    *)
(* they are bound to, room in a wallet with a capacity, deletion, the      *)
(* choice of the copy to present, and the save that ends an issuance       *)
(* (internal/wallet/issuance_batch.go, wallet.go, wallet_import.go,        *)
(* server.go).                                                             *)
(*                                                                         *)
(* A credential is identified by its issuance and its place in it, place 0 *)
(* being the primary.  Key 0 is the wallet's holder key, NoKey a key that  *)
(* is none of the request's proof keys.  Memory and store hold the list in *)
(* the order of import, which is the order of eviction.                    *)
(***************************************************************************)
EXTENDS Integers, Sequences, FiniteSets

CONSTANTS
    Offers,         \* issuances
    Responses,      \* per kind of issuer, its credential responses:
                    \* sequences of [key, readable]
    Presentations,  \* presentations that may run at once
    MaxUses,        \* bound on the uses of one copy
    Setups          \* the wallets to consider

\* strict: validation mode; capacity: credentials a shared wallet keeps, 0 for
\* no bound; baseline: protected credentials the wallet starts with; deletes:
\* the user deletes credentials; settled: they wait for running issuances to
\* end; file: a log entry saves the wallet file; others: another process
\* changes the store.
ASSUME HoldingsAssumption ==
    /\ MaxUses \in Nat
    /\ Setups \subseteq
         [issuer : DOMAIN Responses, offers : SUBSET Offers, shows : SUBSET Presentations,
          capacity : Nat, baseline : Nat, strict : BOOLEAN, deletes : BOOLEAN,
          settled : BOOLEAN, file : BOOLEAN, others : BOOLEAN]

NoKey == -1
HolderKey == 0
NoOffer == "baseline"
NoId == <<>>

VARIABLES
    setup,      \* the wallet of this behaviour
    mem,        \* w.Credentials
    disk,       \* the credentials in the store
    issue,      \* the issuances
    show,       \* the copy each presentation has chosen
    foreign     \* the store changed since the wallet last read it

vars == <<setup, mem, disk, issue, show, foreign>>

Strict == setup.strict
Capacity == setup.capacity
Baseline == setup.baseline

Credential(o, n, key, batch) ==
    [id |-> <<o, n>>, key |-> key, batch |-> batch, uses |-> 0, prot |-> FALSE]

Idle == [pc |-> "new", primary |-> <<>>, rest |-> <<>>, got |-> 0]

Init ==
    /\ setup \in Setups
    /\ mem = [n \in 1..Baseline |-> [Credential(NoOffer, n, HolderKey, FALSE)
                                       EXCEPT !.prot = TRUE]]
    /\ disk = mem
    /\ issue = [o \in Offers |-> Idle]
    /\ show = [p \in Presentations |-> NoId]
    /\ foreign = FALSE

Has(list, id) == \E i \in DOMAIN list : list[i].id = id
At(list, id) == CHOOSE i \in DOMAIN list : list[i].id = id
Offer(c) == c.id[1]
\* The user may act.
UserActs == setup.settled => \A o \in Offers : issue[o].pc \in {"new", "done"}
\* The credentials deleted, presented and listed as one with c.
SameBatch(c, d) == c.id = d.id \/ (c.batch /\ d.batch /\ Offer(c) = Offer(d))

-----------------------------------------------------------------------------

\* proofKeyIndex: a copy counts when its key is a proof key that no earlier
\* copy of the response is bound to.
Bound(resp) ==
    {i \in DOMAIN resp : /\ resp[i].key # NoKey
                         /\ \A j \in 1..(i - 1) : resp[j].key # resp[i].key}

\* sortBatch: the primary is the copy bound to the holder key, or the first.
PrimaryIndex(resp) ==
    IF Len(resp) = 1 THEN 1
    ELSE IF \E i \in Bound(resp) : resp[i].key = HolderKey
         THEN CHOOSE i \in Bound(resp) : resp[i].key = HolderKey
         ELSE CHOOSE i \in Bound(resp) : \A j \in Bound(resp) : i <= j

\* The other copies that can be read, in the order of the response.
CopyKeys(resp) ==
    IF Len(resp) = 1 THEN <<>>
    ELSE LET kept == {i \in Bound(resp) : i # PrimaryIndex(resp) /\ resp[i].readable}
         IN [n \in 1..Cardinality(kept) |->
                resp[CHOOSE i \in kept : Cardinality({j \in kept : j <= i}) = n].key]

\* What strict mode refuses and debug mode leaves out with a warning.
Deviates(resp) ==
    Len(resp) > 1 /\ (Bound(resp) # DOMAIN resp
                      \/ \E i \in Bound(resp) : i # PrimaryIndex(resp) /\ ~resp[i].readable)

\* sortBatch and the parse of the primary succeed.
Usable(resp) ==
    /\ Len(resp) = 1 \/ Bound(resp) # {}
    /\ ~(Strict /\ Deviates(resp))
    /\ resp[PrimaryIndex(resp)].readable

\* The credentials that go to make room: the oldest that are not protected.
Oldest(list, n) ==
    {list[i] : i \in {j \in DOMAIN list : /\ ~list[j].prot
                        /\ Cardinality({k \in 1..j : ~list[k].prot}) <= n}}

\* Faulty variant: one credential more fits than the capacity says.
RoomForMore(list) ==
    LET old == Oldest(list, Len(list) - Capacity)
    IN IF Capacity = 0 THEN list ELSE SelectSeq(list, LAMBDA c : c \notin old)

\* makeCredentialRoomLocked: as many of the oldest go that one more fits.
RoomIn(list) ==
    LET old == Oldest(list, Len(list) - Capacity + 1)
    IN IF Capacity = 0 THEN list ELSE SelectSeq(list, LAMBDA c : c \notin old)

\* appendCredential.
AppendCredential(c) == mem' = Append(RoomIn(mem), c)

-----------------------------------------------------------------------------
\* storeIssuedCredential, keepIssuedCredential: the primary is imported with
\* the key it is bound to.
ImportPrimary(o) ==
    /\ o \in setup.offers /\ issue[o].pc = "new"
    /\ \E resp \in Responses[setup.issuer] :
           \/ /\ Usable(resp)
              /\ LET c == Credential(o, 0, resp[PrimaryIndex(resp)].key, FALSE)
                 IN /\ AppendCredential(c)
                    /\ issue' = [issue EXCEPT ![o] =
                         [pc |-> "group", primary |-> <<c>>, rest |-> CopyKeys(resp), got |-> 0]]
           \/ /\ ~Usable(resp)
              /\ issue' = [issue EXCEPT ![o].pc = "done"]
              /\ UNCHANGED mem
    /\ UNCHANGED <<disk, show, foreign>>

\* storeBatchCopies: the primary joins a group, if it is still there.
SetBatchFields(o) ==
    /\ issue[o].pc = "group"
    /\ IF issue[o].rest = <<>>
       THEN issue' = [issue EXCEPT ![o].pc = "log"] /\ UNCHANGED mem
       ELSE /\ issue' = [issue EXCEPT ![o].pc = "copies", ![o].primary[1].batch = TRUE]
            /\ mem' = [i \in DOMAIN mem |-> IF mem[i].id = <<o, 0>>
                                            THEN [mem[i] EXCEPT !.batch = TRUE]
                                            ELSE mem[i]]
    /\ UNCHANGED <<disk, show, foreign>>

\* importBatchCopy, one copy at a time.
ImportCopy(o) ==
    /\ issue[o].pc = "copies"
    /\ AppendCredential(Credential(o, issue[o].got + 1, Head(issue[o].rest), TRUE))
    /\ issue' = [issue EXCEPT ![o].rest = Tail(@), ![o].got = @ + 1,
                              ![o].pc = IF Len(issue[o].rest) = 1 THEN "log" ELSE @]
    /\ UNCHANGED <<disk, show, foreign>>

\* The import is logged, which saves the wallet file.
LogImport(o) ==
    /\ issue[o].pc = "log"
    /\ issue' = [issue EXCEPT ![o].pc = "save"]
    /\ disk' = IF setup.file THEN mem ELSE disk
    /\ UNCHANGED <<mem, show, foreign>>

\* RestoreCredential keeps a copy that is there and asks for no room.
RestoreCredential(c) == IF Has(mem, c.id) THEN mem ELSE Append(mem, c)

\* Faulty variant: the save starts from what is stored.
SaveStored(o) ==
    /\ issue[o].pc = "save"
    /\ mem' = IF Has(disk, <<o, 0>>) THEN disk ELSE Append(disk, issue[o].primary[1])
    /\ disk' = mem'
    /\ issue' = [issue EXCEPT ![o] = [Idle EXCEPT !.pc = "done"]]
    /\ UNCHANGED <<show, foreign>>

\* saveIssuance: the primary is put back if a reload dropped it, and saved.
SaveIssuance(o) ==
    /\ issue[o].pc = "save"
    /\ mem' = RestoreCredential(issue[o].primary[1])
    /\ disk' = mem'
    /\ issue' = [issue EXCEPT ![o] = [Idle EXCEPT !.pc = "done"]]
    /\ UNCHANGED <<show, foreign>>

-----------------------------------------------------------------------------
\* Faulty variant: only the named copy goes.
RemoveOne(id) ==
    /\ setup.deletes /\ UserActs /\ Has(mem, id) /\ ~mem[At(mem, id)].prot
    /\ mem' = SelectSeq(mem, LAMBDA d : d.id # id)
    /\ disk' = mem'
    /\ UNCHANGED <<issue, show, foreign>>

\* RemoveCredential inside saveMutation: every copy of the batch, unless one
\* of them is protected.
RemoveCredential(id) ==
    /\ setup.deletes /\ UserActs /\ Has(mem, id)
    /\ LET c == mem[At(mem, id)]
       IN /\ \A i \in DOMAIN mem : SameBatch(c, mem[i]) => ~mem[i].prot
          /\ mem' = SelectSeq(mem, LAMBDA d : ~SameBatch(c, d))
    /\ disk' = mem'
    /\ UNCHANGED <<issue, show, foreign>>

\* ClearCredentials keeps the protected ones.
ClearCredentials ==
    /\ setup.deletes /\ UserActs
    /\ mem' = SelectSeq(mem, LAMBDA d : d.prot)
    /\ mem' # mem
    /\ disk' = mem'
    /\ UNCHANGED <<issue, show, foreign>>

\* ReplaceCredential: a renewed primary is bound to the holder key and keeps
\* its place and its batch.  Only a primary has a refresh token.
Renew(o) ==
    /\ issue[o].pc = "done" /\ Has(mem, <<o, 0>>)
    /\ mem' = [mem EXCEPT ![At(mem, <<o, 0>>)].key = HolderKey]
    /\ mem' # mem
    /\ disk' = mem'
    /\ UNCHANGED <<issue, show, foreign>>

-----------------------------------------------------------------------------
\* Faulty variant: every copy of the batch is as good as another.
LeastUsedAny(list) == list

\* chooseBatchCopy: the copies presented the fewest times.
LeastUsed(list) ==
    {c \in list : \A d \in list : c.uses <= d.uses}

\* collapseBatchMatches: one copy of the batch is offered for consent.
Choose(p) ==
    /\ p \in setup.shows /\ UserActs /\ show[p] = NoId
    /\ \E i \in DOMAIN mem :
           /\ ~mem[i].prot
           /\ \E c \in LeastUsed({mem[j] : j \in {k \in DOMAIN mem : SameBatch(mem[i], mem[k])}}) :
                  show' = [show EXCEPT ![p] = c.id]
    /\ UNCHANGED <<mem, disk, issue, foreign>>

\* createVPToken and recordBatchPresentation inside saveMutation, after
\* consent.  A credential that is gone fails the presentation.
Present(p) ==
    /\ show[p] # NoId
    /\ show' = [show EXCEPT ![p] = NoId]
    /\ IF Has(mem, show[p]) /\ mem[At(mem, show[p])].batch
       THEN /\ mem[At(mem, show[p])].uses < MaxUses
            /\ mem' = [mem EXCEPT ![At(mem, show[p])].uses = @ + 1]
            /\ disk' = mem'
       ELSE UNCHANGED <<mem, disk>>
    /\ UNCHANGED <<issue, foreign>>

\* Another process changes something else in the store.
ForeignChange ==
    /\ setup.others /\ ~foreign /\ foreign' = TRUE
    /\ UNCHANGED <<mem, disk, issue, show>>

\* reloadLocked.
Reload ==
    /\ foreign /\ foreign' = FALSE
    /\ mem' = disk
    /\ UNCHANGED <<disk, issue, show>>

Next ==
    /\ \/ \E o \in Offers : \/ ImportPrimary(o) \/ SetBatchFields(o) \/ ImportCopy(o)
                             \/ LogImport(o) \/ SaveIssuance(o) \/ Renew(o)
       \/ \E i \in DOMAIN mem : RemoveCredential(mem[i].id)
       \/ ClearCredentials
       \/ \E p \in Presentations : Choose(p) \/ Present(p)
       \/ ForeignChange \/ Reload
    /\ UNCHANGED setup

Spec == Init /\ [][Next]_vars

-----------------------------------------------------------------------------
MaxCopies == 8
Credentials ==
    [id : (Offers \cup {NoOffer}) \X (0..MaxCopies), key : NoKey..MaxCopies,
     batch : BOOLEAN, uses : 0..MaxUses, prot : BOOLEAN]

TypeOK ==
    /\ \A list \in {mem, disk} :
           /\ \A i \in DOMAIN list : list[i] \in Credentials
           /\ \A i, j \in DOMAIN list : list[i].id = list[j].id => i = j
    /\ \A o \in Offers : issue[o].pc \in {"new", "group", "copies", "log", "save", "done"}
    /\ foreign \in BOOLEAN

(***************************************************************************)
(* No two copies of a batch are bound to the same key, so that two         *)
(* presentations of different copies cannot be linked by it: not after a   *)
(* response that binds a key twice, nor after a renewal, which binds the   *)
(* primary to the holder key (sortBatch, ReplaceCredential).               *)
(***************************************************************************)
DistinctKeys ==
    \A i, j \in DOMAIN mem :
        i # j /\ SameBatch(mem[i], mem[j]) => mem[i].key # mem[j].key

(***************************************************************************)
(* Each copy of a batch is presented once before any copy is presented     *)
(* again: the use counts of a batch never differ by more than one, across  *)
(* deletions, renewals and reloads, for presentations that do not overlap  *)
(* and a user who waits for the batch (chooseBatchCopy,                    *)
(* recordBatchPresentation).                                               *)
(***************************************************************************)
RotationIsEven ==
    setup.settled => \A i, j \in DOMAIN mem :
                         SameBatch(mem[i], mem[j]) => mem[i].uses <= mem[j].uses + 1

(* The copies of a batch keep presentations apart: each has its own key,   *)
(* and all are used before one is used again.                              *)
CopiesAreUnlinkable == TypeOK /\ DistinctKeys /\ RotationIsEven

(***************************************************************************)
(* A wallet with a capacity does not grow past it.  Only the save that     *)
(* ends an issuance may, when it puts a primary back without making room   *)
(* (makeCredentialRoomLocked, RestoreCredential).                          *)
(***************************************************************************)
CapacityIsKept ==
    Capacity > 0 /\ Len(mem') > Capacity /\ Len(mem') > Len(mem) =>
        \E o \in Offers : issue[o].pc = "save" /\ issue'[o].pc = "done"

(***************************************************************************)
(* The protected baseline survives every import into a full wallet, every  *)
(* deletion and every reload (makeCredentialRoomLocked, RemoveCredential,  *)
(* ClearCredentials).                                                      *)
(***************************************************************************)
BaselineIsKept ==
    \A n \in 1..Baseline : Has(mem, <<NoOffer, n>>) /\ Has(disk, <<NoOffer, n>>)

(* Room for a new credential is made within the capacity and never by      *)
(* giving up the protected baseline (makeCredentialRoomLocked).            *)
RoomIsMade == [][CapacityIsKept /\ BaselineIsKept']_vars

\* Nobody else writes the store, the user waits, and there is room.
Undisturbed == setup.settled /\ ~setup.others /\ Capacity = 0
CopiesOf(o) == {i \in DOMAIN mem : Offer(mem[i]) = o}

(***************************************************************************)
(* An issuance that nobody interferes with leaves every usable copy of its *)
(* response in the wallet, in one batch (storeBatchCopies, saveIssuance).  *)
(***************************************************************************)
BatchIsComplete ==
    [][Undisturbed => \A o \in Offers : issue[o].pc = "save" /\ issue'[o].pc = "done" =>
           \A n \in 0..issue[o].got : Has(mem', <<o, n>>)]_vars

-----------------------------------------------------------------------------
\* batchRepresentative: the copy bound to the holder key (one without a
\* binding key of its own), or the first of the batch in the list.
Representative(S) ==
    IF \E i \in S : mem[i].key = HolderKey
    THEN CHOOSE i \in S : mem[i].key = HolderKey
    ELSE CHOOSE i \in S : \A j \in S : i <= j

NotListed == <<"not listed">>
Ids == Offers \X (0..MaxCopies)

\* ListedCredentials: each batch once.  Several entries are none of Ids.
ListedAs(o) ==
    IF CopiesOf(o) = {} THEN NotListed
    ELSE IF \A i, j \in CopiesOf(o) : SameBatch(mem[i], mem[j])
         THEN mem[Representative(CopiesOf(o))].id
         ELSE <<"several">>

\* The list as its user sees it, in an undisturbed wallet.
UserView == INSTANCE Shelf WITH
    listed <- [o \in Offers |-> IF Undisturbed THEN ListedAs(o) ELSE NotListed],
    open <- {o \in Offers : issue[o].pc # "done" \/ ~Undisturbed}

(***************************************************************************)
(* The list implements the abstract shelf: one entry per issuance, under   *)
(* an ID that stays the same while copies rotate, until it is removed with *)
(* all its copies, after which it does not come back.  It is claimed for   *)
(* an undisturbed wallet: a reload by another process between the steps of *)
(* storeBatchCopies, or an eviction in a full wallet, can take the primary *)
(* or the other copies away.                                               *)
(***************************************************************************)
ListIsAShelf == UserView!ShelfSpec
=============================================================================
