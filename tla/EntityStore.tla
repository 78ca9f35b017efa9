------------------------------ MODULE EntityStore ------------------------------
(***************************************************************************)
(* The entity store of the memory and Postgres backends                    *)
(* (internal/wallet/store_entities.go).  Several wallet servers share one  *)
(* table of rows.  Every entity of a wallet (a credential, a status entry, *)
(* a registration) is a row, and every section of entities has a revision  *)
(* row.  A save writes the changed rows one by one, deletes the removed    *)
(* ones and then bumps the revision rows.  A reload compares the revision  *)
(* rows with the cached ones and reads what changed.  Neither is a         *)
(* transaction: every backend call and every critical section of the       *)
(* wallet's mutex is a step of its own.                                    *)
(*                                                                         *)
(* A server's saves and reloads hold storeSyncMu, so one server runs one   *)
(* of them at a time.  Flows that talk to an issuer change the wallet in   *)
(* memory without that lock.  The modules ActivityLog and StatusCounter    *)
(* add the two writers that do not take it at all.                         *)
(***************************************************************************)
EXTENDS Naturals, FiniteSets

CONSTANTS
    Server,              \* wallet servers that share the table
    Key,                 \* entity keys
    Section,             \* sections of the state (allSections)
    ServerSections,      \* the sections a running server reloads
    LogSection,          \* the section reloaded for log requests only
    SectionOf,           \* the section of every key (WalletStore.sectionOf)
    CredentialsSection,  \* the section whose unchanged objects a reload keeps
    Value,               \* what an entity can hold
    NoValue,             \* the wallet does not hold the entity
    BulkReadAbove,       \* a reload of more rows than this reads the section
    MaxEdits,            \* bound: changes to wallets in memory
    MaxFaults            \* bound: failed saves, failed reloads and crashes

ASSUME SectionOfAssumption == SectionOf \in [Key -> Section]
ASSUME ServerSectionsAssumption == ServerSections \subseteq Section
ASSUME NoValueAssumption == NoValue \notin Value

VARIABLES
    backend,    \* [Key -> Blob]: the stored entity rows
    revision,   \* [Section -> Nat]: stamp of the revision row, 0 if absent
    seq,        \* the last version the backend has assigned
    state,      \* [Server -> [Key -> Value or NoValue]]: the wallet in memory
    persisted,  \* [Server -> snapshot]: the rows as the server knows them
    revisions,  \* [Server -> [Section -> Nat]]: the cached revision stamps
    loaded,     \* [Server -> BOOLEAN]: the server has read its state once
    saving,     \* [Server -> "no", "rows"]: the save thread
    snapshot, saveRevs, current, next,  \* what the save holds
    written,    \* keys this save has written or deleted so far
    marked,     \* sections whose revision this save has bumped so far
    own,        \* stamps of the revisions this save bumped without conflict
    moved,      \* persisted was replaced since the save took its snapshot
    loading,    \* [Server -> "no", "revisions", "known", "rows"]: the reload
    sections, readRevs, known, held, updated,  \* what the reload holds
    listed,     \* sections whose row stamps the reload has listed
    stamps,     \* the row stamps of the listed sections
    changed,    \* keys of the last listed section still to be read
    bulk,       \* the reload reads the last listed section in one query
    orphan,     \* history: rows of a failed save that never bumped a revision
    edited,     \* history: [Server -> entities changed in memory, not saved]
    edits, faults

storeVars == <<backend, revision, seq>>
walletVars == <<state, persisted, revisions, loaded>>
saveVars == <<saving, snapshot, saveRevs, current, next, written, marked, own>>
loadVars == <<loading, sections, readRevs, known, held, updated, listed,
              stamps, changed, bulk>>
vars == <<backend, revision, seq, state, persisted, revisions, loaded,
          saving, snapshot, saveRevs, current, next, written, marked, own, moved,
          loading, sections, readRevs, known, held, updated, listed, stamps,
          changed, bulk, orphan, edited, edits, faults>>

MaybeValue == Value \cup {NoValue}

(* storedBlob: the bytes of a row and the stamp it was read with.  The     *)
(* zero blob stands for a missing row.                                     *)
Blob == [data: MaybeValue, stamp: Nat]
NoRow == [data |-> NoValue, stamp |-> 0]
Snapshot == [Key -> Blob]

(* The version the backend gives to the next write of any row.  Versions   *)
(* come from one sequence, so a row that is deleted and written again does *)
(* not get an old one.                                                     *)
CoarseVersion(k) == 1 + seq \div 4  \* faulty: a clock that a few writes share
NextStamp(k) == seq + 1

KeysOf(sec) == {k \in Key : SectionOf[k] = sec}

--------------------------------------------------------------------------------
NoRows == [k \in Key |-> NoRow]
NoValues == [k \in Key |-> NoValue]
NoRevisions == [sec \in Section |-> 0]

(* The locals of a save and of a reload end with the call.                 *)
EndSave(s) ==
    /\ saving' = [saving EXCEPT ![s] = "no"]
    /\ snapshot' = [snapshot EXCEPT ![s] = NoRows]
    /\ saveRevs' = [saveRevs EXCEPT ![s] = NoRevisions]
    /\ current' = [current EXCEPT ![s] = NoValues]
    /\ next' = [next EXCEPT ![s] = NoRows]
    /\ written' = [written EXCEPT ![s] = {}]
    /\ marked' = [marked EXCEPT ![s] = {}]
    /\ own' = [own EXCEPT ![s] = NoRevisions]
    /\ moved' = [moved EXCEPT ![s] = FALSE]

EndLoad(s) ==
    /\ loading' = [loading EXCEPT ![s] = "no"]
    /\ sections' = [sections EXCEPT ![s] = {}]
    /\ readRevs' = [readRevs EXCEPT ![s] = NoRevisions]
    /\ known' = [known EXCEPT ![s] = NoRows]
    /\ held' = [held EXCEPT ![s] = NoValues]
    /\ updated' = [updated EXCEPT ![s] = NoRows]
    /\ listed' = [listed EXCEPT ![s] = {}]
    /\ stamps' = [stamps EXCEPT ![s] = [k \in Key |-> 0]]
    /\ changed' = [changed EXCEPT ![s] = {}]
    /\ bulk' = [bulk EXCEPT ![s] = FALSE]

--------------------------------------------------------------------------------
(* A mutation of the wallet in memory: an import, a change or a removal of *)
(* an entity.  It can fall between any two other steps.                    *)
Edit(s, k, v) ==
    /\ loaded[s]
    /\ edits < MaxEdits
    /\ state[s][k] # v
    /\ state' = [state EXCEPT ![s][k] = v]
    /\ edited' = [edited EXCEPT ![s] = @ \cup {k}]
    /\ edits' = edits + 1
    /\ UNCHANGED <<storeVars, persisted, revisions, loaded, saveVars, moved,
                   loadVars, orphan, faults>>

--------------------------------------------------------------------------------
(* saveEntities.  The keys whose bytes differ from the snapshot, and the   *)
(* keys the snapshot holds and the wallet no longer does.                  *)
ToWrite(s) ==
    {k \in Key : /\ current[s][k] # NoValue
                 /\ snapshot[s][k].data # current[s][k]}
ToDelete(s) ==
    {k \in Key : current[s][k] = NoValue /\ snapshot[s][k] # NoRow}

RowsDone(s) == ToWrite(s) \cup ToDelete(s) \subseteq written[s]
TouchedByWrites(s) == {SectionOf[k] : k \in written[s] \cap ToWrite(s)}  \* faulty
Touched(s) == {SectionOf[k] : k \in written[s]}

(* Wallet state (as entities: cur), snapshot and revisions are read under  *)
(* one lock.  A save that finds no change has no effect and is left out.   *)
SaveBegin(s, cur) ==
    /\ loaded[s]
    /\ saving[s] = "no" /\ loading[s] = "no"
    /\ \E k \in Key : cur[k] # persisted[s][k].data
    /\ saving' = [saving EXCEPT ![s] = "rows"]
    /\ snapshot' = [snapshot EXCEPT ![s] = persisted[s]]
    /\ saveRevs' = [saveRevs EXCEPT ![s] = revisions[s]]
    /\ current' = [current EXCEPT ![s] = cur]
    /\ next' = [next EXCEPT ![s] = persisted[s]]
    /\ written' = [written EXCEPT ![s] = {}]
    /\ marked' = [marked EXCEPT ![s] = {}]
    /\ own' = [own EXCEPT ![s] = NoRevisions]
    /\ moved' = [moved EXCEPT ![s] = FALSE]
    /\ UNCHANGED <<storeVars, walletVars, loadVars, orphan, edited, edits, faults>>

SaveWrite(s, k) ==
    /\ saving[s] = "rows"
    /\ k \in ToWrite(s) \ written[s]
    /\ LET row == [data |-> current[s][k], stamp |-> NextStamp(k)]
       IN  /\ backend' = [backend EXCEPT ![k] = row]
           /\ next' = [next EXCEPT ![s][k] = row]
    /\ seq' = seq + 1
    /\ written' = [written EXCEPT ![s] = @ \cup {k}]
    /\ orphan' = orphan \ {k}
    /\ UNCHANGED <<revision, walletVars, saving, snapshot, saveRevs, current,
                   marked, own, moved, loadVars, edited, edits, faults>>

SaveDelete(s, k) ==
    /\ saving[s] = "rows"
    /\ ToWrite(s) \subseteq written[s]
    /\ k \in ToDelete(s) \ written[s]
    /\ backend' = [backend EXCEPT ![k] = NoRow]
    /\ next' = [next EXCEPT ![s][k] = NoRow]
    /\ written' = [written EXCEPT ![s] = @ \cup {k}]
    /\ orphan' = orphan \ {k}
    /\ UNCHANGED <<revision, seq, walletVars, saving, snapshot, saveRevs,
                   current, marked, own, moved, loadVars, edited, edits, faults>>

(* WriteIf with the cached stamp.  On a conflict the revision is written   *)
(* anyway and the stamp is not recorded as the save's own.  A stamp never  *)
(* comes back, so the conflict still holds when the second write lands.    *)
SaveRevision(s, sec) ==
    /\ saving[s] = "rows"
    /\ RowsDone(s)
    /\ sec \in Touched(s) \ marked[s]
    /\ own' = [own EXCEPT ![s][sec] =
                  IF revision[sec] = saveRevs[s][sec] THEN seq + 1 ELSE 0]
    /\ revision' = [revision EXCEPT ![sec] = seq + 1]
    /\ seq' = seq + 1
    /\ marked' = [marked EXCEPT ![s] = @ \cup {sec}]
    /\ UNCHANGED <<backend, walletVars, saving, snapshot, saveRevs, current,
                   next, written, moved, loadVars, orphan, edited, edits, faults>>

(* The new snapshot is installed only if no reload replaced the old one.   *)
SaveInstall(s) ==
    /\ saving[s] = "rows"
    /\ RowsDone(s)
    /\ Touched(s) \subseteq marked[s]
    /\ IF moved[s]
       THEN UNCHANGED <<persisted, revisions>>
       ELSE /\ persisted' = [persisted EXCEPT ![s] = next[s]]
            /\ revisions' = [revisions EXCEPT ![s] =
                  [sec \in Section |-> IF own[s][sec] # 0 THEN own[s][sec] ELSE @[sec]]]
    /\ edited' = [edited EXCEPT ![s] = {k \in @ : state[s][k] # current[s][k]}]
    /\ EndSave(s)
    /\ UNCHANGED <<storeVars, state, loaded, loadVars, orphan, edits, faults>>

(* Rows a stopped save has changed without bumping their section.          *)
Unmarked(s) ==
    IF saving[s] = "no" THEN {}
    ELSE {k \in written[s] : SectionOf[k] \notin marked[s]}

(* A backend call fails.  saveEntities returns at once.                    *)
SaveFail(s) ==
    /\ saving[s] = "rows"
    /\ faults < MaxFaults
    /\ faults' = faults + 1
    /\ orphan' = orphan \cup Unmarked(s)
    /\ EndSave(s)
    /\ UNCHANGED <<storeVars, walletVars, loadVars, edited, edits>>

--------------------------------------------------------------------------------
(* reloadLocked and changedSections: a server that has never loaded reads  *)
(* every section, another one the sections whose revision moved.  The log  *)
(* is looked at only for requests that show it.                            *)
StaleCredentials(s, withLog) ==     \* faulty: no other section is looked at
    {sec \in {CredentialsSection} : revision[sec] # revisions[s][sec]}
StaleSections(s, withLog) ==
    {sec \in ServerSections : /\ sec = LogSection => withLog
                              /\ revision[sec] # revisions[s][sec]}

LoadCheck(s, withLog) ==
    /\ loading[s] = "no" /\ saving[s] = "no"
    /\ ~loaded[s] \/ StaleSections(s, withLog) # {}
    /\ sections' = [sections EXCEPT ![s] =
                       IF loaded[s] THEN StaleSections(s, withLog) ELSE Section]
    /\ loading' = [loading EXCEPT ![s] = "revisions"]
    /\ UNCHANGED <<storeVars, walletVars, saveVars, moved, readRevs, known, held,
                   updated, listed, stamps, changed, bulk, orphan, edited, edits, faults>>

(* loadSections reads the revisions before anything else.                  *)
LoadRevisions(s) ==
    /\ loading[s] = "revisions"
    /\ readRevs' = [readRevs EXCEPT ![s] = revision]
    /\ loading' = [loading EXCEPT ![s] = "known"]
    /\ UNCHANGED <<storeVars, walletVars, saveVars, moved, sections, known, held,
                   updated, listed, stamps, changed, bulk, orphan, edited, edits, faults>>

LoadKnown(s) ==
    /\ loading[s] = "known"
    /\ known' = [known EXCEPT ![s] = persisted[s]]
    /\ held' = [held EXCEPT ![s] = state[s]]
    /\ updated' = [updated EXCEPT ![s] = persisted[s]]
    /\ listed' = [listed EXCEPT ![s] = {}]
    /\ changed' = [changed EXCEPT ![s] = {}]
    /\ bulk' = [bulk EXCEPT ![s] = FALSE]
    /\ loading' = [loading EXCEPT ![s] = "rows"]
    /\ UNCHANGED <<storeVars, walletVars, saveVars, moved, sections, readRevs,
                   stamps, orphan, edited, edits, faults>>

(* refreshSection: list the stamps, drop the rows that are gone, note the  *)
(* rows whose stamp differs.                                               *)
LoadList(s, sec) ==
    /\ loading[s] = "rows"
    /\ changed[s] = {}
    /\ sec \in sections[s] \ listed[s]
    /\ listed' = [listed EXCEPT ![s] = @ \cup {sec}]
    /\ stamps' = [stamps EXCEPT ![s] =
          [k \in Key |-> IF SectionOf[k] = sec THEN backend[k].stamp ELSE @[k]]]
    /\ updated' = [updated EXCEPT ![s] =
          [k \in Key |-> IF SectionOf[k] = sec /\ backend[k] = NoRow
                         THEN NoRow ELSE @[k]]]
    /\ LET differing == {k \in KeysOf(sec) :
                            /\ backend[k] # NoRow
                            /\ known[s][k].stamp # backend[k].stamp}
       IN  /\ changed' = [changed EXCEPT ![s] = differing]
           /\ bulk' = [bulk EXCEPT ![s] = Cardinality(differing) > BulkReadAbove]
    /\ UNCHANGED <<storeVars, walletVars, saveVars, moved, loading, sections,
                   readRevs, known, held, orphan, edited, edits, faults>>

(* One query for the whole section.  It also returns rows that were not    *)
(* noted, each with its own stamp.                                         *)
LoadAll(s) ==
    /\ loading[s] = "rows"
    /\ bulk[s]
    /\ LET present == {k \in Key : backend[k] # NoRow
                          /\ \E c \in changed[s] : SectionOf[k] = SectionOf[c]}
       IN  /\ updated' = [updated EXCEPT ![s] =
                 [k \in Key |-> IF k \in present THEN backend[k] ELSE @[k]]]
           /\ changed' = [changed EXCEPT ![s] = @ \ present]
    /\ bulk' = [bulk EXCEPT ![s] = FALSE]
    /\ UNCHANGED <<storeVars, walletVars, saveVars, moved, loading, sections,
                   readRevs, known, held, listed, stamps, orphan, edited, edits, faults>>

(* One row, stored with the stamp that was listed before the read.         *)
LoadRow(s, k) ==
    /\ loading[s] = "rows"
    /\ ~bulk[s]
    /\ k \in changed[s]
    /\ updated' = [updated EXCEPT ![s][k] =
          IF backend[k] = NoRow THEN NoRow
          ELSE [data |-> backend[k].data, stamp |-> stamps[s][k]]]
    /\ changed' = [changed EXCEPT ![s] = @ \ {k}]
    /\ UNCHANGED <<storeVars, walletVars, saveVars, moved, loading, sections,
                   readRevs, known, held, listed, stamps, bulk, orphan, edited, edits, faults>>

(* parseSections: a credential whose row did not change keeps the object   *)
(* the wallet holds, everything else is parsed from the row.               *)
ParsedHeld(s, k) ==                \* faulty: held objects whatever the stamp
    IF updated[s][k] = NoRow THEN NoValue
    ELSE IF SectionOf[k] = CredentialsSection /\ held[s][k] # NoValue THEN held[s][k]
    ELSE updated[s][k].data
Parsed(s, k) ==
    IF updated[s][k] = NoRow THEN NoValue
    ELSE IF /\ SectionOf[k] = CredentialsSection
            /\ held[s][k] # NoValue
            /\ known[s][k].stamp = updated[s][k].stamp
         THEN held[s][k]
         ELSE updated[s][k].data

(* Under one lock the wallet takes the parsed entities (new), the snapshot *)
(* and the revisions that were read first.                                 *)
LoadInstall(s, new) ==
    /\ loading[s] = "rows"
    /\ changed[s] = {}
    /\ listed[s] = sections[s]
    /\ state' = [state EXCEPT ![s] =
          [k \in Key |-> IF SectionOf[k] \in sections[s] THEN new[k] ELSE @[k]]]
    /\ persisted' = [persisted EXCEPT ![s] = updated[s]]
    /\ revisions' = [revisions EXCEPT ![s] =
          [sec \in Section |-> IF sec \in sections[s] THEN readRevs[s][sec] ELSE @[sec]]]
    /\ loaded' = [loaded EXCEPT ![s] = TRUE]
    /\ moved' = [moved EXCEPT ![s] = saving[s] # "no"]
    /\ EndLoad(s)
    /\ UNCHANGED <<storeVars, saveVars, orphan, edited, edits, faults>>

(* A read fails.  loadSections returns before it touches the wallet.       *)
LoadFail(s) ==
    /\ loading[s] # "no"
    /\ faults < MaxFaults
    /\ faults' = faults + 1
    /\ EndLoad(s)
    /\ UNCHANGED <<storeVars, walletVars, saveVars, moved, orphan, edited, edits>>

--------------------------------------------------------------------------------
(* The process stops and starts again with an empty cache.                 *)
Crash(s) ==
    /\ faults < MaxFaults
    /\ faults' = faults + 1
    /\ orphan' = orphan \cup Unmarked(s)
    /\ state' = [state EXCEPT ![s] = NoValues]
    /\ persisted' = [persisted EXCEPT ![s] = NoRows]
    /\ revisions' = [revisions EXCEPT ![s] = NoRevisions]
    /\ loaded' = [loaded EXCEPT ![s] = FALSE]
    /\ EndSave(s)
    /\ EndLoad(s)
    /\ UNCHANGED <<storeVars, edits>>
    /\ edited' = [edited EXCEPT ![s] = {}]

Init ==
    /\ backend = NoRows
    /\ revision = NoRevisions
    /\ seq = 0
    /\ state = [s \in Server |-> NoValues]
    /\ persisted = [s \in Server |-> NoRows]
    /\ revisions = [s \in Server |-> NoRevisions]
    /\ loaded = [s \in Server |-> TRUE]
    /\ saving = [s \in Server |-> "no"]
    /\ snapshot = [s \in Server |-> NoRows]
    /\ saveRevs = [s \in Server |-> NoRevisions]
    /\ current = [s \in Server |-> NoValues]
    /\ next = [s \in Server |-> NoRows]
    /\ written = [s \in Server |-> {}]
    /\ marked = [s \in Server |-> {}]
    /\ own = [s \in Server |-> NoRevisions]
    /\ moved = [s \in Server |-> FALSE]
    /\ loading = [s \in Server |-> "no"]
    /\ sections = [s \in Server |-> {}]
    /\ readRevs = [s \in Server |-> NoRevisions]
    /\ known = [s \in Server |-> NoRows]
    /\ held = [s \in Server |-> NoValues]
    /\ updated = [s \in Server |-> NoRows]
    /\ listed = [s \in Server |-> {}]
    /\ stamps = [s \in Server |-> [k \in Key |-> 0]]
    /\ changed = [s \in Server |-> {}]
    /\ bulk = [s \in Server |-> FALSE]
    /\ orphan = {}
    /\ edited = [s \in Server |-> {}]
    /\ edits = 0
    /\ faults = 0

Save(s) ==
    \/ SaveBegin(s, state[s])
    \/ \E k \in Key : SaveWrite(s, k)
    \/ \E k \in Key : SaveDelete(s, k)
    \/ \E sec \in Section : SaveRevision(s, sec)
    \/ SaveInstall(s)

Load(s) ==
    \/ \E withLog \in BOOLEAN : LoadCheck(s, withLog)
    \/ LoadRevisions(s)
    \/ LoadKnown(s)
    \/ \E sec \in Section : LoadList(s, sec)
    \/ LoadAll(s)
    \/ \E k \in Key : LoadRow(s, k)
    \/ LoadInstall(s, [k \in Key |-> Parsed(s, k)])

Next ==
    \E s \in Server :
        \/ \E k \in Key, v \in MaybeValue : Edit(s, k, v)
        \/ Save(s)
        \/ Load(s)
        \/ SaveFail(s)
        \/ LoadFail(s)
        \/ Crash(s)

Spec == Init /\ [][Next]_vars

--------------------------------------------------------------------------------
(* A save in flight has changed the row and has yet to bump its section.   *)
Pending(k) == \E t \in Server : k \in Unmarked(t)

(* The server's cached revision is the stored one: a request would not     *)
(* reload the section.                                                     *)
Fresh(s, sec) == revisions[s][sec] = revision[sec]

(* The stored rows, the wallets, the saves, the reloads, and the history.  *)
StoreType ==
    /\ backend \in Snapshot
    /\ revision \in [Section -> Nat]
    /\ seq \in Nat
WalletType ==
    /\ state \in [Server -> [Key -> MaybeValue]]
    /\ persisted \in [Server -> Snapshot]
    /\ revisions \in [Server -> [Section -> Nat]]
    /\ loaded \in [Server -> BOOLEAN]
SaveType ==
    /\ saving \in [Server -> {"no", "rows"}]
    /\ snapshot \in [Server -> Snapshot]
    /\ saveRevs \in [Server -> [Section -> Nat]]
    /\ current \in [Server -> [Key -> MaybeValue]]
    /\ next \in [Server -> Snapshot]
    /\ written \in [Server -> SUBSET Key]
    /\ marked \in [Server -> SUBSET Section]
    /\ own \in [Server -> [Section -> Nat]]
    /\ moved \in [Server -> BOOLEAN]
LoadType ==
    /\ loading \in [Server -> {"no", "revisions", "known", "rows"}]
    /\ sections \in [Server -> SUBSET Section]
    /\ readRevs \in [Server -> [Section -> Nat]]
    /\ known \in [Server -> Snapshot]
    /\ held \in [Server -> [Key -> MaybeValue]]
    /\ updated \in [Server -> Snapshot]
    /\ listed \in [Server -> SUBSET Section]
    /\ stamps \in [Server -> [Key -> Nat]]
    /\ changed \in [Server -> SUBSET Key]
    /\ bulk \in [Server -> BOOLEAN]
HistoryType ==
    /\ orphan \subseteq Key
    /\ edited \in [Server -> SUBSET Key]
    /\ edits \in Nat
    /\ faults \in Nat

(* Every variable has the shape its declaration names.                     *)
TypeOK == StoreType /\ WalletType /\ SaveType /\ LoadType /\ HistoryType

(* "Read revisions first so changes made during loading are detected on    *)
(* the next check."  A server that would not reload a section knows every  *)
(* row of it exactly as stored, unless a save has changed the row and not  *)
(* bumped the revision yet, or died before it could.                       *)
StaleIsDetected ==
    \A s \in Server, k \in Key :
        Fresh(s, SectionOf[k]) =>
            persisted[s][k] = backend[k] \/ Pending(k) \/ k \in orphan

(* A reload reads only the rows whose stamp differs from the one it knows. *)
(* That is sound because a known row with the stored stamp has the stored  *)
(* bytes, also when the row was read after its stamp was listed, or was    *)
(* deleted and written again.                                              *)
StampIdentifiesBytes ==
    \A s \in Server, k \in Key :
        persisted[s][k].stamp = backend[k].stamp => persisted[s][k] = backend[k]

(* A save writes the entities whose bytes differ from the snapshot.  They  *)
(* differ only where this server changed the entity and has not saved it:  *)
(* a save never writes an old copy of an entity over a change that another *)
(* server made to it.                                                      *)
SavesOnlyOwnEdits ==
    \A s \in Server, k \in Key :
        state[s][k] # persisted[s][k].data => k \in edited[s]

--------------------------------------------------------------------------------
(* A save that has started goes on, a change in memory is saved (every     *)
(* mutation ends in a save) and requests that check the revisions keep     *)
(* arriving.                                                               *)
Fairness == \A s \in Server : WF_vars(Save(s)) /\ WF_vars(Load(s))

FairSpec == Spec /\ Fairness

(* When the changes stop, every server ends up with the stored value of    *)
(* every entity it reloads, except the rows of a save that died before it  *)
(* bumped their revision.                                                  *)
Converges ==
    <>[](\A s \in Server, k \in Key :
           \/ SectionOf[k] \notin ServerSections
           \/ k \in orphan
           \/ state[s][k] = backend[k].data)
================================================================================
