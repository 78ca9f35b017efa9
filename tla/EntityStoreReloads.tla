-------------------------- MODULE EntityStoreReloads ---------------------------
(***************************************************************************)
(* Change detection in EntityStore: the invariant behind it, and the       *)
(* steps of reloads, saves, failed saves and crashes, which preserve it.   *)
(***************************************************************************)
EXTENDS EntityStoreStamps

USE SectionOfAssumption, ServerSectionsAssumption, NoValueAssumption

(* The row is as stored, or a save of a server other than s has yet to     *)
(* announce it, or no save ever will.                                      *)
PendingElsewhere(s, k) == \E t \in Server : t # s /\ k \in Unmarked(t)

(* A server runs a save or a reload, never both.                           *)
Exclusive == \A s \in Server : saving[s] = "no" \/ loading[s] = "no"

(* A section whose revision was never written has no announced row.        *)
ZeroInv ==
    \A k \in Key : revision[SectionOf[k]] = 0 =>
        backend[k] = NoRow \/ Pending(k) \/ k \in orphan

(* What a save in flight will install is as stored wherever the revision   *)
(* it will record is the stored one.                                       *)
SaveInvAt(s) ==
    /\ marked[s] # {} => RowsDone(s)
    /\ ~moved[s] => persisted[s] = snapshot[s] /\ revisions[s] = saveRevs[s]
    /\ \A sec \in marked[s] : saveRevs[s][sec] < revision[sec]
    /\ \A sec \in Section \ marked[s] : own[s][sec] = 0
    /\ \A k \in Key :
          \/ next[s][k] = backend[k]
          \/ PendingElsewhere(s, k)
          \/ k \in orphan
          \/ SectionOf[k] \in marked[s] /\ own[s][SectionOf[k]] # revision[SectionOf[k]]
          \/ SectionOf[k] \notin marked[s] /\ saveRevs[s][SectionOf[k]] # revision[SectionOf[k]]

SaveInv == \A s \in Server : saving[s] = "rows" => SaveInvAt(s)

(* What a reload in flight will install is as stored, or still to be read, *)
(* wherever the revision it read first is the stored one.                  *)
LoadInvAt(s) ==
    /\ listed[s] \subseteq sections[s]
    /\ known[s] = persisted[s]
    /\ \A k \in changed[s] : SectionOf[k] \in listed[s]
    /\ \A k \in Key : SectionOf[k] \notin listed[s] => updated[s][k] = persisted[s][k]
    /\ \A k \in Key : SectionOf[k] \in listed[s] =>
          \/ k \notin changed[s] /\ updated[s][k] = backend[k]
          \/ k \in changed[s] /\ stamps[s][k] = backend[k].stamp
          \/ Pending(k)
          \/ k \in orphan
          \/ readRevs[s][SectionOf[k]] # revision[SectionOf[k]]

LoadInv == \A s \in Server : loading[s] = "rows" => LoadInvAt(s)

Detects == Exclusive /\ ZeroInv /\ SaveInv /\ LoadInv /\ StaleIsDetected

IInv == TypeOK /\ StampInv /\ Detects

--------------------------------------------------------------------------------
LEMMA DetectsInit == Init => Detects
BY DEF Init, Detects, Exclusive, ZeroInv, SaveInv, LoadInv, StaleIsDetected, NoRows

(* Steps outside the saves leave what is pending alone.                    *)
LEMMA SameSave ==
    ASSUME UNCHANGED <<saving, written, marked, current, snapshot>>
    PROVE  /\ \A k \in Key : Pending(k)' <=> Pending(k)
           /\ \A s \in Server, k \in Key : PendingElsewhere(s, k)' <=> PendingElsewhere(s, k)
           /\ \A s \in Server : RowsDone(s)' <=> RowsDone(s)
BY Zenon DEF Pending, PendingElsewhere, RowsDone, Unmarked, ToWrite, ToDelete

(* A step that leaves a server's reload alone, and what it read, keeps     *)
(* what holds of the reload.                                               *)
SameReload(s) ==
    /\ persisted'[s] = persisted[s]
    /\ loading'[s] = loading[s] /\ listed'[s] = listed[s] /\ sections'[s] = sections[s]
    /\ known'[s] = known[s] /\ changed'[s] = changed[s] /\ updated'[s] = updated[s]
    /\ stamps'[s] = stamps[s] /\ readRevs'[s] = readRevs[s]

LEMMA LoadKept ==
    ASSUME NEW s \in Server, LoadInvAt(s), SameReload(s), UNCHANGED <<backend, revision>>,
           \A k \in Key : Pending(k) \/ k \in orphan => Pending(k)' \/ k \in orphan'
    PROVE  LoadInvAt(s)'
BY ZenonT(60) DEF LoadInvAt, SameReload

(* The same for a server's save.                                           *)
SameSaveOf(s) ==
    /\ persisted'[s] = persisted[s] /\ revisions'[s] = revisions[s]
    /\ snapshot'[s] = snapshot[s] /\ saveRevs'[s] = saveRevs[s] /\ next'[s] = next[s]
    /\ marked'[s] = marked[s] /\ own'[s] = own[s] /\ moved'[s] = moved[s]

LEMMA SaveKept ==
    ASSUME NEW s \in Server, SaveInvAt(s), SameSaveOf(s), UNCHANGED <<backend, revision>>,
           RowsDone(s)' <=> RowsDone(s),
           \A k \in Key : PendingElsewhere(s, k) \/ k \in orphan
                            => PendingElsewhere(s, k)' \/ k \in orphan'
    PROVE  SaveInvAt(s)'
BY Zenon DEF SaveInvAt, SameSaveOf

LEMMA SaveInvKept ==
    ASSUME SaveInv,
           UNCHANGED <<backend, revision, orphan, persisted, revisions, saving, written, marked,
                       current, snapshot, next, saveRevs, own, moved>>
    PROVE  SaveInv'
BY Zenon, SameSave, SaveKept DEF SaveInv, SameSaveOf

LEMMA LoadSteps ==
    ASSUME IInv, NEW s \in Server,
           \/ \E withLog \in BOOLEAN : LoadCheck(s, withLog)
           \/ LoadRevisions(s) \/ LoadKnown(s) \/ LoadFail(s)
    PROVE  Detects'
<1> USE DEF IInv, Detects
<1>1. UNCHANGED <<backend, revision, persisted, revisions, orphan, saving, written, marked,
                  current, snapshot, next, saveRevs, own, moved>>
    BY Zenon DEF LoadCheck, LoadRevisions, LoadKnown, LoadFail, storeVars, walletVars, saveVars
<1>2. /\ \A k \in Key : Pending(k)' <=> Pending(k)
      /\ \A t \in Server, k \in Key : PendingElsewhere(t, k)' <=> PendingElsewhere(t, k)
      /\ \A t \in Server : RowsDone(t)' <=> RowsDone(t)
    BY Zenon, <1>1, SameSave
<1>3. ZeroInv' /\ StaleIsDetected' /\ SaveInv'
    BY Zenon, <1>1, <1>2, SaveInvKept DEF ZeroInv, StaleIsDetected, Fresh
<1>4. Exclusive'
    BY Zenon, <1>1 DEF Exclusive, LoadCheck, LoadRevisions, LoadKnown, LoadFail, EndLoad,
       TypeOK, StoreType, LoadType
<1>5. LoadInv'
    <2> SUFFICES ASSUME NEW t \in Server, loading'[t] = "rows"
                 PROVE  LoadInvAt(t)'
        BY Zenon DEF LoadInv
    <2>1. CASE t = s /\ LoadKnown(s)
        BY Zenon, <1>1, <2>1 DEF LoadInvAt, LoadKnown, TypeOK, LoadType
    <2>2. CASE t # s \/ ~LoadKnown(s)
        <3>1. t # s /\ loading[t] = "rows"
            BY ZenonT(60), <2>2 DEF LoadCheck, LoadRevisions, LoadKnown, LoadFail, EndLoad,
               TypeOK, StoreType, LoadType
        <3>2. SameReload(t)
            BY <1>1, <3>1 DEF SameReload, LoadCheck, LoadRevisions, LoadKnown, LoadFail,
               EndLoad, TypeOK, StoreType, LoadType
        <3> QED
            BY Zenon, <1>1, <1>2, <3>1, <3>2, LoadKept DEF LoadInv
    <2> QED
        BY Zenon, <2>1, <2>2
<1> QED
    BY Zenon, <1>3, <1>4, <1>5

LEMMA EditStep ==
    ASSUME IInv, NEW s \in Server, NEW k \in Key, NEW v \in MaybeValue, Edit(s, k, v)
    PROVE  Detects'
<1>1. UNCHANGED <<backend, revision, persisted, revisions, orphan, saving, written, marked,
                  current, snapshot, next, saveRevs, own, moved, loading, listed, sections,
                  known, changed, updated, stamps, readRevs>>
    BY Zenon DEF Edit, storeVars, saveVars, loadVars
<1>2. /\ \A j \in Key : Pending(j)' <=> Pending(j)
      /\ \A t \in Server, j \in Key : PendingElsewhere(t, j)' <=> PendingElsewhere(t, j)
      /\ \A t \in Server : RowsDone(t)' <=> RowsDone(t)
    BY Zenon, <1>1, SameSave
<1>3. Exclusive' /\ ZeroInv' /\ StaleIsDetected'
    BY Zenon, <1>1, <1>2 DEF IInv, Detects, Exclusive, ZeroInv, StaleIsDetected, Fresh
<1>4. SaveInv'
    BY Zenon, <1>1, SaveInvKept DEF IInv, Detects
<1>5. LoadInv'
    BY Zenon, <1>1, <1>2, LoadKept DEF IInv, Detects, LoadInv, SameReload
<1> QED
    BY Zenon, <1>3, <1>4, <1>5 DEF Detects

(* The steps of a reload that read rows change what it holds, nothing else.*)
LEMMA ReadSteps ==
    ASSUME IInv, NEW s \in Server,
           \/ \E sec \in Section : LoadList(s, sec)
           \/ LoadAll(s)
           \/ \E k \in Key : LoadRow(s, k)
    PROVE  Detects'
<1> USE DEF IInv, Detects
<1>1. UNCHANGED <<backend, revision, persisted, revisions, orphan, saving, written, marked,
                  current, snapshot, next, saveRevs, own, moved, loading, sections, known,
                  readRevs>>
    BY Zenon DEF LoadList, LoadAll, LoadRow, storeVars, walletVars, saveVars
<1>2. /\ \A k \in Key : Pending(k)' <=> Pending(k)
      /\ \A t \in Server, k \in Key : PendingElsewhere(t, k)' <=> PendingElsewhere(t, k)
      /\ \A t \in Server : RowsDone(t)' <=> RowsDone(t)
    BY Zenon, <1>1, SameSave
<1>3. Exclusive' /\ ZeroInv' /\ StaleIsDetected' /\ SaveInv'
    BY Zenon, <1>1, <1>2, SaveInvKept DEF Exclusive, ZeroInv, StaleIsDetected, Fresh
<1>4. LoadInv'
    <2> SUFFICES ASSUME NEW t \in Server, loading[t] = "rows"
                 PROVE  LoadInvAt(t)'
        BY Zenon, <1>1 DEF LoadInv
    <2>1. LoadInvAt(t)
        BY Zenon DEF LoadInv
    <2> USE DEF LoadInvAt
    <2>2. CASE t # s
        <3>1. /\ listed'[t] = listed[t] /\ changed'[t] = changed[t]
              /\ updated'[t] = updated[t] /\ stamps'[t] = stamps[t]
            <4>1. CASE \E sec \in Section : LoadList(s, sec)
                <5> PICK sec \in Section : LoadList(s, sec)
                    BY Zenon, <4>1
                <5>1. listed'[t] = listed[t] /\ changed'[t] = changed[t]
                    BY Zenon, <2>2 DEF LoadList, TypeOK, StoreType, LoadType
                <5>2. updated'[t] = updated[t] /\ stamps'[t] = stamps[t]
                    BY Zenon, <2>2 DEF LoadList, TypeOK, StoreType, LoadType
                <5> QED
                    BY Zenon, <5>1, <5>2
            <4>2. CASE LoadAll(s)
                BY ZenonT(60), <2>2, <4>2 DEF LoadAll, TypeOK, StoreType, LoadType
            <4>3. CASE \E k \in Key : LoadRow(s, k)
                BY SMTT(120), <2>2, <4>3 DEF LoadRow, TypeOK, StoreType, LoadType
            <4> QED
                BY Zenon, <4>1, <4>2, <4>3
        <3> QED
            BY ZenonT(60), <1>1, <1>2, <2>1, <3>1
    <2>3. ASSUME t = s, NEW sec \in Section, LoadList(s, sec)
          PROVE  LoadInvAt(t)'
        <3>1. /\ changed[s] = {}
              /\ sec \in sections[s] /\ sec \notin listed[s]
              /\ listed'[s] = listed[s] \cup {sec}
              /\ \A k \in Key : stamps'[s][k] = IF SectionOf[k] = sec THEN backend[k].stamp
                                                ELSE stamps[s][k]
              /\ \A k \in Key : updated'[s][k] = IF SectionOf[k] = sec /\ backend[k] = NoRow
                                                 THEN NoRow ELSE updated[s][k]
              /\ changed'[s] = {k \in Key : /\ SectionOf[k] = sec
                                            /\ backend[k] # NoRow
                                            /\ known[s][k].stamp # backend[k].stamp}
            BY Zenon, <2>3 DEF LoadList, TypeOK, StoreType, LoadType, KeysOf
        <3>2. \A k \in Key : known[s][k].stamp = backend[k].stamp => known[s][k] = backend[k]
            BY ZenonT(60) DEF StampInv, Sound, SoundAt
        <3>3. \A k \in Key : SectionOf[k] \notin listed'[s] => updated'[s][k] = persisted[s][k]
            BY <2>1, <2>3, <3>1
        <3>4. ASSUME NEW k \in Key, SectionOf[k] = sec
              PROVE  \/ k \notin changed'[s] /\ updated'[s][k] = backend[k]
                     \/ k \in changed'[s] /\ stamps'[s][k] = backend[k].stamp
            BY <2>1, <2>3, <3>1, <3>2, <3>4
        <3>5. ASSUME NEW k \in Key, SectionOf[k] \in listed[s]
              PROVE  /\ k \notin changed'[s]
                     /\ updated'[s][k] = updated[s][k]
            BY ZenonT(60), <3>1, <3>5
        <3> QED
            BY SMTT(60), <1>1, <1>2, <2>1, <2>3, <3>1, <3>3, <3>4, <3>5
    <2>4. ASSUME t = s, LoadAll(s)
          PROVE  LoadInvAt(t)'
        <3>1. /\ listed'[s] = listed[s] /\ stamps'[s] = stamps[s]
              /\ changed'[s] \subseteq changed[s]
              /\ \A k \in Key : updated'[s][k] =
                    IF backend[k] # NoRow /\ \E c \in changed[s] : SectionOf[k] = SectionOf[c]
                    THEN backend[k] ELSE updated[s][k]
              /\ \A k \in changed[s] : k \in changed'[s] <=> backend[k] = NoRow
            BY Zenon, <2>4 DEF LoadAll, TypeOK, StoreType, LoadType
        <3>2. \A k \in Key : SectionOf[k] \notin listed[s] => updated'[s][k] = updated[s][k]
            BY Zenon, <2>1, <2>4, <3>1
        <3> QED
            BY <1>1, <1>2, <2>1, <2>4, <3>1, <3>2 DEF TypeOK, StoreType, LoadType
    <2>5. ASSUME t = s, NEW j \in Key, LoadRow(s, j)
          PROVE  LoadInvAt(t)'
        <3>1. /\ listed'[s] = listed[s] /\ stamps'[s] = stamps[s]
              /\ j \in changed[s] /\ changed'[s] = changed[s] \ {j}
              /\ \A k \in Key : k # j => updated'[s][k] = updated[s][k]
              /\ updated'[s][j] = IF backend[j] = NoRow THEN NoRow
                                  ELSE [data |-> backend[j].data, stamp |-> stamps[s][j]]
            BY <2>5 DEF LoadRow, TypeOK, StoreType, LoadType, Snapshot
        <3>2. stamps[s][j] = backend[j].stamp => updated'[s][j] = backend[j]
            BY Zenon, <3>1 DEF TypeOK, StoreType, LoadType, Snapshot, Blob
        <3>3. SectionOf[j] \in listed[s]
            BY Zenon, <2>1, <2>5, <3>1
        <3>4. ASSUME NEW k \in Key, SectionOf[k] \notin listed[s]
              PROVE  k # j /\ updated'[s][k] = persisted[s][k]
            BY Zenon, <2>1, <2>5, <3>1, <3>3, <3>4
        <3>5. ASSUME NEW k \in Key, SectionOf[k] \in listed[s]
              PROVE  \/ k \notin changed'[s] /\ updated'[s][k] = backend[k]
                     \/ k \in changed'[s] /\ stamps'[s][k] = backend[k].stamp
                     \/ Pending(k)
                     \/ k \in orphan
                     \/ readRevs[s][SectionOf[k]] # revision[SectionOf[k]]
            <4>1. CASE k = j
                BY Zenon, <2>1, <2>5, <3>1, <3>2, <3>5, <4>1
            <4>2. CASE k # j
                BY ZenonT(60), <2>1, <2>5, <3>1, <3>5, <4>2
            <4> QED
                BY Zenon, <4>1, <4>2
        <3> QED
            BY ZenonT(60), <1>1, <1>2, <2>1, <2>5, <3>1, <3>4, <3>5
    <2> QED
        BY Zenon, <2>2, <2>3, <2>4, <2>5
<1> QED
    BY Zenon, <1>3, <1>4

LEMMA InstallStep ==
    ASSUME IInv, NEW s \in Server, NEW new, LoadInstall(s, new)
    PROVE  Detects'
<1> USE DEF IInv, Detects
<1>1. UNCHANGED <<backend, revision, orphan, saving, written, marked, current, snapshot,
                  next, saveRevs, own>>
    BY Zenon DEF LoadInstall, storeVars, saveVars
<1>2. /\ \A k \in Key : Pending(k)' <=> Pending(k)
      /\ \A t \in Server, k \in Key : PendingElsewhere(t, k)' <=> PendingElsewhere(t, k)
      /\ \A t \in Server : RowsDone(t)' <=> RowsDone(t)
    BY Zenon, <1>1, SameSave
<1>3. /\ loading[s] = "rows" /\ saving[s] = "no"
      /\ changed[s] = {} /\ listed[s] = sections[s]
      /\ persisted'[s] = updated[s]
      /\ \A sec \in Section : revisions'[s][sec] = IF sec \in sections[s] THEN readRevs[s][sec]
                                                   ELSE revisions[s][sec]
    BY Zenon DEF LoadInstall, Exclusive, TypeOK, WalletType, LoadType
<1>4. \A t \in Server : t # s =>
        persisted'[t] = persisted[t] /\ revisions'[t] = revisions[t] /\ moved'[t] = moved[t]
    BY DEF LoadInstall, TypeOK, WalletType, LoadType
<1>5. loading'[s] = "no"
    BY Zenon DEF LoadInstall, EndLoad, TypeOK, WalletType, LoadType
<1>6. \A t \in Server : t # s =>
        /\ loading'[t] = loading[t] /\ listed'[t] = listed[t] /\ sections'[t] = sections[t]
        /\ known'[t] = known[t] /\ changed'[t] = changed[t] /\ updated'[t] = updated[t]
        /\ stamps'[t] = stamps[t] /\ readRevs'[t] = readRevs[t]
    BY Zenon DEF LoadInstall, EndLoad, TypeOK, WalletType, LoadType
<1>7. Exclusive' /\ ZeroInv'
    BY ZenonT(60), <1>1, <1>2, <1>3, <1>6 DEF Exclusive, ZeroInv
<1>8. LoadInv'
    <2> SUFFICES ASSUME NEW t \in Server, loading'[t] = "rows"
                 PROVE  LoadInvAt(t)'
        BY Zenon DEF LoadInv
    <2>1. t # s
        BY Zenon, <1>5
    <2>2. LoadInvAt(t) /\ SameReload(t)
        BY Zenon, <1>4, <1>6, <2>1 DEF LoadInv, SameReload
    <2> QED
        BY Zenon, <1>1, <1>2, <2>2, LoadKept
<1>9. SaveInv'
    <2> SUFFICES ASSUME NEW t \in Server, saving[t] = "rows"
                 PROVE  SaveInvAt(t)'
        BY Zenon, <1>1 DEF SaveInv
    <2>1. t # s
        BY Zenon, <1>3
    <2>2. SaveInvAt(t) /\ SameSaveOf(t)
        BY Zenon, <1>1, <1>4, <2>1 DEF SaveInv, SameSaveOf
    <2> QED
        BY Zenon, <1>1, <1>2, <2>2, SaveKept
<1>10. StaleIsDetected'
    <2> SUFFICES ASSUME NEW t \in Server, NEW k \in Key, Fresh(t, SectionOf[k])'
                 PROVE  persisted'[t][k] = backend[k] \/ Pending(k) \/ k \in orphan
        BY Zenon, <1>1, <1>2 DEF StaleIsDetected
    <2>1. CASE t # s
        BY ZenonT(60), <1>1, <1>4, <2>1 DEF StaleIsDetected, Fresh
    <2>2. CASE t = s /\ SectionOf[k] \in sections[s]
        BY <1>1, <1>3, <2>2 DEF LoadInv, LoadInvAt, Fresh
    <2>3. CASE t = s /\ SectionOf[k] \notin sections[s]
        <3>1. persisted'[s][k] = persisted[s][k]
            BY <1>3, <2>3 DEF LoadInv, LoadInvAt
        <3>2. Fresh(s, SectionOf[k])
            BY Zenon, <1>1, <1>3, <2>3 DEF Fresh
        <3> QED
            BY ZenonT(60), <2>3, <3>1, <3>2 DEF StaleIsDetected
    <2> QED
        BY Zenon, <2>1, <2>2, <2>3
<1> QED
    BY Zenon, <1>7, <1>8, <1>9, <1>10

--------------------------------------------------------------------------------
(* A step of one server's save leaves the saves of the others alone.       *)
OthersSave(s) ==
    \A t \in Server : t # s =>
        /\ saving'[t] = saving[t] /\ snapshot'[t] = snapshot[t] /\ saveRevs'[t] = saveRevs[t]
        /\ current'[t] = current[t] /\ next'[t] = next[t] /\ written'[t] = written[t]
        /\ marked'[t] = marked[t] /\ own'[t] = own[t] /\ moved'[t] = moved[t]

LEMMA OthersKeep ==
    ASSUME NEW s \in Server, OthersSave(s)
    PROVE  /\ \A t \in Server : t # s => /\ Unmarked(t)' = Unmarked(t)
                                         /\ RowsDone(t)' <=> RowsDone(t)
           /\ \A k \in Key : PendingElsewhere(s, k)' <=> PendingElsewhere(s, k)
<1>1. \A t \in Server : t # s => /\ Unmarked(t)' = Unmarked(t)
                                 /\ RowsDone(t)' <=> RowsDone(t)
    <2> SUFFICES ASSUME NEW t \in Server, t # s
                 PROVE  Unmarked(t)' = Unmarked(t) /\ (RowsDone(t)' <=> RowsDone(t))
        BY Zenon
    <2>1. UNCHANGED <<saving[t], snapshot[t], current[t], written[t], marked[t]>>
        BY Zenon DEF OthersSave
    <2>2. Unmarked(t)' = Unmarked(t)
        BY Zenon, <2>1 DEF Unmarked
    <2>3. ToWrite(t)' = ToWrite(t) /\ ToDelete(t)' = ToDelete(t)
        BY Zenon, <2>1 DEF ToWrite, ToDelete
    <2> QED
        BY Zenon, <2>1, <2>2, <2>3 DEF RowsDone
<1> QED
    BY Zenon, <1>1 DEF PendingElsewhere

(* A save that neither gains nor loses an unannounced row.                 *)
LEMMA SamePending ==
    ASSUME NEW s \in Server, OthersSave(s), Unmarked(s)' = Unmarked(s)
    PROVE  /\ \A k \in Key : Pending(k)' <=> Pending(k)
           /\ \A t \in Server, k \in Key : PendingElsewhere(t, k)' <=> PendingElsewhere(t, k)
<1>1. \A t \in Server : Unmarked(t)' = Unmarked(t)
    BY Zenon, OthersKeep
<1> QED
    BY Zenon, <1>1 DEF Pending, PendingElsewhere

LEMMA BeginStep ==
    ASSUME IInv, NEW s \in Server, NEW cur, SaveBegin(s, cur)
    PROVE  Detects'
<1> USE DEF IInv, Detects
<1>1. UNCHANGED <<backend, revision, persisted, revisions, orphan, loading, sections, readRevs,
                  known, updated, listed, stamps, changed>>
    BY Zenon DEF SaveBegin, storeVars, walletVars, loadVars
<1>2. OthersSave(s)
    BY ZenonT(60) DEF SaveBegin, OthersSave, TypeOK, WalletType, SaveType
<1>3. /\ saving[s] = "no" /\ loading[s] = "no"
      /\ snapshot'[s] = persisted[s] /\ saveRevs'[s] = revisions[s] /\ next'[s] = persisted[s]
      /\ written'[s] = {} /\ marked'[s] = {} /\ own'[s] = NoRevisions
    BY Zenon DEF SaveBegin, TypeOK, WalletType, SaveType
<1>4. Unmarked(s) = {} /\ Unmarked(s)' = {}
    BY Zenon, <1>3 DEF Unmarked
<1>5. /\ \A k \in Key : Pending(k)' <=> Pending(k)
      /\ \A t \in Server, k \in Key : PendingElsewhere(t, k)' <=> PendingElsewhere(t, k)
    BY Zenon, <1>2, <1>4, SamePending
<1>6. \A k \in Key : Pending(k) => PendingElsewhere(s, k)
    BY Zenon, <1>4 DEF Pending, PendingElsewhere
<1>7. Exclusive' /\ ZeroInv' /\ LoadInv' /\ StaleIsDetected'
    <2>1. Exclusive'
        BY Zenon, <1>1, <1>2, <1>3 DEF Exclusive, OthersSave
    <2> QED
        BY Zenon, <2>1, <1>1, <1>5, LoadKept DEF ZeroInv, LoadInv, SameReload,
           StaleIsDetected, Fresh
<1>8. SaveInv'
    <2> SUFFICES ASSUME NEW t \in Server, saving'[t] = "rows"
                 PROVE  SaveInvAt(t)'
        BY Zenon DEF SaveInv
    <2>1. CASE t # s
        <3>1. RowsDone(t)' <=> RowsDone(t)
            BY Zenon, <1>2, <2>1, OthersKeep
        <3> QED
            BY Zenon, <1>1, <1>2, <1>5, <2>1, <3>1, SaveKept DEF SaveInv, SameSaveOf, OthersSave
    <2>2. CASE t = s
        <3>1. \A sec \in Section : own'[s][sec] = 0
            BY Zenon, <1>3 DEF NoRevisions
        <3>2. \A k \in Key : \/ next'[s][k] = backend[k]
                             \/ PendingElsewhere(s, k)
                             \/ k \in orphan
                             \/ saveRevs'[s][SectionOf[k]] # revision[SectionOf[k]]
            BY Zenon, <1>3, <1>6 DEF StaleIsDetected, Fresh
        <3> QED
            BY Zenon, <1>1, <1>3, <1>5, <2>2, <3>1, <3>2 DEF SaveInvAt
    <2> QED
        BY Zenon, <2>1, <2>2
<1> QED
    BY Zenon, <1>7, <1>8

(* A row that a save writes or deletes becomes pending, and stays as the   *)
(* save knows it.                                                          *)
LEMMA RowStep ==
    ASSUME IInv, NEW s \in Server, NEW k \in Key, SaveWrite(s, k) \/ SaveDelete(s, k)
    PROVE  Detects'
<1> USE DEF IInv, Detects
<1>1. UNCHANGED <<revision, persisted, revisions, saving, loading, sections, readRevs, known,
                  updated, listed, stamps, changed, marked, own, moved, snapshot, saveRevs, current>>
    BY Zenon DEF SaveWrite, SaveDelete, walletVars, loadVars
<1>2. OthersSave(s)
    BY ZenonT(60), <1>1 DEF SaveWrite, SaveDelete, OthersSave, TypeOK, StoreType, SaveType
<1>3. /\ saving[s] = "rows"
      /\ k \in (ToWrite(s) \cup ToDelete(s)) \ written[s]
      /\ written'[s] = written[s] \cup {k}
      /\ orphan' = orphan \ {k}
    BY Zenon DEF SaveWrite, SaveDelete, TypeOK, StoreType, SaveType
<1>4. marked[s] = {}
    BY Zenon, <1>3 DEF SaveInv, SaveInvAt, RowsDone
<1>5. /\ \A j \in Key : j # k => backend'[j] = backend[j] /\ next'[s][j] = next[s][j]
      /\ next'[s][k] = backend'[k]
    BY DEF SaveWrite, SaveDelete, TypeOK, StoreType, SaveType, Snapshot
<1>6. Unmarked(s)' = Unmarked(s) \cup {k}
    BY Zenon, <1>1, <1>3, <1>4 DEF Unmarked
<1>7. /\ Pending(k)'
      /\ \A j \in Key : j # k => (Pending(j)' <=> Pending(j))
    BY Zenon, <1>2, <1>6, OthersKeep DEF Pending
<1>8. /\ \A t \in Server : t # s => PendingElsewhere(t, k)'
      /\ \A t \in Server, j \in Key : j # k => (PendingElsewhere(t, j)' <=> PendingElsewhere(t, j))
    BY <1>2, <1>6, OthersKeep DEF PendingElsewhere
<1>9. Exclusive' /\ ZeroInv' /\ StaleIsDetected'
    BY ZenonT(60), <1>1, <1>3, <1>5, <1>7 DEF Exclusive, ZeroInv, StaleIsDetected, Fresh
<1>10. LoadInv'
    BY SMTT(60), <1>1, <1>3, <1>5, <1>7 DEF LoadInv, LoadInvAt
<1>11. SaveInv'
    <2> SUFFICES ASSUME NEW t \in Server, saving[t] = "rows"
                 PROVE  SaveInvAt(t)'
        BY Zenon, <1>1 DEF SaveInv
    <2>1. SaveInvAt(t)
        BY Zenon DEF SaveInv
    <2> USE DEF SaveInvAt
    <2>2. CASE t # s
        <3>1. next'[t] = next[t] /\ (RowsDone(t)' <=> RowsDone(t))
            BY Zenon, <1>2, <2>2, OthersKeep DEF OthersSave
        <3> QED
            BY ZenonT(60), <1>1, <1>3, <1>5, <1>8, <2>1, <2>2, <3>1
    <2>3. CASE t = s
        <3>1. \A j \in Key : PendingElsewhere(s, j)' <=> PendingElsewhere(s, j)
            BY Zenon, <1>2, OthersKeep
        <3> QED
            BY ZenonT(60), <1>1, <1>3, <1>4, <1>5, <2>1, <2>3, <3>1
    <2> QED
        BY Zenon, <2>2, <2>3
<1> QED
    BY Zenon, <1>9, <1>10, <1>11

(* A bumped revision is newer than any stamp anyone has cached.            *)
LEMMA BumpStep ==
    ASSUME IInv, NEW s \in Server, NEW sec \in Section, SaveRevision(s, sec)
    PROVE  Detects'
<1> USE DEF IInv, Detects
<1>1. UNCHANGED <<backend, orphan, persisted, revisions, saving, loading, sections, readRevs,
                  known, updated, listed, stamps, changed, moved, snapshot, saveRevs, current,
                  next, written>>
    BY Zenon DEF SaveRevision, walletVars, loadVars
<1>2. OthersSave(s)
    BY Zenon, <1>1 DEF SaveRevision, OthersSave, TypeOK, StoreType, SaveType
<1>3. /\ saving[s] = "rows" /\ RowsDone(s) /\ RowsDone(s)'
      /\ sec \notin marked[s] /\ marked'[s] = marked[s] \cup {sec}
      /\ own'[s][sec] = (IF revision[sec] = saveRevs[s][sec] THEN seq + 1 ELSE 0)
      /\ \A o \in Section : o # sec => own'[s][o] = own[s][o]
    BY Zenon, <1>1 DEF SaveRevision, TypeOK, StoreType, SaveType, RowsDone, ToWrite, ToDelete
<1>4. /\ seq \in Nat /\ revision'[sec] = seq + 1
      /\ \A o \in Section : o # sec => revision'[o] = revision[o]
    BY ZenonT(60) DEF SaveRevision, TypeOK, StoreType, SaveType
<1>5. \A t \in Server : /\ revisions[t][sec] < revision'[sec] /\ saveRevs[t][sec] < revision'[sec]
                        /\ own[t][sec] < revision'[sec] /\ readRevs[t][sec] < revision'[sec]
                        /\ revisions[t][sec] \in Nat /\ saveRevs[t][sec] \in Nat
                        /\ own[t][sec] \in Nat /\ readRevs[t][sec] \in Nat
    BY <1>4 DEF StampInv, TypeOK, WalletType, SaveType, LoadType
<1>6. \A j \in Key : SectionOf[j] # sec => (j \in Unmarked(s)' <=> j \in Unmarked(s))
    BY Zenon, <1>1, <1>3 DEF Unmarked
<1>7. \A t \in Server, j \in Key : SectionOf[j] # sec =>
        /\ Pending(j)' <=> Pending(j)
        /\ PendingElsewhere(t, j)' <=> PendingElsewhere(t, j)
    BY <1>2, <1>6, OthersKeep DEF Pending, PendingElsewhere
<1>8. \A j \in Key : SectionOf[j] \in Section
    BY Zenon, SectionOfAssumption
<1>9. Exclusive' /\ ZeroInv' /\ StaleIsDetected'
    <2>1. Exclusive'
        BY Zenon, <1>1 DEF Exclusive
    <2>2. ZeroInv'
        <3> SUFFICES ASSUME NEW j \in Key, revision'[SectionOf[j]] = 0
                     PROVE  backend[j] = NoRow \/ Pending(j)' \/ j \in orphan
            BY ZenonT(60), <1>1 DEF ZeroInv
        <3>1. SectionOf[j] # sec
            BY <1>4
        <3> QED
            BY Zenon, <1>4, <1>7, <1>8, <3>1 DEF ZeroInv
    <2>3. StaleIsDetected'
        <3> SUFFICES ASSUME NEW t \in Server, NEW j \in Key,
                            revisions[t][SectionOf[j]] = revision'[SectionOf[j]]
                     PROVE  persisted[t][j] = backend[j] \/ Pending(j)' \/ j \in orphan
            BY Zenon, <1>1 DEF StaleIsDetected, Fresh
        <3>1. SectionOf[j] # sec
            BY <1>4, <1>5
        <3> QED
            BY Zenon, <1>4, <1>7, <1>8, <3>1 DEF StaleIsDetected, Fresh
    <2> QED
        BY Zenon, <2>1, <2>2, <2>3
<1>10. LoadInv'
    <2> SUFFICES ASSUME NEW t \in Server, loading[t] = "rows"
                 PROVE  LoadInvAt(t)'
        BY Zenon, <1>1 DEF LoadInv
    <2>1. LoadInvAt(t)
        BY Zenon DEF LoadInv
    <2>2. ASSUME NEW j \in Key, SectionOf[j] \in listed[t]
          PROVE  \/ j \notin changed[t] /\ updated[t][j] = backend[j]
                 \/ j \in changed[t] /\ stamps[t][j] = backend[j].stamp
                 \/ Pending(j)'
                 \/ j \in orphan
                 \/ readRevs[t][SectionOf[j]] # revision'[SectionOf[j]]
        <3>1. CASE SectionOf[j] = sec
            BY <1>4, <1>5, <3>1
        <3>2. CASE SectionOf[j] # sec
            BY Zenon, <1>4, <1>7, <1>8, <2>1, <2>2, <3>2 DEF LoadInvAt
        <3> QED
            BY Zenon, <3>1, <3>2
    <2> QED
        BY Zenon, <1>1, <2>1, <2>2 DEF LoadInvAt
<1>11. SaveInv'
    <2> SUFFICES ASSUME NEW t \in Server, saving[t] = "rows"
                 PROVE  SaveInvAt(t)'
        BY Zenon, <1>1 DEF SaveInv
    <2>1. SaveInvAt(t)
        BY Zenon DEF SaveInv
    <2> USE DEF SaveInvAt
    <2>2. marked[t] \subseteq Section
        BY Zenon DEF TypeOK, SaveType
    <2>3. CASE t # s
        <3>1. marked'[t] = marked[t] /\ own'[t] = own[t] /\ (RowsDone(t)' <=> RowsDone(t))
            BY Zenon, <1>2, <2>3, OthersKeep DEF OthersSave
        <3>2. \A o \in marked[t] : saveRevs[t][o] < revision'[o]
            BY Zenon, <1>4, <1>5, <2>1, <2>2
        <3>3. ASSUME NEW j \in Key
              PROVE  \/ next[t][j] = backend[j]
                     \/ PendingElsewhere(t, j)'
                     \/ j \in orphan
                     \/ /\ SectionOf[j] \in marked[t]
                        /\ own[t][SectionOf[j]] # revision'[SectionOf[j]]
                     \/ /\ SectionOf[j] \notin marked[t]
                        /\ saveRevs[t][SectionOf[j]] # revision'[SectionOf[j]]
            <4>1. CASE SectionOf[j] = sec
                BY <1>4, <1>5, <4>1
            <4>2. CASE SectionOf[j] # sec
                BY Zenon, <1>4, <1>7, <1>8, <2>1, <4>2
            <4> QED
                BY Zenon, <4>1, <4>2
        <3> QED
            BY Zenon, <1>1, <2>1, <3>1, <3>2, <3>3
    <2>4. CASE t = s
        <3>1. \A j \in Key : PendingElsewhere(s, j)' <=> PendingElsewhere(s, j)
            BY Zenon, <1>2, OthersKeep
        <3>2. \A o \in marked'[s] : saveRevs[s][o] < revision'[o]
            BY Zenon, <1>3, <1>4, <1>5, <2>1, <2>2, <2>4
        <3>3. \A o \in Section \ marked'[s] : own'[s][o] = 0
            BY ZenonT(60), <1>3, <2>1, <2>4
        <3>4. ASSUME NEW j \in Key
              PROVE  \/ next[s][j] = backend[j]
                     \/ PendingElsewhere(s, j)
                     \/ j \in orphan
                     \/ /\ SectionOf[j] \in marked'[s]
                        /\ own'[s][SectionOf[j]] # revision'[SectionOf[j]]
                     \/ /\ SectionOf[j] \notin marked'[s]
                        /\ saveRevs[s][SectionOf[j]] # revision'[SectionOf[j]]
            <4>1. CASE SectionOf[j] = sec
                BY SMTT(60), <1>3, <1>4, <2>1, <2>4, <4>1
            <4>2. CASE SectionOf[j] # sec
                BY ZenonT(60), <1>3, <1>4, <1>8, <2>1, <2>4, <4>2
            <4> QED
                BY Zenon, <4>1, <4>2
        <3> QED
            BY Zenon, <1>1, <1>3, <2>1, <2>4, <3>1, <3>2, <3>3, <3>4
    <2> QED
        BY Zenon, <2>3, <2>4
<1> QED
    BY Zenon, <1>9, <1>10, <1>11

LEMMA SaveInstallStep ==
    ASSUME IInv, NEW s \in Server, SaveInstall(s)
    PROVE  Detects'
<1> USE DEF IInv, Detects
<1>1. UNCHANGED <<backend, revision, orphan, loading, sections, readRevs, known, updated,
                  listed, stamps, changed>>
    BY Zenon DEF SaveInstall, storeVars, loadVars
<1>2. OthersSave(s)
    BY Zenon DEF SaveInstall, EndSave, OthersSave, TypeOK, WalletType, SaveType
<1>3. /\ saving[s] = "rows" /\ saving'[s] = "no" /\ loading[s] = "no"
      /\ \A k \in written[s] : SectionOf[k] \in marked[s]
    BY ZenonT(60) DEF SaveInstall, EndSave, TypeOK, WalletType, SaveType, Exclusive, Touched
<1>4. Unmarked(s) = {} /\ Unmarked(s)' = {}
    BY Zenon, <1>3 DEF Unmarked
<1>5. /\ \A k \in Key : Pending(k)' <=> Pending(k)
      /\ \A t \in Server, k \in Key : PendingElsewhere(t, k)' <=> PendingElsewhere(t, k)
    BY Zenon, <1>2, <1>4, SamePending
<1>6. \A t \in Server : t # s => persisted'[t] = persisted[t] /\ revisions'[t] = revisions[t]
    BY Zenon DEF SaveInstall, TypeOK, WalletType, SaveType
<1>7. Exclusive' /\ ZeroInv'
    BY Zenon, <1>1, <1>2, <1>3, <1>5 DEF Exclusive, ZeroInv, OthersSave
<1>8. LoadInv'
    <2> SUFFICES ASSUME NEW t \in Server, loading[t] = "rows"
                 PROVE  LoadInvAt(t)'
        BY Zenon, <1>1 DEF LoadInv
    <2>1. t # s
        BY Zenon, <1>3
    <2>2. LoadInvAt(t) /\ SameReload(t)
        BY Zenon, <1>1, <1>6, <2>1 DEF LoadInv, SameReload
    <2> QED
        BY Zenon, <1>1, <1>5, <2>2, LoadKept
<1>9. SaveInv'
    <2> SUFFICES ASSUME NEW t \in Server, saving'[t] = "rows"
                 PROVE  SaveInvAt(t)'
        BY Zenon DEF SaveInv
    <2>1. t # s
        BY Zenon, <1>3
    <2>2. RowsDone(t)' <=> RowsDone(t)
        BY Zenon, <1>2, <2>1, OthersKeep
    <2>3. SaveInvAt(t) /\ SameSaveOf(t)
        BY Zenon, <1>2, <1>6, <2>1 DEF SaveInv, SameSaveOf, OthersSave
    <2> QED
        BY Zenon, <1>1, <1>5, <2>2, <2>3, SaveKept
<1>10. StaleIsDetected'
    <2> SUFFICES ASSUME NEW t \in Server, NEW k \in Key,
                        revisions'[t][SectionOf[k]] = revision[SectionOf[k]]
                 PROVE  persisted'[t][k] = backend[k] \/ Pending(k) \/ k \in orphan
        BY Zenon, <1>1, <1>5 DEF StaleIsDetected, Fresh
    <2>1. CASE t # s
        BY ZenonT(60), <1>6, <2>1 DEF StaleIsDetected, Fresh
    <2>2. CASE t = s /\ moved[s]
        BY Zenon, <2>2 DEF SaveInstall, StaleIsDetected, Fresh
    <2>3. CASE t = s /\ ~moved[s]
        <3> DEFINE sec == SectionOf[k]
        <3>1. sec \in Section
            BY Zenon, SectionOfAssumption
        <3>2. persisted'[s] = next[s]
            BY ZenonT(60), <2>3 DEF SaveInstall, TypeOK, WalletType, SaveType
        <3>3. revisions'[s][sec] = IF own[s][sec] # 0 THEN own[s][sec] ELSE revisions[s][sec]
            BY SMTT(60), <2>3, <3>1 DEF SaveInstall, TypeOK, WalletType, SaveType
        <3>4. PendingElsewhere(s, k) => Pending(k)
            BY Zenon DEF PendingElsewhere, Pending
        <3>5. /\ revisions[s] = saveRevs[s]
              /\ sec \in marked[s] => saveRevs[s][sec] < revision[sec]
              /\ sec \notin marked[s] => own[s][sec] = 0
              /\ \/ next[s][k] = backend[k]
                 \/ PendingElsewhere(s, k)
                 \/ k \in orphan
                 \/ sec \in marked[s] /\ own[s][sec] # revision[sec]
                 \/ sec \notin marked[s] /\ saveRevs[s][sec] # revision[sec]
            BY Zenon, <1>3, <2>3, <3>1 DEF SaveInv, SaveInvAt
        <3>6. saveRevs[s][sec] \in Nat /\ revision[sec] \in Nat
            BY ZenonT(200), <3>1 DEF TypeOK, StoreType, SaveType
        <3> HIDE DEF sec
        <3>7. revisions'[s][sec] = revision[sec]
            BY Zenon, <2>3 DEF sec
        <3> QED
            BY SMTT(60), <2>3, <3>2, <3>3, <3>4, <3>5, <3>6, <3>7
    <2> QED
        BY Zenon, <2>1, <2>2, <2>3
<1> QED
    BY Zenon, <1>7, <1>8, <1>9, <1>10

(* The rows of a save that stops are pending no longer and orphans from    *)
(* then on.                                                                *)
LEMMA StopStep ==
    ASSUME IInv, NEW s \in Server, SaveFail(s) \/ Crash(s)
    PROVE  Detects'
<1> USE DEF IInv, Detects
<1>1. UNCHANGED <<backend, revision>> /\ orphan' = orphan \cup Unmarked(s)
    BY Zenon DEF SaveFail, Crash, storeVars
<1>2. OthersSave(s)
    BY DEF SaveFail, Crash, EndSave, OthersSave, TypeOK, WalletType, SaveType, LoadType
<1>3. saving'[s] = "no"
    BY DEF SaveFail, Crash, EndSave, TypeOK, WalletType, SaveType, LoadType
<1>4. Unmarked(s)' = {}
    BY Zenon, <1>3 DEF Unmarked
<1>5. \A k \in Key : Pending(k) \/ k \in orphan => Pending(k)' \/ k \in orphan'
    BY Zenon, <1>1, <1>2, OthersKeep DEF Pending
<1>6. \A t \in Server, k \in Key :
        PendingElsewhere(t, k) \/ k \in orphan => PendingElsewhere(t, k)' \/ k \in orphan'
    BY ZenonT(60), <1>1, <1>2, OthersKeep DEF PendingElsewhere
<1>7. \A t \in Server : t # s =>
        /\ persisted'[t] = persisted[t] /\ revisions'[t] = revisions[t]
        /\ loading'[t] = loading[t] /\ listed'[t] = listed[t] /\ sections'[t] = sections[t]
        /\ known'[t] = known[t] /\ changed'[t] = changed[t] /\ updated'[t] = updated[t]
        /\ stamps'[t] = stamps[t] /\ readRevs'[t] = readRevs[t]
    <2>1. CASE SaveFail(s)
        BY Zenon, <2>1 DEF SaveFail, walletVars, loadVars
    <2>2. CASE Crash(s)
        BY ZenonT(60), <2>2 DEF Crash, EndLoad, TypeOK, WalletType, SaveType, LoadType
    <2> QED
        BY Zenon, <2>1, <2>2
<1>8. loading'[s] = "no"
    BY DEF SaveFail, Crash, EndLoad, loadVars, TypeOK, WalletType, SaveType, LoadType, Exclusive
<1>9. Exclusive' /\ ZeroInv'
    BY ZenonT(200), <1>1, <1>2, <1>3, <1>5, <1>7 DEF Exclusive, ZeroInv, OthersSave
<1>10. LoadInv'
    <2> SUFFICES ASSUME NEW t \in Server, loading'[t] = "rows"
                 PROVE  LoadInvAt(t)'
        BY Zenon DEF LoadInv
    <2>1. t # s
        BY Zenon, <1>8
    <2>2. LoadInvAt(t) /\ SameReload(t)
        BY Zenon, <1>7, <2>1 DEF LoadInv, SameReload
    <2> QED
        BY Zenon, <1>1, <1>5, <2>2, LoadKept
<1>11. SaveInv'
    <2> SUFFICES ASSUME NEW t \in Server, saving'[t] = "rows"
                 PROVE  SaveInvAt(t)'
        BY Zenon DEF SaveInv
    <2>1. t # s
        BY Zenon, <1>3
    <2>2. RowsDone(t)' <=> RowsDone(t)
        BY Zenon, <1>2, <2>1, OthersKeep
    <2>3. SaveInvAt(t) /\ SameSaveOf(t)
        BY Zenon, <1>2, <1>7, <2>1 DEF SaveInv, SameSaveOf, OthersSave
    <2> QED
        BY Zenon, <1>1, <1>6, <2>2, <2>3, SaveKept
<1>12. StaleIsDetected'
    <2> SUFFICES ASSUME NEW t \in Server, NEW k \in Key,
                        revisions'[t][SectionOf[k]] = revision[SectionOf[k]]
                 PROVE  persisted'[t][k] = backend[k] \/ Pending(k)' \/ k \in orphan'
        BY Zenon, <1>1 DEF StaleIsDetected, Fresh
    <2>1. CASE t # s
        <3>1. persisted'[t] = persisted[t] /\ revisions'[t] = revisions[t]
            BY Zenon, <1>7, <2>1
        <3> QED
            BY Zenon, <1>5, <3>1 DEF StaleIsDetected, Fresh
    <2>2. CASE SaveFail(s)
        BY Zenon, <1>5, <2>2 DEF SaveFail, walletVars, StaleIsDetected, Fresh
    <2>3. CASE t = s /\ Crash(s)
        <3>1. persisted'[s][k] = NoRow /\ revisions'[s][SectionOf[k]] = 0
            BY Zenon, <2>3, SectionOfAssumption DEF Crash, NoRows, NoRevisions, TypeOK,
               WalletType, SaveType, LoadType
        <3> QED
            BY Zenon, <1>5, <2>3, <3>1 DEF ZeroInv
    <2> QED
        BY Zenon, <2>1, <2>2, <2>3
<1> QED
    BY Zenon, <1>9, <1>10, <1>11, <1>12

--------------------------------------------------------------------------------
LEMMA DetectsStep == IInv /\ [Next]_vars => Detects'
<1> SUFFICES ASSUME IInv, [Next]_vars
             PROVE  Detects'
    BY Zenon
<1>1. CASE UNCHANGED vars
    <2>1. UNCHANGED <<backend, revision, persisted, revisions, orphan, saving, written, marked,
                      current, snapshot, next, saveRevs, own, moved, loading, listed, sections,
                      known, changed, updated, stamps, readRevs>>
        BY Zenon, <1>1 DEF vars
    <2>2. /\ \A k \in Key : Pending(k)' <=> Pending(k)
          /\ \A s \in Server, k \in Key : PendingElsewhere(s, k)' <=> PendingElsewhere(s, k)
          /\ \A s \in Server : RowsDone(s)' <=> RowsDone(s)
        BY Zenon, <2>1, SameSave
    <2>3. Exclusive' /\ ZeroInv' /\ StaleIsDetected'
        BY Zenon, <2>1, <2>2 DEF IInv, Detects, Exclusive, ZeroInv, StaleIsDetected, Fresh
    <2>4. SaveInv'
        BY Zenon, <2>1, SaveInvKept DEF IInv, Detects
    <2>5. LoadInv'
        BY Zenon, <2>1, <2>2, LoadKept DEF IInv, Detects, LoadInv, SameReload
    <2> QED
        BY Zenon, <2>3, <2>4, <2>5 DEF Detects
<1>2. ASSUME NEW s \in Server,
             \/ \E k \in Key, v \in MaybeValue : Edit(s, k, v)
             \/ Save(s) \/ Load(s) \/ SaveFail(s) \/ LoadFail(s) \/ Crash(s)
      PROVE  Detects'
    <2>1. CASE \E k \in Key, v \in MaybeValue : Edit(s, k, v)
        BY Zenon, <2>1, EditStep
    <2>2. CASE Save(s)
        <3>1. CASE SaveBegin(s, state[s])
            BY Zenon, <3>1, BeginStep
        <3>2. CASE \E k \in Key : SaveWrite(s, k) \/ SaveDelete(s, k)
            BY Zenon, <3>2, RowStep
        <3>3. CASE \E sec \in Section : SaveRevision(s, sec)
            BY Zenon, <3>3, BumpStep
        <3>4. CASE SaveInstall(s)
            BY Zenon, <3>4, SaveInstallStep
        <3> QED
            BY Zenon, <2>2, <3>1, <3>2, <3>3, <3>4 DEF Save
    <2>3. CASE Load(s)
        <3>1. CASE \/ \E withLog \in BOOLEAN : LoadCheck(s, withLog)
                   \/ LoadRevisions(s) \/ LoadKnown(s)
            BY Zenon, <3>1, LoadSteps
        <3>2. CASE \/ \E sec \in Section : LoadList(s, sec)
                   \/ LoadAll(s)
                   \/ \E k \in Key : LoadRow(s, k)
            BY Zenon, <3>2, ReadSteps
        <3>3. CASE LoadInstall(s, [k \in Key |-> Parsed(s, k)])
            BY Zenon, <3>3, InstallStep
        <3> QED
            BY Zenon, <2>3, <3>1, <3>2, <3>3 DEF Load
    <2>4. CASE SaveFail(s) \/ Crash(s)
        BY Zenon, <2>4, StopStep
    <2>5. CASE LoadFail(s)
        BY Zenon, <2>5, LoadSteps
    <2> QED
        BY Zenon, <1>2, <2>1, <2>2, <2>3, <2>4, <2>5
<1> QED
    BY Zenon, <1>1, <1>2 DEF Next

(* However the saves, reloads, faults and crashes of the servers           *)
(* interleave, a server whose cached revision of a section is the stored   *)
(* one knows every row of the section as stored, unless a save in flight   *)
(* or dead has not announced the row: loadSections reads the revisions     *)
(* before the rows and saveEntities bumps them after the rows.             *)
THEOREM StaleDetected == Spec => []StaleIsDetected
<1>1. Init => IInv
    BY Zenon, TypeInit, StampInit, DetectsInit DEF IInv
<1>2. IInv /\ [Next]_vars => IInv'
    BY Zenon, TypeStep, StampStep, DetectsStep DEF IInv
<1>3. IInv => StaleIsDetected
    BY Zenon DEF IInv, Detects
<1> QED
    BY <1>1, <1>2, <1>3, PTL DEF Spec

--------------------------------------------------------------------------------
(* What a wallet holds differs from the rows it knows only where it was    *)
(* changed and not saved.                                                  *)
OwnEdits(s) == \A k \in Key : state[s][k] # persisted[s][k].data => k \in edited[s]

(* The rows a save holds are those of the wallet it began with, as far as  *)
(* it has come, and the wallet has moved on only by changes of its own.    *)
SavedEdits(s) ==
    /\ \A k \in Key : state[s][k] # current[s][k] => k \in edited[s]
    /\ \A k \in written[s] : next[s][k].data = current[s][k]
    /\ \A k \in Key \ written[s] : next[s][k] = snapshot[s][k]

(* What a reload holds: a row with the known stamp has the known bytes.    *)
LoadedEdits(s) ==
    /\ \A k \in Key : held[s][k] # known[s][k].data => k \in edited[s]
    /\ \A k \in Key : updated[s][k].stamp = known[s][k].stamp =>
                        updated[s][k] = NoRow \/ updated[s][k] = known[s][k]
    /\ \A k \in changed[s] : stamps[s][k] # known[s][k].stamp

EditInvAt(s) ==
    /\ ~moved[s]
    /\ OwnEdits(s)
    /\ saving[s] = "rows" => SavedEdits(s)
    /\ loading[s] = "rows" => LoadedEdits(s)

EditInv == \A s \in Server : EditInvAt(s)
(* All that EditInvAt is about belongs to one server.                      *)
SameServer(s) ==
    /\ moved'[s] = moved[s] /\ state'[s] = state[s] /\ persisted'[s] = persisted[s]
    /\ edited'[s] = edited[s]
    /\ saving'[s] = saving[s] /\ current'[s] = current[s] /\ written'[s] = written[s]
    /\ next'[s] = next[s] /\ snapshot'[s] = snapshot[s]
    /\ loading'[s] = loading[s] /\ held'[s] = held[s] /\ known'[s] = known[s]
    /\ updated'[s] = updated[s] /\ changed'[s] = changed[s] /\ stamps'[s] = stamps[s]

LEMMA EditKept ==
    ASSUME NEW s \in Server, EditInvAt(s), SameServer(s)
    PROVE  EditInvAt(s)'
BY ZenonT(200) DEF SameServer, EditInvAt, OwnEdits, SavedEdits, LoadedEdits

LEMMA EditInit == Init => EditInv
BY DEF Init, EditInv, EditInvAt, OwnEdits, NoRows, NoValues, NoRow

(* A step of one server is no step of another.                             *)
LEMMA OthersSame ==
    ASSUME TypeOK, NEW s \in Server,
           \/ \E k \in Key, v \in MaybeValue : Edit(s, k, v)
           \/ Save(s) \/ Load(s) \/ SaveFail(s) \/ LoadFail(s) \/ Crash(s),
           NEW t \in Server, t # s
    PROVE  SameServer(t)
<1> USE DEF TypeOK, WalletType, SaveType, LoadType, HistoryType, SameServer
<1>1. CASE \E k \in Key, v \in MaybeValue : Edit(s, k, v)
    BY <1>1 DEF Edit, saveVars, loadVars
<1>2. CASE SaveBegin(s, state[s])
    BY ZenonT(60), <1>2 DEF SaveBegin, walletVars, loadVars
<1>3. CASE \E k \in Key : SaveWrite(s, k) \/ SaveDelete(s, k)
    BY <1>3 DEF SaveWrite, SaveDelete, walletVars, loadVars
<1>4. CASE \E sec \in Section : SaveRevision(s, sec)
    BY Zenon, <1>4 DEF SaveRevision, walletVars, loadVars
<1>5. CASE SaveInstall(s)
    BY ZenonT(60), <1>5 DEF SaveInstall, EndSave, loadVars
<1>6. CASE SaveFail(s)
    BY Zenon, <1>6 DEF SaveFail, EndSave, walletVars, loadVars
<1>7. CASE \/ \E withLog \in BOOLEAN : LoadCheck(s, withLog)
           \/ LoadRevisions(s) \/ LoadKnown(s)
    BY <1>7 DEF LoadCheck, LoadRevisions, LoadKnown, walletVars, saveVars
<1>8. CASE \E sec \in Section : LoadList(s, sec)
    <2> PICK sec \in Section : LoadList(s, sec)
        BY Zenon, <1>8
    <2>1. UNCHANGED <<walletVars, saveVars, moved, loading, known, held, edited>>
        BY Zenon DEF LoadList
    <2>2. changed'[t] = changed[t]
        BY Zenon DEF LoadList
    <2>3. updated'[t] = updated[t] /\ stamps'[t] = stamps[t]
        BY Zenon DEF LoadList
    <2> QED
        BY Zenon, <2>1, <2>2, <2>3 DEF walletVars, saveVars
<1>9. CASE LoadAll(s)
    BY ZenonT(60), <1>9 DEF LoadAll, walletVars, saveVars
<1>10. CASE \E k \in Key : LoadRow(s, k)
    <2> PICK k \in Key : LoadRow(s, k)
        BY Zenon, <1>10
    <2>1. UNCHANGED <<walletVars, saveVars, moved, loading, known, held, stamps, edited>>
        BY Zenon DEF LoadRow
    <2>2. changed'[t] = changed[t]
        BY ZenonT(60) DEF LoadRow
    <2>3. updated'[t] = updated[t]
        BY ZenonT(60) DEF LoadRow
    <2> QED
        BY Zenon, <2>1, <2>2, <2>3 DEF walletVars, saveVars
<1>11. CASE LoadInstall(s, [k \in Key |-> Parsed(s, k)])
    BY ZenonT(60), <1>11 DEF LoadInstall, EndLoad, saveVars
<1>12. CASE LoadFail(s)
    BY ZenonT(60), <1>12 DEF LoadFail, EndLoad, walletVars, saveVars
<1>13. CASE Crash(s)
    BY ZenonT(60), <1>13 DEF Crash, EndSave, EndLoad
<1> QED
    BY Zenon, <1>1, <1>2, <1>3, <1>4, <1>5, <1>6, <1>7, <1>8, <1>9, <1>10, <1>11, <1>12, <1>13
       DEF Save, Load

LEMMA EditEdits ==
    ASSUME IInv, NEW s \in Server, EditInvAt(s), NEW k \in Key, NEW v \in MaybeValue, Edit(s, k, v)
    PROVE  EditInvAt(s)'
<1>1. /\ UNCHANGED <<persisted, saveVars, moved, loadVars>>
      /\ \A j \in Key : j # k => state'[s][j] = state[s][j]
      /\ edited'[s] = edited[s] \cup {k}
    BY Zenon DEF Edit, IInv, TypeOK, WalletType, HistoryType
<1> QED
    BY Zenon, <1>1 DEF EditInvAt, OwnEdits, SavedEdits, LoadedEdits, saveVars, loadVars

LEMMA SaveEdits ==
    ASSUME IInv, NEW s \in Server, EditInvAt(s),
           \/ SaveBegin(s, state[s])
           \/ \E k \in Key : SaveWrite(s, k) \/ SaveDelete(s, k)
           \/ \E sec \in Section : SaveRevision(s, sec)
           \/ SaveFail(s)
    PROVE  EditInvAt(s)'
<1> USE DEF IInv, TypeOK, WalletType, SaveType
<1>1. CASE SaveBegin(s, state[s])
    <2>1. /\ UNCHANGED <<state, persisted, edited, loadVars>> /\ loading[s] = "no"
          /\ current'[s] = state[s] /\ written'[s] = {}
          /\ next'[s] = persisted[s] /\ snapshot'[s] = persisted[s] /\ moved'[s] = FALSE
        BY Zenon, <1>1 DEF SaveBegin, walletVars
    <2> QED
        BY Zenon, <2>1 DEF EditInvAt, OwnEdits, SavedEdits, loadVars
<1>2. ASSUME NEW k \in Key, SaveWrite(s, k) \/ SaveDelete(s, k)
      PROVE  EditInvAt(s)'
    <2>1. /\ UNCHANGED <<state, persisted, edited, moved, saving, current, snapshot, loadVars>>
          /\ saving[s] = "rows" /\ written'[s] = written[s] \cup {k}
          /\ \A j \in Key : j # k => next'[s][j] = next[s][j]
        BY <1>2 DEF SaveWrite, SaveDelete, walletVars, Snapshot
    <2>2. next'[s][k].data = current[s][k]
        <3>1. CASE SaveWrite(s, k)
            <4>1. next' = [next EXCEPT ![s][k] = [data |-> current[s][k], stamp |-> NextStamp(k)]]
                BY ZenonT(60), <3>1 DEF SaveWrite
            <4> QED
                BY <4>1 DEF Snapshot
        <3>2. CASE SaveDelete(s, k)
            <4>1. next' = [next EXCEPT ![s][k] = NoRow] /\ current[s][k] = NoValue
                BY Zenon, <3>2 DEF SaveDelete, ToDelete
            <4> QED
                BY <4>1 DEF Snapshot, NoRow
        <3> QED
            BY ZenonT(60), <1>2, <3>1, <3>2
    <2>3. loading[s] = "no"
        BY Zenon, <2>1 DEF Detects, Exclusive
    <2> QED
        BY ZenonT(60), <2>1, <2>2, <2>3 DEF EditInvAt, OwnEdits, SavedEdits, loadVars
<1>3. CASE \E sec \in Section : SaveRevision(s, sec)
    <2>1. SameServer(s)
        BY Zenon, <1>3 DEF SaveRevision, SameServer, walletVars, loadVars
    <2> QED
        BY Zenon, <2>1, EditKept
<1>4. CASE SaveFail(s)
    <2>1. /\ UNCHANGED <<state, persisted, edited, loadVars>>
          /\ saving'[s] = "no" /\ moved'[s] = FALSE
        BY Zenon, <1>4 DEF SaveFail, EndSave, walletVars
    <2> QED
        BY Zenon, <2>1 DEF EditInvAt, OwnEdits, LoadedEdits, loadVars
<1> QED
    BY Zenon, <1>1, <1>2, <1>3, <1>4

(* The rows a finished save installs are those of the wallet it saved.     *)
LEMMA InstallEdits ==
    ASSUME IInv, NEW s \in Server, EditInvAt(s), SaveInstall(s)
    PROVE  EditInvAt(s)'
<1> USE DEF IInv, TypeOK, WalletType, SaveType, HistoryType
<1>1. /\ saving[s] = "rows" /\ RowsDone(s) /\ ~moved[s]
      /\ UNCHANGED <<state, loadVars>>
      /\ saving'[s] = "no" /\ moved'[s] = FALSE
    BY Zenon DEF SaveInstall, EndSave, EditInvAt
<1>2. /\ persisted'[s] = next[s]
      /\ edited'[s] = {k \in edited[s] : state[s][k] # current[s][k]}
    BY ZenonT(60), <1>1 DEF SaveInstall
<1>3. loading[s] = "no"
    BY Zenon, <1>1 DEF Detects, Exclusive
<1>4. \A k \in Key : next[s][k].data = current[s][k]
    <2> SUFFICES ASSUME NEW k \in Key \ written[s] PROVE next[s][k].data = current[s][k]
        BY Zenon, <1>1 DEF EditInvAt, SavedEdits
    <2>1. next[s][k] = snapshot[s][k]
        BY Zenon, <1>1 DEF EditInvAt, SavedEdits
    <2>2. k \notin ToWrite(s) /\ k \notin ToDelete(s)
        BY Zenon, <1>1 DEF RowsDone
    <2> QED
        BY SMTT(60), <2>1, <2>2 DEF ToWrite, ToDelete, NoRow
<1> QED
    BY Zenon, <1>1, <1>2, <1>3, <1>4 DEF EditInvAt, OwnEdits, SavedEdits, loadVars
LEMMA ListedStamps ==
    ASSUME TypeOK, NEW s \in Server, NEW sec \in Section, LoadList(s, sec)
    PROVE  \A k \in changed'[s] : stamps'[s][k] # known[s][k].stamp
<1>1. /\ \A k \in Key : stamps'[s][k] = IF SectionOf[k] = sec THEN backend[k].stamp
                                        ELSE stamps[s][k]
      /\ changed'[s] = {k \in Key : /\ SectionOf[k] = sec
                                    /\ backend[k] # NoRow
                                    /\ known[s][k].stamp # backend[k].stamp}
    BY Zenon DEF LoadList, TypeOK, StoreType, LoadType, KeysOf
<1> QED
    BY Zenon, <1>1

LEMMA ListEdits ==
    ASSUME IInv, NEW s \in Server, EditInvAt(s),
           \/ \E withLog \in BOOLEAN : LoadCheck(s, withLog)
           \/ LoadRevisions(s) \/ LoadKnown(s)
           \/ \E sec \in Section : LoadList(s, sec)
    PROVE  EditInvAt(s)'
<1> USE DEF IInv, TypeOK, WalletType, LoadType
<1>1. CASE (\E withLog \in BOOLEAN : LoadCheck(s, withLog)) \/ LoadRevisions(s)
    <2>1. /\ UNCHANGED <<state, persisted, edited, saveVars, moved>>
          /\ loading'[s] # "rows"
        BY ZenonT(60), <1>1 DEF LoadCheck, LoadRevisions, walletVars
    <2> QED
        BY Zenon, <2>1 DEF EditInvAt, OwnEdits, SavedEdits, saveVars
<1>2. CASE LoadKnown(s)
    <2>1. /\ UNCHANGED <<state, persisted, edited, saveVars, moved>>
          /\ known'[s] = persisted[s] /\ held'[s] = state[s]
          /\ updated'[s] = persisted[s] /\ changed'[s] = {}
        BY Zenon, <1>2 DEF LoadKnown, walletVars
    <2> QED
        BY Zenon, <2>1 DEF EditInvAt, OwnEdits, SavedEdits, LoadedEdits, saveVars
<1>3. ASSUME NEW sec \in Section, LoadList(s, sec)
      PROVE  EditInvAt(s)'
    <2>1. /\ UNCHANGED <<state, persisted, edited, saveVars, moved, loading, known, held>>
          /\ loading[s] = "rows"
        BY Zenon, <1>3 DEF LoadList, walletVars
    <2>2. \A k \in Key : updated'[s][k] = NoRow \/ updated'[s][k] = updated[s][k]
        BY ZenonT(200), <1>3 DEF LoadList, Snapshot
    <2>3. \A k \in changed'[s] : stamps'[s][k] # known[s][k].stamp
        BY Zenon, <1>3, ListedStamps
    <2> QED
        BY ZenonT(60), <2>1, <2>2, <2>3 DEF EditInvAt, OwnEdits, SavedEdits, LoadedEdits, saveVars
<1> QED
    BY Zenon, <1>1, <1>2, <1>3

(* A row that is read has another stamp than the known one, or is the      *)
(* known one: a stamp identifies the bytes of a row.                       *)
LEMMA RowEdits ==
    ASSUME IInv, NEW s \in Server, EditInvAt(s),
           LoadAll(s) \/ \E k \in Key : LoadRow(s, k)
    PROVE  EditInvAt(s)'
<1> USE DEF IInv, TypeOK, StoreType, WalletType, LoadType
<1>1. CASE LoadAll(s)
    <2>1. /\ UNCHANGED <<state, persisted, edited, saveVars, moved, loading, known, held, stamps>>
          /\ loading[s] = "rows" /\ changed'[s] \subseteq changed[s]
        BY Zenon, <1>1 DEF LoadAll, walletVars
    <2>2. \A k \in Key :
            \/ updated'[s][k] = updated[s][k]
            \/ backend[k] # NoRow /\ updated'[s][k] = backend[k]
        <3> DEFINE present == {k \in Key : backend[k] # NoRow
                                 /\ \E c \in changed[s] : SectionOf[k] = SectionOf[c]}
        <3>1. updated'[s] = [k \in Key |-> IF k \in present THEN backend[k] ELSE updated[s][k]]
            BY ZenonT(200), <1>1 DEF LoadAll
        <3> QED
            BY Zenon, <3>1
    <2>3. \A k \in Key : backend[k] # NoRow /\ backend[k].stamp = known[s][k].stamp
                            => backend[k] = known[s][k]
        BY DEF StampInv, Sound, SoundAt, Blob, Snapshot, NoRow, MaybeValue
    <2> QED
        BY ZenonT(60), <2>1, <2>2, <2>3 DEF EditInvAt, OwnEdits, SavedEdits, LoadedEdits, saveVars
<1>2. ASSUME NEW k \in Key, LoadRow(s, k)
      PROVE  EditInvAt(s)'
    <2>1. /\ UNCHANGED <<state, persisted, edited, saveVars, moved, loading, known, held, stamps>>
          /\ loading[s] = "rows" /\ changed'[s] \subseteq changed[s] /\ k \in changed[s]
        BY ZenonT(200), <1>2 DEF LoadRow, walletVars
    <2>2. /\ \A j \in Key : j # k => updated'[s][j] = updated[s][j]
          /\ updated'[s][k] = NoRow \/ updated'[s][k].stamp = stamps[s][k]
        BY <1>2 DEF LoadRow, Snapshot
    <2>3. stamps[s][k] # known[s][k].stamp
        BY Zenon, <2>1 DEF EditInvAt, LoadedEdits
    <2> QED
        BY Zenon, <2>1, <2>2, <2>3 DEF EditInvAt, OwnEdits, SavedEdits, LoadedEdits, saveVars
<1> QED
    BY Zenon, <1>1, <1>2

(* The wallet takes the rows it read, and keeps an object of its own only  *)
(* where the row is the one it knew.                                       *)
LEMMA TakeEdits ==
    ASSUME IInv, NEW s \in Server, EditInvAt(s),
           LoadInstall(s, [k \in Key |-> Parsed(s, k)])
    PROVE  EditInvAt(s)'
<1> USE DEF IInv, TypeOK, StoreType, WalletType, LoadType
<1>1. /\ loading[s] = "rows" /\ listed[s] = sections[s]
      /\ UNCHANGED <<edited, saveVars>>
      /\ persisted'[s] = updated[s] /\ moved'[s] = (saving[s] # "no")
      /\ loading'[s] = "no"
    BY Zenon DEF LoadInstall, EndLoad, HistoryType, SaveType
<1>2. \A k \in Key :
        state'[s][k] = IF SectionOf[k] \in sections[s] THEN Parsed(s, k) ELSE state[s][k]
    <2>1. state'[s] = [k \in Key |-> IF SectionOf[k] \in sections[s] THEN Parsed(s, k) ELSE state[s][k]]
        BY Zenon DEF LoadInstall
    <2> QED
        BY Zenon, <2>1
<1>3. saving[s] = "no"
    BY Zenon, <1>1 DEF Detects, Exclusive, SaveType
<1>4. OwnEdits(s)'
    <2> SUFFICES ASSUME NEW k \in Key, state'[s][k] # updated[s][k].data
                 PROVE  k \in edited[s]
        BY Zenon, <1>1 DEF OwnEdits
    <2>1. CASE SectionOf[k] \in sections[s]
        <3>1. held[s][k] # updated[s][k].data /\ updated[s][k] # NoRow
              /\ known[s][k].stamp = updated[s][k].stamp
            BY SMTT(120), <1>2, <2>1 DEF Parsed, NoRow
        <3> QED
            BY ZenonT(60), <1>1, <3>1 DEF EditInvAt, LoadedEdits
    <2>2. CASE SectionOf[k] \notin sections[s]
        <3>1. updated[s][k] = persisted[s][k]
            BY Zenon, <1>1, <2>2 DEF Detects, LoadInv, LoadInvAt
        <3> QED
            BY SMTT(60), <1>2, <2>2, <3>1 DEF EditInvAt, OwnEdits
    <2> QED
        BY Zenon, <2>1, <2>2
<1> QED
    BY Zenon, <1>1, <1>3, <1>4 DEF EditInvAt, saveVars

LEMMA EndEdits ==
    ASSUME IInv, NEW s \in Server, EditInvAt(s), LoadFail(s) \/ Crash(s)
    PROVE  EditInvAt(s)'
<1> USE DEF IInv, TypeOK, WalletType, LoadType
<1>1. CASE LoadFail(s)
    <2>1. /\ UNCHANGED <<state, persisted, edited, saveVars, moved>>
          /\ loading'[s] = "no"
        BY Zenon, <1>1 DEF LoadFail, EndLoad, walletVars
    <2> QED
        BY Zenon, <2>1 DEF EditInvAt, OwnEdits, SavedEdits, saveVars
<1>2. CASE Crash(s)
    <2>1. /\ loading'[s] = "no" /\ saving'[s] = "no" /\ moved'[s] = FALSE
          /\ state'[s] = NoValues /\ persisted'[s] = NoRows
        BY ZenonT(60), <1>2 DEF Crash, EndLoad, EndSave, SaveType
    <2>2. \A k \in Key : NoValues[k] = NoValue /\ NoRows[k].data = NoValue
        BY DEF NoValues, NoRows, NoRow
    <2>3. OwnEdits(s)'
        BY Zenon, <2>1, <2>2 DEF OwnEdits
    <2> QED
        BY Zenon, <2>1, <2>3 DEF EditInvAt
<1> QED
    BY Zenon, <1>1, <1>2

LEMMA EditStays == IInv /\ EditInv /\ [Next]_vars => EditInv'
<1> SUFFICES ASSUME IInv, EditInv, [Next]_vars
             PROVE  EditInv'
    BY Zenon
<1>1. CASE UNCHANGED vars
    BY Zenon, <1>1, EditKept DEF vars, EditInv, SameServer
<1>2. ASSUME NEW s \in Server,
             \/ \E k \in Key, v \in MaybeValue : Edit(s, k, v)
             \/ Save(s) \/ Load(s) \/ SaveFail(s) \/ LoadFail(s) \/ Crash(s)
      PROVE  EditInv'
    <2>1. EditInvAt(s)
        BY Zenon DEF EditInv
    <2>2. EditInvAt(s)'
        BY ZenonT(60), <1>2, <2>1, EditEdits, SaveEdits, InstallEdits, ListEdits, RowEdits, TakeEdits,
           EndEdits DEF Save, Load
    <2>3. \A t \in Server : t # s => EditInvAt(t)'
        BY Zenon, <1>2, OthersSame, EditKept DEF EditInv, IInv
    <2> QED
        BY Zenon, <2>2, <2>3 DEF EditInv
<1> QED
    BY Zenon, <1>1, <1>2 DEF Next

(* A save writes and deletes only rows of entities that were changed in    *)
(* memory since they were last read or saved.                              *)
THEOREM OnlyOwnEditsSaved == Spec => []SavesOnlyOwnEdits
<1>1. Init => IInv
    BY Zenon, TypeInit, StampInit, DetectsInit DEF IInv
<1>2. IInv /\ [Next]_vars => IInv'
    BY Zenon, TypeStep, StampStep, DetectsStep DEF IInv
<1>3. IInv /\ EditInv => SavesOnlyOwnEdits
    BY Zenon DEF EditInv, EditInvAt, OwnEdits, SavesOnlyOwnEdits
<1> QED
    BY <1>1, <1>2, <1>3, EditInit, EditStays, PTL DEF Spec
================================================================================
