--------------------------- MODULE EntityStoreStamps ---------------------------
(***************************************************************************)
(* Type correctness of EntityStore, and that a stamp identifies the bytes  *)
(* of a row: the stamp a server knows is the stored stamp only if the      *)
(* bytes it knows are the stored ones.  For any number of servers,         *)
(* entities and sections, and any number of changes and faults.            *)
(***************************************************************************)
EXTENDS EntityStore, TLAPS

USE SectionOfAssumption, ServerSectionsAssumption, NoValueAssumption

LEMMA NoRowType == NoRow \in Blob /\ NoRows \in Snapshot /\ NoValues \in [Key -> MaybeValue]
                   /\ NoRevisions \in [Section -> Nat]
BY Zenon DEF NoRow, Blob, NoRows, Snapshot, NoValues, MaybeValue, NoRevisions

LEMMA TypeInit == Init => TypeOK
BY SMTT(30), NoRowType DEF Init, TypeOK, StoreType, WalletType, SaveType, LoadType, HistoryType

LEMMA TypeStep == TypeOK /\ [Next]_vars => TypeOK'
<1> SUFFICES ASSUME TypeOK, [Next]_vars PROVE TypeOK'
    BY ZenonT(60)
<1> USE NoRowType DEF TypeOK, StoreType, WalletType, SaveType, LoadType, HistoryType
<1>1. ASSUME NEW s \in Server, NEW k \in Key, NEW v \in MaybeValue, Edit(s, k, v)
      PROVE  TypeOK'
    BY SMTT(60), <1>1 DEF Edit, storeVars, saveVars, loadVars, Snapshot
<1>2. ASSUME NEW s \in Server, SaveBegin(s, state[s])
      PROVE  TypeOK'
    BY Zenon, <1>2 DEF SaveBegin, storeVars, walletVars, loadVars
<1>3. ASSUME NEW s \in Server, NEW k \in Key, SaveWrite(s, k)
      PROVE  TypeOK'
    <2>1. current[s][k] \in MaybeValue /\ seq + 1 \in Nat
        OBVIOUS
    <2>2. [data |-> current[s][k], stamp |-> seq + 1] \in Blob
        BY Zenon, <2>1 DEF Blob
    <2>3. backend' \in Snapshot /\ next' \in [Server -> Snapshot]
        BY ZenonT(60), <1>3, <2>2 DEF SaveWrite, NextStamp, Snapshot
    <2> QED
        BY SMTT(60), <1>3, <2>3 DEF SaveWrite, walletVars, loadVars
<1>4. ASSUME NEW s \in Server, NEW k \in Key, SaveDelete(s, k)
      PROVE  TypeOK'
    <2>1. backend' \in Snapshot /\ next' \in [Server -> Snapshot]
        BY Zenon, <1>4 DEF SaveDelete, Snapshot
    <2> QED
        BY SMTT(60), <1>4, <2>1 DEF SaveDelete, walletVars, loadVars
<1>5. ASSUME NEW s \in Server, NEW sec \in Section, SaveRevision(s, sec)
      PROVE  TypeOK'
    BY SMTT(60), <1>5 DEF SaveRevision, walletVars, loadVars
<1>6. ASSUME NEW s \in Server, SaveInstall(s)
      PROVE  TypeOK'
    <2>1. persisted' \in [Server -> Snapshot] /\ revisions' \in [Server -> [Section -> Nat]]
        <3>1. CASE moved[s]
            BY Zenon, <1>6, <3>1 DEF SaveInstall
        <3>2. CASE ~moved[s]
            <4> DEFINE r == [sec \in Section |->
                                IF own[s][sec] # 0 THEN own[s][sec] ELSE revisions[s][sec]]
            <4>1. r \in [Section -> Nat]
                OBVIOUS
            <4>2. persisted' = [persisted EXCEPT ![s] = next[s]] /\ revisions' = [revisions EXCEPT ![s] = r]
                BY Zenon, <1>6, <3>2 DEF SaveInstall
            <4> HIDE DEF r
            <4> QED
                BY Zenon, <4>1, <4>2
        <3> QED
            BY Zenon, <3>1, <3>2
    <2>2. edited' \in [Server -> SUBSET Key]
        BY ZenonT(60), <1>6 DEF SaveInstall
    <2> QED
        BY Zenon, <1>6, <2>1, <2>2 DEF SaveInstall, EndSave, storeVars, loadVars
<1>7. ASSUME NEW s \in Server, SaveFail(s)
      PROVE  TypeOK'
    BY SMTT(120), <1>7 DEF SaveFail, EndSave, Unmarked, storeVars, walletVars, loadVars
<1>8. ASSUME NEW s \in Server, NEW withLog \in BOOLEAN, LoadCheck(s, withLog)
      PROVE  TypeOK'
    BY Zenon, <1>8 DEF LoadCheck, StaleSections, storeVars, walletVars, saveVars
<1>9. ASSUME NEW s \in Server, LoadRevisions(s)
      PROVE  TypeOK'
    BY Zenon, <1>9 DEF LoadRevisions, storeVars, walletVars, saveVars
<1>10. ASSUME NEW s \in Server, LoadKnown(s)
      PROVE  TypeOK'
    BY Zenon, <1>10 DEF LoadKnown, storeVars, walletVars, saveVars
<1>11. ASSUME NEW s \in Server, NEW sec \in Section, LoadList(s, sec)
      PROVE  TypeOK'
    <2>1. updated' \in [Server -> Snapshot] /\ stamps' \in [Server -> [Key -> Nat]]
        BY <1>11 DEF LoadList, Snapshot, Blob
    <2> QED
        BY SMTT(60), <1>11, <2>1 DEF LoadList, KeysOf, storeVars, walletVars, saveVars
<1>12. ASSUME NEW s \in Server, LoadAll(s)
      PROVE  TypeOK'
    <2>1. updated' \in [Server -> Snapshot]
        BY <1>12 DEF LoadAll, Snapshot
    <2> QED
        BY ZenonT(60), <1>12, <2>1 DEF LoadAll, storeVars, walletVars, saveVars
<1>13. ASSUME NEW s \in Server, NEW k \in Key, LoadRow(s, k)
      PROVE  TypeOK'
    <2>1. backend[k] \in Blob /\ stamps[s][k] \in Nat
        BY ZenonT(60) DEF Snapshot
    <2>2. [data |-> backend[k].data, stamp |-> stamps[s][k]] \in Blob
        BY Zenon, <2>1 DEF Blob
    <2>3. updated' \in [Server -> Snapshot]
        BY Zenon, <1>13, <2>2 DEF LoadRow, Snapshot
    <2> QED
        BY Zenon, <1>13, <2>3 DEF LoadRow, storeVars, walletVars, saveVars
<1>14. ASSUME NEW s \in Server, LoadInstall(s, [k \in Key |-> Parsed(s, k)])
      PROVE  TypeOK'
    <2>1. \A k \in Key : Parsed(s, k) \in MaybeValue
        BY DEF Parsed, Snapshot, Blob, MaybeValue
    <2>2. state' \in [Server -> [Key -> MaybeValue]]
        BY SMTT(60), <1>14, <2>1 DEF LoadInstall
    <2> QED
        BY SMTT(60), <1>14, <2>2 DEF LoadInstall, EndLoad, storeVars, saveVars
<1>15. ASSUME NEW s \in Server, LoadFail(s)
      PROVE  TypeOK'
    BY SMTT(60), <1>15 DEF LoadFail, EndLoad, storeVars, walletVars, saveVars
<1>16. ASSUME NEW s \in Server, Crash(s)
      PROVE  TypeOK'
    <2>1. WalletType' /\ StoreType'
        BY SMTT(60), <1>16 DEF Crash, storeVars
    <2>2. SaveType'
        BY SMTT(120), <1>16 DEF Crash, EndSave
    <2>3. LoadType'
        BY SMTT(60), <1>16 DEF Crash, EndLoad
    <2>4. HistoryType'
        BY <1>16 DEF Crash, Unmarked
    <2> QED
        BY Zenon, <2>1, <2>2, <2>3, <2>4
<1>17. CASE UNCHANGED vars
    BY Zenon, <1>17 DEF vars
<1> QED
    BY ZenonT(60), <1>1, <1>2, <1>3, <1>4, <1>5, <1>6, <1>7, <1>8, <1>9, <1>10, <1>11, <1>12,
       <1>13, <1>14, <1>15, <1>16, <1>17 DEF Next, Save, Load

(* Every reachable state of the store and of the servers is well formed.     *)
THEOREM TypeCorrect == Spec => []TypeOK
BY TypeInit, TypeStep, PTL DEF Spec

--------------------------------------------------------------------------------
(* A snapshot of entity rows against a table: no stamp is newer than the   *)
(* sequence, only the missing row has no stamp, and an equal stamp means   *)
(* equal bytes.                                                            *)
SoundAt(snap, table, top) ==
    \A k \in Key : /\ snap[k].stamp <= top
                   /\ snap[k].stamp = 0 => snap[k] = NoRow
                   /\ snap[k].stamp = table[k].stamp => snap[k] = table[k]

Sound(snap) == SoundAt(snap, backend, seq)

StampInv ==
    /\ Sound(backend)
    /\ \A sec \in Section : revision[sec] <= seq
    /\ \A s \in Server :
          /\ Sound(persisted[s]) /\ Sound(snapshot[s]) /\ Sound(next[s])
          /\ Sound(known[s]) /\ Sound(updated[s])
          /\ \A sec \in Section : /\ revisions[s][sec] <= seq
                                  /\ saveRevs[s][sec] <= seq
                                  /\ own[s][sec] <= seq
                                  /\ readRevs[s][sec] <= seq
          /\ \A k \in Key : stamps[s][k] <= seq
          /\ \A k \in changed[s] : stamps[s][k] # 0

--------------------------------------------------------------------------------
LEMMA SoundBump ==
    ASSUME NEW snap \in Snapshot, NEW table \in Snapshot, NEW top \in Nat,
           SoundAt(snap, table, top)
    PROVE  SoundAt(snap, table, top + 1)
BY DEF SoundAt, Snapshot, Blob

LEMMA SoundDelete ==
    ASSUME NEW snap \in Snapshot, NEW table \in Snapshot, NEW top \in Nat, NEW k \in Key,
           SoundAt(snap, table, top)
    PROVE  SoundAt(snap, [table EXCEPT ![k] = NoRow], top)
BY Zenon DEF SoundAt, Snapshot, Blob, NoRow

LEMMA SoundWrite ==
    ASSUME NEW snap \in Snapshot, NEW table \in Snapshot, NEW top \in Nat, NEW k \in Key,
           NEW b \in Blob, b.stamp = top + 1, SoundAt(snap, table, top)
    PROVE  SoundAt(snap, [table EXCEPT ![k] = b], top + 1)
BY DEF SoundAt, Snapshot, Blob

LEMMA SoundSet ==
    ASSUME NEW snap \in Snapshot, NEW table \in Snapshot, NEW top \in Nat, NEW k \in Key,
           NEW b \in Blob, b.stamp <= top, b.stamp = 0 => b = NoRow,
           b.stamp = table[k].stamp => b = table[k], SoundAt(snap, table, top)
    PROVE  SoundAt([snap EXCEPT ![k] = b], table, top)
BY Zenon DEF SoundAt, Snapshot, Blob

LEMMA SoundNoRows ==
    ASSUME NEW table \in Snapshot, NEW top \in Nat, SoundAt(table, table, top)
    PROVE  SoundAt(NoRows, table, top)
BY SMTT(60) DEF SoundAt, Snapshot, Blob, NoRows, NoRow

LEMMA StampInit == Init => StampInv
BY DEF Init, StampInv, Sound, SoundAt, NoRows, NoRow, NoRevisions

LEMMA StampStep == TypeOK /\ StampInv /\ [Next]_vars => StampInv'
<1> SUFFICES ASSUME TypeOK, StampInv, [Next]_vars PROVE StampInv'
    BY Zenon
<1> USE DEF Sound, TypeOK, StoreType, WalletType, SaveType, LoadType, HistoryType
<1>0. SoundAt(NoRows, backend, seq)
    BY Zenon, SoundNoRows DEF StampInv
<1>1. ASSUME NEW s \in Server, NEW k \in Key, NEW v \in MaybeValue, Edit(s, k, v)
      PROVE  StampInv'
    BY ZenonT(60), <1>1 DEF Edit, StampInv, storeVars, saveVars, loadVars
<1>2. ASSUME NEW s \in Server, SaveBegin(s, state[s])
      PROVE  StampInv'
    BY <1>2 DEF SaveBegin, StampInv, storeVars, walletVars, loadVars, NoRevisions
<1>3. ASSUME NEW s \in Server, NEW k \in Key, SaveWrite(s, k)
      PROVE  StampInv'
    <2> DEFINE b == [data |-> current[s][k], stamp |-> seq + 1]
    <2>1. b \in Blob /\ b.stamp = seq + 1 /\ seq + 1 # 0
        BY SMTT(60) DEF Blob
    <2>2. backend' = [backend EXCEPT ![k] = b] /\ seq' = seq + 1
          /\ next' = [next EXCEPT ![s][k] = b]
        BY Zenon, <1>3 DEF SaveWrite, NextStamp
    <2> HIDE DEF b
    <2>3. \A snap \in Snapshot : SoundAt(snap, backend, seq) => SoundAt(snap, backend', seq')
        BY ZenonT(60), <2>1, <2>2, SoundWrite
    <2>4. backend' \in Snapshot /\ seq' \in Nat
        BY <2>1, <2>2 DEF Snapshot
    <2>5. backend'[k] = b
        BY Zenon, <2>2 DEF Snapshot
    <2>6. \A snap \in Snapshot : SoundAt(snap, backend', seq') => SoundAt([snap EXCEPT ![k] = b], backend', seq')
        <3> SUFFICES ASSUME NEW snap \in Snapshot, SoundAt(snap, backend', seq')
                     PROVE  SoundAt([snap EXCEPT ![k] = b], backend', seq')
            BY ZenonT(60)
        <3>1. b.stamp <= seq'
            BY <2>1, <2>2
        <3> QED
            BY Zenon, <2>1, <2>4, <2>5, <3>1, SoundSet
    <2>7. SoundAt(backend', backend', seq')
        BY Zenon, <2>2, <2>3, <2>6 DEF StampInv
    <2>8. \A t \in Server : SoundAt(next'[t], backend', seq')
        <3> TAKE t \in Server
        <3>1. SoundAt(next[t], backend', seq') /\ next[t] \in Snapshot
            BY ZenonT(60), <2>3 DEF StampInv
        <3>2. CASE t = s
            <4>1. next'[s] = [next[s] EXCEPT ![k] = b]
                BY Zenon, <2>2
            <4> QED
                BY <2>6, <3>1, <3>2, <4>1
        <3>3. CASE t # s
            BY Zenon, <2>2, <3>1, <3>3
        <3> QED
            BY Zenon, <3>2, <3>3
    <2>9. UNCHANGED <<revision, persisted, revisions, snapshot, saveRevs, own, known, updated,
                      readRevs, stamps, changed>>
        BY Zenon, <1>3 DEF SaveWrite, walletVars, loadVars
    <2>10. \A t \in Server :
              /\ SoundAt(persisted[t], backend', seq') /\ SoundAt(snapshot[t], backend', seq')
              /\ SoundAt(known[t], backend', seq') /\ SoundAt(updated[t], backend', seq')
        BY ZenonT(60), <2>3 DEF StampInv
    <2>11. \A n \in Nat : n <= seq => n <= seq'
        BY SMTT(60), <2>2
    <2>12. /\ \A sec \in Section : revision[sec] <= seq'
           /\ \A t \in Server :
                 /\ \A sec \in Section : /\ revisions[t][sec] <= seq' /\ saveRevs[t][sec] <= seq'
                                         /\ own[t][sec] <= seq' /\ readRevs[t][sec] <= seq'
                 /\ \A j \in Key : stamps[t][j] <= seq'
        BY <2>11 DEF StampInv
    <2> QED
        BY ZenonT(60), <2>7, <2>8, <2>9, <2>10, <2>12 DEF StampInv
<1>4. ASSUME NEW s \in Server, NEW k \in Key, SaveDelete(s, k)
      PROVE  StampInv'
    <2>1. backend' = [backend EXCEPT ![k] = NoRow] /\ seq' = seq
          /\ next' = [next EXCEPT ![s][k] = NoRow]
        BY Zenon, <1>4 DEF SaveDelete
    <2>2. \A snap \in Snapshot : SoundAt(snap, backend, seq) => SoundAt(snap, backend', seq')
        BY Zenon, <2>1, SoundDelete
    <2>3. backend' \in Snapshot /\ backend'[k] = NoRow /\ seq' \in Nat
        BY Zenon, <2>1, NoRowType DEF Snapshot
    <2>4. \A snap \in Snapshot : SoundAt(snap, backend', seq') => SoundAt([snap EXCEPT ![k] = NoRow], backend', seq')
        <3> SUFFICES ASSUME NEW snap \in Snapshot, SoundAt(snap, backend', seq')
                     PROVE  SoundAt([snap EXCEPT ![k] = NoRow], backend', seq')
            BY Zenon
        <3>1. NoRow.stamp <= seq' /\ NoRow \in Blob
            BY <2>3, NoRowType DEF NoRow
        <3> QED
            BY Zenon, <2>3, <3>1, SoundSet
    <2>5. SoundAt(backend', backend', seq')
        BY ZenonT(60), <2>1, <2>2, <2>4 DEF StampInv
    <2>6. \A t \in Server : SoundAt(next'[t], backend', seq')
        <3> TAKE t \in Server
        <3>1. SoundAt(next[t], backend', seq') /\ next[t] \in Snapshot
            BY Zenon, <2>2 DEF StampInv
        <3>2. CASE t = s
            <4>1. next'[s] = [next[s] EXCEPT ![k] = NoRow]
                BY Zenon, <2>1
            <4> QED
                BY <2>4, <3>1, <3>2, <4>1
        <3>3. CASE t # s
            BY Zenon, <2>1, <3>1, <3>3
        <3> QED
            BY Zenon, <3>2, <3>3
    <2>7. UNCHANGED <<revision, persisted, revisions, snapshot, saveRevs, own, known, updated,
                      readRevs, stamps, changed>>
        BY ZenonT(60), <1>4 DEF SaveDelete, walletVars, loadVars
    <2> QED
        BY ZenonT(60), <2>1, <2>2, <2>5, <2>6, <2>7 DEF StampInv
<1>5. ASSUME NEW s \in Server, NEW sec \in Section, SaveRevision(s, sec)
      PROVE  StampInv'
    <2>1. \A snap \in Snapshot : SoundAt(snap, backend, seq) => SoundAt(snap, backend, seq + 1)
        BY ZenonT(60), SoundBump
    <2> QED
        BY SMTT(60), <1>5, <2>1 DEF SaveRevision, StampInv, walletVars, loadVars
<1>6. ASSUME NEW s \in Server, SaveInstall(s)
      PROVE  StampInv'
    <2>1. \A t \in Server : /\ SoundAt(persisted'[t], backend, seq)
                            /\ \A sec \in Section : revisions'[t][sec] <= seq
        <3>1. CASE moved[s]
            BY Zenon, <1>6, <3>1 DEF SaveInstall, StampInv
        <3>2. CASE ~moved[s]
            <4> DEFINE r == [sec \in Section |->
                                IF own[s][sec] # 0 THEN own[s][sec] ELSE revisions[s][sec]]
            <4>1. \A sec \in Section : r[sec] <= seq
                BY Zenon DEF StampInv
            <4>2. persisted' = [persisted EXCEPT ![s] = next[s]] /\ revisions' = [revisions EXCEPT ![s] = r]
                BY ZenonT(60), <1>6, <3>2 DEF SaveInstall
            <4> HIDE DEF r
            <4> QED
                BY Zenon, <4>1, <4>2 DEF StampInv
        <3> QED
            BY Zenon, <3>1, <3>2
    <2> QED
        BY SMTT(60), <1>0, <1>6, <2>1 DEF SaveInstall, EndSave, StampInv, storeVars, loadVars, NoRevisions
<1>7. ASSUME NEW s \in Server, SaveFail(s)
      PROVE  StampInv'
    BY <1>0, <1>7 DEF SaveFail, EndSave, StampInv, storeVars, walletVars, loadVars, NoRevisions
<1>8. ASSUME NEW s \in Server, NEW withLog \in BOOLEAN, LoadCheck(s, withLog)
      PROVE  StampInv'
    BY Zenon, <1>8 DEF LoadCheck, StampInv, storeVars, walletVars, saveVars
<1>9. ASSUME NEW s \in Server, LoadRevisions(s)
      PROVE  StampInv'
    BY Zenon, <1>9 DEF LoadRevisions, StampInv, storeVars, walletVars, saveVars
<1>10. ASSUME NEW s \in Server, LoadKnown(s)
      PROVE  StampInv'
    BY Zenon, <1>10 DEF LoadKnown, StampInv, storeVars, walletVars, saveVars
<1>11. ASSUME NEW s \in Server, NEW sec \in Section, LoadList(s, sec)
      PROVE  StampInv'
    <2> DEFINE u == [k \in Key |-> IF SectionOf[k] = sec /\ backend[k] = NoRow
                                  THEN NoRow ELSE updated[s][k]]
               st == [k \in Key |-> IF SectionOf[k] = sec THEN backend[k].stamp ELSE stamps[s][k]]
               ch == {k \in KeysOf(sec) : /\ backend[k] # NoRow
                                          /\ known[s][k].stamp # backend[k].stamp}
    <2>1. /\ updated' = [updated EXCEPT ![s] = u]
          /\ stamps' = [stamps EXCEPT ![s] = st]
          /\ changed' = [changed EXCEPT ![s] = ch]
        BY Zenon, <1>11 DEF LoadList
    <2>2. SoundAt(u, backend, seq)
        <3>1. SoundAt(updated[s], backend, seq)
            BY Zenon DEF StampInv, Sound
        <3>2. NoRow.stamp = 0 /\ 0 <= seq
            BY SMT DEF NoRow
        <3> SUFFICES ASSUME NEW k \in Key
                     PROVE  /\ u[k].stamp <= seq
                            /\ u[k].stamp = 0 => u[k] = NoRow
                            /\ u[k].stamp = backend[k].stamp => u[k] = backend[k]
            BY Zenon DEF SoundAt
        <3>3. u[k] = IF SectionOf[k] = sec /\ backend[k] = NoRow THEN NoRow ELSE updated[s][k]
            BY Zenon
        <3>4. CASE SectionOf[k] = sec /\ backend[k] = NoRow
            BY Zenon, <3>2, <3>3, <3>4
        <3>5. CASE ~(SectionOf[k] = sec /\ backend[k] = NoRow)
            BY Zenon, <3>1, <3>3, <3>5 DEF SoundAt
        <3> QED
            BY Zenon, <3>4, <3>5
    <2>3. \A k \in Key : st[k] <= seq
        BY Zenon DEF SoundAt, StampInv
    <2>4. \A k \in ch : st[k] # 0
        BY Zenon DEF SoundAt, StampInv, KeysOf
    <2> HIDE DEF u, st, ch
    <2>5. UNCHANGED <<backend, revision, seq, persisted, revisions, snapshot, next, saveRevs, own,
                      known, readRevs>>
        BY Zenon, <1>11 DEF LoadList, storeVars, walletVars, saveVars
    <2> QED
        BY ZenonT(200), <2>1, <2>2, <2>3, <2>4, <2>5 DEF StampInv
<1>12. ASSUME NEW s \in Server, LoadAll(s)
      PROVE  StampInv'
    <2> DEFINE present == {k \in Key : backend[k] # NoRow
                              /\ \E c \in changed[s] : SectionOf[k] = SectionOf[c]}
               u == [k \in Key |-> IF k \in present THEN backend[k] ELSE updated[s][k]]
    <2>1. updated' = [updated EXCEPT ![s] = u] /\ changed' = [changed EXCEPT ![s] = changed[s] \ present]
        BY Zenon, <1>12 DEF LoadAll
    <2>2. SoundAt(u, backend, seq)
        <3> HIDE DEF present
        <3> QED
            BY ZenonT(200) DEF SoundAt, StampInv
    <2> HIDE DEF u, present
    <2>3. UNCHANGED <<backend, revision, seq, persisted, revisions, snapshot, next, saveRevs, own,
                      known, readRevs, stamps>>
        BY Zenon, <1>12 DEF LoadAll, storeVars, walletVars, saveVars
    <2> QED
        BY Zenon, <2>1, <2>2, <2>3 DEF StampInv
<1>13. ASSUME NEW s \in Server, NEW k \in Key, LoadRow(s, k)
      PROVE  StampInv'
    <2> DEFINE b == IF backend[k] = NoRow THEN NoRow
                    ELSE [data |-> backend[k].data, stamp |-> stamps[s][k]]
    <2>1. updated' = [updated EXCEPT ![s][k] = b] /\ changed' = [changed EXCEPT ![s] = changed[s] \ {k}]
        BY Zenon, <1>13 DEF LoadRow
    <2>2. k \in changed[s] /\ stamps[s][k] # 0 /\ stamps[s][k] <= seq /\ backend[k] \in Blob
          /\ stamps[s][k] \in Nat
        BY ZenonT(60), <1>13 DEF LoadRow, StampInv, Snapshot
    <2>3. b \in Blob /\ b.stamp <= seq /\ (b.stamp = 0 => b = NoRow)
          /\ (b.stamp = backend[k].stamp => b = backend[k])
        <3>1. CASE backend[k] = NoRow
            BY <3>1, NoRowType DEF NoRow
        <3>2. CASE backend[k] # NoRow
            BY Zenon, <2>2, <3>2 DEF Blob
        <3> QED
            BY Zenon, <3>1, <3>2
    <2> HIDE DEF b
    <2>4. SoundAt([updated[s] EXCEPT ![k] = b], backend, seq)
        BY Zenon, <2>3, SoundSet DEF StampInv
    <2>5. updated'[s] = [updated[s] EXCEPT ![k] = b] /\ \A t \in Server \ {s} : updated'[t] = updated[t]
        BY Zenon, <2>1
    <2>6. UNCHANGED <<backend, revision, seq, persisted, revisions, snapshot, next, saveRevs, own,
                      known, readRevs, stamps>>
        BY Zenon, <1>13 DEF LoadRow, storeVars, walletVars, saveVars
    <2>7. \A t \in Server : changed'[t] \subseteq changed[t]
        BY ZenonT(60), <2>1
    <2> QED
        BY Zenon, <2>4, <2>5, <2>6, <2>7 DEF StampInv
<1>14. ASSUME NEW s \in Server, LoadInstall(s, [k \in Key |-> Parsed(s, k)])
      PROVE  StampInv'
    <2>1. \A t \in Server : /\ Sound(persisted[t])' /\ Sound(snapshot[t])' /\ Sound(next[t])'
                            /\ Sound(known[t])' /\ Sound(updated[t])'
        BY Zenon, <1>0, <1>14 DEF LoadInstall, EndLoad, StampInv, storeVars, saveVars
    <2>2. \A t \in Server : \A sec \in Section : revisions'[t][sec] <= seq
        BY SMTT(60), <1>14 DEF LoadInstall, StampInv
    <2>3. \A t \in Server : \A sec \in Section : readRevs'[t][sec] <= seq
        BY SMTT(60), <1>14 DEF LoadInstall, EndLoad, StampInv, NoRevisions
    <2>4. \A t \in Server : /\ \A k \in Key : stamps'[t][k] <= seq
                            /\ \A k \in changed'[t] : stamps'[t][k] # 0
        BY SMTT(60), <1>14 DEF LoadInstall, EndLoad, StampInv
    <2> QED
        BY ZenonT(60), <1>14, <2>1, <2>2, <2>3, <2>4 DEF LoadInstall, StampInv, storeVars, saveVars
<1>15. ASSUME NEW s \in Server, LoadFail(s)
      PROVE  StampInv'
    BY <1>0, <1>15 DEF LoadFail, EndLoad, StampInv, storeVars, walletVars, saveVars, NoRevisions
<1>16. ASSUME NEW s \in Server, Crash(s)
      PROVE  StampInv'
    <2>1. \A t \in Server : /\ Sound(persisted[t])' /\ Sound(snapshot[t])' /\ Sound(next[t])'
                            /\ Sound(known[t])' /\ Sound(updated[t])'
        BY Zenon, <1>0, <1>16 DEF Crash, EndSave, EndLoad, StampInv, storeVars
    <2>2. \A t \in Server : \A sec \in Section :
             /\ revisions'[t][sec] <= seq /\ saveRevs'[t][sec] <= seq
             /\ own'[t][sec] <= seq /\ readRevs'[t][sec] <= seq
        BY SMTT(120), <1>16 DEF Crash, EndSave, EndLoad, StampInv, NoRevisions
    <2>3. \A t \in Server : /\ \A k \in Key : stamps'[t][k] <= seq
                            /\ \A k \in changed'[t] : stamps'[t][k] # 0
        BY <1>16 DEF Crash, EndLoad, StampInv
    <2> QED
        BY ZenonT(200), <1>16, <2>1, <2>2, <2>3 DEF Crash, StampInv, storeVars
<1>17. CASE UNCHANGED vars
    BY Zenon, <1>17 DEF vars, StampInv
<1> QED
    BY ZenonT(60), <1>1, <1>2, <1>3, <1>4, <1>5, <1>6, <1>7, <1>8, <1>9, <1>10, <1>11, <1>12,
       <1>13, <1>14, <1>15, <1>16, <1>17 DEF Next, Save, Load

(* The servers skip the rows whose stamp they know.  A known stamp means   *)
(* known bytes.                                                            *)
THEOREM StampsIdentify == Spec => []StampIdentifiesBytes
<1>1. StampInv => StampIdentifiesBytes
    BY Zenon DEF StampInv, Sound, SoundAt, StampIdentifiesBytes
<1> QED
    BY <1>1, TypeInit, TypeStep, StampInit, StampStep, PTL DEF Spec
================================================================================
