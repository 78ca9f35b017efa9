-------------------------- MODULE StatusCounterProofs --------------------------
(***************************************************************************)
(* Status list indices are distinct and covered by the stored counter, for *)
(* any number of servers, allocations, attempts, resets and faults.  The   *)
(* counter is an entity whose values are the natural numbers.              *)
(***************************************************************************)
EXTENDS StatusCounter, EntityStoreStamps

USE SectionOfAssumption, ServerSectionsAssumption, NoValueAssumption, CounterAssumption,
    HomeAssumption

NumbersAreValues == Nat \subseteq Value

(* Every copy of the counter row is missing or holds a number.             *)
Number(row) == row = NoRow \/ row.data \in Nat

CopiesInv(s) ==
    /\ Number(persisted[s][CounterKey]) /\ Number(snapshot[s][CounterKey])
    /\ Number(next[s][CounterKey])
    /\ Number(known[s][CounterKey]) /\ Number(updated[s][CounterKey])

(* A save keeps the counter it has seen, or stores zero.                   *)
SaveCounts(s) ==
    saving[s] = "rows" =>
        IF snapshot[s][CounterKey] = NoRow THEN current[s][CounterKey] = NoValue
        ELSE current[s][CounterKey] \in {0, snapshot[s][CounterKey].data}

RowInv == CounterRow = NoRow \/ (CounterRow.data \in Nat /\ CounterRow.stamp \in 1..seq)

(* A call that has read the row it saw goes for the number in it.  A row   *)
(* that changed since has a stamp the call has not seen.                   *)
IndexIsCounter(a) ==
    step[a] = "write" /\ version[a] = CounterRow.stamp =>
        index[a] = IF CounterRow = NoRow THEN 0 ELSE CounterRow.data

AttemptsLeft(a) == step[a] \in {"stat", "read", "write"} => attempt[a] < MaxAttempts

StoreInv == RowInv /\ \A s \in Server : CopiesInv(s) /\ SaveCounts(s)

AllocInv ==
    /\ \A a \in Allocation : IndexIsCounter(a) /\ AttemptsLeft(a)
    /\ DistinctIndices
    /\ CounterCovers

CounterInv == CounterTypeOK /\ StoreInv /\ AllocInv

--------------------------------------------------------------------------------
LEMMA CounterStart == CounterInit => CounterInv
<1> SUFFICES ASSUME CounterInit PROVE CounterInv
    BY Zenon
<1> USE DEF CounterInit
<1>1. TypeOK /\ seq = 0
    BY Zenon, TypeInit DEF Init
<1>2. CounterTypeOK
    BY <1>1, AttemptsAssumption DEF CounterTypeOK
<1>3. CounterRow = NoRow
    BY Zenon DEF Init, NoRows, CounterRow
<1>4. ASSUME NEW s \in Server PROVE CopiesInv(s) /\ SaveCounts(s)
    BY Zenon DEF Init, CopiesInv, SaveCounts, Number, NoRows
<1>5. AllocInv
    BY AttemptsAssumption DEF AllocInv, IndexIsCounter, AttemptsLeft, DistinctIndices, CounterCovers
<1> QED
    BY Zenon, <1>2, <1>3, <1>4, <1>5 DEF CounterInv, StoreInv, RowInv

(* A step of a save or a reload that leaves the counter row alone.         *)
LEMMA CallsKept ==
    ASSUME CounterInv, TypeOK', UNCHANGED counterVars, CounterRow' = CounterRow,
           seq' \in Nat, seq' >= seq
    PROVE  CounterTypeOK' /\ RowInv' /\ AllocInv'
<1> USE DEF CounterInv, counterVars
<1>1. version' \in [Allocation -> 0..seq'] /\ newStamp' \in [Allocation -> 0..seq']
    <2>1. 0..seq \subseteq 0..seq'
        BY DEF CounterTypeOK, TypeOK, StoreType
    <2> QED
        BY Zenon, <2>1 DEF CounterTypeOK
<1>2. CounterTypeOK'
    BY Zenon, <1>1 DEF CounterTypeOK
<1>3. RowInv'
    BY DEF RowInv, StoreInv, CounterTypeOK, TypeOK, StoreType
<1>4. \A a \in Allocation : IndexIsCounter(a)' /\ AttemptsLeft(a)'
    BY Zenon DEF AllocInv, IndexIsCounter, AttemptsLeft
<1>5. DistinctIndices' /\ CounterCovers'
    BY Zenon DEF AllocInv, DistinctIndices, CounterCovers
<1> QED
    BY Zenon, <1>2, <1>3, <1>4, <1>5 DEF AllocInv

LEMMA StampBelow == CounterInv => CounterRow.stamp \in 0..seq
<1> SUFFICES ASSUME CounterInv PROVE CounterRow.stamp \in 0..seq
    BY Zenon
<1>0. seq \in Nat
    BY Zenon DEF CounterInv, CounterTypeOK, TypeOK, StoreType
<1>1. CASE CounterRow = NoRow
    BY <1>0, <1>1 DEF NoRow
<1>2. CASE CounterRow.stamp \in 1..seq
    BY <1>0, <1>2
<1> QED
    BY Zenon, <1>1, <1>2 DEF CounterInv, StoreInv, RowInv

LEMMA NoRowNumber == Number(NoRow) /\ Number(NoRows[CounterKey])
BY Zenon DEF Number, NoRows

(* A reload only copies the counter row.                                   *)
LEMMA LoadCopies ==
    ASSUME CounterInv, NEW s \in Server, Load(s)
    PROVE  \A t \in Server : CopiesInv(t)' /\ SaveCounts(t)'
<1> USE DEF CounterInv, StoreInv, CounterTypeOK, TypeOK, StoreType, WalletType, SaveType, LoadType
<1>1. UNCHANGED <<backend, saving, snapshot, current, next>>
    BY Zenon DEF Load, LoadCheck, LoadRevisions, LoadKnown, LoadList, LoadAll, LoadRow, LoadInstall,
       storeVars, saveVars
<1>2. \A t \in Server : SaveCounts(t)'
    BY Zenon, <1>1 DEF SaveCounts
<1>3. ASSUME NEW t \in Server
      PROVE  /\ Number(persisted'[t][CounterKey]) /\ Number(known'[t][CounterKey])
             /\ Number(updated'[t][CounterKey])
    <2>0. /\ Number(persisted[t][CounterKey]) /\ Number(known[t][CounterKey])
          /\ Number(updated[t][CounterKey]) /\ Number(CounterRow)
        BY Zenon DEF CopiesInv, RowInv, Number
    <2>1. CASE (\E withLog \in BOOLEAN : LoadCheck(s, withLog)) \/ LoadRevisions(s)
        BY Zenon, <2>0, <2>1 DEF LoadCheck, LoadRevisions, walletVars
    <2>2. CASE LoadKnown(s)
        BY ZenonT(60), <2>0, <2>2 DEF LoadKnown, walletVars, CopiesInv
    <2>3. ASSUME NEW sec \in Section, LoadList(s, sec)
          PROVE  /\ UNCHANGED <<persisted, known>>
                 /\ \/ updated'[t][CounterKey] = updated[t][CounterKey]
                    \/ updated'[t][CounterKey] = NoRow
        BY Zenon, <2>3 DEF LoadList, walletVars, Snapshot
    <2>4. CASE LoadAll(s)
        <3>1. /\ UNCHANGED <<persisted, known>>
              /\ \/ updated'[t][CounterKey] = updated[t][CounterKey]
                 \/ updated'[t][CounterKey] = CounterRow
            BY Zenon, <2>4 DEF LoadAll, walletVars, Snapshot, CounterRow
        <3> QED
            BY Zenon, <2>0, <3>1
    <2>5. ASSUME NEW k \in Key, LoadRow(s, k)
          PROVE  /\ UNCHANGED <<persisted, known>>
                 /\ \/ updated'[t][CounterKey] = updated[t][CounterKey]
                    \/ updated'[t][CounterKey] = NoRow
                    \/ /\ CounterRow # NoRow
                       /\ updated'[t][CounterKey].data = CounterRow.data
        BY ZenonT(60), <2>5 DEF LoadRow, walletVars, Snapshot, CounterRow
    <2>6. ASSUME NEW new, LoadInstall(s, new)
          PROVE  /\ \/ persisted'[t] = persisted[t]
                    \/ persisted'[t] = updated[t]
                 /\ \/ known'[t] = known[t] /\ updated'[t] = updated[t]
                    \/ known'[t] = NoRows /\ updated'[t] = NoRows
        BY ZenonT(60), <2>6 DEF LoadInstall, EndLoad
    <2>7. CASE \E sec \in Section : LoadList(s, sec)
        BY Zenon, <2>0, <2>3, <2>7, NoRowNumber
    <2>8. CASE \E k \in Key : LoadRow(s, k)
        BY Zenon, <2>0, <2>5, <2>8, NoRowNumber DEF Number
    <2>9. CASE LoadInstall(s, [k \in Key |-> Parsed(s, k)])
        BY Zenon, <2>0, <2>6, <2>9, NoRowNumber
    <2> QED
        BY Zenon, <2>1, <2>2, <2>4, <2>7, <2>8, <2>9 DEF Load
<1> QED
    BY Zenon, <1>1, <1>2, <1>3 DEF CopiesInv

LEMMA LoadCounts ==
    ASSUME CounterInv, NEW s \in Server, Load(s), UNCHANGED counterVars
    PROVE  CounterInv'
<1>1. TypeOK'
    BY Zenon, TypeStep DEF Next, CounterInv, CounterTypeOK
<1>2. CounterRow' = CounterRow /\ seq' = seq
    BY Zenon DEF Load, LoadCheck, LoadRevisions, LoadKnown, LoadList, LoadAll, LoadRow, LoadInstall,
       storeVars, CounterRow
<1>3. seq' \in Nat /\ seq' >= seq
    BY <1>2 DEF CounterInv, CounterTypeOK, TypeOK, StoreType
<1>4. CounterTypeOK' /\ RowInv' /\ AllocInv'
    BY Zenon, <1>1, <1>2, <1>3, CallsKept
<1> QED
    BY Zenon, <1>4, LoadCopies DEF CounterInv, StoreInv

--------------------------------------------------------------------------------
(* The values a save starts with are values of the store.                  *)
LEMMA CountedType ==
    ASSUME NumbersAreValues, CounterInv, NEW s \in Server
    PROVE  Counted(s) \in [Key -> MaybeValue]
<1> USE DEF CounterInv, CounterTypeOK, TypeOK
<1>1. 0 \in MaybeValue /\ NoValue \in MaybeValue
    BY Zenon DEF NumbersAreValues, MaybeValue
<1>2. persisted[s][CounterKey].data \in MaybeValue /\ state[s] \in [Key -> MaybeValue]
    BY DEF WalletType, Snapshot, Blob
<1> QED
    BY Zenon, <1>1, <1>2 DEF Counted

LEMMA BeginCounts ==
    ASSUME NumbersAreValues, CounterInv, NEW s \in Server, SaveBegin(s, Counted(s)),
           taken' = IF Resets(s) THEN {} ELSE taken,
           UNCHANGED <<step, attempt, version, index, newStamp, resets>>
    PROVE  CounterInv'
<1> USE DEF CounterInv, CounterTypeOK, TypeOK
<1>0. /\ UNCHANGED <<storeVars, walletVars, loadVars, orphan, edited, edits, faults>>
      /\ persisted[s] \in Snapshot
    BY Zenon DEF SaveBegin, WalletType
<1>1. TypeOK'
    <2>1. saving' \in [Server -> {"no", "rows"}]
        BY Zenon DEF SaveBegin, SaveType
    <2>2. /\ snapshot' \in [Server -> Snapshot] /\ next' \in [Server -> Snapshot]
          /\ current' \in [Server -> [Key -> MaybeValue]]
        BY Zenon, <1>0, CountedType DEF SaveBegin, SaveType
    <2>3. /\ written' \in [Server -> SUBSET Key] /\ marked' \in [Server -> SUBSET Section]
          /\ moved' \in [Server -> BOOLEAN]
        BY Zenon DEF SaveBegin, SaveType
    <2>4. saveRevs' \in [Server -> [Section -> Nat]] /\ own' \in [Server -> [Section -> Nat]]
        BY Zenon DEF SaveBegin, SaveType, WalletType, NoRevisions
    <2>5. SaveType'
        BY Zenon, <2>1, <2>2, <2>3, <2>4 DEF SaveType
    <2> QED
        BY Zenon, <1>0, <2>5 DEF StoreType, WalletType, LoadType, HistoryType, storeVars, walletVars, loadVars
<1>2. CounterRow' = CounterRow /\ seq' = seq
    BY Zenon, <1>0 DEF storeVars, CounterRow
<1>3. UNCHANGED counterVars
    BY Zenon, <1>2 DEF Resets, counterVars
<1>4. seq' \in Nat /\ seq' >= seq
    BY <1>2 DEF StoreType
<1>5. CounterTypeOK' /\ RowInv' /\ AllocInv'
    BY Zenon, <1>1, <1>2, <1>3, <1>4, CallsKept
<1>6. ASSUME NEW t \in Server PROVE CopiesInv(t)' /\ SaveCounts(t)'
    <2>0. CopiesInv(t) /\ SaveCounts(t) /\ UNCHANGED <<persisted, known, updated>>
        BY Zenon, <1>0 DEF StoreInv, walletVars, loadVars
    <2>1. CASE t # s
        <3>1. /\ snapshot'[t] = snapshot[t] /\ next'[t] = next[t] /\ current'[t] = current[t]
              /\ saving'[t] = saving[t]
            BY Zenon, <2>1 DEF SaveBegin, SaveType
        <3> QED
            BY Zenon, <2>0, <3>1 DEF CopiesInv, SaveCounts
    <2>2. CASE t = s
        <3>1. /\ snapshot'[t] = persisted[t] /\ next'[t] = persisted[t]
              /\ current'[t] = Counted(t)
            BY Zenon, <2>2 DEF SaveBegin, SaveType
        <3>2. /\ Counted(t)[CounterKey] =
                   IF persisted[t][CounterKey] = NoRow THEN NoValue
                   ELSE IF state[t][CounterKey] \in {NoValue, 0} THEN 0
                   ELSE persisted[t][CounterKey].data
            BY Zenon DEF Counted, WalletType
        <3> QED
            BY Zenon, <2>0, <3>1, <3>2 DEF CopiesInv, SaveCounts
    <2> QED
        BY Zenon, <2>1, <2>2
<1> QED
    BY Zenon, <1>5, <1>6 DEF StoreInv

(* A save stores the counter as zero, and never deletes it.                *)
LEMMA SavesZero ==
    ASSUME NumbersAreValues, CounterInv, NEW s \in Server
    PROVE  /\ SaveWrite(s, CounterKey) => current[s][CounterKey] = 0
           /\ ~SaveDelete(s, CounterKey)
<1> USE DEF CounterInv, StoreInv
<1>1. NoValue \notin Nat
    BY Zenon DEF NumbersAreValues
<1>2. CopiesInv(s) /\ SaveCounts(s)
    BY Zenon
<1>3. NoRow.data = NoValue
    BY Zenon DEF NoRow
<1>4. NoValue # 0
    BY <1>1
<1> QED
    BY Zenon, <1>1, <1>2, <1>3, <1>4 DEF SaveWrite, SaveDelete, ToWrite, ToDelete, CopiesInv, SaveCounts, Number

(* The rest of a save: the copies of the counter row after its step.       *)
LEMMA SaveCopies ==
    ASSUME CounterInv, NEW s \in Server,
           \/ \E k \in Key : SaveWrite(s, k) \/ SaveDelete(s, k)
           \/ \E sec \in Section : SaveRevision(s, sec)
           \/ SaveInstall(s),
           SaveWrite(s, CounterKey) => current[s][CounterKey] = 0
    PROVE  \A t \in Server : CopiesInv(t)' /\ SaveCounts(t)'
<1> USE DEF CounterInv, StoreInv, CounterTypeOK, TypeOK, WalletType, SaveType
<1> SUFFICES ASSUME NEW t \in Server PROVE CopiesInv(t)' /\ SaveCounts(t)'
    BY Zenon
<1>0. CopiesInv(t) /\ SaveCounts(t)
    BY Zenon
<1>1. UNCHANGED <<known, updated>>
    BY Zenon DEF SaveWrite, SaveDelete, SaveRevision, SaveInstall, loadVars
<1>2. ASSUME NEW k \in Key, SaveWrite(s, k) PROVE CopiesInv(t)' /\ SaveCounts(t)'
    <2>1. UNCHANGED <<saving, snapshot, current, persisted>>
        BY Zenon, <1>2 DEF SaveWrite, walletVars
    <2>2. \/ next'[t][CounterKey] = next[t][CounterKey]
          \/ k = CounterKey /\ next'[t][CounterKey].data = current[s][k]
        BY Zenon, <1>2 DEF SaveWrite, Snapshot
    <2>3. 0 \in Nat
        BY Zenon
    <2>4. Number(next'[t][CounterKey])
        BY ZenonT(60), <1>0, <1>2, <2>2, <2>3 DEF CopiesInv, Number
    <2> QED
        BY Zenon, <1>0, <1>1, <2>1, <2>4 DEF CopiesInv, SaveCounts
<1>3. ASSUME NEW k \in Key, SaveDelete(s, k) PROVE CopiesInv(t)' /\ SaveCounts(t)'
    <2>1. UNCHANGED <<saving, snapshot, current, persisted>>
        BY Zenon, <1>3 DEF SaveDelete, walletVars
    <2>2. next'[t][CounterKey] \in {next[t][CounterKey], NoRow}
        BY ZenonT(60), <1>3 DEF SaveDelete, Snapshot
    <2>3. Number(next'[t][CounterKey])
        BY Zenon, <1>0, <2>2, NoRowNumber DEF CopiesInv
    <2> QED
        BY Zenon, <1>0, <1>1, <2>1, <2>3 DEF CopiesInv, SaveCounts
<1>4. ASSUME NEW sec \in Section, SaveRevision(s, sec) PROVE CopiesInv(t)' /\ SaveCounts(t)'
    BY Zenon, <1>0, <1>1, <1>4 DEF SaveRevision, walletVars, CopiesInv, SaveCounts
<1>5. CASE SaveInstall(s)
    <2>1. \/ UNCHANGED persisted
          \/ persisted' = [persisted EXCEPT ![s] = next[s]]
        BY Zenon, <1>5 DEF SaveInstall
    <2>2. persisted'[t] \in {persisted[t], next[t]}
        <3>1. CASE t = s
            BY Zenon, <2>1, <3>1
        <3>2. CASE t # s
            BY Zenon, <2>1, <3>2
        <3> QED
            BY Zenon, <3>1, <3>2
    <2>3. /\ saving' = [saving EXCEPT ![s] = "no"]
          /\ snapshot' = [snapshot EXCEPT ![s] = NoRows]
          /\ current' = [current EXCEPT ![s] = NoValues]
          /\ next' = [next EXCEPT ![s] = NoRows]
        BY Zenon, <1>5 DEF SaveInstall, EndSave
    <2>4. /\ snapshot'[t] \in {snapshot[t], NoRows} /\ next'[t] \in {next[t], NoRows}
          /\ t = s => saving'[t] = "no"
          /\ t # s => /\ saving'[t] = saving[t] /\ snapshot'[t] = snapshot[t]
                      /\ current'[t] = current[t]
        BY ZenonT(60), <2>3
    <2>5. CopiesInv(t)'
        BY Zenon, <1>0, <1>1, <2>2, <2>4, NoRowNumber DEF CopiesInv
    <2>6. SaveCounts(t)'
        <3>1. CASE t = s
            BY Zenon, <2>4, <3>1 DEF SaveCounts
        <3>2. CASE t # s
            BY Zenon, <1>0, <2>4, <3>2 DEF SaveCounts
        <3> QED
            BY Zenon, <3>1, <3>2
    <2> QED
        BY Zenon, <2>5, <2>6
<1> QED
    BY Zenon, <1>2, <1>3, <1>4, <1>5

(* The call that stores zero ends the numbering: no index is taken in the  *)
(* new one yet, and every call in flight has seen another row.             *)
LEMMA ZeroStored ==
    ASSUME NumbersAreValues, CounterInv, NEW s \in Server, SaveWrite(s, CounterKey),
           current[s][CounterKey] = 0, TypeOK',
           taken' = IF Resets(s) THEN {} ELSE taken,
           UNCHANGED <<step, attempt, version, index, newStamp, resets>>
    PROVE  CounterTypeOK' /\ RowInv' /\ AllocInv'
<1> USE DEF CounterInv, CounterTypeOK, TypeOK
<1>1. /\ CounterRow'.data = 0 /\ CounterRow'.stamp = seq + 1
      /\ seq' = seq + 1 /\ seq \in Nat
    <2>1. CounterRow' = [data |-> 0, stamp |-> seq + 1]
        <3>1. backend' = [backend EXCEPT ![CounterKey] = [data |-> 0, stamp |-> seq + 1]]
            BY Zenon DEF SaveWrite, NextStamp
        <3> QED
            BY Zenon, <3>1 DEF CounterRow, StoreType, Snapshot
    <2>2. seq' = seq + 1 /\ seq \in Nat
        BY Zenon DEF SaveWrite, StoreType
    <2> QED
        BY Zenon, <2>1, <2>2
<1>2. CounterRow.stamp # seq + 1
    BY StampBelow, <1>1
<1>3. taken' = {}
    BY Zenon, <1>1, <1>2 DEF Resets
<1>4. 0..seq \subseteq 0..seq' /\ seq + 1 \in 1..seq' /\ 0 \in Nat
    BY <1>1
<1>5. RowInv'
    BY Zenon, <1>1, <1>4 DEF RowInv
<1>6. CounterTypeOK'
    BY Zenon, <1>3, <1>4
<1>7. ASSUME NEW a \in Allocation PROVE version'[a] # CounterRow'.stamp
    BY <1>1
<1>8. \A a \in Allocation : IndexIsCounter(a)' /\ AttemptsLeft(a)'
    BY Zenon, <1>7 DEF AllocInv, IndexIsCounter, AttemptsLeft
<1>9. AllocInv'
    BY Zenon, <1>3, <1>8 DEF AllocInv, DistinctIndices, CounterCovers
<1> QED
    BY Zenon, <1>5, <1>6, <1>9

LEMMA SaveCountsOn ==
    ASSUME NumbersAreValues, CounterInv, NEW s \in Server, CounterSave(s)
    PROVE  CounterInv'
<1> USE DEF CounterSave
<1>1. CASE SaveBegin(s, Counted(s))
    BY Zenon, <1>1, BeginCounts
<1>2. CASE \/ \E k \in Key : SaveWrite(s, k) \/ SaveDelete(s, k)
           \/ \E sec \in Section : SaveRevision(s, sec)
           \/ SaveInstall(s)
    <2>0. backend \in Snapshot /\ backend = [k \in Key |-> backend[k]]
        BY Zenon DEF CounterInv, CounterTypeOK, TypeOK, StoreType, Snapshot
    <2>1. TypeOK'
        <3>1. Save(s)
            BY Zenon, <1>2 DEF Save
        <3> QED
            BY Zenon, <3>1, TypeStep DEF Next, CounterInv, CounterTypeOK
    <2>2. \A t \in Server : CopiesInv(t)' /\ SaveCounts(t)'
        BY Zenon, <1>2, SavesZero, SaveCopies
    <2>3. CASE SaveWrite(s, CounterKey)
        <3>1. CounterTypeOK' /\ RowInv' /\ AllocInv'
            BY Zenon, <2>1, <2>3, SavesZero, ZeroStored
        <3> QED
            BY Zenon, <2>2, <3>1 DEF CounterInv, StoreInv
    <2>4. CASE ~SaveWrite(s, CounterKey)
        <3>1. CounterRow' = CounterRow
            <4>1. CASE \E k \in Key : SaveWrite(s, k)
                <5>1. PICK k \in Key : SaveWrite(s, k)
                    BY Zenon, <4>1
                <5>2. k # CounterKey
                    BY Zenon, <5>1, <2>4
                <5> QED
                    BY Zenon, <5>1, <5>2, <2>0 DEF SaveWrite, CounterRow
            <4>2. CASE \E k \in Key : SaveDelete(s, k)
                <5>1. PICK k \in Key : SaveDelete(s, k)
                    BY Zenon, <4>2
                <5>2. k # CounterKey
                    BY Zenon, <5>1, SavesZero
                <5> QED
                    BY Zenon, <5>1, <5>2, <2>0 DEF SaveDelete, CounterRow
            <4>3. CASE (\E sec \in Section : SaveRevision(s, sec)) \/ SaveInstall(s)
                BY Zenon, <4>3 DEF SaveRevision, SaveInstall, storeVars, CounterRow
            <4> QED
                BY Zenon, <1>2, <4>1, <4>2, <4>3
        <3>2. UNCHANGED counterVars
            BY Zenon, <3>1 DEF Resets, counterVars
        <3>3. seq' = seq \/ seq' = seq + 1
            BY Zenon, <1>2 DEF SaveWrite, SaveDelete, SaveRevision, SaveInstall, storeVars
        <3>4. seq' \in Nat /\ seq' >= seq
            BY <3>3 DEF CounterInv, CounterTypeOK, TypeOK, StoreType
        <3>5. CounterTypeOK' /\ RowInv' /\ AllocInv'
            BY Zenon, <2>1, <3>1, <3>2, <3>4, CallsKept
        <3> QED
            BY Zenon, <2>2, <3>5 DEF CounterInv, StoreInv
    <2> QED
        BY Zenon, <2>3, <2>4
<1> QED
    BY Zenon, <1>1, <1>2

--------------------------------------------------------------------------------
(* The steps of an allocation that leave the counter row alone: the call   *)
(* itself has to be shown.                                                 *)
LEMMA CallMoves ==
    ASSUME CounterInv, NEW a \in Allocation, TypeOK', CounterRow' = CounterRow,
           UNCHANGED <<taken, resets, newStamp, snapshot, current, next, saving, known, updated>>,
           seq' \in Nat, seq' >= seq,
           \A t \in Server : Number(persisted'[t][CounterKey]),
           \A b \in Allocation \ {a} :
               /\ step'[b] = step[b] /\ attempt'[b] = attempt[b]
               /\ version'[b] = version[b] /\ index'[b] = index[b],
           step' \in [Allocation -> {"stat", "read", "write", "mark", "install", "done", "failed"}],
           attempt' \in [Allocation -> 0..MaxAttempts],
           version' \in [Allocation -> 0..seq], index' \in [Allocation -> Nat],
           a \in taken => step'[a] \in {"mark", "install", "done", "failed"} /\ index'[a] = index[a],
           IndexIsCounter(a)', AttemptsLeft(a)'
    PROVE  CounterInv'
<1> USE DEF CounterInv, CounterTypeOK
<1>1. 0..seq \subseteq 0..seq'
    BY DEF TypeOK, StoreType
<1>2. taken' \subseteq {b \in Allocation : step'[b] \in {"mark", "install", "done", "failed"}}
    BY Zenon
<1>3. CounterTypeOK'
    BY ZenonT(60), <1>1, <1>2
<1>4. RowInv'
    BY DEF RowInv, StoreInv, TypeOK, StoreType
<1>5. \A t \in Server : CopiesInv(t)' /\ SaveCounts(t)'
    BY ZenonT(60) DEF StoreInv, CopiesInv, SaveCounts
<1>6. ASSUME NEW b \in Allocation PROVE IndexIsCounter(b)' /\ AttemptsLeft(b)'
    BY ZenonT(60) DEF AllocInv, IndexIsCounter, AttemptsLeft
<1>7. \A b \in taken : index'[b] = index[b]
    BY Zenon
<1>8. DistinctIndices'
    <2> SUFFICES ASSUME NEW b \in taken, NEW c \in taken, b # c PROVE index'[b] # index'[c]
        BY Zenon DEF DistinctIndices
    <2>1. index'[b] = index[b] /\ index'[c] = index[c]
        BY Zenon, <1>7
    <2>2. index[b] # index[c]
        BY Zenon DEF AllocInv, DistinctIndices
    <2> QED
        BY Zenon, <2>1, <2>2
<1>9. CounterCovers'
    <2> SUFFICES ASSUME NEW b \in taken PROVE CounterRow # NoRow /\ index'[b] < CounterRow.data
        BY Zenon DEF CounterCovers
    <2>1. index'[b] = index[b]
        BY Zenon, <1>7
    <2> QED
        BY Zenon, <2>1 DEF AllocInv, CounterCovers
<1> QED
    BY ZenonT(60), <1>3, <1>4, <1>5, <1>6, <1>8, <1>9 DEF StoreInv, AllocInv

LEMMA CopiesOf == CounterInv => \A t \in Server : Number(persisted[t][CounterKey])
BY Zenon DEF CounterInv, StoreInv, CopiesInv

LEMMA TypeFrame == TypeOK /\ UNCHANGED vars => TypeOK'
BY Zenon, TypeStep

LEMMA StatCounts ==
    ASSUME CounterInv, NEW a \in Allocation, AllocStat(a)
    PROVE  CounterInv'
<1> USE DEF CounterInv, CounterTypeOK, AllocStat
<1>1. TypeOK' /\ UNCHANGED <<backend, seq, persisted, snapshot, current, next, saving, known, updated>>
    BY Zenon, TypeFrame DEF vars
<1>2. CounterRow' = CounterRow /\ seq' \in Nat /\ seq' >= seq
    BY <1>1 DEF CounterRow, TypeOK, StoreType
<1>3. CounterRow.stamp \in 0..seq
    BY Zenon, StampBelow
<1>4. 0 \in Nat
    BY Zenon
<1>5. /\ step' \in [Allocation -> {"stat", "read", "write", "mark", "install", "done", "failed"}]
      /\ version' \in [Allocation -> 0..seq] /\ index' \in [Allocation -> Nat]
    BY ZenonT(60), <1>3, <1>4
<1>6. \A b \in Allocation \ {a} :
          /\ step'[b] = step[b] /\ attempt'[b] = attempt[b]
          /\ version'[b] = version[b] /\ index'[b] = index[b]
    BY ZenonT(60)
<1>7. /\ step'[a] = IF CounterRow = NoRow THEN "write" ELSE "read"
      /\ CounterRow = NoRow => index'[a] = 0
    BY ZenonT(60)
<1>8. IndexIsCounter(a)'
    BY Zenon, <1>2, <1>7 DEF IndexIsCounter
<1>9. AttemptsLeft(a)'
    BY Zenon DEF AttemptsLeft, AllocInv
<1>10. a \notin taken
    BY Zenon
<1> QED
    BY Zenon, <1>1, <1>2, <1>5, <1>6, <1>8, <1>9, <1>10, CopiesOf, CallMoves

(* An attempt that failed leaves the call at the start of the next one, or *)
(* ends it.                                                                *)
LEMMA RetryCounts ==
    ASSUME CounterInv, NEW a \in Allocation, step[a] \in {"read", "write"}, Retry(a)
    PROVE  /\ step' \in [Allocation -> {"stat", "read", "write", "mark", "install", "done", "failed"}]
           /\ attempt' \in [Allocation -> 0..MaxAttempts]
           /\ step'[a] \in {"stat", "failed"}
           /\ AttemptsLeft(a)'
           /\ \A b \in Allocation \ {a} : step'[b] = step[b] /\ attempt'[b] = attempt[b]
<1> USE DEF CounterInv, CounterTypeOK, Retry
<1>1. attempt[a] \in Nat /\ attempt[a] < MaxAttempts
    BY DEF AllocInv, AttemptsLeft
<1>2. attempt[a] + 1 \in 0..MaxAttempts
    BY <1>1, AttemptsAssumption
<1>3. attempt' \in [Allocation -> 0..MaxAttempts] /\ attempt'[a] = attempt[a] + 1
    BY Zenon, <1>2
<1>4. /\ step' \in [Allocation -> {"stat", "read", "write", "mark", "install", "done", "failed"}]
      /\ step'[a] = IF attempt'[a] < MaxAttempts THEN "stat" ELSE "failed"
    BY Zenon
<1>5. step'[a] \in {"stat", "failed"} /\ AttemptsLeft(a)'
    BY Zenon, <1>4 DEF AttemptsLeft
<1>6. \A b \in Allocation \ {a} : step'[b] = step[b] /\ attempt'[b] = attempt[b]
    BY Zenon
<1> QED
    BY Zenon, <1>3, <1>4, <1>5, <1>6

LEMMA ReadCounts ==
    ASSUME CounterInv, NEW a \in Allocation, AllocRead(a)
    PROVE  CounterInv'
<1> USE DEF CounterInv, CounterTypeOK, AllocRead
<1>1. TypeOK' /\ UNCHANGED <<backend, seq, persisted, snapshot, current, next, saving, known, updated>>
    BY ZenonT(60), TypeFrame DEF vars
<1>2. CounterRow' = CounterRow /\ seq' \in Nat /\ seq' >= seq
    BY <1>1 DEF CounterRow, TypeOK, StoreType
<1>3. a \notin taken
    BY Zenon
<1>4. CASE CounterRow = NoRow
    <2>1. Retry(a) /\ UNCHANGED index
        BY Zenon, <1>4
    <2>2. IndexIsCounter(a)'
        BY Zenon, <2>1, RetryCounts DEF IndexIsCounter
    <2> QED
        BY ZenonT(60), <1>1, <1>2, <1>3, <2>1, <2>2, CopiesOf, RetryCounts, CallMoves
<1>5. CASE CounterRow # NoRow
    <2>1. CounterRow.data \in Nat
        BY Zenon, <1>5 DEF StoreInv, RowInv
    <2>2. /\ step' \in [Allocation -> {"stat", "read", "write", "mark", "install", "done", "failed"}]
          /\ index' \in [Allocation -> Nat] /\ index'[a] = CounterRow.data
        BY ZenonT(60), <1>5, <2>1
    <2>3. \A b \in Allocation \ {a} :
              /\ step'[b] = step[b] /\ attempt'[b] = attempt[b]
              /\ version'[b] = version[b] /\ index'[b] = index[b]
        BY ZenonT(60), <1>5
    <2>4. IndexIsCounter(a)' /\ AttemptsLeft(a)'
        BY Zenon, <1>2, <1>5, <2>2 DEF IndexIsCounter, AttemptsLeft, AllocInv
    <2> QED
        BY ZenonT(60), <1>1, <1>2, <1>3, <1>5, <2>2, <2>3, <2>4, CopiesOf, CallMoves
<1> QED
    BY Zenon, <1>4, <1>5

(* An allocation writes the counter: the number it took is the one the row *)
(* held, so it is above every index taken, and the row now covers it.      *)
LEMMA WriteCounts ==
    ASSUME NumbersAreValues, CounterInv, NEW a \in Allocation, AllocWrite(a), ~Conflict(a)
    PROVE  CounterInv'
<1> USE DEF CounterInv, CounterTypeOK, AllocWrite
<1>0. /\ seq \in Nat /\ seq' = seq + 1 /\ index[a] \in Nat /\ index[a] + 1 \in Nat
      /\ taken' = taken \cup {a}
      /\ step' = [step EXCEPT ![a] = "mark"]
      /\ newStamp' = [newStamp EXCEPT ![a] = seq + 1]
      /\ backend' = [backend EXCEPT ![CounterKey] = [data |-> index[a] + 1, stamp |-> seq + 1]]
    BY DEF NextCounter, NextStamp, TypeOK, StoreType
<1>1. CounterRow' = [data |-> index[a] + 1, stamp |-> seq + 1]
    BY ZenonT(60), <1>0 DEF CounterRow, TypeOK, StoreType, Snapshot
<1>2. CounterRow'.data = index[a] + 1 /\ CounterRow'.stamp = seq + 1 /\ CounterRow' # NoRow
    BY <1>0, <1>1 DEF NoRow
<1>3. UNCHANGED <<revision, walletVars, saveVars, moved, loadVars, orphan, edited, edits,
                  faults, attempt, version, index, resets>>
    BY Zenon
<1>4. TypeOK'
    <2>1. index[a] + 1 \in MaybeValue
        BY ZenonT(60), <1>0 DEF NumbersAreValues, MaybeValue
    <2>2. [data |-> index[a] + 1, stamp |-> seq + 1] \in Blob
        BY <1>0, <2>1 DEF Blob
    <2>3. backend' \in Snapshot
        BY ZenonT(60), <1>0, <2>2 DEF TypeOK, StoreType, Snapshot
    <2>4. seq' \in Nat
        BY <1>0
    <2>5. StoreType' /\ WalletType' /\ SaveType'
        BY ZenonT(60), <1>3, <2>3, <2>4 DEF TypeOK, StoreType, WalletType, SaveType, walletVars, saveVars
    <2>6. LoadType' /\ HistoryType'
        BY ZenonT(60), <1>3 DEF TypeOK, LoadType, HistoryType, loadVars
    <2> QED
        BY Zenon, <2>5, <2>6 DEF TypeOK
<1>5. 0..seq \subseteq 0..seq' /\ seq + 1 \in 0..seq' /\ seq + 1 \in 1..seq'
    BY <1>0
<1>6. CounterTypeOK'
    <2>1. newStamp' \in [Allocation -> 0..seq'] /\ version' \in [Allocation -> 0..seq']
        BY ZenonT(60), <1>0, <1>3, <1>5
    <2>2. step' \in [Allocation -> {"stat", "read", "write", "mark", "install", "done", "failed"}]
        BY Zenon, <1>0
    <2>3. taken' \subseteq {b \in Allocation : step'[b] \in {"mark", "install", "done", "failed"}}
        BY ZenonT(200), <1>0
    <2> QED
        BY Zenon, <1>3, <1>4, <2>1, <2>2, <2>3
<1>7. RowInv'
    BY Zenon, <1>0, <1>2, <1>5 DEF RowInv
<1>8. \A t \in Server : CopiesInv(t)' /\ SaveCounts(t)'
    BY ZenonT(60), <1>3 DEF StoreInv, CopiesInv, SaveCounts, walletVars, saveVars, loadVars
<1>9. ASSUME NEW b \in Allocation PROVE IndexIsCounter(b)' /\ AttemptsLeft(b)'
    <2>1. version'[b] # CounterRow'.stamp
        BY <1>0, <1>2, <1>3
    <2>2. step'[b] \in {step[b], "mark"} /\ attempt'[b] = attempt[b]
        BY Zenon, <1>0, <1>3
    <2>3. AttemptsLeft(b)'
        BY Zenon, <2>2 DEF AllocInv, AttemptsLeft
    <2> QED
        BY Zenon, <2>1, <2>3 DEF IndexIsCounter
<1>10. ASSUME NEW b \in taken PROVE index[b] < index[a] /\ index[b] \in Nat
    <2>1. /\ index[b] < CounterRow.data /\ CounterRow # NoRow /\ index[b] \in Nat
        BY Zenon DEF AllocInv, CounterCovers
    <2>2. index[a] = CounterRow.data
        BY Zenon, <2>1 DEF AllocInv, IndexIsCounter, Conflict
    <2> QED
        BY Zenon, <2>1, <2>2
<1>11. DistinctIndices'
    <2> SUFFICES ASSUME NEW b \in taken', NEW c \in taken', b # c PROVE index[b] # index[c]
        BY Zenon, <1>3 DEF DistinctIndices
    <2>1. CASE b \in taken /\ c \in taken
        BY ZenonT(60), <2>1 DEF AllocInv, DistinctIndices
    <2>2. CASE b \in taken /\ c = a
        BY SMTT(60), <1>0, <1>10, <2>2
    <2>3. CASE b = a /\ c \in taken
        BY SMTT(60), <1>0, <1>10, <2>3
    <2> QED
        BY Zenon, <1>0, <2>1, <2>2, <2>3
<1>12. CounterCovers'
    <2> SUFFICES ASSUME NEW b \in taken' PROVE index[b] < index[a] + 1
        BY ZenonT(60), <1>2, <1>3 DEF CounterCovers
    <2>1. CASE b \in taken
        BY SMTT(60), <1>0, <1>10, <2>1
    <2>2. CASE b = a
        BY <1>0, <2>2
    <2> QED
        BY Zenon, <1>0, <2>1, <2>2
<1> QED
    BY ZenonT(60), <1>6, <1>7, <1>8, <1>9, <1>11, <1>12 DEF StoreInv, AllocInv

LEMMA ConflictCounts ==
    ASSUME CounterInv, NEW a \in Allocation, AllocWrite(a), Conflict(a)
    PROVE  CounterInv'
<1> USE DEF CounterInv, CounterTypeOK, AllocWrite
<1>1. Retry(a) /\ UNCHANGED vars /\ UNCHANGED <<newStamp, taken, version, index, resets>>
    BY Zenon DEF vars, storeVars, walletVars, saveVars, loadVars
<1>2. TypeOK' /\ UNCHANGED <<backend, seq, persisted, snapshot, current, next, saving, known, updated>>
    BY ZenonT(60), <1>1, TypeFrame DEF vars
<1>3. CounterRow' = CounterRow /\ seq' \in Nat /\ seq' >= seq
    BY <1>2 DEF CounterRow, TypeOK, StoreType
<1>4. a \notin taken /\ step[a] \in {"read", "write"}
    BY Zenon
<1>5. IndexIsCounter(a)'
    BY Zenon, <1>1, <1>4, RetryCounts DEF IndexIsCounter
<1> QED
    BY ZenonT(60), <1>1, <1>2, <1>3, <1>4, <1>5, CopiesOf, RetryCounts, CallMoves

LEMMA MarkCounts ==
    ASSUME CounterInv, NEW a \in Allocation, AllocMark(a)
    PROVE  CounterInv'
<1> USE DEF CounterInv, CounterTypeOK, AllocMark
<1>1. UNCHANGED <<persisted, snapshot, current, next, saving, known, updated>>
    BY Zenon DEF walletVars, saveVars, loadVars
<1>2. seq \in Nat /\ seq' = seq + 1 /\ seq + 1 \in Nat /\ seq' \in Nat /\ seq' >= seq
    BY DEF TypeOK, StoreType
<1>3. TypeOK'
    <2>1. revision' \in [Section -> Nat]
        BY Zenon, <1>2 DEF TypeOK, StoreType
    <2>2. StoreType' /\ WalletType' /\ SaveType'
        BY Zenon, <1>2, <2>1 DEF TypeOK, StoreType, WalletType, SaveType, walletVars, saveVars
    <2>3. LoadType' /\ HistoryType'
        BY Zenon DEF TypeOK, LoadType, HistoryType, loadVars
    <2> QED
        BY Zenon, <2>2, <2>3 DEF TypeOK
<1>4. CounterRow' = CounterRow
    BY Zenon DEF CounterRow
<1>5. /\ step' \in [Allocation -> {"stat", "read", "write", "mark", "install", "done", "failed"}]
      /\ step'[a] = "install"
      /\ \A b \in Allocation \ {a} :
             /\ step'[b] = step[b] /\ attempt'[b] = attempt[b]
             /\ version'[b] = version[b] /\ index'[b] = index[b]
    BY Zenon
<1>6. IndexIsCounter(a)' /\ AttemptsLeft(a)'
    BY Zenon, <1>5 DEF IndexIsCounter, AttemptsLeft
<1> QED
    BY ZenonT(60), <1>1, <1>2, <1>3, <1>4, <1>5, <1>6, CopiesOf, CallMoves

LEMMA InstallCounts ==
    ASSUME NumbersAreValues, CounterInv, NEW a \in Allocation, AllocInstall(a)
    PROVE  CounterInv'
<1> USE DEF CounterInv, CounterTypeOK, AllocInstall
<1> DEFINE s == HomeOf[a]
<1>0. s \in Server
    BY Zenon
<1> HIDE DEF s
<1>1. /\ UNCHANGED <<backend, revision, seq, snapshot, current, next, saving, known, updated>>
      /\ UNCHANGED <<revisions, loaded, saveVars, loadVars, orphan, edited, edits, faults>>
    BY ZenonT(60) DEF storeVars, saveVars, loadVars
<1>2. seq \in Nat /\ seq' \in Nat /\ seq' >= seq /\ index[a] \in Nat /\ index[a] + 1 \in Nat
      /\ newStamp[a] \in Nat
    BY SMTT(60), <1>1 DEF TypeOK, StoreType
<1>3. /\ state' = [state EXCEPT ![s] = [state[s] EXCEPT ![CounterKey] = index[a] + 1]]
      /\ persisted' = [persisted EXCEPT ![s] = [persisted[s] EXCEPT ![CounterKey] =
                          [data |-> index[a] + 1, stamp |-> newStamp[a]]]]
      /\ moved' = [moved EXCEPT ![s] = saving[s] # "no"]
    BY DEF NextCounter, s
<1>4. /\ state' \in [Server -> [Key -> MaybeValue]]
      /\ persisted' \in [Server -> [Key -> Blob]]
      /\ \A t \in Server :
             persisted'[t][CounterKey] =
                 IF t = s THEN [data |-> index[a] + 1, stamp |-> newStamp[a]]
                 ELSE persisted[t][CounterKey]
    <2>1. index[a] + 1 \in MaybeValue
        BY Zenon, <1>2 DEF NumbersAreValues, MaybeValue
    <2>2. [data |-> index[a] + 1, stamp |-> newStamp[a]] \in Blob
        BY Zenon, <1>2, <2>1 DEF Blob
    <2>3. /\ state \in [Server -> [Key -> MaybeValue]]
          /\ persisted \in [Server -> [Key -> Blob]]
        BY Zenon DEF TypeOK, WalletType, Snapshot
    <2>4. state' \in [Server -> [Key -> MaybeValue]]
        <3>1. [state[s] EXCEPT ![CounterKey] = index[a] + 1] \in [Key -> MaybeValue]
            BY Zenon, <1>0, <2>1, <2>3
        <3> QED
            BY ZenonT(60), <1>0, <1>3, <2>3, <3>1
    <2>5. /\ persisted' \in [Server -> [Key -> Blob]]
          /\ \A t \in Server :
                 persisted'[t][CounterKey] =
                     IF t = s THEN [data |-> index[a] + 1, stamp |-> newStamp[a]]
                     ELSE persisted[t][CounterKey]
        <3> DEFINE row == [data |-> index[a] + 1, stamp |-> newStamp[a]]
                   rows == [persisted[s] EXCEPT ![CounterKey] = row]
        <3> HIDE DEF row
        <3>1. rows \in [Key -> Blob] /\ rows[CounterKey] = row
            BY Zenon, <1>0, <2>2, <2>3 DEF row
        <3>2. persisted' = [persisted EXCEPT ![s] = rows]
            BY Zenon, <1>3 DEF row
        <3> HIDE DEF rows
        <3>3. persisted' \in [Server -> [Key -> Blob]]
            BY ZenonT(60), <1>0, <2>3, <3>1, <3>2
        <3>4. persisted'[s] = rows
            BY Zenon, <1>0, <2>3, <3>2
        <3>5. \A t \in Server \ {s} : persisted'[t] = persisted[t]
            BY ZenonT(60), <2>3, <3>2
        <3> QED
            BY ZenonT(60), <3>1, <3>3, <3>4, <3>5 DEF row
    <2> QED
        BY Zenon, <2>4, <2>5
<1>5. TypeOK'
    <2>6. WalletType'
        BY ZenonT(60), <1>1, <1>4 DEF TypeOK, WalletType, Snapshot
    <2>7. moved' \in [Server -> BOOLEAN]
        BY ZenonT(60), <1>0, <1>3 DEF TypeOK, SaveType
    <2>8. SaveType'
        BY ZenonT(60), <1>1, <2>7 DEF TypeOK, SaveType, saveVars
    <2>9. StoreType' /\ LoadType' /\ HistoryType'
        BY ZenonT(60), <1>1 DEF TypeOK, StoreType, LoadType, HistoryType, loadVars
    <2> QED
        BY Zenon, <2>6, <2>8, <2>9 DEF TypeOK
<1>6. ASSUME NEW t \in Server PROVE Number(persisted'[t][CounterKey])
    <2>1. persisted'[t][CounterKey] =
              IF t = s THEN [data |-> index[a] + 1, stamp |-> newStamp[a]]
              ELSE persisted[t][CounterKey]
        BY Zenon, <1>4
    <2>2. [data |-> index[a] + 1, stamp |-> newStamp[a]].data = index[a] + 1
        BY Zenon
    <2> QED
        BY Zenon, <1>2, <2>1, <2>2, CopiesOf DEF Number
<1>7. CounterRow' = CounterRow
    BY Zenon, <1>1 DEF CounterRow
<1>8. /\ step' \in [Allocation -> {"stat", "read", "write", "mark", "install", "done", "failed"}]
      /\ step'[a] = "done"
      /\ \A b \in Allocation \ {a} :
             /\ step'[b] = step[b] /\ attempt'[b] = attempt[b]
             /\ version'[b] = version[b] /\ index'[b] = index[b]
    BY Zenon
<1>9. IndexIsCounter(a)' /\ AttemptsLeft(a)'
    BY Zenon, <1>8 DEF IndexIsCounter, AttemptsLeft
<1> QED
    BY ZenonT(60), <1>1, <1>2, <1>5, <1>6, <1>7, <1>8, <1>9, CallMoves

LEMMA FailCounts ==
    ASSUME CounterInv, NEW a \in Allocation, AllocFail(a)
    PROVE  CounterInv'
<1> USE DEF CounterInv, CounterTypeOK, AllocFail
<1>1. UNCHANGED <<backend, seq, persisted, snapshot, current, next, saving, known, updated>>
    BY ZenonT(60) DEF storeVars, walletVars, saveVars, loadVars
<1>2. seq' \in Nat /\ seq' >= seq /\ CounterRow' = CounterRow
    BY <1>1 DEF TypeOK, StoreType, CounterRow
<1>3. TypeOK'
    <2>1. faults' \in Nat
        BY DEF TypeOK, HistoryType
    <2>2. StoreType' /\ WalletType' /\ SaveType'
        BY Zenon DEF TypeOK, StoreType, WalletType, SaveType, storeVars, walletVars, saveVars
    <2>3. LoadType' /\ HistoryType'
        BY Zenon, <2>1 DEF TypeOK, LoadType, HistoryType, loadVars
    <2> QED
        BY ZenonT(60), <2>2, <2>3 DEF TypeOK
<1>4. /\ step' \in [Allocation -> {"stat", "read", "write", "mark", "install", "done", "failed"}]
      /\ step'[a] = "failed"
      /\ \A b \in Allocation \ {a} :
             /\ step'[b] = step[b] /\ attempt'[b] = attempt[b]
             /\ version'[b] = version[b] /\ index'[b] = index[b]
    BY Zenon
<1>5. IndexIsCounter(a)' /\ AttemptsLeft(a)'
    BY Zenon, <1>4 DEF IndexIsCounter, AttemptsLeft
<1> QED
    BY Zenon, <1>1, <1>2, <1>3, <1>4, <1>5, CopiesOf, CallMoves

LEMMA ResetBound == ASSUME NEW r \in 0..MaxResets, r < MaxResets PROVE r + 1 \in 0..MaxResets
BY AttemptsAssumption

LEMMA ResetCounts ==
    ASSUME CounterInv, NEW s \in Server, Reset(s)
    PROVE  CounterInv'
<1> USE DEF CounterInv, CounterTypeOK, Reset
<1>1. /\ UNCHANGED <<backend, seq, persisted, saving, snapshot, current, next, known, updated>>
      /\ UNCHANGED <<step, attempt, version, index, newStamp, taken>>
    BY Zenon DEF storeVars, saveVars, loadVars
<1>2. TypeOK'
    <2>1. state' \in [Server -> [Key -> MaybeValue]]
        BY Zenon DEF TypeOK, WalletType, NoValues, MaybeValue
    <2>2. StoreType' /\ WalletType' /\ SaveType'
        BY Zenon, <2>1 DEF TypeOK, StoreType, WalletType, SaveType, storeVars, saveVars
    <2>3. LoadType' /\ HistoryType'
        BY Zenon DEF TypeOK, LoadType, HistoryType, loadVars
    <2> QED
        BY Zenon, <2>2, <2>3 DEF TypeOK
<1>3. resets' \in 0..MaxResets
    BY Zenon, ResetBound
<1>4. CounterTypeOK' /\ CounterRow' = CounterRow
    BY Zenon, <1>1, <1>2, <1>3 DEF CounterRow
<1>5. StoreInv'
    BY ZenonT(60), <1>1, <1>4 DEF StoreInv, RowInv, CopiesInv, SaveCounts
<1>6. AllocInv'
    BY ZenonT(200), <1>1, <1>4 DEF AllocInv, IndexIsCounter, AttemptsLeft, DistinctIndices, CounterCovers
<1> QED
    BY Zenon, <1>4, <1>5, <1>6

--------------------------------------------------------------------------------
LEMMA CounterStep ==
    ASSUME NumbersAreValues, CounterInv, [CounterNext]_allVars
    PROVE  CounterInv'
<1>1. CASE \E a \in Allocation : Alloc(a)
    <2>1. PICK a \in Allocation : Alloc(a)
        BY Zenon, <1>1
    <2>2. CASE AllocWrite(a)
        BY Zenon, <2>2, WriteCounts, ConflictCounts
    <2> QED
        BY Zenon, <2>1, <2>2, StatCounts, ReadCounts, MarkCounts, InstallCounts, FailCounts DEF Alloc
<1>2. CASE \E s \in Server : Reset(s) \/ CounterSave(s) \/ (Load(s) /\ UNCHANGED counterVars)
    BY Zenon, <1>2, ResetCounts, SaveCountsOn, LoadCounts
<1>3. CASE UNCHANGED allVars
    <2>1. UNCHANGED vars /\ UNCHANGED counterVars
        BY Zenon, <1>3 DEF allVars
    <2>2. TypeOK' /\ UNCHANGED <<backend, seq, persisted, snapshot, current, next, saving, known, updated>>
        BY ZenonT(60), <2>1, TypeFrame DEF vars, CounterInv, CounterTypeOK
    <2>3. CounterRow' = CounterRow /\ seq' \in Nat /\ seq' >= seq
        BY <2>2 DEF CounterRow, CounterInv, CounterTypeOK, TypeOK, StoreType
    <2>4. CounterTypeOK' /\ RowInv' /\ AllocInv'
        BY Zenon, <2>1, <2>2, <2>3, CallsKept
    <2>5. ASSUME NEW t \in Server PROVE CopiesInv(t)' /\ SaveCounts(t)'
        BY Zenon, <2>2 DEF CounterInv, StoreInv, CopiesInv, SaveCounts
    <2> QED
        BY Zenon, <2>4, <2>5 DEF CounterInv, StoreInv
<1> QED
    BY Zenon, <1>1, <1>2, <1>3 DEF CounterNext

(* Allocations are sound (allocateStatusIndex): no two issuances since the *)
(* last reset of the wallet share a status list index, and the stored      *)
(* counter is above every index that was handed out.  This holds with any  *)
(* number of servers, calls, attempts, failed calls and resets, whatever   *)
(* saves and reloads do between the steps of a call.  The counter may be   *)
(* any natural number.                                                     *)
THEOREM AllocationSound ==
    ASSUME NumbersAreValues
    PROVE  CounterSpec => []AllocationIsSound
<1>1. CounterInit => CounterInv
    BY Zenon, CounterStart
<1>2. CounterInv /\ [CounterNext]_allVars => CounterInv'
    BY Zenon, CounterStep
<1>3. CounterInv => AllocationIsSound
    BY Zenon DEF CounterInv, AllocInv, AllocationIsSound
<1> QED
    BY <1>1, <1>2, <1>3, PTL DEF CounterSpec
================================================================================
