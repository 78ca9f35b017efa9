----------------------------- MODULE StatusCounter -----------------------------
(***************************************************************************)
(* The status list counter on the entity store.  An issuance takes the     *)
(* next status list index by compare-and-swap on the counter row           *)
(* (WalletStore.allocateStatusIndex) and holds no lock of the server while *)
(* it does so, so it overlaps other allocations, saves and reloads of the  *)
(* same server.  An ordinary save keeps the stored counter, a reset of the *)
(* demo wallet stores zero.  Saves and reloads are those of EntityStore.   *)
(***************************************************************************)
EXTENDS EntityStore

CONSTANTS
    Allocation,   \* calls of allocateStatusIndex
    HomeOf,       \* the server each call runs on
    CounterKey,   \* the row of the counter
    MaxAttempts,  \* compare-and-swap attempts of one call
    MaxResets     \* bound: resets of the demo wallet

ASSUME CounterAssumption == CounterKey \in Key
ASSUME HomeAssumption == HomeOf \in [Allocation -> Server]
ASSUME AttemptsAssumption == MaxAttempts \in Nat \ {0} /\ MaxResets \in Nat

VARIABLES
    step,       \* [Allocation -> where the call is]
    attempt,    \* [Allocation -> attempts used]
    version,    \* [Allocation -> the stamp the counter row had, 0 if absent]
    index,      \* [Allocation -> the index the call is about to take]
    newStamp,   \* [Allocation -> the stamp of the row it wrote]
    taken,      \* history: the calls that own their index since the last reset
    resets

counterVars == <<step, attempt, version, index, newStamp, taken, resets>>
allVars == <<vars, counterVars>>

StatusSection == SectionOf[CounterKey]
CounterRow == backend[CounterKey]

--------------------------------------------------------------------------------
AllocStat(a) ==
    /\ step[a] = "stat"
    /\ version' = [version EXCEPT ![a] = CounterRow.stamp]
    /\ IF CounterRow = NoRow
       THEN /\ index' = [index EXCEPT ![a] = 0]
            /\ step' = [step EXCEPT ![a] = "write"]
       ELSE /\ step' = [step EXCEPT ![a] = "read"]
            /\ UNCHANGED index
    /\ UNCHANGED <<vars, attempt, newStamp, taken, resets>>

(* The next attempt, or the error of the last one.                         *)
Retry(a) ==
    /\ attempt' = [attempt EXCEPT ![a] = @ + 1]
    /\ step' = [step EXCEPT ![a] = IF attempt'[a] < MaxAttempts THEN "stat" ELSE "failed"]

AllocRead(a) ==
    /\ step[a] = "read"
    /\ IF CounterRow = NoRow
       THEN Retry(a) /\ UNCHANGED index
       ELSE /\ index' = [index EXCEPT ![a] = CounterRow.data]
            /\ step' = [step EXCEPT ![a] = "write"]
            /\ UNCHANGED attempt
    /\ UNCHANGED <<vars, version, newStamp, taken, resets>>

(* WriteIf: the row is no longer the one the call has seen.                *)
NoConflict(a) == FALSE  \* faulty: a plain write
Conflict(a) == CounterRow.stamp # version[a]

NextCounter(a) == index[a] + 1

AllocWrite(a) ==
    /\ step[a] = "write"
    /\ IF Conflict(a)
       THEN /\ Retry(a)
            /\ UNCHANGED <<storeVars, newStamp, taken>>
       ELSE /\ backend' = [backend EXCEPT ![CounterKey] =
                              [data |-> NextCounter(a), stamp |-> NextStamp(CounterKey)]]
            /\ newStamp' = [newStamp EXCEPT ![a] = NextStamp(CounterKey)]
            /\ seq' = seq + 1
            /\ taken' = taken \cup {a}
            /\ step' = [step EXCEPT ![a] = "mark"]
            /\ UNCHANGED <<revision, attempt>>
    /\ UNCHANGED <<walletVars, saveVars, moved, loadVars, orphan, edited, edits,
                   faults, version, index, resets>>

AllocMark(a) ==
    /\ step[a] = "mark"
    /\ revision' = [revision EXCEPT ![StatusSection] = seq + 1]
    /\ seq' = seq + 1
    /\ step' = [step EXCEPT ![a] = "install"]
    /\ UNCHANGED <<backend, walletVars, saveVars, moved, loadVars, orphan, edited,
                   edits, faults, attempt, version, index, newStamp, taken, resets>>

(* The wallet takes the counter and the snapshot gains the row, without    *)
(* the revision, so the next check reloads the section.                    *)
AllocInstall(a) ==
    LET s == HomeOf[a]
    IN  /\ step[a] = "install"
        /\ state' = [state EXCEPT ![s][CounterKey] = NextCounter(a)]
        /\ persisted' = [persisted EXCEPT ![s][CounterKey] =
                            [data |-> NextCounter(a), stamp |-> newStamp[a]]]
        /\ moved' = [moved EXCEPT ![s] = saving[s] # "no"]
        /\ step' = [step EXCEPT ![a] = "done"]
        /\ UNCHANGED <<storeVars, revisions, loaded, saveVars, loadVars, orphan,
                       edited, edits, faults, attempt, version, index, newStamp,
                       taken, resets>>

(* A backend call fails and the call returns the error.  An index whose    *)
(* row was written stays used.                                             *)
AllocFail(a) ==
    /\ step[a] \in {"stat", "read", "write", "mark"}
    /\ faults < MaxFaults
    /\ faults' = faults + 1
    /\ step' = [step EXCEPT ![a] = "failed"]
    /\ UNCHANGED <<storeVars, walletVars, saveVars, moved, loadVars, orphan, edited, edits,
                   attempt, version, index, newStamp, taken, resets>>

--------------------------------------------------------------------------------
(* ResetToBaseline empties the state, then the wallet is saved.  The reset *)
(* holds storeSyncMu from the reload before it to the save.                *)
Reset(s) ==
    /\ resets < MaxResets
    /\ resets' = resets + 1
    /\ loaded[s] /\ saving[s] = "no" /\ loading[s] = "no"
    /\ StaleSections(s, TRUE) = {}
    /\ state' = [state EXCEPT ![s] = NoValues]
    /\ UNCHANGED <<storeVars, persisted, revisions, loaded, saveVars, moved,
                   loadVars, orphan, edited, edits, faults, step, attempt, version,
                   index, newStamp, taken>>

(* currentEntities: the stored counter is kept, and zeroed when the wallet *)
(* was reset.  Without a row in the snapshot the save leaves it alone.     *)
Counted(s) ==
    [state[s] EXCEPT ![CounterKey] =
        IF persisted[s][CounterKey] = NoRow THEN NoValue
        ELSE IF @ \in {NoValue, 0} THEN 0
        ELSE persisted[s][CounterKey].data]

(* A save that stores zero starts the numbering again.                     *)
Resets(s) == CounterRow'.stamp # CounterRow.stamp /\ CounterRow'.data = 0

CounterSave(s) ==
    /\ \/ SaveBegin(s, Counted(s))
       \/ \E k \in Key : SaveWrite(s, k) \/ SaveDelete(s, k)
       \/ \E sec \in Section : SaveRevision(s, sec)
       \/ SaveInstall(s)
    /\ taken' = IF Resets(s) THEN {} ELSE taken
    /\ UNCHANGED <<step, attempt, version, index, newStamp, resets>>

CounterInit ==
    /\ Init
    /\ step = [a \in Allocation |-> "stat"]
    /\ attempt = [a \in Allocation |-> 0]
    /\ version = [a \in Allocation |-> 0]
    /\ index = [a \in Allocation |-> 0]
    /\ newStamp = [a \in Allocation |-> 0]
    /\ taken = {}
    /\ resets = 0

Alloc(a) ==
    \/ AllocStat(a)
    \/ AllocRead(a)
    \/ AllocWrite(a)
    \/ AllocMark(a)
    \/ AllocInstall(a)
    \/ AllocFail(a)

CounterNext ==
    \/ \E a \in Allocation : Alloc(a)
    \/ \E s \in Server :
          \/ Reset(s)
          \/ CounterSave(s)
          \/ Load(s) /\ UNCHANGED counterVars

CounterSpec == CounterInit /\ [][CounterNext]_allVars

--------------------------------------------------------------------------------
(* Every variable of the allocations has the shape its declaration names.  *)
CounterTypeOK ==
    /\ TypeOK
    /\ step \in [Allocation -> {"stat", "read", "write", "mark", "install", "done", "failed"}]
    /\ attempt \in [Allocation -> 0..MaxAttempts]
    /\ version \in [Allocation -> 0..seq] /\ newStamp \in [Allocation -> 0..seq]
    /\ index \in [Allocation -> Nat]
    /\ taken \subseteq {a \in Allocation : step[a] \in {"mark", "install", "done", "failed"}}
    /\ resets \in 0..MaxResets

(* "Use compare-and-swap to allocate distinct status indices across        *)
(* servers."  Two issuances since the last reset never share an index.     *)
DistinctIndices ==
    \A a, b \in taken : a # b => index[a] # index[b]

(* The counter covers every index that was handed out since the last       *)
(* reset, so a list of that size has room for all of them.                 *)
CounterCovers ==
    \A a \in taken : CounterRow # NoRow /\ index[a] < CounterRow.data

(* Allocations are sound: the indices handed out are distinct and the      *)
(* stored counter covers them, whatever saves, reloads, resets and failed  *)
(* calls come between (allocateStatusIndex).                               *)
AllocationIsSound == CounterTypeOK /\ DistinctIndices /\ CounterCovers

================================================================================
