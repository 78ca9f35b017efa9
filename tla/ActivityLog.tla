------------------------------ MODULE ActivityLog ------------------------------
(***************************************************************************)
(* The activity log on the entity store.  An entry is added to the wallet  *)
(* in memory (Wallet.appendLogEntry) and then handed to the log sink,      *)
(* which appends one row and bumps the log revision                        *)
(* (WalletStore.appendLogEntry).  The append takes saveMu but not          *)
(* storeSyncMu, so it overlaps reloads of the same server.  Saves and      *)
(* reloads are those of EntityStore, its faults are left out here.         *)
(*                                                                         *)
(* An entry is cleared when the clear marker is later than its time.  The  *)
(* servers' clocks agree, so the marker covers the entries added before it *)
(* was written.  Entries are numbered in the order they are added.         *)
(***************************************************************************)
EXTENDS EntityStore, SequencesExt

CONSTANTS
    Entry,         \* the text of an entry
    MaxLogEntries, \* entries a trim keeps
    LogTrimSlack,  \* entries beyond them that make the wallet trim its log
    MaxClears,     \* bound: requests that clear the log
    MaxTrims       \* bound: saves and appends that trim the log

ASSUME EntryAssumption == Entry \in Value

VARIABLES
    added,      \* the log keys in the order their entries were added
    cleared,    \* the entries the clear marker covers
    removed,    \* history: entries a trim deleted or ClearLog emptied
    dropped,    \* history: entries a reload dropped while they were appended
    waiting,    \* [Server -> entries added whose append has not started]
    appending,  \* [Server -> the step of the append that holds saveMu]
    entry,      \* [Server -> the key being appended]
    row,        \* [Server -> the row as written]
    expected,   \* [Server -> the log revision cached before the bump]
    ownRev,     \* [Server -> the stamp of the bump, 0 after a conflict]
    trim,       \* [Server -> "no", "delete", "done"]
    doomed,     \* [Server -> the rows this trim deletes]
    clearing,   \* [Server -> "no", "marked", "save"]: a request to clear the log
    clears, trims

logVars == <<added, cleared, removed, dropped, waiting, appending, entry, row,
             expected, ownRev, trim, doomed, clearing, clears, trims>>
allVars == <<vars, logVars>>

LogKeys == KeysOf(LogSection)

(* saveMu is free.                                                         *)
SaveMuFree(s) == saving[s] = "no" /\ appending[s] = "no"

(* filterLogEntries on what a save stores and on what a reload shows.      *)
FilteredAll(content) ==  \* faulty: a marker of any time hides every entry
    [k \in Key |-> IF k \in LogKeys /\ clears > 0 THEN NoValue ELSE content[k]]
Filtered(content) ==
    [k \in Key |-> IF k \in LogKeys /\ k \in cleared THEN NoValue ELSE content[k]]

--------------------------------------------------------------------------------
(* Wallet.appendLogEntry up to the call of the sink.  A log that has grown *)
(* too long in memory keeps its last entries, the next save deletes the    *)
(* rows of the others.                                                     *)
Trimmed(s, k) ==
    LET inLog == SelectSeq(added, LAMBDA e : state[s][e] # NoValue) \o <<k>>
    IN  IF Len(inLog) < MaxLogEntries + LogTrimSlack THEN {}
        ELSE ToSet(SubSeq(inLog, 1, Len(inLog) - MaxLogEntries))

AddEntry(s, k) ==
    /\ loaded[s]
    /\ edits < MaxEdits
    /\ edits' = edits + 1
    /\ k \in LogKeys \ ToSet(added)
    /\ added' = Append(added, k)
    /\ state' = [state EXCEPT ![s] =
          [e \in Key |-> IF e \in Trimmed(s, k) THEN NoValue ELSE IF e = k THEN Entry ELSE @[e]]]
    /\ edited' = [edited EXCEPT ![s] = @ \cup {k} \cup Trimmed(s, k)]
    /\ removed' = removed \cup Trimmed(s, k)
    /\ waiting' = [waiting EXCEPT ![s] = @ \cup {k}]
    /\ UNCHANGED <<storeVars, persisted, revisions, loaded, saveVars, moved,
                   loadVars, orphan, faults, cleared, dropped, appending,
                   entry, row, expected, ownRev, trim, doomed, clearing, clears, trims>>

(* The entry is skipped when the log was cleared after it.                 *)
AppendCheck(s, k) ==
    /\ k \in waiting[s]
    /\ SaveMuFree(s)
    /\ waiting' = [waiting EXCEPT ![s] = @ \ {k}]
    /\ IF k \in cleared
       THEN UNCHANGED <<appending, entry>>
       ELSE /\ appending' = [appending EXCEPT ![s] = "write"]
            /\ entry' = [entry EXCEPT ![s] = k]
    /\ UNCHANGED <<vars, added, cleared, removed, dropped, row, expected, ownRev,
                   trim, doomed, clearing, clears, trims>>

AppendWrite(s) ==
    /\ appending[s] = "write"
    /\ row' = [row EXCEPT ![s] = [data |-> Entry, stamp |-> NextStamp(entry[s])]]
    /\ backend' = [backend EXCEPT ![entry[s]] = row'[s]]
    /\ seq' = seq + 1
    /\ appending' = [appending EXCEPT ![s] = "expect"]
    /\ UNCHANGED <<revision, walletVars, saveVars, moved, loadVars, orphan, edited,
                   edits, faults, added, cleared, removed, dropped, waiting, entry,
                   expected, ownRev, trim, doomed, clearing, clears, trims>>

AppendExpect(s) ==
    /\ appending[s] = "expect"
    /\ expected' = [expected EXCEPT ![s] = revisions[s][LogSection]]
    /\ appending' = [appending EXCEPT ![s] = "mark"]
    /\ UNCHANGED <<vars, added, cleared, removed, dropped, waiting, entry, row,
                   ownRev, trim, doomed, clearing, clears, trims>>

AppendMark(s) ==
    /\ appending[s] = "mark"
    /\ ownRev' = [ownRev EXCEPT ![s] =
                     IF revision[LogSection] = expected[s] THEN seq + 1 ELSE 0]
    /\ revision' = [revision EXCEPT ![LogSection] = seq + 1]
    /\ seq' = seq + 1
    /\ appending' = [appending EXCEPT ![s] = "install"]
    /\ UNCHANGED <<backend, walletVars, saveVars, moved, loadVars, orphan, edited,
                   edits, faults, added, cleared, removed, dropped, waiting, entry,
                   row, expected, trim, doomed, clearing, clears, trims>>

(* The snapshot gains the row, whoever replaced it in the meantime.        *)
AppendInstall(s) ==
    /\ appending[s] = "install"
    /\ trim[s] # "delete"
    /\ persisted' = [persisted EXCEPT ![s][entry[s]] = row[s]]
    /\ revisions' = [revisions EXCEPT ![s][LogSection] =
                        IF ownRev[s] # 0 THEN ownRev[s] ELSE @]
    /\ edited' = [edited EXCEPT ![s] = @ \ {entry[s]}]
    /\ appending' = [appending EXCEPT ![s] = "no"]
    /\ trim' = [trim EXCEPT ![s] = "no"]
    /\ row' = [row EXCEPT ![s] = NoRow]
    /\ expected' = [expected EXCEPT ![s] = 0]
    /\ ownRev' = [ownRev EXCEPT ![s] = 0]
    /\ UNCHANGED <<storeVars, state, loaded, saveVars, moved, loadVars, orphan,
                   edits, faults, added, cleared, removed, dropped, waiting, entry,
                   doomed, clearing, clears, trims>>

--------------------------------------------------------------------------------
(* trimLogPeriodically: every 64th save or append lists the log, deletes   *)
(* the oldest rows beyond the limit and bumps the revision.  Which one is  *)
(* the 64th is left open.                                                  *)
TrimList(s) ==
    /\ trim[s] = "no"
    /\ \/ appending[s] = "install"
       \/ saving[s] = "rows" /\ RowsDone(s) /\ Touched(s) \subseteq marked[s]
    /\ trims < MaxTrims
    /\ trims' = trims + 1
    /\ LET stored == SelectSeq(added, LAMBDA k : backend[k] # NoRow)
           excess == Len(stored) - MaxLogEntries
       IN  /\ excess > 0
           /\ doomed' = [doomed EXCEPT ![s] = ToSet(SubSeq(stored, 1, excess))]
    /\ trim' = [trim EXCEPT ![s] = "delete"]
    /\ UNCHANGED <<vars, added, cleared, removed, dropped, waiting, appending,
                   entry, row, expected, ownRev, clearing, clears>>

TrimDelete(s, k) ==
    /\ trim[s] = "delete"
    /\ k \in doomed[s]
    /\ backend' = [backend EXCEPT ![k] = NoRow]
    /\ doomed' = [doomed EXCEPT ![s] = @ \ {k}]
    /\ removed' = removed \cup {k}
    /\ UNCHANGED <<revision, seq, walletVars, saveVars, moved, loadVars, orphan,
                   edited, edits, faults, added, cleared, dropped, waiting,
                   appending, entry, row, expected, ownRev, trim, clearing,
                   clears, trims>>

TrimMark(s) ==
    /\ trim[s] = "delete"
    /\ doomed[s] = {}
    /\ revision' = [revision EXCEPT ![LogSection] = seq + 1]
    /\ seq' = seq + 1
    /\ trim' = [trim EXCEPT ![s] = "done"]
    /\ UNCHANGED <<backend, walletVars, saveVars, moved, loadVars, orphan, edited,
                   edits, faults, added, cleared, removed, dropped, waiting,
                   appending, entry, row, expected, ownRev, doomed, clearing,
                   clears, trims>>

--------------------------------------------------------------------------------
(* handleClearLog: the marker first, then ClearLog and a save under        *)
(* storeSyncMu.                                                            *)
ClearMarker(s) ==
    /\ loaded[s]
    /\ clearing[s] = "no"
    /\ clears < MaxClears
    /\ clears' = clears + 1
    /\ cleared' = ToSet(added)
    /\ clearing' = [clearing EXCEPT ![s] = "marked"]
    /\ UNCHANGED <<vars, added, removed, dropped, waiting, appending, entry, row,
                   expected, ownRev, trim, doomed, trims>>

ClearMemory(s) ==
    /\ clearing[s] = "marked"
    /\ saving[s] = "no" /\ loading[s] = "no"
    /\ state' = [state EXCEPT ![s] =
          [k \in Key |-> IF k \in LogKeys THEN NoValue ELSE @[k]]]
    /\ edited' = [edited EXCEPT ![s] = @ \cup LogKeys]
    /\ removed' = removed \cup {k \in LogKeys : state[s][k] # NoValue}
    /\ clearing' = [clearing EXCEPT ![s] =
          IF \E k \in Key : Filtered(state'[s])[k] # persisted[s][k].data
          THEN "save" ELSE "no"]
    /\ UNCHANGED <<storeVars, persisted, revisions, loaded, saveVars, moved,
                   loadVars, orphan, edits, faults, added, cleared,
                   dropped, waiting, appending, entry, row, expected, ownRev, trim,
                   doomed, clears, trims>>

--------------------------------------------------------------------------------
(* The saves and reloads of EntityStore next to the appends.               *)
LogSave(s) ==
    \/ /\ SaveMuFree(s)
       /\ SaveBegin(s, Filtered(state[s]))
       /\ clearing' = [clearing EXCEPT ![s] = IF @ = "save" THEN "no" ELSE @]
       /\ UNCHANGED <<added, cleared, removed, dropped, waiting, appending, entry,
                      row, expected, ownRev, trim, doomed, clears, trims>>
    \/ /\ \/ \E k \in Key : SaveWrite(s, k) \/ SaveDelete(s, k)
          \/ \E sec \in Section : SaveRevision(s, sec)
       /\ UNCHANGED logVars
    \/ /\ trim[s] # "delete"
       /\ SaveInstall(s)
       /\ trim' = [trim EXCEPT ![s] = "no"]
       /\ UNCHANGED <<added, cleared, removed, dropped, waiting, appending, entry,
                      row, expected, ownRev, doomed, clearing, clears, trims>>

(* The entries a reload takes out of the wallet although their append has  *)
(* not finished.                                                           *)
Dropped(s, new) ==
    {k \in waiting[s] \cup (IF appending[s] = "no" THEN {} ELSE {entry[s]}) :
        LogSection \in sections[s] /\ new[k] = NoValue}

LogLoad(s) ==
    \/ /\ clearing[s] # "save"
       /\ \E withLog \in BOOLEAN : LoadCheck(s, withLog)
       /\ UNCHANGED logVars
    \/ /\ \/ LoadRevisions(s)
          \/ LoadKnown(s)
          \/ \E sec \in Section : LoadList(s, sec)
          \/ LoadAll(s)
          \/ \E k \in Key : LoadRow(s, k)
       /\ UNCHANGED logVars
    \/ LET new == Filtered([k \in Key |-> Parsed(s, k)])
       IN  /\ LoadInstall(s, new)
           /\ dropped' = dropped \cup Dropped(s, new)
           /\ UNCHANGED <<added, cleared, removed, waiting, appending, entry, row,
                          expected, ownRev, trim, doomed, clearing, clears, trims>>

LogAppend(s) ==
    \/ \E k \in LogKeys : AppendCheck(s, k)
    \/ AppendWrite(s)
    \/ AppendExpect(s)
    \/ AppendMark(s)
    \/ AppendInstall(s)

LogTrim(s) ==
    \/ TrimList(s)
    \/ \E k \in LogKeys : TrimDelete(s, k)
    \/ TrimMark(s)

LogInit ==
    /\ Init
    /\ added = <<>>
    /\ cleared = {} /\ removed = {} /\ dropped = {}
    /\ waiting = [s \in Server |-> {}]
    /\ appending = [s \in Server |-> "no"]
    /\ entry = [s \in Server |-> CHOOSE k \in LogKeys : TRUE]
    /\ row = [s \in Server |-> NoRow]
    /\ expected = [s \in Server |-> 0]
    /\ ownRev = [s \in Server |-> 0]
    /\ trim = [s \in Server |-> "no"]
    /\ doomed = [s \in Server |-> {}]
    /\ clearing = [s \in Server |-> "no"]
    /\ clears = 0 /\ trims = 0

LogNext ==
    \E s \in Server :
        \/ \E k \in LogKeys : AddEntry(s, k)
        \/ LogAppend(s)
        \/ LogTrim(s)
        \/ ClearMarker(s)
        \/ ClearMemory(s)
        \/ LogSave(s)
        \/ LogLoad(s)
        \/ /\ \E k \in Key \ LogKeys, v \in MaybeValue : Edit(s, k, v)
           /\ UNCHANGED logVars

LogSpec == LogInit /\ [][LogNext]_allVars

--------------------------------------------------------------------------------

(* A stored log entry disappears only because the log was cleared, because *)
(* a trim took it (of the rows or of the log in memory), or because a      *)
(* reload of its server dropped it from the wallet while it was being      *)
(* appended.  No save or reload of another server and no other append      *)
(* deletes it.                                                             *)
EntriesAreKept ==
    [][\A k \in LogKeys :
          backend[k] # NoRow /\ backend'[k] = NoRow
              => k \in cleared \cup removed' \cup dropped]_allVars

================================================================================
