---------------------------- MODULE IssuanceProofs ----------------------------
(***************************************************************************)
(* What the wallet does with issuers, for any listings, rounds, nonces and *)
(* rotations: a renewal keeps what it was given (Renewal), a credential    *)
(* offer is refused in time and run consistently (IssuanceFlow), and its   *)
(* requests meet what the servers demand (IssuanceRequests). The three     *)
(* share no state and are proved one after the other.                      *)
(***************************************************************************)
EXTENDS Renewal, IssuanceFlow, IssuanceRequests, TLAPS

(* A presentation that renews uses a copy of a batch.  Only the use count  *)
(* of a copy makes preparePresentation save.                               *)
PresentsCopies == \A u \in Setups : u.batch \/ u.flows \cap Presentations = {}

(* Where a renewal can be, and that a presentation holds the lock.         *)
RowInv(f, w) ==
    /\ w.pc # "idle" => f \in setup.flows
    /\ w.pc = "present" => f \in Presentations
    /\ w.pc \in {"save", "reread"} => f \notin Presentations
    /\ w.ok => w.pc \in {"save", "present"}
    /\ f \in Presentations /\ w.pc # "idle" => lock = {f}

(* A renewal that will still save, or that leaves it to another one.       *)
Unfinished(w) == w.pc \in {"request", "store", "save", "reread", "present"}

SavedInv ==
    /\ ~mem.here => disk = mem
    /\ disk # mem => \E f \in Flows : Unfinished(flow[f])

TokenInv ==
    /\ ~setup.others => ~foreign
    /\ SweepAlone /\ ~lost =>
          /\ mem.here => mem.token = cur
          /\ \A f \in Flows : flow[f].pc \in {"request", "store", "save"} => flow[f].token = cur

KeptIn(c) == c.here => c.cont = kept

ContentInv ==
    OneFlow =>
        /\ (\A f \in Flows : ~flow[f].ok) => KeptIn(mem) /\ KeptIn(disk)
        /\ \A f \in Flows :
              /\ ~flow[f].ok /\ flow[f].pc = "save" => flow[f].cont = kept
              /\ flow[f].ok /\ flow[f].pc = "present" /\ mem.here => mem.cont = flow[f].cont

RenewalInv ==
    /\ setup \in Setups /\ TypeOK
    /\ \A f \in Flows : RowInv(f, flow[f])
    /\ SavedInv /\ TokenInv /\ ContentInv

--------------------------------------------------------------------------------
LEMMA SetupType ==
    ASSUME setup \in Setups
    PROVE  /\ setup.flows \subseteq Flows /\ setup.rotations \in Nat /\ setup.failures \in Nat
           /\ {setup.file, setup.batch, setup.others, setup.deletes} \subseteq BOOLEAN
BY RenewalAssumption

LEMMA Shapes ==
    ASSUME UNCHANGED setup
    PROVE  Copy' = Copy /\ FlowRow' = FlowRow /\ MaxRotations' = MaxRotations /\ MaxFailures' = MaxFailures
BY Zenon DEF Copy, FlowRow, MaxRotations, MaxFailures

(* The rows a step writes.                                                 *)
Places == {"idle", "metadata", "token", "request", "store", "save", "reread", "present"}

LEMMA RowAt ==
    ASSUME NEW w \in FlowRow, NEW x \in Places
    PROVE  /\ [w EXCEPT !.pc = x] \in FlowRow
           /\ [w EXCEPT !.pc = x].pc = x /\ [w EXCEPT !.pc = x].token = w.token
           /\ [w EXCEPT !.pc = x].cont = w.cont /\ [w EXCEPT !.pc = x].ok = w.ok
BY DEF FlowRow, Places

LEMMA Moves ==
    ASSUME TypeOK, UNCHANGED setup, NEW f \in Flows, NEW row \in FlowRow,
           flow' = [flow EXCEPT ![f] = row]
    PROVE  /\ flow' \in [Flows -> FlowRow] /\ flow'[f] = row
           /\ \A g \in Flows \ {f} : flow'[g] = flow[g]
BY Zenon DEF TypeOK

(* A renewal of the sweep, or the only renewal, is alone.                  *)
LEMMA Solo ==
    ASSUME RenewalInv, SweepAlone \/ OneFlow, NEW f \in Flows, f \in setup.flows
    PROVE  \A g \in Flows \ {f} : flow[g].pc = "idle" /\ ~flow[g].ok
<1> SUFFICES ASSUME NEW g \in Flows \ {f} PROVE flow[g].pc = "idle" /\ ~flow[g].ok
    BY Zenon
<1>1. RowInv(g, flow[g])
    BY Zenon DEF RenewalInv
<1>2. g \notin setup.flows
    BY Zenon, RenewalAssumption DEF SweepAlone, OneFlow
<1> QED
    BY <1>1, <1>2 DEF RowInv

LEMMA SoloKept ==
    ASSUME RenewalInv, OneFlow, NEW f \in Flows, f \in setup.flows, ~flow[f].ok
    PROVE  KeptIn(mem) /\ KeptIn(disk)
<1>1. \A g \in Flows : ~flow[g].ok
    BY Zenon, Solo
<1> QED
    BY Zenon, <1>1 DEF RenewalInv, ContentInv

(* What a step of a renewal has to show, beyond the other renewals.        *)
LEMMA RenewalFlowStep ==
    ASSUME RenewalInv, UNCHANGED <<setup, foreign>>, NEW f \in Flows, f \in setup.flows, NEW row \in FlowRow,
           flow' = [flow EXCEPT ![f] = row], TypeOK', RowInv(f, row)',
           lock' = lock \/ lock \in {{}, {f}}, SavedInv', lost => lost',
           SweepAlone /\ ~lost' =>
               /\ mem'.here => mem'.token = cur'
               /\ row.pc \in {"request", "store", "save"} => row.token = cur',
           OneFlow =>
               /\ ~row.ok => KeptIn(mem)' /\ KeptIn(disk)'
               /\ ~row.ok /\ row.pc = "save" => row.cont = kept'
               /\ row.ok /\ row.pc = "present" /\ mem'.here => mem'.cont = row.cont
    PROVE  RenewalInv'
<1> USE DEF RenewalInv
<1>1. flow'[f] = row /\ \A g \in Flows \ {f} : flow'[g] = flow[g]
    BY Zenon, Moves
<1>2. (SweepAlone' <=> SweepAlone) /\ (OneFlow' <=> OneFlow)
    BY Zenon DEF SweepAlone, OneFlow
<1>3. ASSUME NEW g \in Flows PROVE RowInv(g, flow[g])'
    <2>1. CASE g = f
        BY Zenon, <1>1, <2>1 DEF RowInv
    <2>2. CASE g # f
        <3>1. RowInv(g, flow[g]) /\ flow'[g] = flow[g]
            BY Zenon, <1>1, <2>2
        <3>2. g \in Presentations /\ flow[g].pc # "idle" => lock' = {g}
            <4> SUFFICES ASSUME g \in Presentations, flow[g].pc # "idle" PROVE lock' = {g}
                OBVIOUS
            <4>1. lock = {g}
                BY Zenon, <3>1 DEF RowInv
            <4>2. lock # {} /\ lock # {f}
                BY Zenon, <2>2, <4>1
            <4> QED
                BY Zenon, <4>1, <4>2
        <3> QED
            BY Zenon, <3>1, <3>2 DEF RowInv
    <2> QED
        BY Zenon, <2>1, <2>2
<1>4. TokenInv'
    <2>1. ~setup'.others => ~foreign'
        BY Zenon DEF TokenInv
    <2>2. ASSUME SweepAlone, ~lost', NEW g \in Flows, flow'[g].pc \in {"request", "store", "save"}
          PROVE  flow'[g].token = cur'
        <3>1. g = f
            BY <1>1, <2>2, Solo
        <3> QED
            BY Zenon, <1>1, <2>2, <3>1
    <2> QED
        BY Zenon, <1>2, <2>1, <2>2 DEF TokenInv
<1>5. ContentInv'
    <2> SUFFICES ASSUME OneFlow PROVE ContentInv'
        BY Zenon, <1>2 DEF ContentInv
    <2>1. ASSUME NEW g \in Flows \ {f} PROVE flow'[g].pc = "idle" /\ ~flow'[g].ok
        BY ZenonT(60), <1>1, Solo
    <2>2. ASSUME NEW g \in Flows \ {f} PROVE flow'[g].pc \notin {"save", "present"}
        BY <2>1
    <2>3. ASSUME \A g \in Flows : ~flow'[g].ok PROVE KeptIn(mem)' /\ KeptIn(disk)'
        BY Zenon, <1>1, <2>3
    <2>4. ASSUME NEW g \in Flows
          PROVE  /\ ~flow'[g].ok /\ flow'[g].pc = "save" => flow'[g].cont = kept'
                 /\ flow'[g].ok /\ flow'[g].pc = "present" /\ mem'.here => mem'.cont = flow'[g].cont
        BY Zenon, <1>1, <2>2
    <2> QED
        BY Zenon, <2>3, <2>4 DEF ContentInv
<1> QED
    BY Zenon, <1>3, <1>4, <1>5

--------------------------------------------------------------------------------
(* The steps of a renewal.                                                 *)
LEMMA RowTypes ==
    ASSUME RenewalInv, NEW f \in Flows
    PROVE  /\ flow[f] \in FlowRow /\ RowInv(f, flow[f])
           /\ mem \in Copy /\ disk \in Copy
           /\ flow[f].token \in 0..MaxRotations /\ flow[f].cont \in 0..MaxRotations
           /\ mem.token \in 0..MaxRotations /\ mem.cont \in 0..MaxRotations
<1>1. flow[f] \in FlowRow /\ RowInv(f, flow[f]) /\ mem \in Copy /\ disk \in Copy
    BY Zenon DEF RenewalInv, TypeOK
<1> QED
    BY <1>1 DEF FlowRow, Copy

LEMMA NotReplaced ==
    ASSUME RenewalInv, NEW f \in Flows, flow[f].pc \notin {"save", "present"}
    PROVE  ~flow[f].ok
BY Zenon, RowTypes DEF RowInv

LEMMA UnfinishedSaves ==
    ASSUME RenewalInv, UNCHANGED setup, NEW f \in Flows, NEW row \in FlowRow,
           flow' = [flow EXCEPT ![f] = row], Unfinished(row), ~mem'.here => disk' = mem'
    PROVE  SavedInv'
<1>1. flow'[f] = row
    BY Zenon, Moves DEF RenewalInv
<1> QED
    BY Zenon, <1>1 DEF SavedInv, Unfinished

LEMMA UnchangedSaves ==
    ASSUME RenewalInv, UNCHANGED <<setup, mem>>, disk' \in {disk, mem}, NEW f \in Flows, NEW row \in FlowRow,
           flow' = [flow EXCEPT ![f] = row], ~Unfinished(flow[f])
    PROVE  SavedInv'
<1>1. \A g \in Flows \ {f} : flow'[g] = flow[g]
    BY Zenon, Moves DEF RenewalInv
<1>2. SavedInv
    BY Zenon DEF RenewalInv
<1> QED
    BY Zenon, <1>1, <1>2 DEF SavedInv, Unfinished

LEMMA StartStep ==
    ASSUME RenewalInv, UNCHANGED setup, NEW f \in Flows, Start(f)
    PROVE  RenewalInv'
<1> USE DEF RenewalInv, Start
<1>0. mem.token \in 0..MaxRotations /\ 0 \in 0..MaxRotations
    <2>1. mem.token \in 0..MaxRotations /\ MaxRotations \in Nat
        BY Zenon, RowTypes, SetupType DEF MaxRotations
    <2> QED
        BY <2>1
<1>1. PICK row \in FlowRow : /\ row = [Idle EXCEPT !.pc = "metadata", !.token = mem.token]
                             /\ row.pc = "metadata" /\ ~row.ok
    <2>1. Idle \in FlowRow /\ Idle.cont = 0 /\ Idle.ok = FALSE
        BY <1>0 DEF Idle, FlowRow
    <2>2. PICK row : row = [Idle EXCEPT !.pc = "metadata", !.token = mem.token]
        BY Zenon
    <2>3. row \in FlowRow /\ row.pc = "metadata" /\ row.ok = FALSE
        BY Zenon, <1>0, <2>1, <2>2 DEF FlowRow
    <2> QED
        BY Zenon, <2>2, <2>3
<1>2. ~Unfinished(flow[f]) /\ ~flow[f].ok
    <2>1. flow[f].pc \notin {"save", "present"} /\ ~Unfinished(flow[f])
        BY DEF Unfinished
    <2> QED
        BY Zenon, <2>1, NotReplaced
<1>3. /\ flow' = [flow EXCEPT ![f] = row]
      /\ UNCHANGED <<mem, disk, cur, made, lost, kept, expiring, backoff, foreign, failures>>
    BY Zenon, <1>1 DEF issuer, clock
<1>4. \/ lock' = lock /\ f \notin Presentations
      \/ lock = {} /\ lock' = {f} /\ f \in Presentations
    BY Zenon, RenewalAssumption DEF SweepStart, CallStart, PresentStart
<1>5. TypeOK'
    <2>1. flow' \in [Flows -> FlowRow] /\ lock' \subseteq Presentations
        BY Zenon, <1>1, <1>3, <1>4, Moves DEF TypeOK
    <2> QED
        BY Zenon, <1>3, <2>1, Shapes DEF TypeOK
<1>6. row.pc \notin {"idle", "present", "request", "store", "save", "reread"}
    BY <1>1
<1>7. RowInv(f, row)'
    BY Zenon, <1>1, <1>4, <1>6 DEF RowInv
<1>8. SavedInv'
    BY Zenon, <1>1, <1>2, <1>3, UnchangedSaves
<1>9. OneFlow => KeptIn(mem)' /\ KeptIn(disk)'
    BY Zenon, <1>2, <1>3, SoloKept DEF KeptIn
<1>10. SweepAlone /\ ~lost' => (mem'.here => mem'.token = cur')
    BY Zenon, <1>3 DEF TokenInv
<1> QED
    BY Zenon, <1>1, <1>3, <1>4, <1>5, <1>6, <1>7, <1>8, <1>9, <1>10, RenewalFlowStep

(* A renewal that has not replaced the credential goes on or gives up.     *)
LEMMA AdvanceKeeps ==
    ASSUME RenewalInv, TypeOK', UNCHANGED <<setup, mem, lock, kept, foreign>>, disk' \in {disk, mem},
           NEW f \in Flows, flow[f].pc \in {"metadata", "token", "request", "store"},
           NEW row \in FlowRow, flow' = [flow EXCEPT ![f] = row], ~row.ok,
           row.pc \in {"token", "request", "store", Returned(f, FALSE)},
           Unfinished(flow[f]) => Unfinished(row), lost => lost',
           SweepAlone /\ ~lost' => cur' = cur /\ (row.pc \in {"request", "store"} => row.token = cur)
    PROVE  RenewalInv'
<1> USE DEF RenewalInv
<1>1. flow[f].pc \notin {"idle", "save", "present"}
    OBVIOUS
<1>2. ~flow[f].ok /\ f \in setup.flows /\ RowInv(f, flow[f])
    BY Zenon, <1>1, NotReplaced DEF RowInv
<1>3. RowInv(f, row)'
    <2>1. f \in Presentations => lock' = {f}
        BY Zenon, <1>1, <1>2 DEF RowInv
    <2>2. /\ row.pc = "present" => f \in Presentations
          /\ row.pc \in {"save", "reread"} => f \notin Presentations
        BY DEF Returned
    <2> QED
        BY Zenon, <1>2, <2>1, <2>2 DEF RowInv
<1>4. SavedInv'
    <2>1. ~mem'.here => disk' = mem'
        BY Zenon DEF SavedInv
    <2> QED
        BY Zenon, <2>1, UnfinishedSaves, UnchangedSaves
<1>5. OneFlow => KeptIn(mem)' /\ KeptIn(disk)'
    BY Zenon, <1>2, SoloKept DEF KeptIn
<1>6. SweepAlone /\ ~lost' => (mem'.here => mem'.token = cur')
    BY Zenon DEF TokenInv
<1>7. row.pc # "save"
    BY DEF Returned
<1>8. SweepAlone /\ ~lost' => (row.pc \in {"request", "store", "save"} => row.token = cur')
    BY Zenon, <1>7
<1> QED
    BY ZenonT(60), <1>2, <1>3, <1>4, <1>5, <1>6, <1>7, <1>8, RenewalFlowStep

(* The row a renewal that gives up is left with.                           *)
LEMMA FailedRow ==
    ASSUME RenewalInv, NEW f \in Flows, Failed(f)
    PROVE  \E row \in FlowRow : /\ flow' = [flow EXCEPT ![f] = row] /\ ~row.ok /\ Unfinished(row)
                                /\ row.pc = Returned(f, FALSE)
<1>1. Returned(f, FALSE) \in {"present", "reread"}
    BY DEF Returned
<1>2. PICK x \in {"present", "reread"} : x = Returned(f, FALSE)
    BY Zenon, <1>1
<1>3. PICK row \in FlowRow : row = [flow[f] EXCEPT !.pc = x, !.ok = FALSE] /\ row.pc = x /\ ~row.ok
    <2>1. x \in {"idle", "metadata", "token", "request", "store", "save", "reread", "present"}
        OBVIOUS
    <2>2. PICK row : row = [flow[f] EXCEPT !.pc = x, !.ok = FALSE]
        BY Zenon
    <2>3. flow[f] \in FlowRow
        BY Zenon, RowTypes
    <2>4. row \in FlowRow /\ row.pc = x /\ row.ok = FALSE
        BY Zenon, <2>1, <2>2, <2>3 DEF FlowRow
    <2> QED
        BY Zenon, <2>2, <2>4
<1>4. Unfinished(row)
    BY <1>3 DEF Unfinished
<1> QED
    BY Zenon, <1>2, <1>3, <1>4 DEF Failed

LEMMA FailType ==
    ASSUME RenewalInv, UNCHANGED setup, failures' = failures \/ Fail
    PROVE  failures' \in 0..MaxFailures
<1>1. failures \in 0..MaxFailures /\ MaxFailures \in Nat
    BY Zenon, SetupType DEF RenewalInv, TypeOK, MaxFailures
<1> QED
    BY <1>1 DEF Fail

LEMMA LogSavesDisk ==
    ASSUME RenewalInv, LogSaves(mem)
    PROVE  disk' \in {disk, mem} /\ disk' \in Copy
BY Zenon DEF LogSaves, RenewalInv, TypeOK

LEMMA LoadMetadataStep ==
    ASSUME RenewalInv, UNCHANGED setup, NEW f \in Flows, LoadMetadata(f)
    PROVE  RenewalInv'
<1> USE DEF RenewalInv
<1>1. /\ flow[f].pc = "metadata" /\ disk' \in {disk, mem} /\ disk' \in Copy
      /\ UNCHANGED <<mem, lock, cur, made, lost, kept, expiring, backoff, foreign>>
      /\ failures' \in 0..MaxFailures
    BY Zenon, LogSavesDisk, FailType DEF LoadMetadata, issuer, clock
<1>2. PICK row \in FlowRow : /\ flow' = [flow EXCEPT ![f] = row] /\ ~row.ok
                             /\ row.pc \in {"token", Returned(f, FALSE)}
    <2>1. CASE flow' = [flow EXCEPT ![f] = [flow[f] EXCEPT !.pc = "token"]]
        <3>1. ~flow[f].ok /\ flow[f] \in FlowRow
            BY <1>1, NotReplaced, RowTypes
        <3>2. PICK row \in FlowRow : row = [flow[f] EXCEPT !.pc = "token"] /\ ~row.ok /\ row.pc = "token"
            <4>1. PICK row : row = [flow[f] EXCEPT !.pc = "token"]
                BY Zenon
            <4>2. row \in FlowRow /\ row.pc = "token" /\ row.ok = flow[f].ok
                BY Zenon, <3>1, <4>1, RowAt DEF Places
            <4> QED
                BY Zenon, <3>1, <4>1, <4>2
        <3> QED
            BY ZenonT(60), <2>1, <3>2
    <2> QED
        BY Zenon, <2>1, FailedRow DEF LoadMetadata
<1>3. TypeOK'
    <2>1. flow' \in [Flows -> FlowRow]
        BY Zenon, <1>2, Moves
    <2> QED
        BY Zenon, <1>1, <2>1, Shapes DEF TypeOK
<1>4. /\ ~Unfinished(flow[f]) /\ row.pc \notin {"request", "store"}
      /\ flow[f].pc \in {"metadata", "token", "request", "store"}
      /\ row.pc \in {"token", "request", "store", Returned(f, FALSE)}
    BY <1>1, <1>2 DEF Unfinished, Returned
<1> QED
    BY Zenon, <1>1, <1>2, <1>3, <1>4, AdvanceKeeps

LEMMA RequestStep ==
    ASSUME RenewalInv, UNCHANGED setup, NEW f \in Flows, RequestCredential(f)
    PROVE  RenewalInv'
<1> USE DEF RenewalInv
<1>1. /\ flow[f].pc = "request" /\ disk' \in {disk, mem} /\ disk' \in Copy
      /\ UNCHANGED <<mem, lock, cur, lost, kept, expiring, backoff, foreign>>
      /\ failures' \in 0..MaxFailures
    BY Zenon, LogSavesDisk, FailType DEF RequestCredential, clock
<1>2. PICK row \in FlowRow : /\ flow' = [flow EXCEPT ![f] = row] /\ ~row.ok /\ Unfinished(row)
                             /\ row.pc \in {"store", Returned(f, FALSE)}
                             /\ row.pc = "store" => row.token = flow[f].token
                             /\ made' \in 0..MaxRotations
    <2>1. CASE made < MaxRotations /\ made' = made + 1
               /\ flow' = [flow EXCEPT ![f] = [flow[f] EXCEPT !.pc = "store", !.cont = made + 1]]
        <3>1. ~flow[f].ok /\ flow[f] \in FlowRow
            BY <1>1, NotReplaced, RowTypes
        <3>2. made \in 0..MaxRotations /\ MaxRotations \in Nat
            BY Zenon, SetupType DEF TypeOK, MaxRotations
        <3>3. made + 1 \in 0..MaxRotations
            BY <2>1, <3>2
        <3>4. PICK row \in FlowRow :
                  /\ row = [flow[f] EXCEPT !.pc = "store", !.cont = made + 1]
                  /\ ~row.ok /\ row.pc = "store" /\ row.token = flow[f].token
            <4>1. PICK row : row = [flow[f] EXCEPT !.pc = "store", !.cont = made + 1]
                BY Zenon
            <4>2. row \in FlowRow /\ row.pc = "store" /\ row.token = flow[f].token /\ row.ok = flow[f].ok
                BY Zenon, <3>1, <3>3, <4>1 DEF FlowRow
            <4> QED
                BY Zenon, <3>1, <4>1, <4>2
        <3>5. Unfinished(row)
            BY <3>4 DEF Unfinished
        <3> QED
            BY ZenonT(60), <2>1, <3>3, <3>4, <3>5
    <2>2. CASE Failed(f) /\ UNCHANGED made
        <3>1. Returned(f, FALSE) # "store" /\ made' \in 0..MaxRotations
            BY Zenon, <2>2 DEF Returned, TypeOK
        <3> QED
            BY Zenon, <2>2, <3>1, FailedRow
    <2> QED
        BY Zenon, <2>1, <2>2 DEF RequestCredential
<1>3. TypeOK'
    <2>1. flow' \in [Flows -> FlowRow]
        BY Zenon, <1>2, Moves
    <2> QED
        BY Zenon, <1>1, <1>2, <2>1, Shapes DEF TypeOK
<1>4. /\ row.pc # "request" /\ flow[f].pc \in {"request", "store", "save"}
      /\ flow[f].pc \in {"metadata", "token", "request", "store"}
      /\ row.pc \in {"token", "request", "store", Returned(f, FALSE)}
    BY <1>1, <1>2 DEF Returned
<1>5. SweepAlone /\ ~lost' => cur' = cur /\ (row.pc \in {"request", "store"} => row.token = cur)
    BY Zenon, <1>1, <1>2, <1>4 DEF TokenInv
<1> QED
    BY Zenon, <1>1, <1>2, <1>3, <1>4, <1>5, AdvanceKeeps

(* A refresh token is rotated: memory gets the new one, and the renewal    *)
(* goes on or is read again.                                               *)
LEMMA RotateStep ==
    ASSUME RenewalInv, UNCHANGED <<setup, lock, made, lost, kept, expiring, backoff, foreign>>,
           NEW f \in Flows, flow[f].pc = "token", cur < MaxRotations, cur' = cur + 1, Remember(cur + 1),
           LogSaves(mem), failures' = failures \/ Fail, NEW x \in {"request", Returned(f, FALSE)},
           flow' = [flow EXCEPT ![f] = [flow[f] EXCEPT !.pc = x, !.token = cur + 1]]
    PROVE  RenewalInv'
<1> USE DEF RenewalInv
<1>1. disk' \in {disk, mem} /\ disk' \in Copy /\ failures' \in 0..MaxFailures
    BY Zenon, LogSavesDisk, FailType
<1>2. cur + 1 \in 0..MaxRotations
    <2>1. cur \in 0..MaxRotations /\ MaxRotations \in Nat
        BY Zenon, SetupType DEF TypeOK, MaxRotations
    <2> QED
        BY <2>1
<1>3. flow[f] \in FlowRow /\ mem \in Copy /\ RowInv(f, flow[f])
    BY Zenon, RowTypes
<1>4. /\ ~flow[f].ok /\ flow[f].pc \notin {"idle", "save", "present"} /\ f \in setup.flows
    <2>1. flow[f].pc \notin {"idle", "save", "present"}
        OBVIOUS
    <2> QED
        BY Zenon, <1>3, <2>1, NotReplaced DEF RowInv
<1>5. PICK row : row = [flow[f] EXCEPT !.pc = x, !.token = cur + 1]
    BY Zenon
<1>6. x \in {"request", "present", "reread"}
    BY DEF Returned
<1>7. row \in FlowRow /\ row.pc = x /\ row.token = cur + 1 /\ row.ok = flow[f].ok
    BY Zenon, <1>2, <1>3, <1>5, <1>6 DEF FlowRow
<1>8. flow' = [flow EXCEPT ![f] = row]
    BY Zenon, <1>5
<1>9. /\ mem' \in Copy /\ mem'.here = mem.here /\ mem'.cont = mem.cont
      /\ mem'.here => mem'.token = cur + 1
      /\ ~mem.here => mem' = mem
    BY <1>2, <1>3 DEF Remember, Copy
<1>10. TypeOK'
    <2>1. flow' \in [Flows -> FlowRow]
        BY Zenon, <1>7, <1>8, Moves
    <2> QED
        BY Zenon, <1>1, <1>2, <1>9, <2>1, Shapes DEF TypeOK
<1>11. RowInv(f, row)'
    <2>1. f \in Presentations => lock' = {f}
        BY Zenon, <1>3, <1>4 DEF RowInv
    <2>2. /\ x = "present" => f \in Presentations
          /\ x \in {"save", "reread"} => f \notin Presentations
        BY DEF Returned
    <2> QED
        BY Zenon, <1>4, <1>7, <2>1, <2>2 DEF RowInv
<1>12. SavedInv'
    <2>1. Unfinished(row)
        BY <1>6, <1>7 DEF Unfinished
    <2>2. ~mem'.here => disk' = mem'
        BY Zenon, <1>1, <1>9 DEF SavedInv
    <2> QED
        BY Zenon, <1>7, <1>8, <2>1, <2>2, UnfinishedSaves
<1>13. OneFlow => KeptIn(mem)' /\ KeptIn(disk)'
    BY Zenon, <1>1, <1>4, <1>9, SoloKept DEF KeptIn
<1>14. row.pc # "save"
    BY <1>6, <1>7
<1> QED
    BY Zenon, <1>4, <1>7, <1>8, <1>9, <1>10, <1>11, <1>12, <1>13, <1>14, RenewalFlowStep

LEMMA RefreshTokenStep ==
    ASSUME RenewalInv, UNCHANGED setup, NEW f \in Flows, RefreshToken(f)
    PROVE  RenewalInv'
<1> USE DEF RenewalInv
<1>1. /\ flow[f].pc = "token" /\ disk' \in {disk, mem} /\ disk' \in Copy /\ LogSaves(mem)
      /\ UNCHANGED <<lock, made, kept, expiring, backoff, foreign>>
    BY Zenon, LogSavesDisk DEF RefreshToken, clock
<1>2. /\ ~Unfinished(flow[f]) /\ flow[f].pc \in {"metadata", "token", "request", "store"}
      /\ flow[f].pc \notin {"save", "present"}
    BY <1>1 DEF Unfinished
<1>3. flow[f] \in FlowRow /\ ~flow[f].ok
    BY Zenon, <1>2, RowTypes, NotReplaced
<1>4. ASSUME NEW row \in FlowRow, flow' = [flow EXCEPT ![f] = row], ~row.ok,
             row.pc \in {"token", "request", "store", Returned(f, FALSE)},
             UNCHANGED mem, lost => lost', lost' \in BOOLEAN, cur' \in 0..MaxRotations,
             failures' = failures \/ Fail,
             SweepAlone /\ ~lost' => cur' = cur /\ (row.pc \in {"request", "store"} => row.token = cur)
      PROVE  RenewalInv'
    <2>1. flow' \in [Flows -> FlowRow] /\ failures' \in 0..MaxFailures
        BY Zenon, <1>4, Moves, FailType
    <2>2. {lost', expiring', backoff', foreign'} \subseteq BOOLEAN
        BY Zenon, <1>1, <1>4 DEF TypeOK
    <2>3. TypeOK'
        BY Zenon, <1>1, <1>4, <2>1, <2>2, Shapes DEF TypeOK
    <2> QED
        BY Zenon, <1>1, <1>2, <1>4, <2>3, AdvanceKeeps
<1>5. CASE RefreshGranted(f)
    <2>1. CASE flow' = [flow EXCEPT ![f] = [flow[f] EXCEPT !.pc = "request"]] /\ UNCHANGED <<cur, mem, failures>>
        <3>1. PICK row : row = [flow[f] EXCEPT !.pc = "request"]
            BY Zenon
        <3>2. row \in FlowRow /\ row.pc = "request" /\ row.ok = flow[f].ok /\ row.token = flow[f].token
            BY <1>3, <3>1 DEF FlowRow
        <3>3. UNCHANGED lost /\ flow[f].token = cur
            BY Zenon, <1>5 DEF RefreshGranted
        <3>4. lost' \in BOOLEAN /\ cur' \in 0..MaxRotations
            BY Zenon, <2>1, <3>3 DEF TypeOK
        <3>5. flow' = [flow EXCEPT ![f] = row]
            BY Zenon, <2>1, <3>1
        <3>6. row.pc \in {"token", "request", "store", Returned(f, FALSE)}
            BY Zenon, <3>2
        <3> QED
            BY ZenonT(60), <1>3, <1>4, <2>1, <3>2, <3>3, <3>4, <3>5, <3>6
    <2>2. CASE ~(flow' = [flow EXCEPT ![f] = [flow[f] EXCEPT !.pc = "request"]] /\ UNCHANGED <<cur, mem, failures>>)
        <3>1. /\ cur < MaxRotations /\ cur' = cur + 1 /\ Remember(cur + 1) /\ UNCHANGED lost
              /\ failures' = failures \/ Fail
              /\ \E x \in {"request", Returned(f, FALSE)} :
                    flow' = [flow EXCEPT ![f] = [flow[f] EXCEPT !.pc = x, !.token = cur + 1]]
            BY Zenon, <1>5, <2>2 DEF RefreshGranted
        <3> QED
            BY Zenon, <1>1, <3>1, RotateStep
    <2> QED
        BY Zenon, <2>1, <2>2
<1>6. CASE RefreshRefused(f)
    <2>1. PICK row \in FlowRow : /\ flow' = [flow EXCEPT ![f] = row] /\ ~row.ok
                                 /\ row.pc = Returned(f, FALSE)
        BY Zenon, <1>6, FailedRow DEF RefreshRefused
    <2>2. row.pc \notin {"request", "store"}
        BY <2>1 DEF Returned
    <2>3. UNCHANGED mem /\ (failures' = failures \/ Fail)
        BY Zenon, <1>6 DEF RefreshRefused
    <2>4. UNCHANGED <<cur, lost>> \/ (cur < MaxRotations /\ cur' = cur + 1 /\ lost' = TRUE)
        BY Zenon, <1>6 DEF RefreshRefused
    <2>5. cur \in 0..MaxRotations /\ MaxRotations \in Nat /\ lost \in BOOLEAN
        BY Zenon, SetupType DEF TypeOK, MaxRotations
    <2>6. cur' \in 0..MaxRotations
        BY <2>4, <2>5
    <2>7. lost' \in BOOLEAN /\ (lost => lost') /\ (~lost' => cur' = cur)
        BY Zenon, <2>4, <2>5
    <2>8. row.pc \in {"token", "request", "store", Returned(f, FALSE)}
        BY Zenon, <2>1
    <2>9. SweepAlone /\ ~lost' => cur' = cur /\ (row.pc \in {"request", "store"} => row.token = cur)
        BY Zenon, <2>2, <2>7
    <2> QED
        BY Zenon, <1>4, <2>1, <2>3, <2>6, <2>7, <2>8, <2>9
<1> QED
    BY Zenon, <1>5, <1>6 DEF RefreshToken

LEMMA ReplaceStep ==
    ASSUME RenewalInv, UNCHANGED setup, NEW f \in Flows, ReplaceCredential(f)
    PROVE  RenewalInv'
<1> USE DEF RenewalInv
<1>1. flow[f].pc = "store" /\ UNCHANGED <<lock, cur, made, lost, kept, expiring, backoff, foreign, failures>>
    BY Zenon DEF ReplaceCredential, issuer, clock
<1>2. /\ flow[f].pc \in {"metadata", "token", "request", "store"} /\ flow[f].pc \in {"request", "store", "save"}
      /\ flow[f].pc # "idle"
    BY <1>1
<1>3. flow[f] \in FlowRow /\ mem \in Copy /\ RowInv(f, flow[f])
    BY Zenon, RowTypes
<1>4. CASE ~mem.here
    <2>1. Failed(f) /\ UNCHANGED <<mem, disk>>
        BY Zenon, <1>4 DEF ReplaceCredential
    <2>2. PICK row \in FlowRow : /\ flow' = [flow EXCEPT ![f] = row] /\ ~row.ok /\ Unfinished(row)
                                 /\ row.pc = Returned(f, FALSE)
        BY Zenon, <2>1, FailedRow
    <2>3. flow' \in [Flows -> FlowRow]
        BY Zenon, <2>2, Moves
    <2>4. TypeOK'
        BY Zenon, <1>1, <2>1, <2>3, Shapes DEF TypeOK
    <2>5. row.pc \notin {"request", "store"}
        BY <2>2 DEF Returned
    <2>6. row.pc \in {"token", "request", "store", Returned(f, FALSE)}
        BY Zenon, <2>2
    <2> QED
        BY Zenon, <1>1, <1>2, <2>1, <2>2, <2>4, <2>5, <2>6, AdvanceKeeps
<1>5. CASE mem.here
    <2>1. /\ mem' = [mem EXCEPT !.token = flow[f].token, !.cont = flow[f].cont]
          /\ flow' = [flow EXCEPT ![f] = [flow[f] EXCEPT !.pc = Returned(f, TRUE), !.ok = TRUE]]
          /\ disk' \in {disk, mem'}
        BY Zenon, <1>5 DEF ReplaceCredential, LogSaves
    <2>2. PICK x \in {"present", "save"} : x = Returned(f, TRUE)
        BY DEF Returned
    <2>3. PICK row : row = [flow[f] EXCEPT !.pc = x, !.ok = TRUE]
        BY Zenon
    <2>4. /\ row \in FlowRow /\ row.pc = x /\ row.ok = TRUE
          /\ row.token = flow[f].token /\ row.cont = flow[f].cont
        BY Zenon, <1>3, <2>2, <2>3 DEF FlowRow
    <2>5. flow' = [flow EXCEPT ![f] = row]
        BY Zenon, <2>1, <2>2, <2>3
    <2>6. mem' \in Copy /\ mem'.here = TRUE /\ mem'.token = flow[f].token /\ mem'.cont = flow[f].cont
        BY Zenon, <1>3, <1>5, <2>1 DEF Copy, FlowRow
    <2>7. TypeOK'
        <3>1. flow' \in [Flows -> FlowRow] /\ disk' \in Copy
            BY Zenon, <2>1, <2>4, <2>5, <2>6, Moves DEF TypeOK
        <3> QED
            BY Zenon, <1>1, <2>6, <3>1, Shapes DEF TypeOK
    <2>8. RowInv(f, row)'
        <3>1. f \in Presentations => lock' = {f}
            BY Zenon, <1>1, <1>2, <1>3 DEF RowInv
        <3>2. /\ x = "present" => f \in Presentations
              /\ x \in {"save", "reread"} => f \notin Presentations
              /\ x \in {"save", "present"}
            BY <2>2 DEF Returned
        <3>3. f \in setup.flows
            BY Zenon, <1>2, <1>3 DEF RowInv
        <3> QED
            BY Zenon, <2>4, <3>1, <3>2, <3>3 DEF RowInv
    <2>9. SavedInv'
        <3>1. Unfinished(row)
            BY Zenon, <2>2, <2>4 DEF Unfinished
        <3> QED
            BY Zenon, <2>4, <2>5, <2>6, <3>1, UnfinishedSaves
    <2>10. SweepAlone /\ ~lost' => flow[f].token = cur'
        BY Zenon, <1>1, <1>2 DEF TokenInv
    <2>11. f \in setup.flows
        BY Zenon, <1>2, <1>3 DEF RowInv
    <2> QED
        BY Zenon, <1>1, <2>4, <2>5, <2>6, <2>7, <2>8, <2>9, <2>10, <2>11, RenewalFlowStep
<1> QED
    BY Zenon, <1>4, <1>5

(* A renewal ends: nothing is left to save, and what it brought is what    *)
(* the wallet holds.                                                       *)
LEMMA EndedStep ==
    ASSUME RenewalInv, UNCHANGED <<setup, cur, made, lost, foreign, failures>>, NEW f \in Flows,
           f \in setup.flows, NEW o \in BOOLEAN, Ended(f, o), mem' \in Copy, disk' = mem',
           kept' \in 0..MaxRotations, lock' = lock \/ (lock' = {} /\ lock = {f}),
           SweepAlone /\ ~lost => (mem'.here => mem'.token = cur),
           OneFlow => KeptIn(mem)'
    PROVE  RenewalInv'
<1> USE DEF RenewalInv
<1>1. Idle \in FlowRow /\ Idle.pc = "idle" /\ Idle.ok = FALSE
    <2>1. MaxRotations \in Nat
        BY Zenon, SetupType DEF MaxRotations
    <2> QED
        BY <2>1 DEF Idle, FlowRow
<1>2. Idle.pc \notin {"request", "store", "save", "reread", "present"}
    BY <1>1
<1>3. flow' = [flow EXCEPT ![f] = Idle] /\ backoff' \in BOOLEAN /\ expiring' \in BOOLEAN
    BY Zenon DEF Ended
<1>4. TypeOK'
    <2>1. flow' \in [Flows -> FlowRow] /\ lock' \subseteq Presentations
        BY Zenon, <1>1, <1>3, Moves DEF TypeOK
    <2>2. {lost', expiring', backoff', foreign'} \subseteq BOOLEAN
        BY Zenon, <1>3 DEF TypeOK
    <2> QED
        BY Zenon, <2>1, <2>2, Shapes DEF TypeOK
<1>5. RowInv(f, Idle)'
    BY Zenon, <1>1, <1>2 DEF RowInv, Idle
<1>6. SavedInv'
    BY Zenon DEF SavedInv
<1>7. OneFlow => KeptIn(mem)' /\ KeptIn(disk)'
    BY Zenon DEF KeptIn
<1>8. lock' = lock \/ lock \in {{}, {f}}
    BY Zenon
<1>9. PICK row \in FlowRow : row = Idle
    BY Zenon, <1>1
<1>10. RowInv(f, row)'
    BY Zenon, <1>5, <1>9 DEF RowInv, Idle
<1> QED
    BY ZenonT(60), <1>1, <1>2, <1>3, <1>4, <1>6, <1>7, <1>8, <1>9, <1>10, RenewalFlowStep

LEMMA RereadStep ==
    ASSUME RenewalInv, UNCHANGED setup, NEW f \in Flows, Reread(f)
    PROVE  RenewalInv'
<1> USE DEF RenewalInv
<1>1. flow[f].pc = "reread" /\ UNCHANGED <<mem, disk, lock, cur, made, lost, kept, foreign, failures>>
    BY Zenon DEF Reread, issuer
<1>2. flow[f].pc \in {"save", "reread"} /\ flow[f].pc \notin {"idle", "save", "present"}
    BY <1>1
<1>3. /\ flow[f] \in FlowRow /\ mem \in Copy /\ RowInv(f, flow[f])
      /\ mem.token \in 0..MaxRotations /\ mem.cont \in 0..MaxRotations
    BY Zenon, RowTypes
<1>4. f \in setup.flows /\ f \notin Presentations /\ ~flow[f].ok
    BY Zenon, <1>2, <1>3, NotReplaced DEF RowInv
<1>5. SweepAlone /\ ~lost => (mem.here => mem.token = cur)
    BY Zenon DEF TokenInv
<1>6. OneFlow => KeptIn(mem) /\ KeptIn(disk)
    BY Zenon, <1>4, SoloKept
<1>7. CASE ~mem.here
    <2>1. Ended(f, FALSE)
        BY Zenon, <1>7 DEF Reread
    <2>2. disk' = mem' /\ mem' \in Copy /\ kept' \in 0..MaxRotations
        BY Zenon, <1>1, <1>7 DEF SavedInv, TypeOK
    <2>3. OneFlow => KeptIn(mem)'
        BY Zenon, <1>1, <1>6 DEF KeptIn
    <2> QED
        BY Zenon, <1>1, <1>4, <1>5, <2>1, <2>2, <2>3, EndedStep
<1>8. CASE mem.here
    <2>1. /\ flow' = [flow EXCEPT ![f] = [flow[f] EXCEPT !.pc = "save", !.token = mem.token, !.cont = mem.cont]]
          /\ UNCHANGED <<expiring, backoff>>
        BY Zenon, <1>8 DEF Reread, clock
    <2>2. PICK row : row = [flow[f] EXCEPT !.pc = "save", !.token = mem.token, !.cont = mem.cont]
        BY Zenon
    <2>3. /\ row \in FlowRow /\ row.pc = "save" /\ row.token = mem.token /\ row.cont = mem.cont
          /\ row.ok = flow[f].ok
        BY Zenon, <1>3, <2>2 DEF FlowRow
    <2>4. flow' = [flow EXCEPT ![f] = row]
        BY Zenon, <2>1, <2>2
    <2>5. TypeOK'
        <3>1. flow' \in [Flows -> FlowRow]
            BY Zenon, <2>3, <2>4, Moves
        <3> QED
            BY Zenon, <1>1, <2>1, <3>1, Shapes DEF TypeOK
    <2>6. row.pc # "present"
        BY <2>3
    <2>7. RowInv(f, row)'
        BY Zenon, <1>4, <2>3, <2>6 DEF RowInv
    <2>8. SavedInv'
        <3>1. Unfinished(row)
            BY <2>3 DEF Unfinished
        <3> QED
            BY Zenon, <1>1, <1>8, <2>3, <2>4, <3>1, UnfinishedSaves
    <2>9. OneFlow => KeptIn(mem)' /\ KeptIn(disk)' /\ row.cont = kept'
        BY Zenon, <1>1, <1>6, <1>8, <2>3 DEF KeptIn
    <2> QED
        BY ZenonT(60), <1>1, <1>4, <1>5, <1>8, <2>3, <2>4, <2>5, <2>6, <2>7, <2>8, <2>9, RenewalFlowStep
<1> QED
    BY Zenon, <1>7, <1>8

LEMMA SaveStep ==
    ASSUME RenewalInv, UNCHANGED setup, NEW f \in Flows, SaveCredential(f)
    PROVE  RenewalInv'
<1> USE DEF RenewalInv
<1>1. /\ flow[f].pc = "save" /\ UNCHANGED <<lock, cur, made, lost, foreign, failures>>
      /\ mem' = [here |-> TRUE, token |-> flow[f].token, cont |-> flow[f].cont] /\ disk' = mem'
      /\ kept' = (IF flow[f].ok THEN flow[f].cont ELSE kept) /\ Ended(f, flow[f].ok)
    BY Zenon DEF SaveCredential, issuer
<1>2. flow[f].pc # "idle" /\ flow[f].pc \in {"request", "store", "save"}
    BY <1>1
<1>3. flow[f] \in FlowRow /\ RowInv(f, flow[f])
    BY Zenon, RowTypes
<1>4. f \in setup.flows
    BY ZenonT(60), <1>2, <1>3 DEF RowInv
<1>5. /\ mem' \in Copy /\ mem'.token = flow[f].token /\ mem'.cont = flow[f].cont
      /\ flow[f].cont \in 0..MaxRotations /\ flow[f].ok \in BOOLEAN
    BY <1>1, <1>3 DEF Copy, FlowRow
<1>6. kept' \in 0..MaxRotations
    BY Zenon, <1>1, <1>5 DEF TypeOK
<1>7. SweepAlone /\ ~lost => mem'.token = cur
    BY Zenon, <1>2, <1>5 DEF TokenInv
<1>8. OneFlow => KeptIn(mem)'
    <2>1. OneFlow /\ ~flow[f].ok => flow[f].cont = kept
        BY Zenon, <1>1 DEF ContentInv
    <2> QED
        BY Zenon, <1>1, <1>5, <2>1 DEF KeptIn
<1> QED
    BY ZenonT(60), <1>1, <1>4, <1>5, <1>6, <1>7, <1>8, EndedStep

LEMMA PresentStep ==
    ASSUME RenewalInv, PresentsCopies, UNCHANGED setup, NEW f \in Flows, Present(f)
    PROVE  RenewalInv'
<1> USE DEF RenewalInv
<1>1. /\ flow[f].pc = "present" /\ UNCHANGED <<mem, cur, made, lost, foreign, failures>>
      /\ disk' = (IF setup.batch THEN mem ELSE disk) /\ lock' = {}
      /\ kept' = (IF flow[f].ok THEN flow[f].cont ELSE kept) /\ Ended(f, flow[f].ok)
    BY Zenon DEF Present, issuer
<1>2. flow[f].pc # "idle"
    BY <1>1
<1>3. flow[f] \in FlowRow /\ RowInv(f, flow[f]) /\ mem \in Copy
    BY Zenon, RowTypes
<1>4. f \in setup.flows /\ f \in Presentations /\ lock = {f}
    BY Zenon, <1>1, <1>2, <1>3 DEF RowInv
<1>5. disk' = mem'
    BY Zenon, <1>1, <1>4 DEF PresentsCopies
<1>6. flow[f].cont \in 0..MaxRotations /\ flow[f].ok \in BOOLEAN
    BY <1>3 DEF FlowRow
<1>7. kept' \in 0..MaxRotations
    BY Zenon, <1>1, <1>6 DEF TypeOK
<1>8. ~SweepAlone
    BY Zenon, <1>4, RenewalAssumption DEF SweepAlone
<1>9. OneFlow => KeptIn(mem)'
    <2>1. OneFlow /\ ~flow[f].ok => KeptIn(mem)
        BY Zenon, <1>4, SoloKept
    <2>2. OneFlow /\ flow[f].ok /\ mem.here => mem.cont = flow[f].cont
        BY Zenon, <1>1 DEF ContentInv
    <2> QED
        BY Zenon, <1>1, <2>1, <2>2 DEF KeptIn
<1>10. mem' \in Copy
    BY Zenon, <1>1, <1>3
<1> QED
    BY Zenon, <1>1, <1>4, <1>5, <1>6, <1>7, <1>8, <1>9, <1>10, EndedStep

--------------------------------------------------------------------------------
(* The steps of the user, of other processes and of time.                  *)
LEMMA RowsKept ==
    ASSUME RenewalInv, UNCHANGED <<setup, flow, lock>>
    PROVE  /\ \A f \in Flows : RowInv(f, flow[f])'
           /\ (SweepAlone' <=> SweepAlone) /\ (OneFlow' <=> OneFlow)
BY Zenon DEF RenewalInv, RowInv, SweepAlone, OneFlow

LEMMA DeleteStep ==
    ASSUME RenewalInv, UNCHANGED setup, Delete
    PROVE  RenewalInv'
<1> USE DEF RenewalInv
<1>1. /\ mem' = Gone /\ disk' = Gone
      /\ UNCHANGED <<flow, lock, cur, made, lost, kept, expiring, backoff, foreign, failures>>
    BY Zenon DEF Delete, issuer, clock
<1>2. Gone \in Copy /\ ~Gone.here
    <2>1. MaxRotations \in Nat
        BY Zenon, SetupType DEF MaxRotations
    <2> QED
        BY <2>1 DEF Gone, Copy
<1>3. TypeOK'
    BY Zenon, <1>1, <1>2, Shapes DEF TypeOK
<1>4. SavedInv'
    BY Zenon, <1>1 DEF SavedInv
<1>5. TokenInv'
    BY Zenon, <1>1, <1>2, RowsKept DEF TokenInv
<1>6. ContentInv'
    BY Zenon, <1>1, <1>2, RowsKept DEF ContentInv, KeptIn
<1> QED
    BY Zenon, <1>1, <1>3, <1>4, <1>5, <1>6, RowsKept

LEMMA ReloadStep ==
    ASSUME RenewalInv, UNCHANGED setup, Reload
    PROVE  RenewalInv'
<1> USE DEF RenewalInv
<1>1. /\ mem' = disk /\ foreign /\ foreign' = FALSE /\ lock = {}
      /\ UNCHANGED <<disk, flow, lock, cur, made, lost, kept, expiring, backoff, failures>>
    BY Zenon DEF Reload, issuer, clock
<1>2. TypeOK'
    <2>1. {lost', expiring', backoff', foreign'} \subseteq BOOLEAN
        BY Zenon, <1>1 DEF TypeOK
    <2> QED
        BY Zenon, <1>1, <2>1, Shapes DEF TypeOK
<1>3. SavedInv'
    BY Zenon, <1>1 DEF SavedInv
<1>4. TokenInv'
    BY Zenon, <1>1, RowsKept DEF TokenInv, SweepAlone
<1>5. ASSUME NEW f \in Flows PROVE flow[f].pc # "present"
    <2>1. ASSUME flow[f].pc = "present" PROVE FALSE
        <3>1. flow[f].pc # "idle"
            BY <2>1
        <3> QED
            BY Zenon, <1>1, <2>1, <3>1, RowTypes DEF RowInv
    <2> QED
        BY Zenon, <2>1
<1>6. ContentInv'
    BY Zenon, <1>1, <1>5, RowsKept DEF ContentInv, KeptIn
<1> QED
    BY Zenon, <1>1, <1>2, <1>3, <1>4, <1>6, RowsKept

(* Time passes, or another process changes something else.                 *)
LEMMA OtherStep ==
    ASSUME RenewalInv, UNCHANGED <<setup, mem, disk, flow, lock, cur, made, lost, kept, failures>>,
           expiring' \in BOOLEAN, backoff' \in BOOLEAN, foreign' = foreign \/ (setup.others /\ foreign' = TRUE)
    PROVE  RenewalInv'
<1> USE DEF RenewalInv
<1>1. TypeOK'
    <2>1. {lost', expiring', backoff', foreign'} \subseteq BOOLEAN
        BY Zenon DEF TypeOK
    <2> QED
        BY Zenon, <2>1, Shapes DEF TypeOK
<1>2. SavedInv'
    BY Zenon DEF SavedInv, Unfinished
<1>3. TokenInv'
    <2>1. ~setup'.others => ~foreign'
        <3>1. CASE foreign' = foreign
            BY <3>1 DEF TokenInv
        <3>2. CASE setup.others
            BY Zenon, <3>2
        <3> QED
            BY ZenonT(60), <3>1, <3>2
    <2> QED
        BY Zenon, <2>1, RowsKept DEF TokenInv
<1>4. ContentInv'
    BY Zenon, RowsKept DEF ContentInv, KeptIn
<1> QED
    BY Zenon, <1>1, <1>2, <1>3, <1>4, RowsKept

LEMMA RenewalStarts ==
    ASSUME Init
    PROVE  RenewalInv
<1> USE DEF Init
<1>1. MaxRotations \in Nat /\ MaxFailures \in Nat
    BY Zenon, SetupType DEF MaxRotations, MaxFailures
<1>2. 0 \in 0..MaxRotations /\ 0 \in 0..MaxFailures
    BY SMTT(60), <1>1
<1>3. Idle \in FlowRow /\ Idle.pc = "idle" /\ ~Idle.ok
    BY SMTT(60), <1>2 DEF Idle, FlowRow
<1>4. mem \in Copy /\ mem.here /\ mem.token = 0 /\ mem.cont = 0
    BY SMTT(60), <1>2 DEF Copy
<1>5. Idle.pc \notin {"request", "store", "save", "reread", "present"}
    BY <1>3
<1>6. ASSUME NEW f \in Flows PROVE flow[f] = Idle
    BY Zenon
<1>7. TypeOK
    <2>1. flow \in [Flows -> FlowRow]
        BY Zenon, <1>3
    <2> QED
        BY Zenon, <1>2, <1>4, <2>1 DEF TypeOK
<1>8. ASSUME NEW f \in Flows PROVE RowInv(f, flow[f])
    BY Zenon, <1>3, <1>5, <1>6 DEF RowInv, Idle
<1>9. SavedInv
    BY Zenon, <1>4 DEF SavedInv
<1>10. TokenInv
    BY Zenon, <1>4, <1>5, <1>6 DEF TokenInv, Idle
<1>11. ContentInv
    BY Zenon, <1>3, <1>4, <1>5, <1>6 DEF ContentInv, KeptIn, Idle
<1> QED
    BY ZenonT(60), <1>7, <1>8, <1>9, <1>10, <1>11 DEF RenewalInv

LEMMA RenewalStep ==
    ASSUME RenewalInv, PresentsCopies, [Next]_vars
    PROVE  RenewalInv'
<1>1. CASE UNCHANGED vars
    <2>1. /\ UNCHANGED <<setup, mem, disk, flow, lock, cur, made, lost, kept, failures, expiring, backoff, foreign>>
          /\ expiring \in BOOLEAN /\ backoff \in BOOLEAN
        BY Zenon, <1>1 DEF vars, RenewalInv, TypeOK
    <2> QED
        BY Zenon, <2>1, OtherStep
<1>2. CASE Next
    <2>0. UNCHANGED setup
        BY Zenon, <1>2 DEF Next
    <2>1. ASSUME NEW f \in Flows, Step(f) PROVE RenewalInv'
        BY ZenonT(60), <2>0, <2>1, StartStep, LoadMetadataStep, RefreshTokenStep, RequestStep, ReplaceStep,
           RereadStep, SaveStep, PresentStep DEF Step
    <2>2. ASSUME ForeignChange \/ Age \/ BackoffEnds PROVE RenewalInv'
        <3>1. /\ UNCHANGED <<mem, disk, flow, lock, cur, made, lost, kept, failures>>
              /\ foreign' = foreign \/ (setup.others /\ foreign' = TRUE)
            BY Zenon, <2>2 DEF ForeignChange, Age, BackoffEnds, issuer, clock
        <3>2. expiring' \in BOOLEAN /\ backoff' \in BOOLEAN
            BY Zenon, <2>2 DEF ForeignChange, Age, BackoffEnds, clock, RenewalInv, TypeOK
        <3> QED
            BY Zenon, <2>0, <3>1, <3>2, OtherStep
    <2> QED
        BY Zenon, <1>2, <2>0, <2>1, <2>2, DeleteStep, ReloadStep DEF Next
<1> QED
    BY Zenon, <1>1, <1>2

LEMMA RenewalInvImplies ==
    ASSUME RenewalInv
    PROVE  RenewalIsKept
<1> USE DEF RenewalInv
<1>1. ASSUME Quiet, NEW f \in Flows PROVE ~Unfinished(flow[f]) /\ ~flow[f].ok
    <2>1. flow[f].pc = "idle"
        BY Zenon, <1>1 DEF Quiet
    <2>2. flow[f].pc \notin {"save", "present"} /\ ~Unfinished(flow[f])
        BY <2>1 DEF Unfinished
    <2> QED
        BY Zenon, <2>2, NotReplaced
<1>2. NothingUnsaved
    BY Zenon, <1>1 DEF NothingUnsaved, SavedInv
<1>3. TokenIsCurrent
    BY Zenon DEF TokenIsCurrent, TokenInv
<1>4. RenewalSurvivesReload
    BY Zenon, <1>1 DEF RenewalSurvivesReload, ContentInv, KeptIn
<1> QED
    BY Zenon, <1>2, <1>3, <1>4 DEF RenewalIsKept

(***************************************************************************)
(* Whatever the renewals, deletions, reloads and failures do, and however  *)
(* often the issuer rotates the token: once no renewal is in progress the  *)
(* store holds what memory holds; the sweep's token is the one the issuer  *)
(* accepts; and the content of a renewal that ended well is still there    *)
(* (Server.RefreshCredential, rememberRenewal, saveCredential), if the     *)
(* presentations that renew use copies of a batch.                         *)
(***************************************************************************)
THEOREM RenewalKept ==
    ASSUME PresentsCopies
    PROVE  Spec => []RenewalIsKept
<1>1. Init => RenewalInv
    BY Zenon, RenewalStarts
<1>2. RenewalInv /\ [Next]_vars => RenewalInv'
    BY Zenon, RenewalStep
<1>3. RenewalInv => RenewalIsKept
    BY Zenon, RenewalInvImplies
<1> QED
    BY <1>1, <1>2, <1>3, PTL DEF Spec

--------------------------------------------------------------------------------
(***************************************************************************)
(* The flow of an offer (IssuanceFlow). Every step decides on the record s *)
(* it goes on with, next, and then either goes there or fails; a deviation *)
(* from the specification is only noted on the way when the wallet is not  *)
(* strict. So it is enough that next is sound (FlowOK) for each step.      *)
(***************************************************************************)
TokenRequests == [endpoint : Servers, server : Servers, grants : Grants, redirect : BOOLEAN]
BeforeToken == {"HAIP", "client", "challenge", "via web", "push", "authorize", "token"}
Talking == {"challenge", "via web", "push", "authorize"}

(* The offer is the one that was approved. Until the token is requested a  *)
(* strict wallet has a server that states the grant, reached at itself or  *)
(* at the issuer. A browser is used only where one can be redirected to.   *)
(* The session is the newest one and the rounds are counted. A request     *)
(* that asks for encryption is encrypted.                                  *)
FlowOffer(w, f) ==
    f.offer # <<>> /\ w.approved # <<>> => f.offer.issuer = w.approved[1].issuer
FlowServer(w, f) ==
    f.at \in BeforeToken /\ w.strict => f.grants # "left out" /\ f.endpoint \in {f.server, Issuer}
FlowBrowser(w, f) ==
    /\ f.at \in {"via web", "push", "authorize"} => w.redirect /\ f.has.authorize
    /\ f.redirected => w.redirect
FlowSession(f) ==
    /\ f.session = f.given
    /\ f.at = "challenge" => f.round < MaxRounds /\ (f.round > 0 => f.session > 0)
    /\ f.at \notin Talking => f.round = 0
FlowRequest(f) ==
    f.request # <<>> => /\ f.request.asks => f.request.encrypted
                        /\ f.request.needed => f.request.encrypted
                        /\ f.request.wanted => f.request.asks
FlowOK(w, f) ==
    /\ f \in Flow
    /\ FlowOffer(w, f) /\ FlowServer(w, f) /\ FlowBrowser(w, f) /\ FlowSession(f)
    /\ FlowRequest(f)
(* What a token request was made with stays true of it.                    *)
TokenOK(w, t) ==
    \/ t = <<>>
    \/ \E r \in TokenRequests :
          /\ t = <<r>>
          /\ w.strict => r.grants # "left out" /\ r.endpoint \in {r.server, Issuer}
          /\ r.redirect => w.redirect

FlowInv ==
    /\ wallet \in Wallets /\ deviated \in BOOLEAN
    /\ FlowOK(wallet, s) /\ TokenOK(wallet, token)
    /\ s.at # "failed" /\ wallet.strict => ~deviated

(* How a step ends: in failure, or in next without a deviation a strict    *)
(* wallet lets through.                                                    *)
Lands(next) ==
    /\ deviated' \in BOOLEAN
    /\ \/ s' = FailedFlow
       \/ s' = next /\ (wallet.strict => deviated' = deviated)

LEMMA FlowStartOK ==
    ASSUME NEW w \in Wallets PROVE FlowOK(w, FlowStart)
  <1>1. FlowStart \in Flow
    <2>1. NoEndpoints \in Endpoints  BY Zenon DEF NoEndpoints, Endpoints
    <2>2. 0 \in 0..MaxRounds /\ 0 \in Nat  BY FlowAssumption
    <2>3. <<>> \in Offers \cup {<<>>} /\ <<>> \in Requests \cup {<<>>}  BY Zenon
    <2>4. "offer" \in Steps /\ "none" \in Servers /\ "unstated" \in Grants
      BY Zenon DEF Steps, Servers, Grants
    <2> QED  BY Zenon, <2>1, <2>2, <2>3, <2>4 DEF FlowStart, Flow
  <1> QED  BY Zenon, <1>1, FlowAssumption DEF FlowOK, FlowOffer, FlowServer, FlowBrowser, FlowSession,
           FlowRequest, FlowStart, BeforeToken, Talking

LEMMA FailedFlowOK ==
    ASSUME NEW w \in Wallets PROVE FlowOK(w, FailedFlow) /\ FailedFlow.at = "failed"
  <1>1. FailedFlow \in Flow /\ FailedFlow.at = "failed"
    BY ZenonT(60), FlowStartOK DEF FailedFlow, FlowOK, Flow, Steps
  <1> QED  BY Zenon, <1>1, FlowAssumption DEF FlowOK, FlowOffer, FlowServer, FlowBrowser, FlowSession,
           FlowRequest, FailedFlow, FlowStart, BeforeToken, Talking

LEMMA LandsOK ==
    ASSUME FlowInv, s.at # "failed", NEW next, Lands(next), FlowOK(wallet, next),
           wallet' = wallet, TokenOK(wallet, token')
    PROVE  FlowInv'
  <1>1. wallet \in Wallets  BY Zenon DEF FlowInv
  <1>2. CASE s' = FailedFlow
    BY Zenon, <1>1, <1>2, FailedFlowOK DEF FlowInv, Lands
  <1>3. CASE s' = next /\ (wallet.strict => deviated' = deviated)
    BY Zenon, <1>1, <1>3 DEF FlowInv, Lands
  <1> QED  BY Zenon, <1>2, <1>3 DEF Lands

LEMMA ReportLands ==
    ASSUME deviated \in BOOLEAN, NEW D, NEW next, ReportDeviation(D, next) PROVE Lands(next)
  BY Zenon DEF ReportDeviation, Lands

LEMMA GoLands ==
    ASSUME deviated \in BOOLEAN, NEW next, Go(next) PROVE Lands(next)
  BY Zenon DEF Go, Lands

LEMMA FailLands ==
    ASSUME deviated \in BOOLEAN, NEW next, FailFlow PROVE Lands(next)
  BY Zenon DEF Go, FailFlow, Lands

(* One lemma per step of the flow.                                         *)
LEMMA ResolveOfferOK ==
    ASSUME FlowInv, ResolveOffer PROVE FlowInv'
  <1>0. wallet \in Wallets /\ deviated \in BOOLEAN /\ FlowOK(wallet, s) /\ s.at # "failed"
        /\ wallet' = wallet /\ TokenOK(wallet, token')
    BY Zenon DEF FlowInv, ResolveOffer
  <1>1. PICK read \in BOOLEAN, offer \in Offers :
          Unless(KeptOffer(read, offer) # <<>>,
                 Go([s EXCEPT !.at = "metadata", !.offer = KeptOffer(read, offer)[1]]))
    BY Zenon DEF ResolveOffer
  <1> DEFINE held == KeptOffer(read, offer)
             next == [s EXCEPT !.at = "metadata", !.offer = held[1]]
  <1>2. CASE held = <<>>
    <2>1. Lands(FailedFlow)  BY Zenon, <1>0, <1>1, <1>2, FailLands DEF Unless
    <2> QED  BY Zenon, <1>0, <2>1, LandsOK, FailedFlowOK
  <1>3. CASE held # <<>>
    <2>1. Lands(next)
      BY ZenonT(60), <1>0, <1>1, <1>3, GoLands DEF Unless
    <2>2. held[1] \in Offers /\ (wallet.approved # <<>> => held[1].issuer = wallet.approved[1].issuer)
      BY <1>0, <1>3 DEF KeptOffer, Wallets
    <2>3. next \in Flow
      BY Zenon, <1>0, <2>2 DEF FlowOK, Flow, Steps
    <2>4. FlowOK(wallet, next)
      BY Zenon, <1>0, <2>2, <2>3 DEF FlowOK, FlowOffer, FlowServer, FlowBrowser, FlowSession, FlowRequest,
         Flow, BeforeToken, Talking, ResolveOffer
    <2> QED  BY Zenon, <1>0, <2>1, <2>4, LandsOK
  <1> QED  BY Zenon, <1>2, <1>3

LEMMA MoveOK ==
    ASSUME NEW w, NEW f, FlowOK(w, f), f.at \notin Talking,
           NEW x \in Steps, x \notin Talking, x \in BeforeToken => f.at \in BeforeToken
    PROVE  FlowOK(w, [f EXCEPT !.at = x])
  <1>1. [f EXCEPT !.at = x] \in Flow  BY Zenon DEF FlowOK, Flow
  <1> QED  BY ZenonT(60), <1>1 DEF FlowOK, FlowOffer, FlowServer, FlowBrowser, FlowSession, FlowRequest, Flow,
           Talking

LEMMA WithCodeOK ==
    ASSUME FlowInv, s.at \in BeforeToken, NEW viaRedirect \in BOOLEAN, viaRedirect => wallet.redirect
    PROVE  FlowOK(wallet, WithCode(viaRedirect))
  <1>0. FlowOK(wallet, s)  BY Zenon DEF FlowInv
  <1>1. WithCode(viaRedirect) \in Flow
    <2>1. NoEndpoints \in Endpoints  BY Zenon DEF NoEndpoints, Endpoints
    <2>2. 0 \in 0..MaxRounds /\ 0 \in Nat  BY FlowAssumption
    <2>3. "token" \in Steps  BY Zenon DEF Steps
    <2> QED  BY Zenon, <1>0, <2>1, <2>2, <2>3 DEF FlowOK, WithCode, Flow
  <1> QED  BY ZenonT(60), <1>0, <1>1 DEF FlowOK, FlowOffer, FlowServer, FlowBrowser, FlowSession, FlowRequest,
           Flow, Talking, BeforeToken, WithCode

LEMMA LoadIssuerMetadataOK ==
    ASSUME FlowInv, LoadIssuerMetadata PROVE FlowInv'
  <1> DEFINE next == [s EXCEPT !.at = "server"]
  <1>0. deviated \in BOOLEAN /\ FlowOK(wallet, s) /\ s.at = "metadata"
        /\ wallet' = wallet /\ TokenOK(wallet, token')
    BY Zenon DEF FlowInv, LoadIssuerMetadata
  <1>1. PICK D : ReportDeviation(D, next) \/ FailFlow
    BY Zenon DEF LoadIssuerMetadata, Unless
  <1>2. Lands(next)  BY Zenon, <1>0, <1>1, ReportLands, FailLands
  <1>3. FlowOK(wallet, next)
    BY Zenon, <1>0, MoveOK DEF Steps, Talking, BeforeToken
  <1> QED  BY Zenon, <1>0, <1>2, <1>3, LandsOK

LEMMA ImportOK ==
    ASSUME FlowInv, Import PROVE FlowInv'
  <1> DEFINE next == [s EXCEPT !.at = "stored"]
  <1>0. deviated \in BOOLEAN /\ FlowOK(wallet, s) /\ s.at = "import"
        /\ wallet' = wallet /\ TokenOK(wallet, token')
    BY Zenon DEF FlowInv, Import
  <1>1. PICK D : ReportDeviation(D, next) \/ FailFlow
    BY Zenon DEF Import, Unless
  <1>2. Lands(next)  BY Zenon, <1>0, <1>1, ReportLands, FailLands
  <1>3. FlowOK(wallet, next)
    BY Zenon, <1>0, MoveOK DEF Steps, Talking, BeforeToken
  <1> QED  BY Zenon, <1>0, <1>2, <1>3, LandsOK

LEMMA RequestTokenOK ==
    ASSUME FlowInv, RequestToken PROVE FlowInv'
  <1> DEFINE next == [s EXCEPT !.at = "credential"]
             r == [endpoint |-> s.endpoint, server |-> s.server, grants |-> s.grants,
                   redirect |-> s.redirected]
  <1>0. deviated \in BOOLEAN /\ FlowOK(wallet, s) /\ s.at = "token" /\ wallet' = wallet
        /\ token' = <<r>>
    BY Zenon DEF FlowInv, RequestToken
  <1>1. PICK D : ReportDeviation(D, next) \/ FailFlow
    BY Zenon DEF RequestToken, Unless
  <1>2. Lands(next)  BY Zenon, <1>0, <1>1, ReportLands, FailLands
  <1>3. FlowOK(wallet, next)
    BY Zenon, <1>0, MoveOK DEF Steps, Talking, BeforeToken
  <1>4. TokenOK(wallet, token')
    <2>1. r \in TokenRequests  BY Zenon, <1>0 DEF FlowOK, Flow, TokenRequests
    <2>2. wallet.strict => r.grants # "left out" /\ r.endpoint \in {r.server, Issuer}
      BY Zenon, <1>0 DEF FlowOK, FlowServer, BeforeToken
    <2>3. r.redirect => wallet.redirect
      BY Zenon, <1>0 DEF FlowOK, FlowBrowser
    <2> QED  BY Zenon, <1>0, <2>1, <2>2, <2>3 DEF TokenOK
  <1> QED  BY Zenon, <1>0, <1>2, <1>3, <1>4, LandsOK

LEMMA AuthorizationRequestOK ==
    ASSUME FlowInv, AuthorizationRequest PROVE FlowInv'
  <1>0. deviated \in BOOLEAN /\ FlowOK(wallet, s) /\ s.at = "authorize"
        /\ wallet' = wallet /\ TokenOK(wallet, token')
    BY Zenon DEF FlowInv, AuthorizationRequest
  <1>1. PICK D : ReportDeviation(D, WithCode(TRUE)) \/ FailFlow
    BY Zenon DEF AuthorizationRequest, Unless
  <1>2. Lands(WithCode(TRUE))  BY Zenon, <1>0, <1>1, ReportLands, FailLands
  <1>3. FlowOK(wallet, WithCode(TRUE))
    <2>1. wallet.redirect  BY Zenon, <1>0 DEF FlowOK, FlowBrowser
    <2> QED  BY Zenon, <1>0, <2>1, WithCodeOK DEF BeforeToken
  <1> QED  BY Zenon, <1>0, <1>2, <1>3, LandsOK

LEMMA PushRequestOK ==
    ASSUME FlowInv, PushRequest PROVE FlowInv'
  <1> DEFINE next == [s EXCEPT !.at = "authorize", !.pushed = @ \/ s.has.par]
  <1>0. deviated \in BOOLEAN /\ FlowOK(wallet, s) /\ s.at = "push"
        /\ wallet' = wallet /\ TokenOK(wallet, token')
    BY Zenon DEF FlowInv, PushRequest
  <1>1. Go(next) \/ FailFlow
    BY Zenon DEF PushRequest, Unless
  <1>2. Lands(next)  BY Zenon, <1>0, <1>1, GoLands, FailLands
  <1>3. next \in Flow
    <2>1. (s.pushed \/ s.has.par) \in BOOLEAN  BY Zenon
    <2>2. "authorize" \in Steps  BY Zenon DEF Steps
    <2> QED  BY Zenon, <1>0, <2>1, <2>2 DEF FlowOK, Flow
  <1>4. FlowOK(wallet, next)
    BY ZenonT(60), <1>0, <1>3 DEF FlowOK, FlowOffer, FlowServer, FlowBrowser, FlowSession, FlowRequest,
           Flow, Talking, BeforeToken
  <1> QED  BY Zenon, <1>0, <1>2, <1>4, LandsOK

LEMMA TakeSessionOK ==
    ASSUME NEW w, NEW f, FlowOK(w, f)
    PROVE  /\ TakeSession(f) \in Flow
           /\ TakeSession(f).session = TakeSession(f).given /\ TakeSession(f).session > 0
           /\ FlowOK(w, TakeSession(f))
           /\ TakeSession(f).at = f.at /\ TakeSession(f).round = f.round
           /\ TakeSession(f).has = f.has
  <1>1. f \in Flow /\ f.given + 1 \in Nat /\ f.given + 1 > 0  BY DEF FlowOK, Flow
  <1>2. TakeSession(f) = [f EXCEPT !.given = f.given + 1, !.session = f.given + 1]
    BY Zenon, <1>1 DEF TakeSession, Flow
  <1>3. TakeSession(f) \in Flow
    BY Zenon, <1>1, <1>2 DEF Flow
  <1> QED  BY ZenonT(200), <1>1, <1>2, <1>3 DEF FlowOK, FlowOffer, FlowServer, FlowBrowser, FlowSession,
           FlowRequest, Flow

LEMMA AuthViaWebOK ==
    ASSUME FlowInv, AuthViaWeb PROVE FlowInv'
  <1> DEFINE next == [TakeSession(s) EXCEPT !.at = "challenge"]
  <1>0. deviated \in BOOLEAN /\ FlowOK(wallet, s) /\ s.at = "via web"
        /\ wallet' = wallet /\ TokenOK(wallet, token')
    BY Zenon DEF FlowInv, AuthViaWeb
  <1>1. PICK D : \/ FailFlow
                 \/ ReportDeviation(D, WithCode(TRUE))
                 \/ Rounds(s.round) /\ ReportDeviation(D, next)
    BY Zenon DEF AuthViaWeb, Unless
  <1>2. CASE FailFlow \/ ReportDeviation(D, WithCode(TRUE))
    <2>1. wallet.redirect  BY Zenon, <1>0 DEF FlowOK, FlowBrowser
    <2>2. FlowOK(wallet, WithCode(TRUE))  BY Zenon, <1>0, <2>1, WithCodeOK DEF BeforeToken
    <2>3. Lands(WithCode(TRUE))  BY Zenon, <1>0, <1>2, ReportLands, FailLands
    <2> QED  BY Zenon, <1>0, <2>2, <2>3, LandsOK
  <1>3. CASE Rounds(s.round) /\ ReportDeviation(D, next)
    <2>1. Lands(next)  BY Zenon, <1>0, <1>3, ReportLands
    <2>2. /\ TakeSession(s) \in Flow /\ FlowOK(wallet, TakeSession(s))
          /\ TakeSession(s).session = TakeSession(s).given /\ TakeSession(s).session > 0
          /\ TakeSession(s).round = s.round /\ TakeSession(s).at = "via web"
      BY Zenon, <1>0, TakeSessionOK
    <2>3. next \in Flow  BY Zenon, <2>2 DEF Flow, Steps
    <2>4. FlowOK(wallet, next)
      BY ZenonT(60), <1>3, <2>2, <2>3 DEF FlowOK, FlowOffer, FlowServer, FlowBrowser, FlowSession, FlowRequest,
         Flow, BeforeToken, Talking, Rounds
    <2> QED  BY Zenon, <1>0, <2>1, <2>4, LandsOK
  <1> QED  BY Zenon, <1>1, <1>2, <1>3

LEMMA CheckHAIPOK ==
    ASSUME FlowInv, CheckHAIP PROVE FlowInv'
  <1>0. deviated \in BOOLEAN /\ FlowOK(wallet, s) /\ s.at = "HAIP"
        /\ wallet' = wallet /\ TokenOK(wallet, token')
    BY Zenon DEF FlowInv, CheckHAIP
  <1>1. PICK f \in Endpoints, https \in BOOLEAN, algorithms \in BOOLEAN, step \in {"token", "client"} :
          \/ FailFlow
          \/ ReportDeviation(HAIPFindings(f, https, algorithms),
               [s EXCEPT !.at = step, !.has = IF s.oauth THEN f ELSE NoEndpoints])
    BY ZenonT(60) DEF CheckHAIP, Unless
  <1> DEFINE has == IF s.oauth THEN f ELSE NoEndpoints
             next == [s EXCEPT !.at = step, !.has = has]
  <1>2. Lands(next)  BY Zenon, <1>0, <1>1, ReportLands, FailLands
  <1>3. has \in Endpoints  BY Zenon DEF NoEndpoints, Endpoints
  <1> HIDE DEF has
  <1>4. next \in Flow  BY Zenon, <1>0, <1>3 DEF FlowOK, Flow, Steps
  <1>5. FlowOK(wallet, next)
    BY ZenonT(60), <1>0, <1>4 DEF FlowOK, FlowOffer, FlowServer, FlowBrowser, FlowSession, FlowRequest,
           Flow, Talking, BeforeToken
  <1> QED  BY Zenon, <1>0, <1>2, <1>5, LandsOK

LEMMA PrepareClientOK ==
    ASSUME FlowInv, PrepareClient PROVE FlowInv'
  <1>0. deviated \in BOOLEAN /\ FlowOK(wallet, s) /\ s.at = "client"
        /\ wallet' = wallet /\ TokenOK(wallet, token')
    BY Zenon DEF FlowInv, PrepareClient
  <1>a. PICK step \in {"challenge", "push"} : \E D :
          \/ FailFlow
          \/ (step = "push" => CanRedirect) /\ ReportDeviation(D, [s EXCEPT !.at = step])
    BY Zenon DEF PrepareClient, Unless
  <1>1. PICK D :
          \/ FailFlow
          \/ (step = "push" => CanRedirect) /\ ReportDeviation(D, [s EXCEPT !.at = step])
    BY Zenon, <1>a
  <1> DEFINE next == [s EXCEPT !.at = step]
  <1>2. CASE FailFlow
    <2>1. Lands(FailedFlow)  BY Zenon, <1>0, <1>2, FailLands
    <2> QED  BY Zenon, <1>0, <2>1, LandsOK, FailedFlowOK DEF FlowInv
  <1>3. CASE (step = "push" => CanRedirect) /\ ReportDeviation(D, [s EXCEPT !.at = step])
    <2>1. Lands(next)  BY Zenon, <1>0, <1>3, ReportLands
    <2>2. next \in Flow  BY Zenon, <1>0 DEF FlowOK, Flow, Steps
    <2>3. next.at = step /\ next.round = s.round /\ next.session = s.session
          /\ next.given = s.given /\ next.has = s.has /\ next.redirected = s.redirected
      BY Zenon, <1>0 DEF FlowOK, Flow
    <2>4. FlowSession(next)
      <3>1. s.round = 0 /\ s.session = s.given  BY Zenon, <1>0 DEF FlowOK, FlowSession, Talking
      <3> HIDE DEF next
      <3> QED  BY SMTT(60), <2>3, <3>1, FlowAssumption DEF FlowSession, Talking
    <2>5. FlowBrowser(wallet, next)
      BY Zenon, <1>0, <1>3, <2>3 DEF FlowOK, FlowBrowser, CanRedirect
    <2>6. FlowOffer(wallet, next) /\ FlowServer(wallet, next) /\ FlowRequest(next)
      BY Zenon, <1>0 DEF FlowOK, FlowOffer, FlowServer, FlowRequest, Flow, BeforeToken
    <2>7. FlowOK(wallet, next)  BY Zenon, <2>2, <2>4, <2>5, <2>6 DEF FlowOK
    <2> QED  BY Zenon, <1>0, <2>1, <2>7, LandsOK
  <1> QED  BY Zenon, <1>1, <1>2, <1>3

LEMMA ListedServers ==
    ASSUME NEW list \in Listings
    PROVE  /\ \A i \in DOMAIN list : list[i] \in AuthServers
           /\ Len(list) # 0 => 1 \in DOMAIN list
           /\ \A b \in Listed(list) : b \in AuthServers /\ Len(list) # 0
  <1>1. PICK n \in 0..MaxListed : list \in [1..n -> AuthServers]
    BY Zenon DEF Listings
  <1>2. n \in Nat  BY SMTT(60), FlowAssumption
  <1>3. list \in Seq(AuthServers)  BY SMTT(60), <1>1, <1>2
  <1>4. DOMAIN list = 1..Len(list) /\ Len(list) \in Nat  BY <1>3
  <1>5. \A i \in DOMAIN list : list[i] \in AuthServers  BY Zenon, <1>1
  <1>6. \A b \in Listed(list) : b \in AuthServers /\ Len(list) # 0
    BY SMTT(60), <1>4, <1>5 DEF Listed
  <1> QED  BY SMTT(60), <1>4, <1>5, <1>6

LEMMA ChosenServer ==
    ASSUME NEW list \in Listings, NEW hint \in AuthServers \cup {""}, NEW fromIssuer \in BOOLEAN,
           NEW m \in [Candidates(list) -> {v \in Meta : v.read \/ v = Unread}],
           SelectServer(list, hint) # "none",
           NEW server \in FallbackServer(list, SelectServer(list, hint), m)
    PROVE  /\ server \in Servers /\ TokenEndpoint(list, server, m, fromIssuer) \in Servers
           /\ m[server].read \in BOOLEAN /\ m[server].grants \in Grants
  <1> DEFINE selected == SelectServer(list, hint)
  <1>1. /\ \A i \in DOMAIN list : list[i] \in AuthServers
        /\ Len(list) # 0 => 1 \in DOMAIN list
        /\ \A b \in Listed(list) : b \in AuthServers /\ Len(list) # 0
    BY Zenon, ListedServers
  <1>2. selected \in Candidates(list)
    <2>1. Len(list) # 0 => list[1] \in Listed(list)  BY Zenon, <1>1 DEF Listed
    <2> QED  BY Zenon, <1>1, <2>1 DEF SelectServer, Candidates
  <1> HIDE DEF selected
  <1>3. server \in FallbackServer(list, selected, m)  BY Zenon DEF selected
  <1>4. server = selected \/ server \in Listed(list)
    BY Zenon, <1>3 DEF FallbackServer, Listed
  <1>5. server \in Candidates(list)
    <2>1. server \in Listed(list) => Len(list) # 0  BY Zenon, <1>1
    <2> QED  BY Zenon, <1>2, <1>4, <2>1 DEF Candidates
  <1>6. server \in Servers
    BY Zenon, <1>1, <1>5 DEF Candidates, Servers
  <1>7. m[server].read \in BOOLEAN /\ m[server].grants \in Grants
    BY Zenon, <1>5 DEF Meta, Grants
  <1>8. TokenEndpoint(list, server, m, fromIssuer) \in Servers
    BY Zenon, <1>1, <1>6 DEF TokenEndpoint, Servers
  <1> QED  BY Zenon, <1>6, <1>7, <1>8

LEMMA ChooseServerOK ==
    ASSUME FlowInv, SelectAuthorizationServer PROVE FlowInv'
  <1>0. deviated \in BOOLEAN /\ FlowOK(wallet, s) /\ s.at = "server"
        /\ wallet' = wallet /\ TokenOK(wallet, token')
    BY Zenon DEF FlowInv, SelectAuthorizationServer
  <1>a. PICK list \in Listings :
          \E m \in [Candidates(list) -> {v \in Meta : v.read \/ v = Unread}],
             hint \in AuthServers \cup {""}, fromIssuer, endpoints \in BOOLEAN :
            ChooseServer(list, hint, m, fromIssuer, endpoints)
    BY Zenon DEF SelectAuthorizationServer
  <1>1. PICK m \in [Candidates(list) -> {v \in Meta : v.read \/ v = Unread}],
             hint \in AuthServers \cup {""}, fromIssuer \in BOOLEAN, endpoints \in BOOLEAN :
          ChooseServer(list, hint, m, fromIssuer, endpoints)
    BY <1>a, Zenon
  <1> DEFINE selected == SelectServer(list, hint)
  <1>2. CASE selected = "none"
    <2>1. Lands(FailedFlow)  BY Zenon, <1>0, <1>1, <1>2, FailLands DEF ChooseServer, Unless
    <2> QED  BY Zenon, <1>0, <2>1, LandsOK, FailedFlowOK DEF FlowInv
  <1>3. CASE selected # "none"
    <2>1. PICK server \in FallbackServer(list, selected, m) :
            ReportDeviation(
              {d \in {"grant type"} : m[selected].grants = "left out"}
                \cup {d \in {"token endpoint"} : ~m[server].tokenEndpoint /\ ~fromIssuer}
                \cup {d \in {"credential endpoint"} : ~endpoints},
              [s EXCEPT !.at = "HAIP", !.server = server, !.oauth = m[server].read,
                        !.grants = m[server].grants,
                        !.endpoint = TokenEndpoint(list, server, m, fromIssuer)])
      BY Zenon, <1>1, <1>3 DEF ChooseServer, Unless
    <2> DEFINE D == {d \in {"grant type"} : m[selected].grants = "left out"}
                      \cup {d \in {"token endpoint"} : ~m[server].tokenEndpoint /\ ~fromIssuer}
                      \cup {d \in {"credential endpoint"} : ~endpoints}
               endpoint == TokenEndpoint(list, server, m, fromIssuer)
               next == [s EXCEPT !.at = "HAIP", !.server = server, !.oauth = m[server].read,
                                 !.grants = m[server].grants, !.endpoint = endpoint]
    <2>2. ReportDeviation(D, next)  BY Zenon, <2>1
    <2>8. /\ server \in Servers /\ endpoint \in Servers
          /\ m[server].read \in BOOLEAN /\ m[server].grants \in Grants
      BY ZenonT(60), <1>1, <1>3, <2>1, ChosenServer
    <2>10. D = {} => m[server].grants # "left out" /\ endpoint \in {server, Issuer}
      <3> SUFFICES ASSUME D = {} PROVE m[server].grants # "left out" /\ endpoint \in {server, Issuer}
        BY Zenon
      <3>1. m[selected].grants # "left out"  BY Zenon
      <3>2. server = selected  BY Zenon, <2>1, <3>1 DEF FallbackServer
      <3>3. m[server].tokenEndpoint \/ fromIssuer  BY Zenon
      <3> QED  BY Zenon, <3>1, <3>2, <3>3 DEF TokenEndpoint
    <2> HIDE DEF D, endpoint
    <2>11. next \in Flow
      <3>1. "HAIP" \in Steps  BY Zenon DEF Steps
      <3> QED  BY Zenon, <1>0, <2>8, <3>1 DEF FlowOK, Flow
    <2>12. /\ next.at = "HAIP" /\ next.server = server /\ next.grants = m[server].grants
           /\ next.endpoint = endpoint /\ next.offer = s.offer /\ next.redirected = s.redirected
           /\ next.session = s.session /\ next.given = s.given /\ next.round = s.round
           /\ next.request = s.request
      BY Zenon, <1>0 DEF FlowOK, Flow
    <2> HIDE DEF next
    <2>13. FlowOffer(wallet, next) /\ FlowBrowser(wallet, next) /\ FlowSession(next)
           /\ FlowRequest(next)
      BY ZenonT(60), <1>0, <2>12 DEF FlowOK, FlowOffer, FlowBrowser, FlowSession, FlowRequest, Talking
    <2>14. CASE wallet.strict /\ D # {}
      <3>1. Lands(FailedFlow)  BY Zenon, <1>0, <2>2, <2>14 DEF ReportDeviation, Lands
      <3> QED  BY Zenon, <1>0, <3>1, LandsOK, FailedFlowOK DEF FlowInv
    <2>15. CASE ~(wallet.strict /\ D # {})
      <3>1. FlowServer(wallet, next)  BY Zenon, <2>10, <2>12, <2>15 DEF FlowServer
      <3>2. FlowOK(wallet, next)  BY Zenon, <2>11, <2>13, <3>1 DEF FlowOK
      <3>3. Lands(next)  BY Zenon, <1>0, <2>2, ReportLands
      <3> QED  BY Zenon, <1>0, <3>2, <3>3, LandsOK
    <2> QED  BY Zenon, <2>14, <2>15
  <1> QED  BY Zenon, <1>2, <1>3

LEMMA SessionPositive ==
    ASSUME NEW f \in Flow, f.session # 0 PROVE f.session > 0
  BY SMTT(60) DEF Flow

LEMMA RoundFits ==
    ASSUME NEW w, NEW f, FlowOK(w, f), f.at = "challenge"
    PROVE  f.round \in Nat /\ f.round < MaxRounds /\ f.round + 1 \in 0..MaxRounds
  BY FlowAssumption DEF FlowOK, FlowSession, Flow

LEMMA EncryptionRequired ==
    ASSUME NEW e \in Encryption PROVE e.required \in BOOLEAN
  <1>1. CASE e = [stated |-> FALSE, required |-> FALSE, usable |-> FALSE]  BY Zenon, <1>1
  <1>2. CASE e \in [stated : {TRUE}, required : BOOLEAN, usable : BOOLEAN]  BY Zenon, <1>2
  <1> QED  BY Zenon, <1>1, <1>2 DEF Encryption

LEMMA ChallengeRequestOK ==
    ASSUME FlowInv, ChallengeRequest PROVE FlowInv'
  <1>0. deviated \in BOOLEAN /\ FlowOK(wallet, s) /\ s.at = "challenge"
        /\ wallet' = wallet /\ TokenOK(wallet, token')
    BY Zenon DEF FlowInv, ChallengeRequest
  <1>1. PICK given \in BOOLEAN, alias \in BOOLEAN, uri \in BOOLEAN,
             kind \in {"presentation", "via web", "other"} :
          LET next == [(IF given THEN TakeSession(s) ELSE s) EXCEPT !.round = @ + 1]
          IN ChallengeCode(alias) \/ RedirectToWeb(next, uri) \/ RunInteraction(next, kind)
             \/ FailFlow
    BY ZenonT(60) DEF ChallengeRequest
  <1> DEFINE taken == IF given THEN TakeSession(s) ELSE s
             next == [taken EXCEPT !.round = @ + 1]
  <1>2. /\ taken \in Flow /\ FlowOK(wallet, taken) /\ taken.at = "challenge"
        /\ taken.round = s.round /\ taken.has = s.has
    <2>1. CASE given  BY Zenon, <1>0, <2>1, TakeSessionOK
    <2>2. CASE ~given  BY Zenon, <1>0, <2>2 DEF FlowOK
    <2> QED  BY Zenon, <2>1, <2>2
  <1> HIDE DEF taken, next
  <1>3. s.round \in Nat /\ s.round < MaxRounds /\ s.round + 1 \in 0..MaxRounds
    BY <1>0, RoundFits, Zenon
  <1>4. /\ next \in Flow /\ next.round = s.round + 1 /\ next.at = "challenge"
        /\ next.has = s.has /\ next.session = next.given /\ next.redirected = taken.redirected
        /\ next.session = taken.session /\ next.offer = taken.offer /\ next.grants = taken.grants
        /\ next.endpoint = taken.endpoint /\ next.server = taken.server
        /\ next.request = taken.request
    <2>1. next = [taken EXCEPT !.round = s.round + 1]  BY Zenon, <1>2 DEF Flow, next
    <2> QED  BY Zenon, <1>2, <1>3, <2>1 DEF Flow, FlowOK, FlowSession
  <1>5. CASE ChallengeCode(alias) \/ FailFlow
    <2>1. PICK D : ReportDeviation(D, WithCode(FALSE)) \/ FailFlow
      BY Zenon, <1>5 DEF ChallengeCode
    <2>2. Lands(WithCode(FALSE))  BY Zenon, <1>0, <2>1, ReportLands, FailLands
    <2>3. FlowOK(wallet, WithCode(FALSE))  BY Zenon, <1>0, WithCodeOK DEF BeforeToken
    <2> QED  BY Zenon, <1>0, <2>2, <2>3, LandsOK
  <1>6. ASSUME NEW after, Go(after), NEW x \in {"push", "via web", "challenge"},
               NEW p \in BOOLEAN,
               after = [next EXCEPT !.at = x, !.pushed = p],
               x # "challenge" => CanRedirect,
               x = "challenge" => Rounds(next.round) /\ next.session # 0
        PROVE  FlowInv'
    <2>1. Lands(after)  BY Zenon, <1>0, <1>6, GoLands
    <2>2. /\ after \in Flow /\ after.at = x
          /\ after.has = s.has /\ after.session = after.given /\ after.redirected = taken.redirected
          /\ after.session = next.session /\ after.round = next.round
          /\ after.offer = taken.offer /\ after.grants = taken.grants
          /\ after.endpoint = taken.endpoint /\ after.server = taken.server
          /\ after.request = taken.request
      BY ZenonT(60), <1>4, <1>6 DEF Flow, Steps
    <2>3. FlowSession(after)
      <3>1. next.session # 0 => next.session > 0
        BY <1>4, SessionPositive, Zenon
      <3>2. x \in Talking  BY Zenon DEF Talking
      <3>3. x = "challenge" => next.round < MaxRounds /\ next.session > 0
        <4>1. x = "challenge" => next.round < MaxRounds /\ next.session # 0
          BY <1>6, Zenon DEF Rounds
        <4> QED  BY <3>1, <4>1, Zenon
      <3> QED  BY Zenon, <2>2, <3>2, <3>3 DEF FlowSession
    <2>4. FlowBrowser(wallet, after)
      BY Zenon, <1>2, <1>6, <2>2 DEF FlowOK, FlowBrowser, CanRedirect
    <2>5. FlowOffer(wallet, after) /\ FlowRequest(after)
      BY Zenon, <1>2, <2>2 DEF FlowOK, FlowOffer, FlowRequest
    <2>6. FlowServer(wallet, after)
      BY Zenon, <1>2, <2>2 DEF FlowOK, FlowServer, BeforeToken
    <2>7. FlowOK(wallet, after)  BY Zenon, <2>2, <2>3, <2>4, <2>5, <2>6 DEF FlowOK
    <2> QED  BY Zenon, <1>0, <2>1, <2>7, LandsOK
  <1>7. CASE FailFlow
    <2>1. Lands(FailedFlow)  BY ZenonT(60), <1>0, <1>7, FailLands
    <2> QED  BY Zenon, <1>0, <2>1, LandsOK, FailedFlowOK DEF FlowInv
  <1>8. CASE RedirectToWeb(next, uri)
    <2>1. CASE CanRedirect
      BY Zenon, <1>6, <1>8, <2>1 DEF RedirectToWeb, Unless
    <2> QED  BY Zenon, <1>7, <1>8, <2>1 DEF RedirectToWeb, Unless
  <1>9. CASE RunInteraction(next, kind)
    <2>1. next.pushed \in BOOLEAN /\ \A x : [next EXCEPT !.at = x] = [next EXCEPT !.at = x, !.pushed = next.pushed]
      BY Zenon, <1>4 DEF Flow
    <2>2. \/ FailFlow
          \/ CanRedirect /\ Go([next EXCEPT !.at = "via web"])
          \/ Rounds(next.round) /\ next.session # 0 /\ Go([next EXCEPT !.at = "challenge"])
      BY Zenon, <1>9 DEF RunInteraction, Unless
    <2> QED  BY Zenon, <1>6, <1>7, <2>1, <2>2
  <1> QED  BY Zenon, <1>1, <1>5, <1>8, <1>9 DEF taken, next

LEMMA CredentialRequestOK ==
    ASSUME FlowInv, CredentialRequest PROVE FlowInv'
  <1>0. deviated \in BOOLEAN /\ FlowOK(wallet, s) /\ s.at = "credential"
        /\ wallet' = wallet /\ TokenOK(wallet, token')
    BY Zenon DEF FlowInv, CredentialRequest
  <1>1. PICK rq \in Encryption, rs \in Encryption, D \in RequestFindings,
             answer \in {"credential", "transaction", "error"} :
          Unless(/\ rq.required => EncryptsRequest(rq)
                 /\ rs.required => AsksEncryption(rq, rs)
                 /\ answer # "error",
            ReportDeviation(D, [s EXCEPT !.at = Delivery(answer),
              !.request = [encrypted |-> EncryptsRequest(rq), asks |-> AsksEncryption(rq, rs),
                           needed |-> rq.required, wanted |-> rs.required]]))
    BY ZenonT(200) DEF CredentialRequest
  <1> DEFINE r == [encrypted |-> EncryptsRequest(rq), asks |-> AsksEncryption(rq, rs),
                   needed |-> rq.required, wanted |-> rs.required]
             next == [s EXCEPT !.at = Delivery(answer), !.request = r]
  <1>2. CASE FailFlow
    <2>1. Lands(FailedFlow)  BY Zenon, <1>0, <1>2, FailLands
    <2> QED  BY Zenon, <1>0, <2>1, LandsOK, FailedFlowOK DEF FlowInv
  <1>3. CASE /\ rq.required => EncryptsRequest(rq)
             /\ rs.required => AsksEncryption(rq, rs)
             /\ ReportDeviation(D, next)
    <2>1. Lands(next)  BY Zenon, <1>0, <1>3, ReportLands
    <2>3. /\ r \in Requests
          /\ r.asks => r.encrypted
          /\ r.needed => r.encrypted
          /\ r.wanted => r.asks
      <3> HIDE DEF next
      <3>1. rq.required \in BOOLEAN /\ rs.required \in BOOLEAN
            /\ EncryptsRequest(rq) \in BOOLEAN /\ AsksEncryption(rq, rs) \in BOOLEAN
            /\ (AsksEncryption(rq, rs) => EncryptsRequest(rq))
        <4> HIDE DEF r
        <4>1. \A e \in Encryption : e.required \in BOOLEAN
          BY EncryptionRequired, Zenon
        <4>2. EncryptsRequest(rq) \in BOOLEAN /\ AsksEncryption(rq, rs) \in BOOLEAN
              /\ (AsksEncryption(rq, rs) => EncryptsRequest(rq))
          BY Zenon DEF EncryptsRequest, AsksEncryption
        <4> QED  BY <4>1, <4>2, Zenon
      <3>2. (rq.required => EncryptsRequest(rq)) /\ (rs.required => AsksEncryption(rq, rs))
        BY Zenon, <1>3
      <3> QED  BY Zenon, <3>1, <3>2 DEF Requests
    <2> HIDE DEF r
    <2>4. Delivery(answer) \in {"import", "deferred"}  BY Zenon DEF Delivery
    <2>5. /\ next \in Flow /\ next.at = Delivery(answer) /\ next.request = r
          /\ next.round = s.round /\ next.session = s.session /\ next.given = s.given
          /\ next.offer = s.offer /\ next.redirected = s.redirected
      <3>1. Delivery(answer) \in Steps  BY Zenon, <2>4 DEF Steps
      <3> QED  BY Zenon, <1>0, <2>3, <3>1 DEF FlowOK, Flow
    <2> HIDE DEF next
    <2>6. FlowOK(wallet, next)
      BY ZenonT(60), <1>0, <2>3, <2>4, <2>5 DEF FlowOK, FlowOffer, FlowServer, FlowBrowser, FlowSession,
         FlowRequest, BeforeToken, Talking
    <2> QED  BY Zenon, <1>0, <2>1, <2>6, LandsOK
  <1> QED  BY Zenon, <1>1, <1>2, <1>3 DEF Unless

LEMMA FlowStepKeeps ==
    ASSUME FlowInv, [FlowNext]_flowVars PROVE FlowInv'
  <1>1. CASE UNCHANGED flowVars
    BY Zenon, <1>1 DEF FlowInv, flowVars
  <1>2. CASE FlowStep
    BY <1>2, ZenonT(60), ResolveOfferOK, LoadIssuerMetadataOK, ChooseServerOK, CheckHAIPOK, PrepareClientOK,
       ChallengeRequestOK, AuthViaWebOK, PushRequestOK, AuthorizationRequestOK, RequestTokenOK,
       CredentialRequestOK, ImportOK DEF FlowStep
  <1> QED  BY <1>1, <1>2, Zenon DEF FlowNext, Done

(***************************************************************************)
(* The inductive invariant holds throughout                                *)
(* ProcessCredentialOfferWithOptions, whatever the issuer's and the        *)
(* servers' metadata say and however they answer.                          *)
(***************************************************************************)
THEOREM FlowInvariant == FlowSpec => []FlowInv
  <1>1. FlowInit => FlowInv
    BY Zenon, FlowStartOK DEF FlowInit, FlowInv, TokenOK
  <1> QED  BY <1>1, FlowStepKeeps, PTL DEF FlowSpec

(***************************************************************************)
(* A strict wallet stops at the first deviation, and before it spends the  *)
(* grant: the token request goes only to a server that does not leave the  *)
(* grant out, at an endpoint of its own or the issuer's (reportDeviation,  *)
(* checkAuthorizationServerGrant, resolveTokenEndpoint,                    *)
(* requestAccessToken), for any list of authorization servers and any      *)
(* number of interactive rounds.                                           *)
(***************************************************************************)
THEOREM StrictRefuses == FlowSpec => []StrictRefusesInTime
  <1>1. FlowInv => StrictRefusesInTime
    <2> SUFFICES ASSUME FlowInv PROVE StrictRefusesInTime  BY Zenon
    <2>1. StrictIsConformant  BY Zenon DEF FlowInv, StrictIsConformant
    <2>2. GrantIsNotWasted
      <3>1. CASE token = <<>>  BY Zenon, <3>1 DEF GrantIsNotWasted
      <3>2. CASE token # <<>>
        <4>1. PICK r \in TokenRequests :
                /\ token = <<r>>
                /\ wallet.strict => r.grants # "left out" /\ r.endpoint \in {r.server, Issuer}
          BY Zenon, <3>2 DEF FlowInv, TokenOK
        <4>2. token[1] = r  BY Zenon, <4>1
        <4> QED  BY Zenon, <4>1, <4>2 DEF GrantIsNotWasted
      <3> QED  BY Zenon, <3>1, <3>2
    <2> QED  BY Zenon, <2>1, <2>2 DEF StrictRefusesInTime
  <1> QED  BY <1>1, FlowInvariant, PTL

(***************************************************************************)
(* An offer is run for the issuer that was approved, with the newest       *)
(* session the server gave, through a browser only where there is one, and *)
(* what asks for an encrypted answer is itself encrypted                   *)
(* (keepApprovedOffer, obtainInteractiveAuthorizationCode,                 *)
(* processAuthorizationCodeOffer, prepareCredentialRequestBody).           *)
(***************************************************************************)
THEOREM FlowConsistent == FlowSpec => []FlowIsConsistent
  <1>1. FlowInv => FlowIsConsistent
    <2> SUFFICES ASSUME FlowInv PROVE FlowIsConsistent  BY Zenon
    <2>1. FlowTypeOK  BY Zenon DEF FlowInv, FlowOK, TokenOK, FlowTypeOK, TokenRequests
    <2>2. ApprovedIssuer  BY Zenon DEF FlowInv, FlowOK, FlowOffer, ApprovedIssuer
    <2>3. NewestSession  BY Zenon DEF FlowInv, FlowOK, FlowSession, NewestSession
    <2>4. BrowserIsUsable
      <3>1. token # <<>> => (token[1].redirect => wallet.redirect)
        <4>1. CASE token # <<>>
          <5>1. PICK r \in TokenRequests : token = <<r>> /\ (r.redirect => wallet.redirect)
            BY Zenon, <4>1 DEF FlowInv, TokenOK
          <5>2. token[1] = r  BY Zenon, <5>1
          <5> QED  BY Zenon, <5>1, <5>2
        <4> QED  BY Zenon, <4>1
      <3> QED  BY Zenon, <3>1 DEF FlowInv, FlowOK, FlowBrowser, BrowserIsUsable, CanRedirect
    <2>5. EncryptionIsConsistent  BY ZenonT(60) DEF FlowInv, FlowOK, FlowRequest, EncryptionIsConsistent
    <2> QED  BY Zenon, <2>1, <2>2, <2>3, <2>4, <2>5 DEF FlowIsConsistent
  <1> QED  BY <1>1, FlowInvariant, PTL

--------------------------------------------------------------------------------
(***************************************************************************)
(* The requests of an issuance (IssuanceRequests). A request is sent at    *)
(* most three times: once more for a DPoP nonce and once more for an       *)
(* attestation challenge, which its two retried flags count.               *)
(***************************************************************************)
(* The retries count the sends.                                            *)
SendsOK(r) ==
    LET early == IF r.phase = "ready" THEN 0 ELSE 1 IN
    r.phase \in {"ready", "sent"} =>
        /\ r.sends <= 2 + early
        /\ ~r.dpopRetried \/ ~r.attestationRetried => r.sends <= 1 + early
        /\ ~r.dpopRetried /\ ~r.attestationRetried => r.sends <= early

(* A challenge that is held is open and was never sent. Sending uses it    *)
(* up.                                                                     *)
ChallengeOK ==
    /\ req.challenge # 0 => req.challenge \in open /\ req.challenge \notin used
    /\ req.phase = "sent" => req.challenge = 0

(* Where the server gives challenges a retry has one, and what it sent     *)
(* last is open.                                                           *)
Answers == world.demandsChallenge => world.offersChallenge \/ world.challengeEndpoint
Retried == req.dpopRetried \/ req.attestationRetried
FreshOK ==
    Answers /\ world.demandsChallenge /\ Attests /\ Retried =>
        /\ req.phase = "ready" => req.challenge # 0 \/ world.challengeEndpoint
        /\ req.phase = "sent" => last.challenge \in open

(* Unless the servers change their nonces, a retry is sent with the        *)
(* current one.                                                            *)
Settled == current.authz = 1 /\ current.issuer = 1
NonceOK ==
    Settled /\ req.dpopRetried =>
        /\ req.phase \in {"ready", "sent"} => known[Server[req.step]] = 1
        /\ req.phase = "sent" /\ SendsDPoP => last.dpop = 1

(* Once the grant is spent the token request is over.                      *)
GrantOK == granted => req.step # "par" /\ (req.step = "token" => req.phase = "failed")

(* The proof carries the newest nonce the wallet knows, which is never     *)
(* newer than the issuer's; a strict wallet that was told to renew it has. *)
ProofOK ==
    /\ known.c_nonce <= current.c_nonce
    /\ req.proofRetried /\ Strict => current.c_nonce > 1
    /\ req.step = "credential" /\ Strict /\ world.cnonce = "endpoint" =>
          known.c_nonce > 0 /\ (req.proofRetried => known.c_nonce > 1)
    /\ req.step = "credential" /\ req.phase = "sent" => last.proof = known.c_nonce

RequestsInv ==
    /\ RequestsTypeOK /\ SendsOK(req) /\ ChallengeOK /\ FreshOK /\ NonceOK /\ GrantOK /\ ProofOK
    /\ FreshDemandsAreMet /\ ProofsAreRenewed

LEMMA BeginFields ==
    ASSUME req \in RequestState, NEW x \in RequestKinds
    PROVE  /\ Begin(x) \in RequestState
           /\ Begin(x).step = x /\ Begin(x).phase = "ready" /\ Begin(x).challenge = 0
           /\ Begin(x).sends = 0 /\ ~Begin(x).dpopRetried /\ ~Begin(x).attestationRetried
           /\ Begin(x).proofRetried = req.proofRetried
  BY DEF Begin, RequestState

LEMMA AgainFields ==
    ASSUME req \in RequestState
    PROVE  LET b == [Begin("nonce") EXCEPT !.proofRetried = TRUE] IN
           /\ b \in RequestState
           /\ b.step = "nonce" /\ b.phase = "ready" /\ b.challenge = 0
           /\ b.sends = 0 /\ ~b.dpopRetried /\ ~b.attestationRetried /\ b.proofRetried
  <1>1. "nonce" \in RequestKinds  BY Zenon DEF RequestKinds
  <1>2. /\ Begin("nonce") \in RequestState
        /\ Begin("nonce").step = "nonce" /\ Begin("nonce").phase = "ready"
        /\ Begin("nonce").challenge = 0 /\ Begin("nonce").sends = 0
        /\ ~Begin("nonce").dpopRetried /\ ~Begin("nonce").attestationRetried
    BY Zenon, <1>1, BeginFields
  <1> QED  BY Zenon, <1>2 DEF RequestState

LEMMA EndFields ==
    ASSUME req \in RequestState, NEW x \in {"done", "failed"}
    PROVE  /\ End(x) \in RequestState
           /\ End(x).step = req.step /\ End(x).phase = x /\ End(x).challenge = req.challenge
           /\ End(x).proofRetried = req.proofRetried
  BY Zenon DEF End, RequestState

LEMMA ObservedFields ==
    ASSUME req \in RequestState, issued \in Nat, NEW code
    PROVE  /\ Observed(code) \in RequestState
           /\ Observed(code).step = req.step /\ Observed(code).phase = req.phase
           /\ Observed(code).sends = req.sends
           /\ Observed(code).dpopRetried = req.dpopRetried
           /\ Observed(code).attestationRetried = req.attestationRetried
           /\ Observed(code).proofRetried = req.proofRetried
           /\ Observed(code).challenge =
                IF ChallengeHeader(code) # 0 THEN ChallengeHeader(code) ELSE req.challenge
  <1>1. ChallengeHeader(code) \in Nat  BY DEF ChallengeHeader
  <1> QED  BY Zenon, <1>1 DEF Observed, RequestState

LEMMA DPoPRetryFields ==
    ASSUME req \in RequestState, issued \in Nat, NEW code
    PROVE  LET o == [Observed(code) EXCEPT !.phase = "ready", !.dpopRetried = TRUE] IN
           /\ o \in RequestState /\ o.step = req.step /\ o.phase = "ready" /\ o.sends = req.sends
           /\ o.dpopRetried /\ o.attestationRetried = req.attestationRetried
           /\ o.proofRetried = req.proofRetried /\ o.challenge = Observed(code).challenge
  BY Zenon, ObservedFields DEF RequestState

LEMMA AttestationRetryFields ==
    ASSUME req \in RequestState, issued \in Nat, NEW code
    PROVE  LET o == [Observed(code) EXCEPT !.phase = "ready", !.attestationRetried = TRUE] IN
           /\ o \in RequestState /\ o.step = req.step /\ o.phase = "ready" /\ o.sends = req.sends
           /\ o.attestationRetried /\ o.dpopRetried = req.dpopRetried
           /\ o.proofRetried = req.proofRetried /\ o.challenge = Observed(code).challenge
  BY ZenonT(60), ObservedFields DEF RequestState

LEMMA RefusedCases ==
    ASSUME req \in RequestState, NEW code
    PROVE  \/ Refused(code) = Begin("nonceGet") /\ req.step = "nonce"
           \/ Refused(code) = Begin("credential") /\ req.step \in {"nonce", "nonceGet"} /\ ~Strict
           \/ /\ Refused(code) = [Begin("nonce") EXCEPT !.proofRetried = TRUE]
              /\ req.step = "credential" /\ code = "invalid_nonce" /\ ~req.proofRetried
              /\ world.cnonce = "endpoint"
           \/ Refused(code) = End("done") /\ req.step = "notification"
           \/ /\ Refused(code) = End("failed")
              /\ req.step = "credential" /\ code = "invalid_nonce" /\ world.cnonce = "endpoint"
                   => req.proofRetried
  BY ZenonT(60) DEF Refused, NoNonce, RequestState, RequestKinds

LEMMA RetryCases ==
    ASSUME NEW code
    PROVE  \/ /\ RetryOrRefused(code) = [Observed(code) EXCEPT !.phase = "ready", !.dpopRetried = TRUE]
              /\ NeedsDPoPRetry(code) /\ ~req.dpopRetried
           \/ /\ RetryOrRefused(code) =
                   [Observed(code) EXCEPT !.phase = "ready", !.attestationRetried = TRUE]
              /\ Attests /\ RetryAfterRefusal(code) /\ ~req.attestationRetried
           \/ /\ RetryOrRefused(code) = Refused(code)
              /\ ~(NeedsDPoPRetry(code) /\ ~req.dpopRetried)
              /\ ~(Attests /\ RetryAfterRefusal(code) /\ ~req.attestationRetried)
  BY Zenon DEF RetryOrRefused

LEMMA ServerNumbered ==
    ASSUME req \in RequestState
    PROVE  Server[req.step] \in {"authz", "issuer"} /\ Server[req.step] \in Numbered
  BY Zenon DEF Server, RequestState, Numbered

LEMMA HeadersTyped ==
    ASSUME RequestsTypeOK, NEW code
    PROVE  /\ ChallengeHeader(code) \in {0, issued + 1}
           /\ NonceHeader(code) \in {0, current[Server[req.step]]}
           /\ NonceHeader(code) \in Nat
  <1>1. ChallengeHeader(code) \in {0, issued + 1}  BY ZenonT(60) DEF ChallengeHeader
  <1>2. current[Server[req.step]] \in Nat
    BY SMTT(60), ServerNumbered, RequestsAssumption DEF RequestsTypeOK
  <1> QED  BY Zenon, <1>1, <1>2 DEF NonceHeader

LEMMA HeardFields ==
    ASSUME RequestsTypeOK, NEW code
    PROVE  /\ Heard(code) \in [Numbered -> Nat]
           /\ Heard(code).c_nonce = known.c_nonce
           /\ NonceHeader(code) # 0 => Heard(code)[Server[req.step]] = current[Server[req.step]]
           /\ NonceHeader(code) = 0 => Heard(code) = known
  <1>1. req \in RequestState /\ known \in [Numbered -> Nat]  BY Zenon DEF RequestsTypeOK
  <1>2. Server[req.step] \in {"authz", "issuer"} /\ Server[req.step] \in Numbered
    BY Zenon, <1>1, ServerNumbered
  <1>3. NonceHeader(code) \in Nat /\ NonceHeader(code) \in {0, current[Server[req.step]]}
    BY Zenon, HeadersTyped
  <1>4. "c_nonce" \in Numbered  BY Zenon DEF Numbered
  <1> QED  BY Zenon, <1>1, <1>2, <1>3, <1>4 DEF Heard

(* A new request or a repeated one starts with clean retries.              *)
LEMMA CleanStart ==
    ASSUME req'.phase = "ready", req'.challenge = 0, req'.sends = 0, ~req'.dpopRetried,
           ~req'.attestationRetried
    PROVE  /\ SendsOK(req)' /\ ChallengeOK' /\ FreshOK' /\ NonceOK'
           /\ FreshDemandsAreMet' /\ ProofsAreRenewed'
  <1>1. SendsOK(req')  BY DEF SendsOK
  <1>2. ChallengeOK'  BY Zenon DEF ChallengeOK
  <1>3. FreshOK' /\ NonceOK'  BY Zenon DEF FreshOK, NonceOK, Retried
  <1>4. FreshDemandsAreMet' /\ ProofsAreRenewed'
    BY Zenon DEF FreshDemandsAreMet, DemandsAreMet, ProofsAreRenewed
  <1> QED  BY ZenonT(60), <1>1, <1>2, <1>3, <1>4

(* The end of a request.                                                   *)
LEMMA CleanEnd ==
    ASSUME req'.phase \in {"done", "failed"}, req'.challenge = 0
    PROVE  SendsOK(req)' /\ ChallengeOK' /\ FreshOK' /\ NonceOK'
  <1>1. SendsOK(req')  BY Zenon DEF SendsOK
  <1>2. ChallengeOK'  BY Zenon DEF ChallengeOK
  <1>3. FreshOK' /\ NonceOK'  BY Zenon DEF FreshOK, NonceOK
  <1> QED  BY Zenon, <1>1, <1>2, <1>3

LEMMA SendKeeps ==
    ASSUME RequestsInv, Send PROVE RequestsInv'
  <1>0. RequestsTypeOK /\ req \in RequestState /\ req.phase = "ready"
    BY Zenon DEF RequestsInv, RequestsTypeOK, Send
  <1>1. req.sends + 1 \in 0..3
    BY <1>0 DEF RequestsInv, SendsOK, RequestState
  <1>2. /\ req' \in RequestState /\ req'.phase = "sent" /\ req'.challenge = 0
        /\ req'.sends = req.sends + 1 /\ req'.step = req.step
        /\ req'.dpopRetried = req.dpopRetried /\ req'.attestationRetried = req.attestationRetried
        /\ req'.proofRetried = req.proofRetried
    BY Zenon, <1>0, <1>1 DEF Send, LeftChallenge, RequestState
  <1>3. world' = world /\ current' = current /\ granted' = granted /\ known' = known
    BY Zenon DEF Send
  <1>4. PopChallenge \in Nat /\ (PopChallenge # 0 => PopChallenge \in open' /\ PopChallenge \in 1..issued')
        /\ issued' \in Nat /\ open' \subseteq 1..issued' /\ used \subseteq 1..issued'
        /\ open \subseteq open'
    <2>1. CASE Fetches
      BY SMTT(60), <1>0, <2>1 DEF Send, PopChallenge, RequestsTypeOK
    <2>2. CASE ~Fetches
      <3>1. req.challenge \in Nat  BY Zenon, <1>0 DEF RequestState
      <3>2. req.challenge # 0 => req.challenge \in open
        BY Zenon DEF RequestsInv, ChallengeOK
      <3> QED  BY ZenonT(60), <1>0, <2>2, <3>1, <3>2 DEF Send, PopChallenge, RequestsTypeOK
    <2> QED  BY Zenon, <2>1, <2>2
  <1>5. last' \in [dpop : Nat, challenge : Nat, proof : Nat]
    <2>1. known[Server[req.step]] \in Nat /\ known.c_nonce \in Nat
      BY Zenon, <1>0, ServerNumbered DEF RequestsTypeOK, Numbered
    <2> QED  BY Zenon, <1>4, <2>1 DEF Send
  <1>6. used' \subseteq 1..issued'
    BY Zenon, <1>4 DEF Send
  <1>7. RequestsTypeOK'
    BY ZenonT(60), <1>0, <1>2, <1>3, <1>4, <1>5, <1>6 DEF RequestsTypeOK
  <1>8. SendsOK(req')
    BY SMTT(60), <1>0, <1>2 DEF RequestsInv, SendsOK, RequestState
  <1>9. ChallengeOK'  BY Zenon, <1>2 DEF ChallengeOK
  <1>10. FreshOK'
    <2> SUFFICES ASSUME Answers, world.demandsChallenge, Attests, Retried
                 PROVE  last'.challenge \in open'
      BY Zenon, <1>2, <1>3 DEF FreshOK, Answers, Attests, Retried
    <2>1. req.challenge # 0 \/ world.challengeEndpoint
      BY Zenon, <1>0 DEF RequestsInv, FreshOK
    <2>2. PopChallenge # 0
      <3>1. issued + 1 # 0  BY SMTT(60), <1>0 DEF RequestsTypeOK
      <3> QED  BY Zenon, <2>1, <3>1 DEF PopChallenge, Fetches
    <2> QED  BY Zenon, <1>4, <2>2 DEF Send
  <1>11. NonceOK'
    BY ZenonT(60), <1>0, <1>2, <1>3 DEF RequestsInv, NonceOK, Settled, SendsDPoP, Send
  <1>12. GrantOK'
    BY Zenon, <1>0, <1>2, <1>3 DEF RequestsInv, GrantOK
  <1>13. ProofOK'
    BY ZenonT(60), <1>0, <1>2, <1>3 DEF RequestsInv, ProofOK, Strict, Send
  <1>14. FreshDemandsAreMet' /\ ProofsAreRenewed'
    BY Zenon, <1>2 DEF FreshDemandsAreMet, DemandsAreMet, ProofsAreRenewed
  <1> QED  BY ZenonT(60), <1>7, <1>8, <1>9, <1>10, <1>11, <1>12, <1>13, <1>14 DEF RequestsInv

LEMMA ChallengeUnavailableKeeps ==
    ASSUME RequestsInv, ChallengeUnavailable PROVE RequestsInv'
  <1>0. RequestsTypeOK /\ req \in RequestState /\ req.phase = "ready" /\ Fetches
    BY Zenon DEF RequestsInv, RequestsTypeOK, ChallengeUnavailable
  <1>1. /\ req' \in RequestState /\ req'.phase = "failed" /\ req'.challenge = req.challenge
        /\ req'.step = req.step /\ req'.proofRetried = req.proofRetried
    BY Zenon, <1>0, EndFields DEF ChallengeUnavailable
  <1>2. UNCHANGED <<world, current, issued, open, granted, known, last, used>> /\ error' = "transport"
    BY Zenon DEF ChallengeUnavailable
  <1>3. RequestsTypeOK'  BY Zenon, <1>0, <1>1, <1>2 DEF RequestsTypeOK
  <1>4. SendsOK(req)' /\ ChallengeOK' /\ FreshOK' /\ NonceOK'
    BY Zenon, <1>0, <1>1, CleanEnd DEF Fetches
  <1>5. GrantOK'  BY Zenon, <1>0, <1>1, <1>2 DEF RequestsInv, GrantOK
  <1>6. ProofOK'  BY Zenon, <1>0, <1>1, <1>2 DEF RequestsInv, ProofOK, Strict
  <1>7. FreshDemandsAreMet' /\ ProofsAreRenewed'
    BY Zenon, <1>2 DEF FreshDemandsAreMet, DemandsAreMet, ProofsAreRenewed
  <1> QED  BY ZenonT(60), <1>3, <1>4, <1>5, <1>6, <1>7 DEF RequestsInv

LEMMA RotateKeeps ==
    ASSUME RequestsInv, Rotate PROVE RequestsInv'
  <1>0. RequestsTypeOK /\ req \in RequestState /\ req.phase \in {"ready", "sent"}
    BY Zenon DEF RequestsInv, RequestsTypeOK, Rotate
  <1>1. UNCHANGED <<world, issued, open, granted, req, known, last, used, error>>
    BY Zenon DEF Rotate
  <1>2. PICK which \in Numbered : /\ current[which] <= MaxNonceChanges
                                  /\ current' = [current EXCEPT ![which] = @ + 1]
    BY ZenonT(60), <1>0 DEF Rotate, RequestsTypeOK
  <1>3. /\ current' \in [Numbered -> 1..(MaxNonceChanges + 1)]
        /\ \A n \in Numbered : current'[n] \in Nat /\ current[n] \in Nat /\ current[n] >= 1
                               /\ current'[n] >= current[n]
    BY SMTT(60), <1>0, <1>2, RequestsAssumption DEF RequestsTypeOK
  <1>4. RequestsTypeOK'  BY Zenon, <1>0, <1>1, <1>3 DEF RequestsTypeOK
  <1>5. SendsOK(req')  BY Zenon, <1>1 DEF RequestsInv
  <1>6. ChallengeOK'  BY Zenon, <1>1 DEF RequestsInv, ChallengeOK
  <1>7. FreshOK'  BY Zenon, <1>1 DEF RequestsInv, FreshOK, Answers, Attests, Retried
  <1>8. NonceOK'
    <2>1. Settled' => Settled
      <3>1. current.authz <= current'.authz /\ current.authz \in Nat /\ current.authz >= 1
            /\ current.issuer <= current'.issuer /\ current.issuer \in Nat /\ current.issuer >= 1
            /\ current'.authz \in Nat /\ current'.issuer \in Nat
        BY Zenon, <1>3 DEF Numbered
      <3> QED  BY <3>1 DEF Settled
    <2> QED  BY Zenon, <1>1, <2>1 DEF RequestsInv, NonceOK, SendsDPoP
  <1>9. GrantOK'  BY ZenonT(60), <1>1 DEF RequestsInv, GrantOK
  <1>10. ProofOK'
    <2>1. current.c_nonce \in Nat /\ current'.c_nonce \in Nat /\ current.c_nonce <= current'.c_nonce
          /\ known.c_nonce \in Nat
      BY Zenon, <1>0, <1>3 DEF Numbered, RequestsTypeOK
    <2> QED  BY SMTT(60), <1>1, <2>1 DEF RequestsInv, ProofOK, Strict
  <1>11. FreshDemandsAreMet' /\ ProofsAreRenewed'
    BY Zenon, <1>0, <1>1 DEF FreshDemandsAreMet, DemandsAreMet, ProofsAreRenewed
  <1> QED  BY ZenonT(60), <1>4, <1>5, <1>6, <1>7, <1>8, <1>9, <1>10, <1>11 DEF RequestsInv

(* A request that was sent is over, and nothing but the request changes,   *)
(* the headers of the answer and the grant.                                *)
LEMMA RefusedKeeps ==
    ASSUME RequestsInv, req.phase = "sent", NEW code, req' = Refused(code),
           world' = world, current' = current, last' = last, used' = used,
           RequestsTypeOK', known'.c_nonce = known.c_nonce,
           granted' = granted \/ (granted' = TRUE /\ req.step = "token"),
           code = "invalid_nonce" => req.step = "credential" /\ last.proof # current.c_nonce,
           error' = code \/ error' \notin {"use_dpop_nonce", "use_attestation_challenge"},
           error' = "invalid_nonce" => code = "invalid_nonce" \/ req.step # "credential",
           code \in {"use_dpop_nonce", "use_attestation_challenge"} /\ req'.phase = "failed"
             => FreshDemandsAreMet'
    PROVE  RequestsInv'
  <1>0. RequestsTypeOK /\ req \in RequestState /\ req.challenge = 0
    BY ZenonT(60) DEF RequestsInv, RequestsTypeOK, ChallengeOK
  <1>n. current.c_nonce \in Nat /\ known.c_nonce \in Nat
    BY SMTT(60), <1>0, RequestsAssumption DEF RequestsTypeOK, Numbered
  <1>1. CASE req' = Begin("nonceGet") /\ req.step = "nonce"
    <2>1. /\ req'.step = "nonceGet" /\ req'.phase = "ready" /\ req'.challenge = 0
          /\ req'.sends = 0 /\ ~req'.dpopRetried /\ ~req'.attestationRetried
          /\ req'.proofRetried = req.proofRetried
      BY ZenonT(60), <1>0, <1>1, BeginFields DEF RequestKinds
    <2>2. GrantOK'  BY Zenon, <2>1 DEF GrantOK
    <2>3. ProofOK'  BY Zenon, <2>1 DEF RequestsInv, ProofOK, Strict
    <2> QED  BY ZenonT(60), <2>1, <2>2, <2>3, CleanStart DEF RequestsInv
  <1>2. CASE req' = Begin("credential") /\ req.step \in {"nonce", "nonceGet"} /\ ~Strict
    <2>1. /\ req'.step = "credential" /\ req'.phase = "ready" /\ req'.challenge = 0
          /\ req'.sends = 0 /\ ~req'.dpopRetried /\ ~req'.attestationRetried
          /\ req'.proofRetried = req.proofRetried
      BY ZenonT(60), <1>0, <1>2, BeginFields DEF RequestKinds
    <2>2. GrantOK'  BY Zenon, <2>1 DEF GrantOK
    <2>3. ProofOK'  BY Zenon, <1>2, <2>1 DEF RequestsInv, ProofOK, Strict
    <2> QED  BY ZenonT(60), <2>1, <2>2, <2>3, CleanStart DEF RequestsInv
  <1>3. CASE /\ req' = [Begin("nonce") EXCEPT !.proofRetried = TRUE]
             /\ req.step = "credential" /\ code = "invalid_nonce" /\ ~req.proofRetried
             /\ world.cnonce = "endpoint"
    <2>1. /\ req'.step = "nonce" /\ req'.phase = "ready" /\ req'.challenge = 0
          /\ req'.sends = 0 /\ ~req'.dpopRetried /\ ~req'.attestationRetried
      BY Zenon, <1>0, <1>3, AgainFields
    <2>2. GrantOK'  BY Zenon, <2>1 DEF GrantOK
    <2>3. Strict => current.c_nonce > 1
      <3>1. Strict => known.c_nonce > 0 /\ last.proof = known.c_nonce
                      /\ known.c_nonce <= current.c_nonce
        BY Zenon, <1>3 DEF RequestsInv, ProofOK
      <3> QED  BY SMTT(60), <1>3, <1>n, <3>1
    <2>4. ProofOK'  BY Zenon, <2>1, <2>3 DEF RequestsInv, ProofOK, Strict
    <2> QED  BY ZenonT(60), <2>1, <2>2, <2>4, CleanStart DEF RequestsInv
  <1>4. CASE req' = End("done") /\ req.step = "notification"
    <2>1. req'.step = "notification" /\ req'.phase = "done" /\ req'.challenge = 0
          /\ req'.proofRetried = req.proofRetried
      BY Zenon, <1>0, <1>4, EndFields
    <2>2. GrantOK'  BY Zenon, <2>1 DEF GrantOK
    <2>3. ProofOK'  BY Zenon, <2>1 DEF RequestsInv, ProofOK, Strict
    <2>4. FreshDemandsAreMet' /\ ProofsAreRenewed'
      BY Zenon, <2>1 DEF FreshDemandsAreMet, DemandsAreMet, ProofsAreRenewed
    <2> QED  BY ZenonT(60), <2>1, <2>2, <2>3, <2>4, CleanEnd DEF RequestsInv
  <1>5. CASE /\ req' = End("failed")
             /\ req.step = "credential" /\ code = "invalid_nonce" /\ world.cnonce = "endpoint"
                  => req.proofRetried
    <2>1. req'.step = req.step /\ req'.phase = "failed" /\ req'.challenge = 0
          /\ req'.proofRetried = req.proofRetried
      BY Zenon, <1>0, <1>5, EndFields
    <2>2. GrantOK'  BY Zenon, <2>1 DEF RequestsInv, GrantOK
    <2>3. ProofOK'  BY Zenon, <2>1 DEF RequestsInv, ProofOK, Strict
    <2>4. FreshDemandsAreMet'
      <3>1. CASE error' = code /\ code \in {"use_dpop_nonce", "use_attestation_challenge"}
        BY Zenon, <2>1, <3>1
      <3>2. CASE error' \notin {"use_dpop_nonce", "use_attestation_challenge"}
        BY ZenonT(60), <3>2 DEF FreshDemandsAreMet, DemandsAreMet
      <3> QED  BY Zenon, <3>1, <3>2
    <2>5. ProofsAreRenewed'
      <3> SUFFICES ASSUME req.step = "credential", error' = "invalid_nonce", Strict,
                          world.cnonce = "endpoint"
                   PROVE  current.c_nonce > 2
        BY Zenon, <2>1 DEF ProofsAreRenewed, Strict
      <3>1. code = "invalid_nonce" /\ req.proofRetried /\ last.proof # current.c_nonce
        BY Zenon, <1>5
      <3>2. known.c_nonce > 1 /\ last.proof = known.c_nonce /\ known.c_nonce <= current.c_nonce
        BY Zenon, <3>1 DEF RequestsInv, ProofOK
      <3> QED  BY SMTT(60), <1>n, <3>1, <3>2
    <2> QED  BY ZenonT(60), <2>1, <2>2, <2>3, <2>4, <2>5, CleanEnd DEF RequestsInv
  <1> QED  BY ZenonT(60), <1>0, <1>1, <1>2, <1>3, <1>4, <1>5, RefusedCases

LEMMA RefusedTyped ==
    ASSUME req \in RequestState, NEW code PROVE Refused(code) \in RequestState
  <1>1. "nonceGet" \in RequestKinds /\ "credential" \in RequestKinds  BY Zenon DEF RequestKinds
  <1>2. Begin("nonceGet") \in RequestState /\ Begin("credential") \in RequestState
    BY Zenon, <1>1, BeginFields
  <1>3. [Begin("nonce") EXCEPT !.proofRetried = TRUE] \in RequestState  BY Zenon, AgainFields
  <1>4. End("done") \in RequestState /\ End("failed") \in RequestState  BY Zenon, EndFields
  <1> QED  BY <1>2, <1>3, <1>4, RefusedCases, ZenonT(60)

LEMMA LostKeeps ==
    ASSUME RequestsInv, Lost PROVE RequestsInv'
  <1>0. RequestsTypeOK /\ req \in RequestState /\ req.phase = "sent" /\ req' = Refused("transport")
    BY Zenon DEF RequestsInv, RequestsTypeOK, Lost
  <1>1. UNCHANGED <<world, current, issued, open, known, last, used>>
    BY Zenon DEF Lost
  <1>2. granted' \in BOOLEAN /\ (granted' = granted \/ (granted' = TRUE /\ req.step = "token"))
    BY Zenon, <1>0 DEF Lost, RequestsTypeOK
  <1>3. RequestsTypeOK'  BY Zenon, <1>0, <1>1, <1>2, RefusedTyped DEF RequestsTypeOK
  <1>4. /\ error' \notin {"use_dpop_nonce", "use_attestation_challenge"}
        /\ error' = "invalid_nonce" => req.step # "credential"
    BY Zenon DEF Lost
  <1> QED  BY Zenon, <1>0, <1>1, <1>2, <1>3, <1>4, RefusedKeeps

(* What an answer's headers leave of the challenges.                       *)
LEMMA ObserveTyped ==
    ASSUME RequestsInv, NEW code, Observe(code), used' = used
    PROVE  /\ issued' \in Nat /\ open' \cup used' \subseteq 1..issued'
           /\ ChallengeHeader(code) # 0 =>
                ChallengeHeader(code) \in open' /\ ChallengeHeader(code) \notin used'
  <1>1. issued \in Nat /\ open \cup used \subseteq 1..issued
    BY Zenon DEF RequestsInv, RequestsTypeOK
  <1>2. ChallengeHeader(code) \in {0, issued + 1}
    BY Zenon, HeadersTyped DEF RequestsInv
  <1> QED  BY <1>1, <1>2 DEF Observe

LEMMA RefuseKeeps ==
    ASSUME RequestsInv, Refuse PROVE RequestsInv'
  <1>0. RequestsTypeOK /\ req \in RequestState /\ req.phase = "sent" /\ req.challenge = 0
        /\ issued \in Nat
    BY Zenon DEF RequestsInv, RequestsTypeOK, Refuse, ChallengeOK
  <1>1. UNCHANGED <<world, current, granted, last, used>>
    BY Zenon DEF Refuse
  <1>2. PICK code :
          /\ code \in Demands \cup {"refused", "use_fresh_attestation", "method_not_allowed"}
          /\ Observe(code) /\ known' = Heard(code) /\ req' = RetryOrRefused(code)
          /\ error' = IF req.step \in {"nonce", "nonceGet"} /\ req.proofRetried
                      THEN "invalid_nonce" ELSE code
    BY Zenon DEF Refuse
  <1>3. /\ issued' \in Nat /\ open' \cup used' \subseteq 1..issued'
        /\ ChallengeHeader(code) # 0 =>
             ChallengeHeader(code) \in open' /\ ChallengeHeader(code) \notin used'
    BY Zenon, <1>1, <1>2, ObserveTyped
  <1>4. known' \in [Numbered -> Nat] /\ known'.c_nonce = known.c_nonce
    BY Zenon, <1>0, <1>2, HeardFields
  <1>5. /\ Observed(code).challenge = ChallengeHeader(code)
        /\ ChallengeHeader(code) \in {0, issued + 1}
    BY Zenon, <1>0, ObservedFields, HeadersTyped
  <1>6. ProofOK \* the parts of it that the retries keep
        /\ GrantOK
    BY Zenon DEF RequestsInv
  <1>7. ASSUME req'.step = req.step, req'.phase = "ready", req'.sends = req.sends,
               req'.proofRetried = req.proofRetried, req'.challenge = ChallengeHeader(code),
               req' \in RequestState, SendsOK(req'), FreshOK', NonceOK'
        PROVE  RequestsInv'
    <2>1. RequestsTypeOK'  BY ZenonT(60), <1>0, <1>1, <1>3, <1>4, <1>7 DEF RequestsTypeOK
    <2>2. ChallengeOK'  BY Zenon, <1>3, <1>7 DEF ChallengeOK
    <2>3. GrantOK'  BY ZenonT(60), <1>0, <1>1, <1>6, <1>7 DEF GrantOK
    <2>4. ProofOK'  BY ZenonT(60), <1>1, <1>4, <1>6, <1>7 DEF ProofOK, Strict
    <2>5. FreshDemandsAreMet' /\ ProofsAreRenewed'
      BY Zenon, <1>7 DEF FreshDemandsAreMet, DemandsAreMet, ProofsAreRenewed
    <2> QED  BY ZenonT(60), <1>7, <2>1, <2>2, <2>3, <2>4, <2>5 DEF RequestsInv
  <1>8. ASSUME req'.step = req.step, req'.phase = "ready", req'.challenge = ChallengeHeader(code)
        PROVE  FreshOK'
    <2> SUFFICES ASSUME Answers, world.demandsChallenge, Attests
                 PROVE  req'.challenge # 0 \/ world.challengeEndpoint
      BY ZenonT(60), <1>1, <1>8 DEF FreshOK, Answers, Attests
    <2>1. CASE world.offersChallenge
      <3>1. ChallengeHeader(code) = issued + 1  BY Zenon, <2>1 DEF ChallengeHeader
      <3> QED  BY SMTT(60), <1>0, <1>8, <3>1
    <2>2. CASE world.challengeEndpoint  BY Zenon, <2>2
    <2> QED  BY Zenon, <2>1, <2>2 DEF Answers
  <1>9. CASE /\ req' = [Observed(code) EXCEPT !.phase = "ready", !.dpopRetried = TRUE]
             /\ NeedsDPoPRetry(code) /\ ~req.dpopRetried
    <2>1. /\ req' \in RequestState /\ req'.step = req.step /\ req'.phase = "ready"
          /\ req'.sends = req.sends /\ req'.dpopRetried
          /\ req'.attestationRetried = req.attestationRetried
          /\ req'.proofRetried = req.proofRetried /\ req'.challenge = ChallengeHeader(code)
      BY ZenonT(60), <1>0, <1>5, <1>9, DPoPRetryFields
    <2>2. SendsOK(req')
      BY SMTT(60), <1>0, <1>9, <2>1 DEF RequestsInv, SendsOK, RequestState
    <2>3. NonceOK'
      <3>1. NonceHeader(code) # 0
        <4>1. code = "use_dpop_nonce" => NonceHeader(code) = current[Server[req.step]]
          BY ZenonT(60) DEF NonceHeader
        <4>2. current[Server[req.step]] # 0
          BY SMTT(60), <1>0, ServerNumbered, RequestsAssumption DEF RequestsTypeOK
        <4> QED  BY ZenonT(60), <1>9, <4>1, <4>2 DEF NeedsDPoPRetry
      <3>2. known'[Server[req.step]] = current[Server[req.step]]
        BY ZenonT(60), <1>0, <1>2, <3>1, HeardFields
      <3>3. Settled => current[Server[req.step]] = 1
        BY Zenon, <1>0, ServerNumbered DEF Settled
      <3> QED  BY ZenonT(60), <1>1, <2>1, <3>2, <3>3 DEF NonceOK, Settled
    <2> QED  BY ZenonT(60), <1>7, <1>8, <2>1, <2>2, <2>3
  <1>10. CASE /\ req' = [Observed(code) EXCEPT !.phase = "ready", !.attestationRetried = TRUE]
              /\ Attests /\ RetryAfterRefusal(code) /\ ~req.attestationRetried
    <2>1. /\ req' \in RequestState /\ req'.step = req.step /\ req'.phase = "ready"
          /\ req'.sends = req.sends /\ req'.attestationRetried
          /\ req'.dpopRetried = req.dpopRetried
          /\ req'.proofRetried = req.proofRetried /\ req'.challenge = ChallengeHeader(code)
      BY ZenonT(60), <1>0, <1>5, <1>10, AttestationRetryFields
    <2>2. SendsOK(req')
      BY SMTT(60), <1>0, <1>10, <2>1 DEF RequestsInv, SendsOK, RequestState
    <2>3. NonceOK'
      <3>1. Settled /\ req.dpopRetried => known'[Server[req.step]] = 1
        <4>1. Settled /\ req.dpopRetried => known[Server[req.step]] = 1
          BY ZenonT(60), <1>0 DEF RequestsInv, NonceOK
        <4>2. Settled => current[Server[req.step]] = 1
          BY Zenon, <1>0, ServerNumbered DEF Settled
        <4> QED  BY ZenonT(60), <1>0, <1>2, <4>1, <4>2, HeardFields
      <3> QED  BY ZenonT(60), <1>1, <2>1, <3>1 DEF NonceOK, Settled
    <2> QED  BY ZenonT(60), <1>7, <1>8, <2>1, <2>2, <2>3
  <1>11. CASE /\ req' = Refused(code)
              /\ ~(NeedsDPoPRetry(code) /\ ~req.dpopRetried)
              /\ ~(Attests /\ RetryAfterRefusal(code) /\ ~req.attestationRetried)
    <2>1. RequestsTypeOK'
      BY ZenonT(60), <1>0, <1>1, <1>3, <1>4, <1>11, RefusedTyped DEF RequestsTypeOK
    <2>2. code = "invalid_nonce" => req.step = "credential" /\ last.proof # current.c_nonce
      BY Zenon, <1>2 DEF Demands
    <2>3. code = "use_dpop_nonce" => ~Settled
      <3> SUFFICES ASSUME code = "use_dpop_nonce", Settled PROVE FALSE  BY Zenon
      <3>1. SendsDPoP /\ last.dpop # current[Server[req.step]]  BY Zenon, <1>2 DEF Demands
      <3>2. req.dpopRetried  BY Zenon, <1>11 DEF NeedsDPoPRetry
      <3>3. last.dpop = 1  BY ZenonT(60), <1>0, <3>1, <3>2 DEF RequestsInv, NonceOK
      <3>4. current[Server[req.step]] = 1  BY ZenonT(60), <1>0, ServerNumbered DEF Settled
      <3> QED  BY ZenonT(60), <3>1, <3>3, <3>4
    <2>4. code = "use_attestation_challenge" => ~Answers
      <3> SUFFICES ASSUME code = "use_attestation_challenge", Answers PROVE FALSE  BY Zenon
      <3>1. world.demandsChallenge /\ Attests /\ last.challenge \notin open
        BY Zenon, <1>2 DEF Demands
      <3>2. ChallengeHeader(code) = issued + 1  BY ZenonT(60), <3>1 DEF ChallengeHeader
      <3>3. RetryAfterRefusal(code)  BY SMTT(60), <1>0, <1>5, <3>2 DEF RetryAfterRefusal
      <3>4. req.attestationRetried  BY Zenon, <1>11, <3>1, <3>3
      <3>5. last.challenge \in open
        BY Zenon, <1>0, <3>1, <3>4 DEF RequestsInv, FreshOK, Retried
      <3> QED  BY ZenonT(60), <3>1, <3>5
    <2>5. code \in {"use_dpop_nonce", "use_attestation_challenge"} => FreshDemandsAreMet'
      <3>1. ~Settled => current.authz > 1 \/ current.issuer > 1
        <4>1. current.authz \in 1..(MaxNonceChanges + 1) /\ current.issuer \in 1..(MaxNonceChanges + 1)
          BY Zenon, <1>0 DEF RequestsTypeOK, Numbered
        <4> QED  BY SMTT(60), <4>1, RequestsAssumption DEF Settled
      <3> QED  BY ZenonT(60), <1>1, <2>3, <2>4, <3>1 DEF FreshDemandsAreMet, DemandsAreMet, Answers
    <2>6. /\ error' = code \/ error' \notin {"use_dpop_nonce", "use_attestation_challenge"}
          /\ error' = "invalid_nonce" => code = "invalid_nonce" \/ req.step # "credential"
      BY Zenon, <1>2
    <2> QED  BY ZenonT(60), <1>0, <1>1, <1>4, <1>11, <2>1, <2>2, <2>5, <2>6, RefusedKeeps
  <1> QED  BY ZenonT(60), <1>2, <1>9, <1>10, <1>11, RetryCases

LEMMA AcceptedCases ==
    ASSUME req \in RequestState
    PROVE  \/ Accepted = Begin("token") /\ req.step = "par"
           \/ Accepted = Begin("nonce") /\ req.step = "token"
           \/ Accepted = Begin("credential") /\ req.step = "token" /\ world.cnonce # "endpoint"
           \/ Accepted = Begin("credential") /\ req.step \in {"nonce", "nonceGet"}
           \/ Accepted = Begin("notification") /\ req.step = "credential"
           \/ Accepted = End("done") /\ req.step \in {"credential", "notification"}
  BY ZenonT(60) DEF Accepted, RequestState, RequestKinds

LEMMA AcceptKeeps ==
    ASSUME RequestsInv, Accept PROVE RequestsInv'
  <1>0. RequestsTypeOK /\ req \in RequestState /\ req.phase = "sent" /\ req.challenge = 0
        /\ issued \in Nat /\ granted \in BOOLEAN
    BY Zenon DEF RequestsInv, RequestsTypeOK, Accept, ChallengeOK
  <1>1. UNCHANGED <<world, current, last, used>> /\ error' = "none" /\ req' = Accepted
        /\ granted' = (granted \/ req.step = "token")
    BY Zenon DEF Accept
  <1>2. issued' \in Nat /\ open' \cup used' \subseteq 1..issued'
    BY ZenonT(60), <1>1, ObserveTyped DEF Accept
  <1>3. current.c_nonce \in Nat /\ current.c_nonce >= 1 /\ known.c_nonce \in Nat
    BY SMTT(60), <1>0, RequestsAssumption DEF RequestsTypeOK, Numbered
  <1>4. /\ known' \in [Numbered -> Nat]
        /\ GivesNonce => known'.c_nonce = current.c_nonce
        /\ known'.c_nonce \in {known.c_nonce, current.c_nonce}
    <2>1. Heard("none") \in [Numbered -> Nat] /\ Heard("none").c_nonce = known.c_nonce
      BY Zenon, <1>0, HeardFields
    <2>2. "c_nonce" \in Numbered  BY ZenonT(60) DEF Numbered
    <2> QED  BY ZenonT(60), <1>3, <2>1, <2>2 DEF Accept
  <1>5. known'.c_nonce <= current.c_nonce
    BY SMTT(60), <1>3, <1>4 DEF RequestsInv, ProofOK
  <1>6. ASSUME req' \in RequestState PROVE RequestsTypeOK'
    BY ZenonT(60), <1>0, <1>1, <1>2, <1>4, <1>6 DEF RequestsTypeOK
  <1>7. ASSUME NEW x \in {"token", "nonce", "credential", "notification"}, req' = Begin(x),
               x = "token" => req.step = "par",
               x = "credential" => GivesNonce \/ world.cnonce # "endpoint"
        PROVE  RequestsInv'
    <2>1. /\ req' \in RequestState /\ req'.step = x /\ req'.phase = "ready" /\ req'.challenge = 0
          /\ req'.sends = 0 /\ ~req'.dpopRetried /\ ~req'.attestationRetried
          /\ req'.proofRetried = req.proofRetried
      BY SMTT(60), <1>0, <1>7, BeginFields DEF RequestKinds
    <2>2. RequestsTypeOK'  BY Zenon, <1>6, <2>1
    <2>3. GrantOK'
      BY ZenonT(60), <1>1, <1>7, <2>1 DEF RequestsInv, GrantOK
    <2>4. ProofOK'
      <3>1. req.proofRetried /\ Strict => current.c_nonce > 1  BY Zenon DEF RequestsInv, ProofOK
      <3> QED  BY SMTT(60), <1>1, <1>3, <1>4, <1>5, <1>7, <2>1, <3>1 DEF ProofOK, Strict
    <2> QED  BY ZenonT(60), <2>1, <2>2, <2>3, <2>4, CleanStart DEF RequestsInv
  <1>8. CASE req' = End("done") /\ req.step \in {"credential", "notification"}
    <2>1. req' \in RequestState /\ req'.step = req.step /\ req'.phase = "done" /\ req'.challenge = 0
          /\ req'.proofRetried = req.proofRetried
      BY Zenon, <1>0, <1>8, EndFields
    <2>2. GrantOK'  BY Zenon, <1>8, <2>1 DEF GrantOK
    <2>3. known'.c_nonce = known.c_nonce
      <3>1. ~GivesNonce  BY Zenon, <1>8 DEF GivesNonce
      <3> QED  BY Zenon, <1>0, <3>1, HeardFields DEF Accept
    <2>4. ProofOK'  BY ZenonT(60), <1>1, <2>1, <2>3 DEF RequestsInv, ProofOK, Strict
    <2>5. FreshDemandsAreMet' /\ ProofsAreRenewed'
      BY Zenon, <2>1 DEF FreshDemandsAreMet, DemandsAreMet, ProofsAreRenewed
    <2> QED  BY ZenonT(60), <1>6, <2>1, <2>2, <2>4, <2>5, CleanEnd DEF RequestsInv
  <1>9. req.step \in {"nonce", "nonceGet"} => GivesNonce  BY Zenon DEF GivesNonce
  <1> QED  BY ZenonT(60), <1>0, <1>1, <1>7, <1>8, <1>9, AcceptedCases

LEMMA RequestsStepKeeps ==
    ASSUME RequestsInv, [RequestsNext]_requestVars PROVE RequestsInv'
  <1>1. CASE UNCHANGED requestVars
    <2>1. UNCHANGED <<world, current, issued, open, granted, req, known, last, used, error>>
      BY Zenon, <1>1 DEF requestVars
    <2> QED
      BY <2>1 DEF RequestsInv, RequestsTypeOK, ChallengeOK, FreshOK, Answers, Retried, Attests,
         NonceOK, Settled, SendsDPoP, GrantOK, ProofOK, Strict, FreshDemandsAreMet, DemandsAreMet,
         ProofsAreRenewed
  <1> QED  BY <1>1, ZenonT(60), SendKeeps, ChallengeUnavailableKeeps, RefuseKeeps, AcceptKeeps, LostKeeps,
             RotateKeeps DEF RequestsNext

LEMMA RequestsStart == RequestsInit => RequestsInv
  <1> SUFFICES ASSUME RequestsInit PROVE RequestsInv  BY Zenon
  <1>1. RequestsTypeOK
    <2>1. current \in [Numbered -> 1..(MaxNonceChanges + 1)] /\ known \in [Numbered -> Nat]
      BY SMTT(30), RequestsAssumption DEF RequestsInit, Numbered
    <2>2. req \in RequestState  BY SMTT(60) DEF RequestsInit, RequestState, RequestKinds
    <2> QED  BY ZenonT(60), <2>1, <2>2 DEF RequestsInit, RequestsTypeOK
  <1>2. SendsOK(req) /\ ChallengeOK /\ FreshOK /\ NonceOK
    BY SMTT(30) DEF RequestsInit, SendsOK, ChallengeOK, FreshOK, NonceOK, Retried
  <1>3. GrantOK /\ ProofOK /\ FreshDemandsAreMet /\ ProofsAreRenewed
    BY SMTT(60) DEF RequestsInit, GrantOK, ProofOK, FreshDemandsAreMet, DemandsAreMet, ProofsAreRenewed
  <1> QED  BY Zenon, <1>1, <1>2, <1>3 DEF RequestsInv

(***************************************************************************)
(* The inductive invariant holds for every server World allows, however    *)
(* often the servers change their nonces (doDPoPRequest, clientAttestor,   *)
(* requestCredentialWithNonceRetry).                                       *)
(***************************************************************************)
THEOREM RequestsInvariant == RequestsSpec => []RequestsInv
  BY RequestsStart, RequestsStepKeeps, PTL DEF RequestsSpec

(***************************************************************************)
(* A request fails on a demand of the server only when the demand could    *)
(* not be met: a DPoP nonce or a challenge the server gave is used in the  *)
(* retry, and a stale proof is built again with a new nonce                *)
(* (needsDPoPRetry, clientAttestor.retryAfterRefusal,                      *)
(* requestCredentialWithNonceRetry).                                       *)
(***************************************************************************)
THEOREM DemandsAnswered == RequestsSpec => []DemandsAreAnswered
  <1>1. RequestsInv => DemandsAreAnswered  BY Zenon DEF RequestsInv, DemandsAreAnswered
  <1> QED  BY <1>1, RequestsInvariant, PTL

(***************************************************************************)
(* No attestation challenge is sent twice, and no token request is sent    *)
(* again once the server has accepted the grant (clientAttestor.headers,   *)
(* doDPoPRequest, requestAccessToken).                                     *)
(***************************************************************************)
THEOREM SentOnce == RequestsSpec => NothingSentTwice
  <1>1. ASSUME RequestsInv, [RequestsNext]_requestVars PROVE SendsNewChallenge \/ UNCHANGED requestVars
    <2>1. SUFFICES ASSUME Sending PROVE last'.challenge \notin used
      BY Zenon DEF SendsNewChallenge
    <2>2. Send
      <3>1. req.phase = "ready" /\ req'.phase = "sent" /\ req \in RequestState
        BY Zenon, <2>1, <1>1 DEF Sending, RequestsInv, RequestsTypeOK
      <3>2. ~UNCHANGED requestVars  BY Zenon, <3>1 DEF requestVars
      <3>3. ~ChallengeUnavailable  BY Zenon, <3>1, EndFields DEF ChallengeUnavailable
      <3>4. ~Refuse /\ ~Accept /\ ~Lost  BY Zenon, <3>1 DEF Refuse, Accept, Lost
      <3>5. ~Rotate  BY Zenon, <3>1 DEF Rotate
      <3> QED  BY ZenonT(60), <1>1, <3>2, <3>3, <3>4, <3>5 DEF RequestsNext
    <2>3. last'.challenge = PopChallenge  BY Zenon, <2>2 DEF Send
    <2>4. used \subseteq 1..issued /\ issued \in Nat /\ 0 \notin used /\ issued + 1 \notin used
      BY SMTT(60), <1>1 DEF RequestsInv, RequestsTypeOK
    <2>5. req.challenge # 0 => req.challenge \notin used
      BY Zenon, <1>1 DEF RequestsInv, ChallengeOK
    <2> QED  BY Zenon, <2>3, <2>4, <2>5 DEF PopChallenge
  <1>2. ASSUME RequestsInv, [RequestsNext]_requestVars PROVE SpendsNoGrantAgain \/ UNCHANGED requestVars
    BY Zenon, <1>2 DEF RequestsInv, GrantOK, SpendsNoGrantAgain, Sending
  <1>3. RequestsInv /\ [RequestsNext]_requestVars => [SendsNewChallenge]_requestVars
    BY Zenon, <1>1
  <1>4. RequestsInv /\ [RequestsNext]_requestVars => [SpendsNoGrantAgain]_requestVars
    BY Zenon, <1>2
  <1>5. RequestsSpec => ChallengeSentOnce
    BY <1>3, RequestsInvariant, PTL DEF RequestsSpec, ChallengeSentOnce
  <1>6. RequestsSpec => GrantUsedOnce
    BY <1>4, RequestsInvariant, PTL DEF RequestsSpec, GrantUsedOnce
  <1> QED  BY Zenon, <1>5, <1>6 DEF NothingSentTwice

================================================================================
