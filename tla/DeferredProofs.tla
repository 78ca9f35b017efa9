---------------------------- MODULE DeferredProofs ----------------------------
(***************************************************************************)
(* Deferred issuance: a deferral is collected by one thread at a time and  *)
(* issued once, and it stays collectable until it was collected.           *)
(***************************************************************************)
EXTENDS DeferredIssuance, TLAPS

USE PollerAssumption, RecordAssumption

(* A wallet that is reloaded is not also restarted, or the other way       *)
(* round.  A reload drops a collected credential that is not saved yet,    *)
(* and only the running thread puts it back.                               *)
NotBoth == setting.reloads = 0 \/ setting.crashes = 0

Known == {r \in Record : issuance[r] # "new"}
Granted(t) == pc[t] = "refreshed" /\ answer[t] \in {"granted", "unchecked"}
CollectedIn(r, set) == \E c \in set : c[1] = r

(* The refresh token of a record is the accepted one, or lost, or a thread *)
(* is about to store it.                                                   *)
TokenHeld(r, recs) ==
    recs[r].there => \/ recs[r].refresh = valid[r]
                     \/ r \in lostTokens
                     \/ \E t \in Thread : claim[t] = r /\ Granted(t)

(* An issuance has told the wallet nothing before it is deferred.          *)
NewInv(r) ==
    issuance[r] = "new" =>
        /\ ~records[r].there /\ ~stored.records[r].there
        /\ ticket[r] = "none" /\ valid[r] = 1

IssuedInv(r) ==
    ~setting.reissues =>
        /\ issued[r] <= 1
        /\ ticket[r] \in {"none", "waiting", "ready"} => issued[r] = 0

(* A known deferral is in memory, given up, about to be saved, or saved.   *)
HeldInv(r) ==
    NotBoth /\ r \in Known =>
        \/ r \in Stored \cup gaveUp
        \/ \E t \in Thread : claim[t] = r /\ pc[t] = "removed"
        \/ CollectedIn(r, stored.creds)

(* What a restart finds, when no reload can drop an unsaved credential.    *)
SavedInv(r) ==
    setting.reloads = 0 /\ issuance[r] = "told" =>
        \/ stored.records[r].there \/ r \in gaveUp \/ CollectedIn(r, stored.creds)

ClaimInv(r) == r \in inFlight => \E t \in Thread : Collecting(t) /\ claim[t] = r

RecordInv(r) ==
    /\ NewInv(r) /\ IssuedInv(r) /\ HeldInv(r) /\ SavedInv(r) /\ ClaimInv(r)
    /\ TokenHeld(r, records) /\ TokenHeld(r, stored.records)

ThreadInv(t) ==
    /\ todo[t] \subseteq Known
    /\ Collecting(t) => claim[t] \in inFlight \cap Known
    /\ Granted(t) => Mine(t).refresh + 1 = valid[claim[t]]
    /\ setting.reloads = 0 /\ pc[t] \in {"imported", "removed"} => CollectedIn(claim[t], creds)

Alone(t, u) == Collecting(t) /\ Collecting(u) /\ claim[t] = claim[u] => t = u

DeferredInv ==
    /\ setting \in Settings /\ DeferredTypeOK /\ crashes \in Nat /\ reloads \in Nat
    /\ stored.creds \subseteq creds
    /\ \A r \in Record : RecordInv(r)
    /\ \A t \in Thread : ThreadInv(t)
    /\ \A t, u \in Thread : Alone(t, u)
--------------------------------------------------------------------------------
(* The type invariant by the groups of variables.                          *)
WalletShape ==
    /\ records \in [Record -> DeferredRecord] /\ older \in [Record -> SUBSET Record]
    /\ creds \subseteq Record \X Nat
    /\ stored \in [records: [Record -> DeferredRecord], creds: SUBSET (Record \X Nat)]
ThreadShape ==
    /\ pc \in [Thread -> {"idle", "sweep", "refresh", "refreshed", "failed", "ask", "sent",
                          "found", "answered", "imported", "removed"}]
    /\ todo \in [Thread -> SUBSET Record] /\ late \in [Thread -> SUBSET Record]
    /\ copies \in [Thread -> [Record -> DeferredRecord]]
    /\ claim \in [Thread -> Record] /\ retried \in [Thread -> BOOLEAN]
    /\ answer \in [Thread -> {"none", "granted", "unchecked", "refused", "pending",
                              "retryable", "invalid", "unauthorized", "credential"}]
IssuerShape ==
    /\ ticket \in [Record -> {"none", "waiting", "ready", "collected", "expired"}]
    /\ issued \in [Record -> Nat] /\ valid \in [Record -> 1..setting.refreshes]
    /\ ghost \in [Record -> {"none", "sent", "found"}]
OtherShape ==
    /\ inFlight \subseteq Record
    /\ issuance \in [Record -> {"new", "added", "told"}]
    /\ gaveUp \subseteq Record /\ lostTokens \subseteq Record

LEMMA Shapes == DeferredTypeOK <=> WalletShape /\ ThreadShape /\ IssuerShape /\ OtherShape
BY Zenon DEF DeferredTypeOK, WalletShape, ThreadShape, IssuerShape, OtherShape

LEMMA ShapesNext ==
    WalletShape' /\ ThreadShape' /\ IssuerShape' /\ OtherShape' => DeferredTypeOK'
BY Zenon DEF DeferredTypeOK, WalletShape, ThreadShape, IssuerShape, OtherShape

LEMMA SettingType ==
    ASSUME setting \in Settings
    PROVE  /\ setting.life \in Nat /\ setting.refreshes \in Nat \ {0}
           /\ setting.crashes \in Nat /\ setting.reloads \in Nat
           /\ setting.records \subseteq Record
BY BoundsAssumption

LEMMA RecordShapes ==
    ASSUME setting \in Settings
    PROVE  /\ NoRecord \in DeferredRecord /\ NewRecord \in DeferredRecord
           /\ ~NoRecord.there /\ NewRecord.refresh = 1
BY SettingType, BoundsAssumption DEF NoRecord, NewRecord, DeferredRecord

LEMMA RecordKept ==
    ASSUME setting \in Settings, NEW rec \in DeferredRecord
    PROVE  /\ Aged(rec) \in DeferredRecord
           /\ Aged(rec).there = rec.there /\ Aged(rec).refresh = rec.refresh
           /\ [rec EXCEPT !.wait = Interval] \in DeferredRecord
           /\ [rec EXCEPT !.wait = Interval].there = rec.there
           /\ [rec EXCEPT !.wait = Interval].refresh = rec.refresh
<1> USE DEF DeferredRecord
<1>1. setting.life \in Nat /\ setting.refreshes \in Nat /\ MaxAge \in Nat /\ Interval \in Nat
    BY SettingType, BoundsAssumption
<1>2. CASE rec.there
    <2> DEFINE age == IF rec.age > MaxAge THEN rec.age ELSE rec.age + 1
               wait == IF rec.wait = 0 THEN 0 ELSE rec.wait - 1
               life == IF rec.life = 0 THEN 0 ELSE rec.life - 1
    <2>1. age \in 0..(MaxAge + 1) /\ wait \in 0..Interval /\ life \in 0..setting.life
        BY <1>1
    <2>2. Aged(rec) = [rec EXCEPT !.age = age, !.wait = wait, !.life = life]
        BY <1>2 DEF Aged
    <2> HIDE DEF age, wait, life
    <2>3. Aged(rec) \in DeferredRecord /\ Aged(rec).there = rec.there /\ Aged(rec).refresh = rec.refresh
        BY Zenon, <2>1, <2>2
    <2> QED
        BY <1>1, <2>3
<1>3. CASE ~rec.there
    BY <1>1, <1>3 DEF Aged
<1> QED
    BY Zenon, <1>2, <1>3

--------------------------------------------------------------------------------
(* What most steps do to the wallet: no record appears or changes its      *)
(* token, and none goes but for a reason.  What is stored stays or is the  *)
(* wallet after the step.                                                  *)
RecordsShrink ==
    \A r \in Record :
        /\ records'[r].there => records[r].there /\ records'[r].refresh = records[r].refresh
        /\ records[r].there => \/ records'[r].there \/ r \in gaveUp'
                               \/ \E t \in Thread : claim'[t] = r /\ pc'[t] = "removed"

StoredStays ==
    /\ UNCHANGED issuance
    /\ stored'.creds = stored.creds
    /\ \A r \in Record : /\ stored'.records[r].there = stored.records[r].there
                         /\ stored'.records[r].refresh = stored.records[r].refresh

(* The threads on which a record depends stay where they are.              *)
WitnessesStay ==
    \A t \in Thread :
        pc[t] = "removed" \/ Granted(t) =>
            pc'[t] = pc[t] /\ claim'[t] = claim[t] /\ answer'[t] = answer[t]

CredentialsIn ==
    \A t \in Thread :
        setting.reloads = 0 /\ pc[t] \in {"imported", "removed"} => CollectedIn(claim[t], creds)

(* Every known deferral is still held, or what it came to is stored.       *)
LEMMA DeferralKept ==
    ASSUME DeferredInv, UNCHANGED setting, gaveUp \subseteq gaveUp', Known' \subseteq Known,
           creds \subseteq creds', CredentialsIn',
           \A r \in Record : records[r].there =>
               \/ records'[r].there \/ r \in gaveUp'
               \/ \E t \in Thread : claim'[t] = r /\ pc'[t] = "removed",
           \A t \in Thread : pc[t] = "removed" => pc'[t] = "removed" /\ claim'[t] = claim[t],
           StoredStays \/ (stored'.records = records' /\ stored'.creds = creds')
    PROVE  /\ stored'.creds \subseteq creds'
           /\ \A r \in Record : HeldInv(r)' /\ SavedInv(r)'
<1> USE DEF DeferredInv
<1>1. stored'.creds \subseteq creds' /\ stored.creds \subseteq stored'.creds
    BY Zenon DEF StoredStays
<1> SUFFICES ASSUME NEW r \in Record PROVE HeldInv(r)' /\ SavedInv(r)'
    BY Zenon, <1>1
<1>2. RecordInv(r)
    BY Zenon
<1>3. NotBoth /\ r \in Known =>
          \/ r \in Stored' \/ r \in gaveUp'
          \/ \E t \in Thread : claim'[t] = r /\ pc'[t] = "removed"
          \/ CollectedIn(r, stored'.creds)
    <2> SUFFICES ASSUME NotBoth, r \in Known
                 PROVE  \/ r \in Stored' \/ r \in gaveUp'
                        \/ \E t \in Thread : claim'[t] = r /\ pc'[t] = "removed"
                        \/ CollectedIn(r, stored'.creds)
        BY Zenon
    <2>1. CASE r \in Stored
        BY Zenon, <2>1 DEF Stored
    <2>2. CASE r \in gaveUp
        BY Zenon, <2>2
    <2>3. CASE \E t \in Thread : claim[t] = r /\ pc[t] = "removed"
        BY Zenon, <2>3
    <2>4. CASE CollectedIn(r, stored.creds)
        BY Zenon, <2>4, <1>1 DEF CollectedIn
    <2> QED
        BY Zenon, <1>2, <2>1, <2>2, <2>3, <2>4 DEF RecordInv, HeldInv
<1>4. HeldInv(r)'
    BY Zenon, <1>3 DEF HeldInv, NotBoth
<1>5. CASE StoredStays
    BY Zenon, <1>2, <1>4, <1>5 DEF RecordInv, SavedInv, StoredStays, CollectedIn
<1>6. CASE stored'.records = records' /\ stored'.creds = creds'
    <2> SUFFICES ASSUME setting.reloads = 0, issuance'[r] = "told"
                 PROVE  records'[r].there \/ r \in gaveUp' \/ CollectedIn(r, creds')
        BY Zenon, <1>4, <1>6 DEF SavedInv
    <2>1. r \in Known' /\ NotBoth
        BY DEF Known, NotBoth
    <2> QED
        BY ZenonT(60), <1>3, <1>6, <2>1 DEF CredentialsIn, Stored
<1> QED
    BY Zenon, <1>5, <1>6

LEMMA WalletKept ==
    ASSUME DeferredInv, UNCHANGED <<setting, valid, lostTokens>>, gaveUp \subseteq gaveUp',
           Known' = Known, creds \subseteq creds', RecordsShrink, WitnessesStay, CredentialsIn',
           StoredStays \/ (stored'.records = records' /\ stored'.creds = creds')
    PROVE  /\ stored'.creds \subseteq creds'
           /\ \A r \in Record : /\ HeldInv(r)' /\ SavedInv(r)'
                                /\ TokenHeld(r, records)' /\ TokenHeld(r, stored.records)'
<1>1. /\ stored'.creds \subseteq creds'
      /\ \A r \in Record : HeldInv(r)' /\ SavedInv(r)'
    BY Zenon, DeferralKept DEF RecordsShrink, WitnessesStay
<1> SUFFICES ASSUME NEW r \in Record PROVE TokenHeld(r, records)' /\ TokenHeld(r, stored.records)'
    BY Zenon, <1>1
<1>2. RecordInv(r)
    BY Zenon DEF DeferredInv
<1>3. ASSUME NEW t \in Thread, claim[t] = r, Granted(t)
      PROVE  claim'[t] = r /\ Granted(t)'
    BY Zenon, <1>3 DEF WitnessesStay, Granted
<1>4. TokenHeld(r, records)'
    <2> SUFFICES ASSUME records'[r].there PROVE TokenHeld(r, records)'
        BY Zenon DEF TokenHeld
    <2>1. records[r].there /\ records'[r].refresh = records[r].refresh
        BY Zenon DEF RecordsShrink
    <2> QED
        BY Zenon, <1>2, <1>3, <2>1 DEF RecordInv, TokenHeld
<1>5. TokenHeld(r, stored.records)'
    <2>1. CASE StoredStays
        BY Zenon, <1>2, <1>3, <2>1 DEF RecordInv, TokenHeld, StoredStays
    <2>2. CASE stored'.records = records'
        BY Zenon, <1>4, <2>2 DEF TokenHeld
    <2> QED
        BY Zenon, <2>1, <2>2
<1> QED
    BY Zenon, <1>4, <1>5

--------------------------------------------------------------------------------
(* A step of thread t leaves the other threads alone.                      *)
OtherThreads(t) ==
    \A u \in Thread \ {t} :
        /\ pc'[u] = pc[u] /\ claim'[u] = claim[u] /\ answer'[u] = answer[u]
        /\ todo'[u] \subseteq todo[u]
        /\ copies'[u][claim[u]].refresh = copies[u][claim[u]].refresh

ThreadsInv ==
    /\ \A t \in Thread : ThreadInv(t)
    /\ \A t, u \in Thread : Alone(t, u)
    /\ \A r \in Record : ClaimInv(r)

LEMMA OthersKept ==
    ASSUME DeferredInv, NEW t \in Thread, NEW u \in Thread \ {t}, OtherThreads(t),
           UNCHANGED setting, Known \subseteq Known', creds \subseteq creds',
           Collecting(u) => claim[u] \in inFlight' /\ valid'[claim[u]] = valid[claim[u]]
    PROVE  ThreadInv(u)' /\ (Collecting(u)' <=> Collecting(u))
<1>1. /\ pc'[u] = pc[u] /\ claim'[u] = claim[u] /\ answer'[u] = answer[u]
      /\ todo'[u] \subseteq todo[u]
      /\ copies'[u][claim[u]].refresh = copies[u][claim[u]].refresh
    BY Zenon DEF OtherThreads
<1>2. ThreadInv(u)
    BY Zenon DEF DeferredInv
<1>3. (Collecting(u)' <=> Collecting(u)) /\ (Granted(u)' <=> Granted(u))
    BY Zenon, <1>1 DEF Collecting, Granted
<1>4. Granted(u) => Collecting(u)
    BY DEF Granted, Collecting
<1>5. todo'[u] \subseteq Known' /\ (Collecting(u)' => claim'[u] \in inFlight' \cap Known')
    BY Zenon, <1>1, <1>2, <1>3 DEF ThreadInv
<1>6. Granted(u)' => copies'[u][claim'[u]].refresh + 1 = valid'[claim'[u]]
    BY Zenon, <1>1, <1>2, <1>3, <1>4 DEF ThreadInv, Mine
<1>7. setting'.reloads = 0 /\ pc'[u] \in {"imported", "removed"} => CollectedIn(claim'[u], creds')
    BY Zenon, <1>1, <1>2 DEF ThreadInv, CollectedIn
<1> QED
    BY Zenon, <1>3, <1>5, <1>6, <1>7 DEF ThreadInv, Mine

(* A collection goes on with the record it has claimed.                    *)
LEMMA ThreadMoves ==
    ASSUME DeferredInv, NEW t \in Thread, OtherThreads(t), UNCHANGED <<setting, inFlight>>,
           Known \subseteq Known', creds \subseteq creds',
           \A r \in Record \ {claim[t]} : valid'[r] = valid[r],
           claim'[t] = claim[t], Collecting(t), Collecting(t)', todo'[t] \subseteq todo[t],
           Granted(t)' => Mine(t)'.refresh + 1 = valid'[claim[t]],
           setting.reloads = 0 /\ pc'[t] \in {"imported", "removed"} => CollectedIn(claim[t], creds')
    PROVE  ThreadsInv'
<1> USE DEF DeferredInv
<1>1. ASSUME NEW u \in Thread \ {t} PROVE ThreadInv(u)' /\ (Collecting(u)' <=> Collecting(u))
    <2>1. Collecting(u) => claim[u] \in Record \ {claim[t]} /\ claim[u] \in inFlight
        BY Zenon DEF Alone, ThreadInv, Known
    <2> QED
        BY Zenon, <2>1, OthersKept
<1>2. ThreadInv(t)'
    <2>1. ThreadInv(t)
        BY Zenon
    <2> QED
        BY Zenon, <2>1 DEF ThreadInv
<1>3. \A u \in Thread : claim'[u] = claim[u] /\ (Collecting(u)' <=> Collecting(u))
    BY Zenon, <1>1 DEF OtherThreads
<1>4. \A u, v \in Thread : Alone(u, v)'
    BY Zenon, <1>3 DEF Alone
<1>5. \A r \in Record : ClaimInv(r)'
    BY ZenonT(60), <1>3 DEF ClaimInv, RecordInv
<1> QED
    BY Zenon, <1>1, <1>2, <1>4, <1>5 DEF ThreadsInv

(* A thread that collects nothing after the step, and gives up its claim   *)
(* if it had one.                                                          *)
LEMMA ThreadEnds ==
    ASSUME DeferredInv, NEW t \in Thread, OtherThreads(t), UNCHANGED <<setting, valid>>,
           Known \subseteq Known', creds \subseteq creds', claim'[t] = claim[t],
           inFlight' = IF Collecting(t) THEN inFlight \ {claim[t]} ELSE inFlight,
           ~Collecting(t)', todo'[t] \subseteq Known
    PROVE  ThreadsInv'
<1> USE DEF DeferredInv
<1>1. ASSUME NEW u \in Thread \ {t} PROVE ThreadInv(u)' /\ (Collecting(u)' <=> Collecting(u))
    <2>1. Collecting(u) => claim[u] \in inFlight /\ (Collecting(t) => claim[u] # claim[t])
        BY Zenon DEF Alone, ThreadInv
    <2>2. Collecting(u) => claim[u] \in inFlight'
        BY Zenon, <2>1
    <2> QED
        BY Zenon, <2>2, OthersKept
<1>2. ThreadInv(t)'
    <2>1. ~Granted(t)' /\ pc'[t] \notin {"imported", "removed"}
        BY DEF Collecting, Granted
    <2> QED
        BY Zenon, <2>1 DEF ThreadInv
<1>3. \A u \in Thread \ {t} : claim'[u] = claim[u] /\ (Collecting(u)' <=> Collecting(u))
    BY Zenon, <1>1 DEF OtherThreads
<1>4. \A u, v \in Thread : Alone(u, v)'
    BY Zenon, <1>3 DEF Alone
<1>5. \A r \in Record : ClaimInv(r)'
    BY Zenon, <1>3 DEF ClaimInv, RecordInv
<1> QED
    BY Zenon, <1>1, <1>2, <1>4, <1>5 DEF ThreadsInv

(* A thread claims a record nobody else has claimed.                       *)
LEMMA ThreadClaims ==
    ASSUME DeferredInv, NEW t \in Thread, NEW r \in Known, OtherThreads(t),
           UNCHANGED <<setting, valid, issuance, creds>>, ~Collecting(t), Claimable(r),
           inFlight' = inFlight \cup {r}, claim'[t] = r, todo'[t] \subseteq todo[t],
           pc'[t] \in {"refresh", "ask"}
    PROVE  ThreadsInv'
<1> USE DEF DeferredInv
<1>0. Known' = Known
    BY Zenon DEF Known
<1>1. ASSUME NEW u \in Thread \ {t} PROVE ThreadInv(u)' /\ (Collecting(u)' <=> Collecting(u))
    <2>1. Collecting(u) => claim[u] \in inFlight'
        BY Zenon DEF ThreadInv
    <2> QED
        BY Zenon, <1>0, <2>1, OthersKept
<1>2. ThreadInv(t)'
    <2>1. ~Granted(t)' /\ pc'[t] \notin {"imported", "removed"}
        BY DEF Granted
    <2>2. todo'[t] \subseteq Known'
        BY Zenon, <1>0 DEF ThreadInv
    <2> QED
        BY Zenon, <1>0, <2>1, <2>2 DEF ThreadInv
<1>3. \A u \in Thread \ {t} : claim'[u] = claim[u] /\ (Collecting(u)' <=> Collecting(u))
    BY Zenon, <1>1 DEF OtherThreads
<1>4. \A u \in Thread \ {t} : Collecting(u) => claim[u] # r
    BY Zenon DEF Claimable, ThreadInv
<1>5. \A u, v \in Thread : Alone(u, v)'
    BY Zenon, <1>3, <1>4 DEF Alone
<1>6. Collecting(t)'
    BY DEF Collecting
<1>7. ASSUME NEW q \in Record PROVE ClaimInv(q)'
    <2>1. CASE q = r
        BY Zenon, <1>6, <2>1 DEF ClaimInv
    <2>2. CASE q # r
        BY Zenon, <1>3, <2>2 DEF ClaimInv, RecordInv
    <2> QED
        BY Zenon, <2>1, <2>2
<1> QED
    BY Zenon, <1>1, <1>2, <1>5, <1>7 DEF ThreadsInv

(* No thread moves.                                                        *)
LEMMA ThreadsRest ==
    ASSUME DeferredInv, UNCHANGED <<setting, inFlight, pc, claim, answer, todo, valid>>,
           \A t \in Thread : copies'[t][claim[t]].refresh = copies[t][claim[t]].refresh,
           Known \subseteq Known', creds \subseteq creds' \/ setting.reloads # 0
    PROVE  ThreadsInv'
<1> USE DEF DeferredInv
<1>1. ASSUME NEW t \in Thread PROVE ThreadInv(t)'
    <2>1. ThreadInv(t) /\ (Granted(t)' <=> Granted(t))
        BY Zenon DEF Granted
    <2>2. todo'[t] \subseteq Known' /\ (Collecting(t)' => claim'[t] \in inFlight' \cap Known')
        BY Zenon, <2>1 DEF ThreadInv, Collecting
    <2>3. Granted(t)' => copies'[t][claim'[t]].refresh + 1 = valid'[claim'[t]]
        BY Zenon, <2>1 DEF ThreadInv, Mine
    <2>4. setting'.reloads = 0 /\ pc'[t] \in {"imported", "removed"} => CollectedIn(claim'[t], creds')
        BY Zenon, <2>1 DEF ThreadInv, CollectedIn
    <2> QED
        BY Zenon, <2>2, <2>3, <2>4 DEF ThreadInv, Mine
<1>2. \A t, u \in Thread : Alone(t, u)'
    BY Zenon DEF Alone, Collecting
<1>3. \A r \in Record : ClaimInv(r)'
    BY Zenon DEF ClaimInv, Collecting, RecordInv
<1> QED
    BY Zenon, <1>1, <1>2, <1>3 DEF ThreadsInv

--------------------------------------------------------------------------------
IssuerInv == \A r \in Record : NewInv(r) /\ IssuedInv(r)

(* The issuer does nothing, and no record appears.                         *)
LEMMA IssuerRests ==
    ASSUME DeferredInv, UNCHANGED <<setting, ticket, issued, issuance>>,
           \A r \in Record : r \notin Known => valid'[r] = valid[r],
           \A r \in Record : records'[r].there \/ stored'.records[r].there =>
               records[r].there \/ stored.records[r].there
    PROVE  IssuerInv'
<1> SUFFICES ASSUME NEW r \in Record PROVE NewInv(r)' /\ IssuedInv(r)'
    BY Zenon DEF IssuerInv
<1>1. NewInv(r) /\ IssuedInv(r)
    BY Zenon DEF DeferredInv, RecordInv
<1>2. NewInv(r)'
    BY Zenon, <1>1 DEF NewInv, Known
<1>3. IssuedInv(r)'
    BY Zenon, <1>1 DEF IssuedInv
<1> QED
    BY Zenon, <1>2, <1>3

LEMMA WitnessesOf ==
    ASSUME NEW t \in Thread, OtherThreads(t), pc[t] # "removed", ~Granted(t)
    PROVE  WitnessesStay
BY Zenon DEF OtherThreads, WitnessesStay

(* The shape of most steps.                                                *)
UsualStep ==
    /\ UNCHANGED <<setting, valid, lostTokens, crashes, reloads>>
    /\ Known' = Known
    /\ gaveUp \subseteq gaveUp' /\ creds \subseteq creds'
    /\ RecordsShrink
    /\ StoredStays \/ (stored'.records = records' /\ stored'.creds = creds')

LEMMA Usual ==
    ASSUME DeferredInv, UsualStep, WitnessesStay, DeferredTypeOK', ThreadsInv', IssuerInv'
    PROVE  DeferredInv'
<1>1. CredentialsIn'
    BY Zenon DEF ThreadsInv, ThreadInv, CredentialsIn
<1>2. /\ stored'.creds \subseteq creds'
      /\ \A r \in Record : /\ HeldInv(r)' /\ SavedInv(r)'
                           /\ TokenHeld(r, records)' /\ TokenHeld(r, stored.records)'
    BY Zenon, <1>1, WalletKept DEF UsualStep
<1>3. \A r \in Record : RecordInv(r)'
    BY Zenon, <1>2 DEF RecordInv, ThreadsInv, IssuerInv
<1> QED
    BY Zenon, <1>2, <1>3 DEF DeferredInv, ThreadsInv, UsualStep

LEMMA UsualIssuer ==
    ASSUME DeferredInv, UsualStep, UNCHANGED <<ticket, issued, issuance>>
    PROVE  IssuerInv'
<1>1. \A r \in Record : records'[r].there \/ stored'.records[r].there =>
               records[r].there \/ stored.records[r].there
    BY Zenon DEF UsualStep, RecordsShrink, StoredStays
<1> QED
    BY Zenon, <1>1, IssuerRests DEF UsualStep

--------------------------------------------------------------------------------
(* The pieces the handlers are built from.                                 *)
LEMMA RecordsRest == UNCHANGED records => RecordsShrink
BY Zenon DEF RecordsShrink

LEMMA StoredRests == UNCHANGED <<stored, issuance>> => StoredStays
BY Zenon DEF StoredStays

LEMMA SavedShape ==
    ASSUME DeferredInv, UNCHANGED <<setting, older>>, creds' \subseteq Record \X Nat,
           records' \in [Record -> DeferredRecord], Save
    PROVE  WalletShape' /\ stored'.records = records' /\ stored'.creds = creds'
<1>1. DeferredRecord' = DeferredRecord
    BY Zenon DEF DeferredRecord
<1>2. older \in [Record -> SUBSET Record]
    BY Zenon DEF DeferredInv, DeferredTypeOK
<1>3. /\ stored' \in [records: [Record -> DeferredRecord], creds: SUBSET (Record \X Nat)]
      /\ stored'.records = records' /\ stored'.creds = creds'
    BY DEF Save
<1> QED
    BY Zenon, <1>1, <1>2, <1>3 DEF WalletShape

LEMMA Drops ==
    ASSUME DeferredInv, UNCHANGED <<setting, older, creds>>, NEW r \in Record,
           records' = [records EXCEPT ![r] = NoRecord], Save, gaveUp' = gaveUp \cup {r}
    PROVE  /\ WalletShape' /\ gaveUp' \subseteq Record /\ RecordsShrink
           /\ stored'.records = records' /\ stored'.creds = creds'
<1> USE DEF DeferredInv, DeferredTypeOK
<1>1. records' \in [Record -> DeferredRecord] /\ ~NoRecord.there
    BY Zenon, RecordShapes
<1>2. WalletShape' /\ stored'.records = records' /\ stored'.creds = creds'
    BY Zenon, <1>1, SavedShape
<1>3. ASSUME NEW q \in Record
      PROVE  /\ records'[q].there => records[q].there /\ records'[q].refresh = records[q].refresh
             /\ records[q].there => records'[q].there \/ q \in gaveUp'
    <2>1. CASE q = r
        BY Zenon, <1>1, <2>1
    <2>2. CASE q # r
        BY ZenonT(60), <2>2
    <2> QED
        BY Zenon, <2>1, <2>2
<1> QED
    BY ZenonT(60), <1>2, <1>3 DEF RecordsShrink

LEMMA Reschedules ==
    ASSUME DeferredInv, NEW t \in Thread, UNCHANGED <<setting, older>>, RescheduleDeferred(t)
    PROVE  /\ WalletShape' /\ RecordsShrink
           /\ stored'.records = records' /\ stored'.creds = creds'
<1> USE DEF DeferredInv, DeferredTypeOK
<1> DEFINE r == claim[t]
           rec == IF records[r].there THEN [records[r] EXCEPT !.wait = Interval] ELSE records[r]
<1>0. r \in Record /\ records[r] \in DeferredRecord
    BY Zenon
<1>1. rec \in DeferredRecord /\ rec.there = records[r].there /\ rec.refresh = records[r].refresh
    BY Zenon, <1>0, RecordKept
<1>2. records' = [records EXCEPT ![r] = rec] /\ UNCHANGED creds /\ Save
    BY DEF RescheduleDeferred
<1> HIDE DEF rec, r
<1>3. records' \in [Record -> DeferredRecord]
    BY Zenon, <1>0, <1>1, <1>2
<1>4. WalletShape' /\ stored'.records = records' /\ stored'.creds = creds'
    BY Zenon, <1>2, <1>3, SavedShape
<1>5. ASSUME NEW q \in Record
      PROVE  records'[q].there = records[q].there /\ records'[q].refresh = records[q].refresh
    <2>1. CASE q = r
        BY Zenon, <1>1, <1>2, <2>1
    <2>2. CASE q # r
        BY ZenonT(60), <1>2, <2>2
    <2> QED
        BY Zenon, <2>1, <2>2
<1> QED
    BY Zenon, <1>4, <1>5 DEF RecordsShrink

LEMMA DoneEnds ==
    ASSUME DeferredInv, UNCHANGED setting, NEW t \in Thread, NEW left, left \subseteq Record, Done(t, left)
    PROVE  /\ ThreadShape' /\ OtherThreads(t) /\ ~Collecting(t)'
           /\ claim' = claim /\ todo'[t] = left
<1> USE DEF DeferredInv, DeferredTypeOK, Done
<1>1. DeferredRecord' = DeferredRecord
    BY Zenon DEF DeferredRecord
<1>2. NoRecord \in DeferredRecord
    BY Zenon, RecordShapes
<1>3. copies' \in [Thread -> [Record -> DeferredRecord]]
    BY ZenonT(200), <1>2
<1>4. todo' \in [Thread -> SUBSET Record] /\ late' \in [Thread -> SUBSET Record]
    BY Zenon
<1>5. /\ pc' \in [Thread -> {"idle", "sweep", "refresh", "refreshed", "failed", "ask", "sent",
                             "found", "answered", "imported", "removed"}]
      /\ pc'[t] \in {"idle", "sweep"}
    BY Zenon
<1>6. /\ retried' \in [Thread -> BOOLEAN]
      /\ answer' \in [Thread -> {"none", "granted", "unchecked", "refused", "pending",
                              "retryable", "invalid", "unauthorized", "credential"}]
    BY Zenon
<1>7. ThreadShape'
    BY Zenon, <1>1, <1>3, <1>4, <1>5, <1>6 DEF ThreadShape
<1>8. claim' = claim /\ todo'[t] = left
    BY Zenon
<1>9. ASSUME NEW u \in Thread \ {t}
      PROVE  /\ pc'[u] = pc[u] /\ claim'[u] = claim[u] /\ answer'[u] = answer[u]
             /\ todo'[u] = todo[u] /\ copies'[u] = copies[u]
    BY Zenon
<1>10. OtherThreads(t)
    BY Zenon, <1>9 DEF OtherThreads
<1> QED
    BY Zenon, <1>5, <1>7, <1>8, <1>10 DEF Collecting

(* A thread moves on, and keeps its copies and its claim.                  *)
LEMMA OneMoves ==
    ASSUME DeferredInv, UNCHANGED <<setting, todo, late, copies, claim>>, NEW t \in Thread,
           NEW x \in {"refresh", "refreshed", "failed", "ask", "sent", "found", "answered",
                      "imported", "removed"},
           pc' = [pc EXCEPT ![t] = x],
           answer' \in [Thread -> {"none", "granted", "unchecked", "refused", "pending",
                                   "retryable", "invalid", "unauthorized", "credential"}],
           \A u \in Thread \ {t} : answer'[u] = answer[u],
           retried' \in [Thread -> BOOLEAN]
    PROVE  ThreadShape' /\ OtherThreads(t) /\ pc'[t] = x /\ Collecting(t)'
<1> USE DEF DeferredInv, DeferredTypeOK
<1>1. DeferredRecord' = DeferredRecord
    BY Zenon DEF DeferredRecord
<1>2. /\ pc' \in [Thread -> {"idle", "sweep", "refresh", "refreshed", "failed", "ask", "sent",
                             "found", "answered", "imported", "removed"}]
      /\ pc'[t] = x
      /\ \A u \in Thread \ {t} : pc'[u] = pc[u]
    BY ZenonT(200)
<1>3. Collecting(t)'
    BY <1>2 DEF Collecting
<1> QED
    BY Zenon, <1>1, <1>2, <1>3 DEF ThreadShape, OtherThreads

LEMMA WalletRests ==
    ASSUME DeferredInv, UNCHANGED <<setting, walletVars>>
    PROVE  WalletShape'
<1>1. DeferredRecord' = DeferredRecord
    BY Zenon DEF DeferredRecord
<1> QED
    BY Zenon, <1>1 DEF WalletShape, walletVars, DeferredInv, DeferredTypeOK

LEMMA IssuerShapeRests ==
    ASSUME DeferredInv, UNCHANGED <<setting, issuerVars>>
    PROVE  IssuerShape'
BY Zenon DEF IssuerShape, issuerVars, DeferredInv, DeferredTypeOK

LEMMA ThreadShapeRests ==
    ASSUME DeferredInv, UNCHANGED <<setting, threadVars>>
    PROVE  ThreadShape' /\ WitnessesStay
<1>1. DeferredRecord' = DeferredRecord
    BY Zenon DEF DeferredRecord
<1> QED
    BY Zenon, <1>1 DEF ThreadShape, threadVars, DeferredInv, DeferredTypeOK, WitnessesStay

LEMMA KnownRests == UNCHANGED issuance => Known' = Known
BY Zenon DEF Known

--------------------------------------------------------------------------------
(* The ends of a collection.                                               *)
LEMMA EndKeeps ==
    ASSUME DeferredInv, NEW t \in Thread, Collecting(t), EndCollection(t),
           UNCHANGED <<setting, valid, issuance>>, creds \subseteq creds'
    PROVE  ThreadsInv' /\ ThreadShape' /\ OtherThreads(t) /\ inFlight' \subseteq Record
<1>1. Done(t, todo[t]) /\ inFlight' = inFlight \ {claim[t]}
    BY Zenon DEF EndCollection
<1>2. todo[t] \subseteq Record /\ todo[t] \subseteq Known /\ inFlight \subseteq Record
    BY Zenon DEF DeferredInv, ThreadInv, Known, DeferredTypeOK
<1>3. /\ ThreadShape' /\ OtherThreads(t) /\ ~Collecting(t)'
      /\ claim' = claim /\ todo'[t] = todo[t]
    BY Zenon, <1>1, <1>2, DoneEnds
<1>4. ThreadsInv'
    BY Zenon, <1>1, <1>2, <1>3, KnownRests, ThreadEnds
<1> QED
    BY Zenon, <1>1, <1>2, <1>3, <1>4

LEMMA AbandonKeeps ==
    ASSUME DeferredInv, NEW t \in Thread, Collecting(t), pc[t] # "removed", ~Granted(t),
           AbandonDeferred(t),
           UNCHANGED <<setting, older, issuance, issuerVars, lostTokens, crashes, reloads>>
    PROVE  DeferredInv'
<1>1. /\ records' = [records EXCEPT ![claim[t]] = NoRecord] /\ Save /\ EndCollection(t)
      /\ gaveUp' = gaveUp \cup {claim[t]} /\ UNCHANGED creds
    BY Zenon DEF AbandonDeferred
<1>2. claim[t] \in Record /\ lostTokens \subseteq Record
      /\ issuance \in [Record -> {"new", "added", "told"}]
    BY Zenon DEF DeferredInv, DeferredTypeOK
<1>3. /\ WalletShape' /\ gaveUp' \subseteq Record /\ RecordsShrink
      /\ stored'.records = records' /\ stored'.creds = creds'
    BY Zenon, <1>1, <1>2, Drops
<1>4. UNCHANGED <<ticket, issued, ghost, valid>>
    BY Zenon DEF issuerVars
<1>5. ThreadsInv' /\ ThreadShape' /\ OtherThreads(t) /\ inFlight' \subseteq Record
    BY Zenon, <1>1, <1>4, EndKeeps
<1>6. UsualStep
    BY Zenon, <1>1, <1>3, <1>4, KnownRests DEF UsualStep
<1>7. DeferredTypeOK'
    BY ZenonT(60), <1>2, <1>3, <1>5, IssuerShapeRests, ShapesNext DEF OtherShape
<1> QED
    BY Zenon, <1>4, <1>5, <1>6, <1>7, WitnessesOf, UsualIssuer, Usual

LEMMA RescheduleKeeps ==
    ASSUME DeferredInv, NEW t \in Thread, Collecting(t), pc[t] # "removed", ~Granted(t),
           RescheduleDeferred(t),
           UNCHANGED <<setting, older, issuance, issuerVars, lostTokens, crashes, reloads>>
    PROVE  DeferredInv'
<1>1. EndCollection(t) /\ UNCHANGED <<gaveUp, creds>>
    BY Zenon DEF RescheduleDeferred
<1>2. gaveUp \subseteq Record /\ lostTokens \subseteq Record
      /\ issuance \in [Record -> {"new", "added", "told"}]
    BY Zenon DEF DeferredInv, DeferredTypeOK
<1>3. WalletShape' /\ RecordsShrink /\ stored'.records = records' /\ stored'.creds = creds'
    BY Zenon, Reschedules
<1>4. UNCHANGED <<ticket, issued, ghost, valid>>
    BY Zenon DEF issuerVars
<1>5. ThreadsInv' /\ ThreadShape' /\ OtherThreads(t) /\ inFlight' \subseteq Record
    BY Zenon, <1>1, <1>4, EndKeeps
<1>6. UsualStep
    BY Zenon, <1>1, <1>3, <1>4, KnownRests DEF UsualStep
<1>7. DeferredTypeOK'
    BY Zenon, <1>1, <1>2, <1>3, <1>5, IssuerShapeRests, ShapesNext DEF OtherShape
<1> QED
    BY Zenon, <1>4, <1>5, <1>6, <1>7, WitnessesOf, UsualIssuer, Usual

(* A thread goes on and touches no more than its place and the answer.     *)
LEMMA MoveKeeps ==
    ASSUME DeferredInv, NEW t \in Thread, Collecting(t), pc[t] # "removed", ~Granted(t),
           UNCHANGED <<setting, walletVars, inFlight, issuance, todo, late, copies, claim,
                       valid, historyVars>>,
           NEW x \in {"refresh", "refreshed", "failed", "ask", "sent", "found", "answered"},
           pc' = [pc EXCEPT ![t] = x], x = "refreshed" => answer'[t] = "refused",
           answer' \in [Thread -> {"none", "granted", "unchecked", "refused", "pending",
                                   "retryable", "invalid", "unauthorized", "credential"}],
           \A u \in Thread \ {t} : answer'[u] = answer[u],
           retried' \in [Thread -> BOOLEAN], IssuerShape', IssuerInv'
    PROVE  DeferredInv'
<1>1. UNCHANGED <<records, older, creds, stored, gaveUp, lostTokens, crashes, reloads>>
    BY Zenon DEF walletVars, historyVars
<1>2. ThreadShape' /\ OtherThreads(t) /\ pc'[t] = x /\ Collecting(t)'
    BY ZenonT(60), OneMoves
<1>3. UsualStep
    BY Zenon, <1>1, KnownRests, RecordsRest, StoredRests DEF UsualStep
<1>4. ~Granted(t)' /\ pc'[t] \notin {"imported", "removed"}
    BY <1>2 DEF Granted
<1>5. claim'[t] = claim[t] /\ todo'[t] \subseteq todo[t] /\ Known \subseteq Known' /\ creds \subseteq creds'
    BY Zenon, <1>1, KnownRests
<1>6. ThreadsInv'
    BY Zenon, <1>2, <1>4, <1>5, ThreadMoves
<1>7. OtherShape'
    BY Zenon, <1>1 DEF OtherShape, DeferredInv, DeferredTypeOK
<1>8. DeferredTypeOK'
    BY Zenon, <1>2, <1>7, WalletRests, ShapesNext
<1> QED
    BY Zenon, <1>2, <1>3, <1>6, <1>8, WitnessesOf, Usual

--------------------------------------------------------------------------------
(* The issuer.  It signs once for a transaction, which it then closes.     *)
LEMMA ClaimsOnce ==
    ASSUME DeferredInv, NEW r \in Record, IssuerClaims(r),
           UNCHANGED <<setting, valid, issuance, records, stored>>,
           ghost' \in [Record -> {"none", "sent", "found"}]
    PROVE  IssuerShape' /\ IssuerInv'
<1> USE DEF DeferredInv, DeferredTypeOK
<1>1. /\ ticket' = [ticket EXCEPT ![r] = IF StillPending(r) /\ ~setting.reissues THEN "collected" ELSE ticket[r]]
      /\ issued' = issued \/ (StillPending(r) /\ issued' = [issued EXCEPT ![r] = issued[r] + 1])
    BY SMTT(60) DEF IssuerClaims
<1>2. issued[r] \in Nat /\ issued[r] + 1 \in Nat
    <2>1. issued[r] \in Nat
        BY Zenon
    <2> QED
        BY <2>1
<1>3. issued' \in [Record -> Nat]
    <2>1. issued \in [Record -> Nat]
        BY Zenon
    <2>2. [issued EXCEPT ![r] = issued[r] + 1] \in [Record -> Nat]
        BY Zenon, <1>2, <2>1
    <2> QED
        BY Zenon, <1>1, <2>1, <2>2
<1>4. ticket' \in [Record -> {"none", "waiting", "ready", "collected", "expired"}]
    BY Zenon, <1>1
<1>5. IssuerShape'
    BY Zenon, <1>3, <1>4 DEF IssuerShape
<1>6. ASSUME NEW q \in Record, q # r PROVE ticket'[q] = ticket[q] /\ issued'[q] = issued[q]
    BY ZenonT(200), <1>1, <1>6
<1>7. /\ ticket'[r] = IF StillPending(r) /\ ~setting.reissues THEN "collected" ELSE ticket[r]
      /\ issued'[r] = issued[r] \/ (StillPending(r) /\ issued'[r] = issued[r] + 1)
    BY ZenonT(60), <1>1
<1>8. ASSUME NEW q \in Record PROVE NewInv(q)' /\ IssuedInv(q)'
    <2>1. NewInv(q) /\ IssuedInv(q)
        BY Zenon DEF RecordInv
    <2>2. CASE q # r
        BY Zenon, <1>6, <2>1, <2>2 DEF NewInv, IssuedInv
    <2>3. CASE q = r
        <3>1. NewInv(q)'
            BY SMTT(60), <1>7, <2>1, <2>3 DEF NewInv, StillPending
        <3>2. IssuedInv(q)'
            <4>1. CASE StillPending(r) /\ ~setting.reissues
                <5>1. ticket[r] = "ready" /\ issued[r] = 0
                    BY Zenon, <2>1, <2>3, <4>1 DEF IssuedInv, StillPending
                <5> QED
                    BY SMTT(60), <1>7, <2>3, <4>1, <5>1 DEF IssuedInv
            <4>2. CASE ~StillPending(r)
                BY Zenon, <1>7, <2>1, <2>3, <4>2 DEF IssuedInv
            <4>3. CASE setting.reissues
                BY Zenon, <4>3 DEF IssuedInv
            <4> QED
                BY ZenonT(60), <4>1, <4>2, <4>3
        <3> QED
            BY ZenonT(60), <3>1, <3>2
    <2> QED
        BY Zenon, <2>2, <2>3
<1> QED
    BY Zenon, <1>5, <1>8 DEF IssuerInv

(* A step of the issuer alone.                                             *)
LEMMA IssuerAlone ==
    ASSUME DeferredInv, UNCHANGED <<setting, walletVars, inFlight, issuance, threadVars, valid, historyVars>>,
           IssuerShape', IssuerInv'
    PROVE  DeferredInv'
<1>1. /\ UNCHANGED <<records, older, creds, stored, gaveUp, lostTokens, crashes, reloads>>
      /\ UNCHANGED <<pc, todo, late, copies, claim, retried, answer>>
    BY Zenon DEF walletVars, historyVars, threadVars
<1>2. UsualStep
    BY Zenon, <1>1, KnownRests, RecordsRest, StoredRests DEF UsualStep
<1>3. ThreadsInv'
    BY Zenon, <1>1, KnownRests, ThreadsRest
<1>4. OtherShape'
    BY Zenon, <1>1 DEF OtherShape, DeferredInv, DeferredTypeOK
<1>5. DeferredTypeOK'
    BY Zenon, <1>4, ThreadShapeRests, WalletRests, ShapesNext
<1> QED
    BY Zenon, <1>2, <1>3, <1>5, ThreadShapeRests, Usual

LEMMA TicketMoves ==
    ASSUME DeferredInv, NEW r \in Record, UNCHANGED <<setting, issued, issuance, valid, records, stored, ghost>>,
           ticket[r] \in {"waiting", "ready"}, NEW x \in {"ready", "expired"},
           ticket' = [ticket EXCEPT ![r] = x]
    PROVE  IssuerShape' /\ IssuerInv'
<1> USE DEF DeferredInv, DeferredTypeOK
<1>1. IssuerShape'
    BY Zenon DEF IssuerShape
<1>2. ASSUME NEW q \in Record PROVE NewInv(q)' /\ IssuedInv(q)'
    <2>1. NewInv(q) /\ IssuedInv(q)
        BY Zenon DEF RecordInv
    <2>2. CASE q # r
        <3>1. ticket'[q] = ticket[q]
            BY ZenonT(60), <2>2
        <3> QED
            BY Zenon, <2>1, <3>1 DEF NewInv, IssuedInv
    <2>3. CASE q = r
        BY <2>1, <2>3 DEF NewInv, IssuedInv
    <2> QED
        BY Zenon, <2>2, <2>3
<1> QED
    BY Zenon, <1>1, <1>2 DEF IssuerInv

LEMMA IssuerSteps ==
    ASSUME DeferredInv, UNCHANGED setting, NEW r \in Record,
           CredentialReady(r) \/ TicketExpires(r) \/ GhostRequest(r)
    PROVE  DeferredInv'
<1>1. CASE CredentialReady(r)
    <2>1. IssuerShape' /\ IssuerInv'
        BY Zenon, <1>1, TicketMoves DEF CredentialReady, walletVars
    <2> QED
        BY Zenon, <1>1, <2>1, IssuerAlone DEF CredentialReady
<1>2. CASE TicketExpires(r)
    <2>1. IssuerShape' /\ IssuerInv'
        BY Zenon, <1>2, TicketMoves DEF TicketExpires, walletVars
    <2> QED
        BY Zenon, <1>2, <2>1, IssuerAlone DEF TicketExpires
<1>3. CASE GhostRequest(r)
    <2>1. /\ UNCHANGED <<walletVars, inFlight, issuance, threadVars, valid, historyVars>>
          /\ UNCHANGED <<records, stored>>
        BY Zenon, <1>3 DEF GhostRequest, walletVars
    <2>2. ghost' \in [Record -> {"none", "sent", "found"}]
        <3>1. ghost \in [Record -> {"none", "sent", "found"}]
            BY Zenon DEF DeferredInv, DeferredTypeOK
        <3> QED
            BY Zenon, <1>3, <3>1 DEF GhostRequest
    <2>3. CASE IssuerClaims(r)
        BY Zenon, <2>1, <2>2, <2>3, ClaimsOnce, IssuerAlone
    <2>4. CASE UNCHANGED <<ticket, issued>>
        <3>1. IssuerShape'
            BY Zenon, <2>1, <2>2, <2>4 DEF IssuerShape, DeferredInv, DeferredTypeOK
        <3>2. IssuerInv'
            BY Zenon, <2>1, <2>4, IssuerRests
        <3> QED
            BY Zenon, <2>1, <3>1, <3>2, IssuerAlone
    <2> QED
        BY Zenon, <1>3, <2>3, <2>4 DEF GhostRequest
<1> QED
    BY Zenon, <1>1, <1>2, <1>3

LEMMA LookupStep ==
    ASSUME DeferredInv, UNCHANGED setting, NEW t \in Thread, IssuerLookup(t)
    PROVE  DeferredInv'
<1> USE DEF IssuerLookup
<1>1. PICK a \in LookupAnswers(claim[t]) \cup {"retryable"} :
          /\ answer' = [answer EXCEPT ![t] = IF a = "found" THEN "none" ELSE a]
          /\ pc' = [pc EXCEPT ![t] = IF a = "found" THEN "found" ELSE "answered"]
    BY Zenon
<1>2. a \in {"found", "unauthorized", "pending", "invalid", "retryable"}
    BY Zenon, <1>1 DEF LookupAnswers
<1>3. /\ answer' \in [Thread -> {"none", "granted", "unchecked", "refused", "pending",
                                   "retryable", "invalid", "unauthorized", "credential"}]
      /\ \A u \in Thread \ {t} : answer'[u] = answer[u]
      /\ retried' \in [Thread -> BOOLEAN]
    BY ZenonT(60), <1>1, <1>2 DEF DeferredInv, DeferredTypeOK
<1>4. Collecting(t) /\ pc[t] # "removed" /\ ~Granted(t)
    BY DEF Collecting, Granted
<1>5. UNCHANGED <<ticket, issued, ghost, valid, records, stored>>
    BY Zenon DEF issuerVars, walletVars
<1>6. IssuerShape' /\ IssuerInv'
    BY Zenon, <1>5, IssuerShapeRests, IssuerRests DEF issuerVars
<1>7. PICK x \in {"found", "answered"} : pc' = [pc EXCEPT ![t] = x]
    BY Zenon, <1>1
<1>8. x # "refreshed" /\ x \in {"refresh", "refreshed", "failed", "ask", "sent", "found", "answered"}
    BY <1>7
<1> QED
    BY ZenonT(60), <1>3, <1>4, <1>5, <1>6, <1>7, <1>8, MoveKeeps

LEMMA ClaimStep ==
    ASSUME DeferredInv, UNCHANGED setting, NEW t \in Thread, IssuerClaim(t)
    PROVE  DeferredInv'
<1> USE DEF IssuerClaim
<1>0. PICK a \in {"credential", "retryable", "invalid"} : answer' = [answer EXCEPT ![t] = a]
    BY Zenon
<1>1. /\ answer' \in [Thread -> {"none", "granted", "unchecked", "refused", "pending",
                                   "retryable", "invalid", "unauthorized", "credential"}]
      /\ \A u \in Thread \ {t} : answer'[u] = answer[u]
      /\ retried' \in [Thread -> BOOLEAN]
    BY ZenonT(200), <1>0 DEF DeferredInv, DeferredTypeOK
<1>2. Collecting(t) /\ pc[t] # "removed" /\ ~Granted(t) /\ "answered" # "refreshed"
    BY DEF Collecting, Granted
<1>3. UNCHANGED <<ghost, valid, records, stored>>
    BY Zenon DEF walletVars
<1>4. claim[t] \in Record /\ ghost' \in [Record -> {"none", "sent", "found"}]
    BY ZenonT(60), <1>3 DEF DeferredInv, DeferredTypeOK
<1>5. IssuerShape' /\ IssuerInv'
    BY Zenon, <1>3, <1>4, ClaimsOnce
<1>6. "answered" \in {"refresh", "refreshed", "failed", "ask", "sent", "found", "answered"}
    OBVIOUS
<1> QED
    BY Zenon, <1>1, <1>2, <1>3, <1>5, <1>6, MoveKeeps

--------------------------------------------------------------------------------
(* The attempts that end, and the ones that go on.                         *)
LEMMA RefreshFailedStep ==
    ASSUME DeferredInv, UNCHANGED setting, NEW t \in Thread, RefreshFailed(t)
    PROVE  DeferredInv'
<1>1. Collecting(t) /\ pc[t] # "removed" /\ ~Granted(t)
    BY DEF RefreshFailed, Collecting, Granted
<1> QED
    BY Zenon, <1>1, AbandonKeeps DEF RefreshFailed

LEMMA RetryKeeps ==
    ASSUME DeferredInv, NEW t \in Thread, Collecting(t), pc[t] # "removed", ~Granted(t),
           NEW x \in {"refresh", "sent"}, pc' = [pc EXCEPT ![t] = x],
           answer' = answer \/ answer' = [answer EXCEPT ![t] = "none"],
           retried' = retried \/ retried' = [retried EXCEPT ![t] = TRUE],
           UNCHANGED <<setting, records, creds, stored, inFlight, todo, late, copies, claim, gaveUp>>,
           UNCHANGED <<older, issuance, issuerVars, lostTokens, crashes, reloads>>
    PROVE  DeferredInv'
<1>1. x # "refreshed" /\ x \in {"refresh", "refreshed", "failed", "ask", "sent", "found", "answered"}
    OBVIOUS
<1>2. /\ answer' \in [Thread -> {"none", "granted", "unchecked", "refused", "pending",
                                   "retryable", "invalid", "unauthorized", "credential"}]
      /\ retried' \in [Thread -> BOOLEAN]
    BY Zenon DEF DeferredInv, DeferredTypeOK
<1>3. \A u \in Thread \ {t} : answer'[u] = answer[u]
    BY ZenonT(60) DEF DeferredInv, DeferredTypeOK
<1>4. UNCHANGED <<ticket, issued, ghost, valid>>
    BY Zenon DEF issuerVars
<1>5. IssuerShape' /\ IssuerInv'
    BY Zenon, <1>4, IssuerShapeRests, IssuerRests
<1> QED
    BY ZenonT(60), <1>1, <1>2, <1>3, <1>4, <1>5, MoveKeeps DEF walletVars, historyVars

LEMMA AskStep ==
    ASSUME DeferredInv, UNCHANGED setting, NEW t \in Thread, Ask(t)
    PROVE  DeferredInv'
<1>1. Collecting(t) /\ pc[t] # "removed" /\ ~Granted(t)
    BY DEF Ask, Collecting, Granted
<1>2. UNCHANGED <<setting, older, issuance, issuerVars, lostTokens, crashes, reloads>>
    BY Zenon DEF Ask
<1>3. CASE RescheduleDeferred(t) \/ AbandonDeferred(t)
    BY Zenon, <1>1, <1>2, <1>3, RescheduleKeeps, AbandonKeeps
<1>4. CASE /\ pc' = [pc EXCEPT ![t] = "sent"]
           /\ UNCHANGED <<records, creds, stored, inFlight, todo, late, copies, claim, retried,
                          answer, gaveUp>>
    <2>1. "sent" \in {"refresh", "sent"}
        OBVIOUS
    <2> QED
        BY Zenon, <1>1, <1>2, <1>4, <2>1, RetryKeeps
<1> QED
    BY Zenon, <1>3, <1>4 DEF Ask

LEMMA ErrorStep ==
    ASSUME DeferredInv, UNCHANGED setting, NEW t \in Thread, HandleError(t)
    PROVE  DeferredInv'
<1>1. Collecting(t) /\ pc[t] # "removed" /\ ~Granted(t)
    BY DEF HandleError, Collecting, Granted
<1>2. UNCHANGED <<setting, older, issuance, issuerVars, lostTokens, crashes, reloads>>
    BY Zenon DEF HandleError
<1>3. CASE RescheduleDeferred(t) \/ AbandonDeferred(t)
    BY Zenon, <1>1, <1>2, <1>3, RescheduleKeeps, AbandonKeeps
<1>4. CASE /\ pc' = [pc EXCEPT ![t] = "refresh"]
           /\ retried' = [retried EXCEPT ![t] = TRUE]
           /\ answer' = [answer EXCEPT ![t] = "none"]
           /\ UNCHANGED <<records, creds, stored, inFlight, todo, late, copies, claim, gaveUp>>
    <2>1. "refresh" \in {"refresh", "sent"}
        OBVIOUS
    <2> QED
        BY Zenon, <1>1, <1>2, <1>4, <2>1, RetryKeeps
<1> QED
    BY Zenon, <1>3, <1>4 DEF HandleError

LEMMA ImportStep ==
    ASSUME DeferredInv, UNCHANGED setting, NEW t \in Thread, ImportCredential(t)
    PROVE  DeferredInv'
<1>0. Collecting(t) /\ pc[t] # "removed" /\ ~Granted(t)
    BY DEF ImportCredential, Collecting, Granted
<1>1. UNCHANGED <<setting, older, issuance, issuerVars, lostTokens, crashes, reloads>>
    BY Zenon DEF ImportCredential
<1>2. CASE AbandonDeferred(t)
    BY Zenon, <1>0, <1>1, <1>2, AbandonKeeps
<1>3. CASE /\ creds' = creds \cup {Credential(t)}
           /\ pc' = [pc EXCEPT ![t] = "imported"]
           /\ UNCHANGED <<records, stored, inFlight, todo, late, copies, claim, retried, answer, gaveUp>>
    <2> USE DEF DeferredInv, DeferredTypeOK
    <2>1. Credential(t) \in Record \X Nat /\ Credential(t)[1] = claim[t]
        BY DEF Credential
    <2>2. creds' \subseteq Record \X Nat /\ creds \subseteq creds' /\ CollectedIn(claim[t], creds')
        <3>1. creds \subseteq Record \X Nat /\ creds' = creds \cup {Credential(t)}
            BY ZenonT(60), <1>3
        <3> HIDE DEF DeferredInv, DeferredTypeOK
        <3> QED
            BY SMTT(60), <2>1, <3>1 DEF CollectedIn
    <2>3. "imported" \in {"refresh", "refreshed", "failed", "ask", "sent", "found", "answered",
                      "imported", "removed"}
        OBVIOUS
    <2>4. ThreadShape' /\ OtherThreads(t) /\ pc'[t] = "imported" /\ Collecting(t)'
        BY ZenonT(60), <1>3, <2>3, OneMoves
    <2>5. ~Granted(t)'
        BY SMTT(60), <2>4 DEF Granted
    <2>6. ThreadsInv'
        <3>1. /\ UNCHANGED <<inFlight, valid>> /\ Known \subseteq Known' /\ claim'[t] = claim[t]
              /\ todo'[t] \subseteq todo[t]
            BY ZenonT(60), <1>1, <1>3, KnownRests DEF issuerVars
        <3> QED
            BY ZenonT(60), <1>0, <2>2, <2>4, <2>5, <3>1, ThreadMoves
    <2>7. UsualStep
        BY ZenonT(60), <1>1, <1>3, <2>2, KnownRests, RecordsRest, StoredRests DEF UsualStep, issuerVars
    <2>8. WalletShape'
        <3>1. DeferredRecord' = DeferredRecord
            BY Zenon DEF DeferredRecord
        <3> QED
            BY ZenonT(60), <1>1, <1>3, <2>2, <3>1 DEF WalletShape
    <2>9. OtherShape'
        BY ZenonT(60), <1>1, <1>3 DEF OtherShape
    <2>10. DeferredTypeOK'
        BY ZenonT(60), <1>1, <2>4, <2>8, <2>9, IssuerShapeRests, ShapesNext
    <2> QED
        BY ZenonT(60), <1>0, <1>1, <2>4, <2>6, <2>7, <2>10, WitnessesOf, UsualIssuer, Usual DEF issuerVars
<1> QED
    BY Zenon, <1>2, <1>3 DEF ImportCredential

LEMMA RemoveStep ==
    ASSUME DeferredInv, UNCHANGED setting, NEW t \in Thread, RemoveCollected(t)
    PROVE  DeferredInv'
<1> USE DEF DeferredInv, DeferredTypeOK, RemoveCollected
<1>0. Collecting(t) /\ pc[t] # "removed" /\ ~Granted(t) /\ pc[t] = "imported"
    BY SMTT(60) DEF Collecting, Granted
<1>1. /\ UNCHANGED <<setting, older, creds, stored, inFlight, issuance, issuerVars, todo, late, copies,
                     claim, retried, answer, gaveUp, lostTokens, crashes, reloads, valid, ticket, issued>>
      /\ claim[t] \in Record
    BY Zenon DEF historyVars, issuerVars
<1>2. records' \in [Record -> DeferredRecord] /\ ~NoRecord.there
    BY ZenonT(60), <1>1, RecordShapes
<1>3. "removed" \in {"refresh", "refreshed", "failed", "ask", "sent", "found", "answered",
                      "imported", "removed"}
    BY SMTT(60)
<1>4. ThreadShape' /\ OtherThreads(t) /\ pc'[t] = "removed" /\ Collecting(t)'
    BY ZenonT(60), <1>1, <1>3, OneMoves
<1>5. ~Granted(t)' /\ (setting.reloads = 0 => CollectedIn(claim[t], creds))
    <2>1. ThreadInv(t)
        BY Zenon
    <2> QED
        BY SMTT(60), <1>0, <1>4, <2>1 DEF Granted, ThreadInv
<1>6. ThreadsInv'
    BY ZenonT(60), <1>0, <1>1, <1>4, <1>5, KnownRests, ThreadMoves
<1>7. RecordsShrink
    <2>1. ASSUME NEW q \in Record, q = claim[t]
          PROVE  ~records'[q].there /\ claim'[t] = q /\ pc'[t] = "removed"
        BY ZenonT(60), <1>1, <1>2, <1>4, <2>1
    <2>2. ASSUME NEW q \in Record, q # claim[t] PROVE records'[q] = records[q]
        BY ZenonT(60), <2>2
    <2> QED
        BY ZenonT(60), <2>1, <2>2 DEF RecordsShrink
<1>8. UsualStep
    BY Zenon, <1>1, <1>7, KnownRests, StoredRests DEF UsualStep
<1>9. WalletShape' /\ OtherShape'
    <2>1. DeferredRecord' = DeferredRecord
        BY Zenon DEF DeferredRecord
    <2> QED
        BY ZenonT(60), <1>1, <1>2, <2>1 DEF WalletShape, OtherShape
<1>10. DeferredTypeOK'
    BY ZenonT(60), <1>1, <1>4, <1>9, IssuerShapeRests, ShapesNext
<1> QED
    BY ZenonT(60), <1>0, <1>1, <1>4, <1>6, <1>8, <1>10, WitnessesOf, UsualIssuer, Usual

(* saveIssuance: the credential is in the wallet and stored, whatever a    *)
(* reload did.                                                             *)
LEMMA SaveIssuanceStep ==
    ASSUME DeferredInv, UNCHANGED setting, NEW t \in Thread, SaveIssuance(t)
    PROVE  DeferredInv'
<1> USE DEF DeferredInv, DeferredTypeOK, SaveIssuance
<1>0. Collecting(t) /\ pc[t] = "removed" /\ ~Granted(t)
    BY DEF Collecting, Granted
<1>1. UNCHANGED <<records, older, issuance, issuerVars, ticket, issued, valid, gaveUp,
                  lostTokens, crashes, reloads>>
    BY ZenonT(60) DEF issuerVars, historyVars
<1>2. Credential(t) \in Record \X Nat /\ Credential(t)[1] = claim[t]
    BY SMTT(60) DEF Credential
<1>3. creds' \subseteq Record \X Nat /\ creds \subseteq creds' /\ CollectedIn(claim[t], creds')
    <2>1. creds \subseteq Record \X Nat /\ creds' = creds \cup {Credential(t)}
        BY Zenon
    <2> HIDE DEF DeferredInv, DeferredTypeOK, SaveIssuance
    <2> QED
        BY <1>2, <2>1 DEF CollectedIn
<1>4. WalletShape' /\ stored'.records = records' /\ stored'.creds = creds'
    BY ZenonT(60), <1>1, <1>3, SavedShape
<1>5. ThreadsInv' /\ ThreadShape' /\ OtherThreads(t) /\ inFlight' \subseteq Record
    BY ZenonT(60), <1>0, <1>1, <1>3, EndKeeps
<1>6. OtherShape'
    BY ZenonT(60), <1>1, <1>5 DEF OtherShape
<1>7. DeferredTypeOK'
    BY ZenonT(60), <1>1, <1>4, <1>5, <1>6, IssuerShapeRests, ShapesNext
<1>8. IssuerInv'
    BY ZenonT(60), <1>1, <1>4, IssuerRests
<1>9. ASSUME NEW r \in Record
      PROVE  /\ HeldInv(r)' /\ SavedInv(r)'
             /\ TokenHeld(r, records)' /\ TokenHeld(r, stored.records)'
    <2>0. RecordInv(r)
        BY Zenon
    <2>1. NotBoth /\ r \in Known => \/ r \in Stored' \/ r \in gaveUp'
                                    \/ \E u \in Thread : claim'[u] = r /\ pc'[u] = "removed"
                                    \/ CollectedIn(r, stored'.creds)
        <3> SUFFICES ASSUME NotBoth, r \in Known
                     PROVE  \/ r \in Stored' \/ r \in gaveUp'
                            \/ \E u \in Thread : claim'[u] = r /\ pc'[u] = "removed"
                            \/ CollectedIn(r, stored'.creds)
            BY ZenonT(60)
        <3>1. CASE \E u \in Thread : claim[u] = r /\ pc[u] = "removed"
            <4>1. PICK u \in Thread : claim[u] = r /\ pc[u] = "removed"
                BY ZenonT(60), <3>1
            <4>2. CASE u = t
                BY ZenonT(60), <1>3, <1>4, <4>1, <4>2
            <4>3. CASE u # t
                BY ZenonT(60), <1>5, <4>1, <4>3 DEF OtherThreads
            <4> QED
                BY ZenonT(60), <4>2, <4>3
        <3>2. CASE CollectedIn(r, stored.creds)
            BY ZenonT(60), <1>3, <1>4, <3>2 DEF CollectedIn
        <3>3. CASE r \in Stored \cup gaveUp
            BY ZenonT(60), <1>1, <3>3 DEF Stored
        <3> QED
            BY ZenonT(60), <2>0, <3>1, <3>2, <3>3 DEF RecordInv, HeldInv
    <2>2. HeldInv(r)'
        BY ZenonT(60), <1>1, <2>1, KnownRests DEF HeldInv, NotBoth
    <2>3. SavedInv(r)'
        <3> SUFFICES ASSUME setting.reloads = 0, issuance[r] = "told"
                     PROVE  stored'.records[r].there \/ r \in gaveUp' \/ CollectedIn(r, stored'.creds)
            BY ZenonT(60), <1>1 DEF SavedInv
        <3>1. NotBoth /\ r \in Known
            BY SMTT(60) DEF NotBoth, Known
        <3>2. ASSUME NEW u \in Thread, claim'[u] = r, pc'[u] = "removed" PROVE CollectedIn(r, creds')
            BY ZenonT(60), <1>5, <3>2 DEF ThreadsInv, ThreadInv
        <3> QED
            BY ZenonT(60), <1>4, <2>1, <3>1, <3>2 DEF Stored
    <2>4. ASSUME NEW u \in Thread, Granted(u) PROVE Granted(u)' /\ claim'[u] = claim[u]
        BY ZenonT(60), <1>0, <1>5, <2>4 DEF OtherThreads, Granted
    <2>5. TokenHeld(r, records)'
        BY ZenonT(200), <1>1, <2>0, <2>4 DEF RecordInv, TokenHeld
    <2>6. TokenHeld(r, stored.records)'
        BY Zenon, <1>4, <2>5 DEF TokenHeld
    <2> QED
        BY ZenonT(60), <2>2, <2>3, <2>5, <2>6
<1>10. \A r \in Record : RecordInv(r)'
    BY Zenon, <1>5, <1>8, <1>9 DEF RecordInv, ThreadsInv, IssuerInv
<1>11. stored'.creds \subseteq creds' /\ setting' \in Settings /\ crashes' \in Nat /\ reloads' \in Nat
    BY ZenonT(60), <1>1, <1>4
<1> HIDE DEF DeferredTypeOK, SaveIssuance
<1> QED
    BY ZenonT(60), <1>5, <1>7, <1>10, <1>11 DEF ThreadsInv

(* The sweep and the requests to collect.                                  *)
LEMMA BeginKeeps ==
    ASSUME DeferredInv, UNCHANGED setting, NEW t \in Thread, pc[t] = "idle",
           UNCHANGED <<walletVars, inFlight, issuance, claim, retried, answer, issuerVars, historyVars>>,
           NEW due, due \subseteq Stored, todo' = [todo EXCEPT ![t] = due],
           late' \in [Thread -> SUBSET Record],
           copies' = [copies EXCEPT ![t] = records], pc' = [pc EXCEPT ![t] = "sweep"]
    PROVE  DeferredInv'
<1> USE DEF DeferredInv, DeferredTypeOK
<1>0. ~Collecting(t) /\ pc[t] # "removed" /\ ~Granted(t)
    BY DEF Collecting, Granted
<1>1. /\ UNCHANGED <<records, older, creds, stored, gaveUp, lostTokens, crashes, reloads>>
      /\ UNCHANGED <<ticket, issued, valid, ghost>>
    BY Zenon DEF walletVars, historyVars, issuerVars
<1>2. due \subseteq Known /\ due \subseteq Record
    BY Zenon DEF Stored, Known, RecordInv, NewInv
<1>3. /\ todo' \in [Thread -> SUBSET Record] /\ copies' \in [Thread -> [Record -> DeferredRecord]]
      /\ pc' \in [Thread -> {"idle", "sweep", "refresh", "refreshed", "failed", "ask", "sent",
                             "found", "answered", "imported", "removed"}]
    BY Zenon, <1>2
<1>4. pc'[t] = "sweep" /\ todo'[t] = due /\ claim'[t] = claim[t]
    BY ZenonT(60)
<1>5. ~Collecting(t)'
    BY <1>4 DEF Collecting
<1>6. OtherThreads(t)
    <2>1. ASSUME NEW u \in Thread \ {t}
          PROVE  /\ pc'[u] = pc[u] /\ claim'[u] = claim[u] /\ answer'[u] = answer[u]
                 /\ todo'[u] = todo[u] /\ copies'[u] = copies[u]
        BY ZenonT(60)
    <2> QED
        BY Zenon, <2>1 DEF OtherThreads
<1>7. ThreadShape'
    <2>1. DeferredRecord' = DeferredRecord
        BY Zenon DEF DeferredRecord
    <2> QED
        BY Zenon, <1>3, <2>1 DEF ThreadShape
<1>8. ThreadsInv'
    BY ZenonT(60), <1>0, <1>1, <1>2, <1>4, <1>5, <1>6, KnownRests, ThreadEnds
<1>9. UsualStep
    BY ZenonT(60), <1>1, KnownRests, RecordsRest, StoredRests DEF UsualStep
<1>10. OtherShape'
    BY ZenonT(60), <1>1 DEF OtherShape
<1>11. DeferredTypeOK'
    BY ZenonT(60), <1>7, <1>10, WalletRests, IssuerShapeRests, ShapesNext
<1> QED
    BY ZenonT(60), <1>0, <1>1, <1>6, <1>8, <1>9, <1>11, WitnessesOf, UsualIssuer, Usual

LEMMA BeginSteps ==
    ASSUME DeferredInv, UNCHANGED setting,
           SweepBegin \/ \E t \in Thread, r \in Record : CollectDeferredNow(t, r)
    PROVE  DeferredInv'
<1>0. late \in [Thread -> SUBSET Record] /\ Stored \subseteq Record
    BY Zenon DEF DeferredInv, DeferredTypeOK, Stored
<1>1. CASE SweepBegin
    <2> DEFINE due == {r \in Stored : records[r].wait = 0}
    <2>1. due \subseteq Stored /\ {r \in due : Expired(r)} \subseteq Record
        BY <1>0
    <2>2. /\ pc[Poller] = "idle" /\ todo' = [todo EXCEPT ![Poller] = due]
          /\ late' = [late EXCEPT ![Poller] = {r \in due : Expired(r)}]
          /\ copies' = [copies EXCEPT ![Poller] = records]
          /\ pc' = [pc EXCEPT ![Poller] = "sweep"]
          /\ UNCHANGED <<walletVars, inFlight, issuance, claim, retried, answer, issuerVars, historyVars>>
        BY Zenon, <1>1 DEF SweepBegin
    <2>3. late' \in [Thread -> SUBSET Record]
        BY Zenon, <1>0, <2>1, <2>2
    <2> HIDE DEF due
    <2> QED
        BY ZenonT(60), <2>1, <2>2, <2>3, BeginKeeps
<1>2. ASSUME NEW t \in Thread, NEW r \in Record, CollectDeferredNow(t, r) PROVE DeferredInv'
    <2> DEFINE due == {r}
    <2>1. /\ pc[t] = "idle" /\ due \subseteq Stored /\ todo' = [todo EXCEPT ![t] = due]
          /\ late' = late /\ copies' = [copies EXCEPT ![t] = records]
          /\ pc' = [pc EXCEPT ![t] = "sweep"]
          /\ UNCHANGED <<walletVars, inFlight, issuance, claim, retried, answer, issuerVars, historyVars>>
        BY ZenonT(60), <1>2 DEF CollectDeferredNow
    <2>2. late' \in [Thread -> SUBSET Record]
        BY Zenon, <1>0, <2>1
    <2> HIDE DEF due
    <2> QED
        BY Zenon, <2>1, <2>2, BeginKeeps
<1> QED
    BY ZenonT(60), <1>1, <1>2

LEMMA DropKeeps ==
    ASSUME DeferredInv, NEW r \in Record, records' = [records EXCEPT ![r] = NoRecord],
           Save, gaveUp' = gaveUp \cup {r}, ThreadShape', ThreadsInv', WitnessesStay,
           UNCHANGED <<setting, creds, older, inFlight, issuance, issuerVars, lostTokens, crashes, reloads>>
    PROVE  DeferredInv'
<1>1. /\ WalletShape' /\ gaveUp' \subseteq Record /\ RecordsShrink
      /\ stored'.records = records' /\ stored'.creds = creds'
    BY Zenon, Drops
<1>2. UNCHANGED <<ticket, issued, ghost, valid>>
    BY Zenon DEF issuerVars
<1>3. UsualStep
    BY Zenon, <1>1, <1>2, KnownRests DEF UsualStep
<1>4. OtherShape'
    BY Zenon, <1>1 DEF OtherShape, DeferredInv, DeferredTypeOK
<1>5. DeferredTypeOK'
    BY Zenon, <1>1, <1>4, IssuerShapeRests, ShapesNext
<1> QED
    BY ZenonT(60), <1>2, <1>3, <1>5, UsualIssuer, Usual

LEMMA AbandonNowStep ==
    ASSUME DeferredInv, UNCHANGED setting, NEW r \in Record, AbandonDeferredNow(r)
    PROVE  DeferredInv'
<1> USE DEF AbandonDeferredNow
<1>1. UNCHANGED <<pc, claim, answer, todo, copies, valid>>
    BY Zenon DEF threadVars, issuerVars
<1>2. ThreadsInv'
    BY Zenon, <1>1, KnownRests, ThreadsRest
<1> QED
    BY Zenon, <1>2, ThreadShapeRests, DropKeeps

LEMMA DoneKeeps ==
    ASSUME DeferredInv, UNCHANGED <<setting, valid, issuance, creds, inFlight>>, NEW t \in Thread,
           NEW r, pc[t] = "sweep", Done(t, todo[t] \ {r})
    PROVE  ThreadShape' /\ ThreadsInv' /\ WitnessesStay
<1> DEFINE left == todo[t] \ {r}
<1>1. left \subseteq Record /\ left \subseteq Known
    BY Zenon DEF DeferredInv, ThreadInv, Known
<1>2. ~Collecting(t) /\ pc[t] # "removed" /\ ~Granted(t)
    BY DEF Collecting, Granted
<1> HIDE DEF left
<1>3. Done(t, left)
    BY Zenon DEF left
<1>4. /\ ThreadShape' /\ OtherThreads(t) /\ ~Collecting(t)' /\ claim' = claim /\ todo'[t] = left
    BY Zenon, <1>1, <1>3, DoneEnds
<1>5. ThreadsInv'
    BY ZenonT(60), <1>1, <1>2, <1>4, KnownRests, ThreadEnds
<1> QED
    BY ZenonT(60), <1>2, <1>4, <1>5, WitnessesOf

LEMMA SweepAbandonStep ==
    ASSUME DeferredInv, UNCHANGED setting, NEW t \in Thread, NEW r \in Record, SweepAbandon(t, r)
    PROVE  DeferredInv'
<1> USE DEF SweepAbandon
<1>1. UNCHANGED valid
    BY Zenon DEF issuerVars
<1>2. ThreadShape' /\ ThreadsInv' /\ WitnessesStay
    BY Zenon, <1>1, DoneKeeps
<1> QED
    BY Zenon, <1>2, DropKeeps

LEMMA AttemptStep ==
    ASSUME DeferredInv, UNCHANGED setting, NEW t \in Thread, NEW r \in Record, Attempt(t, r)
    PROVE  DeferredInv'
<1>0. /\ pc[t] = "sweep" /\ r \in todo[t]
      /\ UNCHANGED <<walletVars, issuance, issuerVars, historyVars>>
    BY Zenon DEF Attempt
<1>1. /\ UNCHANGED <<records, older, creds, stored, gaveUp, lostTokens, crashes, reloads>>
      /\ UNCHANGED <<ticket, issued, valid, ghost>>
    BY Zenon, <1>0 DEF walletVars, historyVars, issuerVars
<1>2. UsualStep
    BY ZenonT(60), <1>0, <1>1, KnownRests, RecordsRest, StoredRests DEF UsualStep
<1>3. ThreadShape' /\ ThreadsInv' /\ WitnessesStay /\ inFlight' \subseteq Record
    <2> USE DEF DeferredInv, DeferredTypeOK
    <2>1. CASE Done(t, todo[t] \ {r}) /\ UNCHANGED inFlight
        BY ZenonT(60), <1>0, <1>1, <2>1, DoneKeeps
    <2>2. CASE /\ Claimable(r)
               /\ inFlight' = inFlight \cup {r}
               /\ claim' = [claim EXCEPT ![t] = r]
               /\ todo' = [todo EXCEPT ![t] = @ \ {r}]
               /\ pc' = [pc EXCEPT ![t] =
                     IF copies[t][r].life = 0 /\ CanRefresh(r) THEN "refresh" ELSE "ask"]
               /\ UNCHANGED <<late, copies, retried, answer>>
        <3>0. ~Collecting(t) /\ pc[t] # "removed" /\ ~Granted(t)
            BY <1>0 DEF Collecting, Granted
        <3>1. /\ claim' \in [Thread -> Record] /\ todo' \in [Thread -> SUBSET Record]
              /\ pc' \in [Thread -> {"idle", "sweep", "refresh", "refreshed", "failed", "ask", "sent",
                                     "found", "answered", "imported", "removed"}]
            BY Zenon, <2>2
        <3>2. claim'[t] = r /\ todo'[t] \subseteq todo[t] /\ pc'[t] \in {"refresh", "ask"}
            BY ZenonT(60), <2>2
        <3>3. OtherThreads(t)
            <4>1. ASSUME NEW u \in Thread \ {t}
                  PROVE  pc'[u] = pc[u] /\ claim'[u] = claim[u] /\ todo'[u] = todo[u]
                BY ZenonT(60), <2>2
            <4> QED
                BY Zenon, <2>2, <4>1 DEF OtherThreads
        <3>4. r \in Known
            BY Zenon, <1>0 DEF ThreadInv
        <3>5. ThreadsInv'
            BY ZenonT(60), <1>0, <1>1, <2>2, <3>0, <3>2, <3>3, <3>4, ThreadClaims
        <3>6. DeferredRecord' = DeferredRecord
            BY Zenon DEF DeferredRecord
        <3> QED
            BY ZenonT(200), <2>2, <3>0, <3>1, <3>3, <3>5, <3>6, WitnessesOf DEF ThreadShape
    <2> QED
        BY ZenonT(60), <2>1, <2>2 DEF Attempt
<1>4. OtherShape'
    BY ZenonT(60), <1>0, <1>1, <1>3 DEF OtherShape, DeferredInv, DeferredTypeOK
<1>5. DeferredTypeOK'
    BY ZenonT(60), <1>0, <1>3, <1>4, WalletRests, IssuerShapeRests, ShapesNext
<1> QED
    BY ZenonT(60), <1>0, <1>1, <1>2, <1>3, <1>5, UsualIssuer, Usual

LEMMA TellStep ==
    ASSUME DeferredInv, UNCHANGED setting, NEW r \in Record, TellPending(r)
    PROVE  DeferredInv'
<1> USE DEF DeferredInv, DeferredTypeOK, TellPending
<1>0. /\ UNCHANGED <<pc, claim, answer, todo, copies, valid, ticket, issued>>
      /\ UNCHANGED <<records, creds, older, inFlight, gaveUp, lostTokens, crashes, reloads>>
    BY Zenon DEF threadVars, issuerVars, historyVars
<1>1. /\ issuance' \in [Record -> {"new", "added", "told"}]
      /\ \A q \in Record : issuance'[q] = "new" <=> issuance[q] = "new"
    BY ZenonT(60)
<1>2. Known' = Known
    BY Zenon, <1>1 DEF Known
<1>3. WalletShape' /\ stored'.records = records' /\ stored'.creds = creds'
    BY ZenonT(60), <1>0, SavedShape
<1>4. ThreadsInv'
    BY ZenonT(60), <1>0, <1>2, ThreadsRest
<1>5. UsualStep
    BY ZenonT(60), <1>0, <1>2, <1>3, RecordsRest DEF UsualStep
<1>6. IssuerInv'
    <2> SUFFICES ASSUME NEW q \in Record PROVE NewInv(q)' /\ IssuedInv(q)'
        BY ZenonT(60) DEF IssuerInv
    <2>1. NewInv(q) /\ IssuedInv(q)
        BY Zenon DEF RecordInv
    <2> QED
        BY ZenonT(60), <1>0, <1>1, <1>3, <2>1 DEF NewInv, IssuedInv
<1>7. OtherShape'
    BY ZenonT(60), <1>0, <1>1 DEF OtherShape
<1>8. DeferredTypeOK'
    BY ZenonT(60), <1>3, <1>7, ThreadShapeRests, IssuerShapeRests, ShapesNext
<1> QED
    BY ZenonT(60), <1>4, <1>5, <1>6, <1>8, ThreadShapeRests, Usual

--------------------------------------------------------------------------------
(* The token endpoint rotates the refresh token: until it is saved the     *)
(* thread is the one that holds it.                                        *)
LEMMA RefreshRequestStep ==
    ASSUME DeferredInv, UNCHANGED setting, NEW t \in Thread, RefreshRequest(t)
    PROVE  DeferredInv'
<1> USE DEF DeferredInv, DeferredTypeOK
<1>0. PICK r \in Record : r = claim[t]
    BY ZenonT(60)
<1>1. /\ Collecting(t) /\ pc[t] # "removed" /\ ~Granted(t) /\ pc[t] = "refresh"
      /\ r \in Known
    <2>1. Collecting(t) /\ pc[t] # "removed" /\ ~Granted(t) /\ pc[t] = "refresh"
        BY SMTT(60) DEF RefreshRequest, Collecting, Granted
    <2> QED
        BY ZenonT(60), <1>0, <2>1 DEF ThreadInv
<1>2. /\ UNCHANGED <<walletVars, records, older, creds, stored, inFlight, issuance, todo, late, copies,
                     claim, retried, ticket, issued, ghost, gaveUp, crashes, reloads>>
      /\ pc' = [pc EXCEPT ![t] = "refreshed"]
    BY ZenonT(60) DEF RefreshRequest, walletVars
<1> DEFINE Rotated == /\ Mine(t).refresh = valid[r] /\ valid[r] < setting.refreshes
                      /\ valid' = [valid EXCEPT ![r] = valid[r] + 1]
<1>3. \/ /\ Rotated /\ UNCHANGED lostTokens
         /\ \E kind \in {"granted", "unchecked"} : answer' = [answer EXCEPT ![t] = kind]
      \/ Rotated /\ answer' = [answer EXCEPT ![t] = "refused"] /\ lostTokens' = lostTokens \cup {r}
      \/ answer' = [answer EXCEPT ![t] = "refused"] /\ UNCHANGED <<valid, lostTokens>>
    BY SMTT(60), <1>0 DEF RefreshRequest
<1>4. /\ answer' \in [Thread -> {"none", "granted", "unchecked", "refused", "pending",
                                   "retryable", "invalid", "unauthorized", "credential"}]
      /\ \A u \in Thread \ {t} : answer'[u] = answer[u]
    <2>1. PICK kind \in {"granted", "unchecked", "refused"} : answer' = [answer EXCEPT ![t] = kind]
        BY SMTT(60), <1>3
    <2>2. kind \in {"none", "granted", "unchecked", "refused", "pending",
                    "retryable", "invalid", "unauthorized", "credential"}
        BY SMTT(60), <2>1
    <2> QED
        BY ZenonT(60), <2>1, <2>2
<1>5. "refreshed" \in {"refresh", "refreshed", "failed", "ask", "sent", "found", "answered",
                      "imported", "removed"}
    BY SMTT(60)
<1>6. ThreadShape' /\ OtherThreads(t) /\ pc'[t] = "refreshed" /\ Collecting(t)'
    BY ZenonT(60), <1>2, <1>4, <1>5, OneMoves
<1>7. /\ \A q \in Record \ {r} : valid'[q] = valid[q]
      /\ Rotated => valid'[r] = valid[r] + 1
      /\ ~Rotated => valid' = valid
    <2>1. Rotated => valid'[r] = valid[r] + 1 /\ \A q \in Record \ {r} : valid'[q] = valid[q]
        BY ZenonT(200)
    <2>2. Rotated \/ valid' = valid
        BY Zenon, <1>3
    <2> QED
        BY ZenonT(60), <2>1, <2>2
<1>8. valid' \in [Record -> 1..setting.refreshes]
    <2>1. CASE Rotated
        <3>1. valid[r] + 1 \in 1..setting.refreshes
            BY SMTT(60), <2>1, SettingType
        <3> QED
            BY Zenon, <2>1, <3>1
    <2>2. CASE ~Rotated
        BY ZenonT(60), <1>7, <2>2
    <2> QED
        BY Zenon, <2>1, <2>2
<1>9. \/ Granted(t)' /\ Rotated
      \/ ~Granted(t)' /\ Rotated /\ r \in lostTokens'
      \/ ~Granted(t)' /\ valid' = valid
    <2>1. /\ (\E kind \in {"granted", "unchecked"} : answer' = [answer EXCEPT ![t] = kind])
              => answer'[t] \in {"granted", "unchecked"}
          /\ answer' = [answer EXCEPT ![t] = "refused"] => answer'[t] = "refused"
        BY ZenonT(60)
    <2>2. answer'[t] = "refused" => ~Granted(t)'
        BY DEF Granted
    <2>3. answer'[t] \in {"granted", "unchecked"} => Granted(t)'
        BY ZenonT(60), <1>6 DEF Granted
    <2> QED
        BY ZenonT(60), <1>3, <2>1, <2>2, <2>3
<1>10. lostTokens \subseteq lostTokens' /\ lostTokens' \subseteq Record
    BY ZenonT(60), <1>3
<1> HIDE DEF DeferredTypeOK
<1>11. ThreadsInv'
    <2>1. Granted(t)' => Mine(t)'.refresh + 1 = valid'[claim[t]]
        BY ZenonT(60), <1>0, <1>2, <1>7, <1>9 DEF Mine
    <2>2. pc'[t] \notin {"imported", "removed"}
        BY SMTT(60), <1>6
    <2>3. claim'[t] = claim[t] /\ todo'[t] \subseteq todo[t] /\ Known \subseteq Known' /\ creds \subseteq creds'
        BY Zenon, <1>2, KnownRests
    <2> QED
        BY Zenon, <1>0, <1>1, <1>2, <1>6, <1>7, <2>1, <2>2, <2>3, ThreadMoves
<1>12. IssuerInv'
    BY ZenonT(60), <1>1, <1>2, <1>7, IssuerRests
<1>13. /\ stored'.creds \subseteq creds'
       /\ \A q \in Record : HeldInv(q)' /\ SavedInv(q)'
    <2>1. CredentialsIn'
        BY Zenon, <1>11 DEF ThreadsInv, ThreadInv, CredentialsIn
    <2>2. \A u \in Thread : pc[u] = "removed" => pc'[u] = "removed" /\ claim'[u] = claim[u]
        BY ZenonT(60), <1>1, <1>2, <1>6 DEF OtherThreads
    <2> QED
        BY ZenonT(60), <1>2, <2>1, <2>2, KnownRests, StoredRests, DeferralKept
<1>14. ASSUME NEW q \in Record PROVE TokenHeld(q, records)' /\ TokenHeld(q, stored.records)'
    <2>0. TokenHeld(q, records) /\ TokenHeld(q, stored.records)
        BY Zenon DEF RecordInv
    <2>1. ASSUME NEW u \in Thread, Granted(u) PROVE Granted(u)' /\ claim'[u] = claim[u]
        BY ZenonT(60), <1>1, <1>6, <2>1 DEF OtherThreads, Granted
    <2>2. CASE q # r \/ valid' = valid
        BY ZenonT(60), <1>2, <1>7, <1>10, <2>0, <2>1, <2>2 DEF TokenHeld
    <2>3. CASE q = r /\ Granted(t)'
        BY ZenonT(60), <1>0, <1>2, <2>3 DEF TokenHeld
    <2>4. CASE q = r /\ r \in lostTokens'
        BY Zenon, <2>4 DEF TokenHeld
    <2> QED
        BY ZenonT(60), <1>9, <2>2, <2>3, <2>4
<1>15. \A q \in Record : RecordInv(q)'
    BY ZenonT(60), <1>11, <1>12, <1>13, <1>14 DEF RecordInv, ThreadsInv, IssuerInv
<1>16. IssuerShape' /\ OtherShape'
    BY ZenonT(60), <1>2, <1>8, <1>10 DEF IssuerShape, OtherShape, DeferredTypeOK
<1>17. DeferredTypeOK'
    BY ZenonT(60), <1>2, <1>6, <1>16, WalletRests, ShapesNext
<1> QED
    BY ZenonT(60), <1>2, <1>11, <1>13, <1>15, <1>17 DEF ThreadsInv

--------------------------------------------------------------------------------
(* The rotated token is saved.                                             *)
LEMMA RenewedShape ==
    ASSUME DeferredInv, NEW t \in Thread, Granted(t), NEW rec \in DeferredRecord
    PROVE  /\ Renewed(t, rec) \in DeferredRecord
           /\ Renewed(t, rec).there = rec.there
           /\ Renewed(t, rec).refresh = valid[claim[t]]
<1>1. /\ valid[claim[t]] \in 1..setting.refreshes /\ setting \in Settings
      /\ Mine(t).refresh + 1 = valid[claim[t]] /\ Mine(t) \in DeferredRecord
    <2>1. /\ claim[t] \in Record /\ copies[t] \in [Record -> DeferredRecord]
          /\ valid \in [Record -> 1..setting.refreshes] /\ setting \in Settings /\ ThreadInv(t)
        BY Zenon DEF DeferredInv, DeferredTypeOK
    <2>2. Mine(t) \in DeferredRecord /\ valid[claim[t]] \in 1..setting.refreshes
        BY ZenonT(60), <2>1 DEF Mine
    <2> QED
        BY Zenon, <2>1, <2>2 DEF ThreadInv
<1> DEFINE life == IF answer[t] = "granted" THEN setting.life ELSE Mine(t).life
<1>2. life \in 0..setting.life /\ valid[claim[t]] \in 0..setting.refreshes
    BY SMTT(60), <1>1, SettingType DEF DeferredRecord
<1>3. Renewed(t, rec) = [rec EXCEPT !.refresh = valid[claim[t]], !.life = life]
    BY Zenon, <1>1 DEF Renewed
<1> HIDE DEF life
<1> QED
    BY Zenon, <1>2, <1>3 DEF DeferredRecord

LEMMA RefreshSaveStep ==
    ASSUME DeferredInv, UNCHANGED setting, NEW t \in Thread, RefreshSave(t)
    PROVE  DeferredInv'
<1> USE DEF DeferredInv
<1>0. PICK r \in Record : r = claim[t]
    BY Zenon DEF DeferredTypeOK
<1>1. Collecting(t) /\ pc[t] # "removed" /\ Granted(t)
    BY DEF RefreshSave, Collecting, Granted
<1> DEFINE rec == IF records[r].there THEN Renewed(t, records[r]) ELSE records[r]
           mine == Renewed(t, copies[t][r])
           x == IF answer[t] = "granted" THEN "ask" ELSE "failed"
<1>2. /\ records' = [records EXCEPT ![r] = rec]
      /\ copies' = [copies EXCEPT ![t][r] = mine]
      /\ pc' = [pc EXCEPT ![t] = x]
      /\ answer' = [answer EXCEPT ![t] = "none"]
      /\ UNCHANGED creds /\ Save
      /\ UNCHANGED <<older, inFlight, issuance, todo, late, claim, retried, issuerVars, historyVars>>
    <2>1. copies' = [copies EXCEPT ![t][claim[t]] = Renewed(t, copies[t][claim[t]])]
        BY Zenon DEF RefreshSave
    <2>2. copies' = [copies EXCEPT ![t][r] = mine]
        BY Zenon, <1>0, <2>1
    <2> QED
        BY Zenon, <1>0, <2>2 DEF RefreshSave
<1>3. UNCHANGED <<ticket, issued, ghost, valid, gaveUp, lostTokens, crashes, reloads>>
    BY Zenon, <1>2 DEF issuerVars, historyVars
<1>4. /\ rec \in DeferredRecord /\ rec.there = records[r].there
      /\ rec.there => rec.refresh = valid[r]
      /\ mine \in DeferredRecord
    <2>0. records \in [Record -> DeferredRecord] /\ copies \in [Thread -> [Record -> DeferredRecord]]
        BY Zenon DEF DeferredTypeOK
    <2>1. records[r] \in DeferredRecord /\ copies[t][r] \in DeferredRecord
        BY Zenon, <2>0
    <2>2. ASSUME NEW c \in DeferredRecord
          PROVE  /\ Renewed(t, c) \in DeferredRecord /\ Renewed(t, c).there = c.there
                 /\ Renewed(t, c).refresh = valid[r]
        BY ZenonT(60), <1>0, <1>1, RenewedShape
    <2>3. CASE records[r].there
        BY ZenonT(60), <2>1, <2>2, <2>3
    <2>4. CASE ~records[r].there
        BY ZenonT(60), <2>1, <2>2, <2>4
    <2> QED
        BY ZenonT(60), <2>3, <2>4
<1>5. x \in {"refresh", "failed", "ask"}
    BY SMTT(60)
<1> HIDE DEF rec, mine, x
<1>6. /\ records' \in [Record -> DeferredRecord]
      /\ \A q \in Record : records'[q].there = records[q].there
      /\ \A q \in Record \ {r} : records'[q] = records[q]
      /\ records'[r].there => records'[r].refresh = valid[r]
    BY ZenonT(200), <1>2, <1>4 DEF DeferredTypeOK
<1>7. WalletShape' /\ stored'.records = records' /\ stored'.creds = creds'
    <2>1. creds' \subseteq Record \X Nat
        BY Zenon, <1>2 DEF DeferredTypeOK
    <2> QED
        BY Zenon, <1>2, <1>6, <2>1, SavedShape
<1>8. copies' \in [Thread -> [Record -> DeferredRecord]] /\ \A u \in Thread \ {t} : copies'[u] = copies[u]
    <2> DEFINE row == [copies[t] EXCEPT ![r] = mine]
    <2>1. copies' = [copies EXCEPT ![t] = row]
        BY Zenon, <1>2
    <2>2. row \in [Record -> DeferredRecord]
        BY ZenonT(60), <1>4 DEF DeferredTypeOK
    <2> HIDE DEF row
    <2> QED
        BY Zenon, <2>1, <2>2 DEF DeferredTypeOK
<1>9. /\ pc' \in [Thread -> {"idle", "sweep", "refresh", "refreshed", "failed", "ask", "sent",
                          "found", "answered", "imported", "removed"}]
      /\ pc'[t] = x
      /\ \A u \in Thread \ {t} : pc'[u] = pc[u]
    <2>1. x \in {"idle", "sweep", "refresh", "refreshed", "failed", "ask", "sent",
                 "found", "answered", "imported", "removed"}
        BY SMTT(60), <1>5
    <2> QED
        BY ZenonT(60), <1>2, <2>1 DEF DeferredTypeOK
<1>10. /\ answer' \in [Thread -> {"none", "granted", "unchecked", "refused", "pending",
                                   "retryable", "invalid", "unauthorized", "credential"}]
       /\ \A u \in Thread \ {t} : answer'[u] = answer[u]
    BY ZenonT(60), <1>2 DEF DeferredTypeOK
<1>11. Collecting(t)' /\ ~Granted(t)' /\ pc'[t] \notin {"imported", "removed"}
    BY SMTT(60), <1>5, <1>9 DEF Collecting, Granted
<1>12. DeferredRecord' = DeferredRecord
    BY Zenon DEF DeferredRecord
<1>13. ThreadShape' /\ OtherThreads(t)
    BY ZenonT(60), <1>2, <1>8, <1>9, <1>10, <1>12 DEF ThreadShape, OtherThreads, DeferredTypeOK
<1>14. Known' = Known
    BY Zenon, <1>2, KnownRests
<1>15. ThreadsInv'
    <2>1. claim'[t] = claim[t] /\ todo'[t] \subseteq todo[t] /\ Known \subseteq Known' /\ creds \subseteq creds'
        BY Zenon, <1>2, <1>14
    <2> QED
        BY ZenonT(60), <1>1, <1>2, <1>3, <1>11, <1>13, <2>1, ThreadMoves
<1>16. IssuerInv'
    BY ZenonT(60), <1>2, <1>3, <1>6, <1>7, IssuerRests
<1>17. /\ stored'.creds \subseteq creds'
       /\ \A q \in Record : HeldInv(q)' /\ SavedInv(q)'
    <2>1. CredentialsIn'
        BY Zenon, <1>15 DEF ThreadsInv, ThreadInv, CredentialsIn
    <2>2. \A u \in Thread : pc[u] = "removed" => pc'[u] = "removed" /\ claim'[u] = claim[u]
        BY ZenonT(60), <1>1, <1>2, <1>9
    <2> QED
        BY ZenonT(60), <1>2, <1>3, <1>6, <1>7, <1>14, <2>1, <2>2, DeferralKept
<1>18. ASSUME NEW q \in Record PROVE TokenHeld(q, records)' /\ TokenHeld(q, stored.records)'
    <2>0. TokenHeld(q, records)
        BY Zenon DEF RecordInv
    <2>1. ASSUME NEW u \in Thread, Granted(u), claim[u] # r PROVE Granted(u)' /\ claim'[u] = claim[u]
        BY ZenonT(60), <1>0, <1>2, <1>9, <1>10, <2>1 DEF Granted
    <2>2. CASE q # r
        BY ZenonT(60), <1>3, <1>6, <1>7, <2>0, <2>1, <2>2 DEF TokenHeld
    <2>3. CASE q = r
        BY ZenonT(60), <1>3, <1>6, <1>7, <2>3 DEF TokenHeld
    <2> QED
        BY Zenon, <2>2, <2>3
<1>19. \A q \in Record : RecordInv(q)'
    BY Zenon, <1>15, <1>16, <1>17, <1>18 DEF RecordInv, ThreadsInv, IssuerInv
<1>20. IssuerShape' /\ OtherShape'
    BY ZenonT(60), <1>2, <1>3 DEF IssuerShape, OtherShape, DeferredTypeOK
<1>21. DeferredTypeOK'
    BY ZenonT(60), <1>7, <1>13, <1>20, ShapesNext
<1> QED
    BY ZenonT(60), <1>3, <1>15, <1>17, <1>19, <1>21 DEF ThreadsInv

(* A reload drops the unsaved credentials, the deferrals stay.             *)
LEMMA ReloadStep ==
    ASSUME DeferredInv, UNCHANGED setting, DeferredReload
    PROVE  DeferredInv'
<1> USE DEF DeferredInv
<1>1. setting.reloads # 0 /\ reloads' \in Nat
    BY SettingType DEF DeferredReload
<1>2. /\ creds' = stored.creds
      /\ UNCHANGED <<records, older, stored, inFlight, issuance, gaveUp, lostTokens, crashes>>
      /\ UNCHANGED <<pc, todo, late, copies, claim, retried, answer, ticket, issued, ghost, valid>>
    BY Zenon DEF DeferredReload, threadVars, issuerVars
<1>3. Known' = Known
    BY Zenon, <1>2, KnownRests
<1>4. ThreadsInv'
    BY ZenonT(60), <1>1, <1>2, <1>3, ThreadsRest
<1>5. IssuerInv'
    BY ZenonT(60), <1>2, IssuerRests
<1>6. ASSUME NEW r \in Record
      PROVE  HeldInv(r)' /\ SavedInv(r)' /\ TokenHeld(r, records)' /\ TokenHeld(r, stored.records)'
    <2>1. RecordInv(r)
        BY Zenon
    <2> QED
        BY ZenonT(60), <1>1, <1>2, <1>3, <2>1
           DEF RecordInv, HeldInv, SavedInv, TokenHeld, Granted, CollectedIn, Stored, NotBoth
<1>7. \A r \in Record : RecordInv(r)'
    BY ZenonT(60), <1>4, <1>5, <1>6 DEF RecordInv, ThreadsInv, IssuerInv
<1>8. DeferredTypeOK'
    <2>1. DeferredRecord' = DeferredRecord
        BY Zenon DEF DeferredRecord
    <2>2. creds' \subseteq Record \X Nat
        BY ZenonT(60), <1>2 DEF DeferredTypeOK
    <2> QED
        BY ZenonT(60), <1>2, <2>1, <2>2 DEF DeferredTypeOK
<1> QED
    BY ZenonT(60), <1>1, <1>2, <1>4, <1>7, <1>8 DEF ThreadsInv

(* Time passes.                                                            *)
LEMMA TickStep ==
    ASSUME DeferredInv, UNCHANGED setting, Tick
    PROVE  DeferredInv'
<1> USE DEF DeferredInv
<1>1. /\ records' = [r \in Record |-> Aged(records[r])]
      /\ stored' = [stored EXCEPT !.records = [r \in Record |-> Aged(stored.records[r])]]
      /\ copies' = [t \in Thread |-> [r \in Record |-> Aged(copies[t][r])]]
      /\ UNCHANGED <<older, creds, inFlight, issuance, pc, todo, late, claim, retried, answer>>
      /\ UNCHANGED <<ticket, issued, ghost, valid, gaveUp, lostTokens, crashes, reloads>>
    BY Zenon DEF Tick, AllAged, issuerVars, historyVars
<1>2. ASSUME NEW c \in DeferredRecord
      PROVE  Aged(c) \in DeferredRecord /\ Aged(c).there = c.there /\ Aged(c).refresh = c.refresh
    BY Zenon, RecordKept
<1>3. /\ records' \in [Record -> DeferredRecord]
      /\ \A r \in Record : /\ records'[r].there = records[r].there
                           /\ records'[r].refresh = records[r].refresh
    BY ZenonT(60), <1>1, <1>2 DEF DeferredTypeOK
<1>4. /\ stored'.records \in [Record -> DeferredRecord] /\ stored'.creds = stored.creds
      /\ stored' \in [records: [Record -> DeferredRecord], creds: SUBSET (Record \X Nat)]
      /\ \A r \in Record : /\ stored'.records[r].there = stored.records[r].there
                           /\ stored'.records[r].refresh = stored.records[r].refresh
    <2> DEFINE aged == [r \in Record |-> Aged(stored.records[r])]
    <2>1. stored \in [records: [Record -> DeferredRecord], creds: SUBSET (Record \X Nat)]
        BY Zenon DEF DeferredTypeOK
    <2>2. stored.records \in [Record -> DeferredRecord]
        BY <2>1
    <2>3. /\ aged \in [Record -> DeferredRecord]
          /\ \A r \in Record : /\ aged[r].there = stored.records[r].there
                               /\ aged[r].refresh = stored.records[r].refresh
        BY Zenon, <1>2, <2>2
    <2>4. stored' = [stored EXCEPT !.records = aged]
        BY Zenon, <1>1
    <2> HIDE DEF aged
    <2>5. stored'.records = aged /\ stored'.creds = stored.creds
        BY SMTT(60), <2>1, <2>4
    <2>6. stored' \in [records: [Record -> DeferredRecord], creds: SUBSET (Record \X Nat)]
        BY SMTT(60), <2>1, <2>3, <2>4
    <2> QED
        BY Zenon, <2>3, <2>5, <2>6
<1>5. /\ copies' \in [Thread -> [Record -> DeferredRecord]]
      /\ \A t \in Thread : copies'[t][claim[t]].refresh = copies[t][claim[t]].refresh
    <2> DEFINE row(t) == [r \in Record |-> Aged(copies[t][r])]
    <2>1. ASSUME NEW t \in Thread
          PROVE  /\ row(t) \in [Record -> DeferredRecord]
                 /\ row(t)[claim[t]].refresh = copies[t][claim[t]].refresh
        <3>1. copies[t] \in [Record -> DeferredRecord] /\ claim[t] \in Record
            BY Zenon DEF DeferredTypeOK
        <3>2. PICK c \in Record : c = claim[t]
            BY Zenon, <3>1
        <3> QED
            BY ZenonT(60), <1>2, <3>1, <3>2
    <2>2. copies' = [t \in Thread |-> row(t)]
        BY Zenon, <1>1
    <2> HIDE DEF row
    <2> QED
        BY Zenon, <2>1, <2>2
<1>6. Known' = Known
    BY Zenon, <1>1, KnownRests
<1>7. UsualStep /\ WitnessesStay
    <2>1. StoredStays
        BY Zenon, <1>1, <1>4 DEF StoredStays
    <2>2. RecordsShrink
        BY Zenon, <1>3 DEF RecordsShrink
    <2> QED
        BY Zenon, <1>1, <1>6, <2>1, <2>2 DEF UsualStep, WitnessesStay
<1>8. ThreadsInv'
    BY ZenonT(60), <1>1, <1>5, <1>6, ThreadsRest
<1>9. DeferredTypeOK'
    <2>1. DeferredRecord' = DeferredRecord
        BY Zenon DEF DeferredRecord
    <2> QED
        BY ZenonT(60), <1>1, <1>3, <1>4, <1>5, <2>1 DEF DeferredTypeOK
<1> QED
    BY ZenonT(60), <1>1, <1>7, <1>8, <1>9, UsualIssuer, Usual

(* A deferral is added, and a full wallet drops its oldest ones.           *)
LEMMA AddStep ==
    ASSUME DeferredInv, UNCHANGED setting, NEW r \in Record, AddDeferredIssuance(r)
    PROVE  DeferredInv'
<1> USE DEF DeferredInv
<1>0. issuance[r] = "new" /\ NewInv(r) /\ IssuedInv(r)
    BY Zenon DEF AddDeferredIssuance, RecordInv
<1>1. PICK n \in SUBSET Record : n = {q \in Record : issuance[q] # "new"}
    BY Zenon
<1>3. PICK full \in SUBSET Record : full = Evicted
    BY Zenon DEF Evicted, Stored
<1>4. /\ issuance' = [issuance EXCEPT ![r] = "added"]
      /\ records' = [q \in Record |-> IF q = r THEN NewRecord
                                      ELSE IF q \in full THEN NoRecord ELSE records[q]]
      /\ older' = [older EXCEPT ![r] = n]
      /\ ticket' = [ticket EXCEPT ![r] = "waiting"]
      /\ gaveUp' = gaveUp \cup full
      /\ UNCHANGED <<creds, stored, inFlight, issued, ghost, valid, lostTokens, crashes, reloads>>
      /\ UNCHANGED <<pc, todo, late, copies, claim, retried, answer>>
    BY Zenon, <1>1, <1>3 DEF AddDeferredIssuance, threadVars
<1>5. /\ NoRecord \in DeferredRecord /\ NewRecord \in DeferredRecord
      /\ ~NoRecord.there /\ NewRecord.refresh = 1 /\ NewRecord.there
    BY Zenon, RecordShapes DEF NewRecord
<1>6. /\ records'[r] = NewRecord
      /\ \A q \in Record \ {r} : records'[q] = IF q \in full THEN NoRecord ELSE records[q]
    BY ZenonT(60), <1>4
<1>7. DeferredTypeOK'
    <2>1. DeferredRecord' = DeferredRecord
        BY Zenon DEF DeferredRecord
    <2>2. records' \in [Record -> DeferredRecord]
        <3>1. records \in [Record -> DeferredRecord]
            BY Zenon DEF DeferredTypeOK
        <3>2. \A q \in Record : (IF q = r THEN NewRecord ELSE IF q \in full THEN NoRecord ELSE records[q])
                                   \in DeferredRecord
            BY ZenonT(60), <1>5, <3>1
        <3> QED
            BY ZenonT(60), <1>4, <3>2
    <2>3. /\ issuance' \in [Record -> {"new", "added", "told"}]
          /\ older' \in [Record -> SUBSET Record]
          /\ ticket' \in [Record -> {"none", "waiting", "ready", "collected", "expired"}]
          /\ gaveUp' \subseteq Record
        BY ZenonT(60), <1>4 DEF DeferredTypeOK
    <2> QED
        BY ZenonT(60), <1>4, <2>1, <2>2, <2>3 DEF DeferredTypeOK
<1>8. /\ issuance'[r] = "added" /\ ticket'[r] = "waiting" /\ r \in Known'
      /\ \A q \in Record \ {r} : /\ issuance'[q] = issuance[q] /\ ticket'[q] = ticket[q]
                                 /\ q \in Known' => q \in Known
      /\ Known \subseteq Known'
    <2>1. /\ issuance'[r] = "added" /\ ticket'[r] = "waiting"
          /\ \A q \in Record \ {r} : issuance'[q] = issuance[q] /\ ticket'[q] = ticket[q]
        BY ZenonT(60), <1>4 DEF DeferredTypeOK
    <2>2. "added" # "new"
        OBVIOUS
    <2> QED
        BY ZenonT(60), <1>0, <2>1, <2>2 DEF Known
<1>9. ThreadsInv'
    BY Zenon, <1>4, <1>8, ThreadsRest
<1>10. ASSUME NEW q \in Record \ {r} PROVE RecordInv(q)'
    <2>1. RecordInv(q)
        BY Zenon
    <2>2. NewInv(q)' /\ IssuedInv(q)'
        BY ZenonT(60), <1>4, <1>5, <1>6, <1>8, <2>1 DEF RecordInv, NewInv, IssuedInv
    <2>3. HeldInv(q)' /\ SavedInv(q)'
        BY ZenonT(60), <1>4, <1>5, <1>6, <1>8, <2>1
           DEF RecordInv, HeldInv, SavedInv, NotBoth, CollectedIn, Stored
    <2>4. TokenHeld(q, records)' /\ TokenHeld(q, stored.records)'
        BY ZenonT(60), <1>4, <1>5, <1>6, <2>1 DEF RecordInv, TokenHeld, Granted
    <2> QED
        BY Zenon, <1>9, <2>2, <2>3, <2>4 DEF RecordInv, ThreadsInv
<1>11. RecordInv(r)'
    <2>1. NewInv(r)' /\ SavedInv(r)'
        BY SMTT(120), <1>8 DEF NewInv, SavedInv
    <2>2. IssuedInv(r)'
        BY SMTT(60), <1>0, <1>4, <1>8 DEF NewInv, IssuedInv
    <2>3. HeldInv(r)'
        BY Zenon, <1>5, <1>6 DEF HeldInv, Stored
    <2>4. TokenHeld(r, records)' /\ TokenHeld(r, stored.records)'
        BY ZenonT(60), <1>0, <1>4, <1>5, <1>6 DEF TokenHeld, NewInv
    <2> QED
        BY ZenonT(60), <1>9, <2>1, <2>2, <2>3, <2>4 DEF RecordInv, ThreadsInv
<1>12. \A q \in Record : RecordInv(q)'
    BY Zenon, <1>10, <1>11
<1> QED
    BY ZenonT(60), <1>4, <1>7, <1>9, <1>12 DEF ThreadsInv

--------------------------------------------------------------------------------
(* A restart finds what was saved.                                         *)
LEMMA CrashStep ==
    ASSUME DeferredInv, UNCHANGED setting, Crash
    PROVE  DeferredInv'
<1> USE DEF DeferredInv
<1>1. setting.crashes # 0 /\ crashes' \in Nat /\ (NotBoth => setting.reloads = 0)
    BY SettingType DEF Crash, NotBoth
<1>2. /\ records' = stored.records /\ creds' = stored.creds /\ inFlight' = {}
      /\ issuance' = [r \in Record |-> IF issuance[r] = "added" THEN "told" ELSE issuance[r]]
      /\ lostTokens' = lostTokens \cup {claim[t] : t \in {u \in Thread : Granted(u)}}
      /\ gaveUp' = gaveUp \cup {r \in Record : issuance[r] = "added" /\ ~stored.records[r].there}
      /\ pc' = [t \in Thread |-> "idle"] /\ todo' = [t \in Thread |-> {}] /\ late' = [t \in Thread |-> {}]
      /\ copies' = [t \in Thread |-> [r \in Record |-> NoRecord]]
      /\ retried' = [t \in Thread |-> FALSE] /\ answer' = [t \in Thread |-> "none"]
      /\ UNCHANGED <<older, stored, claim, ticket, issued, valid, reloads>>
    BY Zenon DEF Crash, Granted
<1>3. ghost' \in [Record -> {"none", "sent", "found"}]
    <2> DEFINE Sent(r, t) == claim[t] = r /\ pc[t] \in {"sent", "found"}
               after(r) == IF \E t \in Thread : Sent(r, t)
                           THEN pc[CHOOSE t \in Thread : Sent(r, t)] ELSE ghost[r]
    <2>1. ghost' = [r \in Record |-> after(r)]
        BY Zenon DEF Crash
    <2>2. ASSUME NEW r \in Record PROVE after(r) \in {"none", "sent", "found"}
        <3>1. CASE \E t \in Thread : Sent(r, t)
            <4>1. PICK t : t = CHOOSE u \in Thread : Sent(r, u)
                OBVIOUS
            <4>2. Sent(r, t)
                BY Zenon, <3>1, <4>1
            <4>3. after(r) = pc[t]
                BY ZenonT(60), <3>1, <4>1
            <4> QED
                BY ZenonT(60), <4>2, <4>3
        <3>2. CASE ~\E t \in Thread : Sent(r, t)
            BY ZenonT(60), <3>2 DEF DeferredTypeOK
        <3> QED
            BY Zenon, <3>1, <3>2
    <2> HIDE DEF after
    <2> QED
        BY Zenon, <2>1, <2>2
<1>4. /\ \A r \in Record : /\ issuance[r] = "new" <=> issuance'[r] = "new"
                           /\ issuance'[r] = "told" => issuance[r] \in {"added", "told"}
                           /\ r \in Known' => issuance[r] \in {"added", "told"}
      /\ issuance' \in [Record -> {"new", "added", "told"}]
    <2>1. issuance \in [Record -> {"new", "added", "told"}]
        BY Zenon DEF DeferredTypeOK
    <2> QED
        BY SMTT(60), <1>2, <2>1 DEF Known
<1>5. DeferredTypeOK'
    <2>1. DeferredRecord' = DeferredRecord /\ NoRecord \in DeferredRecord
        BY Zenon, RecordShapes DEF DeferredRecord
    <2>2. /\ stored.records \in [Record -> DeferredRecord] /\ stored.creds \subseteq Record \X Nat
          /\ stored \in [records: [Record -> DeferredRecord], creds: SUBSET (Record \X Nat)]
        <3>1. stored \in [records: [Record -> DeferredRecord], creds: SUBSET (Record \X Nat)]
            BY Zenon DEF DeferredTypeOK
        <3> QED
            BY SMTT(60), <3>1
    <2>3. WalletShape' /\ IssuerShape'
        BY ZenonT(60), <1>2, <1>3, <2>1, <2>2 DEF WalletShape, IssuerShape, DeferredTypeOK
    <2>4. OtherShape'
        <3>1. \A t \in Thread : claim[t] \in Record
            BY Zenon DEF DeferredTypeOK
        <3>2. lostTokens' \subseteq Record
            <4>1. lostTokens \subseteq Record
                BY Zenon DEF DeferredTypeOK
            <4>2. ASSUME NEW q \in {claim[t] : t \in {u \in Thread : Granted(u)}} PROVE q \in Record
                BY Zenon, <3>1
            <4> QED
                BY ZenonT(60), <1>2, <4>1, <4>2
        <3>3. gaveUp' \subseteq Record /\ inFlight' \subseteq Record
            BY ZenonT(60), <1>2 DEF DeferredTypeOK
        <3> QED
            BY ZenonT(60), <1>4, <3>2, <3>3 DEF OtherShape
    <2>5. ThreadShape'
        BY ZenonT(60), <1>2, <2>1 DEF ThreadShape, DeferredTypeOK
    <2> QED
        BY ZenonT(60), <2>3, <2>4, <2>5, ShapesNext
<1>6. ThreadsInv'
    <2>1. \A t \in Thread : /\ ~Collecting(t)' /\ ~Granted(t)' /\ todo'[t] = {}
                            /\ pc'[t] \notin {"imported", "removed"}
        BY <1>2 DEF Collecting, Granted
    <2> QED
        BY ZenonT(60), <1>2, <2>1 DEF ThreadsInv, ThreadInv, Alone, ClaimInv
<1>7. ASSUME NEW r \in Record PROVE RecordInv(r)'
    <2>1. RecordInv(r)
        BY Zenon
    <2>2. NewInv(r)' /\ IssuedInv(r)'
        BY ZenonT(60), <1>2, <1>4, <2>1 DEF RecordInv, NewInv, IssuedInv
    <2>3. setting.reloads = 0 /\ issuance[r] \in {"added", "told"} =>
              stored.records[r].there \/ r \in gaveUp' \/ CollectedIn(r, stored.creds)
        BY Zenon, <1>2, <2>1 DEF RecordInv, SavedInv
    <2>4. HeldInv(r)' /\ SavedInv(r)'
        BY Zenon, <1>1, <1>2, <1>4, <2>3 DEF HeldInv, SavedInv, NotBoth, CollectedIn, Stored
    <2>5. (\E t \in Thread : claim[t] = r /\ Granted(t)) => r \in lostTokens'
        BY Zenon, <1>2
    <2>6. TokenHeld(r, records)' /\ TokenHeld(r, stored.records)'
        BY ZenonT(60), <1>2, <2>1, <2>5 DEF RecordInv, TokenHeld
    <2> QED
        BY ZenonT(60), <1>6, <2>2, <2>4, <2>6 DEF RecordInv, ThreadsInv
<1>8. stored'.creds \subseteq creds'
    BY Zenon, <1>2
<1> QED
    BY ZenonT(60), <1>1, <1>2, <1>5, <1>6, <1>7, <1>8 DEF ThreadsInv

LEMMA InitInv == DeferredInit => DeferredInv
<1> SUFFICES ASSUME DeferredInit PROVE DeferredInv
    OBVIOUS
<1> USE DEF DeferredInit
<1>1. NoRecord \in DeferredRecord /\ ~NoRecord.there
    BY ZenonT(60), RecordShapes
<1>2. stored.records = [r \in Record |-> NoRecord] /\ stored.creds = {}
    BY SMTT(60)
<1>3. stored \in [records: [Record -> DeferredRecord], creds: SUBSET (Record \X Nat)]
    BY SMTT(60), <1>1, <1>2
<1>4. DeferredTypeOK
    <2>1. 1 \in 1..setting.refreshes
        BY SettingType
    <2>2. (CHOOSE r \in Record : TRUE) \in Record
        BY Zenon
    <2>3. WalletShape
        BY Zenon, <1>1, <1>3 DEF WalletShape
    <2>4. ThreadShape
        BY Zenon, <1>1, <2>2 DEF ThreadShape
    <2>5. IssuerShape
        BY Zenon, <2>1 DEF IssuerShape
    <2>6. OtherShape
        BY Zenon DEF OtherShape
    <2> QED
        BY ZenonT(60), <2>3, <2>4, <2>5, <2>6, Shapes
<1>5. ASSUME NEW r \in Record PROVE RecordInv(r)
    <2>1. /\ ~records[r].there /\ ~stored.records[r].there /\ issuance[r] = "new"
          /\ issued[r] = 0 /\ ticket[r] = "none" /\ valid[r] = 1 /\ r \notin inFlight
        BY ZenonT(60), <1>1, <1>2
    <2>2. IssuedInv(r) /\ SavedInv(r) /\ HeldInv(r)
        BY <2>1 DEF IssuedInv, SavedInv, HeldInv, Known
    <2> QED
        BY Zenon, <2>1, <2>2 DEF RecordInv, NewInv, TokenHeld, ClaimInv
<1>6. ASSUME NEW t \in Thread PROVE ThreadInv(t) /\ ~Collecting(t)
    <2>1. ~Collecting(t) /\ ~Granted(t) /\ todo[t] = {} /\ pc[t] \notin {"imported", "removed"}
        BY SMTT(60) DEF Collecting, Granted
    <2> QED
        BY ZenonT(60), <2>1 DEF ThreadInv
<1>7. crashes \in Nat /\ reloads \in Nat /\ stored.creds \subseteq creds
    BY <1>2
<1> QED
    BY ZenonT(60), <1>4, <1>5, <1>6, <1>7 DEF DeferredInv, Alone

LEMMA CollectStep ==
    ASSUME DeferredInv, UNCHANGED setting, NEW t \in Thread, Collect(t)
    PROVE  DeferredInv'
BY ZenonT(60), RefreshRequestStep, RefreshSaveStep, RefreshFailedStep, AskStep, LookupStep, ClaimStep,
   ErrorStep, ImportStep, RemoveStep, SaveIssuanceStep DEF Collect

LEMMA SweepStep ==
    ASSUME DeferredInv, UNCHANGED setting, NEW t \in Thread, Sweep(t)
    PROVE  DeferredInv'
BY Zenon, SweepAbandonStep, AttemptStep DEF Sweep

LEMMA DeferredStep == DeferredInv /\ [DeferredNext]_deferredVars => DeferredInv'
<1> SUFFICES ASSUME DeferredInv, [DeferredNext]_deferredVars PROVE DeferredInv'
    OBVIOUS
<1>1. CASE DeferredNext
    <2>1. UNCHANGED setting
        BY Zenon, <1>1 DEF DeferredNext
    <2>2. ASSUME NEW r \in Record,
                 \/ AddDeferredIssuance(r) \/ TellPending(r) \/ AbandonDeferredNow(r)
                 \/ CredentialReady(r) \/ TicketExpires(r) \/ GhostRequest(r)
                 \/ \E t \in Thread : CollectDeferredNow(t, r)
          PROVE  DeferredInv'
        BY ZenonT(60), <2>1, <2>2, AddStep, TellStep, AbandonNowStep, IssuerSteps, BeginSteps
    <2>3. ASSUME SweepBegin \/ DeferredReload \/ Crash \/ Tick PROVE DeferredInv'
        BY ZenonT(60), <2>1, <2>3, BeginSteps, ReloadStep, CrashStep, TickStep
    <2>4. ASSUME NEW t \in Thread, Sweep(t) \/ Collect(t) PROVE DeferredInv'
        BY ZenonT(60), <2>1, <2>4, SweepStep, CollectStep
    <2> QED
        BY Zenon, <1>1, <2>2, <2>3, <2>4 DEF DeferredNext
<1>2. CASE UNCHANGED deferredVars
    <2>1. /\ UNCHANGED <<setting, records, older, creds, stored, inFlight, issuance>>
          /\ UNCHANGED <<pc, todo, late, copies, claim, retried, answer>>
          /\ UNCHANGED <<ticket, issued, ghost, valid, gaveUp, lostTokens, crashes, reloads>>
        BY ZenonT(60), <1>2 DEF deferredVars
    <2>2. DeferredTypeOK'
        BY ZenonT(60), <2>1 DEF DeferredInv, DeferredTypeOK, DeferredRecord
    <2>3. Known' = Known /\ RecordsShrink /\ StoredStays /\ WitnessesStay
        BY Zenon, <2>1, KnownRests, RecordsRest, StoredRests DEF WitnessesStay
    <2>4. UsualStep /\ ThreadsInv'
        BY Zenon, <2>1, <2>3, ThreadsRest DEF UsualStep
    <2> QED
        BY ZenonT(60), <2>1, <2>2, <2>3, <2>4, UsualIssuer, Usual
<1> QED
    BY Zenon, <1>1, <1>2

LEMMA DeferredInvariant == DeferredSpec => []DeferredInv
BY InitInv, DeferredStep, PTL DEF DeferredSpec

--------------------------------------------------------------------------------
(* claimDeferred and handleDeferredCredential: for any number of records,  *)
(* threads, reloads and restarts, a deferral is collected by one thread at *)
(* a time, a record is claimed exactly while a thread collects it, and an  *)
(* issuer that issues a transaction once signs one credential for it.      *)
THEOREM DeferralCollectedOnce == DeferredSpec => []CollectedOnce
<1>1. DeferredInv => CollectedOnce
    <2> SUFFICES ASSUME DeferredInv PROVE CollectedOnce
        OBVIOUS
    <2> USE DEF DeferredInv
    <2>1. \A t, u \in Thread : Collecting(t) /\ Collecting(u) /\ claim[t] = claim[u] => t = u
        BY Zenon DEF Alone
    <2>2. inFlight = {claim[t] : t \in {u \in Thread : Collecting(u)}}
        <3>1. ASSUME NEW r \in inFlight PROVE \E t \in {u \in Thread : Collecting(u)} : r = claim[t]
            <4>1. ClaimInv(r)
                BY ZenonT(60) DEF DeferredTypeOK, RecordInv
            <4> QED
                BY ZenonT(60), <4>1 DEF ClaimInv
        <3>2. ASSUME NEW t \in Thread, Collecting(t) PROVE claim[t] \in inFlight
            BY ZenonT(60), <3>2 DEF ThreadInv
        <3> QED
            BY Zenon, <3>1, <3>2
    <2>3. IssuedOnce
        BY ZenonT(60) DEF IssuedOnce, RecordInv, IssuedInv
    <2> QED
        BY ZenonT(60), <2>1, <2>2, <2>3 DEF CollectedOnce, ClaimsMatchCollections
<1> QED
    BY <1>1, DeferredInvariant, PTL

(* refreshDeferredAccessToken: a stored deferral has the refresh token the *)
(* issuer accepts, unless a thread is about to save it or the answer that  *)
(* carried it never arrived.                                               *)
THEOREM DeferralTokenIsCurrent == DeferredSpec => []RefreshTokenIsCurrent
<1>1. DeferredInv => RefreshTokenIsCurrent
    BY Zenon DEF DeferredInv, RefreshTokenIsCurrent, RecordInv, TokenHeld, Stored, Granted
<1> QED
    BY <1>1, DeferredInvariant, PTL

(* recordDeferredIssuance, saveIssuance: in a wallet that is reloaded or   *)
(* restarted, any number of times but not both, a deferral that was        *)
(* reported stays collectable until it was collected or given up.          *)
THEOREM DeferralStaysCollectable ==
    ASSUME \A s \in Settings : s.reloads = 0 \/ s.crashes = 0
    PROVE  DeferredSpec => []DeferralIsCollectable
<1>1. DeferredInv => DeferralIsCollectable
    <2> SUFFICES ASSUME DeferredInv PROVE DeferralIsCollectable
        OBVIOUS
    <2> USE DEF DeferredInv
    <2>1. NotBoth
        BY Zenon DEF NotBoth
    <2>2. ASSUME NEW r \in Record, issuance[r] = "told"
          PROVE  \/ r \in Stored \cup gaveUp
                 \/ \E c \in creds : c[1] = r
                 \/ \E t \in Thread : claim[t] = r /\ pc[t] = "removed"
        <3>1. r \in Known /\ HeldInv(r)
            BY SMTT(60), <2>2 DEF Known, RecordInv
        <3> QED
            BY ZenonT(60), <2>1, <3>1 DEF HeldInv, CollectedIn
    <2>3. RefreshTokenIsCurrent
        BY Zenon DEF RefreshTokenIsCurrent, RecordInv, TokenHeld, Stored, Granted
    <2> QED
        BY Zenon, <2>2, <2>3 DEF DeferralIsCollectable, DeferralIsKept
<1> QED
    BY <1>1, DeferredInvariant, PTL

================================================================================
