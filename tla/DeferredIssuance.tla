--------------------------- MODULE DeferredIssuance ---------------------------
(***************************************************************************)
(* Deferred issuance (internal/wallet/deferred.go, deferred_poller.go)     *)
(* against the deferred credential endpoint of the demo issuer             *)
(* (internal/demorp/issuer_deferred.go).  The wallet keeps a record of     *)
(* every deferred credential.  A background sweep and requests to collect  *)
(* now work on copies of the records, claim a record, renew its access     *)
(* token when it has expired, ask the issuer, and then import the          *)
(* credential, reschedule the record or give up on it.                     *)
(*                                                                         *)
(* The token endpoint that renews access tokens is external: the demo      *)
(* issuer has none.  It rotates the refresh token and retires the old one. *)
(* A save stores the whole wallet, and a reload replaces it with what is   *)
(* stored, except the records (module EntityStore details both).           *)
(***************************************************************************)
EXTENDS Naturals, FiniteSets

CONSTANTS
    Record,      \* deferred issuances, each with its own transaction
    Thread,      \* the poller and requests to collect a credential now
    Poller,
    Interval,    \* time between two attempts
    MaxAge,      \* deferredIssuanceMaxAge
    Settings     \* the wallets and issuers to consider

\* records, threads: those that occur; refreshable: the records that came with
\* a refresh token; capacity: records the wallet keeps, 0 for no limit; life:
\* lifetime of an access token; reissues: the issuer answers again after the
\* credential was collected; refreshes: bound, the issuer refuses later
\* refreshes of a record; crashes, reloads: bounds.
ASSUME PollerAssumption == Poller \in Thread
ASSUME RecordAssumption == Record # {}
ASSUME BoundsAssumption ==
    /\ Interval \in Nat \ {0} /\ MaxAge \in Nat
    /\ Settings \subseteq [records : SUBSET Record, threads : SUBSET Thread,
                           refreshable : SUBSET Record, capacity : Nat, life : Nat,
                           reissues : BOOLEAN, refreshes : Nat \ {0}, crashes : Nat, reloads : Nat]

VARIABLES
    setting,    \* the wallet and the issuer of this behaviour
    records,    \* [Record -> DeferredIssuance or NoRecord]: the wallet in memory
    older,      \* [Record -> the records added before it]
    creds,      \* the collected credentials in memory
    stored,       \* the records and credentials as saved
    inFlight,   \* deferredInFlight
    issuance,       \* [Record -> "new", "added", "told"]: the issuance that deferred
    pc,         \* [Thread -> where it is]
    todo,       \* [Thread -> records it has yet to look at]
    late,       \* [Thread -> those of them that are too old]
    copies,     \* [Thread -> its copy of the records]
    claim,        \* [Thread -> the record it has claimed]
    retried,    \* [Thread -> it has renewed the token after a refusal]
    answer,     \* [Thread -> what the issuer answered]
    ticket,     \* [Record -> the transaction at the issuer]
    issued,     \* [Record -> credentials the issuer has signed for it]
    ghost,      \* [Record -> a request whose wallet has crashed]
    valid,      \* [Record -> the refresh token the issuer accepts]
    gaveUp,     \* history: records that were abandoned or evicted
    lostTokens,       \* history: records whose new refresh token never arrived
    crashes, reloads

walletVars == <<records, older, creds, stored>>
issuerVars == <<ticket, issued, ghost, valid>>
threadVars == <<pc, todo, late, copies, claim, retried, answer>>
historyVars == <<gaveUp, lostTokens, crashes, reloads>>
deferredVars == <<setting, records, older, creds, stored, inFlight, issuance, pc, todo,
                  late, copies, claim, retried, answer, ticket, issued, ghost, valid,
                  gaveUp, lostTokens, crashes, reloads>>

(* A record counts the time to its next attempt (wait), the rest of its    *)
(* access token's life and its age, which stops when the record is too     *)
(* old.                                                                    *)
NoRecord == [there |-> FALSE, refresh |-> 0, life |-> 0, wait |-> 0, age |-> 0]
NewRecord == [there |-> TRUE, refresh |-> 1, life |-> setting.life, wait |-> Interval, age |-> 0]
Stored == {r \in Record : records[r].there}
Mine(t) == copies[t][claim[t]]

(* A save under storeSyncMu stores the wallet as it is then.               *)
Save == stored' = [records |-> records', creds |-> creds']

--------------------------------------------------------------------------------
(* recordDeferredIssuance.  A full wallet drops its oldest records.        *)
Evicted ==
    IF setting.capacity = 0 THEN {}
    ELSE {r \in Stored : Cardinality({q \in Stored : q = r \/ r \in older[q]}) >= setting.capacity}

AddDeferredIssuance(r) ==
    /\ r \in setting.records /\ issuance[r] = "new"
    /\ issuance' = [issuance EXCEPT ![r] = "added"]
    /\ records' = [q \in Record |->
          IF q = r THEN NewRecord
          ELSE IF q \in Evicted THEN NoRecord ELSE records[q]]
    /\ older' = [older EXCEPT ![r] = {q \in Record : issuance[q] # "new"}]
    /\ ticket' = [ticket EXCEPT ![r] = "waiting"]
    /\ gaveUp' = gaveUp \cup Evicted
    /\ UNCHANGED <<creds, stored, inFlight, threadVars, issued, ghost, valid, lostTokens, crashes, reloads>>

(* The issuance saves the wallet and tells its user about the deferral.    *)
TellPending(r) ==
    /\ issuance[r] = "added"
    /\ issuance' = [issuance EXCEPT ![r] = "told"]
    /\ UNCHANGED <<records, creds>>
    /\ Save
    /\ UNCHANGED <<older, inFlight, threadVars, issuerVars, historyVars>>

--------------------------------------------------------------------------------
(* A sweep works on the records that are due in its copy of the list.  A   *)
(* record that is not due is not looked at, however old it is.             *)
NeverExpired(r) == FALSE  \* faulty: no record gets too old
Expired(r) == records[r].age > MaxAge

SweepBegin ==
    /\ pc[Poller] = "idle"
    /\ LET due == {r \in Stored : records[r].wait = 0}
       IN  /\ due # {}
           /\ todo' = [todo EXCEPT ![Poller] = due]
           /\ late' = [late EXCEPT ![Poller] = {r \in due : Expired(r)}]
    /\ copies' = [copies EXCEPT ![Poller] = records]
    /\ pc' = [pc EXCEPT ![Poller] = "sweep"]
    /\ UNCHANGED <<walletVars, inFlight, issuance, claim, retried, answer, issuerVars, historyVars>>

CollectDeferredNow(t, r) ==
    /\ t \in setting.threads \ {Poller} /\ pc[t] = "idle"
    /\ r \in Stored
    /\ todo' = [todo EXCEPT ![t] = {r}]
    /\ copies' = [copies EXCEPT ![t] = records]
    /\ pc' = [pc EXCEPT ![t] = "sweep"]
    /\ UNCHANGED <<walletVars, inFlight, issuance, late, claim, retried, answer, issuerVars,
                   historyVars>>

AbandonDeferredNow(r) ==
    /\ r \in Stored
    /\ records' = [records EXCEPT ![r] = NoRecord]
    /\ UNCHANGED creds
    /\ Save
    /\ gaveUp' = gaveUp \cup {r}
    /\ UNCHANGED <<older, inFlight, issuance, threadVars, issuerVars, lostTokens, crashes, reloads>>

(* The copy's turn is over: the next record of the sweep, or the end.      *)
Done(t, left) ==
    /\ pc' = [pc EXCEPT ![t] = IF left = {} THEN "idle" ELSE "sweep"]
    /\ todo' = [todo EXCEPT ![t] = left]
    /\ late' = [late EXCEPT ![t] = @ \cap left]
    /\ copies' = [copies EXCEPT ![t] = [r \in Record |-> IF r \in left THEN @[r] ELSE NoRecord]]
    /\ retried' = [retried EXCEPT ![t] = FALSE]
    /\ answer' = [answer EXCEPT ![t] = "none"]
    /\ UNCHANGED claim

SweepAbandon(t, r) ==
    /\ pc[t] = "sweep"
    /\ r \in todo[t] \cap late[t]
    /\ records' = [records EXCEPT ![r] = NoRecord]
    /\ UNCHANGED creds
    /\ Save
    /\ gaveUp' = gaveUp \cup {r}
    /\ Done(t, todo[t] \ {r})
    /\ UNCHANGED <<older, inFlight, issuance, issuerVars, lostTokens, crashes, reloads>>

--------------------------------------------------------------------------------
(* attemptDeferredCollection up to the first request.  A record somebody   *)
(* else has claimed is left to them.                                       *)
Claimable(r) == r \notin inFlight

CanRefresh(r) == r \in setting.refreshable

Attempt(t, r) ==
    /\ pc[t] = "sweep"
    /\ r \in todo[t] \ late[t]
    /\ \/ ~Claimable(r) /\ Done(t, todo[t] \ {r}) /\ UNCHANGED inFlight
       \/ /\ Claimable(r)
          /\ inFlight' = inFlight \cup {r}
          /\ claim' = [claim EXCEPT ![t] = r]
          /\ todo' = [todo EXCEPT ![t] = @ \ {r}]
          /\ pc' = [pc EXCEPT ![t] =
                IF copies[t][r].life = 0 /\ CanRefresh(r) THEN "refresh" ELSE "ask"]
          /\ UNCHANGED <<late, copies, retried, answer>>
    /\ UNCHANGED <<walletVars, issuance, issuerVars, historyVars>>

(* The claim ends with the attempt.                                        *)
EndCollection(t) ==
    /\ inFlight' = inFlight \ {claim[t]}
    /\ Done(t, todo[t])

RescheduleDeferred(t) ==
    /\ records' = [records EXCEPT ![claim[t]] =
                      IF @.there THEN [@ EXCEPT !.wait = Interval] ELSE @]
    /\ UNCHANGED creds
    /\ Save
    /\ EndCollection(t)
    /\ UNCHANGED gaveUp

AbandonDeferred(t) ==
    /\ records' = [records EXCEPT ![claim[t]] = NoRecord]
    /\ UNCHANGED creds
    /\ Save
    /\ EndCollection(t)
    /\ gaveUp' = gaveUp \cup {claim[t]}

(* The token endpoint.  The copy's refresh token is the accepted one or    *)
(* it is refused.  The answer can get lostTokens on the way back.          *)
RefreshRequest(t) ==
    LET r == claim[t] IN
    /\ pc[t] = "refresh"
    /\ IF Mine(t).refresh = valid[r] /\ valid[r] < setting.refreshes
       THEN /\ valid' = [valid EXCEPT ![r] = @ + 1]
            /\ \/ \E kind \in {"granted", "unchecked"} :
                     answer' = [answer EXCEPT ![t] = kind] /\ UNCHANGED lostTokens
               \/ answer' = [answer EXCEPT ![t] = "refused"] /\ lostTokens' = lostTokens \cup {r}
       ELSE answer' = [answer EXCEPT ![t] = "refused"] /\ UNCHANGED <<valid, lostTokens>>
    /\ pc' = [pc EXCEPT ![t] = "refreshed"]
    /\ UNCHANGED <<walletVars, inFlight, issuance, todo, late, copies, claim, retried, ticket,
                   issued, ghost, gaveUp, crashes, reloads>>

(* refreshDeferredAccessToken: the rotated token is kept even when the     *)
(* answer fails a check, the access token only when it passed.             *)
RenewedUnlessChecked(t, rec) ==  \* faulty: an answer that fails a check is dropped whole
    IF answer[t] = "granted"
    THEN [rec EXCEPT !.refresh = Mine(t).refresh + 1, !.life = setting.life] ELSE rec
Renewed(t, rec) ==
    [rec EXCEPT !.refresh = Mine(t).refresh + 1,
                !.life = IF answer[t] = "granted" THEN setting.life ELSE Mine(t).life]

RefreshSave(t) ==
    LET r == claim[t] IN
    /\ pc[t] = "refreshed"
    /\ answer[t] \in {"granted", "unchecked"}
    /\ records' = [records EXCEPT ![r] = IF @.there THEN Renewed(t, @) ELSE @]
    /\ copies' = [copies EXCEPT ![t][r] = Renewed(t, @)]
    /\ UNCHANGED creds
    /\ Save
    /\ pc' = [pc EXCEPT ![t] = IF answer[t] = "granted" THEN "ask" ELSE "failed"]
    /\ answer' = [answer EXCEPT ![t] = "none"]
    /\ UNCHANGED <<older, inFlight, issuance, todo, late, claim, retried, issuerVars, historyVars>>

(* Without a new access token the wallet gives up, before the first        *)
(* request as well as after the refusal that led to the renewal.           *)
RefreshFailed(t) ==
    /\ pc[t] = "failed" \/ (pc[t] = "refreshed" /\ answer[t] = "refused")
    /\ AbandonDeferred(t)
    /\ UNCHANGED <<older, issuance, issuerVars, lostTokens, crashes, reloads>>

--------------------------------------------------------------------------------
(* The request is sent, unless the issuer's metadata cannot be used (try   *)
(* later) or the issuer or the stored proof keys fail a check (give up).   *)
Ask(t) ==
    /\ pc[t] = "ask"
    /\ \/ pc' = [pc EXCEPT ![t] = "sent"]
          /\ UNCHANGED <<records, creds, stored, inFlight, todo, late, copies, claim, retried,
                         answer, gaveUp>>
       \/ RescheduleDeferred(t)
       \/ AbandonDeferred(t)
    /\ UNCHANGED <<older, issuance, issuerVars, lostTokens, crashes, reloads>>

(* handleDeferredCredential: the lookup under the first lock.              *)
LookupAnswers(r) ==
    CASE ticket[r] = "ready" -> {"found", "unauthorized"}
      [] ticket[r] = "waiting" -> {"pending", "unauthorized"}
      [] OTHER -> {"invalid"}

(* The claim under the second one.  The transaction is over even when      *)
(* signing fails.                                                          *)
SignsAgain(r) == TRUE  \* faulty: the lookup is not repeated
StillPending(r) == ticket[r] = "ready"

IssuerClaims(r) ==
    /\ ticket' = [ticket EXCEPT ![r] = IF StillPending(r) /\ ~setting.reissues THEN "collected" ELSE @]
    /\ \/ StillPending(r) /\ issued' = [issued EXCEPT ![r] = @ + 1]
       \/ UNCHANGED issued

IssuerLookup(t) ==
    /\ pc[t] = "sent"
    /\ \E a \in LookupAnswers(claim[t]) \cup {"retryable"} :
          /\ answer' = [answer EXCEPT ![t] = IF a = "found" THEN "none" ELSE a]
          /\ pc' = [pc EXCEPT ![t] = IF a = "found" THEN "found" ELSE "answered"]
    /\ UNCHANGED <<walletVars, inFlight, issuance, todo, late, copies, claim, retried,
                   issuerVars, historyVars>>

IssuerClaim(t) ==
    LET r == claim[t] IN
    /\ pc[t] = "found"
    /\ IssuerClaims(r)
    /\ \E a \in {"credential", "retryable", "invalid"} :
          /\ a = "credential" => issued'[r] # issued[r]
          /\ a = "invalid" => ~StillPending(r)
          /\ answer' = [answer EXCEPT ![t] = a]
    /\ pc' = [pc EXCEPT ![t] = "answered"]
    /\ UNCHANGED <<walletVars, inFlight, issuance, todo, late, copies, claim, retried, ghost,
                   valid, historyVars>>

(* A request of a crashed wallet goes on at the issuer.                    *)
GhostRequest(r) ==
    \/ /\ ghost[r] = "sent"
       /\ ghost' = [ghost EXCEPT ![r] = IF ticket[r] = "ready" THEN "found" ELSE "none"]
       /\ UNCHANGED <<ticket, issued>>
       /\ UNCHANGED <<walletVars, inFlight, issuance, threadVars, valid, historyVars>>
    \/ /\ ghost[r] = "found"
       /\ ghost' = [ghost EXCEPT ![r] = "none"]
       /\ IssuerClaims(r)
       /\ UNCHANGED <<walletVars, inFlight, issuance, threadVars, valid, historyVars>>

CredentialReady(r) ==
    /\ ticket[r] = "waiting"
    /\ ticket' = [ticket EXCEPT ![r] = "ready"]
    /\ UNCHANGED <<walletVars, inFlight, issuance, threadVars, issued, ghost, valid, historyVars>>

(* The issuer's transaction expires.                                       *)
TicketExpires(r) ==
    /\ ticket[r] \in {"waiting", "ready"}
    /\ ticket' = [ticket EXCEPT ![r] = "expired"]
    /\ UNCHANGED <<walletVars, inFlight, issuance, threadVars, issued, ghost, valid, historyVars>>

--------------------------------------------------------------------------------
(* An answer without a credential: handleDeferredAttemptError, after one   *)
(* renewal of a token the issuer no longer accepts.                        *)
HandleError(t) ==
    /\ pc[t] = "answered"
    /\ \/ answer[t] \in {"pending", "retryable"} /\ RescheduleDeferred(t)
       \/ answer[t] = "invalid" /\ AbandonDeferred(t)
       \/ /\ answer[t] = "unauthorized"
          /\ retried[t] \/ ~CanRefresh(claim[t])
          /\ AbandonDeferred(t)
       \/ /\ answer[t] = "unauthorized"
          /\ ~retried[t] /\ CanRefresh(claim[t])
          /\ pc' = [pc EXCEPT ![t] = "refresh"]
          /\ retried' = [retried EXCEPT ![t] = TRUE]
          /\ answer' = [answer EXCEPT ![t] = "none"]
          /\ UNCHANGED <<records, creds, stored, inFlight, todo, late, copies, claim, gaveUp>>
    /\ UNCHANGED <<older, issuance, issuerVars, lostTokens, crashes, reloads>>

(* storeIssuedCredential adds the credential to the wallet in memory, or   *)
(* refuses it.                                                             *)
Credential(t) == <<claim[t], issued[claim[t]]>>

ImportCredential(t) ==
    /\ pc[t] = "answered"
    /\ answer[t] = "credential"
    /\ \/ /\ creds' = creds \cup {Credential(t)}
          /\ pc' = [pc EXCEPT ![t] = "imported"]
          /\ UNCHANGED <<records, stored, inFlight, todo, late, copies, claim, retried, answer, gaveUp>>
       \/ AbandonDeferred(t)
    /\ UNCHANGED <<older, issuance, issuerVars, lostTokens, crashes, reloads>>

RemoveCollected(t) ==
    /\ pc[t] = "imported"
    /\ records' = [records EXCEPT ![claim[t]] = NoRecord]
    /\ pc' = [pc EXCEPT ![t] = "removed"]
    /\ UNCHANGED <<older, creds, stored, inFlight, issuance, todo, late, copies, claim, retried,
                   answer, issuerVars, historyVars>>

(* saveIssuance puts the credential back if a reload dropped it.           *)
SaveIssuance(t) ==
    /\ pc[t] = "removed"
    /\ creds' = creds \cup {Credential(t)}
    /\ UNCHANGED records
    /\ Save
    /\ EndCollection(t)
    /\ UNCHANGED <<older, issuance, issuerVars, historyVars>>

--------------------------------------------------------------------------------
(* Another process saved, and the wallet takes over what is stored.  The   *)
(* deferred records stay as they are in memory.                            *)
DeferredReload ==
    /\ reloads < setting.reloads
    /\ reloads' = reloads + 1
    /\ creds' = stored.creds
    /\ UNCHANGED <<records, older, stored, inFlight, issuance, threadVars, issuerVars, gaveUp, lostTokens,
                   crashes>>

(* The process stops and starts again.  Requests on their way go on.       *)
Crash ==
    /\ crashes < setting.crashes
    /\ crashes' = crashes + 1
    /\ records' = stored.records
    /\ creds' = stored.creds
    /\ inFlight' = {}
    /\ issuance' = [r \in Record |-> IF issuance[r] = "added" THEN "told" ELSE issuance[r]]
    /\ ghost' = [r \in Record |->
          IF \E t \in Thread : claim[t] = r /\ pc[t] \in {"sent", "found"}
          THEN pc[CHOOSE t \in Thread : claim[t] = r /\ pc[t] \in {"sent", "found"}] ELSE ghost[r]]
    /\ lostTokens' = lostTokens \cup {claim[t] : t \in {u \in Thread :
                    pc[u] = "refreshed" /\ answer[u] \in {"granted", "unchecked"}}}
    /\ gaveUp' = gaveUp \cup {r \in Record : issuance[r] = "added" /\ ~stored.records[r].there}
    /\ pc' = [t \in Thread |-> "idle"]
    /\ todo' = [t \in Thread |-> {}]
    /\ late' = [t \in Thread |-> {}]
    /\ copies' = [t \in Thread |-> [r \in Record |-> NoRecord]]
    /\ retried' = [t \in Thread |-> FALSE]
    /\ answer' = [t \in Thread |-> "none"]
    /\ UNCHANGED <<older, stored, claim, ticket, issued, valid, reloads>>

(* Time passes for the stored records and for the copies of the threads.   *)
Aged(rec) ==
    IF ~rec.there THEN rec
    ELSE [rec EXCEPT !.age = IF @ > MaxAge THEN @ ELSE @ + 1,
                     !.wait = IF @ = 0 THEN 0 ELSE @ - 1,
                     !.life = IF @ = 0 THEN 0 ELSE @ - 1]
AllAged(recs) == [r \in Record |-> Aged(recs[r])]

Tick ==
    /\ records' = AllAged(records)
    /\ stored' = [stored EXCEPT !.records = AllAged(@)]
    /\ copies' = [t \in Thread |-> AllAged(copies[t])]
    /\ <<records, stored, copies>> # <<records', stored', copies'>>
    /\ UNCHANGED <<older, creds, inFlight, issuance, pc, todo, late, claim, retried, answer,
                   issuerVars, historyVars>>

DeferredInit ==
    /\ setting \in Settings
    /\ records = [r \in Record |-> NoRecord]
    /\ older = [r \in Record |-> {}]
    /\ creds = {}
    /\ stored = [records |-> [r \in Record |-> NoRecord], creds |-> {}]
    /\ inFlight = {}
    /\ issuance = [r \in Record |-> "new"]
    /\ pc = [t \in Thread |-> "idle"]
    /\ todo = [t \in Thread |-> {}]
    /\ late = [t \in Thread |-> {}]
    /\ copies = [t \in Thread |-> [r \in Record |-> NoRecord]]
    /\ claim = [t \in Thread |-> CHOOSE r \in Record : TRUE]
    /\ retried = [t \in Thread |-> FALSE]
    /\ answer = [t \in Thread |-> "none"]
    /\ ticket = [r \in Record |-> "none"]
    /\ issued = [r \in Record |-> 0]
    /\ ghost = [r \in Record |-> "none"]
    /\ valid = [r \in Record |-> 1]
    /\ gaveUp = {} /\ lostTokens = {} /\ crashes = 0 /\ reloads = 0

(* A collection that has claimed its record goes on.                       *)
Collect(t) ==
    \/ RefreshRequest(t)
    \/ RefreshSave(t)
    \/ RefreshFailed(t)
    \/ Ask(t)
    \/ IssuerLookup(t)
    \/ IssuerClaim(t)
    \/ HandleError(t)
    \/ ImportCredential(t)
    \/ RemoveCollected(t)
    \/ SaveIssuance(t)

Sweep(t) == \E r \in Record : SweepAbandon(t, r) \/ Attempt(t, r)

DeferredNext ==
    /\ \/ \E r \in Record :
             \/ AddDeferredIssuance(r)
             \/ TellPending(r)
             \/ AbandonDeferredNow(r)
             \/ CredentialReady(r)
             \/ TicketExpires(r)
             \/ GhostRequest(r)
             \/ \E t \in Thread : CollectDeferredNow(t, r)
       \/ SweepBegin
       \/ \E t \in Thread : Sweep(t) \/ Collect(t)
       \/ DeferredReload
       \/ Crash
       \/ Tick
    /\ UNCHANGED setting

DeferredSpec == DeferredInit /\ [][DeferredNext]_deferredVars

--------------------------------------------------------------------------------
Collecting(t) == pc[t] \notin {"idle", "sweep"}

DeferredRecord ==
    [there: BOOLEAN, refresh: 0..setting.refreshes, life: 0..setting.life, wait: 0..Interval,
     age: 0..(MaxAge + 1)]

(* Every variable has the shape its declaration names.                     *)
DeferredTypeOK ==
    /\ records \in [Record -> DeferredRecord] /\ older \in [Record -> SUBSET Record]
    /\ creds \subseteq Record \X Nat
    /\ stored \in [records: [Record -> DeferredRecord], creds: SUBSET (Record \X Nat)]
    /\ inFlight \subseteq Record
    /\ issuance \in [Record -> {"new", "added", "told"}]
    /\ pc \in [Thread -> {"idle", "sweep", "refresh", "refreshed", "failed", "ask", "sent",
                          "found", "answered", "imported", "removed"}]
    /\ todo \in [Thread -> SUBSET Record] /\ late \in [Thread -> SUBSET Record]
    /\ copies \in [Thread -> [Record -> DeferredRecord]]
    /\ claim \in [Thread -> Record] /\ retried \in [Thread -> BOOLEAN]
    /\ answer \in [Thread -> {"none", "granted", "unchecked", "refused", "pending",
                              "retryable", "invalid", "unauthorized", "credential"}]
    /\ ticket \in [Record -> {"none", "waiting", "ready", "collected", "expired"}]
    /\ issued \in [Record -> Nat] /\ valid \in [Record -> 1..setting.refreshes]
    /\ ghost \in [Record -> {"none", "sent", "found"}]
    /\ gaveUp \subseteq Record /\ lostTokens \subseteq Record

(* One collection of a record runs at a time, and a record is claimed      *)
(* exactly while one runs: no error path keeps a claim, which would stop   *)
(* the collection of the record until the next restart.                    *)
ClaimsMatchCollections ==
    /\ \A t, u \in Thread :
          Collecting(t) /\ Collecting(u) /\ claim[t] = claim[u] => t = u
    /\ inFlight = {claim[t] : t \in {u \in Thread : Collecting(u)}}

(* "Two polls that arrive at the same time then issue the batch only       *)
(* once", also when one of them comes from a wallet that has crashed.      *)
IssuedOnce == ~setting.reissues => \A r \in Record : issued[r] <= 1

(* A deferral is collected by one thread at a time and issued once         *)
(* (claimDeferred, handleDeferredCredential).                              *)
CollectedOnce == DeferredTypeOK /\ ClaimsMatchCollections /\ IssuedOnce

(* "A rotated refresh token replaces the old one for good, so it is saved  *)
(* under the reload lock even when the answer fails a check."  Between two *)
(* renewals a stored record has the refresh token the issuer accepts,      *)
(* unless the answer with it never reached the wallet.                     *)
RefreshTokenIsCurrent ==
    \A r \in Stored :
        \/ records[r].refresh = valid[r]
        \/ r \in lostTokens
        \/ \E t \in Thread : claim[t] = r /\ pc[t] = "refreshed"

(* A deferral the user was told about stays with the wallet until its      *)
(* credential was collected, or the wallet or the user gave up on it.      *)
(* recordDeferredIssuance "hands a deferred response to background         *)
(* collection and reports the issuance as successful", and a reload        *)
(* "could erase a new deferral before it has been saved".  A collected     *)
(* credential that a reload drops before it is saved comes back.           *)
DeferralIsKept ==
    \A r \in Record :
        issuance[r] = "told" =>
            \/ r \in Stored \cup gaveUp
            \/ \E c \in creds : c[1] = r
            \/ \E t \in Thread : claim[t] = r /\ pc[t] = "removed"

(* A deferral that is not collected yet can be: its record and the token   *)
(* the issuer accepts stay with the wallet.                                *)
DeferralIsCollectable == DeferralIsKept /\ RefreshTokenIsCurrent

--------------------------------------------------------------------------------
(* The clock moves, the sweep runs every second and each of its attempts   *)
(* goes on (requests to the issuer have a timeout).                        *)
PollerStep == SweepBegin \/ Sweep(Poller) \/ Collect(Poller)

(* Something goes on while the sweep or the clock can: the background loop *)
(* runs on, its requests have timeouts and it takes a bounded number of    *)
(* steps between two ticks.                                                *)
CollectionGoesOn == Tick \/ SweepBegin \/ Sweep(Poller) \/ Collect(Poller)
DeferredFairness == WF_deferredVars(CollectionGoesOn /\ UNCHANGED setting)

(* Every deferral that the sweep collects alone comes to an end, also when *)
(* the issuer never answers.  Each request to collect it now postpones the *)
(* next attempt of the sweep, so a user who never stops asking keeps a     *)
(* deferral beyond its age.                                                *)
DeferralEnds ==
    \A r \in Record :
        (setting.threads = {Poller} /\ r \in Stored) ~> r \notin Stored
================================================================================
