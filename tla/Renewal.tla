------------------------------ MODULE Renewal ------------------------------
(***************************************************************************)
(* The renewal of one credential with its refresh token: the background    *)
(* sweep, the refresh endpoint and the renewal that precedes a             *)
(* presentation (internal/wallet/credential_refresh.go, presentation.go,   *)
(* server.go).                                                             *)
(*                                                                         *)
(* The wallet keeps the credential in memory and in the store.  No lock    *)
(* spans a renewal of the sweep or the endpoint: only its save takes       *)
(* storeSyncMu, like a reload and a deletion.  A renewal that precedes a   *)
(* presentation runs inside saveMutation and so holds storeSyncMu          *)
(* throughout.  The issuer may rotate the refresh token at each use and    *)
(* then accepts only the new one.  Tokens and contents are numbered in     *)
(* the order the issuer makes them.                                        *)
(***************************************************************************)
EXTENDS Naturals

CONSTANTS
    Sweeps,         \* the background sweep, or none
    Calls,          \* requests to the refresh endpoint
    Presentations,  \* presentations that find the credential expiring
    Setups          \* the wallets and issuers to consider

Flows == Sweeps \cup Calls \cup Presentations

\* flows: the renewals that happen; file: a log entry saves the wallet file
\* (logSink); batch: the credential is a copy of a batch; others: another
\* process changes the store; deletes: the user deletes the credential;
\* rotations: bound on the refresh tokens and the contents the issuer makes;
\* failures: bound on failed steps.
ASSUME RenewalAssumption ==
    /\ Setups \subseteq [flows : SUBSET Flows, file : BOOLEAN, batch : BOOLEAN,
                         others : BOOLEAN, deletes : BOOLEAN,
                         rotations : Nat, failures : Nat]
    /\ Sweeps \cap Calls = {} /\ Sweeps \cap Presentations = {}
    /\ Calls \cap Presentations = {}
    /\ \A f, g \in Sweeps : f = g  \* one background loop

VARIABLES
    setup,      \* the wallet and the issuer of this behaviour
    mem,        \* the credential in w.Credentials
    disk,       \* the credential in the store
    flow,       \* the renewals in progress
    lock,       \* the presentation that holds storeSyncMu, or none
    cur,        \* the refresh token the issuer accepts
    made,       \* the content the issuer made last
    lost,       \* an answer with a rotated token never arrived
    kept,       \* content of the renewal that last ended well
    expiring,   \* CredentialNeedsRenewal
    backoff,    \* the sweep waits after a failure (renewalBackoff)
    foreign,    \* the store changed since the wallet last read it
    failures    \* failed steps so far

vars == <<setup, mem, disk, flow, lock, cur, made, lost, kept, expiring, backoff,
          foreign, failures>>
MaxRotations == setup.rotations
MaxFailures == setup.failures

issuer == <<cur, made, lost>>
\* What only the sweep and the clock look at.
clock == <<expiring, backoff>>

Copy == [here : BOOLEAN, token : 0..MaxRotations, cont : 0..MaxRotations]
Gone == [here |-> FALSE, token |-> 0, cont |-> 0]
Idle == [pc |-> "idle", token |-> 0, cont |-> 0, ok |-> FALSE]

Init ==
    /\ setup \in Setups
    /\ mem = [here |-> TRUE, token |-> 0, cont |-> 0]
    /\ disk = mem
    /\ flow = [f \in Flows |-> Idle]
    /\ lock = {}
    /\ cur = 0 /\ made = 0 /\ lost = FALSE /\ kept = 0
    /\ expiring = FALSE /\ backoff = FALSE
    /\ foreign = FALSE /\ failures = 0

-----------------------------------------------------------------------------
\* A log entry saves the wallet file.  An entity backend appends the entry
\* and nothing else.
LogSaves(m) == disk' = IF setup.file THEN m ELSE disk

\* One more failed step.
Fail == failures < MaxFailures /\ failures' = failures + 1

\* Where a renewal goes once RefreshCredential has returned: the server
\* saves, a presentation goes on with what it has.
Returned(f, ok) ==
    IF f \in Presentations THEN "present" ELSE IF ok THEN "save" ELSE "reread"

Failed(f) == flow' = [flow EXCEPT ![f] = [@ EXCEPT !.pc = Returned(f, FALSE), !.ok = FALSE]]

\* renewExpiringCredentials picks a credential whose renewal is due.
SweepStart(f) ==
    /\ f \in Sweeps
    /\ expiring /\ ~backoff
    /\ lock' = lock

\* handleRefreshCredential.
CallStart(f) == f \in Calls /\ lock' = lock

\* createVPToken renews an expiring credential, inside saveMutation.
PresentStart(f) ==
    /\ f \in Presentations
    /\ expiring /\ lock = {}
    /\ lock' = {f}

\* RefreshCredential copies the renewal data of the stored credential.
Start(f) ==
    /\ f \in setup.flows /\ flow[f].pc = "idle"
    /\ mem.here
    /\ SweepStart(f) \/ CallStart(f) \/ PresentStart(f)
    /\ flow' = [flow EXCEPT ![f] = [Idle EXCEPT !.pc = "metadata", !.token = mem.token]]
    /\ UNCHANGED <<mem, disk, issuer, kept, clock, foreign, failures>>

\* loadIssuerMetadata comes before the token request, so that a refusal
\* keeps the refresh token.
LoadMetadata(f) ==
    /\ flow[f].pc = "metadata"
    /\ \/ /\ flow' = [flow EXCEPT ![f] = [@ EXCEPT !.pc = "token"]]
          /\ UNCHANGED failures
       \/ Failed(f) /\ Fail
    /\ LogSaves(mem)
    /\ UNCHANGED <<mem, lock, issuer, kept, clock, foreign>>

\* rememberRenewal, on the credential in memory if it is still there.
Remember(token) == mem' = IF mem.here THEN [mem EXCEPT !.token = token] ELSE mem

\* The issuer answers the refresh token request.  A rotated token is
\* remembered even when the answer is refused.
RefreshGranted(f) ==
    /\ flow[f].token = cur
    /\ \/ /\ cur < MaxRotations
          /\ cur' = cur + 1
          /\ Remember(cur + 1)
          /\ \/ /\ flow' = [flow EXCEPT ![f] = [@ EXCEPT !.pc = "request", !.token = cur + 1]]
                /\ UNCHANGED failures
             \/ /\ flow' = [flow EXCEPT ![f] = [@ EXCEPT !.pc = Returned(f, FALSE),
                                                          !.token = cur + 1]]
                /\ Fail
       \/ /\ flow' = [flow EXCEPT ![f] = [@ EXCEPT !.pc = "request"]]
          /\ UNCHANGED <<cur, mem, failures>>
    /\ UNCHANGED lost

\* No answer with a token arrives: the token is refused, the request fails,
\* or the answer is lost after the issuer has rotated the token.
RefreshRefused(f) ==
    /\ Failed(f)
    /\ \/ flow[f].token # cur /\ UNCHANGED <<cur, lost, failures>>
       \/ /\ flow[f].token = cur /\ Fail
          /\ \/ UNCHANGED <<cur, lost>>
             \/ cur < MaxRotations /\ cur' = cur + 1 /\ lost' = TRUE
    /\ UNCHANGED mem

\* refreshAccessToken and what RefreshCredential keeps of its answer.
RefreshToken(f) ==
    /\ flow[f].pc = "token"
    /\ RefreshGranted(f) \/ RefreshRefused(f)
    \* The request is logged before its answer is looked at.
    /\ LogSaves(mem)
    /\ UNCHANGED <<lock, made, kept, clock, foreign>>

\* requestCredential with the new access token.
RequestCredential(f) ==
    /\ flow[f].pc = "request"
    /\ \/ /\ made < MaxRotations
          /\ made' = made + 1
          /\ flow' = [flow EXCEPT ![f] = [@ EXCEPT !.pc = "store", !.cont = made + 1]]
          /\ UNCHANGED failures
       \/ Failed(f) /\ Fail /\ UNCHANGED made
    /\ LogSaves(mem)
    /\ UNCHANGED <<mem, lock, cur, lost, kept, clock, foreign>>

\* ReplaceCredential puts the renewed credential in place.  A credential
\* deleted in the meantime is not found.
ReplaceCredential(f) ==
    /\ flow[f].pc = "store"
    /\ \/ /\ mem.here
          /\ mem' = [mem EXCEPT !.token = flow[f].token, !.cont = flow[f].cont]
          /\ flow' = [flow EXCEPT ![f] = [@ EXCEPT !.pc = Returned(f, TRUE), !.ok = TRUE]]
          /\ LogSaves(mem')
       \/ /\ ~mem.here
          /\ Failed(f)
          /\ UNCHANGED <<mem, disk>>
    /\ UNCHANGED <<lock, issuer, kept, clock, foreign, failures>>

-----------------------------------------------------------------------------
\* The sweep counts a failure.  A credential with new content is not
\* expiring any more.
Ended(f, ok) ==
    /\ flow' = [flow EXCEPT ![f] = Idle]
    /\ backoff' = (backoff \/ (f \in Sweeps /\ ~ok))
    /\ expiring' = (expiring /\ ~ok)

\* After a failure the server reads the credential again, since the token
\* can have rotated.
Reread(f) ==
    /\ flow[f].pc = "reread"
    /\ \/ /\ mem.here
          /\ flow' = [flow EXCEPT ![f] = [@ EXCEPT !.pc = "save", !.token = mem.token,
                                                    !.cont = mem.cont]]
          /\ UNCHANGED clock
       \/ ~mem.here /\ Ended(f, FALSE)
    /\ UNCHANGED <<mem, disk, lock, issuer, kept, foreign, failures>>

\* Faulty variant: the save does not put the credential back first.
SaveOnly(f) ==
    /\ flow[f].pc = "save"
    /\ lock = {}
    /\ disk' = mem
    /\ kept' = IF flow[f].ok THEN flow[f].cont ELSE kept
    /\ Ended(f, flow[f].ok)
    /\ UNCHANGED <<mem, lock, issuer, foreign, failures>>

\* saveCredential: PutCredential and the save, under storeSyncMu.
SaveCredential(f) ==
    /\ flow[f].pc = "save"
    /\ lock = {}
    /\ mem' = [here |-> TRUE, token |-> flow[f].token, cont |-> flow[f].cont]
    /\ disk' = mem'
    /\ kept' = IF flow[f].ok THEN flow[f].cont ELSE kept
    /\ Ended(f, flow[f].ok)
    /\ UNCHANGED <<lock, issuer, foreign, failures>>

\* preparePresentation saves only what a batch copy's use count changed.
Present(f) ==
    /\ flow[f].pc = "present"
    /\ disk' = IF setup.batch THEN mem ELSE disk
    /\ lock' = {}
    /\ kept' = IF flow[f].ok THEN flow[f].cont ELSE kept
    /\ Ended(f, flow[f].ok)
    /\ UNCHANGED <<mem, issuer, foreign, failures>>

-----------------------------------------------------------------------------
\* RemoveCredential inside saveMutation.
Delete ==
    /\ setup.deletes /\ mem.here /\ lock = {}
    /\ mem' = Gone /\ disk' = Gone
    /\ UNCHANGED <<flow, lock, issuer, kept, clock, foreign, failures>>

\* Another process changes something else in the store.
ForeignChange ==
    /\ setup.others /\ ~foreign
    /\ foreign' = TRUE
    /\ UNCHANGED <<mem, disk, flow, lock, issuer, kept, clock, failures>>

\* reloadLocked replaces what is in memory when the store has changed.
Reload ==
    /\ foreign /\ lock = {}
    /\ mem' = disk
    /\ foreign' = FALSE
    /\ UNCHANGED <<disk, flow, lock, issuer, kept, clock, failures>>

\* The credential comes within renewalMargin of its expiry.
Age ==
    /\ ~expiring /\ expiring' = TRUE
    /\ UNCHANGED <<mem, disk, flow, lock, issuer, kept, backoff, foreign, failures>>

\* renewalRetryAfter has passed.
BackoffEnds ==
    /\ backoff /\ backoff' = FALSE
    /\ UNCHANGED <<mem, disk, flow, lock, issuer, kept, expiring, foreign, failures>>

Step(f) ==
    \/ Start(f) \/ LoadMetadata(f) \/ RefreshToken(f) \/ RequestCredential(f)
    \/ ReplaceCredential(f) \/ Reread(f) \/ SaveCredential(f) \/ Present(f)

Next ==
    /\ \/ \E f \in Flows : Step(f)
       \/ Delete \/ ForeignChange \/ Reload \/ Age \/ BackoffEnds
    /\ UNCHANGED setup

Spec == Init /\ [][Next]_vars

\* Something goes on while the sweep or the clock can: the background loop
\* runs every 30 seconds, its requests have timeouts, and the time to the
\* next attempt passes.
RenewalGoesOn == BackoffEnds \/ \E f \in Sweeps : Step(f)
FairSpec == Spec /\ WF_vars(RenewalGoesOn /\ UNCHANGED setup)

-----------------------------------------------------------------------------
FlowRow ==
    [pc : {"idle", "metadata", "token", "request", "store", "save", "reread", "present"},
     token : 0..MaxRotations, cont : 0..MaxRotations, ok : BOOLEAN]

\* Every variable has the shape its declaration names.
TypeOK ==
    /\ mem \in Copy /\ disk \in Copy
    /\ flow \in [Flows -> FlowRow]
    /\ lock \subseteq Presentations
    /\ cur \in 0..MaxRotations /\ made \in 0..MaxRotations /\ kept \in 0..MaxRotations
    /\ {lost, expiring, backoff, foreign} \subseteq BOOLEAN
    /\ failures \in 0..MaxFailures

\* No renewal is in progress.
Quiet == \A f \in Flows : flow[f].pc = "idle"

(***************************************************************************)
(* Once every renewal has ended, the store holds what the wallet holds in  *)
(* memory: a rotated token or a renewed content that RefreshCredential     *)
(* left in memory is saved however the renewals and deletions interleave   *)
(* (Server.RefreshCredential saves after success and after failure).       *)
(***************************************************************************)
NothingUnsaved == Quiet => disk = mem

SweepAlone == setup.flows \subseteq Sweeps /\ ~setup.others

(***************************************************************************)
(* Once every renewal of the sweep has ended, the refresh token of the     *)
(* credential is the one the issuer accepts, unless the answer that carried*)
(* it was lost (rememberRenewal "keeps the new one even when a later step  *)
(* fails").  It takes a sweep that runs alone: a renewal on another        *)
(* request, or a reload before a failed renewal is read again, can put an  *)
(* older token back.                                                       *)
(***************************************************************************)
TokenIsCurrent == SweepAlone /\ Quiet /\ mem.here /\ ~lost => mem.token = cur

OneFlow == \A f, g \in setup.flows : f = g

(***************************************************************************)
(* A renewal that ended well survives every reload: the credential keeps   *)
(* the content it brought until the next renewal, whatever another         *)
(* process does to the store meanwhile (saveCredential restores the        *)
(* credential under the reload lock).  It takes one renewal at a time.     *)
(***************************************************************************)
RenewalSurvivesReload == OneFlow /\ Quiet /\ mem.here => mem.cont = kept

(* What a renewal brought is kept, in memory and in the store              *)
(* (RefreshCredential, rememberRenewal, saveCredential).                   *)
RenewalIsKept == TypeOK /\ NothingUnsaved /\ TokenIsCurrent /\ RenewalSurvivesReload

(***************************************************************************)
(* An expiring credential is renewed eventually: a failure delays the      *)
(* sweep and does not end it, and the token is good for the next attempt   *)
(* (renewalDue, noteRenewalFailure).  It may be deleted first, the issuer's*)
(* answer may be lost, or the bound on contents be reached.                *)
(***************************************************************************)
RenewedEventually ==
    SweepAlone /\ expiring ~> (~expiring \/ ~mem.here \/ lost \/ made = MaxRotations)

=============================================================================
