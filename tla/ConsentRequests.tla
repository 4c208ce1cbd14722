--------------------------- MODULE ConsentRequests ---------------------------
(***************************************************************************)
(* The life of a consent request: the agent creates it, the candidate      *)
(* proves control of the e-mail address with a code, then approves or      *)
(* denies; the agent may cancel; pages and POSTs mark it expired; the      *)
(* retention sweep and data-subject requests delete it.                    *)
(*                                                                         *)
(* Every HTTP request runs on a worker with a DbContext of its own, in     *)
(* three steps that interleave with the other workers:                     *)
(*   load   - the row is read and becomes the snapshot `old`;              *)
(*   decide - the handler's body, on the snapshot and the clock;           *)
(*   save   - SaveChangesAsync: one transaction that writes the columns    *)
(*            in which the tracked entity differs from its snapshot.       *)
(* There is no concurrency token, so a save never notices that the row     *)
(* changed since the load; it only notices that the row is gone.           *)
(***************************************************************************)
EXTENDS Naturals, FiniteSets

CONSTANTS
    Request,          \* ids of consent requests
    Candidate,        \* candidate e-mail addresses
    CandidateOf,      \* the address a request was created for
    Consent,          \* ids the approval of a request may draw (Guid.NewGuid)
    NoConsent,        \* null
    NoRequest,        \* null
    Worker,           \* requests the server handles at the same time
    AttemptLimit,     \* wrong codes that lock a request: 5 in the code
    RequestLifetime,  \* CreatedAt to ExpiresAt: 24 hours in the code
    RetentionAge,     \* Retention:ConsentRequestDays
    MaxTime,          \* bound: the clock stops here
    MaxCode,          \* bound: codes generated for one request
    MaxOverwrite      \* bound: saves onto a changed row, for one request

ASSUME RequestConstants ==
    /\ CandidateOf \in [Request -> Candidate]
    /\ NoConsent \notin Consent
    /\ NoRequest \notin Request
    /\ AttemptLimit \in Nat \ {0}
    /\ RequestLifetime \in Nat
    /\ RetentionAge \in Nat
    /\ MaxTime \in Nat
    /\ MaxCode \in Nat \ {0}
    /\ MaxOverwrite \in Nat

VARIABLES
    now,         \* DateTime.UtcNow
    requests,    \* table ConsentRequests
    candidates,  \* addresses with a row in table Candidates
    issued,      \* for each consent inserted, the request it was approved on
    cooling,     \* requests in the static ResendCooldowns dictionary, their
                 \* 30 seconds not over (far below the clock's tick)
    codes,       \* how many codes were generated for a request
    misses,      \* observation: wrong codes answered since the last new code
    audited,     \* audit events of decisions: pairs of request and action
    overwrites,  \* observation: how many saves wrote to the request's row when
                 \* it was no longer as the handler had read it
    work         \* the handler each worker runs

vars == <<now, requests, candidates, issued, cooling, codes, misses,
          audited, overwrites, work>>

-----------------------------------------------------------------------------
(* Rows and handlers.  Code 0 is a null VerificationCodeHash in a row and a *)
(* wrong code in the candidate's input.                                     *)

Status == {"Pending", "Verified", "Approved", "Denied", "Expired"}

Row == [status   : Status \cup {"None", "Deleted"},
        code     : 0..MaxCode,
        attempts : Nat,
        created  : 0..MaxTime,
        verified : BOOLEAN,                    \* VerifiedAt is not null
        decided  : BOOLEAN,                    \* DecisionAt is not null
        consent  : Consent \cup {NoConsent}]

BlankRow == [status |-> "None", code |-> 0, attempts |-> 0, created |-> 0,
             verified |-> FALSE, decided |-> FALSE, consent |-> NoConsent]

Operation == {"view", "verify", "resend", "approve", "deny", "cancel"}

Handler == [stage        : {"loaded", "saving", "auditing"},
            op           : Operation,
            req          : Request,
            input        : 0..MaxCode,  \* verify: code typed; resend: new code
            old          : Row,         \* tracked entity as loaded
            new          : Row,         \* tracked entity when saved
            newCandidate : BOOLEAN,     \* a Candidate is Added in the context
            consent      : Consent \cup {NoConsent}]

Idle == [stage |-> "idle"]

Exists(r) == requests[r].status \in Status

(* `expiresAt <= now`, the test every page makes *)
Lapsed(row) == row.created + RequestLifetime <= now

(* Variant: the save writes the whole entity, as Update(entity) would.     *)
Merge_WholeRow(current, old, new) == new

(* A save writes the columns that differ from the snapshot, and no others. *)
Merge(current, old, new) ==
    LET Column(f) == IF new[f] = old[f] THEN current[f] ELSE new[f]
    IN  [status   |-> Column("status"),   code     |-> Column("code"),
         attempts |-> Column("attempts"), created  |-> Column("created"),
         verified |-> Column("verified"), decided  |-> Column("decided"),
         consent  |-> Column("consent")]

Unused(c) ==
    /\ issued[c] = NoRequest
    /\ \A w \in Worker : work[w] # Idle => work[w].consent # c

TypeOK ==
    /\ now \in 0..MaxTime
    /\ requests \in [Request -> Row]
    /\ candidates \subseteq Candidate
    /\ issued \in [Consent -> Request \cup {NoRequest}]
    /\ cooling \subseteq Request
    /\ codes \in [Request -> 0..MaxCode]
    /\ misses \in [Request -> Nat]
    /\ audited \subseteq Request \X {"issued", "denied", "cancelled"}
    /\ overwrites \in [Request -> 0..MaxOverwrite]
    /\ work \in [Worker -> Handler \cup {Idle}]

(* A candidate may be known from earlier requests. *)
Init ==
    /\ now = 0
    /\ requests = [r \in Request |-> BlankRow]
    /\ candidates \in SUBSET Candidate
    /\ issued = [c \in Consent |-> NoRequest]
    /\ cooling = {}
    /\ codes = [r \in Request |-> 0]
    /\ misses = [r \in Request |-> 0]
    /\ audited = {}
    /\ overwrites = [r \in Request |-> 0]
    /\ work = [w \in Worker |-> Idle]

-----------------------------------------------------------------------------
(* Environment: the clock, the retention sweep, deletion, crashes.         *)

Tick ==
    /\ now < MaxTime
    /\ now' = now + 1
    /\ UNCHANGED <<requests, candidates, issued, cooling, codes, misses,
                   audited, overwrites, work>>

CooldownEnds(r) ==
    /\ r \in cooling
    /\ cooling' = cooling \ {r}
    /\ UNCHANGED <<now, requests, candidates, issued, codes, misses, audited,
                   overwrites, work>>

(* Variant: only requests with an outcome are swept. *)
PastRetention_Decided(r) ==
    requests[r].decided /\ requests[r].created + RetentionAge <= now

PastRetention(r) == requests[r].created + RetentionAge <= now

(* One ExecuteDelete over every row older than the cut-off. *)
RetentionSweep ==
    LET old == {r \in Request : Exists(r) /\ PastRetention(r)}
    IN  /\ old # {}
        /\ requests' = [r \in Request |->
                          IF r \in old THEN [BlankRow EXCEPT !.status = "Deleted"]
                          ELSE requests[r]]
        /\ UNCHANGED <<now, candidates, issued, cooling, codes, misses,
                       audited, overwrites, work>>

(* A data-subject delete removes the row.  Which rows go together is the   *)
(* subject of that service's own module.                                   *)
Erase(r) ==
    /\ Exists(r)
    /\ requests' = [requests EXCEPT ![r] = [BlankRow EXCEPT !.status = "Deleted"]]
    /\ UNCHANGED <<now, candidates, issued, cooling, codes, misses, audited,
                   overwrites, work>>

(* The service then deletes the candidate's row if no request (and no      *)
(* consent) of that address is left.                                       *)
EraseCandidate(e) ==
    /\ e \in candidates
    /\ \A r \in Request : CandidateOf[r] = e => ~Exists(r)
    /\ candidates' = candidates \ {e}
    /\ UNCHANGED <<now, requests, issued, cooling, codes, misses, audited,
                   overwrites, work>>

(* The process restarts: handlers in progress are gone, and with them the  *)
(* static dictionary.  What was committed stays.                           *)
Crash ==
    /\ \E w \in Worker : work[w] # Idle
    /\ work' = [w \in Worker |-> Idle]
    /\ cooling' = {}
    /\ UNCHANGED <<now, requests, candidates, issued, codes, misses, audited,
                   overwrites>>

-----------------------------------------------------------------------------
(* The agent's API: POST /v1/consent-requests inserts without reading.     *)

CreateRequest(r) ==
    /\ requests[r].status = "None"
    /\ requests' = [requests EXCEPT ![r] =
                      [BlankRow EXCEPT !.status = "Pending", !.code = 1,
                                       !.created = now]]
    /\ codes' = [codes EXCEPT ![r] = 1]
    /\ UNCHANGED <<now, candidates, issued, cooling, misses, audited,
                   overwrites, work>>

-----------------------------------------------------------------------------
(* Steps every handler takes.                                              *)

Running(w, op, stage) ==
    /\ work[w] # Idle
    /\ work[w].op = op
    /\ work[w].stage = stage

(* The row is read; a missing row is a 404 and changes nothing. *)
Load(w, op, r, input) ==
    /\ work[w] = Idle
    /\ Exists(r)
    /\ work' = [work EXCEPT ![w] =
                  [stage |-> "loaded", op |-> op, req |-> r, input |-> input,
                   old |-> requests[r], new |-> requests[r],
                   newCandidate |-> FALSE, consent |-> NoConsent]]
    /\ UNCHANGED <<now, requests, candidates, issued, cooling, misses, audited,
                   overwrites>>

LoadPage(w, r) ==
    /\ \E op \in {"view", "deny", "cancel"} : Load(w, op, r, 0)
    /\ UNCHANGED codes

(* The bound on Consent applies here: an approval needs an id to draw. *)
LoadApprove(w, r) ==
    /\ Cardinality({c \in Consent : Unused(c)}) >
         Cardinality({v \in Worker : Running(v, "approve", "loaded")})
    /\ Load(w, "approve", r, 0)
    /\ UNCHANGED codes

(* The candidate types a code received for this request, or a wrong one. *)
LoadVerify(w, r) ==
    /\ \E typed \in 0..codes[r] : Load(w, "verify", r, typed)
    /\ UNCHANGED codes

(* The handler generates the new code later; numbering it at its arrival   *)
(* only names it.                                                          *)
LoadResend(w, r) ==
    /\ codes[r] < MaxCode
    /\ Load(w, "resend", r, codes[r] + 1)
    /\ codes' = [codes EXCEPT ![r] = codes[r] + 1]

(* The handler returns without saving. *)
Return(w) == work' = [work EXCEPT ![w] = Idle]

(* The handler has changed the tracked entity and calls SaveChangesAsync. *)
ToSave(w, row) ==
    work' = [work EXCEPT ![w].stage = "saving", ![w].new = row]

AsExpired(row) == [row EXCEPT !.status = "Expired"]

(* Variant: saving a row that is gone inserts it. *)
CanSave_Upsert(w) ==
    work[w].newCandidate => CandidateOf[work[w].req] \notin candidates

(* SaveChangesAsync fails as a whole when the row was deleted meanwhile    *)
(* (DbUpdateConcurrencyException), or when the Candidate it inserts hits   *)
(* the unique index on EmailHash.                                          *)
CanSave(w) ==
    /\ Exists(work[w].req)
    /\ work[w].newCandidate => CandidateOf[work[w].req] \notin candidates

(* Variant: the event is emitted whatever was saved. *)
AuditsDecision_Always(h) == h.op \in {"approve", "deny", "cancel"}

(* Approve.OnPost and cancel emit an audit event after their save, unless  *)
(* all they did was to mark the request expired.                           *)
AuditsDecision(h) ==
    h.op \in {"approve", "deny", "cancel"} /\ h.new.status # "Expired"

(* The save delivers a new code; the save records a wrong one. *)
Resends(h) == h.op = "resend" /\ h.new.code # h.old.code
Misses(h)  == h.op = "verify" /\ h.new.attempts # h.old.attempts
                              /\ h.new.status # "Verified"

SaveChanges(w) ==
    LET h == work[w]
        r == h.req
    IN  /\ h # Idle
        /\ h.stage = "saving"
        /\ CanSave(w)
        /\ requests' = [requests EXCEPT ![r] = Merge(requests[r], h.old, h.new)]
        /\ candidates' = IF h.newCandidate THEN candidates \cup {CandidateOf[r]}
                                           ELSE candidates
        /\ issued' = IF h.consent # NoConsent THEN [issued EXCEPT ![h.consent] = r]
                                              ELSE issued
        /\ cooling' = IF Resends(h) THEN cooling \cup {r} ELSE cooling
        /\ misses' = [misses EXCEPT ![r] = IF Resends(h) THEN 0
                                          ELSE IF Misses(h) THEN @ + 1 ELSE @]
        /\ IF requests[r] = h.old THEN UNCHANGED overwrites
           ELSE /\ overwrites[r] < MaxOverwrite
                /\ overwrites' = [overwrites EXCEPT ![r] = @ + 1]
        /\ work' = IF AuditsDecision(h)
                   THEN [work EXCEPT ![w].stage = "auditing"]
                   ELSE [work EXCEPT ![w] = Idle]
        /\ UNCHANGED <<now, codes, audited>>

SaveFails(w) ==
    /\ work[w] # Idle
    /\ work[w].stage = "saving"
    /\ ~CanSave(w)
    /\ Return(w)
    /\ UNCHANGED <<now, requests, candidates, issued, cooling, codes, misses,
                   audited, overwrites>>

EmitAudit(w) ==
    /\ work[w] # Idle
    /\ work[w].stage = "auditing"
    /\ audited' = audited \cup
         {<<work[w].req,
            CASE work[w].op = "approve" -> "issued"
              [] work[w].op = "deny"    -> "denied"
              [] OTHER                  -> "cancelled">>}
    /\ Return(w)
    /\ UNCHANGED <<now, requests, candidates, issued, cooling, codes, misses,
                   overwrites>>

-----------------------------------------------------------------------------
(* The handlers' bodies.                                                   *)

(* Request.OnGet: only an open request is marked expired. *)
ViewRequest(w) ==
    LET old == work[w].old
    IN  /\ Running(w, "view", "loaded")
        /\ IF Lapsed(old) /\ old.status \in {"Pending", "Verified"}
           THEN ToSave(w, AsExpired(old))
           ELSE Return(w)
        /\ UNCHANGED <<now, requests, candidates, issued, cooling, codes,
                       misses, audited, overwrites>>

(* What both POST handlers of the Request page do first: past ExpiresAt    *)
(* any status but Expired is overwritten.                                 *)
MarkLapsed(w) ==
    /\ Lapsed(work[w].old)
    /\ IF work[w].old.status # "Expired"
       THEN ToSave(w, AsExpired(work[w].old))
       ELSE Return(w)

(* Variant: the column counts the attempts left. *)
CountAttempt_Down(row) == [row EXCEPT !.attempts = row.attempts - 1]

CountAttempt(row) == [row EXCEPT !.attempts = row.attempts + 1]

(* Variant: one attempt too many. *)
Locks_Late(row) == row.attempts > AttemptLimit

Locks(row) == row.attempts >= AttemptLimit

(* Variant: a denied request still takes a code. *)
TakesCode_Denied(row) == ~Lapsed(row) /\ row.status \notin {"Approved", "Verified"}

TakesCode(row) ==
    ~Lapsed(row) /\ row.status \notin {"Approved", "Denied", "Verified"}

(* Request.OnPost with the right code, a wrong one, and the wrong one that *)
(* locks the request.                                                      *)
TryCode(w) ==
    LET h     == work[w]
        tried == CountAttempt(h.old)
        right == h.old.code # 0 /\ h.input = h.old.code
    IN  \/ /\ right
           /\ ToSave(w, [tried EXCEPT !.status = "Verified",
                                      !.verified = TRUE, !.code = 0])
        \/ /\ ~right /\ ~Locks(tried)
           /\ ToSave(w, tried)
        \/ /\ ~right /\ Locks(tried)
           /\ ToSave(w, [tried EXCEPT !.status = "Denied", !.decided = TRUE])

VerifyCode(w) ==
    LET old == work[w].old
    IN  /\ Running(w, "verify", "loaded")
        /\ \/ MarkLapsed(w)
           \/ ~Lapsed(old) /\ ~TakesCode(old) /\ Return(w)
           \/ TakesCode(old) /\ TryCode(w)
        /\ UNCHANGED <<now, requests, candidates, issued, cooling, codes,
                       misses, audited, overwrites>>

(* Variant: a resend starts the verification over. *)
WithNewCode_Restart(row, code) ==
    [row EXCEPT !.code = code, !.attempts = 0, !.status = "Pending"]

WithNewCode(row, code) == [row EXCEPT !.code = code, !.attempts = 0]

(* Request.OnPostResend.  The test of ResendWaitSeconds stands in the code *)
(* but the property is never assigned in this handler, so it reads 0 and   *)
(* the test never stops a resend.                                          *)
ResendCode(w) ==
    LET h == work[w]
    IN  /\ Running(w, "resend", "loaded")
        /\ \/ MarkLapsed(w)
           \/ /\ ~Lapsed(h.old)
              /\ h.old.status \in {"Approved", "Denied"}
              /\ Return(w)
           \/ /\ ~Lapsed(h.old)
              /\ h.old.status \notin {"Approved", "Denied"}
              /\ ToSave(w, WithNewCode(h.old, h.input))
        /\ UNCHANGED <<now, requests, candidates, issued, cooling, codes,
                       misses, audited, overwrites>>

(* Approve.OnPost up to the button: an expired request is marked, one that *)
(* is not Verified is sent to the Complete page.                           *)
NotDecidable(w) ==
    LET old == work[w].old
    IN  \/ /\ Lapsed(old) /\ old.status # "Expired"
           /\ ToSave(w, [AsExpired(old) EXCEPT !.decided = TRUE])
        \/ /\ ~(Lapsed(old) /\ old.status # "Expired")
           /\ old.status # "Verified"
           /\ Return(w)

(* Variant: the status is not looked at. *)
Decidable_Unchecked(w) == ~Lapsed(work[w].old)

Decidable(w) == ~Lapsed(work[w].old) /\ work[w].old.status = "Verified"

DenyRequest(w) ==
    /\ Running(w, "deny", "loaded")
    /\ \/ NotDecidable(w)
       \/ /\ Decidable(w)
          /\ ToSave(w, [work[w].old EXCEPT !.status = "Denied", !.decided = TRUE])
    /\ UNCHANGED <<now, requests, candidates, issued, cooling, codes, misses,
                   audited, overwrites>>

(* Variant: ConsentId is left null. *)
AsApproved_NoLink(row, c) ==
    [row EXCEPT !.status = "Approved", !.decided = TRUE, !.code = 0]

AsApproved(row, c) ==
    [row EXCEPT !.status = "Approved", !.decided = TRUE, !.consent = c, !.code = 0]

(* The candidate's row is looked up, a consent and its token are created,  *)
(* and all of it is added to the context that saves the request.           *)
ApproveRequest(w) ==
    /\ Running(w, "approve", "loaded")
    /\ \/ NotDecidable(w)
       \/ /\ Decidable(w)
          /\ \E c \in Consent :
               /\ Unused(c)
               /\ work' = [work EXCEPT
                    ![w].stage = "saving",
                    ![w].new = AsApproved(work[w].old, c),
                    ![w].newCandidate = CandidateOf[work[w].req] \notin candidates,
                    ![w].consent = c]
    /\ UNCHANGED <<now, requests, candidates, issued, cooling, codes, misses,
                   audited, overwrites>>

(* When issuing the token rotates the agent's signing key, RotateKey's     *)
(* audit event is saved through the handler's own context, which flushes   *)
(* the new Candidate before the consent exists.  RotateKey swallows the    *)
(* exception if that save fails.                                           *)
KeyRotationFlush(w) ==
    /\ Running(w, "approve", "saving")
    /\ work[w].newCandidate
    /\ CandidateOf[work[w].req] \notin candidates
    /\ candidates' = candidates \cup {CandidateOf[work[w].req]}
    /\ work' = [work EXCEPT ![w].newCandidate = FALSE]
    /\ UNCHANGED <<now, requests, issued, cooling, codes, misses, audited,
                   overwrites>>

(* Variant: an approved request can be cancelled. *)
Cancellable_Approved(row) == row.status \notin {"Denied", "Expired"}

Cancellable(row) == row.status \notin {"Approved", "Denied", "Expired"}

(* POST /v1/consent-requests/{id}/cancel: no look at the clock. *)
CancelRequest(w) ==
    LET old == work[w].old
    IN  /\ Running(w, "cancel", "loaded")
        /\ IF Cancellable(old)
           THEN ToSave(w, [old EXCEPT !.status = "Denied", !.decided = TRUE])
           ELSE Return(w)
        /\ UNCHANGED <<now, requests, candidates, issued, cooling, codes,
                       misses, audited, overwrites>>

-----------------------------------------------------------------------------
Arrive(w) ==
    \E r \in Request :
        LoadPage(w, r) \/ LoadApprove(w, r) \/ LoadVerify(w, r) \/ LoadResend(w, r)

(* What a handler that has started does next. *)
Proceed(w) ==
    \/ ViewRequest(w) \/ VerifyCode(w) \/ ResendCode(w)
    \/ ApproveRequest(w) \/ DenyRequest(w) \/ CancelRequest(w)
    \/ SaveChanges(w) \/ SaveFails(w) \/ EmitAudit(w)

Next ==
    \/ Tick \/ RetentionSweep \/ Crash
    \/ \E r \in Request : CreateRequest(r) \/ Erase(r) \/ CooldownEnds(r)
    \/ \E e \in Candidate : EraseCandidate(e)
    \/ \E w \in Worker : Arrive(w) \/ Proceed(w) \/ KeyRotationFlush(w)

Spec == Init /\ [][Next]_vars

(* The clock does not stop and the daily sweep keeps running. *)
FairSpec == Spec /\ WF_vars(Tick) /\ WF_vars(RetentionSweep)

-----------------------------------------------------------------------------
(* Properties.                                                             *)

GrantedOn(r) == {c \in Consent : issued[c] = r}

(* No consent without the candidate's e-mail having been verified: a        *)
(* request that is Verified or Approved, and one on which a consent was     *)
(* issued, has VerifiedAt set, whatever handlers overwrote each other.      *)
VerifiedFirst ==
    \A r \in Request :
        Exists(r) /\ (requests[r].status \in {"Verified", "Approved"} \/ GrantedOn(r) # {})
            => requests[r].verified

(* The request of an approval and its consent commit together: an Approved  *)
(* row names a consent, and the consent it names was issued on it.          *)
ApprovedHasItsConsent ==
    \A r \in Request :
        /\ requests[r].status = "Approved" => requests[r].consent # NoConsent
        /\ requests[r].consent # NoConsent => issued[requests[r].consent] = r

(* The audit trail does not run ahead of the database: a request with an    *)
(* audited decision has DecisionAt set, and "issued" is written only after  *)
(* the consent was.                                                         *)
AuditTellsTheTruth ==
    \A r \in Request, action \in {"issued", "denied", "cancelled"} :
        <<r, action>> \in audited =>
            /\ Exists(r) => requests[r].decided
            /\ action = "issued" => GrantedOn(r) # {}

(* Retention: whatever became of a request, also one nobody ever answered,  *)
(* it is deleted when it reaches its age.                                   *)
RetentionErases ==
    \A r \in Request :
        (Exists(r) /\ requests[r].created + RetentionAge <= MaxTime)
            ~> (requests[r].status = "Deleted")

(* A handler that still holds the row of a swept or erased request does not *)
(* bring it back when it saves.                                             *)
DeletedForGood ==
    [][\A r \in Request :
          requests[r].status = "Deleted" => requests'[r].status = "Deleted"]_vars

(* There is no concurrency token, so a save may land on a row that changed  *)
(* since it was read.  The next four bound what such saves can do; loads,   *)
(* lapses, deletions, crashes and failed saves in between do nothing.       *)

(* One approval, one consent; each save onto a changed row is good for one  *)
(* more at most.                                                            *)
OneConsentPerRequest ==
    \A r \in Request : Cardinality(GrantedOn(r)) <= 1 + overwrites[r]

(* A request whose outcome is Denied (denied, cancelled or locked) and on   *)
(* which a consent was granted has had a save onto a changed row.           *)
DeniedHasNoConsent ==
    \A r \in Request :
        requests[r].status = "Denied" /\ GrantedOn(r) # {} => overwrites[r] > 0

(* The lock-out of Request.OnPost, counted where the attempts are made and  *)
(* not in the column: AttemptLimit wrong codes close the request, and each  *)
(* save onto a changed row buys AttemptLimit more at most.                  *)
LockedAfterLimit ==
    \A r \in Request :
        /\ misses[r] <= AttemptLimit * (1 + overwrites[r])
        /\ misses[r] = AttemptLimit /\ overwrites[r] = 0 /\ Exists(r)
             => requests[r].status \in {"Denied", "Expired"}

(* Once Approved or Denied, a request changes only by lapsing or deletion,  *)
(* or by the save of a handler that had read it before that decision.       *)
DecisionChangesOnlyByExpiry ==
    [][\A r \in Request :
          requests[r].status \in {"Approved", "Denied"}
            => \/ requests'[r].status \in {requests[r].status, "Deleted"}
               \/ requests'[r].status = "Expired" /\ Lapsed(requests[r])
               \/ overwrites'[r] = overwrites[r] + 1]_vars

(* Complete.cshtml.cs tells the candidate of a Denied request that the      *)
(* agent cannot proceed: without exception, no consent was granted on it.   *)
DenialMeansNoConsent ==
    \A r \in Request : requests[r].status = "Denied" => GrantedOn(r) = {}

(* consent-web-flow.md: "once decision recorded, disable link".             *)
DecisionIsFinal ==
    [][\A r \in Request :
          requests[r].status \in {"Approved", "Denied"}
            => requests'[r].status \in {requests[r].status, "Deleted"}]_vars

(* With one handler at a time the flow is the abstract lifecycle; the proof *)
(* asks only that no save landed on a changed row.                         *)
Lifecycle == INSTANCE RequestLifecycle
    WITH status  <- [r \in Request |-> requests[r].status],
         granted <- [r \in Request |-> Cardinality(GrantedOn(r))]

ImplementsLifecycle == Lifecycle!Spec
=============================================================================
