------------------------ MODULE ConsentRequests_proofs ------------------------
(***************************************************************************)
(* Theorems about ConsentRequests, for every set of requests, candidates,  *)
(* consents and workers, every limit and every lifetime: what holds        *)
(* whatever handlers overlap on a request.                                 *)
(***************************************************************************)
EXTENDS ConsentRequests, TLAPS

USE RequestConstants

-----------------------------------------------------------------------------
(* What handlers do to a snapshot, and a save to a row.                    *)

Busy(w) == work[w] # Idle

DeletedRow == [BlankRow EXCEPT !.status = "Deleted"]

NewRow == [BlankRow EXCEPT !.status = "Pending", !.code = 1, !.created = now]

(* The rows that the handlers' bodies make of their snapshot, but for the   *)
(* approval itself.                                                         *)
Decision(h, row) ==
    \/ /\ Lapsed(h.old) /\ h.old.status # "Expired"
       /\ \/ h.op \in {"view", "verify", "resend"} /\ row = AsExpired(h.old)
          \/ /\ h.op \in {"approve", "deny"}
             /\ row = [AsExpired(h.old) EXCEPT !.decided = TRUE]
    \/ /\ h.op = "verify" /\ TakesCode(h.old)
       /\ \/ row = [CountAttempt(h.old) EXCEPT !.status = "Verified",
                                               !.verified = TRUE, !.code = 0]
          \/ row = CountAttempt(h.old) /\ ~Locks(row)
          \/ /\ Locks(CountAttempt(h.old))
             /\ row = [CountAttempt(h.old) EXCEPT !.status = "Denied", !.decided = TRUE]
    \/ /\ h.op = "resend" /\ ~Lapsed(h.old) /\ h.old.status \notin {"Approved", "Denied"}
       /\ row = WithNewCode(h.old, h.input)
    \/ /\ h.op = "deny" /\ ~Lapsed(h.old) /\ h.old.status = "Verified"
       /\ row = [h.old EXCEPT !.status = "Denied", !.decided = TRUE]
    \/ /\ h.op = "cancel" /\ Cancellable(h.old)
       /\ row = [h.old EXCEPT !.status = "Denied", !.decided = TRUE]

(* The approval, with the id drawn for the consent. *)
Approval(h, c, added) ==
    [h EXCEPT !.stage = "saving", !.new = AsApproved(h.old, c),
              !.newCandidate = added, !.consent = c]

Decide(w) ==
    ViewRequest(w) \/ VerifyCode(w) \/ ResendCode(w)
        \/ ApproveRequest(w) \/ DenyRequest(w) \/ CancelRequest(w)

Goes(w, h) == work' = [work EXCEPT ![w] = h]

LEMMA RowFields ==
  ASSUME NEW row \in Row
  PROVE  /\ row.status \in Status \cup {"None", "Deleted"}
         /\ row.code \in 0..MaxCode
         /\ row.attempts \in Nat
         /\ row.created \in 0..MaxTime
         /\ row.verified \in BOOLEAN
         /\ row.decided \in BOOLEAN
         /\ row.consent \in Consent \cup {NoConsent}
  BY DEF Row

LEMMA HandlerFields ==
  ASSUME NEW h \in Handler
  PROVE  /\ h.stage \in {"loaded", "saving", "auditing"}
         /\ h.op \in Operation
         /\ h.req \in Request
         /\ h.input \in 0..MaxCode
         /\ h.old \in Row
         /\ h.new \in Row
         /\ h.newCandidate \in BOOLEAN
         /\ h.consent \in Consent \cup {NoConsent}
  BY DEF Handler

LEMMA BlankRows ==
  /\ BlankRow \in Row /\ BlankRow.status = "None" /\ BlankRow.consent = NoConsent
  /\ DeletedRow \in Row /\ DeletedRow.status = "Deleted" /\ DeletedRow.consent = NoConsent
  <1>1. /\ 0 \in 0..MaxCode /\ 0 \in 0..MaxTime /\ 0 \in Nat
    OBVIOUS
  <1>2. BlankRow \in Row /\ BlankRow.status = "None" /\ BlankRow.consent = NoConsent
    BY <1>1 DEF BlankRow, Row
  <1>3. DeletedRow \in Row /\ DeletedRow.status = "Deleted" /\ DeletedRow.consent = NoConsent
    BY <1>2 DEF DeletedRow, Row
  <1>4. QED  BY <1>2, <1>3

LEMMA NewRows ==
  ASSUME now \in 0..MaxTime
  PROVE  /\ NewRow \in Row
         /\ NewRow.status = "Pending" /\ NewRow.code = 1 /\ NewRow.attempts = 0
         /\ NewRow.consent = NoConsent /\ NewRow.created = now
  <1>1. 1 \in 0..MaxCode
    OBVIOUS
  <1>2. BlankRow \in Row
    BY BlankRows
  <1>3. NewRow \in Row
    BY <1>1, <1>2 DEF NewRow, Row, Status
  <1>4. QED  BY <1>3 DEF NewRow, BlankRow

LEMMA HandlerUpdates ==
  ASSUME NEW h \in Handler, NEW row \in Row, NEW b \in BOOLEAN
  PROVE  /\ [h EXCEPT !.stage = "saving", !.new = row] \in Handler
         /\ \A c \in Consent :
              [h EXCEPT !.stage = "saving", !.new = row, !.newCandidate = b,
                        !.consent = c] \in Handler
         /\ [h EXCEPT !.stage = "auditing"] \in Handler
         /\ [h EXCEPT !.newCandidate = FALSE] \in Handler
  <1>1. [h EXCEPT !.stage = "saving", !.new = row] \in Handler
    BY DEF Handler
  <1>2. ASSUME NEW c \in Consent
        PROVE  [h EXCEPT !.stage = "saving", !.new = row, !.newCandidate = b,
                         !.consent = c] \in Handler
    BY DEF Handler
  <1>3. [h EXCEPT !.stage = "auditing"] \in Handler
    BY DEF Handler
  <1>4. [h EXCEPT !.newCandidate = FALSE] \in Handler
    BY DEF Handler
  <1>5. QED  BY <1>1, <1>2, <1>3, <1>4

(* A save takes each column from the handler if the handler changed it.     *)
LEMMA MergeColumns ==
  ASSUME NEW row \in Row, NEW old \in Row, NEW new \in Row
  PROVE  /\ Merge(row, old, new) \in Row
         /\ Merge(row, old, new).status
              = IF new.status = old.status THEN row.status ELSE new.status
         /\ Merge(row, old, new).code
              = IF new.code = old.code THEN row.code ELSE new.code
         /\ Merge(row, old, new).attempts
              = IF new.attempts = old.attempts THEN row.attempts ELSE new.attempts
         /\ Merge(row, old, new).created
              = IF new.created = old.created THEN row.created ELSE new.created
         /\ Merge(row, old, new).verified
              = IF new.verified = old.verified THEN row.verified ELSE new.verified
         /\ Merge(row, old, new).decided
              = IF new.decided = old.decided THEN row.decided ELSE new.decided
         /\ Merge(row, old, new).consent
              = IF new.consent = old.consent THEN row.consent ELSE new.consent
  BY DEF Merge, Row

(* What a decision leaves alone and what it sets. *)
LEMMA DecisionColumns ==
  ASSUME NEW h \in Handler, NEW row, Decision(h, row), h.old.status \in Status
  PROVE  /\ row \in Row
         /\ row.status \in Status
         /\ row.created = h.old.created
         /\ row.consent = h.old.consent
         /\ h.old.verified => row.verified
         /\ h.old.decided => row.decided
         /\ row.status = "Approved" => h.old.status = "Approved"
         /\ row.status = "Verified" => row.verified \/ h.old.status = "Verified"
         /\ h.op \in {"approve", "deny", "cancel"} => row.decided
         /\ h.op = "approve" => row.status = "Expired"
  <1>0. h.old \in Row /\ h.input \in 0..MaxCode /\ 0 \in 0..MaxCode
    BY HandlerFields
  <1> DEFINE tried == CountAttempt(h.old)
  <1>1. CASE h.op \in {"view", "verify", "resend"} /\ row = AsExpired(h.old)
    BY <1>0, <1>1 DEF AsExpired, Row, Status
  <1>2. CASE h.op \in {"approve", "deny"} /\ row = [AsExpired(h.old) EXCEPT !.decided = TRUE]
    BY <1>0, <1>2 DEF AsExpired, Row, Status
  <1>3. /\ tried \in Row
        /\ tried.status = h.old.status /\ tried.created = h.old.created
        /\ tried.consent = h.old.consent /\ tried.verified = h.old.verified
        /\ tried.decided = h.old.decided
    BY <1>0, RowFields DEF CountAttempt, Row
  <1>4. CASE h.op = "verify" /\ TakesCode(h.old)
    <2> HIDE DEF tried
    <2>1. CASE row = [tried EXCEPT !.status = "Verified", !.verified = TRUE, !.code = 0]
      BY <1>0, <1>3, <1>4, <2>1 DEF Row, Status
    <2>2. CASE row = [tried EXCEPT !.status = "Denied", !.decided = TRUE]
      BY <1>3, <1>4, <2>2 DEF Row, Status
    <2>3. CASE row = tried
      BY <1>3, <1>4, <2>3
    <2>4. QED  BY <1>1, <1>4, <2>1, <2>2, <2>3 DEF Decision, tried
  <1>5. CASE h.op = "resend" /\ row = WithNewCode(h.old, h.input)
    BY <1>0, <1>5 DEF WithNewCode, Row, Status
  <1>6. CASE h.op \in {"deny", "cancel"} /\ row = [h.old EXCEPT !.status = "Denied", !.decided = TRUE]
    BY <1>0, <1>6 DEF Row, Status
  <1>7. QED  BY <1>1, <1>2, <1>4, <1>5, <1>6 DEF Decision

-----------------------------------------------------------------------------
(* The steps, as the other proofs use them.                                *)

LEMMA BusyHandler ==
  ASSUME TypeOK, NEW w \in Worker, Busy(w)
  PROVE  work[w] \in Handler
  BY DEF TypeOK, Busy

LEMMA Goes_To ==
  ASSUME TypeOK, NEW w \in Worker, NEW h, Goes(w, h)
  PROVE  work'[w] = h /\ \A v \in Worker : v # w => work'[v] = work[v]
  BY DEF TypeOK, Goes

(* A handler arrives with the row it read. *)
LEMMA ArriveStep ==
  ASSUME TypeOK, NEW w \in Worker, Arrive(w)
  PROVE  \E r \in Request, op \in Operation, input \in 0..MaxCode :
           /\ ~Busy(w) /\ Load(w, op, r, input)
           /\ IF op = "resend" THEN /\ input = codes[r] + 1
                                    /\ codes' = [codes EXCEPT ![r] = input]
              ELSE codes' = codes
  <1>0. codes \in [Request -> 0..MaxCode] /\ 0 \in 0..MaxCode
    BY DEF TypeOK
  <1>1. ASSUME NEW r \in Request, LoadPage(w, r) \/ LoadApprove(w, r)
        PROVE  \E op \in Operation : op # "resend" /\ Load(w, op, r, 0) /\ codes' = codes
    BY <1>1 DEF LoadPage, LoadApprove, Operation
  <1>2. ASSUME NEW r \in Request, LoadVerify(w, r)
        PROVE  \E input \in 0..MaxCode : Load(w, "verify", r, input) /\ codes' = codes
    <2>1. codes[r] \in 0..MaxCode
      BY <1>0
    <2>2. PICK typed \in 0..codes[r] : Load(w, "verify", r, typed) /\ codes' = codes
      BY <1>2 DEF LoadVerify
    <2>3. typed \in 0..MaxCode
      BY <2>1
    <2>4. QED  BY <2>2, <2>3
  <1>3. ASSUME NEW r \in Request, LoadResend(w, r)
        PROVE  \E input \in 0..MaxCode :
                 /\ Load(w, "resend", r, input) /\ input = codes[r] + 1
                 /\ codes' = [codes EXCEPT ![r] = input]
    <2>1. codes[r] + 1 \in 0..MaxCode
      BY <1>0, <1>3 DEF LoadResend
    <2>2. QED  BY <1>3, <2>1 DEF LoadResend
  <1>4. \A op, r, input : Load(w, op, r, input) => ~Busy(w)
    BY DEF Load, Busy
  <1>5. QED  BY <1>0, <1>1, <1>2, <1>3, <1>4 DEF Arrive, Operation

(* A body returns, saves a decision, or saves an approval. *)
LEMMA DecideStep ==
  ASSUME TypeOK, NEW w \in Worker, Decide(w)
  PROVE  /\ Busy(w) /\ work[w].stage = "loaded"
         /\ UNCHANGED <<now, requests, candidates, issued, cooling, codes, misses,
                         audited, overwrites>>
         /\ \/ Goes(w, Idle)
            \/ \E row : /\ Decision(work[w], row)
                        /\ Goes(w, [work[w] EXCEPT !.stage = "saving", !.new = row])
            \/ /\ work[w].op = "approve" /\ Decidable(w)
               /\ \E c \in Consent, b \in BOOLEAN :
                     Unused(c) /\ Goes(w, Approval(work[w], c, b))
  <1> DEFINE h == work[w]
             Saves == \E row : /\ Decision(h, row)
                               /\ Goes(w, [h EXCEPT !.stage = "saving", !.new = row])
  <1>1. ASSUME NEW row, ToSave(w, row)
        PROVE  Goes(w, [h EXCEPT !.stage = "saving", !.new = row])
    BY <1>1 DEF ToSave, Goes, TypeOK
  <1>2. Return(w) => Goes(w, Idle)
    BY DEF Return, Goes
  <1>3. CASE ViewRequest(w)
    <2>1. Saves \/ Goes(w, Idle)
      BY <1>1, <1>2, <1>3 DEF ViewRequest, Running, Decision
    <2>2. QED  BY <1>3, <2>1 DEF ViewRequest, Running, Busy
  <1>4. ASSUME MarkLapsed(w), h.op \in {"verify", "resend"}
        PROVE  Saves \/ Goes(w, Idle)
    BY <1>1, <1>2, <1>4 DEF MarkLapsed, Decision
  <1>5. CASE VerifyCode(w)
    <2>1. ASSUME TakesCode(h.old), TryCode(w) PROVE Saves
      <3> DEFINE tried == CountAttempt(h.old)
      <3>0. h.op = "verify"
        BY <1>5 DEF VerifyCode, Running
      <3>1. CASE ToSave(w, [tried EXCEPT !.status = "Verified", !.verified = TRUE, !.code = 0])
        BY <1>1, <2>1, <3>0, <3>1 DEF Decision
      <3>2. CASE ~Locks(tried) /\ ToSave(w, tried)
        BY <1>1, <2>1, <3>0, <3>2 DEF Decision
      <3>3. CASE /\ Locks(tried)
                 /\ ToSave(w, [tried EXCEPT !.status = "Denied", !.decided = TRUE])
        BY <1>1, <2>1, <3>0, <3>3 DEF Decision
      <3>4. QED  BY <2>1, <3>1, <3>2, <3>3 DEF TryCode
    <2>2. Saves \/ Goes(w, Idle)
      BY <1>2, <1>4, <1>5, <2>1 DEF VerifyCode, Running
    <2>3. QED  BY <1>5, <2>2 DEF VerifyCode, Running, Busy
  <1>6. CASE ResendCode(w)
    <2>1. Saves \/ Goes(w, Idle)
      BY <1>1, <1>2, <1>4, <1>6 DEF ResendCode, Running, Decision
    <2>2. QED  BY <1>6, <2>1 DEF ResendCode, Running, Busy
  <1>7. ASSUME NotDecidable(w), h.op \in {"approve", "deny"}
        PROVE  Saves \/ Goes(w, Idle)
    BY <1>1, <1>2, <1>7 DEF NotDecidable, Decision
  <1>8. CASE DenyRequest(w)
    <2>1. Saves \/ Goes(w, Idle)
      BY <1>1, <1>7, <1>8 DEF DenyRequest, Running, Decidable, Decision
    <2>2. QED  BY <1>8, <2>1 DEF DenyRequest, Running, Busy
  <1>9. CASE ApproveRequest(w)
    <2>1. ASSUME NEW c \in Consent,
                 work' = [work EXCEPT
                    ![w].stage = "saving",
                    ![w].new = AsApproved(work[w].old, c),
                    ![w].newCandidate = CandidateOf[work[w].req] \notin candidates,
                    ![w].consent = c]
          PROVE  \E b \in BOOLEAN : Goes(w, Approval(h, c, b))
      BY <2>1 DEF Goes, Approval, TypeOK
    <2>2. \/ Saves \/ Goes(w, Idle)
          \/ /\ h.op = "approve" /\ Decidable(w)
             /\ \E c \in Consent, b \in BOOLEAN : Unused(c) /\ Goes(w, Approval(h, c, b))
      BY <1>7, <1>9, <2>1 DEF ApproveRequest, Running
    <2>3. QED  BY <1>9, <2>2 DEF ApproveRequest, Running, Busy
  <1>10. CASE CancelRequest(w)
    <2>1. Saves \/ Goes(w, Idle)
      BY <1>1, <1>2, <1>10 DEF CancelRequest, Running, Decision
    <2>2. QED  BY <1>10, <2>1 DEF CancelRequest, Running, Busy
  <1>11. QED  BY <1>3, <1>5, <1>6, <1>8, <1>9, <1>10 DEF Decide

(* What one step of the system does to a row. *)
LEMMA RowStep ==
  ASSUME TypeOK, [Next]_vars, NEW r \in Request
  PROVE  \/ requests'[r] = requests[r]
         \/ Exists(r) /\ requests'[r] = DeletedRow
         \/ requests[r].status = "None" /\ requests'[r] = NewRow /\ codes'[r] = 1
         \/ \E w \in Worker : /\ SaveChanges(w) /\ work[w].req = r
                              /\ requests'[r] = Merge(requests[r], work[w].old, work[w].new)
  <1>1. CASE Tick \/ Crash \/ UNCHANGED vars
    BY <1>1 DEF Tick, Crash, vars
  <1>2. CASE RetentionSweep
    BY <1>2 DEF RetentionSweep, DeletedRow
  <1>3. ASSUME NEW s \in Request, CreateRequest(s) \/ Erase(s) \/ CooldownEnds(s)
        PROVE  \/ requests'[r] = requests[r]
               \/ Exists(r) /\ requests'[r] = DeletedRow
               \/ requests[r].status = "None" /\ requests'[r] = NewRow /\ codes'[r] = 1
    BY <1>3 DEF CreateRequest, Erase, CooldownEnds, DeletedRow, NewRow, TypeOK
  <1>4. CASE \E e \in Candidate : EraseCandidate(e)
    BY <1>4 DEF EraseCandidate
  <1>5. ASSUME NEW w \in Worker, SaveChanges(w)
        PROVE  \/ requests'[r] = requests[r]
               \/ /\ work[w].req = r
                  /\ requests'[r] = Merge(requests[r], work[w].old, work[w].new)
    BY <1>5 DEF SaveChanges, TypeOK
  <1>6. ASSUME NEW w \in Worker, Arrive(w) PROVE requests' = requests
    BY <1>6, ArriveStep DEF Load
  <1>7. ASSUME NEW w \in Worker, Decide(w) PROVE requests' = requests
    BY <1>7, DecideStep
  <1>8. ASSUME NEW w \in Worker, SaveFails(w) \/ EmitAudit(w) \/ KeyRotationFlush(w)
        PROVE  requests' = requests
    BY <1>8 DEF SaveFails, EmitAudit, KeyRotationFlush
  <1>9. QED  BY <1>1, <1>2, <1>3, <1>4, <1>5, <1>6, <1>7, <1>8 DEF Next, Proceed, Decide

(* What it does to a handler. *)
LEMMA HandlerStep ==
  ASSUME TypeOK, [Next]_vars, NEW w \in Worker, Busy(w)'
  PROVE  \/ work'[w] = work[w]
         \/ ~Busy(w) /\ \E r \in Request, op \in Operation, input \in 0..MaxCode :
              /\ Load(w, op, r, input)
              /\ op = "resend" => input = codes[r] + 1 /\ codes' = [codes EXCEPT ![r] = input]
         \/ /\ Busy(w) /\ Decide(w)
            /\ \E row : /\ Decision(work[w], row)
                        /\ work'[w] = [work[w] EXCEPT !.stage = "saving", !.new = row]
         \/ /\ Busy(w) /\ Decide(w) /\ work[w].op = "approve" /\ Decidable(w)
            /\ \E c \in Consent, b \in BOOLEAN :
                 Unused(c) /\ work'[w] = Approval(work[w], c, b)
         \/ /\ Busy(w) /\ SaveChanges(w) /\ AuditsDecision(work[w])
            /\ work'[w] = [work[w] EXCEPT !.stage = "auditing"]
         \/ /\ Busy(w) /\ KeyRotationFlush(w)
            /\ work'[w] = [work[w] EXCEPT !.newCandidate = FALSE]
  <1>1. CASE Tick \/ RetentionSweep \/ UNCHANGED vars
    BY <1>1 DEF Tick, RetentionSweep, vars
  <1>2. CASE Crash
    BY <1>2 DEF Crash, Busy
  <1>3. CASE \E s \in Request : CreateRequest(s) \/ Erase(s) \/ CooldownEnds(s)
    BY <1>3 DEF CreateRequest, Erase, CooldownEnds
  <1>4. CASE \E e \in Candidate : EraseCandidate(e)
    BY <1>4 DEF EraseCandidate
  <1>5. ASSUME NEW v \in Worker, v # w,
               Arrive(v) \/ Decide(v) \/ SaveChanges(v) \/ SaveFails(v) \/ EmitAudit(v)
                 \/ KeyRotationFlush(v)
        PROVE  work'[w] = work[w]
    <2>1. CASE Arrive(v)
      <3>1. \E h : Goes(v, h)
        BY <2>1, ArriveStep DEF Load, Goes
      <3>2. QED  BY <1>5, <3>1, Goes_To
    <2>2. CASE Decide(v)
      <3>1. \E h : Goes(v, h)
        BY <2>2, DecideStep
      <3>2. QED  BY <1>5, <3>1, Goes_To
    <2>3. CASE SaveChanges(v) \/ SaveFails(v) \/ EmitAudit(v) \/ KeyRotationFlush(v)
      BY <1>5, <2>3 DEF SaveChanges, SaveFails, EmitAudit, KeyRotationFlush, Return, TypeOK
    <2>4. QED  BY <1>5, <2>1, <2>2, <2>3
  <1>6. CASE Arrive(w)
    BY <1>6, ArriveStep
  <1>7. CASE Decide(w)
    <2>1. \A h : Goes(w, h) => work'[w] = h
      BY Goes_To
    <2>2. ~Goes(w, Idle) /\ Busy(w)
      BY <1>7, <2>1, DecideStep DEF Busy
    <2>3. QED  BY <1>7, <2>1, <2>2, DecideStep
  <1>8. CASE SaveChanges(w)
    BY <1>8 DEF SaveChanges, TypeOK, Busy
  <1>9. CASE SaveFails(w) \/ EmitAudit(w)
    BY <1>9 DEF SaveFails, EmitAudit, Return, TypeOK, Busy
  <1>10. CASE KeyRotationFlush(w)
    BY <1>10 DEF KeyRotationFlush, Running, TypeOK, Busy
  <1>11. QED
    BY <1>1, <1>2, <1>3, <1>4, <1>5, <1>6, <1>7, <1>8, <1>9, <1>10 DEF Next, Proceed, Decide

(* What it does to the consents issued. *)
LEMMA IssuedStep ==
  ASSUME TypeOK, [Next]_vars, NEW c \in Consent
  PROVE  \/ issued'[c] = issued[c]
         \/ \E w \in Worker : /\ SaveChanges(w) /\ work[w].consent = c
                              /\ issued'[c] = work[w].req
  <1>1. CASE Tick \/ RetentionSweep \/ Crash \/ UNCHANGED vars
    BY <1>1 DEF Tick, RetentionSweep, Crash, vars
  <1>2. CASE \E s \in Request : CreateRequest(s) \/ Erase(s) \/ CooldownEnds(s)
    BY <1>2 DEF CreateRequest, Erase, CooldownEnds
  <1>3. CASE \E e \in Candidate : EraseCandidate(e)
    BY <1>3 DEF EraseCandidate
  <1>4. ASSUME NEW w \in Worker, SaveChanges(w)
        PROVE  issued'[c] = issued[c] \/ (work[w].consent = c /\ issued'[c] = work[w].req)
    BY <1>4 DEF SaveChanges, TypeOK
  <1>5. ASSUME NEW w \in Worker, Arrive(w) \/ Decide(w) PROVE issued' = issued
    BY <1>5, ArriveStep, DecideStep DEF Load
  <1>6. ASSUME NEW w \in Worker, SaveFails(w) \/ EmitAudit(w) \/ KeyRotationFlush(w)
        PROVE  issued' = issued
    BY <1>6 DEF SaveFails, EmitAudit, KeyRotationFlush
  <1>7. QED  BY <1>1, <1>2, <1>3, <1>4, <1>5, <1>6 DEF Next, Proceed, Decide

-----------------------------------------------------------------------------
(* Type correctness.  A decision is a row only if it was made on a row of a *)
(* request that exists, so the type invariant comes with that fact.         *)

LoadedExisting == \A w \in Worker : Busy(w) => work[w].old.status \in Status

TypeInv == TypeOK /\ LoadedExisting

LEMMA HandlerType ==
  ASSUME TypeInv, [Next]_vars, NEW w \in Worker, Busy(w)'
  PROVE  work'[w] \in Handler /\ work'[w].old.status \in Status
  <1> DEFINE h == work[w]
  <1>0. TypeOK /\ LoadedExisting
    BY DEF TypeInv
  <1>1. Busy(w) => h \in Handler /\ h.old.status \in Status /\ h.old \in Row
    BY <1>0, BusyHandler, HandlerFields DEF LoadedExisting
  <1>2. CASE work'[w] = h
    BY <1>1, <1>2 DEF Busy
  <1>3. ASSUME NEW r \in Request, NEW op \in Operation, NEW input \in 0..MaxCode,
               Load(w, op, r, input)
        PROVE  work'[w] \in Handler /\ work'[w].old.status \in Status
    <2> DEFINE g == [stage |-> "loaded", op |-> op, req |-> r, input |-> input,
                     old |-> requests[r], new |-> requests[r],
                     newCandidate |-> FALSE, consent |-> NoConsent]
    <2>1. requests[r] \in Row
      BY <1>0 DEF TypeOK
    <2>2. g \in Handler
      BY <2>1 DEF Handler
    <2>3. work'[w] = g
      BY <1>0, <1>3 DEF Load, TypeOK
    <2>4. QED  BY <1>3, <2>2, <2>3 DEF Load, Exists
  <1>4. ASSUME NEW row, Busy(w), Decision(h, row),
               work'[w] = [h EXCEPT !.stage = "saving", !.new = row]
        PROVE  work'[w] \in Handler /\ work'[w].old.status \in Status
    <2>1. row \in Row
      BY <1>1, <1>4, DecisionColumns
    <2> DEFINE g == [h EXCEPT !.stage = "saving", !.new = row]
    <2>2. g \in Handler
      BY <1>1, <1>4, <2>1, HandlerUpdates
    <2>3. g.old = h.old
      BY <1>1, <1>4 DEF Handler
    <2>4. QED  BY <1>1, <1>4, <2>2, <2>3
  <1>5. ASSUME NEW c \in Consent, NEW b \in BOOLEAN, Busy(w),
               work'[w] = Approval(h, c, b)
        PROVE  work'[w] \in Handler /\ work'[w].old.status \in Status
    <2>1. AsApproved(h.old, c) \in Row
      <3>1. 0 \in 0..MaxCode
        OBVIOUS
      <3>2. QED  BY <1>1, <1>5, <3>1 DEF AsApproved, Row, Status
    <2>2. Approval(h, c, b) \in Handler
      BY <1>1, <1>5, <2>1, HandlerUpdates DEF Approval
    <2>3. Approval(h, c, b).old = h.old
      BY <1>1, <1>5 DEF Handler, Approval
    <2>4. QED  BY <1>1, <1>5, <2>2, <2>3
  <1>6. ASSUME Busy(w), \/ work'[w] = [h EXCEPT !.stage = "auditing"]
                        \/ work'[w] = [h EXCEPT !.newCandidate = FALSE]
        PROVE  work'[w] \in Handler /\ work'[w].old.status \in Status
    BY <1>1, <1>6 DEF Handler
  <1>7. QED  BY <1>0, <1>2, <1>3, <1>4, <1>5, <1>6, HandlerStep

LEMMA TablesType ==
  ASSUME TypeInv, [Next]_vars
  PROVE  /\ now' \in 0..MaxTime
         /\ requests' \in [Request -> Row]
         /\ candidates' \subseteq Candidate
         /\ issued' \in [Consent -> Request \cup {NoRequest}]
         /\ cooling' \subseteq Request
         /\ codes' \in [Request -> 0..MaxCode]
         /\ misses' \in [Request -> Nat]
         /\ audited' \subseteq Request \X {"issued", "denied", "cancelled"}
         /\ overwrites' \in [Request -> 0..MaxOverwrite]
         /\ work' = [w \in Worker |-> work'[w]]
  <1>0. TypeOK /\ LoadedExisting
    BY DEF TypeInv
  <1>1. CASE Tick \/ RetentionSweep \/ Crash \/ UNCHANGED vars
    BY <1>0, <1>1, BlankRows DEF Tick, RetentionSweep, Crash, vars, TypeOK, DeletedRow
  <1>2. ASSUME NEW r \in Request, CreateRequest(r) \/ Erase(r) \/ CooldownEnds(r)
        PROVE  TypeOK'
    <2>1. 1 \in 0..MaxCode /\ now \in 0..MaxTime
      BY <1>0 DEF TypeOK
    <2>2. QED
      BY <1>0, <1>2, <2>1, BlankRows, NewRows
         DEF CreateRequest, Erase, CooldownEnds, TypeOK, DeletedRow, NewRow
  <1>3. ASSUME NEW e \in Candidate, EraseCandidate(e) PROVE TypeOK'
    BY <1>0, <1>3 DEF EraseCandidate, TypeOK
  <1>4. ASSUME NEW w \in Worker, Arrive(w)
        PROVE  /\ UNCHANGED <<now, requests, candidates, issued, cooling, misses, audited,
                               overwrites>>
               /\ codes' \in [Request -> 0..MaxCode]
               /\ \E h : Goes(w, h)
    BY <1>0, <1>4, ArriveStep DEF Load, TypeOK, Goes
  <1>5. ASSUME NEW w \in Worker, Decide(w)
        PROVE  /\ UNCHANGED <<now, requests, candidates, issued, cooling, codes, misses,
                               audited, overwrites>>
               /\ \E h : Goes(w, h)
    BY <1>0, <1>5, DecideStep
  <1>6. ASSUME NEW w \in Worker, SaveChanges(w)
        PROVE  /\ UNCHANGED <<now, codes, audited>>
               /\ requests' \in [Request -> Row]
               /\ candidates' \subseteq Candidate
               /\ issued' \in [Consent -> Request \cup {NoRequest}]
               /\ cooling' \subseteq Request
               /\ misses' \in [Request -> Nat]
               /\ overwrites' \in [Request -> 0..MaxOverwrite]
               /\ \E h : Goes(w, h)
    <2> DEFINE h == work[w]
    <2>1. h \in Handler
      BY <1>0, <1>6, BusyHandler DEF SaveChanges, Busy
    <2>2. /\ h.req \in Request /\ h.old \in Row /\ h.new \in Row
          /\ h.consent \in Consent \cup {NoConsent}
          /\ requests[h.req] \in Row
      BY <1>0, <2>1, HandlerFields DEF TypeOK
    <2>3. Merge(requests[h.req], h.old, h.new) \in Row
      BY <2>2, MergeColumns
    <2>4. requests' \in [Request -> Row]
      BY <1>0, <1>6, <2>2, <2>3 DEF SaveChanges, TypeOK
    <2>5. misses' \in [Request -> Nat]
      <3> DEFINE Count(n) == IF Resends(h) THEN 0
                             ELSE IF Misses(h) THEN n + 1 ELSE n
      <3>1. \A n \in Nat : Count(n) \in Nat
        OBVIOUS
      <3>2. misses' = [misses EXCEPT ![h.req] = Count(misses[h.req])]
        BY <1>6 DEF SaveChanges
      <3> HIDE DEF Count
      <3>3. QED  BY <1>0, <2>2, <3>1, <3>2 DEF TypeOK
    <2>6. /\ candidates' \subseteq Candidate
          /\ issued' \in [Consent -> Request \cup {NoRequest}]
          /\ cooling' \subseteq Request
      BY <1>0, <1>6, <2>2 DEF SaveChanges, TypeOK
    <2>7. \E g : Goes(w, g)
      <3>1. CASE AuditsDecision(h)
        <4>1. Goes(w, [h EXCEPT !.stage = "auditing"])
          BY <1>0, <1>6, <3>1 DEF SaveChanges, Goes, TypeOK
        <4>2. QED  BY <4>1
      <3>2. CASE ~AuditsDecision(h)
        BY <1>6, <3>2 DEF SaveChanges, Goes
      <3>3. QED  BY <3>1, <3>2
    <2>8. overwrites' \in [Request -> 0..MaxOverwrite]
      <3>1. overwrites \in [Request -> 0..MaxOverwrite]
        BY <1>0 DEF TypeOK
      <3>2. CASE UNCHANGED overwrites
        BY <3>1, <3>2
      <3>3. CASE /\ overwrites[h.req] < MaxOverwrite
                 /\ overwrites' = [overwrites EXCEPT ![h.req] = overwrites[h.req] + 1]
        <4>1. overwrites[h.req] + 1 \in 0..MaxOverwrite
          BY <2>2, <3>1, <3>3
        <4>2. QED  BY <3>1, <3>3, <4>1
      <3>4. QED  BY <1>6, <3>2, <3>3 DEF SaveChanges
    <2>9. QED  BY <1>6, <2>4, <2>5, <2>6, <2>7, <2>8 DEF SaveChanges
  <1>7. ASSUME NEW w \in Worker, SaveFails(w) \/ EmitAudit(w)
        PROVE  /\ UNCHANGED <<now, requests, candidates, issued, cooling, codes, misses,
                               overwrites>>
               /\ audited' \subseteq Request \X {"issued", "denied", "cancelled"}
               /\ Goes(w, Idle)
    <2>1. work[w].req \in Request
      BY <1>0, <1>7, BusyHandler, HandlerFields DEF SaveFails, EmitAudit, Busy
    <2>2. CASE SaveFails(w)
      BY <1>0, <2>2 DEF SaveFails, Return, Goes, TypeOK
    <2>3. CASE EmitAudit(w)
      <3>1. \E a \in {"issued", "denied", "cancelled"} :
              audited' = audited \cup {<<work[w].req, a>>}
        BY <2>3 DEF EmitAudit
      <3>2. QED  BY <1>0, <2>1, <2>3, <3>1 DEF EmitAudit, Return, Goes, TypeOK
    <2>4. QED  BY <1>7, <2>2, <2>3
  <1>8. ASSUME NEW w \in Worker, KeyRotationFlush(w)
        PROVE  /\ UNCHANGED <<now, requests, issued, cooling, codes, misses, audited,
                               overwrites>>
               /\ candidates' \subseteq Candidate
               /\ \E g : Goes(w, g)
    <2>1. work[w].req \in Request
      BY <1>0, <1>8, BusyHandler, HandlerFields DEF KeyRotationFlush, Running, Busy
    <2>2. candidates' \subseteq Candidate
      BY <1>0, <1>8, <2>1 DEF KeyRotationFlush, TypeOK
    <2>3. Goes(w, [work[w] EXCEPT !.newCandidate = FALSE])
      BY <1>0, <1>8 DEF KeyRotationFlush, Goes, TypeOK
    <2>4. QED  BY <1>8, <2>2, <2>3 DEF KeyRotationFlush
  <1>9. \A w \in Worker : \A h : Goes(w, h) => work' = [v \in Worker |-> work'[v]]
    BY <1>0 DEF Goes, TypeOK
  <1>10. QED
    BY <1>0, <1>1, <1>2, <1>3, <1>4, <1>5, <1>6, <1>7, <1>8, <1>9
       DEF Next, Proceed, Decide, TypeOK

LEMMA InitType == Init => TypeInv
  <1> SUFFICES ASSUME Init PROVE TypeInv
    OBVIOUS
  <1>1. /\ 0 \in 0..MaxTime /\ 0 \in 0..MaxCode /\ 0 \in 0..MaxOverwrite
    OBVIOUS
  <1>2. TypeOK
    BY <1>1, BlankRows DEF Init, TypeOK
  <1>3. QED  BY <1>2 DEF Init, TypeInv, LoadedExisting, Busy

LEMMA NextType == TypeInv /\ [Next]_vars => TypeInv'
  <1> SUFFICES ASSUME TypeInv, [Next]_vars PROVE TypeInv'
    OBVIOUS
  <1>1. \A w \in Worker : work'[w] # Idle =>
          work'[w] \in Handler /\ work'[w].old.status \in Status
    BY HandlerType DEF Busy
  <1>2. work' \in [Worker -> Handler \cup {Idle}]
    BY <1>1, TablesType
  <1>3. TypeOK'
    BY <1>2, TablesType DEF TypeOK
  <1>4. QED  BY <1>1, <1>3 DEF TypeInv, LoadedExisting, Busy

(* Rows and handlers keep their types: no handler saves a code or a count   *)
(* outside its column's range, and none ever works on a row that was not    *)
(* there when it was read.                                                  *)
THEOREM TypeCorrect == Spec => []TypeOK
  <1>1. TypeInv => TypeOK
    BY DEF TypeInv
  <1>2. QED  BY <1>1, InitType, NextType, PTL DEF Spec

-----------------------------------------------------------------------------
(* Retention.                                                              *)

LEMMA DeletionStep ==
  ASSUME TypeOK, [Next]_vars, NEW r \in Request, requests[r].status = "Deleted"
  PROVE  requests'[r].status = "Deleted"
  <1>1. ASSUME NEW w \in Worker, SaveChanges(w), work[w].req = r
        PROVE  FALSE
    BY <1>1 DEF SaveChanges, CanSave, Exists, Status
  <1>2. QED  BY <1>1, RowStep, BlankRows

(* A request that the sweep or a data-subject delete removed stays removed, *)
(* although handlers that read it before may still save.                    *)
THEOREM DeletionIsForGood == Spec => DeletedForGood
  <1>1. TypeInv => TypeOK
    BY DEF TypeInv
  <1>2. TypeOK /\ [Next]_vars =>
          [\A r \in Request :
              requests[r].status = "Deleted" => requests'[r].status = "Deleted"]_vars
    BY DeletionStep
  <1>3. QED  BY <1>1, <1>2, InitType, NextType, PTL DEF Spec, DeletedForGood

-----------------------------------------------------------------------------
(* Overlapping handlers.  No save takes VerifiedAt or DecisionAt back: it   *)
(* writes such a column only if the handler set it.  So what a snapshot     *)
(* shows as set is set in the row too, and what a handler concluded from    *)
(* its snapshot still holds when it saves.                                  *)

(* What a handler makes of its snapshot. *)
Outcome(h) ==
    /\ h.new.status \in Status
    /\ h.old.status \in {"Verified", "Approved"} => h.old.verified
    /\ h.new.status \in {"Verified", "Approved"} => h.new.verified
    /\ h.old.verified => h.new.verified
    /\ h.old.decided => h.new.decided
    /\ h.stage # "loaded" /\ AuditsDecision(h) =>
          h.new.decided /\ (h.op = "approve" => h.consent # NoConsent)
    /\ h.consent = NoConsent =>
          /\ h.new.consent = h.old.consent
          /\ h.new.status = "Approved" => h.old.status = "Approved"
    /\ h.consent # NoConsent =>
          /\ h.stage # "loaded" /\ h.op = "approve" /\ h.old.verified
          /\ h.new.status = "Approved" /\ h.new.consent = h.consent

(* The tables are ahead of every snapshot. *)
Ahead(h) ==
    /\ requests[h.req].status # "None"
    /\ Exists(h.req) => /\ h.old.verified => requests[h.req].verified
                        /\ h.old.decided => requests[h.req].decided
    /\ h.old.consent # NoConsent => issued[h.old.consent] = h.req
    /\ h.stage = "auditing" =>
          /\ AuditsDecision(h)
          /\ Exists(h.req) => requests[h.req].decided
          /\ h.op = "approve" => GrantedOn(h.req) # {}

(* An id drawn for a consent is not in use before it is saved. *)
Fresh(w) ==
    work[w].consent # NoConsent =>
        /\ work[w].stage = "saving" => issued[work[w].consent] = NoRequest
        /\ \A v \in Worker : v # w /\ Busy(v) => work[v].consent # work[w].consent

HandlersSound ==
    \A w \in Worker : Busy(w) => Outcome(work[w]) /\ Ahead(work[w]) /\ Fresh(w)

(* Nothing refers to a request that was not created yet. *)
UncreatedUntouched ==
    \A r \in Request : requests[r].status = "None" =>
        GrantedOn(r) = {} /\ \A action : <<r, action>> \notin audited

RequestInv ==
    /\ TypeInv
    /\ HandlersSound
    /\ UncreatedUntouched
    /\ VerifiedFirst
    /\ ApprovedHasItsConsent
    /\ AuditTellsTheTruth

LEMMA InvParts ==
  ASSUME RequestInv
  PROVE  /\ TypeInv /\ TypeOK /\ HandlersSound /\ UncreatedUntouched
         /\ VerifiedFirst /\ ApprovedHasItsConsent /\ AuditTellsTheTruth
         /\ \A w \in Worker : Busy(w) => /\ work[w] \in Handler /\ Outcome(work[w])
                                        /\ Ahead(work[w]) /\ Fresh(w)
                                        /\ work[w].old.status \in Status
         /\ \A r \in Request : requests[r] \in Row
  BY BusyHandler DEF RequestInv, TypeInv, HandlersSound, LoadedExisting, TypeOK

(* The handler of a save, and the row it leaves. *)
LEMMA Saving ==
  ASSUME RequestInv, NEW w \in Worker, SaveChanges(w)
  PROVE  /\ Busy(w) /\ work[w].stage = "saving" /\ Exists(work[w].req)
         /\ work[w] \in Handler /\ work[w].req \in Request
         /\ work[w].old \in Row /\ work[w].new \in Row
         /\ work[w].consent \in Consent \cup {NoConsent}
         /\ Outcome(work[w]) /\ Ahead(work[w]) /\ Fresh(w)
         /\ work[w].old.status \in Status
         /\ requests'[work[w].req] = Merge(requests[work[w].req], work[w].old, work[w].new)
         /\ requests'[work[w].req].status \in Status
         /\ work[w].consent # NoConsent => issued'[work[w].consent] = work[w].req
  <1> DEFINE h == work[w]
             r == h.req
  <1>1. /\ Busy(w) /\ h.stage = "saving" /\ Exists(r)
        /\ requests' = [requests EXCEPT ![r] = Merge(requests[r], h.old, h.new)]
        /\ h.consent # NoConsent => issued' = [issued EXCEPT ![h.consent] = r]
    BY DEF SaveChanges, CanSave, Busy
  <1>2. /\ h \in Handler /\ Outcome(h) /\ Ahead(h) /\ Fresh(w) /\ h.old.status \in Status
    BY <1>1, InvParts
  <1>3. /\ r \in Request /\ h.old \in Row /\ h.new \in Row
        /\ h.consent \in Consent \cup {NoConsent}
    BY <1>2, HandlerFields
  <1>4. requests'[r] = Merge(requests[r], h.old, h.new)
    BY <1>1, <1>3, InvParts DEF TypeOK
  <1>5. requests'[r].status \in Status
    BY <1>1, <1>2, <1>3, <1>4, MergeColumns, InvParts DEF Exists, Outcome
  <1>6. h.consent # NoConsent => issued'[h.consent] = r
    BY <1>1, <1>3, InvParts DEF TypeOK
  <1>7. QED  BY <1>1, <1>2, <1>3, <1>4, <1>5, <1>6

(* Rows and consents only grow. *)
LEMMA Grows ==
  ASSUME RequestInv, [Next]_vars
  PROVE  /\ \A r \in Request :
              requests[r].status # "None" =>
                /\ requests'[r].status # "None"
                /\ requests'[r].status \in Status =>
                      /\ Exists(r)
                      /\ requests[r].verified => requests'[r].verified
                      /\ requests[r].decided => requests'[r].decided
         /\ \A c \in Consent : issued[c] # NoRequest => issued'[c] = issued[c]
  <1>0. TypeOK /\ \A r \in Request : requests[r] \in Row
    BY InvParts
  <1>1. ASSUME NEW r \in Request, requests[r].status # "None"
        PROVE  /\ requests'[r].status # "None"
               /\ requests'[r].status \in Status =>
                     /\ Exists(r)
                     /\ requests[r].verified => requests'[r].verified
                     /\ requests[r].decided => requests'[r].decided
    <2>1. CASE requests'[r] = requests[r]
      BY <1>1, <2>1 DEF Exists
    <2>2. CASE requests'[r] = DeletedRow
      BY <2>2, BlankRows DEF Status
    <2>3. ASSUME NEW w \in Worker, SaveChanges(w), work[w].req = r
          PROVE  /\ Exists(r) /\ requests'[r].status # "None"
                 /\ requests[r].verified => requests'[r].verified
                 /\ requests[r].decided => requests'[r].decided
      <3>1. /\ work[w].old \in Row /\ work[w].new \in Row /\ Outcome(work[w]) /\ Exists(r)
            /\ requests'[r] = Merge(requests[r], work[w].old, work[w].new)
            /\ requests'[r].status \in Status
        BY <2>3, Saving
      <3>2. QED
        BY <1>0, <3>1, MergeColumns, RowFields DEF Outcome, Status
    <2>4. QED  BY <1>0, <1>1, <2>1, <2>2, <2>3, RowStep
  <1>2. ASSUME NEW c \in Consent, issued[c] # NoRequest PROVE issued'[c] = issued[c]
    <2>1. ASSUME NEW w \in Worker, SaveChanges(w), work[w].consent = c PROVE FALSE
      BY <1>2, <2>1, Saving DEF Fresh
    <2>2. QED  BY <1>0, <2>1, IssuedStep
  <1>3. QED  BY <1>1, <1>2

(* A consent on a request was issued before this step or by it. *)
LEMMA GrantedStep ==
  ASSUME RequestInv, [Next]_vars, NEW c \in Consent, NEW r \in Request, issued'[c] = r
  PROVE  \/ issued[c] = r
         \/ \E w \in Worker : SaveChanges(w) /\ work[w].req = r /\ work[w].consent = c
  BY InvParts, IssuedStep

LEMMA VerifiedStep == ASSUME RequestInv, [Next]_vars PROVE VerifiedFirst'
  <1> SUFFICES ASSUME NEW r \in Request, requests'[r].status \in Status,
                      \/ requests'[r].status \in {"Verified", "Approved"}
                      \/ \E c \in Consent : issued'[c] = r
               PROVE  requests'[r].verified
    BY DEF VerifiedFirst, Exists, GrantedOn
  <1>0. /\ TypeOK /\ VerifiedFirst /\ UncreatedUntouched /\ requests[r] \in Row
    BY InvParts
  <1>1. CASE requests[r].status = "None"
    <2>1. requests'[r] = requests[r] \/ requests'[r] = NewRow
      <3>1. ~Exists(r)
        BY <1>1 DEF Exists, Status
      <3>2. \A w \in Worker : SaveChanges(w) => work[w].req # r
        BY <3>1, Saving
      <3>3. QED  BY <1>0, <3>1, <3>2, RowStep
    <2>2. requests'[r].status \in {"None", "Pending"}
      BY <1>0, <1>1, <2>1, NewRows DEF TypeOK
    <2>3. PICK c \in Consent : issued'[c] = r
      BY <2>2
    <2>4. PICK w \in Worker : SaveChanges(w) /\ work[w].req = r
      BY <1>0, <1>1, <2>3, GrantedStep DEF UncreatedUntouched, GrantedOn
    <2>5. QED  BY <1>1, <2>4, Saving DEF Exists, Status
  <1>2. CASE requests[r].status # "None" /\ \E c \in Consent : issued[c] = r
    BY <1>0, <1>2, Grows DEF VerifiedFirst, GrantedOn
  <1>3. ASSUME NEW w \in Worker, SaveChanges(w), work[w].req = r,
               requests'[r].status \in {"Verified", "Approved"} \/ work[w].consent # NoConsent
        PROVE  requests'[r].verified
    <2>1. /\ work[w].old \in Row /\ work[w].new \in Row /\ Outcome(work[w])
          /\ Ahead(work[w]) /\ Exists(r)
          /\ requests'[r] = Merge(requests[r], work[w].old, work[w].new)
      BY <1>3, Saving
    <2>2. work[w].old.verified => requests[r].verified
      BY <1>3, <2>1 DEF Ahead
    <2>3. requests[r].status \in {"Verified", "Approved"} => requests[r].verified
      BY <1>0, <2>1 DEF VerifiedFirst
    <2>4. QED
      BY <1>0, <1>3, <2>1, <2>2, <2>3, MergeColumns, RowFields DEF Outcome
  <1>4. CASE /\ requests[r].status # "None"
             /\ requests'[r].status \in {"Verified", "Approved"}
             /\ ~\E w \in Worker : SaveChanges(w) /\ work[w].req = r
    <2>1. requests'[r] = requests[r]
      BY <1>0, <1>4, RowStep, BlankRows
    <2>2. QED  BY <1>0, <1>4, <2>1 DEF VerifiedFirst, Exists, Status
  <1>5. ASSUME NEW c \in Consent, issued'[c] = r, requests[r].status # "None"
        PROVE  requests'[r].verified
    <2>1. CASE issued[c] = r
      BY <1>2, <1>5, <2>1
    <2>2. ASSUME NEW w \in Worker, SaveChanges(w), work[w].req = r, work[w].consent = c
          PROVE  requests'[r].verified
      BY <1>3, <2>2
    <2>3. QED  BY <1>5, <2>1, <2>2, GrantedStep
  <1>6. QED  BY <1>1, <1>3, <1>4, <1>5

(* A consent written into a row is one the step issued on that request. *)
LEMMA ApprovedStep == ASSUME RequestInv, [Next]_vars PROVE ApprovedHasItsConsent'
  <1> SUFFICES ASSUME NEW r \in Request
               PROVE  /\ requests'[r].status = "Approved" => requests'[r].consent # NoConsent
                      /\ requests'[r].consent # NoConsent => issued'[requests'[r].consent] = r
    BY DEF ApprovedHasItsConsent
  <1>0. /\ TypeOK /\ ApprovedHasItsConsent /\ requests[r] \in Row
        /\ requests[r].consent \in Consent \cup {NoConsent}
    BY InvParts, RowFields
  <1>1. /\ requests[r].status = "Approved" => requests[r].consent # NoConsent
        /\ requests[r].consent # NoConsent => issued'[requests[r].consent] = r
    <2>1. requests[r].consent # NoConsent => issued[requests[r].consent] = r
      BY <1>0 DEF ApprovedHasItsConsent
    <2>2. QED  BY <1>0, <2>1, Grows DEF ApprovedHasItsConsent
  <1>2. CASE requests'[r] = requests[r]
    BY <1>1, <1>2
  <1>3. CASE requests'[r] = DeletedRow \/ requests'[r] = NewRow
    BY <1>0, <1>3, BlankRows, NewRows DEF TypeOK
  <1>4. ASSUME NEW w \in Worker, SaveChanges(w), work[w].req = r
        PROVE  /\ requests'[r].status = "Approved" => requests'[r].consent # NoConsent
               /\ requests'[r].consent # NoConsent => issued'[requests'[r].consent] = r
    <2> DEFINE h == work[w]
    <2>1. /\ h.old \in Row /\ h.new \in Row /\ Outcome(h) /\ Ahead(h) /\ Fresh(w)
          /\ h.stage = "saving" /\ h.consent \in Consent \cup {NoConsent}
          /\ requests'[r] = Merge(requests[r], h.old, h.new)
          /\ h.consent # NoConsent => issued'[h.consent] = r
      BY <1>4, Saving
    <2>2. requests'[r].consent \in {requests[r].consent, h.consent}
      BY <1>0, <2>1, MergeColumns DEF Outcome
    <2>3. CASE h.consent = NoConsent
      <3>1. requests'[r].consent = requests[r].consent
        BY <1>0, <2>1, <2>3, MergeColumns DEF Outcome
      <3>2. requests'[r].status = "Approved" => requests[r].status = "Approved"
        BY <1>0, <2>1, <2>3, MergeColumns DEF Outcome
      <3>3. QED  BY <1>1, <3>1, <3>2
    <2>4. CASE h.consent # NoConsent
      <3>1. h.new.consent # h.old.consent
        <4>1. issued[h.consent] = NoRequest /\ h.new.consent = h.consent
          BY <2>1, <2>4 DEF Outcome, Fresh
        <4>2. h.old.consent # NoConsent => issued[h.old.consent] = r
          BY <1>4, <2>1 DEF Ahead
        <4>3. QED  BY <2>4, <4>1, <4>2
      <3>2. requests'[r].consent = h.consent
        BY <1>0, <2>1, <2>4, <3>1, MergeColumns DEF Outcome
      <3>3. QED  BY <2>1, <2>4, <3>2
    <2>5. QED  BY <2>3, <2>4
  <1>5. QED  BY <1>0, <1>2, <1>3, <1>4, RowStep

(* An event is emitted for a decision that was saved. *)
LEMMA AuditedStep ==
  ASSUME RequestInv, [Next]_vars, NEW r, NEW action, <<r, action>> \in audited'
  PROVE  \/ <<r, action>> \in audited
         \/ \E w \in Worker :
              /\ Busy(w) /\ work[w].stage = "auditing" /\ work[w].req = r
              /\ action = "issued" => work[w].op = "approve"
              /\ UNCHANGED <<requests, issued>>
  <1>0. TypeOK
    BY InvParts
  <1>1. CASE Tick \/ RetentionSweep \/ Crash \/ UNCHANGED vars
    BY <1>1 DEF Tick, RetentionSweep, Crash, vars
  <1>2. CASE \E s \in Request : CreateRequest(s) \/ Erase(s) \/ CooldownEnds(s)
    BY <1>2 DEF CreateRequest, Erase, CooldownEnds
  <1>3. CASE \E e \in Candidate : EraseCandidate(e)
    BY <1>3 DEF EraseCandidate
  <1>4. ASSUME NEW w \in Worker, Arrive(w) \/ Decide(w) PROVE audited' = audited
    BY <1>0, <1>4, ArriveStep, DecideStep DEF Load
  <1>5. ASSUME NEW w \in Worker, SaveChanges(w) \/ SaveFails(w) \/ KeyRotationFlush(w)
        PROVE  audited' = audited
    BY <1>5 DEF SaveChanges, SaveFails, KeyRotationFlush
  <1>6. ASSUME NEW w \in Worker, EmitAudit(w), <<r, action>> \notin audited
        PROVE  /\ Busy(w) /\ work[w].stage = "auditing" /\ work[w].req = r
               /\ action = "issued" => work[w].op = "approve"
               /\ UNCHANGED <<requests, issued>>
    <2>1. <<r, action>> = <<work[w].req,
                            CASE work[w].op = "approve" -> "issued"
                              [] work[w].op = "deny"    -> "denied"
                              [] OTHER                  -> "cancelled">>
      BY <1>6 DEF EmitAudit
    <2>2. work[w].req = r /\ (action = "issued" => work[w].op = "approve")
      BY <2>1
    <2>3. QED  BY <1>6, <2>2 DEF EmitAudit, Busy
  <1>7. QED  BY <1>1, <1>2, <1>3, <1>4, <1>5, <1>6 DEF Next, Proceed, Decide

LEMMA AuditStep == ASSUME RequestInv, [Next]_vars PROVE AuditTellsTheTruth'
  <1> SUFFICES ASSUME NEW r \in Request, NEW action \in {"issued", "denied", "cancelled"},
                      <<r, action>> \in audited'
               PROVE  /\ requests'[r].status \in Status => requests'[r].decided
                      /\ action = "issued" => \E c \in Consent : issued'[c] = r
    BY DEF AuditTellsTheTruth, Exists, GrantedOn
  <1>0. AuditTellsTheTruth /\ UncreatedUntouched
    BY InvParts
  <1>1. CASE <<r, action>> \in audited
    <2>1. /\ requests[r].status # "None"
          /\ Exists(r) => requests[r].decided
          /\ action = "issued" => \E c \in Consent : issued[c] = r
      BY <1>0, <1>1 DEF UncreatedUntouched, AuditTellsTheTruth, GrantedOn
    <2>2. QED  BY <2>1, Grows
  <1>2. ASSUME NEW w \in Worker, Busy(w), work[w].stage = "auditing", work[w].req = r,
               action = "issued" => work[w].op = "approve", UNCHANGED <<requests, issued>>
        PROVE  /\ requests'[r].status \in Status => requests'[r].decided
               /\ action = "issued" => \E c \in Consent : issued'[c] = r
    <2>1. Ahead(work[w])
      BY <1>2, InvParts
    <2>2. QED  BY <1>2, <2>1 DEF Ahead, Exists, GrantedOn
  <1>3. QED  BY <1>1, <1>2, AuditedStep

LEMMA UncreatedStep == ASSUME RequestInv, [Next]_vars PROVE UncreatedUntouched'
  <1> SUFFICES ASSUME NEW r \in Request, requests'[r].status = "None"
               PROVE  /\ \A c \in Consent : issued'[c] # r
                      /\ \A action : <<r, action>> \notin audited'
    BY DEF UncreatedUntouched, GrantedOn
  <1>1. requests[r].status = "None"
    BY Grows
  <1>2. UncreatedUntouched
    BY InvParts
  <1>3. ASSUME NEW w \in Worker, SaveChanges(w), work[w].req = r PROVE FALSE
    BY <1>1, <1>3, Saving DEF Exists, Status
  <1>4. \A c \in Consent : issued'[c] # r
    BY <1>1, <1>2, <1>3, GrantedStep DEF UncreatedUntouched, GrantedOn
  <1>5. ASSUME NEW w \in Worker, Busy(w), work[w].req = r PROVE FALSE
    BY <1>1, <1>5, InvParts DEF Ahead
  <1>6. QED  BY <1>1, <1>2, <1>4, <1>5, AuditedStep DEF UncreatedUntouched

(* What a step leaves of a handler: it goes on unchanged or to its audit    *)
(* event, its body has decided, or it has arrived.                          *)
Keeps(w) ==
    /\ Busy(w)
    /\ work'[w].req = work[w].req /\ work'[w].old = work[w].old
    /\ work'[w].op = work[w].op /\ work'[w].input = work[w].input
    /\ work'[w].new = work[w].new /\ work'[w].consent = work[w].consent
    /\ \/ work'[w].stage = work[w].stage /\ ~SaveChanges(w)
       \/ /\ SaveChanges(w) /\ AuditsDecision(work[w])
          /\ work'[w].stage = "auditing"

Decides(w) ==
    /\ Busy(w) /\ work[w].stage = "loaded" /\ Decide(w)
    /\ work'[w].req = work[w].req /\ work'[w].old = work[w].old
    /\ work'[w].op = work[w].op /\ work'[w].input = work[w].input
    /\ work'[w].stage = "saving"
    /\ \/ /\ Decision(work[w], work'[w].new)
          /\ work'[w].consent = work[w].consent
       \/ /\ work[w].op = "approve" /\ Decidable(w)
          /\ work'[w].consent \in Consent /\ Unused(work'[w].consent)
          /\ work'[w].new = AsApproved(work[w].old, work'[w].consent)

Starts(w) ==
    \E r \in Request, op \in Operation, input \in 0..MaxCode :
        /\ Load(w, op, r, input)
        /\ op = "resend" => input = codes[r] + 1 /\ codes' = [codes EXCEPT ![r] = input]
        /\ work'[w].stage = "loaded" /\ work'[w].op = op /\ work'[w].req = r
        /\ work'[w].input = input
        /\ work'[w].old = requests[r] /\ work'[w].new = requests[r]
        /\ work'[w].consent = NoConsent

LEMMA HandlerAfter ==
  ASSUME RequestInv, [Next]_vars, NEW w \in Worker, Busy(w)'
  PROVE  Keeps(w) \/ Decides(w) \/ Starts(w)
  <1> DEFINE h == work[w]
  <1>0. /\ TypeOK
        /\ Busy(w) => h \in Handler
    BY InvParts
  <1>1. ASSUME Busy(w), work'[w] = h PROVE ~SaveChanges(w)
    <2> SUFFICES ASSUME SaveChanges(w) PROVE FALSE
      OBVIOUS
    <2>1. h.stage = "saving"
      BY Saving
    <2>2. h \in Handler
      BY <1>0, <1>1
    <2>3. \/ work'[w] = Idle
          \/ work'[w] = [h EXCEPT !.stage = "auditing"]
      BY <1>0 DEF SaveChanges, TypeOK
    <2>4. [h EXCEPT !.stage = "auditing"].stage = "auditing"
      BY <2>2 DEF Handler
    <2>5. QED  BY <1>1, <2>1, <2>3, <2>4 DEF Busy
  <1>2. ASSUME Busy(w), work'[w] = [h EXCEPT !.stage = "auditing"]
        PROVE  /\ work'[w].req = h.req /\ work'[w].old = h.old /\ work'[w].op = h.op
               /\ work'[w].new = h.new /\ work'[w].consent = h.consent
               /\ work'[w].input = h.input /\ work'[w].stage = "auditing"
    BY <1>0, <1>2 DEF Handler
  <1>3. ASSUME Busy(w), work'[w] = [h EXCEPT !.newCandidate = FALSE]
        PROVE  /\ work'[w].req = h.req /\ work'[w].old = h.old /\ work'[w].op = h.op
               /\ work'[w].new = h.new /\ work'[w].consent = h.consent
               /\ work'[w].input = h.input /\ work'[w].stage = h.stage
    BY <1>0, <1>3 DEF Handler
  <1>4. ASSUME Busy(w), KeyRotationFlush(w) PROVE ~SaveChanges(w)
    <2>1. CandidateOf[h.req] \in candidates' /\ h.newCandidate
      BY <1>4 DEF KeyRotationFlush
    <2>2. ASSUME SaveChanges(w) PROVE FALSE
      <3>1. work'[w] = [h EXCEPT !.newCandidate = FALSE]
        BY <1>0, <1>4 DEF KeyRotationFlush, TypeOK
      <3>2. work'[w] = Idle \/ work'[w] = [h EXCEPT !.stage = "auditing"]
        BY <1>0, <2>2 DEF SaveChanges, TypeOK
      <3>3. [h EXCEPT !.stage = "auditing"].newCandidate = TRUE
        BY <1>0, <1>4, <2>1 DEF Handler
      <3>4. [h EXCEPT !.newCandidate = FALSE].newCandidate = FALSE
        BY <1>0, <1>4 DEF Handler
      <3>5. work'[w] # Idle
        BY DEF Busy
      <3>6. QED  BY <3>1, <3>2, <3>3, <3>4, <3>5
    <2>3. QED  BY <2>2
  <1>5. ASSUME NEW row, Busy(w), work'[w] = [h EXCEPT !.stage = "saving", !.new = row]
        PROVE  /\ work'[w].req = h.req /\ work'[w].old = h.old /\ work'[w].op = h.op
               /\ work'[w].new = row /\ work'[w].consent = h.consent
               /\ work'[w].input = h.input /\ work'[w].stage = "saving"
    BY <1>0, <1>5 DEF Handler
  <1>6. ASSUME NEW c, NEW b, Busy(w), work'[w] = Approval(h, c, b)
        PROVE  /\ work'[w].req = h.req /\ work'[w].old = h.old /\ work'[w].op = h.op
               /\ work'[w].new = AsApproved(h.old, c) /\ work'[w].consent = c
               /\ work'[w].input = h.input /\ work'[w].stage = "saving"
    BY <1>0, <1>6 DEF Handler, Approval
  <1>7. ASSUME NEW r \in Request, NEW op, NEW input, Load(w, op, r, input)
        PROVE  /\ work'[w].stage = "loaded" /\ work'[w].op = op /\ work'[w].req = r
               /\ work'[w].input = input
               /\ work'[w].old = requests[r] /\ work'[w].new = requests[r]
               /\ work'[w].consent = NoConsent
    BY <1>0, <1>7 DEF Load, TypeOK
  <1>8. Decide(w) => h.stage = "loaded"
    BY <1>0, DecideStep
  <1>9. CASE Busy(w) /\ work'[w] = h
    BY <1>1, <1>9 DEF Keeps
  <1>10. CASE /\ Busy(w) /\ SaveChanges(w) /\ AuditsDecision(h)
              /\ work'[w] = [h EXCEPT !.stage = "auditing"]
    BY <1>2, <1>10 DEF Keeps
  <1>11. CASE /\ Busy(w) /\ KeyRotationFlush(w)
              /\ work'[w] = [h EXCEPT !.newCandidate = FALSE]
    BY <1>3, <1>4, <1>11 DEF Keeps
  <1>12. ASSUME Busy(w), Decide(w), NEW row, Decision(h, row),
                work'[w] = [h EXCEPT !.stage = "saving", !.new = row]
         PROVE  Decides(w)
    <2>1. /\ work'[w].req = h.req /\ work'[w].old = h.old /\ work'[w].op = h.op
          /\ work'[w].new = row /\ work'[w].consent = h.consent
          /\ work'[w].input = h.input /\ work'[w].stage = "saving"
      BY <1>5, <1>12
    <2>2. QED  BY <1>8, <1>12, <2>1 DEF Decides
  <1>13. ASSUME Busy(w), Decide(w), h.op = "approve", Decidable(w), NEW c \in Consent,
                NEW b \in BOOLEAN, Unused(c), work'[w] = Approval(h, c, b)
         PROVE  Decides(w)
    <2>1. work'[w].consent = c
      BY <1>6, <1>13
    <2>2. QED  BY <1>6, <1>8, <1>13, <2>1 DEF Decides
  <1>14. ASSUME NEW r \in Request, NEW op \in Operation, NEW input \in 0..MaxCode,
                Load(w, op, r, input),
                op = "resend" => input = codes[r] + 1 /\ codes' = [codes EXCEPT ![r] = input]
         PROVE  Starts(w)
    BY <1>7, <1>14 DEF Starts
  <1>15. Busy(w)' /\ work'[w] = h => Busy(w)
    BY DEF Busy
  <1>16. QED  BY <1>0, <1>9, <1>10, <1>11, <1>12, <1>13, <1>14, <1>15, HandlerStep

LEMMA OutcomeStep ==
  ASSUME RequestInv, [Next]_vars, NEW w \in Worker, Busy(w)'
  PROVE  Outcome(work'[w])
  <1> DEFINE h == work[w]
             g == work'[w]
  <1>0. /\ Busy(w) => h \in Handler /\ Outcome(h) /\ h.old.status \in Status
        /\ TypeOK /\ VerifiedFirst
    BY InvParts
  <1>1. CASE /\ Busy(w) /\ g.old = h.old /\ g.op = h.op
             /\ g.new = h.new /\ g.consent = h.consent
             /\ g.stage = h.stage
    BY <1>0, <1>1 DEF Outcome, AuditsDecision
  <1>2. CASE /\ SaveChanges(w) /\ g.old = h.old /\ g.op = h.op
             /\ g.new = h.new /\ g.consent = h.consent
             /\ g.stage = "auditing"
    BY <1>0, <1>2, Saving DEF Outcome, AuditsDecision
  <1>3. CASE /\ Busy(w) /\ h.stage = "loaded"
             /\ g.old = h.old /\ g.op = h.op /\ g.stage = "saving"
             /\ Decision(h, g.new) /\ g.consent = h.consent
    BY <1>0, <1>3, DecisionColumns DEF Outcome, AuditsDecision
  <1>4. CASE /\ Busy(w) /\ h.stage = "loaded" /\ h.op = "approve" /\ Decidable(w)
             /\ g.old = h.old /\ g.op = h.op /\ g.stage = "saving"
             /\ g.consent \in Consent
             /\ g.new = AsApproved(h.old, g.consent)
    <2>1. h.old \in Row /\ h.old.status = "Verified"
      BY <1>0, <1>4, HandlerFields DEF Decidable
    <2>2. /\ g.new.status = "Approved" /\ g.new.decided = TRUE /\ g.new.consent = g.consent
          /\ g.new.verified = h.old.verified
      BY <1>4, <2>1 DEF AsApproved, Row
    <2>3. QED  BY <1>0, <1>4, <2>1, <2>2 DEF Outcome, AuditsDecision, Status
  <1>5. ASSUME NEW r \in Request, NEW op, NEW input, Load(w, op, r, input),
               g.stage = "loaded", g.old = requests[r], g.new = requests[r],
               g.consent = NoConsent
        PROVE  Outcome(g)
    <2>1. Exists(r)
      BY <1>5 DEF Load
    <2>2. requests[r].status \in {"Verified", "Approved"} => requests[r].verified
      BY <1>0, <2>1 DEF VerifiedFirst
    <2>3. QED  BY <1>5, <2>1, <2>2 DEF Outcome, Exists
  <1>6. Keeps(w) => Outcome(g)
    BY <1>1, <1>2 DEF Keeps
  <1>7. Decides(w) => Outcome(g)
    BY <1>3, <1>4 DEF Decides
  <1>8. Starts(w) => Outcome(g)
    BY <1>5 DEF Starts
  <1>9. QED  BY <1>6, <1>7, <1>8, HandlerAfter

(* Snapshots stay behind the tables; a saved decision shows in the row. *)
LEMMA AheadStep ==
  ASSUME RequestInv, [Next]_vars, NEW w \in Worker, Busy(w)'
  PROVE  Ahead(work[w])'
  <1> DEFINE h == work[w]
             g == work'[w]
  <1>0. /\ Busy(w) => /\ h \in Handler /\ h.req \in Request /\ h.old \in Row
                      /\ h.old.consent \in Consent \cup {NoConsent}
                      /\ Outcome(h) /\ Ahead(h)
        /\ TypeOK /\ ApprovedHasItsConsent
    BY InvParts, HandlerFields, RowFields
  <1> SUFFICES /\ requests'[g.req].status # "None"
               /\ requests'[g.req].status \in Status =>
                     /\ g.old.verified => requests'[g.req].verified
                     /\ g.old.decided => requests'[g.req].decided
               /\ g.old.consent # NoConsent => issued'[g.old.consent] = g.req
               /\ g.stage = "auditing" =>
                     /\ AuditsDecision(g)
                     /\ requests'[g.req].status \in Status => requests'[g.req].decided
                     /\ g.op = "approve" => \E c \in Consent : issued'[c] = g.req
    BY DEF Ahead, Exists, GrantedOn
  <1>1. ASSUME Busy(w), g.req = h.req, g.old = h.old
        PROVE  /\ requests'[g.req].status # "None"
               /\ requests'[g.req].status \in Status =>
                     /\ g.old.verified => requests'[g.req].verified
                     /\ g.old.decided => requests'[g.req].decided
               /\ g.old.consent # NoConsent => issued'[g.old.consent] = g.req
    <2>1. /\ requests'[h.req].status # "None"
          /\ requests'[h.req].status \in Status =>
                /\ Exists(h.req)
                /\ requests[h.req].verified => requests'[h.req].verified
                /\ requests[h.req].decided => requests'[h.req].decided
      BY <1>0, <1>1, Grows DEF Ahead
    <2>2. h.old.consent # NoConsent => issued'[h.old.consent] = h.req
      BY <1>0, <1>1, Grows DEF Ahead
    <2>3. QED  BY <1>0, <1>1, <2>1, <2>2 DEF Ahead
  <1>2. CASE Keeps(w) /\ ~SaveChanges(w)
    <2>1. g.stage = h.stage
      BY <1>2 DEF Keeps
    <2>2. g.stage = "auditing" =>
            /\ AuditsDecision(g)
            /\ requests'[g.req].status \in Status => requests'[g.req].decided
            /\ g.op = "approve" => \E c \in Consent : issued'[c] = g.req
      <3> SUFFICES ASSUME h.stage = "auditing"
                   PROVE  /\ AuditsDecision(g)
                          /\ requests'[g.req].status \in Status => requests'[g.req].decided
                          /\ g.op = "approve" => \E c \in Consent : issued'[c] = g.req
        BY <2>1
      <3>1. AuditsDecision(g)
        BY <1>0, <1>2 DEF Keeps, Ahead, AuditsDecision
      <3>2. requests'[h.req].status \in Status => requests'[h.req].decided
        BY <1>0, <1>2, Grows DEF Keeps, Ahead
      <3>3. h.op = "approve" => \E c \in Consent : issued[c] = h.req
        BY <1>0, <1>2 DEF Keeps, Ahead, GrantedOn
      <3>4. h.op = "approve" => \E c \in Consent : issued'[c] = h.req
        BY <1>0, <1>2, <3>3, Grows DEF Keeps
      <3>5. QED  BY <1>2, <3>1, <3>2, <3>4 DEF Keeps
    <2>3. QED  BY <1>1, <1>2, <2>2 DEF Keeps
  <1>3. CASE Keeps(w) /\ SaveChanges(w)
    <2>1. /\ AuditsDecision(h) /\ AuditsDecision(g)
      BY <1>3 DEF Keeps, AuditsDecision
    <2>2. /\ h.new \in Row /\ h.consent \in Consent \cup {NoConsent} /\ h.stage = "saving"
          /\ Exists(h.req) /\ requests[h.req] \in Row
          /\ requests'[h.req] = Merge(requests[h.req], h.old, h.new)
          /\ h.consent # NoConsent => issued'[h.consent] = h.req
      BY <1>3, Saving, InvParts
    <2>3. /\ h.new.decided
          /\ h.op = "approve" => h.consent # NoConsent
          /\ h.old.decided => requests[h.req].decided
      BY <1>0, <1>3, <2>1, <2>2 DEF Keeps, Outcome, Ahead
    <2>4. requests'[h.req].decided
      BY <1>0, <1>3, <2>2, <2>3, MergeColumns, RowFields DEF Keeps
    <2>5. QED  BY <1>1, <1>3, <2>1, <2>2, <2>3, <2>4 DEF Keeps
  <1>4. CASE Decides(w)
    BY <1>1, <1>4 DEF Decides
  <1>5. CASE Starts(w)
    <2>1. PICK r \in Request, op \in Operation, input \in 0..MaxCode :
            /\ Load(w, op, r, input)
            /\ g.stage = "loaded" /\ g.req = r /\ g.old = requests[r]
      BY <1>5 DEF Starts
    <2>2. Exists(r) /\ requests' = requests /\ issued' = issued
      BY <2>1 DEF Load
    <2>3. requests[r].consent # NoConsent => issued[requests[r].consent] = r
      BY <1>0 DEF ApprovedHasItsConsent
    <2>4. QED  BY <2>1, <2>2, <2>3 DEF Exists, Status
  <1>6. QED  BY <1>2, <1>3, <1>4, <1>5, HandlerAfter

(* The consent of a handler comes from before the step, or was drawn in it. *)
LEMMA DrawnStep ==
  ASSUME RequestInv, [Next]_vars, NEW w \in Worker, Busy(w)',
         work'[w].consent # NoConsent
  PROVE  /\ work'[w].consent \in Consent
         /\ \/ /\ Busy(w) /\ work'[w].consent = work[w].consent
               /\ work'[w].stage = "saving" => work[w].stage = "saving" /\ ~SaveChanges(w)
            \/ Decide(w) /\ Unused(work'[w].consent)
  <1>0. TypeInv /\ TypeInv' /\ (Busy(w) => Outcome(work[w]))
    BY InvParts, NextType
  <1>1. work'[w].consent \in Consent
    BY <1>0, HandlerType, HandlerFields
  <1>2. Keeps(w) => \/ /\ Busy(w) /\ work'[w].consent = work[w].consent
                       /\ work'[w].stage = "saving" => work[w].stage = "saving" /\ ~SaveChanges(w)
    BY DEF Keeps
  <1>3. Decides(w) => Decide(w) /\ Unused(work'[w].consent)
    <2>1. Decides(w) => work[w].consent = NoConsent
      BY <1>0 DEF Decides, Outcome
    <2>2. QED  BY <2>1 DEF Decides
  <1>4. ~Starts(w)
    BY DEF Starts
  <1>5. QED  BY <1>1, <1>2, <1>3, <1>4, HandlerAfter

LEMMA FreshStep ==
  ASSUME RequestInv, [Next]_vars, NEW w \in Worker, Busy(w)'
  PROVE  Fresh(w)'
  <1> SUFFICES ASSUME work'[w].consent # NoConsent
               PROVE  /\ work'[w].stage = "saving" => issued'[work'[w].consent] = NoRequest
                      /\ \A v \in Worker : v # w /\ Busy(v)' =>
                            work'[v].consent # work'[w].consent
    BY DEF Fresh, Busy
  <1> DEFINE c == work'[w].consent
  <1>0. /\ TypeOK /\ c \in Consent
        /\ \A v \in Worker : Busy(v) => Fresh(v)
    BY InvParts, DrawnStep
  <1> HIDE DEF c
  <1>1. CASE Decide(w) /\ Unused(c)
    <2>1. /\ issued' = issued /\ issued[c] = NoRequest
          /\ \A v \in Worker : Busy(v) => work[v].consent # c
      BY <1>0, <1>1, DecideStep DEF Unused, Busy
    <2>2. ASSUME NEW v \in Worker, v # w PROVE work'[v] = work[v]
      <3>1. \E h : Goes(w, h)
        BY <1>0, <1>1, DecideStep
      <3>2. QED  BY <1>0, <2>2, <3>1, Goes_To
    <2>3. QED  BY <2>1, <2>2 DEF c, Busy
  <1>2. CASE /\ Busy(w) /\ c = work[w].consent
             /\ work'[w].stage = "saving" => work[w].stage = "saving" /\ ~SaveChanges(w)
    <2>1. ASSUME NEW v \in Worker, v # w, Busy(v) PROVE work[v].consent # c
      BY <1>0, <1>2, <2>1 DEF Fresh, c
    <2>2. ASSUME work'[w].stage = "saving" PROVE issued'[c] = NoRequest
      <3>1. issued[c] = NoRequest
        BY <1>0, <1>2, <2>2 DEF Fresh, c
      <3>2. ASSUME NEW v \in Worker, SaveChanges(v), work[v].consent = c PROVE FALSE
        BY <1>2, <2>1, <2>2, <3>2, Saving
      <3>3. QED  BY <1>0, <3>1, <3>2, IssuedStep
    <2>3. ASSUME NEW v \in Worker, v # w, Busy(v)' PROVE work'[v].consent # c
      <3>1. ASSUME work'[v].consent = c PROVE FALSE
        <4>1. \/ Busy(v) /\ work'[v].consent = work[v].consent
              \/ Unused(work'[v].consent)
          BY <2>3, <3>1, DrawnStep DEF c
        <4>2. Unused(c) => FALSE
          BY <1>2 DEF Unused, Busy
        <4>3. QED  BY <2>1, <2>3, <3>1, <4>1, <4>2
      <3>2. QED  BY <3>1
    <2>4. QED  BY <2>2, <2>3 DEF c
  <1>3. QED  BY <1>1, <1>2, DrawnStep DEF c

LEMMA RequestInductive == RequestInv /\ [Next]_vars => RequestInv'
  <1> SUFFICES ASSUME RequestInv, [Next]_vars PROVE RequestInv'
    OBVIOUS
  <1>1. TypeInv'
    BY InvParts, NextType
  <1>2. HandlersSound'
    BY OutcomeStep, AheadStep, FreshStep DEF HandlersSound
  <1>3. QED
    BY <1>1, <1>2, UncreatedStep, VerifiedStep, ApprovedStep, AuditStep DEF RequestInv

LEMMA InitRequest == Init => RequestInv
  <1> SUFFICES ASSUME Init PROVE RequestInv
    OBVIOUS
  <1>1. /\ \A r \in Request : requests[r] = BlankRow
        /\ \A c \in Consent : issued[c] = NoRequest
        /\ \A w \in Worker : ~Busy(w)
        /\ audited = {}
    BY DEF Init, Busy
  <1>2. TypeInv
    BY InitType
  <1>3. HandlersSound
    BY <1>1 DEF HandlersSound
  <1>4. UncreatedUntouched
    BY <1>1 DEF UncreatedUntouched, GrantedOn
  <1>5. VerifiedFirst
    BY <1>1, BlankRows DEF VerifiedFirst, Exists, Status
  <1>6. ApprovedHasItsConsent
    BY <1>1, BlankRows DEF ApprovedHasItsConsent
  <1>7. AuditTellsTheTruth
    BY <1>1 DEF AuditTellsTheTruth
  <1>8. QED  BY <1>2, <1>3, <1>4, <1>5, <1>6, <1>7 DEF RequestInv

(* No consent without a verified e-mail address, in whatever order the      *)
(* handlers of a request load, decide and save.                             *)
THEOREM NoConsentUnverified == Spec => []VerifiedFirst
  <1>1. RequestInv => VerifiedFirst
    BY InvParts
  <1>2. QED  BY <1>1, InitRequest, RequestInductive, PTL DEF Spec

(* An approved request names a consent that was issued on it, although two  *)
(* approvals may overlap and a consent id may be drawn by a handler that    *)
(* never saves.                                                             *)
THEOREM ApprovalHasItsConsent == Spec => []ApprovedHasItsConsent
  <1>1. RequestInv => ApprovedHasItsConsent
    BY InvParts
  <1>2. QED  BY <1>1, InitRequest, RequestInductive, PTL DEF Spec

(* The audit trail never tells of a decision that the database does not     *)
(* hold: the handler emits after its save, and no later save of a stale     *)
(* handler takes the decision's time or the consent away.                   *)
THEOREM AuditIsTruthful == Spec => []AuditTellsTheTruth
  <1>1. RequestInv => AuditTellsTheTruth
    BY InvParts
  <1>2. QED  BY <1>1, InitRequest, RequestInductive, PTL DEF Spec

=============================================================================
