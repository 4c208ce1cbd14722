-------------------- MODULE ConsentRequestsDecisions_proofs --------------------
(***************************************************************************)
(* Theorems about ConsentRequests, for every overlap of handlers: what a   *)
(* decision is worth when a save may land on a row that changed since it   *)
(* was read, and the abstract lifecycle when none does.                    *)
(***************************************************************************)
EXTENDS ConsentRequests_proofs, FiniteSetTheorems

USE RequestConstants

-----------------------------------------------------------------------------
(* The inductive invariant.  A handler's conclusion relates the row it      *)
(* saves to the row it read, whatever became of that row; a save onto the   *)
(* row it read moves the request as the handler concluded, and any other    *)
(* save is counted.                                                         *)

ExpiredHasLapsed(row) == row.status = "Expired" => Lapsed(row)

(* What a body concludes. *)
Lapses(h) ==
    /\ h.old.status # "Expired" /\ h.new.status = "Expired"
    /\ h.new.attempts = h.old.attempts /\ h.new.code = h.old.code

TriesCode(h) ==
    /\ h.op = "verify" /\ h.old.status = "Pending"
    /\ h.new.attempts = h.old.attempts + 1
    /\ h.new.code \in {0, h.old.code}
    /\ \/ h.new.status \in {"Verified", "Denied"}
       \/ h.new.status = "Pending" /\ ~Locks(h.new)

TakesNewCode(h) ==
    /\ h.op = "resend" /\ h.new.status = h.old.status
    /\ h.new.attempts = 0 /\ h.new.code = h.input

Denies(h) ==
    /\ h.op \in {"deny", "cancel"}
    /\ h.old.status \in {"Pending", "Verified"} /\ h.new.status = "Denied"
    /\ h.new.attempts = h.old.attempts /\ h.new.code = h.old.code

Approves(h) ==
    /\ h.op = "approve" /\ h.consent # NoConsent
    /\ h.old.status = "Verified" /\ h.new.status = "Approved"
    /\ h.new.attempts = h.old.attempts /\ h.new.code = 0

Conclusion(h) ==
    /\ h.new.created = h.old.created
    /\ Lapses(h) \/ TriesCode(h) \/ TakesNewCode(h) \/ Denies(h) \/ Approves(h)

(* CreatedAt is written once. *)
Concluding(h) ==
    /\ ExpiredHasLapsed(h.old)
    /\ Exists(h.req) => requests[h.req].created = h.old.created
    /\ h.op = "resend" => h.old.code < h.input /\ h.input <= codes[h.req]
    /\ h.stage = "saving" => Conclusion(h) /\ ExpiredHasLapsed(h.new)

RowFresh(r) ==
    Exists(r) => ExpiredHasLapsed(requests[r]) /\ requests[r].code <= codes[r]

(* The wrong codes that saves onto changed rows kept from being counted. *)
Bought(r) == AttemptLimit * overwrites[r]

(* The column counts the other misses, and ends the verification in time. *)
AttemptsCounted(r) ==
    /\ misses[r] <= AttemptLimit + Bought(r)
    /\ requests[r].status = "None" => misses[r] = 0
    /\ Exists(r) /\ requests[r].status \notin {"Denied", "Expired"} =>
          misses[r] < AttemptLimit + Bought(r)
    /\ requests[r].status = "Pending" =>
          /\ misses[r] <= requests[r].attempts + Bought(r)
          /\ requests[r].attempts < AttemptLimit

(* An open request has one consent less to its account. *)
GrantsCounted(r) ==
    /\ IsFiniteSet(GrantedOn(r))
    /\ Cardinality(GrantedOn(r)) <= 1 + overwrites[r]
    /\ requests[r].status \in {"None", "Pending", "Verified"} =>
          Cardinality(GrantedOn(r)) <= overwrites[r]
    /\ overwrites[r] = 0 /\ requests[r].status = "Denied" => GrantedOn(r) = {}

RowSound(r) == RowFresh(r) /\ AttemptsCounted(r) /\ GrantsCounted(r)

DecisionInv ==
    /\ RequestInv
    /\ \A w \in Worker : Busy(w) => Concluding(work[w])
    /\ \A r \in Request : RowSound(r)

-----------------------------------------------------------------------------
(* The clock and the codes only go up.                                     *)

LEMMA ClockStep ==
  ASSUME TypeOK, [Next]_vars
  PROVE  /\ now \in Nat /\ now' \in Nat /\ now <= now'
         /\ \A row \in Row : Lapsed(row) => row.created + RequestLifetime <= now'
  <1>1. now' = now \/ now' = now + 1
    <2>1. CASE Tick \/ RetentionSweep \/ Crash \/ UNCHANGED vars
      BY <2>1 DEF Tick, RetentionSweep, Crash, vars
    <2>2. CASE \E s \in Request : CreateRequest(s) \/ Erase(s) \/ CooldownEnds(s)
      BY <2>2 DEF CreateRequest, Erase, CooldownEnds
    <2>3. CASE \E e \in Candidate : EraseCandidate(e)
      BY <2>3 DEF EraseCandidate
    <2>4. ASSUME NEW w \in Worker, Arrive(w) \/ Decide(w) PROVE now' = now
      BY <2>4, ArriveStep, DecideStep DEF Load
    <2>5. ASSUME NEW w \in Worker,
                 SaveChanges(w) \/ SaveFails(w) \/ EmitAudit(w) \/ KeyRotationFlush(w)
          PROVE  now' = now
      BY <2>5 DEF SaveChanges, SaveFails, EmitAudit, KeyRotationFlush
    <2>6. QED  BY <2>1, <2>2, <2>3, <2>4, <2>5 DEF Next, Proceed, Decide
  <1>2. now \in Nat /\ now' \in Nat /\ now <= now'
    BY <1>1 DEF TypeOK
  <1>3. ASSUME NEW row \in Row, Lapsed(row) PROVE row.created + RequestLifetime <= now'
    <2>1. row.created \in Nat /\ RequestLifetime \in Nat
      BY RowFields
    <2>2. row.created + RequestLifetime <= now
      BY <1>3 DEF Lapsed
    <2>3. QED  BY <1>2, <2>1, <2>2
  <1>4. QED  BY <1>2, <1>3

LEMMA CodesStep ==
  ASSUME TypeOK, [Next]_vars, NEW r \in Request, requests[r].status # "None"
  PROVE  codes[r] \in Nat /\ codes'[r] \in Nat /\ codes[r] <= codes'[r]
  <1>0. codes[r] \in 0..MaxCode
    BY DEF TypeOK
  <1>1. codes'[r] = codes[r] \/ codes'[r] = codes[r] + 1
    <2>1. CASE Tick \/ RetentionSweep \/ Crash \/ UNCHANGED vars
      BY <2>1 DEF Tick, RetentionSweep, Crash, vars
    <2>2. ASSUME NEW s \in Request, CreateRequest(s) \/ Erase(s) \/ CooldownEnds(s)
          PROVE  codes'[r] = codes[r]
      BY <2>2 DEF CreateRequest, Erase, CooldownEnds, TypeOK
    <2>3. CASE \E e \in Candidate : EraseCandidate(e)
      BY <2>3 DEF EraseCandidate
    <2>4. ASSUME NEW w \in Worker, Arrive(w) PROVE codes'[r] = codes[r] \/ codes'[r] = codes[r] + 1
      BY <2>4, ArriveStep DEF TypeOK
    <2>5. ASSUME NEW w \in Worker, Decide(w) PROVE codes' = codes
      BY <2>5, DecideStep
    <2>6. ASSUME NEW w \in Worker,
                 SaveChanges(w) \/ SaveFails(w) \/ EmitAudit(w) \/ KeyRotationFlush(w)
          PROVE  codes' = codes
      BY <2>6 DEF SaveChanges, SaveFails, EmitAudit, KeyRotationFlush
    <2>7. QED  BY <2>1, <2>2, <2>3, <2>4, <2>5, <2>6 DEF Next, Proceed, Decide
  <1>2. QED  BY <1>0, <1>1

LEMMA MissesStep ==
  ASSUME TypeOK, [Next]_vars, NEW r \in Request
  PROVE  \/ misses'[r] = misses[r]
         \/ \E w \in Worker :
              /\ SaveChanges(w) /\ work[w].req = r
              /\ misses'[r] = IF Resends(work[w]) THEN 0
                              ELSE IF Misses(work[w]) THEN misses[r] + 1 ELSE misses[r]
  <1>1. CASE Tick \/ RetentionSweep \/ Crash \/ UNCHANGED vars
    BY <1>1 DEF Tick, RetentionSweep, Crash, vars
  <1>2. CASE \E s \in Request : CreateRequest(s) \/ Erase(s) \/ CooldownEnds(s)
    BY <1>2 DEF CreateRequest, Erase, CooldownEnds
  <1>3. CASE \E e \in Candidate : EraseCandidate(e)
    BY <1>3 DEF EraseCandidate
  <1>4. ASSUME NEW w \in Worker, Arrive(w) \/ Decide(w) PROVE misses' = misses
    BY <1>4, ArriveStep, DecideStep DEF Load
  <1>5. ASSUME NEW w \in Worker, SaveChanges(w)
        PROVE  \/ misses'[r] = misses[r]
               \/ /\ work[w].req = r
                  /\ misses'[r] = IF Resends(work[w]) THEN 0
                                  ELSE IF Misses(work[w]) THEN misses[r] + 1 ELSE misses[r]
    BY <1>5 DEF SaveChanges, TypeOK
  <1>6. ASSUME NEW w \in Worker, SaveFails(w) \/ EmitAudit(w) \/ KeyRotationFlush(w)
        PROVE  misses' = misses
    BY <1>6 DEF SaveFails, EmitAudit, KeyRotationFlush
  <1>7. QED  BY <1>1, <1>2, <1>3, <1>4, <1>5, <1>6 DEF Next, Proceed, Decide

(* Only a save onto a changed row is counted. *)
LEMMA OverwritesStep ==
  ASSUME TypeOK, [Next]_vars, NEW r \in Request
  PROVE  /\ overwrites[r] \in Nat
         /\ \/ overwrites'[r] = overwrites[r]
            \/ \E w \in Worker : SaveChanges(w) /\ work[w].req = r
         /\ \A w \in Worker : SaveChanges(w) /\ work[w].req = r =>
               overwrites'[r] = IF requests[r] = work[w].old THEN overwrites[r]
                                ELSE overwrites[r] + 1
  <1>1. ASSUME Tick \/ RetentionSweep \/ Crash \/ UNCHANGED vars PROVE overwrites' = overwrites
    BY <1>1 DEF Tick, RetentionSweep, Crash, vars
  <1>2. ASSUME NEW s \in Request, CreateRequest(s) \/ Erase(s) \/ CooldownEnds(s)
        PROVE  overwrites' = overwrites
    BY <1>2 DEF CreateRequest, Erase, CooldownEnds
  <1>3. ASSUME NEW e \in Candidate, EraseCandidate(e) PROVE overwrites' = overwrites
    BY <1>3 DEF EraseCandidate
  <1>4. ASSUME NEW w \in Worker, Arrive(w) \/ Decide(w) PROVE overwrites' = overwrites
    BY <1>4, ArriveStep, DecideStep DEF Load
  <1>5. ASSUME NEW w \in Worker, SaveChanges(w)
        PROVE  /\ work[w].req # r => overwrites'[r] = overwrites[r]
               /\ work[w].req = r =>
                     overwrites'[r] = IF requests[r] = work[w].old THEN overwrites[r]
                                      ELSE overwrites[r] + 1
    BY <1>5 DEF SaveChanges, TypeOK
  <1>6. ASSUME NEW w \in Worker, SaveFails(w) \/ EmitAudit(w) \/ KeyRotationFlush(w)
        PROVE  overwrites' = overwrites
    BY <1>6 DEF SaveFails, EmitAudit, KeyRotationFlush
  <1>7. overwrites[r] \in Nat
    BY DEF TypeOK
  <1>8. overwrites'[r] = overwrites[r] \/ \E w \in Worker : SaveChanges(w) /\ work[w].req = r
    BY <1>1, <1>2, <1>3, <1>4, <1>5, <1>6 DEF Next, Proceed, Decide
  <1>9. QED  BY <1>5, <1>7, <1>8

-----------------------------------------------------------------------------
(* The inductive steps.                                                    *)

LEMMA DecisionParts ==
  ASSUME DecisionInv
  PROVE  /\ RequestInv /\ TypeOK
         /\ \A w \in Worker : Busy(w) =>
               /\ Concluding(work[w]) /\ work[w] \in Handler /\ Outcome(work[w])
               /\ Ahead(work[w]) /\ work[w].old.status \in Status
         /\ \A r \in Request : RowSound(r) /\ requests[r] \in Row
  BY InvParts DEF DecisionInv

(* What a handler saves, and onto what: the row it read, which then is what *)
(* the handler concluded, or a changed row, where a status is written only  *)
(* if the handler changed it.                                               *)
LEMMA DecisionSave ==
  ASSUME DecisionInv, [Next]_vars, NEW w \in Worker, SaveChanges(w)
  PROVE  LET h == work[w]
             r == work[w].req
         IN  /\ Busy(w) /\ h \in Handler /\ r \in Request
             /\ h.old \in Row /\ h.new \in Row /\ h.new.status \in Status
             /\ h.consent \in Consent \cup {NoConsent}
             /\ Exists(r) /\ requests[r].created = h.old.created
             /\ Conclusion(h) /\ ExpiredHasLapsed(h.old) /\ ExpiredHasLapsed(h.new)
             /\ h.op = "resend" => h.old.code < h.input /\ h.input <= codes[r]
             /\ requests'[r].created = requests[r].created
             /\ requests'[r].status
                   = IF h.new.status = h.old.status THEN requests[r].status ELSE h.new.status
             /\ requests'[r].code
                   = IF h.new.code = h.old.code THEN requests[r].code ELSE h.new.code
             /\ requests'[r].attempts
                   = IF h.new.attempts = h.old.attempts THEN requests[r].attempts
                     ELSE h.new.attempts
             /\ overwrites[r] \in Nat
             /\ \/ requests[r] = h.old /\ overwrites'[r] = overwrites[r]
                \/ overwrites'[r] = overwrites[r] + 1
  <1> DEFINE h == work[w]
             r == h.req
  <1>1. /\ Busy(w) /\ h \in Handler /\ r \in Request /\ h.stage = "saving"
        /\ h.old \in Row /\ h.new \in Row /\ Exists(r) /\ requests[r] \in Row
        /\ h.consent \in Consent \cup {NoConsent} /\ Outcome(h)
        /\ requests'[r] = Merge(requests[r], h.old, h.new)
    BY Saving, DecisionParts
  <1>2. /\ Conclusion(h) /\ ExpiredHasLapsed(h.old) /\ ExpiredHasLapsed(h.new)
        /\ requests[r].created = h.old.created
        /\ h.op = "resend" => h.old.code < h.input /\ h.input <= codes[r]
    BY <1>1, DecisionParts DEF Concluding
  <1>3. h.new.created = h.old.created
    BY <1>2 DEF Conclusion
  <1>4. /\ overwrites[r] \in Nat
        /\ \/ requests[r] = h.old /\ overwrites'[r] = overwrites[r]
           \/ overwrites'[r] = overwrites[r] + 1
    BY <1>1, DecisionParts, OverwritesStep
  <1>5. QED  BY <1>1, <1>2, <1>3, <1>4, MergeColumns DEF Outcome

(* A row that no save touched. *)
LEMMA DecisionRow ==
  ASSUME DecisionInv, [Next]_vars, NEW r \in Request
  PROVE  \/ requests'[r] = requests[r]
         \/ Exists(r) /\ requests'[r] = DeletedRow
         \/ requests[r].status = "None" /\ requests'[r] = NewRow /\ codes'[r] = 1
         \/ \E w \in Worker : SaveChanges(w) /\ work[w].req = r
  BY RowStep, DecisionParts

(* The body of a handler that is loaded concludes on the row as it is. *)
LEMMA ConclusionStep ==
  ASSUME DecisionInv, [Next]_vars, NEW w \in Worker, Decides(w)
  PROVE  Conclusion(work'[w]) /\ ExpiredHasLapsed(work'[w].new)
  <1> DEFINE h == work[w]
             g == work'[w]
  <1>0. /\ TypeOK /\ h \in Handler /\ h.old \in Row /\ h.old.status \in Status
        /\ ExpiredHasLapsed(h.old)
        /\ h.stage = "loaded" /\ g.old = h.old /\ g.op = h.op /\ g.input = h.input
        /\ h.old.attempts \in Nat
    BY DecisionParts, HandlerFields, RowFields DEF Decides, Concluding
  <1>1. CASE Decision(h, g.new)
    <2> DEFINE row == g.new
               tried == CountAttempt(h.old)
    <2>1. CASE /\ Lapsed(h.old) /\ h.old.status # "Expired"
               /\ row = AsExpired(h.old) \/ row = [AsExpired(h.old) EXCEPT !.decided = TRUE]
      <3>1. /\ row.status = "Expired" /\ row.created = h.old.created
            /\ row.attempts = h.old.attempts /\ row.code = h.old.code
        BY <1>0, <2>1 DEF AsExpired, Row
      <3>2. QED  BY <1>0, <2>1, <3>1 DEF Conclusion, Lapses, ExpiredHasLapsed, Lapsed
    <2>2. CASE h.op = "verify" /\ TakesCode(h.old)
      <3>1. h.old.status = "Pending"
        BY <1>0, <2>2 DEF TakesCode, ExpiredHasLapsed, Status
      <3>2. /\ tried \in Row /\ tried.status = h.old.status /\ tried.code = h.old.code
            /\ tried.attempts = h.old.attempts + 1 /\ tried.created = h.old.created
        BY <1>0 DEF CountAttempt, Row
      <3> HIDE DEF tried
      <3>3. CASE row = [tried EXCEPT !.status = "Verified", !.verified = TRUE, !.code = 0]
        BY <1>0, <2>2, <3>1, <3>2, <3>3 DEF Row, Conclusion, TriesCode, ExpiredHasLapsed
      <3>4. CASE row = [tried EXCEPT !.status = "Denied", !.decided = TRUE]
        BY <1>0, <2>2, <3>1, <3>2, <3>4 DEF Row, Conclusion, TriesCode, ExpiredHasLapsed
      <3>5. CASE row = tried /\ ~Locks(row)
        BY <1>0, <2>2, <3>1, <3>2, <3>5 DEF Conclusion, TriesCode, ExpiredHasLapsed
      <3>6. QED  BY <1>1, <2>1, <2>2, <3>3, <3>4, <3>5 DEF Decision, tried
    <2>3. CASE h.op = "resend" /\ row = WithNewCode(h.old, h.input)
      BY <1>0, <2>3 DEF WithNewCode, Row, Conclusion, TakesNewCode, ExpiredHasLapsed, Lapsed
    <2>4. CASE /\ h.op \in {"deny", "cancel"} /\ h.old.status \in {"Pending", "Verified"}
               /\ row = [h.old EXCEPT !.status = "Denied", !.decided = TRUE]
      BY <1>0, <2>4 DEF Row, Conclusion, Denies, ExpiredHasLapsed
    <2>5. Cancellable(h.old) => h.old.status \in {"Pending", "Verified"}
      BY <1>0 DEF Cancellable, Status
    <2>6. QED  BY <1>1, <2>1, <2>2, <2>3, <2>4, <2>5 DEF Decision
  <1>2. CASE /\ h.op = "approve" /\ Decidable(w) /\ g.consent \in Consent
             /\ g.new = AsApproved(h.old, g.consent)
    BY <1>0, <1>2 DEF AsApproved, Row, Conclusion, Approves, Decidable, ExpiredHasLapsed
  <1>3. QED  BY <1>1, <1>2 DEF Decides

(* CreatedAt stays, the clock goes on, and the rest is the handler's own.   *)
LEMMA ConcludingStep ==
  ASSUME DecisionInv, [Next]_vars, NEW w \in Worker, Busy(w)'
  PROVE  Concluding(work[w])'
  <1> DEFINE h == work[w]
             g == work'[w]
             LapsedNext(row) == row.status = "Expired" => row.created + RequestLifetime <= now'
  <1>0. /\ RequestInv /\ TypeOK
        /\ Busy(w) => /\ Concluding(h) /\ h \in Handler /\ h.req \in Request
                      /\ h.old \in Row /\ h.new \in Row /\ h.input \in Nat
                      /\ Ahead(h) /\ h.old.status \in Status
    BY DecisionParts, HandlerFields
  <1> SUFFICES /\ LapsedNext(g.old)
               /\ requests'[g.req].status \in Status =>
                     requests'[g.req].created = g.old.created
               /\ g.op = "resend" => g.old.code < g.input /\ g.input <= codes'[g.req]
               /\ g.stage = "saving" => Conclusion(g) /\ LapsedNext(g.new)
    BY DEF Concluding, ExpiredHasLapsed, Lapsed, Exists, Conclusion, Lapses, TriesCode,
           TakesNewCode, Denies, Approves, Locks
  <1>1. ASSUME NEW row \in Row, ExpiredHasLapsed(row) PROVE LapsedNext(row)
    BY <1>0, <1>1, ClockStep DEF ExpiredHasLapsed
  <1>2. ASSUME Busy(w), g.req = h.req, g.old = h.old, g.op = h.op, g.input = h.input
        PROVE  /\ LapsedNext(g.old)
               /\ requests'[g.req].status \in Status =>
                     requests'[g.req].created = g.old.created
               /\ g.op = "resend" => g.old.code < g.input /\ g.input <= codes'[g.req]
    <2>1. LapsedNext(h.old)
      BY <1>0, <1>1, <1>2 DEF Concluding
    <2>2. h.op = "resend" => h.old.code < h.input /\ h.input <= codes[h.req]
      BY <1>0, <1>2 DEF Concluding
    <2>3. /\ codes[h.req] <= codes'[h.req] /\ codes'[h.req] \in Nat
          /\ codes[h.req] \in Nat /\ h.input \in Nat
      BY <1>0, <1>2, CodesStep DEF Ahead
    <2>4. h.op = "resend" => h.old.code < h.input /\ h.input <= codes'[h.req]
      BY <2>2, <2>3
    <2>5. ASSUME requests'[h.req].status \in Status
          PROVE  requests'[h.req].created = h.old.created
      <3>1. Exists(h.req) => requests[h.req].created = h.old.created
        BY <1>0, <1>2 DEF Concluding
      <3>2. requests[h.req].status # "None"
        BY <1>0, <1>2 DEF Ahead
      <3>3. CASE \E v \in Worker : SaveChanges(v) /\ work[v].req = h.req
        BY <3>1, <3>3, DecisionSave
      <3>4. CASE requests'[h.req] = requests[h.req]
        BY <2>5, <3>1, <3>4 DEF Exists
      <3>5. requests'[h.req] # DeletedRow
        BY <2>5, BlankRows DEF Status
      <3>6. QED  BY <1>0, <1>2, <3>2, <3>3, <3>4, <3>5, DecisionRow
    <2>6. QED  BY <1>2, <2>1, <2>4, <2>5
  <1>3. CASE Keeps(w)
    <2>1. /\ Busy(w) /\ g.req = h.req /\ g.old = h.old /\ g.op = h.op /\ g.input = h.input
          /\ g.new = h.new /\ g.consent = h.consent
          /\ g.stage = "auditing" \/ g.stage = h.stage
      BY <1>3 DEF Keeps
    <2>2. g.stage = "saving" => Conclusion(g) /\ LapsedNext(g.new)
      <3> SUFFICES ASSUME g.stage = "saving" PROVE Conclusion(g) /\ LapsedNext(g.new)
        OBVIOUS
      <3>1. Conclusion(h) /\ LapsedNext(h.new)
        BY <1>0, <1>1, <2>1 DEF Concluding
      <3>2. QED
        BY <2>1, <3>1 DEF Conclusion, Lapses, TriesCode, TakesNewCode, Denies, Approves, Locks
    <2>3. QED  BY <1>2, <2>1, <2>2
  <1>4. CASE Decides(w)
    <2>1. /\ Busy(w) /\ g.req = h.req /\ g.old = h.old /\ g.op = h.op /\ g.input = h.input
          /\ now' = now
      BY <1>0, <1>4, DecideStep DEF Decides
    <2>2. Conclusion(g) /\ LapsedNext(g.new)
      BY <1>4, <2>1, ConclusionStep DEF ExpiredHasLapsed, Lapsed
    <2>3. QED  BY <1>2, <2>1, <2>2
  <1>5. CASE Starts(w)
    <2>1. PICK r \in Request, op \in Operation, input \in 0..MaxCode :
            /\ Load(w, op, r, input)
            /\ op = "resend" => input = codes[r] + 1 /\ codes' = [codes EXCEPT ![r] = input]
            /\ g.stage = "loaded" /\ g.op = op /\ g.req = r
            /\ g.input = input /\ g.old = requests[r]
      BY <1>5 DEF Starts
    <2>2. /\ UNCHANGED <<now, requests>> /\ Exists(r) /\ RowFresh(r)
          /\ requests[r] \in Row /\ codes[r] \in 0..MaxCode
      BY <1>0, <2>1, DecisionParts DEF Load, TypeOK, RowSound
    <2>3. LapsedNext(requests[r])
      BY <1>1, <2>2 DEF RowFresh
    <2>4. op = "resend" => requests[r].code < input /\ input <= codes'[r]
      <3> SUFFICES ASSUME op = "resend" PROVE requests[r].code < input /\ input <= codes'[r]
        OBVIOUS
      <3>1. requests[r].code \in Nat /\ codes[r] \in Nat /\ requests[r].code <= codes[r]
        BY <2>2, RowFields DEF RowFresh
      <3>2. codes'[r] = input /\ input = codes[r] + 1
        BY <1>0, <2>1 DEF TypeOK
      <3>3. QED  BY <3>1, <3>2
    <2>5. QED  BY <2>1, <2>2, <2>3, <2>4
  <1>6. QED  BY <1>0, <1>3, <1>4, <1>5, HandlerAfter

(* A step is the save of one handler. *)
LEMMA OneSaver ==
  ASSUME DecisionInv, [Next]_vars, NEW v \in Worker, NEW w \in Worker,
         SaveChanges(v), SaveChanges(w)
  PROVE  v = w
  <1> SUFFICES ASSUME v # w PROVE FALSE
    OBVIOUS
  <1>0. work \in [Worker -> Handler \cup {Idle}] /\ work[v] \in Handler
    BY DecisionParts, DecisionSave DEF TypeOK
  <1>1. work'[v] = work[v]
    BY <1>0 DEF SaveChanges
  <1>2. work[v].stage = "saving" /\ Busy(v)
    BY DEF SaveChanges, Busy
  <1>3. work'[v] = Idle \/ work'[v] = [work[v] EXCEPT !.stage = "auditing"]
    BY <1>0 DEF SaveChanges
  <1>4. [work[v] EXCEPT !.stage = "auditing"].stage = "auditing"
    BY <1>0 DEF Handler
  <1>5. QED  BY <1>1, <1>2, <1>3, <1>4 DEF Busy

LEMMA SavedMisses ==
  ASSUME DecisionInv, [Next]_vars, NEW w \in Worker, SaveChanges(w)
  PROVE  LET h == work[w]
             r == work[w].req
         IN  misses'[r] = IF Resends(h) THEN 0
                          ELSE IF Misses(h) THEN misses[r] + 1 ELSE misses[r]
  <1> DEFINE h == work[w]
             r == h.req
  <1>1. r \in Request /\ misses \in [Request -> Nat]
    BY DecisionSave, DecisionParts DEF TypeOK
  <1>2. misses' = [misses EXCEPT ![r] = IF Resends(h) THEN 0
                       ELSE IF Misses(h) THEN @ + 1 ELSE @]
    BY DEF SaveChanges
  <1>3. QED  BY <1>1, <1>2

LEMMA RowFreshStep ==
  ASSUME DecisionInv, [Next]_vars, NEW r \in Request
  PROVE  RowFresh(r)'
  <1> SUFFICES ASSUME requests'[r].status \in Status
               PROVE  /\ requests'[r].status = "Expired" =>
                            requests'[r].created + RequestLifetime <= now'
                      /\ requests'[r].code <= codes'[r]
    BY DEF RowFresh, Exists, ExpiredHasLapsed, Lapsed
  <1>0. TypeOK /\ requests[r] \in Row /\ RowFresh(r)
    BY DecisionParts DEF RowSound
  <1>1. ASSUME Exists(r)
        PROVE  /\ requests[r].status = "Expired" =>
                     requests[r].created + RequestLifetime <= now'
               /\ requests[r].code <= codes'[r]
    <2>1. ExpiredHasLapsed(requests[r]) /\ requests[r].code <= codes[r]
      BY <1>0, <1>1 DEF RowFresh
    <2>2. requests[r].code \in Nat /\ codes[r] \in Nat /\ codes'[r] \in Nat /\ codes[r] <= codes'[r]
      BY <1>0, <1>1, CodesStep, RowFields DEF Exists, Status
    <2>3. requests[r].code <= codes'[r]
      BY <2>1, <2>2
    <2>4. QED  BY <1>0, <2>1, <2>3, ClockStep DEF ExpiredHasLapsed
  <1>2. CASE requests'[r] = NewRow /\ codes'[r] = 1
    BY <1>0, <1>2, NewRows DEF TypeOK
  <1>3. ASSUME NEW w \in Worker, SaveChanges(w), work[w].req = r
        PROVE  /\ requests'[r].status = "Expired" =>
                     requests'[r].created + RequestLifetime <= now'
               /\ requests'[r].code <= codes'[r]
    <2> DEFINE h == work[w]
    <2>1. /\ h \in Handler /\ h.old \in Row /\ h.new \in Row /\ Exists(r)
          /\ requests[r].created = h.old.created /\ requests'[r].created = requests[r].created
          /\ Conclusion(h) /\ ExpiredHasLapsed(h.new)
          /\ h.op = "resend" => h.old.code < h.input /\ h.input <= codes[r]
          /\ requests'[r].status
               = IF h.new.status = h.old.status THEN requests[r].status ELSE h.new.status
          /\ requests'[r].code
               = IF h.new.code = h.old.code THEN requests[r].code ELSE h.new.code
      BY <1>3, DecisionSave
    <2>2. h.new.status = "Expired" => requests[r].created + RequestLifetime <= now'
      <3>1. h.new.created = h.old.created
        BY <2>1 DEF Conclusion
      <3>2. QED  BY <1>0, <2>1, <3>1, ClockStep DEF ExpiredHasLapsed
    <2>3. h.new.code = 0 \/ h.new.code = h.old.code \/ (h.op = "resend" /\ h.new.code = h.input)
      <3> HIDE DEF h
      <3>1. CASE TriesCode(h)
        BY <3>1 DEF TriesCode
      <3>2. QED  BY <2>1, <3>1 DEF Conclusion, Lapses, TakesNewCode, Denies, Approves
    <2>4. codes[r] \in Nat /\ codes'[r] \in Nat /\ codes[r] <= codes'[r] /\ h.input \in Nat
      BY <1>0, <2>1, CodesStep, HandlerFields DEF Exists, Status
    <2>5. requests'[r].code <= codes'[r]
      <3>1. h.op = "resend" => h.input <= codes'[r]
        BY <2>1, <2>4
      <3>2. requests[r].code <= codes'[r] /\ 0 <= codes'[r]
        BY <1>1, <2>1, <2>4
      <3>3. QED  BY <2>1, <2>3, <3>1, <3>2
    <2>6. QED  BY <1>1, <2>1, <2>2, <2>5
  <1>4. requests'[r] = requests[r] => Exists(r)
    BY DEF Exists
  <1>5. requests'[r] # DeletedRow
    BY BlankRows DEF Status
  <1>6. QED  BY <1>1, <1>2, <1>3, <1>4, <1>5, DecisionRow

LEMMA BoughtStep ==
  ASSUME DecisionInv, [Next]_vars, NEW r \in Request
  PROVE  /\ Bought(r) \in Nat /\ Bought(r)' \in Nat
         /\ overwrites'[r] = overwrites[r] => Bought(r)' = Bought(r)
         /\ overwrites'[r] = overwrites[r] + 1 => Bought(r)' = Bought(r) + AttemptLimit
  <1>1. overwrites[r] \in Nat /\ overwrites'[r] \in Nat /\ AttemptLimit \in Nat
    <2>1. overwrites' \in [Request -> 0..MaxOverwrite]
      BY DecisionParts, InvParts, TablesType
    <2>2. QED  BY <2>1, DecisionParts DEF TypeOK
  <1>2. \A m, n \in Nat : m * n \in Nat /\ m * (n + 1) = m * n + m
    OBVIOUS
  <1>3. QED  BY <1>1, <1>2 DEF Bought

(* Every wrong code is counted in the column, until a new code resets both, *)
(* or is one of those that a save onto a changed row bought.                *)
LEMMA AttemptsStep ==
  ASSUME DecisionInv, [Next]_vars, NEW r \in Request
  PROVE  AttemptsCounted(r)'
  <1> SUFFICES /\ misses'[r] <= AttemptLimit + Bought(r)'
               /\ requests'[r].status = "None" => misses'[r] = 0
               /\ requests'[r].status \in Status \ {"Denied", "Expired"} =>
                     misses'[r] < AttemptLimit + Bought(r)'
               /\ requests'[r].status = "Pending" =>
                     /\ misses'[r] <= requests'[r].attempts + Bought(r)'
                     /\ requests'[r].attempts < AttemptLimit
    BY DEF AttemptsCounted, Exists
  <1>0. /\ TypeOK /\ requests[r] \in Row /\ AttemptsCounted(r)
        /\ misses[r] \in Nat /\ AttemptLimit \in Nat \ {0} /\ requests[r].attempts \in Nat
        /\ Bought(r) \in Nat /\ Bought(r)' \in Nat
    BY DecisionParts, BoughtStep, RowFields DEF TypeOK, RowSound
  <1>1. ASSUME NEW w \in Worker, SaveChanges(w), work[w].req = r
        PROVE  /\ misses'[r] <= AttemptLimit + Bought(r)'
               /\ requests'[r].status # "None"
               /\ requests'[r].status \notin {"Denied", "Expired"} =>
                     misses'[r] < AttemptLimit + Bought(r)'
               /\ requests'[r].status = "Pending" =>
                     /\ misses'[r] <= requests'[r].attempts + Bought(r)'
                     /\ requests'[r].attempts < AttemptLimit
    <2> DEFINE h == work[w]
    <2>1. /\ h \in Handler /\ h.old \in Row /\ h.new \in Row /\ Exists(r)
          /\ Conclusion(h) /\ h.new.status \in Status
          /\ h.op = "resend" => h.old.code < h.input
          /\ requests'[r].status
               = IF h.new.status = h.old.status THEN requests[r].status ELSE h.new.status
          /\ requests'[r].attempts
               = IF h.new.attempts = h.old.attempts THEN requests[r].attempts
                 ELSE h.new.attempts
          /\ \/ requests[r] = h.old /\ overwrites'[r] = overwrites[r]
             \/ overwrites'[r] = overwrites[r] + 1
      BY <1>1, DecisionSave
    <2>2. misses'[r] = IF Resends(h) THEN 0
                       ELSE IF Misses(h) THEN misses[r] + 1 ELSE misses[r]
      BY <1>1, SavedMisses
    <2>3. /\ h.old.attempts \in Nat /\ h.new.attempts \in Nat
          /\ h.old.code \in Nat /\ h.input \in Nat
      BY <2>1, HandlerFields, RowFields
    <2>4. /\ misses[r] <= AttemptLimit + Bought(r)
          /\ requests[r].status \notin {"Denied", "Expired"} =>
                misses[r] < AttemptLimit + Bought(r)
          /\ requests[r].status = "Pending" =>
                misses[r] <= requests[r].attempts + Bought(r)
                  /\ requests[r].attempts < AttemptLimit
          /\ requests[r].status \in Status
      BY <1>0, <2>1 DEF AttemptsCounted, Exists
    <2> HIDE DEF h
    <2>5. CASE requests[r] = h.old /\ overwrites'[r] = overwrites[r]
      <3>0. Bought(r)' = Bought(r)
        BY <2>5, BoughtStep
      <3>1. CASE Lapses(h) \/ Denies(h)
        BY <1>0, <2>1, <2>2, <2>3, <2>4, <2>5, <3>0, <3>1
           DEF Lapses, Denies, Resends, Misses
      <3>2. CASE TriesCode(h)
        BY <1>0, <2>1, <2>2, <2>3, <2>4, <2>5, <3>0, <3>2
           DEF TriesCode, Resends, Misses, Locks
      <3>3. CASE TakesNewCode(h)
        <4>1. Resends(h)
          BY <2>1, <2>3, <3>3 DEF TakesNewCode, Resends
        <4>2. QED  BY <1>0, <2>1, <2>2, <2>3, <2>4, <2>5, <3>0, <3>3, <4>1 DEF TakesNewCode, Status
      <3>4. CASE Approves(h)
        BY <1>0, <2>1, <2>2, <2>3, <2>4, <2>5, <3>0, <3>4 DEF Approves, Resends, Misses
      <3>5. QED  BY <2>1, <3>1, <3>2, <3>3, <3>4 DEF Conclusion
    <2>6. CASE overwrites'[r] = overwrites[r] + 1
      <3>0. Bought(r)' = Bought(r) + AttemptLimit
        BY <2>6, BoughtStep
      <3>1. misses'[r] \in {0, misses[r], misses[r] + 1}
        BY <2>2
      <3>2. misses'[r] <= AttemptLimit + Bought(r)'
        BY <1>0, <2>4, <3>0, <3>1
      <3>3. requests'[r].status # "None"
        BY <2>1, <2>4 DEF Status
      <3>4. ASSUME requests'[r].status \notin {"Denied", "Expired"}
            PROVE  misses'[r] < AttemptLimit + Bought(r)'
        <4>1. CASE Misses(h)
          <5>1. TriesCode(h) /\ h.new.status # "Verified"
            <6>1. h.op = "verify" /\ h.new.attempts # h.old.attempts /\ h.new.status # "Verified"
              BY <4>1 DEF Misses
            <6>2. QED  BY <2>1, <6>1 DEF Conclusion, Lapses, TakesNewCode, Denies, Approves
          <5>2. requests[r].status \notin {"Denied", "Expired"}
            BY <2>1, <3>4, <5>1 DEF TriesCode
          <5>3. QED  BY <1>0, <2>4, <3>0, <3>1, <5>2
        <4>2. CASE ~Misses(h)
          BY <1>0, <2>2, <2>4, <3>0, <4>2
        <4>3. QED  BY <4>1, <4>2
      <3>5. ASSUME requests'[r].status = "Pending"
            PROVE  /\ misses'[r] <= requests'[r].attempts + Bought(r)'
                   /\ requests'[r].attempts < AttemptLimit
        <4>1. requests[r].status = "Pending" /\ h.new.status = h.old.status
          BY <2>1, <3>5 DEF Conclusion, Lapses, TriesCode, TakesNewCode, Denies, Approves
        <4>2. /\ requests'[r].attempts < AttemptLimit /\ requests'[r].attempts \in Nat
          <5>1. CASE TriesCode(h)
            BY <1>0, <2>1, <2>3, <2>4, <4>1, <5>1 DEF TriesCode, Locks
          <5>2. CASE ~TriesCode(h)
            BY <1>0, <2>1, <2>3, <2>4, <4>1, <5>2
               DEF Conclusion, Lapses, TakesNewCode, Denies, Approves
          <5>3. QED  BY <5>1, <5>2
        <4>3. QED  BY <1>0, <2>4, <3>0, <3>1, <4>1, <4>2
      <3>6. QED  BY <3>2, <3>3, <3>4, <3>5
    <2>7. QED  BY <2>1, <2>5, <2>6
  <1>2. ASSUME \A w \in Worker : ~(SaveChanges(w) /\ work[w].req = r)
        PROVE  /\ misses'[r] = misses[r] /\ Bought(r)' = Bought(r)
               /\ \/ requests'[r] = requests[r]
                  \/ Exists(r) /\ requests'[r] = DeletedRow
                  \/ requests[r].status = "None" /\ requests'[r] = NewRow
    BY <1>0, <1>2, MissesStep, OverwritesStep, BoughtStep, DecisionRow
  <1>3. CASE misses'[r] = misses[r] /\ Bought(r)' = Bought(r) /\ requests'[r] = requests[r]
    BY <1>0, <1>3 DEF AttemptsCounted, Exists
  <1>4. CASE misses'[r] = misses[r] /\ Bought(r)' = Bought(r) /\ requests'[r] = DeletedRow
    BY <1>0, <1>4, BlankRows DEF AttemptsCounted, Status
  <1>5. CASE /\ misses'[r] = misses[r] /\ requests[r].status = "None"
             /\ requests'[r] = NewRow
    BY <1>0, <1>5, NewRows DEF AttemptsCounted, TypeOK
  <1>6. QED  BY <1>1, <1>2, <1>3, <1>4, <1>5 DEF Status

(* What a save grants: nothing, or the consent of an approval. *)
LEMMA SavedGrants ==
  ASSUME DecisionInv, [Next]_vars, NEW w \in Worker, NEW r \in Request,
         SaveChanges(w), work[w].req = r
  PROVE  \/ work[w].consent = NoConsent /\ GrantedOn(r)' = GrantedOn(r)
         \/ Approves(work[w]) /\ GrantedOn(r)' = GrantedOn(r) \cup {work[w].consent}
  <1> DEFINE h == work[w]
  <1>0. /\ RequestInv /\ TypeOK /\ Conclusion(h) /\ Outcome(h)
        /\ h.consent \in Consent \cup {NoConsent} /\ Busy(w)
    BY DecisionParts, DecisionSave
  <1>1. \A c \in Consent : issued[c] = r => issued'[c] = r
    BY <1>0, Grows
  <1>2. \A c \in Consent : issued'[c] = r => issued[c] = r \/ c = h.consent
    BY <1>0, GrantedStep, OneSaver
  <1>3. CASE h.consent = NoConsent
    <2>1. NoConsent \notin Consent
      BY RequestConstants
    <2>2. QED  BY <1>1, <1>2, <1>3, <2>1 DEF GrantedOn
  <1>4. CASE h.consent # NoConsent
    <2>1. h.consent \in Consent /\ issued'[h.consent] = r
      BY <1>0, <1>4, Saving
    <2>2. GrantedOn(r)' = GrantedOn(r) \cup {h.consent}
      BY <1>1, <1>2, <2>1 DEF GrantedOn
    <2>3. h.op = "approve" /\ h.new.status = "Approved"
      BY <1>0, <1>4 DEF Outcome
    <2>4. Approves(h)
      BY <1>0, <2>3 DEF Conclusion, Lapses, TriesCode, TakesNewCode, Denies
    <2>5. QED  BY <2>2, <2>4
  <1>5. QED  BY <1>3, <1>4

(* No other step grants anything. *)
LEMMA OtherGrants ==
  ASSUME DecisionInv, [Next]_vars, NEW r \in Request,
         \A w \in Worker : ~(SaveChanges(w) /\ work[w].req = r)
  PROVE  GrantedOn(r)' = GrantedOn(r)
  <1>1. RequestInv
    BY DecisionParts
  <1>2. \A c \in Consent : issued[c] = r => issued'[c] = r
    BY <1>1, Grows
  <1>3. \A c \in Consent : issued'[c] = r => issued[c] = r
    BY <1>1, GrantedStep
  <1>4. QED  BY <1>2, <1>3 DEF GrantedOn

(* A second consent needs an open request again, or an approval that read   *)
(* the row while it was open: either is a save onto a changed row.          *)
LEMMA GrantsStep ==
  ASSUME DecisionInv, [Next]_vars, NEW r \in Request
  PROVE  GrantsCounted(r)'
  <1> DEFINE G == GrantedOn(r)
             H == GrantedOn(r)'
  <1> SUFFICES /\ IsFiniteSet(H)
               /\ Cardinality(H) <= 1 + overwrites'[r]
               /\ requests'[r].status \in {"None", "Pending", "Verified"} =>
                     Cardinality(H) <= overwrites'[r]
               /\ overwrites'[r] = 0 /\ requests'[r].status = "Denied" => H = {}
    BY DEF GrantsCounted
  <1>0. /\ TypeOK /\ requests[r] \in Row /\ overwrites[r] \in Nat
        /\ IsFiniteSet(G) /\ Cardinality(G) \in Nat
        /\ Cardinality(G) <= 1 + overwrites[r]
        /\ requests[r].status \in {"None", "Pending", "Verified"} =>
              Cardinality(G) <= overwrites[r]
        /\ overwrites[r] = 0 /\ requests[r].status = "Denied" => G = {}
    BY DecisionParts, OverwritesStep, FS_CardinalityType DEF RowSound, GrantsCounted
  <1>1. ASSUME NEW w \in Worker, SaveChanges(w), work[w].req = r
        PROVE  /\ IsFiniteSet(H)
               /\ Cardinality(H) <= 1 + overwrites'[r]
               /\ requests'[r].status \in {"None", "Pending", "Verified"} =>
                     Cardinality(H) <= overwrites'[r]
               /\ overwrites'[r] = 0 /\ requests'[r].status = "Denied" => H = {}
    <2> DEFINE h == work[w]
    <2>1. /\ Conclusion(h) /\ Exists(r)
          /\ requests'[r].status
               = IF h.new.status = h.old.status THEN requests[r].status ELSE h.new.status
          /\ \/ requests[r] = h.old /\ overwrites'[r] = overwrites[r]
             \/ overwrites'[r] = overwrites[r] + 1
      BY <1>1, DecisionSave
    <2>2. \/ h.consent = NoConsent /\ H = G
          \/ Approves(h) /\ H = G \cup {h.consent}
      BY <1>1, SavedGrants
    <2> HIDE DEF h, H, G
    <2>3. CASE H = G
      <3>1. CASE overwrites'[r] = overwrites[r] + 1
        BY <1>0, <2>3, <3>1
      <3>2. CASE requests[r] = h.old /\ overwrites'[r] = overwrites[r]
        <4>1. /\ requests'[r].status \in {"None", "Pending", "Verified"} =>
                    requests[r].status \in {"None", "Pending", "Verified"}
              /\ requests'[r].status = "Denied" =>
                    requests[r].status \in {"Pending", "Verified", "Denied"}
          BY <2>1, <3>2 DEF Conclusion, Lapses, TriesCode, TakesNewCode, Denies, Approves
        <4>2. ASSUME overwrites[r] = 0, requests[r].status \in {"Pending", "Verified"}
              PROVE  G = {}
          <5>1. Cardinality(G) = 0
            BY <1>0, <4>2
          <5>2. QED  BY <1>0, <5>1, FS_EmptySet
        <4>3. QED  BY <1>0, <2>3, <3>2, <4>1, <4>2
      <3>3. QED  BY <2>1, <3>1, <3>2
    <2>4. CASE Approves(h) /\ H = G \cup {h.consent}
      <3>1. IsFiniteSet(H) /\ Cardinality(H) \in Nat /\ Cardinality(H) <= Cardinality(G) + 1
        <4>1. IsFiniteSet(H)
          BY <1>0, <2>4, FS_AddElement
        <4>2. Cardinality(H) \in Nat
          BY <4>1, FS_CardinalityType
        <4>3. Cardinality(H) = Cardinality(G) \/ Cardinality(H) = Cardinality(G) + 1
          BY <1>0, <2>4, FS_AddElement
        <4>4. QED  BY <1>0, <4>1, <4>2, <4>3
      <3>2. requests'[r].status = "Approved"
        BY <2>1, <2>4 DEF Approves
      <3>3. CASE overwrites'[r] = overwrites[r] + 1
        BY <1>0, <3>1, <3>2, <3>3
      <3>4. CASE requests[r] = h.old /\ overwrites'[r] = overwrites[r]
        <4>1. requests[r].status = "Verified"
          BY <2>4, <3>4 DEF Approves
        <4>2. QED  BY <1>0, <3>1, <3>2, <3>4, <4>1
      <3>5. QED  BY <2>1, <3>3, <3>4
    <2>5. QED  BY <2>2, <2>3, <2>4
  <1>2. CASE \A w \in Worker : ~(SaveChanges(w) /\ work[w].req = r)
    <2>1. H = G /\ overwrites'[r] = overwrites[r]
      BY <1>0, <1>2, OtherGrants, OverwritesStep
    <2>2. \/ requests'[r] = requests[r]
          \/ requests'[r].status = "Deleted"
          \/ requests[r].status = "None" /\ requests'[r].status = "Pending"
      BY <1>0, <1>2, DecisionRow, BlankRows, NewRows DEF TypeOK
    <2> HIDE DEF H, G
    <2>3. QED  BY <1>0, <2>1, <2>2
  <1>3. QED  BY <1>1, <1>2

LEMMA DecisionInductive == DecisionInv /\ [Next]_vars => DecisionInv'
  <1> SUFFICES ASSUME DecisionInv, [Next]_vars PROVE DecisionInv'
    OBVIOUS
  <1>1. RequestInv'
    BY DecisionParts, RequestInductive
  <1>2. \A w \in Worker : Busy(w)' => Concluding(work[w])'
    BY ConcludingStep
  <1>3. \A r \in Request : RowSound(r)'
    BY RowFreshStep, AttemptsStep, GrantsStep DEF RowSound
  <1>4. QED  BY <1>1, <1>2, <1>3 DEF DecisionInv

LEMMA InitDecision == Init => DecisionInv
  <1> SUFFICES ASSUME Init PROVE DecisionInv
    OBVIOUS
  <1>1. /\ \A r \in Request : requests[r] = BlankRow /\ misses[r] = 0 /\ overwrites[r] = 0
        /\ \A c \in Consent : issued[c] = NoRequest
        /\ \A w \in Worker : ~Busy(w)
    BY DEF Init, Busy
  <1>2. ASSUME NEW r \in Request PROVE RowSound(r)
    <2>1. GrantedOn(r) = {}
      BY <1>1 DEF GrantedOn
    <2>2. GrantsCounted(r)
      <3>1. IsFiniteSet({}) /\ Cardinality({}) = 0
        BY FS_EmptySet
      <3>2. QED  BY <1>1, <2>1, <3>1 DEF GrantsCounted
    <2>3. Bought(r) = 0
      <3>1. AttemptLimit * 0 = 0
        OBVIOUS
      <3>2. QED  BY <1>1, <3>1 DEF Bought
    <2>4. AttemptsCounted(r)
      BY <1>1, <2>3, BlankRows DEF AttemptsCounted, Exists, Status
    <2>5. RowFresh(r)
      BY <1>1, BlankRows DEF RowFresh, Exists, Status
    <2>6. QED  BY <2>2, <2>4, <2>5 DEF RowSound
  <1>3. QED  BY <1>1, <1>2, InitRequest DEF DecisionInv

-----------------------------------------------------------------------------
(* The theorems.                                                           *)

LEMMA DecisionInvariant == Spec => []DecisionInv
  <1>1. QED  BY InitDecision, DecisionInductive, PTL DEF Spec

(* One approval grants one consent, and a request has at most one consent   *)
(* more for every save that landed on a changed row: however many handlers  *)
(* overlap on it, none of the other steps grants a second one.              *)
THEOREM OneConsent == Spec => []OneConsentPerRequest
  <1>1. DecisionInv => OneConsentPerRequest
    BY DEF DecisionInv, RowSound, GrantsCounted, OneConsentPerRequest
  <1>2. QED  BY <1>1, DecisionInvariant, PTL

(* A Denied request on which a consent was granted has had a save onto a    *)
(* changed row: the cancellation that meets an approval is the only way.    *)
THEOREM DenialGrantsNothing == Spec => []DeniedHasNoConsent
  <1>1. DecisionInv => DeniedHasNoConsent
    <2> SUFFICES ASSUME DecisionInv, NEW r \in Request, requests[r].status = "Denied",
                        GrantedOn(r) # {}
                 PROVE  overwrites[r] > 0
      BY DEF DeniedHasNoConsent
    <2>1. overwrites[r] # 0 /\ overwrites[r] \in Nat
      BY DecisionParts DEF RowSound, GrantsCounted, TypeOK
    <2>2. QED  BY <2>1
  <1>2. QED  BY <1>1, DecisionInvariant, PTL

(* The lock-out, with any number of posts that overlap: AttemptLimit wrong  *)
(* codes close a request, and a post that overlaps others buys no more than *)
(* AttemptLimit further ones.                                               *)
THEOREM LockOut == Spec => []LockedAfterLimit
  <1>1. DecisionInv => LockedAfterLimit
    <2> SUFFICES ASSUME DecisionInv, NEW r \in Request
                 PROVE  /\ misses[r] <= AttemptLimit * (1 + overwrites[r])
                        /\ misses[r] = AttemptLimit /\ overwrites[r] = 0 /\ Exists(r)
                             => requests[r].status \in {"Denied", "Expired"}
      BY DEF LockedAfterLimit
    <2>1. /\ AttemptsCounted(r) /\ AttemptLimit \in Nat /\ overwrites[r] \in Nat
          /\ misses[r] \in Nat
      BY DecisionParts DEF RowSound, TypeOK
    <2>2. \A m, n \in Nat : m * (1 + n) = m + m * n /\ m * 0 = 0
      OBVIOUS
    <2>3. /\ AttemptLimit * (1 + overwrites[r]) = AttemptLimit + Bought(r)
          /\ overwrites[r] = 0 => Bought(r) = 0
      BY <2>1, <2>2 DEF Bought
    <2>4. QED  BY <2>1, <2>3 DEF AttemptsCounted
  <1>2. QED  BY <1>1, DecisionInvariant, PTL

(* What one step does to the status of a request, when it is not a save     *)
(* onto a changed row.                                                      *)
LEMMA StatusStep ==
  ASSUME DecisionInv, [Next]_vars, NEW r \in Request, overwrites'[r] = overwrites[r]
  PROVE  \/ requests'[r].status = requests[r].status
         \/ Exists(r) /\ requests'[r].status = "Deleted"
         \/ requests[r].status = "None" /\ requests'[r].status = "Pending"
         \/ \E w \in Worker :
              /\ SaveChanges(w) /\ work[w].req = r /\ Exists(r)
              /\ \/ /\ requests[r].status \in Status \ {"Expired"} /\ Lapsed(requests[r])
                    /\ requests'[r].status = "Expired"
                 \/ requests[r].status = "Pending" /\ requests'[r].status \in {"Verified", "Denied"}
                 \/ /\ requests[r].status \in {"Pending", "Verified"}
                    /\ requests'[r].status = "Denied"
                 \/ /\ requests[r].status = "Verified" /\ requests'[r].status = "Approved"
                    /\ Approves(work[w])
  <1>0. TypeOK
    BY DecisionParts
  <1>1. ASSUME NEW w \in Worker, SaveChanges(w), work[w].req = r
        PROVE  /\ Exists(r)
               /\ \/ requests'[r].status = requests[r].status
                  \/ /\ requests[r].status \in Status \ {"Expired"} /\ Lapsed(requests[r])
                     /\ requests'[r].status = "Expired"
                  \/ requests[r].status = "Pending" /\ requests'[r].status \in {"Verified", "Denied"}
                  \/ /\ requests[r].status \in {"Pending", "Verified"}
                     /\ requests'[r].status = "Denied"
                  \/ /\ requests[r].status = "Verified" /\ requests'[r].status = "Approved"
                     /\ Approves(work[w])
    <2> DEFINE h == work[w]
    <2>0. overwrites[r] \in Nat
      BY <1>0 DEF TypeOK
    <2>1. /\ Exists(r) /\ requests[r] = h.old /\ Conclusion(h)
          /\ requests'[r].status = h.new.status /\ ExpiredHasLapsed(h.new)
      BY <1>1, <2>0, DecisionSave
    <2>2. CASE Lapses(h)
      <3>1. Lapsed(h.old)
        BY <2>1, <2>2 DEF Lapses, Conclusion, ExpiredHasLapsed, Lapsed
      <3>2. QED  BY <2>1, <2>2, <3>1 DEF Lapses, Exists
    <2>3. CASE TriesCode(h)
      BY <2>1, <2>3 DEF TriesCode
    <2>4. CASE TakesNewCode(h)
      BY <2>1, <2>4 DEF TakesNewCode
    <2>5. CASE Denies(h) \/ Approves(h)
      BY <2>1, <2>5 DEF Denies, Approves
    <2>6. QED  BY <2>1, <2>2, <2>3, <2>4, <2>5 DEF Conclusion
  <1>2. CASE requests'[r] = requests[r] \/ (Exists(r) /\ requests'[r] = DeletedRow)
    BY <1>2, BlankRows
  <1>3. CASE requests[r].status = "None" /\ requests'[r] = NewRow
    BY <1>0, <1>3, NewRows DEF TypeOK
  <1>4. QED  BY <1>1, <1>2, <1>3, DecisionRow

(* A decided request changes only by lapsing, by deletion, or by the save   *)
(* of a handler that read it before: no handler that has seen the decision  *)
(* approves after a denial, denies after an approval, or opens it again.    *)
THEOREM DecisionsStand == Spec => DecisionChangesOnlyByExpiry
  <1>1. DecisionInv /\ [Next]_vars
          => [\A r \in Request :
                requests[r].status \in {"Approved", "Denied"}
                  => \/ requests'[r].status \in {requests[r].status, "Deleted"}
                     \/ requests'[r].status = "Expired" /\ Lapsed(requests[r])
                     \/ overwrites'[r] = overwrites[r] + 1]_vars
    <2> SUFFICES ASSUME DecisionInv, [Next]_vars, NEW r \in Request,
                        requests[r].status \in {"Approved", "Denied"},
                        overwrites'[r] # overwrites[r] + 1
                 PROVE  \/ requests'[r].status \in {requests[r].status, "Deleted"}
                        \/ requests'[r].status = "Expired" /\ Lapsed(requests[r])
      OBVIOUS
    <2>1. overwrites'[r] = overwrites[r]
      BY DecisionParts, OverwritesStep
    <2>2. QED  BY <2>1, StatusStep
  <1>2. QED  BY <1>1, DecisionInvariant, PTL DEF Spec, DecisionChangesOnlyByExpiry

-----------------------------------------------------------------------------
(* Where such saves come from.                                             *)

NoOverlap ==
    \A v, w \in Worker : v # w /\ Busy(v) /\ Busy(w) => work[v].req # work[w].req

NoOverwrite == \A r \in Request : overwrites[r] = 0

(* Without overlap the row of a handler that has not saved is the row it    *)
(* read, or is gone.                                                        *)
Undisturbed(h) == h.stage # "auditing" /\ Exists(h.req) => requests[h.req] = h.old

AloneInv ==
    /\ DecisionInv
    /\ \A w \in Worker : Busy(w) => Undisturbed(work[w])
    /\ NoOverwrite

LEMMA UndisturbedStep ==
  ASSUME AloneInv, NoOverlap, [Next]_vars, NEW w \in Worker, Busy(w)'
  PROVE  Undisturbed(work[w])'
  <1> DEFINE h == work[w]
             g == work'[w]
  <1>0. /\ DecisionInv /\ RequestInv /\ TypeOK
        /\ Busy(w) => Undisturbed(h) /\ h \in Handler /\ h.req \in Request /\ Ahead(h)
    BY DecisionParts, HandlerFields DEF AloneInv
  <1> SUFFICES ASSUME g.stage # "auditing", requests'[g.req].status \in Status
               PROVE  requests'[g.req] = g.old
    BY DEF Undisturbed, Exists
  <1>1. CASE Keeps(w) \/ Decides(w)
    <2>1. /\ Busy(w) /\ g.req = h.req /\ g.old = h.old
          /\ ~SaveChanges(w) /\ h.stage # "auditing"
      <3>1. Keeps(w) => ~SaveChanges(w) /\ h.stage # "auditing"
        BY DEF Keeps
      <3>2. Decides(w) => h.stage = "loaded"
        BY <1>0, DecideStep DEF Decides
      <3>3. SaveChanges(w) => h.stage = "saving"
        BY DEF SaveChanges
      <3>4. QED  BY <1>1, <3>1, <3>2, <3>3 DEF Keeps, Decides
    <2>2. ASSUME NEW v \in Worker, SaveChanges(v), work[v].req = h.req PROVE FALSE
      <3>1. Busy(v) /\ v # w
        BY <1>0, <2>1, <2>2, DecisionSave
      <3>2. QED  BY <2>1, <2>2, <3>1 DEF NoOverlap
    <2>3. requests[h.req].status # "None"
      BY <1>0, <2>1 DEF Ahead
    <2>4. requests'[h.req] = requests[h.req] \/ requests'[h.req] = DeletedRow
      BY <1>0, <2>1, <2>2, <2>3, DecisionRow
    <2>5. requests'[h.req] = requests[h.req]
      BY <2>1, <2>4, BlankRows DEF Status
    <2>6. QED  BY <1>0, <2>1, <2>5 DEF Undisturbed, Exists
  <1>2. CASE Starts(w)
    <2>1. PICK r \in Request, op \in Operation, input \in 0..MaxCode :
            Load(w, op, r, input) /\ g.req = r /\ g.old = requests[r]
      BY <1>2 DEF Starts
    <2>2. QED  BY <2>1 DEF Load
  <1>3. QED  BY <1>0, <1>1, <1>2, HandlerAfter

(* Saves onto changed rows need two handlers of one request at a time; the  *)
(* sweep, erasures and crashes between the steps of one do not make any.    *)
THEOREM OverlapOverwrites == Spec /\ []NoOverlap => []NoOverwrite
  <1>1. Init => AloneInv
    BY InitDecision DEF Init, AloneInv, NoOverwrite, Busy
  <1>2. AloneInv /\ NoOverlap /\ [Next]_vars => AloneInv'
    <2> SUFFICES ASSUME AloneInv, NoOverlap, [Next]_vars PROVE AloneInv'
      OBVIOUS
    <2>1. \A w \in Worker : Busy(w)' => Undisturbed(work[w])'
      BY UndisturbedStep
    <2>2. ASSUME NEW r \in Request PROVE overwrites'[r] = 0
      <3>1. ASSUME NEW w \in Worker, SaveChanges(w), work[w].req = r
            PROVE  requests[r] = work[w].old
        BY <3>1, DecisionSave DEF AloneInv, Undisturbed, SaveChanges
      <3>2. QED  BY <3>1, DecisionParts, OverwritesStep DEF AloneInv, NoOverwrite
    <2>3. QED  BY <2>1, <2>2, DecisionInductive DEF AloneInv, NoOverwrite
  <1>3. AloneInv => NoOverwrite
    BY DEF AloneInv
  <1>4. QED  BY <1>1, <1>2, <1>3, PTL DEF Spec

-----------------------------------------------------------------------------
(* The refinement of the abstract lifecycle.                               *)

(* What one step grants: nothing, or one consent on the request approved.   *)
LEMMA GrantCounts ==
  ASSUME DecisionInv, NoOverwrite, NoOverwrite', [Next]_vars, NEW r \in Request
  PROVE  \/ /\ GrantedOn(r)' = GrantedOn(r)
            /\ requests[r].status = "Verified" => requests'[r].status # "Approved"
         \/ /\ requests[r].status = "Verified" /\ requests'[r].status = "Approved"
            /\ Cardinality(GrantedOn(r)) = 0 /\ Cardinality(GrantedOn(r)') = 1
  <1>0. overwrites[r] = 0 /\ overwrites'[r] = 0
    BY DEF NoOverwrite
  <1>1. ASSUME NEW w \in Worker, SaveChanges(w), work[w].req = r, Approves(work[w])
        PROVE  /\ requests[r].status = "Verified" /\ requests'[r].status = "Approved"
               /\ Cardinality(GrantedOn(r)) = 0 /\ Cardinality(GrantedOn(r)') = 1
    <2> DEFINE h == work[w]
    <2>1. requests[r] = h.old /\ requests'[r].status = h.new.status
      BY <1>0, <1>1, DecisionSave DEF Approves
    <2>2. requests[r].status = "Verified" /\ requests'[r].status = "Approved"
      BY <1>1, <2>1 DEF Approves
    <2>3. Cardinality(GrantedOn(r)) = 0 /\ GrantedOn(r) = {}
      <3>1. IsFiniteSet(GrantedOn(r)) /\ Cardinality(GrantedOn(r)) <= 0
        BY <1>0, <2>2, DecisionParts DEF RowSound, GrantsCounted
      <3>2. Cardinality(GrantedOn(r)) \in Nat
        BY <3>1, FS_CardinalityType
      <3>3. Cardinality(GrantedOn(r)) = 0
        BY <3>1, <3>2
      <3>4. QED  BY <3>1, <3>3, FS_EmptySet
    <2>4. GrantedOn(r)' = {h.consent}
      <3>1. h.consent # NoConsent
        BY <1>1 DEF Approves
      <3>2. QED  BY <1>1, <2>3, <3>1, SavedGrants
    <2>5. Cardinality({h.consent}) = 1
      BY FS_Singleton
    <2>6. QED  BY <2>2, <2>3, <2>4, <2>5
  <1>2. ASSUME \A w \in Worker : ~(SaveChanges(w) /\ work[w].req = r /\ Approves(work[w]))
        PROVE  /\ GrantedOn(r)' = GrantedOn(r)
               /\ requests[r].status = "Verified" => requests'[r].status # "Approved"
    <2>1. GrantedOn(r)' = GrantedOn(r)
      <3>1. CASE \E w \in Worker : SaveChanges(w) /\ work[w].req = r
        BY <1>2, <3>1, SavedGrants
      <3>2. CASE \A w \in Worker : ~(SaveChanges(w) /\ work[w].req = r)
        BY <3>2, OtherGrants
      <3>3. QED  BY <3>1, <3>2
    <2>2. requests[r].status = "Verified" => requests'[r].status # "Approved"
      BY <1>0, <1>2, StatusStep
    <2>3. QED  BY <2>1, <2>2
  <1>3. QED  BY <1>1, <1>2

LEMMA InitLifecycle == Init => Lifecycle!Init
  <1> SUFFICES ASSUME Init PROVE Lifecycle!Init
    OBVIOUS
  <1>1. \A r \in Request : requests[r].status = "None"
    BY BlankRows DEF Init
  <1>2. \A r \in Request : GrantedOn(r) = {}
    BY DEF Init, GrantedOn
  <1>3. \A r \in Request : Cardinality(GrantedOn(r)) = 0
    BY <1>2, FS_EmptySet
  <1>4. QED  BY <1>1, <1>3 DEF Lifecycle!Init

LEMMA LifecycleStutter ==
  ASSUME DecisionInv, NoOverwrite, NoOverwrite', [Next]_vars, UNCHANGED requests
  PROVE  UNCHANGED Lifecycle!vars
  <1>1. \A r \in Request : GrantedOn(r)' = GrantedOn(r)
    BY GrantCounts
  <1>2. QED  BY <1>1 DEF Lifecycle!vars

(* A step that changes the row of one request is a step of the lifecycle.   *)
LEMMA LifecycleMove ==
  ASSUME DecisionInv, NoOverwrite, NoOverwrite', [Next]_vars, NEW r \in Request,
         \A s \in Request : s # r => requests'[s] = requests[s]
  PROVE  [Lifecycle!Next]_(Lifecycle!vars)
  <1> DEFINE status0 == [s \in Request |-> requests[s].status]
             status1 == [s \in Request |-> requests'[s].status]
             granted0 == [s \in Request |-> Cardinality(GrantedOn(s))]
             granted1 == [s \in Request |-> Cardinality(GrantedOn(s)')]
             Moves(from, to) == /\ requests[r].status \in from
                                /\ requests'[r].status = to
  <1>1. status1 = [status0 EXCEPT ![r] = requests'[r].status]
    OBVIOUS
  <1>2. ASSUME NEW s \in Request, s # r PROVE GrantedOn(s)' = GrantedOn(s)
    BY <1>2, GrantCounts
  <1>3. CASE /\ GrantedOn(r)' = GrantedOn(r)
             /\ requests[r].status = "Verified" => requests'[r].status # "Approved"
    <2>1. \A s \in Request : GrantedOn(s)' = GrantedOn(s)
      BY <1>2, <1>3
    <2>2. granted1 = granted0
      BY <2>1
    <2>3. CASE requests'[r].status = requests[r].status
      <3>1. status1 = status0
        BY <2>3
      <3>2. QED  BY <2>2, <3>1 DEF Lifecycle!vars
    <2>4. ASSUME NEW from, NEW to, Moves(from, to)
          PROVE  Lifecycle!Move(r, from, to) /\ granted1 = granted0
      BY <1>1, <2>2, <2>4 DEF Lifecycle!Move
    <2>5. CASE Moves({"None"}, "Pending")
      BY <2>4, <2>5 DEF Lifecycle!Create, Lifecycle!Next
    <2>6. CASE Moves({"Pending"}, "Verified")
      BY <2>4, <2>6 DEF Lifecycle!Verify, Lifecycle!Next
    <2>7. CASE Moves(Lifecycle!Open, "Denied")
      BY <2>4, <2>7 DEF Lifecycle!Deny, Lifecycle!Next
    <2>8. CASE Moves(Lifecycle!Open \cup {"Approved", "Denied"}, "Expired")
      BY <2>4, <2>8 DEF Lifecycle!Lapse, Lifecycle!Next
    <2>9. CASE Exists(r) /\ requests'[r].status = "Deleted"
      <3>1. Lifecycle!Purge({r})
        BY <1>1, <2>2, <2>9
           DEF Lifecycle!Purge, Lifecycle!Open, Lifecycle!Closed, Exists, Status
      <3>2. QED  BY <3>1 DEF Lifecycle!Next
    <2>10. QED
      BY <1>3, <2>3, <2>5, <2>6, <2>7, <2>8, <2>9, StatusStep
         DEF Lifecycle!Open, Status, NoOverwrite
  <1>4. CASE /\ requests[r].status = "Verified" /\ requests'[r].status = "Approved"
             /\ Cardinality(GrantedOn(r)) = 0 /\ Cardinality(GrantedOn(r)') = 1
    <2>1. granted1 = [granted0 EXCEPT ![r] = granted0[r] + 1]
      <3>1. granted0[r] + 1 = Cardinality(GrantedOn(r)')
        BY <1>4
      <3>2. QED  BY <1>2, <3>1
    <2>2. Lifecycle!Approve(r)
      BY <1>1, <1>4, <2>1 DEF Lifecycle!Approve, Lifecycle!Move
    <2>3. QED  BY <2>2 DEF Lifecycle!Next
  <1>5. QED  BY <1>3, <1>4, GrantCounts

LEMMA LifecycleStep ==
  ASSUME DecisionInv, NoOverwrite, NoOverwrite', [Next]_vars
  PROVE  [Lifecycle!Next]_(Lifecycle!vars)
  <1>0. TypeOK
    BY DecisionParts
  <1>1. CASE RetentionSweep
    <2> DEFINE old == {r \in Request : Exists(r) /\ PastRetention(r)}
    <2>1. requests' = [r \in Request |-> IF r \in old THEN DeletedRow ELSE requests[r]]
      BY <1>1 DEF RetentionSweep, DeletedRow
    <2>2. \A r \in Request : GrantedOn(r)' = GrantedOn(r)
      BY <1>1 DEF RetentionSweep, GrantedOn
    <2>3. PICK S \in SUBSET Request : S = old
      OBVIOUS
    <2>4. /\ \A r \in Request : requests'[r].status = IF r \in S THEN "Deleted" ELSE requests[r].status
          /\ \A r \in S : r \in Request /\ requests[r].status \in Status
      BY <2>1, <2>3, BlankRows DEF Exists
    <2>5. Lifecycle!Purge(S)
      BY <2>2, <2>4 DEF Lifecycle!Purge, Lifecycle!Open, Lifecycle!Closed, Status
    <2>6. QED  BY <2>5 DEF Lifecycle!Next
  <1>2. ASSUME NEW r \in Request, CreateRequest(r) \/ Erase(r) \/ CooldownEnds(r)
        PROVE  [Lifecycle!Next]_(Lifecycle!vars)
    <2>1. \A s \in Request : s # r => requests'[s] = requests[s]
      BY <1>0, <1>2 DEF CreateRequest, Erase, CooldownEnds, TypeOK
    <2>2. QED  BY <2>1, LifecycleMove
  <1>3. ASSUME NEW w \in Worker, SaveChanges(w)
        PROVE  [Lifecycle!Next]_(Lifecycle!vars)
    <2>1. \A s \in Request : s # work[w].req => requests'[s] = requests[s]
      BY <1>0, <1>3 DEF SaveChanges, TypeOK
    <2>2. work[w].req \in Request
      BY <1>3, DecisionSave
    <2>3. QED  BY <2>1, <2>2, LifecycleMove
  <1>4. CASE UNCHANGED requests
    BY <1>4, LifecycleStutter
  <1>5. CASE Tick \/ Crash \/ (\E e \in Candidate : EraseCandidate(e)) \/ UNCHANGED vars
    BY <1>4, <1>5 DEF Tick, Crash, EraseCandidate, vars
  <1>6. ASSUME NEW w \in Worker, Arrive(w) PROVE requests' = requests
    BY <1>0, <1>6, ArriveStep DEF Load
  <1>7. ASSUME NEW w \in Worker, Decide(w) PROVE requests' = requests
    BY <1>0, <1>7, DecideStep
  <1>8. ASSUME NEW w \in Worker, SaveFails(w) \/ EmitAudit(w) \/ KeyRotationFlush(w)
        PROVE  requests' = requests
    BY <1>8 DEF SaveFails, EmitAudit, KeyRotationFlush
  <1>9. QED
    BY <1>1, <1>2, <1>3, <1>4, <1>5, <1>6, <1>7, <1>8 DEF Next, Proceed, Decide

(* As long as no save lands on a changed row, the pages, the API, the sweep *)
(* and the erasures are the abstract lifecycle, however handlers overlap:   *)
(* verified before approved, one consent granted in the step that approves, *)
(* and a closed request never opened again.                                 *)
THEOREM LifecycleImplemented == Spec /\ []NoOverwrite => ImplementsLifecycle
  <1>1. QED
    BY InitLifecycle, LifecycleStep, DecisionInvariant, PTL
       DEF Spec, ImplementsLifecycle, Lifecycle!Spec

=============================================================================
