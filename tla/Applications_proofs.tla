------------------------ MODULE Applications_proofs ------------------------
(***************************************************************************)
(* The gateway's record of a submission agrees with the board's answer and *)
(* with the audit trail, for any number of submissions, consents and any   *)
(* limit of the feed.  The invariant says, for every stage of a handler,   *)
(* what the row, the exchange and the trail are by then.                   *)
(***************************************************************************)
EXTENDS Applications, FiniteSetTheorems, SequenceTheorems, TLAPS

Board == INSTANCE ApplicationFeed_proofs WITH Entry <- Application, Limit <- FeedLimit

(* A row whose handler has saved no outcome; one whose outcome is s. *)
Open(a) == apps[a].status \in {"Pending", "Deleted"}
Has(a, s) == apps[a].status \in {s, "Deleted"}

NotInserted(a) == apps[a].status = "None" /\ trail[a] = {}

(* What a handler has left behind when it failed before reporting it. *)
Doubt(a) == trail[a] = FullTrail(calls[a]) \ {"failed"}

Refusal(a) == calls[a] \in Answer \ {"receipt"}

(* What holds at each stage. *)
Before(a) ==
    stage[a] \in {"out", "admitting", "inserting"} => NotInserted(a) /\ calls[a] = "none"

Calling(a) ==
    /\ stage[a] = "created" => Open(a) /\ trail[a] = {} /\ calls[a] = "none"
    /\ stage[a] = "calling" => Open(a) /\ trail[a] = {"created"} /\ calls[a] = "none"
    /\ stage[a] = "waiting" => Open(a) /\ trail[a] = {"created"} /\ calls[a] # "none"

Accepting(a) ==
    /\ stage[a] \in {"accepting", "accepted"}
         => trail[a] = {"created"} /\ calls[a] = "receipt"
    /\ stage[a] = "accepting" => Open(a)
    /\ stage[a] \in {"accepted", "verified"} => Has(a, "Accepted")
    /\ stage[a] = "verified" => trail[a] = {"created", "accepted"} /\ calls[a] = "receipt"

Failing(a) ==
    /\ stage[a] = "receipt_missing"
         => Open(a) /\ trail[a] = {"created"} /\ calls[a] = "missing"
    /\ stage[a] = "verification_failed"
         => Open(a) /\ trail[a] = {"created"} /\ calls[a] = "unverified"
    /\ stage[a] = "failing" => Open(a) /\ Doubt(a) /\ Refusal(a)
    /\ stage[a] = "failed" => Has(a, "Failed") /\ Doubt(a) /\ Refusal(a)

After(a) ==
    stage[a] = "ended" =>
        \/ a \in cut /\ apps[a].status # "None"
        \/ NotInserted(a)
        \/ Has(a, "Accepted") /\ calls[a] = "receipt" /\ trail[a] = FullTrail("receipt")
        \/ Has(a, "Failed") /\ Refusal(a) /\ trail[a] = FullTrail(calls[a])

(* What holds at every stage. *)
Always(a) ==
    /\ calls[a] = "receipt" => adder[a] = "done"
    /\ apps[a].status = "Accepted" => calls[a] = "receipt"
    /\ apps[a].status = "Failed" => Refusal(a)
    /\ Exists(a) /\ "accepted" \in trail[a] => apps[a].status = "Accepted"
    /\ Exists(a) /\ "failed" \in trail[a] => apps[a].status = "Failed"
    /\ a \in late => /\ consents[ConsentOf[a]] # "live"
                     /\ stage[a] \in {"admitting", "ended"}
                     /\ apps[a].status = "None"

Consistent(a) ==
    Before(a) /\ Calling(a) /\ Accepting(a) /\ Failing(a) /\ After(a) /\ Always(a)

RowsOK ==
    /\ consents \in [Consent -> {"live", "dead", "gone"}]
    /\ apps \in [Application -> Row]
    /\ trail \in [Application -> SUBSET Event]
    /\ calls \in [Application -> {"none", "sent", "taken", "lost"} \cup Answer]
    /\ stage \in [Application -> Stage]
    /\ late \subseteq Application
    /\ cut \subseteq Application
    /\ adder \in [Application -> {"out", "testing", "removing", "done"}]

AppInv == RowsOK /\ \A a \in Application : Consistent(a)

-----------------------------------------------------------------------------
(* The trails by answer, and that the constants of the model are different. *)
LEMMA Trails ==
    /\ FullTrail("receipt") = {"created", "accepted", "verified"}
    /\ FullTrail("unverified") = {"created", "verification_failed", "failed"}
    /\ FullTrail("missing") = {"created", "receipt_missing", "failed"}
    /\ FullTrail("error") = {"created", "failed"}
  BY DEF FullTrail

(* Where events and answers lead. *)
LEMMA Branches ==
    /\ \A e \in Event : AfterEvent[e] \in Stage
    /\ \A x \in Answer : Reading[x] \in Stage
  BY DEF Event, Answer, AfterEvent, Reading, Stage, Running

LEMMA RowsStart == Init => AppInv
  BY ApplicationConstants
     DEF Init, Feed!Init, AppInv, RowsOK, Row, Stage, Running, Consistent, Before, Calling,
         Accepting, Failing, After, Always, NotInserted, Exists, Status

(* Types: each kind of step by itself. *)
LEMMA RowsStep == RowsOK /\ [Next]_vars => RowsOK'
<1> SUFFICES ASSUME RowsOK, [Next]_vars PROVE RowsOK'
  OBVIOUS
<1>1. CASE RetentionSweep
  BY <1>1 DEF RetentionSweep, RowsOK, Row, board
<1>2. CASE BoardRestarts
  BY <1>2 DEF BoardRestarts, RowsOK, Feed!Restart
<1>3. ASSUME NEW c \in Consent, Revoke(c) \/ Erase(c) PROVE RowsOK'
  BY <1>3 DEF Revoke, Erase, RowsOK, Row, board
<1>4. ASSUME NEW a \in Application, Age(a) \/ Arrive(a) PROVE RowsOK'
  <2>1. CASE Age(a)
    BY <2>1 DEF Age, RowsOK, Row, board
  <2>2. CASE Arrive(a)
    <3>1. stage' \in [Application -> Stage]
      BY <2>2 DEF Arrive, Step, RowsOK, Stage
    <3>2. late' \subseteq Application
      BY <2>2 DEF Arrive, RowsOK
    <3> QED
      BY <2>2, <3>1, <3>2 DEF Arrive, RowsOK, board
  <2> QED
    BY <1>4, <2>1, <2>2
<1>5. ASSUME NEW a \in Application, Admit(a) \/ Refuse(a) \/ Insert(a) PROVE RowsOK'
  <2>1. stage' \in [Application -> Stage]
    BY <1>5 DEF Admit, Refuse, Insert, Step, RowsOK, Stage, Running, Event
  <2>2. apps' \in [Application -> Row]
    BY <1>5 DEF Admit, Refuse, Insert, RowsOK, Row, Status
  <2> QED
    BY <1>5, <2>1, <2>2 DEF Admit, Refuse, Insert, RowsOK, board
<1>6. ASSUME NEW a \in Application, Emit(a) PROVE RowsOK'
  <2>1. stage' \in [Application -> Stage]
    BY <1>6, Branches DEF Emit, Step, RowsOK
  <2>2. trail' \in [Application -> SUBSET Event]
    BY <1>6 DEF Emit, RowsOK
  <2> QED
    BY <1>6, <2>1, <2>2 DEF Emit, RowsOK, board
<1>7. ASSUME NEW a \in Application, CallBoard(a) \/ ReadAnswer(a) PROVE RowsOK'
  <2>1. CASE CallBoard(a)
    BY <2>1 DEF CallBoard, Step, RowsOK, Stage, Running, board
  <2>2. CASE ReadAnswer(a)
    BY <2>2, Branches DEF ReadAnswer, Step, RowsOK, board
  <2> QED
    BY <1>7, <2>1, <2>2
<1>8. ASSUME NEW a \in Application, SaveAccepted(a) \/ SaveFailed(a) PROVE RowsOK'
  <2>1. stage' \in [Application -> Stage]
    BY <1>8 DEF SaveAccepted, SaveFailed, Step, RowsOK, Stage, Running, Event
  <2>2. apps' \in [Application -> Row]
    BY <1>8 DEF SaveAccepted, SaveFailed, RowsOK, Row, Status
  <2> QED
    BY <1>8, <2>1, <2>2 DEF SaveAccepted, SaveFailed, RowsOK, board
<1>9. ASSUME NEW a \in Application, CallFails(a) \/ SaveFails(a) \/ Interrupt(a)
      PROVE  RowsOK'
  BY <1>9 DEF CallFails, SaveFails, Interrupt, CutOff, Step, RowsOK, Stage, board
<1>10. ASSUME NEW a \in Application, BoardSteps(a) PROVE RowsOK'
  BY <1>10 DEF BoardSteps, BoardTakes, BoardRejects, BoardTrims, BoardAnswers, Exchange,
               RowsOK, Answer, board, Feed!Enqueue, Feed!TestCount, Feed!TryDequeue,
               Feed!Move
<1>11. CASE UNCHANGED vars
  BY <1>11 DEF vars, RowsOK, board
<1> QED
  BY <1>1, <1>2, <1>3, <1>4, <1>5, <1>6, <1>7, <1>8, <1>9, <1>10, <1>11
     DEF Next, Handle

-----------------------------------------------------------------------------
(* What an action leaves alone: an application whose own state stays and    *)
(* whose consent does not come back stays consistent.                       *)
Same(b) ==
    /\ apps'[b] = apps[b] /\ trail'[b] = trail[b] /\ calls'[b] = calls[b]
    /\ stage'[b] = stage[b]
    /\ b \in late' => b \in late
    /\ b \in cut => b \in cut'
    /\ adder[b] = "done" => adder'[b] = "done"
    /\ consents[ConsentOf[b]] # "live" => consents'[ConsentOf[b]] # "live"

LEMMA SameStays ==
    ASSUME NEW b \in Application, Consistent(b), Same(b)
    PROVE  Consistent(b)'
  BY DEF Same, Consistent, Before, Calling, Accepting, Failing, After, Always,
         NotInserted, Open, Has, Doubt, Refusal, Exists

(* Each step of the handler of a: the others stay as they are, and a is as  *)
(* its next stage says.                                                     *)
LEMMA AdmissionKeeps ==
    ASSUME AppInv, NEW a \in Application,
           Arrive(a) \/ Admit(a) \/ Refuse(a) \/ Insert(a)
    PROVE  \A b \in Application : Consistent(b)'
<1> SUFFICES ASSUME NEW b \in Application PROVE Consistent(b)'
  OBVIOUS
<1>1. Consistent(b) /\ RowsOK
  BY DEF AppInv
<1>2. CASE b # a
  <2>1. Same(b)
    BY <1>1, <1>2 DEF Same, RowsOK, Arrive, Admit, Refuse, Insert, Step, board
  <2> QED
    BY <1>1, <2>1, SameStays
<1>3. CASE b = a
  <2> USE DEF Consistent, Before, Calling, Accepting, Failing, After, Always,
              NotInserted, Open, Has, Doubt, Refusal, Exists, Status, Answer
  <2>1. CASE Arrive(a)
    BY <1>1, <1>3, <2>1 DEF Arrive, Step, board, RowsOK
  <2>2. CASE Admit(a)
    BY <1>1, <1>3, <2>2 DEF Admit, Admissible, Step, board, RowsOK
  <2>3. CASE Refuse(a)
    BY <1>1, <1>3, <2>3 DEF Refuse, Step, board, RowsOK
  <2>4. CASE Insert(a)
    BY <1>1, <1>3, <2>4 DEF Insert, Step, board, RowsOK, Row
  <2> QED
    BY <2>1, <2>2, <2>3, <2>4
<1> QED
  BY <1>2, <1>3

LEMMA CallKeeps ==
    ASSUME AppInv, NEW a \in Application,
           CallBoard(a) \/ ReadAnswer(a)
    PROVE  \A b \in Application : Consistent(b)'
<1> SUFFICES ASSUME NEW b \in Application PROVE Consistent(b)'
  OBVIOUS
<1>1. Consistent(b) /\ RowsOK
  BY DEF AppInv
<1>2. CASE b # a
  <2>1. Same(b)
    BY <1>1, <1>2 DEF Same, RowsOK, CallBoard, ReadAnswer, Step, board
  <2> QED
    BY <1>1, <2>1, SameStays
<1>3. CASE b = a
  <2> USE DEF Consistent, Before, Calling, Accepting, Failing, After, Always,
              NotInserted, Open, Has, Doubt, Refusal, Exists, Status, Answer
  <2>1. CASE CallBoard(a)
    BY <1>1, <1>3, <2>1 DEF CallBoard, Step, board, RowsOK
  <2>2. CASE ReadAnswer(a)
    BY <1>1, <1>3, <2>2, Trails DEF ReadAnswer, Reading, Step, board, RowsOK
  <2> QED
    BY <2>1, <2>2
<1> QED
  BY <1>2, <1>3

LEMMA SaveKeeps ==
    ASSUME AppInv, NEW a \in Application,
           SaveAccepted(a) \/ SaveFailed(a)
    PROVE  \A b \in Application : Consistent(b)'
<1> SUFFICES ASSUME NEW b \in Application PROVE Consistent(b)'
  OBVIOUS
<1>1. Consistent(b) /\ RowsOK
  BY DEF AppInv
<1>2. CASE b # a
  <2>1. Same(b)
    BY <1>1, <1>2 DEF Same, RowsOK, SaveAccepted, SaveFailed, Step, board
  <2> QED
    BY <1>1, <2>1, SameStays
<1>3. CASE b = a
  <2> USE DEF Consistent, Before, Calling, Accepting, Failing, After, Always,
              NotInserted, Open, Has, Doubt, Refusal, Exists, Status, Answer
  <2>1. CASE SaveAccepted(a)
    BY <1>1, <1>3, <2>1 DEF SaveAccepted, Step, board, RowsOK
  <2>2. CASE SaveFailed(a)
    BY <1>1, <1>3, <2>2 DEF SaveFailed, Step, board, RowsOK
  <2> QED
    BY <2>1, <2>2
<1> QED
  BY <1>2, <1>3

(* A handler that is cut off leaves a row behind. *)
LEMMA CutKeeps ==
    ASSUME AppInv, NEW a \in Application,
           CallFails(a) \/ SaveFails(a) \/ Interrupt(a)
    PROVE  \A b \in Application : Consistent(b)'
<1> SUFFICES ASSUME NEW b \in Application PROVE Consistent(b)'
  OBVIOUS
<1>1. Consistent(b) /\ RowsOK
  BY DEF AppInv
<1>2. CASE b # a
  <2>1. Same(b)
    BY <1>1, <1>2 DEF Same, RowsOK, CallFails, SaveFails, Interrupt, CutOff, Step, board
  <2> QED
    BY <1>1, <2>1, SameStays
<1>3. CASE b = a
  <2> USE DEF Consistent, Before, Calling, Accepting, Failing, After, Always,
              NotInserted, Open, Has, Doubt, Refusal, Exists, Status, Answer
  <2>1. CASE CallFails(a)
    BY <1>1, <1>3, <2>1 DEF CallFails, CutOff, Step, board, RowsOK
  <2>2. CASE SaveFails(a)
    BY <1>1, <1>3, <2>2 DEF SaveFails, CutOff, Step, board, RowsOK
  <2>3. CASE Interrupt(a)
    BY <1>1, <1>3, <2>3 DEF Interrupt, CutOff, Step, Running, Event, board, RowsOK
  <2> QED
    BY <2>1, <2>2, <2>3
<1> QED
  BY <1>2, <1>3

(* The board moves the exchange forward, and only from an open call. *)
LEMMA BoardKeeps ==
    ASSUME AppInv, NEW a \in Application,
           BoardTakes(a) \/ BoardRejects(a) \/ BoardTrims(a) \/ BoardAnswers(a)
    PROVE  \A b \in Application : Consistent(b)'
<1> SUFFICES ASSUME NEW b \in Application PROVE Consistent(b)'
  OBVIOUS
<1>1. Consistent(b) /\ RowsOK
  BY DEF AppInv
<1>2. CASE b # a
  <2>1. Same(b)
    BY <1>1, <1>2 DEF Same, RowsOK, BoardTakes, BoardRejects, BoardTrims,
       BoardAnswers, Exchange, board, Feed!Enqueue, Feed!TestCount, Feed!TryDequeue, Feed!Move
  <2> QED
    BY <1>1, <2>1, SameStays
<1>3. CASE b = a
  <2> USE DEF Consistent, Before, Calling, Accepting, Failing, After, Always,
              NotInserted, Open, Has, Doubt, Refusal, Exists, Status, Answer
  <2>1. CASE BoardTakes(a)
    BY <1>1, <1>3, <2>1 DEF BoardTakes, Exchange, Feed!Enqueue, Feed!Move, board, RowsOK
  <2>2. CASE BoardRejects(a)
    BY <1>1, <1>3, <2>2 DEF BoardRejects, Exchange, board, RowsOK
  <2>3. CASE BoardTrims(a)
    BY <1>1, <1>3, <2>3 DEF BoardTrims, Feed!TestCount, Feed!TryDequeue,
       Feed!Move, board, RowsOK
  <2>4. CASE BoardAnswers(a)
    BY <1>1, <1>3, <2>4 DEF BoardAnswers, Exchange, board, RowsOK
  <2> QED
    BY <2>1, <2>2, <2>3, <2>4
<1> QED
  BY <1>2, <1>3

LEMMA EmitKeeps ==
    ASSUME AppInv, NEW a \in Application, Emit(a)
    PROVE  \A b \in Application : Consistent(b)'
<1> SUFFICES ASSUME NEW b \in Application PROVE Consistent(b)'
  OBVIOUS
<1>1. Consistent(b) /\ RowsOK
  BY DEF AppInv
<1>2. CASE b # a
  <2>1. Same(b)
    BY <1>1, <1>2 DEF Same, RowsOK, Emit, Step, board
  <2> QED
    BY <1>1, <2>1, SameStays
<1>3. CASE b = a
  <2>1. /\ trail'[a] = trail[a] \cup {stage[a]} /\ stage'[a] = AfterEvent[stage[a]]
        /\ UNCHANGED <<consents, apps, calls, late, cut, adder>>
        /\ stage[a] \in Event
    BY <1>1 DEF RowsOK, Emit, Step, board
  <2>2. CASE stage[a] \in {"created", "accepted"}
    BY <1>1, <1>3, <2>1, <2>2 DEF AfterEvent, Consistent, Before, Calling, Accepting,
       Failing, After, Always, NotInserted, Open, Has, Doubt, Refusal, Exists, Status
  <2>3. CASE stage[a] = "verified"
    BY <1>1, <1>3, <2>1, <2>3, Trails DEF AfterEvent, Consistent, Before, Calling,
       Accepting, Failing, After, Always, NotInserted, Has, Refusal, Exists, Status
  <2>4. CASE stage[a] \in {"receipt_missing", "verification_failed"}
    BY <1>1, <1>3, <2>1, <2>4, Trails DEF AfterEvent, Consistent, Before, Calling,
       Accepting, Failing, After, Always, NotInserted, Open, Has, Doubt, Refusal,
       Exists, Status, Answer
  <2>5. CASE stage[a] = "failed"
    <3>1. calls[a] \in {"unverified", "missing", "error"}
      BY <1>1, <1>3, <2>5 DEF Consistent, Failing, Refusal, Answer
    <3>2. trail'[a] = FullTrail(calls[a])
      BY <1>1, <1>3, <2>1, <2>5, <3>1, Trails DEF Consistent, Failing, Doubt
    <3>3. "accepted" \notin trail'[a]
      BY <3>1, <3>2, Trails
    <3> QED
      BY <1>1, <1>3, <2>1, <2>5, <3>1, <3>2, <3>3
         DEF AfterEvent, Consistent, Before, Calling, Accepting, Failing, After, Always,
             NotInserted, Has, Doubt, Refusal, Exists, Status, Answer
  <2> QED
    BY <2>1, <2>2, <2>3, <2>4, <2>5 DEF Event
<1> QED
  BY <1>2, <1>3

(* Erasure deletes rows under running handlers; the rest of the tables'     *)
(* own steps touch no status.                                               *)
LEMMA TablesKeep ==
    ASSUME AppInv,
           \/ RetentionSweep
           \/ \E c \in Consent : Revoke(c) \/ Erase(c)
           \/ \E a \in Application : Age(a)
    PROVE  \A b \in Application : Consistent(b)'
<1> SUFFICES ASSUME NEW b \in Application PROVE Consistent(b)'
  OBVIOUS
<1>1. Consistent(b) /\ RowsOK
  BY DEF AppInv
<1> DEFINE Quiet == /\ UNCHANGED <<trail, calls, stage, late, cut, adder>>
                    /\ apps'[b].status \in {apps[b].status, "Deleted"}
                    /\ apps[b].status = "None" => apps'[b].status = "None"
                    /\ consents[ConsentOf[b]] # "live" => consents'[ConsentOf[b]] # "live"
<1>2. CASE RetentionSweep
  <2>1. Quiet
    BY <1>1, <1>2 DEF RetentionSweep, RowsOK, Row, board
  <2> QED
    BY <1>1, <2>1 DEF Consistent, Before, Calling, Accepting, Failing, After, Always,
       NotInserted, Open, Has, Doubt, Refusal, Exists, Status
<1>3. ASSUME NEW c \in Consent, Revoke(c) PROVE Consistent(b)'
  <2>1. Quiet
    BY <1>1, <1>3, ApplicationConstants DEF Revoke, RowsOK, board
  <2> QED
    BY <1>1, <2>1 DEF Consistent, Before, Calling, Accepting, Failing, After, Always,
       NotInserted, Open, Has, Doubt, Refusal, Exists, Status
<1>4. ASSUME NEW c \in Consent, Erase(c) PROVE Consistent(b)'
  <2>1. Quiet
    BY <1>1, <1>4, ApplicationConstants DEF Erase, RowsOK, Row, Exists, Status, board
  <2> QED
    BY <1>1, <2>1 DEF Consistent, Before, Calling, Accepting, Failing, After, Always,
       NotInserted, Open, Has, Doubt, Refusal, Exists, Status
<1>5. ASSUME NEW a \in Application, Age(a) PROVE Consistent(b)'
  <2>1. Quiet
    BY <1>1, <1>5 DEF Age, RowsOK, Row, board
  <2> QED
    BY <1>1, <2>1 DEF Consistent, Before, Calling, Accepting, Failing, After, Always,
       NotInserted, Open, Has, Doubt, Refusal, Exists, Status
<1> QED
  BY <1>2, <1>3, <1>4, <1>5

(* A restart of the board ends the calls under way and no other. *)
LEMMA RestartKeeps ==
    ASSUME AppInv, BoardRestarts
    PROVE  \A b \in Application : Consistent(b)'
<1> SUFFICES ASSUME NEW b \in Application PROVE Consistent(b)'
  OBVIOUS
<1>1. Consistent(b) /\ RowsOK
  BY DEF AppInv
<1>2. /\ UNCHANGED <<consents, apps, trail, stage, late, cut>>
      /\ calls'[b] = IF calls[b] \in {"sent", "taken"} THEN "lost" ELSE calls[b]
      /\ adder[b] = "done" => adder'[b] = "done"
  BY <1>1 DEF BoardRestarts, Feed!Restart, RowsOK
<1> QED
  BY <1>1, <1>2 DEF Consistent, Before, Calling, Accepting, Failing, After, Always,
     NotInserted, Open, Has, Doubt, Refusal, Exists, Status, Answer

LEMMA AppStep == AppInv /\ [Next]_vars => AppInv'
<1> SUFFICES ASSUME AppInv, [Next]_vars PROVE AppInv'
  OBVIOUS
<1>1. RowsOK'
  BY RowsStep DEF AppInv
<1>2. \A b \in Application : Consistent(b)'
  <2>1. ASSUME NEW a \in Application, Handle(a) \/ Arrive(a) \/ Interrupt(a)
        PROVE  \A b \in Application : Consistent(b)'
    BY <2>1, AdmissionKeeps, CallKeeps, SaveKeeps, CutKeeps, EmitKeeps DEF Handle
  <2>2. ASSUME NEW a \in Application, BoardSteps(a)
        PROVE  \A b \in Application : Consistent(b)'
    BY <2>2, BoardKeeps DEF BoardSteps
  <2>3. CASE UNCHANGED vars
    <3> SUFFICES ASSUME NEW b \in Application PROVE Consistent(b)'
      OBVIOUS
    <3>1. Consistent(b) /\ Same(b)
      BY <2>3 DEF AppInv, Same, vars, board
    <3> QED
      BY <3>1, SameStays
  <2> QED
    BY <2>1, <2>2, <2>3, TablesKeep, RestartKeeps DEF Next
<1> QED
  BY <1>1, <1>2 DEF AppInv

THEOREM AppInvariant == Spec => []AppInv
<1> QED
  BY RowsStart, AppStep, PTL DEF Spec

(* Accepted and Failed are what the board's answer says, whatever was       *)
(* restarted, timed out or erased meanwhile.                                *)
THEOREM OutcomesAreAnswers == Spec => []OutcomeMatchesAnswer
<1>1. AppInv => OutcomeMatchesAnswer
  BY DEF AppInv, Consistent, Always, Refusal, OutcomeMatchesAnswer
<1> QED
  BY <1>1, AppInvariant, PTL

(* The audit trail tells the outcome in the row, and all of it when the     *)
(* handler was not cut off.                                                 *)
THEOREM TrailIsTrue == Spec => []TrailFollowsOutcome
<1>1. ASSUME AppInv PROVE TrailFollowsOutcome
  <2> SUFFICES ASSUME NEW a \in Application, Exists(a), stage[a] = "ended", a \notin cut
               PROVE  trail[a] = FullTrail(calls[a])
    BY <1>1 DEF AppInv, Consistent, Always, TrailFollowsOutcome
  <2> QED
    BY <1>1 DEF AppInv, Consistent, After, NotInserted, Exists, Status
<1> QED
  BY <1>1, AppInvariant, PTL

(* No application is inserted for a request that arrived after the          *)
(* revocation.                                                              *)
THEOREM RevocationHolds == Spec => []RevocationStopsNewApplies
<1>1. AppInv => RevocationStopsNewApplies
  BY DEF AppInv, RowsOK, Consistent, Always, RevocationStopsNewApplies
<1> QED
  BY <1>1, AppInvariant, PTL

-----------------------------------------------------------------------------
(* The board under the gateway's calls is the feed by itself.               *)
(* It has its own copy of the operators on finite sets.                     *)
LEMMA SameFinite == \A S : Board!IsFiniteSet(S) <=> IsFiniteSet(S)
  BY DEF Board!IsFiniteSet, IsFiniteSet

LEMMA SameCount == \A S : Board!Cardinality(S) = Feed!Cardinality(S)
  BY DEF Board!Cardinality, Feed!Cardinality

LEMMA BoardConstants == Board!FeedConstants
  BY SameFinite, ApplicationConstants DEF Board!FeedConstants

LEMMA BoardStep == [Next]_vars => [Board!Next]_(Board!vars)
<1> SUFFICES ASSUME [Next]_vars PROVE [Board!Next]_(Board!vars)
  OBVIOUS
<1> USE DEF board, Board!vars
<1>1. CASE BoardRestarts
  BY <1>1 DEF BoardRestarts, Feed!Restart, Board!Restart, Board!Next, Feed!Inside,
              Board!Inside
<1>2. ASSUME NEW a \in Application, BoardSteps(a) PROVE [Board!Next]_(Board!vars)
  <2>1. CASE BoardTakes(a)
    BY <2>1, SameCount DEF BoardTakes, Feed!Enqueue, Board!Enqueue, Feed!Move, Board!Move,
                Feed!Inside, Board!Inside, Board!Next
  <2>2. CASE BoardTrims(a)
    BY <2>2 DEF BoardTrims, Feed!TestCount, Feed!TryDequeue, Feed!Move, Feed!TooMany,
                Board!TestCount, Board!TryDequeue, Board!Move, Board!TooMany, Board!Next
  <2>3. CASE BoardRejects(a) \/ BoardAnswers(a)
    BY <2>3 DEF BoardRejects, BoardAnswers
  <2> QED
    BY <1>2, <2>1, <2>2, <2>3 DEF BoardSteps
<1>3. ASSUME NEW a \in Application, Arrive(a) \/ Handle(a) \/ Interrupt(a) \/ Age(a)
      PROVE  UNCHANGED Board!vars
  BY <1>3 DEF Arrive, Handle, Interrupt, Age, Admit, Refuse, Insert, Emit, CallBoard,
     ReadAnswer, CallFails, SaveAccepted, SaveFailed, SaveFails, CutOff
<1>4. CASE RetentionSweep \/ \E c \in Consent : Revoke(c) \/ Erase(c)
  BY <1>4 DEF RetentionSweep, Revoke, Erase
<1>5. CASE UNCHANGED vars
  BY <1>5 DEF vars
<1> QED
  BY <1>1, <1>2, <1>3, <1>4, <1>5 DEF Next

LEMMA BoardStart == Init => Board!Init
  BY DEF Init, Feed!Init, Board!Init

THEOREM BoardInvariant == Spec => []Board!FeedInv
<1>1. Init => Board!FeedInv
  BY BoardStart, Board!FeedStarts, BoardConstants
<1>2. Board!FeedInv /\ [Next]_vars => Board!FeedInv'
  BY BoardStep, Board!FeedStep, BoardConstants
<1> QED
  BY <1>1, <1>2, PTL DEF Spec

LEMMA BoardPromises == Board!FeedInv => FeedKeepsLatest /\ FeedShortfall
  BY Board!Enough, BoardConstants, SameCount
     DEF Board!FeedInv, Board!FeedInOrder, Board!FeedBounded, Board!FeedShortfall,
         Board!Inside, Board!Latest, FeedKeepsLatest, FeedShortfall,
         Feed!FeedInOrder, Feed!FeedBounded, Feed!FeedShortfall, Feed!Inside, Feed!Latest

(* The gateway may call, give up and call again, the board restart: what it *)
(* lists are its latest arrivals in order, more than the limit by at most   *)
(* one for each call of Add under way.                                      *)
THEOREM FeedPromises == Spec => []FeedKeepsLatest
  BY BoardPromises, BoardInvariant, PTL

(* A list that adders have trimmed falls short of the limit by fewer        *)
(* entries than there were adders at once inside Add.                       *)
THEOREM FeedFallsShort == Spec => []FeedShortfall
  BY BoardPromises, BoardInvariant, PTL

(* Every state is type-correct.                                             *)
THEOREM TypeCorrect == Spec => []TypeOK
<1>1. AppInv /\ Board!FeedInv => TypeOK
  BY SameCount DEF AppInv, RowsOK, Board!FeedInv, Board!FeedTypeOK, TypeOK, Feed!FeedTypeOK
<1> QED
  BY <1>1, AppInvariant, BoardInvariant, PTL
=============================================================================
