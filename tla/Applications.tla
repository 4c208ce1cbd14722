---------------------------- MODULE Applications ----------------------------
(***************************************************************************)
(* Submissions (POST /v1/applications): the gateway admits the token,      *)
(* inserts the application, calls the board and records what the board     *)
(* answered; and the board that lists what it receives (ApplicationFeed).  *)
(*                                                                         *)
(* Every submission has a handler of its own, named by the id the          *)
(* application will have.  Each step of a handler ends with one await: a   *)
(* read, a SaveChangesAsync, an audit event or the call to the board.      *)
(* Between two steps other submissions run, consents are revoked or        *)
(* erased, receipts expire, the board restarts, and the handler may end:   *)
(* no step after the insertion is inside a try block or repeated.  How a   *)
(* token is checked is the subject of ConsentTokens; here a submission is  *)
(* admitted on a consent that is live when it is read, or refused.         *)
(***************************************************************************)
EXTENDS Integers, Sequences, FiniteSets

CONSTANTS
    Consent,     \* ids of consents, issued before
    Application, \* ids submissions draw (Guid.NewGuid)
    ConsentOf,   \* the consent whose token a submission presents
    FeedLimit    \* entries the board lists

ASSUME ApplicationConstants ==
    /\ ConsentOf \in [Application -> Consent]
    /\ IsFiniteSet(Application)
    /\ FeedLimit \in Nat

VARIABLES
    consents,   \* table Consents: live, dead (revoked or expired), gone
    apps,       \* table Applications
    trail,      \* audit events of each application
    calls,      \* the exchange with the board about each application
    stage,      \* where the handler of each submission is
    late,       \* observation: submissions that arrived on a consent not live
    cut,        \* observation: applications whose handler did not finish
    \* the board's list
    queue, adder, arrivals, crowd

Feed == INSTANCE ApplicationFeed WITH Entry <- Application, Limit <- FeedLimit

board == <<queue, adder, arrivals, crowd>>
vars == <<consents, apps, trail, calls, stage, late, cut, board>>

-----------------------------------------------------------------------------
(* Rows, exchanges and handlers.                                           *)

Status == {"Pending", "Accepted", "Failed"}

Row == [status  : Status \cup {"None", "Deleted"},
        receipt : {"none", "stored", "due", "cleared"}]  \* column Receipt; due
                   \* when SubmittedAt is before the cutoff of the retention

(* How a response is read: an envelope whose signature verifies or does     *)
(* not, a success without receipt or signature, any other status code.      *)
Answer == {"receipt", "unverified", "missing", "error"}

Event == {"created", "accepted", "verified", "receipt_missing",
          "verification_failed", "failed"}

(* A stage named as an event is about to emit it. *)
Running == Event \cup {"calling", "waiting", "accepting", "failing"}

Stage == Running \cup {"out", "admitting", "inserting", "ended"}

Exists(a) == apps[a].status \in Status

TypeOK ==
    /\ consents \in [Consent -> {"live", "dead", "gone"}]
    /\ apps \in [Application -> Row]
    /\ trail \in [Application -> SUBSET Event]
    /\ calls \in [Application -> {"none", "sent", "taken", "lost"} \cup Answer]
    /\ stage \in [Application -> Stage]
    /\ late \subseteq Application
    /\ cut \subseteq Application
    /\ Feed!FeedTypeOK

Init ==
    /\ consents = [c \in Consent |-> "live"]
    /\ apps = [a \in Application |-> [status |-> "None", receipt |-> "none"]]
    /\ trail = [a \in Application |-> {}]
    /\ calls = [a \in Application |-> "none"]
    /\ stage = [a \in Application |-> "out"]
    /\ late = {}
    /\ cut = {}
    /\ Feed!Init

-----------------------------------------------------------------------------
(* Consents and receipts end.                                              *)

(* Revocation, or the expiry of the consent. *)
Revoke(c) ==
    /\ consents[c] = "live"
    /\ consents' = [consents EXCEPT ![c] = "dead"]
    /\ UNCHANGED <<apps, trail, calls, stage, late, cut, board>>

(* A data-subject delete; the applications go with their consent. *)
Erase(c) ==
    /\ consents[c] # "gone"
    /\ consents' = [consents EXCEPT ![c] = "gone"]
    /\ apps' = [a \in Application |->
                  IF Exists(a) /\ ConsentOf[a] = c
                  THEN [status |-> "Deleted", receipt |-> "none"] ELSE apps[a]]
    /\ UNCHANGED <<trail, calls, stage, late, cut, board>>

(* A stored receipt passes its retention; a row without one is not looked   *)
(* for, whatever its age.                                                   *)
Age(a) ==
    /\ apps[a].receipt = "stored"
    /\ apps' = [apps EXCEPT ![a].receipt = "due"]
    /\ UNCHANGED <<consents, trail, calls, stage, late, cut, board>>

(* Variant: only receipts of applications that failed are looked for. *)
Due_Failed(a) == apps[a].receipt = "due" /\ apps[a].status = "Failed"

Due(a) == apps[a].receipt = "due"

(* One UPDATE of every row that is due. *)
RetentionSweep ==
    /\ \E a \in Application : Due(a)
    /\ apps' = [a \in Application |->
                  IF Due(a) THEN [apps[a] EXCEPT !.receipt = "cleared"] ELSE apps[a]]
    /\ UNCHANGED <<consents, trail, calls, stage, late, cut, board>>

-----------------------------------------------------------------------------
(* The submission's handler.                                               *)

Step(a, from, to) ==
    /\ stage[a] = from
    /\ stage' = [stage EXCEPT ![a] = to]

Arrive(a) ==
    /\ Step(a, "out", "admitting")
    /\ late' = IF consents[ConsentOf[a]] = "live" THEN late ELSE late \cup {a}
    /\ UNCHANGED <<consents, apps, trail, calls, cut, board>>

(* Variant: the row is found by its token and its status not looked at. *)
Admissible_AnyStatus(c) == consents[c] # "gone"

Admissible(c) == consents[c] = "live"

Admit(a) ==
    /\ Step(a, "admitting", "inserting")
    /\ Admissible(ConsentOf[a])
    /\ UNCHANGED <<consents, apps, trail, calls, late, cut, board>>

(* Refused, for the consent or for anything else in token and signature; or *)
(* the insertion fails, as it does when the consent is gone.  Nothing was   *)
(* written.                                                                 *)
Refuse(a) ==
    /\ Step(a, "admitting", "ended") \/ Step(a, "inserting", "ended")
    /\ UNCHANGED <<consents, apps, trail, calls, late, cut, board>>

Insert(a) ==
    /\ Step(a, "inserting", "created")
    /\ consents[ConsentOf[a]] # "gone"
    /\ apps' = [apps EXCEPT ![a].status = "Pending"]
    /\ UNCHANGED <<consents, trail, calls, late, cut, board>>

(* Variant: the handler returns when the first of two events is emitted. *)
AfterEvent_OneEvent ==
    [created |-> "calling", accepted |-> "ended", verified |-> "ended",
     receipt_missing |-> "failing", verification_failed |-> "failing",
     failed |-> "ended"]

(* What comes after an event: another step, or the end of the handler. *)
AfterEvent ==
    [created |-> "calling", accepted |-> "verified", verified |-> "ended",
     receipt_missing |-> "failing", verification_failed |-> "failing",
     failed |-> "ended"]

Emit(a) ==
    /\ stage[a] \in Event
    /\ Step(a, stage[a], AfterEvent[stage[a]])
    /\ trail' = [trail EXCEPT ![a] = trail[a] \cup {stage[a]}]
    /\ UNCHANGED <<consents, apps, calls, late, cut, board>>

CallBoard(a) ==
    /\ Step(a, "calling", "waiting")
    /\ calls' = [calls EXCEPT ![a] = "sent"]
    /\ UNCHANGED <<consents, apps, trail, late, cut, board>>

(* Variants: only a success is provided for; an envelope with a signature   *)
(* is taken for a receipt.                                                  *)
Reading_NoError ==
    [receipt |-> "accepting", unverified |-> "verification_failed",
     missing |-> "receipt_missing", error |-> "returned"]

Reading_Unverified ==
    [receipt |-> "accepting", unverified |-> "accepting",
     missing |-> "receipt_missing", error |-> "failing"]

Reading ==
    [receipt |-> "accepting", unverified |-> "verification_failed",
     missing |-> "receipt_missing", error |-> "failing"]

ReadAnswer(a) ==
    /\ calls[a] \in Answer
    /\ Step(a, "waiting", Reading[calls[a]])
    /\ UNCHANGED <<consents, apps, trail, calls, late, cut, board>>

(* The outcome is saved, and the event that reports it is next. *)
SaveAccepted(a) ==
    /\ Step(a, "accepting", "accepted")
    /\ Exists(a)
    /\ apps' = [apps EXCEPT ![a] = [status |-> "Accepted", receipt |-> "stored"]]
    /\ UNCHANGED <<consents, trail, calls, late, cut, board>>

SaveFailed(a) ==
    /\ Step(a, "failing", "failed")
    /\ Exists(a)
    /\ apps' = [apps EXCEPT ![a].status = "Failed"]
    /\ UNCHANGED <<consents, trail, calls, late, cut, board>>

CutOff(a, from) ==
    /\ Step(a, from, "ended")
    /\ cut' = cut \cup {a}
    /\ UNCHANGED <<consents, apps, trail, calls, late, board>>

(* The row is gone: the update affects none, and throws. *)
SaveFails(a) ==
    /\ ~Exists(a)
    /\ CutOff(a, "accepting") \/ CutOff(a, "failing")

(* Variant: the client waits for the board without a timeout. *)
CallFails_WhenLost(a) == calls[a] = "lost" /\ CutOff(a, "waiting")

(* The connection breaks, or HttpClient.Timeout passes, whatever the board  *)
(* does with the call: an exception nobody handles.                         *)
CallFails(a) == CutOff(a, "waiting")

(* A save or an audit event fails, or the process ends: what was saved      *)
(* stays, and nothing takes the submission up again.                        *)
Interrupt(a) == \E from \in Running \ {"waiting"} : CutOff(a, from)

-----------------------------------------------------------------------------
(* The board.                                                              *)

Exchange(a, from, to) ==
    /\ calls[a] = from
    /\ calls' = [calls EXCEPT ![a] = to]
    /\ UNCHANGED <<consents, apps, trail, stage, late, cut>>

(* POST /v1/mock/applications adds the application to the feed. *)
BoardTakes(a) == Exchange(a, "sent", "taken") /\ Feed!Enqueue(a)

(* A payload it cannot read ends the call with a 500 before that. *)
BoardRejects(a) == Exchange(a, "sent", "error") /\ UNCHANGED board

BoardTrims(a) ==
    /\ Feed!TestCount(a) \/ Feed!TryDequeue(a)
    /\ UNCHANGED <<consents, apps, trail, calls, stage, late, cut>>

(* The mock board answers with a receipt it signed; whether the gateway can *)
(* verify it depends on the key the board's tenant has published.  The      *)
(* handler is written for boards that answer in any other way, too.         *)
BoardAnswers(a) ==
    /\ adder[a] = "done"
    /\ \E answer \in Answer : Exchange(a, "taken", answer)
    /\ UNCHANGED board

BoardRestarts ==
    /\ calls' = [a \in Application |->
                   IF calls[a] \in {"sent", "taken"} THEN "lost" ELSE calls[a]]
    /\ Feed!Restart
    /\ UNCHANGED <<consents, apps, trail, stage, late, cut>>

-----------------------------------------------------------------------------
Handle(a) ==
    \/ Admit(a) \/ Refuse(a) \/ Insert(a) \/ Emit(a) \/ CallBoard(a) \/ ReadAnswer(a)
    \/ CallFails(a) \/ SaveAccepted(a) \/ SaveFailed(a) \/ SaveFails(a)

BoardSteps(a) == BoardTakes(a) \/ BoardRejects(a) \/ BoardTrims(a) \/ BoardAnswers(a)

Next ==
    \/ RetentionSweep \/ BoardRestarts
    \/ \E c \in Consent : Revoke(c) \/ Erase(c)
    \/ \E a \in Application :
         Age(a) \/ Arrive(a) \/ Handle(a) \/ Interrupt(a) \/ BoardSteps(a)

Spec == Init /\ [][Next]_vars

(* A handler that runs goes on; the timeout of the call is part of that,    *)
(* and nothing is asked of the board.  The sweep comes every SweepHours.    *)
FairSpec ==
    /\ Spec
    /\ \A a \in Application : WF_vars(Handle(a))
    /\ WF_vars(RetentionSweep)

-----------------------------------------------------------------------------
(* Properties.                                                             *)

(* What the gateway records agrees with what the board did, across          *)
(* timeouts, board restarts and erasures: Accepted means that the board     *)
(* has added the application to its feed and answered with a receipt that   *)
(* verifies, Failed that its answer was something else.                     *)
OutcomeMatchesAnswer ==
    \A a \in Application :
        /\ apps[a].status = "Accepted" => calls[a] = "receipt" /\ adder[a] = "done"
        /\ apps[a].status = "Failed" => calls[a] \in Answer \ {"receipt"}

(* The events a complete handler leaves, by what the board answered. *)
FullTrail(answer) ==
    CASE answer = "receipt"    -> {"created", "accepted", "verified"}
      [] answer = "unverified" -> {"created", "verification_failed", "failed"}
      [] answer = "missing"    -> {"created", "receipt_missing", "failed"}
      [] OTHER                 -> {"created", "failed"}

(* The trail never tells another outcome than the row, and it is complete   *)
(* unless the handler was cut off.                                          *)
TrailFollowsOutcome ==
    \A a \in Application :
        /\ Exists(a) /\ "accepted" \in trail[a] => apps[a].status = "Accepted"
        /\ Exists(a) /\ "failed" \in trail[a] => apps[a].status = "Failed"
        /\ Exists(a) /\ stage[a] = "ended" /\ a \notin cut
             => trail[a] = FullTrail(calls[a])

(* consent-apply-v0.2.md: a revoked consent admits no new application.  An  *)
(* application that appears after the revocation was already under way.     *)
RevocationStopsNewApplies == \A a \in late : apps[a].status = "None"

(* No application stays Pending for a reason that is not on record: the     *)
(* handler reaches an outcome, or it was cut off.                           *)
SubmissionEnds ==
    \A a \in Application :
        apps[a].status = "Pending" ~> (apps[a].status # "Pending" \/ a \in cut)

(* A receipt past its retention goes, whatever handlers do meanwhile.       *)
ReceiptsExpire ==
    \A a \in Application : apps[a].receipt = "due" ~> apps[a].receipt # "due"

(* The board lists its latest arrivals in order, and no more than its limit *)
(* once no call of Add is under way, however calls overlap and time out.    *)
FeedKeepsLatest == Feed!FeedInOrder /\ Feed!FeedBounded

(* Overlapping calls cost the list an entry each, beyond the first, at most. *)
FeedShortfall == Feed!FeedShortfall
=============================================================================
