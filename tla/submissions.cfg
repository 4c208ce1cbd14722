\* Submissions that overlap with each other, with revocation, erasure and
\* retention, against a board that answers, fails, restarts or is slow.
SPECIFICATION FairSpec
CONSTANTS
    Consent = {c1}
    Application = {a1, a2}
    ConsentOf <- SameConsent
    FeedLimit = 1
INVARIANTS
    TypeOK
    OutcomeMatchesAnswer
    TrailFollowsOutcome
    RevocationStopsNewApplies
    FeedKeepsLatest
PROPERTIES
    SubmissionEnds
    ReceiptsExpire
CHECK_DEADLOCK FALSE
