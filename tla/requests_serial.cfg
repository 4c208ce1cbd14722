\* One handler at a time: the flow is the abstract lifecycle.
SPECIFICATION FairSpec
CONSTANTS
    Request = {r1}
    TheCandidate = alice
    Candidate <- OneCandidate
    CandidateOf <- SameCandidate
    Consent = {c1, c2}
    NoConsent = NoConsent
    NoRequest = NoRequest
    Worker = {w1}
    AttemptLimit = 3
    RequestLifetime = 2
    RetentionAge = 3
    MaxTime = 3
    MaxCode = 2
    MaxOverwrite = 1
INVARIANTS
    TypeOK
PROPERTIES
    RetentionErases
    DeletedForGood
    ImplementsLifecycle
CHECK_DEADLOCK FALSE
