\* One handler at a time: a POST on a decided request past its expiry.
SPECIFICATION FairSpec
CONSTANTS
    Request = {r1}
    TheCandidate = alice
    Candidate <- OneCandidate
    CandidateOf <- SameCandidate
    Consent = {c1, c2}
    NoConsent = NoConsent
    NoRequest = NoRequest
    Worker = {w1}
    AttemptLimit = 3
    RequestLifetime = 2
    RetentionAge = 3
    MaxTime = 3
    MaxCode = 2
    MaxOverwrite = 1
PROPERTIES
    DecisionIsFinal
CHECK_DEADLOCK FALSE
