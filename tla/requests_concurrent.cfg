\* Two handlers overlap on one request: every order of loads, decisions and
\* saves, with lapse, retention, erasure and crashes in between.
SPECIFICATION Spec
CONSTANTS
    Request = {r1}
    TheCandidate = alice
    Candidate <- OneCandidate
    CandidateOf <- SameCandidate
    Consent = {c1, c2}
    NoConsent = NoConsent
    NoRequest = NoRequest
    Worker = {w1, w2}
    AttemptLimit = 2
    RequestLifetime = 1
    RetentionAge = 1
    MaxTime = 1
    MaxCode = 2
    MaxOverwrite = 1
INVARIANTS
    VerifiedFirst
    ApprovedHasItsConsent
    AuditTellsTheTruth
    OneConsentPerRequest
    DeniedHasNoConsent
    LockedAfterLimit
PROPERTIES
    DecisionChangesOnlyByExpiry
SYMMETRY Symmetry
CHECK_DEADLOCK FALSE
