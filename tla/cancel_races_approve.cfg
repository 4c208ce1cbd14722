\* Two handlers: a cancellation that loaded the row before the approval did
\* saves after it.
SPECIFICATION Spec
CONSTANTS
    Request = {r1}
    TheCandidate = alice
    Candidate <- OneCandidate
    CandidateOf <- SameCandidate
    Consent = {c1, c2}
    NoConsent = NoConsent
    NoRequest = NoRequest
    Worker = {w1, w2}
    AttemptLimit = 2
    RequestLifetime = 1
    RetentionAge = 1
    MaxTime = 1
    MaxCode = 2
    MaxOverwrite = 2
INVARIANTS
    DenialMeansNoConsent
SYMMETRY Symmetry
CHECK_DEADLOCK FALSE
