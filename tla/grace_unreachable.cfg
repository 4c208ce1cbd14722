\* One handler at a time: a submission within the grace period.
SPECIFICATION FairSpec
CONSTANTS
    Consent = {c1}
    Token = {t1, t2, t3}
    Key = {k1, k2, k3}
    NoConsent = NoConsent
    NoToken = NoToken
    NoKey = NoKey
    Worker = {w1}
    TokenLifetime = 3
    RenewalLead = 1
    ExpiryGrace = 1
    KeyLifetime = 3
    RotationLead = 1
    Second = 2
    MaxTime = 4
INVARIANTS
    GraceAccepts
SYMMETRY Symmetry
CHECK_DEADLOCK FALSE
