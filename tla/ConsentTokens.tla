---------------------------- MODULE ConsentTokens ----------------------------
(***************************************************************************)
(* The consents of one agent tenant, the tokens issued on them and the     *)
(* tenant's signing keys: issue (Approve.OnPost), renewal                  *)
(* (ConsentLifecycleService), rotation (JwtConsentTokenFactory), revoke,   *)
(* and the admission of a token presented with an application (the part of *)
(* POST /v1/applications before the row is inserted).                      *)
(*                                                                         *)
(* Handlers run on workers as in ConsentRequests: load a snapshot, decide  *)
(* on it and the clock, save the columns that changed.  Issuing a token    *)
(* adds a step between the last two: when the key has to be rotated, the   *)
(* rotation is flushed by its own audit event before the consent is saved. *)
(*                                                                         *)
(* Other tenants share no row of this state: keys and consents are looked  *)
(* up by tenant.  Time is counted in ticks below the second, because the   *)
(* expiry inside a JWT is a whole number of seconds.                       *)
(***************************************************************************)
EXTENDS Naturals, FiniteSets

CONSTANTS
    Consent,         \* ids of consents
    Token,           \* ids of tokens (jti)
    Key,             \* ids of signing keys (kid)
    NoConsent, NoToken, NoKey,  \* null
    Worker,          \* requests the server handles at the same time
    TokenLifetime,   \* ConsentTokens:TokenLifetimeDays, at least one day
    RenewalLead,     \* ConsentLifecycle:RenewalLeadDays, at least 0
    ExpiryGrace,     \* ConsentLifecycle:ExpiryGraceDays, at least 0
    KeyLifetime,     \* ConsentTokens:KeyLifetimeDays, at least 30 days
    RotationLead,    \* ConsentTokens:RotationLeadDays, clamped
    Second,          \* ticks in a second
    MaxTime          \* bound: the clock stops here

ASSUME TokenConstants ==
    /\ NoConsent \notin Consent
    /\ NoToken \notin Token
    /\ NoKey \notin Key
    /\ TokenLifetime \in Nat \ {0}
    /\ RenewalLead \in Nat
    /\ ExpiryGrace \in Nat
    /\ KeyLifetime \in Nat \ {0}
    /\ RotationLead \in 0..KeyLifetime
    /\ Second \in Nat \ {0}
    /\ MaxTime \in Nat

VARIABLES
    now,       \* DateTime.UtcNow
    consents,  \* table Consents
    keys,      \* table TenantKeys, purpose ConsentToken
    tokens,    \* token strings handed out, as recorded in table ConsentTokens
    work,      \* the handler each worker runs
    behind,    \* observation: handlers that chose their key before a rotation
               \* that another handler saved since
    overtaken, \* observation: rotations saved by a handler that was behind
    mixed      \* observation: consents whose token a renewal saved over a
               \* newer one

observed == <<behind, overtaken, mixed>>

vars == <<now, consents, keys, tokens, work, observed>>

-----------------------------------------------------------------------------
(* Rows and handlers.                                                      *)

ConsentRow == [status       : {"None", "Active", "Revoked", "Erased"},
               expires      : Nat,                  \* ExpiresAt
               token        : Token \cup {NoToken}, \* TokenId
               hash         : Token \cup {NoToken}, \* TokenHash: of which token
               tokenExpires : Nat,                  \* TokenExpiresAt
               key          : Key \cup {NoKey}]     \* TokenKeyId

BlankConsent == [status |-> "None", expires |-> 0, token |-> NoToken,
                 hash |-> NoToken, tokenExpires |-> 0, key |-> NoKey]

(* TenantKeyStatus.Next exists but nothing assigns it. *)
KeyRow == [status : {"None", "Active", "Retired"}, activated : Nat, expires : Nat]

BlankKey == [status |-> "None", activated |-> 0, expires |-> 0]

(* What the signed string says, and whether an approval or a renewal made  *)
(* it (observation).                                                       *)
Claims == [consent : Consent, key : Key, exp : Nat, by : {"issue", "renew"}]

NoClaims == [by |-> "none"]

Operation == {"issue", "renew", "rotate", "revoke", "jwt", "ctok"}

Handler == [stage   : {"loaded", "rotating", "saving"},
            op      : Operation,
            consent : Consent \cup {NoConsent},
            old     : ConsentRow,           \* tracked entity as loaded
            token   : Token \cup {NoToken}, \* issued or presented
            newKey  : Key \cup {NoKey},     \* what a rotation would draw
            key     : Key \cup {NoKey},     \* signs the token
            retire  : Key \cup {NoKey},     \* retired by the rotation
            rotation : {"none", "pending"}, \* a rotation waits for a save
            at      : Nat]                  \* when it was decided

Idle == [stage |-> "idle"]

Exists(c) == consents[c].status \in {"Active", "Revoked"}

Issued(t) == tokens[t] # NoClaims

(* Guid.NewGuid: neither in a table nor in a handler. *)
FreshToken(t) == ~Issued(t) /\ \A w \in Worker : work[w] # Idle => work[w].token # t
FreshKey(k) ==
    keys[k].status = "None" /\ \A w \in Worker : work[w] # Idle => work[w].newKey # k

(* What a handler that makes a token has drawn and, once it decided, the    *)
(* key it signs with.                                                      *)
Equipped(h) ==
    h.op \in {"issue", "renew"} =>
        /\ h.consent \in Consent /\ h.token \in Token /\ h.newKey \in Key
        /\ h.stage # "loaded" => h.key \in Key

TypeOK ==
    /\ now \in 0..MaxTime
    /\ consents \in [Consent -> ConsentRow]
    /\ keys \in [Key -> KeyRow]
    /\ tokens \in [Token -> Claims \cup {NoClaims}]
    /\ work \in [Worker -> Handler \cup {Idle}]
    /\ \A w \in Worker : work[w] # Idle => Equipped(work[w])
    /\ behind \subseteq Worker /\ overtaken \in Nat /\ mixed \subseteq Consent

Init ==
    /\ now = 0
    /\ consents = [c \in Consent |-> BlankConsent]
    /\ keys = [k \in Key |-> BlankKey]
    /\ tokens = [t \in Token |-> NoClaims]
    /\ work = [w \in Worker |-> Idle]
    /\ behind = {} /\ overtaken = 0 /\ mixed = {}

-----------------------------------------------------------------------------
(* Environment.                                                            *)

Tick ==
    /\ now < MaxTime
    /\ now' = now + 1
    /\ UNCHANGED <<consents, keys, tokens, work, observed>>

(* A data-subject delete removes the consent. *)
Erase(c) ==
    /\ Exists(c)
    /\ consents' = [consents EXCEPT ![c] = [BlankConsent EXCEPT !.status = "Erased"]]
    /\ UNCHANGED <<now, keys, tokens, work, observed>>

(* The process restarts; what was committed stays. *)
Crash ==
    /\ \E w \in Worker : work[w] # Idle
    /\ work' = [w \in Worker |-> Idle]
    /\ behind' = {}
    /\ UNCHANGED <<now, consents, keys, tokens, overtaken, mixed>>

-----------------------------------------------------------------------------
(* Arrival: the handler loads what it works on.  The ids a handler may     *)
(* draw later are named here.                                              *)

Load(w, op, c, t, k) ==
    /\ work[w] = Idle
    /\ work' = [work EXCEPT ![w] =
                  [stage |-> "loaded", op |-> op, consent |-> c, token |-> t,
                   old |-> IF c = NoConsent THEN BlankConsent ELSE consents[c],
                   newKey |-> k,
                   key |-> NoKey, retire |-> NoKey, rotation |-> "none", at |-> now]]
    /\ UNCHANGED <<now, consents, keys, tokens, observed>>

StartIssue(w) ==
    \E c \in Consent, t \in Token, k \in Key :
        /\ consents[c].status = "None"
        /\ \A v \in Worker : work[v] # Idle => work[v].consent # c
        /\ FreshToken(t) /\ FreshKey(k)
        /\ Load(w, "issue", c, t, k)

StartRenew(w) ==
    \E c \in Consent, t \in Token, k \in Key :
        /\ Exists(c) /\ FreshToken(t) /\ FreshKey(k)
        /\ Load(w, "renew", c, t, k)

StartRotate(w) ==
    \E k \in Key : FreshKey(k) /\ Load(w, "rotate", NoConsent, NoToken, k)

StartRevoke(w) ==
    \E c \in Consent :
        /\ Exists(c)
        /\ Load(w, "revoke", c, NoToken, NoKey)

(* The consent is found by the TokenId the agent presents, as a JWT or as  *)
(* an opaque "ctok:" reference.  A TokenId that no consent holds any more  *)
(* is refused on the spot.                                                 *)
StartSubmit(w) ==
    \E c \in Consent, op \in {"jwt", "ctok"} :
        /\ Exists(c)
        /\ Load(w, op, c, consents[c].token, NoKey)

-----------------------------------------------------------------------------
(* Steps handlers share.                                                   *)

Running(w, ops, stage) ==
    /\ work[w] # Idle
    /\ work[w].op \in ops
    /\ work[w].stage = stage

Return(w) == work' = [work EXCEPT ![w] = Idle]

Continue(w, h) == work' = [work EXCEPT ![w] = h]

ActiveKeys == {k \in Key : keys[k].status = "Active"}

(* The active key activated last; no order among keys of the same instant. *)
IsCurrent(k) ==
    /\ k \in ActiveKeys
    /\ \A j \in ActiveKeys : keys[j].activated <= keys[k].activated

(* Variant: the status of the key is not part of the query. *)
Reusable_AnyStatus(k) ==
    /\ keys[k].status # "None"
    /\ keys[k].expires > now + RotationLead

(* EnsureActiveKey keeps the current key while its remaining life is more  *)
(* than the rotation lead.                                                 *)
Reusable(k) == IsCurrent(k) /\ keys[k].expires > now + RotationLead

(* EnsureActiveKey, then the token: signed with the current key, or with a *)
(* new one that is to replace it.                                          *)
MintToken(w) ==
    \/ \E k \in Key :
         /\ Reusable(k)
         /\ Continue(w, [work[w] EXCEPT !.stage = "saving", !.key = k, !.at = now])
    \/ /\ ~\E k \in Key : Reusable(k)
       /\ \E old \in Key \cup {NoKey} :
            /\ IF ActiveKeys = {} THEN old = NoKey ELSE old \in Key /\ IsCurrent(old)
            /\ Continue(w, [work[w] EXCEPT !.stage = "rotating", !.key = work[w].newKey,
                               !.retire = old, !.rotation = "pending", !.at = now])

(* Variant: the old key is left active. *)
Rotated_KeepsOld(h) ==
    [keys EXCEPT ![h.newKey] = [status |-> "Active", activated |-> h.at,
                                expires |-> h.at + KeyLifetime]]

(* RotateKey: the current key is retired at once, a new one is active. *)
Rotated(h) ==
    [k \in Key |->
       IF k = h.newKey
       THEN [status |-> "Active", activated |-> h.at, expires |-> h.at + KeyLifetime]
       ELSE IF k = h.retire THEN [keys[k] EXCEPT !.status = "Retired"] ELSE keys[k]]

(* A handler that has chosen the key to sign with or to retire, and has not *)
(* saved yet.                                                              *)
Chosen(w) ==
    /\ work[w] # Idle
    /\ work[w].op \in {"issue", "renew", "rotate"} /\ work[w].stage # "loaded"

(* A rotation is saved: handlers that chose before are behind, and nothing *)
(* in the schema keeps them from saving a rotation of the same key.        *)
Overtake(w) ==
    /\ overtaken' = IF w \in behind THEN overtaken + 1 ELSE overtaken
    /\ behind' = {v \in Worker \ {w} : Chosen(v)}

(* The same for the save of a handler that may have a rotation pending.    *)
OvertakeIfPending(w) ==
    IF work[w].rotation = "pending"
    THEN Overtake(w)
    ELSE behind' = behind \ {w} /\ UNCHANGED overtaken

(* RotateKey emits "keys rotation" through the same DbContext, whose save  *)
(* writes the rotation.                                                    *)
FlushRotation(w) ==
    /\ Running(w, {"issue", "renew", "rotate"}, "rotating")
    /\ keys' = Rotated(work[w])
    /\ Overtake(w)
    /\ IF work[w].op = "rotate"
       THEN Return(w)
       ELSE Continue(w, [work[w] EXCEPT !.stage = "saving", !.rotation = "none"])
    /\ UNCHANGED <<now, consents, tokens, mixed>>

(* The audit event failed and its exception was swallowed: the rotation    *)
(* stays in the context until the handler's own save.                      *)
FlushFails(w) ==
    /\ Running(w, {"issue", "renew", "rotate"}, "rotating")
    /\ Continue(w, [work[w] EXCEPT !.stage = "saving"])
    /\ UNCHANGED <<now, consents, keys, tokens, observed>>

-----------------------------------------------------------------------------
(* Decisions.                                                              *)

(* Approve.OnPost on a request that may be approved. *)
IssueToken(w) ==
    /\ Running(w, {"issue"}, "loaded")
    /\ MintToken(w)
    /\ UNCHANGED <<now, consents, keys, tokens, observed>>

(* RenewAsync: now is in [TokenExpiresAt - lead, TokenExpiresAt + grace]. *)
InRenewalWindow(row) ==
    /\ now + RenewalLead >= row.tokenExpires
    /\ now <= row.tokenExpires + ExpiryGrace

(* Variant: the window is not looked at. *)
MayRenew_AnyTime(row) == row.status = "Active" /\ now < row.expires

MayRenew(row) ==
    row.status = "Active" /\ now < row.expires /\ InRenewalWindow(row)

RenewToken(w) ==
    /\ Running(w, {"renew"}, "loaded")
    /\ IF MayRenew(work[w].old) THEN MintToken(w) ELSE Return(w)
    /\ UNCHANGED <<now, consents, keys, tokens, observed>>

(* RotateAsync rotates whatever the age of the current key. *)
RotateKey(w) ==
    /\ Running(w, {"rotate"}, "loaded")
    /\ \E old \in Key \cup {NoKey} :
         /\ IF ActiveKeys = {} THEN old = NoKey ELSE old \in Key /\ IsCurrent(old)
         /\ Continue(w, [work[w] EXCEPT !.stage = "rotating", !.retire = old,
                                       !.rotation = "pending", !.at = now])
    /\ UNCHANGED <<now, consents, keys, tokens, observed>>

RevokeConsent(w) ==
    /\ Running(w, {"revoke"}, "loaded")
    /\ Continue(w, [work[w] EXCEPT !.stage = "saving", !.at = now])
    /\ UNCHANGED <<now, consents, keys, tokens, observed>>

(* JwtSecurityToken.ValidTo: whole seconds. *)
WholeSeconds(time) == time - (time % Second)

(* The lifetime the handler goes by: the claim of a JWT, the column for a  *)
(* reference.                                                              *)
PresentedExpiry(h) ==
    IF h.op = "jwt" THEN WholeSeconds(tokens[h.token].exp) ELSE h.old.tokenExpires

(* The kid of the JWT must name a key of the tenant that is not Retired;   *)
(* a reference is not signed.                                              *)
KeyAccepted(h) == h.op = "jwt" => keys[tokens[h.token].key].status = "Active"

(* Claims and hash of the JWT are those of the consent as loaded. *)
MatchesConsent(h) ==
    h.op = "jwt" => h.old.hash = h.token /\ tokens[h.token].consent = h.consent

Admissible(h) ==
    /\ h.old.status = "Active" /\ now < h.old.expires
    /\ KeyAccepted(h)
    /\ now <= PresentedExpiry(h) + ExpiryGrace
    /\ MatchesConsent(h)

AdmitToken(w) ==
    /\ Running(w, {"jwt", "ctok"}, "loaded")
    /\ IF Admissible(work[w])
       THEN Continue(w, [work[w] EXCEPT !.stage = "saving", !.at = now])
       ELSE Return(w)
    /\ UNCHANGED <<now, consents, keys, tokens, observed>>

-----------------------------------------------------------------------------
(* Saves.                                                                  *)

Expiry(h) == h.at + TokenLifetime

(* Variant: ExpiresAt keeps its first value, issuedAt.AddMonths(6), which  *)
(* is longer than the 180 days of the token.                               *)
NewConsent_SixMonths(h) ==
    [status |-> "Active", expires |-> Expiry(h) + 1, token |-> h.token,
     hash |-> h.token, tokenExpires |-> Expiry(h), key |-> h.key]

(* Approve sets ExpiresAt to the expiry of the first token. *)
NewConsent(h) ==
    [status |-> "Active", expires |-> Expiry(h), token |-> h.token,
     hash |-> h.token, tokenExpires |-> Expiry(h), key |-> h.key]

(* Variants of the renewal's update: the whole entity is written; the      *)
(* consent's expiry follows the token's, as in Approve; the hash is not    *)
(* replaced.                                                               *)
Renewed_WholeRow(row, h) ==
    [h.old EXCEPT !.token = h.token, !.hash = h.token,
                  !.tokenExpires = Expiry(h), !.key = h.key]

Renewed_Extends(row, h) ==
    [row EXCEPT !.token = h.token, !.hash = h.token, !.tokenExpires = Expiry(h),
                !.key = h.key, !.expires = Expiry(h)]

Renewed_KeepsHash(row, h) ==
    [row EXCEPT !.token = h.token, !.tokenExpires = Expiry(h), !.key = h.key]

(* Variant: the key id is written only when it is first set. *)
Renewed_KeepsKey(row, h) ==
    [row EXCEPT !.token = h.token, !.hash = h.token, !.tokenExpires = Expiry(h)]

(* A renewal writes the token's columns that differ from its snapshot.     *)
Renewed(row, h) ==
    [row EXCEPT
       !.token = h.token,
       !.hash = h.token,
       !.tokenExpires = IF Expiry(h) = h.old.tokenExpires THEN row.tokenExpires
                                                          ELSE Expiry(h),
       !.key = IF h.key = h.old.key THEN row.key ELSE h.key]

AfterRotation(h) == IF h.rotation = "pending" THEN Rotated(h) ELSE keys

(* Variant: the ledger takes the key id from the consent as loaded. *)
Record_OldKey(h) ==
    [consent |-> h.consent, key |-> h.old.key, exp |-> Expiry(h), by |-> h.op]

Record(h) == [consent |-> h.consent, key |-> h.key, exp |-> Expiry(h), by |-> h.op]

SaveToken(w) ==
    LET h == work[w]
        c == h.consent
    IN  /\ Running(w, {"issue", "renew"}, "saving")
        /\ h.op = "renew" => Exists(c)
        /\ consents' = [consents EXCEPT ![c] =
                          IF h.op = "issue" THEN NewConsent(h) ELSE Renewed(consents[c], h)]
        /\ tokens' = [tokens EXCEPT ![h.token] = Record(h)]
        /\ keys' = AfterRotation(h)
        /\ OvertakeIfPending(w)
        /\ mixed' = IF h.op = "renew" /\ consents[c].token # h.old.token
                    THEN mixed \cup {c} ELSE mixed \ {c}
        /\ Return(w)
        /\ UNCHANGED now

SaveRotation(w) ==
    /\ Running(w, {"rotate"}, "saving")
    /\ keys' = AfterRotation(work[w])
    /\ OvertakeIfPending(w)
    /\ Return(w)
    /\ UNCHANGED <<now, consents, tokens, mixed>>

SaveRevocation(w) ==
    LET c == work[w].consent
    IN  /\ Running(w, {"revoke"}, "saving")
        /\ Exists(c)
        /\ consents' = [consents EXCEPT ![c].status = "Revoked"]
        /\ Return(w)
        /\ UNCHANGED <<now, keys, tokens, observed>>

(* The application row of an admitted submission; the row itself is not    *)
(* part of this module.                                                    *)
SaveApplication(w) ==
    /\ Running(w, {"jwt", "ctok"}, "saving")
    /\ Exists(work[w].consent)
    /\ Return(w)
    /\ UNCHANGED <<now, consents, keys, tokens, observed>>

(* The consent was erased since the load: the update affects no row, or    *)
(* the insert has no parent.  Nothing of the transaction is written.       *)
SaveFails(w) ==
    /\ Running(w, {"renew", "revoke", "jwt", "ctok"}, "saving")
    /\ ~Exists(work[w].consent)
    /\ Return(w)
    /\ behind' = behind \ {w}
    /\ UNCHANGED <<now, consents, keys, tokens, overtaken, mixed>>

-----------------------------------------------------------------------------
Arrive(w) ==
    StartIssue(w) \/ StartRenew(w) \/ StartRotate(w) \/ StartRevoke(w) \/ StartSubmit(w)

Decide(w) ==
    IssueToken(w) \/ RenewToken(w) \/ RotateKey(w) \/ RevokeConsent(w) \/ AdmitToken(w)

Save(w) ==
    \/ FlushRotation(w) \/ FlushFails(w) \/ SaveToken(w) \/ SaveRotation(w)
    \/ SaveRevocation(w) \/ SaveApplication(w) \/ SaveFails(w)

Next ==
    \/ Tick \/ Crash
    \/ \E c \in Consent : Erase(c)
    \/ \E w \in Worker : Arrive(w) \/ Decide(w) \/ Save(w)

Spec == Init /\ [][Next]_vars

(* The clock does not stop. *)
FairSpec == Spec /\ WF_vars(Tick)

-----------------------------------------------------------------------------
(* Properties.                                                             *)

(* The first token of a consent, which fixed what the candidate agreed to. *)
FirstTokens(c) == {t \in Token : Issued(t) /\ tokens[t].consent = c /\ tokens[t].by = "issue"}

(* A consent never outlives its token: Approve gives both the same expiry   *)
(* and renewals only move the token's.  So the grace period after a token's *)
(* expiry begins when the consent itself has expired.                       *)
TokenOutlivesConsent ==
    \A c \in Consent : Exists(c) => consents[c].tokenExpires >= consents[c].expires

(* ADR 0007: a consent is not implicitly extended.  Whatever was renewed, a *)
(* consent expires with its first token, and a submission about to insert   *)
(* its application was admitted before that.                                *)
AgreementNotExtended ==
    /\ \A c \in Consent : Exists(c) =>
          \E t \in FirstTokens(c) : consents[c].expires = tokens[t].exp
    /\ \A w \in Worker : Running(w, {"jwt", "ctok"}, "saving") =>
          \E t \in FirstTokens(work[w].consent) : work[w].at < tokens[t].exp

(* The columns that admission reads belong to one token, whichever renewals *)
(* overlapped: TokenId, TokenHash and TokenExpiresAt agree with the ledger. *)
TokenColumnsAgree ==
    \A c \in Consent : Exists(c) =>
        /\ Issued(consents[c].token)
        /\ tokens[consents[c].token].consent = c
        /\ consents[c].hash = consents[c].token
        /\ consents[c].tokenExpires = tokens[consents[c].token].exp

(* When the token's lifetime is at least twice the renewal lead, a consent  *)
(* can be renewed from its first token only: the renewed token's window     *)
(* opens after the consent has expired.                                     *)
OnlyFirstTokenRenews ==
    \A w \in Worker :
        Running(w, {"renew"}, "rotating") \/ Running(w, {"renew"}, "saving")
            => work[w].old.token \in FirstTokens(work[w].consent)

(* Revocation is final: no renewal in flight brings a consent back.         *)
RevocationIsFinal ==
    [][\A c \in Consent : consents[c].status = "Revoked"
          => consents'[c].status \in {"Revoked", "Erased"}]_vars

(* One signing key of the tenant is active.  Only a rotation that another   *)
(* one overtook, between its look at the keys and its save, leaves a second *)
(* key active (for good); nothing else does, however issues, renewals and   *)
(* rotations interleave, and whichever save of theirs writes the rotation.  *)
OneActiveKey == Cardinality(ActiveKeys) <= 1 + overtaken

(* A token is not born dead: when it is about to be saved, its key is       *)
(* active or will be with the same save, unless another handler has saved a *)
(* rotation since the key was chosen.                                       *)
SignsWithActiveKey ==
    \A w \in Worker \ behind : Running(w, {"issue", "renew"}, "saving") =>
        AfterRotation(work[w])[work[w].key].status = "Active"

(* TokenKeyId names the key that signed the current token, although a       *)
(* renewal leaves the column alone when it signs with the key it loaded;    *)
(* only a renewal saved over another one may put its token beside the       *)
(* other's key, and the next renewal repairs that.                          *)
KeyColumnAgrees ==
    \A c \in Consent \ mixed :
        Exists(c) => consents[c].key = tokens[consents[c].token].key

(* ADR 0002: rotation honours existing tokens during a grace period.        *)
RotationHonoursTokens ==
    \A c \in Consent : consents[c].status = "Active" /\ now < consents[c].expires
        => keys[tokens[consents[c].token].key].status # "Retired"

(* consent-lifecycle-ops.md: a submission just after token expiry is        *)
(* accepted within ExpiryGraceDays.                                         *)
InGrace(h) ==
    /\ h.old.status = "Active" /\ KeyAccepted(h) /\ MatchesConsent(h)
    /\ h.old.tokenExpires <= now /\ now <= h.old.tokenExpires + ExpiryGrace

GraceAccepts ==
    \A w \in Worker :
        Running(w, {"jwt", "ctok"}, "loaded") /\ InGrace(work[w]) => Admissible(work[w])

(* The consents, read without keys, ledger details and handlers, are the    *)
(* abstract agreement, whichever issues, renewals, revocations and erasures *)
(* overlap.                                                                 *)
Agreement == INSTANCE ConsentAgreement
    WITH status  <- [c \in Consent |-> consents[c].status],
         until   <- [c \in Consent |-> consents[c].expires],
         current <- [c \in Consent |-> consents[c].token],
         spent   <- {t \in Token : Issued(t)}

ImplementsAgreement == Agreement!Spec
=============================================================================
