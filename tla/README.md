# ConsentBridge in TLA+

ConsentBridge is a gateway through which a recruiting *agent* applies to a job *board* on
behalf of a *candidate*. The candidate grants the agent a consent on a web page after
proving control of an e-mail address; the consent carries a signed token; the agent
presents the token with each application; everything of consequence leaves an event in a
hash-chained audit trail. The code is C#/.NET on PostgreSQL (Entity Framework Core).
The gateway is `src/src/Gateway.Api`, `Gateway.Infrastructure` and `Gateway.Domain`; the
rest of `src/src` are demo clients and placeholders.

## 1. Inventory

| Component | State | Operations | Interacts with | What makes it correct |
|---|---|---|---|---|
| **Consent requests** (`Program.cs` 298-443, `Areas/Consent/Pages`) | table `ConsentRequests`, static resend cooldowns | create, view, verify code, resend code, approve, deny, cancel, lapse | approval issues a consent and its token and may insert the candidate; decisions are audited; retention and data-subject requests delete rows | verified before granted; one approval, one consent; a decision stays; five wrong codes lock |
| **Consents, tokens, keys** (`SecurityServices.cs`, `ConsentLifecycleService.cs`, `Program.cs` 551-706, 860-924) | tables `Consents`, `ConsentTokens`, `TenantKeys` | issue, renew, rotate key, revoke, admit a token | a rotation is saved by its own audit event or by whoever needed the key | revocation is final; the columns of a consent describe one token; a consent is not extended; tokens are signed with an active key |
| **Audit trail** (`Audit/*.cs`, triggers, `Program.cs` 1023-1059) | tables `AuditEvents`, `AuditEventHashes`, `AuditVerificationRuns`, digest files | emit, sweep, verify on demand, status | called by every other component, through their `DbContext` | links form one chain per tenant; success means unaltered and unbroken; an intact chain is found intact; no event escapes the sweep |
| **Application submission** (`Program.cs` 522-845) | table `Applications` | admit, check signature, insert Pending, call the board, verify the receipt, Accepted or Failed | consents, keys, board over HTTP, audit | no application without a valid consent; it ends Accepted or Failed; Accepted means a verified receipt |
| **Data-subject requests** (`DsrService.cs`) | deletes over all tables | export, delete | races with approvals and submissions | after a delete nothing of the candidate is left for that tenant |
| **Retention** (`DataRetentionExecutor.cs`, its background service) | none of its own | daily sweep: clear receipts, delete requests | races with every handler | old data is gone and stays gone |
| **OAuth token endpoint** (`Program.cs` 926-1013, `SecurityServices.cs` 266-326) | credentials | client credentials for an access token | | |
| **JWKS and detached JWS** (`JwksJwsVerifier.cs`, key stores, `Program.cs` 201-236) | configured and stored keys | publish, resolve, verify | submission, receipts | retired keys verify nothing |
| **Mock board** (`MockBoard.Adapter`) | a bounded list in memory | take an application, answer with a signed receipt, list | called by the gateway, may be slow, restart, or answer late | lists the latest arrivals in order; trims what exceeds its limit |
| **Mock agent, candidate portal** | in-memory lists, a token cache, event channels | demo pages | the gateway's API | |
| Seeder, migrations, CertAuthority, Application, Sdk | | start-up data, generated code, placeholders | | |

**Hard behaviour.** Every HTTP request has a `DbContext` of its own: it reads a row into a
tracked entity, decides, and `SaveChangesAsync` writes the *columns that differ from what was
read*. No entity has a concurrency token. So two handlers of one row overwrite each other
column by column, and only a deleted row or a unique index stops a save. Several operations
commit in more than one transaction (a decision and its audit event; an audit event and its
link; a key rotation and the token it is for; an application and its outcome), and a restart
can fall between them. Clocks decide about expiry, renewal windows, grace, retention and
verification windows, each with its own boundary and precision. `PROJECT.json` lists each
such hazard at its line, with the properties that watch it.

## 2. Modules

| Module | Models |
|---|---|
| `RequestLifecycle` | abstract: what the consent flow promises of one request |
| `ConsentRequests` | consent requests as concurrent handlers; implements `RequestLifecycle` |
| `ConsentAgreement` | abstract: what a consent promises: granted once, until a fixed date, one token at a time, withdrawn for good |
| `ConsentTokens` | consents, tokens, signing keys, admission of a token; implements `ConsentAgreement` |
| `AuditChain` | audit sink, verifier, sweep |
| `ApplicationFeed` | the mock board's bounded list and the adders that trim it |
| `Applications` | submissions, the calls to the board, receipts and their retention; instantiates `ApplicationFeed` |
| `DataSubject` | deletes of several tenants against approvals, submissions and retention |
| `ConsentRequests_proofs` | theorems about consent requests under any overlap of handlers |
| `ConsentRequestsDecisions_proofs` | theorems about what a decision is worth when a save lands on a changed row, and about the lifecycle when none does |
| `ConsentTokens_proofs`, `ConsentAgreement_proofs`, `AuditChain_proofs`, `ApplicationFeed_proofs`, `Applications_proofs`, `DataSubject_proofs` | theorems about the module of the same name |

Composition: `Applications` instantiates `ApplicationFeed` with its own submissions as the
entries. The tables that several modules share are split by what each one asks of them: the
lifetime of a consent is detailed in `ConsentTokens` and a three-valued state in
`Applications`; a request's status is detailed in `ConsentRequests` and open/approved/gone in
`DataSubject`.

`MC*` modules give TLC its symmetry sets and definitions for constants; all numbers are in
the `.cfg` files. Definitions called `X_Something` ("Variant: ...") are what a plausible
mistake would make of `X`; nothing refers to them, they document what each property guards
against.

### ConsentRequests

A handler is a record in `work`: the entity as loaded (`old`), as it will be saved (`new`),
and its stage. *load* - *decide* - *save* are separate actions and interleave with those of
other workers, with the clock, retention, erasure and restarts. `Merge` is Entity
Framework's column-wise update; `CanSave` is the failure of a whole transaction (row gone,
unique index on `Candidate.EmailHash`). `VerifyCode`, `ResendCode`, `ApproveRequest`,
`DenyRequest`, `CancelRequest`, `ViewRequest` are the page and API handlers, early returns
included; a missing code is answered without a save and is therefore the same as a page
view. `EmitAudit` is the separate save of the decision's event. `KeyRotationFlush` is the
side effect described in section 1: whether a rotation happens depends on keys, which are
state of `ConsentTokens`, so here it is a choice. `EraseCandidate` is atomic here; its
check-then-delete is the subject of `DataSubject`. `misses` is an observation: wrong
codes counted where they are answered, because the column loses counts. So is `overwrites`:
for each request, the saves that wrote to a row that was no longer as the handler had read
it. A code is a number, its hash the same number.

### ConsentTokens

One agent tenant. `consents` holds the columns that decide anything; `tokens` is both the
table `ConsentTokens` and the claims inside the signed string; `keys` the tenant's signing
keys. Issue and renewal run *load - decide - (rotation flushed) - save*; `FlushRotation` and
`FlushFails` are the two outcomes of the audit event inside `RotateKey`, whose exception is
swallowed. `Renewed` writes the columns that differ from the snapshot. `AdmitToken` is the
chain of checks in `POST /v1/applications`; `WholeSeconds` is the truncation of the `exp`
claim, and `Second` ticks make a second. Lifetimes are assumed as the constructor clamps
them (`SecurityServices.cs` 65-81). Three observations say what overlap did: `behind` are the
handlers that chose a key before another handler saved a rotation, `overtaken` counts the
rotations saved by handlers that were behind, and a consent is `mixed` while its last token
was saved by a renewal that had loaded an earlier one than it replaced.

### AuditChain

One tenant. `rows` and `links` are the two tables. A hash is the sequence of the canonical
strings hashed into it (SHA-256 taken as injective). `Canonical` is what such a string shows of
an event: its time, and one `Text` for the other hashed fields. It leaves out `Id`, `ActorType`
and `ActorId`, as the code does, and since the code joins with an unescaped `|`, it does not
show where one field ends and the next begins either. An emission is stamped by
its caller, reads the newest committed link, saves the event, saves the link. `Fraction` is
the part of a `DateTime` below a microsecond: the hash sees it, `Stored` (the column) drops
it. A verification reads its anchor, reads its window, compares event by event, stores its
run; the sweep then waits `Every`. `Alter` edits a stored row from outside, once: in its hashed
text, or in the rest, which the hash does not show (`edited` observes which).
`EmitTime` and `SweepTime` bound how long an emission and a sweep take; they matter to
`NoEventSkipped` only. `swept`, `serial`, `steady`, `cut` (events whose time lost digits in the
column) and the fields `quiet` and `edited` are observations.

### Applications

A submission is named by the id its row will have, and its handler has one `stage`: the next
thing it awaits. `Arrive`, `Admit`, `Insert`, `Emit`, `CallBoard`, `ReadAnswer`,
`SaveAccepted`, `SaveFailed` are the steps of `POST /v1/applications`, each ending with one
await; `Emit` stands for all its audit events, and `AfterEvent` says what follows each.
`Refuse` is every early return before the insertion. `Reading` is the chain of conditions on
the board's answer. Nothing after the insertion is in a `try` block, so `CallFails` (the
connection, or `HttpClient.Timeout`), `SaveFails` (the row is gone) and `Interrupt` (restart)
end the handler where it is, and nothing resumes it. The board's handler goes through
`calls`: it may take the application, trim its list and answer after the gateway has given
up, or lose the call with its list in a restart. Whether a receipt verifies depends on
published keys and is a choice. `late` and `cut` are observations.

`ApplicationFeed` is `Add`: enqueue, then test `Count` and `TryDequeue` as separate calls of
a `ConcurrentQueue`. `arrivals` and `crowd` (how many adders were inside at once) are
observations.

### DataSubject

The rows of one candidate. A delete (`StartErasure` ... `RemoveCandidate`) takes each query
and each save of `DsrService.DeleteAsync` as a step; an approval is cut down to what it does
to the tables: find or create the candidate, perhaps flush it early with a key rotation,
save request and consent in one transaction. Foreign keys are guards of the saves: a
consent needs its candidate, a candidate's removal cascades to consents and applications
and is refused while a request refers to one of them; a saved delete of a row that is
gone throws. Retention removes a request long after it could be approved, which
`RetentionDelete` states as: no approval of it runs and no delete that runs is older than its
consent. A consent carries the name of its request, so each request is approved once here
(that two overlapping approvals may grant two consents is in `ConsentRequests`). The list of
applications has no step: those it names and those it misses all go with their consents.
`seen`, `dueRequests`, `claimed`, `orphaned` are observations.

### ConsentAgreement

No handlers, keys or clock. The mapping in `ConsentTokens` (`Agreement`) shows a consent's
status, its `ExpiresAt`, its `TokenId`, and the ids in the token table as `spent`. A
renewal in flight at a revocation may replace the token of a revoked consent, and
`Renew` allows it.

## 3. Runs

| Run | Bounds | Question |
|---|---|---|
| `requests_serial` | 1 request, 1 worker, 3 attempts, clock to 3 | Handlers do not overlap: does the flow implement `RequestLifecycle`, is every old request erased, and for good? |
| `requests_concurrent` | 1 request, 2 workers, 2 consents, 2 attempts, at most 1 save onto a changed row | What survives when two handlers overwrite each other, and what does an overwrite cost? |
| `tokens_concurrent` | 1 consent, 2 workers, 3 tokens, 3 keys | Expiry, ledger, revocation, signing keys and key column under every overlap of issues, renewals, rotations and revocations |
| `audit_chain` | 3 events, 2 workers, clock to 4 | Chain and verification under overlap, restart and alteration |
| `audit_serial` | 3 events, 1 worker, a clock with finer digits than the column | When is an undisturbed chain found intact? |
| `submissions` | 1 consent, 2 submissions, list limit 1 | Does the gateway record what the board answered, through timeouts, restarts, erasure and retention? Does every submission end? Does the list keep its latest entries? |
| `erasure` | 2 requests of 2 agents for 1 board, 3 tenants, 2 deletes at once, 2 candidate rows | Does a delete reach all it was asked for and nothing else, and does the last one remove the candidate? |
| `decision_relabelled`, `cancel_races_approve`, `rotation_cuts_off`, `grace_unreachable`, `intact_chain_fails` | as above, smaller | disagreements between code and documentation, see section 5 |

Why these bounds are enough to be interesting: conflicts on a row are between a pair of
handlers, so two workers show every pairwise conflict, and a third would only repeat one of
them; a worker is reused, so sequences of handlers are as long as the clock and the ids
allow. One request suffices where requests share nothing but the candidate, who may exist
beforehand or not (`Init`). The attempt limit is 3 (2 when handlers overlap) where the code
has 5: fewer than, equal to and beyond the limit all occur. `MaxOverwrite` is 1 where the
decisions are checked: with no overwrite the four properties that count them are at their
strictest, with one it is seen what it costs; the theorems are for any number.
`cancel_races_approve` allows 2. Lifetimes are a few ticks, with
the order of the defaults (lead shorter than lifetime, grace not empty). In
`tokens_concurrent` the one consent's key is rotated by the on-demand rotation, by its own
renewals and by age, so a second consent would add rotations that are there already. Three
audit events allow a fork followed by a link, and a window with an event before, inside and
after it; the clock reaches two sweeps whose windows start after the first event. `audit_chain` keeps the
clock to what the column stores, since none of its properties is about digits, and `audit_serial`
adds them. Two texts tell
an altered text from another, and all events are emitted with the same one, so that nothing but
their times and their history distinguishes their hashes. In `submissions` two
applications with a limit of 1 already overlap at the limit: empty, at and beyond it all
occur, and each removal of one adder can be the excess of the other; both present the same
consent, so that a revocation finds one of them in flight and one not arrived. In `erasure`
the scopes of two agents are disjoint and the board's contains both, every pair of deletes
can overlap (`MaxDelete`), and two ids for candidate rows (`MaxRow`) let the candidate be
removed and created again, or two approvals create it at the same time. All runs
switch the deadlock check off: a system whose ids and clock have run out has stopped.

**Fairness.** `RetentionErases` needs the clock to go on and the retention sweep to run again
and again: the background service repeats it every `SweepHours` and survives its exceptions.
`ReceiptsExpire` needs the sweep only. `SubmissionEnds` needs the steps of a handler that
runs, of which the end of the call after `HttpClient.Timeout` is one: a handler whose next
step is possible takes it or another one that ends it. Nothing is asked of the board, of
agents, of candidates or of consent handlers. Runs of other properties that name `FairSpec`
do so to exclude a system that has merely stopped. That a late save cannot undo a deletion is
the action property `DeletedForGood`, which needs no fairness.

### What the runs show

*Consent requests.* With one handler at a time the flow is the abstract lifecycle: a request
is verified before it is approved, an approval grants exactly one consent, and a closed
request never reopens (`ImplementsLifecycle`, whose only concession is that lapsing relabels
decided requests). Under any overlap there is no consent without a verified address
(`VerifiedFirst`), an approved row has its own consent (`ApprovedHasItsConsent`), and the audit
trail never claims what the tables do not hold (`AuditTellsTheTruth`). The rest is lost with
a save that lands on a changed row, and with nothing else: a request grants one consent, and
one more for each such save (`OneConsentPerRequest`); a denied request on which a consent was
granted has had one (`DeniedHasNoConsent`; `cancel_races_approve` shows that it happens); the
lock takes `AttemptLimit` wrong codes more for each at most (`LockedAfterLimit`); and a decision
is changed by lapsing, deletion or such a save only (`DecisionChangesOnlyByExpiry`). Handlers
that overlap without one (one page only reads, or a row is gone at the save) do no harm.

*Tokens.* Under any overlap a revoked consent stays revoked, a consent expires with its first
token whatever was renewed, and `TokenId`, `TokenHash`, `TokenExpiresAt` always describe one
token, because every renewal changes all three. `TokenKeyId` does not always change: it
names the key of the current token unless the last renewal was saved over another one
(`KeyColumnAgrees`). Two handlers that rotate at the same time leave two active keys for good,
one for each rotation that was overtaken (`OneActiveKey`), and only a handler that was
overtaken between its choice of a key and its save issues a token whose key is retired
already (`SignsWithActiveKey`). Rotations that are flushed early, late or by a save that fails
do neither.

In the terms of the abstract consent: under any overlap `ConsentTokens` implements
`ConsentAgreement` (`ImplementsAgreement`).

*Audit.* Under any overlap and interruption each link continues a saved one, and a
verification that reports success has seen one unforked chain, although it never reads
`PreviousHash`, in which no hashed text was altered (`AlterationIsReported`). It vouches for that
text only: who acted (`ActorType`, `ActorId`) can be edited without a trace, see section 5.
Emissions that overlap do fork the chain, and a verification that overlaps an emission may see
an event without its link; both are then reported as mismatches, which is why
`IntactChainVerifies` speaks of emissions one at a time and none during the verification (an
unlinked event or a fork is a mismatch by design, since the verifier cannot tell them from a
removed link). It also excludes an event exactly at the start of the window, which the verifier
takes as anchor and content at once. What it says of such a chain holds for any clock: it is
found intact if and only if the column kept every digit of the times in the window, so the
resolution of the clock is the one cause of a false alarm; `intact_chain_fails` shows
that it occurs. `NoEventSkipped` shows what
`OverlapMinutes` is for: the sweep's period plus the time of a sweep and of an emission must
fit into window and overlap (24 h + 5 min by default).

*Submissions.* `Accepted` means that the board listed the application and answered with a
receipt that verifies, and `Failed` that it answered otherwise (`OutcomeMatchesAnswer`); no
row says so of a call that timed out. Such an application stays `Pending`: nothing retries
it, and `SubmissionEnds` can only say that this happens to handlers that were cut off. The
trail tells the row's outcome and is complete unless the handler was cut off
(`TrailFollowsOutcome`; `accepted` is saved before it is audited, so a crash loses the event
and never invents one). A consent revoked while a submission is under way may still get its
application; one revoked before it arrives does not (`RevocationStopsNewApplies`). Receipts
are cleared whatever the handlers do (`ReceiptsExpire`). The board's list is always the
latest arrivals in order (`FeedKeepsLatest`), but adders that overlap at the limit may leave
it one entry short for each beyond the first (`FeedShortfall`, which is proved and not checked:
an instance where it could fail has three submissions and a limit of 2).

*Erasure.* A delete that gets to its checks has removed every consent, application and
request in its tenant's scope that existed when it began (`ErasureReachesAll`); what an
approval inserts later is kept. The gap between the two checks and the removal of the
candidate is closed by the foreign key of `ConsentRequests`: an approval in the gap leaves a
request that refers to its consent, and the removal fails rather than cascade to a consent of
another agent (`ErasedOnlyOnRequest`). Of deletes that together leave nothing, the last one
removes the candidate (`LastEraserRemovesCandidate`), unless a delete was cut off between its
two saves, retention removed the last request, an approval failed after its candidate was
flushed, or a delete outlived the row it had loaded: then the row stays (`orphaned`).
The last case takes three requests, so the run does not reach it; an attempt at the proof
showed it, and TLC with three requests confirms it. A delete
loads the candidate and stops; another delete removes the row; an approval inserts a new row
and its consent; the first delete then takes that consent away and tries to remove the row it
had loaded, which throws, and the new row is left. `Replaced` names the case.

## 4. Proofs

Checked by TLAPS for all values of the constants; TLC checks the same formulas on the small
instances above. Every invariant and every action property of a passing run and both refinements
are theorems, the lifecycle of consent requests under a hypothesis. Assumed are `RequestConstants`, `TokenConstants`, `AuditConstants`,
`ApplicationConstants` and `DataSubjectConstants`; `FeedConstants` is a hypothesis that
`Applications_proofs` discharges. A theorem whose "States" column has more to the left of the
arrow than `Spec` needs that hypothesis; the hypotheses are explained below the table.

| Theorem | States | Inductive invariant |
|---|---|---|
| `ConsentRequests_proofs!TypeCorrect` | `Spec => []TypeOK` | `TypeInv`: types, and a handler works on a row that once existed |
| `ConsentRequests_proofs!DeletionIsForGood` | `Spec => DeletedForGood` | `TypeInv`; `CanSave` fails for a row that is gone |
| `ConsentRequests_proofs!NoConsentUnverified`, `ApprovalHasItsConsent`, `AuditIsTruthful` | `VerifiedFirst`, `ApprovedHasItsConsent`, `AuditTellsTheTruth` | `RequestInv`, below |
| `ConsentRequestsDecisions_proofs!OneConsent`, `DenialGrantsNothing`, `LockOut` | `Spec => []P`, with `P` one of `OneConsentPerRequest`, `DeniedHasNoConsent`, `LockedAfterLimit` | `DecisionInv`, below |
| `ConsentRequestsDecisions_proofs!DecisionsStand` | `Spec => DecisionChangesOnlyByExpiry` | `DecisionInv` |
| `ConsentRequestsDecisions_proofs!OverlapOverwrites` | `Spec /\ []NoOverlap => []NoOverwrite` | `AloneInv`: the row of a handler that has not saved is the row it read, or is gone |
| `ConsentRequestsDecisions_proofs!LifecycleImplemented` | `Spec /\ []NoOverwrite => ImplementsLifecycle` | `DecisionInv`; a save is the step of the lifecycle that the handler's body concluded with, all else stutters |
| `ConsentTokens_proofs!TypeCorrect` | `Spec => []TypeOK` | `TypeOK`, which includes `Equipped`: a handler that makes a token has drawn its ids, and a key once it decided |
| `ConsentTokens_proofs!RevocationStays` | `Spec => RevocationIsFinal` | `RevocationInv`: no consent that exists is the target of an issue in flight (`IssuesAlone`); only issues write `Active`, and renewals do not write the status column |
| `ConsentTokens_proofs!ConsentExpiresFirst` | `Spec => []TokenOutlivesConsent` | `ExpiryInv`: the expiry a renewal is about to write is at least that of the row (`ExpiryBounded`), because the row's expiry is fixed and the renewal decided while it had not passed |
| `ConsentTokens_proofs!OneKeyAtATime`, `NoTokenBornDead` | `Spec => []P`, with `P` one of `OneActiveKey`, `SignsWithActiveKey` | `KeysInv`: a handler that is not behind waits with a rotation that retires an active key (or there is none), or signs with an active key (`KeyReady`); so only one that is behind adds a key |
| `ConsentAgreement_proofs!AgreementStands` | `Spec => []AgreementNotExtended` | `AgreementInv`: a row expires with the first token of its consent, tokens in flight have ids nobody else drew, and a handler about to save was admitted before that expiry |
| `ConsentAgreement_proofs!TokensImplementAgreement` | `Spec => ImplementsAgreement` | `AgreementInv`; each save is a step of the abstract consent because its token id is not spent, every other step is a stutter |
| `ConsentAgreement_proofs!TokenColumnsMatch` | `Spec => [](ShortLead => TokenColumnsAgree)` | `ColumnsInv`: a renewal's new expiry differs from the row's, so all three columns are written together. `ShortLead`: the lead is shorter than a token's lifetime |
| `ConsentAgreement_proofs!FirstTokenRenews` | `Spec => [](HalfLead => OnlyFirstTokenRenews)` | `RenewalInv`: the window of a renewed token opens after the consent's expiry. `HalfLead`: the lead is at most half the lifetime; the default is 14 days of 180 |
| `ConsentAgreement_proofs!KeyColumnMatches` | `Spec => []KeyColumnAgrees` | `KeyColumnInv`: `AgreementInv`, and as long as the token a renewal has loaded is the row's, so is the key (`LoadedKeyStands`); comparing with it is then comparing with the row |
| `AuditChain_proofs!TypeCorrect` | `Spec => []TypeOK` | `TypeOK` |
| `AuditChain_proofs!ChainHangsTogether` | `Spec => []EveryLinkAnchored` | `AnchorInv`: the previous hash an emission has read is saved already (`HeadsAnchored`), and its event is its own and has no link (`OwnEvents`), so a saved link is never replaced |
| `AuditChain_proofs!AlterationsShow`, `SuccessIsOneChain` | `AlterationIsReported`, `SuccessMeansOneChain` | `SealInv`, below |
| `AuditChain_proofs!SweepsLeaveNoGap` | `Every + SweepTime + EmitTime <= Window + Overlap` implies `Spec => []NoEventSkipped` | `SweepInv`, below |
| `AuditChain_proofs!UndisturbedVerifies` | `Spec => []IntactChainVerifies` | `IntactInv`, below |
| `ApplicationFeed_proofs!FeedKeepsItsPromise` | `FeedConstants /\ Spec => [](FeedInOrder /\ FeedBounded /\ FeedShortfall)` | `FeedInv`: an adder about to remove an entry is counted against the excess it saw (`Counted`): list minus pending removals plus crowd stays above what should be listed |
| `Applications_proofs!FeedPromises`, `FeedFallsShort` | `FeedKeepsLatest`, `FeedShortfall` | every step of the composition is a step of the feed or leaves it alone (`BoardStep`) |
| `Applications_proofs!TypeCorrect` | `Spec => []TypeOK` | `AppInv` and `FeedInv` |
| `Applications_proofs!OutcomesAreAnswers`, `TrailIsTrue`, `RevocationHolds` | the three safety invariants of submissions | `AppInv`: what row, trail and exchange hold at each stage of a handler (`Consistent`) |
| `DataSubject_proofs!DsrTypeCorrect` | `Spec => []TypeOK` | `TypeOK` |
| `DataSubject_proofs!ErasureIsAsked`, `ErasureIsComplete`, `NoDanglingRows` | `ErasedOnlyOnRequest`, `ErasureReachesAll`, `NothingDangles` | `DsrInv`, below |
| `DataSubject_proofs!LastEraserCleansUp` | `Spec => []LastEraserRemovesCandidate` | `LastInv`: a row that nothing refers to is about to get its consent, or some delete is past its removal and on its way to it |

### The invariants

`RequestInv` (consent requests, any overlap). What the properties say of rows is not inductive,
because a late save writes what its handler concluded from a row that has changed since.
`HandlersSound` says of every handler in flight what it made of its snapshot (`Outcome`: only an
approval of a verified snapshot writes `Approved`, and with its own consent), that
the tables are ahead of the snapshot (`Ahead`: once verified or decided, a row stays so, and an
event still to be audited has been saved), and that the consent id it drew is in no other use (`Fresh`).
`UncreatedUntouched` gives the base: nothing was granted or audited on a request before it
exists.

`DecisionInv` (consent requests, any overlap) adds to `RequestInv` how a handler's conclusion
relates the row it saves to the row it *read* (`Conclusion` lists the five ways a body that saves
can end), whatever became of the row since. A save onto the row that was read then moves the
request as concluded, and any other save is counted. `RowSound` relates the row to the counts:
an open request has granted at most as many consents as it had overwrites, and the wrong codes
exceed the column by `AttemptLimit` per overwrite at most (`AttemptsCounted`), because a handler
that still finds the request open has counted fewer than that.

`SealInv` (audit). A saved link's hash is its previous hash extended by the canonical string of
the event as it was emitted (`LinkSeals`), and a row whose text was edited does not show that text any
more. Since the hash has the whole history in it, recomputing it determines the previous hash: the
events a verification has passed are a chain from some hash to the one it has reached
(`PassedChain`), whatever was forked or altered elsewhere. No assumption on
overlap is needed.

`SweepInv` (sweep). Up to a frontier (`Covered`) every event is swept, and no emission in flight
is older. The frontier is the earliest start of the next window while the service waits, the
start of the current one while it sweeps, and `EmitTime` before its end once the sweep has read
the events. The hypothesis on the constants is what moves it forward without a gap; with the
defaults it says that a sweep and an emission together take less than the overlap of 5 minutes.

`IntactInv` (audit). With emissions one at a time, links are ordered by time as they are by
hash, and a linked event was cut exactly if its hash has digits its row lacks (`InOrder`,
`Cuts`). A verification in a quiet system stands at the newest link among the events it is not
to compare any more, and none of these was cut (`Walking`); or it has stopped, and an event of
the window was (`Stopped`).

`DsrInv` is the strengthening for erasure. `FreshIds`: the id of a candidate still to be
inserted belongs to nothing else, so an approval in flight cannot bring a removed row back
under a delete. `AllProgress`: at each stage, what the delete started for is gone or listed.
`KeptByRequest`: once the first check has found no consent, any consent that nobody claimed
has its request in the table, which makes the removal of the candidate fail; it needs
`NewSinceCheck` (such a consent came after the delete began), because retention might
otherwise take that request away. `InScope`, `SeenIssued` and `ApprovedOnce` supply their
base.

### The hypothesis of `LifecycleImplemented`

`NoOverwrite`: no save has landed on a row that changed since it was loaded. It is an
observation of the model, not something the code ensures: no entity has a concurrency token. It
is what a deployment would have whose saves are checked (`OverlapOverwrites`: also one in which
no two handlers work on the same request), and it cannot be dropped: `cancel_races_approve`
shows a denied request with a consent, which the lifecycle excludes. The other theorems about
overlap have no such hypothesis; they count, and what they count is in their statement.

### Only model-checked

Liveness (`SubmissionEnds`, `ReceiptsExpire`, `RetentionErases`), which is out of the prover's
reach, and the five disagreements of section 5, which are counterexamples.

## 5. Disagreements found

1. `decision_relabelled`: past `ExpiresAt` the POST handlers set `Expired` on approved and
   denied requests too (`Request.cshtml.cs:94`, `Approve.cshtml.cs:57`), while the design says
   a decided link is disabled. `OnGet` restricts itself to open requests.
2. `cancel_races_approve`: a cancellation loads an open request, the candidate verifies and
   approves, and the cancellation saves `Denied` over the approval (`DenialMeansNoConsent`): a
   denied request with an active consent, whose page tells the candidate that the agent cannot
   proceed.
3. `rotation_cuts_off`: `RotateKey` retires the current key at once; ADR 0002 has current and
   next keys overlap so that existing tokens are honoured.
4. `grace_unreachable`: a consent expires with its first token and is refused from then on, so the
   days of grace after that token's expiry admit nothing; the operations guide demonstrates them.
   What remains is less than a second: the `exp` claim is cut to whole seconds and
   `Consent.ExpiresAt` is not, and between the two the grace applies.
5. `intact_chain_fails` (`UntouchedChainVerifies`): the audit hash covers 100 ns digits of `CreatedAt`, the column keeps
   microseconds; verification of an untouched event reports a mismatch. The unit test uses an
   in-memory database, which keeps all digits.

Also met while modelling: the resend cooldown is tested on a property the handler never
assigns (`Request.cshtml.cs:181`), so it never applies; `TenantKeyStatus.Next` is never
assigned; the audit hash leaves out `ActorType` and `ActorId` and joins free text without
escaping (`PersistentAuditEventSink.cs:69`), so an edit of who acted, or text moved across a `|`
between neighbouring fields, passes verification, where ADR 0003 (line 21) requires a model that
"Guarantees tamper evidence via hashing/digest chains".

## 6. Not modelled

- Cryptography: signatures and hashes are what they vouch for. Text of pages and payloads,
  listing endpoints and the DSR export (they only read), logging and metrics.
- The OAuth token endpoint, the JWKS endpoint and the verification of detached signatures:
  they write nothing and share nothing between calls. What they answer is a choice where it
  matters (`Refuse`, `BoardAnswers`).
- The content of a receipt: the gateway verifies its signature and compares nothing in it
  with the application.
- A second submission for the same job after a lost answer: there is no idempotency key, so
  it is a submission of its own.
- A delete for an address that has requests and no candidate row: it returns at once and the
  requests stay until retention. The early return is in `DataSubject`; no property contradicts it.
- The events `token_grace_accept` and `token_grace_reject`: the admission past a token's expiry, in
  the fraction of a second that is left of it (section 5, item 4), is `AdmitToken`; its event is not.
- The mock agent console and the candidate portal: pages that call the API and display
  in-memory lists. The two `wwwroot/js/site.js` consist of the comment of the project
  template; there is no JavaScript of the program's own.
- The seeder, generated migrations, vendored scripts, and the placeholders (certificate
  authority, application layer, SDK).
- Other tenants: no row of the modelled state is shared between tenants, except the
  candidate, which is why `DataSubject` has several.
