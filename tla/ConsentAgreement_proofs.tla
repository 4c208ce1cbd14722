----------------------- MODULE ConsentAgreement_proofs -----------------------
(***************************************************************************)
(* ConsentTokens implements ConsentAgreement, for every instance: a        *)
(* consent keeps the date it was granted until, and answers to one token   *)
(* at a time, of those that were drawn for it.                             *)
(***************************************************************************)
EXTENDS ConsentTokens_proofs

-----------------------------------------------------------------------------
(* The invariant.  A token drawn by a handler is nobody else's until its   *)
(* save, so no entry of the ledger is overwritten; the expiry of a consent *)
(* is that of its first tokens, and so is the one a handler has loaded.    *)

Drawing(w) == work[w] # Idle /\ work[w].op \in {"issue", "renew"}

(* Handlers that work on a consent there was when they started. *)
Using(w) == work[w] # Idle /\ work[w].op \notin {"issue", "rotate"}

DrawnFresh ==
    \A w \in Worker : Drawing(w) =>
        /\ work[w].token \in Token /\ ~Issued(work[w].token)
        /\ \A v \in Worker : work[v] # Idle /\ work[v].token = work[w].token => v = w

(* The row names a token of the consent. *)
Names(row, c, ledger) ==
    /\ row.token \in Token /\ ledger[row.token] # NoClaims
    /\ ledger[row.token].consent = c
    /\ row.hash = row.token

First(c, ledger) ==
    {t \in Token : ledger[t] # NoClaims /\ ledger[t].consent = c /\ ledger[t].by = "issue"}

(* A date is that of the first tokens of the consent. *)
FirstDate(date, c, ledger) ==
    /\ First(c, ledger) # {}
    /\ \A t \in First(c, ledger) : ledger[t].exp = date

Agrees(row, c, ledger) == Names(row, c, ledger) /\ FirstDate(row.expires, c, ledger)

RowsAgree ==
    \A c \in Consent :
        /\ Exists(c) => Agrees(consents[c], c, tokens)
        /\ First(c, tokens) # {} => consents[c].status # "None"

SnapshotsAgree ==
    \A w \in Worker : Using(w) => Agrees(work[w].old, work[w].consent, tokens)

AdmittedInTime ==
    \A w \in Worker : Running(w, {"jwt", "ctok"}, "saving") => work[w].at < work[w].old.expires

AgreementInv ==
    ExpiryInv /\ DrawnFresh /\ RowsAgree /\ SnapshotsAgree /\ AdmittedInTime

LEMMA AgreementTypes ==
  ASSUME AgreementInv, [Next]_vars
  PROVE  ExpiryInv /\ RevocationInv /\ TypeOK /\ TypeOK' /\ IssuesAlone /\ AimsAtIssued
  BY NextType DEF AgreementInv, ExpiryInv, RevocationInv

-----------------------------------------------------------------------------
(* The ledger.                                                             *)

LEMMA LedgerStep ==
  ASSUME TypeOK, [Next]_vars
  PROVE  \/ tokens' = tokens
         \/ \E w \in Worker : SaveToken(w)
  <1>1. CASE Tick \/ Crash \/ UNCHANGED vars \/ \E c \in Consent : Erase(c)
    BY <1>1 DEF Tick, Crash, vars, Erase
  <1>2. ASSUME NEW w \in Worker, Arrive(w) \/ Decide(w) \/ Save(w), ~SaveToken(w)
        PROVE  tokens' = tokens
    BY <1>2, TablesKept DEF SaveRevocation
  <1>3. QED  BY <1>1, <1>2 DEF Next

LEMMA SaveTokenFacts ==
  ASSUME TypeOK, NEW w \in Worker, SaveToken(w)
  PROVE  /\ Drawing(w) /\ work[w].consent \in Consent
         /\ work[w].token \in Token /\ work[w].key \in Key /\ work[w] \in Handler
         /\ tokens' = [tokens EXCEPT ![work[w].token] = Record(work[w])]
         /\ work' = [work EXCEPT ![w] = Idle]
         /\ tokens'[work[w].token] = Record(work[w])
         /\ tokens'[work[w].token] # NoClaims
  <1>1. /\ Drawing(w) /\ work[w].consent \in Consent /\ work[w] \in Handler
        /\ work[w].token \in Token /\ work[w].key \in Key
    BY RunningType DEF SaveToken, Running, Drawing, Equipped
  <1>2. /\ tokens' = [tokens EXCEPT ![work[w].token] = Record(work[w])]
        /\ work' = [work EXCEPT ![w] = Idle]
    BY DEF SaveToken, Return
  <1>3. tokens'[work[w].token] = Record(work[w])
    BY <1>1, <1>2 DEF TypeOK
  <1>4. Record(work[w]) # NoClaims
    BY <1>1 DEF Record, NoClaims, Drawing
  <1>5. QED  BY <1>1, <1>2, <1>3, <1>4 DEF Issued

(* An entry of the ledger stays as it is. *)
LEMMA LedgerStays ==
  ASSUME TypeOK, DrawnFresh, [Next]_vars, NEW t \in Token, Issued(t)
  PROVE  tokens'[t] = tokens[t] /\ Issued(t)'
  <1>1. ASSUME NEW w \in Worker, SaveToken(w) PROVE tokens'[t] = tokens[t]
    <2>1. work[w].token # t
      BY <1>1, SaveTokenFacts DEF DrawnFresh
    <2>2. QED  BY <1>1, <2>1, SaveTokenFacts DEF TypeOK
  <1>2. QED  BY <1>1, LedgerStep DEF Issued

(* A new entry is the one a handler saves. *)
LEMMA LedgerGrows ==
  ASSUME TypeOK, [Next]_vars, NEW t \in Token, Issued(t)', ~Issued(t)
  PROVE  \E w \in Worker : SaveToken(w) /\ work[w].token = t
  <1>1. ASSUME NEW w \in Worker, SaveToken(w), work[w].token # t
        PROVE  tokens'[t] = tokens[t]
    BY <1>1, SaveTokenFacts DEF TypeOK
  <1>2. QED  BY <1>1, LedgerStep DEF Issued

(* First tokens stay first tokens; another comes only with the issue.      *)
LEMMA FirstTokensStay ==
  ASSUME AgreementInv, [Next]_vars, NEW c \in Consent, consents[c].status # "None"
  PROVE  /\ First(c, tokens') = First(c, tokens)
         /\ \A t \in First(c, tokens) : tokens'[t].exp = tokens[t].exp
  <1>0. TypeOK /\ DrawnFresh /\ IssuesAlone
    BY AgreementTypes DEF AgreementInv
  <1>1. ASSUME NEW t \in First(c, tokens)
        PROVE  t \in First(c, tokens') /\ tokens'[t].exp = tokens[t].exp
    BY <1>0, LedgerStays DEF First, Issued
  <1>2. ASSUME NEW t \in First(c, tokens') PROVE t \in First(c, tokens)
    <2>1. t \in Token /\ Issued(t)' /\ tokens'[t].consent = c /\ tokens'[t].by = "issue"
      BY DEF First, Issued
    <2>2. CASE Issued(t)
      BY <1>0, <2>1, <2>2, LedgerStays DEF First, Issued
    <2>3. CASE ~Issued(t)
      <3>1. PICK w \in Worker : SaveToken(w) /\ work[w].token = t
        BY <1>0, <2>1, <2>3, LedgerGrows
      <3>2. tokens'[t] = Record(work[w])
        BY <1>0, <3>1, SaveTokenFacts
      <3>3. work[w].consent = c /\ work[w].op = "issue"
        BY <2>1, <3>2 DEF Record
      <3>4. QED  BY <1>0, <3>1, <3>3, SaveTokenFacts DEF IssuesAlone, Issuing, Drawing
    <2>4. QED  BY <2>2, <2>3
  <1>3. QED  BY <1>1, <1>2

(* What a row or a snapshot says of its consent goes on being true. *)
LEMMA RowStays ==
  ASSUME AgreementInv, [Next]_vars, NEW c \in Consent, consents[c].status # "None", NEW row
  PROVE  /\ Names(row, c, tokens) => Names(row, c, tokens')
         /\ FirstDate(row.expires, c, tokens) => FirstDate(row.expires, c, tokens')
  <1>0. TypeOK /\ DrawnFresh
    BY AgreementTypes DEF AgreementInv
  <1>1. Names(row, c, tokens) => Names(row, c, tokens')
    BY <1>0, LedgerStays DEF Names, Issued
  <1>2. FirstDate(row.expires, c, tokens) => FirstDate(row.expires, c, tokens')
    BY FirstTokensStay DEF FirstDate
  <1>3. QED  BY <1>1, <1>2

-----------------------------------------------------------------------------
(* The parts of the invariant, one after the other.                        *)

(* What an arriving handler has drawn or loaded. *)
LEMMA LoadFields ==
  ASSUME TypeOK, NEW w \in Worker, NEW op, NEW c \in Consent \cup {NoConsent}, NEW t, NEW k,
         Load(w, op, c, t, k)
  PROVE  /\ work'[w].op = op /\ work'[w].token = t /\ work'[w].consent = c
         /\ c # NoConsent => work'[w].old = consents[c]
  BY DEF Load, TypeOK

LEMMA ArriveDraws ==
  ASSUME TypeOK, NEW w \in Worker, Arrive(w)
  PROVE  /\ \/ /\ work'[w].op \in {"issue", "renew"}
               /\ work'[w].token \in Token /\ FreshToken(work'[w].token)
            \/ /\ work'[w].op \notin {"issue", "renew"}
               /\ \/ work'[w].token = NoToken
                  \/ \E c \in Consent : Exists(c) /\ work'[w].token = consents[c].token
         /\ work'[w].op \notin {"issue", "rotate"} =>
               work'[w].old = consents[work'[w].consent]
  <1>1. CASE StartIssue(w) \/ StartRenew(w)
    <2>1. PICK c \in Consent, t \in Token, k \in Key, op \in {"issue", "renew"} :
            FreshToken(t) /\ Load(w, op, c, t, k)
      BY <1>1 DEF StartIssue, StartRenew
    <2>2. work'[w].op = op /\ work'[w].token = t /\ work'[w].old = consents[work'[w].consent]
      BY <2>1, LoadFields, TokenConstants
    <2>3. QED  BY <2>1, <2>2
  <1>2. CASE StartRotate(w)
    <2>1. PICK k \in Key : Load(w, "rotate", NoConsent, NoToken, k)
      BY <1>2 DEF StartRotate
    <2>2. work'[w].op = "rotate" /\ work'[w].token = NoToken
      BY <2>1, LoadFields
    <2>3. QED  BY <2>2
  <1>3. CASE StartRevoke(w)
    <2>1. PICK c \in Consent : Load(w, "revoke", c, NoToken, NoKey)
      BY <1>3 DEF StartRevoke
    <2>2. /\ work'[w].op = "revoke" /\ work'[w].token = NoToken
          /\ work'[w].old = consents[work'[w].consent]
      BY <2>1, LoadFields, TokenConstants
    <2>3. QED  BY <2>2
  <1>4. CASE StartSubmit(w)
    <2>1. PICK c \in Consent, op \in {"jwt", "ctok"} :
            Exists(c) /\ Load(w, op, c, consents[c].token, NoKey)
      BY <1>4 DEF StartSubmit
    <2>2. /\ work'[w].op = op /\ work'[w].token = consents[c].token
          /\ work'[w].old = consents[work'[w].consent]
      BY <2>1, LoadFields, TokenConstants
    <2>3. QED  BY <2>1, <2>2
  <1>5. QED  BY <1>1, <1>2, <1>3, <1>4 DEF Arrive

LEMMA DrawnStep == ASSUME AgreementInv, [Next]_vars PROVE DrawnFresh'
  <1>0. TypeOK /\ TypeOK' /\ DrawnFresh /\ RowsAgree
    BY AgreementTypes DEF AgreementInv
  <1>1. SUFFICES ASSUME NEW w \in Worker, Drawing(w)'
                 PROVE  /\ work'[w].token \in Token /\ tokens'[work'[w].token] = NoClaims
                        /\ \A v \in Worker : work'[v] # Idle /\ work'[v].token = work'[w].token
                                               => v = w
    BY DEF DrawnFresh, Issued
  <1>2. CASE Arrive(w)
    BY <1>0, <1>1, <1>2, ArriveDraws, ArriveHandler DEF Drawing, FreshToken, Issued
  <1>3. CASE ~Arrive(w)
    <2>1. Drawing(w) /\ work'[w].token = work[w].token
      BY <1>0, <1>1, <1>3, HandlerStep DEF Drawing
    <2>2. work[w].token \in Token /\ ~Issued(work[w].token)
      BY <1>0, <2>1 DEF DrawnFresh
    <2>3. tokens'[work[w].token] = NoClaims
      <3>1. ASSUME NEW u \in Worker, SaveToken(u), work[u].token = work[w].token PROVE FALSE
        <4>1. u = w
          BY <1>0, <2>1, <3>1, SaveTokenFacts DEF DrawnFresh, Drawing
        <4>2. QED  BY <1>0, <1>1, <3>1, <4>1, SaveTokenFacts DEF Drawing, TypeOK
      <3>2. QED  BY <1>0, <2>2, <3>1, LedgerGrows DEF Issued
    <2>4. ASSUME NEW v \in Worker, work'[v] # Idle, work'[v].token = work[w].token
          PROVE  v = w
      <3>1. CASE Arrive(v)
        BY <1>0, <2>1, <2>2, <2>4, <3>1, ArriveDraws, TokenConstants
           DEF FreshToken, Drawing, RowsAgree, Agrees, Names, Issued
      <3>2. CASE ~Arrive(v)
        BY <1>0, <2>1, <2>4, <3>2, HandlerStep DEF DrawnFresh
      <3>3. QED  BY <3>1, <3>2
    <2>5. QED  BY <2>1, <2>2, <2>3, <2>4
  <1>4. QED  BY <1>2, <1>3

(* A consent there was, and still is, after the step. *)
LEMMA RowKept ==
  ASSUME AgreementInv, [Next]_vars, NEW c \in Consent, consents[c].status # "None",
         Exists(c)'
  PROVE  Agrees(consents'[c], c, tokens')
  <1> DEFINE row == consents[c]
  <1> DEFINE next == consents'[c]
  <1>0. /\ TypeOK /\ RevocationInv /\ RowsAgree /\ row \in ConsentRow
    BY AgreementTypes DEF AgreementInv, TypeOK
  <1>1. Exists(c) /\ next.expires = row.expires
    BY <1>0, ExpiryBack
  <1>2. Names(row, c, tokens) /\ FirstDate(row.expires, c, tokens)
    BY <1>0, <1>1 DEF RowsAgree, Agrees
  <1>3. Names(row, c, tokens') /\ FirstDate(next.expires, c, tokens')
    BY <1>1, <1>2, RowStays
  <1>4. ASSUME NEW w \in Worker, SaveToken(w), work[w].consent = c,
               next = Renewed(row, work[w])
        PROVE  Names(next, c, tokens')
    <2>1. next.token = work[w].token /\ next.hash = work[w].token
      BY <1>0, <1>4 DEF Renewed, ConsentRow
    <2>2. /\ work[w].token \in Token /\ tokens'[work[w].token] # NoClaims
          /\ tokens'[work[w].token] = Record(work[w])
      BY <1>0, <1>4, SaveTokenFacts DEF Issued
    <2>3. QED  BY <1>4, <2>1, <2>2 DEF Names, Record
  <1>5. \/ next = row
        \/ next = [row EXCEPT !.status = "Revoked"]
        \/ \E w \in Worker : /\ SaveToken(w) /\ work[w].consent = c
                             /\ next = Renewed(row, work[w])
    BY <1>0, <1>1, ConsentStep DEF Exists
  <1>6. CASE next.token = row.token /\ next.hash = row.hash
    BY <1>3, <1>6 DEF Names, Agrees
  <1>7. next = [row EXCEPT !.status = "Revoked"] => next.token = row.token /\ next.hash = row.hash
    BY <1>0 DEF ConsentRow
  <1>8. QED  BY <1>3, <1>4, <1>5, <1>6, <1>7 DEF Agrees

(* A consent that is granted in the step. *)
LEMMA RowGranted ==
  ASSUME AgreementInv, [Next]_vars, NEW c \in Consent, NEW w \in Worker, SaveToken(w),
         work[w].consent = c, work[w].op = "issue", consents[c].status = "None",
         consents'[c] = NewConsent(work[w])
  PROVE  Agrees(consents'[c], c, tokens')
  <1> DEFINE t == work[w].token
  <1>0. TypeOK /\ RowsAgree
    BY AgreementTypes DEF AgreementInv
  <1>1. /\ t \in Token /\ tokens'[t] # NoClaims /\ tokens'[t] = Record(work[w])
        /\ tokens' = [tokens EXCEPT ![t] = Record(work[w])]
    BY <1>0, SaveTokenFacts DEF Issued
  <1>2. First(c, tokens) = {}
    BY <1>0 DEF RowsAgree
  <1>3. t \in First(c, tokens') /\ tokens'[t].exp = consents'[c].expires
    BY <1>1 DEF First, Record, NewConsent
  <1>4. ASSUME NEW s \in First(c, tokens') PROVE s = t
    BY <1>0, <1>1, <1>2 DEF First, TypeOK
  <1>5. FirstDate(consents'[c].expires, c, tokens')
    BY <1>3, <1>4 DEF FirstDate
  <1>6. Names(consents'[c], c, tokens')
    BY <1>1 DEF Names, NewConsent, Record
  <1>7. QED  BY <1>5, <1>6 DEF Agrees

(* A consent that is not granted has no first token. *)
LEMMA NoneGranted ==
  ASSUME AgreementInv, [Next]_vars, NEW c \in Consent, First(c, tokens') # {}
  PROVE  consents'[c].status # "None"
  <1>0. TypeOK /\ RevocationInv /\ DrawnFresh /\ RowsAgree
    BY AgreementTypes DEF AgreementInv
  <1>1. PICK t \in Token : /\ Issued(t)' /\ tokens'[t].consent = c
                          /\ tokens'[t].by = "issue"
    BY DEF First, Issued
  <1>2. CASE Issued(t)
    <2>1. t \in First(c, tokens)
      BY <1>0, <1>1, <1>2, LedgerStays DEF First, Issued
    <2>2. QED  BY <1>0, <2>1, NeverUnissued DEF RowsAgree
  <1>3. CASE ~Issued(t)
    <2>1. PICK w \in Worker : SaveToken(w) /\ work[w].token = t
      BY <1>0, <1>1, <1>3, LedgerGrows
    <2>2. work[w].consent = c /\ work[w].op = "issue"
      <3>1. tokens'[t] = Record(work[w])
        BY <1>0, <2>1, SaveTokenFacts
      <3>2. QED  BY <1>1, <3>1 DEF Record
    <2>3. consents'[c] = NewConsent(work[w])
      BY <1>0, <2>1, <2>2 DEF SaveToken, TypeOK
    <2>4. QED  BY <2>3 DEF NewConsent
  <1>4. QED  BY <1>2, <1>3

LEMMA RowsStep == ASSUME AgreementInv, [Next]_vars PROVE RowsAgree'
  <1>1. ASSUME NEW c \in Consent, Exists(c)' PROVE Agrees(consents'[c], c, tokens')
    <2>0. RevocationInv
      BY AgreementTypes
    <2>1. CASE consents[c].status # "None"
      BY <1>1, <2>1, RowKept
    <2>2. CASE consents[c].status = "None"
      <3>1. ~Exists(c) /\ consents'[c] # consents[c]
        BY <1>1, <2>2 DEF Exists
      <3>2. \E w \in Worker :
               /\ SaveToken(w) /\ work[w].consent = c /\ work[w].op = "issue"
               /\ consents'[c] = NewConsent(work[w])
        BY <2>0, <3>1, ConsentStep
      <3>3. QED  BY <2>2, <3>2, RowGranted
    <2>3. QED  BY <2>1, <2>2
  <1>2. QED  BY <1>1, NoneGranted DEF RowsAgree

LEMMA SnapshotsStep == ASSUME AgreementInv, [Next]_vars PROVE SnapshotsAgree'
  <1>0. TypeOK /\ RowsAgree /\ SnapshotsAgree /\ AimsAtIssued
    BY AgreementTypes DEF AgreementInv
  <1> SUFFICES ASSUME NEW w \in Worker, Using(w)'
               PROVE  Agrees(work'[w].old, work'[w].consent, tokens')
    BY DEF SnapshotsAgree
  <1> DEFINE c == work'[w].consent
  <1> DEFINE row == work'[w].old
  <1>1. /\ c \in Consent /\ consents[c].status # "None"
        /\ Names(row, c, tokens) /\ FirstDate(row.expires, c, tokens)
    <2>1. CASE Arrive(w)
      <3>1. c \in Consent /\ Exists(c) /\ row = consents[c]
        BY <1>0, <2>1, ArriveDraws, ArriveHandler DEF Using
      <3>2. QED  BY <1>0, <3>1 DEF RowsAgree, Agrees, Exists
    <2>2. CASE ~Arrive(w)
      <3>1. Using(w) /\ c = work[w].consent /\ row = work[w].old
        BY <1>0, <2>2, HandlerStep DEF Using
      <3>2. QED  BY <1>0, <3>1 DEF SnapshotsAgree, AimsAtIssued, Using, Agrees
    <2>3. QED  BY <2>1, <2>2
  <1> HIDE DEF c, row
  <1>2. Names(row, c, tokens') /\ FirstDate(row.expires, c, tokens')
    BY <1>1, RowStays
  <1>3. QED  BY <1>2 DEF Agrees, c, row

LEMMA Admission ==
  ASSUME TypeOK, NEW w \in Worker, Decide(w) \/ Save(w), work'[w] # Idle,
         work[w].op \in {"jwt", "ctok"}
  PROVE  AdmitToken(w) /\ Admissible(work[w]) /\ work'[w].at = now
  <1>1. AdmitToken(w)
    BY DEF Decide, Save, IssueToken, RenewToken, RotateKey, RevokeConsent, FlushRotation,
           FlushFails, SaveToken, SaveRotation, SaveRevocation, SaveApplication, SaveFails,
           Running, Return, TypeOK
  <1>2. Admissible(work[w])
    BY <1>1 DEF AdmitToken, Return, TypeOK
  <1>3. QED  BY <1>1, <1>2, DecisionTime DEF AdmitToken, Running

LEMMA AdmittedStep == ASSUME AgreementInv, [Next]_vars PROVE AdmittedInTime'
  <1>0. TypeOK /\ AdmittedInTime
    BY AgreementTypes DEF AgreementInv
  <1> SUFFICES ASSUME NEW w \in Worker, Running(w, {"jwt", "ctok"}, "saving")'
               PROVE  work'[w].at < work'[w].old.expires
    BY DEF AdmittedInTime
  <1>1. work'[w] # Idle /\ ~Arrive(w)
    BY <1>0, ArriveHandler DEF Running
  <1>2. CASE work'[w] = work[w]
    BY <1>0, <1>2 DEF AdmittedInTime, Running
  <1>3. CASE /\ Decide(w) \/ Save(w)
             /\ work'[w].op = work[w].op /\ work'[w].old = work[w].old
    <2>1. Admissible(work[w]) /\ work'[w].at = now
      BY <1>0, <1>1, <1>3, Admission DEF Running
    <2>2. QED  BY <1>3, <2>1 DEF Admissible
  <1>4. QED  BY <1>0, <1>1, <1>2, <1>3, HandlerStep

LEMMA AgreementInductive == AgreementInv /\ [Next]_vars => AgreementInv'
  BY ExpiryInductive, DrawnStep, RowsStep, SnapshotsStep, AdmittedStep DEF AgreementInv

LEMMA AgreementStarts == Init => AgreementInv
  BY InitType DEF Init, AgreementInv, ExpiryInv, RevocationInv, IssuesAlone, Issuing,
     AimsAtIssued, ExpiryBounded, Renewing, TokenOutlivesConsent, Exists, BlankConsent,
     DrawnFresh, Drawing, RowsAgree, First, Issued, SnapshotsAgree, Using,
     AdmittedInTime, Running

-----------------------------------------------------------------------------
(* ADR 0007, for every instance: whatever was renewed, a consent expires    *)
(* with its first token, and a submission that is about to insert its       *)
(* application was admitted before that date.                               *)
THEOREM AgreementStands == Spec => []AgreementNotExtended
  <1>1. AgreementInv => AgreementNotExtended
    <2> SUFFICES ASSUME AgreementInv PROVE AgreementNotExtended
      OBVIOUS
    <2>1. ASSUME NEW c \in Consent, Exists(c)
          PROVE  \E t \in FirstTokens(c) : consents[c].expires = tokens[t].exp
      BY <2>1 DEF AgreementInv, RowsAgree, Agrees, FirstDate, First, FirstTokens, Issued
    <2>2. ASSUME NEW w \in Worker, Running(w, {"jwt", "ctok"}, "saving")
          PROVE  \E t \in FirstTokens(work[w].consent) : work[w].at < tokens[t].exp
      BY <2>2 DEF AgreementInv, AdmittedInTime, SnapshotsAgree, Using, Running,
                       Agrees, FirstDate, First, FirstTokens, Issued
    <2>3. QED  BY <2>1, <2>2 DEF AgreementNotExtended
  <1>2. QED  BY <1>1, AgreementStarts, AgreementInductive, PTL DEF Spec

-----------------------------------------------------------------------------
(* Refinement.                                                             *)

LEMMA AgreementBegins == Init => Agreement!Init
  BY DEF Init, Agreement!Init, BlankConsent, Issued

LEMMA MapsUnchanged ==
  ASSUME UNCHANGED <<consents, tokens>> PROVE UNCHANGED Agreement!vars
  BY DEF Agreement!vars, Issued

LEMMA MapsErase ==
  ASSUME TypeOK, NEW c \in Consent, Erase(c) PROVE Agreement!Erase(c)
  <1>1. /\ consents' = [consents EXCEPT ![c] = consents'[c]]
        /\ consents'[c].status = "Erased" /\ consents'[c].expires = 0
        /\ consents'[c].token = NoToken
    BY DEF TypeOK, Erase, BlankConsent
  <1>2. consents[c].status \in {"Active", "Revoked"} /\ tokens' = tokens
    BY DEF Erase, Exists
  <1>3. QED  BY <1>1, <1>2 DEF Agreement!Erase, Agreement!Standing, Issued, TypeOK

LEMMA MapsRevocation ==
  ASSUME AgreementInv, [Next]_vars, NEW w \in Worker, SaveRevocation(w)
  PROVE  \E c \in Consent : Agreement!Withdraw(c)
  <1>0. TypeOK /\ AimsAtIssued
    BY AgreementTypes
  <1>1. PICK c \in Consent : c = work[w].consent
    BY <1>0 DEF AimsAtIssued, SaveRevocation, Running
  <1>2. /\ Exists(c) /\ tokens' = tokens
        /\ consents' = [consents EXCEPT ![c].status = "Revoked"]
    BY <1>1 DEF SaveRevocation
  <1>3. Agreement!Withdraw(c)
    BY <1>0, <1>2 DEF Agreement!Withdraw, Agreement!Standing, Exists, Issued, TypeOK, ConsentRow
  <1>4. QED  BY <1>3

(* A token that is saved was never handed out before. *)
LEMMA MapsToken ==
  ASSUME AgreementInv, [Next]_vars, NEW w \in Worker, SaveToken(w)
  PROVE  \E c \in Consent, t \in Token : Agreement!Grant(c, t) \/ Agreement!Renew(c, t)
  <1>0. TypeOK /\ RevocationInv /\ DrawnFresh /\ IssuesAlone
    BY AgreementTypes DEF AgreementInv
  <1>1. PICK c \in Consent, t \in Token : c = work[w].consent /\ t = work[w].token
    BY <1>0, SaveTokenFacts
  <1>2. /\ ~Issued(t)
        /\ tokens' = [tokens EXCEPT ![t] = Record(work[w])]
        /\ tokens'[t] # NoClaims /\ work[w] \in Handler
    BY <1>0, <1>1, SaveTokenFacts DEF DrawnFresh
  <1>3. {s \in Token : Issued(s)}' = {s \in Token : Issued(s)} \cup {t}
    BY <1>0, <1>2 DEF Issued, TypeOK
  <1>4. consents' = [consents EXCEPT ![c] = consents'[c]] /\ consents'[c] \in ConsentRow
    BY <1>0, <1>1, <1>2, AgreementTypes DEF SaveToken, TypeOK
  <1>5. CASE work[w].op = "issue"
    <2>1. consents[c].status = "None" /\ consents'[c] = NewConsent(work[w])
      BY <1>0, <1>1, <1>2, <1>5, SaveTokenFacts DEF SaveToken, IssuesAlone, Issuing, Drawing, TypeOK
    <2>2. /\ consents'[c].status = "Active" /\ consents'[c].token = t
          /\ consents'[c].expires \in Nat
      BY <1>1, <1>4, <2>1 DEF NewConsent, ConsentRow
    <2>3. Agreement!Grant(c, t)
      BY <1>0, <1>2, <1>3, <1>4, <2>1, <2>2 DEF Agreement!Grant, Agreement!HandOut, TypeOK
    <2>4. QED  BY <2>3
  <1>6. CASE work[w].op = "renew"
    <2>1. Exists(c) /\ consents'[c] = Renewed(consents[c], work[w])
      BY <1>0, <1>1, <1>2, <1>6 DEF SaveToken, TypeOK
    <2>2. /\ consents'[c].status = consents[c].status /\ consents'[c].token = t
          /\ consents'[c].expires = consents[c].expires
      BY <1>0, <1>1, <1>2, <2>1 DEF Renewed, ConsentRow, TypeOK
    <2>3. Agreement!Renew(c, t)
      BY <1>0, <1>2, <1>3, <1>4, <2>1, <2>2
         DEF Agreement!Renew, Agreement!HandOut, Agreement!Standing, Exists, TypeOK
    <2>4. QED  BY <2>3
  <1>7. QED  BY <1>0, <1>5, <1>6, SaveTokenFacts DEF Drawing

LEMMA AgreementStep ==
  ASSUME AgreementInv, [Next]_vars PROVE [Agreement!Next]_Agreement!vars
  <1>0. TypeOK
    BY AgreementTypes
  <1>1. CASE UNCHANGED <<consents, tokens>>
    BY <1>1, MapsUnchanged
  <1>2. CASE \E c \in Consent : Erase(c)
    BY <1>0, <1>2, MapsErase DEF Agreement!Next
  <1>3. CASE \E w \in Worker : SaveRevocation(w)
    BY <1>3, MapsRevocation DEF Agreement!Next
  <1>4. CASE \E w \in Worker : SaveToken(w)
    BY <1>4, MapsToken DEF Agreement!Next
  <1>5. CASE Tick \/ Crash \/ UNCHANGED vars
    BY <1>1, <1>5 DEF Tick, Crash, vars
  <1>6. ASSUME NEW w \in Worker, Arrive(w) \/ Decide(w) \/ Save(w),
               ~SaveToken(w), ~SaveRevocation(w)
        PROVE  UNCHANGED <<consents, tokens>>
    BY <1>6, TablesKept
  <1>7. QED  BY <1>1, <1>2, <1>3, <1>4, <1>5, <1>6 DEF Next

(* The consents behave as the abstract agreement says, for every number of  *)
(* consents, tokens, keys and overlapping handlers: granted once until a    *)
(* date nothing moves, one token at a time and never one of before,         *)
(* withdrawn and erased for good.                                           *)
THEOREM TokensImplementAgreement == Spec => ImplementsAgreement
  <1>1. QED
    BY AgreementStarts, AgreementInductive, AgreementBegins, AgreementStep, PTL
       DEF Spec, ImplementsAgreement, Agreement!Spec

-----------------------------------------------------------------------------
(* The expiry column.  A renewal leaves the column alone when the new       *)
(* expiry equals the one it has loaded; that cannot be when the lead is     *)
(* shorter than a token's life, because the renewal was decided in the      *)
(* window of the token it has loaded.                                       *)

ShortLead == RenewalLead < TokenLifetime

DecidedInWindow ==
    \A w \in Worker : Renewing(w) =>
        /\ work[w].old.tokenExpires <= work[w].at + RenewalLead
        /\ work[w].at < work[w].old.expires

Dated(row, ledger) == row.tokenExpires = ledger[row.token].exp

ColumnsDated ==
    /\ \A c \in Consent : Exists(c) => Dated(consents[c], tokens)
    /\ \A w \in Worker : Using(w) => Dated(work[w].old, tokens)

ColumnsInv == AgreementInv /\ DecidedInWindow /\ (ShortLead => ColumnsDated)

LEMMA RenewalDecision ==
  ASSUME TypeOK, NEW w \in Worker, Decide(w) \/ Save(w), work'[w] # Idle,
         work[w].op = "renew", work[w].stage = "loaded"
  PROVE  MayRenew(work[w].old)
  <1>1. RenewToken(w)
    BY DEF Decide, Save, IssueToken, RotateKey, RevokeConsent, AdmitToken, FlushRotation,
           FlushFails, SaveToken, SaveRotation, SaveRevocation, SaveApplication, SaveFails,
           Running
  <1>2. QED  BY <1>1 DEF RenewToken, Return, TypeOK

(* A renewal in flight was in flight before the step, or is decided by it. *)
LEMMA RenewalStep ==
  ASSUME TypeOK, [Next]_vars, NEW w \in Worker, Renewing(w)'
  PROVE  /\ work[w] # Idle /\ work[w].op = "renew"
         /\ work'[w].old = work[w].old /\ work'[w].consent = work[w].consent
         /\ \/ Renewing(w) /\ work'[w].at = work[w].at
            \/ MayRenew(work[w].old) /\ work'[w].at = now
  <1>1. work'[w] # Idle /\ work'[w].op = "renew" /\ ~Arrive(w)
    BY ArriveHandler DEF Renewing
  <1>2. CASE work'[w] = work[w]
    BY <1>2 DEF Renewing
  <1>3. CASE /\ Decide(w) \/ Save(w)
             /\ work[w] # Idle /\ work'[w].op = work[w].op
             /\ work'[w].consent = work[w].consent /\ work'[w].old = work[w].old
             /\ \/ work[w].stage = "loaded" /\ work'[w].at = now
                \/ work[w].stage = "rotating" /\ work'[w].at = work[w].at
    BY <1>1, <1>3, RenewalDecision DEF Renewing
  <1>4. QED  BY <1>1, <1>2, <1>3, HandlerStep

LEMMA WindowStep ==
  ASSUME TypeOK, DecidedInWindow, [Next]_vars PROVE DecidedInWindow'
  <1> SUFFICES ASSUME NEW w \in Worker, Renewing(w)'
               PROVE  /\ work'[w].old.tokenExpires <= work'[w].at + RenewalLead
                      /\ work'[w].at < work'[w].old.expires
    BY DEF DecidedInWindow
  <1>1. CASE Renewing(w) /\ work'[w].at = work[w].at
    BY <1>1, RenewalStep DEF DecidedInWindow
  <1>2. CASE MayRenew(work[w].old) /\ work'[w].at = now
    <2>1. /\ work[w].old \in ConsentRow /\ now \in Nat
          /\ work'[w].old = work[w].old
      BY RunningType, RenewalStep DEF Handler
    <2>2. QED  BY <1>2, <2>1 DEF MayRenew, InRenewalWindow, ConsentRow
  <1>3. QED  BY <1>1, <1>2, RenewalStep

LEMMA ColumnsStep ==
  ASSUME ColumnsInv, ColumnsDated, ShortLead, [Next]_vars PROVE ColumnsDated'
  <1>0. /\ TypeOK /\ RevocationInv /\ AgreementInv /\ AgreementInv' /\ DrawnFresh
        /\ RowsAgree /\ SnapshotsAgree /\ AimsAtIssued
    BY AgreementTypes, AgreementInductive DEF ColumnsInv, AgreementInv
  <1>1. ASSUME NEW row, NEW c, Names(row, c, tokens), Dated(row, tokens)
        PROVE  Dated(row, tokens')
    BY <1>0, <1>1, LedgerStays DEF Names, Dated, Issued
  <1>2. ASSUME NEW c \in Consent, Exists(c)' PROVE Dated(consents'[c], tokens')
    <2> DEFINE row == consents[c]
    <2> DEFINE next == consents'[c]
    <2>1. row \in ConsentRow
      BY <1>0 DEF TypeOK
    <2>2. ASSUME Exists(c) PROVE Names(row, c, tokens) /\ Dated(row, tokens')
      <3>1. Names(row, c, tokens) /\ Dated(row, tokens)
        BY <1>0, <2>2 DEF RowsAgree, Agrees, ColumnsDated
      <3>2. QED  BY <1>1, <3>1
    <2>3. CASE next = row
      BY <1>2, <2>2, <2>3 DEF Exists
    <2>4. CASE Exists(c) /\ next = [row EXCEPT !.status = "Revoked"]
      <3>1. next.tokenExpires = row.tokenExpires /\ next.token = row.token
        BY <2>1, <2>4 DEF ConsentRow
      <3>2. QED  BY <2>2, <2>4, <3>1 DEF Dated
    <2>5. ASSUME NEW w \in Worker, SaveToken(w), work[w].consent = c,
                 \/ work[w].op = "issue" /\ next = NewConsent(work[w])
                 \/ work[w].op # "issue" /\ next = Renewed(row, work[w])
          PROVE  Dated(next, tokens')
      <3>1. /\ tokens'[work[w].token] = Record(work[w]) /\ work[w] \in Handler
            /\ Drawing(w) /\ work[w].stage = "saving"
        BY <1>0, <2>5, SaveTokenFacts DEF SaveToken, Running
      <3>2. CASE work[w].op = "issue"
        BY <2>5, <3>1, <3>2 DEF NewConsent, Record, Dated
      <3>3. CASE work[w].op # "issue"
        <4>1. Renewing(w)
          BY <3>1, <3>3 DEF Drawing, Renewing
        <4>2. work[w].old.tokenExpires <= work[w].at + RenewalLead
          BY <4>1 DEF ColumnsInv, DecidedInWindow
        <4>3. work[w].old.tokenExpires \in Nat /\ work[w].at \in Nat
          BY <3>1 DEF Handler, ConsentRow
        <4>4. Expiry(work[w]) # work[w].old.tokenExpires
          BY <4>2, <4>3, TokenConstants DEF Expiry, ShortLead
        <4>5. next.token = work[w].token /\ next.tokenExpires = Expiry(work[w])
          BY <2>1, <2>5, <3>3, <4>4 DEF Renewed, ConsentRow
        <4>6. QED  BY <3>1, <4>5 DEF Record, Dated
      <3>4. QED  BY <3>2, <3>3
    <2>6. next.status # "Erased"
      BY <1>2 DEF Exists
    <2>7. QED  BY <1>0, <2>3, <2>4, <2>5, <2>6, ConsentStep
  <1>3. ASSUME NEW w \in Worker, Using(w)' PROVE Dated(work'[w].old, tokens')
    <2> DEFINE row == work'[w].old
    <2>1. Names(row, work'[w].consent, tokens) /\ Dated(row, tokens)
      <3>1. CASE Arrive(w)
        BY <1>0, <1>3, <3>1, ArriveDraws, ArriveHandler
           DEF Using, RowsAgree, Agrees, ColumnsDated
      <3>2. CASE ~Arrive(w)
        <4>1. Using(w) /\ row = work[w].old /\ work'[w].consent = work[w].consent
          BY <1>0, <1>3, <3>2, HandlerStep DEF Using
        <4>2. QED  BY <1>0, <4>1 DEF SnapshotsAgree, Agrees, ColumnsDated
      <3>3. QED  BY <3>1, <3>2
    <2> HIDE DEF row
    <2>2. Dated(row, tokens')
      BY <1>1, <2>1
    <2>3. QED  BY <2>2 DEF row
  <1>4. QED  BY <1>2, <1>3 DEF ColumnsDated

LEMMA ColumnsInductive == ColumnsInv /\ [Next]_vars => ColumnsInv'
  <1> SUFFICES ASSUME ColumnsInv, [Next]_vars PROVE ColumnsInv'
    OBVIOUS
  <1>1. AgreementInv' /\ TypeOK
    BY AgreementInductive, AgreementTypes DEF ColumnsInv
  <1>2. DecidedInWindow'
    BY <1>1, WindowStep DEF ColumnsInv
  <1>3. ShortLead => ColumnsDated'
    BY ColumnsStep DEF ColumnsInv
  <1>4. QED  BY <1>1, <1>2, <1>3 DEF ColumnsInv

LEMMA ColumnsStart == Init => ColumnsInv
  BY AgreementStarts DEF Init, ColumnsInv, DecidedInWindow, Renewing, ColumnsDated, Exists,
     BlankConsent, Using

(* TokenId, TokenHash and TokenExpiresAt of a consent are those of one      *)
(* token, whichever renewals of it overlapped, when RenewalLeadDays is less *)
(* than TokenLifetimeDays.                                                  *)
THEOREM TokenColumnsMatch == Spec => [](ShortLead => TokenColumnsAgree)
  <1>1. ColumnsInv => (ShortLead => TokenColumnsAgree)
    BY DEF ColumnsInv, AgreementInv, RowsAgree, Agrees, Names, ColumnsDated, Dated,
           TokenColumnsAgree, Issued
  <1>2. QED  BY <1>1, ColumnsStart, ColumnsInductive, PTL DEF Spec

-----------------------------------------------------------------------------
(* One renewal.  A renewed token expires at least a lead after its consent: *)
(* it was decided within a lead of the first token's expiry, which is the   *)
(* consent's.  So its own window opens when the consent has expired.        *)

HalfLead == 2 * RenewalLead <= TokenLifetime

Owned ==
    \A t \in Token : Issued(t) =>
        tokens[t].consent \in Consent /\ consents[tokens[t].consent].status # "None"

RenewedLate ==
    \A t \in Token : Issued(t) /\ tokens[t].by = "renew" =>
        \A f \in First(tokens[t].consent, tokens) : tokens[t].exp >= tokens[f].exp + RenewalLead

RenewsFirst ==
    \A w \in Worker : Renewing(w) => work[w].old.token \in First(work[w].consent, tokens)

RenewalInv == ColumnsInv /\ Owned /\ (HalfLead => RenewedLate /\ RenewsFirst)

LEMMA HalfIsShort == HalfLead => ShortLead
  BY TokenConstants DEF HalfLead, ShortLead

LEMMA RenewalTypes ==
  ASSUME RenewalInv, [Next]_vars
  PROVE  /\ TypeOK /\ AgreementInv /\ RevocationInv /\ DrawnFresh /\ IssuesAlone
         /\ RowsAgree /\ SnapshotsAgree /\ AimsAtIssued /\ DecidedInWindow
         /\ (HalfLead => ColumnsDated)
  BY AgreementTypes, HalfIsShort DEF RenewalInv, ColumnsInv, AgreementInv

LEMMA LedgerTypes ==
  ASSUME TypeOK, NEW t \in Token, Issued(t)
  PROVE  tokens[t].exp \in Nat /\ tokens[t].by \in {"issue", "renew"}
  BY DEF TypeOK, Issued, Claims

LEMMA OwnedStep == ASSUME RenewalInv, [Next]_vars PROVE Owned'
  <1> SUFFICES ASSUME NEW t \in Token, tokens'[t] # NoClaims
               PROVE  /\ tokens'[t].consent \in Consent
                      /\ consents'[tokens'[t].consent].status # "None"
    BY DEF Owned, Issued
  <1>0. TypeOK /\ AgreementInv /\ RevocationInv /\ DrawnFresh /\ Owned
    BY RenewalTypes DEF RenewalInv
  <1>1. CASE Issued(t)
    BY <1>0, <1>1, LedgerStays, NeverUnissued DEF Owned
  <1>2. CASE ~Issued(t)
    <2>1. PICK w \in Worker : SaveToken(w) /\ work[w].token = t
      BY <1>0, <1>2, LedgerGrows DEF Issued
    <2>2. tokens'[t] = Record(work[w]) /\ work[w].consent \in Consent
      BY <1>0, <2>1, SaveTokenFacts
    <2>3. PICK c \in Consent : c = work[w].consent
      BY <2>2
    <2>4. tokens'[t].consent = c
      BY <2>2, <2>3 DEF Record
    <2>5. CASE consents[c].status # "None"
      BY <1>0, <2>4, <2>5, NeverUnissued
    <2>6. CASE consents[c].status = "None"
      <3>1. work[w].op = "issue"
        BY <1>0, <2>1, <2>3, <2>6, SaveTokenFacts DEF SaveToken, Exists, Drawing
      <3>2. consents'[c] = NewConsent(work[w])
        BY <1>0, <2>1, <2>3, <3>1 DEF SaveToken, TypeOK
      <3>3. QED  BY <2>4, <3>2 DEF NewConsent
    <2>7. QED  BY <2>5, <2>6
  <1>3. QED  BY <1>1, <1>2

LEMMA RenewedLateStep == ASSUME RenewalInv, HalfLead, [Next]_vars PROVE RenewedLate'
  <1> SUFFICES ASSUME NEW t \in Token, tokens'[t] # NoClaims, tokens'[t].by = "renew",
                      NEW f \in First(tokens'[t].consent, tokens')
               PROVE  tokens'[t].exp >= tokens'[f].exp + RenewalLead
    BY DEF RenewedLate, Issued, First
  <1>0. /\ TypeOK /\ AgreementInv /\ RevocationInv /\ DrawnFresh /\ Owned /\ RenewedLate
        /\ RenewsFirst /\ SnapshotsAgree /\ DecidedInWindow /\ ColumnsDated
    BY RenewalTypes DEF RenewalInv
  <1>1. CASE Issued(t)
    <2>1. tokens'[t] = tokens[t]
      BY <1>0, <1>1, LedgerStays
    <2>2. PICK c \in Consent : c = tokens[t].consent
      BY <1>0, <1>1 DEF Owned
    <2>3. consents[c].status # "None"
      BY <1>0, <1>1, <2>2 DEF Owned
    <2>4. f \in First(c, tokens) /\ tokens'[f].exp = tokens[f].exp
      BY <1>0, <2>1, <2>2, <2>3, FirstTokensStay
    <2>5. QED  BY <1>0, <1>1, <2>1, <2>2, <2>4 DEF RenewedLate
  <1>2. CASE ~Issued(t)
    <2>1. PICK w \in Worker : SaveToken(w) /\ work[w].token = t
      BY <1>0, <1>2, LedgerGrows DEF Issued
    <2>2. tokens'[t] = Record(work[w]) /\ work[w].consent \in Consent /\ work[w] \in Handler
      BY <1>0, <2>1, SaveTokenFacts
    <2>3. PICK c \in Consent : c = work[w].consent
      BY <2>2
    <2>4. tokens'[t].consent = c /\ work[w].op = "renew" /\ tokens'[t].exp = work[w].at + TokenLifetime
      BY <2>2, <2>3 DEF Record, Expiry
    <2>5. Exists(c) /\ Renewing(w) /\ Using(w)
      BY <1>0, <2>1, <2>3, <2>4, SaveTokenFacts DEF SaveToken, Running, Renewing, Using, Drawing
    <2>6. f \in First(c, tokens) /\ tokens'[f].exp = tokens[f].exp
      BY <1>0, <2>4, <2>5, FirstTokensStay DEF Exists
    <2>7. tokens[f].exp = work[w].old.expires /\ tokens[work[w].old.token].exp = work[w].old.expires
      BY <1>0, <2>3, <2>5, <2>6 DEF SnapshotsAgree, Agrees, FirstDate, RenewsFirst
    <2>8. work[w].old.tokenExpires = work[w].old.expires
      BY <1>0, <2>5, <2>7 DEF ColumnsDated, Dated
    <2>9. work[w].old.expires <= work[w].at + RenewalLead
      BY <1>0, <2>5, <2>8 DEF DecidedInWindow
    <2>10. work[w].old.expires \in Nat /\ work[w].at \in Nat
      BY <2>2 DEF Handler, ConsentRow
    <2>11. QED  BY <2>4, <2>6, <2>7, <2>9, <2>10, TokenConstants DEF HalfLead
  <1>3. QED  BY <1>1, <1>2

LEMMA RenewsFirstStep == ASSUME RenewalInv, HalfLead, [Next]_vars PROVE RenewsFirst'
  <1> SUFFICES ASSUME NEW w \in Worker, Renewing(w)'
               PROVE  work'[w].old.token \in First(work'[w].consent, tokens')
    BY DEF RenewsFirst
  <1>0. /\ TypeOK /\ AgreementInv /\ AimsAtIssued /\ RenewedLate /\ RenewsFirst
        /\ SnapshotsAgree /\ ColumnsDated
    BY RenewalTypes DEF RenewalInv
  <1>1. /\ Using(w) /\ work'[w].old = work[w].old /\ work'[w].consent = work[w].consent
        /\ work[w] \in Handler
    BY <1>0, RenewalStep, RunningType DEF Using
  <1>2. PICK c \in Consent : c = work[w].consent /\ consents[c].status # "None"
    BY <1>0, <1>1 DEF AimsAtIssued, Using
  <1>3. work[w].old.token \in First(c, tokens)
    <2>1. CASE Renewing(w)
      BY <1>0, <1>2, <2>1 DEF RenewsFirst
    <2>2. CASE MayRenew(work[w].old)
      <3> DEFINE row == work[w].old
      <3>1. /\ row.token \in Token /\ Issued(row.token) /\ tokens[row.token].consent = c
            /\ FirstDate(row.expires, c, tokens) /\ row.tokenExpires = tokens[row.token].exp
        BY <1>0, <1>1, <1>2 DEF SnapshotsAgree, Agrees, Names, Issued, ColumnsDated, Dated
      <3>2. row.expires \in Nat /\ row.tokenExpires \in Nat /\ now \in Nat
        BY <1>0, <1>1 DEF Handler, ConsentRow, TypeOK
      <3>3. now < row.expires /\ row.tokenExpires <= now + RenewalLead
        BY <2>2, <3>2, TokenConstants DEF MayRenew, InRenewalWindow
      <3>4. ASSUME tokens[row.token].by = "renew" PROVE FALSE
        <4>1. PICK f \in First(c, tokens) : tokens[f].exp = row.expires
          BY <3>1 DEF FirstDate
        <4>2. row.tokenExpires >= row.expires + RenewalLead
          BY <1>0, <3>1, <3>4, <4>1 DEF RenewedLate
        <4>3. QED  BY <3>2, <3>3, <4>2, TokenConstants
      <3>5. QED  BY <1>0, <3>1, <3>4, LedgerTypes DEF First, Issued
    <2>3. QED  BY <1>0, <2>1, <2>2, RenewalStep
  <1>4. First(c, tokens') = First(c, tokens)
    BY <1>0, <1>2, FirstTokensStay
  <1>5. QED  BY <1>1, <1>2, <1>3, <1>4

LEMMA RenewalInductive == RenewalInv /\ [Next]_vars => RenewalInv'
  BY ColumnsInductive, OwnedStep, RenewedLateStep, RenewsFirstStep DEF RenewalInv

LEMMA RenewalStart == Init => RenewalInv
  BY ColumnsStart DEF Init, RenewalInv, Owned, RenewedLate, RenewsFirst, Renewing, Issued

(* When TokenLifetimeDays is at least twice RenewalLeadDays, only the first *)
(* token of a consent is ever renewed, however renewals overlap.            *)
THEOREM FirstTokenRenews == Spec => [](HalfLead => OnlyFirstTokenRenews)
  <1>1. RenewalInv => (HalfLead => OnlyFirstTokenRenews)
    BY DEF RenewalInv, RenewsFirst, OnlyFirstTokenRenews, Running, Renewing, First,
           FirstTokens, Issued
  <1>2. QED  BY <1>1, RenewalStart, RenewalInductive, PTL DEF Spec

-----------------------------------------------------------------------------
(* The key column.  A renewal leaves TokenKeyId alone when it signs with    *)
(* the key that it has loaded; that is right as long as the token it has    *)
(* loaded is still the row's, and so the key is.                            *)

LoadedKeyStands ==
    \A w \in Worker :
        /\ work[w] # Idle /\ work[w].op = "renew" /\ Exists(work[w].consent)
        /\ work[w].old.token = consents[work[w].consent].token
        => work[w].old.key = consents[work[w].consent].key

KeyColumnInv == AgreementInv /\ LoadedKeyStands /\ KeyColumnAgrees

(* What a step that saves no token leaves of a consent's columns. *)
LEMMA KeyKept ==
  ASSUME RevocationInv, [Next]_vars, NEW c \in Consent, Exists(c)',
         \A w \in Worker : ~SaveToken(w)
  PROVE  /\ Exists(c) /\ consents'[c].key = consents[c].key
         /\ consents'[c].token = consents[c].token
  <1>1. consents[c] \in ConsentRow
    BY DEF RevocationInv, TypeOK
  <1>2. consents'[c] = consents[c] \/ consents'[c] = [consents[c] EXCEPT !.status = "Revoked"]
    BY ConsentStep DEF Exists
  <1>3. Exists(c)
    BY <1>2, ConsentStep DEF Exists
  <1>4. QED  BY <1>1, <1>2, <1>3 DEF ConsentRow

LEMMA KeySaved ==
  ASSUME KeyColumnInv, [Next]_vars, NEW w \in Worker, SaveToken(w)
  PROVE  KeyColumnAgrees'
  <1>0. TypeOK /\ RevocationInv /\ DrawnFresh /\ RowsAgree
    BY AgreementTypes DEF KeyColumnInv, AgreementInv
  <1>1. PICK c \in Consent, t \in Token : c = work[w].consent /\ t = work[w].token
    BY <1>0, SaveTokenFacts
  <1>2. /\ tokens' = [tokens EXCEPT ![t] = Record(work[w])]
        /\ Drawing(w) /\ ~Issued(t) /\ work[w] \in Handler
        /\ consents' = [consents EXCEPT ![c] =
                          IF work[w].op = "issue" THEN NewConsent(work[w])
                          ELSE Renewed(consents[c], work[w])]
        /\ work[w].op = "renew" => Exists(c)
        /\ mixed' = IF work[w].op = "renew" /\ consents[c].token # work[w].old.token
                    THEN mixed \cup {c} ELSE mixed \ {c}
    BY <1>0, <1>1, SaveTokenFacts DEF DrawnFresh, SaveToken
  <1>3. tokens'[t].key = work[w].key
    BY <1>0, <1>2 DEF TypeOK, Record
  <1>4. ASSUME c \notin mixed' PROVE consents'[c].token = t /\ consents'[c].key = work[w].key
    <2>1. CASE work[w].op = "issue"
      BY <1>0, <1>1, <1>2, <2>1 DEF NewConsent, TypeOK
    <2>2. CASE work[w].op = "renew"
      <3>1. consents[c].token = work[w].old.token
        BY <1>2, <1>4, <2>2
      <3>2. work[w].old.key = consents[c].key /\ consents[c] \in ConsentRow
        BY <1>0, <1>1, <1>2, <2>2, <3>1 DEF KeyColumnInv, LoadedKeyStands, Drawing, TypeOK
      <3>3. consents'[c] = Renewed(consents[c], work[w])
        BY <1>0, <1>2, <2>2 DEF TypeOK
      <3>4. QED  BY <1>1, <3>2, <3>3 DEF Renewed, ConsentRow
    <2>3. QED  BY <1>2, <2>1, <2>2 DEF Drawing
  <1>5. ASSUME NEW d \in Consent \ mixed', d # c, Exists(d)'
        PROVE  consents'[d].key = tokens'[consents'[d].token].key
    <2>1. consents'[d] = consents[d] /\ Exists(d) /\ d \notin mixed
      BY <1>0, <1>2, <1>5 DEF TypeOK, Exists
    <2>2. consents[d].token \in Token /\ consents[d].token # t
      BY <1>0, <1>2, <2>1 DEF RowsAgree, Agrees, Names, Issued
    <2>3. tokens'[consents[d].token] = tokens[consents[d].token]
      BY <1>0, <1>2, <2>2 DEF TypeOK
    <2>4. QED  BY <2>1, <2>3 DEF KeyColumnInv, KeyColumnAgrees
  <1>6. QED  BY <1>3, <1>4, <1>5 DEF KeyColumnAgrees

LEMMA MixedKept ==
  ASSUME [Next]_vars, \A w \in Worker : ~SaveToken(w)
  PROVE  mixed' = mixed
  BY DEF Next, vars, observed, Tick, Crash, Erase, Arrive, Decide, Save, StartIssue,
         StartRenew, StartRotate, StartRevoke, StartSubmit, Load, IssueToken, RenewToken,
         RotateKey, RevokeConsent, AdmitToken, FlushRotation, FlushFails, SaveRotation,
         SaveRevocation, SaveApplication, SaveFails

(* A renewal's snapshot and its row: a token that is saved is new, so it is *)
(* not the one any other handler has loaded.                                *)
LEMMA LoadedKeyStep ==
  ASSUME KeyColumnInv, [Next]_vars, NEW w \in Worker, NEW c \in Consent, work[w] # Idle,
         work[w].op = "renew", work[w].consent = c, Exists(c)',
         work[w].old.token = consents'[c].token
  PROVE  work[w].old.key = consents'[c].key
  <1>0. /\ TypeOK /\ RevocationInv /\ DrawnFresh /\ SnapshotsAgree /\ LoadedKeyStands
    BY AgreementTypes DEF KeyColumnInv, AgreementInv
  <1>1. CASE \A v \in Worker : ~SaveToken(v)
    <2>1. /\ Exists(c) /\ consents'[c].key = consents[c].key
          /\ consents'[c].token = consents[c].token
      BY <1>0, <1>1, KeyKept
    <2>2. QED  BY <1>0, <2>1 DEF LoadedKeyStands
  <1>2. ASSUME NEW v \in Worker, SaveToken(v)
        PROVE  work[w].old.key = consents'[c].key
    <2>1. CASE work[v].consent # c
      <3>1. consents'[c] = consents[c] /\ Exists(c)
        BY <1>0, <1>2, <2>1 DEF SaveToken, TypeOK, Exists
      <3>2. QED  BY <1>0, <3>1 DEF LoadedKeyStands
    <2>2. CASE work[v].consent = c
      <3>1. consents'[c].token = work[v].token
        BY <1>0, <1>2, <2>2 DEF SaveToken, NewConsent, Renewed, TypeOK, ConsentRow
      <3>2. ~Issued(work[v].token)
        BY <1>0, <1>2, SaveTokenFacts DEF DrawnFresh
      <3>3. Issued(work[w].old.token)
        BY <1>0 DEF SnapshotsAgree, Using, Agrees, Names, Issued
      <3>4. QED  BY <3>1, <3>2, <3>3
    <2>3. QED  BY <2>1, <2>2
  <1>3. QED  BY <1>1, <1>2

LEMMA KeyColumnStep ==
  ASSUME KeyColumnInv, [Next]_vars PROVE KeyColumnInv'
  <1>0. /\ TypeOK /\ RevocationInv /\ DrawnFresh /\ RowsAgree /\ AimsAtIssued
        /\ AgreementInv' /\ LoadedKeyStands
    BY AgreementTypes, AgreementInductive DEF KeyColumnInv, AgreementInv
  <1>1. KeyColumnAgrees'
    <2>1. CASE \E w \in Worker : SaveToken(w)
      BY <2>1, KeySaved
    <2>2. ASSUME \A w \in Worker : ~SaveToken(w), NEW c \in Consent \ mixed', Exists(c)'
          PROVE  consents'[c].key = tokens'[consents'[c].token].key
      <3>1. /\ Exists(c) /\ consents'[c].key = consents[c].key
            /\ consents'[c].token = consents[c].token
        BY <1>0, <2>2, KeyKept
      <3>2. tokens' = tokens /\ mixed' = mixed
        BY <1>0, <2>2, LedgerStep, MixedKept
      <3>3. QED  BY <2>2, <3>1, <3>2 DEF KeyColumnInv, KeyColumnAgrees
    <2>3. QED  BY <2>1, <2>2 DEF KeyColumnAgrees
  <1>2. ASSUME NEW w \in Worker, work'[w] # Idle, work'[w].op = "renew",
               Exists(work[w].consent)',
               work'[w].old.token = consents'[work'[w].consent].token
        PROVE  work'[w].old.key = consents'[work'[w].consent].key
    <2>1. CASE Arrive(w)
      <3>1. consents' = consents /\ work'[w].old = consents[work'[w].consent]
        BY <1>0, <1>2, <2>1, ArriveDraws, ArriveHandler
      <3>2. QED  BY <3>1
    <2>2. CASE ~Arrive(w)
      <3>1. /\ work[w] # Idle /\ work[w].op = "renew"
            /\ work'[w].consent = work[w].consent /\ work'[w].old = work[w].old
        BY <1>0, <1>2, <2>2, HandlerStep
      <3>2. PICK c \in Consent : c = work[w].consent
        BY <1>0, <3>1 DEF AimsAtIssued
      <3>3. Exists(c)'
        BY <1>2, <3>1, <3>2 DEF Exists
      <3>4. QED  BY <1>2, <3>1, <3>2, <3>3, LoadedKeyStep
    <2>3. QED  BY <2>1, <2>2
  <1>3. LoadedKeyStands'
    BY <1>2 DEF LoadedKeyStands, Exists
  <1>4. QED  BY <1>0, <1>1, <1>3 DEF KeyColumnInv

(* TokenKeyId of a consent names the key that signed its current token,     *)
(* whatever was renewed and whichever keys were rotated, unless the token   *)
(* was saved by a renewal over another one's.                               *)
THEOREM KeyColumnMatches == Spec => []KeyColumnAgrees
  <1>1. Init => KeyColumnInv
    BY AgreementStarts DEF Init, KeyColumnInv, LoadedKeyStands, KeyColumnAgrees, Exists,
       BlankConsent
  <1>2. KeyColumnInv /\ [Next]_vars => KeyColumnInv'
    BY KeyColumnStep
  <1>3. KeyColumnInv => KeyColumnAgrees
    BY DEF KeyColumnInv
  <1>4. QED  BY <1>1, <1>2, <1>3, PTL DEF Spec

=============================================================================
