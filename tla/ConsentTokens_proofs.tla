------------------------- MODULE ConsentTokens_proofs -------------------------
(***************************************************************************)
(* Theorems about ConsentTokens, for every set of consents, tokens, keys   *)
(* and workers and every setting of the lifetimes.                         *)
(***************************************************************************)
EXTENDS ConsentTokens, FiniteSetTheorems, TLAPS

USE TokenConstants

-----------------------------------------------------------------------------
(* Type correctness.                                                       *)

WorkOK ==
    /\ work \in [Worker -> Handler \cup {Idle}]
    /\ \A w \in Worker : work[w] # Idle => Equipped(work[w])

LEMMA InitType == Init => TypeOK
  BY DEF Init, TypeOK, ConsentRow, BlankConsent, KeyRow, BlankKey, NoClaims, Claims, Idle

LEMMA TickType == TypeOK /\ Tick => TypeOK'
  BY DEF TypeOK, Tick, Equipped, observed

LEMMA EraseType == ASSUME TypeOK, NEW c \in Consent, Erase(c) PROVE TypeOK'
  <1>1. [BlankConsent EXCEPT !.status = "Erased"] \in ConsentRow
    BY DEF BlankConsent, ConsentRow
  <1>2. QED  BY <1>1 DEF TypeOK, Erase, Equipped, observed

LEMMA CrashType == TypeOK /\ Crash => TypeOK'
  BY DEF TypeOK, Crash

(* A worker returns, or goes on with an updated handler. *)
LEMMA ReturnType == ASSUME TypeOK, NEW w \in Worker, Return(w) PROVE WorkOK'
  BY DEF TypeOK, WorkOK, Return, Equipped

LEMMA UpdateType ==
  ASSUME TypeOK, NEW w \in Worker, NEW h \in Handler, Equipped(h),
         Continue(w, h)
  PROVE  WorkOK'
  BY DEF TypeOK, WorkOK, Equipped, Continue

LEMMA RunningType ==
  ASSUME TypeOK, NEW w \in Worker, work[w] # Idle
  PROVE  work[w] \in Handler /\ Equipped(work[w]) /\ now \in Nat
  BY DEF TypeOK

LEMMA LoadType ==
  ASSUME TypeOK, NEW w \in Worker, NEW op \in Operation,
         NEW c \in Consent \cup {NoConsent}, NEW t \in Token \cup {NoToken},
         NEW k \in Key \cup {NoKey}, Load(w, op, c, t, k),
         op \in {"issue", "renew"} => c \in Consent /\ t \in Token /\ k \in Key
  PROVE  TypeOK'
  <1> DEFINE h == [stage |-> "loaded", op |-> op, consent |-> c, token |-> t,
                   old |-> IF c = NoConsent THEN BlankConsent ELSE consents[c],
                   newKey |-> k, key |-> NoKey, retire |-> NoKey,
                   rotation |-> "none", at |-> now]
  <1>1. h.old \in ConsentRow
    BY DEF TypeOK, ConsentRow, BlankConsent
  <1>2. h \in Handler
    BY <1>1 DEF TypeOK, Handler
  <1>3. Equipped(h)
    BY DEF Equipped
  <1>4. Continue(w, h)
    BY DEF Load, Continue
  <1> HIDE DEF h
  <1>5. WorkOK'
    BY <1>2, <1>3, <1>4, UpdateType
  <1>6. QED  BY <1>5 DEF TypeOK, WorkOK, Load, observed

(* The updates that steps make to a handler. *)
LEMMA HandlerUpdates ==
  ASSUME NEW h \in Handler, NEW k \in Key \cup {NoKey}, NEW old \in Key \cup {NoKey},
         NEW n \in Nat
  PROVE  /\ [h EXCEPT !.stage = "saving", !.key = k, !.at = n] \in Handler
         /\ [h EXCEPT !.stage = "rotating", !.key = k, !.retire = old,
                      !.rotation = "pending", !.at = n] \in Handler
         /\ [h EXCEPT !.stage = "rotating", !.retire = old, !.rotation = "pending",
                      !.at = n] \in Handler
         /\ [h EXCEPT !.stage = "saving", !.rotation = "none"] \in Handler
         /\ [h EXCEPT !.stage = "saving", !.at = n] \in Handler
         /\ [h EXCEPT !.stage = "saving"] \in Handler
  <1>1. [h EXCEPT !.stage = "saving", !.key = k, !.at = n] \in Handler
    BY DEF Handler
  <1>2. [h EXCEPT !.stage = "rotating", !.key = k, !.retire = old,
                  !.rotation = "pending", !.at = n] \in Handler
    BY DEF Handler
  <1>3. [h EXCEPT !.stage = "rotating", !.retire = old, !.rotation = "pending",
                  !.at = n] \in Handler
    BY DEF Handler
  <1>4. [h EXCEPT !.stage = "saving", !.rotation = "none"] \in Handler
    BY DEF Handler
  <1>5. [h EXCEPT !.stage = "saving", !.at = n] \in Handler
    BY DEF Handler
  <1>6. [h EXCEPT !.stage = "saving"] \in Handler
    BY DEF Handler
  <1>7. QED  BY <1>1, <1>2, <1>3, <1>4, <1>5, <1>6

LEMMA EquippedUpdates ==
  ASSUME NEW h \in Handler, Equipped(h), NEW k \in Key \cup {NoKey},
         NEW old \in Key \cup {NoKey}, NEW n \in Nat
  PROVE  /\ k \in Key => Equipped([h EXCEPT !.stage = "saving", !.key = k, !.at = n])
         /\ k \in Key => Equipped([h EXCEPT !.stage = "rotating", !.key = k,
                                     !.retire = old, !.rotation = "pending", !.at = n])
         /\ h.op = "rotate" => Equipped([h EXCEPT !.stage = "rotating", !.retire = old,
                                           !.rotation = "pending", !.at = n])
         /\ h.stage = "rotating" =>
               Equipped([h EXCEPT !.stage = "saving", !.rotation = "none"])
         /\ h.op \notin {"issue", "renew"} =>
               Equipped([h EXCEPT !.stage = "saving", !.at = n])
         /\ h.stage = "rotating" => Equipped([h EXCEPT !.stage = "saving"])
  BY DEF Handler, Equipped

LEMMA MintType ==
  ASSUME TypeOK, NEW w \in Worker, work[w] # Idle, work[w].op \in {"issue", "renew"},
         MintToken(w)
  PROVE  WorkOK'
  <1> DEFINE h == work[w]
  <1>0. /\ h \in Handler /\ Equipped(h) /\ now \in Nat
        /\ h.newKey \in Key
    BY RunningType DEF Equipped
  <1>1. CASE \E k \in Key : Reusable(k)
    <2>1. PICK k \in Key :
            Continue(w, [h EXCEPT !.stage = "saving", !.key = k, !.at = now])
      BY <1>1 DEF MintToken
    <2> DEFINE g == [h EXCEPT !.stage = "saving", !.key = k, !.at = now]
    <2>2. g \in Handler /\ Equipped(g)
      <3> HIDE DEF h
      <3>1. QED  BY <1>0, HandlerUpdates, EquippedUpdates
    <2> HIDE DEF g
    <2>3. QED  BY <2>1, <2>2, UpdateType DEF g
  <1>2. CASE ~\E k \in Key : Reusable(k)
    <2>1. PICK old \in Key \cup {NoKey} :
            Continue(w, [h EXCEPT !.stage = "rotating", !.key = h.newKey, !.retire = old,
                                  !.rotation = "pending", !.at = now])
      BY <1>2 DEF MintToken
    <2> DEFINE g == [h EXCEPT !.stage = "rotating", !.key = h.newKey, !.retire = old,
                              !.rotation = "pending", !.at = now]
    <2>2. g \in Handler /\ Equipped(g)
      <3> HIDE DEF h
      <3>1. QED  BY <1>0, HandlerUpdates, EquippedUpdates
    <2>3. Continue(w, g)
      BY <2>1
    <2> HIDE DEF g
    <2>4. QED  BY <2>2, <2>3, UpdateType
  <1>3. QED  BY <1>1, <1>2

LEMMA RotatedType ==
  ASSUME TypeOK, NEW w \in Worker, work[w] \in Handler
  PROVE  /\ Rotated(work[w]) \in [Key -> KeyRow]
         /\ AfterRotation(work[w]) \in [Key -> KeyRow]
  BY DEF TypeOK, Rotated, AfterRotation, KeyRow, Handler

LEMMA ArriveType == ASSUME TypeOK, NEW w \in Worker, Arrive(w) PROVE TypeOK'
  <1>1. CASE StartIssue(w)
    <2>1. PICK c \in Consent, t \in Token, k \in Key : Load(w, "issue", c, t, k)
      BY <1>1 DEF StartIssue
    <2>2. QED  BY <2>1, LoadType DEF Operation
  <1>2. CASE StartRenew(w)
    <2>1. PICK c \in Consent, t \in Token, k \in Key : Load(w, "renew", c, t, k)
      BY <1>2 DEF StartRenew
    <2>2. QED  BY <2>1, LoadType DEF Operation
  <1>3. CASE StartRotate(w)
    <2>1. PICK k \in Key : Load(w, "rotate", NoConsent, NoToken, k)
      BY <1>3 DEF StartRotate
    <2>2. QED  BY <2>1, LoadType DEF Operation
  <1>4. CASE StartRevoke(w)
    <2>1. PICK c \in Consent : Load(w, "revoke", c, NoToken, NoKey)
      BY <1>4 DEF StartRevoke
    <2>2. QED  BY <2>1, LoadType DEF Operation
  <1>5. CASE StartSubmit(w)
    <2>1. PICK c \in Consent, op \in {"jwt", "ctok"} :
            Load(w, op, c, consents[c].token, NoKey)
      BY <1>5 DEF StartSubmit
    <2>2. consents[c].token \in Token \cup {NoToken}
      BY DEF TypeOK, ConsentRow
    <2>3. QED  BY <2>1, <2>2, LoadType DEF Operation
  <1>6. QED  BY <1>1, <1>2, <1>3, <1>4, <1>5 DEF Arrive

(* Everything but the handlers is as it was. *)
LEMMA SameTables ==
  ASSUME TypeOK, WorkOK', UNCHANGED <<now, consents, keys, tokens, observed>>
  PROVE  TypeOK'
  BY DEF TypeOK, WorkOK, Equipped, observed

LEMMA DecideType == ASSUME TypeOK, NEW w \in Worker, Decide(w) PROVE TypeOK'
  <1> DEFINE h == work[w]
  <1>1. CASE IssueToken(w)
    BY <1>1, MintType, SameTables DEF IssueToken, Running
  <1>2. CASE RenewToken(w)
    <2>1. work[w] # Idle /\ work[w].op \in {"issue", "renew"}
      BY <1>2 DEF RenewToken, Running
    <2>2. MintToken(w) \/ Return(w)
      BY <1>2 DEF RenewToken
    <2>3. WorkOK'
      BY <2>1, <2>2, MintType, ReturnType
    <2>4. QED  BY <1>2, <2>3, SameTables DEF RenewToken
  <1>3. CASE RotateKey(w)
    <2>1. PICK old \in Key \cup {NoKey} :
            Continue(w, [h EXCEPT !.stage = "rotating", !.retire = old,
                                  !.rotation = "pending", !.at = now])
      BY <1>3 DEF RotateKey
    <2>2. h \in Handler /\ Equipped(h) /\ now \in Nat /\ h.op = "rotate"
      BY <1>3, RunningType DEF RotateKey, Running
    <2> DEFINE g == [h EXCEPT !.stage = "rotating", !.retire = old,
                              !.rotation = "pending", !.at = now]
    <2>3. g \in Handler /\ Equipped(g)
      <3> HIDE DEF h
      <3>1. QED  BY <2>2, HandlerUpdates, EquippedUpdates
    <2>4. Continue(w, g)
      BY <2>1
    <2> HIDE DEF g
    <2>5. WorkOK'
      BY <2>3, <2>4, UpdateType
    <2>6. QED  BY <1>3, <2>5, SameTables DEF RotateKey
  <1>4. CASE RevokeConsent(w) \/ AdmitToken(w)
    <2> DEFINE g == [h EXCEPT !.stage = "saving", !.at = now]
    <2>1. /\ h \in Handler /\ Equipped(h) /\ now \in Nat
          /\ h.op \notin {"issue", "renew"}
      BY <1>4, RunningType DEF RevokeConsent, AdmitToken, Running
    <2>2. g \in Handler /\ Equipped(g)
      <3> HIDE DEF h
      <3>1. QED  BY <2>1, HandlerUpdates, EquippedUpdates
    <2>3. Continue(w, g) \/ Return(w)
      BY <1>4 DEF RevokeConsent, AdmitToken
    <2> HIDE DEF g
    <2>4. WorkOK'
      BY <2>2, <2>3, UpdateType, ReturnType
    <2>5. QED  BY <1>4, <2>4, SameTables DEF RevokeConsent, AdmitToken
  <1>5. QED  BY <1>1, <1>2, <1>3, <1>4 DEF Decide

LEMMA NewConsentType ==
  ASSUME NEW h \in Handler, h.token \in Token, h.key \in Key
  PROVE  NewConsent(h) \in ConsentRow
  BY DEF NewConsent, ConsentRow, Handler, Expiry

LEMMA ConsentUpdates ==
  ASSUME NEW row \in ConsentRow, NEW t \in Token, NEW n \in Nat,
         NEW k \in Key \cup {NoKey}
  PROVE  [row EXCEPT !.token = t, !.hash = t, !.tokenExpires = n, !.key = k] \in ConsentRow
  BY DEF ConsentRow

LEMMA RevokedType ==
  ASSUME NEW row \in ConsentRow PROVE [row EXCEPT !.status = "Revoked"] \in ConsentRow
  BY DEF ConsentRow

LEMMA RenewedType ==
  ASSUME NEW h \in Handler, NEW row \in ConsentRow, h.token \in Token, h.key \in Key
  PROVE  Renewed(row, h) \in ConsentRow
  <1> DEFINE n == IF Expiry(h) = h.old.tokenExpires THEN row.tokenExpires ELSE Expiry(h)
  <1> DEFINE k == IF h.key = h.old.key THEN row.key ELSE h.key
  <1>1. n \in Nat
    BY DEF ConsentRow, Handler, Expiry
  <1>2. k \in Key \cup {NoKey}
    BY DEF ConsentRow
  <1>3. Renewed(row, h)
          = [row EXCEPT !.token = h.token, !.hash = h.token, !.tokenExpires = n, !.key = k]
    BY DEF Renewed
  <1> HIDE DEF n, k
  <1>4. [row EXCEPT !.token = h.token, !.hash = h.token, !.tokenExpires = n, !.key = k]
          \in ConsentRow
    BY <1>1, <1>2, ConsentUpdates
  <1>5. QED  BY <1>3, <1>4

LEMMA OvertakeType ==
  ASSUME TypeOK, NEW w \in Worker, Overtake(w) \/ OvertakeIfPending(w)
  PROVE  behind' \subseteq Worker /\ overtaken' \in Nat
  BY DEF TypeOK, Overtake, OvertakeIfPending

LEMMA SaveTokenType == ASSUME TypeOK, NEW w \in Worker, SaveToken(w) PROVE TypeOK'
  <1> DEFINE h == work[w]
  <1>1. /\ h \in Handler /\ h.op \in {"issue", "renew"}
        /\ h.consent \in Consent /\ h.token \in Token /\ h.key \in Key
    BY RunningType DEF SaveToken, Running, Equipped
  <1>2. consents' \in [Consent -> ConsentRow]
    <2>1. consents[h.consent] \in ConsentRow
      BY <1>1 DEF TypeOK
    <2>2. NewConsent(h) \in ConsentRow /\ Renewed(consents[h.consent], h) \in ConsentRow
      <3> HIDE DEF h
      <3>1. QED  BY <1>1, <2>1, NewConsentType, RenewedType
    <2>3. QED  BY <2>2 DEF TypeOK, SaveToken
  <1>3. tokens' \in [Token -> Claims \cup {NoClaims}]
    <2>1. Record(h) \in Claims
      BY <1>1 DEF Record, Claims, Expiry, Handler
    <2>2. QED  BY <2>1 DEF TypeOK, SaveToken
  <1>4. keys' \in [Key -> KeyRow]
    BY <1>1, RotatedType DEF SaveToken
  <1>5. WorkOK'
    BY ReturnType DEF SaveToken
  <1>6. now' \in 0..MaxTime
    BY DEF TypeOK, SaveToken
  <1>7. behind' \subseteq Worker /\ overtaken' \in Nat /\ mixed' \subseteq Consent
    <2>1. mixed' \subseteq Consent
      BY <1>1 DEF TypeOK, SaveToken
    <2>2. QED  BY <2>1, OvertakeType DEF SaveToken
  <1>8. QED  BY <1>2, <1>3, <1>4, <1>5, <1>6, <1>7 DEF TypeOK, WorkOK

LEMMA SaveType == ASSUME TypeOK, NEW w \in Worker, Save(w) PROVE TypeOK'
  <1> DEFINE h == work[w]
  <1>1. CASE FlushRotation(w)
    <2>1. h \in Handler /\ Equipped(h) /\ h.stage = "rotating"
      BY <1>1, RunningType DEF FlushRotation, Running
    <2> DEFINE g == [h EXCEPT !.stage = "saving", !.rotation = "none"]
    <2>2. g \in Handler /\ Equipped(g)
      <3> HIDE DEF h
      <3>1. NoKey \in Key \cup {NoKey} /\ 0 \in Nat
        OBVIOUS
      <3>2. QED  BY <2>1, <3>1, HandlerUpdates, EquippedUpdates
    <2>3. Continue(w, g) \/ Return(w)
      BY <1>1 DEF FlushRotation
    <2> HIDE DEF g
    <2>4. WorkOK'
      BY <2>2, <2>3, UpdateType, ReturnType
    <2>5. keys' \in [Key -> KeyRow]
      BY <1>1, <2>1, RotatedType DEF FlushRotation
    <2>6. behind' \subseteq Worker /\ overtaken' \in Nat
      BY <1>1, OvertakeType DEF FlushRotation
    <2>7. QED  BY <1>1, <2>4, <2>5, <2>6 DEF TypeOK, WorkOK, FlushRotation
  <1>2. CASE FlushFails(w)
    <2>1. h \in Handler /\ Equipped(h) /\ h.stage = "rotating"
      BY <1>2, RunningType DEF FlushFails, Running
    <2> DEFINE g == [h EXCEPT !.stage = "saving"]
    <2>2. g \in Handler /\ Equipped(g)
      <3> HIDE DEF h
      <3>1. NoKey \in Key \cup {NoKey} /\ 0 \in Nat
        OBVIOUS
      <3>2. QED  BY <2>1, <3>1, HandlerUpdates, EquippedUpdates
    <2>3. Continue(w, g)
      BY <1>2 DEF FlushFails
    <2> HIDE DEF g
    <2>4. WorkOK'
      BY <2>2, <2>3, UpdateType
    <2>5. QED  BY <1>2, <2>4, SameTables DEF FlushFails
  <1>3. CASE SaveToken(w)
    BY <1>3, SaveTokenType
  <1>4. CASE SaveRotation(w)
    <2>1. h \in Handler
      BY <1>4, RunningType DEF SaveRotation, Running
    <2>2. WorkOK' /\ keys' \in [Key -> KeyRow]
      BY <1>4, <2>1, ReturnType, RotatedType DEF SaveRotation
    <2>3. behind' \subseteq Worker /\ overtaken' \in Nat
      BY <1>4, OvertakeType DEF SaveRotation
    <2>4. QED  BY <1>4, <2>2, <2>3 DEF TypeOK, WorkOK, SaveRotation
  <1>5. CASE SaveRevocation(w)
    <2>1. WorkOK'
      BY <1>5, ReturnType DEF SaveRevocation
    <2>2. consents' \in [Consent -> ConsentRow]
      <3> DEFINE row == [consents[h.consent] EXCEPT !.status = "Revoked"]
      <3>1. consents' = [consents EXCEPT ![h.consent] = row]
        BY <1>5 DEF SaveRevocation
      <3>2. h.consent \in Consent => row \in ConsentRow
        BY RevokedType DEF TypeOK
      <3> HIDE DEF h, row
      <3>3. QED  BY <3>1, <3>2 DEF TypeOK
    <2>3. QED  BY <1>5, <2>1, <2>2 DEF TypeOK, WorkOK, SaveRevocation, observed
  <1>6. CASE SaveApplication(w)
    BY <1>6, ReturnType, SameTables DEF SaveApplication
  <1>7. CASE SaveFails(w)
    <2>1. WorkOK'
      BY <1>7, ReturnType DEF SaveFails
    <2>2. QED  BY <1>7, <2>1 DEF TypeOK, WorkOK, SaveFails
  <1>8. QED  BY <1>1, <1>2, <1>3, <1>4, <1>5, <1>6, <1>7 DEF Save

LEMMA NextType == TypeOK /\ [Next]_vars => TypeOK'
  <1> SUFFICES ASSUME TypeOK, [Next]_vars PROVE TypeOK'
    OBVIOUS
  <1>1. CASE Tick
    BY <1>1, TickType
  <1>2. CASE Crash
    BY <1>2, CrashType
  <1>3. ASSUME NEW c \in Consent, Erase(c) PROVE TypeOK'
    BY <1>3, EraseType
  <1>4. ASSUME NEW w \in Worker, Arrive(w) \/ Decide(w) \/ Save(w) PROVE TypeOK'
    BY <1>4, ArriveType, DecideType, SaveType
  <1>5. CASE UNCHANGED vars
    BY <1>5 DEF TypeOK, vars, Equipped, observed
  <1>6. QED  BY <1>1, <1>2, <1>3, <1>4, <1>5 DEF Next

(* Every reachable state is well typed; in particular a token is never      *)
(* recorded without its consent and the key that signed it.                 *)
THEOREM TypeCorrect == Spec => []TypeOK
  <1>1. QED  BY InitType, NextType, PTL DEF Spec

-----------------------------------------------------------------------------
(* What a step leaves of the other handlers and of its own.                *)

LEMMA HandlerKeeps ==
  ASSUME TypeOK, NEW w \in Worker, Decide(w) \/ Save(w)
  PROVE  /\ \A v \in Worker : v # w => work'[v] = work[v]
         /\ work[w] # Idle
         /\ work'[w] # Idle =>
               /\ work'[w].op = work[w].op
               /\ work'[w].consent = work[w].consent
               /\ work'[w].token = work[w].token
               /\ work'[w].old = work[w].old
  <1> DEFINE Kept(g) == /\ g.op = work[w].op /\ g.consent = work[w].consent
                        /\ g.token = work[w].token /\ g.old = work[w].old
  <1>1. work[w] # Idle
    BY DEF Decide, Save, IssueToken, RenewToken, RotateKey, RevokeConsent, AdmitToken,
           FlushRotation, FlushFails, SaveToken, SaveRotation, SaveRevocation,
           SaveApplication, SaveFails, Running
  <1>2. work[w] \in Handler
    BY <1>1, RunningType
  <1>3. SUFFICES Return(w) \/ \E g : Kept(g) /\ Continue(w, g)
    BY <1>1 DEF TypeOK, Return, Continue
  <1>4. ASSUME MintToken(w) PROVE \E g : Kept(g) /\ Continue(w, g)
    BY <1>2, <1>4 DEF MintToken, Handler
  <1>5. CASE IssueToken(w) \/ RenewToken(w)
    BY <1>4, <1>5 DEF IssueToken, RenewToken
  <1>6. CASE RotateKey(w)
    BY <1>2, <1>6 DEF RotateKey, Handler
  <1>7. CASE RevokeConsent(w) \/ AdmitToken(w)
    BY <1>2, <1>7 DEF RevokeConsent, AdmitToken, Handler
  <1>8. CASE FlushRotation(w) \/ FlushFails(w)
    BY <1>2, <1>8 DEF FlushRotation, FlushFails, Handler
  <1>9. CASE SaveToken(w) \/ SaveRotation(w) \/ SaveRevocation(w) \/ SaveApplication(w)
                \/ SaveFails(w)
    BY <1>9 DEF SaveToken, SaveRotation, SaveRevocation, SaveApplication, SaveFails
  <1>10. QED  BY <1>5, <1>6, <1>7, <1>8, <1>9 DEF Decide, Save

(* The consents and the ledger change only in these four steps. *)
LEMMA TablesKept ==
  ASSUME NEW w \in Worker, Arrive(w) \/ Decide(w) \/ Save(w),
         ~SaveToken(w), ~SaveRevocation(w)
  PROVE  UNCHANGED <<now, consents, tokens>>
  BY DEF Arrive, Decide, Save, StartIssue, StartRenew, StartRotate, StartRevoke,
         StartSubmit, Load, IssueToken, RenewToken, RotateKey, RevokeConsent, AdmitToken,
         FlushRotation, FlushFails, SaveRotation, SaveApplication, SaveFails

-----------------------------------------------------------------------------
(* Revocation.  The only update that makes a consent active is the save of *)
(* an issue, so the invariant says that an issue works on a consent that   *)
(* does not exist yet, and that no other issue does.                       *)

Issuing(w) == work[w] # Idle /\ work[w].op = "issue"

IssuesAlone ==
    \A w \in Worker : Issuing(w) =>
        /\ consents[work[w].consent].status = "None"
        /\ \A v \in Worker : Issuing(v) /\ work[v].consent = work[w].consent => v = w

LEMMA IssuesAloneArrive ==
  ASSUME TypeOK, IssuesAlone, NEW w \in Worker, Arrive(w) PROVE IssuesAlone'
  <1>1. /\ UNCHANGED consents
        /\ \A v \in Worker : v # w => work'[v] = work[v]
    BY DEF Arrive, StartIssue, StartRenew, StartRotate, StartRevoke, StartSubmit, Load, TypeOK
  <1>2. CASE StartIssue(w)
    <2>1. PICK c \in Consent, t \in Token, k \in Key :
             /\ consents[c].status = "None"
             /\ \A v \in Worker : work[v] # Idle => work[v].consent # c
             /\ Load(w, "issue", c, t, k)
      BY <1>2 DEF StartIssue
    <2>2. work'[w].consent = c
      BY <2>1 DEF Load, TypeOK
    <2>3. QED  BY <1>1, <2>1, <2>2 DEF IssuesAlone, Issuing
  <1>3. CASE ~StartIssue(w)
    <2>1. work'[w].op # "issue"
      BY <1>3 DEF Arrive, StartRenew, StartRotate, StartRevoke, StartSubmit, Load, TypeOK
    <2>2. QED  BY <1>1, <2>1 DEF IssuesAlone, Issuing
  <1>4. QED  BY <1>2, <1>3

LEMMA IssuesAloneStep ==
  ASSUME TypeOK, IssuesAlone, NEW w \in Worker, Decide(w) \/ Save(w)
  PROVE  IssuesAlone'
  <1>1. \A v \in Worker : Issuing(v)' => Issuing(v) /\ work'[v].consent = work[v].consent
    BY HandlerKeeps DEF Issuing
  <1>2. SUFFICES ASSUME NEW v \in Worker, Issuing(v)'
                 PROVE  consents'[work[v].consent].status = "None"
    BY <1>1 DEF IssuesAlone
  <1>3. Issuing(v) /\ consents[work[v].consent].status = "None"
    BY <1>1, <1>2 DEF IssuesAlone
  <1>4. CASE SaveToken(w)
    <2>1. v # w
      BY <1>2, <1>4 DEF SaveToken, Return, Issuing, TypeOK
    <2>2. work[w].consent # work[v].consent
      BY <1>3, <1>4, <2>1 DEF SaveToken, Running, IssuesAlone, Issuing, Exists
    <2>3. QED  BY <1>3, <1>4, <2>2 DEF SaveToken, TypeOK
  <1>5. CASE SaveRevocation(w)
    BY <1>3, <1>5 DEF SaveRevocation, Exists, TypeOK
  <1>6. CASE ~SaveToken(w) /\ ~SaveRevocation(w)
    BY <1>3, <1>6, TablesKept
  <1>7. QED  BY <1>4, <1>5, <1>6

RevocationInv == TypeOK /\ IssuesAlone

LEMMA RevocationInductive == RevocationInv /\ [Next]_vars => RevocationInv'
  <1> SUFFICES ASSUME RevocationInv, [Next]_vars PROVE RevocationInv'
    OBVIOUS
  <1>0. TypeOK /\ TypeOK' /\ IssuesAlone
    BY NextType DEF RevocationInv
  <1>1. CASE Tick
    BY <1>0, <1>1 DEF Tick, RevocationInv, IssuesAlone, Issuing
  <1>2. CASE Crash
    BY <1>0, <1>2 DEF Crash, RevocationInv, IssuesAlone, Issuing
  <1>3. ASSUME NEW c \in Consent, Erase(c) PROVE RevocationInv'
    BY <1>0, <1>3 DEF Erase, Exists, RevocationInv, IssuesAlone, Issuing, TypeOK
  <1>4. ASSUME NEW w \in Worker, Arrive(w) \/ Decide(w) \/ Save(w) PROVE RevocationInv'
    BY <1>0, <1>4, IssuesAloneArrive, IssuesAloneStep DEF RevocationInv
  <1>5. CASE UNCHANGED vars
    BY <1>0, <1>5 DEF vars, RevocationInv, IssuesAlone, Issuing
  <1>6. QED  BY <1>1, <1>2, <1>3, <1>4, <1>5 DEF Next

LEMMA RevocationStep ==
  ASSUME RevocationInv, [Next]_vars, NEW c \in Consent, consents[c].status = "Revoked"
  PROVE  consents'[c].status \in {"Revoked", "Erased"}
  <1>1. TypeOK /\ IssuesAlone
    BY DEF RevocationInv
  <1>2. CASE Tick \/ Crash \/ UNCHANGED vars
    BY <1>2 DEF Tick, Crash, vars
  <1>3. ASSUME NEW d \in Consent, Erase(d)
        PROVE  consents'[c].status \in {"Revoked", "Erased"}
    BY <1>1, <1>3 DEF Erase, BlankConsent, TypeOK
  <1>4. ASSUME NEW w \in Worker, Arrive(w) \/ Decide(w) \/ Save(w)
        PROVE  consents'[c].status \in {"Revoked", "Erased"}
    <2>1. CASE SaveToken(w)
      <3>1. CASE work[w].op = "issue"
        <4>1. work[w].consent # c
          BY <1>1, <2>1, <3>1 DEF SaveToken, Running, IssuesAlone, Issuing
        <4>2. QED  BY <1>1, <2>1, <4>1 DEF SaveToken, TypeOK
      <3>2. CASE work[w].op # "issue"
        <4>1. consents' = [consents EXCEPT ![work[w].consent]
                             = Renewed(consents[work[w].consent], work[w])]
          BY <2>1, <3>2 DEF SaveToken
        <4>2. consents[c] \in ConsentRow
          BY <1>1 DEF TypeOK
        <4>3. Renewed(consents[c], work[w]).status = "Revoked"
          BY <4>2 DEF Renewed, ConsentRow
        <4>4. QED  BY <1>1, <4>1, <4>3 DEF TypeOK
      <3>3. QED  BY <3>1, <3>2
    <2>2. CASE SaveRevocation(w)
      BY <1>1, <2>2 DEF SaveRevocation, TypeOK, ConsentRow
    <2>3. CASE ~SaveToken(w) /\ ~SaveRevocation(w)
      BY <1>4, <2>3, TablesKept
    <2>4. QED  BY <2>1, <2>2, <2>3
  <1>5. QED  BY <1>2, <1>3, <1>4 DEF Next

(* A revoked consent stays revoked until its data is erased, whichever      *)
(* issues, renewals and rotations are in flight (SaveChanges writes only    *)
(* the columns a handler changed, and a renewal does not change Status).    *)
THEOREM RevocationStays == Spec => RevocationIsFinal
  <1>1. Init => RevocationInv
    BY InitType DEF Init, RevocationInv, IssuesAlone, Issuing
  <1>2. RevocationInv /\ [Next]_vars =>
          [\A c \in Consent : consents[c].status = "Revoked"
             => consents'[c].status \in {"Revoked", "Erased"}]_vars
    BY RevocationStep
  <1>3. QED  BY <1>1, <1>2, RevocationInductive, PTL DEF Spec, RevocationIsFinal

-----------------------------------------------------------------------------
(* Expiry.  A renewal decided at time t gives the token t + TokenLifetime,  *)
(* and a consent expires at most TokenLifetime after the present: so the    *)
(* token still outlives the consent when the renewal is saved, however late *)
(* that is, because the consent's expiry has not moved in between.  A       *)
(* handler that works on a consent works on one that was issued.            *)

Renewing(w) ==
    work[w] # Idle /\ work[w].op = "renew" /\ work[w].stage \in {"rotating", "saving"}

AimsAtIssued ==
    \A w \in Worker : work[w] # Idle /\ work[w].op \notin {"issue", "rotate"} =>
        work[w].consent \in Consent /\ consents[work[w].consent].status # "None"

ExpiryBounded ==
    /\ \A c \in Consent : Exists(c) => consents[c].expires <= now + TokenLifetime
    /\ \A w \in Worker : Issuing(w) => work[w].at <= now
    /\ \A w \in Worker : Renewing(w) /\ Exists(work[w].consent) =>
          work[w].at + TokenLifetime >= consents[work[w].consent].expires

ExpiryInv == RevocationInv /\ AimsAtIssued /\ ExpiryBounded /\ TokenOutlivesConsent

(* What each kind of step does to a consent. *)
LEMMA ConsentStep ==
  ASSUME RevocationInv, [Next]_vars, NEW c \in Consent
  PROVE  \/ consents'[c] = consents[c]
         \/ /\ Exists(c) /\ consents'[c].status = "Erased"
         \/ /\ Exists(c) /\ consents'[c] = [consents[c] EXCEPT !.status = "Revoked"]
         \/ \E w \in Worker :
              /\ SaveToken(w) /\ work[w].consent = c
              /\ IF work[w].op = "issue"
                 THEN consents[c].status = "None" /\ consents'[c] = NewConsent(work[w])
                 ELSE Exists(c) /\ consents'[c] = Renewed(consents[c], work[w])
  <1> USE DEF RevocationInv
  <1>1. CASE Tick \/ Crash \/ UNCHANGED vars
    BY <1>1 DEF Tick, Crash, vars
  <1>2. CASE \E d \in Consent : Erase(d)
    BY <1>2 DEF Erase, BlankConsent, TypeOK
  <1>3. ASSUME NEW w \in Worker, SaveToken(w), consents'[c] # consents[c]
        PROVE  /\ work[w].consent = c
               /\ IF work[w].op = "issue"
                  THEN consents[c].status = "None" /\ consents'[c] = NewConsent(work[w])
                  ELSE Exists(c) /\ consents'[c] = Renewed(consents[c], work[w])
    <2>1. consents' = [consents EXCEPT ![work[w].consent] =
                         IF work[w].op = "issue" THEN NewConsent(work[w])
                         ELSE Renewed(consents[work[w].consent], work[w])]
      BY <1>3 DEF SaveToken
    <2>2. work[w].consent = c
      BY <1>3, <2>1 DEF TypeOK
    <2>3. work[w].op = "issue" => consents[c].status = "None"
      BY <1>3, <2>2 DEF SaveToken, Running, IssuesAlone, Issuing
    <2>4. work[w].op # "issue" => Exists(c)
      BY <1>3, <2>2 DEF SaveToken, Running
    <2>5. QED  BY <2>1, <2>2, <2>3, <2>4 DEF TypeOK
  <1>4. ASSUME NEW w \in Worker, SaveRevocation(w)
        PROVE  \/ consents'[c] = consents[c]
               \/ Exists(c) /\ consents'[c] = [consents[c] EXCEPT !.status = "Revoked"]
    BY <1>4 DEF SaveRevocation, TypeOK
  <1>5. CASE \E w \in Worker : /\ Arrive(w) \/ Decide(w) \/ Save(w)
                               /\ ~SaveToken(w) /\ ~SaveRevocation(w)
    BY <1>5, TablesKept
  <1>6. QED  BY <1>1, <1>2, <1>3, <1>4, <1>5 DEF Next

(* A consent's expiry is fixed when it is issued. *)
LEMMA ExpiryFixed ==
  ASSUME RevocationInv, [Next]_vars, NEW c \in Consent, Exists(c)
  PROVE  consents'[c].status # "None" /\ (Exists(c)' => consents'[c].expires = consents[c].expires)
  <1>1. consents[c] \in ConsentRow
    BY DEF RevocationInv, TypeOK
  <1>2. CASE consents'[c] = consents[c] \/ consents'[c].status = "Erased"
    BY <1>2 DEF Exists
  <1>3. CASE consents'[c] = [consents[c] EXCEPT !.status = "Revoked"]
    BY <1>1, <1>3 DEF Exists, ConsentRow
  <1>4. ASSUME NEW w \in Worker, consents'[c] = Renewed(consents[c], work[w])
        PROVE  consents'[c].status # "None" /\ consents'[c].expires = consents[c].expires
    BY <1>1, <1>4 DEF Exists, ConsentRow, Renewed
  <1>5. consents[c].status # "None"
    BY DEF Exists
  <1>6. QED  BY <1>2, <1>3, <1>4, <1>5, ConsentStep

LEMMA NeverUnissued ==
  ASSUME RevocationInv, [Next]_vars, NEW c \in Consent, consents[c].status # "None"
  PROVE  consents'[c].status # "None"
  BY ConsentStep, ExpiryFixed DEF Exists

LEMMA ExpiryBack ==
  ASSUME RevocationInv, [Next]_vars, NEW c \in Consent, consents[c].status # "None",
         Exists(c)'
  PROVE  Exists(c) /\ consents'[c].expires = consents[c].expires
  BY ConsentStep, ExpiryFixed DEF Exists

(* What a step does to the handler of a worker that is busy after it. *)
LEMMA DecisionTime ==
  ASSUME TypeOK, NEW w \in Worker, Decide(w) \/ Save(w), work'[w] # Idle
  PROVE  \/ work[w].stage = "loaded" /\ work'[w].at = now
         \/ work[w].stage = "rotating" /\ work'[w].at = work[w].at
  <1>1. work[w] # Idle
    BY HandlerKeeps
  <1>2. work[w] \in Handler
    BY <1>1, RunningType
  <1>3. ASSUME MintToken(w) PROVE work'[w].at = now
    <2>1. \E g : g.at = now /\ Continue(w, g)
      BY <1>2, <1>3 DEF MintToken, Handler
    <2>2. QED  BY <2>1 DEF Continue, TypeOK
  <1>4. CASE IssueToken(w) \/ RenewToken(w)
    BY <1>3, <1>4 DEF IssueToken, RenewToken, Running, Return, TypeOK
  <1>5. CASE RotateKey(w)
    BY <1>2, <1>5 DEF RotateKey, Running, Continue, Handler, TypeOK
  <1>6. CASE RevokeConsent(w) \/ AdmitToken(w)
    <2>1. Return(w) \/ \E g : g.at = now /\ Continue(w, g)
      BY <1>2, <1>6 DEF RevokeConsent, AdmitToken, Handler
    <2>2. work[w].stage = "loaded"
      BY <1>6 DEF RevokeConsent, AdmitToken, Running
    <2>3. QED  BY <2>1, <2>2 DEF Continue, Return, TypeOK
  <1>7. CASE FlushRotation(w) \/ FlushFails(w)
    <2>1. Return(w) \/ \E g : g.at = work[w].at /\ Continue(w, g)
      BY <1>2, <1>7 DEF FlushRotation, FlushFails, Handler
    <2>2. work[w].stage = "rotating"
      BY <1>7 DEF FlushRotation, FlushFails, Running
    <2>3. QED  BY <2>1, <2>2 DEF Continue, Return, TypeOK
  <1>8. CASE SaveToken(w) \/ SaveRotation(w) \/ SaveRevocation(w) \/ SaveApplication(w)
                \/ SaveFails(w)
    BY <1>8 DEF SaveToken, SaveRotation, SaveRevocation, SaveApplication, SaveFails,
                Return, TypeOK
  <1>9. QED  BY <1>4, <1>5, <1>6, <1>7, <1>8 DEF Decide, Save

LEMMA ArriveHandler ==
  ASSUME TypeOK, NEW w \in Worker, Arrive(w)
  PROVE  /\ UNCHANGED <<now, consents, keys, tokens>>
         /\ work'[w].stage = "loaded" /\ work'[w].at = now
         /\ work'[w].op \notin {"issue", "rotate"} =>
               work'[w].consent \in Consent /\ Exists(work'[w].consent)
         /\ \A v \in Worker : v # w => work'[v] = work[v]
  BY DEF Arrive, StartIssue, StartRenew, StartRotate, StartRevoke, StartSubmit, Load, TypeOK

LEMMA HandlerStep ==
  ASSUME TypeOK, [Next]_vars, NEW w \in Worker, work'[w] # Idle
  PROVE  \/ work'[w] = work[w]
         \/ Arrive(w)
         \/ /\ Decide(w) \/ Save(w)
            /\ work[w] # Idle
            /\ work'[w].op = work[w].op /\ work'[w].consent = work[w].consent
            /\ work'[w].token = work[w].token /\ work'[w].old = work[w].old
            /\ \/ work[w].stage = "loaded" /\ work'[w].at = now
               \/ work[w].stage = "rotating" /\ work'[w].at = work[w].at
  <1>1. CASE Tick \/ UNCHANGED vars \/ \E c \in Consent : Erase(c)
    BY <1>1 DEF Tick, vars, Erase
  <1>2. CASE Crash
    BY <1>2 DEF Crash
  <1>3. ASSUME NEW v \in Worker, Arrive(v) \/ Decide(v) \/ Save(v), v # w
        PROVE  work'[w] = work[w]
    BY <1>3, ArriveHandler, HandlerKeeps
  <1>4. CASE Decide(w) \/ Save(w)
    BY <1>4, HandlerKeeps, DecisionTime
  <1>5. QED  BY <1>1, <1>2, <1>3, <1>4 DEF Next

LEMMA AimsStep ==
  ASSUME RevocationInv, AimsAtIssued, [Next]_vars PROVE AimsAtIssued'
  <1> SUFFICES ASSUME NEW w \in Worker, work'[w] # Idle, work'[w].op \notin {"issue", "rotate"}
               PROVE  work'[w].consent \in Consent /\ consents'[work'[w].consent].status # "None"
    BY DEF AimsAtIssued
  <1>1. CASE Arrive(w)
    BY <1>1, ArriveHandler DEF RevocationInv, Exists
  <1>2. CASE ~Arrive(w)
    <2>1. work[w] # Idle /\ work'[w].op = work[w].op /\ work'[w].consent = work[w].consent
      BY <1>2, HandlerStep DEF RevocationInv
    <2>2. QED  BY <2>1, NeverUnissued DEF AimsAtIssued
  <1>3. QED  BY <1>1, <1>2

LEMMA TimeStep ==
  ASSUME TypeOK, [Next]_vars PROVE now \in Nat /\ now' \in Nat /\ now <= now'
  <1>1. CASE Tick
    BY <1>1 DEF Tick, TypeOK
  <1>2. ASSUME NEW w \in Worker, Arrive(w) PROVE now' = now
    BY <1>2, ArriveHandler
  <1>3. ASSUME NEW w \in Worker, Decide(w) PROVE now' = now
    BY <1>3 DEF Decide, IssueToken, RenewToken, RotateKey, RevokeConsent, AdmitToken
  <1>4. ASSUME NEW w \in Worker, Save(w) PROVE now' = now
    BY <1>4 DEF Save, FlushRotation, FlushFails, SaveToken, SaveRotation, SaveRevocation,
                SaveApplication, SaveFails
  <1>5. ASSUME Crash \/ UNCHANGED vars \/ \E c \in Consent : Erase(c) PROVE now' = now
    BY <1>5 DEF Crash, Erase, vars
  <1>6. now' = now \/ Tick
    BY <1>2, <1>3, <1>4, <1>5 DEF Next
  <1>7. QED  BY <1>1, <1>6 DEF Tick, TypeOK

LEMMA BoundedConsents ==
  ASSUME ExpiryInv, [Next]_vars, NEW c \in Consent, Exists(c)'
  PROVE  /\ consents'[c].expires <= now' + TokenLifetime
         /\ consents'[c].tokenExpires >= consents'[c].expires
  <1>0. /\ RevocationInv /\ TypeOK /\ TypeOK'
        /\ AimsAtIssued /\ ExpiryBounded /\ TokenOutlivesConsent
    BY NextType DEF ExpiryInv, RevocationInv
  <1>1. now \in Nat /\ now' \in Nat /\ now <= now' /\ consents[c] \in ConsentRow
    BY <1>0, TimeStep DEF TypeOK
  <1>2. CASE consents'[c] = consents[c]
    BY <1>0, <1>1, <1>2 DEF ExpiryBounded, TokenOutlivesConsent, Exists, ConsentRow
  <1>3. CASE Exists(c) /\ consents'[c] = [consents[c] EXCEPT !.status = "Revoked"]
    <2>1. /\ consents'[c].expires = consents[c].expires
          /\ consents'[c].tokenExpires = consents[c].tokenExpires
      BY <1>1, <1>3 DEF ConsentRow
    <2>2. QED  BY <1>0, <1>1, <1>3, <2>1 DEF ExpiryBounded, TokenOutlivesConsent, ConsentRow
  <1>4. ASSUME NEW w \in Worker, SaveToken(w), work[w].op = "issue",
               consents'[c] = NewConsent(work[w])
        PROVE  /\ consents'[c].expires <= now' + TokenLifetime
               /\ consents'[c].tokenExpires >= consents'[c].expires
    <2>1. Issuing(w) /\ work[w].at \in Nat
      BY <1>0, <1>4, RunningType DEF SaveToken, Running, Issuing, Handler
    <2>2. work[w].at <= now
      BY <1>0, <2>1 DEF ExpiryBounded
    <2>3. QED  BY <1>1, <1>4, <2>1, <2>2 DEF NewConsent, Expiry
  <1>5. ASSUME NEW w \in Worker, SaveToken(w), work[w].op # "issue", work[w].consent = c,
               Exists(c), consents'[c] = Renewed(consents[c], work[w])
        PROVE  /\ consents'[c].expires <= now' + TokenLifetime
               /\ consents'[c].tokenExpires >= consents'[c].expires
    <2>1. Renewing(w) /\ work[w].at \in Nat
      BY <1>0, <1>5, RunningType DEF SaveToken, Running, Renewing, Handler
    <2>2. work[w].at + TokenLifetime >= consents[c].expires
      BY <1>0, <1>5, <2>1 DEF ExpiryBounded
    <2>3. /\ consents'[c].expires = consents[c].expires
          /\ consents'[c].tokenExpires \in {consents[c].tokenExpires, work[w].at + TokenLifetime}
      BY <1>1, <1>5 DEF Renewed, Expiry, ConsentRow
    <2>4. QED
      BY <1>0, <1>1, <1>5, <2>1, <2>2, <2>3 DEF ExpiryBounded, TokenOutlivesConsent, ConsentRow
  <1>6. consents'[c].status # "Erased"
    BY DEF Exists
  <1>7. QED  BY <1>0, <1>2, <1>3, <1>4, <1>5, <1>6, ConsentStep

LEMMA ExpiryInductive == ExpiryInv /\ [Next]_vars => ExpiryInv'
  <1> SUFFICES ASSUME ExpiryInv, [Next]_vars PROVE ExpiryInv'
    OBVIOUS
  <1>0. /\ RevocationInv /\ RevocationInv' /\ TypeOK /\ TypeOK'
        /\ AimsAtIssued /\ AimsAtIssued' /\ ExpiryBounded
    BY RevocationInductive, AimsStep, NextType DEF ExpiryInv, RevocationInv
  <1>1. now \in Nat /\ now' \in Nat /\ now <= now'
    BY <1>0, TimeStep
  <1>2. ASSUME NEW w \in Worker, Issuing(w)' PROVE work'[w].at <= now'
    <2>1. work'[w] # Idle
      BY <1>2 DEF Issuing
    <2>2. CASE work'[w] = work[w]
      <3>1. work[w].at <= now /\ work[w].at \in Nat
        BY <1>0, <1>2, <2>2, RunningType DEF Issuing, ExpiryBounded, Handler
      <3>2. QED  BY <1>1, <2>2, <3>1
    <2>3. CASE work'[w].at = now
      BY <1>1, <2>3
    <2>4. CASE /\ work[w] # Idle /\ work'[w].op = work[w].op
               /\ work'[w].at = work[w].at
      <3>1. work[w].at <= now /\ work[w].at \in Nat
        BY <1>0, <1>2, <2>4, RunningType DEF Issuing, ExpiryBounded, Handler
      <3>2. QED  BY <1>1, <2>4, <3>1
    <2>5. QED  BY <1>0, <2>1, <2>2, <2>3, <2>4, HandlerStep, ArriveHandler
  <1>3. ASSUME NEW w \in Worker, Renewing(w)', Exists(work[w].consent)'
        PROVE  work'[w].at + TokenLifetime >= consents'[work[w].consent].expires
    <2> DEFINE c == work[w].consent
    <2>1. /\ work'[w] # Idle /\ ~Arrive(w)
      BY <1>0, <1>3, ArriveHandler DEF Renewing
    <2>2. /\ work[w] # Idle /\ work[w].op = "renew" /\ work'[w].consent = c
          /\ \/ work'[w] = work[w]
             \/ work[w].stage = "loaded" /\ work'[w].at = now
             \/ work[w].stage = "rotating" /\ work'[w].at = work[w].at
      BY <1>0, <1>3, <2>1, HandlerStep DEF Renewing
    <2>3. c \in Consent /\ consents[c].status # "None"
      BY <1>0, <2>2 DEF AimsAtIssued
    <2>4. Exists(c) /\ consents'[c].expires = consents[c].expires
      <3>1. consents'[c].status \in {"Active", "Revoked"}
        BY <1>3, <2>2 DEF Exists
      <3> HIDE DEF c
      <3>2. QED  BY <1>0, <2>3, <3>1, ExpiryBack DEF Exists
    <2>5. CASE Renewing(w) /\ work'[w].at = work[w].at
      BY <1>0, <2>4, <2>5 DEF ExpiryBounded
    <2>6. CASE work'[w].at = now
      BY <1>0, <1>1, <2>3, <2>4, <2>6 DEF ExpiryBounded, TypeOK, ConsentRow
    <2>7. QED  BY <1>3, <2>2, <2>5, <2>6 DEF Renewing
  <1>4. \A w \in Worker : Renewing(w)' => work'[w].consent = work[w].consent
    BY <1>0, HandlerStep, ArriveHandler DEF Renewing
  <1>5. ExpiryBounded'
    BY <1>2, <1>3, <1>4, BoundedConsents DEF ExpiryBounded
  <1>6. TokenOutlivesConsent'
    BY BoundedConsents DEF TokenOutlivesConsent
  <1>7. QED  BY <1>0, <1>5, <1>6 DEF ExpiryInv

(* The expiry of a consent never passes that of its current token, however  *)
(* approvals, renewals and revocations overlap: the grace period that       *)
(* POST /v1/applications grants after the token's expiry is never reached   *)
(* by a consent that has not itself expired.                                *)
THEOREM ConsentExpiresFirst == Spec => []TokenOutlivesConsent
  <1>1. Init => ExpiryInv
    BY InitType DEF Init, ExpiryInv, RevocationInv, IssuesAlone, Issuing, AimsAtIssued,
                    ExpiryBounded, Renewing, TokenOutlivesConsent, Exists, BlankConsent
  <1>2. ExpiryInv => TokenOutlivesConsent
    BY DEF ExpiryInv
  <1>3. QED  BY <1>1, <1>2, ExpiryInductive, PTL DEF Spec
-----------------------------------------------------------------------------
(* Signing keys.  Rotating a key takes several steps -- read the current    *)
(* key, retire it, save -- and nothing in the code keeps two handlers from  *)
(* taking them at the same time.  The invariant follows what a handler has  *)
(* chosen: unless it is behind, its choice still fits the table.            *)

KeyHandler(w) == work[w] # Idle /\ work[w].op \in {"issue", "renew", "rotate"}

(* The key a rotation replaces is active, or there is none to replace. *)
InTime(h, active) == IF h.retire = NoKey THEN active = {} ELSE h.retire \in active

KeyReady(h, active, late) ==
    /\ h.newKey \in Key
    /\ h.stage = "loaded" => h.rotation = "none" /\ ~late
    /\ h.stage = "rotating" => h.rotation = "pending"
    /\ h.rotation = "pending" /\ h.op # "rotate" => h.key = h.newKey
    /\ h.rotation = "pending" /\ ~late => InTime(h, active)
    /\ h.rotation = "none" /\ h.stage = "saving" =>
          h.op # "rotate" /\ (~late => h.key \in active)

HandlersReady ==
    \A w \in Worker : KeyHandler(w) => KeyReady(work[w], ActiveKeys, w \in behind)

KeysInv ==
    /\ TypeOK /\ HandlersReady
    /\ \A w \in behind : Chosen(w)
    /\ IsFiniteSet(ActiveKeys) /\ Cardinality(ActiveKeys) <= 1 + overtaken

LEMMA ArriveKeys ==
  ASSUME TypeOK, NEW w \in Worker, Arrive(w)
  PROVE  /\ work'[w].stage = "loaded" /\ work'[w].rotation = "none"
         /\ work'[w].op \in {"issue", "renew", "rotate"} => work'[w].newKey \in Key
         /\ work[w] = Idle /\ keys' = keys /\ observed' = observed
  <1>1. ASSUME NEW op, NEW c, NEW t, NEW k, Load(w, op, c, t, k)
        PROVE  /\ work'[w].stage = "loaded" /\ work'[w].rotation = "none"
               /\ work'[w].op = op /\ work'[w].newKey = k
               /\ work[w] = Idle /\ keys' = keys /\ observed' = observed
    BY <1>1 DEF Load, TypeOK
  <1>2. CASE StartIssue(w) \/ StartRenew(w) \/ StartRotate(w)
    BY <1>1, <1>2 DEF StartIssue, StartRenew, StartRotate
  <1>3. CASE StartRevoke(w) \/ StartSubmit(w)
    BY <1>1, <1>3 DEF StartRevoke, StartSubmit
  <1>4. QED  BY <1>2, <1>3 DEF Arrive

(* The key that a rotation is to retire is one of the active ones. *)
LEMMA RetiresActive ==
  ASSUME TokenConstants, NEW h, NEW old, h.retire = old,
         IF ActiveKeys = {} THEN old = NoKey ELSE old \in Key /\ IsCurrent(old)
  PROVE  InTime(h, ActiveKeys)
  BY DEF InTime, IsCurrent, TokenConstants

LEMMA MintReady ==
  ASSUME KeysInv, NEW w \in Worker, KeyHandler(w), work[w].stage = "loaded",
         work[w].op # "rotate", MintToken(w)
  PROVE  KeyReady(work'[w], ActiveKeys, FALSE)
  <1>0. /\ TypeOK /\ work[w] \in Handler /\ work[w].newKey \in Key
        /\ work[w].rotation = "none"
    BY RunningType DEF KeysInv, HandlersReady, KeyReady, KeyHandler
  <1>1. CASE \E k \in Key : Reusable(k)
    <2>1. PICK k \in Key :
            /\ Reusable(k)
            /\ Continue(w, [work[w] EXCEPT !.stage = "saving", !.key = k, !.at = now])
      BY <1>1 DEF MintToken
    <2>2. work'[w] = [work[w] EXCEPT !.stage = "saving", !.key = k, !.at = now]
      BY <1>0, <2>1 DEF Continue, TypeOK
    <2>3. /\ work'[w].stage = "saving" /\ work'[w].key = k /\ work'[w].rotation = "none"
          /\ work'[w].newKey = work[w].newKey /\ work'[w].op = work[w].op
      BY <1>0, <2>2 DEF Handler
    <2>4. k \in ActiveKeys
      BY <2>1 DEF Reusable, IsCurrent
    <2>5. QED  BY <1>0, <2>3, <2>4 DEF KeyReady
  <1>2. CASE ~\E k \in Key : Reusable(k)
    <2>1. PICK old \in Key \cup {NoKey} :
            /\ IF ActiveKeys = {} THEN old = NoKey ELSE old \in Key /\ IsCurrent(old)
            /\ Continue(w, [work[w] EXCEPT !.stage = "rotating", !.key = work[w].newKey,
                               !.retire = old, !.rotation = "pending", !.at = now])
      BY <1>2 DEF MintToken
    <2>2. work'[w] = [work[w] EXCEPT !.stage = "rotating", !.key = work[w].newKey,
                               !.retire = old, !.rotation = "pending", !.at = now]
      BY <1>0, <2>1 DEF Continue, TypeOK
    <2>3. /\ work'[w].stage = "rotating" /\ work'[w].rotation = "pending"
          /\ work'[w].newKey = work[w].newKey /\ work'[w].key = work[w].newKey
          /\ work'[w].retire = old
      BY <1>0, <2>2 DEF Handler
    <2>4. InTime(work'[w], ActiveKeys)
      BY <2>1, <2>3, RetiresActive, TokenConstants
    <2>5. QED  BY <1>0, <2>3, <2>4 DEF KeyReady
  <1>3. QED  BY <1>1, <1>2

LEMMA RotateReady ==
  ASSUME KeysInv, NEW w \in Worker, RotateKey(w)
  PROVE  KeyReady(work'[w], ActiveKeys, FALSE)
  <1>0. /\ TypeOK /\ work[w] \in Handler /\ work[w].newKey \in Key /\ work[w].op = "rotate"
    BY RunningType DEF KeysInv, HandlersReady, KeyReady, KeyHandler, RotateKey, Running
  <1>1. PICK old \in Key \cup {NoKey} :
          /\ IF ActiveKeys = {} THEN old = NoKey ELSE old \in Key /\ IsCurrent(old)
          /\ Continue(w, [work[w] EXCEPT !.stage = "rotating", !.retire = old,
                                        !.rotation = "pending", !.at = now])
    BY DEF RotateKey
  <1>2. work'[w] = [work[w] EXCEPT !.stage = "rotating", !.retire = old,
                                   !.rotation = "pending", !.at = now]
    BY <1>0, <1>1 DEF Continue, TypeOK
  <1>3. /\ work'[w].stage = "rotating" /\ work'[w].rotation = "pending"
        /\ work'[w].newKey = work[w].newKey /\ work'[w].op = "rotate"
        /\ work'[w].retire = old
    BY <1>0, <1>2 DEF Handler
  <1>4. InTime(work'[w], ActiveKeys)
    BY <1>1, <1>3, RetiresActive, TokenConstants
  <1>5. QED  BY <1>0, <1>3, <1>4 DEF KeyReady

LEMMA DecideReady ==
  ASSUME KeysInv, NEW w \in Worker, Decide(w), KeyHandler(w)'
  PROVE  w \notin behind /\ KeyReady(work'[w], ActiveKeys, FALSE)
  <1>0. TypeOK /\ KeyHandler(w) /\ work[w].stage = "loaded"
    <2>1. TypeOK /\ work[w].stage = "loaded"
      BY DEF KeysInv, Decide, IssueToken, RenewToken, RotateKey, RevokeConsent,
             AdmitToken, Running
    <2>2. KeyHandler(w)
      BY <2>1, HandlerKeeps DEF KeyHandler
    <2>3. QED  BY <2>1, <2>2
  <1>1. w \notin behind
    BY <1>0 DEF KeysInv, Chosen
  <1>2. CASE IssueToken(w) \/ RenewToken(w)
    <2>1. MintToken(w) /\ work[w].op # "rotate"
      BY <1>0, <1>2 DEF IssueToken, RenewToken, Running, Return, TypeOK, KeyHandler
    <2>2. QED  BY <1>0, <1>1, <2>1, MintReady
  <1>3. CASE RotateKey(w)
    BY <1>1, <1>3, RotateReady
  <1>4. CASE RevokeConsent(w) \/ AdmitToken(w)
    BY <1>0, <1>4 DEF RevokeConsent, AdmitToken, Running, KeyHandler
  <1>5. QED  BY <1>2, <1>3, <1>4 DEF Decide

(* What a rotation leaves of the active keys. *)
LEMMA RotatedKeys ==
  ASSUME TypeOK, NEW h, keys' = Rotated(h)
  PROVE  /\ ActiveKeys' \subseteq (ActiveKeys \ {h.retire}) \cup {h.newKey}
         /\ h.newKey \in Key => h.newKey \in ActiveKeys'
  <1>1. ASSUME NEW k \in Key, keys'[k].status = "Active", k # h.newKey
        PROVE  k \in ActiveKeys /\ k # h.retire
    <2>0. keys[k] \in KeyRow
      BY DEF TypeOK
    <2>1. CASE k = h.retire
      BY <1>1, <2>0, <2>1 DEF Rotated, KeyRow
    <2>2. CASE k # h.retire
      BY <1>1, <2>2 DEF Rotated, ActiveKeys
    <2>3. QED  BY <2>1, <2>2
  <1>2. h.newKey \in Key => keys'[h.newKey].status = "Active"
    BY DEF Rotated
  <1>3. QED  BY <1>1, <1>2 DEF ActiveKeys

(* A save that writes a rotation adds an active key only if it was behind. *)
LEMMA RotationCounted ==
  ASSUME KeysInv, NEW w \in Worker, KeyHandler(w), work[w].rotation = "pending",
         keys' = Rotated(work[w]), Overtake(w)
  PROVE  IsFiniteSet(ActiveKeys') /\ Cardinality(ActiveKeys') <= 1 + overtaken'
  <1> DEFINE h == work[w]
  <1> DEFINE rest == ActiveKeys \ {h.retire}
  <1>0. /\ TypeOK /\ IsFiniteSet(ActiveKeys) /\ overtaken \in Nat
        /\ Cardinality(ActiveKeys) \in Nat /\ Cardinality(ActiveKeys) <= 1 + overtaken
    BY FS_CardinalityType DEF KeysInv, TypeOK
  <1>1. /\ IsFiniteSet(rest)
        /\ Cardinality(rest) = IF h.retire \in ActiveKeys
                               THEN Cardinality(ActiveKeys) - 1 ELSE Cardinality(ActiveKeys)
    BY <1>0, FS_RemoveElement
  <1>2. /\ IsFiniteSet(rest \cup {h.newKey})
        /\ Cardinality(rest \cup {h.newKey})
              = IF h.newKey \in rest THEN Cardinality(rest) ELSE Cardinality(rest) + 1
    BY <1>1, FS_AddElement
  <1>3. /\ IsFiniteSet(ActiveKeys')
        /\ Cardinality(ActiveKeys') <= Cardinality(rest \cup {h.newKey})
    <2>1. ActiveKeys' \subseteq rest \cup {h.newKey}
      BY <1>0, RotatedKeys
    <2> HIDE DEF rest, h
    <2>2. QED  BY <1>2, <2>1, FS_Subset
  <1>4. Cardinality(rest) \in Nat /\ Cardinality(ActiveKeys') \in Nat
    BY <1>1, <1>3, FS_CardinalityType
  <1>5. Cardinality(ActiveKeys') <= Cardinality(rest) + 1
    BY <1>2, <1>3, <1>4
  <1>6. CASE w \in behind
    <2>1. overtaken' = overtaken + 1 /\ Cardinality(rest) <= Cardinality(ActiveKeys)
      BY <1>0, <1>1, <1>6 DEF Overtake
    <2>2. Cardinality(ActiveKeys') <= 1 + overtaken'
      BY <1>0, <1>4, <1>5, <2>1
    <2>3. QED  BY <1>3, <2>2
  <1>7. CASE w \notin behind
    <2>1. overtaken' = overtaken /\ InTime(h, ActiveKeys)
      BY <1>7 DEF Overtake, KeysInv, HandlersReady, KeyReady
    <2>2. CASE h.retire \in ActiveKeys
      <3>1. Cardinality(rest) = Cardinality(ActiveKeys) - 1
        BY <1>1, <2>2
      <3>2. Cardinality(ActiveKeys') <= 1 + overtaken'
        BY <1>0, <1>4, <1>5, <2>1, <3>1
      <3>3. QED  BY <1>3, <3>2
    <2>3. CASE ActiveKeys = {}
      <3>1. Cardinality(rest) = 0
        BY <1>1, <2>3, FS_EmptySet
      <3>2. Cardinality(ActiveKeys') <= 1 + overtaken'
        BY <1>0, <1>4, <1>5, <2>1, <3>1
      <3>3. QED  BY <1>3, <3>2
    <2>4. QED  BY <2>1, <2>2, <2>3 DEF InTime
  <1>8. QED  BY <1>6, <1>7

(* A step that writes no rotation may only take handlers off the list.     *)
LEMMA KeysKept ==
  ASSUME KeysInv, [Next]_vars, keys' = keys, overtaken' = overtaken, behind' \subseteq behind,
         \A w \in Worker : \/ work'[w] = work[w] /\ (w \in behind' <=> w \in behind)
                           \/ work'[w] = Idle /\ w \notin behind'
                           \/ /\ KeyHandler(w)' =>
                                    KeyReady(work'[w], ActiveKeys, w \in behind')
                              /\ w \in behind' => Chosen(w)'
  PROVE  KeysInv'
  <1>0. TypeOK' /\ TypeOK /\ ActiveKeys' = ActiveKeys /\ behind \subseteq Worker
    BY NextType DEF KeysInv, ActiveKeys, TypeOK
  <1>1. ASSUME NEW w \in Worker, KeyHandler(w)'
        PROVE  KeyReady(work'[w], ActiveKeys, w \in behind')
    <2>1. CASE work'[w] = work[w] /\ (w \in behind' <=> w \in behind)
      <3>1. KeyReady(work[w], ActiveKeys, w \in behind)
        BY <1>1, <2>1 DEF KeysInv, HandlersReady, KeyHandler
      <3>2. QED  BY <2>1, <3>1 DEF KeyReady
    <2>2. QED  BY <1>1, <2>1 DEF KeyHandler
  <1>2. ASSUME NEW w \in behind' PROVE Chosen(w)'
    BY <1>0, <1>2 DEF KeysInv, Chosen
  <1>3. HandlersReady'
    BY <1>0, <1>1 DEF HandlersReady
  <1>4. QED  BY <1>0, <1>2, <1>3 DEF KeysInv

(* A step that writes the rotation of a handler. *)
LEMMA KeysRotated ==
  ASSUME KeysInv, [Next]_vars, NEW w \in Worker, KeyHandler(w),
         work[w].rotation = "pending", keys' = Rotated(work[w]), Overtake(w),
         \A v \in Worker : v # w => work'[v] = work[v],
         KeyHandler(w)' => KeyReady(work'[w], ActiveKeys', FALSE)
  PROVE  KeysInv'
  <1>0. TypeOK' /\ TypeOK /\ behind' = {v \in Worker \ {w} : Chosen(v)}
    BY NextType DEF KeysInv, Overtake
  <1>1. ASSUME NEW v \in Worker, KeyHandler(v)'
        PROVE  KeyReady(work'[v], ActiveKeys', v \in behind')
    <2>1. CASE v = w
      BY <1>0, <1>1, <2>1 DEF KeyReady
    <2>2. CASE v # w
      <3>1. work'[v] = work[v] /\ KeyHandler(v) /\ (v \in behind' <=> Chosen(v))
        BY <1>0, <1>1, <2>2 DEF KeyHandler
      <3>2. KeyReady(work[v], ActiveKeys, v \in behind) /\ work[v] \in Handler
        BY <1>0, <3>1, RunningType DEF KeysInv, HandlersReady, KeyHandler
      <3>3. v \in behind' <=> work[v].stage # "loaded"
        BY <3>1 DEF Chosen, KeyHandler
      <3>4. CASE work[v].stage = "loaded"
        BY <3>1, <3>2, <3>3, <3>4 DEF KeyReady, Handler
      <3>5. CASE work[v].stage # "loaded"
        BY <3>1, <3>2, <3>3, <3>5 DEF KeyReady, Handler
      <3>6. QED  BY <3>4, <3>5
    <2>3. QED  BY <2>1, <2>2
  <1>2. ASSUME NEW v \in behind' PROVE Chosen(v)'
    BY <1>0, <1>2 DEF Chosen
  <1>3. HandlersReady'
    BY <1>1 DEF HandlersReady
  <1>4. QED  BY <1>0, <1>2, <1>3, RotationCounted DEF KeysInv

LEMMA FlushKeys ==
  ASSUME KeysInv, [Next]_vars, NEW w \in Worker, FlushRotation(w)
  PROVE  KeysInv'
  <1>0. /\ TypeOK /\ KeyHandler(w) /\ work[w] \in Handler /\ work[w].stage = "rotating"
        /\ work[w].rotation = "pending" /\ work[w].newKey \in Key
        /\ work[w].op # "rotate" => work[w].key = work[w].newKey
    <2>1. TypeOK /\ KeyHandler(w) /\ work[w].stage = "rotating"
      BY DEF KeysInv, FlushRotation, Running, KeyHandler
    <2>2. QED  BY <2>1, RunningType DEF KeysInv, HandlersReady, KeyReady, KeyHandler
  <1>1. keys' = Rotated(work[w]) /\ Overtake(w)
    BY DEF FlushRotation
  <1>2. \A v \in Worker : v # w => work'[v] = work[v]
    BY <1>0, HandlerKeeps DEF Save
  <1>3. work[w].newKey \in ActiveKeys'
    BY <1>0, <1>1, RotatedKeys
  <1>4. ASSUME KeyHandler(w)' PROVE KeyReady(work'[w], ActiveKeys', FALSE)
    <2>1. work[w].op # "rotate"
      BY <1>0, <1>4 DEF FlushRotation, Return, KeyHandler, TypeOK
    <2>2. work'[w] = [work[w] EXCEPT !.stage = "saving", !.rotation = "none"]
      BY <1>0, <2>1 DEF FlushRotation, Continue, TypeOK
    <2>3. /\ work'[w].stage = "saving" /\ work'[w].rotation = "none"
          /\ work'[w].newKey = work[w].newKey /\ work'[w].key = work[w].key
          /\ work'[w].op = work[w].op
      BY <1>0, <2>2 DEF Handler
    <2>4. QED  BY <1>0, <1>3, <2>1, <2>3 DEF KeyReady
  <1>5. QED  BY <1>0, <1>1, <1>2, <1>4, KeysRotated

LEMMA FlushFailsKeys ==
  ASSUME KeysInv, [Next]_vars, NEW w \in Worker, FlushFails(w)
  PROVE  KeysInv'
  <1>0. /\ TypeOK /\ KeyHandler(w) /\ work[w] \in Handler /\ work[w].stage = "rotating"
        /\ KeyReady(work[w], ActiveKeys, w \in behind)
    BY RunningType DEF KeysInv, HandlersReady, FlushFails, Running, KeyHandler
  <1>1. work'[w] = [work[w] EXCEPT !.stage = "saving"]
    BY <1>0 DEF FlushFails, Continue, TypeOK
  <1>2. /\ work'[w].stage = "saving" /\ work'[w].rotation = "pending"
        /\ work'[w].newKey = work[w].newKey /\ work'[w].key = work[w].key
        /\ work'[w].op = work[w].op /\ work'[w].retire = work[w].retire
        /\ work'[w] # Idle
    BY <1>0, <1>1 DEF Handler, KeyReady, Idle, FlushFails, Running
  <1>3. KeyReady(work'[w], ActiveKeys, w \in behind)
    BY <1>0, <1>2 DEF KeyReady, InTime
  <1>4. Chosen(w)'
    BY <1>0, <1>2 DEF Chosen, KeyHandler
  <1>5. keys' = keys /\ overtaken' = overtaken /\ behind' = behind
    BY DEF FlushFails, observed
  <1>6. \A v \in Worker : v # w => work'[v] = work[v]
    BY <1>0, HandlerKeeps DEF Save
  <1>7. QED  BY <1>3, <1>4, <1>5, <1>6, KeysKept

LEMMA SaveKeys ==
  ASSUME KeysInv, [Next]_vars, NEW w \in Worker, SaveToken(w) \/ SaveRotation(w)
  PROVE  KeysInv'
  <1>0. /\ TypeOK /\ KeyHandler(w) /\ work'[w] = Idle
        /\ keys' = AfterRotation(work[w]) /\ OvertakeIfPending(w)
    BY DEF KeysInv, SaveToken, SaveRotation, Running, KeyHandler, Return, TypeOK
  <1>1. \A v \in Worker : v # w => work'[v] = work[v]
    BY <1>0, HandlerKeeps DEF Save
  <1>2. CASE work[w].rotation = "pending"
    <2>1. keys' = Rotated(work[w]) /\ Overtake(w) /\ ~KeyHandler(w)'
      BY <1>0, <1>2 DEF AfterRotation, OvertakeIfPending, KeyHandler
    <2>2. QED  BY <1>0, <1>1, <1>2, <2>1, KeysRotated
  <1>3. CASE work[w].rotation # "pending"
    <2>1. keys' = keys /\ overtaken' = overtaken /\ behind' = behind \ {w}
      BY <1>0, <1>3 DEF AfterRotation, OvertakeIfPending
    <2>2. QED  BY <1>0, <1>1, <2>1, KeysKept
  <1>4. QED  BY <1>2, <1>3

LEMMA KeysInductive == KeysInv /\ [Next]_vars => KeysInv'
  <1> SUFFICES ASSUME KeysInv, [Next]_vars PROVE KeysInv'
    OBVIOUS
  <1>0. TypeOK
    BY DEF KeysInv
  <1>1. CASE Tick \/ UNCHANGED vars \/ \E c \in Consent : Erase(c)
    <2>1. keys' = keys /\ work' = work /\ overtaken' = overtaken /\ behind' = behind
      BY <1>1 DEF Tick, vars, Erase, observed
    <2>2. QED  BY <2>1, KeysKept
  <1>2. CASE Crash
    <2>1. /\ keys' = keys /\ overtaken' = overtaken /\ behind' = {}
          /\ \A w \in Worker : work'[w] = Idle
      BY <1>2 DEF Crash
    <2>2. QED  BY <2>1, KeysKept
  <1>3. ASSUME NEW w \in Worker, Arrive(w) PROVE KeysInv'
    <2>1. keys' = keys /\ overtaken' = overtaken /\ behind' = behind /\ work[w] = Idle
      BY <1>0, <1>3, ArriveKeys DEF observed
    <2>2. w \notin behind
      BY <2>1 DEF KeysInv, Chosen
    <2>3. KeyHandler(w)' => KeyReady(work'[w], ActiveKeys, w \in behind')
      BY <1>0, <1>3, <2>1, <2>2, ArriveKeys DEF KeyHandler, KeyReady
    <2>4. \A v \in Worker : v # w => work'[v] = work[v]
      BY <1>0, <1>3, ArriveHandler
    <2>5. QED  BY <2>1, <2>2, <2>3, <2>4, KeysKept
  <1>4. ASSUME NEW w \in Worker, Decide(w) PROVE KeysInv'
    <2>1. keys' = keys /\ overtaken' = overtaken /\ behind' = behind
      BY <1>4 DEF Decide, IssueToken, RenewToken, RotateKey, RevokeConsent, AdmitToken,
                  observed
    <2>2. w \notin behind
      <3>1. work[w].stage = "loaded"
        BY <1>4 DEF Decide, IssueToken, RenewToken, RotateKey, RevokeConsent, AdmitToken,
                    Running
      <3>2. QED  BY <3>1 DEF KeysInv, Chosen
    <2>3. KeyHandler(w)' => KeyReady(work'[w], ActiveKeys, FALSE)
      BY <1>4, DecideReady
    <2>4. KeyHandler(w)' => KeyReady(work'[w], ActiveKeys, w \in behind')
      BY <2>1, <2>2, <2>3 DEF KeyReady
    <2>5. \A v \in Worker : v # w => work'[v] = work[v]
      BY <1>0, <1>4, HandlerKeeps
    <2>6. QED  BY <2>1, <2>2, <2>4, <2>5, KeysKept
  <1>5. ASSUME NEW w \in Worker, Save(w) PROVE KeysInv'
    <2>1. CASE FlushRotation(w) \/ FlushFails(w) \/ SaveToken(w) \/ SaveRotation(w)
      BY <2>1, FlushKeys, FlushFailsKeys, SaveKeys
    <2>2. CASE SaveRevocation(w) \/ SaveApplication(w) \/ SaveFails(w)
      <3>1. /\ keys' = keys /\ overtaken' = overtaken /\ work'[w] = Idle
            /\ behind' = behind \/ behind' = behind \ {w}
        BY <1>0, <2>2
           DEF SaveRevocation, SaveApplication, SaveFails, Return, TypeOK, observed
      <3>2. behind' = behind \ {w}
        <4>1. CASE behind' = behind
          <5>1. SaveRevocation(w) \/ SaveApplication(w) \/ SaveFails(w)
            BY <2>2
          <5>2. w \notin behind \/ SaveFails(w)
            BY <5>1 DEF KeysInv, Chosen, SaveRevocation, SaveApplication, Running
          <5>3. QED  BY <4>1, <5>2 DEF SaveFails
        <4>2. QED  BY <3>1, <4>1
      <3>3. \A v \in Worker : v # w => work'[v] = work[v]
        BY <1>0, <1>5, HandlerKeeps
      <3>4. QED  BY <3>1, <3>2, <3>3, KeysKept
    <2>3. QED  BY <1>5, <2>1, <2>2 DEF Save
  <1>6. QED  BY <1>1, <1>2, <1>3, <1>4, <1>5 DEF Next

LEMMA KeysStart == Init => KeysInv
  <1> SUFFICES ASSUME Init PROVE KeysInv
    OBVIOUS
  <1>1. ActiveKeys = {}
    BY DEF Init, ActiveKeys, BlankKey
  <1>2. IsFiniteSet(ActiveKeys) /\ Cardinality(ActiveKeys) = 0
    BY <1>1, FS_EmptySet
  <1>3. TypeOK /\ HandlersReady /\ behind = {} /\ overtaken = 0
    BY InitType DEF Init, HandlersReady, KeyHandler
  <1>4. QED  BY <1>2, <1>3 DEF KeysInv

(* The active keys of a tenant are one, and at most one more for each       *)
(* rotation that another one overtook: for every number of keys, consents   *)
(* and handlers at once.                                                    *)
THEOREM OneKeyAtATime == Spec => []OneActiveKey
  <1>1. KeysInv => OneActiveKey
    BY DEF KeysInv, OneActiveKey
  <1>2. QED  BY <1>1, KeysStart, KeysInductive, PTL DEF Spec

(* No token is born dead, unless a rotation is saved while it waits: the    *)
(* key it is signed with, current, rotated by the audit event's save or     *)
(* waiting for the handler's own, is active once the token is saved.        *)
THEOREM NoTokenBornDead == Spec => []SignsWithActiveKey
  <1>1. KeysInv => SignsWithActiveKey
    <2> SUFFICES ASSUME KeysInv, NEW w \in Worker \ behind,
                        Running(w, {"issue", "renew"}, "saving")
                 PROVE  AfterRotation(work[w])[work[w].key].status = "Active"
      BY DEF SignsWithActiveKey
    <2>1. /\ KeyHandler(w) /\ work[w] \in Handler /\ work[w].stage = "saving"
          /\ work[w].op # "rotate" /\ KeyReady(work[w], ActiveKeys, w \in behind)
      BY RunningType DEF KeysInv, HandlersReady, Running, KeyHandler
    <2>2. CASE work[w].rotation = "pending"
      BY <2>1, <2>2 DEF AfterRotation, KeyReady, Rotated
    <2>3. CASE work[w].rotation = "none"
      BY <2>1, <2>3 DEF AfterRotation, KeyReady, ActiveKeys
    <2>4. QED  BY <2>1, <2>2, <2>3 DEF Handler
  <1>2. QED  BY <1>1, KeysStart, KeysInductive, PTL DEF Spec
=============================================================================
