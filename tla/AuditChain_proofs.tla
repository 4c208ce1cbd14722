-------------------------- MODULE AuditChain_proofs --------------------------
(***************************************************************************)
(* Theorems about AuditChain, for every set of events and workers, every   *)
(* window and every clock.                                                 *)
(***************************************************************************)
EXTENDS AuditChain, SequenceTheorems, FiniteSetTheorems, TLAPS

USE AuditConstants

-----------------------------------------------------------------------------
(* Type correctness.                                                       *)

LEMMA HashTypes ==
  /\ Genesis \in Hash
  /\ \A h \in Hash, row \in Content : Extend(h, row) \in Hash
  <1>1. \A row \in Content : Canonical(row) \in Digest
    BY DEF Canonical, Digest, Content
  <1>2. QED  BY <1>1 DEF Genesis, Hash, Extend

LEMMA StoredType == \A row \in Content : Stored(row) \in Content
  BY DEF Content, Stored

(* The heads of any set of links are hashes. *)
LEMMA HeadsType ==
  ASSUME TypeOK, NEW S \in SUBSET {d \in Event : Linked(d)}
  PROVE  HeadsOf(S) \subseteq Hash
  <1>1. \A d \in S : links[d].hash \in Hash
    BY DEF TypeOK, Linked, Link
  <1>2. QED  BY <1>1, HashTypes DEF HeadsOf, Newest

(* The updates that steps make to an emission and to a verification. *)
LEMMA EmissionUpdates ==
  ASSUME NEW g \in Emission, NEW h \in Hash
  PROVE  /\ [g EXCEPT !.stage = "chained", !.prev = h, !.hash = Extend(h, g.row)] \in Emission
         /\ [g EXCEPT !.stage = "linking"] \in Emission
  BY HashTypes DEF Emission

LEMMA VerificationUpdates ==
  ASSUME NEW c \in Verification, NEW h \in Hash, NEW S \in SUBSET Content,
         NEW row \in Content
  PROVE  /\ [c EXCEPT !.stage = "anchored", !.hash = h] \in Verification
         /\ [c EXCEPT !.stage = "checking", !.todo = S] \in Verification
         /\ [c EXCEPT !.hash = h, !.todo = @ \ {row}, !.passed = @ \cup {row}] \in Verification
         /\ [c EXCEPT !.hash = h, !.todo = {}, !.ok = FALSE] \in Verification
  BY DEF Verification

LEMMA InitType == Init => TypeOK
  BY DEF Init, TypeOK

LEMMA TickType == TypeOK /\ Tick => TypeOK'
  BY DEF TypeOK, Tick

LEMMA CrashType == ASSUME TypeOK, Crash PROVE TypeOK'
  <1>1. serial' \in BOOLEAN /\ steady' \in BOOLEAN
    BY Zenon DEF Crash
  <1>2. /\ now' \in 0..MaxTime
        /\ rows' \in [Event -> Content \cup {Absent}]
        /\ links' \in [Event -> Link \cup {Absent}]
        /\ work' \in [Worker -> Emission \cup {Idle}]
        /\ check' \in Verification \cup {Idle}
        /\ due' \in Nat
        /\ swept' \subseteq Event /\ cut' \subseteq Event
    BY DEF TypeOK, Crash
  <1>3. QED  BY <1>1, <1>2 DEF TypeOK

(* An edit changes the text of one event, or nothing that is hashed.       *)
LEMMA AlterFacts ==
  ASSUME TypeOK, NEW e \in Event, Alter(e)
  PROVE  /\ UNCHANGED <<now, links, work, check, due, swept, serial, steady, cut>>
         /\ Saved(e) /\ rows[e] \in Content /\ rows[e].edited = "no"
         /\ \A d \in Event : d # e => rows'[d] = rows[d]
         /\ rows'[e] \in Content /\ rows'[e] # Absent
         /\ rows'[e].event = rows[e].event /\ rows'[e].at = rows[e].at
         /\ rows'[e].frac = rows[e].frac
         /\ \/ rows'[e].edited = "text" /\ rows'[e].text # rows[e].text
            \/ rows'[e].edited = "rest" /\ rows'[e].text = rows[e].text
  <1>1. Saved(e) /\ rows[e] \in Content /\ rows[e].edited = "no"
    BY DEF TypeOK, Alter, Saved
  <1>2. CASE \E t \in Text \ {rows[e].text} :
                rows' = [rows EXCEPT ![e].text = t, ![e].edited = "text"]
    <2>1. PICK t \in Text \ {rows[e].text} :
            rows' = [rows EXCEPT ![e].text = t, ![e].edited = "text"]
      BY <1>2
    <2>2. rows'[e] = [rows[e] EXCEPT !.text = t, !.edited = "text"]
      BY <2>1 DEF TypeOK
    <2>3. /\ rows'[e] \in Content /\ rows'[e] # Absent
          /\ rows'[e].event = rows[e].event /\ rows'[e].at = rows[e].at
          /\ rows'[e].frac = rows[e].frac
          /\ rows'[e].edited = "text" /\ rows'[e].text # rows[e].text
      BY <1>1, <2>2 DEF Content, Absent
    <2>4. \A d \in Event : d # e => rows'[d] = rows[d]
      BY <2>1 DEF TypeOK
    <2>5. QED  BY <1>1, <2>3, <2>4 DEF Alter
  <1>3. CASE rows' = [rows EXCEPT ![e].edited = "rest"]
    <2>1. rows'[e] = [rows[e] EXCEPT !.edited = "rest"]
      BY <1>3 DEF TypeOK
    <2>2. /\ rows'[e] \in Content /\ rows'[e] # Absent
          /\ rows'[e].event = rows[e].event /\ rows'[e].at = rows[e].at
          /\ rows'[e].frac = rows[e].frac
          /\ rows'[e].edited = "rest" /\ rows'[e].text = rows[e].text
      BY <1>1, <2>1 DEF Content, Absent
    <2>3. \A d \in Event : d # e => rows'[d] = rows[d]
      BY <1>3 DEF TypeOK
    <2>4. QED  BY <1>1, <2>2, <2>3 DEF Alter
  <1>4. QED  BY <1>2, <1>3 DEF Alter

LEMMA AlterType == ASSUME TypeOK, NEW e \in Event, Alter(e) PROVE TypeOK'
  <1>1. rows' \in [Event -> Content \cup {Absent}]
    <2>1. \A d \in Event : rows'[d] \in Content \cup {Absent}
      BY AlterFacts DEF TypeOK
    <2>2. \E g : rows' = [rows EXCEPT ![e] = g]
      BY DEF Alter
    <2>3. QED  BY <2>1, <2>2 DEF TypeOK
  <1>2. QED  BY <1>1, AlterFacts DEF TypeOK

LEMMA EmissionType ==
  ASSUME TypeOK, NEW w \in Worker, work[w] # Idle
  PROVE  work[w] \in Emission /\ work[w].row \in Content /\ work[w].row.event \in Event
  BY DEF TypeOK, Emission, Content

LEMMA StampType == ASSUME TypeOK, NEW w \in Worker, NEW e \in Event, StampEvent(w, e)
                   PROVE  TypeOK'
  <1>1. PICK f \in Fraction :
          work' = [work EXCEPT ![w] =
                     [stage |-> "stamped",
                      row |-> [event |-> e, at |-> now, frac |-> f, text |-> Reads[e],
                               edited |-> "no"],
                      prev |-> Genesis, hash |-> Genesis]]
    BY DEF StampEvent
  <1>2. [event |-> e, at |-> now, frac |-> f, text |-> Reads[e],
         edited |-> "no"] \in Content
    BY DEF TypeOK, Content
  <1>3. work' \in [Worker -> Emission \cup {Idle}]
    BY <1>1, <1>2, HashTypes DEF TypeOK, Emission
  <1>4. check' \in Verification \cup {Idle}
    <2>1. \A c \in Verification : [c EXCEPT !.quiet = FALSE] \in Verification
      BY DEF Verification
    <2>2. QED  BY <2>1 DEF TypeOK, StampEvent
  <1>5. QED  BY <1>3, <1>4 DEF TypeOK, StampEvent

LEMMA EmitType == ASSUME TypeOK, NEW w \in Worker, Emit(w) PROVE TypeOK'
  <1>1. CASE \E e \in Event : StampEvent(w, e)
    BY <1>1, StampType
  <1>2. CASE ChainEvent(w)
    <2>1. work[w] # Idle
      BY <1>2 DEF ChainEvent, AtStage
    <2>2. PICK h \in Hash :
            work' = [work EXCEPT ![w].stage = "chained", ![w].prev = h,
                                 ![w].hash = Extend(h, work[w].row)]
      BY <1>2, HeadsType DEF ChainEvent, Heads
    <2>3. [work[w] EXCEPT !.stage = "chained", !.prev = h,
                          !.hash = Extend(h, work[w].row)] \in Emission
      BY <2>1, EmissionType, EmissionUpdates
    <2>4. work' \in [Worker -> Emission \cup {Idle}]
      BY <2>2, <2>3 DEF TypeOK
    <2>5. QED  BY <1>2, <2>4 DEF TypeOK, ChainEvent
  <1>3. CASE SaveEvent(w)
    <2>1. work[w] \in Emission /\ work[w].row \in Content /\ work[w].row.event \in Event
      BY <1>3, EmissionType DEF SaveEvent, AtStage
    <2>2. rows' \in [Event -> Content \cup {Absent}]
      BY <1>3, <2>1, StoredType DEF TypeOK, SaveEvent
    <2>3. [work[w] EXCEPT !.stage = "linking"] \in Emission
      BY <2>1, EmissionUpdates, HashTypes
    <2>4. work' \in [Worker -> Emission \cup {Idle}]
      BY <1>3, <2>3 DEF TypeOK, SaveEvent
    <2>5. cut' \subseteq Event
      BY <1>3, <2>1 DEF TypeOK, SaveEvent
    <2>6. QED  BY <1>3, <2>2, <2>4, <2>5 DEF TypeOK, SaveEvent
  <1>4. CASE SaveLink(w)
    <2>1. work[w] \in Emission /\ work[w].row \in Content /\ work[w].row.event \in Event
      BY <1>4, EmissionType DEF SaveLink, AtStage
    <2>2. [prev |-> work[w].prev, hash |-> work[w].hash, at |-> work[w].row.at] \in Link
      BY <2>1 DEF Emission, Content, Link
    <2>3. links' \in [Event -> Link \cup {Absent}]
      BY <1>4, <2>1, <2>2 DEF TypeOK, SaveLink
    <2>4. QED  BY <1>4, <2>3 DEF TypeOK, SaveLink
  <1>5. CASE EmitFails(w)
    BY <1>5 DEF TypeOK, EmitFails
  <1>6. QED  BY <1>1, <1>2, <1>3, <1>4, <1>5 DEF Emit

LEMMA VerifyType ==
  ASSUME TypeOK, NEW by \in {"sweep", "demand"}, NEW start \in Int, Verify(by, start)
  PROVE  TypeOK'
  <1>1. check' \in Verification
    BY HashTypes DEF TypeOK, Verify, Verification
  <1>2. QED  BY <1>1 DEF TypeOK, Verify

LEMMA BeginType == ASSUME TypeOK, BeginSweep \/ VerifyOnDemand PROVE TypeOK'
  <1>1. CASE BeginSweep
    <2>1. SweepStart \in Int
      BY DEF TypeOK, SweepStart
    <2>2. QED  BY <1>1, <2>1, VerifyType DEF BeginSweep
  <1>2. CASE VerifyOnDemand
    <2>1. PICK days \in Days : Verify("demand", now - days)
      BY <1>2 DEF VerifyOnDemand
    <2>2. now - days \in Int
      BY DEF TypeOK
    <2>3. QED  BY <2>1, <2>2, VerifyType
  <1>3. QED  BY <1>1, <1>2

LEMMA AnchorType == ASSUME TypeOK, ReadAnchor PROVE TypeOK'
  <1>1. check \in Verification
    BY DEF TypeOK, ReadAnchor, Checking
  <1>2. PICK h \in Hash : check' = [check EXCEPT !.stage = "anchored", !.hash = h]
    BY HeadsType DEF ReadAnchor, Anchors
  <1>3. check' \in Verification
    BY <1>1, <1>2, VerificationUpdates DEF Verification
  <1>4. QED  BY <1>3 DEF TypeOK, ReadAnchor

LEMMA ReadType == ASSUME TypeOK, ReadEvents PROVE TypeOK'
  <1> DEFINE read == {e \in Event : InWindow(e)}
  <1>1. check \in Verification
    BY DEF TypeOK, ReadEvents, Checking
  <1>2. {rows[e] : e \in read} \in SUBSET Content
    BY DEF TypeOK, InWindow, Saved
  <1>3. [check EXCEPT !.stage = "checking", !.todo = {rows[e] : e \in read}] \in Verification
    BY <1>1, <1>2 DEF Verification
  <1>4. check' \in Verification
    BY <1>3 DEF ReadEvents
  <1>5. swept' \subseteq Event
    BY DEF TypeOK, ReadEvents
  <1>6. QED  BY <1>4, <1>5 DEF TypeOK, ReadEvents

LEMMA CompareType == ASSUME TypeOK, CompareEvent PROVE TypeOK'
  <1>1. check \in Verification
    BY DEF TypeOK, CompareEvent, Checking
  <1>2. PICK row \in check.todo :
          check' = IF Agrees(row.event, Extend(check.hash, row))
                   THEN [check EXCEPT !.hash = Extend(check.hash, row),
                                      !.todo = @ \ {row}, !.passed = @ \cup {row}]
                   ELSE [check EXCEPT !.hash = Extend(check.hash, row),
                                      !.todo = {}, !.ok = FALSE]
    BY DEF CompareEvent
  <1>3. row \in Content /\ Extend(check.hash, row) \in Hash
    BY <1>1, HashTypes DEF Verification
  <1>4. check' \in Verification
    BY <1>1, <1>2, <1>3, VerificationUpdates
  <1>5. QED  BY <1>4 DEF TypeOK, CompareEvent

LEMMA EndType == ASSUME TypeOK, StoreRun \/ VerifyFails PROVE TypeOK'
  <1>1. EndRun
    BY DEF StoreRun, VerifyFails
  <1>2. due' \in Nat
    BY <1>1 DEF TypeOK, EndRun
  <1>3. steady' \in BOOLEAN
    BY Zenon DEF TypeOK, StoreRun, VerifyFails
  <1>4. QED  BY <1>1, <1>2, <1>3 DEF TypeOK, EndRun

LEMMA NextType == TypeOK /\ [Next]_vars => TypeOK'
  <1> SUFFICES ASSUME TypeOK, [Next]_vars PROVE TypeOK'
    OBVIOUS
  <1>1. CASE Tick \/ Crash
    BY <1>1, TickType, CrashType
  <1>2. CASE \E e \in Event : Alter(e)
    BY <1>2, AlterType
  <1>3. CASE \E w \in Worker : Emit(w)
    BY <1>3, EmitType
  <1>4. CASE BeginSweep \/ VerifyOnDemand
    BY <1>4, BeginType
  <1>5. CASE ReadAnchor \/ ReadEvents \/ CompareEvent
    BY <1>5, AnchorType, ReadType, CompareType
  <1>6. CASE StoreRun \/ VerifyFails
    BY <1>6, EndType
  <1>7. CASE UNCHANGED vars
    BY <1>7 DEF TypeOK, vars
  <1>8. QED  BY <1>1, <1>2, <1>3, <1>4, <1>5, <1>6, <1>7 DEF Next

(* Every variable keeps its type: the tables hold rows and links, what is   *)
(* in progress is an emission or a verification.                            *)
THEOREM TypeCorrect == Spec => []TypeOK
  BY InitType, NextType, PTL DEF Spec

-----------------------------------------------------------------------------
(* Every link continues a saved one.  The inductive invariant adds that     *)
(* this already holds of the previous hash an emission has read, and that   *)
(* an emission's event is its own: no other emission has it, and it has no  *)
(* link yet, so that saving a link never replaces one.                      *)

Anchored(h) == h = Genesis \/ \E d \in Event : Linked(d) /\ links[d].hash = h

OwnEvents ==
    /\ \A w \in Worker : work[w] # Idle => ~Linked(work[w].row.event)
    /\ \A v, w \in Worker : v # w /\ work[v] # Idle /\ work[w] # Idle
          => work[v].row.event # work[w].row.event
    /\ \A w \in Worker : AtStage(w, "linking") => Saved(work[w].row.event)
    /\ \A e \in Event : Linked(e) => Saved(e)

HeadsAnchored ==
    \A w \in Worker : AtStage(w, "chained") \/ AtStage(w, "linking") => Anchored(work[w].prev)

AnchorInv == TypeOK /\ OwnEvents /\ HeadsAnchored /\ EveryLinkAnchored

LEMMA InitAnchor == Init => AnchorInv
  <1> SUFFICES ASSUME Init PROVE AnchorInv
    OBVIOUS
  <1>1. TypeOK
    BY InitType
  <1>2. \A w \in Worker : work[w] = Idle /\ \A e \in Event : ~Linked(e)
    BY DEF Init, Linked
  <1>3. QED  BY <1>1, <1>2 DEF AnchorInv, OwnEvents, HeadsAnchored, EveryLinkAnchored, AtStage,
                             Init, Linked

(* Links are the same, no worker got busy or moved on, no event vanished. *)
LEMMA QuietAnchor ==
  ASSUME AnchorInv, TypeOK', links' = links,
         \A w \in Worker : work'[w] \in {work[w], Idle},
         \A e \in Event : Saved(e) => Saved(e)'
  PROVE  AnchorInv'
  <1>1. \A h : Anchored(h)' <=> Anchored(h)
    BY DEF Anchored, Linked
  <1>2. \A w \in Worker : work'[w] # Idle => work[w] # Idle /\ work'[w] = work[w]
    OBVIOUS
  <1>3. OwnEvents'
    <2>1. \A e : Linked(e)' <=> Linked(e)
      BY DEF Linked
    <2>2. \A w \in Worker : work[w] # Idle => work[w].row.event \in Event
      BY EmissionType DEF AnchorInv
    <2>3. QED  BY <1>2, <2>1, <2>2 DEF AnchorInv, OwnEvents, AtStage
  <1>4. HeadsAnchored'
    BY <1>1, <1>2 DEF AnchorInv, HeadsAnchored, AtStage
  <1>5. EveryLinkAnchored'
    BY DEF AnchorInv, EveryLinkAnchored, Linked
  <1>6. QED  BY <1>3, <1>4, <1>5 DEF AnchorInv

LEMMA StampAnchor ==
  ASSUME AnchorInv, TypeOK', NEW w \in Worker, NEW e \in Event, StampEvent(w, e)
  PROVE  AnchorInv'
  <1>1. PICK f \in Fraction :
          work' = [work EXCEPT ![w] =
                     [stage |-> "stamped",
                      row |-> [event |-> e, at |-> now, frac |-> f, text |-> Reads[e],
                               edited |-> "no"],
                      prev |-> Genesis, hash |-> Genesis]]
    BY DEF StampEvent
  <1>2. links' = links /\ rows' = rows /\ ~Saved(e)
        /\ \A v \in Worker : work[v] # Idle => work[v].row.event # e
    BY DEF StampEvent
  <1>3. work'[w].row.event = e /\ work'[w].stage = "stamped"
        /\ \A v \in Worker : v # w => work'[v] = work[v]
    BY <1>1 DEF AnchorInv, TypeOK
  <1>4. \A h : Anchored(h)' <=> Anchored(h)
    BY <1>2 DEF Anchored, Linked
  <1>5. \A d : (Linked(d)' <=> Linked(d)) /\ (Saved(d)' <=> Saved(d))
    BY <1>2 DEF Linked, Saved
  <1>6. OwnEvents'
    <2>1. ~Linked(e)
      BY <1>2 DEF AnchorInv, OwnEvents
    <2>2. QED  BY <1>2, <1>3, <1>5, <2>1 DEF AnchorInv, OwnEvents, AtStage
  <1>7. HeadsAnchored'
    BY <1>3, <1>4 DEF AnchorInv, HeadsAnchored, AtStage
  <1>8. EveryLinkAnchored'
    BY <1>2 DEF AnchorInv, EveryLinkAnchored, Linked
  <1>9. QED  BY <1>6, <1>7, <1>8 DEF AnchorInv

(* Steps that only move the worker's emission on, its event unchanged. *)
LEMMA MoveAnchor ==
  ASSUME AnchorInv, TypeOK', NEW w \in Worker, NEW g, work[w] # Idle,
         work' = [work EXCEPT ![w] = g], links' = links,
         g.row = work[w].row, Anchored(g.prev),
         \A e \in Event : Saved(e) => Saved(e)',
         g.stage = "linking" => Saved(work[w].row.event)'
  PROVE  AnchorInv'
  <1>1. work'[w] = g /\ \A v \in Worker : v # w => work'[v] = work[v]
    BY DEF AnchorInv, TypeOK
  <1>2. \A h : Anchored(h)' <=> Anchored(h)
    BY DEF Anchored, Linked
  <1>3. \A d : Linked(d)' <=> Linked(d)
    BY DEF Linked
  <1>4. \A v \in Worker : work[v] # Idle => work[v].row.event \in Event
    BY EmissionType DEF AnchorInv
  <1>5. OwnEvents'
    BY <1>1, <1>3, <1>4 DEF AnchorInv, OwnEvents, AtStage
  <1>6. HeadsAnchored'
    BY <1>1, <1>2 DEF AnchorInv, HeadsAnchored, AtStage
  <1>7. EveryLinkAnchored'
    BY DEF AnchorInv, EveryLinkAnchored, Linked
  <1>8. QED  BY <1>5, <1>6, <1>7 DEF AnchorInv

(* Whatever set of links it is taken from, a head is anchored. *)
LEMMA HeadsAreAnchored ==
  ASSUME NEW S \in SUBSET {d \in Event : Linked(d)}, NEW h \in HeadsOf(S)
  PROVE  Anchored(h)
  BY DEF HeadsOf, Newest, Anchored

LEMMA EmitAnchor ==
  ASSUME AnchorInv, TypeOK', NEW w \in Worker, Emit(w) PROVE AnchorInv'
  <1>1. CASE \E e \in Event : StampEvent(w, e)
    BY <1>1, StampAnchor
  <1>2. CASE ChainEvent(w)
    <2>1. PICK h \in Heads :
            work' = [work EXCEPT ![w].stage = "chained", ![w].prev = h,
                                 ![w].hash = Extend(h, work[w].row)]
      BY <1>2 DEF ChainEvent
    <2> DEFINE g == [work[w] EXCEPT !.stage = "chained", !.prev = h,
                                    !.hash = Extend(h, work[w].row)]
    <2>2. work[w] # Idle /\ work[w] \in Emission
      BY <1>2, EmissionType DEF ChainEvent, AtStage, AnchorInv
    <2>3. work' = [work EXCEPT ![w] = g]
      BY <2>1 DEF AnchorInv, TypeOK
    <2>4. g.row = work[w].row /\ g.prev = h /\ g.stage = "chained"
      BY <2>2 DEF Emission
    <2>5. Anchored(h)
      BY HeadsAreAnchored DEF Heads
    <2>6. links' = links /\ \A e \in Event : Saved(e) => Saved(e)'
      BY <1>2 DEF ChainEvent, Saved
    <2> HIDE DEF g
    <2>7. QED  BY <2>2, <2>3, <2>4, <2>5, <2>6, MoveAnchor
  <1>3. CASE SaveEvent(w)
    <2> DEFINE g == [work[w] EXCEPT !.stage = "linking"]
    <2>1. work[w] # Idle /\ work[w] \in Emission /\ AtStage(w, "chained")
          /\ work[w].row \in Content /\ work[w].row.event \in Event
      BY <1>3, EmissionType DEF SaveEvent, AtStage, AnchorInv
    <2>2. work' = [work EXCEPT ![w] = g] /\ links' = links
      BY <1>3 DEF SaveEvent, AnchorInv, TypeOK
    <2>3. g.row = work[w].row /\ g.prev = work[w].prev
      BY <2>1 DEF Emission
    <2>4. Stored(work[w].row) # Absent
      BY <2>1 DEF Stored, Absent, Content
    <2>5. Saved(work[w].row.event)' /\ \A e \in Event : Saved(e) => Saved(e)'
      BY <1>3, <2>1, <2>4 DEF SaveEvent, Saved, AnchorInv, TypeOK
    <2>6. Anchored(work[w].prev)
      BY <2>1 DEF AnchorInv, HeadsAnchored
    <2> HIDE DEF g
    <2>7. QED  BY <2>1, <2>2, <2>3, <2>5, <2>6, MoveAnchor
  <1>4. CASE SaveLink(w)
    <2> DEFINE e == work[w].row.event
    <2>1. AtStage(w, "linking") /\ work[w] # Idle /\ e \in Event
      BY <1>4, EmissionType DEF SaveLink, AtStage, AnchorInv
    <2>2. /\ links'[e].prev = work[w].prev
          /\ \A d \in Event : d # e => links'[d] = links[d]
          /\ work'[w] = Idle /\ \A v \in Worker : v # w => work'[v] = work[v]
          /\ rows' = rows
      BY <1>4, <2>1 DEF SaveLink, AnchorInv, TypeOK
    <2>3. ~Linked(e) /\ Saved(e) /\ Anchored(work[w].prev)
      BY <2>1 DEF AnchorInv, OwnEvents, HeadsAnchored
    <2>4. \A h : Anchored(h) => Anchored(h)'
      BY <2>2, <2>3 DEF Anchored, Linked
    <2>5. OwnEvents'
      <3>1. \A d : Saved(d)' <=> Saved(d)
        BY <2>2 DEF Saved
      <3>2. \A v \in Worker : v # w /\ work[v] # Idle
              => work[v].row.event \in Event /\ work[v].row.event # e
        BY <2>1, EmissionType DEF AnchorInv, OwnEvents
      <3>3. \A d \in Event : d # e => (Linked(d)' <=> Linked(d))
        BY <2>2 DEF Linked
      <3> HIDE DEF e
      <3>4. QED  BY <2>2, <2>3, <3>1, <3>2, <3>3 DEF AnchorInv, OwnEvents, AtStage
    <2>6. HeadsAnchored'
      BY <2>2, <2>4 DEF AnchorInv, HeadsAnchored, AtStage
    <2>7. EveryLinkAnchored'
      <3> SUFFICES ASSUME NEW d \in Event, Linked(d)' PROVE Anchored(links[d].prev)'
        BY DEF EveryLinkAnchored, Anchored
      <3>1. CASE d = e
        BY <2>2, <2>3, <2>4, <3>1
      <3>2. CASE d # e
        <4>1. Linked(d) /\ links'[d] = links[d]
          BY <2>2, <3>2 DEF Linked
        <4>2. Anchored(links[d].prev)
          BY <4>1 DEF AnchorInv, EveryLinkAnchored, Anchored
        <4>3. QED  BY <2>4, <4>1, <4>2
      <3>3. QED  BY <3>1, <3>2
    <2>8. QED  BY <2>5, <2>6, <2>7 DEF AnchorInv
  <1>5. CASE EmitFails(w)
    <2>1. links' = links /\ rows' = rows /\ work' = [work EXCEPT ![w] = Idle]
      BY <1>5 DEF EmitFails
    <2>2. \A v \in Worker : work'[v] \in {work[v], Idle}
      BY <2>1 DEF AnchorInv, TypeOK
    <2>3. QED  BY <2>1, <2>2, QuietAnchor DEF Saved
  <1>6. QED  BY <1>1, <1>2, <1>3, <1>4, <1>5 DEF Emit

LEMMA NextAnchor == AnchorInv /\ [Next]_vars => AnchorInv'
  <1> SUFFICES ASSUME AnchorInv, [Next]_vars PROVE AnchorInv'
    OBVIOUS
  <1>1. TypeOK'
    BY NextType DEF AnchorInv
  <1>2. CASE \E w \in Worker : Emit(w)
    BY <1>1, <1>2, EmitAnchor
  <1>3. CASE \E e \in Event : Alter(e)
    <2>1. PICK e \in Event : Alter(e)
      BY <1>3
    <2>2. links' = links /\ work' = work
      BY <2>1 DEF Alter
    <2>3. \A d \in Event : Saved(d) => Saved(d)'
      BY <2>1, AlterFacts DEF Saved, AnchorInv
    <2>4. QED  BY <1>1, <2>2, <2>3, QuietAnchor
  <1>4. CASE Crash
    <2>1. links' = links /\ rows' = rows /\ \A w \in Worker : work'[w] = Idle
      BY <1>4 DEF Crash
    <2>2. QED  BY <1>1, <2>1, QuietAnchor DEF Saved
  <1>5. CASE links' = links /\ rows' = rows /\ work' = work
    BY <1>1, <1>5, QuietAnchor DEF Saved
  <1>6. QED
    BY <1>2, <1>3, <1>4, <1>5
       DEF Next, vars, Tick, BeginSweep, VerifyOnDemand, Verify, ReadAnchor, ReadEvents,
           CompareEvent, StoreRun, VerifyFails, EndRun

(* Whatever emissions overlap, fail or are cut off by a restart, no link    *)
(* refers to a hash that was never saved: PersistentAuditEventSink reads    *)
(* its previous hash from committed links, and links are never replaced.    *)
THEOREM ChainHangsTogether == Spec => []EveryLinkAnchored
  <1>1. AnchorInv => EveryLinkAnchored
    BY DEF AnchorInv
  <1>2. QED  BY <1>1, InitAnchor, NextAnchor, PTL DEF Spec

-----------------------------------------------------------------------------
(* The steps, as the theorems below use them.                              *)

LEMMA ExtendFacts ==
  /\ \A h \in Hash : Len(h) \in Nat
  /\ \A h \in Hash, row \in Content : Len(Extend(h, row)) = Len(h) + 1
  /\ \A h, g \in Hash, row, x \in Content :
        Extend(h, row) = Extend(g, x) => h = g /\ Canonical(row) = Canonical(x)
  <1>1. \A h \in Hash, row \in Content : Len(h) \in Nat /\ Len(Extend(h, row)) = Len(h) + 1
    <2>1. \A row \in Content : Canonical(row) \in Digest
      BY DEF Canonical, Digest, Content
    <2>2. QED  BY <2>1, AppendProperties DEF Hash, Extend
  <1>2. \A h \in Hash : Len(h) \in Nat
    BY DEF Hash
  <1>3. ASSUME NEW h \in Hash, NEW g \in Hash, NEW row \in Content, NEW x \in Content,
               Extend(h, row) = Extend(g, x)
        PROVE  h = g /\ Canonical(row) = Canonical(x)
    <2>1. Canonical(row) \in Digest /\ Canonical(x) \in Digest
      BY DEF Canonical, Digest, Content
    <2>2. QED  BY <1>3, <2>1, AppendInjective DEF Hash, Extend
  <1>4. QED  BY <1>1, <1>2, <1>3

LEMMA LinkType ==
  ASSUME TypeOK, NEW e \in Event, Linked(e)
  PROVE  links[e] \in Link /\ links[e].prev \in Hash /\ links[e].hash \in Hash
         /\ links[e].at \in 0..MaxTime
  BY DEF TypeOK, Linked, Link

LEMMA EmissionFields ==
  ASSUME TypeOK, NEW w \in Worker, work[w] # Idle
  PROVE  /\ work[w].stage \in {"stamped", "chained", "linking"}
         /\ work[w].row \in Content /\ work[w].row.event \in Event
         /\ work[w].row.at \in 0..MaxTime /\ work[w].row.frac \in Fraction
         /\ work[w].prev \in Hash /\ work[w].hash \in Hash
  BY EmissionType DEF Emission, Content

LEMMA CheckFields ==
  ASSUME TypeOK, check # Idle
  PROVE  /\ check \in Verification
         /\ check.by \in {"sweep", "demand"}
         /\ check.stage \in {"begun", "anchored", "checking"}
         /\ check.start \in Int /\ check.end \in 0..MaxTime /\ check.hash \in Hash
         /\ check.todo \subseteq Content /\ check.passed \subseteq Content
  BY DEF TypeOK, Verification

(* The text that an event is emitted with, and what an edit of it does.    *)
AsEmitted(row) == row.edited = "no" /\ row.text = Reads[row.event]

EditShows(row) ==
    /\ row.edited = "text" => row.text # Reads[row.event]
    /\ row.edited # "text" => row.text = Reads[row.event]

(* What one step does to an emission. *)
LEMMA EmissionStep ==
  ASSUME TypeOK, [Next]_vars, NEW w \in Worker, work'[w] # Idle
  PROVE  \/ work'[w] = work[w]
         \/ \E e \in Event : /\ StampEvent(w, e) /\ work'[w].stage = "stamped"
                             /\ work'[w].row \in Content /\ work'[w].row.event = e
                             /\ work'[w].row.at = now /\ AsEmitted(work'[w].row)
         \/ /\ ChainEvent(w) /\ work[w] # Idle /\ work'[w].stage = "chained"
            /\ work'[w].row = work[w].row /\ work'[w].prev \in Heads
            /\ work'[w].hash = Extend(work'[w].prev, work[w].row)
         \/ /\ SaveEvent(w) /\ work[w] # Idle /\ work[w].stage = "chained"
            /\ work'[w].stage = "linking" /\ work'[w].row = work[w].row
            /\ work'[w].prev = work[w].prev /\ work'[w].hash = work[w].hash
  <1>1. CASE work' = work \/ Crash
    BY <1>1 DEF Crash
  <1>2. ASSUME NEW v \in Worker, v # w, Emit(v) PROVE work'[w] = work[w]
    BY <1>2 DEF Emit, StampEvent, ChainEvent, SaveEvent, SaveLink, EmitFails, TypeOK
  <1>3. ASSUME NEW e \in Event, StampEvent(w, e)
        PROVE  /\ work'[w].stage = "stamped" /\ work'[w].row \in Content
               /\ work'[w].row.event = e /\ work'[w].row.at = now
               /\ AsEmitted(work'[w].row)
    <2>1. PICK f \in Fraction :
            work' = [work EXCEPT ![w] =
                       [stage |-> "stamped",
                        row |-> [event |-> e, at |-> now, frac |-> f, text |-> Reads[e],
                                 edited |-> "no"],
                        prev |-> Genesis, hash |-> Genesis]]
      BY <1>3 DEF StampEvent
    <2>2. [event |-> e, at |-> now, frac |-> f, text |-> Reads[e],
           edited |-> "no"] \in Content
      BY DEF TypeOK, Content
    <2>3. QED  BY <2>1, <2>2 DEF TypeOK, AsEmitted
  <1>4. CASE ChainEvent(w)
    <2>1. PICK h \in Heads :
            work' = [work EXCEPT ![w].stage = "chained", ![w].prev = h,
                                 ![w].hash = Extend(h, work[w].row)]
      BY <1>4 DEF ChainEvent
    <2>2. work[w] # Idle /\ work[w] \in Emission
      BY <1>4, EmissionType DEF ChainEvent, AtStage
    <2>3. work'[w] = [work[w] EXCEPT !.stage = "chained", !.prev = h,
                                     !.hash = Extend(h, work[w].row)]
      BY <2>1 DEF TypeOK
    <2>4. QED  BY <1>4, <2>2, <2>3 DEF Emission
  <1>5. CASE SaveEvent(w)
    <2>1. work[w] # Idle /\ work[w] \in Emission /\ work[w].stage = "chained"
      BY <1>5, EmissionType DEF SaveEvent, AtStage
    <2>2. work'[w] = [work[w] EXCEPT !.stage = "linking"]
      BY <1>5 DEF SaveEvent, TypeOK
    <2>3. QED  BY <1>5, <2>1, <2>2 DEF Emission
  <1>6. CASE SaveLink(w) \/ EmitFails(w)
    BY <1>6 DEF SaveLink, EmitFails, TypeOK
  <1>7. \/ work' = work \/ Crash \/ \E v \in Worker : Emit(v)
    BY DEF Next, vars, Tick, Alter, BeginSweep, VerifyOnDemand, Verify, ReadAnchor,
           ReadEvents, CompareEvent, StoreRun, VerifyFails, EndRun
  <1>8. QED  BY <1>1, <1>2, <1>3, <1>4, <1>5, <1>6, <1>7 DEF Emit

(* Links are added, never replaced. *)
LEMMA LinkStep ==
  ASSUME AnchorInv, [Next]_vars, NEW e \in Event
  PROVE  /\ Linked(e) => links'[e] = links[e]
         /\ \/ links'[e] = links[e]
            \/ \E w \in Worker :
                 /\ SaveLink(w) /\ work[w] # Idle /\ work[w].stage = "linking"
                 /\ work[w].row.event = e /\ ~Linked(e) /\ Saved(e)
                 /\ links'[e] = [prev |-> work[w].prev, hash |-> work[w].hash,
                                 at |-> work[w].row.at]
  <1>1. ASSUME NEW w \in Worker, SaveLink(w), links'[e] # links[e]
        PROVE  /\ SaveLink(w) /\ work[w] # Idle /\ work[w].stage = "linking"
               /\ work[w].row.event = e /\ ~Linked(e) /\ Saved(e)
               /\ links'[e] = [prev |-> work[w].prev, hash |-> work[w].hash,
                               at |-> work[w].row.at]
    BY <1>1 DEF SaveLink, AtStage, AnchorInv, OwnEvents, TypeOK
  <1>2. ASSUME NEW w \in Worker, Emit(w), ~SaveLink(w) PROVE links' = links
    BY <1>2 DEF Emit, StampEvent, ChainEvent, SaveEvent, EmitFails
  <1>3. links' = links \/ \E w \in Worker : Emit(w)
    BY DEF Next, vars, Tick, Crash, Alter, BeginSweep, VerifyOnDemand, Verify, ReadAnchor,
           ReadEvents, CompareEvent, StoreRun, VerifyFails, EndRun
  <1>4. QED  BY <1>1, <1>2, <1>3

(* What it does to the verification. *)
LEMMA CheckStep ==
  ASSUME TypeOK, [Next]_vars, check' # Idle
  PROVE  \/ check' = check
         \/ /\ check # Idle /\ check' = [check EXCEPT !.quiet = FALSE]
            /\ UNCHANGED <<now, rows, links, due, swept>>
         \/ /\ check = Idle
            /\ BeginSweep \/ \E days \in Days : Verify("demand", now - days)
         \/ ReadAnchor \/ ReadEvents \/ CompareEvent
  BY DEF Next, vars, Tick, Crash, Alter, Emit, StampEvent, ChainEvent, SaveEvent, SaveLink,
         EmitFails, BeginSweep, VerifyOnDemand, Verify, StoreRun, VerifyFails, EndRun

-----------------------------------------------------------------------------
(* What a successful verification has seen.  A link's hash ends with what   *)
(* the canonical string showed of its event when it was emitted, and an     *)
(* event whose text was edited does not show it any more; a verification    *)
(* that has found no mismatch has walked a chain: each event it passed      *)
(* continues the hash that it held.                                         *)

LinkSeals(e) ==
    \E row \in Content : row.text = Reads[e] /\ links[e].hash = Extend(links[e].prev, row)

Chain == {row.event : row \in check.passed}

Continues(e, anchor) ==
    links[e].prev = anchor \/ \E d \in Chain : links[d].hash = links[e].prev

PassedChain ==
    /\ \A row \in check.passed : row.edited # "text"
    /\ \A e \in Chain : Linked(e) /\ Len(links[e].prev) < Len(check.hash)
    /\ \A d, e \in Chain : links[d].prev = links[e].prev => d = e
    /\ \E anchor \in Hash :
         /\ \A e \in Chain : Continues(e, anchor)
         /\ check.hash = anchor \/ \E d \in Chain : links[d].hash = check.hash

SealInv ==
    /\ AnchorInv
    /\ \A e \in Event : Linked(e) => LinkSeals(e)
    /\ \A e \in Event : Saved(e) => rows[e].event = e /\ EditShows(rows[e])
    /\ \A w \in Worker : work[w] # Idle =>
          /\ AsEmitted(work[w].row)
          /\ work[w].stage # "stamped" => work[w].hash = Extend(work[w].prev, work[w].row)
    /\ check # Idle => /\ check.stage # "checking" => check.passed = {} /\ check.ok
                       /\ \A row \in check.todo : EditShows(row)
                       /\ check.ok => PassedChain

LEMMA SealLinks ==
  ASSUME SealInv, [Next]_vars, NEW e \in Event, Linked(e)' PROVE LinkSeals(e)'
  <1>0. AnchorInv /\ TypeOK
    BY DEF SealInv, AnchorInv
  <1>1. CASE links'[e] = links[e]
    BY <1>1 DEF SealInv, LinkSeals, Linked
  <1>2. ASSUME NEW w \in Worker, work[w] # Idle, work[w].stage = "linking",
               work[w].row.event = e,
               links'[e] = [prev |-> work[w].prev, hash |-> work[w].hash,
                            at |-> work[w].row.at]
        PROVE  LinkSeals(e)'
    <2>1. /\ work[w].row.text = Reads[e] /\ work[w].row \in Content
          /\ work[w].hash = Extend(work[w].prev, work[w].row)
      BY <1>0, <1>2, EmissionFields DEF SealInv, AsEmitted
    <2>2. links'[e].prev = work[w].prev /\ links'[e].hash = work[w].hash
      BY <1>2
    <2>3. QED  BY <2>1, <2>2 DEF LinkSeals
  <1>3. QED  BY <1>0, <1>1, <1>2, LinkStep

LEMMA SealWork ==
  ASSUME SealInv, [Next]_vars, NEW w \in Worker, work'[w] # Idle
  PROVE  /\ AsEmitted(work'[w].row)
         /\ work'[w].stage # "stamped" => work'[w].hash = Extend(work'[w].prev, work'[w].row)
  <1>0. TypeOK
    BY DEF SealInv, AnchorInv
  <1>1. QED  BY <1>0, EmissionStep DEF SealInv

(* What one step does to a stored event. *)
LEMMA RowStep ==
  ASSUME TypeOK, [Next]_vars, NEW e \in Event, Saved(e)'
  PROVE  \/ Saved(e) /\ rows'[e] = rows[e]
         \/ Alter(e)
         \/ \E w \in Worker : /\ SaveEvent(w) /\ work[w] # Idle /\ work[w].row.event = e
                              /\ rows'[e] = Stored(work[w].row)
  <1>1. ASSUME NEW d \in Event, Alter(d)
        PROVE  Alter(e) \/ (Saved(e) /\ rows'[e] = rows[e])
    <2>1. CASE d = e
      BY <1>1, <2>1
    <2>2. CASE d # e
      BY <1>1, <2>2, AlterFacts DEF Saved
    <2>3. QED  BY <2>1, <2>2
  <1>2. ASSUME NEW w \in Worker, SaveEvent(w)
        PROVE  \/ Saved(e) /\ rows'[e] = rows[e]
               \/ /\ SaveEvent(w) /\ work[w] # Idle /\ work[w].row.event = e
                  /\ rows'[e] = Stored(work[w].row)
    BY <1>2 DEF SaveEvent, AtStage, Saved, TypeOK
  <1>3. ASSUME NEW w \in Worker, Emit(w), ~SaveEvent(w) PROVE rows' = rows
    BY <1>3 DEF Emit, StampEvent, ChainEvent, SaveLink, EmitFails
  <1>4. \/ rows' = rows \/ (\E d \in Event : Alter(d)) \/ \E w \in Worker : Emit(w)
    BY DEF Next, vars, Tick, Crash, BeginSweep, VerifyOnDemand, Verify, ReadAnchor,
           ReadEvents, CompareEvent, StoreRun, VerifyFails, EndRun
  <1>5. QED  BY <1>1, <1>2, <1>3, <1>4 DEF Saved

LEMMA SealRows ==
  ASSUME SealInv, [Next]_vars, NEW e \in Event, Saved(e)'
  PROVE  rows'[e].event = e /\ EditShows(rows[e])'
  <1>0. TypeOK
    BY DEF SealInv, AnchorInv
  <1>1. CASE Saved(e) /\ rows'[e] = rows[e]
    BY <1>1 DEF SealInv, EditShows
  <1>2. CASE Alter(e)
    BY <1>0, <1>2, AlterFacts DEF SealInv, EditShows
  <1>3. ASSUME NEW w \in Worker, work[w] # Idle, work[w].row.event = e,
               rows'[e] = Stored(work[w].row)
        PROVE  rows'[e].event = e /\ EditShows(rows[e])'
    <2>1. AsEmitted(work[w].row) /\ work[w].row \in Content
      BY <1>0, <1>3, EmissionFields DEF SealInv
    <2>2. /\ rows'[e].event = e /\ rows'[e].text = work[w].row.text
          /\ rows'[e].edited = work[w].row.edited
      BY <1>3, <2>1 DEF Stored, Content
    <2>3. QED  BY <1>3, <2>1, <2>2 DEF AsEmitted, EditShows
  <1>4. \/ Saved(e) /\ rows'[e] = rows[e]
        \/ Alter(e)
        \/ \E w \in Worker : /\ work[w] # Idle /\ work[w].row.event = e
                             /\ rows'[e] = Stored(work[w].row)
    BY <1>0, RowStep
  <1>5. QED  BY <1>1, <1>2, <1>3, <1>4

(* A link stays what a verification has seen of it. *)
LEMMA PassedKeeps ==
  ASSUME SealInv, [Next]_vars, PassedChain, check.passed \subseteq Content,
         check'.passed = check.passed, check'.hash = check.hash
  PROVE  PassedChain'
  <1>1. Chain' = Chain /\ Chain \subseteq Event
    BY DEF Chain, Content
  <1>2. \A e \in Chain : Linked(e) /\ links'[e] = links[e] /\ Linked(e)'
    BY <1>1, LinkStep DEF SealInv, PassedChain, Linked
  <1>3. QED  BY <1>1, <1>2 DEF PassedChain, Continues

LEMMA PassedGrows ==
  ASSUME SealInv, check # Idle, check.ok, CompareEvent, check'.ok PROVE PassedChain'
  <1>0. /\ TypeOK /\ PassedChain /\ AnchorInv
        /\ check \in Verification /\ check.hash \in Hash
        /\ check.todo \subseteq Content /\ check.passed \subseteq Content
    BY CheckFields DEF SealInv, AnchorInv
  <1>1. PICK row \in check.todo :
          check' = IF Agrees(row.event, Extend(check.hash, row))
                   THEN [check EXCEPT !.hash = Extend(check.hash, row),
                                      !.todo = @ \ {row}, !.passed = @ \cup {row}]
                   ELSE [check EXCEPT !.hash = Extend(check.hash, row),
                                      !.todo = {}, !.ok = FALSE]
    BY DEF CompareEvent
  <1> DEFINE e == row.event
  <1>2. row \in Content /\ e \in Event /\ links' = links
    BY <1>0 DEF Content, CompareEvent
  <1>3. Agrees(e, Extend(check.hash, row))
    BY <1>0, <1>1 DEF Verification
  <1>4. check'.hash = Extend(check.hash, row) /\ check'.passed = check.passed \cup {row}
    BY <1>0, <1>1, <1>3 DEF Verification
  <1>5. /\ Linked(e) /\ links[e].hash = Extend(check.hash, row)
        /\ links[e].prev \in Hash
    BY <1>0, <1>2, <1>3, LinkType DEF Agrees
  <1>6. row.edited # "text" /\ links[e].prev = check.hash
    <2>1. PICK x \in Content : x.text = Reads[e] /\ links[e].hash = Extend(links[e].prev, x)
      BY <1>2, <1>5 DEF SealInv, LinkSeals
    <2>2. Extend(check.hash, row) = Extend(links[e].prev, x)
      BY <1>5, <2>1
    <2>3. check.hash = links[e].prev /\ Canonical(row) = Canonical(x)
      BY <1>0, <1>2, <1>5, <2>1, <2>2, ExtendFacts
    <2>4. row.text = Reads[e]
      BY <2>1, <2>3 DEF Canonical
    <2>5. QED  BY <1>0, <2>3, <2>4 DEF SealInv, EditShows
  <1>7. Chain' = Chain \cup {e}
    BY <1>4 DEF Chain
  <1>8. Len(check.hash) \in Nat /\ Len(check'.hash) = Len(check.hash) + 1
    BY <1>0, <1>2, <1>4, ExtendFacts
  <1>9. \A d \in Chain : d \in Event /\ Linked(d) /\ Len(links[d].prev) < Len(check.hash)
                         /\ Len(links[d].prev) \in Nat
    BY <1>0, LinkType, ExtendFacts DEF PassedChain, Chain, Content
  <1> HIDE DEF e
  <1>10. \A x \in check'.passed : x.edited # "text"
    BY <1>0, <1>4, <1>6 DEF PassedChain
  <1>11. \A d \in Chain' : Linked(d)' /\ Len(links'[d].prev) < Len(check'.hash)
    BY <1>2, <1>5, <1>6, <1>7, <1>8, <1>9 DEF Linked
  <1>12. \A d, f \in Chain' : links'[d].prev = links'[f].prev => d = f
    <2>1. \A d, f \in Chain : links[d].prev = links[f].prev => d = f
      BY <1>0 DEF PassedChain
    <2>2. \A d \in Chain : links[d].prev # links[e].prev
      BY <1>6, <1>8, <1>9
    <2>3. QED  BY <1>2, <1>7, <2>1, <2>2
  <1>13. \E anchor \in Hash :
            /\ \A d \in Chain' : Continues(d, anchor)'
            /\ check'.hash = anchor \/ \E d \in Chain' : links'[d].hash = check'.hash
    <2>1. PICK anchor \in Hash :
            /\ \A d \in Chain : Continues(d, anchor)
            /\ check.hash = anchor \/ \E d \in Chain : links[d].hash = check.hash
      BY <1>0 DEF PassedChain
    <2>2. \A d \in Chain' : Continues(d, anchor)'
      BY <1>2, <1>6, <1>7, <2>1 DEF Continues
    <2>3. links'[e].hash = check'.hash /\ e \in Chain'
      BY <1>2, <1>4, <1>5, <1>7
    <2>4. QED  BY <2>2, <2>3
  <1>14. QED  BY <1>10, <1>11, <1>12, <1>13 DEF PassedChain

LEMMA SealCheck ==
  ASSUME SealInv, [Next]_vars, check' # Idle
  PROVE  /\ check'.stage # "checking" => check'.passed = {} /\ check'.ok
         /\ check'.ok => PassedChain'
  <1>0. TypeOK /\ TypeOK' /\ (check # Idle => check \in Verification /\ check.passed \subseteq Content)
    BY NextType, CheckFields DEF SealInv, AnchorInv
  <1>1. ASSUME check # Idle, check'.passed = check.passed, check'.hash = check.hash,
               check'.ok = check.ok, check'.stage = check.stage \/ check'.stage = "checking"
        PROVE  /\ check'.stage # "checking" => check'.passed = {} /\ check'.ok
               /\ check'.ok => PassedChain'
    BY <1>0, <1>1, PassedKeeps DEF SealInv
  <1>2. ASSUME check'.passed = {}, check'.ok, check'.hash \in Hash
        PROVE  /\ check'.stage # "checking" => check'.passed = {} /\ check'.ok
               /\ check'.ok => PassedChain'
    <2>1. Chain' = {}
      BY <1>2 DEF Chain
    <2>2. QED  BY <1>2, <2>1 DEF PassedChain
  <1>3. CASE check' = check
    BY <1>1, <1>3
  <1>4. CASE check # Idle /\ check' = [check EXCEPT !.quiet = FALSE]
    BY <1>0, <1>1, <1>4 DEF Verification
  <1>5. ASSUME NEW by, NEW start, Verify(by, start)
        PROVE  check'.passed = {} /\ check'.ok /\ check'.hash \in Hash
    BY <1>5, HashTypes DEF Verify
  <1>6. CASE ReadAnchor
    <2>1. /\ check # Idle /\ check.stage = "begun"
          /\ check'.passed = check.passed /\ check'.ok = check.ok
      BY <1>0, <1>6 DEF ReadAnchor, Checking, Verification
    <2>2. check'.hash \in Hash
      BY <1>0, CheckFields DEF TypeOK, Verification
    <2>3. QED  BY <1>2, <2>1, <2>2 DEF SealInv
  <1>7. CASE ReadEvents
    BY <1>0, <1>1, <1>7 DEF ReadEvents, Checking, Verification
  <1>8. CASE CompareEvent
    <2>1. check # Idle /\ check.stage = "checking"
      BY <1>8 DEF CompareEvent, Checking
    <2>2. check'.stage = "checking" /\ (check'.ok => check.ok)
      BY <1>0, <1>8, <2>1 DEF CompareEvent, Verification
    <2>3. QED  BY <1>8, <2>1, <2>2, PassedGrows
  <1>9. QED
    BY <1>0, <1>2, <1>3, <1>4, <1>5, <1>6, <1>7, <1>8, CheckStep DEF BeginSweep

LEMMA SealTodo ==
  ASSUME SealInv, [Next]_vars, check' # Idle, NEW row \in check'.todo
  PROVE  EditShows(row)
  <1>0. TypeOK /\ (check # Idle => check \in Verification)
    BY CheckFields DEF SealInv, AnchorInv
  <1>1. CASE check # Idle /\ row \in check.todo
    BY <1>1 DEF SealInv
  <1>2. CASE ReadEvents
    <2>1. check # Idle /\ check'.todo = {rows[e] : e \in {e \in Event : InWindow(e)}}
      BY <1>0, <1>2 DEF ReadEvents, Checking, Verification
    <2>2. PICK e \in Event : Saved(e) /\ row = rows[e]
      BY <2>1 DEF InWindow
    <2>3. QED  BY <2>2 DEF SealInv
  <1>3. CASE CompareEvent
    BY <1>0, <1>1, <1>3 DEF CompareEvent, Checking, Verification
  <1>4. CASE ReadAnchor
    BY <1>0, <1>1, <1>4 DEF ReadAnchor, Checking, Verification
  <1>5. ASSUME NEW by, NEW start, Verify(by, start) PROVE FALSE
    BY <1>5 DEF Verify
  <1>6. CASE check # Idle /\ check' = [check EXCEPT !.quiet = FALSE]
    BY <1>0, <1>1, <1>6 DEF Verification
  <1>7. QED
    BY <1>0, <1>1, <1>2, <1>3, <1>4, <1>5, <1>6, CheckStep DEF BeginSweep

LEMMA NextSeal == SealInv /\ [Next]_vars => SealInv'
  <1> SUFFICES ASSUME SealInv, [Next]_vars PROVE SealInv'
    OBVIOUS
  <1>1. AnchorInv'
    BY NextAnchor DEF SealInv
  <1>2. \A e \in Event : Linked(e)' => LinkSeals(e)'
    BY SealLinks
  <1>3. \A e \in Event : Saved(e)' => rows'[e].event = e /\ EditShows(rows[e])'
    BY SealRows
  <1>4. \A w \in Worker : work'[w] # Idle =>
          /\ AsEmitted(work[w].row)'
          /\ work'[w].stage # "stamped" => work'[w].hash = Extend(work'[w].prev, work'[w].row)
    BY SealWork DEF AsEmitted
  <1>5. check' # Idle => /\ check'.stage # "checking" => check'.passed = {} /\ check'.ok
                         /\ \A row \in check'.todo : EditShows(row)
                         /\ check'.ok => PassedChain'
    BY SealTodo, SealCheck
  <1>6. QED  BY <1>1, <1>2, <1>3, <1>4, <1>5 DEF SealInv, EditShows

LEMMA InitSeal == Init => SealInv
  BY InitAnchor DEF Init, SealInv, Linked, Saved

(* A change of the hashed text of a stored event does not pass: the hash    *)
(* that its link keeps was computed over the text it was emitted with.      *)
(* Nothing is said of what Canonicalize leaves out.                         *)
THEOREM AlterationsShow == Spec => []AlterationIsReported
  <1>1. SealInv => AlterationIsReported
    BY DEF SealInv, AlterationIsReported, Finished, Checking, PassedChain
  <1>2. QED  BY <1>1, InitSeal, NextSeal, PTL DEF Spec

(* A successful verification has seen one unbroken chain, although emissions *)
(* may fork it and the verifier never looks at PreviousHash: the hash that  *)
(* it recomputes determines the previous one.                               *)
THEOREM SuccessIsOneChain == Spec => []SuccessMeansOneChain
  <1>1. SealInv => SuccessMeansOneChain
    <2> SUFFICES ASSUME SealInv, Finished, check.ok
                 PROVE  /\ \A e \in Chain : Linked(e)
                        /\ \A d, e \in Chain : links[d].prev = links[e].prev => d = e
                        /\ Cardinality({e \in Chain :
                              ~\E d \in Chain : links[d].hash = links[e].prev}) <= 1
      BY DEF SuccessMeansOneChain, Chain
    <2> DEFINE First == {e \in Chain : ~\E d \in Chain : links[d].hash = links[e].prev}
    <2>1. PassedChain
      BY DEF SealInv, Finished, Checking
    <2>2. \A d, e \in First : d = e
      BY <2>1 DEF PassedChain, Continues
    <2>3. Cardinality(First) <= 1
      <3> HIDE DEF First
      <3>1. CASE First = {}
        BY <3>1, FS_EmptySet
      <3>2. CASE First # {}
        <4>1. PICK e \in First : First = {e}
          BY <2>2, <3>2
        <4>2. Cardinality({e}) = 1
          BY FS_Singleton
        <4>3. QED  BY <4>1, <4>2
      <3>3. QED  BY <3>1, <3>2
    <2>4. QED  BY <2>1, <2>3 DEF PassedChain
  <1>2. QED  BY <1>1, InitSeal, NextSeal, PTL DEF Spec

-----------------------------------------------------------------------------
(* No event falls between two sweeps.  Covered(t): what happened before t   *)
(* has been swept, and nothing will be saved any more that happened then.   *)

Reach == Window + Overlap

Covered(t) ==
    /\ t <= now
    /\ \A e \in Event : Saved(e) /\ rows[e].at < t => e \in swept
    /\ \A w \in Worker : work[w] # Idle => t <= work[w].row.at

OnTime ==
    /\ \A w \in Worker : work[w] # Idle => now <= work[w].row.at + EmitTime
    /\ Sweeping => check.end <= now /\ now <= check.end + SweepTime
    /\ ~Sweeping => now <= due

SweptSoFar ==
    /\ ~Sweeping => Covered(due - Reach)
    /\ Sweeping => Covered(check.start)
    /\ Sweeping /\ check.stage = "checking" => Covered(check.end - EmitTime)

SweepInv == TypeOK /\ OnTime /\ (steady => SweptSoFar)

LEMMA RowAt ==
  ASSUME TypeOK, NEW e \in Event, Saved(e)
  PROVE  rows[e] \in Content /\ rows[e].at \in 0..MaxTime
  BY DEF TypeOK, Saved, Content

(* The clock waits for emissions, sweeps and delays. *)
LEMMA OnTimeStep ==
  ASSUME TypeOK, OnTime, [Next]_vars PROVE OnTime'
  <1> DEFINE Sweeping1 == check' # Idle /\ check'.by = "sweep"
  <1> SUFFICES /\ \A w \in Worker : work'[w] # Idle => now' <= work'[w].row.at + EmitTime
               /\ Sweeping1 => check'.end <= now' /\ now' <= check'.end + SweepTime
               /\ ~Sweeping1 => now' <= due'
    BY DEF OnTime, Sweeping
  <1>0. /\ TypeOK' /\ now \in Nat /\ now' \in Nat /\ due \in Nat
    BY NextType DEF TypeOK
  <1>1. CASE Tick
    <2>1. /\ \A w \in Worker : work[w] # Idle => work[w].row.at \in Nat
          /\ check # Idle => check.end \in Nat
      BY EmissionFields, CheckFields
    <2>2. /\ now' = now + 1 /\ work' = work /\ check' = check /\ due' = due
          /\ \A w \in Worker : work[w] # Idle => now < work[w].row.at + EmitTime
          /\ IF Sweeping THEN now < check.end + SweepTime ELSE now < due
      BY <1>1 DEF Tick
    <2>3. \A w \in Worker : work'[w] # Idle => now' <= work'[w].row.at + EmitTime
      BY <1>0, <2>1, <2>2
    <2>4. Sweeping => check'.end <= now' /\ now' <= check'.end + SweepTime
      BY <1>0, <2>1, <2>2 DEF OnTime, Sweeping
    <2>5. QED  BY <1>0, <2>2, <2>3, <2>4 DEF Sweeping
  <1>2. ASSUME now' = now
        PROVE  \A w \in Worker : work'[w] # Idle => now' <= work'[w].row.at + EmitTime
    <2> SUFFICES ASSUME NEW w \in Worker, work'[w] # Idle
                 PROVE  now <= work'[w].row.at + EmitTime
      BY <1>2
    <2>1. (work[w] # Idle /\ work'[w].row = work[w].row) \/ work'[w].row.at = now
      BY EmissionStep
    <2>2. QED  BY <1>0, <2>1 DEF OnTime
  <1>3. ASSUME UNCHANGED <<now, check, due>>
        PROVE  /\ Sweeping1 => check'.end <= now' /\ now' <= check'.end + SweepTime
               /\ ~Sweeping1 => now' <= due'
    BY <1>3 DEF OnTime, Sweeping
  <1>4. ASSUME check # Idle, check' # Idle, now' = now, due' = due,
               check'.by = check.by, check'.end = check.end
        PROVE  /\ Sweeping1 => check'.end <= now' /\ now' <= check'.end + SweepTime
               /\ ~Sweeping1 => now' <= due'
    BY <1>4 DEF OnTime, Sweeping
  <1>5. CASE Crash
    BY <1>0, <1>2, <1>5 DEF Crash
  <1>6. CASE (\E e \in Event : Alter(e)) \/ UNCHANGED vars
    BY <1>2, <1>3, <1>6 DEF Alter, vars
  <1>7. ASSUME NEW w \in Worker, Emit(w)
        PROVE  /\ now' = now /\ due' = due
               /\ check' = check \/ check' = [check EXCEPT !.quiet = FALSE]
               /\ check = Idle => check' = Idle
    BY <1>7 DEF Emit, StampEvent, ChainEvent, SaveEvent, SaveLink, EmitFails
  <1>8. ASSUME NEW w \in Worker, Emit(w)
        PROVE  /\ Sweeping1 => check'.end <= now' /\ now' <= check'.end + SweepTime
               /\ ~Sweeping1 => now' <= due'
    <2>1. CASE check' = check
      BY <1>3, <1>7, <1>8, <2>1
    <2>2. CASE check # Idle /\ check' = [check EXCEPT !.quiet = FALSE]
      <3>1. check' # Idle /\ check'.by = check.by /\ check'.end = check.end
        BY <2>2, CheckFields DEF Verification, Idle
      <3>2. QED  BY <1>4, <1>7, <1>8, <2>2, <3>1
    <2>3. QED  BY <1>7, <1>8, <2>1, <2>2
  <1>9. CASE BeginSweep \/ VerifyOnDemand
    <2>1. PICK by \in {"sweep", "demand"}, start \in Int : Verify(by, start)
      BY <1>9 DEF BeginSweep, VerifyOnDemand, SweepStart, TypeOK
    <2>2. check = Idle /\ check'.end = now /\ now' = now /\ due' = due
      BY <2>1 DEF Verify
    <2>3. QED  BY <1>0, <1>2, <2>2 DEF OnTime, Sweeping
  <1>10. CASE ReadAnchor \/ ReadEvents \/ CompareEvent
    <2>1. /\ check # Idle /\ check \in Verification /\ check' \in Verification \cup {Idle}
          /\ now' = now /\ due' = due
      BY <1>0, <1>10, CheckFields
         DEF ReadAnchor, ReadEvents, CompareEvent, Checking, TypeOK
    <2>2. check'.by = check.by /\ check'.end = check.end /\ check' # Idle
      <3>1. CASE ReadAnchor
        BY <2>1, <3>1 DEF ReadAnchor, Verification, Idle
      <3>2. CASE ReadEvents
        BY <2>1, <3>2 DEF ReadEvents, Verification, Idle
      <3>3. CASE CompareEvent
        BY <2>1, <3>3 DEF CompareEvent, Verification, Idle
      <3>4. QED  BY <1>10, <3>1, <3>2, <3>3
    <2>3. QED  BY <1>2, <1>4, <2>1, <2>2
  <1>11. CASE StoreRun \/ VerifyFails
    <2>1. check' = Idle /\ now' = now /\ due' = IF Sweeping THEN now + Every ELSE due
      BY <1>11 DEF StoreRun, VerifyFails, EndRun
    <2>2. QED  BY <1>0, <1>2, <2>1 DEF OnTime
  <1>12. QED
    BY <1>1, <1>2, <1>5, <1>6, <1>7, <1>8, <1>9, <1>10, <1>11 DEF Next

(* Time and the events swept only grow; `steady` is never regained. *)
LEMMA SweepGrows ==
  ASSUME TypeOK, [Next]_vars
  PROVE  now <= now' /\ swept \subseteq swept' /\ (steady' => steady)
  <1>1. CASE Tick \/ Crash \/ (\E e \in Event : Alter(e)) \/ UNCHANGED vars
    BY <1>1 DEF Tick, Crash, Alter, vars, TypeOK
  <1>2. ASSUME NEW w \in Worker, Emit(w) PROVE now' = now /\ swept' = swept /\ steady' = steady
    BY <1>2 DEF Emit, StampEvent, ChainEvent, SaveEvent, SaveLink, EmitFails
  <1>3. CASE BeginSweep \/ VerifyOnDemand \/ ReadAnchor \/ CompareEvent \/ ReadEvents
    <2>1. now' = now /\ steady' = steady
      BY <1>3 DEF BeginSweep, VerifyOnDemand, Verify, ReadAnchor, ReadEvents, CompareEvent
    <2>2. swept \subseteq swept'
      BY <1>3 DEF BeginSweep, VerifyOnDemand, Verify, ReadAnchor, ReadEvents, CompareEvent
    <2>3. QED  BY <2>1, <2>2 DEF TypeOK
  <1>4. CASE StoreRun \/ VerifyFails
    BY <1>4 DEF StoreRun, VerifyFails, EndRun, TypeOK
  <1>5. QED  BY <1>1, <1>2, <1>3, <1>4 DEF Next, TypeOK

LEMMA CoveredStep ==
  ASSUME TypeOK, [Next]_vars, NEW t \in Int, Covered(t) PROVE Covered(t)'
  <1>0. /\ TypeOK' /\ now \in Int /\ now' \in Int /\ now <= now' /\ swept \subseteq swept'
    BY NextType, SweepGrows DEF TypeOK
  <1>1. t <= now'
    BY <1>0 DEF Covered
  <1>2. ASSUME NEW e \in Event, Saved(e)', rows'[e].at < t PROVE e \in swept'
    <2>1. CASE Saved(e) /\ rows'[e].at = rows[e].at
      BY <1>0, <1>2, <2>1 DEF Covered
    <2>2. ASSUME NEW w \in Worker, work[w] # Idle, rows'[e] = Stored(work[w].row) PROVE FALSE
      <3>1. rows'[e].at = work[w].row.at /\ work[w].row.at \in Int
        BY <2>2, EmissionFields DEF Stored, Content
      <3>2. t <= work[w].row.at
        BY <2>2 DEF Covered
      <3>3. QED  BY <1>2, <3>1, <3>2
    <2>3. Alter(e) => Saved(e) /\ rows'[e].at = rows[e].at
      BY AlterFacts
    <2>4. QED  BY <1>2, <2>1, <2>2, <2>3, RowStep
  <1>3. ASSUME NEW w \in Worker, work'[w] # Idle PROVE t <= work'[w].row.at
    <2>1. (work[w] # Idle /\ work'[w].row = work[w].row) \/ work'[w].row.at = now
      BY <1>3, EmissionStep
    <2>2. QED  BY <2>1 DEF Covered
  <1>4. QED  BY <1>1, <1>2, <1>3 DEF Covered

LEMMA CoveredBefore ==
  ASSUME TypeOK, NEW t \in Int, NEW u \in Int, t <= u, Covered(u) PROVE Covered(t)
  <1>1. /\ now \in Int
        /\ \A e \in Event : Saved(e) => rows[e].at \in Int
        /\ \A w \in Worker : work[w] # Idle => work[w].row.at \in Int
    BY RowAt, EmissionFields DEF TypeOK
  <1>2. t <= now
    BY <1>1 DEF Covered
  <1>3. ASSUME NEW e \in Event, Saved(e), rows[e].at < t PROVE e \in swept
    BY <1>1, <1>3 DEF Covered
  <1>4. ASSUME NEW w \in Worker, work[w] # Idle PROVE t <= work[w].row.at
    BY <1>1, <1>4 DEF Covered
  <1>5. QED  BY <1>2, <1>3, <1>4 DEF Covered

(* The events a sweep reads cover its window; whatever is still being       *)
(* emitted then is at most EmitTime old.                                    *)
LEMMA ReadCovers ==
  ASSUME TypeOK, OnTime, ReadEvents, Sweeping, Covered(check.start)
  PROVE  Covered(check.end - EmitTime)'
  <1>0. /\ check # Idle /\ check.start \in Int /\ check.end \in Nat /\ now \in Nat
        /\ check \in Verification /\ EmitTime \in Nat
    BY CheckFields DEF Sweeping, TypeOK
  <1>1. /\ UNCHANGED <<now, rows, work>> /\ check'.end = check.end
        /\ swept' = swept \cup {e \in Event : InWindow(e)}
    BY <1>0 DEF ReadEvents, Verification
  <1>2. check.end - EmitTime <= now
    BY <1>0 DEF OnTime
  <1>3. ASSUME NEW e \in Event, Saved(e), rows[e].at < check.end - EmitTime
        PROVE  e \in swept'
    <2>1. rows[e].at \in Nat
      BY <1>3, RowAt
    <2>2. CASE rows[e].at < check.start
      BY <1>1, <1>3, <2>2 DEF Covered
    <2>3. CASE check.start <= rows[e].at
      <3>1. InWindow(e)
        BY <1>0, <1>3, <2>1, <2>3 DEF InWindow
      <3>2. QED  BY <1>1, <3>1
    <2>4. QED  BY <1>0, <2>1, <2>2, <2>3
  <1>4. ASSUME NEW w \in Worker, work[w] # Idle PROVE check.end - EmitTime <= work[w].row.at
    <2>1. work[w].row.at \in Nat /\ now <= work[w].row.at + EmitTime /\ check.end <= now
      BY <1>4, EmissionFields DEF OnTime
    <2>2. QED  BY <1>0, <2>1
  <1>5. QED  BY <1>1, <1>2, <1>3, <1>4 DEF Covered, Saved

LEMMA SweptStep ==
  ASSUME Every + SweepTime + EmitTime <= Window + Overlap,
         SweepInv, [Next]_vars, steady'
  PROVE  SweptSoFar'
  <1> DEFINE Sweeping1 == check' # Idle /\ check'.by = "sweep"
  <1> SUFFICES /\ ~Sweeping1 => Covered(due - Reach)'
               /\ Sweeping1 => Covered(check.start)'
               /\ Sweeping1 /\ check'.stage = "checking" => Covered(check.end - EmitTime)'
    BY DEF SweptSoFar, Sweeping
  <1>0. /\ TypeOK /\ OnTime /\ SweptSoFar /\ now \in Nat /\ due \in Nat /\ due' \in Nat
        /\ Reach \in Nat /\ EmitTime \in Nat
        /\ check # Idle => check.start \in Int /\ check.end \in Nat /\ check \in Verification
    BY SweepGrows, NextType, CheckFields DEF SweepInv, TypeOK, Reach
  <1>1. ASSUME NEW t \in Int, Covered(t) PROVE Covered(t)'
    BY <1>0, <1>1, CoveredStep
  <1>2. ASSUME due' = due, ~Sweeping PROVE Covered(due - Reach)'
    <2>1. PICK t \in Int : t = due - Reach
      BY <1>0
    <2>2. t = (due - Reach)'
      BY <1>2, <2>1 DEF Reach
    <2>3. QED  BY <1>0, <1>1, <1>2, <2>1, <2>2 DEF SweptSoFar
  <1>3. ASSUME check # Idle, check' # Idle, check'.by = check.by, due' = due,
               check'.start = check.start, check'.end = check.end,
               check'.stage = check.stage \/ check'.stage # "checking"
        PROVE  /\ ~Sweeping1 => Covered(due - Reach)'
               /\ Sweeping1 => Covered(check.start)'
               /\ Sweeping1 /\ check'.stage = "checking" => Covered(check.end - EmitTime)'
    <2>1. PICK t \in Int, u \in Int : t = check.start /\ u = check.end - EmitTime
      BY <1>0, <1>3
    <2>2. t = check'.start /\ u = check'.end - EmitTime
      BY <1>3, <2>1
    <2>3. Sweeping1 => Covered(t)' /\ (check'.stage = "checking" => Covered(u)')
      BY <1>0, <1>1, <1>3, <2>1 DEF SweptSoFar, Sweeping
    <2>4. ~Sweeping1 => ~Sweeping
      BY <1>3 DEF Sweeping
    <2>5. QED  BY <1>2, <1>3, <2>2, <2>3, <2>4
  <1>4. CASE UNCHANGED <<check, due>>
    <2>1. CASE check = Idle
      BY <1>2, <1>4, <2>1 DEF Sweeping
    <2>2. CASE check # Idle
      BY <1>3, <1>4, <2>2
    <2>3. QED  BY <2>1, <2>2
  <1>5. CASE Tick \/ (\E e \in Event : Alter(e)) \/ UNCHANGED vars
    BY <1>4, <1>5 DEF Tick, Alter, vars
  <1>6. ASSUME NEW w \in Worker, Emit(w)
        PROVE  /\ due' = due
               /\ \/ check' = check
                  \/ check # Idle /\ check' = [check EXCEPT !.quiet = FALSE]
    BY <1>6 DEF Emit, StampEvent, ChainEvent, SaveEvent, SaveLink, EmitFails
  <1>7. CASE due' = due /\ check # Idle /\ check' = [check EXCEPT !.quiet = FALSE]
    <2>1. check' # Idle /\ check'.by = check.by /\ check'.start = check.start
          /\ check'.end = check.end /\ check'.stage = check.stage
      BY <1>0, <1>7 DEF Verification, Idle
    <2>2. QED  BY <1>3, <1>7, <2>1
  <1>8. CASE BeginSweep
    <2>1. /\ check = Idle /\ check'.by = "sweep" /\ check'.stage = "begun"
          /\ check'.start = SweepStart /\ now = due
      BY <1>8 DEF BeginSweep, Verify
    <2>2. PICK t \in Int : t = due - Reach
      BY <1>0
    <2>3. check'.start = t
      BY <2>1, <2>2 DEF SweepStart, Reach
    <2>4. Covered(t)'
      BY <1>0, <1>1, <2>1, <2>2 DEF SweptSoFar, Sweeping
    <2>5. check' # Idle
      BY <1>8 DEF BeginSweep, Verify, Idle
    <2>6. QED  BY <2>1, <2>3, <2>4, <2>5
  <1>9. CASE VerifyOnDemand
    <2>1. check = Idle /\ check'.by = "demand" /\ due' = due
      BY <1>9 DEF VerifyOnDemand, Verify
    <2>2. QED  BY <1>2, <2>1 DEF Sweeping
  <1>10. CASE ReadAnchor \/ CompareEvent
    <2>1. check # Idle /\ due' = due
      BY <1>10 DEF ReadAnchor, CompareEvent, Checking
    <2>2. /\ check'.by = check.by /\ check'.start = check.start /\ check'.end = check.end
          /\ check'.stage = check.stage \/ check'.stage = "anchored"
          /\ check' # Idle
      BY <1>0, <1>10, <2>1 DEF ReadAnchor, CompareEvent, Verification, Idle, Checking
    <2>3. QED  BY <1>3, <2>1, <2>2
  <1>11. CASE ReadEvents
    <2>1. /\ check # Idle /\ due' = due /\ check' # Idle
          /\ check'.by = check.by /\ check'.start = check.start /\ check'.end = check.end
      BY <1>0, <1>11 DEF ReadEvents, Checking, Verification, Idle
    <2>2. PICK t \in Int : t = check.start
      BY <1>0, <2>1
    <2>3. Sweeping1 => Covered(check.start)'
      BY <1>0, <1>1, <2>1, <2>2 DEF SweptSoFar, Sweeping
    <2>4. Sweeping1 => Covered(check.end - EmitTime)'
      BY <1>0, <1>11, <2>1, ReadCovers DEF SweptSoFar, Sweeping
    <2>5. ~Sweeping1 => Covered(due - Reach)'
      BY <1>2, <2>1 DEF Sweeping
    <2>6. QED  BY <2>3, <2>4, <2>5
  <1>12. CASE StoreRun \/ VerifyFails
    <2>1. check' = Idle /\ due' = IF Sweeping THEN now + Every ELSE due
      BY <1>12 DEF StoreRun, VerifyFails, EndRun
    <2>2. CASE ~Sweeping
      BY <1>2, <2>1, <2>2
    <2>3. CASE Sweeping
      <3>1. check # Idle /\ check.stage = "checking"
        BY <1>12, <2>3 DEF StoreRun, VerifyFails, Finished, Checking, Sweeping
      <3>2. PICK t \in Int, u \in Int : t = now + Every - Reach /\ u = check.end - EmitTime
        BY <1>0, <3>1
      <3>3. now <= check.end + SweepTime
        BY <1>0, <2>3 DEF OnTime
      <3>4. t <= u
        BY <1>0, <3>1, <3>2, <3>3 DEF Reach
      <3>5. Covered(t)'
        BY <1>0, <1>1, <2>3, <3>1, <3>2, <3>4, CoveredBefore DEF SweptSoFar
      <3>6. t = (due - Reach)'
        <4>1. due' = now + Every
          BY <2>1, <2>3
        <4>2. QED  BY <1>0, <3>2, <4>1 DEF Reach
      <3>7. QED  BY <2>1, <3>5, <3>6
    <2>4. QED  BY <2>2, <2>3
  <1>13. CASE Crash
    BY <1>13 DEF Crash
  <1>14. QED
    BY <1>4, <1>5, <1>6, <1>7, <1>8, <1>9, <1>10, <1>11, <1>12, <1>13 DEF Next

LEMMA InitSweep == Init => SweepInv
  <1> SUFFICES ASSUME Init PROVE SweepInv
    OBVIOUS
  <1>1. TypeOK /\ now = 0 /\ due = 0 /\ ~Sweeping
    BY InitType DEF Init, Sweeping
  <1>2. (\A e \in Event : ~Saved(e)) /\ \A w \in Worker : work[w] = Idle
    BY DEF Init, Saved
  <1>3. 0 <= 0 /\ 0 - Reach <= 0
    BY DEF Reach
  <1>4. OnTime /\ SweptSoFar
    BY <1>1, <1>2, <1>3 DEF OnTime, SweptSoFar, Covered
  <1>5. QED  BY <1>1, <1>4 DEF SweepInv

(* No event slips between two sweeps, whatever sweeps and emissions take    *)
(* within their bounds: SweepHours is counted from the end of a sweep, the  *)
(* window from its beginning, and the overlap makes up for the difference.  *)
THEOREM SweepsLeaveNoGap ==
  ASSUME Every + SweepTime + EmitTime <= Window + Overlap
  PROVE  Spec => []NoEventSkipped
  <1>1. SweepInv /\ [Next]_vars => SweepInv'
    BY NextType, OnTimeStep, SweptStep DEF SweepInv
  <1>2. SweepInv => NoEventSkipped
    <2> SUFFICES ASSUME SweepInv, steady, Sweeping, NEW e \in Event, Saved(e),
                        rows[e].at < check.start
                 PROVE  e \in swept
      BY DEF NoEventSkipped
    <2>1. QED  BY DEF SweepInv, SweptSoFar, Covered
  <1>3. QED  BY <1>1, <1>2, InitSweep, PTL DEF Spec

-----------------------------------------------------------------------------
(* Emissions one after the other build the chain in the order of time, each *)
(* link after the newest one before it.  What a link hashed is what the     *)
(* stored event shows, with digits below the column's just when it was cut. *)

Hashed(prev, at, f, text) == Append(prev, [at |-> at, frac |-> f, text |-> text])

Cuts(e, f) == (f = 0 => e \notin cut) /\ (f # 0 => e \in cut)

Before(t) == {d \in Event : Linked(d) /\ links[d].at < t}

LinkInOrder(e) ==
    /\ links[e].at <= now
    /\ rows[e].event = e /\ rows[e].at = links[e].at /\ rows[e].frac = 0
    /\ \E f \in Fraction :
          /\ Cuts(e, f)
          /\ rows[e].edited # "text"
                => links[e].hash = Hashed(links[e].prev, links[e].at, f, rows[e].text)
    /\ \A d \in Event : Linked(d) /\ links[d].at = links[e].at => d = e
    /\ links[e].prev \in HeadsOf(Before(links[e].at))

EmissionInOrder(w) ==
    /\ work[w].row.at <= now
    /\ \A d \in Event : Linked(d) => links[d].at < work[w].row.at
    /\ work[w].stage # "stamped" => work[w].prev \in Heads
    /\ work[w].stage # "linking" => ~Saved(work[w].row.event)
    /\ work[w].stage = "linking" =>
         LET e == work[w].row.event
         IN  /\ rows[e].event = e /\ rows[e].at = work[w].row.at /\ rows[e].frac = 0
             /\ Cuts(e, work[w].row.frac)
             /\ rows[e].edited # "text" => rows[e].text = work[w].row.text

InOrder ==
    /\ \A v, w \in Worker : work[v] # Idle /\ work[w] # Idle => v = w
    /\ \A e \in Event : Saved(e) =>
          Linked(e) \/ \E w \in Worker : AtStage(w, "linking") /\ work[w].row.event = e
    /\ \A e \in cut : Saved(e)
    /\ \A e \in Event : Linked(e) => LinkInOrder(e)
    /\ \A w \in Worker : work[w] # Idle => EmissionInOrder(w)

LEMMA ExtendHashed ==
  ASSUME NEW prev, NEW row
  PROVE  Extend(prev, row) = Hashed(prev, row.at, row.frac, row.text)
  BY DEF Extend, Canonical, Hashed

(* Heads depend on the links of their own set only. *)
LEMMA HeadsKeep ==
  ASSUME NEW CONSTANT S, \A d \in S : links'[d] = links[d]
  PROVE  HeadsOf(S)' = HeadsOf(S)
  BY DEF HeadsOf, Newest

LEMMA SerialLost ==
  ASSUME TypeOK, [Next]_vars, serial'
  PROVE  /\ serial
         /\ \A w \in Worker, e \in Event : StampEvent(w, e) => \A v \in Worker : work[v] = Idle
         /\ Crash => \A w \in Worker : ~AtStage(w, "linking")
         /\ \A w \in Worker : EmitFails(w) => ~AtStage(w, "linking")
  <1>1. ASSUME Tick \/ Crash \/ (\E e \in Event : Alter(e)) \/ UNCHANGED vars PROVE serial
    BY <1>1, Zenon DEF Tick, Crash, Alter, vars
  <1>2. ASSUME NEW w \in Worker, Emit(w) PROVE serial
    BY <1>2 DEF Emit, StampEvent, ChainEvent, SaveEvent, SaveLink, EmitFails
  <1>3. ASSUME BeginSweep \/ VerifyOnDemand \/ ReadAnchor \/ ReadEvents \/ CompareEvent
        PROVE  serial
    BY <1>3, Zenon DEF BeginSweep, VerifyOnDemand, Verify, ReadAnchor, ReadEvents, CompareEvent
  <1>4. ASSUME StoreRun \/ VerifyFails PROVE serial
    BY <1>4, Zenon DEF StoreRun, VerifyFails, EndRun
  <1>5. serial
    BY <1>1, <1>2, <1>3, <1>4 DEF Next
  <1>6. \A w \in Worker, e \in Event : StampEvent(w, e) => \A v \in Worker : work[v] = Idle
    BY DEF StampEvent
  <1>7. Crash => \A w \in Worker : ~AtStage(w, "linking")
    BY DEF Crash, AtStage
  <1>8. \A w \in Worker : EmitFails(w) => ~AtStage(w, "linking")
    BY DEF EmitFails
  <1>9. QED  BY <1>5, <1>6, <1>7, <1>8

(* Nothing is written: emissions stay as they are or stop before their save. *)
LEMMA OrderSame ==
  ASSUME SealInv, InOrder, links' = links, rows' = rows, cut' = cut, now \in Nat, now' \in Nat, now <= now',
         TypeOK', \A w \in Worker : work'[w] \in {work[w], Idle},
         \A w \in Worker : AtStage(w, "linking") => work'[w] = work[w]
  PROVE  InOrder'
  <1>0. TypeOK
    BY DEF SealInv, AnchorInv
  <1>1. \A w \in Worker : work'[w] # Idle => work[w] # Idle /\ work'[w] = work[w]
    OBVIOUS
  <1>2. \A t : Before(t)' = Before(t)
    BY DEF Before, Linked
  <1>3. \A S : HeadsOf(S)' = HeadsOf(S)
    BY DEF HeadsOf, Newest
  <1>4. Heads' = Heads
    BY DEF Heads, HeadsOf, Newest, Linked
  <1>5. ASSUME NEW e \in Event, Saved(e)'
        PROVE  Linked(e)' \/ \E w \in Worker : AtStage(w, "linking")' /\ work'[w].row.event = e
    BY <1>5 DEF InOrder, Saved, Linked, AtStage
  <1>6. ASSUME NEW e \in Event, Linked(e)' PROVE LinkInOrder(e)'
    <2>1. LinkInOrder(e) /\ Linked(e) /\ links[e].at \in Nat
      BY <1>0, <1>6, LinkType DEF InOrder, Linked
    <2>2. links'[e].at <= now'
      BY <2>1 DEF LinkInOrder
    <2>3. (HeadsOf(Before(links[e].at)))' = HeadsOf(Before(links[e].at))
      BY DEF HeadsOf, Newest, Before, Linked
    <2>4. QED  BY <2>1, <2>2, <2>3 DEF LinkInOrder, Linked, Cuts
  <1>7. ASSUME NEW w \in Worker, work'[w] # Idle PROVE EmissionInOrder(w)'
    <2>1. EmissionInOrder(w) /\ work'[w] = work[w] /\ work[w].row.at \in Nat
      BY <1>0, <1>1, <1>7, EmissionFields DEF InOrder
    <2>2. work'[w].row.at <= now'
      BY <2>1 DEF EmissionInOrder
    <2>3. QED  BY <1>4, <2>1, <2>2 DEF EmissionInOrder, Linked, Saved, Cuts
  <1>8. QED  BY <1>1, <1>5, <1>6, <1>7 DEF InOrder, Saved

LEMMA AlterOrder ==
  ASSUME SealInv, InOrder, TypeOK', NEW e \in Event, Alter(e) PROVE InOrder'
  <1>0. TypeOK
    BY DEF SealInv, AnchorInv
  <1>1. /\ UNCHANGED <<now, links, work, cut>>
        /\ \A d \in Event : Saved(d)' <=> Saved(d)
        /\ \A d \in Event : /\ rows'[d].event = rows[d].event /\ rows'[d].at = rows[d].at
                            /\ rows'[d].frac = rows[d].frac
                            /\ rows'[d].edited # "text"
                                 => rows[d].edited # "text" /\ rows'[d].text = rows[d].text
    BY <1>0, AlterFacts DEF Saved
  <1>2. ASSUME NEW d \in Event, Saved(d)'
        PROVE  Linked(d)' \/ \E w \in Worker : AtStage(w, "linking")' /\ work'[w].row.event = d
    BY <1>1, <1>2 DEF InOrder, Linked, AtStage
  <1>3. ASSUME NEW d \in Event, Linked(d)' PROVE LinkInOrder(d)'
    <2>1. LinkInOrder(d)
      BY <1>1, <1>3 DEF InOrder, Linked
    <2>2. (HeadsOf(Before(links[d].at)))' = HeadsOf(Before(links[d].at))
      BY <1>1 DEF HeadsOf, Newest, Before, Linked
    <2>3. PICK f \in Fraction :
            /\ Cuts(d, f)
            /\ rows[d].edited # "text"
                 => links[d].hash = Hashed(links[d].prev, links[d].at, f, rows[d].text)
      BY <2>1 DEF LinkInOrder
    <2>4. /\ Cuts(d, f)'
          /\ rows'[d].edited # "text"
               => links'[d].hash = Hashed(links'[d].prev, links'[d].at, f, rows'[d].text)
      BY <1>1, <2>3 DEF Cuts
    <2>5. QED  BY <1>1, <2>1, <2>2, <2>4 DEF LinkInOrder, Linked
  <1>4. ASSUME NEW w \in Worker, work'[w] # Idle PROVE EmissionInOrder(w)'
    <2>1. EmissionInOrder(w) /\ work[w].row.event \in Event /\ work'[w] = work[w]
      BY <1>0, <1>1, <1>4, EmissionFields DEF InOrder
    <2>2. Heads' = Heads
      BY <1>1 DEF Heads, HeadsOf, Newest, Linked
    <2>3. Cuts(work[w].row.event, work[w].row.frac) => Cuts(work[w].row.event, work[w].row.frac)'
      BY <1>1 DEF Cuts
    <2>4. QED  BY <1>1, <2>1, <2>2, <2>3 DEF EmissionInOrder, Linked
  <1>5. \A d \in cut' : Saved(d)'
    BY <1>0, <1>1 DEF InOrder, TypeOK
  <1>6. QED  BY <1>1, <1>2, <1>3, <1>4, <1>5 DEF InOrder

(* One emission goes on, the others are idle, and the links are as they     *)
(* were.                                                                    *)
LEMMA EmitOrder ==
  ASSUME SealInv, InOrder, TypeOK', NEW w \in Worker, UNCHANGED <<now, links>>,
         \A v \in Worker : v # w => work[v] = Idle /\ work'[v] = Idle,
         work'[w] # Idle => EmissionInOrder(w)',
         \A e \in Event : Linked(e) => rows'[e] = rows[e] /\ (e \in cut' <=> e \in cut),
         \A e \in cut' : Saved(e)',
         \A e \in Event : Saved(e)' =>
            Linked(e) \/ (AtStage(w, "linking")' /\ work'[w].row.event = e)
  PROVE  InOrder'
  <1>1. ASSUME NEW e \in Event, Linked(e)' PROVE LinkInOrder(e)'
    <2>1. LinkInOrder(e) /\ rows'[e] = rows[e] /\ (e \in cut' <=> e \in cut)
      BY <1>1 DEF InOrder, Linked
    <2>2. (HeadsOf(Before(links[e].at)))' = HeadsOf(Before(links[e].at))
      BY DEF HeadsOf, Newest, Before, Linked
    <2>3. QED  BY <2>1, <2>2 DEF LinkInOrder, Linked, Cuts
  <1>2. QED  BY <1>1 DEF InOrder, Linked

LEMMA StampOrder ==
  ASSUME SealInv, InOrder, [Next]_vars, serial',
         NEW w \in Worker, NEW e \in Event, StampEvent(w, e)
  PROVE  InOrder'
  <1>0. TypeOK /\ TypeOK' /\ \A v \in Worker : work[v] = Idle
    BY NextType, SerialLost DEF SealInv, AnchorInv
  <1>1. /\ UNCHANGED <<now, rows, links, cut>> /\ ~Saved(e)
        /\ \A d \in Event : Linked(d) => links[d].at < now
    BY DEF StampEvent
  <1>2. \A v \in Worker : v # w => work'[v] = Idle
    BY <1>0 DEF StampEvent, TypeOK
  <1>3. ASSUME work'[w] # Idle PROVE EmissionInOrder(w)'
    <2>1. work'[w].stage = "stamped" /\ work'[w].row.at = now /\ work'[w].row.event = e
      <3>1. PICK f \in Fraction :
              work' = [work EXCEPT ![w] =
                         [stage |-> "stamped",
                          row |-> [event |-> e, at |-> now, frac |-> f, text |-> Reads[e],
                                   edited |-> "no"],
                          prev |-> Genesis, hash |-> Genesis]]
        BY DEF StampEvent
      <3>2. QED  BY <1>0, <3>1 DEF TypeOK
    <2>2. now <= now
      BY <1>0 DEF TypeOK
    <2>3. QED  BY <1>1, <2>1, <2>2 DEF EmissionInOrder, Linked, Saved
  <1>4. \A d \in Event : Saved(d)' => Linked(d)
    BY <1>0, <1>1 DEF InOrder, Saved, AtStage
  <1>5. \A d \in cut' : Saved(d)'
    BY <1>1 DEF InOrder, Saved
  <1>6. QED  BY <1>0, <1>1, <1>2, <1>3, <1>4, <1>5, EmitOrder

LEMMA OthersIdle ==
  ASSUME InOrder, TypeOK, NEW w \in Worker, work[w] # Idle,
         ChainEvent(w) \/ SaveEvent(w) \/ SaveLink(w)
  PROVE  \A v \in Worker : v # w => work[v] = Idle /\ work'[v] = Idle
  <1>1. \A v \in Worker : v # w => work[v] = Idle
    BY DEF InOrder
  <1>2. \E h : work' = [work EXCEPT ![w] = h]
    BY DEF ChainEvent, SaveEvent, SaveLink
  <1>3. \A v \in Worker : v # w => work'[v] = work[v]
    BY <1>2 DEF TypeOK
  <1>4. QED  BY <1>1, <1>3

LEMMA ChainOrder ==
  ASSUME SealInv, InOrder, [Next]_vars, NEW w \in Worker, ChainEvent(w)
  PROVE  InOrder'
  <1>0. TypeOK /\ TypeOK' /\ work[w] # Idle /\ work[w].stage = "stamped"
        /\ UNCHANGED <<now, rows, links, cut>>
    BY NextType DEF SealInv, AnchorInv, ChainEvent, AtStage
  <1>1. \A v \in Worker : v # w => work[v] = Idle /\ work'[v] = Idle
    BY <1>0, OthersIdle
  <1>2. PICK h \in Heads :
          work' = [work EXCEPT ![w].stage = "chained", ![w].prev = h,
                               ![w].hash = Extend(h, work[w].row)]
    BY DEF ChainEvent
  <1>3. work'[w] = [work[w] EXCEPT !.stage = "chained", !.prev = h,
                                   !.hash = Extend(h, work[w].row)]
    BY <1>0, <1>2 DEF TypeOK
  <1>4. work'[w].stage = "chained" /\ work'[w].row = work[w].row /\ work'[w].prev = h
    BY <1>0, <1>3, EmissionType DEF Emission
  <1>5. Heads' = Heads
    BY <1>0 DEF Heads, HeadsOf, Newest, Linked
  <1>6. EmissionInOrder(w)'
    BY <1>0, <1>4, <1>5 DEF InOrder, EmissionInOrder, Linked, Saved
  <1>7. \A e \in Event : Saved(e)' => Linked(e)
    BY <1>0, <1>1 DEF InOrder, Saved, AtStage
  <1>8. \A e \in cut' : Saved(e)'
    BY <1>0 DEF InOrder, Saved
  <1>9. QED  BY <1>0, <1>1, <1>6, <1>7, <1>8, EmitOrder

LEMMA SaveOrder ==
  ASSUME SealInv, InOrder, [Next]_vars, NEW w \in Worker, SaveEvent(w)
  PROVE  InOrder'
  <1> DEFINE e == work[w].row.event
  <1>0. /\ TypeOK /\ TypeOK' /\ work[w] # Idle /\ work[w].stage = "chained"
        /\ work[w] \in Emission /\ work[w].row \in Content /\ e \in Event
        /\ UNCHANGED <<now, links>> /\ EmissionInOrder(w) /\ ~Linked(e) /\ ~Saved(e)
    BY NextType, EmissionType
       DEF SealInv, AnchorInv, OwnEvents, SaveEvent, AtStage, InOrder, EmissionInOrder
  <1>1. \A v \in Worker : v # w => work[v] = Idle /\ work'[v] = Idle
    BY <1>0, OthersIdle
  <1>2. /\ work'[w] = [work[w] EXCEPT !.stage = "linking"]
        /\ rows'[e] = Stored(work[w].row)
        /\ \A d \in Event : d # e => rows'[d] = rows[d]
    BY <1>0 DEF SaveEvent, TypeOK
  <1>3. work'[w].stage = "linking" /\ work'[w].row = work[w].row /\ work'[w].prev = work[w].prev
    BY <1>0, <1>2 DEF Emission
  <1>4. /\ rows'[e].event = e /\ rows'[e].at = work[w].row.at /\ rows'[e].frac = 0
        /\ rows'[e].text = work[w].row.text /\ rows'[e] # Absent
    BY <1>0, <1>2 DEF Stored, Content, Absent
  <1>5. Heads' = Heads
    BY <1>0 DEF Heads, HeadsOf, Newest, Linked
  <1>6. Cuts(e, work[w].row.frac)' /\ \A d \in Event : d # e => (d \in cut' <=> d \in cut)
    <2>1. cut' = IF work[w].row.frac = 0 THEN cut ELSE cut \cup {e}
      BY DEF SaveEvent
    <2>2. e \notin cut
      BY <1>0 DEF InOrder
    <2>3. work'[w].row.frac = work[w].row.frac /\ work'[w].row.event = e
      BY <1>3
    <2>4. QED  BY <2>1, <2>2, <2>3 DEF Cuts
  <1>7. EmissionInOrder(w)'
    BY <1>0, <1>3, <1>4, <1>5, <1>6 DEF EmissionInOrder, Linked
  <1>8. work'[w] # Idle
    BY <1>3, <1>0, <1>2 DEF Idle, Emission
  <1>9. ASSUME NEW d \in Event, Saved(d)'
        PROVE  Linked(d) \/ (AtStage(w, "linking")' /\ work'[w].row.event = d)
    <2>1. CASE d = e
      BY <1>3, <1>8, <2>1 DEF AtStage
    <2>2. CASE d # e
      BY <1>0, <1>1, <1>2, <1>9, <2>2 DEF InOrder, Saved, AtStage
    <2>3. QED  BY <2>1, <2>2
  <1>10. \A d \in Event : Linked(d) => rows'[d] = rows[d] /\ (d \in cut' <=> d \in cut)
    BY <1>0, <1>2, <1>6
  <1>11. \A d \in cut' : Saved(d)'
    BY <1>0, <1>2, <1>4, <1>6 DEF InOrder, Saved, TypeOK
  <1> HIDE DEF e
  <1>12. QED  BY <1>0, <1>1, <1>7, <1>9, <1>10, <1>11, EmitOrder

LEMMA LinkOrder ==
  ASSUME SealInv, InOrder, [Next]_vars, NEW w \in Worker, SaveLink(w)
  PROVE  InOrder'
  <1>a. TypeOK /\ work[w] # Idle
    BY DEF SealInv, AnchorInv, SaveLink, AtStage
  <1>b. PICK e \in Event : e = work[w].row.event
    BY <1>a, EmissionFields
  <1>0. /\ TypeOK /\ TypeOK' /\ work[w] # Idle /\ work[w].stage = "linking"
        /\ work[w].row \in Content /\ work[w].row.at \in Nat
        /\ UNCHANGED <<now, rows, cut>> /\ EmissionInOrder(w) /\ ~Linked(e)
        /\ work[w].hash = Extend(work[w].prev, work[w].row)
    BY <1>a, <1>b, NextType, EmissionFields
       DEF SealInv, AnchorInv, OwnEvents, SaveLink, AtStage, InOrder
  <1>1. \A v \in Worker : work'[v] = Idle
    BY <1>0, OthersIdle DEF SaveLink, TypeOK
  <1>2. /\ links'[e].prev = work[w].prev /\ links'[e].hash = work[w].hash
        /\ links'[e].at = work[w].row.at
        /\ \A d \in Event : d # e => links'[d] = links[d]
    BY <1>0, <1>b DEF SaveLink, TypeOK
  <1>3. \A d \in Event : Linked(d)' => d = e \/ Linked(d)
    BY <1>2 DEF Linked
  <1>4. \A d \in Event : Linked(d) => Linked(d)' /\ d # e /\ links'[d] = links[d]
    BY <1>0, <1>2 DEF Linked
  <1>5. \A d \in Event : Linked(d) => links[d].at < work[w].row.at /\ links[d].at \in Nat
    BY <1>0, LinkType DEF EmissionInOrder
  <1>6. LinkInOrder(e)'
    <2>1. /\ rows'[e].event = e /\ rows'[e].at = links'[e].at /\ rows'[e].frac = 0
          /\ links'[e].at <= now'
      BY <1>0, <1>b, <1>2 DEF EmissionInOrder
    <2>2. \E f \in Fraction :
            /\ Cuts(e, f)'
            /\ rows'[e].edited # "text"
                 => links'[e].hash = Hashed(links'[e].prev, links'[e].at, f, rows'[e].text)
      <3>1. PICK f \in Fraction : f = work[w].row.frac
        BY <1>0 DEF Content
      <3>2. /\ Cuts(e, f)
            /\ rows[e].edited # "text" => rows[e].text = work[w].row.text
        BY <1>0, <1>b, <3>1 DEF EmissionInOrder
      <3>3. work[w].hash = Hashed(work[w].prev, work[w].row.at, f, work[w].row.text)
        BY <1>0, <3>1, ExtendHashed
      <3>4. Cuts(e, f)'
        BY <1>0, <3>2 DEF Cuts
      <3>5. QED  BY <1>0, <1>2, <3>2, <3>3, <3>4
    <2>3. \A d \in Event : Linked(d)' /\ links'[d].at = links'[e].at => d = e
      BY <1>0, <1>2, <1>3, <1>4, <1>5
    <2>4. PICK S \in SUBSET Event : S = {d \in Event : Linked(d)}
      OBVIOUS
    <2>5. Before(links[e].at)' = S
      <3>1. \A d \in Event : d \in S <=> Linked(d)
        BY <2>4
      <3>2. \A d \in Event : Linked(d)' /\ links'[d].at < links'[e].at <=> d \in S
        BY <1>0, <1>2, <1>3, <1>4, <1>5, <3>1
      <3>3. QED  BY <3>2 DEF Before
    <2>6. HeadsOf(S)' = HeadsOf(S)
      BY <1>4, <2>4, HeadsKeep
    <2>7. work[w].prev \in HeadsOf(S)
      BY <1>0, <2>4 DEF EmissionInOrder, Heads
    <2>8. links'[e].prev \in HeadsOf(Before(links[e].at))'
      BY <1>2, <2>5, <2>6, <2>7
    <2>9. QED  BY <2>1, <2>2, <2>3, <2>8 DEF LinkInOrder
  <1>7. ASSUME NEW d \in Event, Linked(d) PROVE LinkInOrder(d)'
    <2>1. LinkInOrder(d) /\ links'[d] = links[d] /\ d # e
      BY <1>4, <1>7 DEF InOrder
    <2>2. \A c \in Event : Linked(c)' /\ links'[c].at = links'[d].at => c = d
      BY <1>0, <1>2, <1>3, <1>4, <1>5, <1>7, <2>1 DEF LinkInOrder
    <2>3. PICK S \in SUBSET Event : S = Before(links[d].at)
      BY DEF Before
    <2>4. Before(links[d].at)' = S
      <3>1. \A c \in Event : c \in S <=> Linked(c) /\ links[c].at < links[d].at
        BY <2>3 DEF Before
      <3>2. \A c \in Event : Linked(c)' /\ links'[c].at < links'[d].at <=> c \in S
        BY <1>0, <1>2, <1>3, <1>4, <1>5, <1>7, <2>1, <3>1
      <3>3. QED  BY <3>2 DEF Before
    <2>5. HeadsOf(S)' = HeadsOf(S)
      BY <1>4, <2>3, HeadsKeep DEF Before
    <2>6. links'[d].prev \in HeadsOf(Before(links[d].at))'
      BY <2>1, <2>3, <2>4, <2>5 DEF LinkInOrder
    <2>7. QED  BY <1>0, <2>1, <2>2, <2>6 DEF LinkInOrder, Cuts
  <1>8. ASSUME NEW d \in Event, Saved(d)' PROVE Linked(d)'
    <2>1. Saved(d)
      BY <1>0, <1>8 DEF Saved
    <2>2. CASE Linked(d)
      BY <1>4, <2>2
    <2>3. ASSUME NEW v \in Worker, AtStage(v, "linking"), work[v].row.event = d
          PROVE  Linked(d)'
      <3>1. v = w
        BY <1>0, <2>3 DEF InOrder, AtStage
      <3>2. d = e /\ links'[e] = [prev |-> work[w].prev, hash |-> work[w].hash,
                                  at |-> work[w].row.at]
        BY <1>0, <1>b, <2>3, <3>1 DEF SaveLink, TypeOK
      <3>3. QED  BY <3>2 DEF Linked, Absent
    <2>4. QED  BY <2>1, <2>2, <2>3 DEF InOrder
  <1>9. \A d \in cut' : Saved(d)'
    BY <1>0 DEF InOrder, Saved
  <1>10. QED  BY <1>1, <1>3, <1>6, <1>7, <1>8, <1>9 DEF InOrder

LEMMA OrderStep ==
  ASSUME SealInv, InOrder, [Next]_vars, serial' PROVE InOrder'
  <1>0. TypeOK /\ TypeOK' /\ now \in Nat /\ now' \in Nat /\ now <= now'
    BY NextType, SweepGrows DEF SealInv, AnchorInv, TypeOK
  <1>1. CASE links' = links /\ rows' = rows /\ work' = work /\ cut' = cut
    BY <1>0, <1>1, OrderSame
  <1>2. CASE Crash
    <2>1. links' = links /\ rows' = rows /\ cut' = cut /\ \A w \in Worker : work'[w] = Idle
      BY <1>2 DEF Crash
    <2>2. \A w \in Worker : ~AtStage(w, "linking")
      BY <1>0, <1>2, SerialLost
    <2>3. QED  BY <1>0, <2>1, <2>2, OrderSame
  <1>3. CASE \E e \in Event : Alter(e)
    BY <1>0, <1>3, AlterOrder
  <1>4. ASSUME NEW w \in Worker, EmitFails(w) PROVE InOrder'
    <2>1. links' = links /\ rows' = rows /\ cut' = cut /\ work' = [work EXCEPT ![w] = Idle]
      BY <1>4 DEF EmitFails
    <2>2. ~AtStage(w, "linking")
      BY <1>0, <1>4, SerialLost
    <2>3. \A v \in Worker : work'[v] \in {work[v], Idle} /\ (v # w => work'[v] = work[v])
      BY <1>0, <2>1 DEF TypeOK
    <2>4. QED  BY <1>0, <2>1, <2>2, <2>3, OrderSame
  <1>5. ASSUME NEW w \in Worker, Emit(w) PROVE InOrder'
    BY <1>4, <1>5, StampOrder, ChainOrder, SaveOrder, LinkOrder DEF Emit
  <1>6. QED
    BY <1>1, <1>2, <1>3, <1>5
       DEF Next, vars, Tick, BeginSweep, VerifyOnDemand, Verify, ReadAnchor, ReadEvents,
           CompareEvent, StoreRun, VerifyFails, EndRun

-----------------------------------------------------------------------------
(* A verification that nothing disturbs: it holds the hash of the newest    *)
(* event before those it still has to compare, among them every event of    *)
(* the window that was cut; it stops at the first of these.                 *)

Intact == \A e \in Event : Saved(e) => rows[e].edited # "text" /\ rows[e].at # check.start

Done == {d \in Event : Linked(d) /\ \A row \in check.todo : row.event # d}

Walking ==
    /\ \A row \in check.todo :
          /\ InWindow(row.event) /\ row.frac = 0
          /\ rows[row.event].at = row.at /\ rows[row.event].text = row.text
    /\ \A row, other \in check.todo : row.event = other.event => row = other
    /\ \A d \in Done, row \in check.todo : rows[d].at < row.at
    /\ \A e \in Done : InWindow(e) => e \notin cut
    /\ check.hash \in HeadsOf(Done)

Stopped == check.todo = {} /\ \E e \in Event : InWindow(e) /\ e \in cut

OnTrack ==
    /\ \A w \in Worker : work[w] = Idle
    /\ \A e \in Event : Saved(e) => rows[e].at <= check.end
    /\ check.stage = "anchored" => check.hash \in Anchors(check.start)
    /\ check.stage = "checking" /\ check.ok => Walking
    /\ check.stage = "checking" /\ ~check.ok => Stopped

IntactInv ==
    /\ SealInv
    /\ serial => /\ InOrder
                 /\ check # Idle /\ check.quiet /\ Intact => OnTrack

(* Links of different times have one newest. *)
LEMMA OneHead ==
  ASSUME InOrder, TypeOK, NEW S \in SUBSET {d \in Event : Linked(d)},
         NEW h \in HeadsOf(S), NEW g \in HeadsOf(S)
  PROVE  h = g
  <1>1. CASE S = {}
    BY <1>1 DEF HeadsOf
  <1>2. CASE S # {}
    <2>1. PICK c \in Newest(S), d \in Newest(S) : h = links[c].hash /\ g = links[d].hash
      BY <1>2 DEF HeadsOf
    <2>2. c \in Event /\ d \in Event /\ Linked(c) /\ Linked(d)
          /\ links[c].at <= links[d].at /\ links[d].at <= links[c].at
      BY <2>1 DEF Newest
    <2>3. links[c].at \in Nat /\ links[d].at \in Nat
      BY <2>2, LinkType
    <2>4. links[c].at = links[d].at
      BY <2>2, <2>3
    <2>5. c = d
      BY <2>2, <2>4 DEF InOrder, LinkInOrder
    <2>6. QED  BY <2>1, <2>5
  <1>3. QED  BY <1>1, <1>2

(* During such a verification the tables stand still, but for edits that    *)
(* the hashes do not show.                                                  *)
StandingStill ==
    /\ UNCHANGED <<links, cut>>
    /\ \A w \in Worker : work'[w] = Idle
    /\ \A e \in Event : Saved(e)' <=> Saved(e)
    /\ \A e \in Event : Saved(e) => rows'[e].at = rows[e].at /\ rows'[e].text = rows[e].text

LEMMA StandsStill ==
  ASSUME SealInv, [Next]_vars, serial', \A w \in Worker : work[w] = Idle,
         check # Idle, check' # Idle, check'.quiet, Intact'
  PROVE  StandingStill
  <1>0. TypeOK /\ check \in Verification
    BY CheckFields DEF SealInv, AnchorInv
  <1>1. ASSUME NEW w \in Worker, Emit(w) PROVE FALSE
    <2>1. check' = [check EXCEPT !.quiet = FALSE]
      BY <1>1 DEF Emit, StampEvent, ChainEvent, SaveEvent, SaveLink, EmitFails, AtStage
    <2>2. QED  BY <1>0, <2>1 DEF Verification
  <1>2. ASSUME NEW e \in Event, Alter(e) PROVE StandingStill
    <2>1. rows'[e].edited # "text"
      BY <1>0, <1>2, AlterFacts DEF Intact, Saved
    <2>2. rows'[e].text = rows[e].text
      BY <1>0, <1>2, <2>1, AlterFacts
    <2>3. \A d \in Event : /\ Saved(d)' <=> Saved(d)
                           /\ rows'[d].at = rows[d].at /\ rows'[d].text = rows[d].text
      <3>1. \A d \in Event : d # e => rows'[d] = rows[d]
        BY <1>0, <1>2, AlterFacts
      <3>2. Saved(e) /\ rows'[e] # Absent /\ rows'[e].at = rows[e].at
        BY <1>0, <1>2, AlterFacts
      <3>3. QED  BY <2>2, <3>1, <3>2 DEF Saved
    <2>4. UNCHANGED <<links, work, cut>>
      BY <1>0, <1>2, AlterFacts
    <2>5. QED  BY <2>3, <2>4 DEF StandingStill
  <1>3. Crash => FALSE
    BY DEF Crash
  <1>4. CASE UNCHANGED <<rows, links, work, cut>>
    BY <1>4 DEF StandingStill, Saved
  <1>5. QED
    BY <1>1, <1>2, <1>3, <1>4
       DEF Next, vars, Tick, BeginSweep, VerifyOnDemand, Verify, ReadAnchor, ReadEvents,
           CompareEvent, StoreRun, VerifyFails, EndRun

(* With no emission in progress every saved event is linked. *)
LEMMA AllLinked ==
  ASSUME SealInv, InOrder, \A w \in Worker : work[w] = Idle, NEW e \in Event, Saved(e)
  PROVE  /\ Linked(e) /\ LinkInOrder(e) /\ rows[e] \in Content
         /\ rows[e].event = e /\ rows[e].at = links[e].at /\ rows[e].at <= now
         /\ rows[e].frac = 0
         /\ rows[e].at \in Nat
  <1>1. Linked(e) /\ TypeOK
    BY DEF SealInv, AnchorInv, InOrder, AtStage
  <1>2. LinkInOrder(e) /\ rows[e] \in Content /\ rows[e].at \in 0..MaxTime
    BY <1>1, RowAt DEF InOrder
  <1>3. QED  BY <1>1, <1>2 DEF LinkInOrder

LEMMA BeginOnTrack ==
  ASSUME SealInv, InOrder, NEW by, NEW start, Verify(by, start), check'.quiet
  PROVE  OnTrack'
  <1>1. /\ check'.end = now /\ check'.stage = "begun"
        /\ UNCHANGED <<rows, work>>
        /\ \A w \in Worker : work[w] = Idle
    BY DEF Verify
  <1>2. \A e \in Event : Saved(e) => rows[e].at <= now
    BY <1>1, AllLinked
  <1>3. QED  BY <1>1, <1>2 DEF OnTrack, Saved

(* Reading the events: those before the window are done, and their newest   *)
(* is the anchor.                                                           *)
LEMMA ReadOnTrack ==
  ASSUME SealInv, InOrder, OnTrack, Intact, ReadEvents PROVE OnTrack'
  <1>0. TypeOK /\ check # Idle /\ check.stage = "anchored" /\ check.ok
        /\ UNCHANGED <<rows, links, work, cut>>
    BY DEF SealInv, AnchorInv, ReadEvents, Checking
  <1>1. PICK read \in SUBSET Event : read = {e \in Event : InWindow(e)}
    OBVIOUS
  <1>2. check' = [check EXCEPT !.stage = "checking", !.todo = {rows[e] : e \in read}]
    BY <1>1 DEF ReadEvents
  <1>3. /\ check'.todo = {rows[e] : e \in read} /\ check'.hash = check.hash
        /\ check'.ok = check.ok /\ check'.end = check.end /\ check'.stage = "checking"
        /\ check'.start = check.start /\ check.start \in Int
    BY <1>0, <1>2, CheckFields DEF Verification
  <1>4. \A e \in Event : Linked(e) => Saved(e)
    BY DEF SealInv, AnchorInv, OwnEvents
  <1>5. \A e \in Event : Saved(e) =>
          /\ Linked(e) /\ rows[e].event = e /\ rows[e].at = links[e].at /\ rows[e].at \in Nat
          /\ rows[e].at <= check.end /\ rows[e].at # check.start /\ rows[e].frac = 0
    BY AllLinked DEF OnTrack, Intact
  <1>6. \A e \in Event : e \in read <=> Saved(e) /\ check.start <= rows[e].at
    BY <1>1, <1>5 DEF InWindow
  <1>7. \A e \in Event : InWindow(e)' <=> e \in read
    BY <1>0, <1>1, <1>3 DEF InWindow, Saved
  <1>8. \A row \in check'.todo : row.event \in read /\ rows[row.event] = row /\ row.frac = 0
    BY <1>3, <1>5, <1>6
  <1>9. PICK S \in SUBSET Event : S = {d \in Event : Linked(d) /\ links[d].at <= check.start}
    OBVIOUS
  <1>10. \A d \in Event : d \in S <=> Linked(d) /\ links[d].at <= check.start
    BY <1>9
  <1>11. \A d \in Event : d \in S <=> Linked(d) /\ \A row \in check'.todo : row.event # d
    <2>1. \A d \in Event : (\A row \in check'.todo : row.event # d) <=> d \notin read
      BY <1>3, <1>5, <1>6, <1>8
    <2>2. \A d \in Event : Linked(d) => (links[d].at <= check.start <=> ~(check.start <= rows[d].at))
      BY <1>3, <1>4, <1>5
    <2>3. QED  BY <1>4, <1>6, <1>10, <2>1, <2>2
  <1>12. Done' = S
    BY <1>0, <1>11 DEF Done, Linked
  <1>13. check.hash \in HeadsOf(S) /\ HeadsOf(S)' = HeadsOf(S)
    BY <1>0, <1>9, HeadsKeep DEF OnTrack, Anchors
  <1>14. check'.hash \in HeadsOf(Done)'
    BY <1>3, <1>12, <1>13
  <1>15. \A d \in S, row \in check'.todo : rows[d].at < row.at
    <2> SUFFICES ASSUME NEW d \in S, NEW e \in read PROVE rows[d].at < rows[e].at
      BY <1>3
    <2>1. rows[d].at <= check.start /\ rows[d].at \in Nat /\ rows[d].at # check.start
      BY <1>4, <1>5, <1>10
    <2>2. check.start <= rows[e].at /\ rows[e].at \in Nat
      BY <1>5, <1>6
    <2>3. QED  BY <1>3, <2>1, <2>2
  <1>16. \A d \in S : d \notin read
    <2> SUFFICES ASSUME NEW d \in S, d \in read PROVE FALSE
      OBVIOUS
    <2>1. rows[d].at <= check.start /\ rows[d].at \in Nat /\ rows[d].at # check.start
      BY <1>4, <1>5, <1>10
    <2>2. check.start <= rows[d].at
      BY <1>6
    <2>3. QED  BY <1>3, <2>1, <2>2
  <1>17. Walking'
    <2>1. \A row \in check'.todo :
            /\ InWindow(row.event)' /\ row.frac = 0
            /\ rows'[row.event].at = row.at /\ rows'[row.event].text = row.text
      BY <1>0, <1>7, <1>8
    <2>2. \A row, other \in check'.todo : row.event = other.event => row = other
      BY <1>8
    <2>3. \A e \in Done' : ~InWindow(e)'
      BY <1>7, <1>12, <1>16
    <2>4. \A d \in Done', row \in check'.todo : rows'[d].at < row.at
      BY <1>0, <1>12, <1>15
    <2>5. QED  BY <1>14, <2>1, <2>2, <2>3, <2>4 DEF Walking
  <1>18. QED
    BY <1>0, <1>3, <1>17 DEF OnTrack, Saved

(* The next event continues the hash that the verification holds.           *)
LEMMA NextContinues ==
  ASSUME SealInv, InOrder, OnTrack, Intact, check # Idle, check.stage = "checking", check.ok,
         NEW row \in check.todo, \A other \in check.todo : row.at <= other.at
  PROVE  /\ row.event \in Event /\ Linked(row.event) /\ row \in Content /\ row.at \in Nat
         /\ links[row.event].at = row.at /\ links[row.event].prev = check.hash
         /\ \E f \in Fraction : /\ Cuts(row.event, f)
                                /\ links[row.event].hash = Hashed(check.hash, row.at, f, row.text)
         /\ \A other \in check.todo : other # row => row.at < other.at
         /\ \A d \in Done : links[d].at < row.at
  <1>0. /\ TypeOK /\ check.todo \subseteq Content /\ Walking
        /\ \A d \in Event : Linked(d) => Saved(d)
    BY CheckFields DEF SealInv, AnchorInv, OwnEvents, OnTrack
  <1>1. PICK e \in Event : e = row.event
    BY <1>0 DEF Content
  <1>2. /\ row \in Content /\ Saved(e) /\ rows[e].at = row.at /\ rows[e].text = row.text
    BY <1>0, <1>1 DEF Walking, InWindow
  <1>3. \A d \in Event : Saved(d) =>
          /\ Linked(d) /\ LinkInOrder(d) /\ rows[d].event = d
          /\ rows[d].at = links[d].at /\ rows[d].at \in Nat /\ rows[d].edited # "text"
    BY AllLinked DEF OnTrack, Intact
  <1>4. Linked(e) /\ LinkInOrder(e) /\ row.at = links[e].at /\ row.at \in Nat
    BY <1>2, <1>3
  <1>5. \A d \in Done : d \in Event /\ Linked(d) /\ links[d].at < row.at
    <2>1. \A d \in Done : d \in Event /\ Linked(d) /\ rows[d].at < row.at
      BY <1>0 DEF Walking, Done
    <2>2. QED  BY <1>0, <1>3, <2>1
  <1>6. \A d \in Event : Linked(d) /\ links[d].at < links[e].at => d \in Done
    <2> SUFFICES ASSUME NEW d \in Event, Linked(d), links[d].at < links[e].at,
                        NEW other \in check.todo, other.event = d
                 PROVE  FALSE
      BY DEF Done
    <2>1. row.at <= other.at /\ rows[d].at = other.at
      BY <1>0 DEF Walking
    <2>2. rows[d].at = links[d].at /\ rows[d].at \in Nat
      BY <1>0, <1>3
    <2>3. QED  BY <1>4, <2>1, <2>2
  <1>7. Before(links[e].at) = Done
    BY <1>4, <1>5, <1>6 DEF Before, Done
  <1>8. links[e].prev = check.hash
    <2>1. links[e].prev \in HeadsOf(Done) /\ check.hash \in HeadsOf(Done)
      BY <1>0, <1>4, <1>7 DEF LinkInOrder, Walking
    <2>2. Done \in SUBSET {d \in Event : Linked(d)}
      BY DEF Done
    <2>3. QED  BY <1>0, <2>1, <2>2, OneHead
  <1>9. \E f \in Fraction : /\ Cuts(e, f)
                           /\ links[e].hash = Hashed(check.hash, row.at, f, row.text)
    BY <1>2, <1>3, <1>4, <1>8 DEF LinkInOrder
  <1>10. ASSUME NEW other \in check.todo, other # row PROVE row.at < other.at
    <2>1. other.event \in Event /\ Saved(other.event) /\ rows[other.event].at = other.at
      BY <1>0 DEF Walking, InWindow, Content
    <2>2. other.at = links[other.event].at /\ other.at \in Nat /\ Linked(other.event)
      BY <1>3, <2>1
    <2>3. other.event # e
      BY <1>0, <1>1, <1>10 DEF Walking
    <2>4. other.at # row.at
      BY <1>4, <2>1, <2>2, <2>3 DEF LinkInOrder
    <2>5. row.at <= other.at
      OBVIOUS
    <2>6. QED  BY <1>4, <2>2, <2>4, <2>5
  <1>11. QED  BY <1>1, <1>2, <1>4, <1>5, <1>8, <1>9, <1>10

(* The next event agrees just when its time was not cut.                    *)
LEMMA NextAgrees ==
  ASSUME SealInv, InOrder, OnTrack, Intact, check # Idle, check.stage = "checking", check.ok,
         NEW row \in check.todo, \A other \in check.todo : row.at <= other.at
  PROVE  Agrees(row.event, Extend(check.hash, row)) <=> row.event \notin cut
  <1>1. /\ Linked(row.event) /\ row \in Content /\ row.frac = 0
        /\ check.hash \in Hash /\ row.at \in 0..MaxTime /\ row.text \in Text
    BY NextContinues, CheckFields DEF SealInv, AnchorInv, OnTrack, Walking, Content
  <1>2. PICK f \in Fraction :
          /\ Cuts(row.event, f)
          /\ links[row.event].hash = Hashed(check.hash, row.at, f, row.text)
    BY NextContinues
  <1>3. Extend(check.hash, row) = Hashed(check.hash, row.at, 0, row.text)
    BY <1>1, ExtendHashed
  <1>4. CASE f = 0
    BY <1>1, <1>2, <1>3, <1>4 DEF Agrees, Cuts
  <1>5. CASE f # 0
    <2>1. /\ [at |-> row.at, frac |-> f, text |-> row.text] \in Digest
          /\ [at |-> row.at, frac |-> 0, text |-> row.text] \in Digest
          /\ [at |-> row.at, frac |-> f, text |-> row.text]
                # [at |-> row.at, frac |-> 0, text |-> row.text]
      BY <1>1, <1>5 DEF Digest
    <2>2. Hashed(check.hash, row.at, f, row.text) # Hashed(check.hash, row.at, 0, row.text)
      BY <1>1, <2>1, AppendInjective DEF Hashed, Hash
    <2>3. QED  BY <1>2, <1>3, <1>5, <2>2 DEF Agrees, Cuts
  <1>6. QED  BY <1>4, <1>5

LEMMA CompareOnTrack ==
  ASSUME SealInv, InOrder, OnTrack, Intact, CompareEvent PROVE OnTrack'
  <1>0. /\ TypeOK /\ check # Idle /\ check.stage = "checking" /\ check \in Verification
        /\ UNCHANGED <<rows, links, work, cut>>
    BY CheckFields DEF SealInv, AnchorInv, CompareEvent, Checking
  <1>1. PICK row \in check.todo :
          /\ \A other \in check.todo : row.at <= other.at
          /\ check' = IF Agrees(row.event, Extend(check.hash, row))
                      THEN [check EXCEPT !.hash = Extend(check.hash, row),
                                         !.todo = @ \ {row}, !.passed = @ \cup {row}]
                      ELSE [check EXCEPT !.hash = Extend(check.hash, row),
                                         !.todo = {}, !.ok = FALSE]
    BY DEF CompareEvent
  <1>2. check.ok /\ Walking
    BY <1>0, <1>1 DEF OnTrack, Stopped
  <1>3. PICK e \in Event : e = row.event
    BY <1>0, <1>1, <1>2, NextContinues
  <1>4. /\ Linked(e) /\ row \in Content /\ links[e].at = row.at /\ row.at \in Nat
        /\ \A other \in check.todo : other # row => row.at < other.at
        /\ \A d \in Done : links[d].at < row.at
        /\ InWindow(e) /\ rows[e].at = row.at
    BY <1>0, <1>1, <1>2, <1>3, NextContinues DEF Walking
  <1>5. Agrees(e, Extend(check.hash, row)) <=> e \notin cut
    BY <1>0, <1>1, <1>2, <1>3, NextAgrees
  <1>6. check'.start = check.start /\ check'.end = check.end /\ check'.stage = "checking"
    BY <1>0, <1>1 DEF Verification
  <1>7. \A d \in Event : InWindow(d)' <=> InWindow(d)
    BY <1>0, <1>6 DEF InWindow, Saved
  <1>8. CASE e \in cut
    <2>1. check'.todo = {} /\ ~check'.ok
      BY <1>0, <1>1, <1>3, <1>5, <1>8 DEF Verification
    <2>2. Stopped'
      BY <1>0, <1>4, <1>7, <1>8, <2>1 DEF Stopped
    <2>3. QED  BY <1>0, <1>6, <2>1, <2>2 DEF OnTrack, Saved
  <1>9. CASE e \notin cut
    <2>1. Agrees(e, Extend(check.hash, row))
      BY <1>5, <1>9
    <2>2. /\ check'.hash = Extend(check.hash, row) /\ check'.todo = check.todo \ {row}
          /\ check'.ok = check.ok
      BY <1>0, <1>1, <1>3, <2>1 DEF Verification
    <2>3. PICK S \in SUBSET Event : S = Done
      BY DEF Done
    <2>4. Done' = S \cup {e}
      <3>1. \A d \in Event : d \in S <=> Linked(d) /\ \A x \in check.todo : x.event # d
        BY <2>3 DEF Done
      <3>2. \A x \in check.todo : x.event = e <=> x = row
        BY <1>1, <1>2, <1>3 DEF Walking
      <3>3. \A d \in Event :
              Linked(d) /\ (\A x \in check'.todo : x.event # d) <=> d \in S \/ d = e
        BY <1>4, <2>2, <3>1, <3>2
      <3>4. QED  BY <1>0, <3>3 DEF Done, Linked
    <2>5. \A d \in S : Linked(d) /\ links[d].at < links[e].at /\ links[d].at \in Nat
      BY <1>0, <1>4, <2>3, LinkType DEF Done
    <2>6. check'.hash \in HeadsOf(Done)'
      <3>1. PICK T \in SUBSET Event : T = S \cup {e}
        OBVIOUS
      <3>2. e \in Newest(T)
        BY <1>4, <2>5, <3>1 DEF Newest
      <3>3. links[e].hash \in HeadsOf(T)
        BY <3>1, <3>2 DEF HeadsOf
      <3>4. HeadsOf(T)' = HeadsOf(T)
        BY <1>0, HeadsKeep
      <3>5. check'.hash = links[e].hash
        BY <2>1, <2>2 DEF Agrees
      <3>6. QED  BY <2>4, <3>1, <3>3, <3>4, <3>5
    <2>7. \A d \in S \cup {e}, x \in check'.todo : rows'[d].at < x.at
      <3>1. \A x \in check'.todo : row.at < x.at
        BY <1>4, <2>2
      <3>2. \A d \in S, x \in check'.todo : rows[d].at < x.at
        BY <1>2, <2>2, <2>3 DEF Walking
      <3>3. QED  BY <1>0, <1>4, <3>1, <3>2
    <2>8. \A d \in S \cup {e} : InWindow(d)' => d \notin cut'
      BY <1>0, <1>2, <1>7, <1>9, <2>3 DEF Walking
    <2>9. \A x \in check'.todo :
            /\ InWindow(x.event)' /\ x.frac = 0
            /\ rows'[x.event].at = x.at /\ rows'[x.event].text = x.text
      <3>1. \A x \in check.todo : x.event \in Event
        BY <1>0, CheckFields DEF Content
      <3>2. QED  BY <1>0, <1>2, <1>7, <2>2, <3>1 DEF Walking
    <2>10. \A x, other \in check'.todo : x.event = other.event => x = other
      BY <1>2, <2>2 DEF Walking
    <2>11. Walking'
      BY <2>4, <2>6, <2>7, <2>8, <2>9, <2>10 DEF Walking
    <2>12. QED  BY <1>0, <1>2, <1>6, <2>2, <2>11 DEF OnTrack, Saved
  <1>10. QED  BY <1>8, <1>9

LEMMA AnchorOnTrack ==
  ASSUME SealInv, OnTrack, ReadAnchor PROVE OnTrack'
  <1>0. /\ TypeOK /\ check # Idle /\ check \in Verification
        /\ UNCHANGED <<rows, links, work>>
    BY CheckFields DEF SealInv, AnchorInv, ReadAnchor, Checking
  <1>1. PICK h \in Anchors(check.start) :
          check' = [check EXCEPT !.stage = "anchored", !.hash = h]
    BY DEF ReadAnchor
  <1>2. /\ check'.hash = h /\ check'.stage = "anchored" /\ check'.start = check.start
        /\ check'.end = check.end
    BY <1>0, <1>1 DEF Verification
  <1>3. h \in Anchors(check.start)'
    BY <1>0, <1>2 DEF Anchors, HeadsOf, Newest, Linked
  <1>4. QED  BY <1>0, <1>2, <1>3 DEF OnTrack, Saved

LEMMA SameOnTrack ==
  ASSUME SealInv, OnTrack, check # Idle, check' = check, StandingStill PROVE OnTrack'
  <1>0. /\ check.todo \subseteq Content /\ \A row \in check.todo : row.event \in Event
        /\ \A e \in Event : Linked(e) => Saved(e)
    BY CheckFields DEF SealInv, AnchorInv, OwnEvents, Content
  <1>1. \A e \in Event : InWindow(e)' <=> InWindow(e)
    BY DEF StandingStill, InWindow
  <1>2. Done' = Done
    BY DEF StandingStill, Done, Linked
  <1>3. PICK S \in SUBSET Event : S = Done
    BY DEF Done
  <1>4. HeadsOf(S)' = HeadsOf(S)
    BY HeadsKeep DEF StandingStill
  <1>5. \A d \in Done : d \in Event /\ Saved(d)
    BY <1>0 DEF Done
  <1>6. ASSUME Walking PROVE Walking'
    <2>1. \A row \in check.todo :
            /\ InWindow(row.event)' /\ row.frac = 0
            /\ rows'[row.event].at = row.at /\ rows'[row.event].text = row.text
      BY <1>0, <1>1, <1>6 DEF Walking, InWindow, StandingStill
    <2>2. \A d \in Done, row \in check.todo : rows'[d].at < row.at
      BY <1>5, <1>6 DEF Walking, StandingStill
    <2>3. \A e \in Done : InWindow(e)' => e \notin cut'
      BY <1>1, <1>5, <1>6 DEF Walking, StandingStill
    <2>4. check.hash \in HeadsOf(Done)'
      BY <1>2, <1>3, <1>4, <1>6 DEF Walking
    <2>5. QED  BY <1>2, <1>6, <2>1, <2>2, <2>3, <2>4 DEF Walking
  <1>7. Stopped => Stopped'
    BY <1>1 DEF Stopped, StandingStill
  <1>8. Anchors(check.start)' = Anchors(check.start)
    BY DEF Anchors, HeadsOf, Newest, Linked, StandingStill
  <1>9. QED  BY <1>6, <1>7, <1>8 DEF OnTrack, StandingStill

(* What is intact now was intact before. *)
LEMMA IntactBefore ==
  ASSUME SealInv, InOrder, [Next]_vars, check'.start = check.start, Intact'
  PROVE  Intact
  <1>0. TypeOK /\ OwnEvents
    BY DEF SealInv, AnchorInv
  <1> SUFFICES ASSUME NEW e \in Event, Saved(e)
               PROVE  rows[e].edited # "text" /\ rows[e].at # check.start
    BY DEF Intact
  <1>1. ASSUME NEW w \in Worker, SaveEvent(w) PROVE rows'[e] = rows[e]
    <2>1. work[w] # Idle /\ work[w].stage = "chained"
      BY <1>1 DEF SaveEvent, AtStage
    <2>2. work[w].row.event # e
      BY <2>1 DEF InOrder, EmissionInOrder
    <2>3. QED  BY <1>0, <1>1, <2>2 DEF SaveEvent, TypeOK
  <1>2. ASSUME NEW w \in Worker, Emit(w), ~SaveEvent(w) PROVE rows' = rows
    BY <1>2 DEF Emit, StampEvent, ChainEvent, SaveLink, EmitFails
  <1>3. \/ rows' = rows \/ (\E d \in Event : Alter(d)) \/ \E w \in Worker : Emit(w)
    BY DEF Next, vars, Tick, Crash, BeginSweep, VerifyOnDemand, Verify, ReadAnchor,
           ReadEvents, CompareEvent, StoreRun, VerifyFails, EndRun
  <1>4. CASE rows'[e] = rows[e]
    BY <1>4 DEF Intact, Saved
  <1>5. ASSUME NEW d \in Event, Alter(d) PROVE rows[e].edited # "text" /\ rows[e].at # check.start
    <2>1. CASE d = e
      BY <1>0, <1>5, <2>1, AlterFacts DEF Intact, Saved
    <2>2. CASE d # e
      BY <1>0, <1>4, <1>5, <2>2, AlterFacts
    <2>3. QED  BY <2>1, <2>2
  <1>6. QED  BY <1>1, <1>2, <1>3, <1>4, <1>5

LEMMA IntactStep ==
  ASSUME IntactInv, [Next]_vars, serial', check' # Idle, check'.quiet, Intact'
  PROVE  OnTrack'
  <1>0. SealInv /\ TypeOK /\ InOrder
        /\ (check # Idle => check \in Verification)
        /\ (check # Idle /\ check.quiet /\ Intact => OnTrack)
    <2>1. SealInv /\ TypeOK
      BY DEF IntactInv, SealInv, AnchorInv
    <2>2. serial
      BY <2>1, SerialLost, Zenon
    <2>3. QED  BY <2>1, <2>2, CheckFields DEF IntactInv
  <1>1. ASSUME NEW by, NEW start, Verify(by, start) PROVE OnTrack'
    BY <1>0, <1>1, BeginOnTrack
  <1>2. ASSUME check # Idle, check'.start = check.start, check'.quiet = check.quiet
        PROVE  OnTrack /\ Intact /\ StandingStill
    <2>1. Intact
      BY <1>0, <1>2, IntactBefore
    <2>2. OnTrack
      BY <1>0, <1>2, <2>1
    <2>3. QED  BY <1>0, <1>2, <2>1, <2>2, StandsStill DEF OnTrack
  <1>3. CASE check' = check
    BY <1>0, <1>2, <1>3, SameOnTrack
  <1>4. ASSUME check # Idle, check' = [check EXCEPT !.quiet = FALSE] PROVE FALSE
    BY <1>0, <1>4 DEF Verification
  <1>5. CASE ReadAnchor
    <2>1. check # Idle /\ check'.start = check.start /\ check'.quiet = check.quiet
      BY <1>0, <1>5 DEF ReadAnchor, Checking, Verification
    <2>2. QED  BY <1>0, <1>2, <1>5, <2>1, AnchorOnTrack
  <1>6. CASE ReadEvents
    <2>1. check # Idle /\ check'.start = check.start /\ check'.quiet = check.quiet
      BY <1>0, <1>6 DEF ReadEvents, Checking, Verification
    <2>2. QED  BY <1>0, <1>2, <1>6, <2>1, ReadOnTrack
  <1>7. CASE CompareEvent
    <2>1. check # Idle /\ check'.start = check.start /\ check'.quiet = check.quiet
      BY <1>0, <1>7 DEF CompareEvent, Checking, Verification
    <2>2. QED  BY <1>0, <1>2, <1>7, <2>1, CompareOnTrack
  <1>8. QED
    BY <1>0, <1>1, <1>3, <1>4, <1>5, <1>6, <1>7, CheckStep DEF BeginSweep

LEMMA NextIntact ==
  ASSUME IntactInv, [Next]_vars PROVE IntactInv'
  <1>1. SealInv /\ SealInv' /\ TypeOK
    BY NextSeal DEF IntactInv, SealInv, AnchorInv
  <1>2. ASSUME serial' PROVE InOrder'
    <2>1. serial
      BY <1>1, <1>2, SerialLost, Zenon
    <2>2. InOrder
      BY <2>1 DEF IntactInv
    <2>3. QED  BY <1>1, <1>2, <2>2, OrderStep
  <1>3. ASSUME serial', check' # Idle, check'.quiet, Intact' PROVE OnTrack'
    BY <1>3, IntactStep
  <1>4. QED  BY <1>1, <1>2, <1>3 DEF IntactInv

LEMMA InitIntact == Init => IntactInv
  <1> SUFFICES ASSUME Init PROVE IntactInv
    OBVIOUS
  <1>1. SealInv
    BY InitSeal
  <1>2. InOrder /\ check = Idle
    BY DEF Init, InOrder, Saved, Linked
  <1>3. QED  BY <1>1, <1>2 DEF IntactInv

(* A trail that nothing disturbed is found intact just when the column kept *)
(* every digit of the times in the window: if no two emissions overlapped   *)
(* and none stopped half-way, no text was altered, no emission ran during   *)
(* the verification and no event lies exactly at the start of the window,   *)
(* the verifier reports success if no time in the window was cut, and only  *)
(* then.  Whatever digits the clock has: nothing is assumed of them, and    *)
(* the run intact_chain_fails shows the second case happen.                 *)
THEOREM UndisturbedVerifies == Spec => []IntactChainVerifies
  <1>1. IntactInv => IntactChainVerifies
    <2> SUFFICES ASSUME IntactInv, serial, Finished, check.quiet, Intact
                 PROVE  check.ok <=> \A e \in Event : InWindow(e) => e \notin cut
      BY DEF IntactChainVerifies, Undisturbed, Intact
    <2>1. check # Idle /\ check.stage = "checking" /\ check.todo = {}
      BY DEF Finished, Checking
    <2>2. OnTrack /\ InOrder /\ SealInv
      BY <2>1 DEF IntactInv
    <2>3. ASSUME check.ok, NEW e \in Event, InWindow(e) PROVE e \notin cut
      <3>1. Linked(e)
        BY <2>2, <2>3, AllLinked DEF OnTrack, InWindow
      <3>2. e \in Done
        BY <2>1, <3>1 DEF Done
      <3>3. QED  BY <2>1, <2>2, <2>3, <3>2 DEF OnTrack, Walking
    <2>4. ASSUME ~check.ok PROVE \E e \in Event : InWindow(e) /\ e \in cut
      BY <2>1, <2>2, <2>4 DEF OnTrack, Stopped
    <2>5. check.ok \in BOOLEAN
      BY <2>1, <2>2, CheckFields DEF SealInv, AnchorInv, Verification
    <2>6. QED  BY <2>3, <2>4, <2>5
  <1>2. IntactInv /\ [Next]_vars => IntactInv'
    BY NextIntact
  <1>3. QED  BY <1>1, <1>2, InitIntact, PTL DEF Spec
=============================================================================
