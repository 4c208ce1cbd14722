----------------------- MODULE ApplicationFeed_proofs -----------------------
(***************************************************************************)
(* The board's list keeps its promises for any number of adders and any    *)
(* limit.  The three bounds rest on counting: an adder enters with its     *)
(* entry, and one that has seen the queue too long takes an entry away.    *)
(***************************************************************************)
EXTENDS ApplicationFeed, FiniteSetTheorems, SequenceTheorems, TLAPS

(* Both sets of adders are finite, and the removing ones are inside. *)
LEMMA AddersFinite ==
  ASSUME FeedConstants
  PROVE
    /\ IsFiniteSet(Inside) /\ Cardinality(Inside) \in Nat
    /\ IsFiniteSet(Removing) /\ Cardinality(Removing) \in Nat
    /\ Cardinality(Removing) <= Cardinality(Inside)
    /\ Cardinality(Inside) <= Cardinality(Entry)
    /\ Cardinality(Entry) \in Nat
<1>1. Inside \subseteq Entry /\ Removing \subseteq Inside
  BY DEF Inside, Removing
<1>2. IsFiniteSet(Inside) /\ Cardinality(Inside) <= Cardinality(Entry)
  BY <1>1, FS_Subset DEF FeedConstants
<1>3. IsFiniteSet(Removing) /\ Cardinality(Removing) <= Cardinality(Inside)
  BY <1>1, <1>2, FS_Subset
<1> QED
  BY <1>2, <1>3, FS_CardinalityType DEF FeedConstants

(* How each kind of move changes the two counts. *)
LEMMA Enters ==
    ASSUME FeedConstants, FeedTypeOK, NEW e \in Entry, Move(e, "out", "testing")
    PROVE  /\ Cardinality(Inside') = Cardinality(Inside) + 1
           /\ Cardinality(Removing') = Cardinality(Removing)
           /\ Removing' = Removing
<1>1. Inside' = Inside \cup {e} /\ e \notin Inside
  BY DEF FeedTypeOK, Move, Inside
<1>2. Removing' = Removing
  BY DEF FeedTypeOK, Move, Removing
<1> QED
  BY <1>1, <1>2, AddersFinite, FS_AddElement

LEMMA SeesTooMany ==
    ASSUME FeedConstants, FeedTypeOK, NEW e \in Entry, Move(e, "testing", "removing")
    PROVE  /\ Cardinality(Inside') = Cardinality(Inside)
           /\ Cardinality(Removing') = Cardinality(Removing) + 1
           /\ Cardinality(Removing') <= Cardinality(Inside)
<1>1. Inside' = Inside
  BY DEF FeedTypeOK, Move, Inside
<1>2. Removing' = Removing \cup {e} /\ e \notin Removing
  BY DEF FeedTypeOK, Move, Removing
<1>3. Cardinality(Removing') = Cardinality(Removing) + 1
  BY <1>2, AddersFinite, FS_AddElement
<1>4. Removing' \subseteq Inside
  BY DEF FeedTypeOK, Move, Inside, Removing
<1>5. Cardinality(Removing') <= Cardinality(Inside)
  BY <1>4, AddersFinite, FS_Subset
<1> QED
  BY <1>1, <1>3, <1>5

LEMMA SeesEnough ==
    ASSUME FeedConstants, FeedTypeOK, NEW e \in Entry, Move(e, "testing", "done")
    PROVE  /\ Cardinality(Inside') = Cardinality(Inside) - 1
           /\ Cardinality(Inside') \in Nat
           /\ Removing' = Removing
<1>1. Inside' = Inside \ {e} /\ e \in Inside
  BY DEF FeedTypeOK, Move, Inside
<1>2. Removing' = Removing
  BY DEF FeedTypeOK, Move, Removing
<1> QED
  BY <1>1, <1>2, AddersFinite, FS_RemoveElement, FS_CardinalityType

LEMMA TakesOne ==
    ASSUME FeedConstants, FeedTypeOK, NEW e \in Entry, Move(e, "removing", "testing")
    PROVE  /\ Cardinality(Inside') = Cardinality(Inside)
           /\ Cardinality(Removing') = Cardinality(Removing) - 1
           /\ e \in Removing
<1>1. Inside' = Inside
  BY DEF FeedTypeOK, Move, Inside
<1>2. Removing' = Removing \ {e} /\ e \in Removing
  BY DEF FeedTypeOK, Move, Removing
<1> QED
  BY <1>1, <1>2, AddersFinite, FS_RemoveElement

LEMMA FindsNone ==
    ASSUME FeedConstants, FeedTypeOK, NEW e \in Entry, Move(e, "removing", "done")
    PROVE  /\ Cardinality(Inside') = Cardinality(Inside) - 1
           /\ Cardinality(Inside') \in Nat
           /\ Cardinality(Removing') = Cardinality(Removing) - 1
           /\ e \in Removing
<1>1. Inside' = Inside \ {e} /\ e \in Inside
  BY DEF FeedTypeOK, Move, Inside
<1>2. Removing' = Removing \ {e} /\ e \in Removing
  BY DEF FeedTypeOK, Move, Removing
<1> QED
  BY <1>1, <1>2, AddersFinite, FS_RemoveElement, FS_CardinalityType

LEMMA NobodyInside ==
    (Inside = {}) => Cardinality(Inside) = 0 /\ Removing = {} /\ Cardinality(Removing) = 0
  BY FS_EmptySet DEF Inside, Removing

-----------------------------------------------------------------------------
(* The inductive invariant.  An adder that is about to remove an entry has  *)
(* to be counted against the excess it saw: the list as it will be when the *)
(* removals under way are done still has what the crowd leaves of Latest.   *)

Counted ==
    /\ Cardinality(Inside) <= crowd
    /\ Removing # {} \/ queue # arrivals
         => Len(queue) - Cardinality(Removing) + crowd > Latest

FeedInv == FeedConstants /\ FeedTypeOK /\ FeedInOrder /\ FeedBounded /\ Counted

LEMMA FeedStarts == FeedConstants /\ Init => FeedInv
<1> SUFFICES ASSUME FeedConstants, Init PROVE FeedInv
  OBVIOUS
<1>1. Inside = {}
  BY DEF Init, Inside
<1>2. Cardinality(Inside) = 0 /\ Removing = {} /\ Cardinality(Removing) = 0
  BY <1>1, NobodyInside
<1>3. FeedTypeOK
  BY AddersFinite DEF Init, FeedTypeOK
<1> QED
  BY <1>2, <1>3 DEF FeedConstants, Init, FeedInv, FeedInOrder, FeedBounded, Counted

LEMMA EnqueueKeeps ==
    ASSUME FeedInv, NEW e \in Entry, Enqueue(e)
    PROVE  FeedInv'
<1> USE DEF FeedInv
<1>1. /\ Move(e, "out", "testing")
      /\ queue' = Append(queue, e)
      /\ arrivals' = Append(arrivals, e)
      /\ crowd' = IF Cardinality(Inside) < crowd THEN crowd ELSE Cardinality(Inside) + 1
  BY DEF Enqueue
<1>2. /\ Cardinality(Inside') = Cardinality(Inside) + 1
      /\ Cardinality(Removing') = Cardinality(Removing)
      /\ Removing' = Removing
  BY <1>1, Enters
<1>3. Cardinality(Inside') <= Cardinality(Entry)
  <2>1. Inside' \subseteq Entry
    BY DEF Inside
  <2> QED
    BY <2>1, FS_Subset DEF FeedConstants
<1>4. Len(queue') = Len(queue) + 1 /\ Len(arrivals') = Len(arrivals) + 1
  BY <1>1 DEF FeedTypeOK
<1>5. FeedTypeOK'
  BY <1>1, <1>2, <1>3, AddersFinite DEF FeedTypeOK, Move
<1>6. FeedInOrder'
  <2>1. Len(queue') <= Len(arrivals')
    BY <1>4 DEF FeedTypeOK, FeedInOrder
  <2>2. ASSUME NEW i \in 1..Len(queue')
        PROVE  queue'[i] = arrivals'[Len(arrivals') - Len(queue') + i]
    <3>1. CASE i = Len(queue')
      <4>1. queue'[i] = e /\ arrivals'[Len(arrivals')] = e
        BY <1>1, <1>4, <3>1 DEF FeedTypeOK
      <4>2. Len(arrivals') - Len(queue') + i = Len(arrivals')
        BY <1>4, <3>1 DEF FeedTypeOK
      <4> QED
        BY <4>1, <4>2
    <3>2. CASE i # Len(queue')
      <4> DEFINE j == Len(arrivals) - Len(queue) + i
      <4>1. i \in 1..Len(queue) /\ j \in 1..Len(arrivals)
        BY <1>4, <3>2 DEF FeedTypeOK, FeedInOrder
      <4>2. queue'[i] = queue[i] /\ arrivals'[j] = arrivals[j]
        BY <1>1, <4>1 DEF FeedTypeOK
      <4>3. queue[i] = arrivals[j]
        BY <4>1 DEF FeedInOrder
      <4>4. Len(arrivals') - Len(queue') + i = j
        BY <1>4 DEF FeedTypeOK
      <4> HIDE DEF j
      <4> QED
        BY <4>2, <4>3, <4>4
    <3> QED
      BY <3>1, <3>2
  <2> QED
    BY <2>1, <2>2 DEF FeedInOrder
<1>7. FeedBounded'
  BY <1>2, <1>4, AddersFinite DEF FeedConstants, FeedTypeOK, FeedBounded
<1>8. Counted'
  <2>1. Cardinality(Inside') <= crowd' /\ crowd' >= crowd
    BY <1>1, <1>2, AddersFinite DEF FeedTypeOK, Counted
  <2>2. ASSUME Removing' # {} \/ queue' # arrivals'
        PROVE  Len(queue') - Cardinality(Removing') + crowd' > Latest'
    <3>1. Removing # {} \/ queue # arrivals
      BY <1>1, <1>2, <2>2
    <3>2. Len(queue) - Cardinality(Removing) + crowd > Latest
      BY <3>1 DEF Counted
    <3>3. Latest' <= Latest + 1 /\ Latest \in Nat /\ Latest' \in Nat
      BY <1>4 DEF FeedConstants, Latest, FeedTypeOK
    <3> QED
      BY <1>1, <1>2, <1>4, <2>1, <3>2, <3>3, AddersFinite DEF FeedTypeOK
  <2> QED
    BY <2>1, <2>2 DEF Counted
<1> QED
  BY <1>5, <1>6, <1>7, <1>8

LEMMA TestCountKeeps ==
    ASSUME FeedInv, NEW e \in Entry, TestCount(e)
    PROVE  FeedInv'
<1> USE DEF FeedInv
<1>1. UNCHANGED <<queue, arrivals, crowd>> /\ Latest' = Latest
  BY DEF TestCount, Latest
<1>2. FeedTypeOK'
  BY <1>1 DEF TestCount, Move, FeedTypeOK
<1>3. FeedInOrder'
  BY <1>1 DEF FeedInOrder
<1>4. CASE TooMany
  <2>1. Move(e, "testing", "removing")
    BY <1>4 DEF TestCount
  <2>2. /\ Cardinality(Inside') = Cardinality(Inside)
        /\ Cardinality(Removing') \in Nat
        /\ Cardinality(Removing') <= Cardinality(Inside)
    BY <2>1, SeesTooMany, AddersFinite
  <2>3. Latest <= Limit /\ Latest \in Nat
    BY DEF FeedConstants, Latest, FeedTypeOK
  <2>4. Counted'
    BY <1>1, <1>4, <2>2, <2>3, AddersFinite DEF FeedConstants, TooMany, Counted, FeedTypeOK
  <2> QED
    BY <1>1, <1>2, <1>3, <2>2, <2>4 DEF FeedBounded
<1>5. CASE ~TooMany
  <2>1. Move(e, "testing", "done")
    BY <1>5 DEF TestCount
  <2>2. /\ Cardinality(Inside') = Cardinality(Inside) - 1 /\ Cardinality(Inside') \in Nat
        /\ Removing' = Removing
    BY <2>1, SeesEnough
  <2>3. FeedBounded'
    BY <1>1, <1>5, <2>2 DEF FeedConstants, TooMany, FeedBounded, FeedTypeOK
  <2>4. Counted'
    BY <1>1, <2>2, AddersFinite DEF Counted, FeedTypeOK
  <2> QED
    BY <1>2, <1>3, <2>3, <2>4
<1> QED
  BY <1>4, <1>5

LEMMA TryDequeueKeeps ==
    ASSUME FeedInv, NEW e \in Entry, TryDequeue(e)
    PROVE  FeedInv'
<1> USE DEF FeedInv
<1>1. UNCHANGED <<arrivals, crowd>> /\ Latest' = Latest
  BY DEF TryDequeue, Latest
<1>2. CASE queue = << >>
  <2>1. Move(e, "removing", "done") /\ queue' = queue
    BY <1>2 DEF TryDequeue
  <2>2. /\ Cardinality(Inside') = Cardinality(Inside) - 1
        /\ Cardinality(Removing') = Cardinality(Removing) - 1
        /\ Removing # {}
    BY <2>1, FindsNone
  <2>3. FeedTypeOK' /\ FeedInOrder'
    BY <1>1, <2>1 DEF Move, FeedTypeOK, FeedInOrder
  <2>4. Cardinality(Inside') \in Nat
    BY <2>1, FindsNone
  <2>5. FeedBounded'
    BY <1>2, <2>1, <2>4 DEF FeedConstants, FeedBounded
  <2>6. Latest \in Nat
    BY DEF FeedConstants, Latest, FeedTypeOK
  <2>7. Counted'
    BY <1>1, <2>1, <2>2, <2>6, AddersFinite DEF Counted, FeedTypeOK
  <2> QED
    BY <2>3, <2>5, <2>7
<1>3. CASE queue # << >>
  <2>1. Move(e, "removing", "testing") /\ queue' = Tail(queue)
    BY <1>3 DEF TryDequeue
  <2>2. /\ Cardinality(Inside') = Cardinality(Inside)
        /\ Cardinality(Removing') = Cardinality(Removing) - 1
        /\ Removing # {}
    BY <2>1, TakesOne
  <2>3. /\ queue' \in Seq(Entry) /\ Len(queue') = Len(queue) - 1
        /\ \A i \in 1..Len(queue') : queue'[i] = queue[i + 1]
    BY <1>3, <2>1 DEF FeedTypeOK
  <2>4. FeedTypeOK'
    BY <1>1, <2>1, <2>3 DEF Move, FeedTypeOK
  <2>5. FeedInOrder'
    <3>1. Len(queue') <= Len(arrivals')
      BY <1>1, <2>3 DEF FeedTypeOK, FeedInOrder
    <3>2. ASSUME NEW i \in 1..Len(queue')
          PROVE  queue'[i] = arrivals'[Len(arrivals') - Len(queue') + i]
      <4>1. i + 1 \in 1..Len(queue)
        BY <2>3 DEF FeedTypeOK
      <4>2. queue[i + 1] = arrivals[Len(arrivals) - Len(queue) + (i + 1)]
        BY <4>1 DEF FeedInOrder
      <4>3. Len(arrivals') - Len(queue') + i = Len(arrivals) - Len(queue) + (i + 1)
        BY <1>1, <2>3 DEF FeedTypeOK
      <4> QED
        BY <1>1, <2>3, <4>2, <4>3
    <3> QED
      BY <3>1, <3>2 DEF FeedInOrder
  <2>6. FeedBounded'
    BY <2>2, <2>3, AddersFinite DEF FeedConstants, FeedBounded, FeedTypeOK
  <2>7. Latest \in Nat
    BY DEF FeedConstants, Latest, FeedTypeOK
  <2>8. Counted'
    BY <1>1, <2>2, <2>3, <2>7, AddersFinite DEF Counted, FeedTypeOK
  <2> QED
    BY <2>4, <2>5, <2>6, <2>8
<1> QED
  BY <1>2, <1>3

LEMMA RestartKeeps ==
    ASSUME FeedInv, Restart
    PROVE  FeedInv'
<1> USE DEF FeedInv
<1>1. Inside' = {}
  BY DEF Restart, Inside, FeedTypeOK
<1>2. Cardinality(Inside') = 0 /\ Removing' = {} /\ Cardinality(Removing') = 0
  BY <1>1, FS_EmptySet DEF Inside, Removing
<1>3. FeedTypeOK'
  BY AddersFinite DEF Restart, FeedTypeOK
<1> QED
  BY <1>2, <1>3 DEF FeedConstants, Restart, FeedInOrder, FeedBounded, Counted

LEMMA FeedStep == FeedInv /\ [Next]_vars => FeedInv'
<1> SUFFICES ASSUME FeedInv, [Next]_vars PROVE FeedInv'
  OBVIOUS
<1>1. CASE Restart
  BY <1>1, RestartKeeps
<1>2. CASE \E e \in Entry : Enqueue(e) \/ TestCount(e) \/ TryDequeue(e)
  BY <1>2, EnqueueKeeps, TestCountKeeps, TryDequeueKeeps
<1>3. CASE UNCHANGED vars
  BY <1>3 DEF vars, FeedInv, FeedTypeOK, FeedInOrder, FeedBounded, Counted, Latest,
              Inside, Removing
<1> QED
  BY <1>1, <1>2, <1>3 DEF Next

THEOREM FeedInvariant == FeedConstants /\ Spec => []FeedInv
<1> QED
  BY FeedStarts, FeedStep, PTL DEF Spec

(* Enough follows from the invariant: removals under way only help.         *)
LEMMA Enough == FeedInv => FeedShortfall
<1> SUFFICES ASSUME FeedInv, queue # arrivals PROVE Len(queue) + crowd > Latest
  BY DEF FeedShortfall
<1>1. Len(queue) - Cardinality(Removing) + crowd > Latest
  BY DEF FeedInv, Counted
<1>2. Latest \in Nat /\ Len(queue) \in Nat /\ crowd \in Nat
  BY DEF FeedConstants, FeedInv, FeedTypeOK, Latest
<1> QED
  BY <1>1, <1>2, AddersFinite DEF FeedInv

(* What the board lists, for any number of submissions and any limit: the   *)
(* latest arrivals in order, no more than the limit once no Add is under    *)
(* way, and at most one entry too few for every adder beyond the first.     *)
THEOREM FeedKeepsItsPromise ==
    FeedConstants /\ Spec => [](FeedInOrder /\ FeedBounded /\ FeedShortfall)
<1>1. FeedInv => FeedInOrder /\ FeedBounded /\ FeedShortfall
  BY Enough DEF FeedInv
<1> QED
  BY <1>1, FeedInvariant, PTL
=============================================================================
