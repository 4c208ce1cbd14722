--------------------------- MODULE ApplicationFeed ---------------------------
(***************************************************************************)
(* The mock board's list of the latest applications (ApplicationFeed): a   *)
(* ConcurrentQueue that every submission appends to and then trims.  The   *)
(* test of the length and the removal are separate calls, so adders that   *)
(* overlap may each remove an entry for the same excess.                   *)
(***************************************************************************)
EXTENDS Integers, Sequences, FiniteSets

CONSTANTS
    Entry,   \* applications submitted to the board, each once
    Limit    \* entries to keep: 20 in the code

VARIABLES
    queue,     \* _queue, the oldest entry first
    adder,     \* where the call of Add for an entry is
    arrivals,  \* observation: entries enqueued since the board started
    crowd      \* observation: the most calls of Add inside at once since then

vars == <<queue, adder, arrivals, crowd>>

(* What the constants must be; Applications assumes it of its own. *)
FeedConstants ==
    /\ IsFiniteSet(Entry)
    /\ Limit \in Nat

(* Add has enqueued its entry and is at the test of the loop, or is about   *)
(* to remove an entry.                                                      *)
Inside == {e \in Entry : adder[e] \in {"testing", "removing"}}
Removing == {e \in Entry : adder[e] = "removing"}

FeedTypeOK ==
    /\ queue \in Seq(Entry)
    /\ adder \in [Entry -> {"out", "testing", "removing", "done"}]
    /\ arrivals \in Seq(Entry)
    /\ crowd \in 0..Cardinality(Entry)

Init ==
    /\ queue = << >>
    /\ adder = [e \in Entry |-> "out"]
    /\ arrivals = << >>
    /\ crowd = 0

-----------------------------------------------------------------------------
Move(e, from, to) ==
    /\ adder[e] = from
    /\ adder' = [adder EXCEPT ![e] = to]

(* Variant: a List that inserts at the front, trimmed at the front as well. *)
Enqueue_AtFront(e) ==
    /\ Move(e, "out", "testing")
    /\ queue' = <<e>> \o queue
    /\ arrivals' = Append(arrivals, e)
    /\ crowd' = IF Cardinality(Inside) < crowd THEN crowd ELSE Cardinality(Inside) + 1

Enqueue(e) ==
    /\ Move(e, "out", "testing")
    /\ queue' = Append(queue, e)
    /\ arrivals' = Append(arrivals, e)
    /\ crowd' = IF Cardinality(Inside) < crowd THEN crowd ELSE Cardinality(Inside) + 1

TooMany == Len(queue) > Limit

TestCount(e) ==
    /\ Move(e, "testing", IF TooMany THEN "removing" ELSE "done")
    /\ UNCHANGED <<queue, arrivals, crowd>>

(* TryDequeue answers false on an empty queue, which ends the loop. *)
TryDequeue(e) ==
    /\ Move(e, "removing", IF queue = << >> THEN "done" ELSE "testing")
    /\ queue' = IF queue = << >> THEN queue ELSE Tail(queue)
    /\ UNCHANGED <<arrivals, crowd>>

(* The board restarts: the queue is in memory. *)
Restart ==
    /\ queue' = << >>
    /\ arrivals' = << >>
    /\ crowd' = 0
    /\ adder' = [e \in Entry |-> IF e \in Inside THEN "done" ELSE adder[e]]

Next ==
    \/ Restart
    \/ \E e \in Entry : Enqueue(e) \/ TestCount(e) \/ TryDequeue(e)

Spec == Init /\ [][Next]_vars

-----------------------------------------------------------------------------
(* Properties.                                                             *)

(* What the board lists are its latest arrivals, all of them, in order:     *)
(* overlapping adders remove nothing but the oldest entries.                *)
FeedInOrder ==
    /\ Len(queue) <= Len(arrivals)
    /\ \A i \in 1..Len(queue) : queue[i] = arrivals[Len(arrivals) - Len(queue) + i]

(* The queue exceeds its limit by no more than the calls of Add under way;  *)
(* at rest it is within the limit.                                          *)
FeedBounded == Len(queue) <= Limit + Cardinality(Inside)

Latest == IF Len(arrivals) < Limit THEN Len(arrivals) ELSE Limit

(* Adders that overlap at the limit may remove too much, but each beyond    *)
(* the first costs the list one entry at most.                              *)
FeedShortfall == queue # arrivals => Len(queue) + crowd > Latest
=============================================================================
