----------------------------- MODULE AuditChain -----------------------------
(***************************************************************************)
(* The audit trail of one tenant: events are emitted by the handlers       *)
(* (PersistentAuditEventSink), each linked by its hash to the event before *)
(* it, and windows of the trail are verified by a sweep and on demand      *)
(* (AuditVerificationBackgroundService, AuditVerifierService).             *)
(*                                                                         *)
(* An emission is stamped by its caller, reads the newest link, saves the  *)
(* event and then, in a second transaction, the link; emissions interleave *)
(* with each other and with a verification, and may stop between any two   *)
(* of these steps.                                                         *)
(*                                                                         *)
(* A hash is the sequence of the canonical strings hashed into it (SHA-256 *)
(* taken as injective).  The canonical string shows the time of the event  *)
(* and, as one text, the hashed fields joined with '|'; it does not show   *)
(* everything that is stored.  The clock counts what the database stores,  *)
(* microseconds; a DateTime also has a Fraction of that, which only the    *)
(* hash sees.                                                              *)
(***************************************************************************)
EXTENDS Integers, Sequences, FiniteSets

CONSTANTS
    Event,      \* ids of audit events
    NoEvent,    \* null
    Worker,     \* handlers that emit at the same time
    Text,       \* texts: the hashed fields of an event, joined
    Reads,      \* the text each event is emitted with
    Fraction,   \* the clock's digits below what the database stores
    Every,      \* AuditVerification:SweepHours
    Window,     \* AuditVerification:WindowDays
    Overlap,    \* AuditVerification:OverlapMinutes
    Days,       \* windows asked for on demand
    EmitTime,   \* bound: an emission takes no longer
    SweepTime,  \* bound: a sweep takes no longer
    MaxTime     \* bound: the clock stops here

ASSUME AuditConstants ==
    /\ NoEvent \notin Event
    /\ Reads \in [Event -> Text]
    /\ 0 \in Fraction
    /\ Every \in Nat \ {0}
    /\ Window \in Nat \ {0}
    /\ Overlap \in Nat
    /\ Days \subseteq Nat \ {0}
    /\ EmitTime \in Nat
    /\ SweepTime \in Nat
    /\ MaxTime \in Nat

VARIABLES
    now,      \* DateTime.UtcNow, as the database would store it
    rows,     \* table AuditEvents
    links,    \* table AuditEventHashes
    work,     \* the emission each worker is in
    check,    \* the verification in progress
    due,      \* when the sweep's Task.Delay ends
    swept,    \* observation: events that some sweep's window contained
    serial,   \* observation: no two emissions overlapped, and none stopped
              \* between its two saves
    steady,   \* observation: no restart, and no sweep failed
    cut       \* observation: events whose hashed time has digits that the
              \* column dropped

vars == <<now, rows, links, work, check, due, swept, serial, steady, cut>>

-----------------------------------------------------------------------------
(* An event: emitted, or edited since, in what its canonical string shows  *)
(* ("text") or in the rest of it (observation).                            *)
Content == [event : Event, at : 0..MaxTime, frac : Fraction, text : Text,
            edited : {"no", "text", "rest"}]

(* Canonicalize, without the previous hash.  It leaves out Id, ActorType   *)
(* and ActorId, and escapes nothing: where one field ends and the next     *)
(* begins does not show either.                                            *)
Canonical(row) == [at |-> row.at, frac |-> row.frac, text |-> row.text]

Digest == [at : 0..MaxTime, frac : Fraction, text : Text]

Hash == Seq(Digest)

Genesis == <<>>

Link == [prev : Hash, hash : Hash, at : 0..MaxTime]

Emission == [stage : {"stamped", "chained", "linking"}, row : Content,
             prev : Hash, hash : Hash]

(* Verifications write nothing that another one reads: one at a time.      *)
Verification == [by     : {"sweep", "demand"},
                 stage  : {"begun", "anchored", "checking"},
                 start  : Int,            \* windowStartUtc
                 end    : 0..MaxTime,     \* windowEndUtc
                 hash   : Hash,           \* computedHash
                 todo   : SUBSET Content, \* events read and not compared yet
                 passed : SUBSET Content, \* events whose hash agreed
                 ok     : BOOLEAN,        \* firstMismatch is null
                 quiet  : BOOLEAN]        \* observation: no emission meanwhile

Idle == [stage |-> "idle"]

Absent == [event |-> NoEvent]

TypeOK ==
    /\ now \in 0..MaxTime
    /\ rows \in [Event -> Content \cup {Absent}]
    /\ links \in [Event -> Link \cup {Absent}]
    /\ work \in [Worker -> Emission \cup {Idle}]
    /\ check \in Verification \cup {Idle}
    /\ due \in Nat
    /\ swept \subseteq Event
    /\ serial \in BOOLEAN
    /\ steady \in BOOLEAN
    /\ cut \subseteq Event

(* The service sweeps when it starts. *)
Init ==
    /\ now = 0
    /\ rows = [e \in Event |-> Absent]
    /\ links = [e \in Event |-> Absent]
    /\ work = [w \in Worker |-> Idle]
    /\ check = Idle
    /\ due = 0
    /\ swept = {}
    /\ serial = TRUE
    /\ steady = TRUE
    /\ cut = {}

Saved(e)  == rows[e] # Absent
Linked(e) == links[e] # Absent

-----------------------------------------------------------------------------
(* Time and failures.                                                      *)

Checking(stage) == check # Idle /\ check.stage = stage

Sweeping == check # Idle /\ check.by = "sweep"

(* Emissions and sweeps end within their bounds, a delay when it is due.   *)
Tick ==
    /\ now < MaxTime
    /\ \A w \in Worker : work[w] # Idle => now < work[w].row.at + EmitTime
    /\ IF Sweeping THEN now < check.end + SweepTime ELSE now < due
    /\ now' = now + 1
    /\ UNCHANGED <<rows, links, work, check, due, swept, serial, steady, cut>>

(* The process restarts and sweeps at once. *)
Crash ==
    /\ check # Idle \/ \E w \in Worker : work[w] # Idle
    /\ work' = [w \in Worker |-> Idle]
    /\ check' = Idle
    /\ due' = now
    /\ serial' = (serial /\ \A w \in Worker : work[w] # Idle => work[w].stage # "linking")
    /\ steady' = FALSE
    /\ UNCHANGED <<now, rows, links, swept, cut>>

(* Someone edits a stored event past the append-only trigger: a field that *)
(* is hashed, so that the joined text reads differently, or what the       *)
(* canonical string does not show (the actor; a '|' moved from one field   *)
(* to the next).  One edit is the bound; CreatedAt, Id and whole rows stay *)
(* as they are.                                                            *)
Alter(e) ==
    /\ Saved(e)
    /\ \A d \in Event : Saved(d) => rows[d].edited = "no"
    /\ \/ \E t \in Text \ {rows[e].text} :
            rows' = [rows EXCEPT ![e].text = t, ![e].edited = "text"]
       \/ rows' = [rows EXCEPT ![e].edited = "rest"]
    /\ UNCHANGED <<now, links, work, check, due, swept, serial, steady, cut>>

-----------------------------------------------------------------------------
(* PersistentAuditEventSink.EmitAsync.                                     *)

AtStage(w, stage) == work[w] # Idle /\ work[w].stage = stage

(* The caller builds the descriptor.  An emission takes four round trips   *)
(* to the database, so one that starts after another has ended has a later *)
(* time.                                                                   *)
StampEvent(w, e) ==
    /\ work[w] = Idle
    /\ ~Saved(e) /\ \A v \in Worker : work[v] # Idle => work[v].row.event # e
    /\ \A d \in Event : Linked(d) => links[d].at < now
    /\ \E f \in Fraction :
         work' = [work EXCEPT ![w] =
                    [stage |-> "stamped",
                     row |-> [event |-> e, at |-> now, frac |-> f, text |-> Reads[e],
                              edited |-> "no"],
                     prev |-> Genesis, hash |-> Genesis]]
    /\ serial' = (serial /\ \A v \in Worker : work[v] = Idle)
    /\ check' = IF check = Idle THEN Idle ELSE [check EXCEPT !.quiet = FALSE]
    /\ UNCHANGED <<now, rows, links, due, swept, steady, cut>>

(* The newest of a set of links, whichever it is among equals. *)
Newest(S) == {d \in S : \A g \in S : links[g].at <= links[d].at}

HeadsOf(S) == IF S = {} THEN {Genesis} ELSE {links[d].hash : d \in Newest(S)}

(* Variant: the head is taken from the emissions in progress too. *)
Heads_Uncommitted ==
    HeadsOf({d \in Event : Linked(d)})
        \cup {work[v].hash : v \in {u \in Worker : AtStage(u, "linking")}}

Heads == HeadsOf({d \in Event : Linked(d)})

(* Variant: the event's metadata is left out of the canonical string. *)
Extend_NoText(hash, row) ==
    Append(hash, [Canonical(row) EXCEPT !.text = CHOOSE t \in Text : TRUE])

(* Variant: the previous hash is left out of the canonical string. *)
Extend_Alone(hash, row) == <<Canonical(row)>>

(* ComputeSha256Hex(Canonicalize(event, previous)) *)
Extend(hash, row) == Append(hash, Canonical(row))

ChainEvent(w) ==
    /\ AtStage(w, "stamped")
    /\ \E h \in Heads :
         work' = [work EXCEPT ![w].stage = "chained", ![w].prev = h,
                              ![w].hash = Extend(h, work[w].row)]
    /\ UNCHANGED <<now, rows, links, check, due, swept, serial, steady, cut>>

(* Variant: the column rounds up. *)
Stored_RoundedUp(row) == [row EXCEPT !.at = row.at + 1, !.frac = 0]

(* A timestamp column keeps microseconds. *)
Stored(row) == [row EXCEPT !.frac = 0]

SaveEvent(w) ==
    /\ AtStage(w, "chained")
    /\ rows' = [rows EXCEPT ![work[w].row.event] = Stored(work[w].row)]
    /\ cut' = IF work[w].row.frac = 0 THEN cut ELSE cut \cup {work[w].row.event}
    /\ work' = [work EXCEPT ![w].stage = "linking"]
    /\ UNCHANGED <<now, links, check, due, swept, serial, steady>>

SaveLink(w) ==
    /\ AtStage(w, "linking")
    /\ links' = [links EXCEPT ![work[w].row.event] =
                   [prev |-> work[w].prev, hash |-> work[w].hash, at |-> work[w].row.at]]
    /\ work' = [work EXCEPT ![w] = Idle]
    /\ UNCHANGED <<now, rows, check, due, swept, serial, steady, cut>>

(* A save fails and the exception goes to the caller. *)
EmitFails(w) ==
    /\ AtStage(w, "chained") \/ AtStage(w, "linking")
    /\ work' = [work EXCEPT ![w] = Idle]
    /\ serial' = (serial /\ ~AtStage(w, "linking"))
    /\ UNCHANGED <<now, rows, links, check, due, swept, steady, cut>>

-----------------------------------------------------------------------------
(* AuditVerifierService.VerifyAsync over a window that ends now.           *)

Verify(by, start) ==
    /\ check = Idle
    /\ check' = [by |-> by, stage |-> "begun", start |-> start, end |-> now,
                 hash |-> Genesis, todo |-> {}, passed |-> {}, ok |-> TRUE,
                 quiet |-> \A w \in Worker : work[w] = Idle]
    /\ UNCHANGED <<now, rows, links, work, due, swept, serial, steady, cut>>

(* Variant: OverlapMinutes is not used. *)
SweepStart_NoOverlap == now - Window

SweepStart == now - (Window + Overlap)

BeginSweep == now = due /\ Verify("sweep", SweepStart)

VerifyOnDemand == \E days \in Days : Verify("demand", now - days)

(* Variant: the chain is recomputed from its beginning. *)
Anchors_Genesis(start) == {Genesis}

(* The newest link up to and including the start of the window. *)
Anchors(start) == HeadsOf({d \in Event : Linked(d) /\ links[d].at <= start})

ReadAnchor ==
    /\ Checking("begun")
    /\ \E h \in Anchors(check.start) :
         check' = [check EXCEPT !.stage = "anchored", !.hash = h]
    /\ UNCHANGED <<now, rows, links, work, due, swept, serial, steady, cut>>

InWindow(e) == Saved(e) /\ check.start <= rows[e].at /\ rows[e].at <= check.end

ReadEvents ==
    LET read == {e \in Event : InWindow(e)}
    IN  /\ Checking("anchored")
        /\ check' = [check EXCEPT !.stage = "checking", !.todo = {rows[e] : e \in read}]
        /\ swept' = IF Sweeping THEN swept \cup read ELSE swept
        /\ UNCHANGED <<now, rows, links, work, due, serial, steady, cut>>

Agrees(e, expected) == Linked(e) /\ links[e].hash = expected

(* The next event in order of CreatedAt (any among equals) is compared;    *)
(* the first that disagrees ends the loop.                                 *)
CompareEvent ==
    /\ Checking("checking")
    /\ \E row \in check.todo :
         LET expected == Extend(check.hash, row)
         IN  /\ \A other \in check.todo : row.at <= other.at
             /\ check' = IF Agrees(row.event, expected)
                         THEN [check EXCEPT !.hash = expected, !.todo = @ \ {row},
                                            !.passed = @ \cup {row}]
                         ELSE [check EXCEPT !.hash = expected, !.todo = {}, !.ok = FALSE]
    /\ UNCHANGED <<now, rows, links, work, due, swept, serial, steady, cut>>

(* The sweep waits SweepHours from the end of its run. *)
EndRun ==
    /\ check' = Idle
    /\ due' = IF Sweeping THEN now + Every ELSE due
    /\ UNCHANGED <<now, rows, links, work, swept, serial, cut>>

Finished == Checking("checking") /\ check.todo = {}

(* The run's row and its digest are written; nothing reads them again but  *)
(* the status page.                                                        *)
StoreRun == Finished /\ EndRun /\ UNCHANGED steady

(* A query or the save fails: the sweep logs it and goes on to its delay,  *)
(* the endpoint answers 500.                                               *)
VerifyFails ==
    /\ check # Idle
    /\ EndRun
    /\ steady' = (steady /\ ~Sweeping)

-----------------------------------------------------------------------------
Emit(w) ==
    \/ \E e \in Event : StampEvent(w, e)
    \/ ChainEvent(w) \/ SaveEvent(w) \/ SaveLink(w) \/ EmitFails(w)

Next ==
    \/ Tick \/ Crash
    \/ \E e \in Event : Alter(e)
    \/ \E w \in Worker : Emit(w)
    \/ BeginSweep \/ VerifyOnDemand
    \/ ReadAnchor \/ ReadEvents \/ CompareEvent \/ StoreRun \/ VerifyFails

Spec == Init /\ [][Next]_vars

-----------------------------------------------------------------------------
(* Properties.                                                             *)

(* Whatever overlaps or stops half-way, the trail hangs together: every     *)
(* link continues one that was saved, or begins the chain.                  *)
EveryLinkAnchored ==
    \A e \in Event : Linked(e) =>
        links[e].prev = Genesis \/ \E d \in Event : Linked(d) /\ links[d].hash = links[e].prev

(* An event whose hashed text was altered is never inside a verification    *)
(* that reports success, unless it was altered after the verification had   *)
(* read it, and wherever in a chain it stands, forked or not.  This is all  *)
(* that the hash shows: an edit of the rest of an event passes.             *)
AlterationIsReported ==
    Finished /\ check.ok => \A row \in check.passed : row.edited # "text"

(* Success means one unbroken chain: the events of the window are linked,   *)
(* no two of them continue the same hash (concurrent emissions fork the     *)
(* chain), and all but the first continue another event of the window.      *)
(* The verifier never looks at PreviousHash.                                *)
SuccessMeansOneChain ==
    Finished /\ check.ok =>
        LET chain == {row.event : row \in check.passed}
        IN  /\ \A e \in chain : Linked(e)
            /\ \A d, e \in chain : links[d].prev = links[e].prev => d = e
            /\ Cardinality({e \in chain :
                    ~\E d \in chain : links[d].hash = links[e].prev}) <= 1

(* Emissions came one after the other, none during the verification, no     *)
(* text was altered, and no event stands exactly at the start of the window *)
(* (such an event is anchor and content at once).                           *)
Undisturbed ==
    /\ serial /\ Finished /\ check.quiet
    /\ \A e \in Event : Saved(e) => rows[e].edited # "text" /\ rows[e].at # check.start

(* A chain that nothing disturbed is found intact exactly when the column   *)
(* kept every digit of the times in the window: anchor, order and replay of *)
(* the verifier fit the sink, and the time's resolution is all that can     *)
(* make it report an event that nobody touched.                             *)
IntactChainVerifies ==
    Undisturbed => (check.ok <=> \A e \in Event : InWindow(e) => e \notin cut)

(* AuditVerificationTests: events that the sink stored verify.              *)
UntouchedChainVerifies == Undisturbed => check.ok

(* No event slips between two sweeps, although a sweep takes time and an    *)
(* event may be saved after the sweep that its CreatedAt belongs to: the    *)
(* window and its overlap cover the delay, a sweep's and an emission's      *)
(* duration (Every + SweepTime + EmitTime <= Window + Overlap).             *)
NoEventSkipped ==
    steady /\ Sweeping /\ check.stage = "checking"
        => \A e \in Event : Saved(e) /\ rows[e].at < check.start => e \in swept
=============================================================================
