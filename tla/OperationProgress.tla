------------------------- MODULE OperationProgress -------------------------
(***************************************************************************)
(* How the progress of a running operation reaches its record and the      *)
(* event log of its workflow: the stages report from several goroutines,   *)
(* durableOperationProgressReporter batches what they report               *)
(* (operation_progress.go), mutateOperation folds a batch into the record  *)
(* and appends the events that changed (module.go, continuation.go,        *)
(* release_workflow_durability.go), and runOperation closes the reporter   *)
(* before completeOperation publishes the outcome.                         *)
(*                                                                         *)
(* Abstractions.  One operation, in one process that keeps its authority;  *)
(* of an item only its status; labels, messages and counts are left out.   *)
(* The events of one transaction are a set: each is of another item.       *)
(***************************************************************************)
EXTENDS Naturals, Sequences, FiniteSets

CONSTANTS
    Reporter,   \* the goroutines of the stages
    MaxItem,    \* items, in the order of their sort key
    Stride,     \* event keys set aside for one sequence of the record (1000)
    Reported,   \* the statuses that the stages report
    MaxReports, \* reports in all
    MaxLost,    \* writes of the reporter that fail
    None

Item == 1 .. MaxItem

\* progressStatusRank of the statuses that operationItemStatus can return.
Rank ==
    [queued |-> 1, running |-> 2, completed |-> 3, skipped |-> 3,
     failed |-> 4, canceled |-> 4, blocked |-> 4, interrupted |-> 4]

Statuses == DOMAIN Rank

\* isTerminalProgressStatus
IsTerminal(status) == status \notin {"queued", "running"}

Updates == [item : Item, status : Statuses]

Closer == "closer"
Timer == "timer"
Actors == Reporter \cup {Closer, Timer}

ASSUME ProgressAssumption ==
    /\ MaxItem \in Nat /\ MaxReports \in Nat /\ MaxLost \in Nat
    /\ Stride \in Nat /\ MaxItem < Stride
    /\ Reported \subseteq Statuses
    /\ Reporter \cap {Closer, Timer} = {} /\ None \notin Statuses

\* A batch on its way: in the hands of who waits for flushMu with mu held, or of
\* who has flushMu and saves the record and then appends the events.
Waiting == [by : Actors, batch : Seq(Updates)]
Flushing == [by : Actors, batch : Seq(Updates), before : [Item -> Statuses \cup {None}],
             stage : {"save", "append"}]

ASSUME NoneAssumption == None \notin Waiting /\ None \notin Flushing

\* item 0 stands for the operation itself.
Events == [key : Nat, item : Item \cup {0}, status : Statuses]

VARIABLES
    pending,    \* updates not handed to a flush
    due,        \* the interval since the last flush is over
    timer,      \* r.timer is set: none, armed, or fired
    goroutines, \* timers that fired and have not run
    closed,     \* r.closed
    mu,         \* who waits for flushMu with mu held, or None
    flushing,   \* who has flushMu, or None
    items,      \* the items of the record
    sequence,   \* the sequence of the record
    outcome,    \* the terminal status of the record, or None
    log,        \* release_workflow_events, by the transaction that appended them
    lost,       \* failed writes so far
    accepted    \* history: every update that was accepted

reporter == <<pending, due, timer, goroutines, closed>>
record == <<items, sequence, outcome>>
vars == <<reporter, mu, flushing, record, log, lost, accepted>>

TypeOK ==
    /\ pending \in Seq(Updates) /\ accepted \in Seq(Updates)
    /\ due \in BOOLEAN /\ closed \in BOOLEAN
    /\ timer \in {"none", "armed", "fired"}
    /\ goroutines \in Nat /\ lost \in Nat /\ sequence \in Nat
    /\ mu \in Waiting \cup {None} /\ flushing \in Flushing \cup {None}
    /\ items \in [Item -> Statuses \cup {None}]
    /\ outcome \in Statuses \cup {None}
    /\ log \in Seq(SUBSET Events)

Init ==
    /\ pending = <<>> /\ accepted = <<>>
    /\ due = TRUE /\ closed = FALSE
    /\ timer = "none" /\ goroutines = 0 /\ lost = 0
    /\ mu = None /\ flushing = None
    /\ items = [i \in Item |-> None]
    /\ sequence = 1 /\ outcome = None
    /\ log = <<>>

-----------------------------------------------------------------------------
(* The record and its events.                                              *)

\* A finished item does not run again, and a worse status is kept.
Settled(old, new) ==
    IF old # None /\ ((IsTerminal(old) /\ ~IsTerminal(new)) \/ Rank[old] > Rank[new])
    THEN old
    ELSE new

\* applyWorkflowProgress
ApplyProgress(it, update) ==
    [it EXCEPT ![update.item] = Settled(@, update.status)]

ApplyAll(it, batch) ==
    LET after[n \in 0 .. Len(batch)] ==
          IF n = 0 THEN it ELSE ApplyProgress(after[n - 1], batch[n])
    IN  after[Len(batch)]

\* Mutant: the key of an item leaves out the sequence of the record.
EventKey_Index(seq, index) == index

\* The source sequence in projectOperationEvents.
EventKey(seq, index) == seq * Stride + index

\* Its items are sorted, and numbered from one.
IndexOf(it, i) == Cardinality({j \in Item : j <= i /\ it[j] # None})

\* projectOperationEventChanges
Changes(before, after, seq) ==
    {[key |-> EventKey(seq, IndexOf(after, i)), item |-> i, status |-> after[i]] :
        i \in {j \in Item : after[j] # None /\ after[j] # before[j]}}

\* AppendReleaseWorkflowEvents drops an event whose key it has.
AppendEvents(events) ==
    LET known == {event.key : event \in UNION {log[n] : n \in 1 .. Len(log)}}
        new == {event \in events : event.key \notin known}
    IN  log' = IF new = {} THEN log ELSE Append(log, new)

-----------------------------------------------------------------------------
(* The reporter.                                                           *)

\* Who is inside Report, flush or Close.
Inside == {x.by : x \in {mu, flushing} \ {None}}

\* Mutant: a fired timer is left in r.timer.
FlushLocked_KeepsTimer(by, batch) ==
    /\ pending' = <<>>
    /\ due' = (due /\ batch = <<>>)
    /\ mu' = [by |-> by, batch |-> batch]
    /\ UNCHANGED timer

\* flushLocked up to flushMu.Lock.  A timer that has fired cannot be stopped.
FlushLocked(by, batch) ==
    /\ pending' = <<>>
    /\ due' = (due /\ batch = <<>>)
    /\ mu' = [by |-> by, batch |-> batch]
    /\ timer' = "none"

Report(r, update) ==
    /\ mu = None /\ ~closed /\ r \notin Inside
    /\ Len(accepted) < MaxReports /\ update.status \in Reported
    /\ accepted' = Append(accepted, update)
    /\ IF due \/ IsTerminal(update.status)
       THEN FlushLocked(r, Append(pending, update))
       ELSE /\ pending' = Append(pending, update)
            /\ timer' = IF timer = "none" THEN "armed" ELSE timer
            /\ UNCHANGED <<due, mu>>
    /\ UNCHANGED <<goroutines, closed, flushing, record, log, lost>>

\* The interval passes; time.AfterFunc starts the goroutine of an armed timer.
Elapse ==
    /\ ~due \/ timer = "armed"
    /\ due' = TRUE
    /\ IF timer = "armed"
       THEN timer' = "fired" /\ goroutines' = goroutines + 1
       ELSE UNCHANGED <<timer, goroutines>>
    /\ UNCHANGED <<pending, closed, mu, flushing, record, log, lost, accepted>>

\* flush
Flush ==
    /\ goroutines > 0 /\ mu = None
    /\ goroutines' = goroutines - 1
    /\ IF closed \/ pending = <<>>
       THEN timer' = "none" /\ UNCHANGED <<pending, due, mu>>
       ELSE FlushLocked(Timer, pending)
    /\ UNCHANGED <<closed, flushing, record, log, lost, accepted>>

\* Mutant: what is pending is dropped.
Close_Drops ==
    /\ mu = None /\ ~closed
    /\ closed' = TRUE
    /\ FlushLocked(Closer, <<>>)
    /\ UNCHANGED <<goroutines, flushing, record, log, lost, accepted>>

Close ==
    /\ mu = None /\ ~closed
    /\ closed' = TRUE
    /\ FlushLocked(Closer, pending)
    /\ UNCHANGED <<goroutines, flushing, record, log, lost, accepted>>

\* Mutant: an empty batch does not wait for the flush before it.
TakeFlush_Overtakes ==
    /\ mu # None
    /\ \/ /\ flushing = None /\ mu.batch # <<>>
          /\ flushing' = [by |-> mu.by, batch |-> mu.batch, before |-> items, stage |-> "save"]
       \/ mu.batch = <<>> /\ UNCHANGED flushing
    /\ mu' = None
    /\ UNCHANGED <<reporter, record, log, lost, accepted>>

\* flushMu is taken and mu released; an empty batch gives flushMu back.
TakeFlush ==
    /\ mu # None /\ flushing = None
    /\ mu' = None
    /\ flushing' = IF mu.batch = <<>> THEN None
                   ELSE [by |-> mu.by, batch |-> mu.batch, before |-> items, stage |-> "save"]
    /\ UNCHANGED <<reporter, record, log, lost, accepted>>

\* persist: mutateOperation under the operation lock; errors are dropped.
Save ==
    /\ flushing # None /\ flushing.stage = "save"
    /\ items' = ApplyAll(items, flushing.batch)
    /\ sequence' = sequence + 1
    /\ flushing' = [flushing EXCEPT !.stage = "append"]
    /\ UNCHANGED <<reporter, mu, outcome, log, lost, accepted>>

AppendChanges ==
    /\ flushing # None /\ flushing.stage = "append"
    /\ AppendEvents(Changes(flushing.before, items, sequence))
    /\ flushing' = None
    /\ UNCHANGED <<reporter, mu, record, lost, accepted>>

\* Mutant: a panic of the write leaves flushMu locked.
LoseWrite_KeepsLock ==
    /\ flushing # None /\ lost < MaxLost
    /\ lost' = lost + 1
    /\ flushing' = [flushing EXCEPT !.stage = "panicked"]
    /\ UNCHANGED <<reporter, mu, record, log, accepted>>

\* The write fails or panics; persist recovers.
LoseWrite ==
    /\ flushing # None /\ lost < MaxLost
    /\ lost' = lost + 1
    /\ flushing' = None
    /\ UNCHANGED <<reporter, mu, record, log, accepted>>

\* completeOperation, after Close has returned.
Complete ==
    /\ closed /\ Closer \notin Inside /\ outcome = None
    /\ outcome' \in {"completed", "failed", "canceled"}
    /\ sequence' = sequence + 1
    /\ AppendEvents({[key |-> EventKey(sequence', 0), item |-> 0, status |-> outcome']})
    /\ UNCHANGED <<reporter, mu, flushing, items, lost, accepted>>

FlushStep == TakeFlush \/ Save \/ AppendChanges

Next ==
    \/ \E r \in Reporter, update \in Updates : Report(r, update)
    \/ Elapse \/ Flush \/ Close \/ FlushStep \/ LoseWrite \/ Complete

Spec == Init /\ [][Next]_vars

\* The clock advances and goroutines run; the command may run for ever.
FairSpec == Spec /\ WF_vars(Elapse) /\ WF_vars(Flush) /\ WF_vars(FlushStep)

-----------------------------------------------------------------------------
(* Properties.                                                             *)

\* Once Close has returned, every update that was accepted is in the record, in
\* the order in which it was accepted, unless a write failed.
AcceptedIsPersisted ==
    closed /\ Closer \notin Inside /\ lost = 0
    => items = ApplyAll([i \in Item |-> None], accepted)

\* Nothing is written after the outcome of the operation: no flush that a timer
\* or a stage began before Close is still under way.
OutcomeIsLast == [][outcome # None => UNCHANGED <<record, log>>]_vars

\* What a client that follows the events knows of an item.
LastEvent(i) ==
    LET known == {n \in 1 .. Len(log) : \E event \in log[n] : event.item = i}
        last == CHOOSE n \in known : \A m \in known : m <= n
    IN  IF known = {} THEN None ELSE (CHOOSE event \in log[last] : event.item = i).status

\* A client that follows the events ends with the items of the record, unless a
\* write failed or is under way.
EventsMatchRecord ==
    flushing = None /\ lost = 0 => \A i \in Item : LastEvent(i) = items[i]

\* Whatever is reported is handed to a flush, even when nothing else is.
PendingIsFlushed == [](pending # <<>> => <>(pending = <<>>))

\* Close returns: mu and flushMu cannot block each other.
CloseReturns == [](Closer \in Inside => <>(Closer \notin Inside))
=============================================================================
