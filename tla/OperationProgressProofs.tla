----------------------- MODULE OperationProgressProofs -----------------------
(***************************************************************************)
(* Proofs about OperationProgress: once the reporter is closed the record  *)
(* has every update that was accepted, in order, nothing is written after  *)
(* the outcome, and a client that follows the events ends with the items   *)
(* of the record.  They hold for any stages, items, statuses and number of *)
(* reports; where a write may fail, they say nothing of what was lost.     *)
(***************************************************************************)
EXTENDS OperationProgress, FiniteSetTheorems, SequenceTheorems, WellFoundedInduction, TLAPS

-----------------------------------------------------------------------------
(* Updates one after the other.                                            *)

\* A set of numbers has a least one.
LEMMA Least ==
    ASSUME NEW T \in SUBSET Nat, T # {} PROVE \E m \in T : \A n \in T : m <= n
<1>1. PICK m \in T : \A n \in T : ~ (<<n, m>> \in OpToRel(<, Nat))
    BY WFMin, NatLessThanWellFounded
<1>2. ASSUME NEW n \in T, n < m PROVE FALSE
    BY <1>1, <1>2 DEF OpToRel
<1>3. \A n \in T : m <= n BY <1>2
<1> QED BY <1>3

Items == [Item -> Statuses \cup {None}]

\* f has the items after each of the first k updates of a batch.
Follows(it, batch, k, f) ==
    f[0] = it /\ \A n \in 1 .. k : f[n] = ApplyProgress(f[n - 1], batch[n])

\* The recursive function of ApplyAll.
IsAfter(it, batch, k, f) ==
    f = [n \in 0 .. k |-> IF n = 0 THEN it ELSE ApplyProgress(f[n - 1], batch[n])]

LEMMA AfterExists ==
    ASSUME NEW it, NEW batch \in Seq(Updates), NEW k \in Nat
    PROVE  \E f : IsAfter(it, batch, k, f)
<1> DEFINE T == {m \in Nat : ~ \E f : IsAfter(it, batch, m, f)}
<1>1. SUFFICES ASSUME T # {} PROVE FALSE OBVIOUS
<1>2. PICK m \in T : \A n \in T : m <= n
    <2> HIDE DEF T
    <2>1. T \in SUBSET Nat BY DEF T
    <2> QED BY <1>1, <2>1, Least
<1>3. m # 0
    <2>1. IsAfter(it, batch, 0, [n \in 0 .. 0 |-> it]) BY DEF IsAfter
    <2> QED BY <2>1
<1>4. m - 1 \in Nat /\ m - 1 \notin T BY <1>2, <1>3
<1>5. PICK g : IsAfter(it, batch, m - 1, g) BY <1>4
<1> DEFINE f == [n \in 0 .. m |-> IF n = m THEN ApplyProgress(g[m - 1], batch[m]) ELSE g[n]]
<1>6. IsAfter(it, batch, m, f)
    <2>1. ASSUME NEW n \in 0 .. m
          PROVE  f[n] = IF n = 0 THEN it ELSE ApplyProgress(f[n - 1], batch[n])
        <3>1. CASE n = m
            <4>1. f[n - 1] = g[m - 1] /\ f[n] = ApplyProgress(g[m - 1], batch[m])
                BY <1>3, <3>1
            <4> QED BY <1>3, <3>1, <4>1
        <3>2. CASE n # m
            <4>1. n \in 0 .. (m - 1) /\ f[n] = g[n] BY <3>2
            <4>2. g[n] = IF n = 0 THEN it ELSE ApplyProgress(g[n - 1], batch[n])
                BY <1>5, <4>1 DEF IsAfter
            <4>3. n # 0 => f[n - 1] = g[n - 1] BY <4>1
            <4> HIDE DEF f
            <4> QED BY <4>1, <4>2, <4>3
        <3> QED BY <3>1, <3>2
    <2>2. f = [n \in 0 .. m |-> f[n]] OBVIOUS
    <2> HIDE DEF f
    <2> QED BY <2>1, <2>2 DEF IsAfter
<1> HIDE DEF f
<1> QED BY <1>6

\* ApplyAll follows its batch to the end.
LEMMA ApplyAllFollows ==
    ASSUME NEW it, NEW batch \in Seq(Updates)
    PROVE  \E f : Follows(it, batch, Len(batch), f) /\ ApplyAll(it, batch) = f[Len(batch)]
<1> DEFINE k == Len(batch)
           f == CHOOSE g : IsAfter(it, batch, k, g)
<1>1. k \in Nat OBVIOUS
<1>2. IsAfter(it, batch, k, f) BY <1>1, AfterExists
<1>3. ApplyAll(it, batch) = f[k] BY DEF ApplyAll, IsAfter
<1> HIDE DEF f, k
<1>4. Follows(it, batch, k, f) BY <1>1, <1>2 DEF IsAfter, Follows
<1> QED BY <1>3, <1>4 DEF k

\* And nothing else does.
LEMMA FollowsUnique ==
    ASSUME NEW it, NEW batch, NEW k \in Nat, NEW f, NEW g,
           Follows(it, batch, k, f), Follows(it, batch, k, g)
    PROVE  f[k] = g[k]
<1> DEFINE T == {m \in 0 .. k : f[m] # g[m]}
<1>1. SUFFICES ASSUME T # {} PROVE FALSE OBVIOUS
<1>2. PICK m \in T : \A n \in T : m <= n
    <2> HIDE DEF T
    <2>1. T \in SUBSET Nat BY DEF T
    <2> QED BY <1>1, <2>1, Least
<1>3. m # 0 BY DEF Follows
<1>4. m \in 1 .. k /\ m - 1 \in 0 .. k /\ m - 1 \notin T BY <1>2, <1>3
<1>5. f[m - 1] = g[m - 1] BY <1>4
<1> QED BY <1>4, <1>5 DEF Follows

\* No update leaves the items as they are.
LEMMA ApplyAllEmpty == ASSUME NEW it PROVE ApplyAll(it, <<>>) = it
<1>1. <<>> \in Seq(Updates) /\ Len(<<>>) = 0 OBVIOUS
<1>2. PICK f : Follows(it, <<>>, 0, f) /\ ApplyAll(it, <<>>) = f[0]
    BY <1>1, ApplyAllFollows
<1> QED BY <1>2 DEF Follows

\* One more update is applied to what the others have left.
LEMMA ApplyAllAppend ==
    ASSUME NEW it, NEW batch \in Seq(Updates), NEW u \in Updates
    PROVE  ApplyAll(it, Append(batch, u)) = ApplyProgress(ApplyAll(it, batch), u)
<1> DEFINE k == Len(batch)
           more == Append(batch, u)
<1>1. k \in Nat /\ more \in Seq(Updates) /\ Len(more) = k + 1 /\ more[k + 1] = u
      /\ \A n \in 1 .. k : more[n] = batch[n]
    BY AppendProperties
<1>2. PICK f : Follows(it, batch, k, f) /\ ApplyAll(it, batch) = f[k] BY ApplyAllFollows
<1> HIDE DEF k, more
<1>3. PICK g : Follows(it, more, k + 1, g) /\ ApplyAll(it, more) = g[k + 1]
    BY <1>1, ApplyAllFollows
<1>4. Follows(it, batch, k, g) BY <1>1, <1>3 DEF Follows
<1>5. g[k] = f[k] BY <1>1, <1>2, <1>4, FollowsUnique
<1>6. g[k + 1] = ApplyProgress(g[k], u)
    <2>1. k + 1 \in 1 .. (k + 1) /\ (k + 1) - 1 = k BY <1>1
    <2> QED BY <1>1, <1>3, <2>1 DEF Follows
<1> QED BY <1>2, <1>3, <1>5, <1>6 DEF more

\* The items stay items, and none is taken away.
LEMMA ApplyAllType ==
    ASSUME NEW it \in Items, NEW batch \in Seq(Updates)
    PROVE  /\ ApplyAll(it, batch) \in Items
           /\ \A i \in Item : ApplyAll(it, batch)[i] = None => it[i] = None
<1> DEFINE Good(x) == x \in Items /\ \A i \in Item : x[i] = None => it[i] = None
           k == Len(batch)
<1>1. k \in Nat OBVIOUS
<1>2. PICK f : Follows(it, batch, k, f) /\ ApplyAll(it, batch) = f[k] BY ApplyAllFollows
<1>3. ASSUME NEW x, Good(x), NEW u \in Updates PROVE Good(ApplyProgress(x, u))
    <2> DEFINE s == Settled(x[u.item], u.status)
    <2>1. u.item \in Item /\ u.status \in Statuses /\ x \in Items BY <1>3 DEF Updates
    <2>2. s \in Statuses
        <3>1. x[u.item] \in Statuses \cup {None} BY <2>1 DEF Items
        <3> QED BY <2>1, <3>1 DEF Settled
    <2>3. ApplyProgress(x, u) = [x EXCEPT ![u.item] = s] BY DEF ApplyProgress
    <2> HIDE DEF s
    <2>4. None \notin Statuses BY ProgressAssumption
    <2> QED BY <1>3, <2>1, <2>2, <2>3, <2>4 DEF Items
<1> DEFINE T == {m \in 0 .. k : ~Good(f[m])}
<1>4. T = {}
    <2>1. SUFFICES ASSUME T # {} PROVE FALSE OBVIOUS
    <2>2. PICK m \in T : \A n \in T : m <= n
        <3> HIDE DEF T
        <3>1. T \in SUBSET Nat BY <1>1 DEF T
        <3> QED BY <2>1, <3>1, Least
    <2>3. m # 0 BY <1>2 DEF Follows
    <2>4. m \in 1 .. k /\ m - 1 \in 0 .. k /\ m - 1 \notin T BY <1>1, <2>2, <2>3
    <2>5. Good(f[m - 1]) BY <2>4
    <2>6. batch[m] \in Updates BY <2>4
    <2> HIDE DEF Good
    <2>7. Good(ApplyProgress(f[m - 1], batch[m])) BY <1>3, <2>5, <2>6
    <2>8. f[m] = ApplyProgress(f[m - 1], batch[m]) BY <1>2, <2>4 DEF Follows
    <2> QED BY <2>2, <2>7, <2>8
<1>5. Good(f[k]) BY <1>1, <1>4
<1> QED BY <1>2, <1>5

-----------------------------------------------------------------------------
(* The invariant.                                                          *)

\* The batch that is handed to a flush, and the one that is being saved.
Handed == IF mu # None THEN mu.batch ELSE <<>>
Unsaved == IF flushing # None /\ flushing.stage = "save" THEN flushing.batch ELSE <<>>

Appending == flushing # None /\ flushing.stage = "append"

\* What was accepted is what the record has and what is still on its way to it,
\* in this order.
PersistOK ==
    lost = 0 =>
    ApplyAll([i \in Item |-> None], accepted)
        = ApplyAll(ApplyAll(ApplyAll(items, Unsaved), Handed), pending)

\* Close is the last to take the locks, and has done so when it returns.
CloseOK ==
    closed => /\ pending = <<>>
              /\ mu # None => mu.by = Closer
              /\ mu = None => flushing = None \/ flushing.by = Closer

\* The outcome is recorded after it.
OutcomeOK == outcome # None => closed /\ mu = None /\ flushing = None

\* A key of the log belongs to a sequence the record has had, and to an earlier
\* one while the events of this one are not appended.
KeysOK ==
    \A n \in 1 .. Len(log) : \A event \in log[n] :
        event.key < (IF Appending THEN sequence ELSE sequence + 1) * Stride

\* Whoever flushes has seen the items before it; none of them goes away.
BeforeOK ==
    flushing # None =>
        IF flushing.stage = "save" THEN flushing.before = items
        ELSE \A i \in Item : items[i] = None => flushing.before[i] = None

\* The events tell of the items as they were before a save that has yet to append.
EventsOK ==
    lost = 0 =>
    \A i \in Item : LastEvent(i) = IF Appending THEN flushing.before[i] ELSE items[i]

ProgressInv ==
    TypeOK /\ PersistOK /\ CloseOK /\ OutcomeOK /\ KeysOK /\ BeforeOK /\ EventsOK

-----------------------------------------------------------------------------
(* Types.                                                                  *)

\* The statuses are the names of the ranks.
LEMMA StatusesAre ==
    Statuses = {"queued", "running", "completed", "skipped",
                "failed", "canceled", "blocked", "interrupted"}
BY DEF Statuses, Rank

\* The number of an item is at most that of the items.
LEMMA IndexBound ==
    ASSUME NEW it, NEW i \in Item
    PROVE  IndexOf(it, i) \in Nat /\ IndexOf(it, i) < Stride
<1> DEFINE S == {j \in Item : j <= i /\ it[j] # None}
<1>1. MaxItem \in Nat /\ Stride \in Nat /\ MaxItem < Stride BY ProgressAssumption
<1>2. IsFiniteSet(1 .. MaxItem) /\ Cardinality(1 .. MaxItem) = MaxItem
    <2>1. IF 1 > MaxItem THEN Cardinality(1 .. MaxItem) = 0
                         ELSE Cardinality(1 .. MaxItem) = MaxItem - 1 + 1
        BY <1>1, FS_Interval
    <2>2. IsFiniteSet(1 .. MaxItem) BY <1>1, FS_Interval
    <2> QED BY <1>1, <2>1, <2>2
<1>3. S \in SUBSET (1 .. MaxItem) BY DEF Item
<1> HIDE DEF S
<1>4. IsFiniteSet(S) /\ Cardinality(S) <= MaxItem
    BY <1>2, <1>3, FS_Subset
<1>5. Cardinality(S) \in Nat BY <1>4, FS_CardinalityType
<1>6. IndexOf(it, i) = Cardinality(S) BY DEF IndexOf, S
<1> QED BY <1>1, <1>4, <1>5, <1>6

\* The keys of one sequence are those from its own to the next.
LEMMA KeyBound ==
    ASSUME NEW seq \in Nat, NEW k \in Nat, k < Stride
    PROVE  /\ EventKey(seq, k) \in Nat /\ seq * Stride \in Nat
           /\ seq * Stride <= EventKey(seq, k)
           /\ EventKey(seq, k) < (seq + 1) * Stride
<1>1. Stride \in Nat BY ProgressAssumption
<1>2. seq * Stride \in Nat BY <1>1
<1>3. (seq + 1) * Stride = seq * Stride + Stride BY <1>1
<1> QED BY <1>1, <1>2, <1>3 DEF EventKey

\* The key of the outcome is the first of its sequence.
LEMMA KeyOfOutcome ==
    ASSUME NEW seq \in Nat
    PROVE  EventKey(seq, 0) \in Nat /\ EventKey(seq, 0) = seq * Stride
<1>1. Stride \in Nat BY ProgressAssumption
<1>2. seq * Stride \in Nat BY <1>1
<1> QED BY <1>2 DEF EventKey

\* An event of this sequence that says what has changed.
Describes(event, before, after, seq) ==
    /\ seq * Stride <= event.key /\ event.key < (seq + 1) * Stride
    /\ event.item \in Item /\ event.status = after[event.item]
    /\ after[event.item] # None /\ after[event.item] # before[event.item]

\* The events of a flush are events, of its sequence, one for each item that changed.
LEMMA ChangesAre ==
    ASSUME NEW before, NEW after \in Items, NEW seq \in Nat
    PROVE  /\ Changes(before, after, seq) \in SUBSET Events
           /\ \A event \in Changes(before, after, seq) : Describes(event, before, after, seq)
           /\ \A i \in Item : after[i] # None /\ after[i] # before[i]
                => \E event \in Changes(before, after, seq) : event.item = i
<1> DEFINE e(i) == [key |-> EventKey(seq, IndexOf(after, i)), item |-> i, status |-> after[i]]
<1>1. ASSUME NEW i \in Item, after[i] # None
      PROVE  /\ e(i) \in Events /\ e(i).item = i /\ e(i).status = after[i]
             /\ seq * Stride <= e(i).key /\ e(i).key < (seq + 1) * Stride
    <2> DEFINE k == IndexOf(after, i)
    <2>1. k \in Nat /\ k < Stride BY IndexBound
    <2> HIDE DEF k
    <2>2. EventKey(seq, k) \in Nat /\ seq * Stride <= EventKey(seq, k)
          /\ EventKey(seq, k) < (seq + 1) * Stride
        BY <2>1, KeyBound
    <2>3. after[i] \in Statuses BY <1>1 DEF Items
    <2>4. e(i) = [key |-> EventKey(seq, k), item |-> i, status |-> after[i]] BY DEF k
    <2> HIDE DEF e
    <2> QED BY <2>2, <2>3, <2>4 DEF Events
<1>2. Changes(before, after, seq) = {e(i) : i \in {j \in Item : after[j] # None /\ after[j] # before[j]}}
    BY DEF Changes
<1> HIDE DEF e
<1>3. ASSUME NEW i \in Item, after[i] # None, after[i] # before[i]
      PROVE  Describes(e(i), before, after, seq)
    BY <1>1, <1>3 DEF Describes
<1> QED BY <1>1, <1>2, <1>3

\* What the log becomes.
LEMMA AppendType ==
    ASSUME NEW events \in SUBSET Events, log \in Seq(SUBSET Events), AppendEvents(events)
    PROVE  log' \in Seq(SUBSET Events)
<1> DEFINE known == {event.key : event \in UNION {log[n] : n \in 1 .. Len(log)}}
           new == {event \in events : event.key \notin known}
<1>1. log' = IF new = {} THEN log ELSE Append(log, new) BY DEF AppendEvents
<1>2. new \in SUBSET Events OBVIOUS
<1> HIDE DEF new
<1> QED BY <1>1, <1>2, AppendProperties

\* What FlushLocked does to the reporter, for whoever calls it.
LEMMA FlushLockedType ==
    ASSUME NEW by \in Actors, NEW batch \in Seq(Updates), TypeOK, FlushLocked(by, batch)
    PROVE  /\ pending' = <<>> /\ timer' = "none" /\ due' \in BOOLEAN
           /\ mu' \in Waiting /\ mu' # None /\ mu'.by = by /\ mu'.batch = batch
<1> DEFINE w == [by |-> by, batch |-> batch]
<1>1. w \in Waiting /\ w.by = by /\ w.batch = batch BY DEF Waiting
<1>2. mu' = w /\ pending' = <<>> /\ timer' = "none" /\ due' = (due /\ batch = <<>>)
    BY DEF FlushLocked
<1>3. due' \in BOOLEAN BY <1>2 DEF TypeOK
<1> HIDE DEF w
<1> QED BY <1>1, <1>2, <1>3, NoneAssumption

\* An accepted update goes to the pending ones, and with them to a flush or not.
LEMMA ReportFacts ==
    ASSUME TypeOK, NEW r \in Reporter, NEW update \in Updates, Report(r, update)
    PROVE  /\ TypeOK' /\ mu = None /\ ~closed
           /\ accepted' = Append(accepted, update)
           /\ \/ /\ mu' # None /\ mu'.by = r
                 /\ mu'.batch = Append(pending, update) /\ pending' = <<>>
              \/ mu' = None /\ pending' = Append(pending, update)
           /\ UNCHANGED <<closed, flushing, record, log, lost>>
<1>1. Append(pending, update) \in Seq(Updates) /\ Append(accepted, update) \in Seq(Updates)
    BY AppendProperties DEF TypeOK
<1>2. r \in Actors BY DEF Actors
<1>3. /\ mu = None /\ ~closed /\ accepted' = Append(accepted, update)
      /\ UNCHANGED <<goroutines, closed, flushing, record, log, lost>>
    BY DEF Report
<1>4. CASE due \/ IsTerminal(update.status)
    <2>1. FlushLocked(r, Append(pending, update)) BY <1>4 DEF Report
    <2>2. /\ pending' = <<>> /\ timer' = "none" /\ due' \in BOOLEAN
          /\ mu' \in Waiting /\ mu' # None /\ mu'.by = r /\ mu'.batch = Append(pending, update)
        BY <1>1, <1>2, <2>1, FlushLockedType
    <2>3. <<>> \in Seq(Updates) OBVIOUS
    <2> QED BY <1>1, <1>3, <2>2, <2>3 DEF TypeOK, record
<1>5. CASE ~(due \/ IsTerminal(update.status))
    <2>1. /\ pending' = Append(pending, update) /\ UNCHANGED <<due, mu>>
          /\ timer' = IF timer = "none" THEN "armed" ELSE timer
        BY <1>5 DEF Report
    <2> QED BY <1>1, <1>3, <2>1 DEF TypeOK, record
<1> QED BY <1>4, <1>5

\* Time passes without an update.
LEMMA ElapseFacts ==
    ASSUME TypeOK, Elapse
    PROVE  TypeOK' /\ UNCHANGED <<pending, closed, mu, flushing, record, log, lost, accepted>>
BY DEF TypeOK, Elapse, record

\* A timer hands over what is pending, if the reporter is open.
LEMMA FlushFacts ==
    ASSUME TypeOK, Flush
    PROVE  /\ TypeOK' /\ mu = None
           /\ \/ UNCHANGED <<pending, mu>>
              \/ /\ ~closed /\ mu' # None /\ mu'.by = Timer
                 /\ mu'.batch = pending /\ pending' = <<>>
           /\ UNCHANGED <<closed, flushing, record, log, lost, accepted>>
<1>1. /\ mu = None /\ goroutines' \in Nat
      /\ UNCHANGED <<closed, flushing, record, log, lost, accepted>>
    BY DEF Flush, TypeOK
<1>2. CASE closed \/ pending = <<>>
    <2>1. timer' = "none" /\ UNCHANGED <<pending, due, mu>> BY <1>2 DEF Flush
    <2> QED BY <1>1, <2>1 DEF TypeOK, record
<1>3. CASE ~(closed \/ pending = <<>>)
    <2>1. FlushLocked(Timer, pending) BY <1>3 DEF Flush
    <2>2. Timer \in Actors /\ pending \in Seq(Updates) BY DEF Actors, TypeOK
    <2>3. /\ pending' = <<>> /\ timer' = "none" /\ due' \in BOOLEAN
          /\ mu' \in Waiting /\ mu' # None /\ mu'.by = Timer /\ mu'.batch = pending
        BY <2>1, <2>2, FlushLockedType
    <2>4. <<>> \in Seq(Updates) OBVIOUS
    <2> QED BY <1>1, <1>3, <2>3, <2>4 DEF TypeOK, record
<1> QED BY <1>2, <1>3

\* Close hands over what is pending.
LEMMA CloseFacts ==
    ASSUME TypeOK, Close
    PROVE  /\ TypeOK' /\ mu = None /\ ~closed /\ closed' = TRUE
           /\ mu' # None /\ mu'.by = Closer /\ mu'.batch = pending /\ pending' = <<>>
           /\ UNCHANGED <<flushing, record, log, lost, accepted>>
<1>1. /\ mu = None /\ ~closed /\ closed' = TRUE /\ FlushLocked(Closer, pending)
      /\ UNCHANGED <<goroutines, flushing, record, log, lost, accepted>>
    BY DEF Close
<1>2. Closer \in Actors /\ pending \in Seq(Updates) BY DEF Actors, TypeOK
<1>3. /\ pending' = <<>> /\ timer' = "none" /\ due' \in BOOLEAN
      /\ mu' \in Waiting /\ mu' # None /\ mu'.by = Closer /\ mu'.batch = pending
    BY <1>1, <1>2, FlushLockedType
<1>4. <<>> \in Seq(Updates) OBVIOUS
<1> QED BY <1>1, <1>3, <1>4 DEF TypeOK, record

\* A batch that is handed over is saved next.
LEMMA TakeFlushFacts ==
    ASSUME TypeOK, TakeFlush
    PROVE  /\ TypeOK' /\ mu # None /\ flushing = None /\ mu' = None
           /\ \/ mu.batch = <<>> /\ flushing' = None
              \/ /\ flushing' # None /\ flushing'.by = mu.by /\ flushing'.batch = mu.batch
                 /\ flushing'.before = items /\ flushing'.stage = "save"
           /\ UNCHANGED <<reporter, record, log, lost, accepted>>
<1> DEFINE f == [by |-> mu.by, batch |-> mu.batch, before |-> items, stage |-> "save"]
<1>1. /\ mu # None /\ flushing = None /\ mu' = None
      /\ flushing' = IF mu.batch = <<>> THEN None ELSE f
      /\ UNCHANGED <<reporter, record, log, lost, accepted>>
    BY DEF TakeFlush
<1>2. f \in Flushing /\ f.by = mu.by /\ f.batch = mu.batch /\ f.before = items /\ f.stage = "save"
    <2>1. mu \in Waiting /\ items \in [Item -> Statuses \cup {None}] BY <1>1 DEF TypeOK
    <2>2. mu.by \in Actors /\ mu.batch \in Seq(Updates) BY <2>1 DEF Waiting
    <2> QED BY <2>1, <2>2 DEF Flushing
<1> HIDE DEF f
<1>3. f # None BY <1>2, NoneAssumption
<1>4. flushing' \in Flushing \cup {None} BY <1>1, <1>2
<1>5. TypeOK' BY <1>1, <1>4 DEF TypeOK, reporter, record
<1> QED BY <1>1, <1>2, <1>3, <1>5

\* The batch is in the record, and its events are not in the log.
LEMMA SaveFacts ==
    ASSUME TypeOK, Save
    PROVE  /\ TypeOK' /\ flushing # None /\ flushing.stage = "save"
           /\ flushing' # None /\ flushing'.by = flushing.by
           /\ flushing'.before = flushing.before /\ flushing'.stage = "append"
           /\ items \in Items /\ flushing.batch \in Seq(Updates)
           /\ items' = ApplyAll(items, flushing.batch) /\ sequence' = sequence + 1
           /\ UNCHANGED <<reporter, mu, outcome, log, lost, accepted>>
<1> DEFINE f == [flushing EXCEPT !.stage = "append"]
<1>1. /\ flushing # None /\ flushing.stage = "save" /\ flushing' = f
      /\ items' = ApplyAll(items, flushing.batch) /\ sequence' = sequence + 1
      /\ UNCHANGED <<reporter, mu, outcome, log, lost, accepted>>
    BY DEF Save
<1>2. flushing \in Flushing BY <1>1 DEF TypeOK
<1>3. f \in Flushing /\ f.by = flushing.by /\ f.before = flushing.before /\ f.stage = "append"
    BY <1>2 DEF Flushing
<1> HIDE DEF f
<1>4. items \in Items /\ flushing.batch \in Seq(Updates) BY <1>2 DEF TypeOK, Flushing, Items
<1>5. items' \in Items BY <1>1, <1>4, ApplyAllType
<1>6. TypeOK' BY <1>1, <1>3, <1>5 DEF TypeOK, reporter, Items
<1>7. f # None BY <1>3, NoneAssumption
<1> QED BY <1>1, <1>3, <1>4, <1>6, <1>7

\* The flush is over, and its events are in the log.
LEMMA AppendFacts ==
    ASSUME TypeOK, AppendChanges
    PROVE  /\ TypeOK' /\ flushing # None /\ flushing.stage = "append" /\ flushing' = None
           /\ items \in Items /\ sequence \in Nat
           /\ AppendEvents(Changes(flushing.before, items, sequence))
           /\ UNCHANGED <<reporter, mu, record, lost, accepted>>
<1> DEFINE events == Changes(flushing.before, items, sequence)
<1>1. /\ flushing # None /\ flushing.stage = "append" /\ flushing' = None
      /\ AppendEvents(events) /\ UNCHANGED <<reporter, mu, record, lost, accepted>>
    BY DEF AppendChanges
<1>2. items \in Items /\ sequence \in Nat /\ log \in Seq(SUBSET Events) BY DEF TypeOK, Items
<1>3. events \in SUBSET Events BY <1>2, ChangesAre
<1> HIDE DEF events
<1>4. log' \in Seq(SUBSET Events) BY <1>1, <1>2, <1>3, AppendType
<1>5. TypeOK' BY <1>1, <1>4 DEF TypeOK, reporter, record
<1> QED BY <1>1, <1>2, <1>5 DEF events

\* A write that fails ends its flush.
LEMMA LoseFacts ==
    ASSUME TypeOK, LoseWrite
    PROVE  /\ TypeOK' /\ flushing # None /\ flushing' = None /\ lost' = lost + 1 /\ lost' # 0
           /\ UNCHANGED <<reporter, mu, record, log, accepted>>
BY DEF TypeOK, LoseWrite, reporter, record

\* The outcome, and its event.
OutcomeEvent(seq, status) == [key |-> EventKey(seq, 0), item |-> 0, status |-> status]

LEMMA CompleteFacts ==
    ASSUME TypeOK, Complete
    PROVE  /\ TypeOK' /\ closed /\ Closer \notin Inside /\ outcome = None
           /\ sequence' = sequence + 1 /\ sequence' \in Nat /\ outcome' # None
           /\ OutcomeEvent(sequence', outcome') \in Events
           /\ OutcomeEvent(sequence', outcome').item = 0
           /\ OutcomeEvent(sequence', outcome').key = sequence' * Stride
           /\ AppendEvents({OutcomeEvent(sequence', outcome')})
           /\ UNCHANGED <<reporter, mu, flushing, items, lost, accepted>>
<1> DEFINE e == OutcomeEvent(sequence', outcome')
<1>1. /\ closed /\ Closer \notin Inside /\ outcome = None
      /\ outcome' \in {"completed", "failed", "canceled"}
      /\ sequence' = sequence + 1 /\ AppendEvents({e})
      /\ UNCHANGED <<reporter, mu, flushing, items, lost, accepted>>
    BY DEF Complete, OutcomeEvent
<1>2. outcome' \in Statuses /\ outcome' # None
    <2>1. outcome' \in Statuses BY <1>1, StatusesAre
    <2> QED BY <2>1, ProgressAssumption
<1>3. sequence' \in Nat BY <1>1 DEF TypeOK
<1>5. EventKey(sequence', 0) \in Nat /\ EventKey(sequence', 0) = sequence' * Stride
    BY <1>3, KeyOfOutcome
<1>6. e \in Events /\ e.item = 0 /\ e.key = sequence' * Stride
    BY <1>2, <1>5 DEF Events, OutcomeEvent
<1> HIDE DEF e
<1>7. log \in Seq(SUBSET Events) /\ {e} \in SUBSET Events BY <1>6 DEF TypeOK
<1>8. log' \in Seq(SUBSET Events) BY <1>1, <1>7, AppendType
<1>9. TypeOK' BY <1>1, <1>2, <1>3, <1>8 DEF TypeOK, reporter
<1> QED BY <1>1, <1>2, <1>3, <1>6, <1>9 DEF e

-----------------------------------------------------------------------------
(* Close, and the record.                                                  *)

\* Who is not inside has neither lock.
LEMMA NotInside ==
    ASSUME NEW a, a \notin Inside
    PROVE  (mu # None => mu.by # a) /\ (flushing # None => flushing.by # a)
BY DEF Inside

\* Close has returned: nothing is under way.
LEMMA Returned ==
    ASSUME CloseOK, closed, Closer \notin Inside
    PROVE  mu = None /\ flushing = None /\ pending = <<>>
BY NotInside DEF CloseOK

\* Nobody takes mu once the reporter is closed, and Close lets the flush before it end.
LEMMA CloseStep ==
    ASSUME TypeOK, CloseOK, [Next]_vars
    PROVE  CloseOK'
<1>1. ASSUME NEW r \in Reporter, NEW update \in Updates, Report(r, update) PROVE CloseOK'
    <2>1. ~closed' BY <1>1, ReportFacts
    <2> QED BY <2>1 DEF CloseOK
<1>2. CASE Elapse BY <1>2, ElapseFacts DEF CloseOK
<1>3. CASE Flush
    <2>1. /\ UNCHANGED <<closed, flushing>>
          /\ UNCHANGED <<pending, mu>> \/ ~closed
        BY <1>3, FlushFacts
    <2> QED BY <2>1 DEF CloseOK
<1>4. CASE Close
    <2>1. mu' # None /\ mu'.by = Closer /\ pending' = <<>> BY <1>4, CloseFacts
    <2> QED BY <2>1 DEF CloseOK
<1>5. CASE TakeFlush
    <2>1. /\ mu # None /\ mu' = None /\ UNCHANGED <<pending, closed>>
          /\ flushing' = None \/ flushing'.by = mu.by
        BY <1>5, TakeFlushFacts DEF reporter
    <2> QED BY <2>1 DEF CloseOK
<1>6. CASE Save
    <2>1. /\ flushing # None /\ flushing' # None /\ flushing'.by = flushing.by
          /\ UNCHANGED <<pending, closed, mu>>
        BY <1>6, SaveFacts DEF reporter
    <2> QED BY <2>1 DEF CloseOK
<1>7. CASE AppendChanges
    <2>1. flushing' = None /\ UNCHANGED <<pending, closed, mu>> BY <1>7, AppendFacts DEF reporter
    <2> QED BY <2>1 DEF CloseOK
<1>8. CASE LoseWrite
    <2>1. flushing' = None /\ UNCHANGED <<pending, closed, mu>> BY <1>8, LoseFacts DEF reporter
    <2> QED BY <2>1 DEF CloseOK
<1>9. CASE Complete
    <2>1. UNCHANGED <<pending, closed, mu, flushing>> BY <1>9, CompleteFacts DEF reporter
    <2> QED BY <2>1 DEF CloseOK
<1>10. CASE UNCHANGED vars BY <1>10 DEF CloseOK, vars, reporter
<1> QED BY <1>1, <1>2, <1>3, <1>4, <1>5, <1>6, <1>7, <1>8, <1>9, <1>10 DEF Next, FlushStep

\* The outcome comes when Close has returned, and nothing begins after it.
LEMMA OutcomeStep ==
    ASSUME TypeOK, CloseOK, OutcomeOK, [Next]_vars
    PROVE  /\ OutcomeOK'
           /\ outcome # None => UNCHANGED <<record, log>>
<1>1. ASSUME NEW r \in Reporter, NEW update \in Updates, Report(r, update)
      PROVE  OutcomeOK' /\ UNCHANGED <<record, log>>
    <2>1. ~closed /\ UNCHANGED <<record, log>> BY <1>1, ReportFacts
    <2> QED BY <2>1 DEF OutcomeOK, record
<1>2. CASE Elapse BY <1>2, ElapseFacts DEF OutcomeOK, record
<1>3. CASE Flush
    <2>1. /\ UNCHANGED <<closed, flushing, record, log>>
          /\ UNCHANGED <<pending, mu>> \/ ~closed
        BY <1>3, FlushFacts
    <2> QED BY <2>1 DEF OutcomeOK, record
<1>4. CASE Close
    <2>1. ~closed /\ UNCHANGED <<record, log>> BY <1>4, CloseFacts
    <2> QED BY <2>1 DEF OutcomeOK, record
<1>5. CASE TakeFlush
    <2>1. mu # None /\ UNCHANGED <<record, log>> BY <1>5, TakeFlushFacts
    <2> QED BY <2>1 DEF OutcomeOK, record
<1>6. CASE Save
    <2>1. flushing # None /\ UNCHANGED outcome BY <1>6, SaveFacts
    <2> QED BY <2>1 DEF OutcomeOK
<1>7. CASE AppendChanges
    <2>1. flushing # None /\ UNCHANGED record BY <1>7, AppendFacts
    <2> QED BY <2>1 DEF OutcomeOK, record
<1>8. CASE LoseWrite
    <2>1. flushing # None /\ UNCHANGED record BY <1>8, LoseFacts
    <2> QED BY <2>1 DEF OutcomeOK, record
<1>9. CASE Complete
    <2>1. /\ closed /\ Closer \notin Inside /\ outcome = None
          /\ UNCHANGED <<closed, mu, flushing>>
        BY <1>9, CompleteFacts DEF reporter
    <2>2. mu = None /\ flushing = None BY <2>1, Returned
    <2> QED BY <2>1, <2>2 DEF OutcomeOK
<1>10. CASE UNCHANGED vars BY <1>10 DEF OutcomeOK, vars, reporter, record
<1> QED BY <1>1, <1>2, <1>3, <1>4, <1>5, <1>6, <1>7, <1>8, <1>9, <1>10 DEF Next, FlushStep

NoItems == [i \in Item |-> None]

\* No part of the way from an update to the record loses it or overtakes another.
LEMMA PersistStep ==
    ASSUME TypeOK, PersistOK, lost = 0, lost' = 0, [Next]_vars
    PROVE  PersistOK'
<1> DEFINE X == ApplyAll(items, Unsaved)
           Accepted == ApplyAll(NoItems, accepted)
<1>0. Accepted = ApplyAll(ApplyAll(X, Handed), pending) BY DEF PersistOK, NoItems
<1> SUFFICES Accepted' = ApplyAll(ApplyAll(X', Handed'), pending') BY DEF PersistOK, NoItems
<1>1. ASSUME NEW r \in Reporter, NEW update \in Updates, Report(r, update)
      PROVE  Accepted' = ApplyAll(ApplyAll(X', Handed'), pending')
    <2>1. /\ mu = None /\ accepted' = Append(accepted, update)
          /\ \/ /\ mu' # None /\ mu'.by = r
                /\ mu'.batch = Append(pending, update) /\ pending' = <<>>
             \/ mu' = None /\ pending' = Append(pending, update)
          /\ UNCHANGED <<flushing, record>>
        BY <1>1, ReportFacts
    <2>2. X' = X BY <2>1 DEF Unsaved, record
    <2>3. Handed = <<>> BY <2>1 DEF Handed
    <2>4. pending \in Seq(Updates) /\ accepted \in Seq(Updates) BY DEF TypeOK
    <2> HIDE DEF X
    <2>5. Accepted = ApplyAll(X, pending) BY <1>0, <2>3, ApplyAllEmpty
    <2>6. Accepted' = ApplyProgress(Accepted, update) BY <2>1, <2>4, ApplyAllAppend
    <2> HIDE DEF Accepted
    <2>7. Accepted' = ApplyAll(X, Append(pending, update))
        BY <2>4, <2>5, <2>6, ApplyAllAppend
    <2>8. CASE mu' # None /\ mu'.batch = Append(pending, update) /\ pending' = <<>>
        <3>1. Handed' = Append(pending, update) BY <2>8 DEF Handed
        <3> QED BY <2>2, <2>7, <2>8, <3>1, ApplyAllEmpty
    <2>9. CASE mu' = None /\ pending' = Append(pending, update)
        <3>1. Handed' = <<>> BY <2>9 DEF Handed
        <3> QED BY <2>2, <2>7, <2>9, <3>1, ApplyAllEmpty
    <2> QED BY <2>1, <2>8, <2>9
<1>2. CASE Elapse BY <1>0, <1>2, ElapseFacts DEF Handed, Unsaved, record
<1>3. CASE Flush \/ Close
    <2>1. /\ mu = None
          /\ UNCHANGED <<pending, mu>> \/ (mu' # None /\ mu'.batch = pending /\ pending' = <<>>)
          /\ UNCHANGED <<flushing, record, accepted>>
        BY <1>3, FlushFacts, CloseFacts
    <2>2. X' = X /\ Accepted' = Accepted BY <2>1 DEF Unsaved, record
    <2>3. CASE UNCHANGED <<pending, mu>> BY <1>0, <2>2, <2>3 DEF Handed
    <2>4. CASE mu' # None /\ mu'.batch = pending /\ pending' = <<>>
        <3>1. Handed = <<>> /\ Handed' = pending BY <2>1, <2>4 DEF Handed
        <3> HIDE DEF X, Accepted
        <3> QED BY <1>0, <2>2, <2>4, <3>1, ApplyAllEmpty
    <2> QED BY <2>1, <2>3, <2>4
<1>4. CASE TakeFlush
    <2>1. /\ mu # None /\ flushing = None /\ mu' = None
          /\ \/ mu.batch = <<>> /\ flushing' = None
             \/ flushing' # None /\ flushing'.batch = mu.batch /\ flushing'.stage = "save"
          /\ UNCHANGED <<pending, items, accepted>>
        BY <1>4, TakeFlushFacts DEF reporter, record
    <2>2. Unsaved = <<>> /\ Unsaved' = mu.batch BY <2>1 DEF Unsaved
    <2>3. Handed = mu.batch /\ Handed' = <<>> BY <2>1 DEF Handed
    <2>4. X = items /\ X' = ApplyAll(items, mu.batch) BY <2>1, <2>2, ApplyAllEmpty
    <2>5. Accepted' = Accepted BY <2>1
    <2> HIDE DEF X, Accepted
    <2> QED BY <1>0, <2>1, <2>3, <2>4, <2>5, ApplyAllEmpty
<1>5. CASE Save
    <2>1. /\ flushing # None /\ flushing.stage = "save" /\ flushing' # None
          /\ flushing'.stage = "append" /\ items' = ApplyAll(items, flushing.batch)
          /\ UNCHANGED <<pending, mu, accepted>>
        BY <1>5, SaveFacts DEF reporter
    <2>2. Unsaved = flushing.batch /\ Unsaved' = <<>> BY <2>1 DEF Unsaved
    <2>3. X' = X BY <2>1, <2>2, ApplyAllEmpty
    <2>4. Accepted' = Accepted /\ Handed' = Handed BY <2>1 DEF Handed
    <2> HIDE DEF X, Accepted
    <2> QED BY <1>0, <2>1, <2>3, <2>4
<1>6. CASE AppendChanges
    <2>1. /\ flushing # None /\ flushing.stage = "append" /\ flushing' = None
          /\ UNCHANGED <<pending, mu, items, accepted>>
        BY <1>6, AppendFacts DEF reporter, record
    <2>2. Unsaved = <<>> /\ Unsaved' = <<>> BY <2>1 DEF Unsaved
    <2> QED BY <1>0, <2>1, <2>2 DEF Handed
<1>7. CASE LoseWrite
    <2>1. lost' # 0 BY <1>7, LoseFacts
    <2> QED BY <2>1
<1>8. CASE Complete
    <2>1. UNCHANGED <<pending, mu, flushing, items, accepted>> BY <1>8, CompleteFacts DEF reporter
    <2> QED BY <1>0, <2>1 DEF Handed, Unsaved
<1>9. CASE UNCHANGED vars BY <1>0, <1>9 DEF Handed, Unsaved, vars, reporter, record
<1> QED BY <1>1, <1>2, <1>3, <1>4, <1>5, <1>6, <1>7, <1>8, <1>9 DEF Next, FlushStep

-----------------------------------------------------------------------------
(* The log.                                                                *)

\* A bounded set of numbers has a greatest one, and no other.
LEMMA Greatest ==
    ASSUME NEW k \in Nat, NEW T \in SUBSET (1 .. k), T # {}
    PROVE  \E m \in T : \A n \in T : n <= m
<1> DEFINE S == {k - n : n \in T}
<1>1. S \in SUBSET Nat /\ S # {}
    <2>1. \A n \in T : k - n \in Nat OBVIOUS
    <2>2. PICK n \in T : TRUE OBVIOUS
    <2>3. k - n \in S BY <2>2
    <2> QED BY <2>1, <2>3
<1>2. PICK s \in S : \A n \in S : s <= n
    <2> HIDE DEF S
    <2> QED BY <1>1, Least
<1>3. PICK m \in T : s = k - m BY <1>2
<1>4. ASSUME NEW n \in T PROVE n <= m
    <2>1. k - m <= k - n BY <1>2, <1>3
    <2> QED BY <2>1
<1> QED BY <1>4

\* The transactions that tell of an item, the last of them, and what it says.
Told(l, i) == {n \in 1 .. Len(l) : \E event \in l[n] : event.item = i}
Latest(l, i) == CHOOSE n \in Told(l, i) : \A m \in Told(l, i) : m <= n
Said(l, i) == (CHOOSE event \in l[Latest(l, i)] : event.item = i).status

LEMMA LastEventIs ==
    ASSUME NEW i
    PROVE  LastEvent(i) = IF Told(log, i) = {} THEN None ELSE Said(log, i)
BY DEF LastEvent, Told, Latest, Said

\* It is one of them.
LEMMA LatestTold ==
    ASSUME NEW l \in Seq(SUBSET Events), NEW i, Told(l, i) # {}
    PROVE  /\ Latest(l, i) \in Told(l, i)
           /\ \A m \in Told(l, i) : m <= Latest(l, i)
<1> DEFINE T == Told(l, i)
           k == Len(l)
<1>1. k \in Nat /\ T \in SUBSET (1 .. k) /\ T # {} BY DEF Told
<1>2. Latest(l, i) = CHOOSE n \in T : \A m \in T : m <= n BY DEF Latest
<1> HIDE DEF T, k
<1>3. \E n \in T : \A m \in T : m <= n BY <1>1, Greatest
<1> QED BY <1>2, <1>3 DEF T

\* A transaction without an event of an item leaves what is known of it.
LEMMA SaidBefore ==
    ASSUME NEW l \in Seq(SUBSET Events), NEW new \in SUBSET Events, NEW i,
           \A event \in new : event.item # i
    PROVE  /\ Told(Append(l, new), i) = Told(l, i)
           /\ Told(l, i) # {} => Said(Append(l, new), i) = Said(l, i)
<1> DEFINE more == Append(l, new)
           k == Len(l)
<1>1. /\ k \in Nat /\ more \in Seq(SUBSET Events) /\ Len(more) = k + 1
      /\ more[k + 1] = new /\ \A n \in 1 .. k : more[n] = l[n]
    BY AppendProperties
<1> HIDE DEF more
<1>2. Told(more, i) = Told(l, i)
    <2>1. k + 1 \notin Told(more, i) BY <1>1 DEF Told
    <2>2. \A n \in 1 .. k : n \in Told(more, i) <=> n \in Told(l, i) BY <1>1 DEF Told
    <2>3. Told(more, i) \in SUBSET (1 .. (k + 1)) BY <1>1 DEF Told
    <2>4. Told(l, i) \in SUBSET (1 .. k) BY DEF Told
    <2>5. \A n \in 1 .. (k + 1) : n = k + 1 \/ n \in 1 .. k BY <1>1
    <2> QED BY <2>1, <2>2, <2>3, <2>4, <2>5
<1>3. ASSUME Told(l, i) # {} PROVE Said(more, i) = Said(l, i)
    <2>1. Latest(more, i) = Latest(l, i) BY <1>2 DEF Latest
    <2>2. Latest(l, i) \in 1 .. k BY <1>3, LatestTold DEF Told
    <2>3. more[Latest(l, i)] = l[Latest(l, i)] BY <1>1, <2>2
    <2> QED BY <2>1, <2>3 DEF Said
<1> QED BY <1>2, <1>3 DEF more

\* Events that tell of an item say this of it.
Tells(events, i, s) ==
    /\ \E event \in events : event.item = i
    /\ \A event \in events : event.item = i => event.status = s

\* A transaction that tells of an item is what is known of it.
LEMMA SaidNow ==
    ASSUME NEW l \in Seq(SUBSET Events), NEW new \in SUBSET Events, NEW i, NEW s,
           Tells(new, i, s)
    PROVE  Told(Append(l, new), i) # {} /\ Said(Append(l, new), i) = s
<1> DEFINE more == Append(l, new)
           k == Len(l)
<1>1. /\ k \in Nat /\ more \in Seq(SUBSET Events) /\ Len(more) = k + 1 /\ more[k + 1] = new
    BY AppendProperties
<1> HIDE DEF more
<1>2. k + 1 \in Told(more, i) BY <1>1 DEF Told, Tells
<1>3. Latest(more, i) = k + 1
    <2>1. Latest(more, i) \in Told(more, i) /\ k + 1 <= Latest(more, i) BY <1>1, <1>2, LatestTold
    <2>2. Latest(more, i) \in 1 .. (k + 1) BY <1>1, <2>1 DEF Told
    <2> QED BY <1>1, <2>1, <2>2
<1>4. Said(more, i) = (CHOOSE event \in new : event.item = i).status BY <1>1, <1>3 DEF Said
<1>5. (CHOOSE event \in new : event.item = i).status = s BY DEF Tells
<1> QED BY <1>2, <1>4, <1>5 DEF more

\* Events whose keys the log does not have are appended.
LEMMA AppendFresh ==
    ASSUME NEW events \in SUBSET Events, AppendEvents(events),
           \A event \in events : \A n \in 1 .. Len(log) : \A old \in log[n] : event.key # old.key
    PROVE  log' = IF events = {} THEN log ELSE Append(log, events)
<1> DEFINE known == {event.key : event \in UNION {log[n] : n \in 1 .. Len(log)}}
           new == {event \in events : event.key \notin known}
<1>1. log' = IF new = {} THEN log ELSE Append(log, new) BY DEF AppendEvents
<1>2. \A event \in events : event.key \notin known OBVIOUS
<1> HIDE DEF known
<1>3. new = events BY <1>2
<1> HIDE DEF new
<1> QED BY <1>1, <1>3

\* The sequence that the next keys are of: each is from its first on.
Fresh == IF Appending THEN sequence ELSE sequence + 1

\* What AppendChanges and Complete do to the log: all of their keys are new, and they
\* are of the next sequence.
LEMMA AppendNext ==
    ASSUME TypeOK, KeysOK, NEW events \in SUBSET Events, AppendEvents(events),
           \A event \in events : Fresh * Stride <= event.key /\ event.key < (Fresh + 1) * Stride
    PROVE  /\ log' = IF events = {} THEN log ELSE Append(log, events)
           /\ \A n \in 1 .. Len(log') : \A event \in log'[n] : event.key < (Fresh + 1) * Stride
<1> DEFINE low == Fresh * Stride
           high == (Fresh + 1) * Stride
<1>1. Stride \in Nat /\ Fresh \in Nat BY ProgressAssumption DEF TypeOK, Fresh
<1>2. low \in Nat /\ high \in Nat /\ low <= high
    <2>1. low \in Nat BY <1>1
    <2>2. high = low + Stride BY <1>1
    <2> QED BY <1>1, <2>1, <2>2
<1>3. \A n \in 1 .. Len(log) : \A event \in log[n] : event.key < low BY DEF KeysOK, Fresh
<1>4. log \in Seq(SUBSET Events) BY DEF TypeOK
<1>5. \A n \in 1 .. Len(log) : \A event \in log[n] : event.key \in Nat BY <1>4 DEF Events
<1>6. \A event \in events : event.key \in Nat /\ low <= event.key /\ event.key < high
    BY DEF Events
<1> HIDE DEF low, high
<1>7. log' = IF events = {} THEN log ELSE Append(log, events)
    <2>1. ASSUME NEW event \in events, NEW n \in 1 .. Len(log), NEW old \in log[n]
          PROVE  event.key # old.key
        BY <1>2, <1>3, <1>5, <1>6
    <2> QED BY <2>1, AppendFresh
<1>8. \A n \in 1 .. Len(log) : \A event \in log[n] : event.key < high BY <1>2, <1>3, <1>5
<1>9. \A n \in 1 .. Len(log') : \A event \in log'[n] : event.key < high
    <2>1. CASE events = {} BY <1>7, <1>8, <2>1
    <2>2. CASE events # {}
        <3>1. log' = Append(log, events) BY <1>7, <2>2
        <3>2. Len(log') = Len(log) + 1 /\ log'[Len(log) + 1] = events
              /\ \A n \in 1 .. Len(log) : log'[n] = log[n]
            BY <1>4, <3>1, AppendProperties
        <3>3. ASSUME NEW n \in 1 .. Len(log'), NEW event \in log'[n] PROVE event.key < high
            <4>1. n = Len(log) + 1 \/ n \in 1 .. Len(log) BY <1>4, <3>2
            <4> QED BY <1>6, <1>8, <3>2, <4>1
        <3> QED BY <3>3
    <2> QED BY <2>1, <2>2
<1> QED BY <1>7, <1>9 DEF high

\* A key below one sequence is below the next.
LEMMA KeysGrow ==
    ASSUME TypeOK, KeysOK, NEW seq \in Nat, Fresh <= seq
    PROVE  \A n \in 1 .. Len(log) : \A event \in log[n] : event.key < seq * Stride
<1>1. Stride \in Nat /\ Fresh \in Nat BY ProgressAssumption DEF TypeOK, Fresh
<1>2. PICK d \in Nat : seq = Fresh + d
    <2>1. seq - Fresh \in Nat /\ seq = Fresh + (seq - Fresh) BY <1>1
    <2> QED BY <2>1
<1>3. seq * Stride = Fresh * Stride + d * Stride BY <1>1, <1>2
<1>4. Fresh * Stride \in Nat /\ d * Stride \in Nat BY <1>1, <1>2
<1> DEFINE low == Fresh * Stride
           rest == d * Stride
<1>5. \A n \in 1 .. Len(log) : \A event \in log[n] : event.key \in Nat /\ event.key < low
    BY DEF KeysOK, Fresh, TypeOK, Events
<1>6. seq * Stride = low + rest /\ low \in Nat /\ rest \in Nat BY <1>3, <1>4
<1> HIDE DEF low, rest
<1>7. ASSUME NEW n \in 1 .. Len(log), NEW event \in log[n] PROVE event.key < seq * Stride
    BY <1>5, <1>6
<1> QED BY <1>7

\* What a client knows of an item that the appended events do not tell of.
LEMMA KnownBefore ==
    ASSUME log \in Seq(SUBSET Events), NEW events \in SUBSET Events,
           log' = IF events = {} THEN log ELSE Append(log, events),
           NEW i, \A event \in events : event.item # i
    PROVE  LastEvent(i)' = LastEvent(i)
<1>1. LastEvent(i) = IF Told(log, i) = {} THEN None ELSE Said(log, i) BY LastEventIs
<1>2. LastEvent(i)' = IF Told(log', i) = {} THEN None ELSE Said(log', i)
    BY DEF LastEvent, Told, Latest, Said
<1>3. CASE events = {} BY <1>1, <1>2, <1>3
<1>4. CASE events # {}
    <2>1. log' = Append(log, events) BY <1>4
    <2>2. /\ Told(Append(log, events), i) = Told(log, i)
          /\ Told(log, i) # {} => Said(Append(log, events), i) = Said(log, i)
        BY SaidBefore
    <2> QED BY <1>1, <1>2, <2>1, <2>2
<1> QED BY <1>3, <1>4

\* And of one that they tell of.
LEMMA KnownAfter ==
    ASSUME log \in Seq(SUBSET Events), NEW events \in SUBSET Events,
           log' = IF events = {} THEN log ELSE Append(log, events),
           NEW i, NEW s, Tells(events, i, s)
    PROVE  LastEvent(i)' = s
<1>1. LastEvent(i)' = IF Told(log', i) = {} THEN None ELSE Said(log', i)
    BY DEF LastEvent, Told, Latest, Said
<1>2. log' = Append(log, events) BY DEF Tells
<1>3. Told(Append(log, events), i) # {} /\ Said(Append(log, events), i) = s BY SaidNow
<1> QED BY <1>1, <1>2, <1>3

\* No item disappears from a batch to its events.
LEMMA BeforeStep ==
    ASSUME TypeOK, BeforeOK, [Next]_vars
    PROVE  BeforeOK'
<1>1. ASSUME NEW r \in Reporter, NEW update \in Updates, Report(r, update) PROVE BeforeOK'
    <2>1. UNCHANGED <<flushing, record>> BY <1>1, ReportFacts
    <2> QED BY <2>1 DEF BeforeOK, record
<1>2. CASE Elapse \/ Flush \/ Close
    <2>1. UNCHANGED <<flushing, record>> BY <1>2, ElapseFacts, FlushFacts, CloseFacts
    <2> QED BY <2>1 DEF BeforeOK, record
<1>3. CASE TakeFlush
    <2>1. flushing' # None => flushing'.before = items /\ flushing'.stage = "save"
        BY <1>3, TakeFlushFacts
    <2>2. items' = items BY <1>3, TakeFlushFacts DEF record
    <2> QED BY <2>1, <2>2 DEF BeforeOK
<1>4. CASE Save
    <2>1. /\ flushing # None /\ flushing.stage = "save"
          /\ flushing'.stage = "append" /\ flushing'.before = flushing.before
          /\ items \in Items /\ flushing.batch \in Seq(Updates)
          /\ items' = ApplyAll(items, flushing.batch)
        BY <1>4, SaveFacts
    <2>2. flushing.before = items BY <2>1 DEF BeforeOK
    <2>3. \A i \in Item : items'[i] = None => items[i] = None BY <2>1, ApplyAllType
    <2> QED BY <2>1, <2>2, <2>3 DEF BeforeOK
<1>5. CASE AppendChanges \/ LoseWrite BY <1>5, AppendFacts, LoseFacts DEF BeforeOK
<1>6. CASE Complete
    <2>1. UNCHANGED <<flushing, items>> BY <1>6, CompleteFacts
    <2> QED BY <2>1 DEF BeforeOK
<1>7. CASE UNCHANGED vars BY <1>7 DEF BeforeOK, vars, record
<1> QED BY <1>1, <1>2, <1>3, <1>4, <1>5, <1>6, <1>7 DEF Next, FlushStep

\* The status of an item that a client should know.
Known(i) == IF Appending THEN flushing.before[i] ELSE items[i]

\* A step that leaves the log and the next sequence as they are.
LEMMA LogKept ==
    ASSUME UNCHANGED <<log, Fresh>>, \A i \in Item : Known(i)' = Known(i), UNCHANGED lost
    PROVE  (KeysOK => KeysOK') /\ (EventsOK => EventsOK')
<1>1. \A i : LastEvent(i)' = LastEvent(i) BY DEF LastEvent
<1> QED BY <1>1 DEF KeysOK, EventsOK, Fresh, Known

\* A flush appends what it changed, under keys the log does not have.
LEMMA AppendStep ==
    ASSUME TypeOK, BeforeOK, KeysOK, EventsOK, AppendChanges
    PROVE  KeysOK' /\ EventsOK'
<1> DEFINE before == flushing.before
           events == Changes(before, items, sequence)
<1>1. /\ flushing # None /\ flushing.stage = "append" /\ flushing' = None
      /\ items \in Items /\ sequence \in Nat /\ AppendEvents(events)
      /\ UNCHANGED <<items, sequence, lost>>
    BY AppendFacts DEF record
<1>2. Appending /\ ~Appending' /\ Fresh = sequence /\ Fresh' = sequence + 1
    BY <1>1 DEF Appending, Fresh
<1>3. /\ events \in SUBSET Events
      /\ \A event \in events : Describes(event, before, items, sequence)
      /\ \A i \in Item : items[i] # None /\ items[i] # before[i]
            => \E event \in events : event.item = i
    <2> HIDE DEF before
    <2>1. events \in SUBSET Events BY <1>1, ChangesAre
    <2>2. \A event \in events : Describes(event, before, items, sequence)
        BY <1>1, ChangesAre
    <2>3. \A i \in Item : items[i] # None /\ items[i] # before[i]
            => \E event \in events : event.item = i
        BY <1>1, ChangesAre
    <2> QED BY <2>1, <2>2, <2>3
<1>4. \A i \in Item : items[i] = None => before[i] = None BY <1>1 DEF BeforeOK
<1> HIDE DEF events
<1>5. \A event \in events : Fresh * Stride <= event.key /\ event.key < (Fresh + 1) * Stride
    BY <1>2, <1>3 DEF Describes
<1>6. /\ log' = IF events = {} THEN log ELSE Append(log, events)
      /\ \A n \in 1 .. Len(log') : \A event \in log'[n] : event.key < (Fresh + 1) * Stride
    BY <1>1, <1>3, <1>5, AppendNext
<1>7. KeysOK' BY <1>1, <1>2, <1>6 DEF KeysOK
<1>8. ASSUME NEW i \in Item, lost = 0 PROVE LastEvent(i)' = items[i]
    <2>1. log \in Seq(SUBSET Events) BY DEF TypeOK
    <2>2. LastEvent(i) = before[i] BY <1>2, <1>8 DEF EventsOK
    <2>3. CASE items[i] # None /\ items[i] # before[i]
        <3>1. Tells(events, i, items[i]) BY <1>3, <2>3 DEF Describes, Tells
        <3> QED BY <1>3, <1>6, <2>1, <3>1, KnownAfter
    <2>4. CASE items[i] = None \/ items[i] = before[i]
        <3>1. \A event \in events : event.item # i BY <1>3, <2>4 DEF Describes
        <3>2. LastEvent(i)' = LastEvent(i) BY <1>3, <1>6, <2>1, <3>1, KnownBefore
        <3> QED BY <1>4, <2>2, <2>4, <3>2
    <2> QED BY <2>3, <2>4
<1>9. EventsOK' BY <1>1, <1>2, <1>8 DEF EventsOK
<1> QED BY <1>7, <1>9

\* The event of the outcome is of a new sequence, and of no item.
LEMMA CompleteStep ==
    ASSUME TypeOK, CloseOK, KeysOK, EventsOK, Complete
    PROVE  KeysOK' /\ EventsOK'
<1> DEFINE e == OutcomeEvent(sequence', outcome')
           events == {e}
<1>1. /\ closed /\ Closer \notin Inside
      /\ sequence' = sequence + 1 /\ e \in Events /\ e.item = 0
      /\ e.key = sequence' * Stride /\ AppendEvents(events)
      /\ UNCHANGED <<flushing, items, lost>>
    BY CompleteFacts
<1>2. flushing = None BY <1>1, Returned
<1>3. ~Appending /\ ~Appending' /\ Fresh = sequence + 1 /\ Fresh' = sequence + 2
    <2>1. sequence \in Nat BY DEF TypeOK
    <2> QED BY <1>1, <1>2, <2>1 DEF Appending, Fresh
<1>4. Fresh * Stride <= e.key /\ e.key < (Fresh + 1) * Stride
    <2>1. e.key = Fresh * Stride BY <1>1, <1>3
    <2>2. Fresh \in Nat /\ Stride \in Nat /\ MaxItem \in Nat /\ MaxItem < Stride
        BY <1>3, ProgressAssumption DEF TypeOK
    <2>3. Fresh * Stride \in Nat /\ (Fresh + 1) * Stride = Fresh * Stride + Stride BY <2>2
    <2> HIDE DEF e
    <2> QED BY <2>1, <2>2, <2>3
<1> HIDE DEF e
<1>5. events \in SUBSET Events BY <1>1
<1>6. \A event \in events : Fresh * Stride <= event.key /\ event.key < (Fresh + 1) * Stride
    BY <1>4
<1>7. \A i \in Item : \A event \in events : event.item # i BY <1>1 DEF Item
<1> HIDE DEF events
<1>8. /\ log' = IF events = {} THEN log ELSE Append(log, events)
      /\ \A n \in 1 .. Len(log') : \A event \in log'[n] : event.key < (Fresh + 1) * Stride
    BY <1>1, <1>5, <1>6, AppendNext
<1>9. KeysOK'
    <2>1. Fresh + 1 = Fresh' BY <1>3 DEF TypeOK
    <2> QED BY <1>8, <2>1 DEF KeysOK, Fresh
<1>10. ASSUME NEW i \in Item PROVE LastEvent(i)' = LastEvent(i)
    <2>1. log \in Seq(SUBSET Events) BY DEF TypeOK
    <2>2. \A event \in events : event.item # i BY <1>7
    <2> QED BY <1>5, <1>8, <2>1, <2>2, KnownBefore
<1>11. EventsOK' BY <1>1, <1>3, <1>10 DEF EventsOK
<1> QED BY <1>9, <1>11

\* Every step keeps what the log says of the record.
LEMMA EventsStep ==
    ASSUME TypeOK, CloseOK, BeforeOK, KeysOK, EventsOK, [Next]_vars
    PROVE  KeysOK' /\ EventsOK'
<1>1. ASSUME NEW r \in Reporter, NEW update \in Updates, Report(r, update)
      PROVE  KeysOK' /\ EventsOK'
    <2>1. UNCHANGED <<flushing, items, sequence, log, lost>> BY <1>1, ReportFacts DEF record
    <2> QED BY <2>1, LogKept DEF Fresh, Known, Appending
<1>2. CASE Elapse \/ Flush \/ Close
    <2>1. UNCHANGED <<flushing, items, sequence, log, lost>>
        BY <1>2, ElapseFacts, FlushFacts, CloseFacts DEF record
    <2> QED BY <2>1, LogKept DEF Fresh, Known, Appending
<1>3. CASE TakeFlush
    <2>1. /\ flushing = None /\ (flushing' = None \/ flushing'.stage = "save")
          /\ UNCHANGED <<items, sequence, log, lost>>
        BY <1>3, TakeFlushFacts DEF record
    <2> QED BY <2>1, LogKept DEF Fresh, Known, Appending
<1>4. CASE Save
    <2>1. /\ flushing # None /\ flushing.stage = "save" /\ flushing' # None
          /\ flushing'.stage = "append" /\ flushing'.before = flushing.before
          /\ sequence' = sequence + 1 /\ UNCHANGED <<log, lost>>
        BY <1>4, SaveFacts
    <2>2. flushing.before = items BY <2>1 DEF BeforeOK
    <2> QED BY <2>1, <2>2, LogKept DEF Fresh, Known, Appending
<1>5. CASE AppendChanges BY <1>5, AppendStep
<1>6. CASE LoseWrite
    <2>1. flushing' = None /\ lost' # 0 /\ UNCHANGED <<sequence, log>>
        BY <1>6, LoseFacts DEF record
    <2>2. ~Appending' BY <2>1 DEF Appending
    <2>3. Fresh <= sequence + 1 /\ sequence + 1 \in Nat BY DEF Fresh, TypeOK
    <2>4. \A n \in 1 .. Len(log) : \A event \in log[n] : event.key < (sequence + 1) * Stride
        BY <2>3, KeysGrow
    <2> QED BY <2>1, <2>2, <2>4 DEF KeysOK, EventsOK
<1>7. CASE Complete BY <1>7, CompleteStep
<1>8. CASE UNCHANGED vars
    <2>1. UNCHANGED <<flushing, items, sequence, log, lost>> BY <1>8 DEF vars, record
    <2> QED BY <2>1, LogKept DEF Fresh, Known, Appending
<1> QED BY <1>1, <1>2, <1>3, <1>4, <1>5, <1>6, <1>7, <1>8 DEF Next, FlushStep

-----------------------------------------------------------------------------
(* The theorems.                                                           *)

\* At first nothing is reported and nothing is recorded.
LEMMA ProgressInit == Init => ProgressInv
<1> SUFFICES ASSUME Init PROVE ProgressInv OBVIOUS
<1>1. TypeOK
    <2>1. <<>> \in Seq(Updates) /\ <<>> \in Seq(SUBSET Events) OBVIOUS
    <2> QED BY <2>1 DEF Init, TypeOK
<1>2. PersistOK
    <2>1. Unsaved = <<>> /\ Handed = <<>> /\ pending = <<>> /\ accepted = <<>> /\ items = NoItems
        BY DEF Init, Unsaved, Handed, NoItems
    <2> QED BY <2>1, ApplyAllEmpty DEF PersistOK, NoItems
<1>3. CloseOK /\ OutcomeOK /\ KeysOK /\ BeforeOK
    BY DEF Init, CloseOK, OutcomeOK, KeysOK, BeforeOK
<1>4. EventsOK
    <2>1. \A i : LastEvent(i) = None
        <3>1. \A i : Told(log, i) = {} BY DEF Init, Told
        <3> QED BY <3>1, LastEventIs
    <2> QED BY <2>1 DEF Init, EventsOK, Appending
<1> QED BY <1>1, <1>2, <1>3, <1>4 DEF ProgressInv

\* Types are kept.
LEMMA TypeStep == TypeOK /\ [Next]_vars => TypeOK'
<1> SUFFICES ASSUME TypeOK, [Next]_vars PROVE TypeOK' OBVIOUS
<1>1. CASE UNCHANGED vars BY <1>1 DEF TypeOK, vars, reporter, record
<1> QED BY <1>1, ReportFacts, ElapseFacts, FlushFacts, CloseFacts, TakeFlushFacts, SaveFacts,
           AppendFacts, LoseFacts, CompleteFacts DEF Next, FlushStep

\* No write comes back, so what was not lost before is not lost.
LEMMA LostStep == TypeOK /\ [Next]_vars => (lost' = 0 => lost = 0)
<1> SUFFICES ASSUME TypeOK, [Next]_vars, lost' = 0 PROVE lost = 0 OBVIOUS
<1>1. CASE UNCHANGED vars BY <1>1 DEF vars
<1> QED BY <1>1, ReportFacts, ElapseFacts, FlushFacts, CloseFacts, TakeFlushFacts, SaveFacts,
           AppendFacts, LoseFacts, CompleteFacts DEF Next, FlushStep

\* The invariant is inductive.
LEMMA ProgressStep == ProgressInv /\ [Next]_vars => ProgressInv'
<1> SUFFICES ASSUME ProgressInv, [Next]_vars PROVE ProgressInv' OBVIOUS
<1> USE DEF ProgressInv
<1>1. TypeOK' BY TypeStep
<1>2. PersistOK'
    <2>1. CASE lost' = 0 BY <2>1, LostStep, PersistStep
    <2>2. CASE lost' # 0 BY <2>2 DEF PersistOK
    <2> QED BY <2>1, <2>2
<1>3. CloseOK' BY CloseStep
<1>4. OutcomeOK' BY OutcomeStep
<1>5. BeforeOK' BY BeforeStep
<1>6. KeysOK' /\ EventsOK' BY EventsStep
<1> QED BY <1>1, <1>2, <1>3, <1>4, <1>5, <1>6

\* The invariant holds for any number of stages, items and reports.
THEOREM ProgressInvariant == Spec => []ProgressInv
BY ProgressInit, ProgressStep, PTL DEF Spec

\* When Close has returned, the record has every update that was accepted, each applied
\* to what those before it have left, unless a write failed: operation_progress.go
\* drains what is pending and waits for the flush before it.
THEOREM AcceptedTheorem == Spec => []AcceptedIsPersisted
<1>1. ProgressInv => AcceptedIsPersisted
    <2> SUFFICES ASSUME ProgressInv, closed, Closer \notin Inside, lost = 0
                 PROVE  items = ApplyAll([i \in Item |-> None], accepted)
        BY DEF AcceptedIsPersisted
    <2>1. mu = None /\ flushing = None /\ pending = <<>> BY Returned DEF ProgressInv
    <2>2. Unsaved = <<>> /\ Handed = <<>> BY <2>1 DEF Unsaved, Handed
    <2>3. ApplyAll([i \in Item |-> None], accepted)
            = ApplyAll(ApplyAll(ApplyAll(items, <<>>), <<>>), <<>>)
        BY <2>1, <2>2 DEF ProgressInv, PersistOK
    <2> QED BY <2>3, ApplyAllEmpty
<1> QED BY <1>1, ProgressInvariant, PTL

\* A client that follows the events knows the status of every item whenever no write is
\* under way: no event is taken for one that the log has, and none is left out.
THEOREM EventsTheorem == Spec => []EventsMatchRecord
<1>1. ProgressInv => EventsMatchRecord
    BY DEF ProgressInv, EventsOK, EventsMatchRecord, Appending
<1> QED BY <1>1, ProgressInvariant, PTL

\* Once the operation has its outcome, no timer or stage writes the record or the log.
THEOREM OutcomeTheorem == Spec => OutcomeIsLast
<1>1. ProgressInv /\ [Next]_vars => [outcome # None => UNCHANGED <<record, log>>]_vars
    BY OutcomeStep DEF ProgressInv
<1> QED BY <1>1, ProgressInvariant, PTL DEF Spec, OutcomeIsLast
=============================================================================
