----------------------- MODULE WorkflowOperationProofs -----------------------
(***************************************************************************)
(* Proofs about WorkflowOperation, for any processes, operations and       *)
(* bounds.  At most the process that holds the row can write, and only     *)
(* under the fence of the row: the invariant says what the goroutine and   *)
(* the recovery of that process may take for granted of the operation they *)
(* are at, and nothing of those of any other process or earlier tenure.    *)
(***************************************************************************)
EXTENDS WorkflowOperation, TLAPS

-----------------------------------------------------------------------------
(* The inductive invariant.                                                *)

\* A fence some goroutine carries: no later than the row, whose holder it is
\* when it is the one of the row.
Held(p, f) == f \in Nat /\ f <= input.fence /\ (f = input.fence => holder = p)

\* An operation that is listed for recovery: as it was then, or published
\* since from the checkpoint it had.
Waiting(p, o, seq) ==
    /\ record[o] # None
    /\ \/ IsActive(o) /\ record[o].epoch # p /\ record[o].seq = seq
       \/ ~IsActive(o) /\ IsComplete(o) /\ work[o].final.seq = seq + 1

\* The rows of one operation.
RowOK(o) ==
    /\ record[o] = None => work[o] = None
    /\ IsActive(o) /\ IsComplete(o) => Follows(o)
    /\ IsActive(o) /\ ~IsComplete(o) => capsule[o] # "none"

\* What a goroutine under the fence of the row knows about its operation.
Care(p, o) ==
    LET t == thread[p][o] IN
    /\ record[o] # None /\ record[o].epoch = p
    /\ t.point # "refuse" => IsActive(o)
    /\ t.point = "claim" => work[o] = None
    /\ t.point \in {"enqueue", "begin", "work", "complete"} => IsOpen(o) /\ work[o].owner = p
    /\ t.point = "publish" => IsComplete(o) /\ (t.admission => work[o].final.status = "failed")
    /\ t.point = "refuse" /\ IsActive(o) /\ IsComplete(o) => work[o].final.status = "failed"
    /\ t.admission => t.outcome = "failed"

ThreadOK(p, o) ==
    thread[p][o] # None =>
        /\ Held(p, thread[p][o].fence)
        /\ thread[p][o].fence = input.fence => Care(p, o)

\* What a recovery under the fence of the row knows about the operation it is
\* at.
Charge(p) ==
    LET q == pass[p] IN
    /\ q.point \in {"look", "publish"} => Waiting(p, q.op, q.seq)
    /\ q.point = "publish" => IsComplete(q.op)
    /\ q.point \in {"claim", "check", "adopt", "interrupt"} =>
           IsActive(q.op) /\ record[q.op].epoch # p /\ ~IsComplete(q.op)
    /\ q.point \in {"check", "adopt"} => IsOpen(q.op) /\ work[q.op].owner = p
    /\ q.point = "finish" => record[q.op] # None /\ record[q.op].status = "interrupted"

PassOK(p) ==
    pass[p] # None =>
        /\ Held(p, pass[p].fence)
        /\ pass[p].op = None => pass[p].point = "sweep"
        /\ pass[p].discard => proc[p].startup
        /\ pass[p].timer => pass[p].point # "sweep"
        /\ pass[p].fence = input.fence =>
              Charge(p) /\ (pass[p].timer => proc[p].settled # "no")

\* Under one fence at most one recovery is delayed, and no pass of the process
\* works on an operation while it is; a startup recovery makes it void.
TimersOK(p) ==
    /\ \A t \in timers[p] : Held(p, t.fence)
    /\ ~proc[p].startup => \A t \in timers[p] : t.fence = input.fence =>
           /\ Waiting(p, t.op, t.seq)
           /\ \A s \in timers[p] : s.fence = input.fence => s = t
           /\ pass[p] # None /\ pass[p].fence = input.fence => pass[p].point = "sweep"
           /\ proc[p].settled # "no" \/ (pass[p] # None /\ pass[p].fence = input.fence)

ProcessOK(p) == PassOK(p) /\ TimersOK(p) /\ \A o \in Operation : ThreadOK(p, o)

OpInv ==
    /\ TypeOK
    /\ \A o \in Operation : RowOK(o)
    /\ \A p \in Process : ProcessOK(p)

-----------------------------------------------------------------------------
(* The abstract lifecycle, operation by operation.                         *)

Stages == [o \in Operation |-> Stage(o)]
Decided == [o \in Operation |-> Outcome(o)]

LifeStep == [Lifecycle!Next]_<<Stages, Decided>>

SameLife(o) == Stage(o)' = Stage(o) /\ Outcome(o)' = Outcome(o)

\* What one operation may do in a step, but for its acceptance.
Moves(o) ==
    \/ SameLife(o)
    \/ Stage(o) = "open" /\ Stage(o)' \in {"decided", "published"} /\ Outcome(o)' \in Outcomes
    \/ Stage(o) = "decided" /\ Stage(o)' = "published" /\ Outcome(o)' = Outcome(o)
    \/ /\ Stage(o) = "published" /\ Outcome(o) = "completed"
       /\ Stage(o)' = Stage(o) /\ Outcome(o)' = "stale"

\* When no operation moves, the lifecycle stutters.
LEMMA LifeStutter ==
    ASSUME \A o \in Operation : SameLife(o)
    PROVE  LifeStep
BY DEF LifeStep, SameLife, Stages, Decided

\* The move of one operation is a step of the lifecycle.
LEMMA LifeMove ==
    ASSUME NEW o \in Operation, Moves(o),
           \A x \in Operation : x # o => SameLife(x)
    PROVE  LifeStep
<1>1. /\ Stages[o] = Stage(o) /\ Decided[o] = Outcome(o)
      /\ Stages' = [Stages EXCEPT ![o] = Stage(o)']
      /\ Decided' = [Decided EXCEPT ![o] = Outcome(o)']
  BY DEF Stages, Decided, SameLife
<1>2. /\ Stage(o)' = Stage(o) => Stages' = Stages
      /\ Outcome(o)' = Outcome(o) => Decided' = Decided
  BY DEF Stages, Decided, SameLife
<1>3. CASE SameLife(o)
  BY <1>3, LifeStutter
<1>4. CASE Stage(o) = "open" /\ Stage(o)' \in {"decided", "published"} /\ Outcome(o)' \in Outcomes
  <2>1. PICK next \in {"decided", "published"} : next = Stage(o)'
    BY <1>4
  <2>2. PICK result \in Outcomes : result = Outcome(o)'
    BY <1>4
  <2>3. /\ Stages[o] = "open" /\ Stages' = [Stages EXCEPT ![o] = next]
        /\ Decided' = [Decided EXCEPT ![o] = result]
    BY <1>1, <1>4, <2>1, <2>2
  <2>4. Lifecycle!Decide(o, result, next)
    BY <2>3 DEF Lifecycle!Decide, Stages, Decided
  <2> QED
    BY <2>4 DEF Lifecycle!Next, LifeStep
<1>5. CASE Stage(o) = "decided" /\ Stage(o)' = "published" /\ Outcome(o)' = Outcome(o)
  <2>1. /\ Stages[o] = "decided" /\ Stages' = [Stages EXCEPT ![o] = "published"]
        /\ Decided' = Decided
    BY <1>1, <1>2, <1>5
  <2>2. Lifecycle!Publish(o)
    BY <2>1 DEF Lifecycle!Publish, Stages, Decided
  <2> QED
    BY <2>2 DEF Lifecycle!Next, LifeStep
<1>6. CASE /\ Stage(o) = "published" /\ Outcome(o) = "completed"
           /\ Stage(o)' = Stage(o) /\ Outcome(o)' = "stale"
  <2>1. /\ Stages[o] = "published" /\ Decided[o] = "completed"
        /\ Stages' = Stages /\ Decided' = [Decided EXCEPT ![o] = "stale"]
    BY <1>1, <1>2, <1>6
  <2>2. Lifecycle!Supersede(o)
    BY <2>1 DEF Lifecycle!Supersede, Stages, Decided
  <2> QED
    BY <2>2 DEF Lifecycle!Next, LifeStep
<1> QED
  BY <1>3, <1>4, <1>5, <1>6 DEF Moves

-----------------------------------------------------------------------------
(* Frames.                                                                 *)

\* The lease of a work row may change, but neither its owner nor its outcome.
SameWork(o) ==
    /\ work'[o] = None <=> work[o] = None
    /\ work[o] # None => work'[o].owner = work[o].owner /\ work'[o].final = work[o].final

\* A terminal operation may lose its command.
SameRow(o) ==
    record'[o] = record[o] /\ SameWork(o) /\ (IsActive(o) => capsule'[o] = capsule[o])

OtherRows(o) == \A x \in Operation : x # o => SameRow(x)

\* The step is one of process p, on operation o.
Local(p, o) ==
    /\ UNCHANGED <<input, holder>>
    /\ OtherRows(o)
    /\ \A q \in Process, x \in Operation : q # p \/ x # o => thread'[q][x] = thread[q][x]
    /\ \A q \in Process : q # p =>
           pass'[q] = pass[q] /\ timers'[q] = timers[q] /\ proc'[q] = proc[q]

\* Work rows that differ in their lease only are open or complete alike.
LEMMA SameWorkFacts ==
    ASSUME NEW o \in Operation, SameWork(o)
    PROVE  IsOpen(o)' = IsOpen(o) /\ IsComplete(o)' = IsComplete(o)
BY DEF SameWork, IsOpen, IsComplete

\* The rows of an operation that keeps them.
LEMMA RowKept ==
    ASSUME NEW o \in Operation, SameRow(o)
    PROVE  /\ IsActive(o)' = IsActive(o)
           /\ RowOK(o) => RowOK(o)'
           /\ SameLife(o)
           /\ \A p, seq : Waiting(p, o, seq) => Waiting(p, o, seq)'
<1>1. record'[o] = record[o] /\ (IsActive(o) => capsule'[o] = capsule[o])
  BY DEF SameRow
<1>2. IsActive(o)' = IsActive(o)
  BY <1>1 DEF IsActive
<1>3. IsOpen(o)' = IsOpen(o) /\ IsComplete(o)' = IsComplete(o)
  BY SameWorkFacts DEF SameRow
<1>4. work[o] # None => work'[o].final = work[o].final
  BY DEF SameRow, SameWork
<1>5. RowOK(o) => RowOK(o)'
  BY <1>1, <1>2, <1>3, <1>4 DEF RowOK, Follows, SameRow, SameWork, IsComplete
<1>6. SameLife(o)
  BY <1>1, <1>2, <1>3, <1>4 DEF SameLife, Stage, Outcome, IsComplete
<1>7. ASSUME NEW p, NEW seq, Waiting(p, o, seq)
      PROVE  Waiting(p, o, seq)'
  BY <1>1, <1>2, <1>3, <1>4, <1>7 DEF Waiting, IsComplete
<1> QED
  BY <1>2, <1>5, <1>6, <1>7

\* A goroutine that stays where it is, on an operation that keeps its rows.
LEMMA ThreadKept ==
    ASSUME NEW p \in Process, NEW o \in Operation, ThreadOK(p, o),
           UNCHANGED <<input, holder>>, thread'[p][o] = thread[p][o],
           SameRow(o) \/ holder # p
    PROVE  ThreadOK(p, o)'
<1> SUFFICES ASSUME thread[p][o] # None
             PROVE  ThreadOK(p, o)'
  BY DEF ThreadOK
<1>1. Held(p, thread[p][o].fence) /\ Held(p, thread[p][o].fence)'
  BY DEF ThreadOK, Held
<1>2. ASSUME thread[p][o].fence = input.fence
      PROVE  Care(p, o)'
  <2>1. Care(p, o) /\ SameRow(o)
    BY <1>1, <1>2 DEF ThreadOK, Held
  <2>2. /\ record'[o] = record[o] /\ IsActive(o)' = IsActive(o)
        /\ IsOpen(o)' = IsOpen(o) /\ IsComplete(o)' = IsComplete(o)
        /\ work'[o] = None <=> work[o] = None
        /\ work[o] # None => work'[o].owner = work[o].owner /\ work'[o].final = work[o].final
    BY <2>1, RowKept, SameWorkFacts DEF SameRow, SameWork
  <2> QED
    BY <2>1, <2>2 DEF Care, IsOpen, IsComplete
<1> QED
  BY <1>1, <1>2 DEF ThreadOK

\* A pass that stays where it is, at an operation that keeps its rows.
LEMMA PassKept ==
    ASSUME TypeOK, NEW p \in Process, PassOK(p),
           UNCHANGED <<input, holder>>, pass'[p] = pass[p], proc'[p] = proc[p],
           \A x \in Operation :
              pass[p] # None /\ pass[p].op = x /\ pass[p].point # "sweep" => SameRow(x) \/ holder # p
    PROVE  PassOK(p)'
<1> SUFFICES ASSUME pass[p] # None
             PROVE  PassOK(p)'
  BY DEF PassOK
<1>1. Held(p, pass[p].fence) /\ Held(p, pass[p].fence)'
  BY DEF PassOK, Held
<1>2. ASSUME pass[p].fence = input.fence
      PROVE  Charge(p)'
  <2>1. Charge(p) /\ holder = p
    BY <1>1, <1>2 DEF PassOK, Held
  <2>2. CASE pass[p].point = "sweep"
    BY <2>2 DEF Charge
  <2>3. CASE pass[p].point # "sweep"
    <3>1. PICK o \in Operation : o = pass[p].op
      BY <2>3 DEF PassOK, TypeOK, Passes
    <3>2. SameRow(o)
      BY <2>1, <2>3, <3>1
    <3>3. /\ record'[o] = record[o] /\ IsActive(o)' = IsActive(o)
          /\ IsOpen(o)' = IsOpen(o) /\ IsComplete(o)' = IsComplete(o)
          /\ work[o] # None => work'[o].owner = work[o].owner
          /\ Waiting(p, o, pass[p].seq) => Waiting(p, o, pass[p].seq)'
      BY <3>2, RowKept, SameWorkFacts DEF SameRow, SameWork
    <3>4. pass'[p].op = o /\ pass'[p].seq = pass[p].seq /\ pass'[p].point = pass[p].point
      BY <3>1
    <3>5. pass'[p].point \in {"look", "publish"} => Waiting(p, pass[p].op, pass[p].seq)'
      BY <2>1, <3>1, <3>3, <3>4 DEF Charge, Waiting, IsActive, IsComplete
    <3> QED
      BY <2>1, <3>1, <3>3, <3>4, <3>5 DEF Charge, IsOpen
  <2> QED
    BY <2>2, <2>3
<1> QED
  BY <1>1, <1>2 DEF PassOK

\* Timers of a process, none of whose operations changes.
LEMMA TimersKept ==
    ASSUME TypeOK, NEW p \in Process, TimersOK(p),
           UNCHANGED <<input, holder>>, timers'[p] = timers[p], pass'[p] = pass[p],
           proc'[p] = proc[p],
           \A t \in timers[p] : t.fence = input.fence => SameRow(t.op) \/ holder # p
    PROVE  TimersOK(p)'
<1>1. \A t \in timers[p] : Held(p, t.fence) /\ Held(p, t.fence)'
  BY DEF TimersOK, Held
<1>2. ASSUME NEW t \in timers[p], t.fence = input.fence, ~proc[p].startup
      PROVE  Waiting(p, t.op, t.seq)'
  <2>1. t.op \in Operation /\ SameRow(t.op) /\ Waiting(p, t.op, t.seq)
    BY <1>1, <1>2 DEF TimersOK, Held, TypeOK, Timers
  <2> QED
    BY <2>1, RowKept
<1> QED
  BY <1>1, <1>2 DEF TimersOK

\* A step of one process on one operation: what is left to show is about that
\* operation and that process.
LEMMA LocalStep ==
    ASSUME OpInv, TypeOK', NEW p \in Process, NEW o \in Operation, Local(p, o),
           SameRow(o) \/ holder = p,
           RowOK(o)', ThreadOK(p, o)', PassOK(p)', TimersOK(p)'
    PROVE  OpInv' /\ (Moves(o) => LifeStep)
<1>1. TypeOK
  BY DEF OpInv
<1>2. ASSUME NEW x \in Operation
      PROVE  RowOK(x)'
  BY RowKept DEF OpInv, Local, OtherRows
<1>3. ASSUME NEW q \in Process, NEW x \in Operation
      PROVE  ThreadOK(q, x)'
  <2>1. CASE q = p /\ x = o
    BY <2>1
  <2>2. CASE q # p \/ x # o
    <3>1. ThreadOK(q, x) /\ thread'[q][x] = thread[q][x] /\ UNCHANGED <<input, holder>>
      BY <2>2 DEF OpInv, ProcessOK, Local
    <3>2. SameRow(x) \/ holder # q
      BY <2>2 DEF Local, OtherRows
    <3> QED
      BY <3>1, <3>2, ThreadKept
  <2> QED
    BY <2>1, <2>2
<1>4. ASSUME NEW q \in Process, q # p
      PROVE  PassOK(q)' /\ TimersOK(q)'
  <2>1. /\ PassOK(q) /\ TimersOK(q) /\ UNCHANGED <<input, holder>>
        /\ pass'[q] = pass[q] /\ timers'[q] = timers[q] /\ proc'[q] = proc[q]
    BY <1>4 DEF OpInv, ProcessOK, Local
  <2>2. \A x \in Operation : SameRow(x) \/ holder # q
    BY <1>4 DEF Local, OtherRows
  <2>3. \A t \in timers[q] : t.op \in Operation
    BY <1>1 DEF TypeOK, Timers
  <2> QED
    BY <1>1, <2>1, <2>2, <2>3, PassKept, TimersKept
<1>5. Moves(o) => LifeStep
  BY LifeMove, RowKept DEF Local, OtherRows
<1> QED
  BY <1>2, <1>3, <1>4, <1>5 DEF OpInv, ProcessOK

\* A step of one process that leaves the rows of every operation alone, and
\* whose goroutines stay where they are or end.
LEMMA ProcessStep ==
    ASSUME OpInv, TypeOK', NEW p \in Process, UNCHANGED <<input, holder>>,
           \A x \in Operation : SameRow(x),
           \A q \in Process, x \in Operation :
              thread'[q][x] = thread[q][x] \/ (q = p /\ thread'[q][x] = None),
           \A q \in Process : q # p =>
              pass'[q] = pass[q] /\ timers'[q] = timers[q] /\ proc'[q] = proc[q],
           PassOK(p)', TimersOK(p)'
    PROVE  OpInv' /\ LifeStep
<1>1. TypeOK
  BY DEF OpInv
<1>2. \A x \in Operation : RowOK(x)' /\ SameLife(x)
  BY RowKept DEF OpInv
<1>3. ASSUME NEW q \in Process, NEW x \in Operation
      PROVE  ThreadOK(q, x)'
  <2>1. CASE thread'[q][x] = None
    BY <2>1 DEF ThreadOK
  <2>2. CASE thread'[q][x] = thread[q][x]
    BY <2>2, ThreadKept DEF OpInv, ProcessOK
  <2> QED
    BY <2>1, <2>2
<1>4. ASSUME NEW q \in Process, q # p
      PROVE  PassOK(q)' /\ TimersOK(q)'
  <2>1. /\ PassOK(q) /\ TimersOK(q)
        /\ pass'[q] = pass[q] /\ timers'[q] = timers[q] /\ proc'[q] = proc[q]
    BY <1>4 DEF OpInv, ProcessOK
  <2>2. \A t \in timers[q] : t.op \in Operation
    BY <1>1 DEF TypeOK, Timers
  <2> QED
    BY <1>1, <2>1, <2>2, PassKept, TimersKept
<1> QED
  BY <1>2, <1>3, <1>4, LifeStutter DEF OpInv, ProcessOK

\* A step of a goroutine: it moves no pass and no timer, and it writes about
\* an operation in its care only, which no pass of its process is at.
LEMMA ThreadStep ==
    ASSUME OpInv, TypeOK', NEW p \in Process, NEW o \in Operation,
           UNCHANGED <<input, holder, pass, timers, proc>>, OtherRows(o),
           \A q \in Process, x \in Operation : q # p \/ x # o => thread'[q][x] = thread[q][x],
           SameRow(o) \/ (holder = p /\ IsActive(o) /\ record[o].epoch = p),
           RowOK(o)', ThreadOK(p, o)'
    PROVE  OpInv' /\ (Moves(o) => LifeStep)
<1>1. TypeOK /\ PassOK(p) /\ TimersOK(p) /\ Local(p, o)
  BY DEF OpInv, ProcessOK, Local
<1>2. PassOK(p)'
  <2>1. ASSUME NEW x \in Operation, pass[p] # None, pass[p].op = x, pass[p].point # "sweep",
               holder = p, pass[p].fence # input.fence
        PROVE  PassOK(p)'
    BY <1>1, <2>1 DEF PassOK, Held
  <2>2. ASSUME NEW x \in Operation, pass[p] # None, pass[p].op = x, pass[p].point # "sweep",
               holder = p, pass[p].fence = input.fence, ~SameRow(o)
        PROVE  x # o
    <3>1. Charge(p) /\ IsActive(o) /\ record[o].epoch = p
      BY <1>1, <2>2 DEF PassOK
    <3>2. pass[p].point \in PassPoints
      BY <1>1, <2>2 DEF TypeOK, Passes
    <3> QED
      BY <2>2, <3>1, <3>2 DEF Charge, Waiting, PassPoints, IsActive, Active
  <2>3. CASE pass[p] # None /\ pass[p].fence # input.fence
    BY <1>1, <2>3 DEF PassOK, Held
  <2>4. CASE pass[p] = None
    BY <2>4 DEF PassOK
  <2>5. CASE pass[p] # None /\ pass[p].fence = input.fence
    BY <1>1, <2>2, <2>5, PassKept DEF Local, OtherRows
  <2> QED
    BY <2>3, <2>4, <2>5
<1>3. TimersOK(p)'
  <2>1. CASE proc[p].startup
    BY <1>1, <2>1 DEF TimersOK, Held
  <2>2. CASE ~proc[p].startup
    <3>1. ASSUME NEW t \in timers[p], t.fence = input.fence
          PROVE  SameRow(t.op)
      <4>1. Waiting(p, t.op, t.seq) /\ t.op \in Operation
        BY <1>1, <2>2, <3>1 DEF TimersOK, TypeOK, Timers
      <4> QED
        BY <4>1 DEF Waiting, OtherRows
    <3> QED
      BY <1>1, <3>1, TimersKept
  <2> QED
    BY <2>1, <2>2
<1> QED
  BY <1>1, <1>2, <1>3, LocalStep

-----------------------------------------------------------------------------
(* Writes.                                                                 *)

\* Who may write acts under the fence of the row.
LEMMA Authority ==
    ASSUME NEW f, NEW allowPending, Authorised(f, allowPending)
    PROVE  f = input.fence
BY DEF Authorised, Mutable

RecordStatuses == Active \cup Outcomes \cup {"stale"}

\* The record of o, saved by p.
Saved(p, o, status) ==
    /\ record'[o] # None
    /\ record'[o].seq = record[o].seq + 1
    /\ record'[o].status = status
    /\ record'[o].epoch = p

RecordsOK == record \in [Operation -> Records \cup {None}]
WorkOK == work \in [Operation -> WorkRows \cup {None}]
ThreadsOK == thread \in [Process -> [Operation -> Threads \cup {None}]]
PassesOK == pass \in [Process -> Passes \cup {None}]

\* SaveReleaseWorkflowOperation writes one record.
LEMMA SaveFacts ==
    ASSUME TypeOK, NEW p \in Process, NEW o \in Operation, record[o] # None,
           NEW status \in RecordStatuses, Save(p, o, status)
    PROVE  /\ RecordsOK' /\ Saved(p, o, status)
           /\ \A x \in Operation : x # o => record'[x] = record[x]
<1>1. record[o].seq + 1 \in Nat
  BY DEF TypeOK, Records
<1>2. [seq |-> record[o].seq + 1, status |-> status, epoch |-> p] \in Records
  BY <1>1 DEF Records, RecordStatuses
<1> QED
  BY <1>2, OperationAssumption DEF Save, Saved, RecordsOK, TypeOK

\* One work row is written.
LEMMA WorkSet ==
    ASSUME TypeOK, NEW o \in Operation, NEW w \in WorkRows, work' = [work EXCEPT ![o] = w]
    PROVE  WorkOK' /\ work'[o] = w /\ w # None /\ \A x \in Operation : x # o => SameWork(x)
BY OperationAssumption DEF TypeOK, WorkOK, SameWork

\* CheckpointWork writes the lease only.
LEMMA CheckpointFacts ==
    ASSUME TypeOK, NEW p \in Process, NEW o \in Operation, Checkpoint(p, o)
    PROVE  WorkOK' /\ \A x \in Operation : SameWork(x)
<1>1. CASE ~Leased(p, o)
  BY <1>1 DEF Checkpoint, TypeOK, WorkOK, SameWork
<1>2. CASE Leased(p, o)
  <2> DEFINE w == [work[o] EXCEPT !.live = TRUE]
  <2>1. work[o] \in WorkRows
    BY <1>2 DEF Leased, IsOpen, TypeOK
  <2>2. w \in WorkRows /\ w.owner = work[o].owner /\ w.final = work[o].final
    BY <2>1 DEF WorkRows
  <2>3. work' = [work EXCEPT ![o] = w]
    BY <1>2 DEF Checkpoint
  <2> HIDE DEF w
  <2>4. /\ WorkOK' /\ work'[o] = w /\ w # None
        /\ \A x \in Operation : x # o => SameWork(x)
    BY <2>2, <2>3, WorkSet
  <2>5. SameWork(o)
    BY <1>2, <2>2, <2>4 DEF SameWork, Leased, IsOpen
  <2> QED
    BY <2>4, <2>5
<1> QED
  BY <1>1, <1>2

\* mutateOperationIf: with an error or without, the record advances or does
\* not, and the work keeps its owner and outcome.
LEMMA MutationFacts ==
    ASSUME TypeOK, NEW p \in Process, NEW o \in Operation, NEW f, NEW status,
           f = input.fence => record[o] # None /\ status \in RecordStatuses,
           Mutates(p, f, o, status) \/ MutationFails(p, f, o, status)
    PROVE  /\ RecordsOK' /\ WorkOK' /\ faults' \in Nat
           /\ \A x \in Operation : SameWork(x)
           /\ \A x \in Operation : x # o => record'[x] = record[x]
           /\ record' = record \/ (f = input.fence /\ Saved(p, o, status))
           /\ Mutates(p, f, o, status) => f = input.fence /\ Saved(p, o, status)
<1>1. ASSUME Authorised(f, TRUE), Save(p, o, status)
      PROVE  /\ RecordsOK' /\ f = input.fence /\ Saved(p, o, status)
             /\ \A x \in Operation : x # o => record'[x] = record[x]
  BY <1>1, Authority, SaveFacts
<1>2. ASSUME UNCHANGED work
      PROVE  WorkOK' /\ \A x \in Operation : SameWork(x)
  BY <1>2 DEF WorkOK, TypeOK, SameWork
<1>3. ASSUME UNCHANGED record
      PROVE  RecordsOK'
  BY <1>3 DEF RecordsOK, TypeOK
<1>4. CASE Mutates(p, f, o, status)
  <2>1. faults' \in Nat
    BY <1>4 DEF Mutates, TypeOK
  <2> QED
    BY <1>1, <1>4, <2>1, CheckpointFacts DEF Mutates
<1>5. CASE MutationFails(p, f, o, status) /\ ~Mutates(p, f, o, status)
  <2>1. UNCHANGED faults \/ Fail
    BY <1>5 DEF MutationFails
  <2>2. faults' \in Nat
    BY <2>1 DEF Fail, TypeOK
  <2> QED
    BY <1>1, <1>2, <1>3, <1>5, <2>2 DEF MutationFails, tables
<1> QED
  BY <1>4, <1>5

\* CompleteReleaseWorkflowWork.
LEMMA CompleteFacts ==
    ASSUME TypeOK, NEW p \in Process, NEW o \in Operation, work[o] # None,
           NEW seq \in Nat, NEW status \in Outcomes, Complete(p, o, seq, status)
    PROVE  /\ WorkOK' /\ IsComplete(o)' /\ work'[o].owner = p
           /\ work'[o].final.seq = seq /\ work'[o].final.status = status
           /\ \A x \in Operation : x # o => SameWork(x)
<1>1. [seq |-> seq, status |-> status] \in Checkpoints
  BY DEF Checkpoints
<1> DEFINE w == [owner |-> p, live |-> work[o].live, final |-> [seq |-> seq, status |-> status]]
<1>2. w \in WorkRows
  BY <1>1 DEF TypeOK, WorkRows
<1>3. w.owner = p /\ w.final.seq = seq /\ w.final.status = status /\ w.final # None
  BY <1>1, OperationAssumption
<1>4. work' = [work EXCEPT ![o] = w]
  BY DEF Complete
<1> HIDE DEF w
<1>5. WorkOK' /\ work'[o] = w /\ w # None /\ \A x \in Operation : x # o => SameWork(x)
  BY <1>2, <1>4, WorkSet
<1> QED
  BY <1>3, <1>5 DEF IsComplete

\* Work that is claimed is open and has its owner.
LEMMA ClaimFacts ==
    ASSUME TypeOK, NEW p \in Process, NEW o \in Operation,
           work' = [work EXCEPT ![o] = [owner |-> p, live |-> TRUE, final |-> None]]
    PROVE  /\ WorkOK' /\ IsOpen(o)' /\ ~IsComplete(o)' /\ work'[o].owner = p
           /\ \A x \in Operation : x # o => SameWork(x)
<1> DEFINE w == [owner |-> p, live |-> TRUE, final |-> None]
<1>1. w \in WorkRows /\ w.owner = p /\ w.final = None
  BY DEF WorkRows
<1> HIDE DEF w
<1>2. WorkOK' /\ work'[o] = w /\ w # None /\ \A x \in Operation : x # o => SameWork(x)
  BY <1>1, WorkSet DEF w
<1> QED
  BY <1>1, <1>2 DEF IsOpen, IsComplete

\* private.Delete touches one command.
LEMMA DiscardFacts ==
    ASSUME TypeOK, NEW o \in Operation, Discard(o)
    PROVE  /\ capsule' \in [Operation -> {"none", "stored", "expired"}]
           /\ \A x \in Operation : x # o => capsule'[x] = capsule[x]
BY DEF TypeOK, Discard

-----------------------------------------------------------------------------
(* Goroutines.                                                             *)

ThreadsElse(p, o) ==
    \A q \in Process, x \in Operation : q # p \/ x # o => thread'[q][x] = thread[q][x]

\* One goroutine is replaced.
LEMMA ThreadSet ==
    ASSUME TypeOK, NEW p \in Process, NEW o \in Operation, NEW t \in Threads \cup {None},
           thread' = [thread EXCEPT ![p][o] = t]
    PROVE  ThreadsOK' /\ thread'[p][o] = t /\ ThreadsElse(p, o)
<1>1. [thread[p] EXCEPT ![o] = t] \in [Operation -> Threads \cup {None}]
  BY DEF TypeOK
<1>2. thread' = [thread EXCEPT ![p] = [thread[p] EXCEPT ![o] = t]]
  OBVIOUS
<1>3. ThreadsOK'
  BY <1>1, <1>2 DEF TypeOK, ThreadsOK
<1>4. thread'[p] = [thread[p] EXCEPT ![o] = t] /\ \A q \in Process : q # p => thread'[q] = thread[q]
  BY <1>2 DEF TypeOK
<1>5. thread'[p][o] = t /\ \A x \in Operation : x # o => thread'[p][x] = thread[p][x]
  BY <1>4 DEF TypeOK
<1> QED
  BY <1>3, <1>4, <1>5 DEF ThreadsElse

\* One goroutine goes on.
LEMMA GotoFacts ==
    ASSUME TypeOK, NEW p \in Process, NEW o \in Operation, thread[p][o] # None,
           NEW point \in Points, Goto(p, o, point)
    PROVE  /\ ThreadsOK' /\ ThreadsElse(p, o)
           /\ thread'[p][o] # None /\ thread'[p][o].point = point
           /\ thread'[p][o].fence = thread[p][o].fence
           /\ thread'[p][o].outcome = thread[p][o].outcome
           /\ thread'[p][o].admission = thread[p][o].admission
<1> DEFINE t == [thread[p][o] EXCEPT !.point = point]
<1>1. thread[p][o] \in Threads
  BY DEF TypeOK
<1>2. t \in Threads
  BY <1>1 DEF Threads
<1>3. thread' = [thread EXCEPT ![p][o] = t]
  BY DEF Goto
<1>4. /\ t.point = point /\ t.fence = thread[p][o].fence
      /\ t.outcome = thread[p][o].outcome /\ t.admission = thread[p][o].admission
  BY <1>1 DEF Threads
<1> HIDE DEF t
<1>5. ThreadsOK' /\ thread'[p][o] = t /\ ThreadsElse(p, o)
  BY <1>2, <1>3, ThreadSet
<1> QED
  BY <1>2, <1>4, <1>5, OperationAssumption

\* One goroutine comes to completeOperation.
LEMMA GotoCompleteFacts ==
    ASSUME TypeOK, NEW p \in Process, NEW o \in Operation, thread[p][o] # None,
           NEW outcome \in Results, NEW admission \in BOOLEAN,
           GotoComplete(p, o, outcome, admission)
    PROVE  /\ ThreadsOK' /\ ThreadsElse(p, o)
           /\ thread'[p][o] # None /\ thread'[p][o].point = "complete"
           /\ thread'[p][o].fence = thread[p][o].fence
           /\ thread'[p][o].outcome = outcome /\ thread'[p][o].admission = admission
<1> DEFINE t == [fence |-> thread[p][o].fence, worker |-> thread[p][o].worker,
                 point |-> "complete", outcome |-> outcome, admission |-> admission]
<1>1. t \in Threads
  BY DEF TypeOK, Threads, Points
<1>2. /\ t.point = "complete" /\ t.fence = thread[p][o].fence
      /\ t.outcome = outcome /\ t.admission = admission
  OBVIOUS
<1>3. thread' = [thread EXCEPT ![p][o] = t]
  BY DEF GotoComplete
<1> HIDE DEF t
<1>4. ThreadsOK' /\ thread'[p][o] = t /\ ThreadsElse(p, o)
  BY <1>1, <1>3, ThreadSet
<1> QED
  BY <1>1, <1>2, <1>4, OperationAssumption

\* One goroutine ends.
LEMMA EndFacts ==
    ASSUME TypeOK, NEW p \in Process, NEW o \in Operation, End(p, o)
    PROVE  ThreadsOK' /\ ThreadsElse(p, o) /\ thread'[p][o] = None
BY ThreadSet DEF End

\* What is known of a goroutine that begins.
Begins(t, f, point) ==
    t \in Threads /\ t # None /\ t.fence = f /\ t.point = point /\ ~t.admission

\* Start goes on with its claim.
LEMMA StartBegins ==
    ASSUME NEW f \in Nat
    PROVE  \E t : t = Spawned(f, FALSE, "claim") /\ Begins(t, f, "claim")
<1> DEFINE t == Spawned(f, FALSE, "claim")
<1>1. t \in Threads
  BY DEF Spawned, Threads, Results, Points
<1>2. t.fence = f /\ t.point = "claim" /\ ~t.admission
  BY DEF Spawned
<1> HIDE DEF t
<1> QED
  BY <1>1, <1>2, OperationAssumption DEF t, Begins

\* dispatchOperationWorker begins a worker, or nothing.
LEMMA DispatchBegins ==
    ASSUME NEW p \in Process, NEW f \in Nat
    PROVE  Dispatched(p, f) = None \/ Begins(Dispatched(p, f), f, "begin")
<1> DEFINE t == [fence |-> f, worker |-> TRUE, point |-> "begin", outcome |-> "failed",
                 admission |-> FALSE]
<1>1. t \in Threads
  BY DEF Threads, Results, Points
<1>2. t.fence = f /\ t.point = "begin" /\ ~t.admission
  OBVIOUS
<1>3. Dispatched(p, f) = None \/ Dispatched(p, f) = t
  BY DEF Dispatched, Spawned
<1> HIDE DEF t
<1> QED
  BY <1>1, <1>2, <1>3, OperationAssumption DEF Begins

\* A goroutine that gives up, and does not leave an active operation behind
\* that it has to refuse.
LEMMA GiveUpFacts ==
    ASSUME TypeOK, NEW p \in Process, NEW o \in Operation, thread[p][o] # None, GiveUp(p, o)
    PROVE  /\ ThreadsOK' /\ ThreadsElse(p, o)
           /\ \/ thread'[p][o] = None
              \/ /\ thread[p][o].admission /\ IsActive(o)
                 /\ thread'[p][o] # None /\ thread'[p][o].point = "refuse"
                 /\ thread'[p][o].fence = thread[p][o].fence
                 /\ thread'[p][o].outcome = thread[p][o].outcome
                 /\ thread'[p][o].admission = thread[p][o].admission
<1>1. CASE thread[p][o].admission /\ IsActive(o)
  BY <1>1, GotoFacts DEF GiveUp, Points
<1>2. CASE ~(thread[p][o].admission /\ IsActive(o))
  BY <1>2, EndFacts DEF GiveUp
<1> QED
  BY <1>1, <1>2

\* The types of a step that leaves the row, the timers and the processes.
LEMMA TypeParts ==
    ASSUME TypeOK, RecordsOK', WorkOK', ThreadsOK', PassesOK', faults' \in Nat,
           capsule' \in [Operation -> {"none", "stored", "expired"}],
           UNCHANGED <<input, holder, timers, proc>>
    PROVE  TypeOK'
BY DEF TypeOK, RecordsOK, WorkOK, ThreadsOK, PassesOK

\* A goroutine under the fence of the row takes care of its operation.
LEMMA Working ==
    ASSUME OpInv, NEW p \in Process, NEW o \in Operation, thread[p][o] # None,
           thread[p][o].fence = input.fence
    PROVE  holder = p /\ Care(p, o) /\ RowOK(o)
BY DEF OpInv, ProcessOK, ThreadOK, Held

\* A step of a goroutine that writes nothing.
LEMMA QuietThread ==
    ASSUME OpInv, NEW p \in Process, NEW o \in Operation, thread[p][o] # None,
           UNCHANGED <<input, holder, record, work, capsule, pass, timers, proc>>,
           faults' \in Nat, ThreadsOK', ThreadsElse(p, o),
           \/ thread'[p][o] = None
           \/ thread'[p][o].fence = thread[p][o].fence /\ (Care(p, o) => Care(p, o)')
    PROVE  OpInv' /\ LifeStep
<1>1. TypeOK
  BY DEF OpInv
<1>2. \A x \in Operation : SameRow(x)
  BY DEF SameRow, SameWork
<1>3. RecordsOK' /\ WorkOK' /\ PassesOK' /\ capsule' \in [Operation -> {"none", "stored", "expired"}]
  BY <1>1 DEF TypeOK, RecordsOK, WorkOK, PassesOK
<1>4. TypeOK'
  BY <1>1, <1>3, TypeParts
<1>5. ThreadOK(p, o)'
  <2>1. ThreadOK(p, o)
    BY DEF OpInv, ProcessOK
  <2> QED
    BY <2>1 DEF ThreadOK, Held
<1>6. RowOK(o)' /\ SameLife(o)
  BY <1>2, RowKept DEF OpInv
<1> QED
  BY <1>2, <1>4, <1>5, <1>6, ThreadStep DEF OtherRows, ThreadsElse, Moves

\* An active operation whose work is open is saved again, or stays.
LEMMA Resaved ==
    ASSUME NEW p \in Process, NEW o \in Operation, NEW status \in Active,
           RowOK(o), IsActive(o), ~IsComplete(o), SameWork(o), capsule'[o] = capsule[o],
           record'[o] = record[o] \/ Saved(p, o, status)
    PROVE  RowOK(o)' /\ IsActive(o)' /\ ~IsComplete(o)' /\ SameLife(o) /\ IsOpen(o)' = IsOpen(o)
<1>1. IsComplete(o)' = IsComplete(o) /\ IsOpen(o)' = IsOpen(o)
  BY SameWorkFacts
<1>2. IsActive(o)'
  BY DEF Saved, IsActive
<1> QED
  BY <1>1, <1>2 DEF RowOK, SameLife, Stage, Outcome, IsActive

\* The record is saved terminal.
LEMMA Terminal ==
    ASSUME NEW p \in Process, NEW o \in Operation, NEW status \in Outcomes \cup {"stale"},
           Saved(p, o, status)
    PROVE  /\ ~IsActive(o)' /\ RowOK(o)' /\ Stage(o)' = "published" /\ Outcome(o)' = status
<1>1. ~IsActive(o)'
  BY DEF Saved, IsActive, Active, Outcomes, Results
<1> QED
  BY <1>1 DEF Saved, RowOK, Stage, Outcome

\* ClaimWork of a new operation.
LEMMA DoClaimWork ==
    ASSUME OpInv, NEW p \in Process, NEW o \in Operation, ClaimWork(p, o)
    PROVE  OpInv' /\ LifeStep
<1> DEFINE t == thread[p][o]
<1>1. TypeOK /\ t # None /\ t.point = "claim" /\ t \in Threads
  BY DEF OpInv, TypeOK, ClaimWork, At
<1>2. UNCHANGED <<input, holder, record, capsule, pass, timers, proc>>
  BY DEF ClaimWork, row
<1>3. CASE /\ Authorised(t.fence, FALSE) /\ work[o] = None
           /\ work' = [work EXCEPT ![o] = [owner |-> p, live |-> TRUE, final |-> None]]
           /\ Goto(p, o, "enqueue") /\ UNCHANGED faults
  <2>1. t.fence = input.fence
    BY <1>3, Authority
  <2>2. holder = p /\ Care(p, o) /\ RowOK(o) /\ IsActive(o) /\ record[o].epoch = p
    BY <1>1, <2>1, Working DEF Care
  <2>3. /\ WorkOK' /\ IsOpen(o)' /\ ~IsComplete(o)' /\ work'[o].owner = p
        /\ \A x \in Operation : x # o => SameWork(x)
    BY <1>1, <1>3, ClaimFacts
  <2>4. /\ ThreadsOK' /\ ThreadsElse(p, o)
        /\ thread'[p][o] # None /\ thread'[p][o].point = "enqueue"
        /\ thread'[p][o].fence = t.fence /\ thread'[p][o].outcome = t.outcome
        /\ thread'[p][o].admission = t.admission
    BY <1>1, <1>3, GotoFacts DEF Points
  <2>5. TypeOK'
    <3>1. RecordsOK' /\ PassesOK' /\ faults' \in Nat
          /\ capsule' \in [Operation -> {"none", "stored", "expired"}]
      BY <1>1, <1>2, <1>3 DEF TypeOK, RecordsOK, PassesOK
    <3> QED
      BY <1>1, <1>2, <2>3, <2>4, <3>1, TypeParts
  <2>6. OtherRows(o)
    BY <1>2, <2>3 DEF OtherRows, SameRow
  <2>7. ~IsComplete(o) /\ IsActive(o)'
    BY <1>2, <1>3, <2>2 DEF IsComplete, IsActive
  <2>8. RowOK(o)'
    BY <1>2, <2>2, <2>3, <2>7 DEF RowOK, IsActive
  <2>9. ThreadOK(p, o)'
    <3>1. Held(p, t.fence)
      BY <1>1 DEF OpInv, ProcessOK, ThreadOK
    <3>2. Care(p, o)'
      BY <1>2, <2>2, <2>3, <2>4, <2>7 DEF Care
    <3> QED
      BY <1>2, <2>4, <3>1, <3>2 DEF ThreadOK, Held
  <2>10. Moves(o)
    BY <1>2, <2>2, <2>3, <2>7 DEF Moves, SameLife, Stage, Outcome, IsActive
  <2> QED
    BY <1>2, <2>2, <2>4, <2>5, <2>6, <2>8, <2>9, <2>10, ThreadStep DEF ThreadsElse
<1>4. CASE Goto(p, o, "refuse") /\ UNCHANGED work /\ (Fail \/ UNCHANGED faults)
  <2>1. faults' \in Nat
    BY <1>1, <1>4 DEF Fail, TypeOK
  <2>2. /\ ThreadsOK' /\ ThreadsElse(p, o)
        /\ thread'[p][o] # None /\ thread'[p][o].point = "refuse"
        /\ thread'[p][o].fence = t.fence /\ thread'[p][o].outcome = t.outcome
        /\ thread'[p][o].admission = t.admission
    BY <1>1, <1>4, GotoFacts DEF Points
  <2>3. Care(p, o) => Care(p, o)'
    BY <1>1, <1>2, <1>4, <2>2 DEF Care, IsActive, IsComplete, IsOpen
  <2> QED
    BY <1>1, <1>2, <1>4, <2>1, <2>2, <2>3, QuietThread
<1> QED
  BY <1>3, <1>4 DEF ClaimWork

\* The queued event is appended, and a worker takes the operation over.
LEMMA DoEnqueue ==
    ASSUME OpInv, NEW p \in Process, NEW o \in Operation, Enqueue(p, o)
    PROVE  OpInv' /\ LifeStep
<1> DEFINE t == thread[p][o]
<1>1. TypeOK /\ t # None /\ t.point = "enqueue" /\ t \in Threads /\ t.fence \in Nat
  BY DEF OpInv, TypeOK, Enqueue, At, Threads
<1>2. UNCHANGED <<input, holder, record, work, capsule, pass, timers, proc>>
  BY DEF Enqueue, row, tables
<1>3. CASE thread' = [thread EXCEPT ![p][o] = Dispatched(p, t.fence)] /\ UNCHANGED faults
  <2>1. \/ Dispatched(p, t.fence) = None
        \/ /\ Dispatched(p, t.fence) \in Threads
           /\ Dispatched(p, t.fence).fence = t.fence /\ Dispatched(p, t.fence).point = "begin"
           /\ Dispatched(p, t.fence).admission = FALSE
    <3>1. t.fence \in Nat
      BY <1>1
    <3> QED
      BY <3>1, DispatchBegins DEF Begins
  <2>2. ThreadsOK' /\ thread'[p][o] = Dispatched(p, t.fence) /\ ThreadsElse(p, o)
    BY <1>1, <1>3, <2>1, ThreadSet
  <2>3. faults' \in Nat
    BY <1>1, <1>3 DEF TypeOK
  <2>4. CASE Dispatched(p, t.fence) # None
    <3>1. Care(p, o) => Care(p, o)'
      BY <1>1, <1>2, <2>1, <2>2, <2>4 DEF Care, IsActive, IsComplete, IsOpen
    <3> QED
      BY <1>1, <1>2, <2>1, <2>2, <2>3, <2>4, <3>1, QuietThread
  <2> QED
    BY <1>1, <1>2, <2>2, <2>3, <2>4, QuietThread
<1>4. CASE GotoComplete(p, o, "failed", TRUE) /\ (Fail \/ UNCHANGED faults)
  <2>1. faults' \in Nat
    BY <1>1, <1>4 DEF Fail, TypeOK
  <2>2. /\ ThreadsOK' /\ ThreadsElse(p, o)
        /\ thread'[p][o] # None /\ thread'[p][o].point = "complete"
        /\ thread'[p][o].fence = t.fence /\ thread'[p][o].outcome = "failed"
    BY <1>1, <1>4, GotoCompleteFacts DEF Results
  <2>3. Care(p, o) => Care(p, o)'
    BY <1>1, <1>2, <2>2 DEF Care, IsActive, IsComplete, IsOpen
  <2> QED
    BY <1>1, <1>2, <2>1, <2>2, <2>3, QuietThread
<1> QED
  BY <1>3, <1>4 DEF Enqueue

\* A worker saves its operation, which stays active, or fails to.
LEMMA DoMutation ==
    ASSUME OpInv, NEW p \in Process, NEW o \in Operation, NEW status,
           thread[p][o] # None, thread[p][o].point \in {"begin", "work"},
           thread[p][o].fence = input.fence => status \in Active,
           \/ Mutates(p, thread[p][o].fence, o, status)
           \/ MutationFails(p, thread[p][o].fence, o, status),
           UNCHANGED <<input, holder, capsule, pass, timers, proc>>,
           ThreadsOK', ThreadsElse(p, o), thread'[p][o] # None,
           thread'[p][o].fence = thread[p][o].fence,
           thread'[p][o].point \in {"begin", "work", "complete"},
           \/ thread'[p][o].admission => thread'[p][o].outcome = "failed"
           \/ /\ thread'[p][o].admission = thread[p][o].admission
              /\ thread'[p][o].outcome = thread[p][o].outcome
    PROVE  OpInv' /\ LifeStep
<1> DEFINE t == thread[p][o]
<1>1. TypeOK
  BY DEF OpInv
<1>2. t.fence = input.fence => /\ holder = p /\ Care(p, o) /\ RowOK(o)
                               /\ record[o] # None /\ IsActive(o) /\ record[o].epoch = p
                               /\ IsOpen(o) /\ work[o].owner = p
  BY Working DEF Care
<1>3. t.fence = input.fence => record[o] # None /\ status \in RecordStatuses
  BY <1>2 DEF RecordStatuses
<1>4. /\ RecordsOK' /\ WorkOK' /\ faults' \in Nat
      /\ \A x \in Operation : SameWork(x)
      /\ \A x \in Operation : x # o => record'[x] = record[x]
      /\ record' = record \/ (t.fence = input.fence /\ Saved(p, o, status))
  BY <1>1, <1>3, MutationFacts
<1>5. TypeOK'
  <2>1. PassesOK' /\ capsule' \in [Operation -> {"none", "stored", "expired"}]
    BY <1>1 DEF TypeOK, PassesOK
  <2> QED
    BY <1>1, <1>4, <2>1, TypeParts
<1>6. OtherRows(o)
  BY <1>4 DEF OtherRows, SameRow
<1>7. ThreadOK(p, o)
  BY DEF OpInv, ProcessOK
<1>8. CASE t.fence # input.fence
  <2>1. SameRow(o)
    BY <1>4, <1>8 DEF SameRow
  <2>2. RowOK(o)' /\ SameLife(o)
    BY <2>1, RowKept DEF OpInv
  <2>3. ThreadOK(p, o)'
    BY <1>7, <1>8 DEF ThreadOK, Held
  <2> QED
    BY <1>5, <1>6, <2>1, <2>2, <2>3, ThreadStep DEF ThreadsElse, Moves
<1>9. CASE t.fence = input.fence
  <2>1. ~IsComplete(o)
    BY <1>2, <1>9 DEF IsOpen, IsComplete
  <2>2. RowOK(o)' /\ IsActive(o)' /\ ~IsComplete(o)' /\ SameLife(o) /\ IsOpen(o)' = IsOpen(o)
    BY <1>2, <1>4, <1>9, <2>1, Resaved
  <2>3. record'[o] # None /\ record'[o].epoch = p /\ work'[o].owner = p
    BY <1>2, <1>4, <1>9 DEF Saved, SameWork, IsOpen
  <2>4. thread'[p][o].admission => thread'[p][o].outcome = "failed"
    BY <1>2, <1>9 DEF Care
  <2>5. Care(p, o)'
    BY <1>2, <1>9, <2>2, <2>3, <2>4 DEF Care
  <2>6. ThreadOK(p, o)'
    BY <1>7, <2>5 DEF ThreadOK, Held
  <2> QED
    BY <1>2, <1>5, <1>6, <1>9, <2>2, <2>6, ThreadStep DEF ThreadsElse, Moves
<1> QED
  BY <1>8, <1>9

\* runOperation reports running.
LEMMA DoBegin ==
    ASSUME OpInv, NEW p \in Process, NEW o \in Operation, Begin(p, o)
    PROVE  OpInv' /\ LifeStep
<1> DEFINE t == thread[p][o]
<1>1. TypeOK /\ t # None /\ t.point = "begin"
  BY DEF OpInv, Begin, At
<1>2. UNCHANGED <<input, holder, capsule, pass, timers, proc>>
  BY DEF Begin, row
<1>3. "running" \in Active
  BY DEF Active
<1>4. CASE Mutates(p, t.fence, o, "running") /\ Goto(p, o, "work")
  BY <1>1, <1>2, <1>3, <1>4, GotoFacts, DoMutation DEF Points
<1>5. CASE MutationFails(p, t.fence, o, "running") /\ GotoComplete(p, o, "failed", TRUE)
  BY <1>1, <1>2, <1>3, <1>5, GotoCompleteFacts, DoMutation DEF Results
<1> QED
  BY <1>4, <1>5 DEF Begin

\* The reporter flushes progress.
LEMMA DoProgress ==
    ASSUME OpInv, NEW p \in Process, NEW o \in Operation, Progress(p, o)
    PROVE  OpInv' /\ LifeStep
<1> DEFINE t == thread[p][o]
<1>1. TypeOK /\ t # None /\ t.point = "work"
  BY DEF OpInv, Progress, At
<1>2. UNCHANGED <<input, holder, capsule, pass, timers, proc, thread>>
  BY DEF Progress, row
<1>3. t.fence = input.fence => record[o].status \in Active
  BY <1>1, Working DEF Care, IsActive
<1>4. ThreadsOK' /\ ThreadsElse(p, o) /\ thread'[p][o] = t
  BY <1>1, <1>2 DEF TypeOK, ThreadsOK, ThreadsElse
<1>5. \/ Mutates(p, t.fence, o, record[o].status)
      \/ MutationFails(p, t.fence, o, record[o].status)
  BY DEF Progress
<1> QED
  BY <1>1, <1>2, <1>3, <1>4, <1>5, DoMutation

\* The command ends.
LEMMA DoFinish ==
    ASSUME OpInv, NEW p \in Process, NEW o \in Operation, Finish(p, o)
    PROVE  OpInv' /\ LifeStep
<1> DEFINE t == thread[p][o]
<1>1. TypeOK /\ t # None /\ t.point = "work"
  BY DEF OpInv, Finish, At
<1>2. UNCHANGED <<input, holder, record, work, capsule, pass, timers, proc>> /\ faults' \in Nat
  BY <1>1 DEF Finish, row, tables, TypeOK
<1>3. PICK outcome \in Results : GotoComplete(p, o, outcome, FALSE)
  BY DEF Finish
<1>4. /\ ThreadsOK' /\ ThreadsElse(p, o)
      /\ thread'[p][o] # None /\ thread'[p][o].point = "complete"
      /\ thread'[p][o].fence = t.fence /\ thread'[p][o].admission = FALSE
  BY <1>1, <1>3, GotoCompleteFacts
<1>5. Care(p, o) => Care(p, o)'
  BY <1>1, <1>2, <1>4 DEF Care, IsActive, IsComplete, IsOpen
<1> QED
  BY <1>1, <1>2, <1>4, <1>5, QuietThread

\* completeOperation up to CompleteWork: the outcome is decided.
LEMMA DoCompleteWork ==
    ASSUME OpInv, NEW p \in Process, NEW o \in Operation, CompleteWork(p, o)
    PROVE  OpInv' /\ LifeStep
<1> DEFINE t == thread[p][o]
<1>1. /\ TypeOK /\ t # None /\ t.point = "complete"
      /\ t.outcome \in Results
  BY DEF OpInv, CompleteWork, At, TypeOK, Threads
<1>2. UNCHANGED <<input, holder, record, capsule, pass, timers, proc>>
  BY DEF CompleteWork, row
<1>3. CASE /\ IsActive(o) /\ Authorised(t.fence, TRUE) /\ Leased(p, o)
           /\ Complete(p, o, record[o].seq + 1, t.outcome)
           /\ Goto(p, o, "publish") /\ UNCHANGED faults
  <2>1. t.fence = input.fence
    BY <1>3, Authority
  <2>2. holder = p /\ Care(p, o) /\ RowOK(o) /\ record[o] # None /\ record[o].epoch = p
    BY <1>1, <2>1, Working DEF Care
  <2>3. work[o] # None /\ ~IsComplete(o) /\ IsOpen(o)
    BY <1>3 DEF Leased, IsOpen, IsComplete
  <2>4. record[o].seq + 1 \in Nat /\ t.outcome \in Outcomes
    BY <1>1, <2>2 DEF TypeOK, Records, Outcomes
  <2>5. /\ WorkOK' /\ IsComplete(o)' /\ work'[o].owner = p
        /\ work'[o].final.seq = record[o].seq + 1 /\ work'[o].final.status = t.outcome
        /\ \A x \in Operation : x # o => SameWork(x)
    BY <1>1, <1>3, <2>3, <2>4, CompleteFacts
  <2>6. /\ ThreadsOK' /\ ThreadsElse(p, o)
        /\ thread'[p][o] # None /\ thread'[p][o].point = "publish"
        /\ thread'[p][o].fence = t.fence /\ thread'[p][o].outcome = t.outcome
        /\ thread'[p][o].admission = t.admission
    BY <1>1, <1>3, GotoFacts DEF Points
  <2>7. TypeOK'
    <3>1. RecordsOK' /\ PassesOK' /\ faults' \in Nat
          /\ capsule' \in [Operation -> {"none", "stored", "expired"}]
      BY <1>1, <1>2, <1>3 DEF TypeOK, RecordsOK, PassesOK
    <3> QED
      BY <1>1, <1>2, <2>5, <2>6, <3>1, TypeParts
  <2>8. OtherRows(o)
    BY <1>2, <2>5 DEF OtherRows, SameRow
  <2>9. IsActive(o)'
    BY <1>2, <1>3 DEF IsActive
  <2>10. RowOK(o)'
    BY <1>2, <2>2, <2>5, <2>9 DEF RowOK, Follows
  <2>11. ThreadOK(p, o)'
    <3>1. Held(p, t.fence)
      BY <1>1 DEF OpInv, ProcessOK, ThreadOK
    <3>2. Care(p, o)'
      BY <1>2, <2>2, <2>5, <2>6, <2>9 DEF Care
    <3> QED
      BY <1>2, <2>6, <3>1, <3>2 DEF ThreadOK, Held
  <2>12. Moves(o)
    <3>1. Stage(o) = "open"
      BY <1>3, <2>2, <2>3 DEF Stage
    <3>2. Stage(o)' = "decided" /\ Outcome(o)' = t.outcome
      BY <1>2, <2>2, <2>5, <2>9 DEF Stage, Outcome
    <3> QED
      BY <2>4, <3>1, <3>2 DEF Moves
  <2> QED
    BY <1>2, <1>3, <2>2, <2>6, <2>7, <2>8, <2>10, <2>11, <2>12, ThreadStep DEF ThreadsElse
<1>4. CASE GiveUp(p, o) /\ UNCHANGED work /\ (Fail \/ UNCHANGED faults)
  <2>1. faults' \in Nat
    BY <1>1, <1>4 DEF Fail, TypeOK
  <2>2. /\ ThreadsOK' /\ ThreadsElse(p, o)
        /\ \/ thread'[p][o] = None
           \/ /\ thread'[p][o] # None /\ thread'[p][o].point = "refuse"
              /\ thread'[p][o].fence = t.fence /\ thread'[p][o].outcome = t.outcome
              /\ thread'[p][o].admission = t.admission
    BY <1>1, <1>4, GiveUpFacts
  <2>3. thread'[p][o] # None => (Care(p, o) => Care(p, o)')
    BY <1>1, <1>2, <1>4, <2>2 DEF Care, IsActive, IsComplete, IsOpen
  <2> QED
    BY <1>1, <1>2, <1>4, <2>1, <2>2, <2>3, QuietThread
<1> QED
  BY <1>3, <1>4 DEF CompleteWork

\* completeOperation from SaveOperation on: the outcome is published.
LEMMA DoPublish ==
    ASSUME OpInv, NEW p \in Process, NEW o \in Operation, Publish(p, o)
    PROVE  OpInv' /\ LifeStep
<1> DEFINE t == thread[p][o]
<1>1. TypeOK /\ t # None /\ t.point = "publish"
  BY DEF OpInv, Publish, At
<1>2. UNCHANGED <<input, holder, work, pass, timers, proc>>
  BY DEF Publish, row
<1>3. CASE /\ Authorised(t.fence, TRUE)
           /\ Save(p, o, work[o].final.status) /\ Discard(o) /\ End(p, o) /\ UNCHANGED faults
  <2>1. t.fence = input.fence
    BY <1>3, Authority
  <2>2. /\ holder = p /\ record[o] # None /\ record[o].epoch = p
        /\ IsActive(o) /\ IsComplete(o)
    BY <1>1, <2>1, Working DEF Care
  <2>3. work[o].final.status \in Outcomes
    BY <1>1, <2>2 DEF IsComplete, TypeOK, WorkRows, Checkpoints
  <2>4. work[o].final.status \in RecordStatuses
    BY <2>3 DEF RecordStatuses
  <2>5. /\ RecordsOK' /\ Saved(p, o, work[o].final.status)
        /\ \A x \in Operation : x # o => record'[x] = record[x]
    BY <1>1, <1>3, <2>2, <2>4, SaveFacts
  <2>6. /\ capsule' \in [Operation -> {"none", "stored", "expired"}]
        /\ \A x \in Operation : x # o => capsule'[x] = capsule[x]
    BY <1>1, <1>3, DiscardFacts
  <2>7. ThreadsOK' /\ ThreadsElse(p, o) /\ thread'[p][o] = None
    BY <1>1, <1>3, EndFacts
  <2>8. TypeOK'
    <3>1. WorkOK' /\ PassesOK' /\ faults' \in Nat
      BY <1>1, <1>2, <1>3 DEF TypeOK, WorkOK, PassesOK
    <3> QED
      BY <1>1, <1>2, <2>5, <2>6, <2>7, <3>1, TypeParts
  <2>9. OtherRows(o)
    BY <1>2, <2>5, <2>6 DEF OtherRows, SameRow, SameWork
  <2>10. /\ ~IsActive(o)' /\ RowOK(o)' /\ Stage(o)' = "published"
         /\ Outcome(o)' = work[o].final.status
    BY <2>3, <2>5, Terminal
  <2>11. ThreadOK(p, o)'
    BY <2>7 DEF ThreadOK
  <2>12. Moves(o)
    BY <2>2, <2>10 DEF Moves, Stage, Outcome, IsActive
  <2> QED
    BY <1>2, <2>2, <2>7, <2>8, <2>9, <2>10, <2>11, <2>12, ThreadStep DEF ThreadsElse
<1>4. CASE GiveUp(p, o) /\ UNCHANGED <<record, capsule>> /\ (Fail \/ UNCHANGED faults)
  <2>1. faults' \in Nat
    BY <1>1, <1>4 DEF Fail, TypeOK
  <2>2. /\ ThreadsOK' /\ ThreadsElse(p, o)
        /\ \/ thread'[p][o] = None
           \/ /\ t.admission
              /\ thread'[p][o] # None /\ thread'[p][o].point = "refuse"
              /\ thread'[p][o].fence = t.fence /\ thread'[p][o].outcome = t.outcome
              /\ thread'[p][o].admission = t.admission
    BY <1>1, <1>4, GiveUpFacts
  <2>3. thread'[p][o] # None => (Care(p, o) => Care(p, o)')
    BY <1>1, <1>2, <1>4, <2>2 DEF Care, IsActive, IsComplete, IsOpen
  <2> QED
    BY <1>1, <1>2, <1>4, <2>1, <2>2, <2>3, QuietThread
<1> QED
  BY <1>3, <1>4 DEF Publish

\* publishOperationAdmissionFailure: a checkpoint that lags says the same.
LEMMA DoRefuse ==
    ASSUME OpInv, NEW p \in Process, NEW o \in Operation, Refuse(p, o)
    PROVE  OpInv' /\ LifeStep
<1> DEFINE t == thread[p][o]
<1>1. TypeOK /\ t # None /\ t.point = "refuse"
  BY DEF OpInv, Refuse, At
<1>2. UNCHANGED <<input, holder, work, pass, timers, proc>>
  BY DEF Refuse, row
<1>3. ThreadsOK' /\ ThreadsElse(p, o) /\ thread'[p][o] = None
  BY <1>1, EndFacts DEF Refuse
<1>4. WorkOK' /\ PassesOK'
  BY <1>1, <1>2 DEF TypeOK, WorkOK, PassesOK
<1>5. ThreadOK(p, o)'
  BY <1>3 DEF ThreadOK
<1>6. CASE ~IsActive(o) /\ Discard(o) /\ UNCHANGED <<record, faults>>
  <2>1. /\ capsule' \in [Operation -> {"none", "stored", "expired"}]
        /\ \A x \in Operation : x # o => capsule'[x] = capsule[x]
    BY <1>1, <1>6, DiscardFacts
  <2>2. RecordsOK' /\ faults' \in Nat
    BY <1>1, <1>6 DEF TypeOK, RecordsOK
  <2>3. TypeOK'
    BY <1>1, <1>2, <1>3, <1>4, <2>1, <2>2, TypeParts
  <2>4. SameRow(o) /\ OtherRows(o)
    BY <1>2, <1>6, <2>1 DEF OtherRows, SameRow, SameWork
  <2>5. RowOK(o)' /\ SameLife(o)
    BY <2>4, RowKept DEF OpInv
  <2> QED
    BY <1>2, <1>3, <1>5, <2>3, <2>4, <2>5, ThreadStep DEF ThreadsElse, Moves
<1>7. CASE /\ IsActive(o) /\ Authorised(t.fence, TRUE)
           /\ Save(p, o, "failed") /\ Discard(o) /\ UNCHANGED faults
  <2>1. t.fence = input.fence
    BY <1>7, Authority
  <2>2. /\ holder = p /\ record[o] # None /\ record[o].epoch = p
        /\ IsComplete(o) => work[o].final.status = "failed"
    BY <1>1, <1>7, <2>1, Working DEF Care
  <2>3. "failed" \in RecordStatuses /\ "failed" \in Outcomes
    BY DEF RecordStatuses, Outcomes, Results
  <2>4. /\ RecordsOK' /\ Saved(p, o, "failed")
        /\ \A x \in Operation : x # o => record'[x] = record[x]
    BY <1>1, <1>7, <2>2, <2>3, SaveFacts
  <2>5. /\ capsule' \in [Operation -> {"none", "stored", "expired"}]
        /\ \A x \in Operation : x # o => capsule'[x] = capsule[x]
    BY <1>1, <1>7, DiscardFacts
  <2>6. TypeOK'
    <3>1. faults' \in Nat
      BY <1>1, <1>7 DEF TypeOK
    <3> QED
      BY <1>1, <1>2, <1>3, <1>4, <2>4, <2>5, <3>1, TypeParts
  <2>7. OtherRows(o)
    BY <1>2, <2>4, <2>5 DEF OtherRows, SameRow, SameWork
  <2>8. ~IsActive(o)' /\ RowOK(o)' /\ Stage(o)' = "published" /\ Outcome(o)' = "failed"
    BY <2>3, <2>4, Terminal
  <2>9. Moves(o)
    BY <1>7, <2>2, <2>3, <2>8 DEF Moves, Stage, Outcome, IsActive
  <2> QED
    BY <1>2, <1>3, <1>5, <1>7, <2>2, <2>6, <2>7, <2>8, <2>9, ThreadStep DEF ThreadsElse
<1>8. CASE UNCHANGED <<record, capsule>> /\ (Fail \/ UNCHANGED faults)
  <2>1. faults' \in Nat
    BY <1>1, <1>8 DEF Fail, TypeOK
  <2> QED
    BY <1>1, <1>2, <1>3, <1>8, <2>1, QuietThread
<1> QED
  BY <1>6, <1>7, <1>8 DEF Refuse

\* A lease that is renewed or runs out.
LEMMA LeaseOnly ==
    ASSUME TypeOK, NEW o \in Operation, IsOpen(o), NEW live \in BOOLEAN,
           work' = [work EXCEPT ![o].live = live]
    PROVE  WorkOK' /\ \A x \in Operation : SameWork(x)
<1> DEFINE w == [work[o] EXCEPT !.live = live]
<1>1. work[o] \in WorkRows /\ work[o] # None
  BY DEF TypeOK, IsOpen
<1>2. w \in WorkRows /\ w.owner = work[o].owner /\ w.final = work[o].final
  BY <1>1 DEF WorkRows
<1>3. work' = [work EXCEPT ![o] = w]
  OBVIOUS
<1> HIDE DEF w
<1>4. WorkOK' /\ work'[o] = w /\ w # None /\ \A x \in Operation : x # o => SameWork(x)
  BY <1>2, <1>3, WorkSet
<1> QED
  BY <1>1, <1>2, <1>4 DEF SameWork

\* renewOperationWorkLease.
LEMMA DoRenew ==
    ASSUME OpInv, NEW p \in Process, NEW o \in Operation, Renew(p, o)
    PROVE  OpInv' /\ LifeStep
<1>1. TypeOK /\ UNCHANGED <<input, holder, record, capsule, thread, pass, timers, proc, faults>>
  BY DEF OpInv, Renew, row
<1>2. WorkOK' /\ \A x \in Operation : SameWork(x)
  BY <1>1, LeaseOnly DEF Renew, Leased
<1>3. \A x \in Operation : SameRow(x)
  BY <1>1, <1>2 DEF SameRow
<1>4. TypeOK'
  <2>1. /\ RecordsOK' /\ ThreadsOK' /\ PassesOK' /\ faults' \in Nat
        /\ capsule' \in [Operation -> {"none", "stored", "expired"}]
    BY <1>1 DEF TypeOK, RecordsOK, ThreadsOK, PassesOK
  <2> QED
    BY <1>1, <1>2, <2>1, TypeParts
<1>5. PassOK(p)' /\ TimersOK(p)'
  <2>1. \A t \in timers[p] : t.op \in Operation
    BY <1>1 DEF TypeOK, Timers
  <2> QED
    BY <1>1, <1>3, <2>1, PassKept, TimersKept DEF OpInv, ProcessOK
<1> QED
  BY <1>1, <1>3, <1>4, <1>5, ProcessStep

-----------------------------------------------------------------------------
(* Queries that write, and new operations.                                 *)

\* A pass may be at an operation the process publishes or supersedes in the
\* meantime: it will find it as it was, or published.
LEMMA PassNear ==
    ASSUME TypeOK, NEW p \in Process, NEW o \in Operation, PassOK(p),
           UNCHANGED <<input, holder>>, pass'[p] = pass[p], proc'[p] = proc[p],
           OtherRows(o), SameWork(o), ~(IsActive(o) /\ ~IsComplete(o)),
           \A seq : Waiting(p, o, seq) => Waiting(p, o, seq)',
           record[o] # None /\ record[o].status = "interrupted" => record'[o] = record[o]
    PROVE  PassOK(p)'
<1> SUFFICES ASSUME pass[p] # None
             PROVE  PassOK(p)'
  BY DEF PassOK
<1>1. CASE pass[p].point = "sweep" \/ pass[p].op # o
  BY <1>1, PassKept DEF OtherRows
<1>2. CASE pass[p].point # "sweep" /\ pass[p].op = o
  <2>1. Held(p, pass[p].fence) /\ Held(p, pass[p].fence)'
    BY DEF PassOK, Held
  <2>2. ASSUME pass[p].fence = input.fence
        PROVE  Charge(p)'
    <3>1. Charge(p)
      BY <2>2 DEF PassOK
    <3>2. pass'[p].op = o /\ pass'[p].seq = pass[p].seq /\ pass'[p].point = pass[p].point
      BY <1>2
    <3>3. pass'[p].point \in {"look", "publish"} => Waiting(p, pass[p].op, pass[p].seq)'
      <4>1. pass[p].point \in {"look", "publish"} => Waiting(p, o, pass[p].seq)'
        BY <1>2, <3>1 DEF Charge
      <4> QED
        BY <1>2, <3>2, <4>1 DEF Waiting, IsActive, IsComplete
    <3>4. IsComplete(o)' = IsComplete(o)
      BY SameWorkFacts
    <3>5. pass[p].point \notin {"claim", "check", "adopt", "interrupt"}
      BY <1>2, <3>1 DEF Charge
    <3>6. pass[p].point = "finish" => record'[o] # None /\ record'[o].status = "interrupted"
      BY <1>2, <3>1 DEF Charge
    <3> QED
      BY <1>2, <3>1, <3>2, <3>3, <3>4, <3>5, <3>6 DEF Charge, IsComplete
  <2> QED
    BY <2>1, <2>2 DEF PassOK
<1> QED
  BY <1>1, <1>2

\* So may a delayed recovery.
LEMMA TimersNear ==
    ASSUME TypeOK, NEW p \in Process, NEW o \in Operation, TimersOK(p),
           UNCHANGED <<input, holder>>, timers'[p] = timers[p], pass'[p] = pass[p],
           proc'[p] = proc[p], OtherRows(o),
           \A seq : Waiting(p, o, seq) => Waiting(p, o, seq)'
    PROVE  TimersOK(p)'
<1>1. \A t \in timers[p] : Held(p, t.fence) /\ Held(p, t.fence)'
  BY DEF TimersOK, Held
<1>2. ASSUME NEW t \in timers[p], t.fence = input.fence, ~proc[p].startup
      PROVE  Waiting(p, t.op, t.seq)'
  <2>1. t.op \in Operation /\ Waiting(p, t.op, t.seq)
    BY <1>2 DEF TimersOK, TypeOK, Timers
  <2>2. CASE t.op # o
    BY <2>1, <2>2, RowKept DEF OtherRows
  <2>3. CASE t.op = o
    <3>1. Waiting(p, o, t.seq)'
      BY <2>1, <2>3
    <3> QED
      BY <2>3, <3>1 DEF Waiting, IsActive, IsComplete
  <2> QED
    BY <2>2, <2>3
<1> QED
  BY <1>1, <1>2 DEF TimersOK

\* convergeCompletedOperationCheckpoint.
LEMMA DoConverge ==
    ASSUME OpInv, NEW p \in Process, NEW o \in Operation, Converge(p, o)
    PROVE  OpInv' /\ LifeStep
<1>1. /\ TypeOK /\ holder = p /\ IsActive(o) /\ IsComplete(o) /\ ~Locked(p, o)
      /\ Follows(o) /\ Save(p, o, work[o].final.status) /\ Discard(o)
      /\ UNCHANGED <<input, holder, work, thread, pass, timers, proc, faults>>
  BY DEF OpInv, Converge, row
<1>2. work[o].final.status \in Outcomes /\ record[o] # None
  BY <1>1 DEF IsComplete, IsActive, TypeOK, WorkRows, Checkpoints
<1>3. work[o].final.status \in RecordStatuses
  BY <1>2 DEF RecordStatuses
<1>4. /\ RecordsOK' /\ Saved(p, o, work[o].final.status)
      /\ \A x \in Operation : x # o => record'[x] = record[x]
  BY <1>1, <1>2, <1>3, SaveFacts
<1>5. /\ capsule' \in [Operation -> {"none", "stored", "expired"}]
      /\ \A x \in Operation : x # o => capsule'[x] = capsule[x]
  BY <1>1, DiscardFacts
<1>6. TypeOK'
  <2>1. WorkOK' /\ ThreadsOK' /\ PassesOK' /\ faults' \in Nat
    BY <1>1 DEF TypeOK, WorkOK, ThreadsOK, PassesOK
  <2> QED
    BY <1>1, <1>4, <1>5, <2>1, TypeParts
<1>7. Local(p, o) /\ OtherRows(o) /\ SameWork(o)
  BY <1>1, <1>4, <1>5 DEF Local, OtherRows, SameRow, SameWork
<1>8. ~IsActive(o)' /\ RowOK(o)' /\ Stage(o)' = "published" /\ Outcome(o)' = work[o].final.status
  BY <1>2, <1>4, Terminal
<1>9. Moves(o)
  BY <1>1, <1>2, <1>8 DEF Moves, Stage, Outcome
<1>10. IsComplete(o)' = IsComplete(o)
  BY <1>7, SameWorkFacts
<1>11. \A seq : Waiting(p, o, seq) => Waiting(p, o, seq)'
  BY <1>1, <1>4, <1>8, <1>10 DEF Waiting, Saved, Follows
<1>12. record[o].status # "interrupted"
  BY <1>1 DEF IsActive, Active
<1>13. PassOK(p)' /\ TimersOK(p)'
  <2>1. PassOK(p) /\ TimersOK(p)
    BY DEF OpInv, ProcessOK
  <2>2. PassOK(p)'
    BY <1>1, <1>7, <1>11, <1>12, <2>1, PassNear
  <2>3. TimersOK(p)'
    BY <1>1, <1>7, <1>11, <2>1, TimersNear
  <2> QED
    BY <2>2, <2>3
<1>14. ThreadOK(p, o)'
  <2> SUFFICES ASSUME thread[p][o] # None
               PROVE  ThreadOK(p, o)'
    BY <1>1 DEF ThreadOK
  <2>1. Held(p, thread[p][o].fence)
    BY DEF OpInv, ProcessOK, ThreadOK
  <2>2. ASSUME thread[p][o].fence = input.fence
        PROVE  Care(p, o)'
    <3>1. Care(p, o)
      BY <2>2, Working
    <3>2. thread[p][o].point = "refuse"
      <4>1. thread[p][o].point \in Points
        BY <1>1 DEF TypeOK, Threads
      <4>2. ~IsOpen(o) /\ work[o] # None
        BY <1>1 DEF IsOpen, IsComplete
      <4> QED
        BY <1>1, <3>1, <4>1, <4>2 DEF Care, Points, Locked, At
    <3> QED
      BY <1>1, <1>4, <1>8, <3>1, <3>2 DEF Care, Saved
  <2> QED
    BY <1>1, <2>1, <2>2 DEF ThreadOK, Held
<1> QED
  BY <1>1, <1>6, <1>7, <1>8, <1>9, <1>13, <1>14, LocalStep

\* markOperationResultStale.
LEMMA DoMarkStale ==
    ASSUME OpInv, NEW p \in Process, NEW o \in Operation, MarkStale(p, o)
    PROVE  OpInv' /\ LifeStep
<1>1. /\ TypeOK /\ holder = p /\ record[o] # None /\ record[o].status = "completed"
      /\ UNCHANGED <<input, holder, capsule, thread, pass, timers, proc>>
      /\ Mutates(p, input.fence, o, "stale") \/ MutationFails(p, input.fence, o, "stale")
  BY DEF OpInv, MarkStale, row
<1>2. "stale" \in RecordStatuses
  BY DEF RecordStatuses
<1>3. /\ RecordsOK' /\ WorkOK' /\ faults' \in Nat
      /\ \A x \in Operation : SameWork(x)
      /\ \A x \in Operation : x # o => record'[x] = record[x]
      /\ record' = record \/ Saved(p, o, "stale")
  BY <1>1, <1>2, MutationFacts
<1>4. TypeOK'
  <2>1. ThreadsOK' /\ PassesOK' /\ capsule' \in [Operation -> {"none", "stored", "expired"}]
    BY <1>1 DEF TypeOK, ThreadsOK, PassesOK
  <2> QED
    BY <1>1, <1>3, <2>1, TypeParts
<1>5. Local(p, o) /\ OtherRows(o)
  BY <1>1, <1>3 DEF Local, OtherRows, SameRow
<1>6. ~IsActive(o)
  BY <1>1 DEF IsActive, Active
<1>7. ~IsActive(o)' /\ RowOK(o)' /\ Moves(o) /\ record'[o] # None
  <2>1. CASE record' = record
    <3>1. SameRow(o)
      BY <1>1, <1>3, <2>1 DEF SameRow
    <3> QED
      BY <1>1, <1>6, <2>1, <3>1, RowKept DEF Moves, OpInv
  <2>2. CASE Saved(p, o, "stale")
    <3>1. /\ ~IsActive(o)' /\ RowOK(o)' /\ Stage(o)' = "published" /\ Outcome(o)' = "stale"
      BY <2>2, Terminal
    <3>2. Stage(o) = "published" /\ Outcome(o) = "completed"
      BY <1>1, <1>6 DEF Stage, Outcome
    <3> QED
      BY <2>2, <3>1, <3>2 DEF Moves, Saved
  <2> QED
    BY <1>3, <2>1, <2>2
<1>8. \A seq : Waiting(p, o, seq) => Waiting(p, o, seq)'
  <2>1. IsComplete(o)' = IsComplete(o)
    BY <1>3, SameWorkFacts
  <2> QED
    BY <1>3, <1>6, <1>7, <2>1 DEF Waiting, SameWork, IsComplete
<1>9. PassOK(p)' /\ TimersOK(p)'
  <2>1. PassOK(p) /\ TimersOK(p)
    BY DEF OpInv, ProcessOK
  <2>2. PassOK(p)'
    BY <1>1, <1>3, <1>5, <1>6, <1>8, <2>1, PassNear
  <2>3. TimersOK(p)'
    BY <1>1, <1>5, <1>8, <2>1, TimersNear
  <2> QED
    BY <2>2, <2>3
<1>10. ThreadOK(p, o)'
  <2> SUFFICES ASSUME thread[p][o] # None
               PROVE  ThreadOK(p, o)'
    BY <1>1 DEF ThreadOK
  <2>1. Held(p, thread[p][o].fence)
    BY DEF OpInv, ProcessOK, ThreadOK
  <2>2. ASSUME thread[p][o].fence = input.fence
        PROVE  Care(p, o)'
    <3>1. Care(p, o)
      BY <2>2, Working
    <3>2. thread[p][o].point = "refuse"
      BY <1>6, <3>1 DEF Care
    <3>3. record'[o].epoch = p
      BY <1>3, <3>1 DEF Care, Saved
    <3> QED
      BY <1>1, <1>7, <3>1, <3>2, <3>3 DEF Care
  <2> QED
    BY <1>1, <2>1, <2>2 DEF ThreadOK, Held
<1> QED
  BY <1>1, <1>4, <1>5, <1>7, <1>9, <1>10, LocalStep

\* Start creates the record of an operation when none is active.
LEMMA DoStart ==
    ASSUME OpInv, NEW p \in Process, NEW o \in Operation, Start(p, o)
    PROVE  OpInv' /\ LifeStep
<1> DEFINE new == [seq |-> 1, status |-> "queued", epoch |-> p]
<1>1. /\ TypeOK /\ holder = p /\ ActiveOps = {} /\ record[o] = None
      /\ record' = [record EXCEPT ![o] = new]
      /\ capsule' = [capsule EXCEPT ![o] = "stored"]
      /\ thread' = [thread EXCEPT ![p][o] = Spawned(input.fence, FALSE, "claim")]
      /\ UNCHANGED <<input, holder, work, pass, timers, proc, faults>>
  BY DEF OpInv, Start, row
<1>2. new \in Records
  BY DEF Records, Active
<1>3. /\ record' \in [Operation -> Records \cup {None}] /\ record'[o] = new
      /\ \A x \in Operation : x # o => record'[x] = record[x]
  BY <1>1, <1>2 DEF TypeOK
<1>4. new # None /\ new.status = "queued" /\ new.epoch = p
  BY <1>2, OperationAssumption
<1> HIDE DEF new
<1>5. /\ capsule' \in [Operation -> {"none", "stored", "expired"}] /\ capsule'[o] = "stored"
      /\ \A x \in Operation : x # o => capsule'[x] = capsule[x]
  BY <1>1 DEF TypeOK
<1>6. PICK t : t = Spawned(input.fence, FALSE, "claim") /\ Begins(t, input.fence, "claim")
  <2>1. input.fence \in Nat
    BY <1>1 DEF TypeOK, Inputs
  <2> QED
    BY <2>1, StartBegins
<1>7. ThreadsOK' /\ ThreadsElse(p, o) /\ thread'[p][o] = t
  <2>1. thread' = [thread EXCEPT ![p][o] = t] /\ t \in Threads
    BY <1>1, <1>6 DEF Begins
  <2> QED
    BY <1>1, <2>1, ThreadSet
<1>8. TypeOK'
  <2>1. WorkOK' /\ PassesOK' /\ faults' \in Nat
    BY <1>1 DEF TypeOK, WorkOK, PassesOK
  <2> QED
    BY <1>1, <1>3, <1>5, <1>7, <2>1, TypeParts DEF RecordsOK
<1>9. Local(p, o) /\ OtherRows(o) /\ SameWork(o)
  BY <1>1, <1>3, <1>5, <1>7 DEF Local, OtherRows, SameRow, SameWork, ThreadsElse
<1>10. work[o] = None /\ work'[o] = None
  BY <1>1 DEF OpInv, RowOK
<1>11. IsActive(o)' /\ ~IsActive(o)
  BY <1>1, <1>3, <1>4 DEF IsActive, Active
<1>12. RowOK(o)'
  BY <1>3, <1>4, <1>5, <1>10 DEF RowOK, IsComplete
<1>13. PassOK(p)' /\ TimersOK(p)'
  <2>1. PassOK(p) /\ TimersOK(p) /\ \A seq : ~Waiting(p, o, seq)
    BY <1>1 DEF OpInv, ProcessOK, Waiting
  <2>2. PassOK(p)'
    BY <1>1, <1>9, <1>11, <2>1, PassNear
  <2>3. TimersOK(p)'
    BY <1>1, <1>9, <2>1, TimersNear
  <2> QED
    BY <2>2, <2>3
<1>14. ThreadOK(p, o)'
  <2>1. Held(p, input.fence)'
    BY <1>1 DEF Held, TypeOK, Inputs
  <2>2. Care(p, o)'
    BY <1>3, <1>4, <1>6, <1>7, <1>10, <1>11 DEF Begins, Care, IsComplete
  <2> QED
    BY <1>1, <1>6, <1>7, <2>1, <2>2 DEF Begins, ThreadOK
<1>15. OpInv'
  BY <1>1, <1>8, <1>9, <1>12, <1>13, <1>14, LocalStep
<1>16. LifeStep
  <2>1. \A x \in Operation : x # o => SameLife(x)
    BY <1>9, RowKept DEF OtherRows
  <2>2. \A x \in Operation : Stage(x) \in {"absent", "published"}
    BY <1>1 DEF Stage, ActiveOps
  <2>3. /\ Stage(o) = "absent" /\ Stage(o)' = "open"
        /\ Outcome(o) = None /\ Outcome(o)' = None
    BY <1>1, <1>3, <1>4, <1>10, <1>11 DEF Stage, Outcome, IsComplete
  <2>4. /\ Stages[o] = "absent" /\ \A x \in Operation : Stages[x] \in {"absent", "published"}
        /\ Stages' = [Stages EXCEPT ![o] = "open"] /\ Decided' = Decided
    BY <2>1, <2>2, <2>3 DEF Stages, Decided, SameLife
  <2>5. Lifecycle!Accept(o)
    BY <2>4 DEF Lifecycle!Accept, Stages, Decided
  <2> QED
    BY <2>5 DEF Lifecycle!Next, LifeStep
<1> QED
  BY <1>15, <1>16

-----------------------------------------------------------------------------
(* Recovery.                                                               *)

PassesElse(p) == \A q \in Process : q # p => pass'[q] = pass[q]

\* The pass of p ends, or goes on about the same operation.
Proceeds(p) ==
    /\ PassesOK' /\ PassesElse(p)
    /\ \/ pass'[p] = None
       \/ /\ pass'[p] # None
          /\ pass'[p].fence = pass[p].fence /\ pass'[p].discard = pass[p].discard
          /\ pass'[p].timer = pass[p].timer /\ pass'[p].held = pass[p].held
          /\ pass'[p].op = pass[p].op /\ pass'[p].seq = pass[p].seq

\* One pass is replaced.
LEMMA PassSet ==
    ASSUME TypeOK, NEW p \in Process, NEW q \in Passes \cup {None},
           pass' = [pass EXCEPT ![p] = q]
    PROVE  PassesOK' /\ pass'[p] = q /\ PassesElse(p)
BY DEF TypeOK, PassesOK, PassesElse

\* A pass that goes on.
LEMMA ContinueFacts ==
    ASSUME TypeOK, NEW p \in Process, pass[p] # None, NEW point \in PassPoints,
           Continue(p, point)
    PROVE  Proceeds(p) /\ pass'[p] # None /\ pass'[p].point = point
<1> DEFINE q == [pass[p] EXCEPT !.point = point]
<1>1. pass[p] \in Passes
  BY DEF TypeOK
<1>2. q \in Passes
  BY <1>1 DEF Passes
<1>3. pass' = [pass EXCEPT ![p] = q]
  BY DEF Continue
<1>4. /\ q.point = point /\ q.fence = pass[p].fence /\ q.discard = pass[p].discard
      /\ q.timer = pass[p].timer /\ q.held = pass[p].held
      /\ q.op = pass[p].op /\ q.seq = pass[p].seq
  BY <1>1 DEF Passes
<1> HIDE DEF q
<1>5. PassesOK' /\ pass'[p] = q /\ PassesElse(p)
  BY <1>2, <1>3, PassSet
<1> QED
  BY <1>2, <1>4, <1>5, OperationAssumption DEF Proceeds

\* A pass that has dealt with its operation.
LEMMA DealtFacts ==
    ASSUME TypeOK, NEW p \in Process, pass[p] # None, Dealt(p)
    PROVE  /\ Proceeds(p)
           /\ pass'[p] # None => pass'[p].point = "sweep" /\ ~pass[p].timer
           /\ pass'[p] = None => pass[p].timer
<1>1. CASE pass[p].timer
  <2>1. pass' = [pass EXCEPT ![p] = None]
    BY <1>1 DEF Dealt
  <2> QED
    BY <1>1, <2>1, PassSet DEF Proceeds
<1>2. CASE ~pass[p].timer
  <2>1. Continue(p, "sweep")
    BY <1>2 DEF Dealt, Continue
  <2>2. Proceeds(p) /\ pass'[p] # None /\ pass'[p].point = "sweep"
    BY <2>1, ContinueFacts DEF PassPoints
  <2> QED
    BY <1>2, <2>2
<1> QED
  BY <1>1, <1>2

\* While a pass is at an operation under the fence of the row, no recovery is
\* delayed under it.
LEMMA PassTimers ==
    ASSUME OpInv, NEW p \in Process, pass[p] # None, pass[p].point # "sweep",
           UNCHANGED <<input, holder>>, timers'[p] = timers[p], proc'[p] = proc[p], Proceeds(p),
           pass[p].fence = input.fence \/ \A x \in Operation : SameRow(x)
    PROVE  TimersOK(p)'
<1>1. TypeOK /\ TimersOK(p) /\ PassOK(p)
  BY DEF OpInv, ProcessOK
<1>2. \A t \in timers[p] : Held(p, t.fence) /\ Held(p, t.fence)'
  BY <1>1 DEF TimersOK, Held
<1>3. CASE proc[p].startup
  BY <1>2, <1>3 DEF TimersOK
<1>4. CASE ~proc[p].startup /\ pass[p].fence = input.fence
  BY <1>1, <1>2, <1>4 DEF TimersOK
<1>5. CASE ~proc[p].startup /\ pass[p].fence # input.fence
  <2>1. ASSUME NEW t \in timers[p], t.fence = input.fence
        PROVE  Waiting(p, t.op, t.seq)'
    <3>1. t.op \in Operation /\ Waiting(p, t.op, t.seq)
      BY <1>1, <1>5, <2>1 DEF TimersOK, TypeOK, Timers
    <3> QED
      BY <1>5, <3>1, RowKept
  <2>2. pass'[p] # None => pass'[p].fence # input'.fence
    BY <1>5 DEF Proceeds
  <2> QED
    BY <1>1, <1>2, <1>5, <2>1, <2>2 DEF TimersOK
<1> QED
  BY <1>3, <1>4, <1>5

\* A step of a pass on the operation it is at.
LEMMA PassMoves ==
    ASSUME OpInv, TypeOK', NEW p \in Process, NEW o \in Operation,
           pass[p] # None, pass[p].op = o, pass[p].point # "sweep",
           UNCHANGED <<input, holder, timers, proc>>, OtherRows(o), ThreadsElse(p, o),
           Proceeds(p), pass[p].timer /\ pass'[p] # None => pass'[p].point # "sweep",
           pass[p].fence = input.fence \/ SameRow(o),
           pass'[p] # None /\ pass[p].fence = input.fence => Charge(p)',
           RowOK(o)', ThreadOK(p, o)'
    PROVE  OpInv' /\ (Moves(o) => LifeStep)
<1>1. TypeOK /\ PassOK(p) /\ None \notin Operation
  BY OperationAssumption DEF OpInv, ProcessOK
<1>2. Held(p, pass[p].fence) /\ (pass'[p] # None => Held(p, pass[p].fence)')
  BY <1>1 DEF PassOK, Held, Proceeds
<1>3. PassOK(p)'
  BY <1>1, <1>2 DEF PassOK, Proceeds
<1>4. TimersOK(p)'
  BY PassTimers DEF OtherRows
<1>5. Local(p, o)
  BY DEF Local, ThreadsElse, Proceeds, PassesElse
<1>6. SameRow(o) \/ holder = p
  BY <1>2 DEF Held
<1> QED
  BY <1>3, <1>4, <1>5, <1>6, LocalStep

\* Such a step, when it writes nothing but the capsule of an operation that is
\* terminal, and moves no goroutine.
LEMMA PassQuiet ==
    ASSUME OpInv, NEW p \in Process, NEW o \in Operation,
           pass[p] # None, pass[p].op = o, pass[p].point # "sweep",
           UNCHANGED <<input, holder, record, work, thread, timers, proc>>, faults' \in Nat,
           UNCHANGED capsule \/ (Discard(o) /\ ~IsActive(o)),
           Proceeds(p), pass[p].timer /\ pass'[p] # None => pass'[p].point # "sweep",
           pass'[p] # None /\ pass[p].fence = input.fence => Charge(p)'
    PROVE  OpInv' /\ LifeStep
<1>1. TypeOK
  BY DEF OpInv
<1>2. /\ capsule' \in [Operation -> {"none", "stored", "expired"}]
      /\ \A x \in Operation : x # o => capsule'[x] = capsule[x]
      /\ IsActive(o) => capsule'[o] = capsule[o]
  BY <1>1, DiscardFacts DEF TypeOK
<1>3. TypeOK'
  <2>1. RecordsOK' /\ WorkOK' /\ ThreadsOK'
    BY <1>1 DEF TypeOK, RecordsOK, WorkOK, ThreadsOK
  <2> QED
    BY <1>1, <1>2, <2>1, TypeParts DEF Proceeds
<1>4. SameRow(o) /\ OtherRows(o)
  BY <1>2 DEF SameRow, OtherRows, SameWork
<1>5. ThreadsElse(p, o)
  BY DEF ThreadsElse
<1>6. RowOK(o)' /\ SameLife(o)
  BY <1>4, RowKept DEF OpInv
<1>7. ThreadOK(p, o)'
  BY <1>4, ThreadKept DEF OpInv, ProcessOK
<1> QED
  BY <1>3, <1>4, <1>5, <1>6, <1>7, PassMoves DEF Moves

\* What a pass is at under the fence of the row.
LEMMA Charged ==
    ASSUME OpInv, NEW p \in Process, pass[p] # None
    PROVE  /\ TypeOK /\ PassOK(p) /\ pass[p].point \in PassPoints /\ pass[p].seq \in Nat
           /\ pass[p].point # "sweep" => pass[p].op \in Operation
           /\ pass[p].fence = input.fence => Charge(p) /\ holder = p
<1>1. TypeOK /\ PassOK(p)
  BY DEF OpInv, ProcessOK
<1> QED
  BY <1>1 DEF TypeOK, Passes, PassOK, Held

\* An operation whose record names another process is in the care of no
\* goroutine under the fence of the row.
LEMMA Abandoned ==
    ASSUME OpInv, NEW p \in Process, NEW o \in Operation, UNCHANGED <<input, holder>>,
           thread'[p][o] = thread[p][o], record[o] # None, record[o].epoch # p
    PROVE  ThreadOK(p, o)'
<1>1. ThreadOK(p, o)
  BY DEF OpInv, ProcessOK
<1>2. thread[p][o] # None => thread[p][o].fence # input.fence
  BY <1>1 DEF ThreadOK, Care
<1> QED
  BY <1>1, <1>2 DEF ThreadOK, Held

\* On a terminal operation a goroutine has nothing left but to refuse it,
\* whatever becomes of its work.
LEMMA Refusing ==
    ASSUME OpInv, NEW p \in Process, NEW o \in Operation, UNCHANGED <<input, holder>>,
           thread'[p][o] = thread[p][o], record'[o] = record[o], ~IsActive(o)
    PROVE  ThreadOK(p, o)'
<1>1. ThreadOK(p, o)
  BY DEF OpInv, ProcessOK
<1>2. ~IsActive(o)'
  BY DEF IsActive
<1>3. thread[p][o] # None /\ thread[p][o].fence = input.fence => Care(p, o)'
  BY <1>1, <1>2 DEF ThreadOK, Care
<1> QED
  BY <1>1, <1>3 DEF ThreadOK, Held

\* The rows of a terminal operation whose work is written.
LEMMA TerminalKept ==
    ASSUME OpInv, NEW o \in Operation, record[o] # None, ~IsActive(o), record'[o] = record[o]
    PROVE  RowOK(o)' /\ SameLife(o) /\ ~IsActive(o)'
<1>1. ~IsActive(o)'
  BY DEF IsActive
<1> QED
  BY <1>1 DEF RowOK, SameLife, Stage, Outcome

\* recoverOperationAfterLease up to the claim: a delayed recovery is the only
\* one of its fence.
LEMMA DoLook ==
    ASSUME OpInv, NEW p \in Process, Look(p)
    PROVE  OpInv' /\ LifeStep
<1> DEFINE o == pass[p].op
<1>1. /\ pass[p] # None /\ pass[p].point = "look"
      /\ UNCHANGED <<input, holder, record, work, capsule, thread, proc, faults>>
  BY DEF Look, PassAt, row, tables
<1>2. TypeOK /\ PassOK(p) /\ o \in Operation /\ pass[p].seq \in Nat /\ Held(p, pass[p].fence)
  BY <1>1, Charged DEF PassOK
<1>3. pass[p].fence = input.fence => Waiting(p, o, pass[p].seq) /\ RowOK(o)
  BY <1>1, <1>2, Charged DEF Charge, OpInv
<1>4. faults' \in Nat
  BY <1>1, <1>2 DEF TypeOK
<1>5. ASSUME NEW point \in {"interrupt", "publish", "claim"}, Continue(p, point), UNCHANGED timers,
             pass[p].fence = input.fence =>
                IF point = "publish" THEN IsComplete(o)
                ELSE IsActive(o) /\ record[o].epoch # p /\ ~IsComplete(o)
      PROVE  OpInv' /\ LifeStep
  <2>1. Proceeds(p) /\ pass'[p] # None /\ pass'[p].point = point
    BY <1>1, <1>2, <1>5, ContinueFacts DEF PassPoints
  <2>2. ASSUME pass[p].fence = input.fence
        PROVE  Charge(p)'
    <3>1. IsActive(o)' = IsActive(o) /\ IsComplete(o)' = IsComplete(o)
      BY <1>1, <2>1 DEF IsActive, IsComplete, Proceeds
    <3>2. Waiting(p, o, pass[p].seq)'
      BY <1>1, <1>3, <2>1, <2>2, <3>1 DEF Waiting, Proceeds
    <3> QED
      BY <1>1, <1>5, <2>1, <2>2, <3>1, <3>2 DEF Charge, Proceeds
  <2> QED
    BY <1>1, <1>2, <1>4, <1>5, <2>1, <2>2, PassQuiet
<1>6. CASE work[o] = None /\ Continue(p, "interrupt") /\ UNCHANGED timers
  <2>1. pass[p].fence = input.fence => IsActive(o) /\ record[o].epoch # p /\ ~IsComplete(o)
    BY <1>3, <1>6 DEF Waiting, IsComplete
  <2> QED
    BY <1>5, <1>6, <2>1
<1>7. CASE /\ IsComplete(o) /\ UNCHANGED timers
           /\ Continue(p, IF work[o].final.seq = pass[p].seq + 1 THEN "publish" ELSE "interrupt")
  <2>1. pass[p].fence = input.fence => work[o].final.seq = pass[p].seq + 1
    BY <1>3, <1>7 DEF Waiting, RowOK, Follows
  <2>2. CASE work[o].final.seq = pass[p].seq + 1
    BY <1>5, <1>7, <2>2
  <2>3. CASE work[o].final.seq # pass[p].seq + 1
    BY <1>5, <1>7, <2>1, <2>3
  <2> QED
    BY <2>2, <2>3
<1>8. CASE IsOpen(o) /\ Continue(p, "claim") /\ UNCHANGED timers
  <2>1. pass[p].fence = input.fence => IsActive(o) /\ record[o].epoch # p /\ ~IsComplete(o)
    BY <1>3, <1>8 DEF Waiting, IsComplete, IsOpen
  <2> QED
    BY <1>5, <1>8, <2>1
<1>9. CASE /\ ~pass[p].discard /\ Dealt(p)
           /\ timers' = [timers EXCEPT ![p] = @ \cup {[op |-> o, seq |-> pass[p].seq,
                                                       fence |-> pass[p].fence]}]
  <2> DEFINE new == [op |-> o, seq |-> pass[p].seq, fence |-> pass[p].fence]
  <2>1. new \in Timers /\ new.op = o /\ new.seq = pass[p].seq /\ new.fence = pass[p].fence
    BY <1>2 DEF Timers, Held
  <2>2. timers' = [timers EXCEPT ![p] = timers[p] \cup {new}]
    BY <1>9
  <2>3. PICK late \in Timers : late = new
    BY <2>1
  <2> HIDE DEF new
  <2>4. /\ timers' \in [Process -> SUBSET Timers] /\ timers'[p] = timers[p] \cup {late}
        /\ \A q \in Process : q # p => timers'[q] = timers[q]
    BY <1>2, <2>2, <2>3 DEF TypeOK
  <2>5. /\ Proceeds(p)
        /\ pass'[p] # None => pass'[p].point = "sweep" /\ ~pass[p].timer
        /\ pass'[p] = None => pass[p].timer
    BY <1>1, <1>2, <1>9, DealtFacts
  <2>6. TypeOK'
    BY <1>1, <1>2, <2>4, <2>5 DEF TypeOK, Proceeds, PassesOK
  <2>7. \A x \in Operation : SameRow(x)
    BY <1>1 DEF SameRow, SameWork
  <2>8. PassOK(p)'
    BY <1>1, <1>2, <2>5 DEF PassOK, Held, Proceeds, Charge
  <2>9. late.op = pass[p].op /\ late.seq = pass[p].seq /\ late.fence = pass[p].fence
    BY <2>1, <2>3
  <2>10. TimersOK(p)'
    <3>1. TimersOK(p)
      BY DEF OpInv, ProcessOK
    <3>2. ASSUME NEW t \in timers'[p]
          PROVE  Held(p, t.fence)'
      BY <1>1, <1>2, <2>4, <2>9, <3>1 DEF TimersOK, Held
    <3>3. CASE proc[p].startup
      BY <1>1, <3>2, <3>3 DEF TimersOK
    <3>4. CASE ~proc[p].startup /\ pass[p].fence # input.fence
      <4>1. ASSUME NEW t \in timers'[p], t.fence = input.fence
            PROVE  t \in timers[p]
        BY <2>4, <2>9, <3>4, <4>1
      <4>2. ASSUME NEW t \in timers[p], t.fence = input.fence
            PROVE  Waiting(p, t.op, t.seq)'
        <5>1. t.op \in Operation /\ Waiting(p, t.op, t.seq)
          BY <1>2, <3>1, <3>4, <4>2 DEF TimersOK, TypeOK, Timers
        <5> QED
          BY <2>7, <5>1, RowKept
      <4> QED
        BY <1>1, <2>5, <3>1, <3>2, <3>4, <4>1, <4>2 DEF TimersOK, Proceeds
    <3>5. CASE ~proc[p].startup /\ pass[p].fence = input.fence
      <4>1. \A t \in timers[p] : t.fence # input.fence
        BY <1>1, <3>1, <3>5 DEF TimersOK
      <4>2. ASSUME NEW t \in timers'[p], t.fence = input.fence
            PROVE  t = late
        BY <2>4, <4>1, <4>2
      <4>3. Waiting(p, late.op, late.seq)'
        <5>1. late.op \in Operation /\ Waiting(p, late.op, late.seq)
          BY <1>2, <1>3, <2>9, <3>5
        <5> QED
          BY <2>7, <5>1, RowKept
      <4>4. pass'[p] = None => proc'[p].settled # "no"
        BY <1>1, <1>2, <2>5, <3>5 DEF PassOK
      <4> QED
        BY <1>1, <2>5, <3>2, <3>5, <4>2, <4>3, <4>4 DEF TimersOK, Proceeds
    <3> QED
      BY <3>3, <3>4, <3>5
  <2> QED
    BY <1>1, <2>4, <2>5, <2>6, <2>7, <2>8, <2>10, ProcessStep DEF Proceeds, PassesElse
<1> QED
  BY <1>6, <1>7, <1>8, <1>9 DEF Look

\* The claim of a recovery.
LEMMA DoClaim ==
    ASSUME OpInv, NEW p \in Process, Claim(p)
    PROVE  OpInv' /\ LifeStep
<1> DEFINE o == pass[p].op
<1>1. /\ pass[p] # None /\ pass[p].point = "claim"
      /\ UNCHANGED <<input, holder, record, capsule, thread, timers, proc, faults>>
  BY DEF Claim, PassAt, row
<1>2. TypeOK /\ o \in Operation /\ PassOK(p) /\ faults' \in Nat
  BY <1>1, Charged DEF TypeOK
<1>3. CASE Dealt(p) /\ UNCHANGED work
  <2>1. /\ Proceeds(p)
        /\ pass'[p] # None => pass'[p].point = "sweep" /\ ~pass[p].timer
    BY <1>1, <1>2, <1>3, DealtFacts
  <2>2. pass'[p] # None => Charge(p)'
    BY <2>1 DEF Charge
  <2> QED
    BY <1>1, <1>2, <1>3, <2>1, <2>2, PassQuiet
<1>4. CASE /\ Authorised(pass[p].fence, FALSE)
           /\ work' = [work EXCEPT ![o] = [owner |-> p, live |-> TRUE, final |-> None]]
           /\ Continue(p, IF pass[p].discard THEN "interrupt" ELSE "check")
  <2>1. pass[p].fence = input.fence
    BY <1>4, Authority
  <2>2. IsActive(o) /\ record[o] # None /\ record[o].epoch # p /\ ~IsComplete(o) /\ RowOK(o)
    BY <1>1, <1>2, <2>1, Charged DEF Charge, OpInv, IsActive
  <2>3. PICK point \in {"interrupt", "check"} :
           point = IF pass[p].discard THEN "interrupt" ELSE "check"
    OBVIOUS
  <2>4. Proceeds(p) /\ pass'[p] # None /\ pass'[p].point = point
    BY <1>1, <1>2, <1>4, <2>3, ContinueFacts DEF PassPoints
  <2>5. /\ WorkOK' /\ work'[o] # None /\ work'[o].final = None /\ work'[o].owner = p
        /\ \A x \in Operation : x # o => SameWork(x)
    BY <1>2, <1>4, ClaimFacts DEF IsOpen
  <2>6. TypeOK'
    <3>1. RecordsOK' /\ ThreadsOK' /\ capsule' \in [Operation -> {"none", "stored", "expired"}]
      BY <1>1, <1>2 DEF TypeOK, RecordsOK, ThreadsOK
    <3> QED
      BY <1>1, <1>2, <2>4, <2>5, <3>1, TypeParts DEF Proceeds
  <2>7. OtherRows(o)
    BY <1>1, <2>5 DEF OtherRows, SameRow
  <2>8. PICK oo \in Operation : oo = pass[p].op
    BY <1>2
  <2>9. /\ IsActive(oo)' /\ IsOpen(oo)' /\ ~IsComplete(oo)'
        /\ RowOK(oo)' /\ Stage(oo)' = "open" /\ Outcome(oo)' = None
    BY <1>1, <2>2, <2>5, <2>8 DEF IsActive, IsOpen, IsComplete, RowOK, Stage, Outcome
  <2>10. Charge(p)'
    BY <1>1, <2>2, <2>4, <2>5, <2>8, <2>9 DEF Charge, Proceeds
  <2>11. SameLife(oo)
    BY <2>2, <2>8, <2>9 DEF SameLife, Stage, Outcome
  <2>12. ThreadOK(p, oo)' /\ ThreadsElse(p, oo)
    BY <1>1, <2>2, <2>8, Abandoned DEF ThreadsElse
  <2> QED
    BY <1>1, <2>1, <2>4, <2>6, <2>7, <2>8, <2>9, <2>10, <2>11, <2>12, PassMoves DEF Moves
<1> QED
  BY <1>3, <1>4 DEF Claim

\* The check of a recovery that may resume the operation.
LEMMA DoCheck ==
    ASSUME OpInv, NEW p \in Process, Check(p)
    PROVE  OpInv' /\ LifeStep
<1>1. /\ pass[p] # None /\ pass[p].point = "check"
      /\ UNCHANGED <<input, holder, record, work, capsule, thread, timers, proc, faults>>
  BY DEF Check, PassAt, row, tables
<1>2. TypeOK /\ pass[p].op \in Operation /\ faults' \in Nat
  BY <1>1, Charged DEF TypeOK
<1>3. PICK point \in {"adopt", "interrupt"} : Continue(p, point)
  BY DEF Check
<1>4. Proceeds(p) /\ pass'[p] # None /\ pass'[p].point = point
  BY <1>1, <1>2, <1>3, ContinueFacts DEF PassPoints
<1>5. pass[p].fence = input.fence => Charge(p)'
  <2>1. pass[p].fence = input.fence => Charge(p)
    BY <1>1, Charged
  <2> QED
    BY <1>1, <1>3, <1>4, <2>1 DEF Charge, Proceeds, IsActive, IsComplete, IsOpen
<1> QED
  BY <1>1, <1>2, <1>3, <1>4, <1>5, PassQuiet

\* A pass writes the record of its operation: it goes on being active, or it
\* is interrupted.
LEMMA PassSaves ==
    ASSUME OpInv, NEW p \in Process, NEW o \in Operation,
           pass[p] # None, pass[p].op = o, pass[p].point \in {"adopt", "interrupt"},
           pass[p].fence = input.fence, NEW status \in RecordStatuses, Saved(p, o, status),
           IF pass[p].point = "adopt" THEN status \in Active ELSE status = "interrupted",
           UNCHANGED <<input, holder, capsule>>, SameWork(o)
    PROVE  RowOK(o)' /\ Moves(o) /\ (status = "interrupted" => ~IsActive(o)')
           /\ (status \in Active => IsActive(o)' /\ IsOpen(o)' = IsOpen(o))
<1>1. Charge(p) /\ RowOK(o) /\ IsActive(o) /\ ~IsComplete(o)
  BY Charged DEF Charge, OpInv
<1>2. CASE pass[p].point = "adopt"
  <2>1. status \in Active /\ capsule'[o] = capsule[o]
    BY <1>2
  <2>2. RowOK(o)' /\ IsActive(o)' /\ SameLife(o) /\ IsOpen(o)' = IsOpen(o)
    BY <1>1, <2>1, Resaved
  <2> QED
    BY <2>1, <2>2 DEF Moves, Active
<1>3. CASE pass[p].point = "interrupt"
  <2>1. status = "interrupted" /\ status \in Outcomes
    BY <1>3 DEF Outcomes
  <2>2. ~IsActive(o)' /\ RowOK(o)' /\ Stage(o)' = "published" /\ Outcome(o)' = status
    BY <2>1, Terminal
  <2>3. Stage(o) = "open"
    BY <1>1 DEF Stage, IsActive
  <2>4. Moves(o)
    BY <2>1, <2>2, <2>3 DEF Moves
  <2> QED
    BY <2>1, <2>2, <2>4 DEF Active
<1> QED
  BY <1>2, <1>3

\* The record is claimed, and the command goes on in this process.
LEMMA DoAdopt ==
    ASSUME OpInv, NEW p \in Process, Adopt(p)
    PROVE  OpInv' /\ LifeStep
<1>1. /\ pass[p] # None /\ pass[p].point = "adopt" /\ Dealt(p)
      /\ Mutates(p, pass[p].fence, pass[p].op, record[pass[p].op].status)
      /\ UNCHANGED <<input, holder, capsule, timers, proc>>
  BY DEF Adopt, PassAt, row
<1>2. TypeOK /\ PassOK(p) /\ pass[p].op \in Operation
  BY <1>1, Charged
<1>3. PICK o \in Operation : o = pass[p].op
  BY <1>2
<1>4. pass[p].fence = input.fence
  BY <1>1, Authority DEF Mutates
<1>5. /\ IsActive(o) /\ ~IsComplete(o) /\ record[o] # None /\ record[o].epoch # p
      /\ IsOpen(o) /\ work[o].owner = p /\ holder = p
  BY <1>1, <1>3, <1>4, Charged DEF Charge, IsActive
<1>6. record[o].status \in Active /\ record[o].status \in RecordStatuses
  BY <1>5 DEF IsActive, RecordStatuses
<1>7. /\ RecordsOK' /\ WorkOK' /\ faults' \in Nat
      /\ \A x \in Operation : SameWork(x)
      /\ \A x \in Operation : x # o => record'[x] = record[x]
      /\ Saved(p, o, record[o].status)
  BY <1>1, <1>2, <1>3, <1>5, <1>6, MutationFacts
<1>8. RowOK(o)' /\ Moves(o) /\ IsActive(o)' /\ IsOpen(o)'
  BY <1>1, <1>3, <1>4, <1>5, <1>6, <1>7, PassSaves
<1>9. /\ Proceeds(p)
      /\ pass'[p] # None => pass'[p].point = "sweep" /\ ~pass[p].timer
  BY <1>1, <1>2, DealtFacts
<1>10. OtherRows(o)
  BY <1>1, <1>7 DEF OtherRows, SameRow
<1>11. pass'[p] # None => Charge(p)'
  BY <1>9 DEF Charge
<1>12. Held(p, input.fence) /\ Held(p, input.fence)'
  BY <1>1, <1>2, <1>4 DEF PassOK, Held
<1>13. ThreadsOK' /\ ThreadsElse(p, o) /\ ThreadOK(p, o)'
  <2>1. CASE Registered(p, o) /\ thread' = [thread EXCEPT ![p][o] = thread[p][o]]
    <3>1. thread' = thread
      BY <1>2, <2>1 DEF TypeOK
    <3> QED
      BY <1>1, <1>2, <1>5, <3>1, Abandoned DEF ThreadsElse, ThreadsOK, TypeOK
  <2>2. CASE thread' = [thread EXCEPT ![p][o] = Dispatched(p, pass[p].fence)]
    <3>1. PICK t : t = Dispatched(p, pass[p].fence)
      OBVIOUS
    <3>2. t = None \/ Begins(t, pass[p].fence, "begin")
      BY <1>4, <1>12, <3>1, DispatchBegins DEF Held
    <3>3. ThreadsOK' /\ ThreadsElse(p, o) /\ thread'[p][o] = t
      BY <1>2, <2>2, <3>1, <3>2, ThreadSet DEF Begins
    <3>4. record'[o] # None /\ record'[o].epoch = p /\ work'[o].owner = p
      BY <1>5, <1>7 DEF Saved, SameWork, IsOpen
    <3>5. t # None => Care(p, o)'
      BY <1>8, <3>2, <3>3, <3>4 DEF Begins, Care
    <3>6. t # None => t.fence = input.fence
      BY <1>4, <3>2 DEF Begins
    <3> QED
      BY <1>1, <1>12, <3>3, <3>5, <3>6 DEF ThreadOK
  <2>3. \/ Registered(p, o) /\ thread' = [thread EXCEPT ![p][o] = thread[p][o]]
        \/ thread' = [thread EXCEPT ![p][o] = Dispatched(p, pass[p].fence)]
    BY <1>3 DEF Adopt
  <2> QED
    BY <2>1, <2>2, <2>3
<1>14. TypeOK'
  <2>1. capsule' \in [Operation -> {"none", "stored", "expired"}] /\ PassesOK'
    BY <1>1, <1>2, <1>9 DEF TypeOK, Proceeds
  <2> QED
    BY <1>1, <1>2, <1>7, <1>13, <2>1, TypeParts
<1> QED
  BY <1>1, <1>3, <1>4, <1>8, <1>9, <1>10, <1>11, <1>13, <1>14, PassMoves

\* The record is published as interrupted.
LEMMA DoInterrupt ==
    ASSUME OpInv, NEW p \in Process, Interrupt(p)
    PROVE  OpInv' /\ LifeStep
<1>1. /\ pass[p] # None /\ pass[p].point = "interrupt" /\ Continue(p, "finish")
      /\ Mutates(p, pass[p].fence, pass[p].op, "interrupted")
      /\ UNCHANGED <<input, holder, capsule, thread, timers, proc>>
  BY DEF Interrupt, PassAt, row
<1>2. TypeOK /\ pass[p].op \in Operation
  BY <1>1, Charged
<1>3. PICK o \in Operation : o = pass[p].op
  BY <1>2
<1>4. pass[p].fence = input.fence
  BY <1>1, Authority DEF Mutates
<1>5. record[o] # None /\ record[o].epoch # p
  BY <1>1, <1>3, <1>4, Charged DEF Charge, IsActive
<1>6. "interrupted" \in RecordStatuses
  BY DEF RecordStatuses, Outcomes
<1>7. /\ RecordsOK' /\ WorkOK' /\ faults' \in Nat
      /\ \A x \in Operation : SameWork(x)
      /\ \A x \in Operation : x # o => record'[x] = record[x]
      /\ Saved(p, o, "interrupted")
  BY <1>1, <1>2, <1>3, <1>5, <1>6, MutationFacts
<1>8. RowOK(o)' /\ Moves(o)
  BY <1>1, <1>3, <1>4, <1>6, <1>7, PassSaves
<1>9. Proceeds(p) /\ pass'[p] # None /\ pass'[p].point = "finish"
  BY <1>1, <1>2, ContinueFacts DEF PassPoints
<1>10. OtherRows(o)
  BY <1>1, <1>7 DEF OtherRows, SameRow
<1>11. Charge(p)'
  BY <1>3, <1>7, <1>9 DEF Charge, Saved, Proceeds
<1>12. ThreadOK(p, o)' /\ ThreadsElse(p, o)
  BY <1>1, <1>5, Abandoned DEF ThreadsElse
<1>13. TypeOK'
  <2>1. /\ capsule' \in [Operation -> {"none", "stored", "expired"}]
        /\ PassesOK' /\ ThreadsOK'
    BY <1>1, <1>2, <1>9 DEF TypeOK, Proceeds, ThreadsOK
  <2> QED
    BY <1>1, <1>2, <1>7, <2>1, TypeParts
<1> QED
  BY <1>1, <1>3, <1>4, <1>8, <1>9, <1>10, <1>11, <1>12, <1>13, PassMoves

\* Then its work is completed and its command dropped.
LEMMA DoFinishInterrupted ==
    ASSUME OpInv, NEW p \in Process, FinishInterrupted(p)
    PROVE  OpInv' /\ LifeStep
<1>1. /\ pass[p] # None /\ pass[p].point = "finish" /\ Dealt(p) /\ Discard(pass[p].op)
      /\ UNCHANGED <<input, holder, record, thread, timers, proc, faults>>
  BY DEF FinishInterrupted, PassAt, row
<1>2. TypeOK /\ pass[p].op \in Operation
  BY <1>1, Charged
<1>3. PICK o \in Operation : o = pass[p].op
  BY <1>2
<1>4. pass[p].fence = input.fence
  BY Authority DEF FinishInterrupted
<1>5. record[o] # None /\ record[o].status = "interrupted" /\ ~IsActive(o)
  BY <1>1, <1>3, <1>4, Charged DEF Charge, IsActive, Active
<1>6. WorkOK' /\ \A x \in Operation : x # o => SameWork(x)
  <2>1. CASE Leased(p, o) /\ Complete(p, o, record[o].seq, "interrupted")
    <3>1. work[o] # None /\ record[o].seq \in Nat /\ "interrupted" \in Outcomes
      BY <1>2, <1>5, <2>1 DEF Leased, IsOpen, TypeOK, Records, Outcomes
    <3> QED
      BY <1>2, <2>1, <3>1, CompleteFacts
  <2>2. CASE UNCHANGED work
    BY <1>2, <2>2 DEF TypeOK, WorkOK, SameWork
  <2> QED
    BY <1>3, <2>1, <2>2 DEF FinishInterrupted
<1>7. /\ capsule' \in [Operation -> {"none", "stored", "expired"}]
      /\ \A x \in Operation : x # o => capsule'[x] = capsule[x]
  BY <1>1, <1>2, <1>3, DiscardFacts
<1>8. /\ Proceeds(p)
      /\ pass'[p] # None => pass'[p].point = "sweep" /\ ~pass[p].timer
  BY <1>1, <1>2, DealtFacts
<1>9. TypeOK'
  <2>1. RecordsOK' /\ ThreadsOK' /\ PassesOK' /\ faults' \in Nat
    BY <1>1, <1>2, <1>8 DEF TypeOK, Proceeds, ThreadsOK, RecordsOK
  <2> QED
    BY <1>1, <1>2, <1>6, <1>7, <2>1, TypeParts
<1>10. OtherRows(o) /\ ThreadsElse(p, o) /\ (pass'[p] # None => Charge(p)')
  BY <1>1, <1>6, <1>7, <1>8 DEF OtherRows, SameRow, ThreadsElse, Charge
<1>11. RowOK(o)' /\ SameLife(o) /\ ThreadOK(p, o)'
  BY <1>1, <1>5, TerminalKept, Refusing
<1> QED
  BY <1>1, <1>3, <1>4, <1>8, <1>9, <1>10, <1>11, PassMoves DEF Moves

\* publishCompletedOperationCheckpoint.
LEMMA DoPublishRecovered ==
    ASSUME OpInv, NEW p \in Process, PublishRecovered(p)
    PROVE  OpInv' /\ LifeStep
<1>1. /\ pass[p] # None /\ pass[p].point = "publish" /\ Dealt(p) /\ Discard(pass[p].op)
      /\ UNCHANGED <<input, holder, work, thread, timers, proc, faults>>
  BY DEF PublishRecovered, PassAt, row
<1>2. TypeOK /\ pass[p].op \in Operation /\ faults' \in Nat
  BY <1>1, Charged DEF TypeOK
<1>3. PICK o \in Operation : o = pass[p].op
  BY <1>2
<1>4. /\ Proceeds(p)
      /\ pass'[p] # None => pass'[p].point = "sweep" /\ ~pass[p].timer
  BY <1>1, <1>2, DealtFacts
<1>5. pass'[p] # None => Charge(p)'
  BY <1>4 DEF Charge
<1>6. CASE ~IsActive(o) /\ UNCHANGED record
  BY <1>1, <1>2, <1>3, <1>4, <1>5, <1>6, PassQuiet
<1>7. CASE IsActive(o) /\ Authorised(pass[p].fence, TRUE) /\ Save(p, o, work[o].final.status)
  <2>1. pass[p].fence = input.fence
    BY <1>7, Authority
  <2>2. record[o] # None /\ record[o].epoch # p /\ IsComplete(o)
    BY <1>1, <1>3, <1>7, <2>1, Charged DEF Charge, Waiting
  <2>3. work[o].final.status \in Outcomes
    BY <1>2, <2>2 DEF IsComplete, TypeOK, WorkRows, Checkpoints
  <2>4. work[o].final.status \in RecordStatuses
    BY <2>3 DEF RecordStatuses
  <2>5. /\ RecordsOK' /\ Saved(p, o, work[o].final.status)
        /\ \A x \in Operation : x # o => record'[x] = record[x]
    BY <1>2, <1>7, <2>2, <2>4, SaveFacts
  <2>6. /\ capsule' \in [Operation -> {"none", "stored", "expired"}]
        /\ \A x \in Operation : x # o => capsule'[x] = capsule[x]
    BY <1>1, <1>2, <1>3, DiscardFacts
  <2>7. TypeOK'
    <3>1. WorkOK' /\ ThreadsOK' /\ PassesOK'
      BY <1>1, <1>2, <1>4 DEF TypeOK, Proceeds, ThreadsOK, WorkOK
    <3> QED
      BY <1>1, <1>2, <2>5, <2>6, <3>1, TypeParts
  <2>8. OtherRows(o) /\ ThreadsElse(p, o)
    BY <1>1, <2>5, <2>6 DEF OtherRows, SameRow, SameWork, ThreadsElse
  <2>9. ~IsActive(o)' /\ RowOK(o)' /\ Stage(o)' = "published" /\ Outcome(o)' = work[o].final.status
    BY <2>3, <2>5, Terminal
  <2>10. Moves(o)
    BY <1>7, <2>2, <2>9 DEF Moves, Stage, Outcome, IsActive
  <2>11. ThreadOK(p, o)'
    BY <1>1, <2>2, Abandoned
  <2> QED
    BY <1>1, <1>3, <1>4, <1>5, <2>1, <2>7, <2>8, <2>9, <2>10, <2>11, PassMoves
<1> QED
  BY <1>3, <1>6, <1>7 DEF PublishRecovered

\* completeInterruptedWorkAfterLease.
LEMMA DoSweep ==
    ASSUME OpInv, NEW p \in Process, NEW o \in Operation, Sweep(p, o)
    PROVE  OpInv' /\ LifeStep
<1>1. /\ pass[p] # None /\ pass[p].point = "sweep" /\ pass[p].discard
      /\ Authorised(pass[p].fence, FALSE)
      /\ record[o] # None /\ record[o].status = "interrupted" /\ IsOpen(o)
      /\ UNCHANGED <<input, holder, record, thread, pass, timers, proc, faults>>
  BY DEF Sweep, PassAt, row, Unswept
<1>2. TypeOK /\ PassOK(p) /\ TimersOK(p) /\ ~IsActive(o)
  BY <1>1 DEF OpInv, ProcessOK, IsActive, Active
<1>3. pass[p].fence = input.fence /\ holder = p /\ proc[p].startup
  BY <1>1, <1>2, Authority DEF PassOK, Held
<1>4. WorkOK' /\ \A x \in Operation : x # o => SameWork(x)
  <2>1. CASE Complete(p, o, record[o].seq, "interrupted")
    <3>1. work[o] # None /\ record[o].seq \in Nat /\ "interrupted" \in Outcomes
      BY <1>1, <1>2 DEF IsOpen, TypeOK, Records, Outcomes
    <3> QED
      BY <1>2, <2>1, <3>1, CompleteFacts
  <2>2. CASE work' = [work EXCEPT ![o] = [owner |-> p, live |-> TRUE, final |-> None]]
    BY <1>2, <2>2, ClaimFacts
  <2> QED
    BY <2>1, <2>2 DEF Sweep
<1>5. /\ capsule' \in [Operation -> {"none", "stored", "expired"}]
      /\ \A x \in Operation : x # o => capsule'[x] = capsule[x]
  BY <1>2, DiscardFacts DEF Sweep, TypeOK
<1>6. TypeOK'
  <2>1. RecordsOK' /\ ThreadsOK' /\ PassesOK' /\ faults' \in Nat
    BY <1>1, <1>2 DEF TypeOK, PassesOK, ThreadsOK, RecordsOK
  <2> QED
    BY <1>1, <1>2, <1>4, <1>5, <2>1, TypeParts
<1>7. Local(p, o)
  BY <1>1, <1>4, <1>5 DEF Local, OtherRows, SameRow
<1>8. RowOK(o)' /\ SameLife(o) /\ ThreadOK(p, o)'
  BY <1>1, <1>2, TerminalKept, Refusing
<1>9. PassOK(p)'
  BY <1>1, <1>2 DEF PassOK, Held, Charge
<1>10. TimersOK(p)'
  BY <1>1, <1>2, <1>3 DEF TimersOK, Held
<1> QED
  BY <1>3, <1>6, <1>7, <1>8, <1>9, <1>10, LocalStep DEF Moves

\* The flags of a recovery that passed.
LEMMA DoEndPass ==
    ASSUME OpInv, NEW p \in Process, EndPass(p)
    PROVE  OpInv' /\ LifeStep
<1> DEFINE reached == IF pass[p].discard THEN "startup" ELSE "ordinary"
<1>1. /\ pass[p] # None /\ pass[p].point = "sweep"
      /\ pass' = [pass EXCEPT ![p] = None]
      /\ proc' = [proc EXCEPT ![p].settled = reached]
      /\ UNCHANGED <<input, holder, record, work, capsule, thread, timers, faults>>
  BY DEF EndPass, PassAt, row, tables
<1>2. TypeOK /\ TimersOK(p) /\ proc[p] \in Coordinators
  BY DEF OpInv, ProcessOK, TypeOK
<1>3. PICK s \in {"ordinary", "startup"} : s = reached
  OBVIOUS
<1>4. PICK c \in Coordinators : c = [proc[p] EXCEPT !.settled = s]
  BY <1>2, <1>3 DEF Coordinators
<1>5. c.settled = s /\ c.startup = proc[p].startup
  BY <1>2, <1>4 DEF Coordinators
<1>6. proc' = [proc EXCEPT ![p] = c]
  BY <1>1, <1>3, <1>4
<1>7. /\ proc' \in [Process -> Coordinators] /\ proc'[p] = c
      /\ \A q \in Process : q # p => proc'[q] = proc[q]
  BY <1>2, <1>6 DEF TypeOK
<1>8. PassesOK' /\ pass'[p] = None /\ PassesElse(p)
  BY <1>1, <1>2, PassSet
<1>9. TypeOK'
  BY <1>1, <1>2, <1>7, <1>8 DEF TypeOK, PassesOK
<1>10. \A x \in Operation : SameRow(x)
  BY <1>1 DEF SameRow, SameWork
<1>11. PassOK(p)'
  BY <1>8 DEF PassOK
<1>12. TimersOK(p)'
  <2>1. \A t \in timers[p] : Held(p, t.fence)'
    BY <1>1, <1>2 DEF TimersOK, Held
  <2>2. ASSUME NEW t \in timers[p], t.fence = input.fence, ~proc[p].startup
        PROVE  Waiting(p, t.op, t.seq)'
    <3>1. t.op \in Operation /\ Waiting(p, t.op, t.seq)
      BY <1>2, <2>2 DEF TimersOK, TypeOK, Timers
    <3> QED
      BY <1>10, <3>1, RowKept
  <2>3. proc'[p].settled # "no" /\ proc'[p].startup = proc[p].startup
    BY <1>3, <1>5, <1>7
  <2> QED
    BY <1>1, <1>2, <1>8, <2>1, <2>2, <2>3 DEF TimersOK
<1> QED
  BY <1>1, <1>7, <1>8, <1>9, <1>10, <1>11, <1>12, ProcessStep DEF PassesElse

\* A pass that ends with an error.
LEMMA DoFailPass ==
    ASSUME OpInv, NEW p \in Process, FailPass(p)
    PROVE  OpInv' /\ LifeStep
<1>1. /\ pass[p] # None /\ pass' = [pass EXCEPT ![p] = None]
      /\ UNCHANGED <<input, holder, capsule, thread, timers, proc>>
  BY DEF FailPass, row
<1>2. TypeOK /\ PassOK(p) /\ TimersOK(p)
  BY DEF OpInv, ProcessOK
<1>3. PassesOK' /\ pass'[p] = None /\ PassesElse(p) /\ Proceeds(p)
  BY <1>1, <1>2, PassSet DEF Proceeds
<1>4. PassOK(p)'
  BY <1>3 DEF PassOK
<1>5. ThreadsOK' /\ capsule' \in [Operation -> {"none", "stored", "expired"}]
  BY <1>1, <1>2 DEF ThreadsOK, TypeOK
<1>6. CASE UNCHANGED tables /\ (UNCHANGED faults \/ Fail) /\ (pass[p].point = "sweep" => pass[p].discard)
  <2>1. RecordsOK' /\ WorkOK' /\ faults' \in Nat
    BY <1>2, <1>6 DEF tables, TypeOK, RecordsOK, WorkOK, Fail
  <2>2. TypeOK'
    BY <1>1, <1>2, <1>3, <1>5, <2>1, TypeParts
  <2>3. \A x \in Operation : SameRow(x)
    BY <1>1, <1>6 DEF tables, SameRow, SameWork
  <2>4. TimersOK(p)'
    <3>1. CASE pass[p].point = "sweep"
      <4>1. proc[p].startup
        BY <1>1, <1>2, <1>6, <3>1 DEF PassOK
      <4> QED
        BY <1>1, <1>2, <4>1 DEF TimersOK, Held
    <3>2. CASE pass[p].point # "sweep"
      BY <1>1, <1>3, <2>3, <3>2, PassTimers
    <3> QED
      BY <3>1, <3>2
  <2> QED
    BY <1>1, <1>3, <1>4, <2>2, <2>3, <2>4, ProcessStep DEF PassesElse
<1>7. CASE /\ pass[p].point \in {"adopt", "interrupt"}
           /\ MutationFails(p, pass[p].fence, pass[p].op,
                            IF pass[p].point = "adopt" THEN record[pass[p].op].status
                            ELSE "interrupted")
  <2>1. PICK o \in Operation : o = pass[p].op
    BY <1>1, <1>7, Charged
  <2> DEFINE status == IF pass[p].point = "adopt" THEN record[o].status ELSE "interrupted"
  <2>2. ASSUME pass[p].fence = input.fence
        PROVE  /\ record[o] # None /\ record[o].epoch # p /\ IsActive(o) /\ ~IsComplete(o)
               /\ status \in RecordStatuses
               /\ IF pass[p].point = "adopt" THEN status \in Active ELSE status = "interrupted"
    <3>1. IsActive(o) /\ record[o].epoch # p /\ ~IsComplete(o)
      BY <1>1, <1>7, <2>1, <2>2, Charged DEF Charge
    <3> QED
      BY <3>1 DEF IsActive, RecordStatuses, Outcomes
  <2>3. MutationFails(p, pass[p].fence, o, status)
    BY <1>7, <2>1
  <2>4. status = IF pass[p].point = "adopt" THEN record[o].status ELSE "interrupted"
    OBVIOUS
  <2> HIDE DEF status
  <2>5. /\ RecordsOK' /\ WorkOK' /\ faults' \in Nat
        /\ \A x \in Operation : SameWork(x)
        /\ \A x \in Operation : x # o => record'[x] = record[x]
        /\ record' = record \/ (pass[p].fence = input.fence /\ Saved(p, o, status))
    BY <1>2, <2>2, <2>3, MutationFacts
  <2>6. TypeOK'
    BY <1>1, <1>2, <1>3, <1>5, <2>5, TypeParts
  <2>7. CASE record' = record
    <3>1. \A x \in Operation : SameRow(x)
      BY <1>1, <2>5, <2>7 DEF SameRow
    <3>2. TimersOK(p)'
      BY <1>1, <1>3, <1>7, <3>1, PassTimers
    <3> QED
      BY <1>1, <1>3, <1>4, <2>6, <3>1, <3>2, ProcessStep DEF PassesElse
  <2>8. CASE pass[p].fence = input.fence /\ Saved(p, o, status)
    <3>1. RowOK(o)' /\ Moves(o)
      BY <1>1, <1>7, <2>1, <2>2, <2>5, <2>8, PassSaves
    <3>2. OtherRows(o) /\ ThreadsElse(p, o)
      BY <1>1, <2>5 DEF OtherRows, SameRow, ThreadsElse
    <3>3. ThreadOK(p, o)'
      BY <1>1, <2>2, <2>8, Abandoned
    <3> QED
      BY <1>1, <1>3, <1>7, <2>1, <2>6, <2>8, <3>1, <3>2, <3>3, PassMoves
  <2> QED
    BY <2>5, <2>7, <2>8
<1> QED
  BY <1>6, <1>7 DEF FailPass

\* recoverOperationsOnce up to the list.
LEMMA DoBeginPass ==
    ASSUME OpInv, NEW p \in Process, BeginPass(p)
    PROVE  OpInv' /\ LifeStep
<1>1. /\ pass[p] = None /\ holder = p
      /\ UNCHANGED <<input, holder, record, work, capsule, thread, timers, faults>>
  BY DEF BeginPass, row, tables
<1>2. TypeOK /\ TimersOK(p) /\ input.fence \in Nat /\ proc[p] \in Coordinators
  BY DEF OpInv, ProcessOK, TypeOK, Inputs
<1>3. PICK discard \in {proc[p].startup, TRUE}, held \in BOOLEAN :
          /\ ~Recovered(p, discard)
          /\ proc' = [proc EXCEPT ![p].startup = discard]
          /\ \/ \E o \in Foreign(p) :
                   pass' = [pass EXCEPT ![p] =
                               [fence |-> input.fence, discard |-> discard, timer |-> FALSE,
                                held |-> held, op |-> o, seq |-> record[o].seq, point |-> "look"]]
             \/ /\ Foreign(p) = {}
                /\ pass' = [pass EXCEPT ![p] =
                               [fence |-> input.fence, discard |-> discard, timer |-> FALSE,
                                held |-> held, op |-> None, seq |-> 0, point |-> "sweep"]]
  BY DEF BeginPass
<1>4. discard \in BOOLEAN
  BY <1>2 DEF Coordinators
<1>5. PICK c \in Coordinators : c = [proc[p] EXCEPT !.startup = discard]
  BY <1>2, <1>4 DEF Coordinators
<1>6. c.startup = discard /\ c.settled = proc[p].settled
  BY <1>2, <1>5 DEF Coordinators
<1>7. proc' = [proc EXCEPT ![p] = c]
  BY <1>3, <1>5
<1>8. /\ proc' \in [Process -> Coordinators] /\ proc'[p] = c
      /\ \A q \in Process : q # p => proc'[q] = proc[q]
  BY <1>2, <1>7 DEF TypeOK
<1>9. PICK q \in Passes :
         /\ pass' = [pass EXCEPT ![p] = q]
         /\ q.fence = input.fence /\ q.discard = discard /\ ~q.timer
         /\ \/ q.point = "look" /\ q.op \in Foreign(p) /\ q.seq = record[q.op].seq
            \/ q.point = "sweep"
  <2>1. CASE \E o \in Foreign(p) :
                pass' = [pass EXCEPT ![p] =
                           [fence |-> input.fence, discard |-> discard, timer |-> FALSE,
                            held |-> held, op |-> o, seq |-> record[o].seq, point |-> "look"]]
    <3>1. PICK o \in Foreign(p) :
                pass' = [pass EXCEPT ![p] =
                           [fence |-> input.fence, discard |-> discard, timer |-> FALSE,
                            held |-> held, op |-> o, seq |-> record[o].seq, point |-> "look"]]
      BY <2>1
    <3>2. o \in Operation /\ record[o].seq \in Nat
      BY <1>2, <3>1 DEF Foreign, ActiveOps, IsActive, TypeOK, Records
    <3>3. [fence |-> input.fence, discard |-> discard, timer |-> FALSE,
           held |-> held, op |-> o, seq |-> record[o].seq, point |-> "look"] \in Passes
      BY <1>2, <1>4, <3>2 DEF Passes, PassPoints
    <3> QED
      BY <3>1, <3>3
  <2>2. CASE pass' = [pass EXCEPT ![p] =
                        [fence |-> input.fence, discard |-> discard, timer |-> FALSE,
                         held |-> held, op |-> None, seq |-> 0, point |-> "sweep"]]
    <3>1. [fence |-> input.fence, discard |-> discard, timer |-> FALSE,
           held |-> held, op |-> None, seq |-> 0, point |-> "sweep"] \in Passes
      BY <1>2, <1>4 DEF Passes, PassPoints
    <3> QED
      BY <2>2, <3>1
  <2> QED
    BY <1>3, <2>1, <2>2
<1>10. PassesOK' /\ pass'[p] = q /\ PassesElse(p)
  BY <1>2, <1>9, PassSet
<1>11. TypeOK'
  BY <1>1, <1>2, <1>8, <1>10 DEF TypeOK, PassesOK
<1>12. PassOK(p)'
  <2>1. Held(p, q.fence)'
    BY <1>1, <1>2, <1>9 DEF Held
  <2>2. Charge(p)'
    <3>1. CASE q.point = "look" /\ q.op \in Foreign(p) /\ q.seq = record[q.op].seq
      <4>1. Waiting(p, q.op, q.seq)
        BY <3>1 DEF Waiting, Foreign, ActiveOps, IsActive
      <4>2. Waiting(p, q.op, q.seq)'
        BY <1>1, <4>1 DEF Waiting, IsActive, IsComplete
      <4> QED
        BY <1>10, <3>1, <4>2 DEF Charge
    <3>2. CASE q.point = "sweep"
      BY <1>10, <3>2 DEF Charge
    <3> QED
      BY <1>9, <3>1, <3>2
  <2>3. q.op = None => q.point = "sweep"
    BY <1>9, OperationAssumption DEF Foreign, ActiveOps
  <2> QED
    BY <1>6, <1>8, <1>9, <1>10, <2>1, <2>2, <2>3 DEF PassOK
<1>13. TimersOK(p)'
  <2>1. \A t \in timers[p] : Held(p, t.fence)'
    BY <1>1, <1>2 DEF TimersOK, Held
  <2>2. CASE discard
    BY <1>1, <1>6, <1>8, <2>1, <2>2 DEF TimersOK
  <2>3. CASE ~discard
    <3>1. ~proc[p].startup /\ proc[p].settled = "no"
      BY <1>2, <1>3, <1>4, <2>3 DEF Recovered, Coordinators
    <3>2. \A t \in timers[p] : t.fence # input.fence
      BY <1>1, <1>2, <3>1 DEF TimersOK
    <3> QED
      BY <1>1, <2>1, <3>2 DEF TimersOK
  <2> QED
    BY <2>2, <2>3
<1>14. \A x \in Operation : SameRow(x)
  BY <1>1 DEF SameRow, SameWork
<1> QED
  BY <1>1, <1>8, <1>10, <1>11, <1>12, <1>13, <1>14, ProcessStep DEF PassesElse

\* A delayed recovery begins, or is void.
LEMMA DoFireTimer ==
    ASSUME OpInv, NEW p \in Process, NEW t \in timers[p], FireTimer(p, t)
    PROVE  OpInv' /\ LifeStep
<1>1. /\ pass[p] = None /\ timers' = [timers EXCEPT ![p] = timers[p] \ {t}]
      /\ UNCHANGED <<input, holder, record, work, capsule, thread, proc, faults>>
  BY DEF FireTimer, row, tables
<1>2. TypeOK /\ TimersOK(p) /\ t \in Timers /\ Held(p, t.fence)
  BY DEF OpInv, ProcessOK, TypeOK, TimersOK
<1>3. /\ timers' \in [Process -> SUBSET Timers] /\ timers'[p] = timers[p] \ {t}
      /\ \A q \in Process : q # p => timers'[q] = timers[q]
  BY <1>1, <1>2 DEF TypeOK
<1>4. \A x \in Operation : SameRow(x)
  BY <1>1 DEF SameRow, SameWork
<1>5. \A s \in timers'[p] : s \in timers[p] /\ s # t /\ Held(p, s.fence)'
  BY <1>1, <1>2, <1>3 DEF TimersOK, Held
<1>6. CASE proc[p].startup /\ pass' = [pass EXCEPT ![p] = None]
  <2>1. PassesOK' /\ pass'[p] = None /\ PassesElse(p)
    BY <1>2, <1>6, PassSet
  <2>2. TypeOK'
    BY <1>1, <1>2, <1>3, <2>1 DEF TypeOK, PassesOK
  <2>3. PassOK(p)' /\ TimersOK(p)'
    BY <1>1, <1>5, <1>6, <2>1 DEF PassOK, TimersOK
  <2> QED
    BY <1>1, <1>3, <1>4, <2>1, <2>2, <2>3, ProcessStep DEF PassesElse
<1>7. CASE /\ ~proc[p].startup
           /\ pass' = [pass EXCEPT ![p] =
                         [fence |-> t.fence, discard |-> FALSE, timer |-> TRUE,
                          held |-> FALSE, op |-> t.op, seq |-> t.seq, point |-> "look"]]
  <2>1. [fence |-> t.fence, discard |-> FALSE, timer |-> TRUE,
         held |-> FALSE, op |-> t.op, seq |-> t.seq, point |-> "look"] \in Passes
    BY <1>2 DEF Timers, Passes, PassPoints
  <2>2. PICK q \in Passes :
           /\ pass' = [pass EXCEPT ![p] = q]
           /\ q.fence = t.fence /\ ~q.discard /\ q.op = t.op /\ q.seq = t.seq /\ q.point = "look"
    BY <1>7, <2>1
  <2>3. PassesOK' /\ pass'[p] = q /\ PassesElse(p)
    BY <1>2, <2>2, PassSet
  <2>4. TypeOK'
    BY <1>1, <1>2, <1>3, <2>3 DEF TypeOK, PassesOK
  <2>5. t.op \in Operation
    BY <1>2 DEF Timers
  <2>6. t.fence = input.fence => Waiting(p, t.op, t.seq) /\ proc[p].settled # "no"
    BY <1>1, <1>2, <1>7 DEF TimersOK
  <2>7. \A s \in timers[p] : s.fence = input.fence => Waiting(p, s.op, s.seq) /\ s.op \in Operation
    BY <1>2, <1>7 DEF TimersOK, TypeOK, Timers
  <2>8. \A s \in timers[p] : s.fence = input.fence => Waiting(p, s.op, s.seq)'
    BY <1>4, <2>7, RowKept
  <2>9. PassOK(p)'
    <3>1. Held(p, q.fence)'
      BY <1>1, <1>2, <2>2 DEF Held
    <3>2. q.fence = input.fence => Charge(p)'
      BY <2>2, <2>3, <2>8 DEF Charge
    <3>3. q.op # None
      BY <2>2, <2>5, OperationAssumption
    <3> QED
      BY <1>1, <2>2, <2>3, <2>6, <3>1, <3>2, <3>3 DEF PassOK
  <2>10. TimersOK(p)'
    <3>1. CASE t.fence = input.fence
      <4>1. \A s \in timers'[p] : s.fence # input.fence
        BY <1>2, <1>5, <1>7, <3>1 DEF TimersOK
      <4> QED
        BY <1>1, <1>5, <4>1 DEF TimersOK
    <3>2. CASE t.fence # input.fence
      <4>1. pass'[p].fence # input'.fence
        BY <1>1, <2>2, <2>3, <3>2
      <4>2. \A s \in timers'[p] : s.fence = input.fence => proc[p].settled # "no"
        BY <1>1, <1>2, <1>5, <1>7 DEF TimersOK
      <4> QED
        BY <1>1, <1>2, <1>5, <1>7, <2>8, <4>1, <4>2 DEF TimersOK
    <3> QED
      BY <3>1, <3>2
  <2> QED
    BY <1>1, <1>3, <1>4, <2>3, <2>4, <2>9, <2>10, ProcessStep DEF PassesElse
<1> QED
  BY <1>6, <1>7 DEF FireTimer

-----------------------------------------------------------------------------
(* The row, the clock, and the end of processes.                           *)

\* Under a later fence nothing is known of any process; under the same one
\* and the same holder nothing changes.
LEMMA InputStep ==
    ASSUME OpInv, TypeOK', UNCHANGED <<record, work, thread, pass, timers, proc>>,
           \A o \in Operation : RowOK(o)',
           \/ input'.fence = input.fence /\ holder' = holder
           \/ input'.fence = input.fence + 1
    PROVE  OpInv' /\ LifeStep
<1>1. TypeOK /\ input.fence \in Nat
  BY DEF OpInv, TypeOK, Inputs
<1>2. \A o \in Operation : SameLife(o)
  BY DEF SameLife, Stage, Outcome, IsActive, IsComplete
<1>3. ASSUME NEW p \in Process
      PROVE  ProcessOK(p)'
  <2>1. PassOK(p) /\ TimersOK(p) /\ \A o \in Operation : ThreadOK(p, o)
    BY DEF OpInv, ProcessOK
  <2>2. CASE input'.fence = input.fence /\ holder' = holder
    <3>1. PassOK(p)'
      BY <2>1, <2>2 DEF PassOK, Held, Charge, Waiting, IsActive, IsOpen, IsComplete
    <3>2. TimersOK(p)'
      BY <2>1, <2>2 DEF TimersOK, Held, Waiting, IsActive, IsComplete
    <3>3. \A o \in Operation : ThreadOK(p, o)'
      BY <2>1, <2>2 DEF ThreadOK, Held, Care, IsActive, IsOpen, IsComplete
    <3> QED
      BY <3>1, <3>2, <3>3 DEF ProcessOK
  <2>3. CASE input'.fence = input.fence + 1
    <3>1. PassOK(p)'
      BY <1>1, <2>1, <2>3 DEF PassOK, Held
    <3>2. TimersOK(p)'
      BY <1>1, <2>1, <2>3 DEF TimersOK, Held
    <3>3. \A o \in Operation : ThreadOK(p, o)'
      BY <1>1, <2>1, <2>3 DEF ThreadOK, Held
    <3> QED
      BY <3>1, <3>2, <3>3 DEF ProcessOK
  <2> QED
    BY <2>2, <2>3
<1> QED
  BY <1>2, <1>3, LifeStutter DEF OpInv

\* The rows of operations that keep them, apart from any process.
LEMMA QuietRows ==
    ASSUME OpInv, TypeOK', UNCHANGED <<input, holder, thread, pass, timers, proc>>,
           \A o \in Operation : SameRow(o)
    PROVE  OpInv' /\ LifeStep
<1>1. TypeOK
  BY DEF OpInv
<1>2. \A o \in Operation : RowOK(o)' /\ SameLife(o)
  BY RowKept DEF OpInv
<1>3. ASSUME NEW p \in Process
      PROVE  ProcessOK(p)'
  <2>1. PassOK(p) /\ TimersOK(p) /\ \A o \in Operation : ThreadOK(p, o)
    BY DEF OpInv, ProcessOK
  <2>2. \A t \in timers[p] : t.op \in Operation
    BY <1>1 DEF TypeOK, Timers
  <2>3. PassOK(p)'
    BY <1>1, <2>1, PassKept
  <2>4. TimersOK(p)'
    BY <1>1, <2>1, <2>2, TimersKept
  <2>5. \A o \in Operation : ThreadOK(p, o)'
    BY <2>1, ThreadKept
  <2> QED
    BY <2>3, <2>4, <2>5 DEF ProcessOK
<1> QED
  BY <1>2, <1>3, LifeStutter DEF OpInv

\* Some process takes the row over, or moves the one it has.
LEMMA DoChangeInput ==
    ASSUME OpInv, NEW p \in Process, ChangeInput(p)
    PROVE  OpInv' /\ LifeStep
<1>1. UNCHANGED <<record, work, capsule, thread, pass, timers, proc, faults>>
  BY DEF ChangeInput, tables
<1>2. TypeOK /\ input.fence \in Nat
  BY DEF OpInv, TypeOK, Inputs
<1>3. PICK next \in [workflow : Workflow \cup {None}, fence : {input.fence, input.fence + 1},
                     phase : Phases, legacy : {FALSE}] :
          input' = next /\ holder' = IF next.fence > input.fence THEN p ELSE holder
  BY DEF ChangeInput
<1>4. next \in Inputs
  <2>1. {input.fence, input.fence + 1} \subseteq Nat /\ {FALSE} \subseteq BOOLEAN
    BY <1>2
  <2>2. next \in [workflow : Workflow \cup {None}, fence : Nat, phase : Phases, legacy : BOOLEAN]
    BY <2>1
  <2> QED
    BY <2>2 DEF Inputs
<1>5. TypeOK'
  BY <1>1, <1>2, <1>3, <1>4 DEF TypeOK
<1>6. \/ input'.fence = input.fence /\ holder' = holder
      \/ input'.fence = input.fence + 1
  BY <1>2, <1>3
<1>7. \A o \in Operation : RowOK(o)'
  BY <1>1 DEF OpInv, RowOK, IsActive, IsComplete, Follows
<1> QED
  BY <1>1, <1>5, <1>6, <1>7, InputStep

\* The lease of the row ends.
LEMMA DoLapseInput ==
    ASSUME OpInv, LapseInput
    PROVE  OpInv' /\ LifeStep
<1>1. /\ input' = Input(input.workflow, input.fence, "idle", input.legacy)
      /\ UNCHANGED <<holder, record, work, capsule, thread, pass, timers, proc, faults>>
  BY DEF LapseInput, tables
<1>2. TypeOK
  BY DEF OpInv
<1>3. input' \in Inputs /\ input'.fence = input.fence
  BY <1>1, <1>2 DEF TypeOK, Inputs, Input, Phases
<1>4. TypeOK'
  BY <1>1, <1>2, <1>3 DEF TypeOK
<1>5. \A o \in Operation : RowOK(o)'
  BY <1>1 DEF OpInv, RowOK, IsActive, IsComplete, Follows
<1> QED
  BY <1>1, <1>3, <1>4, <1>5, InputStep

\* A minute without a renewal.
LEMMA DoExpireLease ==
    ASSUME OpInv, NEW o \in Operation, ExpireLease(o)
    PROVE  OpInv' /\ LifeStep
<1>1. TypeOK /\ UNCHANGED <<input, holder, record, capsule, thread, pass, timers, proc, faults>>
  BY DEF OpInv, ExpireLease, row
<1>2. WorkOK' /\ \A x \in Operation : SameWork(x)
  BY <1>1, LeaseOnly DEF ExpireLease
<1>3. TypeOK'
  BY <1>1, <1>2 DEF TypeOK, WorkOK
<1>4. \A x \in Operation : SameRow(x)
  BY <1>1, <1>2 DEF SameRow
<1> QED
  BY <1>1, <1>3, <1>4, QuietRows

\* The private store forgets a command, which it does not take for never
\* stored.
LEMMA DoExpireCapsule ==
    ASSUME OpInv, NEW o \in Operation, ExpireCapsule(o)
    PROVE  OpInv' /\ LifeStep
<1>1. /\ TypeOK /\ capsule[o] = "stored" /\ capsule' = [capsule EXCEPT ![o] = "expired"]
      /\ UNCHANGED <<input, holder, record, work, thread, pass, timers, proc, faults>>
  BY DEF OpInv, ExpireCapsule, row, tables
<1>2. /\ capsule' \in [Operation -> {"none", "stored", "expired"}]
      /\ \A x \in Operation : capsule[x] # "none" => capsule'[x] # "none"
  BY <1>1 DEF TypeOK
<1>3. TypeOK'
  BY <1>1, <1>2 DEF TypeOK
<1>4. \A x \in Operation : RowOK(x)'
  BY <1>1, <1>2 DEF OpInv, RowOK, IsActive, IsComplete, Follows
<1> QED
  BY <1>1, <1>3, <1>4, InputStep

\* Coordinator.Shutdown.
LEMMA DoShutdown ==
    ASSUME OpInv, NEW p \in Process, Shutdown(p)
    PROVE  OpInv' /\ LifeStep
<1>1. /\ proc' = [proc EXCEPT ![p].stopping = TRUE] /\ timers' = [timers EXCEPT ![p] = {}]
      /\ UNCHANGED <<input, holder, record, work, capsule, thread, pass, faults>>
  BY DEF Shutdown, row, tables
<1>2. TypeOK /\ PassOK(p) /\ proc[p] \in Coordinators
  BY DEF OpInv, ProcessOK, TypeOK
<1>3. PICK c \in Coordinators : c = [proc[p] EXCEPT !.stopping = TRUE]
  BY <1>2 DEF Coordinators
<1>4. c.settled = proc[p].settled /\ c.startup = proc[p].startup
  BY <1>2, <1>3 DEF Coordinators
<1>5. proc' = [proc EXCEPT ![p] = c]
  BY <1>1, <1>3
<1>6. /\ proc' \in [Process -> Coordinators] /\ proc'[p] = c
      /\ \A q \in Process : q # p => proc'[q] = proc[q]
  BY <1>2, <1>5 DEF TypeOK
<1>7. /\ timers' \in [Process -> SUBSET Timers] /\ timers'[p] = {}
      /\ \A q \in Process : q # p => timers'[q] = timers[q]
  BY <1>1, <1>2 DEF TypeOK
<1>8. TypeOK'
  BY <1>1, <1>2, <1>6, <1>7 DEF TypeOK
<1>9. PassOK(p)'
  BY <1>1, <1>2, <1>4, <1>6 DEF PassOK, Held, Charge, Waiting, IsActive, IsOpen, IsComplete
<1>10. TimersOK(p)' /\ \A x \in Operation : SameRow(x)
  BY <1>1, <1>7 DEF TimersOK, SameRow, SameWork
<1> QED
  BY <1>1, <1>6, <1>7, <1>8, <1>9, <1>10, ProcessStep

\* The process ends.
LEMMA DoCrash ==
    ASSUME OpInv, NEW p \in Process, Crash(p)
    PROVE  OpInv' /\ LifeStep
<1>1. /\ proc' = [proc EXCEPT ![p].alive = FALSE]
      /\ thread' = [thread EXCEPT ![p] = NoThreads]
      /\ pass' = [pass EXCEPT ![p] = None]
      /\ timers' = [timers EXCEPT ![p] = {}]
      /\ UNCHANGED <<input, holder, record, work, capsule, faults>>
  BY DEF Crash, row, tables
<1>2. TypeOK /\ proc[p] \in Coordinators
  BY DEF OpInv, TypeOK
<1>3. PICK c \in Coordinators : c = [proc[p] EXCEPT !.alive = FALSE]
  BY <1>2 DEF Coordinators
<1>4. proc' = [proc EXCEPT ![p] = c]
  BY <1>1, <1>3
<1>5. proc' \in [Process -> Coordinators] /\ \A q \in Process : q # p => proc'[q] = proc[q]
  BY <1>2, <1>4 DEF TypeOK
<1>6. /\ timers' \in [Process -> SUBSET Timers] /\ timers'[p] = {}
      /\ \A q \in Process : q # p => timers'[q] = timers[q]
  BY <1>1, <1>2 DEF TypeOK
<1>7. PassesOK' /\ pass'[p] = None /\ PassesElse(p)
  BY <1>1, <1>2, PassSet
<1>8. NoThreads \in [Operation -> Threads \cup {None}] /\ \A x \in Operation : NoThreads[x] = None
  BY DEF NoThreads
<1>9. /\ ThreadsOK'
      /\ \A q \in Process, x \in Operation :
            thread'[q][x] = thread[q][x] \/ (q = p /\ thread'[q][x] = None)
  BY <1>1, <1>2, <1>8 DEF TypeOK, ThreadsOK
<1>10. TypeOK'
  BY <1>1, <1>2, <1>5, <1>6, <1>7, <1>9 DEF TypeOK, PassesOK, ThreadsOK
<1>11. PassOK(p)' /\ TimersOK(p)' /\ \A x \in Operation : SameRow(x)
  BY <1>1, <1>6, <1>7 DEF PassOK, TimersOK, SameRow, SameWork
<1> QED
  BY <1>1, <1>5, <1>6, <1>7, <1>9, <1>10, <1>11, ProcessStep DEF PassesElse

-----------------------------------------------------------------------------
(* The theorems.                                                           *)

\* Initially no operation is known and no process has anything in hand.
LEMMA OpInit == Init => OpInv
<1> SUFFICES ASSUME Init
             PROVE  OpInv
  OBVIOUS
<1>1. TypeOK
  <2>1. input \in Inputs
    BY DEF Init, NoInput, Input, Inputs, Phases
  <2>2. [alive |-> TRUE, stopping |-> FALSE, startup |-> FALSE, settled |-> "no"] \in Coordinators
    BY DEF Coordinators
  <2> QED
    BY <2>1, <2>2 DEF Init, TypeOK
<1>2. \A o \in Operation : RowOK(o)
  BY DEF Init, RowOK, IsActive
<1>3. \A p \in Process : ProcessOK(p)
  BY DEF Init, ProcessOK, PassOK, TimersOK, ThreadOK
<1> QED
  BY <1>1, <1>2, <1>3 DEF OpInv

\* A step that changes nothing.
LEMMA OpStutter == ASSUME OpInv, UNCHANGED vars PROVE OpInv' /\ LifeStep
<1>1. UNCHANGED <<input, holder, record, work, capsule, thread, pass, timers, proc, faults>>
  BY DEF vars, row, tables
<1>2. TypeOK'
  BY <1>1 DEF OpInv, TypeOK
<1>3. \A o \in Operation : SameRow(o)
  BY <1>1 DEF SameRow, SameWork
<1> QED
  BY <1>1, <1>2, <1>3, QuietRows

\* Every step keeps the invariant and is a step of the lifecycle, or none.
LEMMA OpStep == OpInv /\ [Next]_vars => OpInv' /\ LifeStep
<1> SUFFICES ASSUME OpInv, [Next]_vars
             PROVE  OpInv' /\ LifeStep
  OBVIOUS
<1>1. CASE UNCHANGED vars
  BY <1>1, OpStutter
<1>2. ASSUME NEW p \in Process, NEW o \in Operation,
             \/ Start(p, o) \/ WorkerStep(p, o) \/ Progress(p, o)
             \/ Renew(p, o) \/ Converge(p, o) \/ MarkStale(p, o)
      PROVE  OpInv' /\ LifeStep
  <2>1. CASE WorkerStep(p, o)
    BY <2>1, DoClaimWork, DoEnqueue, DoBegin, DoFinish, DoCompleteWork, DoPublish, DoRefuse
       DEF WorkerStep
  <2> QED
    BY <1>2, <2>1, DoStart, DoProgress, DoRenew, DoConverge, DoMarkStale
<1>3. ASSUME NEW p \in Process, PassStep(p)
      PROVE  OpInv' /\ LifeStep
  BY <1>3, DoLook, DoClaim, DoCheck, DoAdopt, DoInterrupt, DoFinishInterrupted,
     DoPublishRecovered, DoSweep, DoEndPass, DoFailPass DEF PassStep
<1>4. ASSUME NEW p \in Process,
             \/ BeginPass(p) \/ ChangeInput(p) \/ Shutdown(p) \/ Crash(p)
             \/ \E t \in timers[p] : FireTimer(p, t)
      PROVE  OpInv' /\ LifeStep
  BY <1>4, DoBeginPass, DoChangeInput, DoShutdown, DoCrash, DoFireTimer
<1>5. CASE \E o \in Operation : ExpireLease(o) \/ ExpireCapsule(o)
  BY <1>5, DoExpireLease, DoExpireCapsule
<1>6. CASE LapseInput
  BY <1>6, DoLapseInput
<1> QED
  BY <1>1, <1>2, <1>3, <1>4, <1>5, <1>6 DEF Next

\* The invariant holds throughout.
THEOREM OperationInvariant == Spec => []OpInv
BY OpInit, OpStep, PTL DEF Spec

\* The state of operations has its types.
THEOREM OperationTypeCorrect == Spec => []TypeOK
<1>1. OpInv => TypeOK
  BY DEF OpInv
<1> QED
  BY <1>1, OperationInvariant, PTL

\* completedOperationCheckpoint accepts every checkpoint that CompleteWork
\* stored, whoever reads it and whenever.
THEOREM CheckpointTheorem == Spec => []CheckpointFollowsRecord
<1>1. OpInv => CheckpointFollowsRecord
  BY DEF OpInv, RowOK, CheckpointFollowsRecord
<1> QED
  BY <1>1, OperationInvariant, PTL

\* A goroutine whose fence is that of the row has the lease of its work, so
\* that no recovery runs the operation beside it.
THEOREM LeaseTheorem == Spec => []WorkerHasLease
<1>1. OpInv => WorkerHasLease
  <2> SUFFICES ASSUME OpInv, NEW p \in Process, NEW o \in Operation,
                      thread[p][o] # None, thread[p][o].point \in {"work", "complete"},
                      Authorised(thread[p][o].fence, TRUE)
               PROVE  work[o] # None /\ work[o].owner = p
    BY DEF WorkerHasLease
  <2>1. thread[p][o].fence = input.fence
    BY Authority
  <2> QED
    BY <2>1, Working DEF Care, IsOpen
<1> QED
  BY <1>1, OperationInvariant, PTL

\* The private store has had the command of an undecided operation, and has
\* dropped it only because it expired.
THEOREM CommandTheorem == Spec => []CommandKept
<1>1. OpInv => CommandKept
  BY DEF OpInv, RowOK, CommandKept
<1> QED
  BY <1>1, OperationInvariant, PTL

\* Records, work and recovery together implement the lifecycle: one operation
\* at a time, one outcome each, and the published one is the decided one.
THEOREM LifecycleTheorem == Spec => ImplementsLifecycle
<1>1. Init => Lifecycle!Init
  BY DEF Init, Lifecycle!Init, Stage, Outcome, IsActive
<1>2. LifeStep <=> [Lifecycle!Next]_<<Stages, Decided>>
  BY DEF LifeStep
<1>3. OpInv /\ [Next]_vars => [Lifecycle!Next]_<<Stages, Decided>>
  BY <1>2, OpStep
<1> QED
  BY <1>1, <1>3, OperationInvariant, PTL
     DEF Spec, ImplementsLifecycle, Lifecycle!Spec, Lifecycle!vars, Stages, Decided
=============================================================================
