----------------------- MODULE SubmissionFenceProofs -----------------------
(***************************************************************************)
(* Proofs about SubmissionFence, for any workflows, contents, sites and    *)
(* bounds.  The two tables are followed through one step at a time: which  *)
(* rows of the ledger and which fences a step may change, and from it the  *)
(* inductive invariant that keeps an accepted upload behind its fence.     *)
(***************************************************************************)
EXTENDS SubmissionFence, TLAPS

-----------------------------------------------------------------------------
(* Types.                                                                  *)

\* The parts of TypeOK about the two tables.
LedgerOK == ledger \in [Attempt -> EffectRows \cup {None}]
FencesOK == fences \in [Content \X Site -> FenceRows \cup {None}]

\* A row of the ledger has the fields of a worker and of a key.
LEMMA RowFacts ==
    ASSUME TypeOK, NEW a \in Begun
    PROVE  /\ a \in Attempt
           /\ ledger[a] \in EffectRows
           /\ Key(a) \in Content \X Site
           /\ Worker(a) \in Workers
BY DEF TypeOK, Begun, EffectRows, Key, Worker, Workers

\* Marking attempts unknown changes statuses and nothing else.
LEMMA MarkType ==
    ASSUME TypeOK, NEW chosen \in SUBSET Begun, MarkUnknown(chosen)
    PROVE  LedgerOK' /\ FencesOK'
<1>1. ASSUME NEW a \in Begun
      PROVE  [ledger[a] EXCEPT !.status = "unknown"] \in EffectRows
  BY <1>1, RowFacts DEF EffectRows, Statuses
<1>2. ASSUME NEW key \in Content \X Site, fences[key] # None
      PROVE  [fences[key] EXCEPT !.status = "unknown"] \in FenceRows
  BY <1>2 DEF TypeOK, FenceRows
<1>3. LedgerOK'
  BY <1>1 DEF MarkUnknown, TypeOK, LedgerOK
<1>4. FencesOK'
  BY <1>2 DEF MarkUnknown, TypeOK, FencesOK
<1> QED
  BY <1>3, <1>4

\* The rows one attempt writes.
LEMMA AttemptType ==
    ASSUME TypeOK, NEW a \in Attempt, AttemptStep(a)
    PROVE  TypeOK'
<1>1. ASSUME NEW k \in workers, NEW c \in Content, NEW s \in Site, BeginSubmission(k, a, c, s)
      PROVE  TypeOK'
  <2>1. [workflow |-> k.workflow, op |-> k.op, fence |-> k.fence,
         content |-> c, site |-> s, status |-> "started"] \in EffectRows
    BY DEF TypeOK, Workers, EffectRows, Statuses
  <2>2. [attempt |-> a, status |-> "started"] \in FenceRows
    BY DEF FenceRows
  <2> QED
    BY <1>1, <2>1, <2>2 DEF BeginSubmission, TypeOK
<1>2. CASE Send(a) \/ Decide(a) \/ Answered(a)
  BY <1>2 DEF Send, Decide, Answered, TypeOK, tables
<1>3. ASSUME a \in Begun, NEW status \in Statuses
      PROVE  [ledger EXCEPT ![a].status = status] \in [Attempt -> EffectRows \cup {None}]
  <2>1. [ledger[a] EXCEPT !.status = status] \in EffectRows
    BY <1>3, RowFacts DEF EffectRows
  <2> QED
    BY <2>1 DEF TypeOK
<1>4. CASE CompleteSubmission(a)
  <2>1. a \in Begun
    BY <1>4 DEF CompleteSubmission, Receiptable
  <2>2. Settled(a) \in FenceRows \cup {None}
    BY DEF Settled, FenceRows
  <2>3. \/ UNCHANGED tables
        \/ /\ fences' = [fences EXCEPT ![Key(a)] = Settled(a)]
           /\ \E status \in {"succeeded", "failed"} : ledger' = [ledger EXCEPT ![a].status = status]
    BY <1>4 DEF CompleteSubmission
  <2>4. LedgerOK' /\ FencesOK'
    BY <1>3, <2>1, <2>2, <2>3 DEF TypeOK, tables, LedgerOK, FencesOK, Statuses
  <2> QED
    BY <1>4, <2>4 DEF CompleteSubmission, TypeOK, LedgerOK, FencesOK
<1>5. CASE ConfirmLegacyEffect(a)
  BY <1>3, <1>5 DEF ConfirmLegacyEffect, OfWorkflow, TypeOK, Statuses, remote
<1>6. CASE ResolveUnknown(a)
  BY <1>3, <1>6 DEF ResolveUnknown, TypeOK, Statuses, remote
<1> QED
  BY <1>1, <1>2, <1>4, <1>5, <1>6 DEF AttemptStep

\* The rows a worker writes at its end.
LEMMA WorkerType ==
    ASSUME TypeOK, NEW k \in workers, WorkerStep(k)
    PROVE  TypeOK'
<1>1. CASE RetainResults(k)
  BY <1>1 DEF RetainResults, TypeOK, tables, remote, AttemptsOf, Begun
<1>2. CASE CompleteWork(k)
  <2>1. LedgerOK' /\ FencesOK'
    BY <1>2, MarkType DEF CompleteWork, OfOperation
  <2>2. [active EXCEPT ![k.workflow].done = TRUE] \in [Workflow -> ActiveOperations \cup {None}]
    <3>1. k.workflow \in Workflow /\ k.op \in Nat /\ k.fence \in Nat
      BY DEF TypeOK, Workers
    <3>2. active[k.workflow] \in ActiveOperations
      BY <1>2, <3>1 DEF CompleteWork, ActiveOperations
    <3>3. [active[k.workflow] EXCEPT !.done = TRUE] \in ActiveOperations
      BY <3>2 DEF ActiveOperations
    <3> QED
      BY <3>1, <3>3 DEF TypeOK
  <2> QED
    BY <1>2, <2>1, <2>2 DEF CompleteWork, TypeOK, LedgerOK, FencesOK, remote
<1>3. CASE LoseWorker(k)
  BY <1>3 DEF LoseWorker, TypeOK, tables
<1> QED
  BY <1>1, <1>2, <1>3 DEF WorkerStep

\* The rows of operations, their recovery and their deletion.
LEMMA WorkflowType ==
    ASSUME TypeOK, NEW w \in Workflow, WorkflowStep(w)
    PROVE  TypeOK'
<1>1. CASE StartOperation(w)
  BY <1>1 DEF StartOperation, TypeOK, Inputs, ActiveOperations, Workers, tables, remote
<1>2. CASE PublishCompleted(w) \/ InterruptOperation(w)
  BY <1>2 DEF PublishCompleted, InterruptOperation, TypeOK, tables, remote
<1>3. CASE ResumeOperation(w)
  <2>1. active[w] \in ActiveOperations /\ input.fence \in Nat
    BY <1>3 DEF ResumeOperation, Foreign, TypeOK, Inputs
  <2>2. [active[w] EXCEPT !.fence = input.fence] \in ActiveOperations
    BY <2>1 DEF ActiveOperations
  <2>3. [op |-> active[w].op, workflow |-> w, fence |-> input.fence] \in Workers
    BY <2>1 DEF ActiveOperations, Workers
  <2> QED
    BY <1>3, <2>2, <2>3 DEF ResumeOperation, TypeOK, tables, remote
<1>4. ASSUME NEW op, SettleEffects(w, op)
      PROVE  TypeOK'
  <2>1. LedgerOK' /\ FencesOK'
    BY <1>4, MarkType DEF SettleEffects, OfOperation
  <2> QED
    BY <1>4, <2>1 DEF SettleEffects, TypeOK, LedgerOK, FencesOK, remote
<1>5. CASE PurgeContent(w)
  <2>1. ASSUME NEW a \in OfWorkflow(w)
        PROVE  a \in Attempt /\ [ledger[a] EXCEPT !.status = "deleted"] \in EffectRows
    BY RowFacts DEF OfWorkflow, EffectRows, Statuses
  <2> QED
    BY <1>5, <2>1 DEF PurgeContent, TypeOK, remote
<1> QED
  BY <1>1, <1>2, <1>3, <1>4, <1>5 DEF WorkflowStep

\* Both tables, the requests and the operations stay well formed: a fence has
\* one of the three statuses its table allows, an effect row is never rewritten
\* into something else.
THEOREM FenceTypeCorrect == Spec => []TypeOK
<1>1. Init => TypeOK
  BY SubmissionAssumption DEF Init, TypeOK, NoInput, Input, Inputs, Phases
<1>2. TypeOK /\ [Next]_vars => TypeOK'
  <2> SUFFICES ASSUME TypeOK, [Next]_vars
               PROVE  TypeOK'
    OBVIOUS
  <2>1. CASE ChangeInput
    BY <2>1 DEF ChangeInput, TypeOK, Inputs, tables, remote
  <2>2. CASE RecoverLegacyEffects
    <3>1. LedgerOK' /\ FencesOK'
      BY <2>2, MarkType DEF RecoverLegacyEffects, OfWorkflow
    <3> QED
      BY <2>2, <3>1 DEF RecoverLegacyEffects, TypeOK, LedgerOK, FencesOK, remote
  <2>3. CASE UNCHANGED vars
    BY <2>3 DEF vars, TypeOK, tables, remote
  <2> QED
    BY <2>1, <2>2, <2>3, AttemptType, WorkerType, WorkflowType DEF Next
<1> QED
  BY <1>1, <1>2, PTL DEF Spec

-----------------------------------------------------------------------------
(* The tables.                                                             *)

\* A fence belongs to an attempt that has begun on its key.
FenceOwned ==
    \A key \in Content \X Site :
        fences[key] # None => fences[key].attempt \in Begun /\ Key(fences[key].attempt) = key

\* What a worker knows about its request is decided.
AnswerDecided ==
    \A a \in Attempt : answer[a] = "known" => request[a] \in {"accepted", "void"}

\* A request is out only for an attempt that has begun.
RequestBegun ==
    \A a \in Attempt : a \notin Begun => request[a] = "void" /\ answer[a] = "unclear"

\* The inductive invariant.
FenceInv ==
    /\ TypeOK /\ FenceOwned /\ AnswerDecided /\ RequestBegun
    /\ Protected /\ ConfirmedIsAccepted /\ UnresolvedIsFenced

\* A step of the ledger that keeps every row and changes the status of some.
RowsKept ==
    \A a \in Attempt : ledger[a] # None =>
        /\ ledger'[a] # None
        /\ ledger'[a].content = ledger[a].content
        /\ ledger'[a].site = ledger[a].site

\* Rows of the ledger keep their key.
LEMMA KeptKey ==
    ASSUME RowsKept, NEW a \in Begun
    PROVE  a \in Begun' /\ Key(a)' = Key(a)
BY DEF RowsKept, Begun, Key

\* Marking attempts unknown keeps the rows, and a fence keeps its attempt.
LEMMA MarkKeeps ==
    ASSUME TypeOK, NEW chosen \in SUBSET Begun, MarkUnknown(chosen)
    PROVE  /\ RowsKept /\ Begun' = Begun
           /\ \A key \in Content \X Site :
                 /\ fences'[key] = None <=> fences[key] = None
                 /\ fences[key] # None => fences'[key].attempt = fences[key].attempt
                 /\ fences[key] # None /\ fences'[key].status = "succeeded" =>
                       fences[key].status = "succeeded"
<1>1. ASSUME NEW a \in Begun
      PROVE  LET row == [ledger[a] EXCEPT !.status = "unknown"] IN
             row # None /\ row.content = ledger[a].content /\ row.site = ledger[a].site
  <2>1. [ledger[a] EXCEPT !.status = "unknown"] \in EffectRows
    BY <1>1, RowFacts DEF EffectRows, Statuses
  <2> QED
    BY <1>1, <2>1, RowFacts, AbsentAssumption DEF EffectRows
<1>2. RowsKept /\ Begun' = Begun
  BY <1>1 DEF MarkUnknown, RowsKept, Begun
<1>3. ASSUME NEW key \in Content \X Site, fences[key] # None
      PROVE  LET row == [fences[key] EXCEPT !.status = "unknown"] IN
             row # None /\ row.attempt = fences[key].attempt /\ row.status = "unknown"
  <2>1. fences[key] \in FenceRows
    BY <1>3 DEF TypeOK
  <2>2. [fences[key] EXCEPT !.status = "unknown"] \in FenceRows
    BY <2>1 DEF FenceRows
  <2> QED
    BY <2>1, <2>2, AbsentAssumption DEF FenceRows
<1>4. ASSUME NEW key \in Content \X Site
      PROVE  /\ fences'[key] = None <=> fences[key] = None
             /\ fences[key] # None => fences'[key].attempt = fences[key].attempt
             /\ fences[key] # None /\ fences'[key].status = "succeeded" =>
                   fences[key].status = "succeeded"
  <2>1. fences'[key] = IF /\ fences[key] # None
                          /\ fences[key].attempt \in chosen /\ fences[key].status = "started"
                       THEN [fences[key] EXCEPT !.status = "unknown"] ELSE fences[key]
    BY DEF MarkUnknown
  <2> QED
    BY <1>3, <2>1
<1> QED
  BY <1>2, <1>4

\* Both tables still agree about the unresolved attempts afterwards.
LEMMA MarkAgrees ==
    ASSUME TypeOK, UnresolvedIsFenced, NEW chosen \in SUBSET Begun, MarkUnknown(chosen)
    PROVE  UnresolvedIsFenced'
<1> SUFFICES ASSUME NEW a \in Unresolved'
             PROVE  fences'[Key(a)'] = [attempt |-> a, status |-> ledger'[a].status]
  BY DEF UnresolvedIsFenced
<1>1. a \in Begun /\ Key(a)' = Key(a) /\ Key(a) \in Content \X Site /\ a \in Attempt
  BY MarkKeeps, KeptKey, RowFacts DEF Unresolved
<1>2. ledger'[a] = IF a \in chosen /\ ledger[a].status = "started"
                   THEN [ledger[a] EXCEPT !.status = "unknown"] ELSE ledger[a]
  BY <1>1 DEF MarkUnknown
<1>3. ledger[a] \in EffectRows
  BY <1>1, RowFacts
<1>4. a \in Unresolved
  BY <1>1, <1>2, <1>3 DEF Unresolved, EffectRows
<1>5. fences[Key(a)] = [attempt |-> a, status |-> ledger[a].status]
  BY <1>4 DEF UnresolvedIsFenced
<1>6. fences[Key(a)] # None
  <2>1. ledger[a].status \in {"started", "unknown"}
    BY <1>4 DEF Unresolved
  <2>2. [attempt |-> a, status |-> ledger[a].status] \in FenceRows
    BY <1>1, <2>1 DEF FenceRows
  <2> QED
    BY <1>5, <2>2, AbsentAssumption
<1>7. fences'[Key(a)] = IF a \in chosen /\ ledger[a].status = "started"
                        THEN [fences[Key(a)] EXCEPT !.status = "unknown"] ELSE fences[Key(a)]
  BY <1>1, <1>5, <1>6 DEF MarkUnknown
<1>8. CASE a \in chosen /\ ledger[a].status = "started"
  <2>1. ledger'[a].status = "unknown"
    BY <1>2, <1>3, <1>8 DEF EffectRows
  <2>2. [[attempt |-> a, status |-> ledger[a].status] EXCEPT !.status = "unknown"]
        = [attempt |-> a, status |-> "unknown"]
    OBVIOUS
  <2> QED
    BY <1>1, <1>5, <1>7, <1>8, <2>1, <2>2
<1>9. CASE ~(a \in chosen /\ ledger[a].status = "started")
  BY <1>1, <1>2, <1>5, <1>7, <1>9
<1> QED
  BY <1>8, <1>9

-----------------------------------------------------------------------------
(* The inductive invariant, action by action.                              *)

\* A step outside the tables and the requests.
LEMMA InvElsewhere ==
    ASSUME FenceInv, TypeOK', UNCHANGED <<ledger, fences, request, answer, waived>>
    PROVE  FenceInv'
BY DEF FenceInv, FenceOwned, AnswerDecided, RequestBegun, Protected, ConfirmedIsAccepted,
       UnresolvedIsFenced, Unresolved, Fenced, Begun, Key

\* A step of the requests alone: none comes out that was not out, and what was
\* accepted stays accepted.
LEMMA InvRequest ==
    ASSUME FenceInv, TypeOK', UNCHANGED <<ledger, fences, waived>>,
           \A a \in Attempt :
               /\ request'[a] \in {"held", "sent", "accepted"} =>
                     request[a] \in {"held", "sent", "accepted"}
               /\ request[a] = "accepted" => request'[a] = "accepted"
               /\ answer'[a] = "known" => request'[a] \in {"accepted", "void"}
               /\ a \notin Begun => request'[a] = "void" /\ answer'[a] = "unclear"
    PROVE  FenceInv'
<1>1. Begun' = Begun /\ Unresolved' = Unresolved
  BY DEF Begun, Unresolved
<1>2. \A a \in Begun : Key(a)' = Key(a) /\ Fenced(a)' = Fenced(a)
  BY DEF Key, Fenced
<1>3. FenceOwned' /\ UnresolvedIsFenced'
  BY DEF FenceInv, FenceOwned, UnresolvedIsFenced, Unresolved, Begun, Key
<1>4. AnswerDecided' /\ RequestBegun'
  BY <1>1 DEF AnswerDecided, RequestBegun
<1>5. Protected'
  BY <1>1, <1>2 DEF FenceInv, Protected, Begun
<1>6. ConfirmedIsAccepted'
  BY DEF FenceInv, ConfirmedIsAccepted, FenceOwned, Begun
<1> QED
  BY <1>3, <1>4, <1>5, <1>6 DEF FenceInv

\* MarkReleaseWorkflowOperationEffectsUnknown and its legacy form.
LEMMA InvMark ==
    ASSUME FenceInv, TypeOK', UNCHANGED <<request, answer, waived>>,
           NEW chosen \in SUBSET Begun, MarkUnknown(chosen)
    PROVE  FenceInv'
<1>1. TypeOK
  BY DEF FenceInv
<1>2. /\ RowsKept /\ Begun' = Begun
      /\ \A key \in Content \X Site :
            /\ fences'[key] = None <=> fences[key] = None
            /\ fences[key] # None => fences'[key].attempt = fences[key].attempt
            /\ fences[key] # None /\ fences'[key].status = "succeeded" =>
                  fences[key].status = "succeeded"
  BY <1>1, MarkKeeps
<1>3. \A a \in Begun : Key(a)' = Key(a) /\ Key(a) \in Content \X Site
  BY <1>1, <1>2, KeptKey, RowFacts
<1>4. FenceOwned'
  BY <1>2, <1>3 DEF FenceInv, FenceOwned
<1>5. AnswerDecided' /\ RequestBegun'
  BY <1>2 DEF FenceInv, AnswerDecided, RequestBegun
<1>6. Protected'
  BY <1>2, <1>3 DEF FenceInv, Protected, Fenced
<1>7. ConfirmedIsAccepted'
  BY <1>2 DEF FenceInv, ConfirmedIsAccepted
<1>8. UnresolvedIsFenced'
  BY <1>1, MarkAgrees DEF FenceInv
<1> QED
  BY <1>4, <1>5, <1>6, <1>7, <1>8 DEF FenceInv

\* beginSubmissionFence: the key was free, so no other attempt lived there.
LEMMA InvBegin ==
    ASSUME FenceInv, TypeOK', NEW a \in Attempt, NEW k \in workers, NEW c \in Content,
           NEW s \in Site, BeginSubmission(k, a, c, s)
    PROVE  FenceInv'
<1> DEFINE row == [workflow |-> k.workflow, op |-> k.op, fence |-> k.fence,
                   content |-> c, site |-> s, status |-> "started"]
           guard == [attempt |-> a, status |-> "started"]
<1>1. /\ a \notin Begun /\ fences[<<c, s>>] = None
      /\ ledger' = [ledger EXCEPT ![a] = row]
      /\ fences' = [fences EXCEPT ![<<c, s>>] = guard]
      /\ request' = [request EXCEPT ![a] = "held"]
      /\ answer' = [answer EXCEPT ![a] = "awaited"]
      /\ UNCHANGED waived
  BY DEF BeginSubmission, NextAttempt, Free
<1>2. TypeOK
  BY DEF FenceInv
<1>3. row \in EffectRows /\ guard \in FenceRows
  BY <1>2 DEF TypeOK, Workers, EffectRows, FenceRows, Statuses
<1>4. /\ row # None /\ row.content = c /\ row.site = s /\ row.status = "started"
      /\ guard # None /\ guard.attempt = a /\ guard.status = "started"
  BY <1>3, AbsentAssumption
<1> HIDE DEF row, guard
<1>5. /\ Begun' = Begun \cup {a}
      /\ \A b \in Begun : ledger'[b] = ledger[b] /\ Key(b)' = Key(b)
      /\ Key(a)' = <<c, s>> /\ ledger'[a] = row
  BY <1>1, <1>2, <1>4 DEF TypeOK, Begun, Key
<1>6. /\ fences'[<<c, s>>] = guard
      /\ \A key \in Content \X Site : key # <<c, s>> => fences'[key] = fences[key]
      /\ request'[a] = "held" /\ answer'[a] = "awaited"
      /\ \A b \in Attempt : b # a => request'[b] = request[b] /\ answer'[b] = answer[b]
  BY <1>1, <1>2 DEF TypeOK
<1>7. \A b \in Begun : Key(b) \in Content \X Site /\ b \in Attempt /\ b # a
  BY <1>1, <1>2, RowFacts
<1>8. \A b \in Begun : Fenced(b) => Key(b) # <<c, s>>
  BY <1>1 DEF Fenced
<1>9. FenceOwned'
  BY <1>4, <1>5, <1>6 DEF FenceInv, FenceOwned
<1>10. AnswerDecided' /\ RequestBegun'
  BY <1>5, <1>6 DEF FenceInv, AnswerDecided, RequestBegun
<1>11. Protected'
  <2> SUFFICES ASSUME NEW b \in Begun' \ waived',
                      request'[b] \in {"held", "sent", "accepted"}
               PROVE  Fenced(b)'
    BY DEF Protected
  <2>1. CASE b = a
    BY <1>4, <1>5, <1>6, <2>1 DEF Fenced
  <2>2. CASE b \in Begun
    <3>1. Fenced(b)
      BY <1>1, <1>6, <1>7, <2>2 DEF FenceInv, Protected
    <3> QED
      BY <1>5, <1>6, <1>7, <1>8, <2>2, <3>1 DEF Fenced
  <2> QED
    BY <1>5, <2>1, <2>2
<1>12. ConfirmedIsAccepted'
  <2> SUFFICES ASSUME NEW key \in Content \X Site,
                      fences'[key] # None, fences'[key].status = "succeeded"
               PROVE  request'[fences'[key].attempt] = "accepted"
    BY DEF ConfirmedIsAccepted
  <2>1. key # <<c, s>>
    BY <1>4, <1>6
  <2>2. fences'[key] = fences[key]
    BY <1>6, <2>1
  <2>3. fences[key].attempt \in Begun
    BY <2>2 DEF FenceInv, FenceOwned
  <2>4. request[fences[key].attempt] = "accepted"
    BY <2>2 DEF FenceInv, ConfirmedIsAccepted
  <2> QED
    BY <1>6, <1>7, <2>2, <2>3, <2>4
<1>13. UnresolvedIsFenced'
  <2> SUFFICES ASSUME NEW b \in Unresolved'
               PROVE  fences'[Key(b)'] = [attempt |-> b, status |-> ledger'[b].status]
    BY DEF UnresolvedIsFenced
  <2>1. CASE b = a
    BY <1>4, <1>5, <1>6, <2>1 DEF guard
  <2>2. CASE b # a
    <3>1. b \in Begun /\ b \in Unresolved
      BY <1>5, <2>2 DEF Unresolved
    <3>2. fences[Key(b)] = [attempt |-> b, status |-> ledger[b].status]
      BY <3>1 DEF FenceInv, UnresolvedIsFenced
    <3>3. fences[Key(b)] # None
      <4>1. ledger[b].status \in {"started", "unknown"}
        BY <3>1 DEF Unresolved
      <4>2. [attempt |-> b, status |-> ledger[b].status] \in FenceRows
        BY <1>7, <3>1, <4>1 DEF FenceRows
      <4> QED
        BY <3>2, <4>2, AbsentAssumption
    <3>4. Key(b) # <<c, s>>
      BY <1>1, <3>3
    <3> QED
      BY <1>5, <1>6, <1>7, <3>1, <3>2, <3>4
  <2> QED
    BY <2>1, <2>2
<1> QED
  BY <1>9, <1>10, <1>11, <1>12, <1>13 DEF FenceInv

\* Some attempts are settled: a fence of theirs is confirmed, or removed when
\* its request cannot be accepted any more or a person gave it up.
FenceSettled(key, gone) ==
    /\ fences[key] # None /\ fences[key].attempt \in gone
    /\ \/ /\ fences'[key] = None
          /\ \/ fences[key].attempt \in waived'
             \/ request[fences[key].attempt] \notin {"held", "sent", "accepted"}
       \/ /\ fences'[key] = [attempt |-> fences[key].attempt, status |-> "succeeded"]
          /\ request[fences[key].attempt] = "accepted"

RowSettled(b) ==
    /\ ledger'[b] # None
    /\ ledger'[b].content = ledger[b].content
    /\ ledger'[b].site = ledger[b].site
    /\ ledger'[b].status \notin {"started", "unknown"}

Settling(gone) ==
    /\ UNCHANGED request /\ AnswerDecided' /\ waived \subseteq waived'
    /\ \A b \in Attempt : b \notin gone => ledger'[b] = ledger[b] /\ answer'[b] = answer[b]
    /\ \A b \in gone : RowSettled(b)
    /\ \A key \in Content \X Site : fences'[key] = fences[key] \/ FenceSettled(key, gone)

\* Settling attempts keeps the invariant.
LEMMA InvSettle ==
    ASSUME FenceInv, TypeOK', NEW gone \in SUBSET Begun, Settling(gone)
    PROVE  FenceInv'
<1>1. TypeOK
  BY DEF FenceInv
<1>2. \A b \in Begun : Key(b) \in Content \X Site /\ b \in Attempt
  BY <1>1, RowFacts
<1>3. Begun' = Begun /\ \A b \in Begun : Key(b)' = Key(b)
  BY <1>2 DEF Begun, Key, Settling, RowSettled
<1>4. ASSUME NEW key \in Content \X Site, fences'[key] # None
      PROVE  /\ fences[key] # None /\ fences'[key].attempt = fences[key].attempt
             /\ fences'[key].status = "succeeded" =>
                   \/ fences[key].status = "succeeded"
                   \/ request[fences[key].attempt] = "accepted"
  <2>1. CASE fences'[key] = fences[key]
    BY <1>4, <2>1
  <2>2. CASE FenceSettled(key, gone)
    BY <1>4, <2>2 DEF FenceSettled
  <2> QED
    BY <2>1, <2>2 DEF Settling
<1>5. FenceOwned'
  BY <1>3, <1>4 DEF FenceInv, FenceOwned
<1>6. AnswerDecided' /\ RequestBegun'
  BY <1>3 DEF FenceInv, RequestBegun, Settling
<1>7. Protected'
  <2> SUFFICES ASSUME NEW b \in Begun \ waived', request[b] \in {"held", "sent", "accepted"}
               PROVE  Fenced(b)'
    BY <1>3 DEF Protected, Settling
  <2>1. fences[Key(b)] # None /\ fences[Key(b)].attempt = b
    BY DEF FenceInv, Protected, Fenced, Settling
  <2>2. fences'[Key(b)] # None
    <3>1. CASE fences'[Key(b)] = fences[Key(b)]
      BY <2>1, <3>1
    <3>2. CASE FenceSettled(Key(b), gone)
      <4>1. fences'[Key(b)] = [attempt |-> b, status |-> "succeeded"]
        BY <2>1, <3>2 DEF FenceSettled
      <4>2. [attempt |-> b, status |-> "succeeded"] \in FenceRows
        BY <1>2 DEF FenceRows
      <4> QED
        BY <4>1, <4>2, AbsentAssumption
    <3> QED
      BY <1>2, <3>1, <3>2 DEF Settling
  <2> QED
    BY <1>2, <1>3, <1>4, <2>1, <2>2 DEF Fenced
<1>8. ConfirmedIsAccepted'
  BY <1>4 DEF FenceInv, ConfirmedIsAccepted, Settling
<1>9. UnresolvedIsFenced'
  <2> SUFFICES ASSUME NEW b \in Unresolved'
               PROVE  fences'[Key(b)'] = [attempt |-> b, status |-> ledger'[b].status]
    BY DEF UnresolvedIsFenced
  <2>1. b \in Begun /\ b \notin gone
    BY <1>3 DEF Unresolved, Settling, RowSettled
  <2>2. ledger'[b] = ledger[b] /\ b \in Unresolved
    BY <1>2, <2>1 DEF Unresolved, Settling
  <2>3. fences[Key(b)] = [attempt |-> b, status |-> ledger[b].status]
    BY <2>2 DEF FenceInv, UnresolvedIsFenced
  <2>4. fences[Key(b)].attempt = b
    BY <2>3
  <2>5. fences'[Key(b)] = fences[Key(b)]
    BY <1>2, <2>1, <2>4 DEF Settling, FenceSettled
  <2> QED
    BY <1>3, <2>1, <2>2, <2>3, <2>5
<1> QED
  BY <1>5, <1>6, <1>7, <1>8, <1>9 DEF FenceInv

\* A row of the ledger with another status.
LEMMA StatusRow ==
    ASSUME TypeOK, NEW a \in Begun, NEW status \in Statuses,
           ledger' = [ledger EXCEPT ![a].status = status]
    PROVE  /\ ledger'[a] # None
           /\ ledger'[a].content = ledger[a].content
           /\ ledger'[a].site = ledger[a].site
           /\ ledger'[a].status = status
           /\ \A b \in Attempt : b # a => ledger'[b] = ledger[b]
<1>1. a \in Attempt /\ ledger[a] \in EffectRows
  BY RowFacts
<1>2. ledger'[a] = [ledger[a] EXCEPT !.status = status]
  BY <1>1 DEF TypeOK
<1>3. [ledger[a] EXCEPT !.status = status] \in EffectRows
  BY <1>1 DEF EffectRows
<1> QED
  BY <1>1, <1>2, <1>3, AbsentAssumption DEF TypeOK, EffectRows

\* completeSubmissionFence: success confirms the fence of the attempt, a known
\* failure removes it; without the authority nothing is stored.
LEMMA InvComplete ==
    ASSUME FenceInv, TypeOK', NEW a \in Attempt, CompleteSubmission(a)
    PROVE  FenceInv'
<1>1. TypeOK /\ a \in Begun /\ answer[a] = "known"
  BY DEF FenceInv, CompleteSubmission, Receiptable
<1>2. request[a] \in {"accepted", "void"}
  BY <1>1 DEF FenceInv, AnswerDecided
<1>3. /\ UNCHANGED <<request, waived>>
      /\ answer' = [answer EXCEPT ![a] = "receipted"]
  BY DEF CompleteSubmission
<1>4. /\ AnswerDecided'
      /\ \A b \in Attempt : b # a => answer'[b] = answer[b]
      /\ answer'[a] = "receipted"
  BY <1>1, <1>3 DEF FenceInv, AnswerDecided, TypeOK
<1>5. CASE UNCHANGED tables
  BY <1>1, <1>2, <1>3, <1>4, <1>5, InvRequest DEF tables, FenceInv, RequestBegun, AnswerDecided
<1>6. CASE /\ fences[Key(a)] = [attempt |-> a, status |-> "started"]
           /\ fences' = [fences EXCEPT ![Key(a)] = Settled(a)]
           /\ ledger' = [ledger EXCEPT ![a].status = IF Accepted(a) THEN "succeeded" ELSE "failed"]
  <2> DEFINE status == IF Accepted(a) THEN "succeeded" ELSE "failed"
  <2>1. status \in Statuses /\ status \notin {"started", "unknown"}
    BY DEF Statuses
  <2>2. /\ ledger'[a] # None
        /\ ledger'[a].content = ledger[a].content
        /\ ledger'[a].site = ledger[a].site
        /\ ledger'[a].status = status
        /\ \A b \in Attempt : b # a => ledger'[b] = ledger[b]
    BY <1>1, <1>6, <2>1, StatusRow
  <2> HIDE DEF status
  <2>3. [attempt |-> a, status |-> "started"] # None
    BY AbsentAssumption DEF FenceRows
  <2>4. /\ fences'[Key(a)] = Settled(a)
        /\ \A key \in Content \X Site : key # Key(a) => fences'[key] = fences[key]
    BY <1>1, <1>6, RowFacts DEF TypeOK
  <2>5. CASE Accepted(a)
    <3>1. Settled(a) = [attempt |-> a, status |-> "succeeded"] /\ request[a] = "accepted"
      BY <2>5 DEF Settled, Accepted
    <3>2. FenceSettled(Key(a), {a})
      BY <1>6, <2>3, <2>4, <3>1 DEF FenceSettled
    <3>3. Settling({a})
      BY <1>3, <1>4, <2>1, <2>2, <2>4, <3>2 DEF Settling, RowSettled
    <3> QED
      BY <1>1, <3>3, InvSettle
  <2>6. CASE ~Accepted(a)
    <3>1. Settled(a) = None /\ request[a] \notin {"held", "sent", "accepted"}
      BY <1>1, <1>2, <2>6 DEF Settled, Accepted
    <3>2. FenceSettled(Key(a), {a})
      BY <1>6, <2>3, <2>4, <3>1 DEF FenceSettled
    <3>3. Settling({a})
      BY <1>3, <1>4, <2>1, <2>2, <2>4, <3>2 DEF Settling, RowSettled
    <3> QED
      BY <1>1, <3>3, InvSettle
  <2> QED
    BY <2>5, <2>6
<1> QED
  BY <1>5, <1>6 DEF CompleteSubmission

\* publishLegacyRecoveryActions settles the effect and leaves its fence.
LEMMA InvConfirm ==
    ASSUME FenceInv, TypeOK', NEW a \in Attempt, ConfirmLegacyEffect(a)
    PROVE  FenceInv'
<1>1. TypeOK /\ a \in Begun
  BY DEF FenceInv, ConfirmLegacyEffect, OfWorkflow
<1>2. UNCHANGED <<fences, request, answer, waived>>
  BY DEF ConfirmLegacyEffect, remote
<1>3. /\ ledger'[a] # None
      /\ ledger'[a].content = ledger[a].content
      /\ ledger'[a].site = ledger[a].site
      /\ ledger'[a].status = "succeeded"
      /\ \A b \in Attempt : b # a => ledger'[b] = ledger[b]
  BY <1>1, StatusRow DEF ConfirmLegacyEffect, Statuses
<1>4. AnswerDecided'
  BY <1>2 DEF FenceInv, AnswerDecided
<1>5. Settling({a})
  BY <1>2, <1>3, <1>4 DEF Settling, RowSettled
<1> QED
  BY <1>1, <1>5, InvSettle

\* resolveReleaseWorkflowEffectUnknown: the person vouches for a request that
\* was not accepted; one that is still out is given up.
LEMMA InvResolve ==
    ASSUME FenceInv, TypeOK', NEW a \in Attempt, ResolveUnknown(a)
    PROVE  FenceInv'
<1>1. TypeOK /\ a \in Begun /\ request[a] # "accepted"
  BY DEF FenceInv, ResolveUnknown
<1>2. UNCHANGED <<request, answer>> /\ waived \subseteq waived'
  BY DEF ResolveUnknown, remote
<1>3. request[a] \in {"held", "sent"} => a \in waived'
  BY DEF ResolveUnknown
<1>4. /\ ledger'[a] # None
      /\ ledger'[a].content = ledger[a].content
      /\ ledger'[a].site = ledger[a].site
      /\ ledger'[a].status = "failed"
      /\ \A b \in Attempt : b # a => ledger'[b] = ledger[b]
  BY <1>1, StatusRow DEF ResolveUnknown, Statuses
<1>5. AnswerDecided'
  BY <1>2 DEF FenceInv, AnswerDecided
<1>6. [attempt |-> a, status |-> "unknown"] # None
  BY AbsentAssumption DEF FenceRows
<1>7. ASSUME NEW key \in Content \X Site
      PROVE  \/ fences'[key] = fences[key]
             \/ /\ fences[key] # None /\ fences[key].attempt = a /\ fences'[key] = None
  BY <1>6 DEF ResolveUnknown
<1>8. \A key \in Content \X Site : fences'[key] = fences[key] \/ FenceSettled(key, {a})
  BY <1>1, <1>3, <1>7 DEF FenceSettled
<1>9. Settling({a})
  BY <1>2, <1>4, <1>5, <1>8 DEF Settling, RowSettled
<1> QED
  BY <1>1, <1>9, InvSettle

\* PurgeContentData gives up every attempt of the workflow.
LEMMA InvPurge ==
    ASSUME FenceInv, TypeOK', NEW w \in Workflow, PurgeContent(w)
    PROVE  FenceInv'
<1> DEFINE gone == OfWorkflow(w)
<1>1. TypeOK /\ gone \in SUBSET Begun
  BY DEF FenceInv, OfWorkflow
<1>2. UNCHANGED <<request, answer>> /\ waived' = waived \cup gone
  BY DEF PurgeContent, remote
<1>3. AnswerDecided'
  BY <1>2 DEF FenceInv, AnswerDecided
<1>4. ASSUME NEW b \in gone
      PROVE  /\ ledger'[b] # None
             /\ ledger'[b].content = ledger[b].content
             /\ ledger'[b].site = ledger[b].site
             /\ ledger'[b].status = "deleted"
  <2>1. b \in Attempt /\ ledger[b] \in EffectRows
    BY <1>1, RowFacts
  <2>2. ledger'[b] = [ledger[b] EXCEPT !.status = "deleted"]
    BY <2>1 DEF PurgeContent
  <2>3. [ledger[b] EXCEPT !.status = "deleted"] \in EffectRows
    BY <2>1 DEF EffectRows, Statuses
  <2> QED
    BY <2>1, <2>2, <2>3, AbsentAssumption DEF EffectRows
<1>5. \A b \in Attempt : b \notin gone => ledger'[b] = ledger[b]
  BY DEF PurgeContent
<1>6. \A key \in Content \X Site :
          \/ fences'[key] = fences[key]
          \/ fences[key] # None /\ fences[key].attempt \in gone /\ fences'[key] = None
  BY DEF PurgeContent
<1> HIDE DEF gone
<1>7. \A key \in Content \X Site : fences'[key] = fences[key] \/ FenceSettled(key, gone)
  BY <1>2, <1>6 DEF FenceSettled
<1>8. Settling(gone)
  BY <1>2, <1>3, <1>4, <1>5, <1>7 DEF Settling, RowSettled
<1> QED
  BY <1>1, <1>8, InvSettle

\* Requests change only in the ways InvRequest allows.
LEMMA InvSubmit ==
    ASSUME FenceInv, TypeOK', NEW a \in Attempt, Send(a) \/ Decide(a) \/ Answered(a)
    PROVE  FenceInv'
<1>1. a \in Begun /\ UNCHANGED <<ledger, fences, waived>>
  BY DEF Send, Decide, Answered, Submitting, tables
<1>2. ASSUME NEW b \in Attempt
      PROVE  /\ request'[b] \in {"held", "sent", "accepted"} =>
                   request[b] \in {"held", "sent", "accepted"}
             /\ request[b] = "accepted" => request'[b] = "accepted"
             /\ answer'[b] = "known" => request'[b] \in {"accepted", "void"}
             /\ b \notin Begun => request'[b] = "void" /\ answer'[b] = "unclear"
  <2>1. CASE b # a
    BY <1>1, <2>1 DEF Send, Decide, Answered, FenceInv, TypeOK, AnswerDecided, RequestBegun
  <2>2. CASE b = a
    BY <1>1, <2>2 DEF Send, Decide, Answered, Submitting, FenceInv, TypeOK, AnswerDecided
  <2> QED
    BY <2>1, <2>2
<1> QED
  BY <1>1, <1>2, InvRequest

\* A worker that is lost takes the requests it had not sent with it.
LEMMA InvLose ==
    ASSUME FenceInv, TypeOK', NEW k \in workers, LoseWorker(k)
    PROVE  FenceInv'
<1>1. UNCHANGED <<ledger, fences, waived, answer>>
  BY DEF LoseWorker, tables
<1>2. ASSUME NEW b \in Attempt
      PROVE  /\ request'[b] \in {"held", "sent", "accepted"} =>
                   request[b] \in {"held", "sent", "accepted"}
             /\ request[b] = "accepted" => request'[b] = "accepted"
             /\ answer'[b] = "known" => request'[b] \in {"accepted", "void"}
             /\ b \notin Begun => request'[b] = "void" /\ answer'[b] = "unclear"
  BY <1>1 DEF LoseWorker, FenceInv, AnswerDecided, RequestBegun
<1> QED
  BY <1>1, <1>2, InvRequest

\* The invariant holds of every reachable state.
LEMMA FenceInduction == Spec => []FenceInv
<1>1. Init => FenceInv
  <2> SUFFICES ASSUME Init
               PROVE  FenceInv
    OBVIOUS
  <2>1. TypeOK
    BY SubmissionAssumption DEF Init, TypeOK, NoInput, Input, Inputs, Phases
  <2>2. Begun = {} /\ Unresolved = {}
    BY DEF Init, Begun, Unresolved
  <2> QED
    BY <2>1, <2>2 DEF Init, FenceInv, FenceOwned, AnswerDecided, RequestBegun, Protected,
       ConfirmedIsAccepted, UnresolvedIsFenced
<1>2. FenceInv /\ TypeOK' /\ [Next]_vars => FenceInv'
  <2> SUFFICES ASSUME FenceInv, TypeOK', [Next]_vars
               PROVE  FenceInv'
    OBVIOUS
  <2>1. ASSUME NEW a \in Attempt, AttemptStep(a)
        PROVE  FenceInv'
    BY <2>1, InvBegin, InvSubmit, InvComplete, InvConfirm, InvResolve DEF AttemptStep
  <2>2. ASSUME NEW k \in workers, WorkerStep(k)
        PROVE  FenceInv'
    <3>1. CASE RetainResults(k)
      BY <3>1, InvElsewhere DEF RetainResults, tables, remote
    <3>2. CASE CompleteWork(k)
      BY <3>2, InvMark DEF CompleteWork, OfOperation, remote
    <3> QED
      BY <2>2, <3>1, <3>2, InvLose DEF WorkerStep
  <2>3. ASSUME NEW w \in Workflow, WorkflowStep(w)
        PROVE  FenceInv'
    <3>1. CASE \/ StartOperation(w) \/ PublishCompleted(w) \/ InterruptOperation(w)
               \/ ResumeOperation(w)
      BY <3>1, InvElsewhere DEF StartOperation, PublishCompleted, InterruptOperation,
         ResumeOperation, tables, remote
    <3>2. ASSUME NEW op, SettleEffects(w, op)
          PROVE  FenceInv'
      BY <3>2, InvMark DEF SettleEffects, OfOperation, remote
    <3> QED
      BY <2>3, <3>1, <3>2, InvPurge DEF WorkflowStep
  <2>4. CASE ChangeInput
    BY <2>4, InvElsewhere DEF ChangeInput, tables, remote
  <2>5. CASE RecoverLegacyEffects
    BY <2>5, InvMark DEF RecoverLegacyEffects, OfWorkflow, remote
  <2>6. CASE UNCHANGED vars
    BY <2>6, InvElsewhere DEF vars
  <2> QED
    BY <2>1, <2>2, <2>3, <2>4, <2>5, <2>6 DEF Next
<1> QED
  BY <1>1, <1>2, FenceTypeCorrect, PTL DEF Spec

\* An attempt whose request may still be, or has been, accepted keeps its
\* content and site reserved in submission_fences.
THEOREM ProtectedTheorem == Spec => []Protected
BY FenceInduction, PTL DEF FenceInv

\* A tracker site accepts the same content at most once, unless a person gave
\* the protection of an attempt up: both would own the fence of the key.
THEOREM OnceTheorem == Spec => []AcceptedOnce
<1>1. Protected => AcceptedOnce
  BY DEF Protected, AcceptedOnce, Fenced
<1> QED
  BY <1>1, ProtectedTheorem, PTL

\* A fence that reports "already succeeded" stands for an accepted upload.
THEOREM ConfirmedTheorem == Spec => []ConfirmedIsAccepted
BY FenceInduction, PTL DEF FenceInv

\* The effect ledger and the fences agree about every unresolved attempt.
THEOREM AgreementTheorem == Spec => []UnresolvedIsFenced
BY FenceInduction, PTL DEF FenceInv

-----------------------------------------------------------------------------
(* The abstract promise.  The two maps of the refinement, key by key: a    *)
(* fence row is a claim, an accepted attempt nobody gave up a delivery.    *)

Keys == Content \X Site

ClaimAt(key) ==
    CASE fences[key] = None -> "free"
      [] fences[key] # None /\ fences[key].status = "succeeded" -> "confirmed"
      [] OTHER -> "claimed"

DeliveredAt(key) == {a \in Begun \ waived : request[a] = "accepted" /\ Key(a) = key}

\* What one step of the promise reads and writes.
Claims == [key \in Content \X Site |-> ClaimAt(key)]
Deliveries == [key \in Content \X Site |-> DeliveredAt(key)]

SameAt(key) == ClaimAt(key)' = ClaimAt(key) /\ DeliveredAt(key)' = DeliveredAt(key)

\* One key takes a step of its own.
KeyStep(key) ==
    \/ /\ ClaimAt(key) = "free" /\ ClaimAt(key)' = "claimed"
       /\ DeliveredAt(key) = {} /\ DeliveredAt(key)' = {}
    \/ /\ ClaimAt(key) = "claimed" /\ ClaimAt(key)' = "claimed"
       /\ DeliveredAt(key) = {} /\ \E a \in Attempt : DeliveredAt(key)' = {a}
    \/ /\ ClaimAt(key) = "claimed" /\ ClaimAt(key)' = "confirmed"
       /\ DeliveredAt(key) # {} /\ DeliveredAt(key)' = DeliveredAt(key)
    \/ /\ ClaimAt(key) = "claimed" /\ ClaimAt(key)' = "free"
       /\ DeliveredAt(key) = {} /\ DeliveredAt(key)' = {}

OnceStep == [Once!Next]_<<Claims, Deliveries>>

\* A step that leaves every key alone is a stutter of the promise.
LEMMA StutterStep ==
    ASSUME \A key \in Keys : SameAt(key)
    PROVE  OnceStep
BY DEF OnceStep, SameAt, Keys, Claims, Deliveries

\* A step of one key is the step of the promise with that key.
LEMMA OneKeyStep ==
    ASSUME NEW key \in Keys, KeyStep(key),
           \A other \in Keys : other # key => SameAt(other)
    PROVE  OnceStep
<1>1. \A other \in Keys : other # key =>
          ClaimAt(other)' = ClaimAt(other) /\ DeliveredAt(other)' = DeliveredAt(other)
  BY DEF SameAt
<1>2. /\ Claims[key] = ClaimAt(key) /\ Deliveries[key] = DeliveredAt(key)
      /\ Claims' = [Claims EXCEPT ![key] = ClaimAt(key)']
      /\ Deliveries' = [Deliveries EXCEPT ![key] = DeliveredAt(key)']
  BY <1>1 DEF Claims, Deliveries, Keys
<1>3. DeliveredAt(key)' = DeliveredAt(key) => Deliveries' = Deliveries
  BY <1>1 DEF Deliveries, Keys
<1>4. ClaimAt(key)' = ClaimAt(key) => Claims' = Claims
  BY <1>1 DEF Claims, Keys
<1>5. Once!Claim(key) \/ Once!Confirm(key) \/ Once!Release(key)
      \/ \E a \in Attempt : Once!Deliver(key, a)
  <2>1. CASE /\ ClaimAt(key) = "free" /\ ClaimAt(key)' = "claimed"
             /\ DeliveredAt(key) = {} /\ DeliveredAt(key)' = {}
    <3>1. /\ Claims[key] = "free" /\ Deliveries[key] = {}
          /\ Claims' = [Claims EXCEPT ![key] = "claimed"] /\ Deliveries' = Deliveries
      BY <1>2, <1>3, <2>1
    <3>2. Once!Claim(key)
      BY <3>1 DEF Once!Claim, Claims, Deliveries, ClaimAt, DeliveredAt
    <3> QED
      BY <3>2
  <2>2. ASSUME NEW a \in Attempt,
               ClaimAt(key) = "claimed", ClaimAt(key)' = "claimed",
               DeliveredAt(key) = {}, DeliveredAt(key)' = {a}
        PROVE  Once!Deliver(key, a)
    <3>1. /\ Claims[key] = "claimed" /\ Deliveries[key] = {}
          /\ Deliveries' = [Deliveries EXCEPT ![key] = {a}] /\ Claims' = Claims
      BY <1>2, <1>4, <2>2
    <3> QED
      BY <3>1 DEF Once!Deliver, Claims, Deliveries, ClaimAt, DeliveredAt
  <2>3. CASE /\ ClaimAt(key) = "claimed" /\ ClaimAt(key)' = "confirmed"
             /\ DeliveredAt(key) # {} /\ DeliveredAt(key)' = DeliveredAt(key)
    <3>1. /\ Claims[key] = "claimed" /\ Deliveries[key] # {}
          /\ Claims' = [Claims EXCEPT ![key] = "confirmed"] /\ Deliveries' = Deliveries
      BY <1>2, <1>3, <2>3
    <3>2. Once!Confirm(key)
      BY <3>1 DEF Once!Confirm, Claims, Deliveries, ClaimAt, DeliveredAt
    <3> QED
      BY <3>2
  <2>4. CASE /\ ClaimAt(key) = "claimed" /\ ClaimAt(key)' = "free"
             /\ DeliveredAt(key) = {} /\ DeliveredAt(key)' = {}
    <3>1. /\ Claims[key] = "claimed" /\ Deliveries[key] = {}
          /\ Claims' = [Claims EXCEPT ![key] = "free"] /\ Deliveries' = Deliveries
      BY <1>2, <1>3, <2>4
    <3>2. Once!Release(key)
      BY <3>1 DEF Once!Release, Claims, Deliveries, ClaimAt, DeliveredAt
    <3> QED
      BY <3>2
  <2> QED
    BY <2>1, <2>2, <2>3, <2>4 DEF KeyStep
<1>6. Once!Next
  BY <1>5 DEF Once!Next, Keys
<1> QED
  BY <1>6 DEF OnceStep

\* A step that forgets some keys is the step of the promise that does.
LEMMA ForgetStep ==
    ASSUME NEW keys \in SUBSET Keys,
           \A key \in keys : ClaimAt(key)' = "free" /\ DeliveredAt(key)' = {},
           \A key \in Keys : key \notin keys => SameAt(key)
    PROVE  OnceStep
<1>1. /\ Claims' = [key \in Keys |-> IF key \in keys THEN "free" ELSE Claims[key]]
      /\ Deliveries' = [key \in Keys |-> IF key \in keys THEN {} ELSE Deliveries[key]]
  BY DEF Claims, Deliveries, Keys, SameAt
<1>2. Once!Forget(keys)
  BY <1>1 DEF Once!Forget, Claims, Deliveries, ClaimAt, DeliveredAt, Keys
<1> QED
  BY <1>2 DEF Once!Next, OnceStep, Keys

\* What a person gave up is settled: its effect is never open again.
WaivedSettled == \A a \in waived : a \in Begun /\ a \notin Unresolved

\* Whatever was delivered for a key owns the fence of the key.
LEMMA DeliveredOwns ==
    ASSUME FenceInv, NEW key \in Keys, NEW b \in DeliveredAt(key)
    PROVE  fences[key] # None /\ fences[key].attempt = b /\ request[b] = "accepted"
BY DEF FenceInv, Protected, Fenced, DeliveredAt

\* The rows keep their keys, and nothing accepted appears, goes or is given up.
LEMMA SameDeliveries ==
    ASSUME FenceInv, RowsKept, Begun' = Begun,
           \A a \in Begun : /\ request'[a] = "accepted" <=> request[a] = "accepted"
                            /\ request[a] = "accepted" => (a \in waived' <=> a \in waived)
    PROVE  \A key \in Keys : DeliveredAt(key)' = DeliveredAt(key)
<1>1. \A a \in Begun : Key(a)' = Key(a)
  BY KeptKey
<1> QED
  BY <1>1 DEF DeliveredAt

\* Neither the tables nor the accepted requests change.
LEMMA OnceElsewhere ==
    ASSUME FenceInv, UNCHANGED <<ledger, fences, waived>>,
           \A a \in Begun : request'[a] = "accepted" <=> request[a] = "accepted"
    PROVE  OnceStep
<1>1. RowsKept /\ Begun' = Begun
  BY DEF RowsKept, Begun
<1>2. \A key \in Keys : DeliveredAt(key)' = DeliveredAt(key)
  BY <1>1, SameDeliveries
<1>3. \A key \in Keys : ClaimAt(key)' = ClaimAt(key)
  BY DEF ClaimAt
<1> QED
  BY <1>2, <1>3, StutterStep DEF SameAt

\* Attempts that become unknown keep their claims.
LEMMA OnceMark ==
    ASSUME FenceInv, UNCHANGED <<request, waived>>,
           NEW chosen \in SUBSET Begun, MarkUnknown(chosen)
    PROVE  OnceStep
<1>1. TypeOK
  BY DEF FenceInv
<1>2. RowsKept /\ Begun' = Begun
  BY <1>1, MarkKeeps
<1>3. \A key \in Keys : DeliveredAt(key)' = DeliveredAt(key)
  BY <1>2, SameDeliveries
<1>4. ASSUME NEW key \in Keys
      PROVE  ClaimAt(key)' = ClaimAt(key)
  <2>1. /\ fences'[key] = None <=> fences[key] = None
        /\ fences[key] # None /\ fences'[key].status = "succeeded" =>
              fences[key].status = "succeeded"
    BY <1>1, MarkKeeps DEF Keys
  <2>2. fences[key] # None /\ fences[key].status = "succeeded" => fences'[key] = fences[key]
    BY DEF MarkUnknown, Keys
  <2> QED
    BY <2>1, <2>2 DEF ClaimAt
<1> QED
  BY <1>3, <1>4, StutterStep DEF SameAt

\* beginSubmissionFence claims a key nothing was delivered for.
LEMMA OnceBegin ==
    ASSUME FenceInv, NEW a \in Attempt, NEW k \in workers, NEW c \in Content, NEW s \in Site,
           BeginSubmission(k, a, c, s)
    PROVE  OnceStep
<1> DEFINE key == <<c, s>>
<1>1. TypeOK /\ key \in Keys /\ a \notin Begun
  BY DEF FenceInv, Keys, BeginSubmission, NextAttempt
<1>2. /\ fences[key] = None
      /\ fences' = [fences EXCEPT ![key] = [attempt |-> a, status |-> "started"]]
      /\ request' = [request EXCEPT ![a] = "held"]
      /\ waived' = waived
  BY DEF BeginSubmission, Free
<1>3. \A b \in Attempt : b # a => ledger'[b] = ledger[b] /\ request'[b] = request[b]
  BY <1>1, <1>2 DEF BeginSubmission, TypeOK
<1>4. request'[a] = "held"
  BY <1>1, <1>2 DEF TypeOK
<1>5. \A other \in Keys : DeliveredAt(other)' = DeliveredAt(other)
  BY <1>1, <1>2, <1>3, <1>4 DEF DeliveredAt, Begun, Key
<1>6. \A other \in Keys : other # key => ClaimAt(other)' = ClaimAt(other)
  BY <1>1, <1>2 DEF ClaimAt, TypeOK, Keys
<1>7. DeliveredAt(key) = {}
  BY <1>1, <1>2, DeliveredOwns
<1>8. fences'[key] # None /\ fences'[key].status = "started"
  <2>1. fences'[key] = [attempt |-> a, status |-> "started"]
    BY <1>1, <1>2 DEF TypeOK, Keys
  <2>2. [attempt |-> a, status |-> "started"] \in FenceRows
    BY DEF FenceRows
  <2> QED
    BY <2>1, <2>2, AbsentAssumption
<1>9. ClaimAt(key) = "free" /\ ClaimAt(key)' = "claimed"
  BY <1>2, <1>8 DEF ClaimAt
<1> HIDE DEF key
<1>10. KeyStep(key)
  BY <1>1, <1>5, <1>7, <1>9 DEF KeyStep
<1> QED
  BY <1>1, <1>5, <1>6, <1>10, OneKeyStep DEF SameAt

\* The tracker accepts an attempt nobody gave up: its key is claimed by it,
\* and by nothing delivered before.
LEMMA OnceDecide ==
    ASSUME FenceInv, NEW a \in Attempt, Decide(a)
    PROVE  OnceStep
<1>1. TypeOK /\ a \in Begun /\ request[a] = "sent" /\ UNCHANGED <<ledger, fences, waived>>
  BY DEF FenceInv, Decide, tables
<1>2. \A b \in Attempt : b # a => request'[b] = request[b]
  BY DEF Decide, FenceInv, TypeOK
<1>3. CASE request'[a] # "accepted"
  BY <1>1, <1>2, <1>3, RowFacts, OnceElsewhere
<1>4. CASE a \in waived
  <2>1. \A key \in Keys : DeliveredAt(key)' = DeliveredAt(key)
    BY <1>1, <1>2, <1>4, RowFacts DEF DeliveredAt, Begun, Key
  <2>2. \A key \in Keys : ClaimAt(key)' = ClaimAt(key)
    BY <1>1 DEF ClaimAt
  <2> QED
    BY <2>1, <2>2, StutterStep DEF SameAt
<1>5. CASE a \notin waived /\ request'[a] = "accepted"
  <2>1. PICK key \in Keys : key = Key(a)
    BY <1>1, RowFacts DEF Keys
  <2>2. fences[key] # None /\ fences[key].attempt = a
    BY <1>1, <1>5, <2>1 DEF FenceInv, Protected, Fenced
  <2>3. fences[key].status # "succeeded"
    BY <1>1, <2>1, <2>2 DEF FenceInv, ConfirmedIsAccepted, Keys
  <2>4. ClaimAt(key) = "claimed" /\ \A other \in Keys : ClaimAt(other)' = ClaimAt(other)
    BY <1>1, <2>2, <2>3 DEF ClaimAt
  <2>5. DeliveredAt(key) = {}
    BY <1>1, <2>1, <2>2, DeliveredOwns
  <2>6. /\ \A b \in Attempt : b # a =>
              (request'[b] = "accepted" <=> request[b] = "accepted")
        /\ Begun' = Begun /\ waived' = waived /\ \A b \in Begun : Key(b)' = Key(b)
    BY <1>1, <1>2 DEF Begun, Key
  <2>7. \A other \in Keys : other # key => DeliveredAt(other)' = DeliveredAt(other)
    BY <1>1, <2>1, <2>6, RowFacts DEF DeliveredAt
  <2>8. DeliveredAt(key)' = {a}
    <3>1. a \in DeliveredAt(key)'
      BY <1>1, <1>5, <2>1, <2>6 DEF DeliveredAt
    <3>2. ASSUME NEW b \in DeliveredAt(key)', b # a
          PROVE  FALSE
      <4>1. b \in DeliveredAt(key)
        BY <1>1, <2>6, <3>2, RowFacts DEF DeliveredAt
      <4> QED
        BY <2>5, <4>1
    <3> QED
      BY <3>1, <3>2
  <2>9. ClaimAt(key)' = "claimed"
    BY <2>1, <2>4
  <2>10. KeyStep(key)
    BY <2>4, <2>5, <2>8, <2>9 DEF KeyStep
  <2> QED
    BY <2>1, <2>4, <2>7, <2>10, OneKeyStep DEF SameAt
<1> QED
  BY <1>3, <1>4, <1>5

\* completeSubmissionFence confirms the claim of an accepted attempt, and
\* releases the claim of one that is known to have failed.
LEMMA OnceComplete ==
    ASSUME FenceInv, WaivedSettled, NEW a \in Attempt, CompleteSubmission(a)
    PROVE  OnceStep
<1>1. TypeOK /\ a \in Begun /\ answer[a] = "known" /\ UNCHANGED <<request, waived>>
  BY DEF FenceInv, CompleteSubmission, Receiptable
<1>2. request[a] \in {"accepted", "void"}
  BY <1>1 DEF FenceInv, AnswerDecided
<1>3. CASE UNCHANGED tables
  BY <1>1, <1>3, OnceElsewhere DEF tables
<1>4. CASE /\ fences[Key(a)] = [attempt |-> a, status |-> "started"]
           /\ ledger[a].status = "started"
           /\ fences' = [fences EXCEPT ![Key(a)] = Settled(a)]
           /\ ledger' = [ledger EXCEPT ![a].status = IF Accepted(a) THEN "succeeded" ELSE "failed"]
  <2> DEFINE status == IF Accepted(a) THEN "succeeded" ELSE "failed"
  <2>1. PICK key \in Keys : key = Key(a)
    BY <1>1, RowFacts DEF Keys
  <2>2. status \in Statuses
    BY DEF Statuses
  <2>3. /\ ledger'[a] # None
        /\ ledger'[a].content = ledger[a].content
        /\ ledger'[a].site = ledger[a].site
        /\ \A b \in Attempt : b # a => ledger'[b] = ledger[b]
    BY <1>1, <1>4, <2>2, StatusRow
  <2> HIDE DEF status
  <2>4. RowsKept /\ Begun' = Begun
    BY <1>1, <2>3 DEF RowsKept, Begun
  <2>5. \A other \in Keys : DeliveredAt(other)' = DeliveredAt(other)
    BY <1>1, <2>4, SameDeliveries
  <2>6. /\ fences'[key] = Settled(a)
        /\ \A other \in Keys : other # key => fences'[other] = fences[other]
    BY <1>1, <1>4, <2>1 DEF TypeOK, Keys
  <2>7. \A other \in Keys : other # key => ClaimAt(other)' = ClaimAt(other)
    BY <2>6 DEF ClaimAt
  <2>8. fences[key] # None /\ fences[key].attempt = a /\ fences[key].status = "started"
    BY <1>4, <2>1, AbsentAssumption DEF FenceRows
  <2>9. ClaimAt(key) = "claimed"
    BY <2>8 DEF ClaimAt
  <2>10. KeyStep(key)
    <3>1. CASE Accepted(a)
      <4>1. a \in DeliveredAt(key)
        BY <1>1, <1>4, <2>1, <3>1 DEF Accepted, WaivedSettled, Unresolved, DeliveredAt
      <4>2. [attempt |-> a, status |-> "succeeded"] \in FenceRows
        BY DEF FenceRows
      <4>3. fences'[key] # None /\ fences'[key].status = "succeeded"
        BY <2>6, <3>1, <4>2, AbsentAssumption DEF Settled
      <4>4. ClaimAt(key)' = "confirmed"
        BY <4>3 DEF ClaimAt
      <4> QED
        BY <2>1, <2>5, <2>9, <4>1, <4>4 DEF KeyStep
    <3>2. CASE ~Accepted(a)
      <4>1. request[a] # "accepted"
        BY <1>1, <3>2 DEF Accepted
      <4>2. DeliveredAt(key) = {}
        BY <2>1, <2>8, <4>1, DeliveredOwns
      <4>3. fences'[key] = None
        BY <2>6, <3>2 DEF Settled
      <4>4. ClaimAt(key)' = "free"
        BY <4>3 DEF ClaimAt
      <4> QED
        BY <2>1, <2>5, <2>9, <4>2, <4>4 DEF KeyStep
    <3> QED
      BY <3>1, <3>2
  <2> QED
    BY <2>1, <2>5, <2>7, <2>10, OneKeyStep DEF SameAt
<1> QED
  BY <1>3, <1>4 DEF CompleteSubmission

\* publishLegacyRecoveryActions leaves the fences alone.
LEMMA OnceConfirm ==
    ASSUME FenceInv, NEW a \in Attempt, ConfirmLegacyEffect(a)
    PROVE  OnceStep
<1>1. TypeOK /\ a \in Begun /\ UNCHANGED <<fences, request, waived>>
  BY DEF FenceInv, ConfirmLegacyEffect, OfWorkflow, remote
<1>2. /\ ledger'[a] # None
      /\ ledger'[a].content = ledger[a].content
      /\ ledger'[a].site = ledger[a].site
      /\ \A b \in Attempt : b # a => ledger'[b] = ledger[b]
  BY <1>1, StatusRow DEF ConfirmLegacyEffect, Statuses
<1>3. RowsKept /\ Begun' = Begun
  BY <1>1, <1>2 DEF RowsKept, Begun
<1>4. \A key \in Keys : DeliveredAt(key)' = DeliveredAt(key)
  BY <1>1, <1>3, SameDeliveries
<1>5. \A key \in Keys : ClaimAt(key)' = ClaimAt(key)
  BY <1>1 DEF ClaimAt
<1> QED
  BY <1>4, <1>5, StutterStep DEF SameAt

\* resolveReleaseWorkflowEffectUnknown releases a claim nothing was delivered
\* for.
LEMMA OnceResolve ==
    ASSUME FenceInv, NEW a \in Attempt, ResolveUnknown(a)
    PROVE  OnceStep
<1>1. TypeOK /\ a \in Begun /\ request[a] # "accepted" /\ UNCHANGED request
  BY DEF FenceInv, ResolveUnknown, remote
<1>2. waived \subseteq waived' /\ waived' \subseteq waived \cup {a}
  BY DEF ResolveUnknown
<1>3. /\ ledger'[a] # None
      /\ ledger'[a].content = ledger[a].content
      /\ ledger'[a].site = ledger[a].site
      /\ \A b \in Attempt : b # a => ledger'[b] = ledger[b]
  BY <1>1, StatusRow DEF ResolveUnknown, Statuses
<1>4. RowsKept /\ Begun' = Begun
  BY <1>1, <1>3 DEF RowsKept, Begun
<1>5. \A key \in Keys : DeliveredAt(key)' = DeliveredAt(key)
  BY <1>1, <1>2, <1>4, SameDeliveries
<1>6. \A key \in Keys : fences'[key] = IF fences[key] = [attempt |-> a, status |-> "unknown"]
                                       THEN None ELSE fences[key]
  BY DEF ResolveUnknown, Keys
<1>7. [attempt |-> a, status |-> "unknown"] # None
  BY AbsentAssumption DEF FenceRows
<1>8. \A key \in Keys : fences[key] = [attempt |-> a, status |-> "unknown"] => key = Key(a)
  BY <1>7 DEF FenceInv, FenceOwned, Keys
<1>9. PICK key \in Keys : key = Key(a)
  BY <1>1, RowFacts DEF Keys
<1>10. \A other \in Keys : other # key => ClaimAt(other)' = ClaimAt(other)
  BY <1>6, <1>8, <1>9 DEF ClaimAt
<1>11. CASE fences[key] # [attempt |-> a, status |-> "unknown"]
  <2>1. ClaimAt(key)' = ClaimAt(key)
    BY <1>6, <1>9, <1>11 DEF ClaimAt
  <2> QED
    BY <1>5, <1>10, <2>1, StutterStep DEF SameAt
<1>12. CASE fences[key] = [attempt |-> a, status |-> "unknown"]
  <2>1. fences[key] # None /\ fences[key].attempt = a /\ fences[key].status = "unknown"
    BY <1>7, <1>12
  <2>2. fences'[key] = None
    BY <1>6, <1>9, <1>12
  <2>3. ClaimAt(key) = "claimed" /\ ClaimAt(key)' = "free"
    BY <2>1, <2>2 DEF ClaimAt
  <2>4. DeliveredAt(key) = {}
    BY <1>1, <1>9, <2>1, DeliveredOwns
  <2>5. KeyStep(key)
    BY <1>5, <1>9, <2>3, <2>4 DEF KeyStep
  <2> QED
    BY <1>5, <1>9, <1>10, <2>5, OneKeyStep DEF SameAt
<1> QED
  BY <1>11, <1>12

\* PurgeContentData forgets the keys whose fences the workflow owned.
LEMMA OncePurge ==
    ASSUME FenceInv, NEW w \in Workflow, PurgeContent(w)
    PROVE  OnceStep
<1> DEFINE gone == OfWorkflow(w)
           keys == {key \in Keys : fences[key] # None /\ fences[key].attempt \in gone}
<1>1. TypeOK /\ gone \in SUBSET Begun
  BY DEF FenceInv, OfWorkflow
<1>2. UNCHANGED request /\ waived' = waived \cup gone
  BY DEF PurgeContent, remote
<1>3. ASSUME NEW b \in gone
      PROVE  /\ ledger'[b] # None
             /\ ledger'[b].content = ledger[b].content
             /\ ledger'[b].site = ledger[b].site
  <2>1. b \in Attempt /\ ledger[b] \in EffectRows
    BY <1>1, RowFacts
  <2>2. ledger'[b] = [ledger[b] EXCEPT !.status = "deleted"]
    BY <2>1 DEF PurgeContent
  <2>3. [ledger[b] EXCEPT !.status = "deleted"] \in EffectRows
    BY <2>1 DEF EffectRows, Statuses
  <2> QED
    BY <2>1, <2>2, <2>3, AbsentAssumption DEF EffectRows
<1>4. \A b \in Attempt : b \notin gone => ledger'[b] = ledger[b]
  BY DEF PurgeContent
<1>5. \A key \in Keys : fences'[key] = IF fences[key] # None /\ fences[key].attempt \in gone
                                       THEN None ELSE fences[key]
  BY DEF PurgeContent, Keys
<1> HIDE DEF gone
<1>6. RowsKept /\ Begun' = Begun
  BY <1>1, <1>3, <1>4 DEF RowsKept, Begun
<1>7. \A b \in Begun : Key(b)' = Key(b)
  BY <1>6, KeptKey
<1>8. ASSUME NEW key \in keys
      PROVE  ClaimAt(key)' = "free" /\ DeliveredAt(key)' = {}
  <2>1. ClaimAt(key)' = "free"
    BY <1>5 DEF ClaimAt
  <2>2. ASSUME NEW b \in DeliveredAt(key)'
        PROVE  FALSE
    <3>1. b \in DeliveredAt(key) /\ b \notin gone
      BY <1>2, <1>6, <1>7, <2>2 DEF DeliveredAt
    <3> QED
      BY <3>1, DeliveredOwns
  <2> QED
    BY <2>1, <2>2
<1>9. ASSUME NEW key \in Keys, key \notin keys
      PROVE  SameAt(key)
  <2>1. ClaimAt(key)' = ClaimAt(key)
    BY <1>5, <1>9 DEF ClaimAt
  <2>2. \A b \in DeliveredAt(key) : b \notin gone
    BY <1>9, DeliveredOwns
  <2>3. DeliveredAt(key)' = DeliveredAt(key)
    BY <1>2, <1>6, <1>7, <2>2 DEF DeliveredAt
  <2> QED
    BY <2>1, <2>3 DEF SameAt
<1>10. keys \in SUBSET Keys
  OBVIOUS
<1> HIDE DEF keys
<1> QED
  BY <1>8, <1>9, <1>10, ForgetStep

\* What a person gave up stays settled: only an open effect is marked unknown,
\* and an attempt begins once.
LEMMA WaivedStep ==
    ASSUME FenceInv, TypeOK', WaivedSettled, [Next]_vars
    PROVE  WaivedSettled'
<1>1. TypeOK
  BY DEF FenceInv
<1>2. ASSUME UNCHANGED <<ledger, waived>>
      PROVE  WaivedSettled'
  BY <1>2 DEF WaivedSettled, Begun, Unresolved
<1>3. ASSUME NEW chosen \in SUBSET Begun, MarkUnknown(chosen), UNCHANGED waived
      PROVE  WaivedSettled'
  <2>1. Begun' = Begun
    BY <1>1, <1>3, MarkKeeps
  <2>2. \A a \in waived : ledger'[a] = ledger[a]
    BY <1>3 DEF MarkUnknown, WaivedSettled, Unresolved, Begun
  <2> QED
    BY <1>3, <2>1, <2>2 DEF WaivedSettled, Unresolved
<1>4. ASSUME NEW a \in Begun, NEW status \in {"succeeded", "failed"},
             ledger' = [ledger EXCEPT ![a].status = status], waived' \subseteq waived \cup {a}
      PROVE  WaivedSettled'
  <2>1. /\ ledger'[a] # None /\ ledger'[a].status = status
        /\ \A b \in Attempt : b # a => ledger'[b] = ledger[b]
    BY <1>1, <1>4, StatusRow DEF Statuses
  <2> QED
    BY <1>1, <1>4, <2>1, RowFacts DEF WaivedSettled, Begun, Unresolved
<1>5. ASSUME NEW a \in Attempt, AttemptStep(a)
      PROVE  WaivedSettled'
  <2>1. ASSUME NEW k \in workers, NEW c \in Content, NEW s \in Site, BeginSubmission(k, a, c, s)
        PROVE  WaivedSettled'
    <3>1. a \notin waived /\ waived' = waived
      BY <2>1 DEF BeginSubmission, NextAttempt, WaivedSettled
    <3>2. \A b \in Attempt : b # a => ledger'[b] = ledger[b]
      BY <1>1, <2>1 DEF BeginSubmission, TypeOK
    <3> QED
      BY <3>1, <3>2 DEF WaivedSettled, Begun, Unresolved
  <2>2. CASE Send(a) \/ Decide(a) \/ Answered(a)
    BY <1>2, <2>2 DEF Send, Decide, Answered, tables
  <2>3. CASE CompleteSubmission(a)
    <3>1. CASE UNCHANGED tables
      BY <1>2, <2>3, <3>1 DEF CompleteSubmission, tables
    <3>2. CASE ledger' = [ledger EXCEPT ![a].status = IF Accepted(a) THEN "succeeded" ELSE "failed"]
      BY <1>4, <2>3, <3>2 DEF CompleteSubmission, Receiptable
    <3> QED
      BY <2>3, <3>1, <3>2 DEF CompleteSubmission
  <2>4. CASE ConfirmLegacyEffect(a)
    BY <1>4, <2>4 DEF ConfirmLegacyEffect, OfWorkflow
  <2>5. CASE ResolveUnknown(a)
    BY <1>4, <2>5 DEF ResolveUnknown
  <2> QED
    BY <1>5, <2>1, <2>2, <2>3, <2>4, <2>5 DEF AttemptStep
<1>6. ASSUME NEW k \in workers, WorkerStep(k)
      PROVE  WaivedSettled'
  <2>1. CASE RetainResults(k) \/ LoseWorker(k)
    BY <1>2, <2>1 DEF RetainResults, LoseWorker, tables
  <2>2. CASE CompleteWork(k)
    BY <1>3, <2>2 DEF CompleteWork, OfOperation
  <2> QED
    BY <1>6, <2>1, <2>2 DEF WorkerStep
<1>7. ASSUME NEW w \in Workflow, WorkflowStep(w)
      PROVE  WaivedSettled'
  <2>1. CASE \/ StartOperation(w) \/ PublishCompleted(w) \/ InterruptOperation(w)
             \/ ResumeOperation(w)
    BY <1>2, <2>1 DEF StartOperation, PublishCompleted, InterruptOperation, ResumeOperation, tables
  <2>2. ASSUME NEW op, SettleEffects(w, op)
        PROVE  WaivedSettled'
    BY <1>3, <2>2 DEF SettleEffects, OfOperation
  <2>3. CASE PurgeContent(w)
    <3>1. ASSUME NEW a \in OfWorkflow(w)
          PROVE  a \in Attempt /\ ledger'[a] # None /\ ledger'[a].status = "deleted"
      <4>1. a \in Attempt /\ ledger[a] \in EffectRows
        BY <1>1, RowFacts DEF OfWorkflow
      <4>2. ledger'[a] = [ledger[a] EXCEPT !.status = "deleted"]
        BY <2>3, <4>1 DEF PurgeContent
      <4>3. [ledger[a] EXCEPT !.status = "deleted"] \in EffectRows
        BY <4>1 DEF EffectRows, Statuses
      <4> QED
        BY <4>1, <4>2, <4>3, AbsentAssumption DEF EffectRows
    <3>2. /\ waived' = waived \cup OfWorkflow(w)
          /\ \A a \in Attempt : a \notin OfWorkflow(w) => ledger'[a] = ledger[a]
      BY <2>3 DEF PurgeContent
    <3>3. \A a \in OfWorkflow(w) : a \in Begun' /\ a \notin Unresolved'
      BY <3>1 DEF Begun, Unresolved
    <3>4. \A a \in waived : a \notin OfWorkflow(w) => a \in Begun' /\ a \notin Unresolved'
      BY <3>2 DEF WaivedSettled, Begun, Unresolved
    <3> QED
      BY <3>2, <3>3, <3>4 DEF WaivedSettled
  <2> QED
    BY <1>7, <2>1, <2>2, <2>3 DEF WorkflowStep
<1>8. CASE ChangeInput \/ UNCHANGED vars
  BY <1>2, <1>8 DEF ChangeInput, tables, vars
<1>9. CASE RecoverLegacyEffects
  BY <1>3, <1>9 DEF RecoverLegacyEffects, OfWorkflow
<1> QED
  BY <1>5, <1>6, <1>7, <1>8, <1>9 DEF Next

\* Every step of the tables, the requests and the waivers is a step of the
\* promise or leaves it alone.
LEMMA OnceSteps ==
    ASSUME FenceInv, WaivedSettled, [Next]_vars
    PROVE  OnceStep
<1>1. TypeOK
  BY DEF FenceInv
<1>2. ASSUME UNCHANGED <<ledger, fences, waived, request>>
      PROVE  OnceStep
  BY <1>2, OnceElsewhere
<1>3. ASSUME NEW a \in Attempt, AttemptStep(a)
      PROVE  OnceStep
  <2>1. CASE Send(a) \/ Answered(a)
    <3>1. \A b \in Begun : request'[b] = "accepted" <=> request[b] = "accepted"
      BY <1>1, <2>1, RowFacts DEF Send, Answered, TypeOK
    <3> QED
      BY <2>1, <3>1, OnceElsewhere DEF Send, Answered, tables
  <2> QED
    BY <1>3, <2>1, OnceBegin, OnceDecide, OnceComplete, OnceConfirm, OnceResolve DEF AttemptStep
<1>4. ASSUME NEW k \in workers, WorkerStep(k)
      PROVE  OnceStep
  <2>1. CASE RetainResults(k)
    BY <1>2, <2>1 DEF RetainResults, tables, remote
  <2>2. CASE CompleteWork(k)
    BY <2>2, OnceMark DEF CompleteWork, OfOperation, remote
  <2>3. CASE LoseWorker(k)
    <3>1. \A b \in Begun : request'[b] = "accepted" <=> request[b] = "accepted"
      BY <1>1, <2>3, RowFacts DEF LoseWorker
    <3> QED
      BY <2>3, <3>1, OnceElsewhere DEF LoseWorker, tables
  <2> QED
    BY <1>4, <2>1, <2>2, <2>3 DEF WorkerStep
<1>5. ASSUME NEW w \in Workflow, WorkflowStep(w)
      PROVE  OnceStep
  <2>1. CASE \/ StartOperation(w) \/ PublishCompleted(w) \/ InterruptOperation(w)
             \/ ResumeOperation(w)
    BY <1>2, <2>1 DEF StartOperation, PublishCompleted, InterruptOperation, ResumeOperation,
       tables, remote
  <2>2. ASSUME NEW op, SettleEffects(w, op)
        PROVE  OnceStep
    BY <2>2, OnceMark DEF SettleEffects, OfOperation, remote
  <2> QED
    BY <1>5, <2>1, <2>2, OncePurge DEF WorkflowStep
<1>6. CASE ChangeInput \/ UNCHANGED vars
  BY <1>2, <1>6 DEF ChangeInput, tables, remote, vars
<1>7. CASE RecoverLegacyEffects
  BY <1>7, OnceMark DEF RecoverLegacyEffects, OfWorkflow, remote
<1> QED
  BY <1>3, <1>4, <1>5, <1>6, <1>7 DEF Next

\* The fence, the ledger and the tracker together implement the promise: a
\* content is claimed on a site before anything is delivered for it, is
\* delivered at most once, and is claimed again only when nothing was.
THEOREM DeliversTheorem == Spec => DeliversAtMostOnce
<1>1. Init => Once!Init
  BY DEF Init, Once!Init, Begun
<1>2. Init => WaivedSettled
  BY DEF Init, WaivedSettled
<1>3. FenceInv /\ TypeOK' /\ WaivedSettled /\ [Next]_vars => WaivedSettled'
  BY WaivedStep
<1>4. FenceInv /\ WaivedSettled /\ [Next]_vars => OnceStep
  BY OnceSteps
<1>5. OnceStep <=> [Once!Next]_<<Claims, Deliveries>>
  BY DEF OnceStep
<1> QED
  BY <1>1, <1>2, <1>3, <1>4, FenceInduction, FenceTypeCorrect, PTL
     DEF Spec, DeliversAtMostOnce, Once!Spec, OnceStep, Claims, Deliveries, ClaimAt, DeliveredAt
=============================================================================
