----------------------- MODULE CompositeUploadProofs -----------------------
(***************************************************************************)
(* Proofs about CompositeUpload, for any clients, requests, answers and    *)
(* bounds.  First what is there at each point of a call and of the worker, *)
(* which makes every step well typed; from it the three invariants about   *)
(* the session and its operations.                                         *)
(***************************************************************************)
EXTENDS CompositeUpload, FiniteSetTheorems, TLAPS

-----------------------------------------------------------------------------
(* What is there at each point.                                            *)

\* Before the first open there is nothing but the call that opens.
Opened ==
    session = None =>
        /\ wf.asks = 0 /\ wf.stage = 0 /\ \A f \in Answer : wf.receipts[f] = 0
        /\ slot = None /\ boot = "up" /\ worker = None
        /\ \A c \in Client : call[c] # None => call[c].point = "commit"

\* A call at a point has what its next step reads.
CallShape(c) ==
    call[c] # None =>
        /\ call[c].point = "commit" => call[c].base \in Request
        /\ call[c].point \in {"apply", "reload"} => call[c].base \in Answer
        /\ call[c].point \in {"create", "dispatch"} => call[c].op \in Operation
        /\ call[c].point = "dispatch" => record[call[c].op] # None

CallShapes == \A c \in Client : CallShape(c)

\* A worker has a record, and the stage it chose is not the last while nothing
\* was saved since.
WorkerShape ==
    worker # None =>
        /\ record[worker.op] # None
        /\ worker.view <= wf.rev
        /\ worker.point = "stage" /\ worker.view = wf.rev => wf.stage # Stages

\* An answer at the revision of its action has an action to settle.
AskedShape ==
    /\ wf.rev >= 1
    /\ \A f \in Answer : asked[f] <= wf.rev /\ (asked[f] = wf.rev => wf.asks > 0)

TypeInv == TypeOK /\ Opened /\ CallShapes /\ WorkerShape /\ AskedShape

\* The records that exist are not lost.
Kept == \A o \in Operation : record[o] # None => record'[o] # None

\* Another call is not disturbed by a step of c.
LEMMA OtherCalls ==
    ASSUME TypeInv, Kept, NEW c \in Client, CallShape(c)',
           \A d \in Client : d # c => call'[d] = call[d]
    PROVE  CallShapes'
<1> SUFFICES ASSUME NEW d \in Client, d # c
             PROVE  CallShape(d)'
  BY DEF CallShapes
<1> QED
  BY DEF TypeInv, CallShapes, CallShape, Kept

\* A save of the workflow.
LEMMA SavedType ==
    ASSUME TypeInv, NEW w \in Workflows, Saved(w)
    PROVE  wf' \in Workflows /\ wf'.rev = wf.rev + 1 /\ wf'.asks = w.asks /\ wf'.stage = w.stage
           /\ wf'.receipts = w.receipts
BY DEF TypeInv, TypeOK, Saved, Workflows

\* A save makes what a worker or an answer has seen a revision of the past.
LEMMA SavedShapes ==
    ASSUME TypeInv, wf'.rev = wf.rev + 1, wf' \in Workflows
    PROVE  /\ worker' = worker /\ Kept => WorkerShape'
           /\ asked' = asked => AskedShape'
<1>1. wf.rev \in Nat /\ wf'.rev \in Nat
  BY DEF TypeInv, TypeOK, Workflows
<1>2. ASSUME worker' = worker, Kept PROVE WorkerShape'
  <2>1. worker # None => worker.op \in Operation /\ worker.view \in Nat
    BY DEF TypeInv, TypeOK, Workers
  <2> QED
    BY <1>1, <1>2, <2>1 DEF TypeInv, WorkerShape, Kept
<1>3. ASSUME asked' = asked PROVE AskedShape'
  <2>1. \A f \in Answer : asked[f] \in Nat
    BY DEF TypeInv, TypeOK
  <2> QED
    BY <1>1, <1>3, <2>1 DEF TypeInv, AskedShape
<1> QED
  BY <1>2, <1>3

\* A change of the stage and the pending actions.
LEMMA StageType ==
    ASSUME TypeInv, NEW stage \in 0 .. Stages, NEW asks \in 0 .. MaxAsks
    PROVE  /\ [wf EXCEPT !.stage = stage, !.asks = asks] \in Workflows
           /\ [wf EXCEPT !.asks = asks] \in Workflows
<1>1. [wf EXCEPT !.asks = asks] \in Workflows
  BY DEF TypeInv, TypeOK, Workflows
<1>2. [wf EXCEPT !.stage = stage] \in Workflows
  BY DEF TypeInv, TypeOK, Workflows
<1>3. [[wf EXCEPT !.stage = stage] EXCEPT !.asks = asks] \in Workflows
  BY <1>2 DEF Workflows
<1> QED
  BY <1>1, <1>3

\* A call that begins.
LEMMA NewCallType ==
    ASSUME TypeInv, NEW base \in Request \cup Answer, base \in Answer => session # None,
           NEW point \in {"commit", "choose", "apply", "start"}
    PROVE  /\ NewCall(base, point) \in Calls
           /\ NewCall(base, point).point = point /\ NewCall(base, point).base = base
<1>1. (IF base \in Request THEN Fingerprints[base] ELSE session.wants) \in Fingerprint
  BY DEF Fingerprint, TypeInv, TypeOK, Sessions
<1> QED
  BY <1>1 DEF NewCall, Calls

\* A session that begins, and one that is released.
LEMMA SessionTypes ==
    /\ \A wants \in Fingerprint : NewSession(wants) \in Sessions
    /\ session \in Sessions => Released \in Sessions
<1>1. NoReceipts \in [Answer -> Nat]
  BY DEF NoReceipts
<1>2. \A wants \in Fingerprint : NewSession(wants) \in Sessions
  BY <1>1 DEF NewSession, Sessions
<1>3. session \in Sessions => Released \in Sessions
  BY DEF Released, Sessions
<1> QED
  BY <1>2, <1>3

-----------------------------------------------------------------------------
(* StartUpload.                                                            *)

\* The adoption of an open input makes its session or keeps it.
LEMMA AdoptType ==
    ASSUME TypeInv, NEW c \in Client, NEW r \in Request, Adopt(c, r)
    PROVE  TypeInv'
<1> DEFINE k == NewCall(r, "choose")
<1>1. session # None /\ worker' = worker /\ record' = record /\ asked' = asked
  BY DEF Adopt, TypeInv, Opened
<1>2. /\ k \in Calls /\ k.point = "choose"
      /\ [k EXCEPT !.fresh = TRUE] \in Calls /\ [k EXCEPT !.fresh = TRUE].point = "choose"
  <2>1. k \in Calls /\ k.point = "choose"
    BY NewCallType, CompositeAssumption
  <2> HIDE DEF k
  <2> QED
    BY <2>1 DEF Calls
<1>3. PICK x \in Calls : x.point = "choose" /\ call' = [call EXCEPT ![c] = x]
  BY <1>2 DEF Adopt
<1>4. call' \in [Client -> Calls \cup {None}] /\ CallShape(c)' /\ \A d \in Client : d # c => call'[d] = call[d]
  BY <1>3 DEF TypeInv, TypeOK, CallShape
<1>5. CASE UNCHANGED <<session, wf>>
  <2>1. TypeOK'
    BY <1>4, <1>5, CompositeAssumption DEF TypeInv, TypeOK, Adopt, Spend
  <2>2. CallShapes'
    BY <1>1, <1>4, OtherCalls DEF Kept
  <2> QED
    BY <1>1, <1>5, <2>1, <2>2 DEF TypeInv, Opened, WorkerShape, AskedShape
<1>6. CASE ~UNCHANGED <<session, wf>>
  <2>1. session' = NewSession(Fingerprints[r]) /\ Saved([wf EXCEPT !.stage = 1, !.asks = 0])
    BY <1>6 DEF Adopt
  <2>2. [wf EXCEPT !.stage = 1, !.asks = 0] \in Workflows
    <3>1. 1 \in 0 .. Stages /\ 0 \in 0 .. MaxAsks
      BY CompositeAssumption
    <3> QED
      BY <3>1, StageType
  <2>3. wf' \in Workflows /\ wf'.rev = wf.rev + 1
    BY <2>1, <2>2, SavedType
  <2>4. session' \in Sessions
    BY <2>1, SessionTypes DEF Fingerprint
  <2>5. TypeOK'
    BY <1>4, <2>3, <2>4, CompositeAssumption DEF TypeInv, TypeOK, Adopt, Spend
  <2>6. CallShapes' /\ WorkerShape' /\ AskedShape'
    BY <1>1, <1>4, <2>3, OtherCalls, SavedShapes DEF Kept
  <2> QED
    BY <2>4, <2>5, <2>6, CompositeAssumption DEF TypeInv, Opened
<1> QED
  BY <1>5, <1>6

\* An open begins with a call, and cancels the worker of the input.
LEMMA OpenType ==
    ASSUME TypeInv, NEW c \in Client, NEW r \in Request, Open(c, r)
    PROVE  TypeInv'
<1> DEFINE k == NewCall(r, IF slot = r THEN "choose" ELSE "commit")
<1>1. k \in Calls /\ k.base = r /\ k.point \in {"choose", "commit"} /\ (slot = None => k.point = "commit")
  BY NewCallType, CompositeAssumption
<1>2. call' = [call EXCEPT ![c] = k] /\ UNCHANGED <<session, wf, slot, record, asked>>
  BY DEF Open, durable
<1> HIDE DEF k
<1>3. call' \in [Client -> Calls \cup {None}] /\ call'[c] = k /\ \A d \in Client : d # c => call'[d] = call[d]
  BY <1>1, <1>2 DEF TypeInv, TypeOK
<1>4. /\ worker' \in Workers \cup {None} /\ (worker' # None <=> worker # None)
      /\ worker # None => worker'.op = worker.op /\ worker'.view = worker.view /\ worker'.point = worker.point
  <2>1. worker # None => [worker EXCEPT !.canceled = TRUE] \in Workers
    BY DEF TypeInv, TypeOK, Workers
  <2> QED
    BY <2>1, CompositeAssumption DEF Open, TypeInv, TypeOK, Workers
<1>5. TypeOK'
  BY <1>2, <1>3, <1>4, CompositeAssumption DEF TypeInv, TypeOK, Open, Spend, durable
<1>6. CallShapes'
  BY <1>1, <1>2, <1>3, OtherCalls DEF Kept, CallShape
<1>7. WorkerShape' /\ AskedShape'
  BY <1>2, <1>4 DEF TypeInv, WorkerShape, AskedShape
<1>8. Opened'
  BY <1>1, <1>2, <1>3, <1>4 DEF Opened, TypeInv, Open
<1> QED
  BY <1>5, <1>6, <1>7, <1>8 DEF TypeInv

\* After the commit of an open there is a session.
LEMMA CommitOpenType ==
    ASSUME TypeInv, NEW c \in Client, CommitOpen(c)
    PROVE  TypeInv'
<1>1. call[c] \in Calls /\ call[c].base \in Request
  BY CompositeAssumption DEF CommitOpen, At, TypeInv, TypeOK, CallShapes, CallShape
<1>2. call' \in [Client -> Calls \cup {None}] /\ CallShape(c)' /\ \A d \in Client : d # c => call'[d] = call[d]
  BY <1>1 DEF CommitOpen, TypeInv, TypeOK, Calls, CallShape
<1>3. wf' \in Workflows /\ wf'.rev = wf.rev + 1
  <2>1. 0 \in 0 .. Stages /\ 0 \in 0 .. MaxAsks
    BY CompositeAssumption
  <2>2. [wf EXCEPT !.stage = 0, !.asks = 0] \in Workflows
    BY <2>1, StageType
  <2> QED
    BY <2>2, SavedType DEF CommitOpen
<1>4. session' \in Sessions
  BY <1>1, SessionTypes, CompositeAssumption DEF CommitOpen, Calls, TypeInv, TypeOK
<1>5. TypeOK'
  BY <1>1, <1>2, <1>3, <1>4 DEF TypeInv, TypeOK, CommitOpen
<1>6. CallShapes' /\ WorkerShape' /\ AskedShape'
  BY <1>2, <1>3, OtherCalls, SavedShapes DEF Kept, CommitOpen
<1> QED
  BY <1>4, <1>5, <1>6, CompositeAssumption DEF TypeInv, Opened

\* The call ends, or goes on with the revision it has seen.
LEMMA ChooseType ==
    ASSUME TypeInv, NEW c \in Client, Choose(c)
    PROVE  TypeInv'
<1>1. call[c] \in Calls /\ wf.rev \in Nat
  BY CompositeAssumption DEF Choose, At, TypeInv, TypeOK, Workflows
<1>2. /\ call' \in [Client -> Calls \cup {None}] /\ CallShape(c)'
      /\ \A d \in Client : d # c => call'[d] = call[d]
  BY <1>1 DEF Choose, End, TypeInv, TypeOK, Calls, CallShape
<1>3. UNCHANGED <<durable, minted, worker, asked, boot, settled, spent>>
  BY DEF Choose
<1>4. TypeOK'
  BY <1>2, <1>3 DEF TypeInv, TypeOK, durable
<1>5. CallShapes'
  BY <1>2, <1>3, OtherCalls DEF Kept, durable
<1>6. Opened'
  BY <1>2, <1>3 DEF TypeInv, Opened, Choose, At, durable
<1> QED
  BY <1>3, <1>4, <1>5, <1>6 DEF TypeInv, WorkerShape, AskedShape, durable

\* Staged images mark the session they are kept in.
LEMMA AttachType ==
    ASSUME TypeInv, NEW c \in Client, Attach(c)
    PROVE  TypeInv'
<1>1. call[c] \in Calls /\ wf.rev \in Nat /\ session \in Sessions
  BY CompositeAssumption DEF Attach, At, TypeInv, TypeOK, Workflows, Opened
<1>2. /\ call' \in [Client -> Calls \cup {None}] /\ CallShape(c)'
      /\ \A d \in Client : d # c => call'[d] = call[d]
  BY <1>1 DEF Attach, End, TypeInv, TypeOK, Calls, CallShape
<1>3. session' \in Sessions
  BY <1>1 DEF Attach, Sessions
<1>4. \/ wf' = wf
      \/ wf' \in Workflows /\ wf'.rev = wf.rev + 1
  BY SavedType DEF Attach, TypeInv, TypeOK
<1>5. TypeOK'
  BY <1>2, <1>3, <1>4 DEF TypeInv, TypeOK, Attach
<1>6. CallShapes'
  BY <1>2, OtherCalls DEF Kept, Attach
<1>7. WorkerShape' /\ AskedShape'
  BY <1>4, SavedShapes DEF Kept, Attach, TypeInv, WorkerShape, AskedShape
<1> QED
  BY <1>3, <1>5, <1>6, <1>7, CompositeAssumption DEF TypeInv, Opened

-----------------------------------------------------------------------------
(* SubmitUploadFeedback.                                                   *)

\* The payload of an answer names the current revision.
LEMMA AnsweredType ==
    ASSUME TypeInv, NEW f \in Answer, Answered(f)
    PROVE  TypeInv'
<1>1. wf.rev \in Nat
  BY DEF TypeInv, TypeOK, Workflows
<1>2. UNCHANGED <<session, wf, slot, record, minted, worker, call, boot, settled, spent>>
  BY DEF Answered, durable, process
<1>3. asked' \in [Answer -> Nat] /\ \A g \in Answer : asked'[g] = IF g = f THEN wf.rev ELSE asked[g]
  BY <1>1 DEF Answered, TypeInv, TypeOK
<1>4. TypeOK'
  BY <1>2, <1>3 DEF TypeInv, TypeOK
<1>5. AskedShape'
  BY <1>1, <1>2, <1>3 DEF TypeInv, AskedShape, Answered
<1> QED
  BY <1>2, <1>4, <1>5 DEF TypeInv, Opened, CallShapes, CallShape, WorkerShape

\* An answer finds the session its action was shown for.
LEMMA ReceiveType ==
    ASSUME TypeInv, NEW c \in Client, NEW f \in Answer, Receive(c, f)
    PROVE  TypeInv'
<1>1. session \in Sessions
  BY CompositeAssumption DEF Receive, TypeInv, TypeOK, Opened
<1>2. UNCHANGED <<session, wf, slot, record, minted, worker, asked, boot, settled, spent>>
  BY DEF Receive, durable
<1>3. PICK x \in Calls : /\ call' = [call EXCEPT ![c] = x]
                         /\ x.point \in {"apply", "start"} /\ x.base = f
  <2>1. CASE call' = [call EXCEPT ![c] = NewCall(f, "apply")]
    <3>1. /\ NewCall(f, "apply") \in Calls /\ NewCall(f, "apply").point = "apply"
          /\ NewCall(f, "apply").base = f
      BY <1>1, NewCallType, CompositeAssumption
    <3> QED
      BY <2>1, <3>1
  <2>2. CASE call' = [call EXCEPT ![c] = [NewCall(f, "start") EXCEPT
                          !.rev = wf.receipts[f], !.seq = session.receipts[f]]]
    <3> DEFINE k == NewCall(f, "start")
    <3>1. k \in Calls /\ k.point = "start" /\ k.base = f
      BY <1>1, NewCallType, CompositeAssumption
    <3>2. wf.receipts[f] \in Nat /\ session.receipts[f] \in Nat
      BY <1>1 DEF TypeInv, TypeOK, Workflows, Sessions
    <3> HIDE DEF k
    <3> DEFINE n == [k EXCEPT !.rev = wf.receipts[f], !.seq = session.receipts[f]]
    <3>3. n \in Calls /\ n.point = "start" /\ n.base = f
      BY <3>1, <3>2 DEF Calls
    <3> QED
      BY <2>2, <3>3 DEF k
  <2> QED
    BY <2>1, <2>2 DEF Receive
<1>4. /\ call' \in [Client -> Calls \cup {None}] /\ CallShape(c)'
      /\ \A d \in Client : d # c => call'[d] = call[d]
  BY <1>3 DEF TypeInv, TypeOK, CallShape
<1>5. TypeOK'
  BY <1>2, <1>4 DEF TypeInv, TypeOK
<1>6. CallShapes'
  BY <1>2, <1>4, OtherCalls DEF Kept
<1> QED
  BY <1>1, <1>2, <1>5, <1>6, CompositeAssumption DEF TypeInv, Opened, WorkerShape, AskedShape

\* A settled action was pending: the revision is that of its payload.
LEMMA ApplyType ==
    ASSUME TypeInv, NEW c \in Client, Apply(c)
    PROVE  TypeInv'
<1> DEFINE f == call[c].base
<1>1. call[c] \in Calls /\ f \in Answer /\ session \in Sessions /\ wf \in Workflows
  BY CompositeAssumption DEF Apply, At, TypeInv, TypeOK, CallShapes, CallShape, Opened
<1>2. wf.receipts[f] \in Nat /\ wf.rev \in Nat
  BY <1>1 DEF Workflows
<1>3. /\ call' \in [Client -> Calls \cup {None}] /\ CallShape(c)'
      /\ \A d \in Client : d # c => call'[d] = call[d]
  BY <1>1, <1>2 DEF Apply, End, TypeInv, TypeOK, Calls, CallShape
<1>4. CASE UNCHANGED <<session, wf>>
  <2>1. TypeOK'
    BY <1>3, <1>4 DEF TypeInv, TypeOK, Apply
  <2>2. CallShapes'
    BY <1>3, OtherCalls DEF Kept, Apply
  <2> QED
    BY <1>1, <1>4, <2>1, <2>2, CompositeAssumption DEF TypeInv, Opened, WorkerShape, AskedShape, Apply
<1>5. CASE ~UNCHANGED <<session, wf>>
  <2>1. PICK stage \in {wf.stage, 1} :
           /\ wf.rev = asked[f]
           /\ session' = [session EXCEPT !.active = None, !.seq = @ + 1, !.tuned = FALSE,
                                         !.receipts[f] = session.seq + 1]
           /\ Saved([wf EXCEPT !.stage = stage, !.asks = @ - 1, !.receipts[f] = wf.rev + 1])
    BY <1>5 DEF Apply
  <2>2. session' \in Sessions
    <3>1. [session.receipts EXCEPT ![f] = session.seq + 1] \in [Answer -> Nat]
      BY <1>1 DEF Sessions
    <3> QED
      BY <1>1, <2>1, <3>1 DEF Sessions
  <2>3. wf' \in Workflows /\ wf'.rev = wf.rev + 1
    <3>1. [wf.receipts EXCEPT ![f] = wf.rev + 1] \in [Answer -> Nat]
      BY <1>1, <1>2 DEF Workflows
    <3>2. stage \in 0 .. Stages
      BY <1>1, CompositeAssumption DEF Workflows
    <3>3. wf.asks - 1 \in 0 .. MaxAsks
      BY <1>1, <2>1, CompositeAssumption DEF TypeInv, AskedShape, Workflows
    <3>4. [wf EXCEPT !.stage = stage, !.asks = @ - 1, !.receipts[f] = wf.rev + 1] \in Workflows
      BY <1>1, <3>1, <3>2, <3>3 DEF Workflows
    <3> QED
      BY <2>1, <3>4, SavedType
  <2>4. TypeOK'
    BY <1>3, <2>2, <2>3 DEF TypeInv, TypeOK, Apply
  <2>5. CallShapes' /\ WorkerShape' /\ AskedShape'
    BY <1>3, <2>3, OtherCalls, SavedShapes DEF Kept, Apply
  <2> QED
    BY <2>2, <2>4, <2>5, CompositeAssumption DEF TypeInv, Opened
<1> QED
  BY <1>4, <1>5

\* The key of the operation is taken from the session.
LEMMA ReloadType ==
    ASSUME TypeInv, NEW c \in Client, Reload(c)
    PROVE  TypeInv'
<1>1. call[c] \in Calls /\ session \in Sessions
  BY CompositeAssumption DEF Reload, At, TypeInv, TypeOK, Opened
<1>2. /\ call' \in [Client -> Calls \cup {None}] /\ CallShape(c)'
      /\ \A d \in Client : d # c => call'[d] = call[d]
  BY <1>1 DEF Reload, TypeInv, TypeOK, Calls, CallShape, Sessions
<1>3. UNCHANGED <<session, wf, slot, record, minted, worker, asked, boot, settled, spent>>
  BY DEF Reload, durable
<1>4. TypeOK'
  BY <1>2, <1>3 DEF TypeInv, TypeOK
<1>5. CallShapes'
  BY <1>2, <1>3, OtherCalls DEF Kept
<1> QED
  BY <1>1, <1>3, <1>4, <1>5, CompositeAssumption DEF TypeInv, Opened, WorkerShape, AskedShape
-----------------------------------------------------------------------------
(* Start: admission under the command lock.                                *)

\* Records that were marked stale are records.
LEMMA OutdatedType ==
    ASSUME TypeInv, NEW c \in Client,
           record' = [o \in Operation |->
                        IF o \in Outdated(c) THEN [record[o] EXCEPT !.status = "stale"]
                        ELSE record[o]]
    PROVE  record' \in [Operation -> Records \cup {None}] /\ Kept
<1>1. ASSUME NEW o \in Operation, o \in Outdated(c)
      PROVE  [record[o] EXCEPT !.status = "stale"] \in Records
  <2>1. record[o] \in Records
    BY <1>1 DEF Outdated, Prior, Recorded, TypeInv, TypeOK
  <2> QED
    BY <2>1 DEF Records, Ends
<1>2. record' \in [Operation -> Records \cup {None}]
  BY <1>1 DEF TypeInv, TypeOK
<1>3. Kept
  BY <1>1, CompositeAssumption DEF Kept
<1> QED
  BY <1>2, <1>3

\* Start answers the call, or binds the session to a new operation.
LEMMA StartType ==
    ASSUME TypeInv, NEW c \in Client, Start(c)
    PROVE  TypeInv'
<1>1. call[c] \in Calls /\ session \in Sessions /\ wf \in Workflows
  BY CompositeAssumption DEF Start, At, TypeInv, TypeOK, Opened
<1>2. record' \in [Operation -> Records \cup {None}] /\ Kept
  BY OutdatedType DEF Start
<1>3. UNCHANGED <<slot, worker, asked, boot, settled, spent>>
  BY DEF Start
<1>4. CASE UNCHANGED <<session, wf, minted>> /\ End(c)
  <2>1. /\ call' \in [Client -> Calls \cup {None}] /\ CallShape(c)'
        /\ \A d \in Client : d # c => call'[d] = call[d]
    BY <1>1, <1>4 DEF End, TypeInv, TypeOK, CallShape
  <2>2. TypeOK'
    BY <1>2, <1>3, <1>4, <2>1 DEF TypeInv, TypeOK
  <2>3. CallShapes'
    BY <1>2, <2>1, OtherCalls
  <2>4. WorkerShape'
    BY <1>2, <1>3, <1>4 DEF TypeInv, TypeOK, WorkerShape, Kept, Workers
  <2> QED
    BY <1>1, <1>3, <1>4, <2>2, <2>3, <2>4, CompositeAssumption DEF TypeInv, Opened, AskedShape
<1>5. CASE /\ minted < MaxOperations /\ minted' = minted + 1
           /\ session' = [session EXCEPT !.active = minted'] /\ Saved(wf)
           /\ call' = [call EXCEPT ![c].point = "create", ![c].op = minted']
  <2>1. minted' \in Operation /\ minted' \in 0 .. MaxOperations
    BY <1>5, CompositeAssumption DEF TypeInv, TypeOK, Operation
  <2>2. session' \in Sessions
    BY <1>1, <1>5, <2>1 DEF Sessions
  <2>3. wf' \in Workflows /\ wf'.rev = wf.rev + 1
    BY <1>1, <1>5, SavedType
  <2>4. /\ call' \in [Client -> Calls \cup {None}] /\ CallShape(c)'
        /\ \A d \in Client : d # c => call'[d] = call[d]
    BY <1>1, <1>5, <2>1 DEF TypeInv, TypeOK, Calls, CallShape
  <2>5. TypeOK'
    BY <1>2, <1>3, <2>1, <2>2, <2>3, <2>4 DEF TypeInv, TypeOK
  <2>6. CallShapes' /\ WorkerShape' /\ AskedShape'
    BY <1>2, <1>3, <2>3, <2>4, OtherCalls, SavedShapes
  <2> QED
    BY <2>2, <2>5, <2>6, CompositeAssumption DEF TypeInv, Opened
<1> QED
  BY <1>4, <1>5 DEF Start

\* The record of the operation is stored.
LEMMA CreateType ==
    ASSUME TypeInv, NEW c \in Client, Create(c)
    PROVE  TypeInv'
<1>1. call[c] \in Calls /\ session \in Sessions /\ call[c].op \in Operation
  BY CompositeAssumption DEF Create, At, TypeInv, TypeOK, Opened, CallShapes, CallShape
<1> DEFINE r == [key |-> KeyOf(c), rev |-> call[c].rev, wants |-> call[c].wants,
                 status |-> "active"]
<1>2. r \in Records
  BY <1>1 DEF KeyOf, Records, Keys, Calls
<1>3. record' = [record EXCEPT ![call[c].op] = r]
  BY DEF Create
<1> HIDE DEF r
<1>4. record' \in [Operation -> Records \cup {None}] /\ Kept /\ record'[call[c].op] # None
  BY <1>1, <1>2, <1>3, CompositeAssumption DEF TypeInv, TypeOK, Kept
<1>5. UNCHANGED <<session, wf, slot, minted, worker, asked, boot, settled, spent>>
  BY DEF Create
<1>6. /\ call' \in [Client -> Calls \cup {None}]
      /\ call'[c].point = "dispatch" /\ call'[c].op = call[c].op
      /\ \A d \in Client : d # c => call'[d] = call[d]
  BY <1>1 DEF Create, Goto, TypeInv, TypeOK, Calls
<1>7. CallShape(c)'
  BY <1>1, <1>4, <1>6 DEF CallShape
<1>8. TypeOK'
  BY <1>4, <1>5, <1>6 DEF TypeInv, TypeOK
<1>9. CallShapes'
  BY <1>4, <1>6, <1>7, OtherCalls
<1>10. WorkerShape'
  BY <1>4, <1>5 DEF TypeInv, TypeOK, WorkerShape, Kept, Workers
<1> QED
  BY <1>1, <1>5, <1>8, <1>9, <1>10, CompositeAssumption DEF TypeInv, Opened, AskedShape

\* The session is released when the record is not stored.
LEMMA FailCreateType ==
    ASSUME TypeInv, NEW c \in Client, FailCreate(c)
    PROVE  TypeInv'
<1>1. session \in Sessions /\ wf \in Workflows
  BY CompositeAssumption DEF FailCreate, At, TypeInv, TypeOK, Opened
<1>2. /\ call' \in [Client -> Calls \cup {None}] /\ CallShape(c)'
      /\ \A d \in Client : d # c => call'[d] = call[d]
  BY DEF FailCreate, End, TypeInv, TypeOK, CallShape
<1>3. session' \in Sessions
  BY <1>1, SessionTypes DEF FailCreate
<1>4. wf' \in Workflows /\ wf'.rev = wf.rev + 1
  BY <1>1, SavedType DEF FailCreate
<1>5. spent' \in 0 .. Budget
  BY CompositeAssumption DEF FailCreate, Spend, TypeInv, TypeOK
<1>6. TypeOK'
  BY <1>2, <1>3, <1>4, <1>5 DEF TypeInv, TypeOK, FailCreate
<1>7. CallShapes' /\ WorkerShape' /\ AskedShape'
  BY <1>2, <1>4, OtherCalls, SavedShapes DEF Kept, FailCreate
<1> QED
  BY <1>3, <1>6, <1>7, CompositeAssumption DEF TypeInv, Opened

\* A worker that begins.
LEMMA NewWorkerType ==
    \A o \in Operation : /\ NewWorker(o) \in Workers /\ NewWorker(o).op = o
                         /\ NewWorker(o).view = 0 /\ NewWorker(o).point = "begin"
BY CompositeAssumption DEF NewWorker, Workers, Ends

\* The worker starts with a record.
LEMMA DispatchType ==
    ASSUME TypeInv, NEW c \in Client, Dispatch(c)
    PROVE  TypeInv'
<1>1. /\ call[c] \in Calls /\ session \in Sessions /\ call[c].op \in Operation
      /\ record[call[c].op] # None
  BY CompositeAssumption DEF Dispatch, At, TypeInv, TypeOK, Opened, CallShapes, CallShape
<1>2. /\ call' \in [Client -> Calls \cup {None}] /\ CallShape(c)'
      /\ \A d \in Client : d # c => call'[d] = call[d]
  BY DEF Dispatch, End, TypeInv, TypeOK, CallShape
<1>3. UNCHANGED <<session, wf, slot, record, minted, asked, boot, settled, spent>>
  BY DEF Dispatch, durable
<1>4. /\ worker' \in Workers /\ worker'.op = call[c].op
      /\ worker'.view = 0 /\ worker'.point = "begin"
  BY <1>1, NewWorkerType DEF Dispatch
<1>5. TypeOK'
  BY <1>2, <1>3, <1>4 DEF TypeInv, TypeOK
<1>6. CallShapes'
  BY <1>2, <1>3, OtherCalls DEF Kept
<1>7. WorkerShape'
  <2>1. wf.rev \in Nat
    BY DEF TypeInv, TypeOK, Workflows
  <2> QED
    BY <1>1, <1>3, <1>4, <2>1 DEF WorkerShape
<1> QED
  BY <1>1, <1>3, <1>5, <1>6, <1>7, CompositeAssumption DEF TypeInv, Opened, AskedShape

\* A record that ends is a record.
LEMMA EndedType ==
    ASSUME TypeInv, NEW o \in Operation, record[o] # None, NEW status \in Ends,
           record' = [record EXCEPT ![o].status = status]
    PROVE  record' \in [Operation -> Records \cup {None}] /\ Kept
<1>1. record[o] \in Records
  BY DEF TypeInv, TypeOK
<1>2. [record[o] EXCEPT !.status = status] \in Records
  BY <1>1 DEF Records
<1> QED
  BY <1>2, CompositeAssumption DEF TypeInv, TypeOK, Kept

\* The operation fails and the session is released.
LEMMA FailDispatchType ==
    ASSUME TypeInv, NEW c \in Client, FailDispatch(c)
    PROVE  TypeInv'
<1>1. /\ session \in Sessions /\ wf \in Workflows /\ call[c].op \in Operation
      /\ record[call[c].op] # None
  BY CompositeAssumption DEF FailDispatch, At, TypeInv, TypeOK, Opened, CallShapes, CallShape
<1>2. /\ call' \in [Client -> Calls \cup {None}] /\ CallShape(c)'
      /\ \A d \in Client : d # c => call'[d] = call[d]
  BY DEF FailDispatch, End, TypeInv, TypeOK, CallShape
<1>3. session' \in Sessions
  BY <1>1, SessionTypes DEF FailDispatch
<1>4. wf' \in Workflows /\ wf'.rev = wf.rev + 1
  BY <1>1, SavedType DEF FailDispatch
<1>5. record' \in [Operation -> Records \cup {None}] /\ Kept
  BY <1>1, EndedType DEF FailDispatch, Ends
<1>6. spent' \in 0 .. Budget
  BY CompositeAssumption DEF FailDispatch, Spend, TypeInv, TypeOK
<1>7. TypeOK'
  BY <1>2, <1>3, <1>4, <1>5, <1>6 DEF TypeInv, TypeOK, FailDispatch
<1>8. CallShapes' /\ WorkerShape' /\ AskedShape'
  BY <1>2, <1>4, <1>5, OtherCalls, SavedShapes DEF FailDispatch
<1> QED
  BY <1>3, <1>7, <1>8, CompositeAssumption DEF TypeInv, Opened

\* A call that goes away.
LEMMA DisconnectType ==
    ASSUME TypeInv, NEW c \in Client, Disconnect(c)
    PROVE  TypeInv'
<1>1. /\ call' \in [Client -> Calls \cup {None}] /\ call'[c] = None
      /\ \A d \in Client : d # c => call'[d] = call[d]
  BY DEF Disconnect, End, TypeInv, TypeOK
<1>2. UNCHANGED <<session, wf, slot, record, minted, worker, asked, boot, settled>>
  BY DEF Disconnect, durable
<1>3. spent' \in 0 .. Budget
  BY CompositeAssumption DEF Disconnect, Spend, TypeInv, TypeOK
<1>4. TypeOK'
  BY <1>1, <1>2, <1>3 DEF TypeInv, TypeOK
<1>5. CallShapes'
  BY <1>1, <1>2, OtherCalls DEF Kept, CallShape
<1>6. Opened'
  BY <1>1, <1>2 DEF TypeInv, Opened
<1> QED
  BY <1>2, <1>4, <1>5, <1>6 DEF TypeInv, WorkerShape, AskedShape

-----------------------------------------------------------------------------
(* The worker.                                                             *)

\* A step of the worker that writes nothing.
LEMMA WorkerOnlyType ==
    ASSUME TypeInv, WorkerOnly, worker # None, worker' \in Workers, worker'.op = worker.op,
           worker'.view <= wf.rev,
           worker'.point = "stage" /\ worker'.view = wf.rev => wf.stage # Stages
    PROVE  TypeInv'
<1>1. UNCHANGED <<session, wf, slot, record, minted, call, asked, boot, settled, spent>>
  BY DEF WorkerOnly, durable
<1>2. TypeOK'
  BY <1>1 DEF TypeInv, TypeOK
<1>3. CallShapes' /\ WorkerShape' /\ AskedShape'
  BY <1>1 DEF TypeInv, CallShapes, CallShape, WorkerShape, AskedShape
<1> QED
  BY <1>1, <1>2, <1>3 DEF TypeInv, Opened

\* What the steps of a worker make of it.
LEMMA NextWorkerType ==
    ASSUME TypeInv, worker # None,
           NEW point \in {"begin", "look", "tune", "stage", "finish", "complete"},
           NEW outcome \in Ends, NEW failing \in BOOLEAN
    PROVE  /\ Proceed(point) => /\ worker' \in Workers /\ worker'.op = worker.op
                                /\ worker'.view = 0 /\ worker'.point = point
                                /\ worker'.outcome = worker.outcome
           /\ Conclude(outcome) => /\ worker' \in Workers /\ worker'.op = worker.op
                                   /\ worker'.view = worker.view /\ worker'.point = "complete"
                                   /\ worker'.outcome = outcome
           /\ Stop(outcome, failing) => /\ worker' \in Workers /\ worker'.op = worker.op
                                        /\ worker'.view = worker.view /\ worker'.point = "finish"
                                        /\ worker'.outcome = outcome
<1>1. worker \in Workers
  BY DEF TypeInv, TypeOK
<1>2. ASSUME Proceed(point)
      PROVE  worker' \in Workers /\ worker'.op = worker.op /\ worker'.view = 0
             /\ worker'.point = point /\ worker'.outcome = worker.outcome
  BY <1>1, <1>2 DEF Proceed, Workers
<1>3. ASSUME Conclude(outcome)
      PROVE  worker' \in Workers /\ worker'.op = worker.op /\ worker'.view = worker.view
             /\ worker'.point = "complete" /\ worker'.outcome = outcome
  BY <1>1, <1>3 DEF Conclude, Workers
<1>4. ASSUME Stop(outcome, failing)
      PROVE  worker' \in Workers /\ worker'.op = worker.op /\ worker'.view = worker.view
             /\ worker'.point = "finish" /\ worker'.outcome = outcome
  BY <1>1, <1>4 DEF Stop, Workers
<1> QED
  BY <1>2, <1>3, <1>4

\* The facts about the worker that the steps below start from.
LEMMA WorkerFacts ==
    ASSUME TypeInv, worker # None
    PROVE  /\ worker \in Workers /\ worker.op \in Operation /\ record[worker.op] \in Records
           /\ session \in Sessions /\ wf \in Workflows /\ wf.rev \in Nat /\ worker.view \in Nat
           /\ worker.view <= wf.rev /\ worker.outcome \in Ends
BY DEF TypeInv, TypeOK, Workers, WorkerShape, Opened, Workflows

\* A worker that ends has a record that is kept.
LEMMA BeginType ==
    ASSUME TypeInv, Begin
    PROVE  TypeInv'
<1>1. worker # None /\ Proceed("look") /\ WorkerOnly
  BY DEF Begin, Working
<1>2. worker' \in Workers /\ worker'.op = worker.op /\ worker'.view = 0 /\ worker'.point = "look"
  BY <1>1, NextWorkerType DEF Ends
<1> QED
  BY <1>1, <1>2, WorkerOnlyType, WorkerFacts

\* The record fails before the worker finishes its session.
LEMMA FailBeginType ==
    ASSUME TypeInv, FailBegin
    PROVE  TypeInv'
<1>1. worker # None /\ Stop("failed", FALSE)
  BY DEF FailBegin, Working
<1>2. worker' \in Workers /\ worker'.op = worker.op /\ worker'.view = worker.view
      /\ worker'.point = "finish"
  BY <1>1, NextWorkerType DEF Ends
<1>3. record' \in [Operation -> Records \cup {None}] /\ Kept
  BY <1>1, WorkerFacts, EndedType, CompositeAssumption DEF FailBegin, Ends
<1>4. spent' \in 0 .. Budget
  BY CompositeAssumption DEF FailBegin, Spend, TypeInv, TypeOK
<1>5. UNCHANGED <<session, wf, slot, minted, call, asked, boot, settled>>
  BY DEF FailBegin
<1>6. TypeOK'
  BY <1>2, <1>3, <1>4, <1>5 DEF TypeInv, TypeOK
<1>7. CallShapes' /\ AskedShape'
  BY <1>3, <1>5 DEF TypeInv, TypeOK, CallShapes, CallShape, AskedShape, Kept
<1>8. WorkerShape'
  BY <1>1, <1>2, <1>3, <1>5, WorkerFacts DEF WorkerShape, Kept, TypeInv
<1> QED
  BY <1>1, <1>5, <1>6, <1>7, <1>8, WorkerFacts, CompositeAssumption DEF TypeInv, Opened

\* One turn of the loop chooses the next point.
LEMMA LookType ==
    ASSUME TypeInv, Look
    PROVE  TypeInv'
<1>1. worker # None /\ WorkerOnly
  BY DEF Look, Working
<1>2. \/ \E outcome \in Ends, failing \in BOOLEAN : Stop(outcome, failing)
      \/ \E outcome \in Ends : Conclude(outcome)
      \/ \E point \in {"tune", "stage"} :
           /\ worker' = [worker EXCEPT !.point = point, !.view = wf.rev, !.left = @ - 1]
           /\ worker.left # 0 /\ wf.stage # Stages
  BY DEF Look, Ends
<1>3. CASE \E outcome \in Ends, failing \in BOOLEAN : Stop(outcome, failing)
  <2>1. worker' \in Workers /\ worker'.op = worker.op /\ worker'.view = worker.view
        /\ worker'.point = "finish"
    BY <1>1, <1>3, NextWorkerType
  <2> QED
    BY <1>1, <2>1, WorkerOnlyType, WorkerFacts
<1>4. CASE \E outcome \in Ends : Conclude(outcome)
  <2>1. worker' \in Workers /\ worker'.op = worker.op /\ worker'.view = worker.view
        /\ worker'.point = "complete"
    BY <1>1, <1>4, NextWorkerType
  <2> QED
    BY <1>1, <2>1, WorkerOnlyType, WorkerFacts
<1>5. ASSUME NEW point \in {"tune", "stage"}, worker.left # 0, wf.stage # Stages,
             worker' = [worker EXCEPT !.point = point, !.view = wf.rev, !.left = @ - 1]
      PROVE  TypeInv'
  <2>1. worker.left - 1 \in Nat
    BY <1>1, <1>5, WorkerFacts DEF Workers
  <2>2. worker' \in Workers /\ worker'.op = worker.op /\ worker'.view = wf.rev
    BY <1>1, <1>5, <2>1, WorkerFacts DEF Workers
  <2> QED
    BY <1>1, <1>5, <2>2, WorkerOnlyType, WorkerFacts
<1> QED
  BY <1>2, <1>3, <1>4, <1>5

\* A step of the worker that saves the state.
LEMMA WorkerSaves ==
    ASSUME TypeInv, worker # None, wf' \in Workflows, wf'.rev = wf.rev + 1,
           session' \in Sessions, worker' \in Workers, worker'.op = worker.op,
           worker'.view \in {0, worker.view},
           UNCHANGED <<slot, record, minted, call, asked, boot, settled, spent>>
    PROVE  TypeInv'
<1>1. TypeOK'
  BY DEF TypeInv, TypeOK
<1>2. CallShapes'
  BY DEF TypeInv, CallShapes, CallShape
<1>3. AskedShape'
  BY SavedShapes, CompositeAssumption DEF Kept
<1>4. WorkerShape'
  BY WorkerFacts DEF TypeInv, WorkerShape
<1> QED
  BY <1>1, <1>2, <1>3, <1>4, CompositeAssumption DEF TypeInv, Opened

\* The automatic policy is applied, or the operation ends.
LEMMA TuneType ==
    ASSUME TypeInv, Tune
    PROVE  TypeInv'
<1>1. worker # None /\ UNCHANGED <<slot, record, minted, call, asked, boot, settled, spent>>
  BY DEF Tune, Working
<1>2. CASE session' = [session EXCEPT !.tuned = TRUE] /\ Saved(wf) /\ Proceed("look")
  <2>1. session' \in Sessions
    BY <1>1, <1>2, WorkerFacts DEF Sessions
  <2>2. wf' \in Workflows /\ wf'.rev = wf.rev + 1
    BY <1>1, <1>2, WorkerFacts, SavedType
  <2>3. worker' \in Workers /\ worker'.op = worker.op /\ worker'.view = 0
    BY <1>1, <1>2, NextWorkerType DEF Ends
  <2> QED
    BY <1>1, <2>1, <2>2, <2>3, WorkerSaves
<1>3. CASE UNCHANGED <<session, wf>> /\ \E outcome \in Ends : Conclude(outcome)
  <2>1. worker' \in Workers /\ worker'.op = worker.op /\ worker'.view = worker.view
        /\ worker'.point = "complete"
    BY <1>1, <1>3, NextWorkerType
  <2> QED
    BY <1>1, <1>3, <2>1, WorkerOnlyType, WorkerFacts DEF WorkerOnly, durable
<1> QED
  BY <1>2, <1>3 DEF Tune, Ends

\* The next command is executed: the stage it saw was not the last.
LEMMA StageStepType ==
    ASSUME TypeInv, Stage
    PROVE  TypeInv'
<1>1. /\ worker # None
      /\ UNCHANGED <<session, slot, record, minted, call, asked, boot, settled, spent>>
  BY DEF Stage, Working
<1>2. ASSUME NEW asks \in 0 .. MaxAsks, wf.rev = worker.view, worker.point = "stage",
             Saved([wf EXCEPT !.stage = @ + 1, !.asks = asks]), Proceed("look")
      PROVE  TypeInv'
  <2>1. wf.stage # Stages
    BY <1>1, <1>2 DEF TypeInv, WorkerShape
  <2>2. wf.stage + 1 \in 0 .. Stages
    BY <1>1, <2>1, WorkerFacts, CompositeAssumption DEF Workflows
  <2>3. [wf EXCEPT !.stage = @ + 1] \in Workflows
    BY <1>1, <2>2, WorkerFacts DEF Workflows
  <2>4. [[wf EXCEPT !.stage = @ + 1] EXCEPT !.asks = asks] \in Workflows
    BY <2>3 DEF Workflows
  <2>5. [wf EXCEPT !.stage = @ + 1, !.asks = asks] \in Workflows
    BY <2>4
  <2>6. wf' \in Workflows /\ wf'.rev = wf.rev + 1
    BY <1>2, <2>5, SavedType
  <2>7. worker' \in Workers /\ worker'.op = worker.op /\ worker'.view = 0
    BY <1>1, <1>2, NextWorkerType DEF Ends
  <2> QED
    BY <1>1, <2>6, <2>7, WorkerSaves, WorkerFacts
<1>3. CASE UNCHANGED wf /\ \E outcome \in Ends : Conclude(outcome)
  <2>1. worker' \in Workers /\ worker'.op = worker.op /\ worker'.view = worker.view
        /\ worker'.point = "complete"
    BY <1>1, <1>3, NextWorkerType
  <2> QED
    BY <1>1, <1>3, <2>1, WorkerOnlyType, WorkerFacts DEF WorkerOnly, durable
<1> QED
  BY <1>2, <1>3 DEF Stage, Ends, Working

\* The terminal checkpoint releases the session.
LEMMA FinishType ==
    ASSUME TypeInv, Finish
    PROVE  TypeInv'
<1>1. /\ worker # None /\ Proceed("complete")
      /\ UNCHANGED <<slot, record, minted, call, asked, boot, settled, spent>>
  BY DEF Finish, Working
<1>2. worker' \in Workers /\ worker'.op = worker.op /\ worker'.view = 0
      /\ worker'.point = "complete"
  BY <1>1, NextWorkerType DEF Ends
<1>3. ASSUME session' = Released, NEW asks \in 0 .. MaxAsks, Saved([wf EXCEPT !.asks = asks])
      PROVE  TypeInv'
  <2>1. session' \in Sessions
    BY <1>1, <1>3, WorkerFacts, SessionTypes
  <2>2. [wf EXCEPT !.asks = asks] \in Workflows
    BY <1>1, WorkerFacts DEF Workflows
  <2>3. wf' \in Workflows /\ wf'.rev = wf.rev + 1
    BY <1>3, <2>2, SavedType
  <2> QED
    BY <1>1, <1>2, <2>1, <2>3, WorkerSaves
<1>4. CASE UNCHANGED <<session, wf>>
  BY <1>1, <1>2, <1>4, WorkerOnlyType, WorkerFacts DEF WorkerOnly, durable
<1>5. wf.asks \in 0 .. MaxAsks /\ 0 \in 0 .. MaxAsks
  BY <1>1, WorkerFacts, CompositeAssumption DEF Workflows
<1> QED
  BY <1>3, <1>4, <1>5 DEF Finish

\* The terminal checkpoint cannot be written.
LEMMA FailFinishType ==
    ASSUME TypeInv, FailFinish
    PROVE  TypeInv'
<1>1. worker # None /\ Conclude("failed")
  BY DEF FailFinish, Working
<1>2. worker' \in Workers /\ worker'.op = worker.op /\ worker'.view = worker.view
      /\ worker'.point = "complete"
  BY <1>1, NextWorkerType DEF Ends
<1>3. spent' \in 0 .. Budget
  BY CompositeAssumption DEF FailFinish, Spend, TypeInv, TypeOK
<1>4. UNCHANGED <<session, wf, slot, record, minted, call, asked, boot, settled>>
  BY DEF FailFinish, durable
<1>5. TypeOK'
  BY <1>2, <1>3, <1>4 DEF TypeInv, TypeOK
<1>6. CallShapes' /\ AskedShape' /\ WorkerShape'
  BY <1>1, <1>2, <1>4, WorkerFacts DEF TypeInv, CallShapes, CallShape, AskedShape, WorkerShape
<1> QED
  BY <1>1, <1>4, <1>5, <1>6, WorkerFacts, CompositeAssumption DEF TypeInv, Opened

\* The record takes the outcome of its worker.
LEMMA CompleteType ==
    ASSUME TypeInv, Complete
    PROVE  TypeInv'
<1>1. /\ worker # None /\ worker' = None
      /\ UNCHANGED <<session, wf, slot, minted, call, asked, boot, settled, spent>>
  BY DEF Complete, Working
<1>2. record' \in [Operation -> Records \cup {None}] /\ Kept
  <2>1. CASE record' = record
    BY <2>1 DEF TypeInv, TypeOK, Kept
  <2>2. CASE record' = [record EXCEPT ![worker.op].status = worker.outcome]
    BY <1>1, <2>2, WorkerFacts, EndedType, CompositeAssumption
  <2> QED
    BY <2>1, <2>2 DEF Complete
<1>3. TypeOK'
  BY <1>1, <1>2 DEF TypeInv, TypeOK
<1>4. CallShapes' /\ AskedShape' /\ WorkerShape'
  BY <1>1, <1>2 DEF TypeInv, TypeOK, CallShapes, CallShape, AskedShape, WorkerShape, Kept
<1> QED
  BY <1>1, <1>3, <1>4, WorkerFacts, CompositeAssumption DEF TypeInv, Opened

\* A cancellation is a mark on the worker.
LEMMA CancelType ==
    ASSUME TypeInv, Cancel
    PROVE  TypeInv'
<1>1. worker # None /\ worker' = [worker EXCEPT !.canceled = TRUE]
  BY DEF Cancel
<1>2. worker' \in Workers /\ worker'.op = worker.op /\ worker'.view = worker.view
      /\ worker'.point = worker.point
  BY <1>1, WorkerFacts DEF Workers
<1>3. spent' \in 0 .. Budget
  BY CompositeAssumption DEF Cancel, Spend, TypeInv, TypeOK
<1>4. UNCHANGED <<session, wf, slot, record, minted, call, asked, boot, settled>>
  BY DEF Cancel, durable
<1>5. TypeOK'
  BY <1>2, <1>3, <1>4 DEF TypeInv, TypeOK
<1>6. CallShapes' /\ AskedShape' /\ WorkerShape'
  BY <1>1, <1>2, <1>4, WorkerFacts DEF TypeInv, CallShapes, CallShape, AskedShape, WorkerShape
<1> QED
  BY <1>1, <1>4, <1>5, <1>6, WorkerFacts, CompositeAssumption DEF TypeInv, Opened


-----------------------------------------------------------------------------
(* A crash and the next process.                                           *)

\* Nothing of the process is left.
LEMMA CrashType ==
    ASSUME TypeInv, Crash
    PROVE  TypeInv'
<1>1. /\ UNCHANGED <<session, wf, slot, record, minted, asked>>
      /\ settled' = FALSE /\ worker' = None /\ \A c \in Client : call'[c] = None
      /\ call' \in [Client -> Calls \cup {None}]
  BY DEF Crash, durable
<1>2. boot' \in {"up", "resume", "recover", "idle"} /\ (slot = None => boot' = "up")
  BY DEF Crash
<1>3. spent' \in 0 .. Budget
  BY CompositeAssumption DEF Crash, Spend, TypeInv, TypeOK
<1>4. TypeOK'
  BY <1>1, <1>2, <1>3 DEF TypeInv, TypeOK
<1> QED
  BY <1>1, <1>2, <1>4 DEF TypeInv, Opened, CallShapes, CallShape, WorkerShape, AskedShape

\* Pending actions of lost work go; none come.
LEMMA RecoverAfterRestartType ==
    ASSUME TypeInv, RecoverAfterRestart
    PROVE  TypeInv'
<1>1. UNCHANGED <<session, slot, record, minted, worker, call, asked, boot, spent>>
      /\ settled' = TRUE
  BY DEF RecoverAfterRestart
<1>2. \/ wf' = wf
      \/ wf' \in Workflows /\ wf'.rev = wf.rev + 1 /\ wf.stage # 0
  <2>1. ASSUME NEW asks \in 0 .. wf.asks, Saved([wf EXCEPT !.asks = asks])
        PROVE  wf' \in Workflows /\ wf'.rev = wf.rev + 1
    <3>1. wf \in Workflows /\ asks \in 0 .. MaxAsks
      BY CompositeAssumption DEF TypeInv, TypeOK, Workflows
    <3>2. [wf EXCEPT !.asks = asks] \in Workflows
      BY <3>1 DEF Workflows
    <3> QED
      BY <2>1, <3>2, SavedType
  <2>2. wf.stage \in 1 .. Stages - 1 => wf.stage # 0
    BY CompositeAssumption
  <2> QED
    BY <2>1, <2>2 DEF RecoverAfterRestart
<1>3. TypeOK'
  BY <1>1, <1>2 DEF TypeInv, TypeOK
<1>4. CallShapes'
  BY <1>1 DEF TypeInv, CallShapes, CallShape
<1>5. AskedShape' /\ WorkerShape'
  BY <1>1, <1>2, SavedShapes DEF TypeInv, Kept, WorkerShape, AskedShape
<1> QED
  BY <1>1, <1>2, <1>3, <1>4, <1>5 DEF TypeInv, Opened

\* The records of a start that interrupts operations.
LEMMA InterruptedType ==
    ASSUME TypeInv
    PROVE  \A o \in Operation :
              IsActive(o) => [record[o] EXCEPT !.status = "interrupted"] \in Records
<1> SUFFICES ASSUME NEW o \in Operation, IsActive(o)
             PROVE  [record[o] EXCEPT !.status = "interrupted"] \in Records
  OBVIOUS
<1>1. record[o] \in Records
  BY DEF IsActive, TypeInv, TypeOK
<1> QED
  BY <1>1 DEF Records, Ends

\* The operation goes on, or is interrupted.
LEMMA ResumeType ==
    ASSUME TypeInv, Resume
    PROVE  TypeInv'
<1>1. /\ UNCHANGED <<session, wf, slot, minted, call, asked, spent>>
      /\ boot' = "up" /\ session # None
  BY DEF Resume, TypeInv, Opened
<1>2. CASE UNCHANGED <<record, worker, settled>>
  BY <1>1, <1>2 DEF TypeInv, TypeOK, Opened, CallShapes, CallShape, WorkerShape, AskedShape
<1>3. ASSUME NEW o \in ActiveOps, worker' = NewWorker(o), settled' = TRUE, record' = record
      PROVE  TypeInv'
  <2>1. o \in Operation /\ record[o] # None /\ wf.rev \in Nat
    BY <1>3 DEF ActiveOps, IsActive, TypeInv, TypeOK, Workflows
  <2>2. worker' \in Workers /\ worker'.op = o /\ worker'.view = 0 /\ worker'.point = "begin"
    BY <1>3, <2>1, NewWorkerType
  <2>3. TypeOK'
    BY <1>1, <1>3, <2>2 DEF TypeInv, TypeOK
  <2>4. CallShapes' /\ AskedShape'
    BY <1>1, <1>3 DEF TypeInv, CallShapes, CallShape, AskedShape
  <2>5. WorkerShape'
    BY <1>1, <1>3, <2>1, <2>2 DEF WorkerShape
  <2> QED
    BY <1>1, <2>3, <2>4, <2>5 DEF TypeInv, Opened
<1>4. ASSUME NEW o \in ActiveOps, record' = [record EXCEPT ![o].status = "interrupted"],
             UNCHANGED <<worker, settled>>
      PROVE  TypeInv'
  <2>1. o \in Operation /\ record[o] # None
    BY <1>4 DEF ActiveOps, IsActive
  <2>2. record' \in [Operation -> Records \cup {None}] /\ Kept
    BY <1>4, <2>1, EndedType DEF Ends
  <2>3. TypeOK'
    BY <1>1, <1>4, <2>2 DEF TypeInv, TypeOK
  <2>4. CallShapes' /\ AskedShape' /\ WorkerShape'
    BY <1>1, <1>4, <2>2
    DEF TypeInv, TypeOK, CallShapes, CallShape, AskedShape, WorkerShape, Kept, Workers
  <2> QED
    BY <1>1, <2>3, <2>4 DEF TypeInv, Opened
<1> QED
  BY <1>2, <1>3, <1>4 DEF Resume

\* Every operation that was active is interrupted.
LEMMA DiscardType ==
    ASSUME TypeInv, Discard
    PROVE  TypeInv'
<1>1. /\ UNCHANGED <<session, wf, slot, minted, worker, call, settled, asked, spent>>
      /\ boot' = "settle" /\ session # None
  BY DEF Discard, TypeInv, Opened
<1>2. record' \in [Operation -> Records \cup {None}] /\ Kept
  BY InterruptedType, CompositeAssumption DEF Discard, TypeInv, TypeOK, Kept
<1>3. TypeOK'
  BY <1>1, <1>2 DEF TypeInv, TypeOK
<1>4. CallShapes' /\ AskedShape' /\ WorkerShape'
  BY <1>1, <1>2
  DEF TypeInv, TypeOK, CallShapes, CallShape, AskedShape, WorkerShape, Kept, Workers
<1> QED
  BY <1>1, <1>3, <1>4 DEF TypeInv, Opened

\* The session is released, or the start fails.
LEMMA SettleType ==
    ASSUME TypeInv, Settle
    PROVE  TypeInv'
<1>1. /\ UNCHANGED <<record, minted, worker, call, settled, asked, spent>>
      /\ session \in Sessions /\ wf \in Workflows
  BY CompositeAssumption DEF Settle, TypeInv, TypeOK, Opened
<1>2. boot' \in {"failed", "closed"} /\ slot' \in {slot, None}
  BY DEF Settle
<1>3. \/ UNCHANGED <<session, wf>>
      \/ session' \in Sessions /\ wf' \in Workflows /\ wf'.rev = wf.rev + 1
  BY <1>1, SessionTypes, SavedType DEF Settle
<1>4. TypeOK'
  BY <1>1, <1>2, <1>3 DEF TypeInv, TypeOK
<1>5. CallShapes'
  BY <1>1 DEF TypeInv, CallShapes, CallShape
<1>6. AskedShape' /\ WorkerShape'
  BY <1>1, <1>3, SavedShapes DEF TypeInv, Kept, WorkerShape, AskedShape
<1> QED
  BY <1>1, <1>3, <1>4, <1>5, <1>6, CompositeAssumption DEF TypeInv, Opened

\* The input closes.
LEMMA CloseIdleType ==
    ASSUME TypeInv, CloseIdle
    PROVE  TypeInv'
BY DEF CloseIdle, TypeInv, TypeOK, Opened, CallShapes, CallShape, WorkerShape, AskedShape

-----------------------------------------------------------------------------
\* Nothing has happened at first.
LEMMA TypeInit == Init => TypeInv
<1> SUFFICES ASSUME Init PROVE TypeInv
  OBVIOUS
<1>1. wf \in Workflows /\ wf.rev = 1 /\ wf.stage = 0 /\ wf.asks = 0
      /\ \A f \in Answer : wf.receipts[f] = 0
  BY CompositeAssumption DEF Init, NoReceipts, Workflows
<1>2. TypeOK
  BY <1>1, CompositeAssumption DEF Init, TypeOK
<1> QED
  BY <1>1, <1>2 DEF Init, TypeInv, Opened, CallShapes, CallShape, WorkerShape, AskedShape

\* Every step keeps the types and the shapes.
LEMMA TypeStep == TypeInv /\ [Next]_vars => TypeInv'
<1> SUFFICES ASSUME TypeInv, [Next]_vars PROVE TypeInv'
  OBVIOUS
<1>1. ASSUME NEW c \in Client, NEW r \in Request, Adopt(c, r) \/ Open(c, r) PROVE TypeInv'
  BY <1>1, AdoptType, OpenType
<1>2. ASSUME NEW c \in Client, NEW f \in Answer, Receive(c, f) PROVE TypeInv'
  BY <1>2, ReceiveType
<1>3. ASSUME NEW c \in Client, CallStep(c) PROVE TypeInv'
  BY <1>3, CommitOpenType, ChooseType, AttachType, ApplyType, ReloadType, StartType,
     CreateType, DispatchType DEF CallStep
<1>4. ASSUME NEW c \in Client, FailCreate(c) \/ FailDispatch(c) \/ Disconnect(c) PROVE TypeInv'
  BY <1>4, FailCreateType, FailDispatchType, DisconnectType
<1>5. ASSUME WorkerStep \/ FailBegin \/ FailFinish \/ Cancel PROVE TypeInv'
  BY <1>5, BeginType, LookType, TuneType, StageStepType, FinishType, CompleteType,
     FailBeginType, FailFinishType, CancelType DEF WorkerStep
<1>6. ASSUME NEW f \in Answer, Answered(f) PROVE TypeInv'
  BY <1>6, AnsweredType
<1>7. ASSUME Crash \/ BootStep \/ RecoverAfterRestart PROVE TypeInv'
  BY <1>7, CrashType, ResumeType, DiscardType, SettleType, CloseIdleType,
     RecoverAfterRestartType DEF BootStep
<1>8. CASE UNCHANGED vars
  BY <1>8 DEF vars, durable, process, TypeInv, TypeOK, Opened, CallShapes, CallShape,
              WorkerShape, AskedShape
<1> QED
  BY <1>1, <1>2, <1>3, <1>4, <1>5, <1>6, <1>7, <1>8 DEF Next

\* Every reachable state is well typed: no call finds a session, a record or a
\* worker missing at the point it reads it, for any bounds.
THEOREM CompositeTypeCorrect == Spec => []TypeOK
<1>1. TypeInv => TypeOK
  BY DEF TypeInv
<1> QED
  BY <1>1, TypeInit, TypeStep, PTL DEF Spec


-----------------------------------------------------------------------------
(* The session and its operations: the inductive invariant.                *)

\* No call and no worker is there while a process starts.
Quiet == boot # "up" => worker = None /\ \A c \in Client : call[c] = None

Admitting(c) == At(c, "create") \/ At(c, "dispatch")

\* One call holds the command lock.
Alone == \A c, d \in Client : Admitting(c) /\ Admitting(d) => c = d

\* Identifiers are handed out before they are used, and records made in a session.
Identified ==
    /\ \A o \in Recorded : o <= minted /\ session # None
    /\ session # None /\ session.active # None => session.active <= minted
    /\ \A c \in Client : At(c, "create") => call[c].op <= minted /\ record[call[c].op] = None

\* A call that holds the lock has bound the session as it admitted it.
Admission(c) ==
    At(c, "create") =>
        /\ session.wants = call[c].wants /\ session.active = call[c].op
        /\ \A f \in Answer : session.receipts[f] # 0 => wf.receipts[f] <= call[c].rev
        /\ \A f \in Answer : call[c].base = f =>
              wf.receipts[f] < wf.rev /\ \A o \in Recorded : record[o].key.base # f

Admissions == \A c \in Client : Admission(c)

\* A call on its way to an operation carries the revision its answer committed.
AnswerCall(c) ==
    call[c] # None =>
        /\ call[c].point \in {"commit", "choose", "media"} => call[c].base \in Request
        /\ call[c].base \in Answer /\ call[c].point \in {"reload", "start", "create", "dispatch"} =>
              wf.receipts[call[c].base] # 0 /\ call[c].rev = wf.receipts[call[c].base]

AnswerCalls == \A c \in Client : AnswerCall(c)

\* The operation of an answer moved the workflow past the revision of the answer.
Passed ==
    /\ \A f \in Answer : wf.receipts[f] <= wf.rev
    /\ \A o \in Recorded, f \in Answer :
          record[o].key.base = f => wf.receipts[f] # 0 /\ wf.receipts[f] < wf.rev

OneRecord ==
    \A o, p \in Recorded :
       record[o].key.base \in Answer /\ record[o].key.base = record[p].key.base => o = p

\* A worker that ends well has released its session.
GoodEnd ==
    worker # None /\ worker.outcome \in {"completed", "blocked"} =>
        /\ worker.point \in {"finish", "complete"}
        /\ worker.point = "complete" => ~Holds(worker.op)

SessionInv ==
    /\ Quiet /\ Alone /\ Identified /\ Admissions /\ AnswerCalls /\ Passed /\ OneRecord
    /\ GoodEnd /\ EndedRunIsFree /\ RunMatchesSession


-----------------------------------------------------------------------------
(* Most steps neither make a record nor bind the session.                  *)

\* No record is made or revived, and one that ends well has released its session.
RecordsFrame ==
    \A o \in Operation : record'[o] # None =>
        /\ record[o] # None /\ record'[o].key = record[o].key
        /\ record'[o].rev = record[o].rev /\ record'[o].wants = record[o].wants
        /\ record'[o].status = "active" => record[o].status = "active"
        /\ record'[o].status \in {"completed", "blocked"} => ~Holds(o)

\* The session stays what it is, or is released.
SessionFrame ==
    /\ session = None <=> session' = None
    /\ session # None => /\ session'.wants = session.wants /\ session'.receipts = session.receipts
                         /\ session'.active \in {session.active, None}

WorkflowFrame == wf'.receipts = wf.receipts /\ wf'.rev \in {wf.rev, wf.rev + 1}

\* No call begins to hold the lock; while one does, the session stays bound.
LockFrame ==
    \A c \in Client : Admitting(c)' => call'[c] = call[c] /\ session'.active = session.active

Frame == RecordsFrame /\ SessionFrame /\ WorkflowFrame /\ LockFrame /\ minted' = minted

\* A step within the frame keeps what relates the session and its operations.
LEMMA FrameKeeps ==
    ASSUME TypeInv, TypeInv', SessionInv, Frame, Quiet', AnswerCalls', GoodEnd'
    PROVE  SessionInv'
<1>0. None \notin Operation /\ Request \cap Answer = {}
  BY CompositeAssumption
<1>1. \A c \in Client : Admitting(c)' => Admitting(c) /\ session # None /\ session' # None
  BY DEF Frame, LockFrame, SessionFrame, Admitting, At, TypeInv, Opened
<1>2. Recorded' \subseteq Recorded
  BY DEF Frame, RecordsFrame, Recorded
<1>3. Alone'
  BY <1>1 DEF SessionInv, Alone
<1>4. Identified'
  BY <1>2 DEF SessionInv, Identified, Frame, SessionFrame, LockFrame, Admitting, At, RecordsFrame,
              Recorded, TypeInv, CallShapes, CallShape
<1>5. wf.rev \in Nat /\ wf.receipts \in [Answer -> Nat]
  BY DEF TypeInv, TypeOK, Workflows
<1>6. Admissions'
  <2> SUFFICES ASSUME NEW c \in Client, At(c, "create")'
               PROVE  Admission(c)'
    BY DEF Admissions, Admission
  <2>1. /\ call'[c] = call[c] /\ At(c, "create") /\ session # None
        /\ session'.active = session.active
    BY <1>1 DEF Frame, LockFrame, Admitting, At
  <2>2. /\ session'.wants = session.wants /\ session'.receipts = session.receipts
        /\ wf'.receipts = wf.receipts /\ wf'.rev \in {wf.rev, wf.rev + 1}
    BY <2>1 DEF Frame, SessionFrame, WorkflowFrame
  <2>3. \A o \in Recorded' : o \in Recorded /\ record'[o].key = record[o].key
    BY DEF Frame, RecordsFrame, Recorded
  <2> QED
    BY <1>5, <2>1, <2>2, <2>3 DEF SessionInv, Admissions, Admission
<1>7. Passed' /\ OneRecord'
  <2>1. \A o \in Recorded' : o \in Recorded /\ record'[o].key = record[o].key
    BY DEF Frame, RecordsFrame, Recorded
  <2>2. Passed'
    BY <1>5, <2>1 DEF SessionInv, Passed, Frame, WorkflowFrame
  <2>3. OneRecord'
    BY <2>1 DEF SessionInv, OneRecord
  <2> QED
    BY <2>2, <2>3
<1>8. EndedRunIsFree'
  BY <1>0 DEF EndedRunIsFree, Recorded, Frame, RecordsFrame, SessionFrame, Holds
<1>9. RunMatchesSession'
  <2> SUFFICES ASSUME NEW o \in ActiveOps'
               PROVE  /\ session'.wants = record'[o].wants
                      /\ session'.active \in Recorded' => session'.active = o
                      /\ \A f \in Answer : session'.receipts[f] # 0 => wf'.receipts[f] <= record'[o].rev
    BY DEF RunMatchesSession
  <2>1. /\ o \in ActiveOps /\ record'[o].wants = record[o].wants
        /\ record'[o].rev = record[o].rev
    BY DEF ActiveOps, IsActive, Frame, RecordsFrame
  <2>2. session # None
    BY <2>1 DEF SessionInv, Identified, ActiveOps, IsActive, Recorded
  <2>3. /\ session'.wants = session.wants /\ session'.receipts = session.receipts
        /\ session'.active \in {session.active, None} /\ wf'.receipts = wf.receipts
    BY <2>2 DEF Frame, SessionFrame, WorkflowFrame
  <2> QED
    BY <1>0, <1>2, <2>1, <2>3 DEF SessionInv, RunMatchesSession, Recorded
<1> QED
  BY <1>3, <1>4, <1>6, <1>7, <1>8, <1>9 DEF SessionInv


\* Records that are not touched are within the frame.
LEMMA SameRecords ==
    ASSUME SessionInv, record' = record
    PROVE  RecordsFrame
BY DEF SessionInv, EndedRunIsFree, RecordsFrame, Recorded

\* A record that ends other than well.
LEMMA EndedRecord ==
    ASSUME TypeInv, SessionInv, NEW o \in Operation, record[o] # None,
           NEW status \in Ends \ {"completed", "blocked"},
           record' = [record EXCEPT ![o].status = status]
    PROVE  RecordsFrame
<1>1. record[o] \in Records
  BY DEF TypeInv, TypeOK
<1>2. /\ record'[o].key = record[o].key /\ record'[o].rev = record[o].rev
      /\ record'[o].wants = record[o].wants /\ record'[o].status = status
  BY <1>1 DEF Records, TypeInv, TypeOK
<1>3. \A p \in Operation : p # o => record'[p] = record[p]
  BY DEF TypeInv, TypeOK
<1>4. status # "active"
  BY DEF Ends
<1> QED
  BY <1>2, <1>3, <1>4 DEF SessionInv, EndedRunIsFree, RecordsFrame, Recorded

\* A call that ends, or moves without the lock, leaves the others and the lock alone.
LEMMA OneCall ==
    ASSUME TypeInv, SessionInv, NEW c \in Client, wf'.receipts = wf.receipts,
           \A d \in Client : d # c => call'[d] = call[d], AnswerCall(c)', ~Admitting(c)',
           session'.active = session.active \/ \A d \in Client : d # c => ~Admitting(d)
    PROVE  LockFrame /\ AnswerCalls'
<1>1. AnswerCalls'
  <2> SUFFICES ASSUME NEW d \in Client, d # c
               PROVE  AnswerCall(d)'
    BY DEF AnswerCalls
  <2> QED
    BY DEF SessionInv, AnswerCalls, AnswerCall
<1>2. LockFrame
  BY DEF LockFrame, Admitting, At
<1> QED
  BY <1>1, <1>2

\* The worker may be canceled.
LEMMA OpenKeeps ==
    ASSUME TypeInv, TypeInv', SessionInv, NEW c \in Client, NEW r \in Request, Open(c, r)
    PROVE  SessionInv'
<1> DEFINE k == NewCall(r, IF slot = r THEN "choose" ELSE "commit")
<1>1. k \in Calls /\ k.base = r /\ k.point \in {"choose", "commit"}
  BY NewCallType, CompositeAssumption
<1>2. /\ call' = [call EXCEPT ![c] = k] /\ UNCHANGED <<session, wf, record, minted, boot>>
      /\ boot = "up"
  BY DEF Open, durable, Serving
<1> HIDE DEF k
<1>3. call'[c] = k /\ (\A d \in Client : d # c => call'[d] = call[d])
  BY <1>2 DEF TypeInv, TypeOK
<1>4. AnswerCall(c)' /\ ~Admitting(c)'
  BY <1>1, <1>3, CompositeAssumption DEF AnswerCall, Admitting, At
<1>5. Frame /\ AnswerCalls'
  BY <1>2, <1>3, <1>4, SameRecords, OneCall DEF Frame, SessionFrame, WorkflowFrame
<1>6. worker' = worker \/ (worker # None /\ worker' = [worker EXCEPT !.canceled = TRUE])
  BY DEF Open
<1>7. GoodEnd'
  BY <1>2, <1>6, WorkerFacts DEF GoodEnd, SessionInv, Holds, Workers
<1>8. Quiet'
  BY <1>2 DEF Quiet
<1> QED
  BY <1>5, <1>7, <1>8, FrameKeeps

\* The call takes the revision it has seen.
LEMMA ChooseKeeps ==
    ASSUME TypeInv, TypeInv', SessionInv, NEW c \in Client, Choose(c)
    PROVE  SessionInv'
<1>1. UNCHANGED <<session, wf, record, minted, worker, boot>> /\ call[c] \in Calls
  BY DEF Choose, durable, At, TypeInv, TypeOK
<1>2. /\ \A d \in Client : d # c => call'[d] = call[d]
      /\ call'[c] = None \/ (call'[c].point \in {"media", "start"} /\ call'[c].base = call[c].base)
  BY <1>1 DEF Choose, End, TypeInv, TypeOK, Calls
<1>3. call[c].base \in Request /\ call[c].base \notin Answer
  BY CompositeAssumption DEF SessionInv, AnswerCalls, AnswerCall, Choose, At
<1>4. AnswerCall(c)' /\ ~Admitting(c)'
  BY <1>2, <1>3 DEF AnswerCall, Admitting, At
<1>5. Frame /\ AnswerCalls'
  BY <1>1, <1>2, <1>4, SameRecords, OneCall DEF Frame, SessionFrame, WorkflowFrame
<1>6. GoodEnd' /\ Quiet'
  <2>1. GoodEnd'
    BY <1>1 DEF GoodEnd, SessionInv, Holds
  <2>2. boot = "up"
    BY DEF SessionInv, Quiet, Choose, At
  <2> QED
    BY <1>1, <2>1, <2>2 DEF Quiet
<1> QED
  BY <1>5, <1>6, FrameKeeps

\* The session only takes its media.
LEMMA AttachKeeps ==
    ASSUME TypeInv, TypeInv', SessionInv, NEW c \in Client, Attach(c)
    PROVE  SessionInv'
<1>1. /\ UNCHANGED <<record, minted, worker, boot>> /\ call[c] \in Calls /\ session \in Sessions
      /\ wf \in Workflows
  BY CompositeAssumption DEF Attach, At, TypeInv, TypeOK, Opened
<1>2. /\ \A d \in Client : d # c => call'[d] = call[d]
      /\ call'[c] = None \/ (call'[c].point = "start" /\ call'[c].base = call[c].base)
  BY <1>1 DEF Attach, End, TypeInv, TypeOK, Calls
<1>3. call[c].base \in Request /\ call[c].base \notin Answer /\ boot = "up"
  BY CompositeAssumption DEF SessionInv, AnswerCalls, AnswerCall, Attach, At, Quiet
<1>4. AnswerCall(c)' /\ ~Admitting(c)'
  BY <1>2, <1>3 DEF AnswerCall, Admitting, At
<1>5. /\ session' \in Sessions /\ session'.wants = session.wants /\ session'.active = session.active
      /\ session'.receipts = session.receipts
  BY <1>1 DEF Attach, Sessions
<1>6. SessionFrame /\ WorkflowFrame
  <2>1. SessionFrame
    BY <1>1, <1>5, CompositeAssumption DEF SessionFrame
  <2>2. CASE wf' = wf
    BY <2>1, <2>2 DEF WorkflowFrame
  <2>3. CASE Saved(wf)
    BY <1>1, <2>1, <2>3, SavedType DEF WorkflowFrame
  <2> QED
    BY <2>2, <2>3 DEF Attach
<1>7. Frame /\ AnswerCalls'
  BY <1>1, <1>2, <1>4, <1>5, <1>6, SameRecords, OneCall DEF Frame, WorkflowFrame
<1>8. GoodEnd'
  BY <1>1, <1>5, CompositeAssumption DEF GoodEnd, SessionInv, Holds
<1> QED
  BY <1>1, <1>3, <1>7, <1>8, FrameKeeps DEF Quiet

\* The payload of an answer is not part of the session.
LEMMA AnsweredKeeps ==
    ASSUME TypeInv, TypeInv', SessionInv, NEW f \in Answer, Answered(f)
    PROVE  SessionInv'
<1>1. UNCHANGED <<session, wf, record, minted, worker, call, boot>>
  BY DEF Answered, durable, process
<1>2. Frame
  BY <1>1, SameRecords DEF Frame, SessionFrame, WorkflowFrame, LockFrame
<1>3. AnswerCalls'
  BY <1>1 DEF SessionInv, AnswerCalls, AnswerCall
<1>4. GoodEnd' /\ Quiet'
  BY <1>1 DEF SessionInv, GoodEnd, Quiet, Holds
<1> QED
  BY <1>2, <1>3, <1>4, FrameKeeps

\* A call for an answer that was applied carries the revision of its receipt.
LEMMA ReceiveKeeps ==
    ASSUME TypeInv, TypeInv', SessionInv, NEW c \in Client, NEW f \in Answer, Receive(c, f)
    PROVE  SessionInv'
<1>1. UNCHANGED <<session, wf, record, minted, worker, boot>> /\ boot = "up" /\ session \in Sessions
  BY CompositeAssumption DEF Receive, durable, Serving, TypeInv, TypeOK, Opened
<1>2. PICK x \in Calls : /\ call' = [call EXCEPT ![c] = x] /\ x.base = f
                         /\ \/ x.point = "apply"
                            \/ /\ x.point = "start" /\ wf.receipts[f] # 0
                               /\ x.rev = wf.receipts[f]
  <2>1. CASE call' = [call EXCEPT ![c] = NewCall(f, "apply")]
    <3>1. /\ NewCall(f, "apply") \in Calls /\ NewCall(f, "apply").point = "apply"
          /\ NewCall(f, "apply").base = f
      BY <1>1, NewCallType, CompositeAssumption
    <3> QED
      BY <2>1, <3>1
  <2>2. CASE wf.receipts[f] # 0 /\ call' = [call EXCEPT ![c] = [NewCall(f, "start") EXCEPT
                          !.rev = wf.receipts[f], !.seq = session.receipts[f]]]
    <3> DEFINE k == NewCall(f, "start")
    <3>1. k \in Calls /\ k.point = "start" /\ k.base = f
      BY <1>1, NewCallType, CompositeAssumption
    <3>2. wf.receipts[f] \in Nat /\ session.receipts[f] \in Nat
      BY <1>1 DEF TypeInv, TypeOK, Workflows, Sessions
    <3> HIDE DEF k
    <3> DEFINE n == [k EXCEPT !.rev = wf.receipts[f], !.seq = session.receipts[f]]
    <3>3. n \in Calls /\ n.point = "start" /\ n.base = f /\ n.rev = wf.receipts[f]
      BY <3>1, <3>2 DEF Calls
    <3> QED
      BY <2>2, <3>3 DEF k
  <2> QED
    BY <2>1, <2>2 DEF Receive
<1>3. call'[c] = x /\ (\A d \in Client : d # c => call'[d] = call[d])
  BY <1>2 DEF TypeInv, TypeOK
<1>4. AnswerCall(c)' /\ ~Admitting(c)'
  BY <1>1, <1>2, <1>3, CompositeAssumption DEF AnswerCall, Admitting, At
<1>5. Frame /\ AnswerCalls'
  BY <1>1, <1>3, <1>4, SameRecords, OneCall DEF Frame, SessionFrame, WorkflowFrame
<1>6. GoodEnd' /\ Quiet'
  BY <1>1 DEF SessionInv, GoodEnd, Quiet, Holds
<1> QED
  BY <1>5, <1>6, FrameKeeps

\* The revision of an answer is kept while its key is made.
LEMMA ReloadKeeps ==
    ASSUME TypeInv, TypeInv', SessionInv, NEW c \in Client, Reload(c)
    PROVE  SessionInv'
<1>1. UNCHANGED <<session, wf, record, minted, worker, boot>> /\ call[c] \in Calls
  BY DEF Reload, durable, At, TypeInv, TypeOK
<1>2. /\ \A d \in Client : d # c => call'[d] = call[d]
      /\ call'[c].point = "start" /\ call'[c].base = call[c].base /\ call'[c].rev = call[c].rev
  BY <1>1 DEF Reload, TypeInv, TypeOK, Calls
<1>3. AnswerCall(c)' /\ ~Admitting(c)' /\ boot = "up"
  BY <1>1, <1>2 DEF SessionInv, AnswerCalls, AnswerCall, Admitting, Reload, At, Quiet
<1>4. Frame /\ AnswerCalls'
  BY <1>1, <1>2, <1>3, SameRecords, OneCall DEF Frame, SessionFrame, WorkflowFrame
<1>5. GoodEnd' /\ Quiet'
  BY <1>1, <1>3 DEF SessionInv, GoodEnd, Quiet, Holds
<1> QED
  BY <1>4, <1>5, FrameKeeps


\* The session is released.
LEMMA ReleasedFrame ==
    ASSUME TypeInv, session \in Sessions, session' = Released
    PROVE  SessionFrame /\ session'.active = None /\ session' # None
BY CompositeAssumption DEF Released, Sessions, SessionFrame

\* A failed admission releases the session it bound.
LEMMA FailCreateKeeps ==
    ASSUME TypeInv, TypeInv', SessionInv, NEW c \in Client, FailCreate(c)
    PROVE  SessionInv'
<1>1. /\ UNCHANGED <<record, minted, worker, boot>> /\ session' = Released /\ boot = "up"
      /\ session \in Sessions /\ wf \in Workflows /\ Admitting(c)
  BY CompositeAssumption DEF FailCreate, At, Admitting, TypeInv, TypeOK, Opened, SessionInv, Quiet
<1>2. call'[c] = None /\ (\A d \in Client : d # c => call'[d] = call[d])
  BY DEF FailCreate, End, TypeInv, TypeOK
<1>3. SessionFrame /\ session'.active = None
  BY <1>1, ReleasedFrame
<1>4. WorkflowFrame
  BY <1>1, SavedType DEF FailCreate, WorkflowFrame
<1>5. AnswerCall(c)' /\ ~Admitting(c)' /\ (\A d \in Client : d # c => ~Admitting(d))
  BY <1>1, <1>2 DEF AnswerCall, Admitting, At, SessionInv, Alone
<1>6. Frame /\ AnswerCalls'
  BY <1>1, <1>2, <1>3, <1>4, <1>5, SameRecords, OneCall DEF Frame, WorkflowFrame
<1>7. GoodEnd'
  BY <1>1, <1>3, WorkerFacts, CompositeAssumption DEF GoodEnd, SessionInv, Holds
<1> QED
  BY <1>1, <1>6, <1>7, FrameKeeps DEF Quiet

\* The worker starts far from its end.
LEMMA DispatchKeeps ==
    ASSUME TypeInv, TypeInv', SessionInv, NEW c \in Client, Dispatch(c)
    PROVE  SessionInv'
<1>1. /\ UNCHANGED <<session, wf, record, minted, boot>> /\ boot = "up"
      /\ worker' = NewWorker(call[c].op)
  BY DEF Dispatch, durable, At, SessionInv, Quiet
<1>2. call'[c] = None /\ (\A d \in Client : d # c => call'[d] = call[d])
  BY DEF Dispatch, End, TypeInv, TypeOK
<1>3. AnswerCall(c)' /\ ~Admitting(c)'
  BY <1>2 DEF AnswerCall, Admitting, At
<1>4. Frame /\ AnswerCalls'
  BY <1>1, <1>2, <1>3, SameRecords, OneCall DEF Frame, SessionFrame, WorkflowFrame
<1>5. GoodEnd'
  BY <1>1 DEF GoodEnd, NewWorker
<1> QED
  BY <1>1, <1>4, <1>5, FrameKeeps DEF Quiet

\* The operation fails and its session is released.
LEMMA FailDispatchKeeps ==
    ASSUME TypeInv, TypeInv', SessionInv, NEW c \in Client, FailDispatch(c)
    PROVE  SessionInv'
<1>1. /\ UNCHANGED <<minted, worker, boot>> /\ session' = Released /\ boot = "up"
      /\ session \in Sessions /\ wf \in Workflows /\ Admitting(c)
      /\ call[c].op \in Operation /\ record[call[c].op] # None
  BY CompositeAssumption DEF FailDispatch, At, Admitting, TypeInv, TypeOK, Opened, SessionInv,
     Quiet, CallShapes, CallShape
<1>2. call'[c] = None /\ (\A d \in Client : d # c => call'[d] = call[d])
  BY DEF FailDispatch, End, TypeInv, TypeOK
<1>3. SessionFrame /\ session'.active = None
  BY <1>1, ReleasedFrame
<1>4. WorkflowFrame
  BY <1>1, SavedType DEF FailDispatch, WorkflowFrame
<1>5. RecordsFrame
  <2>1. "failed" \in Ends \ {"completed", "blocked"}
    BY DEF Ends
  <2>2. record' = [record EXCEPT ![call[c].op].status = "failed"]
    BY DEF FailDispatch
  <2> QED
    BY <1>1, <2>1, <2>2, EndedRecord
<1>6. AnswerCall(c)' /\ ~Admitting(c)' /\ (\A d \in Client : d # c => ~Admitting(d))
  BY <1>1, <1>2 DEF AnswerCall, Admitting, At, SessionInv, Alone
<1>7. Frame /\ AnswerCalls'
  BY <1>1, <1>2, <1>3, <1>4, <1>5, <1>6, OneCall DEF Frame, WorkflowFrame
<1>8. GoodEnd'
  BY <1>1, <1>3, WorkerFacts, CompositeAssumption DEF GoodEnd, SessionInv, Holds
<1> QED
  BY <1>1, <1>7, <1>8, FrameKeeps DEF Quiet

\* A call that goes away leaves the session bound.
LEMMA DisconnectKeeps ==
    ASSUME TypeInv, TypeInv', SessionInv, NEW c \in Client, Disconnect(c)
    PROVE  SessionInv'
<1>1. UNCHANGED <<session, wf, record, minted, worker, boot>> /\ boot = "up"
  BY DEF Disconnect, durable, SessionInv, Quiet
<1>2. call'[c] = None /\ (\A d \in Client : d # c => call'[d] = call[d])
  BY DEF Disconnect, End, TypeInv, TypeOK
<1>3. AnswerCall(c)' /\ ~Admitting(c)'
  BY <1>2 DEF AnswerCall, Admitting, At
<1>4. Frame /\ AnswerCalls'
  BY <1>1, <1>2, <1>3, SameRecords, OneCall DEF Frame, SessionFrame, WorkflowFrame
<1>5. GoodEnd' /\ Quiet'
  BY <1>1 DEF SessionInv, GoodEnd, Quiet, Holds
<1> QED
  BY <1>4, <1>5, FrameKeeps

-----------------------------------------------------------------------------
\* A step of the worker leaves the calls alone, and the session while the
\* command lock is held.
LEMMA WorkerKeeps ==
    ASSUME TypeInv, TypeInv', SessionInv, RecordsFrame, SessionFrame, WorkflowFrame, GoodEnd',
           UNCHANGED <<call, minted, boot>>, worker # None,
           session' = session \/ Unlocked
    PROVE  SessionInv'
<1>1. LockFrame
  BY DEF LockFrame, Unlocked, Admitting, At
<1>2. AnswerCalls'
  BY DEF SessionInv, AnswerCalls, AnswerCall, WorkflowFrame
<1>3. Quiet'
  BY DEF SessionInv, Quiet
<1> QED
  BY <1>1, <1>2, <1>3, FrameKeeps DEF Frame

\* A step of the worker that writes nothing.
LEMMA WorkerOnlyKeeps ==
    ASSUME TypeInv, TypeInv', SessionInv, WorkerOnly, GoodEnd', worker # None
    PROVE  SessionInv'
<1>1. UNCHANGED <<session, wf, record, minted, call, boot>>
  BY DEF WorkerOnly, durable
<1> QED
  BY <1>1, SameRecords, WorkerKeeps DEF SessionFrame, WorkflowFrame

\* The loop begins; it ends well only by way of the terminal checkpoint.
LEMMA BeginKeeps ==
    ASSUME TypeInv, TypeInv', SessionInv, Begin
    PROVE  SessionInv'
<1>1. worker # None /\ Proceed("look") /\ WorkerOnly /\ worker.point = "begin"
  BY DEF Begin, Working
<1>2. worker'.outcome = worker.outcome
  BY <1>1, NextWorkerType DEF Ends
<1>3. GoodEnd'
  BY <1>1, <1>2 DEF SessionInv, GoodEnd
<1> QED
  BY <1>1, <1>3, WorkerOnlyKeeps

\* The record fails.
LEMMA FailBeginKeeps ==
    ASSUME TypeInv, TypeInv', SessionInv, FailBegin
    PROVE  SessionInv'
<1>1. /\ worker # None /\ Stop("failed", FALSE)
      /\ UNCHANGED <<session, wf, minted, call, boot>>
  BY DEF FailBegin, Working
<1>2. worker'.outcome = "failed"
  BY <1>1, NextWorkerType DEF Ends
<1>3. RecordsFrame
  BY <1>1, WorkerFacts, EndedRecord, CompositeAssumption DEF FailBegin, Ends
<1>4. GoodEnd'
  BY <1>2 DEF GoodEnd
<1> QED
  BY <1>1, <1>3, <1>4, WorkerKeeps DEF SessionFrame, WorkflowFrame

\* A good outcome goes to the terminal checkpoint.
LEMMA LookKeeps ==
    ASSUME TypeInv, TypeInv', SessionInv, Look
    PROVE  SessionInv'
<1>1. worker # None /\ WorkerOnly /\ worker.point = "look"
  BY DEF Look, Working
<1>2. \/ \E outcome \in Ends, failing \in BOOLEAN : Stop(outcome, failing)
      \/ \E outcome \in {"failed", "canceled"} : Conclude(outcome)
      \/ \E point \in {"tune", "stage"} :
           worker' = [worker EXCEPT !.point = point, !.view = wf.rev, !.left = @ - 1]
  BY DEF Look, Ends
<1>3. CASE \E outcome \in Ends, failing \in BOOLEAN : Stop(outcome, failing)
  <2>1. worker'.point = "finish"
    BY <1>1, <1>3, NextWorkerType
  <2> QED
    BY <1>1, <2>1, WorkerOnlyKeeps DEF GoodEnd
<1>4. CASE \E outcome \in {"failed", "canceled"} : Conclude(outcome)
  <2>1. worker'.outcome \in {"failed", "canceled"}
    BY <1>1, <1>4, NextWorkerType DEF Ends
  <2> QED
    BY <1>1, <2>1, WorkerOnlyKeeps DEF GoodEnd
<1>5. CASE \E point \in {"tune", "stage"} :
             worker' = [worker EXCEPT !.point = point, !.view = wf.rev, !.left = @ - 1]
  <2>1. worker'.outcome = worker.outcome
    BY <1>1, <1>5, WorkerFacts DEF Workers
  <2>2. GoodEnd'
    BY <1>1, <2>1 DEF SessionInv, GoodEnd
  <2> QED
    BY <1>1, <2>2, WorkerOnlyKeeps
<1> QED
  BY <1>2, <1>3, <1>4, <1>5

\* The session takes the automatic policy.
LEMMA TuneKeeps ==
    ASSUME TypeInv, TypeInv', SessionInv, Tune
    PROVE  SessionInv'
<1>1. /\ worker # None /\ worker.point = "tune" /\ Unlocked
      /\ UNCHANGED <<slot, record, minted, call, asked, boot, settled, spent>>
  BY DEF Tune, Working
<1>2. CASE session' = [session EXCEPT !.tuned = TRUE] /\ Saved(wf) /\ Proceed("look")
  <2>1. SessionFrame
    BY <1>1, <1>2, WorkerFacts, CompositeAssumption DEF Sessions, SessionFrame, TypeInv, TypeOK
  <2>2. WorkflowFrame
    BY <1>1, <1>2, WorkerFacts, SavedType DEF WorkflowFrame
  <2>3. worker'.outcome = worker.outcome
    BY <1>1, <1>2, NextWorkerType DEF Ends
  <2>4. GoodEnd'
    BY <1>1, <2>3 DEF SessionInv, GoodEnd
  <2> QED
    BY <1>1, <2>1, <2>2, <2>4, SameRecords, WorkerKeeps
<1>3. CASE UNCHANGED <<session, wf>> /\ \E outcome \in {"failed", "canceled"} : Conclude(outcome)
  <2>1. worker'.outcome \in {"failed", "canceled"}
    BY <1>1, <1>3, NextWorkerType DEF Ends
  <2> QED
    BY <1>1, <1>3, <2>1, WorkerOnlyKeeps DEF GoodEnd, WorkerOnly, durable
<1> QED
  BY <1>2, <1>3 DEF Tune

\* A stage saves the workflow.
LEMMA StageKeeps ==
    ASSUME TypeInv, TypeInv', SessionInv, Stage
    PROVE  SessionInv'
<1>1. /\ worker # None /\ worker.point = "stage" /\ Unlocked
      /\ UNCHANGED <<session, slot, record, minted, call, asked, boot, settled, spent>>
  BY DEF Stage, Working
<1>2. ASSUME NEW asks \in 0 .. MaxAsks,
             Saved([wf EXCEPT !.stage = @ + 1, !.asks = asks]), Proceed("look")
      PROVE  SessionInv'
  <2>1. WorkflowFrame
    BY <1>1, <1>2, WorkerFacts DEF WorkflowFrame, Saved, Workflows
  <2>2. worker'.outcome = worker.outcome
    BY <1>1, <1>2, NextWorkerType DEF Ends
  <2>3. GoodEnd'
    BY <1>1, <2>2 DEF SessionInv, GoodEnd
  <2> QED
    BY <1>1, <2>1, <2>3, SameRecords, WorkerKeeps DEF SessionFrame
<1>3. CASE UNCHANGED wf /\ \E outcome \in {"failed", "canceled"} : Conclude(outcome)
  <2>1. worker'.outcome \in {"failed", "canceled"}
    BY <1>1, <1>3, NextWorkerType DEF Ends
  <2> QED
    BY <1>1, <1>3, <2>1, WorkerOnlyKeeps DEF GoodEnd, WorkerOnly, durable
<1> QED
  BY <1>2, <1>3 DEF Stage

\* The terminal checkpoint: the session is free of the operation afterwards.
LEMMA FinishKeeps ==
    ASSUME TypeInv, TypeInv', SessionInv, Finish
    PROVE  SessionInv'
<1>1. /\ worker # None /\ Proceed("complete") /\ Unlocked
      /\ UNCHANGED <<slot, record, minted, call, asked, boot, settled, spent>>
  BY DEF Finish, Working
<1>2. worker'.op = worker.op /\ worker'.point = "complete"
  BY <1>1, NextWorkerType DEF Ends
<1>3. CASE session' = Released /\ \E asks \in {0, wf.asks} : Saved([wf EXCEPT !.asks = asks])
  <2>1. SessionFrame /\ session'.active = None
    BY <1>1, <1>3, WorkerFacts, ReleasedFrame
  <2>2. WorkflowFrame
    BY <1>1, <1>3, WorkerFacts DEF WorkflowFrame, Saved, Workflows
  <2>3. GoodEnd'
    BY <1>1, <1>2, <2>1, WorkerFacts, CompositeAssumption DEF GoodEnd, Holds
  <2> QED
    BY <1>1, <2>1, <2>2, <2>3, SameRecords, WorkerKeeps
<1>4. CASE UNCHANGED <<session, wf>> /\ ~Holds(worker.op)
  <2>1. GoodEnd'
    BY <1>2, <1>4 DEF GoodEnd, Holds
  <2> QED
    BY <1>1, <1>4, <2>1, WorkerOnlyKeeps DEF WorkerOnly, durable
<1> QED
  BY <1>3, <1>4 DEF Finish

\* An operation whose checkpoint fails does not end well.
LEMMA FailFinishKeeps ==
    ASSUME TypeInv, TypeInv', SessionInv, FailFinish
    PROVE  SessionInv'
<1>1. /\ worker # None /\ Conclude("failed")
      /\ UNCHANGED <<session, wf, record, minted, call, boot>>
  BY DEF FailFinish, Working, durable
<1>2. worker'.outcome = "failed"
  BY <1>1, NextWorkerType DEF Ends
<1> QED
  BY <1>1, <1>2, SameRecords, WorkerKeeps DEF GoodEnd, SessionFrame, WorkflowFrame

\* The record takes the outcome: a good one finds the session free.
LEMMA CompleteKeeps ==
    ASSUME TypeInv, TypeInv', SessionInv, Complete
    PROVE  SessionInv'
<1>1. /\ worker # None /\ worker' = None /\ worker.point = "complete"
      /\ UNCHANGED <<session, wf, minted, call, boot>>
  BY DEF Complete, Working
<1>2. RecordsFrame
  <2>1. CASE record' = record
    BY <2>1, SameRecords
  <2>2. CASE record' = [record EXCEPT ![worker.op].status = worker.outcome]
    <3>1. CASE worker.outcome \in {"completed", "blocked"}
      <4>1. ~Holds(worker.op)
        BY <1>1, <3>1 DEF SessionInv, GoodEnd
      <4>2. /\ worker.op \in Operation /\ record[worker.op] \in Records
        BY <1>1, WorkerFacts
      <4>3. /\ record'[worker.op].key = record[worker.op].key
            /\ record'[worker.op].rev = record[worker.op].rev
            /\ record'[worker.op].wants = record[worker.op].wants
            /\ record'[worker.op].status = worker.outcome
        BY <2>2, <4>2 DEF Records, TypeInv, TypeOK
      <4>4. \A p \in Operation : p # worker.op => record'[p] = record[p]
        BY <2>2 DEF TypeInv, TypeOK
      <4> QED
        BY <3>1, <4>1, <4>2, <4>3, <4>4, CompositeAssumption
        DEF SessionInv, EndedRunIsFree, RecordsFrame, Recorded
    <3>2. CASE worker.outcome \notin {"completed", "blocked"}
      BY <1>1, <2>2, <3>2, WorkerFacts, EndedRecord, CompositeAssumption
    <3> QED
      BY <3>1, <3>2
  <2> QED
    BY <2>1, <2>2 DEF Complete
<1> QED
  BY <1>1, <1>2, WorkerKeeps DEF GoodEnd, SessionFrame, WorkflowFrame

\* A cancellation is a mark on the worker.
LEMMA CancelKeeps ==
    ASSUME TypeInv, TypeInv', SessionInv, Cancel
    PROVE  SessionInv'
<1>1. /\ worker # None /\ worker' = [worker EXCEPT !.canceled = TRUE]
      /\ UNCHANGED <<session, wf, record, minted, call, boot>>
  BY DEF Cancel, durable
<1>2. worker'.op = worker.op /\ worker'.point = worker.point /\ worker'.outcome = worker.outcome
  BY <1>1, WorkerFacts DEF Workers
<1>3. GoodEnd'
  BY <1>1, <1>2 DEF SessionInv, GoodEnd, Holds
<1> QED
  BY <1>1, <1>3, SameRecords, WorkerKeeps DEF SessionFrame, WorkflowFrame


-----------------------------------------------------------------------------
\* No call is in flight after a crash.
LEMMA CrashKeeps ==
    ASSUME TypeInv, TypeInv', SessionInv, Crash
    PROVE  SessionInv'
<1>1. /\ UNCHANGED <<session, wf, record, minted>> /\ worker' = None
      /\ \A c \in Client : call'[c] = None
  BY DEF Crash, durable
<1>2. Frame
  BY <1>1, SameRecords DEF Frame, SessionFrame, WorkflowFrame, LockFrame, Admitting, At
<1>3. AnswerCalls' /\ GoodEnd' /\ Quiet'
  BY <1>1 DEF AnswerCalls, AnswerCall, GoodEnd, Quiet
<1> QED
  BY <1>2, <1>3, FrameKeeps

\* The first load after a restart saves the workflow at most.
LEMMA RecoverAfterRestartKeeps ==
    ASSUME TypeInv, TypeInv', SessionInv, RecoverAfterRestart
    PROVE  SessionInv'
<1>1. UNCHANGED <<session, slot, record, minted, worker, call, asked, boot, spent>>
  BY DEF RecoverAfterRestart
<1>2. WorkflowFrame
  <2>1. wf \in Workflows
    BY DEF TypeInv, TypeOK
  <2> QED
    BY <2>1 DEF RecoverAfterRestart, WorkflowFrame, Saved, Workflows
<1>3. Frame
  BY <1>1, <1>2, SameRecords DEF Frame, SessionFrame, LockFrame
<1>4. AnswerCalls'
  BY <1>1, <1>2 DEF SessionInv, AnswerCalls, AnswerCall, WorkflowFrame
<1>5. GoodEnd' /\ Quiet'
  BY <1>1 DEF SessionInv, GoodEnd, Quiet, Holds
<1> QED
  BY <1>3, <1>4, <1>5, FrameKeeps

\* While a process starts there is no call: a step of the start disturbs none.
LEMMA BootKeeps ==
    ASSUME TypeInv, TypeInv', SessionInv, boot # "up", RecordsFrame, SessionFrame, WorkflowFrame,
           UNCHANGED <<call, minted>>, GoodEnd', boot' # "up" => worker' = None
    PROVE  SessionInv'
<1>1. \A c \in Client : call'[c] = None
  BY DEF SessionInv, Quiet
<1>2. LockFrame /\ AnswerCalls' /\ Quiet'
  BY <1>1 DEF LockFrame, Admitting, At, AnswerCalls, AnswerCall, Quiet
<1> QED
  BY <1>2, FrameKeeps DEF Frame

\* The operation goes on with a new worker, or is interrupted.
LEMMA ResumeKeeps ==
    ASSUME TypeInv, TypeInv', SessionInv, Resume
    PROVE  SessionInv'
<1>1. /\ UNCHANGED <<session, wf, minted, call>> /\ boot # "up" /\ boot' = "up"
      /\ worker = None
  BY DEF Resume, SessionInv, Quiet
<1>2. CASE UNCHANGED <<record, worker>>
  BY <1>1, <1>2, SameRecords, BootKeeps DEF SessionFrame, WorkflowFrame, GoodEnd
<1>3. ASSUME NEW o \in ActiveOps, worker' = NewWorker(o), record' = record
      PROVE  SessionInv'
  <2>1. GoodEnd'
    BY <1>3 DEF GoodEnd, NewWorker
  <2> QED
    BY <1>1, <1>3, <2>1, SameRecords, BootKeeps DEF SessionFrame, WorkflowFrame
<1>4. ASSUME NEW o \in ActiveOps, record' = [record EXCEPT ![o].status = "interrupted"],
             worker' = worker
      PROVE  SessionInv'
  <2>1. o \in Operation /\ record[o] # None
    BY <1>4 DEF ActiveOps, IsActive
  <2>2. "interrupted" \in Ends \ {"completed", "blocked"}
    BY DEF Ends
  <2>3. RecordsFrame
    BY <1>4, <2>1, <2>2, EndedRecord
  <2> QED
    BY <1>1, <1>4, <2>3, BootKeeps DEF SessionFrame, WorkflowFrame, GoodEnd
<1> QED
  BY <1>2, <1>3, <1>4 DEF Resume

\* Active operations end as interrupted.
LEMMA DiscardKeeps ==
    ASSUME TypeInv, TypeInv', SessionInv, Discard
    PROVE  SessionInv'
<1>1. UNCHANGED <<session, wf, minted, worker, call>> /\ boot # "up" /\ worker = None
  BY DEF Discard, SessionInv, Quiet
<1>2. RecordsFrame
  <2> SUFFICES ASSUME NEW o \in Operation, record'[o] # None
               PROVE  /\ record[o] # None /\ record'[o].key = record[o].key
                      /\ record'[o].rev = record[o].rev /\ record'[o].wants = record[o].wants
                      /\ record'[o].status = "active" => record[o].status = "active"
                      /\ record'[o].status \in {"completed", "blocked"} => ~Holds(o)
    BY DEF RecordsFrame
  <2>1. CASE IsActive(o)
    <3>1. record'[o] = [record[o] EXCEPT !.status = "interrupted"]
      BY <2>1 DEF Discard
    <3>2. record[o] \in Records
      BY <2>1 DEF IsActive, TypeInv, TypeOK
    <3> QED
      BY <2>1, <3>1, <3>2 DEF IsActive, Records
  <2>2. CASE ~IsActive(o)
    BY <2>2 DEF Discard, SessionInv, EndedRunIsFree, Recorded
  <2> QED
    BY <2>1, <2>2
<1> QED
  BY <1>1, <1>2, BootKeeps DEF SessionFrame, WorkflowFrame, GoodEnd

\* The session of an ended operation is released.
LEMMA SettleKeeps ==
    ASSUME TypeInv, TypeInv', SessionInv, Settle
    PROVE  SessionInv'
<1>1. /\ UNCHANGED <<record, minted, worker, call>> /\ boot # "up" /\ worker = None
      /\ session \in Sessions /\ wf \in Workflows
  BY CompositeAssumption DEF Settle, SessionInv, Quiet, TypeInv, TypeOK, Opened
<1>2. SessionFrame /\ WorkflowFrame
  <2>1. CASE UNCHANGED <<session, wf>>
    BY <2>1 DEF SessionFrame, WorkflowFrame
  <2>2. CASE session' = Released /\ Saved(wf)
    BY <1>1, <2>2, ReleasedFrame, SavedType DEF WorkflowFrame
  <2> QED
    BY <2>1, <2>2 DEF Settle
<1> QED
  BY <1>1, <1>2, SameRecords, BootKeeps DEF GoodEnd

\* The input closes.
LEMMA CloseIdleKeeps ==
    ASSUME TypeInv, TypeInv', SessionInv, CloseIdle
    PROVE  SessionInv'
<1>1. UNCHANGED <<session, wf, record, minted, worker, call>> /\ boot # "up" /\ worker = None
  BY DEF CloseIdle, SessionInv, Quiet
<1> QED
  BY <1>1, SameRecords, BootKeeps DEF SessionFrame, WorkflowFrame, GoodEnd

-----------------------------------------------------------------------------
(* The steps outside the frame: the session is replaced, answered, bound,  *)
(* and the record of the operation made.                                   *)

\* What a step that needs the command lock finds: no call is admitting, so a
\* session without running operation may become anything.
LEMMA FreeSession ==
    ASSUME TypeInv, TypeInv', SessionInv, Unlocked, ActiveOps = {}, NEW c \in Client,
           ~Admitting(c)', \A d \in Client : d # c => call'[d] = call[d],
           UNCHANGED <<record, minted, worker, boot>>, boot = "up", session' # None,
           session'.active \in {None} \cup {session.active}, session'.active # None => session # None,
           Passed', AnswerCalls'
    PROVE  SessionInv'
<1>0. None \notin Operation
  BY CompositeAssumption
<1>1. \A d \in Client : ~Admitting(d)'
  BY DEF Unlocked, Admitting, At
<1>2. Quiet' /\ Alone' /\ Admissions'
  BY <1>1 DEF Quiet, Alone, Admissions, Admission, Admitting
<1>3. Identified'
  BY <1>1 DEF SessionInv, Identified, Recorded, Admitting
<1>4. OneRecord'
  BY DEF SessionInv, OneRecord, Recorded
<1>5. RunMatchesSession'
  BY DEF RunMatchesSession, ActiveOps, IsActive
<1>6. EndedRunIsFree' /\ GoodEnd'
  <2>1. \A o \in Operation : Holds(o)' => Holds(o)
    BY <1>0 DEF Holds
  <2>2. EndedRunIsFree'
    BY <2>1 DEF SessionInv, EndedRunIsFree, Recorded
  <2>3. GoodEnd'
    BY <2>1, WorkerFacts DEF SessionInv, GoodEnd
  <2> QED
    BY <2>2, <2>3
<1> QED
  BY <1>2, <1>3, <1>4, <1>5, <1>6 DEF SessionInv

\* A save that keeps the receipts keeps what answers have passed.
LEMMA PassedKeeps ==
    ASSUME TypeInv, SessionInv, record' = record, WorkflowFrame
    PROVE  Passed'
<1>1. wf.rev \in Nat /\ wf.receipts \in [Answer -> Nat]
  BY DEF TypeInv, TypeOK, Workflows
<1> QED
  BY <1>1 DEF SessionInv, Passed, WorkflowFrame, Recorded

\* A session that begins.
LEMMA NewSessionFacts ==
    \A wants \in Fingerprint : NewSession(wants) # None /\ NewSession(wants).active = None
BY SessionTypes, CompositeAssumption DEF NewSession

\* The adoption of an input replaces the session only between operations.
LEMMA AdoptKeeps ==
    ASSUME TypeInv, TypeInv', SessionInv, NEW c \in Client, NEW r \in Request, Adopt(c, r)
    PROVE  SessionInv'
<1> DEFINE k == NewCall(r, "choose")
<1>1. /\ UNCHANGED <<record, minted, worker, boot>> /\ Unlocked /\ ActiveOps = {} /\ boot = "up"
      /\ session # None
  BY DEF Adopt, Serving, TypeInv, Opened
<1>2. k \in Calls /\ k.point = "choose" /\ k.base = r
  BY NewCallType, CompositeAssumption
<1>3. PICK x \in Calls : x.point = "choose" /\ x.base = r /\ call' = [call EXCEPT ![c] = x]
  <2>1. \/ call' = [call EXCEPT ![c] = k]
        \/ call' = [call EXCEPT ![c] = [k EXCEPT !.fresh = TRUE]]
    BY DEF Adopt
  <2> HIDE DEF k
  <2>2. /\ [k EXCEPT !.fresh = TRUE] \in Calls /\ [k EXCEPT !.fresh = TRUE].point = "choose"
        /\ [k EXCEPT !.fresh = TRUE].base = r
    BY <1>2 DEF Calls
  <2> QED
    BY <1>2, <2>1, <2>2
<1>4. call'[c] = x /\ (\A d \in Client : d # c => call'[d] = call[d])
  BY <1>3 DEF TypeInv, TypeOK
<1>5. WorkflowFrame
  <2>1. wf \in Workflows
    BY DEF TypeInv, TypeOK
  <2> QED
    BY <2>1 DEF Adopt, WorkflowFrame, Saved, Workflows
<1>6. Passed'
  BY <1>1, <1>5, PassedKeeps
<1>7. AnswerCall(c)' /\ ~Admitting(c)'
  BY <1>3, <1>4, CompositeAssumption DEF AnswerCall, Admitting, At
<1>8. AnswerCalls'
  BY <1>4, <1>5, <1>7 DEF SessionInv, AnswerCalls, AnswerCall, WorkflowFrame
<1>9. session' # None /\ session'.active \in {None} \cup {session.active}
  BY <1>1, NewSessionFacts DEF Adopt, Fingerprint
<1> QED
  BY <1>1, <1>4, <1>6, <1>7, <1>8, <1>9, FreeSession

\* The commit of an open replaces the session only between operations.
LEMMA CommitOpenKeeps ==
    ASSUME TypeInv, TypeInv', SessionInv, NEW c \in Client, CommitOpen(c)
    PROVE  SessionInv'
<1>1. /\ UNCHANGED <<record, minted, worker, boot>> /\ Unlocked /\ ActiveOps = {} /\ boot = "up"
      /\ call[c] \in Calls /\ call[c].base \in Request
  BY DEF CommitOpen, At, SessionInv, Quiet, TypeInv, TypeOK, CallShapes, CallShape
<1>2. /\ call'[c].point = "choose" /\ call'[c].base = call[c].base
      /\ \A d \in Client : d # c => call'[d] = call[d]
  BY <1>1 DEF CommitOpen, TypeInv, TypeOK, Calls
<1>3. WorkflowFrame
  <2>1. wf \in Workflows
    BY DEF TypeInv, TypeOK
  <2> QED
    BY <2>1 DEF CommitOpen, WorkflowFrame, Saved, Workflows
<1>4. Passed'
  BY <1>1, <1>3, PassedKeeps
<1>5. AnswerCall(c)' /\ ~Admitting(c)'
  BY <1>1, <1>2, CompositeAssumption DEF AnswerCall, Admitting, At
<1>6. AnswerCalls'
  BY <1>2, <1>3, <1>5 DEF SessionInv, AnswerCalls, AnswerCall, WorkflowFrame
<1>7. /\ session' # None /\ session'.active \in {None} \cup {session.active}
      /\ session'.active # None => session # None
  BY <1>1, NewSessionFacts DEF CommitOpen, Calls
<1> QED
  BY <1>1, <1>2, <1>4, <1>5, <1>6, <1>7, FreeSession

\* The receipt of an answer is the revision it commits, and is written once.
LEMMA ApplyKeeps ==
    ASSUME TypeInv, TypeInv', SessionInv, NEW c \in Client, Apply(c)
    PROVE  SessionInv'
<1> DEFINE f == call[c].base
<1>1. /\ UNCHANGED <<record, minted, worker, boot>> /\ Unlocked /\ boot = "up"
      /\ call[c] \in Calls /\ f \in Answer /\ session \in Sessions /\ wf \in Workflows
      /\ f \notin Request
  BY CompositeAssumption DEF Apply, At, SessionInv, Quiet, TypeInv, TypeOK, CallShapes,
     CallShape, Opened
<1>2. CASE UNCHANGED <<session, wf>>
  <2>1. \/ call' = [call EXCEPT ![c] = None]
        \/ /\ wf.receipts[f] # 0
           /\ call' = [call EXCEPT ![c].point = "reload", ![c].rev = wf.receipts[f]]
    <3>1. wf.rev # wf.rev + 1
      BY <1>1 DEF Workflows
    <3> QED
      BY <1>1, <1>2, <3>1 DEF Apply, End, Saved, Workflows
  <2>2. /\ \A d \in Client : d # c => call'[d] = call[d]
        /\ \/ call'[c] = None
           \/ /\ wf.receipts[f] # 0 /\ call'[c].base = f /\ call'[c].point = "reload"
              /\ call'[c].rev = wf.receipts[f]
    BY <1>1, <2>1 DEF TypeInv, TypeOK, Calls
  <2>3. AnswerCall(c)' /\ ~Admitting(c)'
    BY <1>1, <1>2, <2>2 DEF AnswerCall, Admitting, At
  <2>4. Frame /\ AnswerCalls'
    BY <1>1, <1>2, <2>2, <2>3, SameRecords, OneCall DEF Frame, SessionFrame, WorkflowFrame
  <2>5. GoodEnd' /\ Quiet'
    BY <1>1, <1>2 DEF SessionInv, GoodEnd, Quiet, Holds
  <2> QED
    BY <2>4, <2>5, FrameKeeps
<1>3. CASE ~UNCHANGED <<session, wf>>
  <2>1. PICK stage \in {wf.stage, 1} :
           /\ ActiveOps = {} /\ wf.receipts[f] = 0
           /\ session' = [session EXCEPT !.active = None, !.seq = @ + 1, !.tuned = FALSE,
                                         !.receipts[f] = session.seq + 1]
           /\ Saved([wf EXCEPT !.stage = stage, !.asks = @ - 1, !.receipts[f] = wf.rev + 1])
           /\ call' = [call EXCEPT ![c].point = "reload", ![c].rev = wf.rev + 1]
    BY <1>3 DEF Apply
  <2>2. /\ wf'.rev = wf.rev + 1 /\ wf.rev \in Nat /\ wf.receipts \in [Answer -> Nat]
        /\ wf'.receipts = [wf.receipts EXCEPT ![f] = wf.rev + 1]
    BY <1>1, <2>1 DEF Saved, Workflows
  <2>3. \A g \in Answer : wf'.receipts[g] = IF g = f THEN wf.rev + 1 ELSE wf.receipts[g]
    BY <1>1, <2>2
  <2>4. /\ \A d \in Client : d # c => call'[d] = call[d]
        /\ call'[c].base = f /\ call'[c].point = "reload" /\ call'[c].rev = wf.rev + 1
    BY <1>1, <2>1 DEF TypeInv, TypeOK, Calls
  <2>5. AnswerCall(c)' /\ ~Admitting(c)'
    BY <1>1, <2>2, <2>3, <2>4 DEF AnswerCall, Admitting, At
  <2>6. AnswerCalls'
    <3> SUFFICES ASSUME NEW d \in Client, d # c
                 PROVE  AnswerCall(d)'
      BY <2>5 DEF AnswerCalls
    <3>1. AnswerCall(d) /\ call'[d] = call[d]
      BY <2>4 DEF SessionInv, AnswerCalls
    <3>2. \A g \in Answer : wf.receipts[g] # 0 => wf'.receipts[g] = wf.receipts[g]
      BY <2>1, <2>3
    <3> QED
      BY <3>1, <3>2 DEF AnswerCall
  <2>7. Passed'
    BY <1>1, <2>1, <2>2, <2>3 DEF SessionInv, Passed, Recorded
  <2>8. session' # None /\ session'.active = None
    <3>1. [session.receipts EXCEPT ![f] = session.seq + 1] \in [Answer -> Nat]
      BY <1>1 DEF Sessions
    <3>2. session' \in Sessions /\ session'.active = None
      BY <1>1, <2>1, <3>1 DEF Sessions
    <3> QED
      BY <3>2, CompositeAssumption
  <2> QED
    BY <1>1, <2>1, <2>4, <2>5, <2>6, <2>7, <2>8, FreeSession
<1> QED
  BY <1>2, <1>3


\* Start binds a session that is free, at the revision the call has seen.
LEMMA StartKeeps ==
    ASSUME TypeInv, TypeInv', SessionInv, NEW c \in Client, Start(c)
    PROVE  SessionInv'
<1>0. None \notin Operation
  BY CompositeAssumption
<1>1. /\ UNCHANGED <<worker, boot>> /\ Unlocked /\ boot = "up" /\ session \in Sessions
      /\ session # None /\ wf \in Workflows /\ call[c] \in Calls /\ call[c].point = "start"
      /\ call[c] # None
  BY CompositeAssumption DEF Start, At, SessionInv, Quiet, TypeInv, TypeOK, Opened
<1>2. RecordsFrame
  <2> SUFFICES ASSUME NEW o \in Operation, record'[o] # None
               PROVE  /\ record[o] # None /\ record'[o].key = record[o].key
                      /\ record'[o].rev = record[o].rev /\ record'[o].wants = record[o].wants
                      /\ record'[o].status = "active" => record[o].status = "active"
                      /\ record'[o].status \in {"completed", "blocked"} => ~Holds(o)
    BY DEF RecordsFrame
  <2>1. CASE o \in Outdated(c)
    <3>1. record'[o] = [record[o] EXCEPT !.status = "stale"]
      BY <2>1 DEF Start
    <3>2. record[o] \in Records /\ record[o] # None
      BY <2>1 DEF Outdated, Prior, Recorded, TypeInv, TypeOK
    <3> QED
      BY <3>1, <3>2 DEF Records
  <2>2. CASE o \notin Outdated(c)
    BY <2>2 DEF Start, SessionInv, EndedRunIsFree, Recorded
  <2> QED
    BY <2>1, <2>2
<1>3. CASE End(c) /\ UNCHANGED <<session, wf, minted>>
  <2>1. call'[c] = None /\ (\A d \in Client : d # c => call'[d] = call[d])
    BY <1>3 DEF End, TypeInv, TypeOK
  <2>2. AnswerCall(c)' /\ ~Admitting(c)'
    BY <2>1 DEF AnswerCall, Admitting, At
  <2>3. Frame /\ AnswerCalls'
    BY <1>1, <1>2, <1>3, <2>1, <2>2, OneCall DEF Frame, SessionFrame, WorkflowFrame
  <2>4. GoodEnd' /\ Quiet'
    BY <1>1, <1>3 DEF SessionInv, GoodEnd, Quiet, Holds
  <2> QED
    BY <2>3, <2>4, FrameKeeps
<1>4. CASE /\ Admitted(c) /\ minted < MaxOperations /\ minted' = minted + 1
           /\ session' = [session EXCEPT !.active = minted'] /\ Saved(wf)
           /\ call' = [call EXCEPT ![c].point = "create", ![c].op = minted']
  <2>1. /\ minted \in Nat /\ wf.rev \in Nat /\ wf.receipts \in [Answer -> Nat]
        /\ minted + 1 \in Operation
    <3>1. minted \in Nat /\ wf.rev \in Nat /\ wf.receipts \in [Answer -> Nat]
      BY <1>1 DEF TypeInv, TypeOK, Workflows
    <3>2. minted + 1 \in Operation
      BY <1>4, <3>1, CompositeAssumption DEF Operation
    <3> QED
      BY <3>1, <3>2
  <2>2. /\ session' # None /\ session'.wants = session.wants /\ session'.receipts = session.receipts
        /\ session'.active = minted + 1
    <3>1. /\ session' \in Sessions /\ session'.wants = session.wants
          /\ session'.receipts = session.receipts /\ session'.active = minted + 1
      BY <1>1, <1>4, <2>1 DEF Sessions
    <3> QED
      BY <3>1, CompositeAssumption
  <2>3. wf'.rev = wf.rev + 1 /\ wf'.receipts = wf.receipts
    BY <1>1, <1>4, SavedType
  <2>4. /\ \A d \in Client : d # c => call'[d] = call[d]
        /\ call'[c].point = "create" /\ call'[c].op = minted + 1 /\ call'[c].base = call[c].base
        /\ call'[c].rev = call[c].rev /\ call'[c].wants = call[c].wants
    BY <1>1, <1>4 DEF TypeInv, TypeOK, Calls
  <2>5. wf.rev = call[c].rev /\ session.wants = call[c].wants
    BY <1>4 DEF Admitted
  <2>6. \A d \in Client : Admitting(d)' => d = c
    BY <1>1, <2>4 DEF Unlocked, Admitting, At
  <2>7. \A o \in Recorded' : /\ o \in Recorded /\ record'[o].key = record[o].key
                             /\ o <= minted /\ o \in Nat
    BY <1>2, <2>1 DEF RecordsFrame, Recorded, SessionInv, Identified, Operation
  <2>8. Quiet' /\ Alone'
    BY <1>1, <2>6 DEF Quiet, Alone
  <2>9. Identified'
    <3>1. record'[minted + 1] = None
      <4>1. minted + 1 \notin Recorded'
        BY <2>1, <2>7
      <4> QED
        BY <2>1, <4>1 DEF Recorded
    <3>2. \A d \in Client : At(d, "create")' => d = c
      BY <2>6 DEF Admitting
    <3>3. \A o \in Recorded' : o <= minted' /\ session' # None
      BY <1>4, <2>1, <2>2, <2>7
    <3>4. session'.active <= minted' /\ call'[c].op <= minted' /\ record'[call'[c].op] = None
      BY <1>4, <2>1, <2>2, <2>4, <3>1
    <3> QED
      BY <3>2, <3>3, <3>4 DEF Identified
  <2>10. AnswerCalls'
    <3>1. AnswerCall(c)'
      BY <1>1, <2>3, <2>4 DEF SessionInv, AnswerCalls, AnswerCall
    <3>2. ASSUME NEW d \in Client, d # c PROVE AnswerCall(d)'
      BY <2>3, <2>4, <3>2 DEF SessionInv, AnswerCalls, AnswerCall
    <3> QED
      BY <3>1, <3>2 DEF AnswerCalls
  <2>11. Passed' /\ OneRecord'
    <3>1. Passed'
      BY <2>1, <2>3, <2>7 DEF SessionInv, Passed
    <3>2. OneRecord'
      BY <2>7 DEF SessionInv, OneRecord
    <3> QED
      BY <3>1, <3>2
  <2>12. Admissions'
    <3> SUFFICES Admission(c)'
      BY <2>6 DEF Admissions, Admission, Admitting
    <3>1. \A f \in Answer : wf'.receipts[f] <= call'[c].rev
      BY <2>3, <2>4, <2>5 DEF SessionInv, Passed
    <3>2. ASSUME NEW f \in Answer, call'[c].base = f
          PROVE  wf'.receipts[f] < wf'.rev /\ \A o \in Recorded' : record'[o].key.base # f
      <4>1. call[c].rev = wf.receipts[f]
        BY <1>1, <2>4, <3>2, CompositeAssumption DEF SessionInv, AnswerCalls, AnswerCall
      <4>2. \A o \in Recorded : record[o].key.base # f
        BY <2>1, <2>5, <4>1 DEF SessionInv, Passed
      <4> QED
        BY <2>1, <2>3, <2>5, <2>7, <4>1, <4>2
    <3> QED
      BY <2>2, <2>4, <2>5, <3>1, <3>2 DEF Admission
  <2>13. EndedRunIsFree' /\ GoodEnd'
    <3>1. \A o \in Recorded' : ~Holds(o)'
      BY <2>1, <2>2, <2>7 DEF Holds
    <3>2. EndedRunIsFree'
      BY <3>1 DEF EndedRunIsFree
    <3>3. worker' # None => worker'.op \in Recorded'
      BY WorkerFacts DEF TypeInv, TypeOK, WorkerShape, Recorded, Workers
    <3>4. GoodEnd'
      BY <1>1, <3>1, <3>3 DEF SessionInv, GoodEnd
    <3> QED
      BY <3>2, <3>4
  <2>14. RunMatchesSession'
    <3> SUFFICES ASSUME NEW o \in ActiveOps'
                 PROVE  /\ session'.wants = record'[o].wants
                        /\ session'.active \in Recorded' => session'.active = o
                        /\ \A f \in Answer : session'.receipts[f] # 0 =>
                              wf'.receipts[f] <= record'[o].rev
      BY DEF RunMatchesSession
    <3>1. /\ o \in ActiveOps /\ record'[o].wants = record[o].wants
          /\ record'[o].rev = record[o].rev
      BY <1>2 DEF ActiveOps, IsActive, RecordsFrame
    <3>2. session'.active \notin Recorded'
      BY <2>1, <2>2, <2>7
    <3> QED
      BY <2>2, <2>3, <3>1, <3>2 DEF SessionInv, RunMatchesSession
  <2> QED
    BY <2>8, <2>9, <2>10, <2>11, <2>12, <2>13, <2>14 DEF SessionInv
<1> QED
  BY <1>3, <1>4 DEF Start

\* The record is made for the session as it was admitted, and for an answer that
\* has none.
LEMMA CreateKeeps ==
    ASSUME TypeInv, TypeInv', SessionInv, NEW c \in Client, Create(c)
    PROVE  SessionInv'
<1> DEFINE n == call[c].op
<1>1. /\ UNCHANGED <<session, wf, minted, worker, boot>> /\ ActiveOps = {} /\ boot = "up"
      /\ session # None /\ call[c] \in Calls /\ n \in Operation /\ At(c, "create")
      /\ record[n] = None /\ n <= minted /\ Admission(c)
  BY CompositeAssumption DEF Create, At, SessionInv, Quiet, TypeInv, TypeOK, Opened, CallShapes,
     CallShape, Identified, Admissions
<1>2. /\ record'[n] # None /\ record'[n].wants = call[c].wants /\ record'[n].rev = call[c].rev
      /\ record'[n].key.base = call[c].base /\ record'[n].status = "active"
      /\ \A o \in Operation : o # n => record'[o] = record[o]
  <2> DEFINE r == [key |-> KeyOf(c), rev |-> call[c].rev, wants |-> call[c].wants,
                   status |-> "active"]
  <2>1. record' = [record EXCEPT ![n] = r]
    BY DEF Create
  <2>2. /\ r \in Records /\ r.wants = call[c].wants /\ r.rev = call[c].rev
        /\ r.key.base = call[c].base /\ r.status = "active"
    BY <1>1 DEF KeyOf, Records, Keys, Calls
  <2> HIDE DEF r
  <2> QED
    BY <1>1, <2>1, <2>2, CompositeAssumption DEF TypeInv, TypeOK
<1>3. /\ \A d \in Client : d # c => call'[d] = call[d]
      /\ call'[c].point = "dispatch" /\ call'[c].base = call[c].base /\ call'[c].rev = call[c].rev
      /\ call'[c] # None
  <2>1. /\ \A d \in Client : d # c => call'[d] = call[d]
        /\ call'[c].point = "dispatch" /\ call'[c].base = call[c].base
        /\ call'[c].rev = call[c].rev /\ call'[c] \in Calls
    BY <1>1 DEF Create, Goto, TypeInv, TypeOK, Calls
  <2> QED
    BY <2>1, CompositeAssumption
<1>4. Recorded' = Recorded \cup {n}
  BY <1>1, <1>2 DEF Recorded
<1>5. \A d \in Client : Admitting(d)' <=> d = c
  BY <1>1, <1>3 DEF SessionInv, Alone, Admitting, At
<1>6. \A o \in Recorded : record'[o] = record[o] /\ o # n
  BY <1>1, <1>2 DEF Recorded
<1>7. Quiet' /\ Alone' /\ Admissions'
  BY <1>1, <1>3, <1>5 DEF Quiet, Alone, Admissions, Admission, Admitting, At
<1>8. Identified'
  <2>1. \A d \in Client : ~At(d, "create")'
    BY <1>3, <1>5 DEF Admitting, At
  <2> QED
    BY <1>1, <1>4, <2>1 DEF SessionInv, Identified
<1>9. AnswerCalls'
  BY <1>1, <1>3 DEF SessionInv, AnswerCalls, AnswerCall, At
<1>10. Passed'
  <2>1. \A f \in Answer : call[c].base = f => wf.receipts[f] # 0 /\ wf.receipts[f] < wf.rev
    BY <1>1 DEF SessionInv, AnswerCalls, AnswerCall, Admission, At
  <2> QED
    BY <1>1, <1>2, <1>4, <1>6, <2>1 DEF SessionInv, Passed
<1>11. OneRecord'
  <2>1. \A o \in Recorded : record[o].key.base = call[c].base => call[c].base \notin Answer
    BY <1>1 DEF Admission
  <2> QED
    BY <1>2, <1>4, <1>6, <2>1 DEF SessionInv, OneRecord
<1>12. EndedRunIsFree' /\ GoodEnd'
  <2>1. EndedRunIsFree'
    BY <1>1, <1>2, <1>4, <1>6 DEF SessionInv, EndedRunIsFree, Holds
  <2>2. GoodEnd'
    BY <1>1 DEF SessionInv, GoodEnd, Holds
  <2> QED
    BY <2>1, <2>2
<1>13. RunMatchesSession'
  <2>1. ActiveOps' = {n}
    <3>1. \A o \in Operation : o # n => ~IsActive(o)'
      BY <1>1, <1>2 DEF ActiveOps, IsActive
    <3> QED
      BY <1>1, <1>2, <3>1 DEF ActiveOps, IsActive
  <2> QED
    BY <1>1, <1>2, <2>1 DEF RunMatchesSession, Admission
<1> QED
  BY <1>7, <1>8, <1>9, <1>10, <1>11, <1>12, <1>13 DEF SessionInv

-----------------------------------------------------------------------------
\* Nothing was bound or stored at first.
LEMMA SessionInit == Init => SessionInv
<1> SUFFICES ASSUME Init PROVE SessionInv
  OBVIOUS
<1>1. Recorded = {} /\ ActiveOps = {}
  BY DEF Init, Recorded, ActiveOps, IsActive
<1>2. \A c \in Client : call[c] = None
  BY DEF Init
<1>3. \A f \in Answer : wf.receipts[f] <= wf.rev
  BY DEF Init, NoReceipts
<1> QED
  BY <1>1, <1>2, <1>3 DEF Init, SessionInv, Quiet, Alone, Identified, Admissions, Admission, Admitting,
     At, AnswerCalls, AnswerCall, Passed, OneRecord, GoodEnd, EndedRunIsFree, RunMatchesSession

\* Every step keeps the session and its operations in agreement.
LEMMA SessionStep == TypeInv /\ TypeInv' /\ SessionInv /\ [Next]_vars => SessionInv'
<1> SUFFICES ASSUME TypeInv, TypeInv', SessionInv, [Next]_vars PROVE SessionInv'
  OBVIOUS
<1>1. ASSUME NEW c \in Client, NEW r \in Request, Adopt(c, r) \/ Open(c, r) PROVE SessionInv'
  BY <1>1, AdoptKeeps, OpenKeeps
<1>2. ASSUME NEW c \in Client, NEW f \in Answer, Receive(c, f) PROVE SessionInv'
  BY <1>2, ReceiveKeeps
<1>3. ASSUME NEW c \in Client, CallStep(c) PROVE SessionInv'
  BY <1>3, CommitOpenKeeps, ChooseKeeps, AttachKeeps, ApplyKeeps, ReloadKeeps, StartKeeps,
     CreateKeeps, DispatchKeeps DEF CallStep
<1>4. ASSUME NEW c \in Client, FailCreate(c) \/ FailDispatch(c) \/ Disconnect(c)
      PROVE  SessionInv'
  BY <1>4, FailCreateKeeps, FailDispatchKeeps, DisconnectKeeps
<1>5. ASSUME WorkerStep \/ FailBegin \/ FailFinish \/ Cancel PROVE SessionInv'
  BY <1>5, BeginKeeps, LookKeeps, TuneKeeps, StageKeeps, FinishKeeps, CompleteKeeps,
     FailBeginKeeps, FailFinishKeeps, CancelKeeps DEF WorkerStep
<1>6. ASSUME NEW f \in Answer, Answered(f) PROVE SessionInv'
  BY <1>6, AnsweredKeeps
<1>7. ASSUME Crash \/ BootStep \/ RecoverAfterRestart PROVE SessionInv'
  BY <1>7, CrashKeeps, ResumeKeeps, DiscardKeeps, SettleKeeps, CloseIdleKeeps,
     RecoverAfterRestartKeeps DEF BootStep
<1>8. CASE UNCHANGED vars
  <2>1. UNCHANGED <<session, wf, record, minted, worker, call, boot>>
    BY <1>8 DEF vars, durable, process
  <2>2. Frame
    BY <2>1, SameRecords DEF Frame, SessionFrame, WorkflowFrame, LockFrame
  <2>3. AnswerCalls' /\ GoodEnd' /\ Quiet'
    BY <2>1 DEF SessionInv, AnswerCalls, AnswerCall, GoodEnd, Quiet, Holds
  <2> QED
    BY <2>2, <2>3, FrameKeeps
<1> QED
  BY <1>1, <1>2, <1>3, <1>4, <1>5, <1>6, <1>7, <1>8 DEF Next

\* The two invariants hold together in every reachable state.
LEMMA SessionHolds == Spec => [](TypeInv /\ SessionInv)
BY TypeInit, TypeStep, SessionInit, SessionStep, PTL DEF Spec

\* A running operation works for the session as it is, however calls, crashes
\* and disconnects interleave (requireOperationOwnership and the command lock).
THEOREM RunMatchesSessionHolds == Spec => []RunMatchesSession
<1>1. SessionInv => RunMatchesSession
  BY DEF SessionInv
<1> QED
  BY <1>1, SessionHolds, PTL

\* An operation that ended well has released its session before, so that no
\* crash leaves the session locked by it (finishCompositeSession).
THEOREM EndedRunIsFreeHolds == Spec => []EndedRunIsFree
<1>1. SessionInv => EndedRunIsFree
  BY DEF SessionInv
<1> QED
  BY <1>1, SessionHolds, PTL

\* An answer starts one operation at most, however often it is repeated and
\* whatever key its caller computed: the revision of its receipt admits only
\* once (SubmitUploadFeedback).
THEOREM OneRunPerAnswerHolds == Spec => []OneRunPerAnswer
<1>1. ASSUME SessionInv, NEW f \in Answer
      PROVE  Cardinality({o \in Recorded : record[o].key.base = f}) <= 1
  <2> DEFINE S == {o \in Recorded : record[o].key.base = f}
  <2>1. \A o, p \in S : o = p
    BY <1>1 DEF SessionInv, OneRecord
  <2>2. ASSUME S = {} PROVE Cardinality(S) <= 1
    <3>1. Cardinality({}) = 0
      BY FS_EmptySet
    <3> HIDE DEF S
    <3> QED
      BY <2>2, <3>1
  <2>3. ASSUME NEW o \in S PROVE Cardinality(S) <= 1
    <3>1. S = {o}
      BY <2>1
    <3>2. Cardinality({o}) = 1
      BY FS_Singleton
    <3> HIDE DEF S
    <3> QED
      BY <3>1, <3>2
  <2> QED
    BY <2>2, <2>3
<1>2. SessionInv => OneRunPerAnswer
  BY <1>1 DEF OneRunPerAnswer
<1> QED
  BY <1>2, SessionHolds, PTL
=============================================================================
