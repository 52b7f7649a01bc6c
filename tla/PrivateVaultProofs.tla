------------------------- MODULE PrivateVaultProofs -------------------------
(***************************************************************************)
(* Proofs about PrivateVault, for any keys, resources, crashes and failed  *)
(* file operations.  What a call has still to do is a sequence; the proofs *)
(* look at the set of its elements, which only shrinks.                    *)
(***************************************************************************)
EXTENDS PrivateVault, SequenceTheorems, FiniteSetTheorems, TLAPS

-----------------------------------------------------------------------------
(* Sequences.                                                              *)

\* The first element and the others make up a sequence.
LEMMA TailRange ==
    ASSUME NEW S, NEW seq \in Seq(S), seq # <<>>
    PROVE  /\ Head(seq) \in S /\ Tail(seq) \in Seq(S)
           /\ Range(seq) = {Head(seq)} \cup Range(Tail(seq))
<1>1. Head(seq) \in S /\ Tail(seq) \in Seq(S)
  BY HeadTailProperties
<1>2. /\ Len(seq) \in Nat /\ Len(seq) >= 1
      /\ Len(Tail(seq)) = Len(seq) - 1
      /\ \A i \in 1 .. Len(Tail(seq)) : Tail(seq)[i] = seq[i + 1]
      /\ Head(seq) = seq[1]
  BY HeadTailProperties, EmptySeq
<1>3. /\ Range(seq) = {seq[i] : i \in 1 .. Len(seq)}
      /\ Range(Tail(seq)) = {Tail(seq)[i] : i \in 1 .. Len(Tail(seq))}
  BY <1>1, RangeEquality
<1>4. ASSUME NEW i \in 1 .. Len(seq)
      PROVE  seq[i] \in {Head(seq)} \cup Range(Tail(seq))
  <2>1. CASE i = 1
    BY <1>2, <2>1
  <2>2. CASE i # 1
    <3>1. i - 1 \in 1 .. Len(Tail(seq)) /\ Tail(seq)[i - 1] = seq[i]
      BY <1>2, <2>2
    <3> QED
      BY <1>3, <3>1
  <2> QED
    BY <2>1, <2>2
<1>5. ASSUME NEW i \in 1 .. Len(Tail(seq))
      PROVE  Tail(seq)[i] \in Range(seq)
  <2>1. i + 1 \in 1 .. Len(seq) /\ Tail(seq)[i] = seq[i + 1]
    BY <1>2
  <2> QED
    BY <1>3, <2>1
<1>6. Head(seq) \in Range(seq)
  BY <1>2, <1>3
<1> QED
  BY <1>1, <1>3, <1>4, <1>5, <1>6

\* Short sequences and their elements.
LEMMA ShortRange ==
    ASSUME NEW S, NEW a \in S, NEW b \in S
    PROVE  /\ <<>> \in Seq(S) /\ Range(<<>>) = {}
           /\ <<a>> \in Seq(S) /\ Range(<<a>>) = {a} /\ <<a>> # <<>>
           /\ Head(<<a>>) = a /\ Tail(<<a>>) = <<>>
           /\ <<a, b>> \in Seq(S) /\ Range(<<a, b>>) = {a, b} /\ <<a, b>> # <<>>
           /\ Head(<<a, b>>) = a /\ Tail(<<a, b>>) = <<b>>
<1>1. <<>> \in Seq(S) /\ <<a>> \in Seq(S) /\ <<a, b>> \in Seq(S)
  OBVIOUS
<1>2. Range(<<>>) = {}
  BY DEF Range
<1>3. Range(<<a>>) = {a}
  BY DEF Range
<1>4. Range(<<a, b>>) = {a, b}
  BY DEF Range
<1>5. /\ <<a>> # <<>> /\ Head(<<a>>) = a /\ Tail(<<a>>) = <<>>
      /\ <<a, b>> # <<>> /\ Head(<<a, b>>) = a /\ Tail(<<a, b>>) = <<b>>
  OBVIOUS
<1> QED
  BY <1>1, <1>2, <1>3, <1>4, <1>5

\* The elements of two sequences, one after the other.
LEMMA ConcatRange ==
    ASSUME NEW S, NEW s \in Seq(S), NEW t \in Seq(S)
    PROVE  s \o t \in Seq(S) /\ Range(s \o t) = Range(s) \cup Range(t)
BY ConcatProperties, RangeConcatenation

-----------------------------------------------------------------------------
(* File operations.                                                        *)

\* A step removes a file or writes one of its kind.
LEMMA StepFacts ==
    ASSUME NEW k \in Key
    PROVE  /\ Step("blob", k, None) \in Steps /\ Step("meta", k, None) \in Steps
           /\ \A v \in Value : Step("blob", k, v) \in Steps
           /\ \A m \in Metas : Step("meta", k, m) \in Steps
           /\ \A file, content : /\ Step(file, k, content).file = file
                                 /\ Step(file, k, content).key = k
                                 /\ Step(file, k, content).content = content
BY DEF Step, Steps

\* What a step is.
LEMMA StepTypes ==
    ASSUME NEW s \in Steps
    PROVE  /\ s.key \in Key /\ s.file \in {"blob", "meta"}
           /\ s.file = "blob" => s.content \in Value \cup {None}
           /\ s.file # "blob" => s.file = "meta" /\ s.content \in Metas \cup {None}
BY DEF Steps

\* The two removals of a key.
LEMMA RemovalFacts ==
    ASSUME NEW k \in Key
    PROVE  /\ Removal(k) \in Seq(Steps)
           /\ Range(Removal(k)) = {Step("blob", k, None), Step("meta", k, None)}
           /\ Removal(k)[1] = Step("blob", k, None) /\ Removal(k)[2] = Step("meta", k, None)
<1> DEFINE a == Step("blob", k, None)
           b == Step("meta", k, None)
<1>1. a \in Steps /\ b \in Steps
  BY StepFacts
<1>2. Removal(k) = <<a, b>>
  BY DEF Removal
<1> HIDE DEF a, b
<1>3. <<a, b>> \in Seq(Steps) /\ <<a, b>>[1] = a /\ <<a, b>>[2] = b
  BY <1>1
<1>4. Range(<<a, b>>) = {a, b}
  BY DEF Range
<1> QED
  BY <1>2, <1>3, <1>4 DEF a, b

\* A finite set of keys is listed without repetition.
LEMMA KeyList ==
    ASSUME NEW keys \in SUBSET Key
    PROVE  /\ Cardinality(keys) \in Nat
           /\ SetToSeq(keys) \in [1 .. Cardinality(keys) -> keys]
           /\ \A k \in keys : \E n \in 1 .. Cardinality(keys) : SetToSeq(keys)[n] = k
<1>1. IsFiniteSet(keys)
  BY VaultAssumption, FS_Subset
<1>2. Cardinality(keys) \in Nat /\ ExistsBijection(1 .. Cardinality(keys), keys)
  BY <1>1, FS_CardinalityType
<1>3. \E f \in [1 .. Cardinality(keys) -> keys] : IsInjective(f)
  BY <1>2 DEF ExistsBijection, Bijection, Injection
<1>4. /\ SetToSeq(keys) \in [1 .. Cardinality(keys) -> keys]
      /\ IsInjective(SetToSeq(keys))
  BY <1>3 DEF SetToSeq
<1>5. Cardinality(1 .. Cardinality(keys)) = Cardinality(keys)
  BY <1>2, FS_Interval
<1>6. SetToSeq(keys) \in Injection(1 .. Cardinality(keys), keys)
  BY <1>4 DEF Injection
<1>7. SetToSeq(keys) \in Surjection(1 .. Cardinality(keys), keys)
  BY <1>1, <1>5, <1>6, FS_Injection
<1> QED
  BY <1>2, <1>4, <1>7 DEF Surjection

\* What is to be removed of several keys: both files of each, and nothing else.
LEMMA RemovalOfFacts ==
    ASSUME NEW keys \in SUBSET Key
    PROVE  /\ RemovalOf(keys) \in Seq(Steps)
           /\ \A s \in Range(RemovalOf(keys)) : s.key \in keys /\ s.content = None
           /\ \A k \in keys : Step("meta", k, None) \in Range(RemovalOf(keys))
<1> DEFINE N == Cardinality(keys)
           at(n) == SetToSeq(keys)[(n + 1) \div 2]
           file(n) == IF n % 2 = 1 THEN 1 ELSE 2
<1>1. /\ N \in Nat /\ SetToSeq(keys) \in [1 .. N -> keys]
      /\ \A k \in keys : \E n \in 1 .. N : SetToSeq(keys)[n] = k
  BY KeyList
<1>2. RemovalOf(keys) = [n \in 1 .. 2 * N |-> Removal(at(n))[file(n)]]
  BY DEF RemovalOf
<1>3. ASSUME NEW n \in 1 .. 2 * N
      PROVE  at(n) \in keys
  <2>1. (n + 1) \div 2 \in 1 .. N
    BY <1>1
  <2> QED
    BY <1>1, <2>1
<1> HIDE DEF N, at
<1>4. ASSUME NEW n \in 1 .. 2 * N
      PROVE  /\ RemovalOf(keys)[n] \in Steps
             /\ RemovalOf(keys)[n].key \in keys /\ RemovalOf(keys)[n].content = None
  <2>1. at(n) \in keys /\ at(n) \in Key
    BY <1>3
  <2>2. RemovalOf(keys)[n] = Step("blob", at(n), None) \/ RemovalOf(keys)[n] = Step("meta", at(n), None)
    BY <1>2, <2>1, RemovalFacts
  <2> QED
    BY <2>1, <2>2, StepFacts
<1>5. 2 * N \in Nat
  BY <1>1
<1>6. RemovalOf(keys) \in Seq(Steps) /\ DOMAIN RemovalOf(keys) = 1 .. 2 * N
  <2>1. RemovalOf(keys) \in [1 .. 2 * N -> Steps]
    BY <1>2, <1>4
  <2> HIDE DEF file
  <2> QED
    BY <1>5, <2>1, SeqDef
<1>7. ASSUME NEW k \in keys
      PROVE  Step("meta", k, None) \in Range(RemovalOf(keys))
  <2>1. PICK n \in 1 .. N : SetToSeq(keys)[n] = k
    BY <1>1
  <2>2. 2 * n \in 1 .. 2 * N /\ (2 * n + 1) \div 2 = n /\ (2 * n) % 2 # 1
    BY <1>1, <2>1
  <2>3. at(2 * n) = k /\ file(2 * n) = 2
    BY <2>1, <2>2 DEF at
  <2>4. RemovalOf(keys)[2 * n] = Step("meta", k, None)
    BY <1>2, <2>2, <2>3, RemovalFacts
  <2> QED
    BY <1>6, <2>2, <2>4 DEF Range
<1>8. \A s \in Range(RemovalOf(keys)) : s.key \in keys /\ s.content = None
  BY <1>4, <1>6 DEF Range
<1> QED
  BY <1>6, <1>7, <1>8

\* Metadata of a resource, and of one that was consumed.
Fresh(v) == [value |-> v, consumed |-> FALSE]

Tombstone(v) == [value |-> v, consumed |-> TRUE]

\* What Put still has to write of a durable resource, n steps before its end.
PutPlan(k, v, n) ==
    CASE n = 4 -> <<Step("blob", k, None), Step("blob", k, v),
                    Step("meta", k, None), Step("meta", k, Fresh(v))>>
      [] n = 3 -> <<Step("blob", k, v),
                    Step("meta", k, None), Step("meta", k, Fresh(v))>>
      [] n = 2 -> <<Step("meta", k, None), Step("meta", k, Fresh(v))>>
      [] n = 1 -> <<Step("meta", k, Fresh(v))>>
      [] OTHER -> <<>>

\* Metadata is well formed and not absent.
LEMMA MetaFacts ==
    ASSUME NEW v \in Value
    PROVE  /\ Fresh(v) \in Metas /\ Fresh(v) # None
           /\ Fresh(v).value = v /\ ~Fresh(v).consumed
           /\ Tombstone(v) \in Metas /\ Tombstone(v) # None
           /\ Tombstone(v).value = v /\ Tombstone(v).consumed
<1>1. Fresh(v) \in Metas /\ Tombstone(v) \in Metas
  BY DEF Fresh, Tombstone, Metas
<1> QED
  BY <1>1, AbsentAssumption DEF Fresh, Tombstone

\* The plan of Put step by step.
LEMMA PutPlanFacts ==
    ASSUME NEW k \in Key, NEW v \in Value
    PROVE  /\ \A n \in 0 .. 4 : PutPlan(k, v, n) \in Seq(Steps)
           /\ Writing("blob", k, v) \o Writing("meta", k, Fresh(v)) = PutPlan(k, v, 4)
           /\ PutPlan(k, v, 0) = <<>>
           /\ \A n \in 1 .. 4 : /\ PutPlan(k, v, n) # <<>>
                                /\ Tail(PutPlan(k, v, n)) = PutPlan(k, v, n - 1)
           /\ Head(PutPlan(k, v, 4)) = Step("blob", k, None)
           /\ Head(PutPlan(k, v, 3)) = Step("blob", k, v)
           /\ Head(PutPlan(k, v, 2)) = Step("meta", k, None)
           /\ Head(PutPlan(k, v, 1)) = Step("meta", k, Fresh(v))
<1> DEFINE a == Step("blob", k, None)
           b == Step("blob", k, v)
           c == Step("meta", k, None)
           d == Step("meta", k, Fresh(v))
<1>1. /\ PutPlan(k, v, 4) = <<a, b, c, d>> /\ PutPlan(k, v, 3) = <<b, c, d>>
      /\ PutPlan(k, v, 2) = <<c, d>> /\ PutPlan(k, v, 1) = <<d>> /\ PutPlan(k, v, 0) = <<>>
  <2> HIDE DEF a, b, c, d
  <2>1. PutPlan(k, v, 4) = <<a, b, c, d>>
    BY DEF PutPlan, a, b, c, d
  <2>2. PutPlan(k, v, 3) = <<b, c, d>>
    BY DEF PutPlan, a, b, c, d
  <2>3. PutPlan(k, v, 2) = <<c, d>>
    BY DEF PutPlan, a, b, c, d
  <2>4. PutPlan(k, v, 1) = <<d>>
    BY DEF PutPlan, a, b, c, d
  <2>5. PutPlan(k, v, 0) = <<>>
    BY DEF PutPlan, a, b, c, d
  <2> QED
    BY <2>1, <2>2, <2>3, <2>4, <2>5
<1>2. a \in Steps /\ b \in Steps /\ c \in Steps /\ d \in Steps
  BY MetaFacts, StepFacts
<1>3. Writing("blob", k, v) \o Writing("meta", k, Fresh(v)) = <<a, b>> \o <<c, d>>
  BY DEF Writing
<1> HIDE DEF a, b, c, d
<1>4. /\ <<a, b, c, d>> \in Seq(Steps) /\ <<b, c, d>> \in Seq(Steps)
      /\ <<c, d>> \in Seq(Steps) /\ <<d>> \in Seq(Steps) /\ <<>> \in Seq(Steps)
  BY <1>2
<1>5. /\ Tail(<<a, b, c, d>>) = <<b, c, d>> /\ Tail(<<b, c, d>>) = <<c, d>>
      /\ Tail(<<c, d>>) = <<d>> /\ Tail(<<d>>) = <<>>
  BY <1>2
<1>6. <<a, b>> \o <<c, d>> = <<a, b, c, d>>
  <2>1. /\ <<a, b>> \in Seq(Steps) /\ <<c, d>> \in Seq(Steps)
        /\ <<a, b, c, d>> \in Seq(Steps) /\ Len(<<a, b, c, d>>) = 4
        /\ Len(<<a, b>>) = 2 /\ Len(<<c, d>>) = 2
    BY <1>2
  <2> DEFINE p == <<a, b>>
             q == <<c, d>>
             r == <<a, b, c, d>>
  <2>2. r[1] = p[1] /\ r[2] = p[2] /\ r[3] = q[1] /\ r[4] = q[2]
    OBVIOUS
  <2> HIDE DEF p, q, r
  <2>3. p \in Seq(Steps) /\ q \in Seq(Steps) /\ r \in Seq(Steps) /\ Len(r) = 4 /\ Len(p) = 2 /\ Len(q) = 2
    BY <2>1 DEF p, q, r
  <2>4. /\ p \o q \in Seq(Steps) /\ Len(p \o q) = 4
        /\ \A i \in 1 .. 4 : (p \o q)[i] = IF i <= 2 THEN p[i] ELSE q[i - 2]
    <3>1. /\ p \o q \in Seq(Steps) /\ Len(p \o q) = Len(p) + Len(q)
          /\ \A i \in 1 .. Len(p) + Len(q) :
                (p \o q)[i] = IF i <= Len(p) THEN p[i] ELSE q[i - Len(p)]
      BY <2>3, ConcatProperties, Zenon
    <3> QED
      BY <2>3, <3>1
  <2>5. \A i \in 1 .. 4 : i = 1 \/ i = 2 \/ i = 3 \/ i = 4
    OBVIOUS
  <2>6. \A i \in 1 .. 4 : (p \o q)[i] = r[i]
    BY <2>2, <2>4, <2>5
  <2>7. p \o q = r
    BY <2>3, <2>4, <2>6, SeqEqual
  <2> QED
    BY <2>7 DEF p, q, r
<1>7. /\ <<a, b, c, d>> # <<>> /\ <<b, c, d>> # <<>> /\ <<c, d>> # <<>> /\ <<d>> # <<>>
      /\ Head(<<a, b, c, d>>) = a /\ Head(<<b, c, d>>) = b /\ Head(<<c, d>>) = c
      /\ Head(<<d>>) = d
  OBVIOUS
<1>8. \A n \in 0 .. 4 : PutPlan(k, v, n) \in Seq(Steps)
  <2>1. \A n \in 0 .. 4 : n = 0 \/ n = 1 \/ n = 2 \/ n = 3 \/ n = 4
    OBVIOUS
  <2> QED
    BY <1>1, <1>4, <2>1
<1>9. ASSUME NEW n \in 1 .. 4
      PROVE  PutPlan(k, v, n) # <<>> /\ Tail(PutPlan(k, v, n)) = PutPlan(k, v, n - 1)
  <2>1. CASE n = 1
    <3>1. n - 1 = 0
      BY <2>1
    <3> QED
      BY <1>1, <1>5, <1>7, <2>1, <3>1
  <2>2. CASE n = 2
    <3>1. n - 1 = 1
      BY <2>2
    <3> QED
      BY <1>1, <1>5, <1>7, <2>2, <3>1
  <2>3. CASE n = 3
    <3>1. n - 1 = 2
      BY <2>3
    <3> QED
      BY <1>1, <1>5, <1>7, <2>3, <3>1
  <2>4. CASE n = 4
    <3>1. n - 1 = 3
      BY <2>4
    <3> QED
      BY <1>1, <1>5, <1>7, <2>4, <3>1
  <2> QED
    BY <2>1, <2>2, <2>3, <2>4
<1>10. /\ Head(PutPlan(k, v, 4)) = a /\ Head(PutPlan(k, v, 3)) = b
       /\ Head(PutPlan(k, v, 2)) = c /\ Head(PutPlan(k, v, 1)) = d
  BY <1>1, <1>7
<1> QED
  BY <1>1, <1>3, <1>6, <1>8, <1>9, <1>10 DEF a, b, c, d

\* What the plan of Put is about: its key, its resource, and no more.
LEMMA PutPlanRange ==
    ASSUME NEW k \in Key, NEW v \in Value, NEW n \in 0 .. 4, NEW s \in Range(PutPlan(k, v, n))
    PROVE  /\ s.key = k
           /\ s.file = "blob" => s.content \in {None, v}
           /\ s.file = "meta" => s.content \in {None, Fresh(v)}
<1> DEFINE a == Step("blob", k, None)
           b == Step("blob", k, v)
           c == Step("meta", k, None)
           d == Step("meta", k, Fresh(v))
<1>1. s \in {a, b, c, d}
  <2>1. n = 0 \/ n = 1 \/ n = 2 \/ n = 3 \/ n = 4
    OBVIOUS
  <2> HIDE DEF a, b, c, d
  <2>2. PutPlan(k, v, n) \in {<<a, b, c, d>>, <<b, c, d>>, <<c, d>>, <<d>>, <<>>}
    BY <2>1 DEF PutPlan, a, b, c, d
  <2>3. \A p \in {<<a, b, c, d>>, <<b, c, d>>, <<c, d>>, <<d>>, <<>>} : Range(p) \subseteq {a, b, c, d}
    BY DEF Range
  <2> QED
    BY <2>2, <2>3
<1>2. /\ a.key = k /\ a.file = "blob" /\ a.content = None
      /\ b.key = k /\ b.file = "blob" /\ b.content = v
      /\ c.key = k /\ c.file = "meta" /\ c.content = None
      /\ d.key = k /\ d.file = "meta" /\ d.content = Fresh(v)
  BY StepFacts
<1> HIDE DEF a, b, c, d
<1> QED
  BY <1>1, <1>2

\* What Consume writes: a tombstone, and it removes the payload.
LEMMA ConsumePlan ==
    ASSUME NEW k \in Key, NEW m \in Metas
    PROVE  LET plan == Writing("meta", k, m) \o <<Step("blob", k, None)>>
           IN  /\ plan \in Seq(Steps)
               /\ Range(plan) = {Step("meta", k, None), Step("meta", k, m), Step("blob", k, None)}
<1> DEFINE a == Step("meta", k, None)
           b == Step("meta", k, m)
           c == Step("blob", k, None)
<1>1. a \in Steps /\ b \in Steps /\ c \in Steps
  BY StepFacts
<1>2. Writing("meta", k, m) = <<a, b>>
  BY DEF Writing
<1> HIDE DEF a, b, c
<1>3. /\ <<a, b>> \in Seq(Steps) /\ Range(<<a, b>>) = {a, b}
      /\ <<c>> \in Seq(Steps) /\ Range(<<c>>) = {c}
  <2>1. <<a, b>> \in Seq(Steps) /\ <<c>> \in Seq(Steps)
    BY <1>1
  <2>2. Range(<<a, b>>) = {a, b}
    BY DEF Range
  <2>3. Range(<<c>>) = {c}
    BY DEF Range
  <2> QED
    BY <2>1, <2>2, <2>3
<1>4. <<a, b>> \o <<c>> \in Seq(Steps) /\ Range(<<a, b>> \o <<c>>) = {a, b} \cup {c}
  <2>1. \A p, q \in Seq(Steps) : p \o q \in Seq(Steps) /\ Range(p \o q) = Range(p) \cup Range(q)
    BY ConcatRange
  <2> DEFINE p == <<a, b>>
             q == <<c>>
  <2> HIDE DEF p, q
  <2>2. p \o q \in Seq(Steps) /\ Range(p \o q) = Range(p) \cup Range(q)
    BY <1>3, <2>1 DEF p, q
  <2> QED
    BY <1>3, <2>2 DEF p, q
<1> QED
  BY <1>2, <1>4 DEF a, b, c

-----------------------------------------------------------------------------
(* Calls.                                                                  *)

\* What a call still has to do.
Left == IF job = None THEN {} ELSE Range(job.todo)

\* One step of a call: the first that is left, on its file.
Done(s) ==
    /\ s.file = "blob" => blob' = [blob EXCEPT ![s.key] = s.content] /\ UNCHANGED meta
    /\ s.file = "meta" => meta' = [meta EXCEPT ![s.key] = s.content] /\ UNCHANGED blob

\* The call that goes on is the same call.
SameCall ==
    /\ job' \in Jobs /\ job' # None
    /\ job'.call = job.call /\ job'.key = job.key /\ job'.value = job.value

\* A step that succeeds.
LEMMA DoStepFacts ==
    ASSUME TypeOK, DoStep
    PROVE  /\ job \in Jobs /\ job # None /\ job.todo # <<>>
           /\ SameCall /\ job'.ok = job.ok /\ job'.todo = Tail(job.todo)
           /\ Head(job.todo) \in Steps /\ Head(job.todo) \in Left
           /\ Left = {Head(job.todo)} \cup Left'
           /\ Done(Head(job.todo))
           /\ \/ job'.gone = job.gone /\ job'.loose = job.loose
              \/ /\ job.call = "cleanup" /\ Head(job.todo).file = "meta"
                 /\ job'.gone = job.gone \cup {Head(job.todo).key}
                 /\ job'.loose = job.loose \cup Decoded(Head(job.todo).key)
<1> DEFINE s == Head(job.todo)
           next == [job EXCEPT !.todo = Tail(job.todo)]
           more == [next EXCEPT !.gone = job.gone \cup {s.key},
                                !.loose = job.loose \cup Decoded(s.key)]
<1>1. job \in Jobs /\ job # None /\ job.todo # <<>> /\ job.todo \in Seq(Steps)
  BY DEF TypeOK, DoStep, Jobs
<1>2. /\ s \in Steps /\ Tail(job.todo) \in Seq(Steps)
      /\ Range(job.todo) = {s} \cup Range(Tail(job.todo))
  BY <1>1, TailRange
<1>3. Done(s)
  <2>1. IF s.file = "blob"
        THEN blob' = [blob EXCEPT ![s.key] = s.content] /\ UNCHANGED meta
        ELSE meta' = [meta EXCEPT ![s.key] = s.content] /\ UNCHANGED blob
    BY DEF DoStep
  <2> QED
    BY <2>1 DEF Done
<1>4. /\ next \in Jobs /\ next.call = job.call /\ next.key = job.key /\ next.value = job.value
      /\ next.ok = job.ok /\ next.todo = Tail(job.todo)
      /\ next.gone = job.gone /\ next.loose = job.loose
  BY <1>1, <1>2 DEF Jobs
<1>5. Decoded(s.key) \in SUBSET Value
  <2>1. s.key \in Key
    BY <1>2, StepTypes
  <2> QED
    BY <2>1 DEF Decoded, TypeOK, Metas
<1>6. /\ more \in Jobs /\ more.call = job.call /\ more.key = job.key /\ more.value = job.value
      /\ more.ok = job.ok /\ more.todo = Tail(job.todo)
      /\ more.gone = job.gone \cup {s.key} /\ more.loose = job.loose \cup Decoded(s.key)
  <2>1. job.gone \cup {s.key} \in SUBSET Key /\ job.loose \cup Decoded(s.key) \in SUBSET Value
    BY <1>1, <1>2, <1>5, StepTypes DEF Jobs
  <2> HIDE DEF next
  <2> DEFINE gone == job.gone \cup {s.key}
             loose == job.loose \cup Decoded(s.key)
  <2> HIDE DEF gone, loose
  <2>2. [next EXCEPT !.gone = gone, !.loose = loose] \in Jobs
    BY <1>4, <2>1 DEF Jobs, gone, loose
  <2> QED
    BY <1>4, <2>2 DEF Jobs, gone, loose
<1>7. \/ job' = next
      \/ job' = more /\ job.call = "cleanup" /\ s.file = "meta"
  BY DEF DoStep
<1>8. /\ SameCall /\ job'.ok = job.ok /\ job'.todo = Tail(job.todo)
      /\ \/ job'.gone = job.gone /\ job'.loose = job.loose
         \/ /\ job.call = "cleanup" /\ s.file = "meta"
            /\ job'.gone = job.gone \cup {s.key}
            /\ job'.loose = job.loose \cup Decoded(s.key)
  <2> HIDE DEF next, more, s
  <2> QED
    BY <1>4, <1>6, <1>7, AbsentAssumption DEF SameCall
<1>9. Left = {s} \cup Left' /\ s \in Left
  BY <1>1, <1>2, <1>8 DEF Left, SameCall
<1> QED
  BY <1>1, <1>2, <1>3, <1>8, <1>9

\* A step that fails: what is left is part of what was, or removes a file of the
\* same key.
LEMMA FailStepFacts ==
    ASSUME TypeOK, FailStep
    PROVE  /\ job \in Jobs /\ job # None /\ job.todo # <<>> /\ Head(job.todo) \in Steps
           /\ SameCall /\ job'.gone = job.gone /\ job'.loose = job.loose
           /\ job'.ok = (job.ok /\ job.call \in {"expire", "delete"})
           /\ job'.todo = Remainder(job) /\ Remainder(job) \in Seq(Steps)
           /\ UNCHANGED files /\ faults' = faults + 1
           /\ \A t \in Left' : t \in Left \/ (t.content = None /\ \E s \in Left : t.key = s.key)
           /\ job.call \in {"consume", "invalidate"} => Left' = {}
<1> DEFINE s == Head(job.todo)
<1>1. job \in Jobs /\ job # None /\ job.todo # <<>> /\ job.todo \in Seq(Steps)
  BY DEF TypeOK, FailStep, Jobs
<1>2. /\ s \in Steps /\ Tail(job.todo) \in Seq(Steps)
      /\ Range(job.todo) = {s} \cup Range(Tail(job.todo))
  BY <1>1, TailRange
<1>3. /\ s.key \in Key
      /\ Step("blob", s.key, None) \in Steps /\ Step("meta", s.key, None) \in Steps
      /\ \A file \in {"blob", "meta"} : /\ Step(file, s.key, None).key = s.key
                                        /\ Step(file, s.key, None).content = None
  BY <1>2, StepTypes, StepFacts
<1>4. /\ Remainder(job) \in {Tail(job.todo), <<>>, <<Step("blob", s.key, None)>>,
                            <<Step("meta", s.key, None)>>}
      /\ job.call \in {"consume", "invalidate"} => Remainder(job) = <<>>
  <2>1. Remainder(job) = CASE job.call \in {"expire", "delete"} -> Tail(job.todo)
          [] job.call = "put" /\ s.file = "meta" /\ job.value \notin Volatile ->
                <<Step("blob", s.key, None)>>
          [] (job.call = "cleanup" \/ (job.call = "put" /\ job.value \in Volatile)) /\ s.file = "blob" ->
                <<Step("meta", s.key, None)>>
          [] OTHER -> <<>>
    BY DEF Remainder
  <2> DEFINE q == Tail(job.todo)
             r == <<Step("blob", s.key, None)>>
             t == <<Step("meta", s.key, None)>>
  <2>2. Remainder(job) = CASE job.call \in {"expire", "delete"} -> q
          [] job.call = "put" /\ s.file = "meta" /\ job.value \notin Volatile -> r
          [] (job.call = "cleanup" \/ (job.call = "put" /\ job.value \in Volatile)) /\ s.file = "blob" -> t
          [] OTHER -> <<>>
    BY <2>1
  <2> HIDE DEF q, r, t, s
  <2>3. Remainder(job) \in {q, <<>>, r, t}
    BY <2>2
  <2>4. job.call \in {"consume", "invalidate"} => Remainder(job) = <<>>
    BY <2>2
  <2> QED
    BY <2>3, <2>4 DEF q, r, t, s
<1>5. /\ Remainder(job) \in Seq(Steps)
      /\ \/ Range(Remainder(job)) \subseteq Range(job.todo)
         \/ Range(Remainder(job)) = {Step("blob", s.key, None)}
         \/ Range(Remainder(job)) = {Step("meta", s.key, None)}
      /\ Remainder(job) = <<>> => Range(Remainder(job)) = {}
  <2>1. /\ <<>> \in Seq(Steps) /\ Range(<<>>) = {}
        /\ <<Step("blob", s.key, None)>> \in Seq(Steps) /\ <<Step("meta", s.key, None)>> \in Seq(Steps)
        /\ Range(<<Step("blob", s.key, None)>>) = {Step("blob", s.key, None)}
        /\ Range(<<Step("meta", s.key, None)>>) = {Step("meta", s.key, None)}
    <3>1. <<>> \in Seq(Steps) /\ Range(<<>>) = {}
      BY <1>3, ShortRange
    <3>2. \A a \in Steps : <<a>> \in Seq(Steps) /\ Range(<<a>>) = {a}
      BY ShortRange
    <3> QED
      BY <1>3, <3>1, <3>2
  <2> QED
    BY <1>2, <1>4, <2>1
<1>6. job' = [job EXCEPT !.todo = Remainder(job),
                         !.ok = job.ok /\ job.call \in {"expire", "delete"}]
  BY DEF FailStep
<1>7. /\ SameCall /\ job'.gone = job.gone /\ job'.loose = job.loose
      /\ job'.ok = (job.ok /\ job.call \in {"expire", "delete"})
      /\ job'.todo = Remainder(job)
  <2> DEFINE todo == Remainder(job)
             ok == job.ok /\ job.call \in {"expire", "delete"}
  <2>1. ok \in BOOLEAN /\ todo \in Seq(Steps)
    BY <1>5
  <2>2. job' = [job EXCEPT !.todo = todo, !.ok = ok]
    BY <1>6
  <2> HIDE DEF todo, ok
  <2>3. job' \in Jobs
    BY <1>1, <2>1, <2>2 DEF Jobs
  <2>4. /\ job'.call = job.call /\ job'.key = job.key /\ job'.value = job.value
        /\ job'.gone = job.gone /\ job'.loose = job.loose
        /\ job'.ok = ok /\ job'.todo = todo
    BY <1>1, <2>2 DEF Jobs
  <2> QED
    BY <2>3, <2>4, AbsentAssumption DEF SameCall, todo, ok
<1>8. Left = Range(job.todo) /\ Left' = Range(Remainder(job))
  BY <1>1, <1>7 DEF Left, SameCall
<1>9. UNCHANGED files /\ faults' = faults + 1
  BY DEF FailStep
<1>10. s \in Left
  BY <1>2, <1>8
<1>11. \A t \in Left' : t \in Left \/ (t.content = None /\ t.key = s.key)
  BY <1>3, <1>5, <1>8
<1>12. job.call \in {"consume", "invalidate"} => Left' = {}
  BY <1>4, <1>5, <1>8
<1> QED
  BY <1>1, <1>2, <1>5, <1>7, <1>9, <1>10, <1>11, <1>12

\* A call that begins.
Begun(call, k, v) ==
    /\ job = None /\ job' \in Jobs /\ job' # None
    /\ job'.call = call /\ job'.key = k /\ job'.value = v /\ job'.ok

\* A call begins with what it has to do.
LEMMA JobBegins ==
    ASSUME NEW call \in Calls, NEW k \in Key \cup {None}, NEW v \in Value \cup {None},
           NEW todo \in Seq(Steps), NEW gone \in SUBSET Key, NEW loose \in SUBSET Value,
           job = None, job' = Job(call, k, v, todo, gone, loose)
    PROVE  /\ Begun(call, k, v) /\ Left' = Range(todo)
           /\ job'.todo = todo /\ job'.gone = gone /\ job'.loose = loose
<1>1. job' \in Jobs
  BY DEF Job, Jobs
<1>2. /\ job'.call = call /\ job'.key = k /\ job'.value = v /\ job'.todo = todo /\ job'.ok
      /\ job'.gone = gone /\ job'.loose = loose
  BY DEF Job
<1>3. job' # None
  BY <1>1, AbsentAssumption
<1> QED
  BY <1>1, <1>2, <1>3 DEF Begun, Left

\* What the metadata of a key is.
LEMMA MetaTypes ==
    ASSUME TypeOK, NEW k \in Key
    PROVE  /\ blob[k] \in Value \cup {None} /\ entries[k] \in Value \cup {None}
           /\ meta[k] \in Metas \cup {None} /\ current[k] \in Value \cup {None}
           /\ meta[k] # None => /\ meta[k] \in Metas /\ meta[k].value \in Value
                                /\ meta[k].consumed \in BOOLEAN
           /\ Decoded(k) \in SUBSET Value
BY DEF TypeOK, Metas, Decoded

\* What Available returns: what the memory has, or else the files.
LEMMA AvailableFacts ==
    ASSUME TypeOK, NEW k \in Key
    PROVE  /\ Available(k) \in Value \cup {None}
           /\ Available(k) # None =>
                 /\ k \notin consumed /\ Available(k) \notin over
                 /\ \/ entries[k] = Available(k)
                    \/ /\ entries[k] = None /\ meta[k] # None /\ ~meta[k].consumed
                       /\ blob[k] = Available(k) /\ meta[k].value = Available(k)
<1>1. /\ entries[k] \in Value \cup {None}
      /\ meta[k] # None => meta[k].value \in Value
  BY MetaTypes
<1>2. CASE k \in consumed
  BY <1>2 DEF Available
<1>3. CASE k \notin consumed /\ entries[k] # None
  <2>1. Available(k) = IF entries[k] \in over THEN None ELSE entries[k]
    BY <1>3 DEF Available
  <2> QED
    BY <1>1, <1>3, <2>1
<1>4. CASE k \notin consumed /\ entries[k] = None
  <2>1. Available(k) = IF /\ meta[k] # None /\ ~meta[k].consumed
                          /\ meta[k].value \notin over /\ blob[k] = meta[k].value
                       THEN meta[k].value ELSE None
    BY <1>4 DEF Available
  <2> QED
    BY <1>1, <1>4, <2>1
<1> QED
  BY <1>2, <1>3, <1>4

\* Put begins.
LEMMA PutFacts ==
    ASSUME TypeOK, NEW k \in Key, NEW v \in Value, Put(k, v)
    PROVE  /\ Begun("put", k, v) /\ job'.gone = {} /\ job'.loose = {}
           /\ v \in Volatile => Left' = {Step("blob", k, None), Step("meta", k, None)}
           /\ v \notin Volatile => job'.todo = PutPlan(k, v, 4) /\ Left' = Range(PutPlan(k, v, 4))
<1> DEFINE todo == IF v \in Volatile THEN Removal(k)
                   ELSE Writing("blob", k, v) \o Writing("meta", k, Fresh(v))
<1>1. job = None /\ job' = Job("put", k, v, todo, {}, {})
  BY DEF Put, Fresh
<1>2. /\ v \in Volatile => todo = Removal(k)
      /\ v \notin Volatile => todo = PutPlan(k, v, 4)
  BY PutPlanFacts
<1> HIDE DEF todo
<1>3. todo \in Seq(Steps)
  BY <1>2, PutPlanFacts, RemovalFacts
<1>4. "put" \in Calls
  BY DEF Calls
<1>5. /\ Begun("put", k, v) /\ Left' = Range(todo)
      /\ job'.gone = {} /\ job'.loose = {} /\ job'.todo = todo
  BY <1>1, <1>3, <1>4, JobBegins
<1> QED
  BY <1>2, <1>5, RemovalFacts

\* Expire begins.
LEMMA ExpireFacts ==
    ASSUME TypeOK, NEW k \in Key, Expire(k)
    PROVE  /\ Begun("expire", k, None) /\ job'.gone = {} /\ job'.loose = {}
           /\ Left' = {Step("blob", k, None), Step("meta", k, None)}
<1>1. job = None /\ job' = Job("expire", k, None, Removal(k), {}, {})
  BY DEF Expire
<1>2. /\ "expire" \in Calls /\ Removal(k) \in Seq(Steps)
      /\ k \in Key \cup {None} /\ None \in Value \cup {None}
      /\ {} \in SUBSET Key /\ {} \in SUBSET Value
  BY RemovalFacts DEF Calls
<1>3. /\ Begun("expire", k, None) /\ Left' = Range(Removal(k))
      /\ job'.gone = {} /\ job'.loose = {}
  BY <1>1, <1>2, JobBegins
<1> QED
  BY <1>3, RemovalFacts

\* Consume begins.
LEMMA ConsumeFacts ==
    ASSUME TypeOK, NEW k \in Key, Consume(k)
    PROVE  /\ Available(k) \in Value /\ Begun("consume", k, Available(k))
           /\ job'.gone = {} /\ job'.loose = {}
           /\ IF meta[k] = None THEN Left' = {}
              ELSE /\ meta[k].value \in Value
                   /\ Left' = {Step("meta", k, None), Step("meta", k, Tombstone(meta[k].value)),
                               Step("blob", k, None)}
<1> DEFINE v == Available(k)
           m == Tombstone(meta[k].value)
           todo == IF meta[k] = None THEN <<>>
                   ELSE Writing("meta", k, m) \o <<Step("blob", k, None)>>
<1>1. /\ job = None /\ job' = Job("consume", k, v, todo, {}, {}) /\ v \in Value
      /\ meta[k] # None => meta[k].value \in Value
  BY AvailableFacts, MetaTypes DEF Consume, Tombstone
<1>2. meta[k] = None => todo = <<>> /\ Range(todo) = {}
  BY DEF Range
<1>3. meta[k] # None => todo = Writing("meta", k, m) \o <<Step("blob", k, None)>> /\ m \in Metas
  BY <1>1, MetaFacts
<1>4. meta[k] # None =>
         /\ todo \in Seq(Steps)
         /\ Range(todo) = {Step("meta", k, None), Step("meta", k, m), Step("blob", k, None)}
  BY <1>3, ConsumePlan
<1>5. todo \in Seq(Steps) /\ "consume" \in Calls
  BY <1>2, <1>4 DEF Calls
<1> HIDE DEF todo, v
<1>6. /\ Begun("consume", k, v) /\ Left' = Range(todo) /\ job'.gone = {} /\ job'.loose = {}
  BY <1>1, <1>5, JobBegins
<1> QED
  BY <1>1, <1>2, <1>4, <1>6 DEF v

\* Delete begins.
LEMMA DeleteFacts ==
    ASSUME TypeOK, NEW k \in Key, Delete(k)
    PROVE  /\ Begun("delete", k, None) /\ job'.gone = {} /\ job'.todo = Removal(k)
           /\ job'.loose = IF entries[k] # None THEN {entries[k]} ELSE Decoded(k)
           /\ Left' = {Step("blob", k, None), Step("meta", k, None)}
<1> DEFINE loose == IF entries[k] # None THEN {entries[k]} ELSE Decoded(k)
<1>1. job = None /\ job' = Job("delete", k, None, Removal(k), {}, loose)
  BY DEF Delete
<1>2. "delete" \in Calls /\ Removal(k) \in Seq(Steps) /\ loose \in SUBSET Value
  BY RemovalFacts, MetaTypes DEF Calls
<1> HIDE DEF loose
<1>3. /\ Begun("delete", k, None) /\ Left' = Range(Removal(k))
      /\ job'.gone = {} /\ job'.todo = Removal(k) /\ job'.loose = loose
  BY <1>1, <1>2, JobBegins
<1> QED
  BY <1>3, RemovalFacts DEF loose

\* Invalidate begins.
LEMMA InvalidateFacts ==
    ASSUME TypeOK, NEW preserved \in SUBSET Key, Invalidate(preserved)
    PROVE  /\ Begun("invalidate", None, None) /\ job'.gone = Key \ preserved
           /\ job'.loose = UNION {Decoded(k) : k \in {k \in Stored \ preserved : entries[k] = None}}
           /\ \A s \in Left' : s.key \in Stored \ preserved /\ s.content = None
           /\ \A k \in Stored \ preserved : Step("meta", k, None) \in Left'
<1> DEFINE keys == Stored \ preserved
           gone == Key \ preserved
           loose == UNION {Decoded(k) : k \in {k \in keys : entries[k] = None}}
<1>1. job = None /\ job' = Job("invalidate", None, None, RemovalOf(keys), gone, loose)
  BY DEF Invalidate
<1>2. /\ keys \in SUBSET Key /\ gone \in SUBSET Key /\ "invalidate" \in Calls
      /\ None \in Key \cup {None} /\ None \in Value \cup {None}
  BY DEF Stored, Calls
<1>3. loose \in SUBSET Value
  BY <1>2, MetaTypes
<1> HIDE DEF keys, gone, loose
<1>4. /\ RemovalOf(keys) \in Seq(Steps)
      /\ \A s \in Range(RemovalOf(keys)) : s.key \in keys /\ s.content = None
      /\ \A k \in keys : Step("meta", k, None) \in Range(RemovalOf(keys))
  BY <1>2, RemovalOfFacts
<1>5. /\ Begun("invalidate", None, None) /\ Left' = Range(RemovalOf(keys))
      /\ job'.gone = gone /\ job'.loose = loose
  BY <1>1, <1>2, <1>3, <1>4, JobBegins
<1> QED
  BY <1>4, <1>5 DEF keys, gone, loose

\* CleanupExpired begins, or stops at a payload that does not match.
LEMMA CleanupFacts ==
    ASSUME TypeOK, CleanupExpired
    PROVE  \/ /\ Begun("cleanup", None, None) /\ job'.gone = {} /\ job'.loose = {}
              /\ \A s \in Left' : s.key \in Cleanable /\ s.content = None
              /\ UNCHANGED blocked
           \/ job = None /\ UNCHANGED job
<1>1. CASE job' = Job("cleanup", None, None, RemovalOf(Cleanable), {}, {}) /\ UNCHANGED blocked
  <2>1. /\ job = None /\ Cleanable \in SUBSET Key /\ "cleanup" \in Calls
        /\ None \in Key \cup {None} /\ None \in Value \cup {None}
        /\ {} \in SUBSET Key /\ {} \in SUBSET Value
    BY DEF CleanupExpired, Cleanable, Stored, Calls
  <2>2. /\ RemovalOf(Cleanable) \in Seq(Steps)
        /\ \A s \in Range(RemovalOf(Cleanable)) : s.key \in Cleanable /\ s.content = None
    BY <2>1, RemovalOfFacts
  <2>3. /\ Begun("cleanup", None, None) /\ Left' = Range(RemovalOf(Cleanable))
        /\ job'.gone = {} /\ job'.loose = {}
    <3> DEFINE todo == RemovalOf(Cleanable)
    <3>1. todo \in Seq(Steps) /\ job' = Job("cleanup", None, None, todo, {}, {})
      BY <1>1, <2>2
    <3> HIDE DEF todo
    <3>2. /\ Begun("cleanup", None, None) /\ Left' = Range(todo)
          /\ job'.gone = {} /\ job'.loose = {}
      BY <2>1, <3>1, JobBegins
    <3> QED
      BY <3>2 DEF todo
  <2> QED
    BY <1>1, <2>2, <2>3
<1>2. CASE UNCHANGED job
  BY <1>2 DEF CleanupExpired
<1> QED
  BY <1>1, <1>2 DEF CleanupExpired

-----------------------------------------------------------------------------
(* The invariant.                                                          *)

\* The metadata of k is about v.
About(k, v) == meta[k] # None /\ meta[k].value = v

\* A step that writes metadata about v.
Writes(s, v) == s.file = "meta" /\ s.content # None /\ s.content.value = v

\* The keys that a call may change.
Busy == IF job = None THEN {} ELSE {s.key : s \in Left} \cup {job.key} \cup job.gone

\* Key k holds resource v: in memory, in its files, or in what the call will
\* write.
Holds(k, v) ==
    \/ entries[k] = v \/ blob[k] = v \/ About(k, v)
    \/ job # None /\ job.key = k /\ job.value = v
    \/ \E s \in Left : s.key = k /\ (Writes(s, v) \/ (s.file = "blob" /\ s.content = v))

\* A resource has one key.
OnePlace == \A v \in Value : \A k, l \in Key : Holds(k, v) /\ Holds(l, v) => k = l

\* A resource that cannot be encoded has no metadata.
VolatileOK == \A v \in Volatile :
    (\A k \in Key : ~About(k, v)) /\ (\A s \in Left : ~Writes(s, v))

\* Memory does not hold v, and no call will put it there or in metadata that is
\* no tombstone.
Unstored(v) ==
    /\ \A k \in Key : entries[k] # v
    /\ \A s \in Left : Writes(s, v) => s.content.consumed
    /\ job # None => job.value # v

\* What was consumed has left memory, and its metadata is a tombstone.
SpentOK == \A v \in spent :
    Unstored(v) /\ \A k \in Key : About(k, v) => meta[k].consumed

\* The two files of a key can no longer bring v back.
Lost(v) ==
    /\ \A s \in Left : s.file = "blob" => s.content # v
    /\ \A k \in Key : ~(blob[k] = v /\ About(k, v) /\ ~meta[k].consumed)

\* What was released has expired, or has left memory and the files.  Two file
\* operations of one Delete may fail, and then it stays.
ReleasedOK == MaxFaults <= 1 => \A v \in released \ over : Unstored(v) /\ Lost(v)

\* A resource that was put and has not expired.
Kept(k) == current[k] # None /\ current[k] \notin over

\* It is where it can be found, and no call is about it.
KeptOK == \A k \in Key : Kept(k) =>
    /\ k \notin Busy /\ k \notin consumed
    /\ entries[k] \in {None, current[k]}
    /\ current[k] \in Volatile => entries[k] = current[k] /\ meta[k] = None
    /\ current[k] \notin Volatile => blob[k] = current[k] /\ meta[k] = Fresh(current[k])

StateInv == OnePlace /\ VolatileOK /\ SpentOK /\ ReleasedOK /\ KeptOK /\ faults <= MaxFaults

\* What a call is about.
CallOK == job # None =>
    /\ IF job.call \in {"put", "consume"} THEN job.value \in Value
       ELSE job.value = None /\ \A s \in Left : s.content = None
    /\ job.call \notin {"invalidate", "cleanup"} =>
          job.key \in Key /\ \A s \in Left : s.key = job.key

\* How far Put has come.
PutOK == job # None /\ job.call = "put" =>
    /\ job.value \in Volatile =>
          /\ \A s \in Left : s.content = None
          /\ job.ok => meta[job.key] = None \/ Step("meta", job.key, None) \in Left
    /\ job.value \notin Volatile /\ job.ok =>
          \E n \in 0 .. 4 :
             /\ job.todo = PutPlan(job.key, job.value, n)
             /\ n <= 2 => blob[job.key] = job.value
             /\ n = 0 => meta[job.key] = Fresh(job.value)

\* Consume leaves no metadata but a tombstone, unless it fails.
ConsumeOK == job # None /\ job.call = "consume" =>
    /\ \A s \in Left : s.file = "meta" /\ s.content # None => s.content.consumed
    /\ job.ok => \/ meta[job.key] = None \/ meta[job.key].consumed
                 \/ \E s \in Left : s.file = "meta"

\* Delete leaves one of the two files only after two errors.
DeleteOK == job # None /\ job.call = "delete" =>
    \/ job.todo = Removal(job.key)
    \/ job.todo = <<Step("meta", job.key, None)>> /\ (blob[job.key] = None \/ faults >= 1)
    \/ job.todo = <<>> /\ (blob[job.key] = None \/ meta[job.key] = None \/ faults >= 2)

\* Invalidate removes all metadata of the keys it is about, unless it fails.
InvalidateOK == job # None /\ job.call = "invalidate" /\ job.ok =>
    \A k \in job.gone : meta[k] = None \/ Step("meta", k, None) \in Left

\* CleanupExpired removes what has expired and tombstones.
CleanupOK == job # None /\ job.call = "cleanup" =>
    \A s \in Left : meta[s.key] = None \/ meta[s.key].consumed \/ meta[s.key].value \in over

\* What a call will release has expired, or its metadata is of a key that the
\* call removes.
LooseOK == job # None => \A v \in job.loose \ over :
    /\ Unstored(v)
    /\ job.call \in {"delete", "invalidate"}
    /\ \A k \in Key : About(k, v) => IF job.call = "delete" THEN k = job.key ELSE k \in job.gone

CallInv == /\ CallOK /\ PutOK /\ ConsumeOK /\ DeleteOK /\ InvalidateOK
           /\ CleanupOK /\ LooseOK

Inv == TypeOK /\ StateInv /\ CallInv

-----------------------------------------------------------------------------
(* Types.                                                                  *)

\* A step of a call keeps the files well formed.
LEMMA DoneType ==
    ASSUME TypeOK, NEW s \in Steps, Done(s)
    PROVE  /\ blob' \in [Key -> Value \cup {None}]
           /\ meta' \in [Key -> Metas \cup {None}]
<1>1. CASE s.file = "blob"
  BY <1>1, StepTypes DEF Done, TypeOK
<1>2. CASE s.file = "meta"
  BY <1>2, StepTypes DEF Done, TypeOK
<1> QED
  BY <1>1, <1>2, StepTypes

\* Return clears the call, and does what its kind of call does at its end.
LEMMA ReturnFacts ==
    ASSUME TypeOK, Return
    PROVE  /\ job \in Jobs /\ job # None /\ job.todo = <<>> /\ Left = {}
           /\ job' = None /\ UNCHANGED <<files, limits>>
           /\ job.call = "put" /\ job.ok =>
                 /\ entries' = [entries EXCEPT ![job.key] = job.value]
                 /\ consumed' = consumed \ {job.key}
                 /\ current' = [current EXCEPT ![job.key] = job.value]
                 /\ UNCHANGED <<spent, released>>
           /\ job.call = "consume" /\ job.ok =>
                 /\ entries' = [entries EXCEPT ![job.key] = None]
                 /\ consumed' = consumed \cup {job.key}
                 /\ spent' = spent \cup {job.value}
                 /\ UNCHANGED <<current, released>>
           /\ job.call = "delete" =>
                 /\ released' = released \cup job.loose
                 /\ UNCHANGED <<memory, current, spent>>
           /\ job.call = "invalidate" /\ job.ok =>
                 /\ released' = released \cup job.loose
                                   \cup ({entries[k] : k \in job.gone} \ {None})
                 /\ entries' = [k \in Key |-> IF k \in job.gone THEN None ELSE entries[k]]
                 /\ consumed' = consumed \ job.gone
                 /\ UNCHANGED <<current, spent>>
           /\ job.call = "cleanup" =>
                 /\ released' = released \cup job.loose \cup {entries[k] : k \in Dropped}
                 /\ entries' = [k \in Key |-> IF k \in Dropped THEN None ELSE entries[k]]
                 /\ consumed' = consumed \ (job.gone \cup Dropped)
                 /\ UNCHANGED <<current, spent>>
           /\ \/ job.call = "expire"
              \/ job.call \in {"put", "consume", "invalidate"} /\ ~job.ok
              => UNCHANGED <<memory, history>>
<1>1. job \in Jobs /\ job # None /\ job.todo = <<>> /\ job' = None /\ UNCHANGED <<files, limits>>
  BY DEF Return, TypeOK
<1>2. Left = {}
  BY <1>1 DEF Left, Range
<1>3. job.call = "put" /\ job.ok =>
                 /\ entries' = [entries EXCEPT ![job.key] = job.value]
                 /\ consumed' = consumed \ {job.key}
                 /\ current' = [current EXCEPT ![job.key] = job.value]
                 /\ UNCHANGED <<spent, released>>
  BY DEF Return
<1>4. job.call = "consume" /\ job.ok =>
                 /\ entries' = [entries EXCEPT ![job.key] = None]
                 /\ consumed' = consumed \cup {job.key}
                 /\ spent' = spent \cup {job.value}
                 /\ UNCHANGED <<current, released>>
  BY DEF Return
<1>5. job.call = "delete" =>
                 /\ released' = released \cup job.loose
                 /\ UNCHANGED <<memory, current, spent>>
  BY DEF Return
<1>6. job.call = "invalidate" /\ job.ok =>
                 /\ released' = released \cup job.loose
                                   \cup ({entries[k] : k \in job.gone} \ {None})
                 /\ entries' = [k \in Key |-> IF k \in job.gone THEN None ELSE entries[k]]
                 /\ consumed' = consumed \ job.gone
                 /\ UNCHANGED <<current, spent>>
  BY DEF Return
<1>7. job.call = "cleanup" =>
                 /\ released' = released \cup job.loose \cup {entries[k] : k \in Dropped}
                 /\ entries' = [k \in Key |-> IF k \in Dropped THEN None ELSE entries[k]]
                 /\ consumed' = consumed \ (job.gone \cup Dropped)
                 /\ UNCHANGED <<current, spent>>
  BY DEF Return
<1>8. \/ job.call = "expire"
      \/ job.call \in {"put", "consume", "invalidate"} /\ ~job.ok
      => UNCHANGED <<memory, history>>
  BY DEF Return
<1> QED
  BY <1>1, <1>2, <1>3, <1>4, <1>5, <1>6, <1>7, <1>8

\* Entries that CleanupExpired drops are expired.
LEMMA DroppedFacts ==
    ASSUME TypeOK
    PROVE  /\ Dropped \in SUBSET Key
           /\ \A k \in Dropped : entries[k] \in over
BY DEF Dropped

\* The end of a call keeps the types.
LEMMA ReturnType ==
    ASSUME TypeOK, CallOK, Return
    PROVE  TypeOK'
<1>1. /\ job \in Jobs /\ job' = None /\ UNCHANGED <<files, limits>>
      /\ job.key \in Key \cup {None} /\ job.value \in Value \cup {None}
      /\ job.gone \in SUBSET Key /\ job.loose \in SUBSET Value /\ job.call \in Calls
  BY ReturnFacts DEF Jobs
<1>2. UNCHANGED <<memory, history>> => TypeOK'
  BY <1>1 DEF TypeOK, memory, history, files, limits
<1>3. CASE job.call = "put" /\ job.ok
  <2>1. /\ entries' = [entries EXCEPT ![job.key] = job.value]
        /\ consumed' = consumed \ {job.key}
        /\ current' = [current EXCEPT ![job.key] = job.value]
        /\ UNCHANGED <<spent, released>>
    BY <1>3, ReturnFacts
  <2> QED
    BY <1>1, <2>1 DEF TypeOK, files, limits
<1>4. CASE job.call = "consume" /\ job.ok
  <2>1. /\ entries' = [entries EXCEPT ![job.key] = None]
        /\ consumed' = consumed \cup {job.key}
        /\ spent' = spent \cup {job.value}
        /\ UNCHANGED <<current, released>>
    BY <1>4, ReturnFacts
  <2>2. job.key \in Key /\ job.value \in Value
    BY <1>1, <1>4, ReturnFacts DEF CallOK
  <2> QED
    BY <1>1, <2>1, <2>2 DEF TypeOK, files, limits
<1>5. CASE job.call = "delete"
  <2>1. /\ released' = released \cup job.loose
        /\ UNCHANGED <<memory, current, spent>>
    BY <1>5, ReturnFacts
  <2> QED
    BY <1>1, <2>1 DEF TypeOK, memory, files, limits
<1>6. CASE job.call = "invalidate" /\ job.ok
  <2>1. /\ released' = released \cup job.loose
                          \cup ({entries[k] : k \in job.gone} \ {None})
        /\ entries' = [k \in Key |-> IF k \in job.gone THEN None ELSE entries[k]]
        /\ consumed' = consumed \ job.gone
        /\ UNCHANGED <<current, spent>>
    BY <1>6, ReturnFacts
  <2> QED
    BY <1>1, <2>1 DEF TypeOK, files, limits
<1>7. CASE job.call = "cleanup"
  <2>1. /\ released' = released \cup job.loose \cup {entries[k] : k \in Dropped}
        /\ entries' = [k \in Key |-> IF k \in Dropped THEN None ELSE entries[k]]
        /\ consumed' = consumed \ (job.gone \cup Dropped)
        /\ UNCHANGED <<current, spent>>
    BY <1>7, ReturnFacts
  <2>2. {entries[k] : k \in Dropped} \in SUBSET Value
    BY DroppedFacts DEF TypeOK
  <2> QED
    BY <1>1, <2>1, <2>2 DEF TypeOK, files, limits
<1> QED
  BY <1>1, <1>2, <1>3, <1>4, <1>5, <1>6, <1>7, ReturnFacts DEF Calls

\* Every step keeps the types.
LEMMA TypePreserved ==
    ASSUME TypeOK, CallOK, [Next]_vars
    PROVE  TypeOK'
<1>1. ASSUME NEW k \in Key, NEW v \in Value, Put(k, v)
      PROVE  TypeOK'
  <2>1. job' \in Jobs
    BY <1>1, PutFacts DEF Begun
  <2> QED
    BY <1>1, <2>1 DEF Put, Forget, TypeOK, files, memory, limits
<1>2. ASSUME NEW k \in Key, Load(k)
      PROVE  TypeOK'
  <2>1. Available(k) \in Value \cup {None}
    BY AvailableFacts
  <2> QED
    BY <1>2, <2>1 DEF Load, TypeOK, files, limits, history
<1>3. ASSUME NEW k \in Key, Expire(k)
      PROVE  TypeOK'
  <2>1. job' \in Jobs
    BY <1>3, ExpireFacts DEF Begun
  <2>2. released' \in SUBSET Value
    BY <1>3, MetaTypes DEF Expire, TypeOK
  <2> QED
    BY <1>3, <2>1, <2>2 DEF Expire, TypeOK, files, limits
<1>4. ASSUME NEW k \in Key, Consume(k)
      PROVE  TypeOK'
  <2>1. job' \in Jobs /\ Available(k) \in Value
    BY <1>4, ConsumeFacts DEF Begun
  <2> QED
    BY <1>4, <2>1 DEF Consume, Forget, TypeOK, files, limits
<1>5. ASSUME NEW k \in Key, Delete(k)
      PROVE  TypeOK'
  <2>1. job' \in Jobs
    BY <1>5, DeleteFacts DEF Begun
  <2> QED
    BY <1>5, <2>1 DEF Delete, Forget, TypeOK, files, limits
<1>6. ASSUME NEW preserved \in SUBSET Key, Invalidate(preserved)
      PROVE  TypeOK'
  <2>1. job' \in Jobs
    BY <1>6, InvalidateFacts DEF Begun
  <2>2. /\ Forget(Key \ preserved)
        /\ UNCHANGED <<files, memory, limits, spent, released>>
    BY <1>6 DEF Invalidate
  <2> QED
    BY <2>1, <2>2 DEF Forget, TypeOK, files, memory, limits
<1>7. ASSUME CleanupExpired
      PROVE  TypeOK'
  <2>1. job' \in Jobs \cup {None}
    BY <1>7, CleanupFacts DEF Begun
  <2>2. blocked' \in BOOLEAN
    BY <1>7 DEF CleanupExpired, TypeOK
  <2> QED
    BY <1>7, <2>1, <2>2 DEF CleanupExpired, TypeOK, files, memory, history
<1>8. ASSUME DoStep
      PROVE  TypeOK'
  <2>1. /\ job' \in Jobs
        /\ blob' \in [Key -> Value \cup {None}] /\ meta' \in [Key -> Metas \cup {None}]
    BY <1>8, DoStepFacts, DoneType DEF SameCall
  <2>2. UNCHANGED <<memory, limits, history>>
    BY <1>8 DEF DoStep
  <2> QED
    BY <2>1, <2>2 DEF TypeOK, memory, limits, history
<1>9. ASSUME FailStep
      PROVE  TypeOK'
  <2>1. job' \in Jobs /\ UNCHANGED files /\ faults' = faults + 1
    BY <1>9, FailStepFacts DEF SameCall
  <2>2. UNCHANGED <<memory, over, blocked, crashes, history>>
    BY <1>9 DEF FailStep
  <2> QED
    BY <2>1, <2>2 DEF TypeOK, files, memory, history
<1>10. ASSUME NEW v \in Value, Pass(v)
       PROVE  TypeOK'
  BY <1>10 DEF Pass, TypeOK, files, memory, history
<1>11. ASSUME Crash
       PROVE  TypeOK'
  BY <1>11 DEF Crash, Empty, TypeOK, files
<1>12. ASSUME InvalidateAll
       PROVE  TypeOK'
  <2>1. Volatile \subseteq Value
    BY VaultAssumption
  <2> QED
    BY <1>12, <2>1 DEF InvalidateAll, Empty, TypeOK, files, limits
<1>13. ASSUME UNCHANGED vars
       PROVE  TypeOK'
  BY <1>13 DEF vars, TypeOK, files, memory, limits, history
<1> QED
  BY <1>1, <1>2, <1>3, <1>4, <1>5, <1>6, <1>7, <1>8, <1>9, <1>10, <1>11, <1>12, <1>13, ReturnType
     DEF Next

-----------------------------------------------------------------------------
(* Steps that bring nothing new.                                           *)

\* A call that is not there has nothing left to do.
LEMMA IdleFacts ==
    /\ job = None => Left = {} /\ Busy = {} /\ CallInv
    /\ job' = None => Left' = {} /\ Busy' = {} /\ CallInv'
<1>1. /\ job = None => Left = {} /\ Busy = {}
      /\ job' = None => Left' = {} /\ Busy' = {}
  BY DEF Left, Busy
<1>2. job = None => CallInv
  BY DEF CallInv, CallOK, PutOK, ConsumeOK, DeleteOK, InvalidateOK, CleanupOK, LooseOK
<1>3. job' = None => CallInv'
  BY DEF CallInv, CallOK, PutOK, ConsumeOK, DeleteOK, InvalidateOK, CleanupOK, LooseOK
<1> QED
  BY <1>1, <1>2, <1>3

\* What a call still has to do are steps.
LEMMA LeftType ==
    ASSUME TypeOK, NEW s \in Left
    PROVE  s \in Steps
<1>1. job \in Jobs /\ s \in Range(job.todo)
  BY DEF TypeOK, Left
<1>2. job.todo \in Seq(Steps)
  BY <1>1 DEF Jobs
<1>3. Range(job.todo) = {job.todo[i] : i \in 1 .. Len(job.todo)}
  BY <1>2, RangeEquality
<1> QED
  BY <1>1, <1>2, <1>3

\* What Get returns was neither consumed nor released.
LEMMA AvailableSafe ==
    ASSUME TypeOK, StateInv, NEW k \in Key, Available(k) # None
    PROVE  /\ Available(k) \in Value \ (spent \cup over)
           /\ MaxFaults <= 1 => Available(k) \notin released
           /\ Holds(k, Available(k))
<1> DEFINE v == Available(k)
<1>1. /\ v \in Value /\ v \notin over
      /\ entries[k] = v \/ (About(k, v) /\ ~meta[k].consumed /\ blob[k] = v)
  BY AvailableFacts DEF About
<1> HIDE DEF v
<1>2. v \notin spent
  BY <1>1 DEF StateInv, SpentOK, Unstored
<1>3. MaxFaults <= 1 => v \notin released
  BY <1>1 DEF StateInv, ReleasedOK, Unstored, Lost
<1>4. Holds(k, v)
  BY <1>1 DEF Holds
<1> QED
  BY <1>1, <1>2, <1>3, <1>4 DEF v

\* A step of the program that leaves the files alone, loads no more than what
\* Get returns, writes no more than tombstones, and releases no more than what
\* has expired.
LEMMA Quiet ==
    ASSUME TypeOK, TypeOK', StateInv, UNCHANGED files,
           \A k \in Key : entries'[k] \in {entries[k], None, Available(k)},
           \A s \in Left' : \/ s \in Left \/ s.content = None
                            \/ /\ s.file = "meta" /\ s.key \in Key /\ meta[s.key] # None
                               /\ s.content = Tombstone(meta[s.key].value),
           \/ job' = None \/ job'.value = None
           \/ job # None /\ job'.value = job.value /\ job'.key = job.key
           \/ job'.key \in Key /\ job'.value = Available(job'.key),
           spent' = spent, over \subseteq over', released' \subseteq released \cup over'
    PROVE  OnePlace' /\ VolatileOK' /\ SpentOK' /\ ReleasedOK'
<1>1. /\ blob' = blob /\ meta' = meta
      /\ \A k, v : About(k, v)' <=> About(k, v)
  BY DEF files, About
<1>2. /\ None \notin Value /\ Volatile \subseteq Value
      /\ spent \subseteq Value /\ released \subseteq Value /\ released' \subseteq Value
  BY VaultAssumption DEF TypeOK
<1>3. ASSUME NEW s \in Left', NEW v \in Value, Writes(s, v)
      PROVE  s \in Left \/ (s.key \in Key /\ About(s.key, v) /\ s.content.consumed)
  <2>1. CASE s.content = None
    BY <1>3, <2>1 DEF Writes
  <2>2. CASE /\ s.file = "meta" /\ s.key \in Key /\ meta[s.key] # None
             /\ s.content = Tombstone(meta[s.key].value)
    <3>1. meta[s.key].value \in Value
      BY <2>2, MetaTypes
    <3>2. s.content.value = meta[s.key].value /\ s.content.consumed
      BY <2>2, <3>1, MetaFacts
    <3> QED
      BY <1>3, <2>2, <3>2 DEF Writes, About
  <2> QED
    BY <2>1, <2>2
<1>4. ASSUME NEW s \in Left', NEW v \in Value, s.file = "blob", s.content = v
      PROVE  s \in Left
  BY <1>2, <1>4
<1>5. ASSUME NEW k \in Key, NEW v \in Value, Holds(k, v)'
      PROVE  Holds(k, v)
  <2>1. CASE entries'[k] = v
    BY <1>2, <2>1, AvailableSafe DEF Holds
  <2>2. CASE blob'[k] = v \/ About(k, v)'
    BY <1>1, <2>2 DEF Holds
  <2>3. CASE job' # None /\ job'.key = k /\ job'.value = v
    <3>1. \/ job # None /\ job.key = k /\ job.value = v
          \/ v = Available(k)
      BY <1>2, <2>3
    <3> QED
      BY <1>2, <3>1, AvailableSafe DEF Holds
  <2>4. CASE \E s \in Left' : s.key = k /\ (Writes(s, v) \/ (s.file = "blob" /\ s.content = v))
    BY <1>3, <1>4, <2>4 DEF Holds
  <2> QED
    BY <1>5, <2>1, <2>2, <2>3, <2>4 DEF Holds
<1>6. OnePlace'
  BY <1>5 DEF OnePlace, StateInv
<1>7. VolatileOK'
  <2>1. \A v \in Volatile : (\A k \in Key : ~About(k, v)) /\ (\A s \in Left : ~Writes(s, v))
    BY DEF StateInv, VolatileOK
  <2>2. \A v \in Volatile : (\A k \in Key : ~About(k, v)') /\ (\A s \in Left' : ~Writes(s, v))
    BY <1>1, <1>2, <1>3, <2>1
  <2> QED
    BY <2>2 DEF VolatileOK, Writes
<1>8. ASSUME NEW v \in Value, Unstored(v), v \in spent \/ (MaxFaults <= 1 /\ v \in released)
      PROVE  Unstored(v)'
  <2>1. \A k \in Key : Available(k) # v
    BY <1>2, <1>8, AvailableSafe
  <2>2. \A k \in Key : entries'[k] # v
    BY <1>2, <1>8, <2>1 DEF Unstored
  <2>3. \A s \in Left' : Writes(s, v) => s.content.consumed
    BY <1>3, <1>8 DEF Unstored
  <2>4. job' # None => job'.value # v
    BY <1>2, <1>8, <2>1 DEF Unstored
  <2> QED
    BY <2>2, <2>3, <2>4 DEF Unstored, Writes
<1>9. SpentOK'
  <2>1. ASSUME NEW v \in spent
        PROVE  Unstored(v)' /\ \A k \in Key : About(k, v)' => meta'[k].consumed
    BY <1>1, <1>2, <1>8 DEF StateInv, SpentOK
  <2> QED
    BY <2>1 DEF SpentOK
<1>10. ReleasedOK'
  <2>1. ASSUME MaxFaults <= 1, NEW v \in released \ over
        PROVE  Unstored(v)' /\ Lost(v)'
    <3>1. Unstored(v) /\ Lost(v)
      BY <2>1 DEF StateInv, ReleasedOK
    <3>2. Unstored(v)'
      BY <1>2, <1>8, <2>1, <3>1
    <3>3. Lost(v)'
      BY <1>1, <1>2, <1>4, <3>1 DEF Lost
    <3> QED
      BY <3>2, <3>3
  <2>2. released' \ over' \subseteq released \ over
    OBVIOUS
  <2> QED
    BY <2>1, <2>2 DEF ReleasedOK
<1> QED
  BY <1>6, <1>7, <1>9, <1>10

\* What was kept stays where it is, and no call begins about it.
LEMMA QuietKept ==
    ASSUME TypeOK, StateInv, UNCHANGED files, over \subseteq over',
           \A k \in Key : current'[k] \in {None, current[k]},
           \A k \in Key : Kept(k) /\ current'[k] = current[k] =>
              /\ k \notin Busy' /\ k \notin consumed'
              /\ \/ entries'[k] \in {entries[k], current[k]}
                 \/ entries'[k] = None /\ current[k] \notin Volatile
    PROVE  KeptOK'
<1> SUFFICES ASSUME NEW k \in Key, Kept(k)'
             PROVE  /\ k \notin Busy' /\ k \notin consumed'
                    /\ entries'[k] \in {None, current'[k]}
                    /\ current'[k] \in Volatile => entries'[k] = current'[k] /\ meta'[k] = None
                    /\ current'[k] \notin Volatile =>
                          blob'[k] = current'[k] /\ meta'[k] = Fresh(current'[k])
  BY DEF KeptOK, Fresh
<1>1. current'[k] = current[k] /\ Kept(k) /\ blob' = blob /\ meta' = meta
  BY DEF Kept, files
<1>2. /\ entries[k] \in {None, current[k]}
      /\ current[k] \in Volatile => entries[k] = current[k] /\ meta[k] = None
      /\ current[k] \notin Volatile => blob[k] = current[k] /\ meta[k] = Fresh(current[k])
  BY <1>1 DEF StateInv, KeptOK
<1>3. /\ k \notin Busy' /\ k \notin consumed'
      /\ \/ entries'[k] \in {entries[k], current[k]}
         \/ entries'[k] = None /\ current[k] \notin Volatile
  BY <1>1
<1> QED
  BY <1>1, <1>2, <1>3

\* A resource that is kept is found.
LEMMA KeptFound ==
    ASSUME TypeOK, StateInv, NEW k \in Key, Kept(k)
    PROVE  /\ Available(k) = current[k] /\ current[k] \in Value
           /\ meta[k] = None \/ (~meta[k].consumed /\ meta[k].value \notin over)
           /\ entries[k] \notin over
<1>1. /\ current[k] \in Value /\ current[k] \notin over /\ None \notin Value /\ None \notin over
  BY MetaTypes, VaultAssumption DEF Kept, TypeOK
<1>2. /\ k \notin consumed /\ entries[k] \in {None, current[k]}
      /\ current[k] \in Volatile => entries[k] = current[k] /\ meta[k] = None
      /\ current[k] \notin Volatile => blob[k] = current[k] /\ meta[k] = Fresh(current[k])
  BY DEF StateInv, KeptOK
<1>3. Fresh(current[k]).value = current[k] /\ ~Fresh(current[k]).consumed /\ Fresh(current[k]) # None
  BY <1>1, MetaFacts
<1>4. Available(k) = current[k]
  <2>1. CASE entries[k] # None
    BY <1>1, <1>2, <2>1 DEF Available
  <2>2. CASE entries[k] = None
    <3>1. blob[k] = current[k] /\ meta[k] = Fresh(current[k])
      BY <1>1, <1>2, <2>2
    <3>2. /\ meta[k] # None /\ ~meta[k].consumed
          /\ meta[k].value \notin over /\ blob[k] = meta[k].value /\ meta[k].value = current[k]
      BY <1>1, <1>3, <3>1
    <3> QED
      BY <1>2, <2>2, <3>2 DEF Available
  <2> QED
    BY <2>1, <2>2
<1> QED
  BY <1>1, <1>2, <1>3, <1>4

-----------------------------------------------------------------------------
(* Calls that begin, the clock and the process keep StateInv.              *)

\* Put begins: its resource was nowhere.
LEMMA PutState ==
    ASSUME TypeOK, TypeOK', StateInv, NEW k \in Key, NEW v \in Value, Put(k, v)
    PROVE  StateInv'
<1>1. /\ Begun("put", k, v) /\ job'.gone = {}
      /\ v \in Volatile => Left' = {Step("blob", k, None), Step("meta", k, None)}
      /\ v \notin Volatile => Left' = Range(PutPlan(k, v, 4))
  BY PutFacts
<1>2. /\ v \notin Used \cup spent \cup released \cup over
      /\ current' = [l \in Key |-> IF l = k THEN None ELSE current[l]]
      /\ blob' = blob /\ meta' = meta /\ entries' = entries /\ consumed' = consumed
      /\ over' = over /\ faults' = faults /\ spent' = spent /\ released' = released
  BY DEF Put, Forget, files, memory, limits
<1>3. job = None /\ Left = {} /\ job' # None /\ job'.key = k /\ job'.value = v
  BY <1>1, IdleFacts DEF Begun
<1>4. /\ None \notin Value /\ Volatile \subseteq Value
      /\ spent \subseteq Value /\ released \subseteq Value
  BY VaultAssumption DEF TypeOK
<1>5. ASSUME NEW s \in Left'
      PROVE  /\ s.key = k
             /\ s.file = "blob" => s.content \in {None, v}
             /\ s.file = "meta" => s.content \in {None, Fresh(v)}
             /\ v \in Volatile => s.content = None
  <2>1. CASE v \in Volatile
    BY <1>1, <2>1, StepFacts
  <2>2. CASE v \notin Volatile
    <3>1. s \in Range(PutPlan(k, v, 4)) /\ 4 \in 0 .. 4
      BY <1>1, <2>2
    <3> QED
      BY <2>2, <3>1, PutPlanRange
  <2> QED
    BY <2>1, <2>2
<1>6. ASSUME NEW s \in Left', NEW w \in Value, Writes(s, w)
      PROVE  w = v /\ v \notin Volatile
  BY <1>5, <1>6, MetaFacts DEF Writes
<1>7. \A l \in Key : ~Holds(l, v)
  BY <1>2, <1>3 DEF Holds, About, Used
<1>8. ASSUME NEW l \in Key, NEW w \in Value, Holds(l, w)'
      PROVE  Holds(l, w) \/ (w = v /\ l = k)
  <2>1. CASE entries'[l] = w \/ blob'[l] = w \/ About(l, w)'
    BY <1>2, <2>1 DEF Holds, About
  <2>2. CASE job' # None /\ job'.key = l /\ job'.value = w
    BY <1>3, <2>2
  <2>3. CASE \E s \in Left' : s.key = l /\ (Writes(s, w) \/ (s.file = "blob" /\ s.content = w))
    BY <1>4, <1>5, <1>6, <2>3
  <2> QED
    BY <1>8, <2>1, <2>2, <2>3 DEF Holds
<1>9. OnePlace'
  BY <1>7, <1>8 DEF OnePlace, StateInv
<1>10. VolatileOK'
  BY <1>2, <1>4, <1>6 DEF VolatileOK, StateInv, About, Writes
<1>11. ASSUME NEW w \in Value, w # v, Unstored(w)
       PROVE  Unstored(w)'
  BY <1>2, <1>3, <1>6, <1>11 DEF Unstored, Writes
<1>12. SpentOK'
  <2>1. \A w \in spent : Unstored(w) /\ \A l \in Key : About(l, w) => meta[l].consumed
    BY DEF StateInv, SpentOK
  <2>2. \A w \in spent : Unstored(w)' /\ \A l \in Key : About(l, w)' => meta'[l].consumed
    BY <1>2, <1>4, <1>11, <2>1 DEF About
  <2> QED
    BY <1>2, <2>2 DEF SpentOK
<1>13. ReleasedOK'
  <2>1. ASSUME MaxFaults <= 1, NEW w \in released \ over
        PROVE  Unstored(w)' /\ Lost(w)'
    <3>1. Unstored(w) /\ Lost(w) /\ w # v /\ w \in Value
      BY <1>2, <1>4, <2>1 DEF StateInv, ReleasedOK
    <3>2. Lost(w)'
      BY <1>2, <1>4, <1>5, <3>1 DEF Lost, About
    <3> QED
      BY <1>11, <3>1, <3>2
  <2> QED
    BY <1>2, <2>1 DEF ReleasedOK
<1>14. KeptOK'
  <2>1. Busy' = {s.key : s \in Left'} \cup {k}
    BY <1>1, <1>3 DEF Busy
  <2>2. \A l \in Busy' : l = k
    BY <1>5, <2>1
  <2>3. \A l \in Key : /\ current'[l] \in {None, current[l]}
                       /\ Kept(l) /\ current'[l] = current[l] => l # k /\ l \notin consumed'
    BY <1>2 DEF StateInv, KeptOK, Kept
  <2> QED
    BY <1>2, <2>2, <2>3, QuietKept DEF files
<1> QED
  BY <1>2, <1>9, <1>10, <1>12, <1>13, <1>14 DEF StateInv

\* Get loads what it returns, or notes a tombstone.
LEMMA LoadState ==
    ASSUME TypeOK, TypeOK', StateInv, NEW k \in Key, Load(k)
    PROVE  StateInv'
<1>1. /\ job = None /\ UNCHANGED <<files, job, limits, history>>
      /\ \/ entries' = [entries EXCEPT ![k] = Available(k)] /\ UNCHANGED consumed
            /\ Available(k) # None
         \/ meta[k] # None /\ meta[k].consumed /\ consumed' = consumed \cup {k} /\ UNCHANGED entries
  BY DEF Load
<1>2. /\ job' = None /\ Left' = {} /\ Busy' = {}
  BY <1>1, IdleFacts
<1>3. /\ UNCHANGED files /\ over' = over /\ faults' = faults /\ current' = current
      /\ spent' = spent /\ released' = released
  BY <1>1 DEF limits, history
<1>4. \A l \in Key : entries'[l] \in {entries[l], None, Available(l)}
  BY <1>1 DEF TypeOK
<1>5. OnePlace' /\ VolatileOK' /\ SpentOK' /\ ReleasedOK'
  BY <1>2, <1>3, <1>4, Quiet
<1>6. ASSUME NEW l \in Key, Kept(l)
      PROVE  l \notin consumed' /\ entries'[l] \in {entries[l], current[l]}
  <2>1. l \notin consumed /\ Available(l) = current[l] /\ (meta[l] = None \/ ~meta[l].consumed)
    BY <1>6, KeptFound DEF StateInv, KeptOK
  <2> QED
    BY <1>1, <2>1 DEF TypeOK
<1>7. KeptOK'
  BY <1>2, <1>3, <1>6, QuietKept
<1> QED
  BY <1>3, <1>5, <1>7 DEF StateInv

\* Get of an expired resource: no other is released or removed.
LEMMA ExpireState ==
    ASSUME TypeOK, TypeOK', StateInv, NEW k \in Key, Expire(k)
    PROVE  StateInv'
<1>1. /\ Begun("expire", k, None) /\ job'.gone = {}
      /\ Left' = {Step("blob", k, None), Step("meta", k, None)}
  BY ExpireFacts
<1>2. /\ UNCHANGED files /\ consumed' = consumed /\ over' = over /\ faults' = faults
      /\ current' = current /\ spent' = spent
      /\ entries' = [entries EXCEPT ![k] = None]
  BY DEF Expire, limits
<1>3. /\ released' \subseteq released \cup over'
      /\ entries[k] \in over \/ (meta[k] # None /\ ~meta[k].consumed /\ meta[k].value \in over)
  BY <1>2 DEF Expire
<1>4. job' # None /\ job'.key = k /\ job'.value = None
  BY <1>1 DEF Begun
<1>5. /\ \A l \in Key : entries'[l] \in {entries[l], None, Available(l)}
      /\ \A s \in Left' : s.content = None /\ s.key = k
  BY <1>1, <1>2, StepFacts DEF TypeOK
<1>6. OnePlace' /\ VolatileOK' /\ SpentOK' /\ ReleasedOK'
  BY <1>2, <1>3, <1>4, <1>5, Quiet
<1>7. ~Kept(k)
  BY <1>3, KeptFound
<1>8. \A l \in Busy' : l = k
  BY <1>1, <1>4, <1>5 DEF Busy
<1>9. KeptOK'
  BY <1>2, <1>7, <1>8, QuietKept DEF StateInv, KeptOK, TypeOK
<1> QED
  BY <1>2, <1>6, <1>9 DEF StateInv

\* Consume begins.
LEMMA ConsumeState ==
    ASSUME TypeOK, TypeOK', StateInv, NEW k \in Key, Consume(k)
    PROVE  StateInv'
<1>1. /\ Begun("consume", k, Available(k)) /\ job'.gone = {}
      /\ IF meta[k] = None THEN Left' = {}
         ELSE Left' = {Step("meta", k, None), Step("meta", k, Tombstone(meta[k].value)),
                       Step("blob", k, None)}
  BY ConsumeFacts
<1>2. /\ UNCHANGED files /\ consumed' = consumed /\ over' = over /\ faults' = faults
      /\ spent' = spent /\ released' = released
      /\ entries' = [entries EXCEPT ![k] = Available(k)]
      /\ current' = [l \in Key |-> IF l = k THEN None ELSE current[l]]
  BY DEF Consume, Forget, limits
<1>3. job' # None /\ job'.key = k /\ job'.value = Available(k)
  BY <1>1 DEF Begun
<1>4. \A s \in Left' : /\ s.key = k
                       /\ \/ s.content = None
                          \/ /\ s.file = "meta" /\ meta[s.key] # None
                             /\ s.content = Tombstone(meta[s.key].value)
  BY <1>1, StepFacts
<1>5. \A l \in Key : entries'[l] \in {entries[l], None, Available(l)}
  BY <1>2 DEF TypeOK
<1>6. OnePlace' /\ VolatileOK' /\ SpentOK' /\ ReleasedOK'
  BY <1>2, <1>3, <1>4, <1>5, Quiet
<1>7. \A l \in Busy' : l = k
  BY <1>1, <1>3, <1>4 DEF Busy
<1>8. KeptOK'
  <2>1. \A l \in Key : /\ current'[l] \in {None, current[l]}
                       /\ Kept(l) /\ current'[l] = current[l] => l # k /\ l \notin consumed'
    BY <1>2 DEF StateInv, KeptOK, Kept
  <2> QED
    BY <1>2, <1>7, <2>1, QuietKept DEF TypeOK
<1> QED
  BY <1>2, <1>6, <1>8 DEF StateInv

\* Delete begins.
LEMMA DeleteState ==
    ASSUME TypeOK, TypeOK', StateInv, NEW k \in Key, Delete(k)
    PROVE  StateInv'
<1>1. /\ Begun("delete", k, None) /\ job'.gone = {}
      /\ Left' = {Step("blob", k, None), Step("meta", k, None)}
  BY DeleteFacts
<1>2. /\ UNCHANGED files /\ consumed' = consumed \ {k} /\ over' = over /\ faults' = faults
      /\ spent' = spent /\ released' = released
      /\ entries' = [entries EXCEPT ![k] = None]
      /\ current' = [l \in Key |-> IF l = k THEN None ELSE current[l]]
  BY DEF Delete, Forget, limits
<1>3. job' # None /\ job'.key = k /\ job'.value = None
  BY <1>1 DEF Begun
<1>4. /\ \A l \in Key : entries'[l] \in {entries[l], None, Available(l)}
      /\ \A s \in Left' : s.content = None /\ s.key = k
  BY <1>1, <1>2, StepFacts DEF TypeOK
<1>5. OnePlace' /\ VolatileOK' /\ SpentOK' /\ ReleasedOK'
  BY <1>2, <1>3, <1>4, Quiet
<1>6. \A l \in Busy' : l = k
  BY <1>1, <1>3, <1>4 DEF Busy
<1>7. KeptOK'
  <2>1. \A l \in Key : /\ current'[l] \in {None, current[l]}
                       /\ Kept(l) /\ current'[l] = current[l] => l # k /\ l \notin consumed'
    BY <1>2 DEF StateInv, KeptOK, Kept
  <2> QED
    BY <1>2, <1>6, <2>1, QuietKept DEF TypeOK
<1> QED
  BY <1>2, <1>5, <1>7 DEF StateInv

\* Invalidate begins.
LEMMA InvalidateState ==
    ASSUME TypeOK, TypeOK', StateInv, NEW preserved \in SUBSET Key, Invalidate(preserved)
    PROVE  StateInv'
<1>1. /\ Begun("invalidate", None, None) /\ job'.gone = Key \ preserved
      /\ \A s \in Left' : s.key \in Stored \ preserved /\ s.content = None
  BY InvalidateFacts
<1>2. /\ UNCHANGED files /\ entries' = entries /\ consumed' = consumed /\ over' = over
      /\ faults' = faults /\ spent' = spent /\ released' = released
      /\ current' = [l \in Key |-> IF l \in Key \ preserved THEN None ELSE current[l]]
  BY DEF Invalidate, Forget, limits, memory
<1>3. job' # None /\ job'.key = None /\ job'.value = None
  BY <1>1 DEF Begun
<1>4. OnePlace' /\ VolatileOK' /\ SpentOK' /\ ReleasedOK'
  BY <1>1, <1>2, <1>3, Quiet
<1>5. \A l \in Busy' : l = None \/ l \notin preserved
  BY <1>1, <1>3 DEF Busy
<1>6. KeptOK'
  <2>1. \A l \in Key : /\ current'[l] \in {None, current[l]}
                       /\ Kept(l) /\ current'[l] = current[l] =>
                             l # None /\ l \in preserved /\ l \notin consumed'
    BY <1>2, VaultAssumption DEF StateInv, KeptOK, Kept
  <2> QED
    BY <1>2, <1>5, <2>1, QuietKept
<1> QED
  BY <1>2, <1>4, <1>6 DEF StateInv

\* CleanupExpired begins: it is about nothing that is kept.
LEMMA CleanupState ==
    ASSUME TypeOK, TypeOK', StateInv, CleanupExpired
    PROVE  StateInv'
<1>1. /\ UNCHANGED files /\ entries' = entries /\ consumed' = consumed /\ over' = over
      /\ faults' = faults /\ spent' = spent /\ released' = released /\ current' = current
  BY DEF CleanupExpired, memory, history
<1>2. /\ job' = None \/ (job'.key = None /\ job'.value = None /\ job'.gone = {})
      /\ \A s \in Left' : s.key \in Cleanable /\ s.content = None
  <2>1. CASE /\ Begun("cleanup", None, None) /\ job'.gone = {}
             /\ \A s \in Left' : s.key \in Cleanable /\ s.content = None
    BY <2>1 DEF Begun
  <2>2. CASE job = None /\ UNCHANGED job
    BY <2>2, IdleFacts
  <2> QED
    BY <2>1, <2>2, CleanupFacts
<1>3. OnePlace' /\ VolatileOK' /\ SpentOK' /\ ReleasedOK'
  BY <1>1, <1>2, Quiet
<1>4. \A l \in Busy' : l = None \/ l \in Cleanable
  BY <1>2 DEF Busy
<1>5. KeptOK'
  <2>1. \A l \in Key : Kept(l) => l # None /\ l \notin Cleanable /\ l \notin consumed
    BY KeptFound, VaultAssumption DEF StateInv, KeptOK, Cleanable, Stored
  <2> QED
    BY <1>1, <1>4, <2>1, QuietKept
<1> QED
  BY <1>1, <1>3, <1>5 DEF StateInv

\* A resource expires.
LEMMA PassState ==
    ASSUME TypeOK, TypeOK', StateInv, NEW v \in Value, Pass(v)
    PROVE  StateInv'
<1>1. /\ UNCHANGED files /\ entries' = entries /\ consumed' = consumed /\ over' = over \cup {v}
      /\ faults' = faults /\ spent' = spent /\ released' = released /\ current' = current
      /\ job' = None
  BY DEF Pass, memory, history
<1>2. Left' = {} /\ Busy' = {}
  BY <1>1, IdleFacts
<1>3. OnePlace' /\ VolatileOK' /\ SpentOK' /\ ReleasedOK'
  BY <1>1, <1>2, Quiet
<1>4. KeptOK'
  BY <1>1, <1>2, QuietKept DEF StateInv, KeptOK
<1> QED
  BY <1>1, <1>3, <1>4 DEF StateInv

\* The process ends, and another begins with empty memory.
LEMMA CrashState ==
    ASSUME TypeOK, TypeOK', StateInv, Crash
    PROVE  StateInv'
<1>1. /\ UNCHANGED files /\ entries' = Empty /\ consumed' = {} /\ over' = over
      /\ faults' = faults /\ spent' = spent /\ released' = released /\ job' = None
      /\ current' = [k \in Key |-> IF current[k] \in Volatile THEN None ELSE current[k]]
  BY DEF Crash
<1>2. Left' = {} /\ Busy' = {}
  BY <1>1, IdleFacts
<1>3. \A k \in Key : entries'[k] = None
  BY <1>1 DEF Empty
<1>4. OnePlace' /\ VolatileOK' /\ SpentOK' /\ ReleasedOK'
  BY <1>1, <1>2, <1>3, Quiet
<1>5. KeptOK'
  <2>1. \A k \in Key : /\ current'[k] \in {None, current[k]}
                       /\ Kept(k) /\ current'[k] = current[k] => current[k] \notin Volatile
    BY <1>1 DEF Kept
  <2> QED
    BY <1>1, <1>2, <1>3, <2>1, QuietKept
<1> QED
  BY <1>1, <1>4, <1>5 DEF StateInv

\* InvalidateAll releases volatile resources: they have no metadata, and are in
\* one place of memory, which it clears.
LEMMA InvalidateAllState ==
    ASSUME TypeOK, TypeOK', StateInv, InvalidateAll
    PROVE  StateInv'
<1>1. /\ UNCHANGED files /\ entries' = Empty /\ consumed' = {} /\ over' = over
      /\ faults' = faults /\ spent' = spent /\ job' = None /\ job = None
      /\ released' = released \cup ({entries[k] : k \in Key} \cap Volatile)
      /\ current' = [k \in Key |-> IF current[k] \in Volatile THEN None ELSE current[k]]
  BY DEF InvalidateAll, limits
<1>2. Left' = {} /\ Busy' = {}
  BY <1>1, IdleFacts
<1>3. \A k \in Key : entries'[k] = None
  BY <1>1 DEF Empty
<1>4. blob' = blob /\ meta' = meta /\ \A k, v : About(k, v)' <=> About(k, v)
  BY <1>1 DEF files, About
<1>5. None \notin Value /\ Volatile \subseteq Value /\ spent \subseteq Value
  BY VaultAssumption DEF TypeOK
<1>6. \A k \in Key, v \in Value : Holds(k, v)' => Holds(k, v)
  BY <1>1, <1>2, <1>3, <1>4, <1>5 DEF Holds
<1>7. OnePlace'
  BY <1>6 DEF OnePlace, StateInv
<1>8. VolatileOK'
  BY <1>2, <1>4 DEF VolatileOK, StateInv
<1>9. \A v \in Value : Unstored(v)'
  BY <1>1, <1>2, <1>3, <1>5 DEF Unstored
<1>10. SpentOK'
  <2>1. \A v \in spent : \A k \in Key : About(k, v)' => meta'[k].consumed
    BY <1>4 DEF StateInv, SpentOK
  <2> QED
    BY <1>1, <1>5, <1>9, <2>1 DEF SpentOK
<1>11. ReleasedOK'
  <2>1. ASSUME MaxFaults <= 1, NEW v \in released' \ over
        PROVE  Lost(v)'
    <3>1. CASE v \in released
      BY <1>2, <1>4, <2>1, <3>1 DEF StateInv, ReleasedOK, Lost
    <3>2. CASE v \in Volatile
      BY <1>2, <1>4, <3>2 DEF StateInv, VolatileOK, Lost
    <3> QED
      BY <1>1, <3>1, <3>2
  <2>2. released' \subseteq Value
    BY DEF TypeOK
  <2> QED
    BY <1>1, <1>9, <2>1, <2>2 DEF ReleasedOK
<1>12. KeptOK'
  <2>1. \A k \in Key : /\ current'[k] \in {None, current[k]}
                       /\ Kept(k) /\ current'[k] = current[k] => current[k] \notin Volatile
    BY <1>1 DEF Kept
  <2> QED
    BY <1>1, <1>2, <1>3, <2>1, QuietKept
<1> QED
  BY <1>1, <1>7, <1>8, <1>10, <1>11, <1>12 DEF StateInv

-----------------------------------------------------------------------------
(* The progress of a call keeps StateInv.                                  *)

\* A file operation: what it writes was what the call held.
LEMMA DoStepState ==
    ASSUME TypeOK, TypeOK', StateInv, DoStep
    PROVE  StateInv'
<1> DEFINE s == Head(job.todo)
<1>1. /\ job # None /\ job' # None /\ job'.key = job.key /\ job'.value = job.value
      /\ s \in Steps /\ s \in Left /\ Left = {s} \cup Left' /\ Done(s)
      /\ job'.gone \subseteq job.gone \cup {s.key}
  BY DoStepFacts DEF SameCall
<1>2. /\ entries' = entries /\ consumed' = consumed /\ over' = over /\ faults' = faults
      /\ current' = current /\ spent' = spent /\ released' = released
  BY DEF DoStep, memory, limits, history
<1>3. /\ None \notin Value /\ Volatile \subseteq Value
      /\ spent \subseteq Value /\ released \subseteq Value
  BY VaultAssumption DEF TypeOK
<1> HIDE DEF s
<1>4. /\ s.key \in Key
      /\ \/ /\ s.file = "blob" /\ meta' = meta
            /\ blob'[s.key] = s.content /\ \A l \in Key : l # s.key => blob'[l] = blob[l]
         \/ /\ s.file = "meta" /\ blob' = blob
            /\ meta'[s.key] = s.content /\ \A l \in Key : l # s.key => meta'[l] = meta[l]
  BY <1>1, StepTypes DEF Done, TypeOK
<1>5. ASSUME NEW k \in Key, NEW v \in Value, About(k, v)'
      PROVE  \/ About(k, v) /\ meta'[k] = meta[k]
             \/ s.file = "meta" /\ s.key = k /\ Writes(s, v) /\ meta'[k] = s.content
  BY <1>4, <1>5 DEF About, Writes
<1>6. ASSUME NEW k \in Key, NEW v \in Value, Holds(k, v)'
      PROVE  Holds(k, v)
  <2>1. CASE entries'[k] = v \/ (job' # None /\ job'.key = k /\ job'.value = v)
    BY <1>1, <1>2, <2>1 DEF Holds
  <2>2. CASE blob'[k] = v
    BY <1>1, <1>4, <2>2 DEF Holds
  <2>3. CASE About(k, v)'
    BY <1>1, <1>5, <2>3 DEF Holds
  <2>4. CASE \E t \in Left' : t.key = k /\ (Writes(t, v) \/ (t.file = "blob" /\ t.content = v))
    BY <1>1, <2>4 DEF Holds
  <2> QED
    BY <1>6, <2>1, <2>2, <2>3, <2>4 DEF Holds
<1>7. OnePlace'
  BY <1>6 DEF OnePlace, StateInv
<1>8. VolatileOK'
  <2>1. \A v \in Volatile : (\A k \in Key : ~About(k, v)) /\ (\A t \in Left : ~Writes(t, v))
    BY DEF StateInv, VolatileOK
  <2>2. \A v \in Volatile : (\A k \in Key : ~About(k, v)') /\ (\A t \in Left' : ~Writes(t, v))
    BY <1>1, <1>3, <1>5, <2>1
  <2> QED
    BY <2>2 DEF VolatileOK, Writes
<1>9. ASSUME NEW v \in Value, Unstored(v)
      PROVE  Unstored(v)'
  BY <1>1, <1>2, <1>9 DEF Unstored, Writes
<1>10. SpentOK'
  <2>1. ASSUME NEW v \in spent
        PROVE  Unstored(v)' /\ \A k \in Key : About(k, v)' => meta'[k].consumed
    <3>1. Unstored(v) /\ \A k \in Key : About(k, v) => meta[k].consumed
      BY DEF StateInv, SpentOK
    <3>2. Writes(s, v) => s.content.consumed
      BY <1>1, <3>1 DEF Unstored
    <3> QED
      BY <1>3, <1>5, <1>9, <3>1, <3>2
  <2> QED
    BY <1>2, <2>1 DEF SpentOK
<1>11. ReleasedOK'
  <2>1. ASSUME MaxFaults <= 1, NEW v \in released \ over
        PROVE  Unstored(v)' /\ Lost(v)'
    <3>1. Unstored(v) /\ Lost(v)
      BY <2>1 DEF StateInv, ReleasedOK
    <3>2. /\ Writes(s, v) => s.content.consumed
          /\ s.file = "blob" => s.content # v
      BY <1>1, <3>1 DEF Unstored, Lost
    <3>3. \A t \in Left' : t.file = "blob" => t.content # v
      BY <1>1, <3>1 DEF Lost
    <3>4. ASSUME NEW k \in Key, blob'[k] = v, About(k, v)', ~meta'[k].consumed
          PROVE  FALSE
      <4>1. About(k, v) /\ meta'[k] = meta[k]
        BY <1>3, <1>5, <3>2, <3>4
      <4>2. blob[k] = v
        BY <1>4, <3>2, <3>4
      <4> QED
        BY <3>1, <3>4, <4>1, <4>2 DEF Lost
    <3> QED
      BY <1>3, <1>9, <3>1, <3>3, <3>4 DEF Lost
  <2> QED
    BY <1>2, <2>1 DEF ReleasedOK
<1>12. KeptOK'
  <2>1. Busy' \subseteq Busy /\ s.key \in Busy
    BY <1>1 DEF Busy
  <2> SUFFICES ASSUME NEW k \in Key, Kept(k)'
               PROVE  /\ k \notin Busy' /\ k \notin consumed'
                      /\ entries'[k] \in {None, current'[k]}
                      /\ current'[k] \in Volatile => entries'[k] = current'[k] /\ meta'[k] = None
                      /\ current'[k] \notin Volatile =>
                            blob'[k] = current'[k] /\ meta'[k] = Fresh(current'[k])
    BY DEF KeptOK, Fresh
  <2>2. /\ k \notin Busy /\ k \notin consumed
        /\ entries[k] \in {None, current[k]}
        /\ current[k] \in Volatile => entries[k] = current[k] /\ meta[k] = None
        /\ current[k] \notin Volatile => blob[k] = current[k] /\ meta[k] = Fresh(current[k])
    BY <1>2 DEF StateInv, KeptOK, Kept
  <2>3. blob'[k] = blob[k] /\ meta'[k] = meta[k]
    BY <1>4, <2>1, <2>2
  <2> QED
    BY <1>2, <2>1, <2>2, <2>3
<1> QED
  BY <1>2, <1>7, <1>8, <1>10, <1>11, <1>12 DEF StateInv

\* A file operation that fails: what is left only removes.
LEMMA FailStepState ==
    ASSUME TypeOK, TypeOK', StateInv, FailStep
    PROVE  StateInv'
<1>1. /\ job # None /\ job' # None /\ job'.key = job.key /\ job'.value = job.value
      /\ job'.gone = job.gone /\ UNCHANGED files /\ faults' = faults + 1
      /\ \A t \in Left' : t \in Left \/ (t.content = None /\ \E s \in Left : t.key = s.key)
  BY FailStepFacts DEF SameCall
<1>2. /\ entries' = entries /\ consumed' = consumed /\ over' = over /\ faults < MaxFaults
      /\ current' = current /\ spent' = spent /\ released' = released
  BY DEF FailStep, memory, history
<1>3. OnePlace' /\ VolatileOK' /\ SpentOK' /\ ReleasedOK'
  BY <1>1, <1>2, Quiet
<1>4. Busy' \subseteq Busy
  BY <1>1 DEF Busy
<1>5. KeptOK'
  BY <1>1, <1>2, <1>4, QuietKept DEF StateInv, KeptOK
<1>6. faults' <= MaxFaults
  BY <1>1, <1>2, VaultAssumption DEF TypeOK
<1> QED
  BY <1>3, <1>5, <1>6 DEF StateInv

\* Put that succeeds: its resource is kept.
LEMMA PutEnds ==
    ASSUME TypeOK, TypeOK', StateInv, CallInv, Return, job.call = "put", job.ok
    PROVE  StateInv'
<1>1. /\ job # None /\ job.todo = <<>> /\ Left = {} /\ job' = None
      /\ UNCHANGED files /\ over' = over /\ faults' = faults
      /\ entries' = [entries EXCEPT ![job.key] = job.value]
      /\ consumed' = consumed \ {job.key}
      /\ current' = [current EXCEPT ![job.key] = job.value]
      /\ spent' = spent /\ released' = released
  BY ReturnFacts DEF limits
<1>2. /\ job.key \in Key /\ job.value \in Value /\ Left' = {} /\ Busy' = {} /\ job.key \in Busy
  BY <1>1, IdleFacts DEF CallInv, CallOK, Busy
<1>3. /\ blob' = blob /\ meta' = meta /\ \A k, v : About(k, v)' <=> About(k, v)
  BY <1>1 DEF files, About
<1>4. None \notin Value /\ Volatile \subseteq Value /\ spent \subseteq Value /\ released \subseteq Value
  BY VaultAssumption DEF TypeOK
<1>5. \A k \in Key, v \in Value : Holds(k, v)' => Holds(k, v)
  BY <1>1, <1>2, <1>3 DEF Holds, TypeOK
<1>6. OnePlace'
  BY <1>5 DEF OnePlace, StateInv
<1>7. VolatileOK'
  BY <1>2, <1>3 DEF VolatileOK, StateInv
<1>8. \A v \in Value : Unstored(v) => Unstored(v)'
  BY <1>1, <1>2 DEF Unstored, TypeOK
<1>9. SpentOK'
  BY <1>1, <1>3, <1>4, <1>8 DEF SpentOK, StateInv
<1>10. ReleasedOK'
  <2>1. \A v : Lost(v) => Lost(v)'
    BY <1>2, <1>3 DEF Lost
  <2> QED
    BY <1>1, <1>4, <1>8, <2>1 DEF ReleasedOK, StateInv
<1>11. KeptOK'
  <2>1. /\ job.value \in Volatile => meta[job.key] = None
        /\ job.value \notin Volatile => blob[job.key] = job.value /\ meta[job.key] = Fresh(job.value)
    <3>1. CASE job.value \in Volatile
      BY <1>1, <3>1 DEF CallInv, PutOK
    <3>2. CASE job.value \notin Volatile
      <4>1. PICK n \in 0 .. 4 :
               /\ job.todo = PutPlan(job.key, job.value, n)
               /\ n <= 2 => blob[job.key] = job.value
               /\ n = 0 => meta[job.key] = Fresh(job.value)
        BY <1>1, <3>2 DEF CallInv, PutOK
      <4>2. n = 0
        BY <1>1, <1>2, <4>1, PutPlanFacts
      <4> QED
        BY <3>2, <4>1, <4>2
    <3> QED
      BY <3>1, <3>2
  <2> SUFFICES ASSUME NEW k \in Key, Kept(k)'
               PROVE  /\ k \notin consumed'
                      /\ entries'[k] \in {None, current'[k]}
                      /\ current'[k] \in Volatile => entries'[k] = current'[k] /\ meta'[k] = None
                      /\ current'[k] \notin Volatile =>
                            blob'[k] = current'[k] /\ meta'[k] = Fresh(current'[k])
    BY <1>2 DEF KeptOK, Fresh
  <2>2. CASE k = job.key
    BY <1>1, <1>3, <2>1, <2>2 DEF TypeOK
  <2>3. CASE k # job.key
    <3>1. entries'[k] = entries[k] /\ current'[k] = current[k] /\ Kept(k)
      BY <1>1, <2>3 DEF TypeOK, Kept
    <3> QED
      BY <1>1, <1>3, <3>1 DEF StateInv, KeptOK
  <2> QED
    BY <2>2, <2>3
<1> QED
  BY <1>1, <1>6, <1>7, <1>9, <1>10, <1>11 DEF StateInv

\* Consume that succeeds: its resource is nowhere but in a tombstone.
LEMMA ConsumeEnds ==
    ASSUME TypeOK, TypeOK', StateInv, CallInv, Return, job.call = "consume", job.ok
    PROVE  StateInv'
<1>1. /\ job # None /\ Left = {} /\ job' = None
      /\ UNCHANGED files /\ over' = over /\ faults' = faults
      /\ entries' = [entries EXCEPT ![job.key] = None]
      /\ consumed' = consumed \cup {job.key}
      /\ spent' = spent \cup {job.value}
      /\ current' = current /\ released' = released
  BY ReturnFacts DEF limits
<1>2. /\ job.key \in Key /\ job.value \in Value /\ Left' = {} /\ Busy' = {} /\ job.key \in Busy
  BY <1>1, IdleFacts DEF CallInv, CallOK, Busy
<1>3. /\ blob' = blob /\ meta' = meta /\ \A k, v : About(k, v)' <=> About(k, v)
  BY <1>1 DEF files, About
<1>4. None \notin Value /\ Volatile \subseteq Value /\ spent \subseteq Value /\ released \subseteq Value
  BY VaultAssumption DEF TypeOK
<1>5. \A k \in Key, v \in Value : Holds(k, v)' => Holds(k, v)
  BY <1>1, <1>2, <1>3, <1>4 DEF Holds, TypeOK
<1>6. OnePlace'
  BY <1>5 DEF OnePlace, StateInv
<1>7. VolatileOK'
  BY <1>2, <1>3 DEF VolatileOK, StateInv
<1>8. \A v \in Value : Unstored(v) => Unstored(v)'
  BY <1>1, <1>2, <1>4 DEF Unstored, TypeOK
<1>9. PICK w \in Value : w = job.value
  BY <1>2
<1>10. \A k \in Key : Holds(k, w) => k = job.key
  <2>1. Holds(job.key, w)
    BY <1>1, <1>9 DEF Holds
  <2> QED
    BY <1>2, <2>1 DEF StateInv, OnePlace
<1>11. SpentOK'
  <2>1. \A k \in Key : entries'[k] # w
    BY <1>1, <1>2, <1>4, <1>10 DEF Holds, TypeOK
  <2>2. Unstored(w)'
    BY <1>1, <1>2, <2>1 DEF Unstored
  <2>3. meta[job.key] = None \/ meta[job.key].consumed
    BY <1>1 DEF CallInv, ConsumeOK
  <2>4. \A k \in Key : About(k, w)' => meta'[k].consumed
    BY <1>3, <1>10, <2>3 DEF Holds, About
  <2>5. ASSUME NEW v \in spent
        PROVE  Unstored(v)' /\ \A k \in Key : About(k, v)' => meta'[k].consumed
    BY <1>3, <1>4, <1>8 DEF SpentOK, StateInv
  <2> QED
    BY <1>1, <1>9, <2>2, <2>4, <2>5 DEF SpentOK
<1>12. ReleasedOK'
  <2>1. \A v : Lost(v) => Lost(v)'
    BY <1>2, <1>3 DEF Lost
  <2> QED
    BY <1>1, <1>4, <1>8, <2>1 DEF ReleasedOK, StateInv
<1>13. KeptOK'
  <2>1. \A k \in Key : Kept(k) => k # job.key /\ k \notin consumed
    BY <1>2 DEF StateInv, KeptOK
  <2> QED
    BY <1>1, <1>2, <2>1, QuietKept DEF TypeOK
<1> QED
  BY <1>1, <1>6, <1>7, <1>11, <1>12, <1>13 DEF StateInv

\* Delete releases what it removed: of the two files of its key at most one is
\* left after one error.
LEMMA DeleteEnds ==
    ASSUME TypeOK, TypeOK', StateInv, CallInv, Return, job.call = "delete"
    PROVE  StateInv'
<1>1. /\ job \in Jobs /\ job # None /\ job.todo = <<>> /\ Left = {} /\ job' = None
      /\ UNCHANGED files /\ over' = over /\ faults' = faults
      /\ entries' = entries /\ consumed' = consumed /\ current' = current /\ spent' = spent
      /\ released' = released \cup job.loose
  BY ReturnFacts DEF limits, memory
<1>2. /\ job.key \in Key /\ Left' = {} /\ Busy' = {} /\ job.loose \subseteq Value
  BY <1>1, IdleFacts DEF CallInv, CallOK, Jobs
<1>3. OnePlace' /\ VolatileOK' /\ SpentOK'
  <2>1. /\ blob' = blob /\ meta' = meta /\ \A k, v : About(k, v)' <=> About(k, v)
    BY <1>1 DEF files, About
  <2>2. \A k \in Key, v \in Value : Holds(k, v)' => Holds(k, v)
    BY <1>1, <1>2, <2>1 DEF Holds
  <2>3. OnePlace'
    BY <2>2 DEF OnePlace, StateInv
  <2>4. VolatileOK'
    BY <1>2, <2>1 DEF VolatileOK, StateInv
  <2>5. \A v : Unstored(v) => Unstored(v)'
    BY <1>1, <1>2 DEF Unstored
  <2>6. SpentOK'
    BY <1>1, <2>1, <2>5 DEF SpentOK, StateInv
  <2> QED
    BY <2>3, <2>4, <2>6
<1>4. ReleasedOK'
  <2>1. ASSUME MaxFaults <= 1
        PROVE  blob[job.key] = None \/ meta[job.key] = None
    <3>1. job.todo # Removal(job.key) /\ job.todo # <<Step("meta", job.key, None)>>
      BY <1>1, <1>2, StepFacts, ShortRange DEF Removal
    <3>2. faults <= MaxFaults /\ faults \in Nat
      BY DEF StateInv, TypeOK
    <3> QED
      BY <1>1, <2>1, <3>1, <3>2, VaultAssumption DEF CallInv, DeleteOK
  <2>2. ASSUME MaxFaults <= 1, NEW v \in released' \ over
        PROVE  Unstored(v) /\ Lost(v)
    <3>1. CASE v \in released
      BY <2>2, <3>1 DEF StateInv, ReleasedOK
    <3>2. CASE v \in job.loose
      <4>1. /\ Unstored(v)
            /\ \A k \in Key : About(k, v) => k = job.key
        BY <1>1, <2>2, <3>2 DEF CallInv, LooseOK
      <4>2. v # None
        BY <1>2, <3>2, VaultAssumption
      <4> QED
        BY <1>1, <2>1, <2>2, <4>1, <4>2 DEF Lost, About
    <3> QED
      BY <1>1, <3>1, <3>2
  <2>3. \A v : Unstored(v) /\ Lost(v) => Unstored(v)' /\ Lost(v)'
    BY <1>1, <1>2 DEF Unstored, Lost, About, files
  <2> QED
    BY <1>1, <2>2, <2>3 DEF ReleasedOK
<1>5. KeptOK'
  BY <1>1, <1>2, QuietKept DEF StateInv, KeptOK
<1> QED
  BY <1>1, <1>3, <1>4, <1>5 DEF StateInv

\* Invalidate that succeeds releases what it removed: no metadata of its keys is
\* left.
LEMMA InvalidateEnds ==
    ASSUME TypeOK, TypeOK', StateInv, CallInv, Return, job.call = "invalidate", job.ok
    PROVE  StateInv'
<1>1. /\ job \in Jobs /\ job # None /\ job.todo = <<>> /\ Left = {} /\ job' = None
      /\ UNCHANGED files /\ over' = over /\ faults' = faults
      /\ entries' = [k \in Key |-> IF k \in job.gone THEN None ELSE entries[k]]
      /\ consumed' = consumed \ job.gone /\ current' = current /\ spent' = spent
      /\ released' = released \cup job.loose \cup ({entries[k] : k \in job.gone} \ {None})
  BY ReturnFacts DEF limits
<1>2. /\ job.gone \subseteq Key /\ job.gone \subseteq Busy /\ Left' = {} /\ Busy' = {}
      /\ job.loose \subseteq Value
  BY <1>1, IdleFacts DEF Busy, Jobs
<1>3. /\ blob' = blob /\ meta' = meta /\ \A k, v : About(k, v)' <=> About(k, v)
  BY <1>1 DEF files, About
<1>4. None \notin Value /\ spent \subseteq Value /\ released \subseteq Value
  BY VaultAssumption DEF TypeOK
<1>5. OnePlace' /\ VolatileOK' /\ SpentOK'
  <2>1. \A k \in Key, v \in Value : Holds(k, v)' => Holds(k, v)
    BY <1>1, <1>2, <1>3, <1>4 DEF Holds
  <2>2. OnePlace'
    BY <2>1 DEF OnePlace, StateInv
  <2>3. VolatileOK'
    BY <1>2, <1>3 DEF VolatileOK, StateInv
  <2>4. \A v \in Value : Unstored(v) => Unstored(v)'
    BY <1>1, <1>2, <1>4 DEF Unstored
  <2>5. SpentOK'
    BY <1>1, <1>3, <1>4, <2>4 DEF SpentOK, StateInv
  <2> QED
    BY <2>2, <2>3, <2>5
<1>6. \A k \in job.gone : meta[k] = None
  BY <1>1 DEF CallInv, InvalidateOK
<1>7. ReleasedOK'
  <2>1. ASSUME NEW v \in Value, Unstored(v)
        PROVE  Unstored(v)'
    BY <1>1, <1>2, <1>4, <2>1 DEF Unstored
  <2>2. ASSUME MaxFaults <= 1, NEW v \in released \ over
        PROVE  Unstored(v)' /\ Lost(v)'
    <3>1. Unstored(v) /\ Lost(v)
      BY <2>2 DEF StateInv, ReleasedOK
    <3> QED
      BY <1>2, <1>3, <1>4, <2>1, <3>1 DEF Lost
  <2>3. ASSUME NEW v \in job.loose \ over
        PROVE  Unstored(v)' /\ Lost(v)'
    <3>1. /\ Unstored(v) /\ \A k \in Key : About(k, v) => k \in job.gone
      BY <1>1 DEF CallInv, LooseOK
    <3>2. \A k \in Key : ~About(k, v)
      BY <1>6, <3>1 DEF About
    <3> QED
      BY <1>2, <1>3, <2>1, <3>1, <3>2 DEF Lost
  <2>4. ASSUME NEW k \in job.gone, entries[k] # None
        PROVE  \A v : v = entries[k] => Unstored(v)' /\ Lost(v)'
    <3> TAKE v
    <3> HAVE v = entries[k]
    <3>1. v \in Value /\ Holds(k, v) /\ k \in Key
      BY <1>2, <2>4, MetaTypes DEF Holds
    <3>2. \A l \in Key : Holds(l, v) => l = k
      BY <3>1 DEF StateInv, OnePlace
    <3>3. \A l \in Key : ~About(l, v)
      BY <1>6, <3>2 DEF Holds, About
    <3>4. \A l \in Key : entries'[l] # v
      BY <1>1, <1>2, <1>4, <3>1, <3>2 DEF Holds
    <3> QED
      BY <1>1, <1>2, <1>3, <3>3, <3>4 DEF Unstored, Lost
  <2> QED
    BY <1>1, <2>2, <2>3, <2>4 DEF ReleasedOK
<1>8. KeptOK'
  <2>1. \A k \in Key : Kept(k) => k \notin job.gone /\ k \notin consumed
    BY <1>2 DEF StateInv, KeptOK
  <2> QED
    BY <1>1, <1>2, <2>1, QuietKept
<1> QED
  BY <1>1, <1>5, <1>7, <1>8 DEF StateInv

\* CleanupExpired releases only what has expired.
LEMMA CleanupEnds ==
    ASSUME TypeOK, TypeOK', StateInv, CallInv, Return, job.call = "cleanup"
    PROVE  StateInv'
<1>1. /\ job \in Jobs /\ job # None /\ Left = {} /\ job' = None
      /\ UNCHANGED files /\ over' = over /\ faults' = faults
      /\ entries' = [k \in Key |-> IF k \in Dropped THEN None ELSE entries[k]]
      /\ consumed' = consumed \ (job.gone \cup Dropped) /\ current' = current /\ spent' = spent
      /\ released' = released \cup job.loose \cup {entries[k] : k \in Dropped}
  BY ReturnFacts DEF limits
<1>2. Left' = {} /\ Busy' = {}
  BY <1>1, IdleFacts
<1>3. job.loose \subseteq over
  BY <1>1 DEF CallInv, LooseOK
<1>4. \A k \in Dropped : k \in Key /\ entries[k] \in over
  BY DroppedFacts
<1>5. released' \subseteq released \cup over'
  BY <1>1, <1>3, <1>4
<1>6. \A k \in Key : entries'[k] \in {entries[k], None, Available(k)}
  BY <1>1
<1>7. OnePlace' /\ VolatileOK' /\ SpentOK' /\ ReleasedOK'
  BY <1>1, <1>2, <1>5, <1>6, Quiet
<1>8. KeptOK'
  <2>1. \A k \in Key : Kept(k) => k \notin Dropped /\ k \notin consumed
    BY <1>4, KeptFound DEF StateInv, KeptOK
  <2> QED
    BY <1>1, <1>2, <2>1, QuietKept
<1> QED
  BY <1>1, <1>7, <1>8 DEF StateInv

\* The end of a call keeps StateInv.
LEMMA ReturnState ==
    ASSUME TypeOK, TypeOK', StateInv, CallInv, Return
    PROVE  StateInv'
<1>1. job.call \in Calls /\ job' = None /\ UNCHANGED <<files, limits>>
  BY ReturnFacts DEF Jobs
<1>2. ASSUME UNCHANGED <<memory, history>>
      PROVE  StateInv'
  <2>1. /\ UNCHANGED files /\ entries' = entries /\ consumed' = consumed /\ over' = over
        /\ faults' = faults /\ spent' = spent /\ released' = released /\ current' = current
    BY <1>1, <1>2 DEF memory, history, limits
  <2>2. Left' = {} /\ Busy' = {}
    BY <1>1, IdleFacts
  <2>3. OnePlace' /\ VolatileOK' /\ SpentOK' /\ ReleasedOK'
    BY <1>1, <2>1, <2>2, Quiet
  <2>4. KeptOK'
    BY <2>1, <2>2, QuietKept DEF StateInv, KeptOK
  <2> QED
    BY <2>1, <2>3, <2>4 DEF StateInv
<1>3. \/ UNCHANGED <<memory, history>>
      \/ job.call \in {"put", "consume", "invalidate"} /\ job.ok
      \/ job.call \in {"delete", "cleanup"}
  BY <1>1, ReturnFacts DEF Calls
<1> QED
  BY <1>2, <1>3, PutEnds, ConsumeEnds, DeleteEnds, InvalidateEnds, CleanupEnds

-----------------------------------------------------------------------------
(* Calls that begin keep CallInv.                                          *)

\* Put begins.
LEMMA PutCall ==
    ASSUME TypeOK, StateInv, NEW k \in Key, NEW v \in Value, Put(k, v)
    PROVE  CallInv'
<1>1. /\ job' # None /\ job'.call = "put" /\ job'.key = k /\ job'.value = v /\ job'.loose = {}
      /\ v \in Volatile => Left' = {Step("blob", k, None), Step("meta", k, None)}
      /\ v \notin Volatile => job'.todo = PutPlan(k, v, 4) /\ Left' = Range(PutPlan(k, v, 4))
  BY PutFacts DEF Begun
<1>2. \A s \in Left' : s.key = k
  <2>1. CASE v \in Volatile
    BY <1>1, <2>1, StepFacts
  <2>2. CASE v \notin Volatile
    <3>1. 4 \in 0 .. 4
      OBVIOUS
    <3> QED
      BY <1>1, <2>2, <3>1, PutPlanRange
  <2> QED
    BY <2>1, <2>2
<1>3. CallOK'
  BY <1>1, <1>2 DEF CallOK
<1>4. PutOK'
  <2>1. v \in Volatile => /\ \A s \in Left' : s.content = None
                          /\ Step("meta", k, None) \in Left'
    BY <1>1, StepFacts
  <2>2. v \notin Volatile =>
           \E n \in 0 .. 4 : /\ job'.todo = PutPlan(k, v, n)
                             /\ n <= 2 => blob'[k] = v
                             /\ n = 0 => meta'[k] = Fresh(v)
    <3>1. 4 \in 0 .. 4 /\ ~(4 <= 2) /\ 4 # 0
      OBVIOUS
    <3> QED
      BY <1>1, <3>1
  <2> QED
    BY <1>1, <2>1, <2>2 DEF PutOK, Step, PutPlan, Fresh
<1>5. ConsumeOK' /\ DeleteOK' /\ InvalidateOK' /\ CleanupOK' /\ LooseOK'
  BY <1>1 DEF ConsumeOK, DeleteOK, InvalidateOK, CleanupOK, LooseOK
<1> QED
  BY <1>3, <1>4, <1>5 DEF CallInv

\* Get of an expired resource begins.
LEMMA ExpireCall ==
    ASSUME TypeOK, StateInv, NEW k \in Key, Expire(k)
    PROVE  CallInv'
<1>1. /\ job' # None /\ job'.call = "expire" /\ job'.key = k /\ job'.value = None /\ job'.loose = {}
      /\ Left' = {Step("blob", k, None), Step("meta", k, None)}
  BY ExpireFacts DEF Begun
<1>2. \A s \in Left' : s.key = k /\ s.content = None
  BY <1>1, StepFacts
<1>3. CallOK'
  BY <1>1, <1>2 DEF CallOK
<1>4. PutOK' /\ ConsumeOK' /\ DeleteOK' /\ InvalidateOK' /\ CleanupOK' /\ LooseOK'
  BY <1>1 DEF PutOK, ConsumeOK, DeleteOK, InvalidateOK, CleanupOK, LooseOK
<1> QED
  BY <1>3, <1>4 DEF CallInv

\* Consume begins.
LEMMA ConsumeCall ==
    ASSUME TypeOK, StateInv, NEW k \in Key, Consume(k)
    PROVE  CallInv'
<1>1. /\ job' # None /\ job'.call = "consume" /\ job'.key = k /\ job'.value \in Value
      /\ job'.loose = {} /\ meta' = meta
      /\ IF meta[k] = None THEN Left' = {}
         ELSE /\ meta[k].value \in Value
              /\ Left' = {Step("meta", k, None), Step("meta", k, Tombstone(meta[k].value)),
                          Step("blob", k, None)}
  <2>1. meta' = meta
    BY DEF Consume, files
  <2> QED
    BY <2>1, ConsumeFacts DEF Begun
<1>2. \A s \in Left' : /\ s.key = k
                       /\ s.file = "meta" /\ s.content # None => s.content.consumed
  BY <1>1, StepFacts, MetaFacts
<1>3. meta[k] = None \/ \E s \in Left' : s.file = "meta"
  BY <1>1, StepFacts
<1>4. CallOK' /\ ConsumeOK'
  BY <1>1, <1>2, <1>3 DEF CallOK, ConsumeOK
<1>5. PutOK' /\ DeleteOK' /\ InvalidateOK' /\ CleanupOK' /\ LooseOK'
  BY <1>1 DEF PutOK, DeleteOK, InvalidateOK, CleanupOK, LooseOK
<1> QED
  BY <1>4, <1>5 DEF CallInv

\* Delete begins: what it will release was at its key only.
LEMMA DeleteCall ==
    ASSUME TypeOK, StateInv, NEW k \in Key, Delete(k)
    PROVE  CallInv'
<1>1. /\ job' # None /\ job'.call = "delete" /\ job'.key = k /\ job'.value = None
      /\ job'.todo = Removal(k)
      /\ job'.loose = IF entries[k] # None THEN {entries[k]} ELSE Decoded(k)
      /\ Left' = {Step("blob", k, None), Step("meta", k, None)}
  BY DeleteFacts DEF Begun
<1>2. /\ UNCHANGED files /\ over' = over /\ entries' = [entries EXCEPT ![k] = None]
  BY DEF Delete, limits
<1>3. \A s \in Left' : s.key = k /\ s.content = None
  BY <1>1, StepFacts
<1>4. CallOK' /\ DeleteOK'
  BY <1>1, <1>3 DEF CallOK, DeleteOK, Removal, Step
<1>5. ASSUME NEW v \in job'.loose
      PROVE  Unstored(v)' /\ \A l \in Key : About(l, v)' => l = k
  <2>1. v \in Value /\ v # None
    BY <1>1, MetaTypes, VaultAssumption
  <2>2. entries[k] = v \/ About(k, v)
    BY <1>1 DEF Decoded, About
  <2>3. \A l \in Key : Holds(l, v) => l = k
    BY <2>1, <2>2 DEF StateInv, OnePlace, Holds
  <2>4. \A l \in Key : entries'[l] # v
    BY <1>2, <2>1, <2>3 DEF Holds, TypeOK
  <2>5. \A s \in Left' : ~Writes(s, v)
    BY <1>3 DEF Writes
  <2> QED
    BY <1>1, <1>2, <2>1, <2>3, <2>4, <2>5 DEF Unstored, Holds, About, Writes, files
<1>6. LooseOK'
  BY <1>1, <1>5 DEF LooseOK
<1>7. PutOK' /\ ConsumeOK' /\ InvalidateOK' /\ CleanupOK'
  BY <1>1 DEF PutOK, ConsumeOK, InvalidateOK, CleanupOK
<1> QED
  BY <1>4, <1>6, <1>7 DEF CallInv

\* Invalidate begins: what it will release was at its keys only.
LEMMA InvalidateCall ==
    ASSUME TypeOK, StateInv, NEW preserved \in SUBSET Key, Invalidate(preserved)
    PROVE  CallInv'
<1>1. /\ job' # None /\ job'.call = "invalidate" /\ job'.value = None
      /\ job'.gone = Key \ preserved
      /\ job'.loose = UNION {Decoded(k) : k \in {k \in Stored \ preserved : entries[k] = None}}
      /\ \A s \in Left' : s.key \in Stored \ preserved /\ s.content = None
      /\ \A k \in Stored \ preserved : Step("meta", k, None) \in Left'
  BY InvalidateFacts DEF Begun
<1>2. UNCHANGED files /\ over' = over /\ entries' = entries
  BY DEF Invalidate, limits, memory
<1>3. CallOK'
  BY <1>1 DEF CallOK
<1>4. InvalidateOK'
  <2>1. \A k \in Key \ preserved : meta'[k] = None \/ Step("meta", k, None) \in Left'
    BY <1>1, <1>2 DEF Stored, files
  <2> QED
    BY <1>1, <2>1 DEF InvalidateOK, Step
<1>5. ASSUME NEW v \in job'.loose
      PROVE  Unstored(v)' /\ \A l \in Key : About(l, v)' => l \in job'.gone
  <2>1. PICK k \in Stored \ preserved : entries[k] = None /\ v \in Decoded(k)
    BY <1>1
  <2>2. k \in Key /\ v \in Value /\ v # None /\ About(k, v)
    BY <2>1, MetaTypes, VaultAssumption DEF Stored, Decoded, About
  <2>3. \A l \in Key : Holds(l, v) => l = k
    BY <2>2 DEF StateInv, OnePlace, Holds
  <2>4. \A l \in Key : entries'[l] # v
    BY <1>2, <2>1, <2>2, <2>3 DEF Holds
  <2>5. \A s \in Left' : ~Writes(s, v)
    BY <1>1 DEF Writes
  <2> QED
    BY <1>1, <1>2, <2>1, <2>2, <2>3, <2>4, <2>5 DEF Unstored, Holds, About, Writes, files
<1>6. LooseOK'
  BY <1>1, <1>5 DEF LooseOK
<1>7. PutOK' /\ ConsumeOK' /\ DeleteOK' /\ CleanupOK'
  BY <1>1 DEF PutOK, ConsumeOK, DeleteOK, CleanupOK
<1> QED
  BY <1>3, <1>4, <1>6, <1>7 DEF CallInv

\* CleanupExpired begins, unless it stops.
LEMMA CleanupCall ==
    ASSUME TypeOK, StateInv, CleanupExpired
    PROVE  CallInv'
<1>1. CASE /\ Begun("cleanup", None, None) /\ job'.gone = {} /\ job'.loose = {}
           /\ \A s \in Left' : s.key \in Cleanable /\ s.content = None
  <2>1. job' # None /\ job'.call = "cleanup" /\ job'.value = None /\ job'.loose = {}
    BY <1>1 DEF Begun
  <2>2. UNCHANGED files /\ over' = over
    BY DEF CleanupExpired
  <2>3. CallOK'
    BY <1>1, <2>1 DEF CallOK
  <2>4. CleanupOK'
    BY <1>1, <2>2 DEF CleanupOK, Cleanable, files
  <2>5. PutOK' /\ ConsumeOK' /\ DeleteOK' /\ InvalidateOK' /\ LooseOK'
    BY <2>1 DEF PutOK, ConsumeOK, DeleteOK, InvalidateOK, LooseOK
  <2> QED
    BY <2>3, <2>4, <2>5 DEF CallInv
<1>2. CASE job = None /\ UNCHANGED job
  BY <1>2, IdleFacts
<1> QED
  BY <1>1, <1>2, CleanupFacts

-----------------------------------------------------------------------------
(* The progress of a call keeps CallInv.                                   *)

\* A file operation.
LEMMA DoStepCall ==
    ASSUME TypeOK, StateInv, CallInv, DoStep
    PROVE  CallInv'
<1> DEFINE s == Head(job.todo)
<1>1. /\ job \in Jobs /\ job.todo # <<>> /\ job.todo \in Seq(Steps)
      /\ job # None /\ job' # None /\ job'.key = job.key /\ job'.value = job.value
      /\ job'.call = job.call /\ job'.ok = job.ok /\ job'.todo = Tail(job.todo)
      /\ s = Head(job.todo)
      /\ s \in Steps /\ s \in Left /\ Left = {s} \cup Left' /\ Done(s)
  BY DoStepFacts DEF SameCall, Jobs
<1>2. \/ job'.gone = job.gone /\ job'.loose = job.loose
      \/ job.call = "cleanup" /\ s.file = "meta" /\ job'.loose = job.loose \cup Decoded(s.key)
  BY DoStepFacts
<1>3. entries' = entries /\ over' = over /\ faults' = faults
  BY DEF DoStep, memory, limits
<1> HIDE DEF s
<1>4. /\ s.key \in Key
      /\ \/ /\ s.file = "blob" /\ meta' = meta
            /\ blob'[s.key] = s.content /\ \A l \in Key : l # s.key => blob'[l] = blob[l]
         \/ /\ s.file = "meta" /\ blob' = blob
            /\ meta'[s.key] = s.content /\ \A l \in Key : l # s.key => meta'[l] = meta[l]
  BY <1>1, StepTypes DEF Done, TypeOK
<1>5. CallOK'
  BY <1>1 DEF CallInv, CallOK
<1>6. job.call \notin {"put", "consume"} => \A k \in Key : meta'[k] \in {meta[k], None}
  BY <1>1, <1>4 DEF CallInv, CallOK
<1>7. PutOK'
  <2> SUFFICES ASSUME job.call = "put"
               PROVE  PutOK'
    BY <1>1 DEF PutOK
  <2>1. PICK k \in Key, v \in Value : k = job.key /\ v = job.value
    BY <1>1 DEF CallInv, CallOK
  <2>2. s.key = k /\ k = job'.key /\ v = job'.value
    BY <1>1, <2>1 DEF CallInv, CallOK
  <2>3. v \in Volatile =>
           /\ \A t \in Left' : t.content = None
           /\ job.ok => meta'[k] = None \/ Step("meta", k, None) \in Left'
    <3> SUFFICES ASSUME v \in Volatile
                 PROVE  /\ \A t \in Left' : t.content = None
                        /\ job.ok => meta'[k] = None \/ Step("meta", k, None) \in Left'
      OBVIOUS
    <3>1. /\ \A t \in Left : t.content = None
          /\ job.ok => meta[k] = None \/ Step("meta", k, None) \in Left
      BY <1>1, <2>1 DEF CallInv, PutOK
    <3>2. s = Step("meta", k, None) => s.file = "meta" /\ s.content = None
      BY StepFacts
    <3> QED
      BY <1>1, <1>4, <2>2, <3>1, <3>2
  <2>4. ASSUME v \notin Volatile, job.ok
        PROVE  \E n \in 0 .. 4 :
                  /\ job'.todo = PutPlan(k, v, n)
                  /\ n <= 2 => blob'[k] = v
                  /\ n = 0 => meta'[k] = Fresh(v)
    <3>1. PICK n \in 0 .. 4 : /\ job.todo = PutPlan(k, v, n)
                              /\ n <= 2 => blob[k] = v
                              /\ n = 0 => meta[k] = Fresh(v)
      BY <1>1, <2>1, <2>4 DEF CallInv, PutOK
    <3>2. n \in 1 .. 4
      <4>1. PutPlan(k, v, 0) = <<>>
        BY PutPlanFacts
      <4> QED
        BY <1>1, <3>1, <4>1
    <3>3. job'.todo = PutPlan(k, v, n - 1) /\ n - 1 \in 0 .. 4
      <4>1. \A m \in 1 .. 4 : Tail(PutPlan(k, v, m)) = PutPlan(k, v, m - 1)
        BY PutPlanFacts
      <4>2. Tail(PutPlan(k, v, n)) = PutPlan(k, v, n - 1)
        BY <3>2, <4>1
      <4>3. n - 1 \in 0 .. 4
        BY <3>2
      <4> QED
        BY <1>1, <3>1, <4>2, <4>3
    <3>4. n = 4 => n - 1 = 3
      OBVIOUS
    <3>5. n = 3 => blob'[k] = v
      <4>1. n = 3 => s = Step("blob", k, v)
        BY <1>1, <3>1, PutPlanFacts
      <4>2. Step("blob", k, v).file = "blob" /\ Step("blob", k, v).content = v
        BY StepFacts
      <4> QED
        BY <1>4, <2>2, <4>1, <4>2
    <3>6. n = 2 => blob'[k] = v
      <4>1. n = 2 => s = Step("meta", k, None)
        BY <1>1, <3>1, PutPlanFacts
      <4>2. Step("meta", k, None).file = "meta"
        BY StepFacts
      <4> QED
        BY <1>4, <3>1, <4>1, <4>2
    <3>7. n = 1 => blob'[k] = v /\ meta'[k] = Fresh(v)
      <4>1. n = 1 => s = Step("meta", k, Fresh(v))
        BY <1>1, <3>1, PutPlanFacts
      <4>2. Step("meta", k, Fresh(v)).file = "meta" /\ Step("meta", k, Fresh(v)).content = Fresh(v)
        BY StepFacts
      <4> QED
        BY <1>4, <2>2, <3>1, <4>1, <4>2
    <3> DEFINE m == n - 1
    <3>8. /\ m \in 0 .. 4 /\ job'.todo = PutPlan(k, v, m)
          /\ m <= 2 => blob'[k] = v
          /\ m = 0 => meta'[k] = Fresh(v)
      BY <3>2, <3>3, <3>5, <3>6, <3>7
    <3> HIDE DEF m
    <3> QED
      BY <3>8
  <2>5. job'.call = "put" /\ job'.ok = job.ok
    BY <1>1
  <2> QED
    BY <2>2, <2>3, <2>4, <2>5 DEF PutOK, Step, PutPlan, Fresh
<1>8. ConsumeOK'
  <2> SUFFICES ASSUME job.call = "consume"
               PROVE  ConsumeOK'
    BY <1>1 DEF ConsumeOK
  <2>1. /\ job.key \in Key /\ s.key = job.key
        /\ \A t \in Left : t.file = "meta" /\ t.content # None => t.content.consumed
        /\ job.ok => \/ meta[job.key] = None \/ meta[job.key].consumed
                     \/ \E t \in Left : t.file = "meta"
    BY <1>1 DEF CallInv, CallOK, ConsumeOK
  <2>2. s.file = "meta" => meta'[job.key] = None \/ meta'[job.key].consumed
    BY <1>1, <1>4, <2>1
  <2>3. s.file = "blob" => meta' = meta
    BY <1>4
  <2>4. job.ok => \/ meta'[job.key] = None \/ meta'[job.key].consumed
                  \/ \E t \in Left' : t.file = "meta"
    BY <1>1, <1>4, <2>1, <2>2, <2>3
  <2> QED
    BY <1>1, <2>1, <2>4 DEF ConsumeOK
<1>9. DeleteOK'
  <2> SUFFICES ASSUME job.call = "delete"
               PROVE  DeleteOK'
    BY <1>1 DEF DeleteOK
  <2>1. PICK k \in Key : k = job.key /\ k = job'.key
    BY <1>1 DEF CallInv, CallOK
  <2> DEFINE a == Step("blob", k, None)
             b == Step("meta", k, None)
  <2>2. /\ Removal(k) = <<a, b>>
        /\ Head(<<a, b>>) = a /\ Tail(<<a, b>>) = <<b>> /\ Head(<<b>>) = b /\ Tail(<<b>>) = <<>>
        /\ a.file = "blob" /\ a.content = None /\ a.key = k
        /\ b.file = "meta" /\ b.content = None /\ b.key = k
    <3>1. a \in Steps /\ b \in Steps
      BY StepFacts
    <3>2. ASSUME NEW x \in Steps, NEW y \in Steps
          PROVE  Tail(<<x, y>>) = <<y>>
      OBVIOUS
    <3>3. ASSUME NEW x \in Steps
          PROVE  Tail(<<x>>) = <<>>
      OBVIOUS
    <3> QED
      BY <3>1, <3>2, <3>3, StepFacts DEF Removal
  <2> HIDE DEF a, b
  <2>3. \/ job.todo = <<a, b>>
        \/ job.todo = <<b>> /\ (blob[k] = None \/ faults >= 1)
    BY <1>1, <2>1, <2>2 DEF CallInv, DeleteOK, b
  <2>4. CASE job.todo = <<a, b>>
    <3>1. job'.todo = <<b>> /\ s = a /\ blob'[k] = None
      BY <1>1, <1>4, <2>2, <2>4
    <3> QED
      BY <1>1, <2>1, <3>1 DEF DeleteOK, b, Step
  <2>5. CASE job.todo = <<b>>
    <3>1. job'.todo = <<>> /\ s = b /\ meta'[k] = None
      BY <1>1, <1>4, <2>2, <2>5
    <3> QED
      BY <1>1, <2>1, <3>1 DEF DeleteOK
  <2> QED
    BY <2>3, <2>4, <2>5
<1>10. InvalidateOK'
  <2> SUFFICES ASSUME job.call = "invalidate", job.ok
               PROVE  \A k \in job'.gone : meta'[k] = None \/ Step("meta", k, None) \in Left'
    BY <1>1 DEF InvalidateOK, Step
  <2> TAKE k \in job'.gone
  <2>1. k \in job.gone /\ k \in Key /\ job.gone \subseteq Key
    BY <1>1, <1>2 DEF Jobs
  <2>2. meta[k] = None \/ Step("meta", k, None) \in Left
    BY <1>1, <2>1 DEF CallInv, InvalidateOK
  <2>3. meta[k] = None => meta'[k] = None
    BY <1>6, <2>1
  <2>4. s = Step("meta", k, None) => meta'[k] = None
    BY <1>4, <2>1, StepFacts
  <2> QED
    BY <1>1, <2>2, <2>3, <2>4
<1>11. CleanupOK'
  <2> SUFFICES ASSUME job.call = "cleanup", NEW t \in Left'
               PROVE  meta'[t.key] = None \/ meta'[t.key].consumed \/ meta'[t.key].value \in over
    BY <1>1, <1>3 DEF CleanupOK
  <2>1. /\ t.key \in Key
        /\ meta[t.key] = None \/ meta[t.key].consumed \/ meta[t.key].value \in over
    BY <1>1, LeftType, StepTypes DEF CallInv, CleanupOK
  <2> QED
    BY <1>6, <2>1
<1>12. LooseOK'
  <2>1. job'.loose \ over \subseteq job.loose
    <3>1. job.call = "cleanup" => Decoded(s.key) \subseteq over
      BY <1>1 DEF CallInv, CleanupOK, Decoded
    <3> QED
      BY <1>2, <3>1
  <2>2. ASSUME NEW v \in job.loose \ over
        PROVE  /\ Unstored(v)' /\ job.call \in {"delete", "invalidate"}
               /\ \A k \in Key : About(k, v)' => About(k, v)
    <3>1. Unstored(v) /\ job.call \in {"delete", "invalidate"}
      BY <1>1 DEF CallInv, LooseOK
    <3>2. \A k \in Key : About(k, v)' => About(k, v)
      BY <1>6, <3>1 DEF About
    <3>3. Unstored(v)'
      BY <1>1, <1>3, <3>1 DEF Unstored, Writes
    <3> QED
      BY <3>1, <3>2, <3>3
  <2>3. \A v \in job.loose \ over : \A k \in Key : About(k, v) =>
           IF job.call = "delete" THEN k = job.key ELSE k \in job.gone
    BY <1>1 DEF CallInv, LooseOK
  <2>4. job.call \in {"delete", "invalidate"} => job'.gone = job.gone
    BY <1>2
  <2> QED
    BY <1>1, <1>3, <2>1, <2>2, <2>3, <2>4 DEF LooseOK
<1> QED
  BY <1>5, <1>7, <1>8, <1>9, <1>10, <1>11, <1>12 DEF CallInv

\* A file operation that fails.
LEMMA FailStepCall ==
    ASSUME TypeOK, StateInv, CallInv, FailStep
    PROVE  CallInv'
<1>1. /\ job \in Jobs /\ job.todo # <<>>
      /\ job # None /\ job' # None /\ job'.key = job.key /\ job'.value = job.value
      /\ job'.call = job.call /\ job'.gone = job.gone /\ job'.loose = job.loose
      /\ job'.ok = (job.ok /\ job.call \in {"expire", "delete"})
      /\ job'.todo = Remainder(job)
      /\ UNCHANGED files /\ faults' = faults + 1
      /\ \A t \in Left' : t \in Left \/ (t.content = None /\ \E x \in Left : t.key = x.key)
  BY FailStepFacts DEF SameCall
<1>2. entries' = entries /\ over' = over /\ blob' = blob /\ meta' = meta
  BY <1>1 DEF FailStep, memory, files
<1>3. CallOK'
  BY <1>1 DEF CallInv, CallOK
<1>4. PutOK'
  BY <1>1 DEF CallInv, PutOK
<1>5. ConsumeOK'
  BY <1>1 DEF CallInv, ConsumeOK
<1>6. DeleteOK'
  <2> SUFFICES ASSUME job.call = "delete"
               PROVE  DeleteOK'
    BY <1>1 DEF DeleteOK
  <2>1. PICK k \in Key : k = job.key /\ k = job'.key
    BY <1>1 DEF CallInv, CallOK
  <2> DEFINE a == Step("blob", k, None)
             b == Step("meta", k, None)
  <2>2. Removal(k) = <<a, b>> /\ Tail(<<a, b>>) = <<b>> /\ Tail(<<b>>) = <<>>
    <3>1. a \in Steps /\ b \in Steps
      BY StepFacts
    <3>2. ASSUME NEW x \in Steps, NEW y \in Steps
          PROVE  Tail(<<x, y>>) = <<y>>
      OBVIOUS
    <3>3. ASSUME NEW x \in Steps
          PROVE  Tail(<<x>>) = <<>>
      OBVIOUS
    <3> QED
      BY <3>1, <3>2, <3>3 DEF Removal
  <2>3. job'.todo = Tail(job.todo)
    BY <1>1 DEF Remainder
  <2> HIDE DEF a, b
  <2>4. \/ job.todo = <<a, b>>
        \/ job.todo = <<b>> /\ (blob[k] = None \/ faults >= 1)
    BY <1>1, <2>1, <2>2 DEF CallInv, DeleteOK, b
  <2>5. faults \in Nat
    BY DEF TypeOK
  <2>6. CASE job.todo = <<a, b>>
    <3>1. job'.todo = <<b>> /\ faults' >= 1
      BY <1>1, <2>2, <2>3, <2>5, <2>6
    <3> QED
      BY <2>1, <3>1 DEF DeleteOK, b, Step
  <2>7. CASE job.todo = <<b>>
    <3>1. job'.todo = <<>> /\ (blob'[k] = None \/ faults' >= 2)
      BY <1>1, <1>2, <2>2, <2>3, <2>4, <2>5, <2>7
    <3> QED
      BY <2>1, <3>1 DEF DeleteOK
  <2> QED
    BY <2>4, <2>6, <2>7
<1>7. InvalidateOK'
  BY <1>1 DEF InvalidateOK
<1>8. CleanupOK'
  BY <1>1, <1>2 DEF CallInv, CleanupOK
<1>9. LooseOK'
  <2>1. ASSUME NEW v, Unstored(v)
        PROVE  Unstored(v)'
    BY <1>1, <1>2, <2>1 DEF Unstored, Writes
  <2> QED
    BY <1>1, <1>2, <2>1 DEF CallInv, LooseOK, About
<1> QED
  BY <1>3, <1>4, <1>5, <1>6, <1>7, <1>8, <1>9 DEF CallInv

-----------------------------------------------------------------------------
(* Theorems.                                                               *)

\* The invariant holds at the start.
LEMMA InvInit ==
    ASSUME Init
    PROVE  Inv
<1>1. TypeOK
  <2>1. \A S : [k \in Key |-> None] \in [Key -> S \cup {None}]
    OBVIOUS
  <2> QED
    BY <2>1 DEF Init, Empty, TypeOK
<1>2. \A k \in Key : blob[k] = None /\ meta[k] = None /\ entries[k] = None /\ current[k] = None
  BY DEF Init, Empty
<1>3. job = None /\ Left = {} /\ spent = {} /\ released = {} /\ faults = 0
  BY IdleFacts DEF Init
<1>4. OnePlace
  BY <1>2, <1>3, VaultAssumption DEF OnePlace, Holds, About
<1>5. VolatileOK
  BY <1>2, <1>3 DEF VolatileOK, About
<1>6. SpentOK /\ ReleasedOK /\ KeptOK
  BY <1>2, <1>3 DEF SpentOK, ReleasedOK, KeptOK, Kept
<1>7. faults <= MaxFaults
  BY <1>3, VaultAssumption
<1> QED
  BY <1>1, <1>3, <1>4, <1>5, <1>6, <1>7, IdleFacts DEF Inv, StateInv

\* Every step keeps it.
LEMMA InvNext ==
    ASSUME Inv, [Next]_vars
    PROVE  Inv'
<1>1. TypeOK /\ StateInv /\ CallInv /\ TypeOK'
  BY TypePreserved DEF Inv, CallInv
<1>2. ASSUME NEW k \in Key, NEW v \in Value, Put(k, v)
      PROVE  StateInv' /\ CallInv'
  BY <1>1, <1>2, PutState, PutCall
<1>3. ASSUME NEW k \in Key, Load(k)
      PROVE  StateInv' /\ CallInv'
  <2>1. job' = None
    BY <1>3 DEF Load
  <2> QED
    BY <1>1, <1>3, <2>1, LoadState, IdleFacts
<1>4. ASSUME NEW k \in Key, Expire(k)
      PROVE  StateInv' /\ CallInv'
  BY <1>1, <1>4, ExpireState, ExpireCall
<1>5. ASSUME NEW k \in Key, Consume(k)
      PROVE  StateInv' /\ CallInv'
  BY <1>1, <1>5, ConsumeState, ConsumeCall
<1>6. ASSUME NEW k \in Key, Delete(k)
      PROVE  StateInv' /\ CallInv'
  BY <1>1, <1>6, DeleteState, DeleteCall
<1>7. ASSUME NEW preserved \in SUBSET Key, Invalidate(preserved)
      PROVE  StateInv' /\ CallInv'
  BY <1>1, <1>7, InvalidateState, InvalidateCall
<1>8. ASSUME CleanupExpired
      PROVE  StateInv' /\ CallInv'
  BY <1>1, <1>8, CleanupState, CleanupCall
<1>9. ASSUME DoStep
      PROVE  StateInv' /\ CallInv'
  BY <1>1, <1>9, DoStepState, DoStepCall
<1>10. ASSUME FailStep
       PROVE  StateInv' /\ CallInv'
  BY <1>1, <1>10, FailStepState, FailStepCall
<1>11. ASSUME Return
       PROVE  StateInv' /\ CallInv'
  <2>1. job' = None
    BY <1>11 DEF Return
  <2> QED
    BY <1>1, <1>11, <2>1, ReturnState, IdleFacts
<1>12. ASSUME NEW v \in Value, Pass(v)
       PROVE  StateInv' /\ CallInv'
  <2>1. job' = None
    BY <1>12 DEF Pass
  <2> QED
    BY <1>1, <1>12, <2>1, PassState, IdleFacts
<1>13. ASSUME Crash
       PROVE  StateInv' /\ CallInv'
  <2>1. job' = None
    BY <1>13 DEF Crash
  <2> QED
    BY <1>1, <1>13, <2>1, CrashState, IdleFacts
<1>14. ASSUME InvalidateAll
       PROVE  StateInv' /\ CallInv'
  <2>1. job' = None
    BY <1>14 DEF InvalidateAll
  <2> QED
    BY <1>1, <1>14, <2>1, InvalidateAllState, IdleFacts
<1>15. ASSUME UNCHANGED vars
       PROVE  StateInv' /\ CallInv'
  <2>1. /\ blob' = blob /\ meta' = meta /\ entries' = entries /\ consumed' = consumed
        /\ job' = job /\ over' = over /\ faults' = faults
        /\ current' = current /\ spent' = spent /\ released' = released
    BY <1>15 DEF vars, files, memory, limits, history
  <2>2. Left' = Left
    BY <2>1 DEF Left
  <2>3. StateInv'
    BY <1>1, <2>1, <2>2 DEF StateInv, OnePlace, Holds, About, Writes, VolatileOK, SpentOK,
       Unstored, ReleasedOK, Lost, KeptOK, Kept, Busy, Fresh
  <2>4. CallInv'
    BY <1>1, <2>1, <2>2 DEF CallInv, CallOK, PutOK, ConsumeOK, DeleteOK, InvalidateOK, CleanupOK,
       LooseOK, Unstored, About, Writes, Fresh, Step, PutPlan, Removal
  <2> QED
    BY <2>3, <2>4
<1>16. StateInv' /\ CallInv'
  BY <1>2, <1>3, <1>4, <1>5, <1>6, <1>7, <1>8, <1>9, <1>10, <1>11, <1>12, <1>13, <1>14, <1>15
     DEF Next
<1> QED
  BY <1>1, <1>16 DEF Inv

\* The types, and the invariant that the other theorems rest on.
THEOREM VaultInvariant == Spec => []Inv
<1>1. Init => Inv
  BY InvInit
<1>2. Inv /\ [Next]_vars => Inv'
  BY InvNext
<1> QED
  BY <1>1, <1>2, PTL DEF Spec

\* What Consume has returned is never returned again, wherever the process ended
\* and whatever file operations failed: Consume and getLocked.
THEOREM SpentTheorem == Spec => []SpentIsGone
<1>1. Inv => SpentIsGone
  <2> SUFFICES ASSUME Inv, NEW k \in Key
               PROVE  Available(k) \notin spent
    BY DEF SpentIsGone
  <2>1. None \notin spent
    BY VaultAssumption DEF Inv, TypeOK
  <2> QED
    BY <2>1, AvailableSafe DEF Inv
<1> QED
  BY <1>1, VaultInvariant, PTL

\* A resource that was put and neither consumed, deleted nor expired is still
\* returned: put, the calls on other keys, CleanupExpired and the restart.
THEOREM StoredTheorem == Spec => []StoredIsKept
<1>1. Inv => StoredIsKept
  BY KeptFound DEF Inv, StoredIsKept, Kept
<1> QED
  BY <1>1, VaultInvariant, PTL

\* What was released is never returned, when at most one file operation fails:
\* Delete and DeleteWorkflow release what they have removed.
THEOREM ReleasedTheorem ==
    ASSUME MaxFaults <= 1
    PROVE  Spec => []ReleasedIsGone
<1>1. Inv => ReleasedIsGone
  <2> SUFFICES ASSUME Inv, NEW k \in Key
               PROVE  Available(k) \notin released
    BY DEF ReleasedIsGone
  <2>1. None \notin released
    BY VaultAssumption DEF Inv, TypeOK
  <2> QED
    BY <2>1, AvailableSafe DEF Inv
<1> QED
  BY <1>1, VaultInvariant, PTL
=============================================================================
