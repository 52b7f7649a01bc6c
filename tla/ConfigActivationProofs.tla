----------------------- MODULE ConfigActivationProofs -----------------------
(***************************************************************************)
(* Proofs about ConfigActivation.  The first part holds for any number of  *)
(* processes: an effect runs under the active configuration, and a pending *)
(* candidate follows the active generation.  The second is about a         *)
(* database that one process at a time works on: the work shown was made   *)
(* under the active configuration, and only a candidate that cannot be     *)
(* built is recorded as failed.  Two processes refute that part            *)
(* (ConfigRace.cfg and ConfigCandidate.cfg).                               *)
(***************************************************************************)
EXTENDS ConfigActivation, FiniteSetTheorems, TLAPS

Rows == [gen : Gens, print : Runtimes \cup {None}, failed : Ids \cup {0}]
Pendings == [id : Ids, config : Config, base : Gens]
Slots == [state : {"empty", "moving", "active"}, proc : Proc \cup {None}, live : BOOLEAN]
Works == [rev : Nat, prepared : Runtimes \cup {None},
          descriptions : Runtimes \cup {None}, done : BOOLEAN]
Ops == [proc : Proc \cup {None}, live : BOOLEAN, part : Parts, rev : Nat]
Installed == [gen : Gens, config : Runtimes]

-----------------------------------------------------------------------------
(* Types.                                                                  *)

\* What a process makes of a stored configuration is a runtime configuration.
LEMMA EffectiveType ==
    ASSUME NEW e \in Env, NEW c \in Config PROVE Effective(e, c) \in Runtimes
BY DEF Runtimes

\* A runtime configuration is a record of its two fields.
LEMMA RuntimeFields ==
    ASSUME NEW a \in Runtimes, NEW b \in Runtimes,
           a.provider = b.provider, a.description = b.description
    PROVE  a = b
<1>1. ASSUME NEW c \in Runtimes
      PROVE  c = [provider |-> c.provider, description |-> c.description]
    <2>1. PICK e \in Env, d \in Config : c = Effective(e, d) BY DEF Runtimes
    <2>2. d = [provider |-> d.provider, description |-> d.description] BY ConfigAssumption
    <2>3. CASE e = None BY <2>1, <2>2, <2>3 DEF Effective
    <2>4. CASE e # None
        <3>1. c = [d EXCEPT !.provider = e] BY <2>1, <2>4 DEF Effective
        <3>2. c = [provider |-> e, description |-> d.description] BY <2>2, <3>1
        <3> QED BY <3>2
    <2> QED BY <2>3, <2>4
<1>2. a = [provider |-> a.provider, description |-> a.description] BY <1>1
<1>3. b = [provider |-> b.provider, description |-> b.description] BY <1>1
<1> QED BY <1>2, <1>3

\* A call that has gone on to another point is a call.
LEMMA CallAt ==
    ASSUME NEW j \in Calls, NEW a \in Points
    PROVE  /\ [j EXCEPT !.at = a] \in Calls
           /\ [j EXCEPT !.at = a].at = a
           /\ [j EXCEPT !.at = a].mode = j.mode
           /\ [j EXCEPT !.at = a].config = j.config
           /\ [j EXCEPT !.at = a].old = j.old
           /\ [j EXCEPT !.at = a].seen = j.seen
           /\ [j EXCEPT !.at = a].id = j.id
BY DEF Calls

\* What the caller has read of the activation rows.
LEMMA ActivationType ==
    ASSUME TypeOK
    PROVE  /\ Activation \in Activations
           /\ Activation.gen = row.gen /\ Activation.print = row.print
           /\ Activation.status = "pending" <=> pending # None
           /\ pending # None => Activation.id = pending.id
<1>1. row.gen \in Gens /\ row.print \in Runtimes \cup {None} /\ row.failed \in Ids \cup {0}
    BY DEF TypeOK
<1>2. pending # None => pending.id \in Ids BY DEF TypeOK
<1> QED BY <1>1, <1>2 DEF Activation, Activations, Statuses

\* The parts a change of the configuration reaches.
LEMMA ImpactsType ==
    ASSUME NEW a, NEW b
    PROVE  /\ Impacts(a, b) \in SUBSET Parts
           /\ "prepared" \in Impacts(a, b) <=> a.provider # b.provider
           /\ Impacts(a, b) = {} <=> a.provider = b.provider /\ a.description = b.description
<1>1. "prepared" # "descriptions" OBVIOUS
<1> QED BY <1>1 DEF Impacts, Parts

\* A workflow that has lost some parts is a workflow.
LEMMA ImpactedType ==
    ASSUME TypeOK, NEW s \in SUBSET Parts
    PROVE  /\ Impacted(s) \in Works
           /\ Impacted(s).done = work.done /\ Impacted(s).rev >= work.rev
           /\ work.done \/ s = {} => Impacted(s) = work
           /\ ~work.done /\ s # {} =>
                /\ Impacted(s).prepared = IF "prepared" \in s THEN None ELSE work.prepared
                /\ Impacted(s).descriptions = None
<1>1. Cardinality(s) \in Nat
    <2>1. IsFiniteSet({} \cup {"prepared"}) BY FS_EmptySet, FS_AddElement
    <2>2. IsFiniteSet(({} \cup {"prepared"}) \cup {"descriptions"}) BY <2>1, FS_AddElement
    <2>3. Parts = ({} \cup {"prepared"}) \cup {"descriptions"} BY DEF Parts
    <2> QED BY <2>2, <2>3, FS_Subset, FS_CardinalityType
<1>2. work \in Works BY DEF TypeOK, Works
<1>3. work.rev + Cardinality(s) \in Nat BY <1>1, <1>2 DEF Works
<1>4. CASE work.done \/ s = {}
    <2>1. Impacted(s) = work BY <1>4 DEF Impacted
    <2>2. work.rev >= work.rev BY <1>2 DEF Works
    <2> QED BY <2>1, <2>2, <1>2, <1>4
<1>5. CASE ~(work.done \/ s = {})
    <2>1. Impacted(s) = [work EXCEPT !.rev = work.rev + Cardinality(s),
                            !.prepared = IF "prepared" \in s THEN None ELSE work.prepared,
                            !.descriptions = None]
        BY <1>5 DEF Impacted
    <2>2. /\ Impacted(s) \in Works /\ Impacted(s).done = work.done
          /\ Impacted(s).rev = work.rev + Cardinality(s)
          /\ Impacted(s).prepared = IF "prepared" \in s THEN None ELSE work.prepared
          /\ Impacted(s).descriptions = None
        <3> DEFINE n == work.rev + Cardinality(s)
                   kept == IF "prepared" \in s THEN None ELSE work.prepared
        <3>1. n \in Nat /\ kept \in Runtimes \cup {None} BY <1>2, <1>3 DEF Works
        <3>2. Impacted(s) = [work EXCEPT !.rev = n, !.prepared = kept, !.descriptions = None]
            BY <2>1
        <3> HIDE DEF n, kept
        <3>3. /\ Impacted(s) \in Works /\ Impacted(s).done = work.done
              /\ Impacted(s).rev = n /\ Impacted(s).prepared = kept
              /\ Impacted(s).descriptions = None
            BY <3>1, <3>2, <1>2 DEF Works
        <3> QED BY <3>3 DEF n, kept
    <2>3. work.rev \in Nat BY <1>2 DEF Works
    <2>4. Impacted(s).rev >= work.rev BY <1>1, <2>2, <2>3
    <2> QED BY <2>2, <2>4, <1>5
<1> QED BY <1>4, <1>5

-----------------------------------------------------------------------------
(* The invariant.                                                          *)

\* A call that starts a process, which has no runtime yet, binds; the others are
\* of a process that has one.  A save has a number of its own.
Proper(j, installed) ==
    /\ IF j.mode = "start"
       THEN installed = None /\ j.at \in {"stored", "activation", "bind"}
       ELSE installed # None /\ j.at # "bind"
    /\ j.mode = "save" => j.id \in Ids

CallOK == \A p \in Proc : call[p] # None => Proper(call[p], runtime[p])

\* A request or worker runs under the configuration its process has installed.
TaskOK ==
    \A r \in Request : task[r] # None =>
        /\ runtime[task[r].proc] # None
        /\ task[r].runtime = runtime[task[r].proc].config

\* Nothing runs while the admission lock is held.
ClosedOK == \A p \in Proc : Closed(p) => ~Borrowed(p)

\* Nothing is installed or opened before the first configuration is bound.
PrintOK == row.print = None => slot.state = "empty" /\ \A p \in Proc : runtime[p] = None

ConfigInv ==
    TypeOK /\ CallOK /\ TaskOK /\ ClosedOK /\ PrintOK /\ EffectsUnderActive /\ PendingIsCurrent

\* Of the one process: what is installed, what is stored and what the database
\* calls active are one configuration, apart from the moment between the commit
\* and the installation.
RuntimeOK ==
    \A p \in Proc : runtime[p] # None =>
        /\ Effective(env[p], stored) = row.print
        /\ IF At(p, "install") THEN New(p) = row.print ELSE runtime[p].config = row.print

\* Of its call: what it has read of the database still holds when it is used.
\* A call at "fail" has a candidate that cannot be built, or that is no longer
\* the pending one.
Taken(j) == pending # None /\ pending.id = j.id

Reads(j, e) ==
    /\ j.mode = "start" => j.config = stored
    /\ j.at \in {"activation", "persist", "build", "admit", "commit"} => j.old = stored
    /\ j.at = "persist" => Effective(e, j.config) = Effective(e, j.old)
    /\ j.at \in {"build", "admit", "commit"} => j.seen.gen = row.gen
    /\ j.mode = "pending" =>
         /\ j.at \in {"stored", "activation"} /\ Taken(j) => pending.config = j.config
         /\ j.at \in {"build", "admit", "commit"} => Taken(j) /\ pending.config = j.config
         /\ j.at = "fail" /\ Taken(j) =>
              pending.config = j.config /\ Effective(e, j.config) \in Broken

ReadOK == \A p \in Proc : call[p] # None => Reads(call[p], env[p])

\* What a command or an operation began on is the workflow as it is, which is not
\* completed, or an earlier revision of it.
RevOK ==
    /\ \A r \in Request : task[r] # None =>
         task[r].rev <= work.rev /\ (task[r].rev = work.rev => ~work.done)
    /\ op # None => op.rev <= work.rev /\ (op.rev = work.rev => ~work.done)

OneInv == ConfigInv /\ RevOK /\ RuntimeOK /\ ReadOK /\ PreparedUnderActive

-----------------------------------------------------------------------------
(* The call of a process goes on.                                          *)

\* No other process's call changes.
Only(p) ==
    /\ call' \in [Proc -> Calls \cup {None}]
    /\ \A q \in Proc : q # p => call'[q] = call[q]

\* The call is the same at another point.
Same(p) ==
    /\ call'[p].mode = call[p].mode /\ call'[p].config = call[p].config
    /\ call'[p].id = call[p].id

\* Everything but the calls stays.
Rest == UNCHANGED <<database, input, runtime, task>>

LEMMA EndFacts ==
    ASSUME TypeOK, NEW p \in Proc, End(p) PROVE Only(p) /\ call'[p] = None
<1>1. call \in [Proc -> Calls \cup {None}] BY DEF TypeOK
<1> QED BY <1>1 DEF End, Only

LEMMA GotoFacts ==
    ASSUME TypeOK, NEW p \in Proc, NEW a \in Points, call[p] # None, Goto(p, a)
    PROVE  /\ Only(p) /\ Same(p)
           /\ call'[p] \in Calls
           /\ call'[p].at = a /\ call'[p].old = call[p].old /\ call'[p].seen = call[p].seen
<1>1. call \in [Proc -> Calls \cup {None}] /\ call[p] \in Calls BY DEF TypeOK
<1> DEFINE j == [call[p] EXCEPT !.at = a]
<1>2. call' = [call EXCEPT ![p] = j] BY DEF Goto
<1>3. j \in Calls /\ j.at = a /\ j.mode = call[p].mode /\ j.config = call[p].config
      /\ j.old = call[p].old /\ j.seen = call[p].seen /\ j.id = call[p].id
    BY <1>1, CallAt
<1> HIDE DEF j
<1>4. call'[p] = j BY <1>1, <1>2
<1> QED BY <1>1, <1>2, <1>3, <1>4 DEF Only, Same

LEMMA BegunFacts ==
    ASSUME TypeOK, NEW p \in Proc, NEW mode \in {"start", "save", "import", "pending"},
           NEW c \in Config, NEW a \in Points, NEW i \in Ids \cup {0}, Begun(p, mode, c, a, i)
    PROVE  /\ Only(p) /\ call'[p] \in Calls
           /\ call'[p].at = a /\ call'[p].mode = mode /\ call'[p].config = c
           /\ call'[p].old = c /\ call'[p].id = i
<1>1. call \in [Proc -> Calls \cup {None}] BY DEF TypeOK
<1>2. Activation \in Activations BY ActivationType
<1> DEFINE j == [at |-> a, mode |-> mode, config |-> c, old |-> c, seen |-> Activation, id |-> i]
<1>3. call' = [call EXCEPT ![p] = j] BY DEF Begun
<1>4. j \in Calls /\ j.at = a /\ j.mode = mode /\ j.config = c /\ j.old = c /\ j.id = i
    BY <1>2 DEF Calls
<1> HIDE DEF j
<1>5. call'[p] = j BY <1>1, <1>3
<1> QED BY <1>1, <1>3, <1>4, <1>5 DEF Only

LEMMA SaveFacts ==
    ASSUME TypeOK, NEW p \in Proc, NEW mode \in {"save", "import"}, NEW c \in Config,
           Save(p, mode, c)
    PROVE  /\ TypeOK' /\ Rest /\ env' = env /\ Only(p)
           /\ runtime[p] # None
           /\ call'[p].at = "stored" /\ call'[p].mode = mode /\ call'[p].id \in Ids
<1>1. saves + 1 \in Ids /\ saves + 1 \in Ids \cup {0} /\ saves + 1 \in Nat
    BY ConfigAssumption DEF Save, TypeOK, Ids
<1>2. Only(p) /\ call'[p].at = "stored" /\ call'[p].mode = mode /\ call'[p].id \in Ids
    <2>1. mode \in {"start", "save", "import", "pending"} /\ "stored" \in Points BY DEF Points
    <2>2. Begun(p, mode, c, "stored", saves + 1) BY DEF Save
    <2> QED BY <1>1, <2>1, <2>2, BegunFacts
<1>3. call' \in [Proc -> Calls \cup {None}] BY <1>2 DEF Only
<1>4. TypeOK' BY <1>1, <1>3 DEF TypeOK, Save, database, input
<1> QED BY <1>2, <1>4 DEF Save, Rest

LEMMA PollFacts ==
    ASSUME TypeOK, NEW p \in Proc, Poll(p)
    PROVE  /\ TypeOK' /\ Rest /\ env' = env /\ Only(p)
           /\ runtime[p] # None
           /\ call'[p].at = "fetch" /\ call'[p].mode = "pending"
<1>1. stored \in Config BY DEF TypeOK
<1>2. Only(p) /\ call'[p].at = "fetch" /\ call'[p].mode = "pending"
    <2>1. "pending" \in {"start", "save", "import", "pending"} /\ "fetch" \in Points BY DEF Points
    <2>2. Begun(p, "pending", stored, "fetch", 0) BY DEF Poll
    <2> QED BY <1>1, <2>1, <2>2, BegunFacts
<1>3. call' \in [Proc -> Calls \cup {None}] BY <1>2 DEF Only
<1>4. TypeOK' BY <1>3 DEF TypeOK, Poll, database, input, limits
<1> QED BY <1>2, <1>4 DEF Poll, Rest

LEMMA StartFacts ==
    ASSUME TypeOK, NEW p \in Proc, NEW e \in Env, Start(p, e)
    PROVE  /\ TypeOK' /\ Rest /\ Only(p)
           /\ runtime[p] = None /\ call[p] = None
           /\ \A q \in Proc : q # p => env'[q] = env[q]
           /\ call'[p].at = "stored" /\ call'[p].mode = "start" /\ call'[p].config = stored
<1>1. stored \in Config BY DEF TypeOK
<1>2. Only(p) /\ call'[p].at = "stored" /\ call'[p].mode = "start" /\ call'[p].config = stored
    <2>1. "start" \in {"start", "save", "import", "pending"} /\ "stored" \in Points BY DEF Points
    <2>2. Begun(p, "start", stored, "stored", 0) BY DEF Start
    <2> QED BY <1>1, <2>1, <2>2, BegunFacts
<1>3. call' \in [Proc -> Calls \cup {None}] BY <1>2 DEF Only
<1>4. env' \in [Proc -> Env] /\ \A q \in Proc : q # p => env'[q] = env[q]
    BY DEF Start, TypeOK
<1>5. TypeOK' BY <1>3, <1>4 DEF TypeOK, Start, database, input
<1> QED BY <1>2, <1>4, <1>5 DEF Start, Rest

LEMMA CancelFacts ==
    ASSUME TypeOK, NEW p \in Proc, Cancel(p)
    PROVE  /\ TypeOK' /\ Rest /\ env' = env /\ Only(p)
           /\ call[p].at # "install" /\ call'[p] = None
<1>1. Only(p) /\ call'[p] = None BY EndFacts DEF Cancel
<1>2. call' \in [Proc -> Calls \cup {None}] BY <1>1 DEF Only
<1>3. TypeOK' BY <1>2 DEF TypeOK, Cancel, database, input
<1> QED BY <1>1, <1>3 DEF Cancel, Rest

LEMMA FetchFacts ==
    ASSUME TypeOK, NEW p \in Proc, Fetch(p)
    PROVE  /\ TypeOK' /\ Rest /\ env' = env /\ Only(p)
           /\ call[p] # None /\ call[p].at = "fetch"
           /\ call'[p] # None =>
                /\ call'[p].at = "stored" /\ call'[p].mode = call[p].mode
                /\ pending # None /\ call'[p].id \in Ids /\ call'[p].id = pending.id /\ call'[p].config = pending.config
<1>1. call \in [Proc -> Calls \cup {None}] /\ call[p] \in Calls BY DEF TypeOK, Fetch, At
<1>2. CASE pending = None
    <2>1. Only(p) /\ call'[p] = None BY <1>2, EndFacts DEF Fetch
    <2>2. call' \in [Proc -> Calls \cup {None}] BY <2>1 DEF Only
    <2>3. TypeOK' BY <2>2 DEF TypeOK, Fetch, database, input, limits
    <2> QED BY <2>1, <2>3 DEF Fetch, At, Rest
<1>3. CASE pending # None
    <2>1. pending.id \in Ids /\ pending.config \in Config BY <1>3 DEF TypeOK
    <2> DEFINE j == [call[p] EXCEPT !.at = "stored", !.id = pending.id, !.config = pending.config]
    <2>2. call' = [call EXCEPT ![p] = j] BY <1>3 DEF Fetch
    <2>3. j \in Calls /\ j.at = "stored" /\ j.mode = call[p].mode /\ j.id = pending.id
          /\ j.config = pending.config
        BY <1>1, <2>1 DEF Calls, Points
    <2> HIDE DEF j
    <2>4. Only(p) /\ call'[p] = j BY <1>1, <2>2, <2>3 DEF Only
    <2>5. call' \in [Proc -> Calls \cup {None}] BY <2>4 DEF Only
    <2>6. TypeOK' BY <2>5 DEF TypeOK, Fetch, database, input, limits
    <2> QED BY <1>3, <2>1, <2>3, <2>4, <2>6 DEF Fetch, At, Rest
<1> QED BY <1>2, <1>3

LEMMA LoadStoredFacts ==
    ASSUME TypeOK, NEW p \in Proc, LoadStored(p)
    PROVE  /\ TypeOK' /\ Rest /\ env' = env /\ Only(p)
           /\ call[p] # None /\ call[p].at = "stored"
           /\ call'[p] # None =>
                /\ call'[p].at = "activation" /\ Same(p) /\ call'[p].old = stored
<1>1. call \in [Proc -> Calls \cup {None}] /\ call[p] \in Calls BY DEF TypeOK, LoadStored, At
<1>2. CASE End(p)
    <2>1. Only(p) /\ call'[p] = None BY <1>2, EndFacts
    <2>2. call' \in [Proc -> Calls \cup {None}] BY <2>1 DEF Only
    <2>3. TypeOK' BY <2>2 DEF TypeOK, LoadStored, database, input, limits
    <2> QED BY <2>1, <2>3 DEF LoadStored, At, Rest
<1>3. CASE call' = [call EXCEPT ![p].at = "activation", ![p].old = stored]
    <2>1. stored \in Config BY DEF TypeOK
    <2> DEFINE j == [call[p] EXCEPT !.at = "activation", !.old = stored]
    <2>2. j \in Calls /\ j.at = "activation" /\ j.mode = call[p].mode /\ j.id = call[p].id
          /\ j.config = call[p].config /\ j.old = stored
        BY <1>1, <2>1 DEF Calls, Points
    <2>3. call' = [call EXCEPT ![p] = j] BY <1>1, <1>3
    <2> HIDE DEF j
    <2>4. Only(p) /\ call'[p] = j BY <1>1, <2>2, <2>3 DEF Only
    <2>5. call' \in [Proc -> Calls \cup {None}] BY <2>4 DEF Only
    <2>6. TypeOK' BY <2>5 DEF TypeOK, LoadStored, database, input, limits
    <2> QED BY <2>2, <2>4, <2>6 DEF LoadStored, At, Rest, Same
<1> QED BY <1>2, <1>3 DEF LoadStored

\* Where the decision of LoadActivation sends a call.
Goes(p, next) ==
    CASE call[p].mode = "start" -> next = "bind"
      [] call[p].mode = "pending" ->
           IF Activation.status = "pending" /\ Activation.id = call[p].id
           THEN next \in {"build", "end"} ELSE next = "fail"
      [] OTHER ->
           \/ next \in {"end", "build", "defer", "clear"}
           \/ next = "persist" /\ New(p) = Effective(env[p], call[p].old)

LEMMA LoadActivationFacts ==
    ASSUME TypeOK, NEW p \in Proc, LoadActivation(p)
    PROVE  /\ TypeOK' /\ Rest /\ env' = env /\ Only(p)
           /\ call[p] # None /\ call[p].at = "activation"
           /\ call'[p] # None =>
                /\ Same(p) /\ call'[p].old = call[p].old /\ call'[p].seen.gen = row.gen
                /\ Goes(p, call'[p].at)
                /\ call'[p].at \in {"bind", "build", "fail", "defer", "persist", "clear"}
<1>1. call \in [Proc -> Calls \cup {None}] /\ call[p] \in Calls
    BY DEF TypeOK, LoadActivation, At
<1>2. call[p].mode \in {"start", "save", "import", "pending"} BY <1>1 DEF Calls
<1>3. PICK next \in Points \cup {"end"} :
          /\ call' = [call EXCEPT ![p] = IF next = "end" THEN None
                                         ELSE [call[p] EXCEPT !.at = next, !.seen = Activation]]
          /\ Goes(p, next) /\ next \in {"bind", "build", "fail", "defer", "persist", "clear", "end"}
    <2> DEFINE j == call[p]
               next == CASE j.mode = "start" -> "bind"
                     [] j.mode = "pending" ->
                          IF Activation.status = "pending" /\ Activation.id = j.id
                          THEN IF SafeFor(p) THEN "build" ELSE "end"
                          ELSE "fail"
                     [] j.mode \in {"save", "import"} /\ pending # None -> "end"
                     [] OTHER ->
                          IF New(p) # Effective(env[p], j.old)
                          THEN IF SafeFor(p) THEN "build" ELSE "defer"
                          ELSE IF j.config # j.old THEN "persist" ELSE "clear"
    <2>1. call' = [call EXCEPT ![p] = IF next = "end" THEN None
                                       ELSE [j EXCEPT !.at = next, !.seen = Activation]]
        BY DEF LoadActivation
    <2>2. CASE j.mode = "start"
        <3>1. next = "bind" BY <2>2
        <3> QED BY <3>1, <2>1, <2>2 DEF Goes, Points
    <2>3. CASE j.mode = "pending"
        <3>1. next = IF Activation.status = "pending" /\ Activation.id = j.id
                     THEN IF SafeFor(p) THEN "build" ELSE "end" ELSE "fail"
            BY <2>3
        <3>2. Goes(p, next) /\ next \in {"build", "fail", "end"} BY <3>1, <2>3 DEF Goes
        <3> HIDE DEF next
        <3> QED BY <3>2, <2>1 DEF Points
    <2>4. CASE j.mode \in {"save", "import"}
        <3>1. CASE pending # None
            <4>1. next = "end" BY <2>4, <3>1
            <4> QED BY <4>1, <2>1, <2>4 DEF Goes
        <3>2. CASE pending = None
            <4>1. next = IF New(p) # Effective(env[p], j.old)
                          THEN IF SafeFor(p) THEN "build" ELSE "defer"
                          ELSE IF j.config # j.old THEN "persist" ELSE "clear"
                BY <2>4, <3>2
            <4>2. Goes(p, next) /\ next \in {"build", "defer", "persist", "clear"}
                BY <4>1, <2>4 DEF Goes
            <4> HIDE DEF next
            <4> QED BY <4>2, <2>1 DEF Points
        <3> QED BY <3>1, <3>2
    <2> QED BY <1>2, <2>2, <2>3, <2>4
<1>4. Activation \in Activations /\ Activation.gen = row.gen BY ActivationType
<1>5. CASE next = "end"
    <2>1. Only(p) /\ call'[p] = None BY <1>1, <1>3, <1>5 DEF Only
    <2>2. call' \in [Proc -> Calls \cup {None}] BY <2>1 DEF Only
    <2>3. TypeOK' BY <2>2 DEF TypeOK, LoadActivation, database, input, limits
    <2> QED BY <2>1, <2>3 DEF LoadActivation, At, Rest
<1>6. CASE next # "end"
    <2> DEFINE j == [call[p] EXCEPT !.at = next, !.seen = Activation]
    <2>1. j \in Calls /\ j.at = next /\ j.mode = call[p].mode /\ j.id = call[p].id
          /\ j.config = call[p].config /\ j.old = call[p].old /\ j.seen = Activation
        BY <1>1, <1>3, <1>4, <1>6 DEF Calls
    <2>2. call' = [call EXCEPT ![p] = j] BY <1>3, <1>6
    <2> HIDE DEF j
    <2>3. Only(p) /\ call'[p] = j BY <1>1, <2>1, <2>2 DEF Only
    <2>4. call' \in [Proc -> Calls \cup {None}] BY <2>3 DEF Only
    <2>5. TypeOK' BY <2>4 DEF TypeOK, LoadActivation, database, input, limits
    <2> QED BY <1>3, <1>4, <1>6, <2>1, <2>3, <2>5 DEF LoadActivation, At, Rest, Same
<1> QED BY <1>5, <1>6

LEMMA BuildFacts ==
    ASSUME TypeOK, NEW p \in Proc, Build(p)
    PROVE  /\ TypeOK' /\ Rest /\ env' = env /\ Only(p) /\ Same(p)
           /\ call[p] # None /\ call[p].at = "build"
           /\ call'[p].old = call[p].old /\ call'[p].seen = call[p].seen
           /\ call'[p].at = IF New(p) \in Broken THEN "fail" ELSE "admit"
<1> DEFINE a == IF New(p) \in Broken THEN "fail" ELSE "admit"
<1>1. a \in Points /\ Goto(p, a) /\ call[p] # None /\ call[p].at = "build"
    BY DEF Build, Points, At
<1> HIDE DEF a
<1>2. Only(p) /\ Same(p) /\ call'[p].at = a /\ call'[p].old = call[p].old
      /\ call'[p].seen = call[p].seen
    BY <1>1, GotoFacts
<1>3. call' \in [Proc -> Calls \cup {None}] BY <1>2 DEF Only
<1>4. TypeOK' BY <1>3 DEF TypeOK, Build, database, input, limits
<1> QED BY <1>1, <1>2, <1>4 DEF Build, Rest, a

LEMMA AdmitFacts ==
    ASSUME TypeOK, NEW p \in Proc, Admit(p)
    PROVE  /\ TypeOK' /\ Rest /\ env' = env /\ Only(p) /\ Same(p)
           /\ call[p] # None /\ call[p].at = "admit"
           /\ call'[p].old = call[p].old /\ call'[p].seen = call[p].seen
           /\ \/ call'[p].at = "commit" /\ ~Borrowed(p)
              \/ call'[p].at = "defer"
<1>1. PICK a \in {"commit", "defer"} : Goto(p, a) /\ (a = "commit" => ~Borrowed(p))
    BY DEF Admit, SafeFor
<1>2. a \in Points /\ call[p] # None /\ call[p].at = "admit" BY DEF Admit, Points, At
<1>3. Only(p) /\ Same(p) /\ call'[p].at = a /\ call'[p].old = call[p].old
      /\ call'[p].seen = call[p].seen
    BY <1>1, <1>2, GotoFacts
<1>4. call' \in [Proc -> Calls \cup {None}] BY <1>3 DEF Only
<1>5. TypeOK' BY <1>4 DEF TypeOK, Admit, database, input, limits
<1> QED BY <1>1, <1>2, <1>3, <1>5 DEF Admit, Rest

LEMMA PersistFacts ==
    ASSUME TypeOK, NEW p \in Proc, Persist(p)
    PROVE  /\ TypeOK' /\ Only(p) /\ Same(p)
           /\ call[p] # None /\ call[p].at = "persist" /\ call'[p].at = "clear"
           /\ stored' = call[p].config
           /\ UNCHANGED <<row, pending, input, env, runtime, task>>
<1>1. Only(p) /\ Same(p) /\ call'[p].at = "clear" /\ call[p] # None /\ call[p].at = "persist"
    BY GotoFacts DEF Persist, At, Points
<1>2. call' \in [Proc -> Calls \cup {None}] BY <1>1 DEF Only
<1>3. call[p].config \in Config BY <1>1 DEF TypeOK, Calls
<1>4. TypeOK' BY <1>2, <1>3 DEF TypeOK, Persist, input, limits
<1> QED BY <1>1, <1>4 DEF Persist

LEMMA ClearFacts ==
    ASSUME TypeOK, NEW p \in Proc, Clear(p)
    PROVE  /\ TypeOK' /\ Only(p) /\ call'[p] = None
           /\ call[p] # None /\ call[p].at = "clear"
           /\ row'.gen = row.gen /\ row'.print = row.print /\ row'.failed \in {0, row.failed}
           /\ UNCHANGED <<pending, stored, input, env, runtime, task>>
<1>1. Only(p) /\ call'[p] = None BY EndFacts DEF Clear
<1>2. call' \in [Proc -> Calls \cup {None}] BY <1>1 DEF Only
<1>3. row \in Rows BY DEF TypeOK, Rows
<1>4. [row EXCEPT !.failed = 0] \in Rows /\ [row EXCEPT !.failed = 0].gen = row.gen
      /\ [row EXCEPT !.failed = 0].print = row.print /\ [row EXCEPT !.failed = 0].failed = 0
    BY <1>3 DEF Rows
<1>5. row' \in {row, [row EXCEPT !.failed = 0]} BY DEF Clear
<1>6. row' \in Rows BY <1>3, <1>4, <1>5
<1>7. TypeOK' BY <1>2, <1>6 DEF TypeOK, Rows, Clear, input, limits
<1> QED BY <1>1, <1>4, <1>5, <1>7 DEF Clear, At

LEMMA InstallFacts ==
    ASSUME TypeOK, NEW p \in Proc, Install(p)
    PROVE  /\ TypeOK' /\ Only(p) /\ call'[p] = None
           /\ call[p] # None /\ call[p].at = "install"
           /\ runtime'[p] \in Installed /\ runtime'[p].config = New(p)
           /\ \A q \in Proc : q # p => runtime'[q] = runtime[q]
           /\ UNCHANGED <<database, input, env, task>>
<1>1. Only(p) /\ call'[p] = None BY EndFacts DEF Install
<1>2. call' \in [Proc -> Calls \cup {None}] BY <1>1 DEF Only
<1>3. call[p] # None /\ call[p].at = "install" /\ call[p] \in Calls BY DEF Install, At, TypeOK
<1>4. New(p) \in Runtimes /\ call[p].seen.gen + 1 \in Gens
    <2>1. env[p] \in Env BY DEF TypeOK
    <2> QED BY <2>1, <1>3, EffectiveType DEF New, Calls, Activations, Gens
<1> DEFINE new == [gen |-> call[p].seen.gen + 1, config |-> New(p)]
<1>5. new \in Installed /\ new.config = New(p) BY <1>4 DEF Installed
<1>6. runtime' = [runtime EXCEPT ![p] = new] BY DEF Install
<1> HIDE DEF new
<1>7. runtime \in [Proc -> Installed \cup {None}] BY DEF TypeOK, Installed
<1>8. /\ runtime' \in [Proc -> Installed \cup {None}] /\ runtime'[p] = new
      /\ \A q \in Proc : q # p => runtime'[q] = runtime[q]
    BY <1>5, <1>6, <1>7
<1>9. TypeOK' BY <1>2, <1>8 DEF TypeOK, Installed, Install, database, input, limits
<1> QED BY <1>1, <1>3, <1>5, <1>8, <1>9 DEF Install

\* The workflow after the commit of the call of p.
CommittedWork(p) ==
    IF slot.state = "active" THEN Impacted(Impacts(Effective(env[p], call[p].old), New(p))) ELSE work

LEMMA CommitFacts ==
    ASSUME TypeOK, NEW p \in Proc, Commit(p)
    PROVE  /\ TypeOK' /\ Only(p)
           /\ call[p] # None /\ call[p].at = "commit"
           /\ UNCHANGED <<slot, op, effect, env, runtime, task>>
           /\ \/ /\ UNCHANGED <<database, work>>
                 /\ \/ call'[p] = None
                    \/ Same(p) /\ call'[p].at = "defer"
                    \/ /\ Same(p) /\ call'[p].at = "fail"
                       /\ \/ row.gen # call[p].seen.gen
                          \/ call[p].mode = "pending" /\ (pending = None \/ pending.id # call[p].id)
              \/ /\ Safe /\ Same(p) /\ call'[p] # None /\ call'[p].at = "install"
                 /\ row'.print = New(p) /\ row'.failed = 0
                 /\ pending' = None /\ stored' = call[p].config
                 /\ work' = CommittedWork(p)
<1>1. call[p] # None /\ call[p].at = "commit" /\ call[p] \in Calls BY DEF Commit, At, TypeOK
<1>2. New(p) \in Runtimes /\ call[p].config \in Config /\ Effective(env[p], call[p].old) \in Runtimes
    <2>1. env[p] \in Env BY DEF TypeOK
    <2> QED BY <2>1, <1>1, EffectiveType DEF New, Calls
<1>3. row \in Rows /\ work \in Works BY DEF TypeOK, Rows, Works
<1>4. UNCHANGED <<slot, op, effect, env, runtime, task, limits>> BY DEF Commit
<1> DEFINE changed == \/ row.gen # call[p].seen.gen
                      \/ call[p].mode = "pending" /\ (pending = None \/ pending.id # call[p].id)
<1>5. CASE End(p) /\ UNCHANGED <<database, work>>
    <2>1. Only(p) /\ call'[p] = None BY <1>5, EndFacts
    <2>2. call' \in [Proc -> Calls \cup {None}] BY <2>1 DEF Only
    <2>3. TypeOK' BY <2>2, <1>4, <1>5 DEF TypeOK, database, limits
    <2> QED BY <1>1, <1>4, <1>5, <2>1, <2>3
<1>6. CASE changed /\ Goto(p, "fail") /\ UNCHANGED <<database, work>>
    <2>1. Only(p) /\ Same(p) /\ call'[p].at = "fail" BY <1>1, <1>6, GotoFacts DEF Points
    <2>2. call' \in [Proc -> Calls \cup {None}] BY <2>1 DEF Only
    <2>3. TypeOK' BY <2>2, <1>4, <1>6 DEF TypeOK, database, limits
    <2> QED BY <1>1, <1>4, <1>6, <2>1, <2>3
<1>7. CASE Goto(p, "defer") /\ UNCHANGED <<database, work>>
    <2>1. Only(p) /\ Same(p) /\ call'[p].at = "defer" BY <1>1, <1>7, GotoFacts DEF Points
    <2>2. call' \in [Proc -> Calls \cup {None}] BY <2>1 DEF Only
    <2>3. TypeOK' BY <2>2, <1>4, <1>7 DEF TypeOK, database, limits
    <2> QED BY <1>1, <1>4, <1>7, <2>1, <2>3
<1>8. CASE /\ Safe /\ Goto(p, "install")
           /\ row' = [gen |-> row.gen + 1, print |-> New(p), failed |-> 0]
           /\ pending' = None /\ stored' = call[p].config
           /\ work' = CommittedWork(p)
    <2>1. Only(p) /\ Same(p) /\ call'[p] # None /\ call'[p].at = "install"
        BY <1>1, <1>8, GotoFacts, AbsentAssumption DEF Points
    <2>2. call' \in [Proc -> Calls \cup {None}] BY <2>1 DEF Only
    <2>3. row' \in Rows /\ row'.print = New(p) /\ row'.failed = 0
        <3>1. row.gen + 1 \in Gens BY <1>3 DEF Rows, Gens
        <3> QED BY <3>1, <1>2, <1>8 DEF Rows
    <2>4. work' \in Works
        <3>1. Impacted(Impacts(Effective(env[p], call[p].old), New(p))) \in Works
            <4> DEFINE s == Impacts(Effective(env[p], call[p].old), New(p))
            <4>1. s \in SUBSET Parts BY ImpactsType
            <4> HIDE DEF s
            <4>2. Impacted(s) \in Works BY <4>1, ImpactedType
            <4> QED BY <4>2 DEF s
        <3> QED BY <3>1, <1>3, <1>8 DEF CommittedWork
    <2>5. TypeOK' BY <2>2, <2>3, <2>4, <1>2, <1>4, <1>8 DEF TypeOK, Rows, Works, limits
    <2> QED BY <1>1, <1>4, <1>8, <2>1, <2>3, <2>5
<1>9. \/ End(p) /\ UNCHANGED <<database, work>>
      \/ changed /\ Goto(p, "fail") /\ UNCHANGED <<database, work>>
      \/ Goto(p, "defer") /\ UNCHANGED <<database, work>>
      \/ /\ Safe /\ Goto(p, "install")
         /\ row' = [gen |-> row.gen + 1, print |-> New(p), failed |-> 0]
         /\ pending' = None /\ stored' = call[p].config
         /\ work' = CommittedWork(p)
    BY DEF Commit, CommittedWork
<1> QED BY <1>5, <1>6, <1>7, <1>8, <1>9

LEMMA DeferFacts ==
    ASSUME TypeOK, CallOK, NEW p \in Proc, Defer(p)
    PROVE  /\ TypeOK' /\ Only(p) /\ call'[p] = None
           /\ call[p] # None /\ call[p].at = "defer"
           /\ row'.gen = row.gen /\ row'.print = row.print /\ row'.failed \in {0, row.failed}
           /\ \/ pending' = pending
              \/ pending = None /\ pending'.base = row.gen
           /\ UNCHANGED <<stored, input, env, runtime, task>>
<1>1. Only(p) /\ call'[p] = None BY EndFacts DEF Defer
<1>2. call' \in [Proc -> Calls \cup {None}] BY <1>1 DEF Only
<1>3. call[p] # None /\ call[p].at = "defer" /\ call[p] \in Calls BY DEF Defer, At, TypeOK
<1>4. row \in Rows BY DEF TypeOK, Rows
<1>5. CASE UNCHANGED <<row, pending>>
    <2>1. TypeOK' BY <1>2, <1>5 DEF TypeOK, Defer, input, limits
    <2> QED BY <1>1, <1>3, <1>5, <2>1 DEF Defer
<1>6. CASE /\ call[p].mode = "save" /\ pending = None
           /\ pending' = [id |-> call[p].id, config |-> call[p].config, base |-> row.gen]
           /\ row' = [row EXCEPT !.failed = 0]
    <2>1. row' \in Rows /\ row'.gen = row.gen /\ row'.print = row.print /\ row'.failed = 0
        BY <1>4, <1>6 DEF Rows
    <2>2. pending' \in Pendings \cup {None} /\ pending'.base = row.gen
        <3>1. call[p].id \in Ids
            BY <1>3, <1>6 DEF CallOK, Proper
        <3> QED BY <3>1, <1>3, <1>4, <1>6 DEF Pendings, Calls, Rows
    <2>3. TypeOK' BY <1>2, <2>1, <2>2 DEF TypeOK, Rows, Pendings, Defer, input, limits
    <2> QED BY <1>1, <1>3, <1>6, <2>1, <2>2, <2>3 DEF Defer
<1> QED BY <1>5, <1>6 DEF Defer

LEMMA FailFacts ==
    ASSUME TypeOK, NEW p \in Proc, Fail(p)
    PROVE  /\ TypeOK' /\ Only(p) /\ call'[p] = None
           /\ call[p] # None /\ call[p].at = "fail"
           /\ row'.gen = row.gen /\ row'.print = row.print
           /\ \/ row' = row /\ pending' = pending
              \/ /\ call[p].mode = "pending" /\ pending # None /\ pending.id = call[p].id
                 /\ pending' = None
           /\ UNCHANGED <<stored, input, env, runtime, task>>
<1>1. Only(p) /\ call'[p] = None BY EndFacts DEF Fail
<1>2. call' \in [Proc -> Calls \cup {None}] BY <1>1 DEF Only
<1>3. call[p] # None /\ call[p].at = "fail" /\ call[p] \in Calls BY DEF Fail, At, TypeOK
<1>4. row \in Rows BY DEF TypeOK, Rows
<1>5. CASE UNCHANGED <<row, pending>>
    <2>1. TypeOK' BY <1>2, <1>5 DEF TypeOK, Fail, input, limits
    <2> QED BY <1>1, <1>3, <1>5, <2>1 DEF Fail
<1>6. CASE /\ call[p].mode = "pending" /\ pending # None /\ pending.id = call[p].id
           /\ row' = [row EXCEPT !.failed = call[p].id] /\ pending' = None
    <2>1. call[p].id \in Ids \cup {0} BY <1>3 DEF Calls
    <2>2. row' \in Rows /\ row'.gen = row.gen /\ row'.print = row.print
        BY <1>4, <1>6, <2>1 DEF Rows
    <2>3. TypeOK' BY <1>2, <1>6, <2>2 DEF TypeOK, Rows, Fail, input, limits
    <2> QED BY <1>1, <1>3, <1>6, <2>2, <2>3 DEF Fail
<1> QED BY <1>5, <1>6 DEF Fail

\* A start that binds its process, or gives up.
LEMMA BoundFacts ==
    ASSUME TypeOK, NEW p \in Proc, NEW g \in Gens, At(p, "bind"), Bound(p, g)
    PROVE  /\ Only(p) /\ call'[p] = None
           /\ runtime' \in [Proc -> Installed \cup {None}]
           /\ runtime'[p] # None => runtime'[p].config = New(p)
           /\ \A q \in Proc : q # p => runtime'[q] = runtime[q]
<1>1. Only(p) /\ call'[p] = None BY EndFacts DEF Bound
<1>2. New(p) \in Runtimes
    <2>1. env[p] \in Env /\ call[p] \in Calls BY DEF TypeOK, At
    <2> QED BY <2>1, EffectiveType DEF New, Calls
<1> DEFINE new == [gen |-> g, config |-> New(p)]
<1>3. new \in Installed /\ new.config = New(p) BY <1>2 DEF Installed
<1>4. runtime' = [runtime EXCEPT ![p] = new] BY DEF Bound
<1> HIDE DEF new
<1>5. runtime \in [Proc -> Installed \cup {None}] BY DEF TypeOK, Installed
<1>6. /\ runtime' \in [Proc -> Installed \cup {None}] /\ runtime'[p] = new
      /\ \A q \in Proc : q # p => runtime'[q] = runtime[q]
    BY <1>3, <1>4, <1>5
<1> QED BY <1>1, <1>3, <1>6

LEMMA InitializeFacts ==
    ASSUME TypeOK, NEW p \in Proc, Initialize(p)
    PROVE  /\ TypeOK' /\ Only(p) /\ call'[p] = None
           /\ call[p] # None /\ call[p].at = "bind"
           /\ UNCHANGED <<pending, stored, input, env, task>>
           /\ \A q \in Proc : q # p => runtime'[q] = runtime[q]
           /\ \/ UNCHANGED <<row, runtime>>
              \/ /\ row.print \in {None, New(p)}
                 /\ row'.gen = row.gen /\ row'.print = New(p) /\ row'.failed = row.failed
                 /\ runtime'[p] # None => runtime'[p].config = New(p)
<1>1. call[p] # None /\ call[p].at = "bind" /\ call[p] \in Calls BY DEF Initialize, At, TypeOK
<1>2. row \in Rows BY DEF TypeOK, Rows
<1>3. UNCHANGED <<pending, stored, input, env, task, limits>> BY DEF Initialize
<1>4. CASE End(p) /\ UNCHANGED <<row, runtime>>
    <2>1. Only(p) /\ call'[p] = None BY <1>4, EndFacts
    <2>2. call' \in [Proc -> Calls \cup {None}] BY <2>1 DEF Only
    <2>3. TypeOK' BY <2>2, <1>3, <1>4 DEF TypeOK, input, limits
    <2> QED BY <1>1, <1>3, <1>4, <2>1, <2>3
<1>5. CASE /\ row.print \in {None, New(p)}
           /\ row' = [row EXCEPT !.print = New(p)] /\ Bound(p, row.gen)
    <2>1. row.gen \in Gens BY <1>2 DEF Rows
    <2>2. At(p, "bind") BY DEF Initialize
    <2>3. /\ Only(p) /\ call'[p] = None
          /\ runtime' \in [Proc -> Installed \cup {None}]
          /\ runtime'[p] # None => runtime'[p].config = New(p)
          /\ \A q \in Proc : q # p => runtime'[q] = runtime[q]
        BY <1>5, <2>1, <2>2, BoundFacts
    <2>4. New(p) \in Runtimes
        <3>1. env[p] \in Env BY DEF TypeOK
        <3> QED BY <3>1, <1>1, EffectiveType DEF New, Calls
    <2>5. row' \in Rows /\ row'.gen = row.gen /\ row'.print = New(p) /\ row'.failed = row.failed
        BY <1>2, <1>5, <2>4 DEF Rows
    <2>6. call' \in [Proc -> Calls \cup {None}] BY <2>3 DEF Only
    <2>7. TypeOK' BY <2>3, <2>5, <2>6, <1>3 DEF TypeOK, Rows, Installed, input, limits
    <2> QED BY <1>1, <1>3, <1>5, <2>3, <2>5, <2>7
<1> QED BY <1>4, <1>5 DEF Initialize

LEMMA ReconcileFacts ==
    ASSUME TypeOK, NEW p \in Proc, Reconcile(p)
    PROVE  /\ TypeOK' /\ Only(p) /\ call'[p] = None
           /\ call[p] # None /\ call[p].at = "bind"
           /\ UNCHANGED <<stored, slot, op, effect, env, task>>
           /\ \A q \in Proc : q # p => runtime'[q] = runtime[q]
           /\ \/ UNCHANGED <<row, pending, work, runtime>>
              \/ /\ effect = None /\ row.print # None
                 /\ row'.gen = row.gen + 1 /\ row'.print = New(p) /\ row'.failed = row.failed
                 /\ pending # None /\ pending' # None => pending'.base = row.gen + 1
                 /\ pending = None => pending' = None
                 /\ work' = IF slot.state = "empty" THEN work ELSE Impacted({"prepared"})
                 /\ runtime'[p] # None => runtime'[p].config = New(p)
<1>1. call[p] # None /\ call[p].at = "bind" /\ call[p] \in Calls BY DEF Reconcile, At, TypeOK
<1>2. row \in Rows /\ work \in Works /\ pending \in Pendings \cup {None}
    BY DEF TypeOK, Rows, Works, Pendings
<1>3. UNCHANGED <<stored, slot, op, effect, env, task, limits>> BY DEF Reconcile
<1>4. CASE End(p) /\ UNCHANGED <<row, pending, work, runtime>>
    <2>1. Only(p) /\ call'[p] = None BY <1>4, EndFacts
    <2>2. call' \in [Proc -> Calls \cup {None}] BY <2>1 DEF Only
    <2>3. TypeOK' BY <2>2, <1>3, <1>4 DEF TypeOK, limits
    <2> QED BY <1>1, <1>3, <1>4, <2>1, <2>3
<1>5. CASE /\ effect = None /\ Activation = call[p].seen
           /\ row' = [row EXCEPT !.gen = row.gen + 1, !.print = New(p)]
           /\ pending' = Rebased
           /\ work' = IF slot.state = "empty" THEN work ELSE Impacted({"prepared"})
           /\ Bound(p, row.gen + 1)
    <2>1. row.gen + 1 \in Gens BY <1>2 DEF Rows, Gens
    <2>2. At(p, "bind") BY DEF Reconcile
    <2>3. /\ Only(p) /\ call'[p] = None
          /\ runtime' \in [Proc -> Installed \cup {None}]
          /\ runtime'[p] # None => runtime'[p].config = New(p)
          /\ \A q \in Proc : q # p => runtime'[q] = runtime[q]
        BY <1>5, <2>1, <2>2, BoundFacts
    <2>4. New(p) \in Runtimes
        <3>1. env[p] \in Env BY DEF TypeOK
        <3> QED BY <3>1, <1>1, EffectiveType DEF New, Calls
    <2>5. row' \in Rows /\ row'.gen = row.gen + 1 /\ row'.print = New(p) /\ row'.failed = row.failed
        BY <1>2, <1>5, <2>1, <2>4 DEF Rows
    <2>6. row.print # None
        <3>1. Activation.print = row.print BY ActivationType
        <3>2. call[p].seen.print # None BY DEF Reconcile
        <3> QED BY <3>1, <3>2, <1>5
    <2>7. /\ pending' \in Pendings \cup {None}
          /\ pending # None /\ pending' # None => pending'.base = row.gen + 1
          /\ pending = None => pending' = None
        <3>1. CASE pending = None BY <3>1, <1>5 DEF Rebased
        <3>2. CASE pending # None
            <4>1. pending' = [pending EXCEPT !.base = row.gen + 1] BY <3>2, <1>5 DEF Rebased
            <4> QED BY <4>1, <3>2, <1>2, <2>1 DEF Pendings
        <3> QED BY <3>1, <3>2
    <2>8. work' \in Works
        <3>1. {"prepared"} \in SUBSET Parts BY DEF Parts
        <3>2. Impacted({"prepared"}) \in Works BY <3>1, ImpactedType
        <3> QED BY <3>2, <1>2, <1>5
    <2>9. call' \in [Proc -> Calls \cup {None}] BY <2>3 DEF Only
    <2>10. TypeOK'
        BY <2>3, <2>5, <2>7, <2>8, <2>9, <1>3
        DEF TypeOK, Rows, Pendings, Works, Installed, limits
    <2> QED BY <1>1, <1>3, <1>5, <2>3, <2>5, <2>6, <2>7, <2>10
<1> QED BY <1>4, <1>5 DEF Reconcile

\* A process that ends takes its call, its runtime and its work along.
LEMMA StopFacts ==
    ASSUME TypeOK, NEW p \in Proc, Stop(p)
    PROVE  /\ TypeOK' /\ Only(p) /\ call'[p] = None
           /\ runtime'[p] = None /\ \A q \in Proc : q # p => runtime'[q] = runtime[q]
           /\ \A r \in Request : task'[r] # None => task'[r] = task[r] /\ task[r].proc # p
           /\ slot'.state = slot.state
           /\ UNCHANGED <<database, work, effect, env>>
<1>1. Only(p) /\ call'[p] = None BY EndFacts DEF Stop
<1>2. call' \in [Proc -> Calls \cup {None}] BY <1>1 DEF Only
<1>3. /\ runtime' \in [Proc -> Installed \cup {None}] /\ runtime'[p] = None
      /\ \A q \in Proc : q # p => runtime'[q] = runtime[q]
    <2>1. runtime \in [Proc -> Installed \cup {None}] BY DEF TypeOK, Installed
    <2> QED BY <2>1 DEF Stop
<1>4. /\ task' \in [Request -> Tasks \cup {None}]
      /\ \A r \in Request : task'[r] # None => task'[r] = task[r] /\ task[r].proc # p
    <2>1. task \in [Request -> Tasks \cup {None}] BY DEF TypeOK
    <2>2. task' = [r \in Request |-> IF task[r] # None /\ task[r].proc = p THEN None ELSE task[r]]
        BY DEF Stop
    <2> QED BY <2>1, <2>2
<1>5. slot' \in Slots /\ slot'.state = slot.state
    <2>1. slot \in Slots BY DEF TypeOK, Slots
    <2>2. slot' \in {slot, [slot EXCEPT !.proc = None]} BY DEF Stop
    <2>3. [slot EXCEPT !.proc = None] \in Slots
          /\ [slot EXCEPT !.proc = None].state = slot.state
        BY <2>1 DEF Slots
    <2> QED BY <2>1, <2>2, <2>3
<1>6. op' \in Ops \cup {None}
    <2>1. op \in Ops \cup {None} BY DEF TypeOK, Ops
    <2>2. op # None => [op EXCEPT !.proc = None] \in Ops BY <2>1 DEF Ops
    <2>3. op' = op \/ (op # None /\ op' = [op EXCEPT !.proc = None]) BY DEF Stop
    <2> QED BY <2>1, <2>2, <2>3
<1>7. TypeOK' BY <1>2, <1>3, <1>4, <1>5, <1>6 DEF TypeOK, Installed, Slots, Ops, Stop, database, limits
<1> QED BY <1>1, <1>3, <1>4, <1>5, <1>7 DEF Stop

\* What is done to the input beside the requests and workers.
Handling ==
    \/ \E p \in Proc : Reserve(p) \/ Open(p) \/ Close(p) \/ Recover(p) \/ Interrupt(p)
    \/ EndEffect \/ Lapse \/ LapseWork

\* The calls, the configurations and what is installed stay.
Beside == UNCHANGED <<database, env, runtime, call>>

\* A new input has a new workflow; nothing else is prepared, and only a process
\* with the active configuration takes an empty slot.
Handled ==
    /\ Beside /\ task' = task /\ effect' \in {effect, None}
    /\ slot'.state # "empty" => slot.state # "empty" \/ \E p \in Proc : Admitted(p)
    /\ \/ work' = work /\ (slot'.state = "active" => slot.state = "active")
       \/ work'.prepared = None /\ work'.descriptions = None

LEMMA HandlingFacts == ASSUME TypeOK, Handling PROVE TypeOK' /\ Handled
<1>1. slot \in Slots /\ work \in Works /\ op \in Ops \cup {None}
    BY DEF TypeOK, Slots, Works, Ops
<1>2. ASSUME NEW p \in Proc, Reserve(p) PROVE TypeOK' /\ Handled
    <2>1. tasks' \in Nat BY <1>2 DEF Reserve, TypeOK
    <2>2. slot' \in Slots /\ slot'.state = "moving" BY <1>2 DEF Reserve, Slots
    <2>3. TypeOK' BY <1>2, <2>1, <2>2 DEF TypeOK, Slots, Reserve, database
    <2> QED BY <1>2, <2>2, <2>3 DEF Reserve, Beside, Handled
<1>3. ASSUME NEW p \in Proc, Open(p) PROVE TypeOK' /\ Handled
    <2>1. slot.state = "moving" BY <1>3 DEF Open
    <2>2. slot' \in Slots BY <1>1, <1>3 DEF Open, Slots
    <2>3. work' \in Works /\ work'.prepared = None /\ work'.descriptions = None
        <3>1. work.rev + 1 \in Nat BY <1>1 DEF Works
        <3>2. work' = [NoWork EXCEPT !.rev = work.rev + 1] BY <1>3 DEF Open
        <3> QED BY <3>1, <3>2 DEF NoWork, Works
    <2>4. TypeOK' BY <1>3, <2>2, <2>3 DEF TypeOK, Slots, Works, Open, database, limits
    <2> QED BY <1>3, <2>1, <2>3, <2>4 DEF Open, Beside, Handled
<1>4. ASSUME NEW p \in Proc, Close(p) PROVE TypeOK' /\ Handled
    <2>1. slot' \in Slots /\ slot'.state = "empty" BY <1>4 DEF Close, Slots
    <2>2. TypeOK' BY <1>4, <2>1 DEF TypeOK, Slots, Close, database, limits
    <2> QED BY <1>4, <2>1, <2>2 DEF Close, Beside, Handled
<1>5. ASSUME NEW p \in Proc, Recover(p) PROVE TypeOK' /\ Handled
    <2>1. slot' \in Slots /\ slot'.state = slot.state BY <1>1, <1>5 DEF Recover, Slots
    <2>2. TypeOK' BY <1>5, <2>1 DEF TypeOK, Slots, Recover, database, limits
    <2> QED BY <1>5, <2>1, <2>2 DEF Recover, Beside, Handled
<1>6. ASSUME NEW p \in Proc, Interrupt(p) PROVE TypeOK' /\ Handled
    <2>1. TypeOK' BY <1>6 DEF TypeOK, Interrupt, database, limits
    <2> QED BY <1>6, <2>1 DEF Interrupt, Beside, Handled
<1>7. ASSUME EndEffect PROVE TypeOK' /\ Handled
    <2>1. TypeOK' BY <1>7 DEF TypeOK, EndEffect, database, limits
    <2> QED BY <1>7, <2>1 DEF EndEffect, Beside, Handled
<1>8. ASSUME Lapse PROVE TypeOK' /\ Handled
    <2>1. slot' \in Slots /\ slot'.state = slot.state BY <1>1, <1>8 DEF Lapse, Slots
    <2>2. lapses' \in Nat BY <1>8 DEF Lapse, Late, TypeOK
    <2>3. TypeOK' BY <1>8, <2>1, <2>2 DEF TypeOK, Slots, Lapse, database
    <2> QED BY <1>8, <2>1, <2>3 DEF Lapse, Beside, Handled
<1>9. ASSUME LapseWork PROVE TypeOK' /\ Handled
    <2>1. op' \in Ops BY <1>1, <1>9 DEF LapseWork, Ops
    <2>2. lapses' \in Nat BY <1>9 DEF LapseWork, Late, TypeOK
    <2>3. TypeOK' BY <1>9, <2>1, <2>2 DEF TypeOK, Ops, LapseWork, database
    <2> QED BY <1>9, <2>3 DEF LapseWork, Beside, Handled
<1> QED BY <1>2, <1>3, <1>4, <1>5, <1>6, <1>7, <1>8, <1>9 DEF Handling

\* A request or worker begins, with the configuration its process has installed.
LEMMA BeginFacts ==
    ASSUME TypeOK, NEW r \in Request, NEW p \in Proc,
           \/ Resume(r, p)
           \/ \E kind \in {"command", "operation"}, part \in Parts : Begin(r, p, kind, part)
    PROVE  /\ TypeOK' /\ Beside /\ UNCHANGED <<slot, work, effect>>
           /\ runtime[p] # None /\ ~Closed(p)
           /\ task'[r] \in Tasks /\ task'[r].proc = p /\ task'[r].runtime = runtime[p].config
           /\ \A s \in Request : s # r => task'[s] = task[s]
<1>1. /\ op \in Ops \cup {None} /\ work \in Works /\ runtime \in [Proc -> Installed \cup {None}]
      /\ task \in [Request -> Tasks \cup {None}]
    BY DEF TypeOK, Ops, Works, Installed
<1>2. runtime[p] # None /\ ~Closed(p) BY DEF Resume, Begin, Admitted
<1>3. runtime[p].config \in Runtimes BY <1>1, <1>2 DEF Installed
<1>4. UNCHANGED <<database, slot, work, effect, env, runtime, call, starts, saves, lapses>>
    BY DEF Resume, Begin, limits
<1>5. tasks' \in Nat BY DEF Resume, Begin, limits, TypeOK
<1>6. op' \in Ops \cup {None}
    <2>1. CASE Resume(r, p)
        <3>1. op # None /\ op' = [op EXCEPT !.proc = p, !.live = TRUE] BY <2>1 DEF Resume
        <3> QED BY <1>1, <3>1 DEF Ops
    <2>2. ASSUME NEW kind \in {"command", "operation"}, NEW part \in Parts, Begin(r, p, kind, part)
          PROVE  op' \in Ops \cup {None}
        <3>1. op' = op \/ op' = [proc |-> p, live |-> TRUE, part |-> part, rev |-> work.rev]
            BY <2>2 DEF Begin
        <3>2. CASE op' = op BY <1>1, <3>2
        <3>3. CASE op' = [proc |-> p, live |-> TRUE, part |-> part, rev |-> work.rev]
            BY <1>1, <3>3 DEF Ops, Works
        <3> QED BY <3>1, <3>2, <3>3
    <2> QED BY <2>1, <2>2
<1>7. PICK w \in Tasks :
          /\ task' = [task EXCEPT ![r] = w]
          /\ w.proc = p /\ w.runtime = runtime[p].config
    <2>1. CASE Resume(r, p)
        <3> DEFINE w == [proc |-> p, kind |-> "operation", part |-> op.part,
                         rev |-> op.rev, runtime |-> runtime[p].config]
        <3>1. op # None /\ task' = [task EXCEPT ![r] = w] BY <2>1 DEF Resume
        <3>2. w \in Tasks /\ w.proc = p /\ w.runtime = runtime[p].config
            BY <1>1, <1>3, <3>1 DEF Tasks, Ops
        <3> QED BY <3>1, <3>2
    <2>2. ASSUME NEW kind \in {"command", "operation"}, NEW part \in Parts, Begin(r, p, kind, part)
          PROVE  \E w \in Tasks : /\ task' = [task EXCEPT ![r] = w]
                                  /\ w.proc = p /\ w.runtime = runtime[p].config
        <3> DEFINE w == [proc |-> p, kind |-> kind, part |-> part, rev |-> work.rev,
                         runtime |-> runtime[p].config]
        <3>1. task' = [task EXCEPT ![r] = w] BY <2>2 DEF Begin
        <3>2. w \in Tasks /\ w.proc = p /\ w.runtime = runtime[p].config
            BY <1>1, <1>3 DEF Tasks, Works
        <3> QED BY <3>1, <3>2
    <2> QED BY <2>1, <2>2
<1>8. /\ task' \in [Request -> Tasks \cup {None}] /\ task'[r] = w
      /\ \A s \in Request : s # r => task'[s] = task[s]
    BY <1>1, <1>7
<1>9. TypeOK' BY <1>4, <1>5, <1>6, <1>8 DEF TypeOK, Ops, database
<1> QED BY <1>2, <1>4, <1>7, <1>8, <1>9 DEF Beside

LEMMA BeginEffectFacts ==
    ASSUME TypeOK, NEW r \in Request, BeginEffect(r)
    PROVE  /\ TypeOK' /\ Beside /\ UNCHANGED <<slot, work, task>>
           /\ task[r] # None /\ Admitted(task[r].proc) /\ effect' = task[r].runtime
<1>1. task[r] \in Tasks BY DEF TypeOK, BeginEffect
<1>2. tasks' \in Nat BY DEF BeginEffect, TypeOK
<1>3. effect' \in Runtimes BY <1>1 DEF BeginEffect, Tasks
<1>4. TypeOK' BY <1>2, <1>3 DEF TypeOK, BeginEffect, database
<1> QED BY <1>4 DEF BeginEffect, Beside

LEMMA FinishFacts ==
    ASSUME TypeOK, NEW r \in Request, Finish(r)
    PROVE  /\ TypeOK' /\ Beside /\ UNCHANGED <<slot, effect>>
           /\ task[r] # None /\ task'[r] = None
           /\ \A s \in Request : s # r => task'[s] = task[s]
           /\ \/ work' = work
              \/ work'.prepared = task[r].runtime /\ work'.descriptions = None
              \/ /\ work'.prepared = work.prepared /\ work'.descriptions = task[r].runtime
                 /\ work.rev = task[r].rev
<1>1. /\ op \in Ops \cup {None} /\ work \in Works /\ task \in [Request -> Tasks \cup {None}]
      /\ task[r] \in Tasks
    BY DEF TypeOK, Ops, Works, Finish
<1>2. UNCHANGED <<database, slot, effect, env, runtime, call, limits>> BY DEF Finish
<1>3. op' \in Ops \cup {None} BY <1>1 DEF Finish
<1>4. /\ task' \in [Request -> Tasks \cup {None}] /\ task'[r] = None
      /\ \A s \in Request : s # r => task'[s] = task[s]
    BY <1>1 DEF Finish
<1> DEFINE one == [work EXCEPT !.rev = work.rev + 1, !.prepared = task[r].runtime,
                               !.descriptions = None]
           two == [work EXCEPT !.rev = work.rev + 1, !.descriptions = task[r].runtime,
                               !.done = task[r].kind = "operation"]
<1>5. work' = work \/ work' = one \/ (work' = two /\ work.rev = task[r].rev) BY DEF Finish
<1>6. work.rev + 1 \in Nat /\ task[r].runtime \in Runtimes BY <1>1 DEF Works, Tasks
<1>7. one \in Works /\ one.prepared = task[r].runtime /\ one.descriptions = None
    BY <1>1, <1>6 DEF Works
<1>8. two \in Works /\ two.prepared = work.prepared /\ two.descriptions = task[r].runtime
    BY <1>1, <1>6 DEF Works
<1> HIDE DEF one, two
<1>9. work' \in Works BY <1>1, <1>5, <1>7, <1>8
<1>10. TypeOK' BY <1>2, <1>3, <1>4, <1>9 DEF TypeOK, Ops, Works, database, limits
<1> QED BY <1>1, <1>2, <1>4, <1>5, <1>7, <1>8, <1>10 DEF Beside, Finish

-----------------------------------------------------------------------------
(* Any number of processes.                                                *)

LEMMA ConfigInit == Init => ConfigInv
<1> SUFFICES ASSUME Init PROVE ConfigInv OBVIOUS
<1>1. TypeOK BY ConfigAssumption DEF Init, TypeOK, NoWork, Gens
<1>2. CallOK /\ TaskOK /\ ClosedOK /\ PrintOK
    BY DEF Init, CallOK, TaskOK, ClosedOK, Closed, PrintOK
<1>3. EffectsUnderActive /\ PendingIsCurrent
    BY DEF Init, EffectsUnderActive, PendingIsCurrent
<1> QED BY <1>1, <1>2, <1>3 DEF ConfigInv

\* Nothing but the call of p has changed, and the call is a proper one.
LEMMA CallGoesOn ==
    ASSUME ConfigInv, NEW p \in Proc, TypeOK', Rest, Only(p),
           call'[p] # None => Proper(call'[p], runtime[p]),
           call'[p] # None /\ call'[p].at \in {"commit", "install"} => ~Borrowed(p)
    PROVE  ConfigInv'
<1>1. CallOK' BY DEF ConfigInv, CallOK, Only, Rest
<1>2. TaskOK' BY DEF ConfigInv, TaskOK, Rest
<1>3. ClosedOK' BY DEF ConfigInv, ClosedOK, Closed, Borrowed, Only, Rest
<1>4. PrintOK' BY DEF ConfigInv, PrintOK, Rest, database, input
<1>5. EffectsUnderActive' /\ PendingIsCurrent'
    BY DEF ConfigInv, EffectsUnderActive, PendingIsCurrent, Rest, database, input
<1> QED BY <1>1, <1>2, <1>3, <1>4, <1>5 DEF ConfigInv

\* The steps of a call that change only the call.
LEMMA CallsInv ==
    ASSUME ConfigInv, NEW p \in Proc,
           \/ \E mode \in {"save", "import"}, c \in Config : Save(p, mode, c)
           \/ \E e \in Env : Start(p, e)
           \/ Poll(p) \/ Cancel(p) \/ Fetch(p) \/ LoadStored(p) \/ LoadActivation(p)
           \/ Build(p) \/ Admit(p)
    PROVE  ConfigInv'
<1> USE DEF ConfigInv
<1>1. ASSUME NEW mode \in {"save", "import"}, NEW c \in Config, Save(p, mode, c) PROVE ConfigInv'
    <2>1. /\ TypeOK' /\ Rest /\ Only(p) /\ runtime[p] # None
          /\ call'[p].at = "stored" /\ call'[p].mode = mode /\ call'[p].id \in Ids
        BY <1>1, SaveFacts
    <2>2. Proper(call'[p], runtime[p]) BY <2>1 DEF Proper
    <2> QED BY <2>1, <2>2, CallGoesOn
<1>2. ASSUME NEW e \in Env, Start(p, e) PROVE ConfigInv'
    <2>1. /\ TypeOK' /\ Rest /\ Only(p) /\ runtime[p] = None
          /\ call'[p].at = "stored" /\ call'[p].mode = "start"
        BY <1>2, StartFacts
    <2>2. Proper(call'[p], runtime[p]) BY <2>1 DEF Proper
    <2> QED BY <2>1, <2>2, CallGoesOn
<1>3. ASSUME Poll(p) PROVE ConfigInv'
    <2>1. /\ TypeOK' /\ Rest /\ Only(p) /\ runtime[p] # None
          /\ call'[p].at = "fetch" /\ call'[p].mode = "pending"
        BY <1>3, PollFacts
    <2>2. Proper(call'[p], runtime[p]) BY <2>1 DEF Proper
    <2> QED BY <2>1, <2>2, CallGoesOn
<1>4. ASSUME Cancel(p) PROVE ConfigInv'
    <2>1. TypeOK' /\ Rest /\ Only(p) /\ call'[p] = None BY <1>4, CancelFacts
    <2> QED BY <2>1, CallGoesOn
<1>5. ASSUME Fetch(p) PROVE ConfigInv'
    <2>1. /\ TypeOK' /\ Rest /\ Only(p) /\ call[p] # None /\ call[p].at = "fetch"
          /\ call'[p] # None =>
               call'[p].at = "stored" /\ call'[p].mode = call[p].mode /\ call'[p].id \in Ids
        BY <1>5, FetchFacts
    <2>2. call'[p] # None => Proper(call'[p], runtime[p]) BY <2>1 DEF CallOK, Proper
    <2> QED BY <2>1, <2>2, CallGoesOn
<1>6. ASSUME LoadStored(p) PROVE ConfigInv'
    <2>1. /\ TypeOK' /\ Rest /\ Only(p) /\ call[p] # None /\ call[p].at = "stored"
          /\ call'[p] # None => call'[p].at = "activation" /\ Same(p)
        BY <1>6, LoadStoredFacts
    <2>2. call'[p] # None => Proper(call'[p], runtime[p]) BY <2>1 DEF CallOK, Proper, Same
    <2> QED BY <2>1, <2>2, CallGoesOn
<1>7. ASSUME LoadActivation(p) PROVE ConfigInv'
    <2>1. /\ TypeOK' /\ Rest /\ Only(p) /\ call[p] # None /\ call[p].at = "activation"
          /\ call'[p] # None =>
               /\ Same(p) /\ Goes(p, call'[p].at)
               /\ call'[p].at \in {"bind", "build", "fail", "defer", "persist", "clear"}
        BY <1>7, LoadActivationFacts
    <2>2. Proper(call[p], runtime[p]) BY <2>1 DEF CallOK
    <2>3. ASSUME call'[p] # None PROVE Proper(call'[p], runtime[p])
        <3>1. Same(p) /\ Goes(p, call'[p].at) BY <2>1, <2>3
        <3>2. CASE call[p].mode = "start"
            <4>1. call'[p].at = "bind" BY <3>1, <3>2 DEF Goes
            <4> QED BY <2>2, <3>1, <3>2, <4>1 DEF Proper, Same
        <3>3. CASE call[p].mode # "start"
            <4>1. call'[p].at # "bind" BY <3>1, <3>3 DEF Goes
            <4> QED BY <2>2, <3>1, <3>3, <4>1 DEF Proper, Same
        <3> QED BY <3>2, <3>3
    <2> QED BY <2>1, <2>3, CallGoesOn
<1>8. ASSUME Build(p) PROVE ConfigInv'
    <2>1. /\ TypeOK' /\ Rest /\ Only(p) /\ Same(p) /\ call[p] # None /\ call[p].at = "build"
          /\ call'[p].at \in {"fail", "admit"}
        BY <1>8, BuildFacts
    <2>2. Proper(call'[p], runtime[p]) BY <2>1 DEF CallOK, Proper, Same
    <2> QED BY <2>1, <2>2, CallGoesOn
<1>9. ASSUME Admit(p) PROVE ConfigInv'
    <2>1. /\ TypeOK' /\ Rest /\ Only(p) /\ Same(p) /\ call[p] # None /\ call[p].at = "admit"
          /\ \/ call'[p].at = "commit" /\ ~Borrowed(p)
             \/ call'[p].at = "defer"
        BY <1>9, AdmitFacts
    <2>2. Proper(call'[p], runtime[p]) BY <2>1 DEF CallOK, Proper, Same
    <2> QED BY <2>1, <2>2, CallGoesOn
<1> QED BY <1>1, <1>2, <1>3, <1>4, <1>5, <1>6, <1>7, <1>8, <1>9

\* A call that ends, or goes on, and has changed the activation rows.
LEMMA PersistInv == ASSUME ConfigInv, NEW p \in Proc, Persist(p) PROVE ConfigInv'
<1> USE DEF ConfigInv
<1>1. /\ TypeOK' /\ Only(p) /\ Same(p)
      /\ call[p] # None /\ call[p].at = "persist" /\ call'[p].at = "clear"
      /\ UNCHANGED <<row, pending, input, env, runtime, task>>
    BY PersistFacts
<1>2. Proper(call'[p], runtime[p]) BY <1>1 DEF CallOK, Proper, Same
<1>3. CallOK' /\ ClosedOK' BY <1>1, <1>2 DEF CallOK, ClosedOK, Closed, Borrowed, Only
<1>4. TaskOK' /\ PrintOK' BY <1>1 DEF TaskOK, PrintOK, input
<1>5. EffectsUnderActive' /\ PendingIsCurrent'
    BY <1>1 DEF EffectsUnderActive, PendingIsCurrent, input
<1> QED BY <1>1, <1>3, <1>4, <1>5

\* The end of a call that leaves the generation, the fingerprint and the pending
\* candidate current.
LEMMA CallEnds ==
    ASSUME ConfigInv, NEW p \in Proc, TypeOK', Only(p), call'[p] = None,
           UNCHANGED <<stored, input, env, runtime, task>>,
           row'.gen = row.gen, row'.print = row.print,
           pending' \in {pending, None} \/ pending'.base = row.gen
    PROVE  ConfigInv'
<1> USE DEF ConfigInv
<1>1. CallOK' /\ ClosedOK' BY DEF CallOK, ClosedOK, Closed, Borrowed, Only
<1>2. TaskOK' /\ PrintOK' BY DEF TaskOK, PrintOK, input
<1>3. EffectsUnderActive' /\ PendingIsCurrent'
    BY DEF EffectsUnderActive, PendingIsCurrent, input
<1> QED BY <1>1, <1>2, <1>3

LEMMA EndsInv ==
    ASSUME ConfigInv, NEW p \in Proc, Clear(p) \/ Defer(p) \/ Fail(p) PROVE ConfigInv'
<1> USE DEF ConfigInv
<1>1. CASE Clear(p)
    <2>1. /\ TypeOK' /\ Only(p) /\ call'[p] = None /\ row'.gen = row.gen /\ row'.print = row.print
          /\ UNCHANGED <<pending, stored, input, env, runtime, task>>
        BY <1>1, ClearFacts
    <2>2. pending' \in {pending, None} BY <2>1
    <2> QED BY <2>1, <2>2, CallEnds
<1>2. CASE Defer(p)
    <2>1. /\ TypeOK' /\ Only(p) /\ call'[p] = None /\ row'.gen = row.gen /\ row'.print = row.print
          /\ pending' = pending \/ pending'.base = row.gen
          /\ UNCHANGED <<stored, input, env, runtime, task>>
        BY <1>2, DeferFacts
    <2>2. pending' \in {pending, None} \/ pending'.base = row.gen BY <2>1
    <2> QED BY <2>1, <2>2, CallEnds
<1>3. CASE Fail(p)
    <2>1. /\ TypeOK' /\ Only(p) /\ call'[p] = None /\ row'.gen = row.gen /\ row'.print = row.print
          /\ pending' = pending \/ pending' = None
          /\ UNCHANGED <<stored, input, env, runtime, task>>
        BY <1>3, FailFacts
    <2>2. pending' \in {pending, None} BY <2>1
    <2> QED BY <2>1, <2>2, CallEnds
<1> QED BY <1>1, <1>2, <1>3

LEMMA CommitInv == ASSUME ConfigInv, NEW p \in Proc, Commit(p) PROVE ConfigInv'
<1> USE DEF ConfigInv
<1>1. /\ TypeOK' /\ Only(p) /\ call[p] # None /\ call[p].at = "commit"
      /\ UNCHANGED <<slot, op, effect, env, runtime, task>>
    BY CommitFacts
<1>2. ~Borrowed(p) BY <1>1 DEF ClosedOK, Closed
<1>3. call'[p] = None \/ (Same(p) /\ call'[p].at \in {"defer", "fail", "install"})
    BY CommitFacts
<1>4. call'[p] # None => Proper(call'[p], runtime[p]) BY <1>1, <1>3 DEF CallOK, Proper, Same
<1>5. CallOK' BY <1>1, <1>4 DEF CallOK, Only
<1>6. ClosedOK' BY <1>1, <1>2 DEF ClosedOK, Closed, Borrowed, Only
<1>7. TaskOK' BY <1>1 DEF TaskOK
<1>8. CASE UNCHANGED database
    <2>1. PrintOK' /\ EffectsUnderActive' /\ PendingIsCurrent'
        BY <1>1, <1>8 DEF PrintOK, EffectsUnderActive, PendingIsCurrent, database
    <2> QED BY <1>1, <1>5, <1>6, <1>7, <2>1
<1>9. CASE Safe /\ row'.print = New(p) /\ pending' = None
    <2>1. runtime[p] # None BY <1>1 DEF CallOK, Proper
    <2>2. row.print # None BY <2>1 DEF PrintOK
    <2>3. row'.print # None
        <3>1. env[p] \in Env /\ call[p] \in Calls BY <1>1 DEF TypeOK
        <3>2. New(p) \in Runtimes BY <3>1, EffectiveType DEF New, Calls
        <3> QED BY <1>9, <3>2, AbsentAssumption
    <2>4. PrintOK' BY <2>3 DEF PrintOK
    <2>5. EffectsUnderActive' BY <1>1, <1>9 DEF Safe, EffectsUnderActive
    <2>6. PendingIsCurrent' BY <1>9 DEF PendingIsCurrent
    <2> QED BY <1>1, <1>5, <1>6, <1>7, <2>4, <2>5, <2>6
<1> QED BY <1>8, <1>9, CommitFacts

LEMMA InstallInv == ASSUME ConfigInv, NEW p \in Proc, Install(p) PROVE ConfigInv'
<1> USE DEF ConfigInv
<1>1. /\ TypeOK' /\ Only(p) /\ call'[p] = None /\ call[p] # None /\ call[p].at = "install"
      /\ \A q \in Proc : q # p => runtime'[q] = runtime[q]
      /\ UNCHANGED <<database, input, env, task>>
    BY InstallFacts
<1>2. ~Borrowed(p) BY <1>1 DEF ClosedOK, Closed
<1>3. CallOK' BY <1>1 DEF CallOK, Only
<1>4. ClosedOK' BY <1>1 DEF ClosedOK, Closed, Borrowed, Only
<1>5. TaskOK'
    <2> SUFFICES ASSUME NEW r \in Request, task'[r] # None
                 PROVE  /\ runtime'[task'[r].proc] # None
                        /\ task'[r].runtime = runtime'[task'[r].proc].config
        BY DEF TaskOK
    <2>1. task'[r] = task[r] /\ task[r].proc # p /\ task[r].proc \in Proc
        BY <1>1, <1>2 DEF Borrowed, TypeOK, Tasks
    <2> QED BY <1>1, <2>1 DEF TaskOK
<1>6. row.print # None BY <1>1 DEF CallOK, Proper, PrintOK
<1>7. PrintOK' BY <1>1, <1>6 DEF PrintOK, database
<1>8. EffectsUnderActive' /\ PendingIsCurrent'
    BY <1>1 DEF EffectsUnderActive, PendingIsCurrent, database, input
<1> QED BY <1>1, <1>3, <1>4, <1>5, <1>7, <1>8

\* A process that is bound had no work.
LEMMA BindInv ==
    ASSUME ConfigInv, NEW p \in Proc, Initialize(p) \/ Reconcile(p) PROVE ConfigInv'
<1> USE DEF ConfigInv
<1>1. /\ TypeOK' /\ Only(p) /\ call'[p] = None /\ call[p] # None /\ call[p].at = "bind"
      /\ UNCHANGED <<stored, slot, op, effect, env, task>>
      /\ \A q \in Proc : q # p => runtime'[q] = runtime[q]
    BY InitializeFacts, ReconcileFacts DEF input
<1>2. runtime[p] = None BY <1>1 DEF CallOK, Proper
<1>3. CallOK' BY <1>1 DEF CallOK, Only
<1>4. ClosedOK' BY <1>1 DEF ClosedOK, Closed, Borrowed, Only
<1>5. TaskOK'
    <2> SUFFICES ASSUME NEW r \in Request, task'[r] # None
                 PROVE  /\ runtime'[task'[r].proc] # None
                        /\ task'[r].runtime = runtime'[task'[r].proc].config
        BY DEF TaskOK
    <2>1. task'[r] = task[r] /\ task[r].proc # p /\ task[r].proc \in Proc
        BY <1>1, <1>2 DEF TaskOK, TypeOK, Tasks
    <2> QED BY <1>1, <2>1 DEF TaskOK
<1>6. New(p) \in Runtimes
    <2>1. env[p] \in Env /\ call[p] \in Calls BY <1>1 DEF TypeOK
    <2> QED BY <2>1, EffectiveType DEF New, Calls
<1>7. CASE UNCHANGED <<row, pending, runtime>>
    <2>1. PrintOK' /\ EffectsUnderActive' /\ PendingIsCurrent'
        BY <1>1, <1>7 DEF PrintOK, EffectsUnderActive, PendingIsCurrent
    <2> QED BY <1>1, <1>3, <1>4, <1>5, <2>1
<1>8. CASE /\ pending' = pending /\ row.print \in {None, New(p)}
           /\ row'.gen = row.gen /\ row'.print = New(p)
    <2>1. PrintOK' BY <1>6, <1>8, AbsentAssumption DEF PrintOK
    <2>2. EffectsUnderActive' BY <1>1, <1>8 DEF EffectsUnderActive, TypeOK
    <2>3. PendingIsCurrent' BY <1>8 DEF PendingIsCurrent
    <2> QED BY <1>1, <1>3, <1>4, <1>5, <2>1, <2>2, <2>3
<1>9. CASE /\ effect = None /\ row'.gen = row.gen + 1 /\ row'.print = New(p)
           /\ pending # None /\ pending' # None => pending'.base = row.gen + 1
           /\ pending = None => pending' = None
    <2>1. PrintOK' BY <1>6, <1>9, AbsentAssumption DEF PrintOK
    <2>2. EffectsUnderActive' BY <1>1, <1>9 DEF EffectsUnderActive
    <2>3. PendingIsCurrent' BY <1>9 DEF PendingIsCurrent
    <2> QED BY <1>1, <1>3, <1>4, <1>5, <2>1, <2>2, <2>3
<1>10. CASE Initialize(p)
    <2>1. /\ pending' = pending
          /\ \/ UNCHANGED <<row, runtime>>
             \/ row.print \in {None, New(p)} /\ row'.gen = row.gen /\ row'.print = New(p)
        BY <1>10, InitializeFacts
    <2> QED BY <1>7, <1>8, <2>1
<1>11. CASE Reconcile(p)
    <2>1. \/ UNCHANGED <<row, pending, work, runtime>>
          \/ /\ effect = None /\ row'.gen = row.gen + 1 /\ row'.print = New(p)
             /\ pending # None /\ pending' # None => pending'.base = row.gen + 1
             /\ pending = None => pending' = None
        BY <1>11, ReconcileFacts
    <2> QED BY <1>7, <1>9, <2>1
<1> QED BY <1>10, <1>11

LEMMA StopInv == ASSUME ConfigInv, NEW p \in Proc, Stop(p) PROVE ConfigInv'
<1> USE DEF ConfigInv
<1>1. /\ TypeOK' /\ Only(p) /\ call'[p] = None
      /\ runtime'[p] = None /\ \A q \in Proc : q # p => runtime'[q] = runtime[q]
      /\ \A r \in Request : task'[r] # None => task'[r] = task[r] /\ task[r].proc # p
      /\ slot'.state = slot.state
      /\ UNCHANGED <<database, work, effect, env>>
    BY StopFacts
<1>2. CallOK' BY <1>1 DEF CallOK, Only
<1>3. ClosedOK' BY <1>1 DEF ClosedOK, Closed, Borrowed, Only
<1>4. TaskOK'
    <2> SUFFICES ASSUME NEW r \in Request, task'[r] # None
                 PROVE  /\ runtime'[task'[r].proc] # None
                        /\ task'[r].runtime = runtime'[task'[r].proc].config
        BY DEF TaskOK
    <2>1. task'[r] = task[r] /\ task[r].proc # p /\ task[r].proc \in Proc
        BY <1>1 DEF TypeOK, Tasks
    <2> QED BY <1>1, <2>1 DEF TaskOK
<1>5. PrintOK' BY <1>1 DEF PrintOK, database
<1>6. EffectsUnderActive' /\ PendingIsCurrent'
    BY <1>1 DEF EffectsUnderActive, PendingIsCurrent, database
<1> QED BY <1>1, <1>2, <1>3, <1>4, <1>5, <1>6

LEMMA HandlingInv == ASSUME ConfigInv, Handling PROVE ConfigInv'
<1> USE DEF ConfigInv
<1>1. TypeOK' /\ Handled BY HandlingFacts
<1>2. CallOK' /\ ClosedOK' /\ TaskOK'
    BY <1>1 DEF Handled, Beside, CallOK, ClosedOK, Closed, Borrowed, TaskOK
<1>3. PrintOK' BY <1>1 DEF Handled, Beside, Admitted, PrintOK, database
<1>4. EffectsUnderActive' /\ PendingIsCurrent'
    BY <1>1 DEF Handled, Beside, EffectsUnderActive, PendingIsCurrent, database
<1> QED BY <1>1, <1>2, <1>3, <1>4

LEMMA BeginInv ==
    ASSUME ConfigInv, NEW r \in Request, NEW p \in Proc,
           \/ Resume(r, p)
           \/ \E kind \in {"command", "operation"}, part \in Parts : Begin(r, p, kind, part)
    PROVE  ConfigInv'
<1> USE DEF ConfigInv
<1>1. /\ TypeOK' /\ Beside /\ UNCHANGED <<slot, work, effect>>
      /\ runtime[p] # None /\ ~Closed(p)
      /\ task'[r].proc = p /\ task'[r].runtime = runtime[p].config
      /\ \A s \in Request : s # r => task'[s] = task[s]
    BY BeginFacts
<1>2. CallOK' /\ PrintOK' BY <1>1 DEF Beside, CallOK, PrintOK, database
<1>3. ClosedOK' BY <1>1 DEF Beside, ClosedOK, Closed, Borrowed
<1>4. TaskOK' BY <1>1 DEF Beside, TaskOK
<1>5. EffectsUnderActive' /\ PendingIsCurrent'
    BY <1>1 DEF Beside, EffectsUnderActive, PendingIsCurrent, database
<1> QED BY <1>1, <1>2, <1>3, <1>4, <1>5

\* The effect begins under the configuration of its worker, which is that of its
\* process, which the transaction has found active.
LEMMA BeginEffectInv == ASSUME ConfigInv, NEW r \in Request, BeginEffect(r) PROVE ConfigInv'
<1> USE DEF ConfigInv
<1>1. /\ TypeOK' /\ Beside /\ UNCHANGED <<slot, work, task>>
      /\ task[r] # None /\ Admitted(task[r].proc) /\ effect' = task[r].runtime
    BY BeginEffectFacts
<1>2. CallOK' /\ PrintOK' BY <1>1 DEF Beside, CallOK, PrintOK, database
<1>3. ClosedOK' /\ TaskOK' BY <1>1 DEF Beside, ClosedOK, Closed, Borrowed, TaskOK
<1>4. EffectsUnderActive' BY <1>1 DEF Beside, EffectsUnderActive, TaskOK, Admitted, database
<1>5. PendingIsCurrent' BY <1>1 DEF Beside, PendingIsCurrent, database
<1> QED BY <1>1, <1>2, <1>3, <1>4, <1>5

LEMMA FinishInv == ASSUME ConfigInv, NEW r \in Request, Finish(r) PROVE ConfigInv'
<1> USE DEF ConfigInv
<1>1. /\ TypeOK' /\ Beside /\ UNCHANGED <<slot, effect>>
      /\ task'[r] = None /\ \A s \in Request : s # r => task'[s] = task[s]
    BY FinishFacts
<1>2. CallOK' /\ PrintOK' BY <1>1 DEF Beside, CallOK, PrintOK, database
<1>3. ClosedOK' BY <1>1 DEF Beside, ClosedOK, Closed, Borrowed
<1>4. TaskOK' BY <1>1 DEF Beside, TaskOK
<1>5. EffectsUnderActive' /\ PendingIsCurrent'
    BY <1>1 DEF Beside, EffectsUnderActive, PendingIsCurrent, database
<1> QED BY <1>1, <1>2, <1>3, <1>4, <1>5

\* What a step can be.
LEMMA NextCases ==
    ASSUME Next
    PROVE  \/ \E p \in Proc :
                 \/ \E mode \in {"save", "import"}, c \in Config : Save(p, mode, c)
                 \/ \E e \in Env : Start(p, e)
                 \/ Poll(p) \/ Cancel(p) \/ Fetch(p) \/ LoadStored(p) \/ LoadActivation(p)
                 \/ Build(p) \/ Admit(p)
           \/ \E p \in Proc : Persist(p) \/ Clear(p) \/ Defer(p) \/ Fail(p)
           \/ \E p \in Proc : Commit(p) \/ Install(p) \/ Initialize(p) \/ Reconcile(p) \/ Stop(p)
           \/ Handling
           \/ \E r \in Request, p \in Proc :
                 \/ Resume(r, p)
                 \/ \E kind \in {"command", "operation"}, part \in Parts : Begin(r, p, kind, part)
           \/ \E r \in Request : BeginEffect(r) \/ Finish(r)
BY DEF Next, CallStep, Handling

LEMMA ConfigNext == ASSUME ConfigInv, [Next]_vars PROVE ConfigInv'
<1>1. CASE Next
    BY <1>1, NextCases, CallsInv, PersistInv, EndsInv, CommitInv, InstallInv, BindInv, StopInv,
       HandlingInv, BeginInv, BeginEffectInv, FinishInv
<1>2. CASE UNCHANGED vars
    <2>1. TypeOK' BY <1>2 DEF vars, database, input, limits, ConfigInv, TypeOK
    <2>2. CallOK' /\ TaskOK' /\ ClosedOK' /\ PrintOK'
        BY <1>2 DEF vars, database, input, limits, ConfigInv, CallOK, TaskOK, ClosedOK, Closed,
           Borrowed, PrintOK
    <2>3. EffectsUnderActive' /\ PendingIsCurrent'
        BY <1>2 DEF vars, database, input, limits, ConfigInv, EffectsUnderActive, PendingIsCurrent
    <2> QED BY <2>1, <2>2, <2>3 DEF ConfigInv
<1> QED BY <1>1, <1>2

\* Whatever processes do, the invariant holds.
THEOREM ConfigInvariant == Spec => []ConfigInv
BY ConfigInit, ConfigNext, PTL DEF Spec

\* No effect is under way under a configuration that is no longer active, with
\* any number of processes on the database: activation waits for effects, and
\* BeginReleaseWorkflowEffect looks at the generation in its transaction.
THEOREM EffectsTheorem == Spec => []EffectsUnderActive
<1>1. ConfigInv => EffectsUnderActive BY DEF ConfigInv
<1> QED BY <1>1, ConfigInvariant, PTL

\* A pending candidate follows the active generation, so that it can be loaded:
\* a start that changes the generation rebases it, an activation clears it.
THEOREM PendingTheorem == Spec => []PendingIsCurrent
<1>1. ConfigInv => PendingIsCurrent BY DEF ConfigInv
<1> QED BY <1>1, ConfigInvariant, PTL

-----------------------------------------------------------------------------
(* The revision a command began on.                                        *)

\* The workflow's revision grows, and is never that of another workflow.
Grows == work'.rev >= work.rev /\ (work'.rev = work.rev => work'.done = work.done)

LEMMA ImpactedGrows ==
    ASSUME TypeOK, NEW s \in SUBSET Parts, work' = Impacted(s) PROVE Grows
<1>1. Impacted(s).done = work.done /\ Impacted(s).rev >= work.rev BY ImpactedType
<1> QED BY <1>1 DEF Grows

\* A longer history of the same commands.
LEMMA RevKept ==
    ASSUME TypeOK, TypeOK', RevOK, Grows,
           \A r \in Request : task'[r] # None => task'[r] = task[r],
           op' # None => op # None /\ op'.rev = op.rev
    PROVE  RevOK'
<1>1. work.rev \in Nat /\ work'.rev \in Nat BY DEF TypeOK
<1>2. ASSUME NEW r \in Request, task'[r] # None
      PROVE  task'[r].rev <= work'.rev /\ (task'[r].rev = work'.rev => ~work'.done)
    <2>1. task'[r] = task[r] /\ task[r].rev \in Nat BY <1>2 DEF TypeOK, Tasks
    <2>2. task[r].rev <= work.rev /\ (task[r].rev = work.rev => ~work.done)
        BY <1>2, <2>1 DEF RevOK
    <2> QED BY <1>1, <2>1, <2>2 DEF Grows
<1>3. ASSUME op' # None PROVE op'.rev <= work'.rev /\ (op'.rev = work'.rev => ~work'.done)
    <2>1. op'.rev = op.rev /\ op.rev \in Nat BY <1>3 DEF TypeOK
    <2>2. op.rev <= work.rev /\ (op.rev = work.rev => ~work.done) BY <1>3 DEF RevOK
    <2> QED BY <1>1, <2>1, <2>2 DEF Grows
<1> QED BY <1>2, <1>3 DEF RevOK

LEMMA RevNext == ASSUME ConfigInv, RevOK, [Next]_vars PROVE RevOK'
<1>1. TypeOK /\ TypeOK' BY ConfigNext DEF ConfigInv
<1>2. work.rev \in Nat BY <1>1 DEF TypeOK
<1>3. ASSUME UNCHANGED <<work, op, task>> PROVE RevOK'
    <2>1. Grows BY <1>2, <1>3 DEF Grows
    <2> QED BY <1>1, <1>3, <2>1, RevKept
<1>4. ASSUME NEW p \in Proc,
             \/ \E mode \in {"save", "import"}, c \in Config : Save(p, mode, c)
             \/ \E e \in Env : Start(p, e)
             \/ Poll(p) \/ Cancel(p) \/ Fetch(p) \/ LoadStored(p) \/ LoadActivation(p)
             \/ Build(p) \/ Admit(p) \/ Persist(p) \/ Clear(p) \/ Defer(p) \/ Fail(p)
             \/ Install(p) \/ Initialize(p)
      PROVE  RevOK'
    <2>1. UNCHANGED <<input, task>>
        BY <1>4 DEF Save, Start, Poll, Cancel, Fetch, LoadStored, LoadActivation, Build, Admit,
           Persist, Clear, Defer, Fail, Install, Initialize
    <2> QED BY <1>3, <2>1 DEF input
<1>5. ASSUME NEW p \in Proc, Commit(p) PROVE RevOK'
    <2>1. UNCHANGED <<op, task>> BY <1>5 DEF Commit
    <2>2. work' = work \/ work' = CommittedWork(p) BY <1>1, <1>5, CommitFacts
    <2>3. Grows
        <3>1. CASE work' = work BY <1>2, <3>1 DEF Grows
        <3>2. CASE work' = Impacted(Impacts(Effective(env[p], call[p].old), New(p)))
            <4> DEFINE s == Impacts(Effective(env[p], call[p].old), New(p))
            <4>1. s \in SUBSET Parts BY ImpactsType
            <4>2. work' = Impacted(s) BY <3>2
            <4> HIDE DEF s
            <4> QED BY <1>1, <4>1, <4>2, ImpactedGrows
        <3> QED BY <2>2, <3>1, <3>2 DEF CommittedWork
    <2> QED BY <1>1, <2>1, <2>3, RevKept
<1>6. ASSUME NEW p \in Proc, Reconcile(p) PROVE RevOK'
    <2>1. UNCHANGED <<op, task>> BY <1>6 DEF Reconcile
    <2>2. work' = work \/ work' = Impacted({"prepared"}) BY <1>6 DEF Reconcile
    <2>3. Grows
        <3>1. CASE work' = work BY <1>2, <3>1 DEF Grows
        <3>2. CASE work' = Impacted({"prepared"})
            <4>1. {"prepared"} \in SUBSET Parts BY DEF Parts
            <4> QED BY <1>1, <3>2, <4>1, ImpactedGrows
        <3> QED BY <2>2, <3>1, <3>2
    <2> QED BY <1>1, <2>1, <2>3, RevKept
<1>7. ASSUME NEW p \in Proc, Stop(p) PROVE RevOK'
    <2>1. work' = work /\ \A r \in Request : task'[r] # None => task'[r] = task[r]
        BY <1>1, <1>7, StopFacts
    <2>2. op' # None => op # None /\ op'.rev = op.rev BY <1>1, <1>7 DEF Stop, TypeOK
    <2>3. Grows BY <1>2, <2>1 DEF Grows
    <2> QED BY <1>1, <2>1, <2>2, <2>3, RevKept
<1>8. ASSUME Handling PROVE RevOK'
    <2>1. task' = task BY <1>1, <1>8, HandlingFacts DEF Handled
    <2>2. op' # None => op # None /\ op'.rev = op.rev
        <3>1. op' = op \/ op' = None \/ LapseWork
            BY <1>8 DEF Handling, Reserve, Open, Close, Recover, Interrupt, EndEffect, Lapse
        <3>2. ASSUME LapseWork PROVE op # None /\ op'.rev = op.rev
            <4>1. op # None /\ op' = [op EXCEPT !.live = FALSE] BY <3>2 DEF LapseWork
            <4>2. op \in Ops BY <1>1, <4>1 DEF TypeOK, Ops
            <4> QED BY <4>1, <4>2 DEF Ops
        <3> QED BY <3>1, <3>2
    <2>3. work' = work \/ work' = [NoWork EXCEPT !.rev = work.rev + 1]
        BY <1>8 DEF Handling, Reserve, Open, Close, Recover, Interrupt, EndEffect, Lapse, LapseWork
    <2>4. Grows BY <1>2, <2>3 DEF Grows, NoWork
    <2> QED BY <1>1, <2>1, <2>2, <2>4, RevKept
<1>9. ASSUME NEW r \in Request, NEW p \in Proc, NEW kind \in {"command", "operation"},
             NEW part \in Parts, Begin(r, p, kind, part)
      PROVE  RevOK'
    <2>1. ~work.done /\ work' = work BY <1>9 DEF Begin
    <2>2. op' = op \/ (op' # None => op'.rev = work.rev) BY <1>9 DEF Begin
    <2>3. task'[r] # None => task'[r].rev = work.rev BY <1>1, <1>9 DEF Begin, TypeOK
    <2>4. \A s \in Request : s # r => task'[s] = task[s] BY <1>1, <1>9 DEF Begin, TypeOK
    <2> QED BY <1>2, <2>1, <2>2, <2>3, <2>4 DEF RevOK
<1>10. ASSUME NEW r \in Request, NEW p \in Proc, Resume(r, p) PROVE RevOK'
    <2>1. work' = work /\ op # None BY <1>10 DEF Resume
    <2>2. op' # None => op'.rev = op.rev BY <1>1, <1>10 DEF Resume, TypeOK
    <2>3. task'[r] # None => task'[r].rev = op.rev BY <1>1, <1>10 DEF Resume, TypeOK
    <2>4. \A s \in Request : s # r => task'[s] = task[s] BY <1>1, <1>10 DEF Resume, TypeOK
    <2> QED BY <2>1, <2>2, <2>3, <2>4 DEF RevOK
<1>11. ASSUME NEW r \in Request, BeginEffect(r) PROVE RevOK'
    BY <1>3, <1>11 DEF BeginEffect
<1>12. ASSUME NEW r \in Request, Finish(r) PROVE RevOK'
    <2>1. \A s \in Request : task'[s] # None => task'[s] = task[s] BY <1>1, <1>12, FinishFacts
    <2>2. op' # None => op # None /\ op'.rev = op.rev BY <1>12 DEF Finish
    <2>3. work' = work \/ work'.rev = work.rev + 1 BY <1>1, <1>12 DEF Finish, TypeOK
    <2>4. Grows BY <1>2, <2>3 DEF Grows
    <2> QED BY <1>1, <2>1, <2>2, <2>4, RevKept
<1>13. CASE UNCHANGED vars BY <1>3, <1>13 DEF vars, input
<1>14. CASE Next
    BY <1>14, <1>4, <1>5, <1>6, <1>7, <1>8, <1>9, <1>10, <1>11, <1>12, NextCases
<1> QED BY <1>13, <1>14

-----------------------------------------------------------------------------
(* One process at a time on the database.                                  *)

Alone == \A p, q \in Proc : p = q

LEMMA OneInit == Init => OneInv
<1> SUFFICES ASSUME Init PROVE OneInv OBVIOUS
<1>1. ConfigInv BY ConfigInit
<1>2. RevOK /\ RuntimeOK /\ ReadOK BY DEF Init, RevOK, RuntimeOK, ReadOK
<1>3. PreparedUnderActive BY DEF Init, PreparedUnderActive
<1> QED BY <1>1, <1>2, <1>3 DEF OneInv

\* What the call of p has read, and the rest, where only the call has changed.
LEMMA CallGoesOnAlone ==
    ASSUME Alone, OneInv, NEW p \in Proc, Rest,
           runtime[p] # None =>
             /\ env'[p] = env[p]
             /\ call[p] # None => call[p].at # "install"
             /\ call'[p] # None => call'[p].at # "install",
           call'[p] # None => Reads(call'[p], env'[p])
    PROVE  RuntimeOK' /\ ReadOK' /\ PreparedUnderActive'
<1> USE DEF OneInv
<1>1. \A q \in Proc : q = p BY DEF Alone
<1>2. RuntimeOK'
    <2> SUFFICES ASSUME runtime[p] # None
                 PROVE  /\ Effective(env'[p], stored) = row.print
                        /\ ~At(p, "install")' /\ runtime[p].config = row.print
        BY <1>1 DEF RuntimeOK, Rest, database
    <2>1. ~At(p, "install") /\ ~At(p, "install")' BY DEF At
    <2> QED BY <2>1 DEF RuntimeOK
<1>3. ReadOK' BY <1>1 DEF ReadOK, Reads, Taken, Rest, database
<1>4. PreparedUnderActive' BY DEF PreparedUnderActive, Rest, database, input
<1> QED BY <1>2, <1>3, <1>4

LEMMA CallsAlone ==
    ASSUME Alone, OneInv, NEW p \in Proc,
           \/ \E mode \in {"save", "import"}, c \in Config : Save(p, mode, c)
           \/ \E e \in Env : Start(p, e)
           \/ Poll(p) \/ Cancel(p) \/ Fetch(p) \/ LoadStored(p) \/ LoadActivation(p)
           \/ Build(p) \/ Admit(p)
    PROVE  RuntimeOK' /\ ReadOK' /\ PreparedUnderActive'
<1> USE DEF OneInv, ConfigInv
<1>1. ASSUME NEW mode \in {"save", "import"}, NEW c \in Config, Save(p, mode, c)
      PROVE  RuntimeOK' /\ ReadOK' /\ PreparedUnderActive'
    <2>1. /\ Rest /\ env' = env /\ call'[p].at = "stored" /\ call'[p].mode = mode
          /\ call[p] = None
        BY <1>1, SaveFacts DEF Save
    <2>2. Reads(call'[p], env'[p]) BY <2>1 DEF Reads
    <2> QED BY <2>1, <2>2, CallGoesOnAlone
<1>2. ASSUME NEW e \in Env, Start(p, e) PROVE RuntimeOK' /\ ReadOK' /\ PreparedUnderActive'
    <2>1. /\ Rest /\ runtime[p] = None
          /\ call'[p].at = "stored" /\ call'[p].mode = "start" /\ call'[p].config = stored
        BY <1>2, StartFacts
    <2>2. Reads(call'[p], env'[p]) BY <2>1 DEF Reads
    <2> QED BY <2>1, <2>2, CallGoesOnAlone
<1>3. ASSUME Poll(p) PROVE RuntimeOK' /\ ReadOK' /\ PreparedUnderActive'
    <2>1. /\ Rest /\ env' = env /\ call'[p].at = "fetch" /\ call'[p].mode = "pending"
          /\ call[p] = None
        BY <1>3, PollFacts DEF Poll
    <2>2. Reads(call'[p], env'[p]) BY <2>1 DEF Reads
    <2> QED BY <2>1, <2>2, CallGoesOnAlone
<1>4. ASSUME Cancel(p) PROVE RuntimeOK' /\ ReadOK' /\ PreparedUnderActive'
    <2>1. Rest /\ env' = env /\ call[p].at # "install" /\ call'[p] = None BY <1>4, CancelFacts
    <2> QED BY <2>1, CallGoesOnAlone
<1>5. ASSUME Fetch(p) PROVE RuntimeOK' /\ ReadOK' /\ PreparedUnderActive'
    <2>1. /\ Rest /\ env' = env /\ call[p] # None /\ call[p].at = "fetch"
          /\ call'[p] # None =>
               /\ call'[p].at = "stored" /\ call'[p].mode = call[p].mode
               /\ call'[p].config = pending.config
        BY <1>5, FetchFacts
    <2>2. call[p].mode # "start" BY <2>1 DEF CallOK, Proper
    <2>3. call'[p] # None => Reads(call'[p], env'[p]) BY <2>1, <2>2 DEF Reads
    <2> QED BY <2>1, <2>3, CallGoesOnAlone
<1>6. ASSUME LoadStored(p) PROVE RuntimeOK' /\ ReadOK' /\ PreparedUnderActive'
    <2>1. /\ Rest /\ env' = env /\ call[p] # None /\ call[p].at = "stored"
          /\ call'[p] # None =>
               call'[p].at = "activation" /\ Same(p) /\ call'[p].old = stored
        BY <1>6, LoadStoredFacts
    <2>2. Reads(call[p], env[p]) BY <2>1 DEF ReadOK
    <2>3. call'[p] # None => Reads(call'[p], env'[p]) BY <2>1, <2>2 DEF Reads, Taken, Same
    <2> QED BY <2>1, <2>3, CallGoesOnAlone
<1>7. ASSUME LoadActivation(p) PROVE RuntimeOK' /\ ReadOK' /\ PreparedUnderActive'
    <2>1. /\ Rest /\ env' = env /\ call[p] # None /\ call[p].at = "activation"
          /\ call'[p] # None =>
               /\ Same(p) /\ call'[p].old = call[p].old /\ call'[p].seen.gen = row.gen
               /\ Goes(p, call'[p].at)
               /\ call'[p].at \in {"bind", "build", "fail", "defer", "persist", "clear"}
        BY <1>7, LoadActivationFacts
    <2>2. Reads(call[p], env[p]) /\ Proper(call[p], runtime[p]) BY <2>1 DEF ReadOK, CallOK
    <2>3. ASSUME call'[p] # None PROVE Reads(call'[p], env'[p])
        <3> DEFINE j == call[p]
                   n == call'[p]
        <3>1. n.mode = j.mode /\ n.config = j.config /\ n.id = j.id /\ n.old = stored
              /\ n.seen.gen = row.gen
            BY <2>1, <2>2, <2>3 DEF Same, Reads
        <3>2. /\ Goes(p, n.at) /\ env' = env /\ j.at = "activation"
              /\ n.at \in {"bind", "build", "fail", "defer", "persist", "clear"}
            BY <2>1, <2>3
        <3>3. j.mode = "start" => n.config = stored BY <2>2, <3>1 DEF Reads
        <3>4. n.at = "persist" => Effective(env'[p], n.config) = Effective(env'[p], n.old)
            <4>1. n.at = "persist" => New(p) = Effective(env[p], j.old) BY <3>2 DEF Goes
            <4> QED BY <4>1, <3>1, <2>1, <2>3 DEF New
        <3>5. j.mode = "pending" =>
                /\ n.at \in {"build", "fail"}
                /\ n.at = "build" => Taken(j) /\ pending.config = j.config
                /\ n.at = "fail" => ~Taken(j)
            <4>1. Activation.status = "pending" <=> pending # None BY ActivationType
            <4>2. pending # None => Activation.id = pending.id BY ActivationType
            <4>3. (Activation.status = "pending" /\ Activation.id = j.id) <=> Taken(j)
                BY <4>1, <4>2 DEF Taken
            <4>4. Taken(j) /\ j.mode = "pending" => pending.config = j.config
                BY <2>2, <3>2 DEF Reads
            <4> QED BY <4>3, <4>4, <3>2 DEF Goes
        <3>6. Taken(n) <=> Taken(j) BY <3>1 DEF Taken
        <3> QED BY <3>1, <3>2, <3>3, <3>4, <3>5, <3>6 DEF Reads
    <2> QED BY <2>1, <2>3, CallGoesOnAlone
<1>8. ASSUME Build(p) PROVE RuntimeOK' /\ ReadOK' /\ PreparedUnderActive'
    <2>1. /\ Rest /\ env' = env /\ Same(p) /\ call[p] # None /\ call[p].at = "build"
          /\ call'[p].old = call[p].old /\ call'[p].seen = call[p].seen
          /\ call'[p].at = IF New(p) \in Broken THEN "fail" ELSE "admit"
        BY <1>8, BuildFacts
    <2>2. Reads(call[p], env[p]) /\ Proper(call[p], runtime[p]) BY <2>1 DEF ReadOK, CallOK
    <2>3. Reads(call'[p], env'[p]) BY <2>1, <2>2 DEF Reads, Taken, Same, New, Proper
    <2> QED BY <2>1, <2>3, CallGoesOnAlone
<1>9. ASSUME Admit(p) PROVE RuntimeOK' /\ ReadOK' /\ PreparedUnderActive'
    <2>1. /\ Rest /\ env' = env /\ Same(p) /\ call[p] # None /\ call[p].at = "admit"
          /\ call'[p].old = call[p].old /\ call'[p].seen = call[p].seen
          /\ call'[p].at \in {"commit", "defer"}
        BY <1>9, AdmitFacts
    <2>2. Reads(call[p], env[p]) /\ Proper(call[p], runtime[p]) BY <2>1 DEF ReadOK, CallOK
    <2>3. Reads(call'[p], env'[p]) BY <2>1, <2>2 DEF Reads, Taken, Same, Proper
    <2> QED BY <2>1, <2>3, CallGoesOnAlone
<1> QED BY <1>1, <1>2, <1>3, <1>4, <1>5, <1>6, <1>7, <1>8, <1>9

LEMMA PersistAlone ==
    ASSUME Alone, OneInv, NEW p \in Proc, Persist(p)
    PROVE  RuntimeOK' /\ ReadOK' /\ PreparedUnderActive'
<1> USE DEF OneInv, ConfigInv
<1>1. \A q \in Proc : q = p BY DEF Alone
<1>2. /\ Same(p) /\ call[p] # None /\ call[p].at = "persist" /\ call'[p].at = "clear"
      /\ stored' = call[p].config
      /\ UNCHANGED <<row, pending, input, env, runtime, task>>
    BY PersistFacts
<1>3. Proper(call[p], runtime[p]) /\ Reads(call[p], env[p]) BY <1>2 DEF CallOK, ReadOK
<1>4. Effective(env[p], stored') = Effective(env[p], stored) BY <1>2, <1>3 DEF Reads
<1>5. RuntimeOK'
    <2> SUFFICES ASSUME runtime[p] # None
                 PROVE  /\ Effective(env[p], stored') = row.print
                        /\ ~At(p, "install")' /\ runtime[p].config = row.print
        BY <1>1, <1>2 DEF RuntimeOK
    <2>1. ~At(p, "install") /\ ~At(p, "install")' BY <1>2 DEF At
    <2> QED BY <1>4, <2>1 DEF RuntimeOK
<1>6. Reads(call[p], env[p])' BY <1>2, <1>3 DEF Reads, Same, Proper
<1>7. ReadOK' BY <1>1, <1>6 DEF ReadOK
<1>8. PreparedUnderActive' BY <1>2 DEF PreparedUnderActive, input
<1> QED BY <1>5, <1>7, <1>8

\* The end of a call, which no other process has, and which leaves what is stored
\* and active.
LEMMA CallEndsAlone ==
    ASSUME Alone, OneInv, NEW p \in Proc, call'[p] = None, call[p] # None,
           call[p].at # "install", UNCHANGED <<stored, input, env, runtime, task>>,
           row'.print = row.print
    PROVE  RuntimeOK' /\ ReadOK' /\ PreparedUnderActive'
<1> USE DEF OneInv, ConfigInv
<1>1. \A q \in Proc : q = p BY DEF Alone
<1>2. ~At(p, "install") /\ ~At(p, "install")' BY DEF At
<1>3. RuntimeOK' BY <1>1, <1>2 DEF RuntimeOK
<1>4. ReadOK' BY <1>1 DEF ReadOK
<1>5. PreparedUnderActive' BY DEF PreparedUnderActive, input
<1> QED BY <1>3, <1>4, <1>5

LEMMA EndsAlone ==
    ASSUME Alone, OneInv, NEW p \in Proc, Clear(p) \/ Defer(p) \/ Fail(p)
    PROVE  RuntimeOK' /\ ReadOK' /\ PreparedUnderActive'
<1> USE DEF OneInv, ConfigInv
<1>1. /\ call'[p] = None /\ call[p] # None /\ call[p].at # "install"
      /\ row'.print = row.print
      /\ UNCHANGED <<stored, input, env, runtime, task>>
    BY ClearFacts, DeferFacts, FailFacts
<1> QED BY <1>1, CallEndsAlone

\* The commit: the parts that depend on what has changed are dropped; the others
\* are what the new configuration would have them.
LEMMA CommitAlone ==
    ASSUME Alone, OneInv, NEW p \in Proc, Commit(p)
    PROVE  RuntimeOK' /\ ReadOK' /\ PreparedUnderActive'
<1> USE DEF OneInv, ConfigInv
<1>1. \A q \in Proc : q = p BY DEF Alone
<1>2. /\ call[p] # None /\ call[p].at = "commit"
      /\ UNCHANGED <<slot, op, effect, env, runtime, task>>
    BY CommitFacts
<1>3. Proper(call[p], runtime[p]) /\ Reads(call[p], env[p]) BY <1>2 DEF CallOK, ReadOK
<1>4. runtime[p] # None BY <1>2, <1>3 DEF Proper
<1>5. ~At(p, "install") BY <1>2 DEF At
<1>6. Effective(env[p], call[p].old) = row.print /\ runtime[p].config = row.print
    BY <1>2, <1>3, <1>4, <1>5 DEF RuntimeOK, Reads
<1>7. CASE UNCHANGED <<database, work>> /\ call'[p] = None
    BY <1>2, <1>7, CallEndsAlone DEF database, input
<1>8. CASE UNCHANGED <<database, work>> /\ Same(p) /\ call'[p].at = "defer"
    <2>1. Rest BY <1>2, <1>8 DEF Rest, input
    <2>2. call'[p].mode # "start" BY <1>2, <1>3, <1>8 DEF Same, Proper
    <2>3. Reads(call'[p], env'[p]) BY <1>8, <2>2 DEF Reads
    <2>4. env' = env /\ call'[p].at # "install" BY <1>2, <1>8
    <2> QED BY <1>2, <2>1, <2>3, <2>4, CallGoesOnAlone
<1>9. CASE \/ row.gen # call[p].seen.gen
           \/ call[p].mode = "pending" /\ (pending = None \/ pending.id # call[p].id)
    BY <1>2, <1>3, <1>9 DEF Reads, Taken
<1>10. CASE /\ Safe /\ Same(p) /\ call'[p] # None /\ call'[p].at = "install"
            /\ row'.print = New(p) /\ row'.failed = 0
            /\ pending' = None /\ stored' = call[p].config
            /\ work' = CommittedWork(p)
    <2>1. New(p) = Effective(env[p], stored') /\ New(p)' = New(p)
        BY <1>2, <1>10 DEF New, Same
    <2>2. RuntimeOK'
        <3>1. Effective(env[p], stored') = row'.print /\ New(p)' = row'.print BY <1>10, <2>1
        <3>2. At(p, "install")' BY <1>10 DEF At
        <3> QED BY <1>1, <1>2, <3>1, <3>2 DEF RuntimeOK
    <2>3. Reads(call[p], env[p])' BY <1>2, <1>3, <1>10 DEF Reads, Same, Proper
    <2>4. ReadOK' BY <1>1, <2>3 DEF ReadOK
    <2>5. PreparedUnderActive'
        <3> SUFFICES ASSUME slot.state = "active", ~work'.done
                     PROVE  /\ work'.prepared # None => work'.prepared.provider = New(p).provider
                            /\ work'.descriptions # None => work'.descriptions = New(p)
            <4>1. slot' = slot /\ row'.print = New(p) BY <1>2, <1>10
            <4> HIDE DEF New
            <4> QED BY <4>1 DEF PreparedUnderActive
        <3> DEFINE s == Impacts(row.print, New(p))
        <3>1. s \in SUBSET Parts /\ ("prepared" \in s <=> row.print.provider # New(p).provider)
              /\ (s = {} <=> row.print.provider = New(p).provider
                             /\ row.print.description = New(p).description)
            BY ImpactsType
        <3>2. work' = Impacted(s) BY <1>6, <1>10 DEF CommittedWork
        <3> HIDE DEF s
        <3>3. row.print \in Runtimes /\ New(p) \in Runtimes
            <4>1. env[p] \in Env /\ call[p] \in Calls BY <1>2 DEF TypeOK
            <4> QED BY <4>1, <1>6, EffectiveType DEF New, Calls
        <3>4. ~work.done BY <3>1, <3>2, ImpactedType
        <3>5. /\ work.prepared # None => work.prepared.provider = row.print.provider
              /\ work.descriptions # None => work.descriptions = row.print
            BY <3>4 DEF PreparedUnderActive
        <3>6. CASE s = {}
            <4>1. work' = work BY <3>1, <3>2, <3>6, ImpactedType
            <4>2. New(p) = row.print BY <3>1, <3>3, <3>6, RuntimeFields
            <4> QED BY <3>5, <4>1, <4>2
        <3>7. CASE s # {}
            <4>1. /\ work'.prepared = IF "prepared" \in s THEN None ELSE work.prepared
                  /\ work'.descriptions = None
                BY <3>1, <3>2, <3>4, <3>7, ImpactedType
            <4> QED BY <3>1, <3>5, <4>1
        <3> QED BY <3>6, <3>7
    <2> QED BY <2>2, <2>4, <2>5
<1> QED BY <1>7, <1>8, <1>9, <1>10, CommitFacts

LEMMA InstallAlone ==
    ASSUME Alone, OneInv, NEW p \in Proc, Install(p)
    PROVE  RuntimeOK' /\ ReadOK' /\ PreparedUnderActive'
<1> USE DEF OneInv, ConfigInv
<1>1. \A q \in Proc : q = p BY DEF Alone
<1>2. /\ call'[p] = None /\ call[p] # None /\ call[p].at = "install"
      /\ runtime'[p].config = New(p)
      /\ UNCHANGED <<database, input, env, task>>
    BY InstallFacts
<1>3. runtime[p] # None BY <1>2 DEF CallOK, Proper
<1>4. At(p, "install") /\ ~At(p, "install")' BY <1>2 DEF At
<1>5. Effective(env[p], stored) = row.print /\ New(p) = row.print BY <1>3, <1>4 DEF RuntimeOK
<1>6. RuntimeOK' BY <1>1, <1>2, <1>4, <1>5 DEF RuntimeOK, database
<1>7. ReadOK' BY <1>1, <1>2 DEF ReadOK
<1>8. PreparedUnderActive' BY <1>2 DEF PreparedUnderActive, database, input
<1> QED BY <1>6, <1>7, <1>8

\* A start binds what is stored; where that is not what was active, everything
\* is prepared anew.
LEMMA BindAlone ==
    ASSUME Alone, OneInv, NEW p \in Proc, Initialize(p) \/ Reconcile(p)
    PROVE  RuntimeOK' /\ ReadOK' /\ PreparedUnderActive'
<1> USE DEF OneInv, ConfigInv
<1>1. \A q \in Proc : q = p BY DEF Alone
<1>2. /\ call'[p] = None /\ call[p] # None /\ call[p].at = "bind"
      /\ UNCHANGED <<stored, slot, op, effect, env, task>>
    BY InitializeFacts, ReconcileFacts DEF input
<1>3. Proper(call[p], runtime[p]) /\ Reads(call[p], env[p]) BY <1>2 DEF CallOK, ReadOK
<1>4. runtime[p] = None /\ New(p) = Effective(env[p], stored)
    BY <1>2, <1>3 DEF Proper, Reads, New
<1>5. ReadOK' BY <1>1, <1>2 DEF ReadOK
<1>6. ~At(p, "install")' BY <1>2 DEF At
<1>7. CASE UNCHANGED <<row, work, runtime>>
    <2>1. RuntimeOK' BY <1>1, <1>4, <1>7 DEF RuntimeOK
    <2>2. PreparedUnderActive' BY <1>2, <1>7 DEF PreparedUnderActive
    <2> QED BY <1>5, <2>1, <2>2
<1>8. ASSUME row'.print = New(p), runtime'[p] # None => runtime'[p].config = New(p)
      PROVE  RuntimeOK'
    <2>1. Effective(env'[p], stored') = New(p) BY <1>2, <1>4
    <2> QED BY <1>1, <1>6, <1>8, <2>1 DEF RuntimeOK
<1>9. CASE Initialize(p)
    <2>1. UNCHANGED input BY <1>9, InitializeFacts
    <2>2. \/ UNCHANGED <<row, runtime>>
          \/ /\ row.print \in {None, New(p)} /\ row'.print = New(p)
             /\ runtime'[p] # None => runtime'[p].config = New(p)
        BY <1>9, InitializeFacts
    <2>3. CASE /\ row.print \in {None, New(p)} /\ row'.print = New(p)
               /\ runtime'[p] # None => runtime'[p].config = New(p)
        <3>1. RuntimeOK' BY <1>8, <2>3
        <3>2. CASE row.print = None
            <4>1. slot'.state = "empty" BY <2>1, <3>2 DEF PrintOK, input
            <4>2. PreparedUnderActive' BY <4>1 DEF PreparedUnderActive
            <4> QED BY <1>5, <3>1, <4>2
        <3>3. CASE row'.print = row.print
            <4>1. PreparedUnderActive' BY <2>1, <3>3 DEF PreparedUnderActive, input
            <4> QED BY <1>5, <3>1, <4>1
        <3> QED BY <2>3, <3>2, <3>3
    <2> QED BY <1>7, <2>1, <2>2, <2>3 DEF input
<1>10. CASE Reconcile(p)
    <2>1. \/ UNCHANGED <<row, work, runtime>>
          \/ /\ row'.print = New(p)
             /\ work' = IF slot.state = "empty" THEN work ELSE Impacted({"prepared"})
             /\ runtime'[p] # None => runtime'[p].config = New(p)
        BY <1>10, ReconcileFacts
    <2>2. CASE /\ row'.print = New(p)
               /\ work' = IF slot.state = "empty" THEN work ELSE Impacted({"prepared"})
               /\ runtime'[p] # None => runtime'[p].config = New(p)
        <3>1. RuntimeOK' BY <1>8, <2>2
        <3>2. PreparedUnderActive'
            <4> SUFFICES ASSUME slot.state = "active", ~work'.done
                         PROVE  work'.prepared = None /\ work'.descriptions = None
                BY <1>2 DEF PreparedUnderActive
            <4>1. {"prepared"} \in SUBSET Parts /\ {"prepared"} # {} /\ "prepared" \in {"prepared"}
                BY DEF Parts
            <4>2. work' = Impacted({"prepared"}) BY <2>2
            <4>3. ~work.done BY <4>1, <4>2, ImpactedType
            <4>4. /\ work'.prepared = IF "prepared" \in {"prepared"} THEN None ELSE work.prepared
                  /\ work'.descriptions = None
                BY <4>1, <4>2, <4>3, ImpactedType
            <4> QED BY <4>1, <4>4
        <3> QED BY <1>5, <3>1, <3>2
    <2> QED BY <1>7, <2>1, <2>2
<1> QED BY <1>9, <1>10

LEMMA StopAlone ==
    ASSUME Alone, OneInv, NEW p \in Proc, Stop(p)
    PROVE  RuntimeOK' /\ ReadOK' /\ PreparedUnderActive'
<1> USE DEF OneInv, ConfigInv
<1>1. \A q \in Proc : q = p BY DEF Alone
<1>2. /\ call'[p] = None /\ runtime'[p] = None /\ slot'.state = slot.state
      /\ UNCHANGED <<database, work, effect, env>>
    BY StopFacts
<1>3. RuntimeOK' /\ ReadOK' BY <1>1, <1>2 DEF RuntimeOK, ReadOK
<1>4. PreparedUnderActive' BY <1>2 DEF PreparedUnderActive, database
<1> QED BY <1>3, <1>4

\* Steps beside the activator leave what is installed and what its call has read.
LEMMA BesideKeeps ==
    ASSUME OneInv, Beside PROVE RuntimeOK' /\ ReadOK'
BY DEF OneInv, RuntimeOK, ReadOK, Reads, Taken, At, New, Beside, database

LEMMA BesideAlone ==
    ASSUME Alone, OneInv,
           \/ Handling
           \/ \E r \in Request, p \in Proc :
                 \/ Resume(r, p)
                 \/ \E kind \in {"command", "operation"}, part \in Parts : Begin(r, p, kind, part)
           \/ \E r \in Request : BeginEffect(r) \/ Finish(r)
    PROVE  RuntimeOK' /\ ReadOK' /\ PreparedUnderActive'
<1> USE DEF OneInv, ConfigInv
<1>1. CASE Handling
    <2>1. Handled BY <1>1, HandlingFacts
    <2>2. RuntimeOK' /\ ReadOK' BY <2>1, BesideKeeps DEF Handled
    <2>3. PreparedUnderActive' BY <2>1 DEF Handled, Beside, database, PreparedUnderActive
    <2> QED BY <2>2, <2>3
<1>2. ASSUME NEW r \in Request, NEW p \in Proc,
             \/ Resume(r, p)
             \/ \E kind \in {"command", "operation"}, part \in Parts : Begin(r, p, kind, part)
      PROVE  RuntimeOK' /\ ReadOK' /\ PreparedUnderActive'
    <2>1. Beside /\ UNCHANGED <<slot, work, effect>> BY <1>2, BeginFacts
    <2>2. RuntimeOK' /\ ReadOK' BY <2>1, BesideKeeps
    <2>3. PreparedUnderActive' BY <2>1 DEF Beside, database, PreparedUnderActive
    <2> QED BY <2>2, <2>3
<1>3. ASSUME NEW r \in Request, BeginEffect(r)
      PROVE  RuntimeOK' /\ ReadOK' /\ PreparedUnderActive'
    <2>1. Beside /\ UNCHANGED <<slot, work, task>> BY <1>3, BeginEffectFacts
    <2>2. RuntimeOK' /\ ReadOK' BY <2>1, BesideKeeps
    <2>3. PreparedUnderActive' BY <2>1 DEF Beside, database, PreparedUnderActive
    <2> QED BY <2>2, <2>3
<1>4. ASSUME NEW r \in Request, Finish(r)
      PROVE  RuntimeOK' /\ ReadOK' /\ PreparedUnderActive'
    <2>1. /\ Beside /\ UNCHANGED <<slot, effect>> /\ task[r] # None
          /\ \/ work' = work
             \/ work'.prepared = task[r].runtime /\ work'.descriptions = None
             \/ /\ work'.prepared = work.prepared /\ work'.descriptions = task[r].runtime
                /\ work.rev = task[r].rev
        BY <1>4, FinishFacts
    <2>2. RuntimeOK' /\ ReadOK' BY <2>1, BesideKeeps
    <2>3. task[r].runtime = row.print
        <3> DEFINE q == task[r].proc
        <3>1. q \in Proc BY <2>1 DEF TypeOK, Tasks
        <3>2. runtime[q] # None /\ task[r].runtime = runtime[q].config BY <2>1 DEF TaskOK
        <3>3. ~Closed(q) BY <2>1, <3>1 DEF ClosedOK, Borrowed
        <3>4. ~At(q, "install") BY <3>3 DEF Closed, At
        <3> QED BY <3>1, <3>2, <3>4 DEF RuntimeOK
    <2>4. CASE work' = work BY <2>1, <2>2, <2>4 DEF Beside, database, PreparedUnderActive
    <2>5. CASE work'.prepared = task[r].runtime /\ work'.descriptions = None
        BY <2>1, <2>2, <2>3, <2>5 DEF Beside, database, PreparedUnderActive
    <2>6. CASE /\ work'.prepared = work.prepared /\ work'.descriptions = task[r].runtime
               /\ work.rev = task[r].rev
        <3>1. ~work.done BY <2>1, <2>6 DEF RevOK
        <3> QED BY <2>1, <2>2, <2>3, <2>6, <3>1 DEF Beside, database, PreparedUnderActive
    <2> QED BY <2>1, <2>4, <2>5, <2>6
<1> QED BY <1>1, <1>2, <1>3, <1>4

LEMMA OneNext == ASSUME Alone, OneInv, [Next]_vars PROVE OneInv'
<1>1. ConfigInv' /\ RevOK' BY ConfigNext, RevNext DEF OneInv
<1>2. CASE Next
    <2>1. RuntimeOK' /\ ReadOK' /\ PreparedUnderActive'
        BY <1>2, NextCases, CallsAlone, PersistAlone, EndsAlone, CommitAlone, InstallAlone,
           BindAlone, StopAlone, BesideAlone
    <2> QED BY <1>1, <2>1 DEF OneInv
<1>3. CASE UNCHANGED vars
    <2>1. Beside /\ UNCHANGED <<slot, work>> BY <1>3 DEF vars, Beside, input
    <2>2. RuntimeOK' /\ ReadOK' BY <2>1, BesideKeeps
    <2>3. PreparedUnderActive' BY <2>1 DEF OneInv, Beside, database, PreparedUnderActive
    <2> QED BY <1>1, <2>2, <2>3 DEF OneInv
<1> QED BY <1>2, <1>3

\* Whatever the one process does, and its successors.
THEOREM OneProcessInvariant == ASSUME Alone PROVE Spec => []OneInv
BY OneInit, OneNext, PTL DEF Spec

\* What an open workflow shows was made under the active configuration: a commit
\* drops the parts that depend on what has changed
\* (applyConfigActivationWorkflowImpacts), and nothing that ran under the old
\* configuration is saved after it.
THEOREM PreparedTheorem == ASSUME Alone PROVE Spec => []PreparedUnderActive
<1>1. OneInv => PreparedUnderActive BY DEF OneInv
<1> QED BY <1>1, OneProcessInvariant, PTL

\* A candidate is recorded as failed only when its runtime cannot be built
\* (FailPendingConfigActivation): what the activator has read of it still holds.
THEOREM FailedTheorem == ASSUME Alone PROVE Spec => FailedIsBroken
<1> DEFINE Broke == \E p \in Proc : Effective(env[p], pending.config) \in Broken
           Step == row'.failed \notin {0, row.failed} => Broke
<1>1. ASSUME OneInv, [Next]_vars PROVE [Step]_vars
    <2> SUFFICES ASSUME Next, row'.failed \notin {0, row.failed} PROVE Broke
        BY <1>1 DEF Step
    <2> USE DEF OneInv, ConfigInv
    <2>1. \E p \in Proc : Fail(p)
        <3>1. row' = row => row'.failed \in {0, row.failed} OBVIOUS
        <3>2. ASSUME NEW p \in Proc,
                     \/ \E mode \in {"save", "import"}, c \in Config : Save(p, mode, c)
                     \/ \E e \in Env : Start(p, e)
                     \/ Poll(p) \/ Cancel(p) \/ Fetch(p) \/ LoadStored(p) \/ LoadActivation(p)
                     \/ Build(p) \/ Admit(p) \/ Persist(p) \/ Install(p) \/ Stop(p)
              PROVE  row' = row
            BY <1>1, <3>2
            DEF Save, Start, Poll, Cancel, Fetch, LoadStored, LoadActivation, Build, Admit,
                Persist, Install, Stop, database
        <3>3. ASSUME NEW p \in Proc, Clear(p) \/ Defer(p) \/ Initialize(p) \/ Reconcile(p)
              PROVE  row'.failed \in {0, row.failed}
            BY <1>1, <3>3, ClearFacts, DeferFacts, InitializeFacts, ReconcileFacts
        <3>4. ASSUME NEW p \in Proc, Commit(p) PROVE row'.failed \in {0, row.failed}
            BY <1>1, <3>4, CommitFacts DEF database
        <3>5. ASSUME Handling PROVE row' = row
            BY <1>1, <3>5, HandlingFacts DEF Handled, Beside, database
        <3>6. ASSUME NEW r \in Request, NEW p \in Proc,
                     \/ Resume(r, p)
                     \/ \E kind \in {"command", "operation"}, part \in Parts :
                            Begin(r, p, kind, part)
              PROVE  row' = row
            BY <1>1, <3>6, BeginFacts DEF Beside, database
        <3>7. ASSUME NEW r \in Request, BeginEffect(r) \/ Finish(r) PROVE row' = row
            BY <1>1, <3>7, BeginEffectFacts, FinishFacts DEF Beside, database
        <3> QED BY <3>1, <3>2, <3>3, <3>4, <3>5, <3>6, <3>7, NextCases
    <2>2. PICK p \in Proc : Fail(p) BY <2>1
    <2>3. /\ call[p] # None /\ call[p].at = "fail"
          /\ call[p].mode = "pending" /\ pending # None /\ pending.id = call[p].id
        BY <1>1, <2>2, FailFacts
    <2>4. Reads(call[p], env[p]) BY <1>1, <2>3 DEF ReadOK
    <2>5. Effective(env[p], pending.config) \in Broken BY <2>3, <2>4 DEF Reads, Taken
    <2> QED BY <2>5
<1>2. Spec => []OneInv BY OneProcessInvariant
<1>3. FailedIsBroken <=> [][Step]_vars BY DEF FailedIsBroken
<1> QED BY <1>1, <1>2, <1>3, PTL DEF Spec
=============================================================================
