-------------------------- MODULE ConfigActivation --------------------------
(***************************************************************************)
(* How a configuration becomes the active one: the activation rows of the  *)
(* database (services/db/config_activation.go), the RuntimeActivator of a  *)
(* web process (webserver/runtime_activation.go), the binding of a process *)
(* at its start, and the work that runs under a configuration.  A process  *)
(* takes several transactions; an activator holds its mutex meanwhile, but *)
(* requests, workers and other processes go on.                            *)
(*                                                                         *)
(* Abstractions.  A configuration has a field the metadata depends on,     *)
(* which the environment may override, and one only descriptions depend    *)
(* on; its fingerprint is its effective value.  The slot of the active     *)
(* input is taken from ActiveInputSlot, reduced to what activation reads;  *)
(* it holds one workflow, one operation and one effect at a time.  Cookies *)
(* and the validation of a candidate are part of Build.                    *)
(***************************************************************************)
EXTENDS Naturals, FiniteSets

CONSTANTS
    Proc,       \* processes on one database
    Request,    \* requests and workers that may run at the same time
    Config,     \* stored configurations, [provider, description]
    Env,        \* values of the override of "provider", or None
    Broken,     \* effective configurations whose runtime cannot be built
    MaxStarts, MaxSaves, MaxTasks, MaxLapses,
    None

ASSUME ConfigAssumption ==
    /\ \A c \in Config : c = [provider |-> c.provider, description |-> c.description]
    /\ None \in Env
    /\ MaxStarts \in Nat /\ MaxSaves \in Nat /\ MaxTasks \in Nat /\ MaxLapses \in Nat

\* config.ApplyEnvOverrides.
Effective(e, c) == IF e = None THEN c ELSE [c EXCEPT !.provider = e]

Runtimes == {Effective(e, c) : e \in Env, c \in Config}

Parts == {"prepared", "descriptions"}
Ids == 1 .. MaxSaves
Gens == Nat

\* What a caller keeps of loadConfigActivation.
Statuses == {"active", "pending", "failed"}
Activations == [gen : Gens, print : Runtimes \cup {None}, status : Statuses, id : Ids \cup {0}]

\* A call of the activator, or the binding of a starting process (mode "start").
Points == {"fetch", "stored", "activation", "persist", "clear", "build", "admit",
           "commit", "install", "defer", "fail", "bind"}
Calls == [at : Points, mode : {"start", "save", "import", "pending"},
          config : Config, old : Config, seen : Activations, id : Ids \cup {0}]

\* What is absent is neither a configuration nor a call.
ASSUME AbsentAssumption == None \notin Runtimes /\ None \notin Calls

Tasks == [proc : Proc, kind : {"command", "operation"}, part : Parts, rev : Nat,
          runtime : Runtimes]

VARIABLES
    row,        \* config_activation: generation, fingerprint, failed candidate
    pending,    \* config_activation_pending, or None
    stored,     \* the stored configuration
    slot,       \* the active input: state, process that holds it, lease
    work,       \* its workflow: revision and the configuration of each part
    op,         \* its unfinished operation, or None
    effect,     \* its started effect, or None
    env,        \* env[p]
    runtime,    \* runtime[p]: the installed generation, or None
    call,       \* call[p]: the call that holds the activator's mutex, or None
    task,       \* task[r]: a request or worker, or None
    starts, saves, tasks, lapses

database == <<row, pending, stored>>
input == <<slot, work, op, effect>>
limits == <<starts, saves, tasks, lapses>>
vars == <<database, input, env, runtime, call, task, limits>>

TypeOK ==
    /\ row \in [gen : Gens, print : Runtimes \cup {None}, failed : Ids \cup {0}]
    /\ pending \in [id : Ids, config : Config, base : Gens] \cup {None}
    /\ stored \in Config
    /\ slot \in [state : {"empty", "moving", "active"}, proc : Proc \cup {None}, live : BOOLEAN]
    /\ work \in [rev : Nat, prepared : Runtimes \cup {None},
                 descriptions : Runtimes \cup {None}, done : BOOLEAN]
    /\ op \in [proc : Proc \cup {None}, live : BOOLEAN, part : Parts, rev : Nat] \cup {None}
    /\ effect \in Runtimes \cup {None}
    /\ env \in [Proc -> Env]
    /\ runtime \in [Proc -> [gen : Gens, config : Runtimes] \cup {None}]
    /\ call \in [Proc -> Calls \cup {None}]
    /\ task \in [Request -> Tasks \cup {None}]
    /\ starts \in Nat /\ saves \in Nat /\ tasks \in Nat /\ lapses \in Nat

NoWork == [rev |-> 0, prepared |-> None, descriptions |-> None, done |-> FALSE]

Init ==
    /\ row = [gen |-> 0, print |-> None, failed |-> 0] /\ pending = None
    /\ stored \in Config
    /\ slot = [state |-> "empty", proc |-> None, live |-> FALSE]
    /\ work = NoWork /\ op = None /\ effect = None
    /\ env = [p \in Proc |-> None]
    /\ runtime = [p \in Proc |-> None]
    /\ call = [p \in Proc |-> None]
    /\ task = [r \in Request |-> None]
    /\ starts = 0 /\ saves = 0 /\ tasks = 0 /\ lapses = 0

-----------------------------------------------------------------------------
(* The repository.                                                         *)

\* loadConfigActivation.
Activation ==
    [gen |-> row.gen, print |-> row.print,
     status |-> IF pending # None THEN "pending" ELSE IF row.failed # 0 THEN "failed" ELSE "active",
     id |-> IF pending # None THEN pending.id ELSE row.failed]

\* Mutant: effects are not looked at.
Safe_NoEffect == slot.state # "moving" /\ op = None

\* requireConfigActivationSafe.
Safe == slot.state # "moving" /\ op = None /\ effect = None

\* requireStartupConfigActivationSafe: what has to be waited for, and what not.
StartupBusy ==
    \/ slot.state = "moving" /\ slot.live
    \/ op # None /\ (slot.live \/ op.live)

\* configImpactDetails.
Impacts(old, new) ==
    (IF old.provider # new.provider THEN {"prepared"} ELSE {})
    \cup (IF old.description # new.description THEN {"descriptions"} ELSE {})

\* applyConfigActivationWorkflowImpacts with ApplyConfigImpact: the parts that
\* depend on what changed are dropped, unless the workflow is completed.
Impacted(impacts) ==
    IF work.done \/ impacts = {} THEN work
    ELSE [work EXCEPT !.rev = work.rev + Cardinality(impacts),
                      !.prepared = IF "prepared" \in impacts THEN None ELSE work.prepared,
                      !.descriptions = None]

\* requireConfigActivationGeneration and configActivationGenerationGuard.
Admitted(p) ==
    runtime[p] # None /\ runtime[p].gen = row.gen /\ runtime[p].config = row.print

-----------------------------------------------------------------------------
(* The activator.  hasBorrowers: requests and workers of the process; the   *)
(* admission lock is held by the requests, and by the activator from admit. *)

Borrowed(p) == \E r \in Request : task[r] # None /\ task[r].proc = p
Requested(p) ==
    \E r \in Request : task[r] # None /\ task[r].proc = p /\ task[r].kind = "command"
Closed(p) == call[p] # None /\ call[p].at \in {"commit", "install"}

SafeFor(p) == ~Borrowed(p) /\ Safe

Goto(p, at) == call' = [call EXCEPT ![p].at = at]
End(p) == call' = [call EXCEPT ![p] = None]

At(p, at) == call[p] # None /\ call[p].at = at
New(p) == Effective(env[p], call[p].config)

Begun(p, mode, c, at, id) ==
    call' = [call EXCEPT ![p] = [at |-> at, mode |-> mode, config |-> c, old |-> c,
                                 seen |-> Activation, id |-> id]]

\* ActivateResultForOwner and ActivateImmediate.
Save(p, mode, c) ==
    /\ runtime[p] # None /\ call[p] = None /\ saves < MaxSaves
    /\ saves' = saves + 1
    /\ Begun(p, mode, c, "stored", saves + 1)
    /\ UNCHANGED <<database, input, env, runtime, task, starts, tasks, lapses>>

\* ActivatePending looks whether there is something to do.
Poll(p) ==
    /\ runtime[p] # None /\ call[p] = None
    /\ pending # None /\ SafeFor(p)
    /\ Begun(p, "pending", stored, "fetch", 0)
    /\ UNCHANGED <<database, input, env, runtime, task, limits>>

\* LoadPendingConfigActivationCandidate.
Fetch(p) ==
    /\ At(p, "fetch")
    /\ IF pending = None THEN End(p)
       ELSE call' = [call EXCEPT ![p] = [call[p] EXCEPT !.at = "stored", !.id = pending.id,
                                                        !.config = pending.config]]
    /\ UNCHANGED <<database, input, env, runtime, task, limits>>

\* currentStored and currentRuntime; of a starting process, LoadFullConfig and
\* the comparison with the configuration it was started with.
LoadStored(p) ==
    /\ At(p, "stored")
    /\ IF call[p].mode = "start" /\ Effective(env[p], stored) # New(p) THEN End(p)
       ELSE call' = [call EXCEPT ![p].at = "activation", ![p].old = stored]
    /\ UNCHANGED <<database, input, env, runtime, task, limits>>

\* currentActivation, and the decision it leads to.
LoadActivation(p) ==
    /\ At(p, "activation")
    /\ LET j == call[p]
           next == CASE j.mode = "start" -> "bind"
                     [] j.mode = "pending" ->
                          IF Activation.status = "pending" /\ Activation.id = j.id
                          THEN IF SafeFor(p) THEN "build" ELSE "end"
                          ELSE "fail"
                     [] j.mode \in {"save", "import"} /\ pending # None -> "end"
                     [] OTHER ->
                          IF New(p) # Effective(env[p], j.old)
                          THEN IF SafeFor(p) THEN "build" ELSE "defer"
                          ELSE IF j.config # j.old THEN "persist" ELSE "clear"
       IN  call' = [call EXCEPT ![p] = IF next = "end" THEN None
                                       ELSE [j EXCEPT !.at = next, !.seen = Activation]]
    /\ UNCHANGED <<database, input, env, runtime, task, limits>>

\* A candidate that leaves the runtime as it is: persistStored.
Persist(p) ==
    /\ At(p, "persist")
    /\ stored' = call[p].config
    /\ Goto(p, "clear")
    /\ UNCHANGED <<row, pending, input, env, runtime, task, limits>>

\* ClearConfigActivationFailure of the failure that was seen.
Clear(p) ==
    /\ At(p, "clear")
    /\ row' = IF call[p].seen.status = "failed" /\ pending = None /\ row.failed = call[p].seen.id
              THEN [row EXCEPT !.failed = 0] ELSE row
    /\ End(p)
    /\ UNCHANGED <<stored, pending, input, env, runtime, task, limits>>

Build(p) ==
    /\ At(p, "build")
    /\ Goto(p, IF New(p) \in Broken THEN "fail" ELSE "admit")
    /\ UNCHANGED <<database, input, env, runtime, task, limits>>

\* Mutant: work under way counts as a failure of the candidate.
Admit_Fails(p) ==
    /\ At(p, "admit")
    /\ Goto(p, IF ~Requested(p) /\ SafeFor(p) THEN "commit" ELSE "fail")
    /\ UNCHANGED <<database, input, env, runtime, task, limits>>

\* tryAcquireRuntimeAdmission, and the second look at the work.
Admit(p) ==
    /\ At(p, "admit")
    /\ Goto(p, IF ~Requested(p) /\ SafeFor(p) THEN "commit" ELSE "defer")
    /\ UNCHANGED <<database, input, env, runtime, task, limits>>

\* Mutant: the workflow keeps what depended on the old configuration.
Commit_NoImpacts(p) ==
    /\ At(p, "commit")
    /\ LET j == call[p]
           changed == \/ row.gen # j.seen.gen
                      \/ j.mode = "pending" /\ (pending = None \/ pending.id # j.id)
       IN  IF changed THEN Goto(p, "fail") /\ UNCHANGED <<database, work>>
           ELSE IF j.mode # "pending" /\ pending # None THEN End(p) /\ UNCHANGED <<database, work>>
           ELSE IF ~Safe THEN Goto(p, "defer") /\ UNCHANGED <<database, work>>
           ELSE /\ row' = [gen |-> row.gen + 1, print |-> New(p), failed |-> 0]
                /\ pending' = None
                /\ stored' = j.config
                /\ Goto(p, "install")
                /\ UNCHANGED work
    /\ UNCHANGED <<slot, op, effect, env, runtime, task, limits>>

\* persistActivated: ActivateConfigTx and the stored configuration in one
\* transaction.
Commit(p) ==
    /\ At(p, "commit")
    /\ LET j == call[p]
           changed == \/ row.gen # j.seen.gen
                      \/ j.mode = "pending" /\ (pending = None \/ pending.id # j.id)
       IN  IF changed THEN Goto(p, "fail") /\ UNCHANGED <<database, work>>
           ELSE IF j.mode # "pending" /\ pending # None THEN End(p) /\ UNCHANGED <<database, work>>
           ELSE IF ~Safe THEN Goto(p, "defer") /\ UNCHANGED <<database, work>>
           ELSE /\ row' = [gen |-> row.gen + 1, print |-> New(p), failed |-> 0]
                /\ pending' = None
                /\ stored' = j.config
                /\ work' = IF slot.state = "active"
                           THEN Impacted(Impacts(Effective(env[p], j.old), New(p))) ELSE work
                /\ Goto(p, "install")
    /\ UNCHANGED <<slot, op, effect, env, runtime, task, limits>>

\* Install: the runtime is published and the old one retired.
Install(p) ==
    /\ At(p, "install")
    /\ runtime' = [runtime EXCEPT ![p] = [gen |-> call[p].seen.gen + 1, config |-> New(p)]]
    /\ End(p)
    /\ UNCHANGED <<database, input, env, task, limits>>

\* deferActivation: SavePendingConfigActivation of a save; an import is
\* refused, and a pending candidate stays pending.
Defer(p) ==
    /\ At(p, "defer")
    /\ IF call[p].mode = "save" /\ pending = None
       THEN /\ pending' = [id |-> call[p].id, config |-> call[p].config, base |-> row.gen]
            /\ row' = [row EXCEPT !.failed = 0]
       ELSE UNCHANGED <<row, pending>>
    /\ End(p)
    /\ UNCHANGED <<stored, input, env, runtime, task, limits>>

\* Mutant: a candidate that cannot be built stays pending.
Fail_Keeps(p) ==
    /\ At(p, "fail")
    /\ End(p)
    /\ UNCHANGED <<database, input, env, runtime, task, limits>>

\* failPendingActivation with FailPendingConfigActivation.
Fail(p) ==
    /\ At(p, "fail")
    /\ IF call[p].mode = "pending" /\ pending # None /\ pending.id = call[p].id
       THEN row' = [row EXCEPT !.failed = call[p].id] /\ pending' = None
       ELSE UNCHANGED <<row, pending>>
    /\ End(p)
    /\ UNCHANGED <<stored, input, env, runtime, task, limits>>

\* The caller's context ends before the commit.
Cancel(p) ==
    /\ call[p] # None /\ call[p].at # "install" /\ lapses < MaxLapses
    /\ lapses' = lapses + 1
    /\ End(p)
    /\ UNCHANGED <<database, input, env, runtime, task, starts, saves, tasks>>

-----------------------------------------------------------------------------
(* A process starts, and ends.                                             *)

\* The configuration is loaded; InitializeRuntimeConfigActivation begins.
Start(p, e) ==
    /\ runtime[p] = None /\ call[p] = None /\ starts < MaxStarts
    /\ starts' = starts + 1
    /\ env' = [env EXCEPT ![p] = e]
    /\ Begun(p, "start", stored, "stored", 0)
    /\ UNCHANGED <<database, input, runtime, task, saves, tasks, lapses>>

Bound(p, gen) ==
    /\ runtime' = [runtime EXCEPT ![p] = [gen |-> gen, config |-> New(p)]]
    /\ End(p)

\* InitializeConfigActivationFingerprint, where the fingerprint has not changed.
Initialize(p) ==
    /\ At(p, "bind") /\ call[p].seen.print \in {None, New(p)}
    /\ IF row.print \in {None, New(p)}
       THEN row' = [row EXCEPT !.print = New(p)] /\ Bound(p, row.gen)
       ELSE End(p) /\ UNCHANGED <<row, runtime>>
    /\ UNCHANGED <<pending, stored, input, env, task, limits>>

\* Mutant: the pending candidate keeps its generation.
Rebased_Not == pending

\* A pending candidate follows the generation.
Rebased == IF pending = None THEN None ELSE [pending EXCEPT !.base = row.gen + 1]

\* ReconcileConfigActivation, where it has changed: everything is prepared anew.
\* A busy input is tried again, until the start gives up.
Reconcile(p) ==
    /\ At(p, "bind") /\ call[p].seen.print \notin {None, New(p)}
    /\ IF Activation # call[p].seen \/ stored # call[p].old
       THEN End(p) /\ UNCHANGED <<row, pending, work, runtime>>
       ELSE IF StartupBusy \/ effect # None
       THEN End(p) /\ UNCHANGED <<row, pending, work, runtime>>
       ELSE /\ row' = [row EXCEPT !.gen = row.gen + 1, !.print = New(p)]
            /\ pending' = Rebased
            /\ work' = IF slot.state = "empty" THEN work ELSE Impacted({"prepared"})
            /\ Bound(p, row.gen + 1)
    /\ UNCHANGED <<stored, slot, op, effect, env, task, limits>>

\* The process ends; what it has in the database stays, with nobody to renew it.
Stop(p) ==
    /\ runtime[p] # None \/ call[p] # None
    /\ starts < MaxStarts
    /\ runtime' = [runtime EXCEPT ![p] = None]
    /\ End(p)
    /\ task' = [r \in Request |-> IF task[r] # None /\ task[r].proc = p THEN None ELSE task[r]]
    /\ slot' = IF slot.proc = p THEN [slot EXCEPT !.proc = None] ELSE slot
    /\ op' = IF op # None /\ op.proc = p THEN [op EXCEPT !.proc = None] ELSE op
    /\ UNCHANGED <<database, work, effect, env, limits>>

-----------------------------------------------------------------------------
(* The input and the work on it.                                           *)

Holds(p) == slot.state = "active" /\ slot.proc = p /\ slot.live

\* OpenInput reserves the slot.
Reserve(p) ==
    /\ Admitted(p) /\ ~Closed(p) /\ slot.state = "empty"
    /\ tasks < MaxTasks /\ tasks' = tasks + 1
    /\ slot' = [state |-> "moving", proc |-> p, live |-> TRUE]
    /\ UNCHANGED <<database, work, op, effect, env, runtime, call, task, starts, saves, lapses>>

\* It commits the slot with a new workflow.
Open(p) ==
    /\ runtime[p] # None /\ slot = [state |-> "moving", proc |-> p, live |-> TRUE]
    /\ slot' = [slot EXCEPT !.state = "active"]
    /\ work' = [NoWork EXCEPT !.rev = work.rev + 1]
    /\ UNCHANGED <<database, op, effect, env, runtime, call, task, limits>>

\* ReleaseInput.
Close(p) ==
    /\ Admitted(p) /\ Holds(p) /\ op = None /\ effect = None
    /\ slot' = [state |-> "empty", proc |-> None, live |-> FALSE]
    /\ UNCHANGED <<database, work, op, effect, env, runtime, call, task, limits>>

\* A lease is not renewed in time: its process has ended, or is held up.
Late(p) ==
    /\ p = None \/ lapses < MaxLapses
    /\ lapses' = IF p = None THEN lapses ELSE lapses + 1

Lapse ==
    /\ slot.live /\ Late(slot.proc)
    /\ slot' = [slot EXCEPT !.live = FALSE]
    /\ UNCHANGED <<database, work, op, effect, env, runtime, call, task, starts, saves, tasks>>

LapseWork ==
    /\ op # None /\ op.live /\ Late(op.proc)
    /\ op' = [op EXCEPT !.live = FALSE]
    /\ UNCHANGED <<database, slot, work, effect, env, runtime, call, task, starts, saves, tasks>>

\* Another process, or the same one after a restart, recovers the slot.  A
\* recovery is part of a request, or keeps the borrow of the request it outlives:
\* none goes on while the admission lock is held.
Recover(p) ==
    /\ runtime[p] # None /\ ~Closed(p) /\ slot.state # "empty" /\ ~slot.live
    /\ slot' = [slot EXCEPT !.proc = p, !.live = TRUE]
    /\ UNCHANGED <<database, work, op, effect, env, runtime, call, task, limits>>

\* Execute and Start: the guard on the generation, then the command runs on the
\* revision its client has seen.
Begin(r, p, kind, part) ==
    /\ task[r] = None /\ Admitted(p) /\ ~Closed(p) /\ Holds(p) /\ ~work.done
    /\ part = "descriptions" => work.prepared # None
    /\ tasks < MaxTasks /\ tasks' = tasks + 1
    /\ \/ kind = "command" /\ UNCHANGED op
       \/ /\ kind = "operation" /\ op = None
          /\ op' = [proc |-> p, live |-> TRUE, part |-> part, rev |-> work.rev]
    /\ task' = [task EXCEPT ![r] = [proc |-> p, kind |-> kind, part |-> part, rev |-> work.rev,
                                    runtime |-> runtime[p].config]]
    /\ UNCHANGED <<database, slot, work, effect, env, runtime, call, starts, saves, lapses>>

\* Recovery of an operation whose worker is gone: it goes on with the command.
Resume(r, p) ==
    /\ task[r] = None /\ runtime[p] # None /\ ~Closed(p) /\ Holds(p) /\ op # None /\ ~op.live
    /\ op' = [op EXCEPT !.proc = p, !.live = TRUE]
    /\ task' = [task EXCEPT ![r] = [proc |-> p, kind |-> "operation", part |-> op.part,
                                    rev |-> op.rev, runtime |-> runtime[p].config]]
    /\ UNCHANGED <<database, slot, work, effect, env, runtime, call, limits>>

\* Or it interrupts the operation, whatever its effect.
Interrupt(p) ==
    /\ runtime[p] # None /\ ~Closed(p) /\ Holds(p) /\ op # None /\ ~op.live
    /\ op' = None
    /\ UNCHANGED <<database, slot, work, effect, env, runtime, call, task, limits>>

Own(r) == op # None /\ op.proc = task[r].proc /\ op.live

\* BeginReleaseWorkflowEffect, with the generation checked in the transaction.
BeginEffect(r) ==
    /\ task[r] # None /\ task[r].kind = "operation" /\ Own(r)
    /\ effect = None /\ Holds(task[r].proc) /\ Admitted(task[r].proc)
    /\ tasks < MaxTasks /\ tasks' = tasks + 1
    /\ effect' = task[r].runtime
    /\ UNCHANGED <<database, slot, work, op, env, runtime, call, task, starts, saves, lapses>>

\* It is completed, or settled by hand after its process ended.
EndEffect ==
    /\ effect # None
    /\ effect' = None
    /\ UNCHANGED <<database, slot, work, op, env, runtime, call, task, limits>>

\* The result is saved on the revision, or the command has failed.
Finish(r) ==
    /\ task[r] # None
    /\ task[r].kind = "operation" => effect = None
    /\ work' = IF Holds(task[r].proc) /\ work.rev = task[r].rev /\ (task[r].kind = "operation" => Own(r))
               THEN IF task[r].part = "prepared"
                    THEN [work EXCEPT !.rev = work.rev + 1, !.prepared = task[r].runtime,
                                      !.descriptions = None]
                    ELSE [work EXCEPT !.rev = work.rev + 1, !.descriptions = task[r].runtime,
                                      !.done = task[r].kind = "operation"]
               ELSE work
    /\ op' = IF task[r].kind = "operation" /\ Own(r) THEN None ELSE op
    /\ task' = [task EXCEPT ![r] = None]
    /\ UNCHANGED <<database, slot, effect, env, runtime, call, limits>>

CallStep(p) ==
    \/ Fetch(p) \/ LoadStored(p) \/ LoadActivation(p) \/ Persist(p) \/ Clear(p) \/ Build(p)
    \/ Admit(p) \/ Commit(p) \/ Install(p) \/ Defer(p) \/ Fail(p)
    \/ Initialize(p) \/ Reconcile(p)

Next ==
    \/ \E p \in Proc : \/ \E c \in Config, mode \in {"save", "import"} : Save(p, mode, c)
                       \/ \E e \in Env : Start(p, e)
                       \/ Poll(p) \/ CallStep(p) \/ Cancel(p) \/ Stop(p)
                       \/ Reserve(p) \/ Open(p) \/ Close(p) \/ Recover(p) \/ Interrupt(p)
    \/ \E r \in Request, p \in Proc : \/ Resume(r, p)
                                     \/ \E kind \in {"command", "operation"}, part \in Parts :
                                           Begin(r, p, kind, part)
    \/ \E r \in Request : BeginEffect(r) \/ Finish(r)
    \/ EndEffect \/ Lapse \/ LapseWork

Spec == Init /\ [][Next]_vars

\* Calls, requests and workers go on; leases run out and are recovered; the
\* Settings page keeps polling.
Fairness ==
    /\ \A p \in Proc : WF_vars(CallStep(p)) /\ WF_vars(Poll(p)) /\ WF_vars(Open(p))
                        /\ WF_vars(Recover(p))
    /\ \A r \in Request : WF_vars(Finish(r)) /\ WF_vars(\E p \in Proc : Resume(r, p))
    /\ WF_vars(EndEffect)
    /\ WF_vars(slot.proc = None /\ Lapse)
    /\ WF_vars(op # None /\ op.proc = None /\ LapseWork)

FairSpec == Spec /\ Fairness

-----------------------------------------------------------------------------
(* Properties.                                                             *)

\* No effect is under way under a configuration that is no longer active:
\* activation waits for effects, and effects are admitted by generation.
EffectsUnderActive == effect # None => effect = row.print

\* Every part of the open workflow was made under the active configuration, as
\* far as it depends on it.
PreparedUnderActive ==
    slot.state = "active" /\ ~work.done =>
        /\ work.prepared # None => work.prepared.provider = row.print.provider
        /\ work.descriptions # None => work.descriptions = row.print

\* The pending candidate can be loaded: its base is the active generation.
PendingIsCurrent == pending # None => pending.base = row.gen

\* A candidate is recorded as failed only when its runtime cannot be built.
FailedIsBroken ==
    [][row'.failed \notin {0, row.failed} =>
         \E p \in Proc : Effective(env[p], pending.config) \in Broken]_vars

\* A pending candidate is activated or recorded as failed, once the work that
\* holds it up ends, as long as a process runs.
PendingResolves ==
    pending # None ~> pending = None \/ \A p \in Proc : runtime[p] = None

\* A starting process changes the generation only when the lease of the input
\* has run out.
StartRespectsLease ==
    [][\A p \in Proc : At(p, "bind") /\ call[p] # call'[p] /\ row'.gen # row.gen => ~slot.live]_vars
=============================================================================
