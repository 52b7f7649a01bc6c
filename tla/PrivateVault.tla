---------------------------- MODULE PrivateVault ----------------------------
(***************************************************************************)
(* PrivateArtifactVault (releaseworkflow/private_vault.go): resources that *)
(* a process keeps in memory and, when they are durable, in two files, the *)
(* payload (.blob) and its metadata (.json).  A call holds v.mu from start *)
(* to end, but it changes one file at a time, any change may fail, and the *)
(* process may end between two of them and start again from the files.     *)
(*                                                                         *)
(* Abstractions.  The keys of one workflow, in one process at a time.  A   *)
(* value stands for a payload with its digest, kind and expiry, and is put *)
(* once.  What a resource releases is its own files, outside the vault.    *)
(***************************************************************************)
EXTENDS Naturals, Sequences, SequencesExt

CONSTANTS
    Key,        \* resource IDs
    Value,      \* resources
    Volatile,   \* resources that cannot be encoded and live in memory only
    Permanent,  \* resources whose codec says NoExpiry
    MaxCrashes, \* ends of the process
    MaxFaults,  \* file operations that fail
    None

ASSUME VaultAssumption ==
    /\ Volatile \subseteq Value /\ Permanent \subseteq Value \ Volatile
    /\ None \notin Value \cup Key /\ IsFiniteSet(Key)
    /\ MaxCrashes \in Nat /\ MaxFaults \in Nat

Metas == [value : Value, consumed : BOOLEAN]

\* One file operation: a removal, or the rename that installs a file.
Step(file, key, content) == [file |-> file, key |-> key, content |-> content]
Steps == [file : {"blob"}, key : Key, content : Value \cup {None}]
            \cup [file : {"meta"}, key : Key, content : Metas \cup {None}]

\* A call with what it has still to do to the files.  ok: no error so far.
\* gone: the keys it takes out of the vault.  loose: the resources to release.
Calls == {"put", "expire", "consume", "delete", "invalidate", "cleanup"}
Jobs == [call : Calls, key : Key \cup {None}, value : Value \cup {None}, todo : Seq(Steps),
         ok : BOOLEAN, gone : SUBSET Key, loose : SUBSET Value]

ASSUME AbsentAssumption == None \notin Metas /\ None \notin Jobs

VARIABLES
    blob,       \* blob[k]: the payload file
    meta,       \* meta[k]: the metadata file
    entries,    \* entries[k]: v.entries
    consumed,   \* v.consumed
    job,        \* the call that holds v.mu, or None
    over,       \* resources whose expiry is past
    blocked,    \* CleanupExpired has failed although no file operation did
    crashes, faults,
    current,    \* history: current[k], the resource put last under k
    spent,      \* history: resources that Consume returned
    released    \* history: resources that were released

files == <<blob, meta>>
memory == <<entries, consumed>>
limits == <<over, blocked, crashes, faults>>
history == <<current, spent, released>>
vars == <<files, memory, job, limits, history>>

TypeOK ==
    /\ blob \in [Key -> Value \cup {None}]
    /\ meta \in [Key -> Metas \cup {None}]
    /\ entries \in [Key -> Value \cup {None}]
    /\ consumed \in SUBSET Key
    /\ job \in Jobs \cup {None}
    /\ over \in SUBSET Value /\ spent \in SUBSET Value /\ released \in SUBSET Value
    /\ blocked \in BOOLEAN
    /\ crashes \in Nat /\ faults \in Nat
    /\ current \in [Key -> Value \cup {None}]

Empty == [k \in Key |-> None]

Init ==
    /\ blob = Empty /\ meta = Empty /\ entries = Empty /\ consumed = {}
    /\ job = None /\ over = {} /\ blocked = FALSE /\ crashes = 0 /\ faults = 0
    /\ current = Empty /\ spent = {} /\ released = {}

-----------------------------------------------------------------------------
\* decodeResourceForReleaseLocked succeeds; of a consumed one there is nothing.
Decodable(k) == meta[k].consumed \/ blob[k] = meta[k].value

\* The resource it returns: none without metadata.
Decoded(k) == IF meta[k] = None \/ meta[k].consumed THEN {} ELSE {meta[k].value}

\* getLocked, without what it cleans up: the resource that Get returns.
Available(k) ==
    CASE k \in consumed -> None
      [] k \notin consumed /\ entries[k] # None ->
            IF entries[k] \in over THEN None ELSE entries[k]
      [] OTHER ->
            IF /\ meta[k] # None /\ ~meta[k].consumed
               /\ meta[k].value \notin over /\ blob[k] = meta[k].value
            THEN meta[k].value ELSE None

Removal(k) == <<Step("blob", k, None), Step("meta", k, None)>>

\* The removals of several keys, one key after the other.
RemovalOf(keys) ==
    [n \in 1 .. 2 * Cardinality(keys) |->
        Removal(SetToSeq(keys)[(n + 1) \div 2])[IF n % 2 = 1 THEN 1 ELSE 2]]

\* writeRestrictedFile removes the old file before it renames the new one.
Writing(file, k, content) == <<Step(file, k, None), Step(file, k, content)>>

Job(call, k, value, todo, gone, loose) ==
    [call |-> call, key |-> k, value |-> value, todo |-> todo, ok |-> TRUE,
     gone |-> gone, loose |-> loose]

Forget(keys) == current' = [k \in Key |-> IF k \in keys THEN None ELSE current[k]]

-----------------------------------------------------------------------------
(* Calls.                                                                  *)

Used == {v \in Value : \E k \in Key : v \in {blob[k], entries[k], current[k]}
                          \/ (meta[k] # None /\ meta[k].value = v)}

\* put: the payload before the metadata.
Put(k, v) ==
    /\ job = None
    /\ v \notin Used \cup spent \cup released \cup over
    /\ job' = Job("put", k, v,
                  IF v \in Volatile THEN Removal(k)
                  ELSE Writing("blob", k, v)
                       \o Writing("meta", k, [value |-> v, consumed |-> FALSE]),
                  {}, {})
    /\ Forget({k})
    /\ UNCHANGED <<files, memory, limits, spent, released>>

\* Get of a resource that can be returned, or whose metadata is a tombstone.
Load(k) ==
    /\ job = None /\ k \notin consumed /\ entries[k] = None /\ meta[k] # None
    /\ \/ Available(k) # None /\ entries' = [entries EXCEPT ![k] = Available(k)]
          /\ UNCHANGED consumed
       \/ meta[k].consumed /\ consumed' = consumed \cup {k} /\ UNCHANGED entries
    /\ UNCHANGED <<files, job, limits, history>>

\* Get of one that has expired: it is released, then its files removed.
Expire(k) ==
    /\ job = None /\ k \notin consumed
    /\ \/ /\ entries[k] \in over
          /\ released' = released \cup {entries[k]}
       \/ /\ entries[k] = None /\ meta[k] # None
          /\ ~meta[k].consumed /\ meta[k].value \in over /\ Decodable(k)
          /\ released' = released \cup {meta[k].value}
    /\ entries' = [entries EXCEPT ![k] = None]
    /\ job' = Job("expire", k, None, Removal(k), {}, {})
    /\ UNCHANGED <<files, consumed, limits, current, spent>>

\* Mutant: only the payload is removed.
Consume_NoTombstone(k) ==
    /\ job = None /\ Available(k) # None
    /\ entries' = [entries EXCEPT ![k] = Available(k)]
    /\ job' = Job("consume", k, Available(k), <<>>, {}, {})
    /\ Forget({k})
    /\ UNCHANGED <<files, consumed, limits, spent, released>>

\* Consume: the tombstone, then the payload.
Consume(k) ==
    /\ job = None /\ Available(k) # None
    /\ entries' = [entries EXCEPT ![k] = Available(k)]
    /\ job' = Job("consume", k, Available(k),
                  IF meta[k] = None THEN <<>>
                  ELSE Writing("meta", k, [value |-> meta[k].value, consumed |-> TRUE])
                       \o <<Step("blob", k, None)>>,
                  {}, {})
    /\ Forget({k})
    /\ UNCHANGED <<files, consumed, limits, spent, released>>

\* Delete gives up when the payload does not match its metadata.
Delete(k) ==
    /\ job = None
    /\ entries[k] = None /\ meta[k] # None => Decodable(k)
    /\ entries' = [entries EXCEPT ![k] = None]
    /\ consumed' = consumed \ {k}
    /\ job' = Job("delete", k, None, Removal(k), {},
                  IF entries[k] # None THEN {entries[k]} ELSE Decoded(k))
    /\ Forget({k})
    /\ UNCHANGED <<files, limits, spent, released>>

Stored == {k \in Key : meta[k] # None}

\* DeleteWorkflow and InvalidateWorkflowExcept, unless a payload that is not
\* loaded does not match.
Invalidate(preserved) ==
    LET gone == Key \ preserved
        unloaded == {k \in Stored \ preserved : entries[k] = None}
    IN  /\ job = None
        /\ \A k \in unloaded : Decodable(k)
        /\ job' = Job("invalidate", None, None, RemovalOf(Stored \ preserved), gone,
                      UNION {Decoded(k) : k \in unloaded})
        /\ Forget(gone)
        /\ UNCHANGED <<files, memory, limits, spent, released>>

\* Mutant: what has not expired is removed too.
Cleanable_Any == Stored

\* Metadata that CleanupExpired takes: expired, or a tombstone.
Cleanable == {k \in Stored : meta[k].consumed \/ meta[k].value \in over}

\* CleanupExpired.  One payload that does not match stops it before it removes
\* anything.
CleanupExpired ==
    /\ job = None
    /\ IF \A k \in Cleanable : Decodable(k)
       THEN job' = Job("cleanup", None, None, RemovalOf(Cleanable), {}, {}) /\ UNCHANGED blocked
       ELSE blocked' = (blocked \/ faults = 0) /\ UNCHANGED job
    /\ UNCHANGED <<files, memory, over, crashes, faults, history>>

-----------------------------------------------------------------------------
(* Progress of a call.                                                     *)

\* One file is removed or installed.  CleanupExpired counts the keys whose two
\* files are gone, and what they held.
DoStep ==
    /\ job # None /\ job.todo # <<>>
    /\ LET s == Head(job.todo)
           next == [job EXCEPT !.todo = Tail(job.todo)]
       IN  /\ IF s.file = "blob"
              THEN blob' = [blob EXCEPT ![s.key] = s.content] /\ UNCHANGED meta
              ELSE meta' = [meta EXCEPT ![s.key] = s.content] /\ UNCHANGED blob
           /\ job' = IF job.call = "cleanup" /\ job.ok /\ s.file = "meta"
                     THEN [next EXCEPT !.gone = job.gone \cup {s.key},
                                       !.loose = job.loose \cup Decoded(s.key)]
                     ELSE next
    /\ UNCHANGED <<memory, limits, history>>

\* What is left to do after an error: nothing more where the code returns; the
\* second removal where both are tried; the payload of a put whose metadata
\* could not be written.
Remainder(j) ==
    LET s == Head(j.todo)
    IN  CASE j.call \in {"expire", "delete"} -> Tail(j.todo)
          [] j.call = "put" /\ s.file = "meta" /\ j.value \notin Volatile ->
                <<Step("blob", s.key, None)>>
          [] (j.call = "cleanup" \/ (j.call = "put" /\ j.value \in Volatile)) /\ s.file = "blob" ->
                <<Step("meta", s.key, None)>>
          [] OTHER -> <<>>

FailStep ==
    /\ job # None /\ job.todo # <<>> /\ faults < MaxFaults
    /\ faults' = faults + 1
    /\ job' = [job EXCEPT !.todo = Remainder(job),
                          !.ok = job.ok /\ job.call \in {"expire", "delete"}]
    /\ UNCHANGED <<files, memory, over, blocked, crashes, history>>

\* Entries that CleanupExpired drops; after an error only those whose files it
\* removed.
Dropped ==
    {k \in Key : entries[k] \in over /\ (job.ok \/ k \in job.gone)}

\* The call updates memory and returns.
Return ==
    /\ job # None /\ job.todo = <<>>
    /\ job' = None
    /\ CASE job.call = "put" /\ job.ok ->
              /\ entries' = [entries EXCEPT ![job.key] = job.value]
              /\ consumed' = consumed \ {job.key}
              /\ current' = [current EXCEPT ![job.key] = job.value]
              /\ UNCHANGED <<spent, released>>
         [] job.call = "consume" /\ job.ok ->
              /\ entries' = [entries EXCEPT ![job.key] = None]
              /\ consumed' = consumed \cup {job.key}
              /\ spent' = spent \cup {job.value}
              /\ UNCHANGED <<current, released>>
         [] job.call = "delete" ->
              /\ released' = released \cup job.loose
              /\ UNCHANGED <<memory, current, spent>>
         [] job.call = "invalidate" /\ job.ok ->
              /\ released' = released \cup job.loose
                                \cup ({entries[k] : k \in job.gone} \ {None})
              /\ entries' = [k \in Key |-> IF k \in job.gone THEN None ELSE entries[k]]
              /\ consumed' = consumed \ job.gone
              /\ UNCHANGED <<current, spent>>
         [] job.call = "cleanup" ->
              /\ released' = released \cup job.loose \cup {entries[k] : k \in Dropped}
              /\ entries' = [k \in Key |-> IF k \in Dropped THEN None ELSE entries[k]]
              /\ consumed' = consumed \ (job.gone \cup Dropped)
              /\ UNCHANGED <<current, spent>>
         [] OTHER -> UNCHANGED <<memory, history>>
    /\ UNCHANGED <<files, limits>>

-----------------------------------------------------------------------------
(* The clock and the process.                                              *)

Pass(v) ==
    /\ job = None /\ v \in Value \ (Permanent \cup over)
    /\ over' = over \cup {v}
    /\ UNCHANGED <<files, memory, job, blocked, crashes, faults, history>>

\* The process ends at any point; another starts from the files.
Crash ==
    /\ crashes < MaxCrashes
    /\ crashes' = crashes + 1
    /\ entries' = Empty /\ consumed' = {} /\ job' = None
    /\ current' = [k \in Key |-> IF current[k] \in Volatile THEN None ELSE current[k]]
    /\ UNCHANGED <<files, over, blocked, faults, spent, released>>

\* Mutant: durable resources are released as well.
InvalidateAll_Durable ==
    /\ job = None
    /\ entries' = Empty /\ consumed' = {}
    /\ released' = released \cup ({entries[k] : k \in Key} \ {None})
    /\ current' = [k \in Key |-> IF current[k] \in Volatile THEN None ELSE current[k]]
    /\ UNCHANGED <<files, job, limits, spent>>

\* InvalidateAll: memory is cleared and only volatile resources are released.
InvalidateAll ==
    /\ job = None
    /\ entries' = Empty /\ consumed' = {}
    /\ released' = released \cup ({entries[k] : k \in Key} \cap Volatile)
    /\ current' = [k \in Key |-> IF current[k] \in Volatile THEN None ELSE current[k]]
    /\ UNCHANGED <<files, job, limits, spent>>

Next ==
    \/ \E k \in Key : \/ \E v \in Value : Put(k, v)
                      \/ Load(k) \/ Expire(k) \/ Consume(k) \/ Delete(k)
    \/ \E preserved \in SUBSET Key : Invalidate(preserved)
    \/ CleanupExpired \/ DoStep \/ FailStep \/ Return
    \/ \E v \in Value : Pass(v)
    \/ Crash \/ InvalidateAll

Spec == Init /\ [][Next]_vars

-----------------------------------------------------------------------------
(* Properties.                                                             *)

\* What Consume has returned is never returned again, in this process or the
\* next one, wherever a call was cut off.
SpentIsGone ==
    job = None => \A k \in Key : Available(k) \notin spent

\* What was released, so that the files it owned are gone, is never returned.
ReleasedIsGone ==
    job = None => \A k \in Key : Available(k) \notin released

\* A resource that was put and neither consumed, deleted nor expired is still
\* returned, after a restart too when it is durable.
StoredIsKept ==
    job = None => \A k \in Key : current[k] # None /\ current[k] \notin over
                                 => Available(k) = current[k]

\* CleanupExpired removes what has expired: it fails only when a file operation
\* fails.
CleanupSucceeds == ~blocked
=============================================================================
