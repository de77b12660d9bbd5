----------------------------- MODULE ModelCache -----------------------------
(***************************************************************************)
(* The model files of a node: the download, the content-addressed cache on *)
(* disk and the loaded models above it (crates/model-manager, the load of  *)
(* crates/inference/src/engine.rs and the handlers of                      *)
(* crates/node/src/rpc.rs that drive them).                                *)
(*                                                                         *)
(* Requests run concurrently and are interrupted at every await that       *)
(* matters: a task is one request with its program counter.  The runtime   *)
(* has one index of the directory (Main); an inference request over RPC,   *)
(* and a command line run beside the node, open an index of their own over *)
(* the same directory.                                                     *)
(*                                                                         *)
(* A model is known by its digest.  Its file is a sequence of chunks: a    *)
(* correct mirror serves Full(m), and Bad is a chunk that is not the       *)
(* model's.  A name of the directory refers to a file; a download  *)
(* whose file is renamed goes on writing to it.                            *)
(***************************************************************************)
EXTENDS Integers, Sequences, SequencesExt, Functions, FiniteSets

CONSTANTS Model,      \* digests of the manifests clients load
          SizeOf,     \* manifest.size_bytes, in chunks
          Sane,       \* models whose file has a header with the manifest's quantization
          Task,       \* requests that may run at once
          FileId,     \* files, linked or open
          MaxBytes,   \* CacheConfig::max_bytes
          Mirrors,    \* number of mirrors of each manifest
          MaxRequests,\* bound: requests
          MaxRestarts,\* bound: restarts of the node
          Main,       \* the runtime's index
          None        \* no file, no model

ASSUME ModelCacheAssumption ==
  /\ IsFiniteSet(Model) /\ IsFiniteSet(Task) /\ IsFiniteSet(FileId)
  /\ Cardinality(FileId) >= 3 * Cardinality(Model) + Cardinality(Task)
  /\ None \notin Model \cup FileId
  /\ Sane \subseteq Model
  /\ SizeOf \in [Model -> Nat \ {0}]
  /\ MaxBytes \in Nat /\ Mirrors \in [Model -> Nat \ {0}]
  /\ MaxRequests \in Nat /\ MaxRestarts \in Nat
  /\ Main \notin Task

VARIABLES
  dir,          \* a model's names: its slot, its staging file, the staging file's partial
  files,        \* bytes of the files
  index,        \* entries of an index, the least recently used first
  engine,       \* InferenceEngine::cache of the runtime: digest -> bytes loaded
  manifests,    \* models registered with /v1/models/load
  loaded_models,\* models the heartbeat announces
  task,         \* the requests
  overlapped,   \* history: models that two requests downloaded at once
  crowded,      \* history: room was made without counting another file
  requests, restarts

disk == <<dir, files>>
history == <<overlapped, crowded>>
vars == <<disk, index, engine, manifests, loaded_models, task, history, requests, restarts>>

-----------------------------------------------------------------------------
(* Requests *)

Bad == <<None, 0>>

Full(m) == [i \in 1..SizeOf[m] |-> <<m, i>>]

Idle == [pc |-> "idle", kind |-> None, model |-> None, mirror |-> 1, fd |-> None, from |-> 0,
         hashed |-> <<>>, size |-> 0, victim |-> None, seen |-> <<>>, got |-> <<>>]

At(t, label) == task[t].pc = label

Go(t, label) == task' = [task EXCEPT ![t].pc = label]

\* A request ends, with its answer in hand; what it held is dropped.
Ended(t, label, seen, got) ==
  task' = [task EXCEPT ![t] = [Idle EXCEPT !.pc = label, !.kind = task[t].kind,
                                           !.model = task[t].model, !.seen = seen, !.got = got]]

Fails(t) == Ended(t, "failed", <<>>, <<>>)

\* The index a request works with.
Mgr(t) == IF task[t].kind = "own" THEN t ELSE Main

-----------------------------------------------------------------------------
(* The file system *)

Referenced ==
  {dir[m][x] : m \in Model, x \in {"slot", "staging", "partial"}} \cup {task[t].fd : t \in Task}

\* The bytes after a step; a file without name and descriptor is gone.
Write(bytes) == files' = [f \in FileId |-> IF f \in Referenced' THEN bytes[f] ELSE <<>>]

NewFile == CHOOSE f \in FileId : f \notin Referenced

\* gguf::parse_header and the quantization check, which read the first chunk.
HeaderOk(m, f) == f # None /\ m \in Sane /\ files[f] # <<>> /\ Head(files[f]) = <<m, 1>>

-----------------------------------------------------------------------------
(* The index *)

Listed(idx) == {idx[i].model : i \in DOMAIN idx}

Holds(idx, m) == m \in Listed(idx)

PositionOf(idx, m) == CHOOSE i \in DOMAIN idx : idx[i].model = m

Without(idx, m) == IF Holds(idx, m) THEN RemoveAt(idx, PositionOf(idx, m)) ELSE idx

Touched(idx, m) == IF Holds(idx, m) THEN Append(Without(idx, m), idx[PositionOf(idx, m)]) ELSE idx

Total(idx) == SumFunction([m \in Listed(idx) |-> idx[PositionOf(idx, m)].size])

\* Cache::rebuild_index: the files in their slots, in the order of their
\* access times, whatever that is.
Rebuilds ==
  SetToSeqs({[model |-> m, size |-> Len(files[dir[m].slot])] : m \in {k \in Model : dir[k].slot # None}})

-----------------------------------------------------------------------------
(* A request's way to its model: ensure_local *)

Begin(t, kind, m) ==
  /\ At(t, "idle")
  /\ requests < MaxRequests
  /\ requests' = requests + 1
  /\ task' = [task EXCEPT ![t] = [Idle EXCEPT !.pc = IF kind = "gc" THEN "room" ELSE "get",
                                              !.kind = kind, !.model = m]]
  /\ UNCHANGED <<disk, engine, loaded_models, history, restarts>>

\* /v1/models/load registers the model and then gets it through the runtime's
\* index, as a compute job does later.
BeginLoad(t, m) ==
  /\ Begin(t, "load", m)
  /\ manifests' = manifests \cup {m}
  /\ UNCHANGED index

\* /v1/inference needs the model registered, and opens an index and an engine
\* of its own.
BeginInfer(t, m) ==
  /\ m \in manifests
  /\ Begin(t, "own", m)
  /\ \E idx \in Rebuilds : index' = [index EXCEPT ![t] = idx]
  /\ UNCHANGED manifests

\* ModelManager::gc, for an operator.
BeginGc(t) == Begin(t, "gc", None) /\ UNCHANGED <<index, manifests>>

\* Cache::get, the index part.
Get(t) ==
  LET m == task[t].model
  IN /\ At(t, "get")
     /\ index' = [index EXCEPT ![Mgr(t)] = Touched(@, m)]
     /\ Go(t, IF Holds(index[Mgr(t)], m) THEN "exists" ELSE "stat")
     /\ UNCHANGED <<disk, engine, manifests, loaded_models, history, requests, restarts>>

\* Cache::get, after its lock: the file may be gone, which prunes the entry.
Exists(t) ==
  /\ At(t, "exists")
  /\ Go(t, IF dir[task[t].model].slot # None THEN "hit" ELSE "prune")
  /\ UNCHANGED <<disk, index, engine, manifests, loaded_models, history, requests, restarts>>

Prune(t) ==
  /\ At(t, "prune")
  /\ index' = [index EXCEPT ![Mgr(t)] = Without(@, task[t].model)]
  /\ Go(t, "stat")
  /\ UNCHANGED <<disk, engine, manifests, loaded_models, history, requests, restarts>>

\* validate_gguf, on the file in the slot or on the staging file.
Validate(t) ==
  LET m == task[t].model
      f == IF At(t, "hit") THEN dir[m].slot ELSE dir[m].staging
  IN /\ At(t, "hit") \/ At(t, "pulled")
     /\ Go(t, IF ~HeaderOk(m, f) THEN "evict" ELSE IF At(t, "hit") THEN "digest" ELSE "insert")
     /\ UNCHANGED <<disk, index, engine, manifests, loaded_models, history, requests, restarts>>

\* Cache::evict: the slot and the staging file, then the entry.
EvictFiles(t) ==
  /\ At(t, "evict")
  /\ dir' = [dir EXCEPT ![task[t].model].slot = None, ![task[t].model].staging = None]
  /\ Go(t, "evicted")
  /\ UNCHANGED <<index, engine, manifests, loaded_models, history, requests, restarts>>
  /\ Write(files)

EvictEntry(t) ==
  /\ At(t, "evicted")
  /\ index' = [index EXCEPT ![Mgr(t)] = Without(@, task[t].model)]
  /\ Fails(t)
  /\ UNCHANGED <<disk, engine, manifests, loaded_models, history, requests, restarts>>

-----------------------------------------------------------------------------
(* The download: pull_from_mirror *)

\* The mirror's attempt ends in an error: the next mirror, or none is left.
NextMirror(t) ==
  IF task[t].mirror < Mirrors[task[t].model]
  THEN task' = [task EXCEPT ![t] = [Idle EXCEPT !.pc = "stat", !.kind = task[t].kind,
                                       !.model = task[t].model, !.mirror = task[t].mirror + 1]]
  ELSE Fails(t)

Downloading(t) == task[t].pc \in {"request", "stream"}

\* A partial of full size or more is removed; a shorter one is resumed.
Stat(t) ==
  LET m == task[t].model
      p == dir[m].partial
      stale == p # None /\ Len(files[p]) >= SizeOf[m]
  IN /\ At(t, "stat")
     /\ dir' = IF stale THEN [dir EXCEPT ![m].partial = None] ELSE dir
     /\ task' = [task EXCEPT ![t].pc = "request",
                             ![t].from = IF stale \/ p = None THEN 0 ELSE Len(files[p])]
     /\ overlapped' = IF \E u \in Task \ {t} : Downloading(u) /\ task[u].model = m
                      THEN overlapped \cup {m} ELSE overlapped
     /\ UNCHANGED <<index, engine, manifests, loaded_models, crowded, requests, restarts>>
     /\ Write(files)

\* Where the bytes of a response go: after the partial's, or at the start if
\* the mirror ignored the range.
Offset(t, full) == IF full THEN 0 ELSE task[t].from

\* The mirror answers, with the whole file or with the range that was asked
\* for.  The partial is opened for appending and what it holds is hashed.
Open(t, full) ==
  LET m == task[t].model
      restart == full /\ task[t].from > 0
      p == IF restart THEN None ELSE dir[m].partial
      fd == IF p = None THEN NewFile ELSE p
      held == IF p = None THEN <<>> ELSE files[p]
      off == Offset(t, full)
  IN /\ At(t, "request")
     /\ full \/ task[t].from > 0
     /\ IF restart /\ dir[m].partial = None
        THEN NextMirror(t) /\ UNCHANGED disk
        ELSE /\ dir' = [dir EXCEPT ![m].partial = fd]
             /\ IF off > 0 /\ Len(held) # off
                THEN NextMirror(t)
                ELSE task' = [task EXCEPT ![t].pc = "stream", ![t].fd = fd, ![t].from = 0,
                                          ![t].hashed = SubSeq(held, 1, off)]
             /\ Write(files)
     /\ UNCHANGED <<index, engine, manifests, loaded_models, history, requests, restarts>>

\* The mirror cannot be reached or refuses.
Refuse(t) ==
  /\ At(t, "request")
  /\ NextMirror(t)
  /\ UNCHANGED <<disk, index, engine, manifests, loaded_models, history, requests, restarts>>

\* The next chunk, right or wrong.
Chunk(t, right) ==
  LET c == IF right THEN <<task[t].model, Len(task[t].hashed) + 1>> ELSE Bad
  IN /\ At(t, "stream")
     /\ Len(task[t].hashed) < SizeOf[task[t].model]
     /\ task' = [task EXCEPT ![t].hashed = Append(@, c)]
     /\ UNCHANGED <<dir, index, engine, manifests, loaded_models, history, requests, restarts>>
     /\ Write([files EXCEPT ![task[t].fd] = Append(@, c)])

\* The stream breaks off or ends early; the partial stays.
Break(t) ==
  /\ At(t, "stream")
  /\ NextMirror(t)
  /\ UNCHANGED <<dir, index, engine, manifests, loaded_models, history, requests, restarts>>
  /\ Write(files)

\* The mirror sends more than the manifest's size.
Surplus(t) ==
  /\ At(t, "stream")
  /\ Len(task[t].hashed) = SizeOf[task[t].model]
  /\ NextMirror(t)
  /\ UNCHANGED <<dir, index, engine, manifests, loaded_models, history, requests, restarts>>
  /\ Write([files EXCEPT ![task[t].fd] = Append(@, Bad)])

\* Faulty variant: the number of bytes is enough.
SizeOk(t) == Len(task[t].hashed) = SizeOf[task[t].model]

\* The digest of the bytes that were hashed is the manifest's.
DigestOk(t) == task[t].hashed = Full(task[t].model)

\* The stream is complete: the partial becomes the staging file, or is removed
\* because its digest is another.
Finish(t) ==
  LET m == task[t].model
  IN /\ At(t, "stream")
     /\ Len(task[t].hashed) = SizeOf[m]
     /\ IF ~DigestOk(t)
        THEN dir' = [dir EXCEPT ![m].partial = None] /\ NextMirror(t)
        ELSE IF dir[m].partial = None
             THEN Fails(t) /\ UNCHANGED dir
             ELSE /\ dir' = [dir EXCEPT ![m].staging = dir[m].partial, ![m].partial = None]
                  /\ task' = [task EXCEPT ![t] = [Idle EXCEPT !.pc = "pulled", !.kind = task[t].kind,
                                                              !.model = m]]
     /\ UNCHANGED <<index, engine, manifests, loaded_models, history, requests, restarts>>
     /\ Write(files)

-----------------------------------------------------------------------------
(* Cache::insert *)

Insert(t) ==
  LET f == dir[task[t].model].staging
  IN /\ At(t, "insert")
     /\ IF f = None \/ Len(files[f]) > MaxBytes
        THEN Fails(t)
        ELSE task' = [task EXCEPT ![t].pc = "room", ![t].size = Len(files[f])]
     /\ UNCHANGED <<disk, index, engine, manifests, loaded_models, history, requests, restarts>>

\* Faulty variant: the incoming file is not counted.
FitsWithoutIncoming(idx, size) == Total(idx) <= MaxBytes

Fits(idx, size) == Total(idx) + size <= MaxBytes

Placing(t) == task[t].pc \in {"place", "record"}

\* A file that the index does not count: it lies in its slot, put there through
\* another index or forgotten since, or is about to be moved there.
Uncounted(t) ==
  \/ \E u \in Task \ {t} : Placing(u)
  \/ \E m \in Model \ {task[t].model} : dir[m].slot # None /\ ~Holds(index[Mgr(t)], m)

\* gc_for: one round of the loop, up to the removal of the victim's file.
Room(t) ==
  LET idx == index[Mgr(t)]
      enough == idx = <<>> \/ Fits(idx, task[t].size)
      gc == task[t].kind = "gc"
  IN /\ At(t, "room")
     /\ IF ~enough
        THEN /\ dir' = [dir EXCEPT ![Head(idx).model].slot = None]
             /\ task' = [task EXCEPT ![t].pc = "drop", ![t].victim = Head(idx).model]
        ELSE /\ UNCHANGED dir
             /\ IF gc THEN Ended(t, "done", <<>>, <<>>) ELSE Go(t, "place")
     /\ crowded' = (crowded \/ (enough /\ ~gc /\ Uncounted(t)))
     /\ UNCHANGED <<index, engine, manifests, loaded_models, overlapped, requests, restarts>>
     /\ Write(files)

\* Faulty variant: the victim's entry stays.
DroppedNever(idx, victim) == idx

Dropped(idx, victim) == Without(idx, victim)

Drop(t) ==
  /\ At(t, "drop")
  /\ index' = [index EXCEPT ![Mgr(t)] = Dropped(@, task[t].victim)]
  /\ task' = [task EXCEPT ![t].pc = "room", ![t].victim = None]
  /\ UNCHANGED <<disk, engine, manifests, loaded_models, history, requests, restarts>>

\* The rename into the slot.
Place(t) ==
  LET m == task[t].model
  IN /\ At(t, "place")
     /\ IF dir[m].staging = None
        THEN Fails(t) /\ UNCHANGED dir
        ELSE /\ dir' = [dir EXCEPT ![m].slot = dir[m].staging, ![m].staging = None]
             /\ Go(t, "record")
     /\ UNCHANGED <<index, engine, manifests, loaded_models, history, requests, restarts>>
     /\ Write(files)

Record(t) ==
  LET m == task[t].model
  IN /\ At(t, "record")
     /\ index' = [index EXCEPT ![Mgr(t)] = Append(Without(@, m), [model |-> m, size |-> task[t].size])]
     /\ task' = [task EXCEPT ![t].pc = "digest", ![t].size = 0]
     /\ UNCHANGED <<disk, engine, manifests, loaded_models, history, requests, restarts>>

-----------------------------------------------------------------------------
(* InferenceEngine::load and the answer *)

\* file_digest of the path that ensure_local returned, and the engine's cache;
\* a request's own engine starts empty.
Digest(t) ==
  LET f == dir[task[t].model].slot
      bytes == files[f]
  IN /\ At(t, "digest")
     /\ IF f = None THEN Fails(t)
        ELSE IF Mgr(t) = Main /\ bytes \in DOMAIN engine THEN Ended(t, "done", bytes, engine[bytes])
        ELSE task' = [task EXCEPT ![t].pc = "read", ![t].seen = bytes]
     /\ UNCHANGED <<disk, index, engine, manifests, loaded_models, history, requests, restarts>>

\* llama.cpp opens the path once more.
LoadFile(t) ==
  LET f == dir[task[t].model].slot
      seen == task[t].seen
  IN /\ At(t, "read")
     /\ IF f = None
        THEN Fails(t) /\ UNCHANGED engine
        ELSE /\ Ended(t, "done", seen, files[f])
             /\ engine' = IF Mgr(t) = Main
                          THEN [d \in DOMAIN engine \cup {seen} |-> IF d = seen THEN files[f] ELSE engine[d]]
                          ELSE engine
     /\ UNCHANGED <<disk, index, manifests, loaded_models, history, requests, restarts>>

\* do_load announces every registered model once one has loaded; a failed
\* load leaves its own registered.
Answer(t) ==
  /\ At(t, "done") \/ At(t, "failed")
  /\ loaded_models' = IF At(t, "done") /\ task[t].kind = "load" THEN manifests ELSE loaded_models
  /\ index' = IF task[t].kind = "own" THEN [index EXCEPT ![t] = <<>>] ELSE index
  /\ task' = [task EXCEPT ![t] = Idle]
  /\ UNCHANGED <<disk, engine, manifests, history, requests, restarts>>

-----------------------------------------------------------------------------
\* The node goes down and comes back: the directory is what is left.
Restart ==
  /\ restarts < MaxRestarts
  /\ restarts' = restarts + 1
  /\ task' = [t \in Task |-> Idle]
  /\ \E idx \in Rebuilds : index' = [i \in Task \cup {Main} |-> IF i = Main THEN idx ELSE <<>>]
  /\ engine' = <<>>
  /\ manifests' = {} /\ loaded_models' = {}
  /\ UNCHANGED dir
  /\ UNCHANGED <<history, requests>>
  /\ Write(files)

Init ==
  /\ dir = [m \in Model |-> [slot |-> None, staging |-> None, partial |-> None]]
  /\ files = [f \in FileId |-> <<>>]
  /\ index = [i \in Task \cup {Main} |-> <<>>]
  /\ engine = <<>>
  /\ manifests = {} /\ loaded_models = {}
  /\ task = [t \in Task |-> Idle]
  /\ overlapped = {} /\ crowded = FALSE
  /\ requests = 0 /\ restarts = 0

\* The steps of a running request.
Step(t) ==
  \/ Get(t) \/ Exists(t) \/ Prune(t) \/ Validate(t) \/ EvictFiles(t) \/ EvictEntry(t)
  \/ Stat(t) \/ Open(t, TRUE) \/ Open(t, FALSE) \/ Refuse(t)
  \/ Chunk(t, TRUE) \/ Chunk(t, FALSE)
  \/ Break(t) \/ Surplus(t) \/ Finish(t)
  \/ Insert(t) \/ Room(t) \/ Drop(t) \/ Place(t) \/ Record(t)
  \/ Digest(t) \/ LoadFile(t) \/ Answer(t)

Next ==
  \/ \E t \in Task, m \in Model : BeginLoad(t, m) \/ BeginInfer(t, m)
  \/ \E t \in Task : BeginGc(t)
  \/ \E t \in Task : Step(t)
  \/ Restart

Spec == Init /\ [][Next]_vars

\* A request's task is polled until it is done; reqwest's timeout ends a
\* download that stalls.
FairSpec == Spec /\ \A t \in Task : WF_vars(Step(t))

-----------------------------------------------------------------------------
(* Properties *)

Labels == {"idle", "get", "exists", "prune", "hit", "evict", "evicted", "stat", "request", "stream", "pulled",
           "insert", "room", "drop", "place", "record", "digest", "read", "done", "failed"}

\* Types; a file has at most one name, and no index lists a model twice.
TypeOK ==
  /\ dir \in [Model -> [slot : FileId \cup {None}, staging : FileId \cup {None}, partial : FileId \cup {None}]]
  /\ \A m, k \in Model : \A x, y \in {"slot", "staging", "partial"} :
       dir[m][x] = dir[k][y] /\ dir[m][x] # None => m = k /\ x = y
  /\ \A i \in Task \cup {Main} :
       \A j, k \in DOMAIN index[i] : /\ index[i][j].model \in Model /\ index[i][j].size \in Nat
                                     /\ index[i][j].model = index[i][k].model => j = k
  /\ \A t \in Task : task[t].pc \in Labels
  /\ loaded_models \subseteq Model /\ manifests \subseteq Model

\* What is in a model's slot is the model (the bytes on disk "have been
\* hash-verified against the manifest", lib.rs), if no two requests downloaded
\* it at once.
SlotVerifiedAlone ==
  \A m \in Model \ overlapped : dir[m].slot # None => files[dir[m].slot] = Full(m)

\* A request that succeeds got the model it asked for, from the disk or from
\* the engine's cache, under the digest of its manifest.
LoadsAreSound ==
  \A t \in Task : At(t, "done") /\ task[t].kind # "gc" /\ task[t].model \notin overlapped
    => task[t].seen = Full(task[t].model) /\ task[t].got = Full(task[t].model)

OnDisk == SumFunction([m \in Model |-> IF dir[m].slot = None THEN 0 ELSE Len(files[dir[m].slot])])

\* The slots hold no more than the cap (cache.rs:38, "Hard cap on total cached
\* bytes"), as long as every insert that made room counted the other files: none
\* was about to be moved in, or in its slot without an entry in the index.
DiskCapHeldAlone == ~crowded /\ overlapped = {} => OnDisk <= MaxBytes

\* A model that no two requests downloaded at once is what its digest says, on
\* the disk and in every request that loads it, and the cache stays under its
\* cap: through interrupted and resumed downloads, mirrors that ignore the range
\* or send wrong or surplus bytes, evictions and restarts (manager.rs:88-163,
\* cache.rs:225-262).
CacheSound == SlotVerifiedAlone /\ LoadsAreSound /\ DiskCapHeldAlone

\* Every request is answered, whatever the mirrors do and whoever removes or
\* replaces its files meanwhile; making room ends.
Answered == \A t \in Task : ~At(t, "idle") ~> At(t, "idle")

=============================================================================
