--------------------------- MODULE SleepAllocator ---------------------------
(***************************************************************************)
(* The sleep-mode allocator of the plugin: the Python table of allocations *)
(* (vllm_metax/device_allocator/cumem.py), the C extension under it in its *)
(* non-ROCm build (csrc/cumem_allocator.cpp), and the backend the worker   *)
(* calls (sleep_mode_backend.py).                                          *)
(*                                                                         *)
(* External, as far as the code relies on it: torch's memory pools, which  *)
(* keep the blocks of dead tensors and give them to my_free when the pool  *)
(* object goes, or later when the cache is emptied; and the driver, which  *)
(* may refuse every request but two: it unmaps a range that is mapped, and *)
(* frees one that is not.  A tensor here is a block of its own; contexts   *)
(* of use_memory_pool do not nest and the worker makes its calls one after *)
(* another, outside them.                                                  *)
(***************************************************************************)
EXTENDS Naturals, FiniteSets

CONSTANTS
  Addrs,      \* virtual ranges the driver hands out
  Tags,       \* tags of memory pools
  Offloaded,  \* the tags a level-1 suspend offloads: "weights"
  Values,     \* what a program stores in a tensor
  Garbage,    \* the content of memory nobody has written
  None        \* no tag, no backup

ASSUME AllocatorAssumption ==
  /\ Offloaded \subseteq Tags
  /\ Garbage \notin Values
  /\ None \notin Values \cup Tags \cup {Garbage}

VARIABLES
  entries,   \* keys of pointer_to_data
  tag,       \* AllocationData.tag, also of blocks torch keeps without an entry
  asleep,    \* AllocationData.is_asleep
  backup,    \* AllocationData.cpu_backup_tensor, or None
  reserved,  \* ranges reserved with the driver
  phys,      \* physical memory made for a range: none, made, mapped without
             \* access, or usable
  gpu,       \* content of the ranges
  err,       \* error_code of the C extension is set
  live,      \* torch: blocks of tensors
  cached,    \* torch: blocks of dead tensors
  dropped,   \* torch: those of either whose pool object is gone
  scope,     \* current_tag inside use_memory_pool, or None
  state,     \* MacaMemBackend._state
  call,      \* idle, or the call that walks the table
  tags,      \* its tags
  todo,      \* the entries it has not come to
  want,      \* history: what the program may expect of a tensor
  lost,      \* history: tensors whose copy back was refused
  cut,       \* history: ranges with driver calls that were begun and cut short
  fault      \* history: the driver has refused a request, or was asked to
             \* unmap the range of a dead tensor that slept

Phases == {"none", "made", "noaccess", "usable"}

table == <<entries, tag, asleep, backup>>
device == <<reserved, phys, gpu, err, cut, fault>>
torch == <<live, cached, dropped>>
walk == <<state, call, tags, todo>>
history == <<want, lost>>
vars == <<entries, tag, asleep, backup, reserved, phys, gpu, err, live, cached,
          dropped, scope, state, call, tags, todo, want, lost, cut, fault>>

Init ==
  /\ entries = {} /\ tag = [a \in Addrs |-> None]
  /\ asleep = [a \in Addrs |-> FALSE] /\ backup = [a \in Addrs |-> None]
  /\ reserved = {} /\ phys = [a \in Addrs |-> "none"]
  /\ gpu = [a \in Addrs |-> Garbage] /\ err = FALSE
  /\ live = {} /\ cached = {} /\ dropped = {} /\ scope = None
  /\ state = "RUNNING" /\ call = "idle" /\ tags = {} /\ todo = {}
  /\ want = [a \in Addrs |-> Garbage]
  /\ lost = {} /\ cut = {} /\ fault = FALSE

-----------------------------------------------------------------------------
(***************************************************************************)
(* Blocks and pools.                                                       *)
(***************************************************************************)
\* The function f with the value v on the set S.
With(f, S, v) == [a \in DOMAIN f |-> IF a \in S THEN v ELSE f[a]]

\* The blocks of the pool object kept under the tag t.
PoolBlocks(t) == {a \in (live \cup cached) \ dropped : tag[a] = t}

\* The entries of S leave the table, with their backups.
Pop(S) ==
  /\ entries' = entries \ S
  /\ asleep' = With(asleep, S, FALSE)
  /\ backup' = With(backup, S, None)

Mapped(a) == phys[a] \in {"noaccess", "usable"}

\* Some driver calls for the ranges of C were made, the rest were not.
CutShort(C) == cut' = cut \cup C

\* unmap_and_release of the ranges of S: memory that is mapped is unmapped, and
\* released but for the ranges of C, where an error returns in between.
Release(S, C) ==
  /\ phys' = [a \in Addrs |-> IF a \in S /\ Mapped(a)
                              THEN IF a \in C THEN "made" ELSE "none"
                              ELSE phys[a]]
  /\ gpu' = With(gpu, S, Garbage)
  /\ CutShort(C)

\* my_free of every block of F, in any order.  The free callback raises for a
\* block without an entry, which keeps its range reserved.  A range that is not
\* mapped cannot be unmapped; the error stays in error_code, and while one is
\* there no memory is released.  The range is freed, whatever came before.
Free(F) ==
  LET known == F \cap entries
      held  == {a \in known : Mapped(a)}
  IN /\ \E C \in SUBSET held :
          /\ err => C = held
          /\ Release(known, C)
          /\ err' = (err \/ C # {} \/ known # held)
          /\ fault' = (fault \/ (\E a \in known : asleep[a])
                             \/ (~err /\ known = held /\ C # {}))
     /\ Pop(F)
     /\ reserved' = reserved \ known
     /\ cached' = cached \ F
     /\ UNCHANGED <<tag, live>>

\* torch.cuda.empty_cache(): dead blocks of pools whose object is gone.
EmptyCache == Free(dropped \cap cached) /\ dropped' = dropped \ cached

\* use_memory_pool(t) up to its yield: the pool kept before under t is gone.
EnterPool(t) ==
  /\ call = "idle" /\ scope = None
  /\ scope' = t
  /\ Free(PoolBlocks(t) \cap cached)
  /\ dropped' = dropped \cup (PoolBlocks(t) \cap live)
  /\ UNCHANGED <<walk, history>>

\* release_pools.
ReleasePools ==
  /\ call = "idle" /\ scope = None
  /\ Free(cached)
  /\ dropped' = live
  /\ UNCHANGED <<scope, walk, history>>

\* my_malloc is refused a range; while error_code is set it does nothing.
MallocRefused ==
  /\ call = "idle" /\ scope # None
  /\ ~err
  /\ err' = TRUE /\ fault' = TRUE
  /\ UNCHANGED <<table, reserved, phys, gpu, cut, torch, scope, walk, history>>

\* my_malloc for a new block.  The entry is made before the memory: when that
\* is refused, not mapped or given no access, my_malloc gives back the range, if
\* it can, and forgets the memory; the entry and the error stay.
Malloc(a) ==
  /\ call = "idle" /\ scope # None
  /\ ~err
  /\ a \notin reserved
  /\ entries' = entries \cup {a}
  /\ tag' = [tag EXCEPT ![a] = scope]
  /\ asleep' = [asleep EXCEPT ![a] = FALSE]
  /\ backup' = [backup EXCEPT ![a] = None]
  /\ \/ /\ reserved' = reserved \cup {a}
        /\ phys' = [phys EXCEPT ![a] = "usable"]
        /\ live' = live \cup {a}
        /\ UNCHANGED <<err, cut, fault>>
     \/ /\ err' = TRUE /\ fault' = TRUE
        /\ \/ UNCHANGED <<reserved, phys, cut>>
           \/ /\ phys' = [phys EXCEPT ![a] = "made"] /\ CutShort({a})
              /\ UNCHANGED reserved
           \/ /\ phys' = [phys EXCEPT ![a] = "noaccess"] /\ CutShort({a})
              /\ reserved' = reserved \cup {a}
        /\ UNCHANGED live
  /\ UNCHANGED <<gpu, cached, dropped, scope, walk, history>>

\* torch, whose allocation failed, frees the pool's dead blocks and retries.
RetryMalloc ==
  /\ call = "idle" /\ scope # None
  /\ err
  /\ Free(PoolBlocks(scope) \cap cached)
  /\ UNCHANGED <<dropped, scope, walk, history>>

\* torch gives a dead block of the open pool to a new tensor.
ReuseBlock(a) ==
  /\ call = "idle" /\ scope # None
  /\ a \in PoolBlocks(scope) \cap cached
  /\ live' = live \cup {a}
  /\ cached' = cached \ {a}
  /\ UNCHANGED <<table, device, dropped, scope, walk, history>>

\* A tensor dies, at any time.
DropTensor(a) ==
  /\ a \in live
  /\ live' = live \ {a}
  /\ cached' = cached \cup {a}
  /\ want' = [want EXCEPT ![a] = Garbage]
  /\ lost' = lost \ {a}
  /\ UNCHANGED <<table, device, dropped, scope, walk>>

\* The program computes with the memory that is awake.
Write(a, v) ==
  /\ call = "idle"
  /\ a \in live /\ phys[a] = "usable"
  /\ gpu' = [gpu EXCEPT ![a] = v]
  /\ want' = [want EXCEPT ![a] = v]
  /\ lost' = lost \ {a}
  /\ UNCHANGED <<table, reserved, phys, err, cut, fault, torch, scope, walk>>

\* Faults: every block of the pool is released, used or not; the entries of
\* the unused ones go but their memory stays.
LeavePool_All ==
  /\ call = "idle" /\ scope # None
  /\ scope' = None
  /\ Pop(PoolBlocks(scope)) /\ Release(PoolBlocks(scope), {})
  /\ UNCHANGED <<tag, reserved, err, fault, torch, walk, history>>

LeavePool_KeepsMemory ==
  /\ call = "idle" /\ scope # None
  /\ scope' = None
  /\ Pop(PoolBlocks(scope) \cap cached)
  /\ UNCHANGED <<tag, device, torch, walk, history>>

\* The end of use_memory_pool: unused blocks are released behind torch's back,
\* which keeps them, until one raises because of an error left in error_code or
\* of its own.  When the body raised, none is released.
LeavePool ==
  /\ call = "idle" /\ scope # None
  /\ scope' = None
  /\ LET unused == PoolBlocks(scope) \cap cached
     IN \/ UNCHANGED <<table, device>>
        \/ /\ ~err
           /\ Pop(unused) /\ Release(unused, {})
           /\ UNCHANGED <<tag, reserved, err, fault>>
        \/ \E a \in unused, D \in SUBSET unused :
             /\ a \in D /\ (err => D = {a})
             /\ Pop(D) /\ Release(D, {a})
             /\ err' = FALSE
             /\ fault' = (fault \/ ~err)
             /\ UNCHANGED <<tag, reserved>>
  /\ UNCHANGED <<torch, walk, history>>

-----------------------------------------------------------------------------
(***************************************************************************)
(* The calls that walk the table, one entry after another.                 *)
(***************************************************************************)
Start(c, T) ==
  /\ call = "idle" /\ scope = None
  /\ call' = c /\ tags' = T /\ todo' = entries'
  /\ UNCHANGED <<scope, history>>

Come(c, a) == call = c /\ a \in todo

\* On to the next entry, or an exception that ends the call.
GoOn(a) == todo' = todo \ {a} /\ UNCHANGED <<state, call, tags>>
RaiseCall == call' = "idle" /\ todo' = {} /\ tags' = {} /\ UNCHANGED state

\* python_unmap_and_release(a).  It raises, and clears error_code, when the
\* range is not mapped, or when memory is not released because that is refused
\* or an error was left by my_malloc or my_free.
PythonUnmap(a, ok) ==
  /\ ok => ~err /\ Mapped(a)
  /\ Release({a}, IF ok \/ ~Mapped(a) THEN {} ELSE {a})
  /\ err' = FALSE
  /\ fault' = (fault \/ (~ok /\ ~err /\ Mapped(a)))
  /\ IF ok THEN GoOn(a) ELSE RaiseCall
  /\ UNCHANGED reserved

\* suspend(level), sleep(): level 1 offloads the weights, level 2 nothing.
Suspend(T) ==
  /\ T \in {Offloaded, {}}
  /\ UNCHANGED <<table, device, torch>>
  /\ Start("sleep", T)
  /\ state' = "SUSPENDED"

\* The copy of sleep(): an offloaded range, which must be usable, is copied to
\* the host; the content of any other is given up.
Offload(a) ==
  IF tag[a] \in tags
  THEN /\ phys[a] = "usable"
       /\ backup' = [backup EXCEPT ![a] = gpu[a]]
       /\ UNCHANGED history
  ELSE /\ want' = [want EXCEPT ![a] = Garbage]
       /\ lost' = lost \ {a}
       /\ UNCHANGED backup

\* Fault: without the finally, the flag is set by a successful unmap only.
SleepStep_NoFinally(a) ==
  /\ Come("sleep", a) /\ ~asleep[a]
  /\ \E ok \in BOOLEAN :
       PythonUnmap(a, ok) /\ asleep' = [asleep EXCEPT ![a] = ok]
  /\ Offload(a)
  /\ UNCHANGED <<entries, tag, torch, scope>>

\* An entry that is awake is copied if its tag is offloaded, then unmapped;
\* is_asleep is set whether or not that raises.
SleepStep(a) ==
  /\ Come("sleep", a) /\ ~asleep[a]
  /\ \E ok \in BOOLEAN : PythonUnmap(a, ok)
  /\ asleep' = [asleep EXCEPT ![a] = TRUE]
  /\ Offload(a)
  /\ UNCHANGED <<entries, tag, torch, scope>>

\* No pinned memory for the copy, or the copy is refused: nothing has changed.
CopyRaises(a) ==
  /\ Come("sleep", a) /\ ~asleep[a] /\ tag[a] \in tags
  /\ RaiseCall
  /\ UNCHANGED <<table, device, torch, scope, history>>

\* discard(T): the flag is set after the unmap, so not when that raises.
Discard(T) ==
  /\ UNCHANGED <<state, table, device, torch>>
  /\ Start("discard", T)

DiscardStep(a) ==
  /\ Come("discard", a) /\ ~asleep[a] /\ tag[a] \in tags
  /\ \E ok \in BOOLEAN :
       PythonUnmap(a, ok) /\ asleep' = [asleep EXCEPT ![a] = ok]
  /\ want' = [want EXCEPT ![a] = Garbage]
  /\ lost' = lost \ {a}
  /\ UNCHANGED <<entries, tag, backup, torch, scope>>

\* resume(T), wake_up(T), which empties torch's cache first.
Resume(T) ==
  /\ EmptyCache
  /\ Start("wake", T)
  /\ state' = "RESUMING"

\* Memory can be made and mapped for an entry that sleeps.
Wakes(a) ==
  /\ Come("wake", a) /\ asleep[a] /\ tag[a] \in tags
  /\ ~err /\ a \in reserved /\ ~Mapped(a)

\* Memory is made, mapped and filled from the backup.
WakeStep(a) ==
  /\ Wakes(a)
  /\ phys' = [phys EXCEPT ![a] = "usable"]
  /\ asleep' = [asleep EXCEPT ![a] = FALSE]
  /\ gpu' = [gpu EXCEPT ![a] = IF backup[a] = None THEN Garbage ELSE backup[a]]
  /\ backup' = [backup EXCEPT ![a] = None]
  /\ GoOn(a)
  /\ UNCHANGED <<entries, tag, reserved, err, cut, fault, torch, scope, history>>

\* The copy back is refused after is_asleep was cleared: no wake comes to the
\* entry again, its backup stays until a sleep overwrites it.
WakeUncopied(a) ==
  /\ Wakes(a) /\ backup[a] # None
  /\ phys' = [phys EXCEPT ![a] = "usable"]
  /\ asleep' = [asleep EXCEPT ![a] = FALSE]
  /\ CutShort({a})
  /\ fault' = TRUE
  /\ lost' = lost \cup ({a} \cap live)
  /\ RaiseCall
  /\ UNCHANGED <<entries, tag, backup, reserved, gpu, err, torch, scope, want>>

\* create_and_map stops: memory is refused; or it is made but not mapped, as
\* that is refused, the range is gone or mapped already, or error_code was set;
\* or it is given no access.  The entry sleeps on.
WakeRaises(a) ==
  /\ Come("wake", a) /\ asleep[a] /\ tag[a] \in tags
  /\ \/ UNCHANGED <<phys, cut>>
     \/ /\ phys' = [phys EXCEPT ![a] = IF Mapped(a) THEN @ ELSE "made"]
        /\ CutShort({a})
     \/ /\ Wakes(a)
        /\ phys' = [phys EXCEPT ![a] = "noaccess"] /\ CutShort({a})
  /\ RaiseCall
  /\ err' = FALSE
  /\ fault' = (fault \/ ~err)
  /\ UNCHANGED <<table, reserved, gpu, torch, scope, history>>

\* Entries a call has nothing to do with.
Skip(a) ==
  /\ \/ Come("sleep", a) /\ asleep[a]
     \/ Come("discard", a) /\ (asleep[a] \/ tag[a] \notin tags)
     \/ Come("wake", a) /\ (~asleep[a] \/ tag[a] \notin tags)
  /\ GoOn(a)
  /\ UNCHANGED <<table, device, torch, scope, history>>

\* The end of a walk; sleep empties torch's cache, resume is RUNNING again.
Return ==
  /\ call # "idle" /\ todo = {}
  /\ call' = "idle" /\ tags' = {} /\ todo' = {}
  /\ state' = IF call = "wake" THEN "RUNNING" ELSE state
  /\ IF call = "sleep" THEN EmptyCache ELSE UNCHANGED <<table, device, torch>>
  /\ UNCHANGED <<scope, history>>

-----------------------------------------------------------------------------
Pools(a) == Malloc(a) \/ ReuseBlock(a) \/ DropTensor(a)
            \/ \E v \in Values : Write(a, v)

Walk(a) == SleepStep(a) \/ CopyRaises(a) \/ DiscardStep(a) \/ WakeStep(a)
           \/ WakeUncopied(a) \/ WakeRaises(a) \/ Skip(a)

Next ==
  \/ \E t \in Tags : EnterPool(t)
  \/ ReleasePools \/ MallocRefused \/ RetryMalloc \/ LeavePool
  \/ \E T \in SUBSET Tags : Suspend(T) \/ Discard(T) \/ Resume(T)
  \/ \E a \in Addrs : Pools(a) \/ Walk(a)
  \/ Return

Spec == Init /\ [][Next]_vars

-----------------------------------------------------------------------------
MemoryType ==
  /\ entries \subseteq Addrs
  /\ tag \in [Addrs -> Tags \cup {None}]
  /\ asleep \in [Addrs -> BOOLEAN]
  /\ backup \in [Addrs -> Values \cup {Garbage, None}]
  /\ reserved \subseteq Addrs
  /\ phys \in [Addrs -> Phases] /\ \A a \in Addrs : Mapped(a) => a \in reserved
  /\ gpu \in [Addrs -> Values \cup {Garbage}]
  /\ err \in BOOLEAN
  /\ live \subseteq entries \cap reserved /\ cached \subseteq reserved \ live
  /\ want \in [Addrs -> Values \cup {Garbage}]
  /\ lost \subseteq live /\ cut \subseteq Addrs /\ fault \in BOOLEAN

TypeOK ==
  /\ MemoryType
  /\ dropped \subseteq live \cup cached
  /\ scope \in Tags \cup {None}
  /\ state \in {"RUNNING", "SUSPENDED", "RESUMING"}
  /\ call \in {"idle", "sleep", "discard", "wake"}
  /\ tags \subseteq Tags /\ todo \subseteq entries
  /\ call = "idle" => todo = {}

\* What a program stored in a tensor and did not ask to be discarded is there:
\* in device memory while the tensor is awake, in the backup while it sleeps,
\* whatever calls failed halfway, were retried or came again in between.  The
\* one exception: a tensor whose copy back was refused, until it is written.
ContentPreserved ==
  \A a \in live \ lost : want[a] # Garbage =>
    IF asleep[a] THEN backup[a] = want[a]
    ELSE phys[a] = "usable" /\ gpu[a] = want[a]

\* Memory that can be used belongs to an entry that is awake, so that a suspend
\* reaches it.  Other memory is held, and a backup kept by an entry awake, for
\* ranges only whose driver calls were cut short; and as long as the driver has
\* refused nothing and no tensor died asleep, no call is ever cut short, and
\* every entry that is awake has its memory.
MemoryTracked ==
  /\ \A a \in Addrs : phys[a] = "usable" => a \in entries /\ ~asleep[a]
  /\ \A a \in Addrs \ cut : /\ phys[a] \in {"none", "usable"}
                            /\ backup[a] # None => asleep[a]
  /\ ~fault => /\ cut = {} /\ ~err
               /\ \A a \in entries : asleep[a] \/ phys[a] = "usable"

\* What every step preserves: of the memory, beyond the types, ...
MemoryInv ==
  /\ MemoryType /\ ContentPreserved /\ MemoryTracked
  /\ \A a \in Addrs \ live : want[a] = Garbage

\* ... and of the open pool, whose dead blocks torch may use again.
OpenPool ==
  scope # None => call = "idle" /\ PoolBlocks(scope) \subseteq entries

SafetyInv == TypeOK /\ MemoryInv /\ OpenPool


=============================================================================
