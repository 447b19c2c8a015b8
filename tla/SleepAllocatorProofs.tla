------------------------ MODULE SleepAllocatorProofs ------------------------
(***************************************************************************)
(* Proofs about SleepAllocator for every set of ranges, tags and values.   *)
(***************************************************************************)
EXTENDS SleepAllocator, TLAPS

\* Dead blocks leave the table, and those that had entries the device: tensors
\* do not notice, though memory of the ranges in C is held on.
LEMMA PopPreserves ==
  ASSUME MemoryInv, NEW F \in SUBSET Addrs, F \cap live = {},
         NEW K \in SUBSET F, F \cap entries \subseteq K,
         NEW C \in SUBSET Addrs, Pop(F), Release(K, C),
         reserved' \subseteq reserved, reserved \ K \subseteq reserved',
         live \subseteq reserved', cached' \subseteq cached \cap reserved',
         err' \in BOOLEAN, fault' \in BOOLEAN,
         ~fault' => ~fault /\ C = {} /\ ~err',
         UNCHANGED <<tag, live, want, lost>>
  PROVE  MemoryInv'
<1> USE DEF Pop, Release, With, CutShort, Mapped, Phases
<1>1. /\ phys' \in [Addrs -> Phases]
      /\ \A a \in K : phys'[a] # "usable" /\ ~Mapped(a)'
      /\ \A a \in K : phys'[a] # "none" => phys[a] \in {"made"} \/ a \in C
      /\ \A a \in Addrs \ K : phys'[a] = phys[a] /\ gpu'[a] = gpu[a]
  BY DEF MemoryInv, MemoryType
<1>2. MemoryType'
  <2>1. \A a \in Addrs : Mapped(a)' => a \in reserved'
    BY <1>1 DEF MemoryInv, MemoryType
  <2>2. QED
    BY <1>1, <2>1 DEF MemoryInv, MemoryType
<1>3. ContentPreserved'
  <2>1. \A a \in live : a \notin F /\ asleep'[a] = asleep[a] /\ backup'[a] = backup[a]
    BY DEF MemoryInv, MemoryType
  <2>2. QED
    BY <1>1, <2>1 DEF MemoryInv, MemoryType, ContentPreserved
<1>4. MemoryTracked'
  <2>1. \A a \in Addrs \ F : asleep'[a] = asleep[a] /\ backup'[a] = backup[a]
    BY DEF MemoryInv, MemoryType
  <2>2. \A a \in F : backup'[a] = None
    BY DEF MemoryInv, MemoryType
  <2>3. \A a \in Addrs : phys'[a] = "usable" => a \in entries' /\ ~asleep'[a]
    BY <1>1, <2>1 DEF MemoryInv, MemoryType, MemoryTracked
  <2>4. \A a \in Addrs \ cut' : /\ phys'[a] \in {"none", "usable"}
                                /\ backup'[a] # None => asleep'[a]
    BY <1>1, <2>1, <2>2 DEF MemoryInv, MemoryType, MemoryTracked
  <2>5. ~fault' => /\ cut' = {} /\ ~err'
                   /\ \A a \in entries' : asleep'[a] \/ phys'[a] = "usable"
    BY <1>1, <2>1 DEF MemoryInv, MemoryType, MemoryTracked
  <2>6. QED
    BY <2>3, <2>4, <2>5 DEF MemoryTracked
<1>5. QED
  BY <1>2, <1>3, <1>4 DEF MemoryInv

\* my_free of dead blocks.
LEMMA FreePreserves ==
  ASSUME MemoryInv, NEW F \in SUBSET cached, Free(F), UNCHANGED history
  PROVE  MemoryInv' /\ entries' = entries \ F /\ live' = live
                    /\ cached' = cached \ F
<1> DEFINE known == F \cap entries
           held  == {a \in known : Mapped(a)}
<1>1. F \in SUBSET Addrs /\ F \cap live = {} /\ known \in SUBSET F
  BY DEF MemoryInv, MemoryType
<1>2. /\ reserved' = reserved \ known /\ cached' = cached \ F
      /\ Pop(F) /\ UNCHANGED <<tag, live>> /\ UNCHANGED <<want, lost>>
  BY DEF Free, history
<1>3. /\ live \subseteq reserved' /\ cached' \subseteq cached \cap reserved'
      /\ reserved' \subseteq reserved /\ reserved \ known \subseteq reserved'
  BY <1>1, <1>2 DEF MemoryInv, MemoryType
<1>4. PICK C \in SUBSET held :
        /\ Release(known, C)
        /\ err' = (err \/ C # {} \/ known # held)
        /\ fault' = (fault \/ (\E a \in known : asleep[a])
                           \/ (~err /\ known = held /\ C # {}))
  BY DEF Free
<1>5. C \in SUBSET Addrs /\ err' \in BOOLEAN /\ fault' \in BOOLEAN
  BY <1>1, <1>4 DEF MemoryInv, MemoryType
<1>6. ~fault' => ~fault /\ C = {} /\ ~err'
  <2>1. ASSUME ~fault' PROVE ~fault /\ \A a \in known : ~asleep[a]
    BY <1>4, <2>1
  <2>2. ASSUME ~fault' PROVE ~err /\ known = held
    BY <2>1, <2>2 DEF MemoryInv, MemoryTracked, Mapped
  <2>3. QED
    BY <1>4, <2>1, <2>2
<1>7. MemoryInv'
  BY <1>1, <1>2, <1>3, <1>4, <1>5, <1>6, PopPreserves
<1>8. QED
  BY <1>2, <1>7 DEF Pop

\* python_unmap_and_release of one range, and what the call does to its entry:
\* a range whose content is still owed must leave a backup of it and sleep; an
\* entry that keeps its backup is asleep, one whose unmap succeeds too.
LEMMA UnmapPreserves ==
  ASSUME MemoryInv, NEW a \in Addrs, a \in entries,
         NEW ok \in BOOLEAN, PythonUnmap(a, ok),
         UNCHANGED <<entries, tag, torch>>,
         NEW f \in BOOLEAN, asleep' = [asleep EXCEPT ![a] = f],
         ~asleep[a], ok => f,
         backup' \in [Addrs -> Values \cup {Garbage, None}],
         want' \in [Addrs -> Values \cup {Garbage}],
         \A b \in Addrs \ {a} : backup'[b] = backup[b] /\ want'[b] = want[b],
         f \/ backup'[a] = backup[a],
         lost \ {a} \subseteq lost', lost' \subseteq lost,
         a \in live \ lost' /\ want'[a] # Garbage => f /\ backup'[a] = want'[a],
         a \notin live => want'[a] = Garbage
  PROVE  MemoryInv'
<1> USE DEF PythonUnmap, Release, With, CutShort, Mapped, Phases, torch
<1>1. /\ asleep'[a] = f /\ phys'[a] \in {"none", "made"}
      /\ phys'[a] # "none" => phys[a] = "made" \/ a \in cut'
      /\ \A b \in Addrs \ {a} : /\ asleep'[b] = asleep[b] /\ gpu'[b] = gpu[b]
                                /\ phys'[b] = phys[b]
      /\ phys' \in [Addrs -> Phases] /\ gpu' \in [Addrs -> Values \cup {Garbage}]
      /\ cut \subseteq cut' /\ cut' \subseteq cut \cup {a}
  BY DEF MemoryInv, MemoryType
<1>2. ~fault' => ~fault /\ (ok \/ ~Mapped(a)) /\ cut' = cut
  BY DEF MemoryInv, MemoryType, MemoryTracked
<1>3. MemoryType'
  BY <1>1, <1>2 DEF MemoryInv, MemoryType
<1>4. ContentPreserved'
  BY <1>1 DEF MemoryInv, MemoryType, ContentPreserved
<1>5. MemoryTracked'
  <2>1. \A b \in Addrs : phys'[b] = "usable" => b \in entries' /\ ~asleep'[b]
    BY <1>1 DEF MemoryInv, MemoryType, MemoryTracked
  <2>2. \A b \in Addrs \ cut' : /\ phys'[b] \in {"none", "usable"}
                                /\ backup'[b] # None => asleep'[b]
    BY <1>1 DEF MemoryInv, MemoryType, MemoryTracked
  <2>3. ~fault' => /\ cut' = {} /\ ~err'
                   /\ \A b \in entries' : asleep'[b] \/ phys'[b] = "usable"
    BY <1>1, <1>2 DEF MemoryInv, MemoryType, MemoryTracked
  <2>4. QED
    BY <2>1, <2>2, <2>3 DEF MemoryTracked
<1>6. \A b \in Addrs \ live' : want'[b] = Garbage
  BY DEF MemoryInv, MemoryType
<1>7. QED
  BY <1>3, <1>4, <1>5, <1>6 DEF MemoryInv

-----------------------------------------------------------------------------
(***************************************************************************)
(* The invariant.                                                          *)
(***************************************************************************)
\* Before the first call nothing is allocated.
LEMMA SafetyInit == Init => SafetyInv
BY AllocatorAssumption
DEF Init, SafetyInv, TypeOK, MemoryInv, MemoryType, ContentPreserved,
    MemoryTracked, OpenPool, Mapped, Phases

\* The actions on blocks and pools.
LEMMA PoolNext ==
  ASSUME SafetyInv,
         \/ \E t \in Tags : EnterPool(t)
         \/ ReleasePools \/ MallocRefused \/ RetryMalloc \/ LeavePool
         \/ \E a \in Addrs : Pools(a)
  PROVE  SafetyInv'
<1> USE DEF SafetyInv
<1>1. ASSUME NEW t \in Tags, EnterPool(t) PROVE SafetyInv'
  <2>1. MemoryInv' /\ entries' = entries \ (PoolBlocks(t) \cap cached)
                   /\ live' = live /\ cached' = cached \ PoolBlocks(t)
    BY <1>1, FreePreserves DEF EnterPool
  <2>2. UNCHANGED tag /\ dropped' = dropped \cup (PoolBlocks(t) \cap live)
    BY <1>1 DEF EnterPool, Free
  <2>3. OpenPool'
    <3>1. \A a : a \in PoolBlocks(scope)' => a \in PoolBlocks(t) \ dropped'
      BY <1>1, <2>1, <2>2 DEF EnterPool, PoolBlocks
    <3>2. \A a : a \in PoolBlocks(scope)' => a \in live' \cup cached'
      BY DEF PoolBlocks
    <3>3. PoolBlocks(scope)' = {}
      BY <2>1, <2>2, <3>1, <3>2
    <3>4. QED
      BY <1>1, <3>3 DEF EnterPool, OpenPool, walk
  <2>4. todo = {} /\ PoolBlocks(t) \cap dropped = {}
    BY <1>1 DEF EnterPool, TypeOK, PoolBlocks
  <2>5. QED
    BY <1>1, <2>1, <2>2, <2>3, <2>4 DEF EnterPool, TypeOK, MemoryInv, walk
<1>2. CASE ReleasePools
  <2>1. MemoryInv' /\ live' = live
    BY <1>2, FreePreserves DEF ReleasePools
  <2>2. QED
    BY <1>2, <2>1 DEF ReleasePools, TypeOK, MemoryInv, OpenPool, walk
<1>3. CASE RetryMalloc
  <2>1. MemoryInv' /\ live' = live /\ cached' = cached \ PoolBlocks(scope)
    BY <1>3, FreePreserves DEF RetryMalloc
  <2>2. todo = {} /\ PoolBlocks(scope) \cap dropped = {}
    BY <1>3 DEF RetryMalloc, TypeOK, PoolBlocks
  <2>3. OpenPool'
    <3>1. entries' = entries \ (PoolBlocks(scope) \cap cached)
      BY <1>3 DEF RetryMalloc, Free, Pop
    <3>2. PoolBlocks(scope)' = PoolBlocks(scope) \ cached
      BY <1>3, <2>1 DEF RetryMalloc, PoolBlocks, Free, MemoryInv, MemoryType
    <3>3. QED
      BY <1>3, <3>1, <3>2 DEF RetryMalloc, OpenPool, walk
  <2>4. QED
    BY <1>3, <2>1, <2>2, <2>3 DEF RetryMalloc, TypeOK, MemoryInv, walk
<1>4. CASE LeavePool
  <2> DEFINE unused == PoolBlocks(scope) \cap cached
  <2>1. MemoryInv'
    <3>0. unused \in SUBSET Addrs /\ unused \cap live = {}
      BY DEF MemoryInv, MemoryType
    <3>1. UNCHANGED <<live, want, lost>> /\ cached' = cached
      BY <1>4 DEF LeavePool, torch, history
    <3>2. CASE UNCHANGED <<table, device>>
      BY <3>1, <3>2 DEF MemoryInv, MemoryType, ContentPreserved, MemoryTracked,
                        Mapped, table, device
    <3>3. ASSUME NEW F \in SUBSET unused, NEW C \in SUBSET Addrs,
                 Pop(F), Release(F, C),
                 err' \in BOOLEAN, fault' \in BOOLEAN,
                 ~fault' => ~fault /\ C = {} /\ ~err', UNCHANGED <<tag, reserved>>
          PROVE  MemoryInv'
      <4>1. F \in SUBSET Addrs /\ F \cap live = {}
        BY <3>0, <3>3
      <4>2. /\ live \subseteq reserved' /\ cached' \subseteq cached \cap reserved'
            /\ reserved' \subseteq reserved /\ reserved \ F \subseteq reserved'
            /\ F \in SUBSET F /\ F \cap entries \subseteq F
        BY <3>1, <3>3 DEF MemoryInv, MemoryType
      <4>3. QED
        BY <3>1, <3>3, <4>1, <4>2, PopPreserves
    <3>4. CASE ~err /\ Pop(unused) /\ Release(unused, {})
               /\ UNCHANGED <<tag, reserved, err, fault>>
      <4>1. /\ err' \in BOOLEAN /\ fault' \in BOOLEAN
            /\ ~fault' => ~fault /\ {} = {} /\ ~err'
        BY <3>4 DEF MemoryInv, MemoryType
      <4>2. QED
        BY <3>3, <3>4, <4>1
    <3>5. ASSUME NEW a \in unused, NEW D \in SUBSET unused,
                 Pop(D), Release(D, {a}), err' = FALSE,
                 fault' = (fault \/ ~err), UNCHANGED <<tag, reserved>>
          PROVE  MemoryInv'
      <4>1. fault'
        BY <3>5 DEF MemoryInv, MemoryTracked
      <4>2. {a} \in SUBSET Addrs /\ fault' \in BOOLEAN
        BY <3>0, <3>5 DEF MemoryInv, MemoryType
      <4>3. QED
        BY <3>3, <3>5, <4>1, <4>2
    <3>6. QED
      BY <1>4, <3>2, <3>4, <3>5 DEF LeavePool
  <2>2. todo = {}
    BY <1>4 DEF LeavePool, TypeOK
  <2>3. QED
    BY <1>4, <2>1, <2>2 DEF LeavePool, TypeOK, MemoryInv, OpenPool, walk, torch
<1>5. ASSUME NEW a \in Addrs, Pools(a) PROVE SafetyInv'
  <2>1. CASE Malloc(a)
    <3>1. scope \in Tags /\ todo = {}
      BY <2>1 DEF Malloc, TypeOK
    <3>2. a \notin live /\ ~Mapped(a) /\ a \notin cached
      BY <2>1 DEF Malloc, MemoryInv, MemoryType
    <3>3. /\ live \subseteq live' /\ live' \subseteq live \cup {a}
          /\ a \in live' => phys'[a] = "usable" /\ a \in reserved'
          /\ reserved \subseteq reserved' /\ reserved' \subseteq reserved \cup {a}
          /\ Mapped(a)' => a \in reserved'
          /\ phys' \in [Addrs -> Phases] /\ err' \in BOOLEAN /\ fault' \in BOOLEAN
          /\ \A b \in Addrs \ {a} : phys'[b] = phys[b]
          /\ phys'[a] \in {"none", "usable"} \/ a \in cut'
          /\ cut \subseteq cut' /\ cut' \subseteq cut \cup {a}
          /\ ~fault' => ~fault /\ cut' = cut /\ ~err' /\ phys'[a] = "usable"
      <4>1. CASE live' = live \cup {a}
        BY <2>1, <4>1 DEF Malloc, MemoryInv, MemoryType, Phases, Mapped
      <4>2. CASE err' = TRUE /\ fault' = TRUE /\ UNCHANGED live
        <5>1. CASE UNCHANGED <<reserved, phys, cut>>
          <6>1. phys[a] \in {"none", "usable"} \/ a \in cut
            BY DEF MemoryInv, MemoryTracked
          <6>2. QED
            BY <3>2, <4>2, <5>1, <6>1 DEF MemoryInv, MemoryType, Mapped
        <5>2. CASE /\ phys' = [phys EXCEPT ![a] = "made"] /\ CutShort({a})
                   /\ UNCHANGED reserved
          BY <3>2, <4>2, <5>2 DEF MemoryInv, MemoryType, Phases, Mapped, CutShort
        <5>3. CASE /\ phys' = [phys EXCEPT ![a] = "noaccess"] /\ CutShort({a})
                   /\ reserved' = reserved \cup {a}
          BY <3>2, <4>2, <5>3 DEF MemoryInv, MemoryType, Phases, Mapped, CutShort
        <5>4. QED
          BY <2>1, <4>2, <5>1, <5>2, <5>3 DEF Malloc
      <4>3. QED
        BY <2>1, <4>1, <4>2 DEF Malloc
    <3>4. /\ entries' = entries \cup {a}
          /\ asleep' = [asleep EXCEPT ![a] = FALSE]
          /\ backup' = [backup EXCEPT ![a] = None]
          /\ UNCHANGED <<gpu, cached, dropped, scope, walk, history>>
      BY <2>1 DEF Malloc
    <3>5. MemoryType'
      <4>1. \A b \in Addrs : Mapped(b)' => b \in reserved'
        BY <3>3 DEF MemoryInv, MemoryType, Mapped
      <4>2. tag' \in [Addrs -> Tags \cup {None}]
        BY <2>1, <3>1 DEF Malloc, MemoryInv, MemoryType
      <4>3. QED
        BY <3>2, <3>3, <3>4, <4>1, <4>2 DEF MemoryInv, MemoryType, history
    <3>6. ContentPreserved'
      BY <3>2, <3>3, <3>4 DEF MemoryInv, MemoryType, ContentPreserved, history
    <3>7. MemoryTracked'
      BY <3>3, <3>4 DEF MemoryInv, MemoryType, MemoryTracked
    <3>8. \A b \in Addrs \ live' : want'[b] = Garbage
      BY <3>3, <3>4 DEF MemoryInv, history
    <3>9. OpenPool'
      BY <2>1, <3>1, <3>2, <3>3 DEF Malloc, OpenPool, PoolBlocks, TypeOK, MemoryInv,
                              MemoryType, walk
    <3>10. QED
      BY <3>1, <3>3, <3>4, <3>5, <3>6, <3>7, <3>8, <3>9
      DEF TypeOK, MemoryInv, walk
  <2>2. CASE ReuseBlock(a)
    <3>1. a \in entries
      BY <2>2 DEF ReuseBlock, OpenPool
    <3>2. OpenPool'
      BY <2>2 DEF ReuseBlock, OpenPool, PoolBlocks, table, walk
    <3>3. MemoryInv'
      BY <2>2, <3>1 DEF ReuseBlock, MemoryInv, MemoryType, ContentPreserved,
                        MemoryTracked, Mapped, table, device, history
    <3>4. QED
      BY <2>2, <3>2, <3>3 DEF ReuseBlock, TypeOK, MemoryInv, walk, table
  <2>3. CASE DropTensor(a)
    BY <2>3 DEF DropTensor, TypeOK, MemoryInv, MemoryType, ContentPreserved,
                MemoryTracked, Mapped, OpenPool, PoolBlocks, table, device, walk
  <2>4. ASSUME NEW v \in Values, Write(a, v) PROVE SafetyInv'
    BY <2>4 DEF Write, TypeOK, MemoryInv, MemoryType, ContentPreserved,
                MemoryTracked, Mapped, OpenPool, PoolBlocks, table, torch, walk
  <2>5. QED
    BY <1>5, <2>1, <2>2, <2>3, <2>4 DEF Pools
<1>6. CASE MallocRefused
  BY <1>6 DEF MallocRefused, TypeOK, MemoryInv, MemoryType, ContentPreserved,
              MemoryTracked, Mapped, OpenPool, PoolBlocks, table, torch, walk, history
<1>7. QED
  BY <1>1, <1>2, <1>3, <1>4, <1>5, <1>6

\* The calls, and their steps through the table.
LEMMA WalkNext ==
  ASSUME SafetyInv,
         \/ \E T \in SUBSET Tags : Suspend(T) \/ Discard(T) \/ Resume(T)
         \/ \E a \in Addrs : Walk(a)
         \/ Return
  PROVE  SafetyInv'
<1> USE DEF SafetyInv
<1>1. ASSUME NEW T \in SUBSET Tags, Suspend(T) \/ Discard(T) PROVE SafetyInv'
  BY <1>1 DEF Suspend, Discard, Start, TypeOK, MemoryInv, MemoryType, OpenPool,
              ContentPreserved, MemoryTracked, Mapped, table, device, torch, history
<1>2. EmptyCache /\ UNCHANGED history =>
        MemoryInv' /\ dropped' \subseteq live' \cup cached'
  BY FreePreserves DEF EmptyCache, TypeOK
<1>3. ASSUME NEW T \in SUBSET Tags, Resume(T) PROVE SafetyInv'
  BY <1>2, <1>3 DEF Resume, Start, TypeOK, MemoryInv, OpenPool
<1>4. ASSUME NEW a \in Addrs, Walk(a) PROVE SafetyInv'
  <2>1. a \in entries /\ scope = None /\ scope' = None
    BY <1>4 DEF Walk, SleepStep, CopyRaises, DiscardStep, WakeStep, WakeRaises,
                WakeUncopied, Wakes, Skip, Come, TypeOK, OpenPool
  <2>2. OpenPool'
    BY <2>1 DEF OpenPool
  <2>3. ASSUME MemoryInv', UNCHANGED <<entries, live, cached, dropped>>,
               GoOn(a) \/ RaiseCall
        PROVE  SafetyInv'
    BY <2>1, <2>2, <2>3 DEF GoOn, RaiseCall, TypeOK, MemoryInv
  <2>4. CASE SleepStep(a)
    <3>1. PICK ok \in BOOLEAN : PythonUnmap(a, ok)
      BY <2>4 DEF SleepStep
    <3>2. asleep' = [asleep EXCEPT ![a] = TRUE] /\ ~asleep[a]
          /\ UNCHANGED <<entries, tag, torch>>
      BY <2>4 DEF SleepStep
    <3>3. /\ backup' \in [Addrs -> Values \cup {Garbage, None}]
          /\ want' \in [Addrs -> Values \cup {Garbage}]
          /\ \A b \in Addrs \ {a} : backup'[b] = backup[b] /\ want'[b] = want[b]
          /\ lost \ {a} \subseteq lost' /\ lost' \subseteq lost
          /\ a \notin live => want'[a] = Garbage
      BY <2>4 DEF SleepStep, Offload, MemoryInv, MemoryType, history
    <3>4. a \in live \ lost' /\ want'[a] # Garbage => backup'[a] = want'[a]
      BY <2>4 DEF SleepStep, Offload, MemoryInv, MemoryType, ContentPreserved, history
    <3>5. MemoryInv'
      BY <2>1, <3>1, <3>2, <3>3, <3>4, UnmapPreserves
    <3>6. QED
      BY <2>3, <2>4, <3>1, <3>5 DEF SleepStep, PythonUnmap, torch
  <2>5. CASE CopyRaises(a)
    BY <2>3, <2>5 DEF CopyRaises, MemoryInv, MemoryType, ContentPreserved,
                      MemoryTracked, Mapped, table, device, torch, history
  <2>6. CASE DiscardStep(a)
    <3>1. PICK ok \in BOOLEAN :
            PythonUnmap(a, ok) /\ asleep' = [asleep EXCEPT ![a] = ok]
      BY <2>6 DEF DiscardStep
    <3>2. /\ backup' \in [Addrs -> Values \cup {Garbage, None}]
          /\ want' \in [Addrs -> Values \cup {Garbage}]
          /\ \A b \in Addrs \ {a} : backup'[b] = backup[b] /\ want'[b] = want[b]
          /\ want'[a] = Garbage /\ backup'[a] = backup[a]
          /\ lost \ {a} \subseteq lost' /\ lost' \subseteq lost
          /\ ~asleep[a] /\ UNCHANGED <<entries, tag, torch>>
      BY <2>6 DEF DiscardStep, MemoryInv, MemoryType
    <3>3. MemoryInv'
      BY <2>1, <3>1, <3>2, UnmapPreserves
    <3>4. QED
      BY <2>3, <2>6, <3>1, <3>3 DEF DiscardStep, PythonUnmap, torch
  <2>7. CASE WakeStep(a)
    <3>1. MemoryType'
      BY <2>1, <2>7 DEF WakeStep, Wakes, MemoryInv, MemoryType, Mapped, Phases,
                        torch, history
    <3>2. ContentPreserved'
      BY <2>1, <2>7, AllocatorAssumption
      DEF WakeStep, MemoryInv, MemoryType, ContentPreserved, torch, history, Wakes
    <3>3. MemoryTracked'
      BY <2>1, <2>7 DEF WakeStep, MemoryInv, MemoryType, MemoryTracked
    <3>4. MemoryInv'
      BY <2>7, <3>1, <3>2, <3>3 DEF WakeStep, MemoryInv, torch, history
    <3>5. QED
      BY <2>3, <2>7, <3>4 DEF WakeStep, torch
  <2>8. CASE WakeUncopied(a)
    <3>1. MemoryType'
      BY <2>1, <2>8 DEF WakeUncopied, Wakes, MemoryInv, MemoryType, Mapped, Phases,
                        CutShort, torch
    <3>2. ContentPreserved'
      BY <2>1, <2>8 DEF WakeUncopied, MemoryInv, MemoryType, ContentPreserved, torch
    <3>3. MemoryTracked'
      BY <2>1, <2>8 DEF WakeUncopied, MemoryInv, MemoryType, MemoryTracked, CutShort
    <3>4. MemoryInv'
      BY <2>8, <3>1, <3>2, <3>3 DEF WakeUncopied, MemoryInv, torch
    <3>5. QED
      BY <2>3, <2>8, <3>4 DEF WakeUncopied, torch
  <2>9. CASE WakeRaises(a)
    <3>1. /\ UNCHANGED <<table, reserved, gpu, torch, history>>
          /\ err' = FALSE /\ fault' = (fault \/ ~err) /\ asleep[a]
      BY <2>9 DEF WakeRaises
    <3>2. /\ phys' \in [Addrs -> Phases]
          /\ \A b \in Addrs \ {a} : phys'[b] = phys[b]
          /\ phys[a] # "usable" /\ phys'[a] # "usable"
          /\ Mapped(a)' => a \in reserved
          /\ phys'[a] # "none" => phys'[a] = phys[a] \/ a \in cut'
          /\ cut \subseteq cut' /\ cut' \subseteq cut \cup {a}
      BY <2>1, <2>9 DEF WakeRaises, Wakes, MemoryInv, MemoryType, MemoryTracked, Mapped,
                        Phases, CutShort
    <3>3. fault'
      BY <3>1 DEF MemoryInv, MemoryTracked
    <3>4. MemoryType'
      BY <3>1, <3>2, <3>3
      DEF MemoryInv, MemoryType, Mapped, table, torch, history
    <3>5. ContentPreserved'
      BY <3>1, <3>2 DEF MemoryInv, MemoryType, ContentPreserved, table, torch, history
    <3>6. MemoryTracked'
      BY <3>1, <3>2, <3>3 DEF MemoryInv, MemoryType, MemoryTracked, table
    <3>7. MemoryInv'
      BY <3>1, <3>4, <3>5, <3>6 DEF MemoryInv, torch, history
    <3>8. QED
      BY <2>3, <2>9, <3>7 DEF WakeRaises, table, torch
  <2>10. CASE Skip(a)
    BY <2>3, <2>10 DEF Skip, MemoryInv, MemoryType, ContentPreserved,
                      MemoryTracked, Mapped, table, device, torch, history
  <2>11. QED
    BY <1>4, <2>4, <2>5, <2>6, <2>7, <2>8, <2>9, <2>10 DEF Walk
<1>5. CASE Return
  <2>1. MemoryInv' /\ dropped' \subseteq live' \cup cached'
    <3>1. CASE EmptyCache
      BY <1>2, <1>5, <3>1 DEF Return
    <3>2. CASE UNCHANGED <<table, device, torch>>
      BY <1>5, <3>2 DEF Return, MemoryInv, MemoryType, ContentPreserved,
                        MemoryTracked, Mapped, TypeOK, table, device, torch, history
    <3>3. QED
      BY <1>5, <3>1, <3>2 DEF Return
  <2>2. scope = None
    BY <1>5 DEF Return, OpenPool
  <2>3. QED
    BY <1>5, <2>1, <2>2 DEF Return, TypeOK, MemoryInv, OpenPool
<1>6. QED
  BY <1>1, <1>3, <1>4, <1>5

\* Every step keeps the invariant, a stutter too.
LEMMA SafetyStep == SafetyInv /\ [Next]_vars => SafetyInv'
<1>1. CASE Next
  BY <1>1, PoolNext, WalkNext DEF Next
<1>2. CASE UNCHANGED vars
  BY <1>2 DEF vars, SafetyInv, TypeOK, MemoryInv, MemoryType, OpenPool,
              ContentPreserved, MemoryTracked, Mapped, PoolBlocks
<1>3. QED
  BY <1>1, <1>2

\* The allocator's table, the device's memory and torch's blocks fit together
\* in every reachable state.
THEOREM AllocatorCorrect == Spec => []SafetyInv
BY SafetyInit, SafetyStep, PTL DEF Spec

\* The types, and that tensors and entries of a walk are entries of the table.
THEOREM AllocatorTypes == Spec => []TypeOK
<1>1. SafetyInv => TypeOK
  BY DEF SafetyInv
<1>2. QED
  BY <1>1, AllocatorCorrect, PTL

\* No sequence of suspends, discards and resumes, complete or cut short between
\* any two calls to the driver, loses the content of a tensor that was not
\* discarded, but for one whose copy back the driver refused.
THEOREM ContentKept == Spec => []ContentPreserved
<1>1. SafetyInv => ContentPreserved
  BY DEF SafetyInv, MemoryInv
<1>2. QED
  BY <1>1, AllocatorCorrect, PTL

\* There is no usable device memory a suspend would not find, other memory only
\* where driver calls were cut short, and none is without a refusal by the driver
\* or a tensor that died asleep.
THEOREM MemoryKnown == Spec => []MemoryTracked
<1>1. SafetyInv => MemoryTracked
  BY DEF SafetyInv, MemoryInv
<1>2. QED
  BY <1>1, AllocatorCorrect, PTL

=============================================================================
