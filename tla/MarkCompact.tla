----------------------------- MODULE MarkCompact -----------------------------
(***************************************************************************)
(* The mark-compact collector of runtime/gc/collector/mark_compact.cc,    *)
(* over a concrete memory made of the bump-pointer space it compacts       *)
(* (space_), a non-moving space it sweeps, and an immune image space.      *)
(* Each object has one reference field and a lock word; objects of size 2 *)
(* have a tail cell that must travel with them.  The collector runs with   *)
(* the mutator lock held exclusively, so the mutator steps only between    *)
(* cycles.  Cells carry a ghost identity, used only to read the abstract  *)
(* heap of module Heap out of memory.                                      *)
(***************************************************************************)
EXTENDS Integers, Sequences, FiniteSets, SequencesExt

CONSTANTS
  SpaceCapacity,             \* units of kObjectAlignment in space_
  OtherAddrs,                \* object slots of the non-moving (swept) space
  ImmuneAddrs,               \* objects of the image space
  ObjectSizes,               \* object sizes, in units of kObjectAlignment
  RootSlots,                 \* slots visited by Runtime::VisitRoots
  LockValues,                \* non-empty lock word payloads
  MaxAllocs,                 \* bound: objects the mutator allocates
  MaxMutations,              \* bound: mutator steps in a behaviour
  MarkStackInitialCapacity,  \* capacity of the heap's mark stack at start
  RefIds                     \* allocations that are weak references (by ghost id)

SpaceAddrs == 0 .. SpaceCapacity - 1
Addrs == SpaceAddrs \cup OtherAddrs \cup ImmuneAddrs
Null == -1
Wild == -2        \* an address decoded from a lock word that held none
NoObj == 0
AllocIds == 1 .. MaxAllocs
Ids == AllocIds \cup ImmuneAddrs     \* an image object's id is its address

ASSUME /\ OtherAddrs \cap SpaceAddrs = {} /\ ImmuneAddrs \cap SpaceAddrs = {}
       /\ OtherAddrs \cap ImmuneAddrs = {} /\ ImmuneAddrs \cap AllocIds = {}
       /\ ObjectSizes \subseteq 1 .. 2 /\ 0 \notin LockValues
       /\ RefIds \subseteq AllocIds

(* LockWord: its default value is empty; FromForwardingAddress(a).          *)
EmptyLW == [kind |-> "plain", val |-> 0]
PlainLW(v) == [kind |-> "plain", val |-> v]
ForwardingLW(a) == [kind |-> "fwd", val |-> a]

FreeCell == [id |-> NoObj, head |-> FALSE, size |-> 0, lw |-> EmptyLW, ref |-> Null]
Header(i, s) == [id |-> i, head |-> TRUE, size |-> s, lw |-> EmptyLW, ref |-> Null]
TailCell(i) == [FreeCell EXCEPT !.id = i]

VARIABLES
  mem,               \* address -> cell
  spaceEnd,          \* space_->End(), relative to space_->Begin()
  objectsAllocated,  \* space_->GetObjectsAllocated()
  roots,             \* root slot -> address or Null
  weaks,             \* addresses held by the system-weak tables
  nextId,            \* ghost: identity of the next allocation
  mutations,         \* mutator steps taken, for the bound
  phase,             \* the step of RunPhases the collector thread is at
  immune,            \* immune_region_
  bf,                \* objects_before_forwarding_, in half alignment units
  withLockword,      \* objects_with_lockword_
  lockQueue,         \* lock_words_to_restore_ (owner is a ghost tag)
  markBitmap,        \* heap_->GetMarkBitmap() over the non-moving space
  markStack,         \* mark_stack_, borrowed from the heap
  markStackCap,      \* mark_stack_->Capacity()
  bump,              \* bump_pointer_
  liveInSpace,       \* live_objects_in_space_
  cursor,            \* position of a VisitMarkedRange walk
  objectStart,       \* MoveObjectVisitor::object_start_
  snap,              \* ghost: the abstract heap when the cycle began
  delayed,           \* the reference processor's queue of references
  epoch              \* ghost: parity of the cycles completed

mutator == <<mem, spaceEnd, objectsAllocated, roots, weaks, nextId, mutations>>
collector == <<phase, immune, bf, withLockword, lockQueue, markBitmap,
               markStack, markStackCap, bump, liveInSpace, cursor,
               objectStart, snap, delayed, epoch>>
vars == <<mutator, collector>>

------------------------------------------------------------------------------
(* Reading the heap.                                                        *)

HeadAt == {a \in Addrs : mem[a].head}
(* The object a reference names: NoObj for null, and Dangling for an       *)
(* address where no object starts (a freed cell, the tail of one, or       *)
(* Wild), so that a reference left pointing at freed memory is not read as  *)
(* a cleared one.                                                          *)
Dangling == -1
IdOf(a) == CASE a = Null -> NoObj
             [] a \in HeadAt -> mem[a].id
             [] OTHER -> Dangling

(* Addresses reachable through reference fields from the set S.            *)
RECURSIVE ReachAddrs(_)
ReachAddrs(S) ==
  LET T == (S \cup {mem[a].ref : a \in S}) \cap HeadAt
  IN IF T = S THEN S ELSE ReachAddrs(T)

RootAddrs == {roots[r] : r \in RootSlots} \ {Null}

(* What the mutator can name and use: through roots, the image space and  *)
(* the intern table.                                                       *)
MutatorAccessible == ReachAddrs((RootAddrs \cup ImmuneAddrs \cup weaks) \cap HeadAt)

(* The abstract heap of module Heap, read out of memory, one part at a     *)
(* time: k is "objs", "field", "lock", "root" or "weak".                   *)
AbsPart(k) ==
  LET ids == {mem[a].id : a \in HeadAt}
      at(o) == CHOOSE a \in HeadAt : mem[a].id = o
  IN CASE k = "objs"  -> ids
       [] k = "field" -> [o \in Ids |-> IF o \in ids THEN IdOf(mem[at(o)].ref)
                                        ELSE NoObj]
       [] k = "lock"  -> [o \in Ids |-> IF o \in ids THEN mem[at(o)].lw.val
                                        ELSE 0]
       [] k = "root"  -> [r \in RootSlots |-> IdOf(roots[r])]
       [] k = "weak"  -> {mem[a].id : a \in weaks}

AbsHeap == [k \in {"objs", "field", "lock", "root", "weak"} |-> AbsPart(k)]

NoSnap == [objs |-> {}, field |-> [o \in Ids |-> NoObj],
           lock |-> [o \in Ids |-> 0], root |-> [r \in RootSlots |-> NoObj],
           weak |-> {}]

------------------------------------------------------------------------------
(* Marking.  MarkObject and MarkStackPush act on the marking state          *)
(* M = [imm, bf, mb, stack, cap] so that a step can fold them over the     *)
(* references it visits.                                                    *)

(* objects_before_forwarding_->HasAddress: the bitmap covers Begin..End.   *)
InSpace(a) == a \in 0 .. spaceEnd - 1

(* Fault-injected variant: a push at capacity without ResizeMarkStack.    *)
MarkStackPushNoResize(M, obj) == [M EXCEPT !.stack = Append(@, obj)]

(* MarkStackPush, with ResizeMarkStack doubling a full stack.              *)
MarkStackPush(M, obj) ==
  [M EXCEPT !.stack = Append(@, obj),
            !.cap = IF Len(M.stack) >= M.cap THEN M.cap * 2 ELSE M.cap]

MarkObject(M, obj) ==
  IF obj = Null \/ obj \in M.imm THEN M
  ELSE IF InSpace(obj)
       THEN IF 2 * obj \in M.bf THEN M
            ELSE MarkStackPush([M EXCEPT !.bf = @ \cup {2 * obj}], obj)
       ELSE IF obj \in M.mb THEN M
            ELSE MarkStackPush([M EXCEPT !.mb = @ \cup {obj}], obj)

MarkAll(M, S) == FoldSet(LAMBDA o, acc : MarkObject(acc, o), M, S)

MarkState == [imm |-> immune, bf |-> bf, mb |-> markBitmap, stack |-> markStack, cap |-> markStackCap]

SetMarkState(M) ==
  /\ immune' = M.imm /\ bf' = M.bf /\ markBitmap' = M.mb
  /\ markStack' = M.stack /\ markStackCap' = M.cap

IsMarked(obj) ==
  \/ obj \in immune
  \/ InSpace(obj) /\ 2 * obj \in bf
  \/ ~InSpace(obj) /\ obj \in markBitmap

------------------------------------------------------------------------------
(* Forwarding and moving.                                                   *)

(* GetMarkedForwardAddress: an object of the space is read through the     *)
(* forwarding address in its lock word; any other object does not move.    *)
(* A lock word that holds no forwarding address decodes to a wild pointer. *)
GetMarkedForwardAddress(obj) ==
  IF InSpace(obj)
  THEN IF mem[obj].lw.kind = "fwd" THEN mem[obj].lw.val ELSE Wild
  ELSE obj

(* UpdateHeapReference on the one reference field of a cell.               *)
UpdateHeapReference(cell) ==
  IF cell.ref = Null THEN cell
  ELSE [cell EXCEPT !.ref = GetMarkedForwardAddress(cell.ref)]

(* Fault-injected variant: UpdateReferences skips the mod-union tables.  *)
ReferenceHoldersNoModUnion ==
  {a \in HeadAt : \/ a \in OtherAddrs
                  \/ InSpace(a) /\ 2 * a \in bf}

(* The objects UpdateReferences visits: the immune spaces through their    *)
(* mod-union tables, the swept non-moving space through its live bitmap,   *)
(* and the marked objects of space_.                                       *)
ReferenceHolders ==
  {a \in HeadAt : \/ a \in ImmuneAddrs
                  \/ a \in OtherAddrs
                  \/ InSpace(a) /\ 2 * a \in bf}

(* The set bits at or after the position of a bitmap walk.                 *)
PendingBits == {b \in bf : b >= cursor}
PendingStarts == {b \in PendingBits : b % 2 = 0}

(* Fault-injected variants of MoveObject: objects_with_lockword_ tested   *)
(* at the destination; the restored lock word never popped.                *)
MoveObjectTestsDest(obj, len) ==
  LET dest == mem[obj].lw.val
      restore == dest \in withLockword
      moved == [x \in Addrs |-> IF x \in dest .. dest + len - 1
                                THEN mem[obj + (x - dest)] ELSE mem[x]]
  IN /\ mem[obj].lw.kind = "fwd"
     /\ restore => lockQueue /= << >>
     /\ mem' = [moved EXCEPT ![dest].lw = IF restore THEN Head(lockQueue).lw
                                                     ELSE EmptyLW]
     /\ lockQueue' = IF restore THEN Tail(lockQueue) ELSE lockQueue

MoveObjectNoPop(obj, len) ==
  LET dest == mem[obj].lw.val
      restore == obj \in withLockword
      moved == [x \in Addrs |-> IF x \in dest .. dest + len - 1
                                THEN mem[obj + (x - dest)] ELSE mem[x]]
  IN /\ mem[obj].lw.kind = "fwd"
     /\ restore => lockQueue /= << >>
     /\ mem' = [moved EXCEPT ![dest].lw = IF restore THEN Head(lockQueue).lw
                                                     ELSE EmptyLW]
     /\ lockQueue' = lockQueue

(* MoveObject: memmove len cells to the forwarding address, then give the  *)
(* copy its saved lock word or an empty one.                               *)
MoveObject(obj, len) ==
  LET dest == mem[obj].lw.val
      restore == obj \in withLockword
      moved == [x \in Addrs |-> IF x \in dest .. dest + len - 1
                                THEN mem[obj + (x - dest)] ELSE mem[x]]
  IN /\ mem[obj].lw.kind = "fwd"
     /\ restore => lockQueue /= << >>
     /\ mem' = [moved EXCEPT ![dest].lw = IF restore THEN Head(lockQueue).lw
                                                     ELSE EmptyLW]
     /\ lockQueue' = IF restore THEN Tail(lockQueue) ELSE lockQueue

------------------------------------------------------------------------------
(* The collector thread: one action per step of RunPhases.                 *)

(* Fault-injected variant: live_objects_in_space_ not reset.               *)
InitializePhaseNoLiveReset ==
  /\ phase = "Idle"
  /\ immune' = {}
  /\ snap' = AbsHeap
  /\ phase' = "Initialized"
  /\ UNCHANGED <<mutator, bf, withLockword, lockQueue, markBitmap, markStack,
                 markStackCap, bump, liveInSpace, cursor, objectStart, delayed,
                 epoch>>

InitializePhase ==
  /\ phase = "Idle"
  /\ immune' = {}
  /\ liveInSpace' = 0
  /\ snap' = AbsHeap
  /\ phase' = "Initialized"
  /\ UNCHANGED <<mutator, bf, withLockword, lockQueue, markBitmap, markStack,
                 markStackCap, bump, cursor, objectStart, delayed, epoch>>

(* BindBitmaps: the spaces that are never collected (the image space)    *)
(* become the immune region.                                               *)
BindBitmaps == ImmuneAddrs

(* MarkRoots: Runtime::VisitRoots with MarkRootCallback on every root.    *)
MarkRoots(M) == MarkAll(M, RootAddrs)

(* UpdateAndMarkModUnion: the mod-union table of the immune space marks    *)
(* every object its objects reference (MarkHeapReferenceCallback).         *)
UpdateAndMarkModUnion(M) == MarkAll(M, {mem[a].ref : a \in ImmuneAddrs} \ {Null})

(* MarkingPhase up to MarkReachableObjects: fresh bitmaps, BindBitmaps,    *)
(* MarkRoots, then UpdateAndMarkModUnion.                                  *)
MarkingPhase ==
  LET M0 == [imm |-> BindBitmaps, bf |-> {}, mb |-> markBitmap,
             stack |-> markStack, cap |-> markStackCap]
  IN /\ phase = "Initialized"
     /\ SetMarkState(UpdateAndMarkModUnion(MarkRoots(M0)))
     /\ withLockword' = {}
     /\ phase' = "Marking"
     /\ UNCHANGED <<mutator, lockQueue, bump, liveInSpace, cursor, objectStart, snap,
                    delayed, epoch>>

(* The cell at a is a java.lang.ref.Reference, its field the referent_.   *)
IsReference(a) == mem[a].id \in RefIds

(* Reference::GetReferent and Reference::ClearReferent.                    *)
GetReferent(a) == mem[a].ref
ClearReferent(cell) == [cell EXCEPT !.ref = Null]

(* ReferenceProcessor::DelayReferenceReferent, through IsMarkedCallback:   *)
(* a reference whose referent is not null and not marked yet joins the     *)
(* processor's queue of references to process.                             *)
DelayReferenceReferent(ref) ==
  IF GetReferent(ref) /= Null /\ ~IsMarked(GetReferent(ref))
  THEN delayed \cup {ref} ELSE delayed

(* One iteration of ProcessMarkStack: PopBack, then ScanObject, whose      *)
(* MarkCompactMarkObjectVisitor marks the field of an ordinary object and  *)
(* hands a Reference to DelayReferenceReferent instead of marking its     *)
(* referent.                                                               *)
ProcessMarkStackStep ==
  LET obj == markStack[Len(markStack)]
      M0 == [MarkState EXCEPT !.stack = SubSeq(markStack, 1, Len(markStack) - 1)]
  IN /\ phase = "Marking" /\ markStack /= << >>
     /\ IF IsReference(obj)
          THEN SetMarkState(M0) /\ delayed' = DelayReferenceReferent(obj)
          ELSE SetMarkState(MarkObject(M0, mem[obj].ref)) /\ UNCHANGED delayed
     /\ UNCHANGED <<mutator, phase, withLockword, lockQueue, bump, liveInSpace,
                    cursor, objectStart, snap, epoch>>

(* ProcessReferences (ReferenceProcessor::ProcessReferences with           *)
(* IsMarkedCallback, for weak references): each queued reference whose     *)
(* referent is still unmarked now that marking is over has its referent   *)
(* cleared; the queue is emptied.                                          *)
ProcessReferences ==
  [a \in Addrs |-> IF a \in delayed /\ ~IsMarked(GetReferent(a))
                   THEN ClearReferent(mem[a]) ELSE mem[a]]

(* SweepSystemWeaks: Runtime::SweepSystemWeaks with IsMarkedCallback      *)
(* drops the entries of unmarked objects.                                  *)
SweepSystemWeaks == {w \in weaks : IsMarked(w)}

(* The mark stack is empty: MarkReachableObjects returns, then the rest   *)
(* of MarkingPhase: ProcessReferences and SweepSystemWeaks.                *)
MarkingPhaseEnd ==
  /\ phase = "Marking" /\ markStack = << >>
  /\ mem' = ProcessReferences
  /\ delayed' = {}
  /\ weaks' = SweepSystemWeaks
  /\ phase' = "Reclaim"
  /\ UNCHANGED <<spaceEnd, objectsAllocated, roots, nextId, mutations, immune, bf,
                 withLockword, lockQueue, markBitmap, markStack, markStackCap,
                 bump, liveInSpace, cursor, objectStart, snap, epoch>>

(* ShouldSweepSpace: neither space_ nor an immune space.                 *)
ShouldSweepSpace(a) == a \notin SpaceAddrs /\ a \notin ImmuneAddrs

(* Sweep: each swept space frees its objects that are not marked; the     *)
(* large-object space holds nothing here.                                  *)
Sweep ==
  [a \in Addrs |-> IF ShouldSweepSpace(a) /\ mem[a].head /\ ~IsMarked(a)
                   THEN FreeCell ELSE mem[a]]

(* ReclaimPhase: Sweep of the non-moving space, then Compact begins:      *)
(* CalculateObjectForwardingAddresses resets the bump pointer to Begin.   *)
ReclaimPhase ==
  /\ phase = "Reclaim"
  /\ mem' = Sweep
  /\ bump' = 0
  /\ cursor' = 0
  /\ phase' = "Forwarding"
  /\ UNCHANGED <<spaceEnd, objectsAllocated, roots, weaks, nextId, mutations, immune, bf,
                 withLockword, lockQueue, markBitmap, markStack, markStackCap,
                 liveInSpace, objectStart, snap, delayed, epoch>>

(* Fault-injected variant: the bump pointer advanced before the forwarding *)
(* address is taken from it.                                               *)
FowardObjectBumpFirst ==
  LET b == Min(PendingStarts)
      obj == b \div 2
      size == mem[obj].size
      lw == mem[obj].lw
  IN /\ phase = "Forwarding" /\ PendingStarts /= {}
     /\ withLockword' = IF lw /= EmptyLW THEN withLockword \cup {obj} ELSE withLockword
     /\ lockQueue' = IF lw /= EmptyLW
                     THEN Append(lockQueue, [lw |-> lw, owner |-> mem[obj].id])
                     ELSE lockQueue
     /\ mem' = [mem EXCEPT ![obj].lw = ForwardingLW(bump + size)]
     /\ bump' = bump + size
     /\ bf' = bf \cup {2 * (obj + size) - 1}
     /\ liveInSpace' = liveInSpace + 1
     /\ cursor' = b + 1
     /\ UNCHANGED <<spaceEnd, objectsAllocated, roots, weaks, nextId, mutations,
                    phase, immune, markBitmap, markStack, markStackCap,
                    objectStart, snap, delayed, epoch>>

(* One visit of CalculateObjectForwardingAddressVisitor at a start bit:    *)
(* FowardObject saves a non-empty lock word, installs the forwarding      *)
(* address, bumps, sets the end bit and counts the object live.            *)
FowardObject ==
  LET b == Min(PendingStarts)
      obj == b \div 2
      size == mem[obj].size
      lw == mem[obj].lw
  IN /\ phase = "Forwarding" /\ PendingStarts /= {}
     /\ withLockword' = IF lw /= EmptyLW THEN withLockword \cup {obj} ELSE withLockword
     /\ lockQueue' = IF lw /= EmptyLW
                     THEN Append(lockQueue, [lw |-> lw, owner |-> mem[obj].id])
                     ELSE lockQueue
     /\ mem' = [mem EXCEPT ![obj].lw = ForwardingLW(bump)]
     /\ bump' = bump + size
     /\ bf' = bf \cup {2 * (obj + size) - 1}
     /\ liveInSpace' = liveInSpace + 1
     /\ cursor' = b + 1
     /\ UNCHANGED <<spaceEnd, objectsAllocated, roots, weaks, nextId, mutations, phase,
                    immune, markBitmap, markStack, markStackCap, objectStart, snap,
                    delayed, epoch>>

(* UpdateRootCallback and UpdateClassRootCallback: a visited (non-null)    *)
(* root is replaced by the forwarding address of its object.               *)
UpdateRootCallback(root) ==
  IF root = Null THEN Null ELSE GetMarkedForwardAddress(root)

(* The forwarding walk is over; Compact goes on with UpdateReferences:     *)
(* roots, the reference holders of every space, then the system weaks     *)
(* through MarkedForwardingAddressCallback.                                *)
UpdateReferences ==
  /\ phase = "Forwarding" /\ PendingStarts = {}
  /\ roots' = [r \in RootSlots |-> UpdateRootCallback(roots[r])]
  /\ mem' = [a \in Addrs |-> IF a \in ReferenceHolders
                             THEN UpdateHeapReference(mem[a]) ELSE mem[a]]
  /\ weaks' = {GetMarkedForwardAddress(w) : w \in weaks}
  /\ cursor' = 0
  /\ phase' = "Moving"
  /\ UNCHANGED <<spaceEnd, objectsAllocated, nextId, mutations, immune, bf, withLockword,
                 lockQueue, markBitmap, markStack, markStackCap, bump,
                 liveInSpace, objectStart, snap, delayed, epoch>>

(* One visit of MoveObjectVisitor: a start bit records object_start_; an   *)
(* end bit gives the length and moves the object.                          *)
MoveObjectVisitor ==
  LET b == Min(PendingBits)
  IN /\ phase = "Moving" /\ PendingBits /= {}
     /\ cursor' = b + 1
     /\ \/ /\ b % 2 = 0
           /\ objectStart' = b \div 2
           /\ UNCHANGED <<mem, lockQueue>>
        \/ /\ b % 2 = 1
           /\ MoveObject(objectStart, (b + 1) \div 2 - objectStart)
           /\ UNCHANGED objectStart
     /\ UNCHANGED <<spaceEnd, objectsAllocated, roots, weaks, nextId, mutations, phase,
                    immune, bf, withLockword, markBitmap, markStack,
                    markStackCap, bump, liveInSpace, snap, delayed, epoch>>

(* MoveObjects ends with CHECK(lock_words_to_restore_.empty()); the rest   *)
(* of Compact records the freed objects and bytes, sets the space's end to *)
(* the bump pointer and zeroes the freed memory.                           *)
CompactEnd ==
  LET objects_freed == objectsAllocated - liveInSpace
  IN /\ phase = "Moving" /\ PendingBits = {}
     /\ lockQueue = << >>
     /\ objectsAllocated' = objectsAllocated - objects_freed
     /\ spaceEnd' = bump
     /\ mem' = [a \in Addrs |-> IF a \in bump .. spaceEnd - 1 THEN FreeCell ELSE mem[a]]
     /\ phase' = "Finish"
     /\ UNCHANGED <<roots, weaks, nextId, mutations, immune, bf, withLockword, lockQueue,
                    markBitmap, markStack, markStackCap, bump, liveInSpace,
                    cursor, objectStart, snap, delayed, epoch>>

(* FinishPhase: CHECK the mark stack is empty and Reset it, clear the      *)
(* mark bitmaps, release the two bitmaps of this cycle.  The visitors are *)
(* gone, and with them the walk positions.                                 *)
FinishPhase ==
  /\ phase = "Finish" /\ markStack = << >>
  /\ markStack' = << >>
  /\ markBitmap' = {}
  /\ bf' = {}
  /\ withLockword' = {}
  /\ cursor' = 0 /\ objectStart' = 0
  /\ snap' = NoSnap
  /\ epoch' = 1 - epoch
  /\ phase' = "Idle"
  /\ UNCHANGED <<mutator, immune, lockQueue, markStackCap, bump, liveInSpace, delayed>>

------------------------------------------------------------------------------
(* The mutator, between cycles.  Allocation is BumpPointerSpace::Alloc and *)
(* the non-moving space's allocator, which are not in this repository.    *)

MutatorStep(A) ==
  /\ phase = "Idle" /\ mutations < MaxMutations
  /\ A /\ mutations' = mutations + 1 /\ UNCHANGED collector

AllocInSpace(r, s) ==
  /\ nextId \in AllocIds /\ spaceEnd + s <= SpaceCapacity
  /\ mem' = [a \in Addrs |-> IF a = spaceEnd THEN Header(nextId, s)
                             ELSE IF a \in spaceEnd + 1 .. spaceEnd + s - 1
                                  THEN TailCell(nextId) ELSE mem[a]]
  /\ roots' = [roots EXCEPT ![r] = spaceEnd]
  /\ spaceEnd' = spaceEnd + s
  /\ objectsAllocated' = objectsAllocated + 1
  /\ nextId' = nextId + 1
  /\ UNCHANGED weaks

AllocInOther(r, a) ==
  /\ nextId \in AllocIds /\ ~mem[a].head
  /\ mem' = [mem EXCEPT ![a] = Header(nextId, 1)]
  /\ roots' = [roots EXCEPT ![r] = a]
  /\ nextId' = nextId + 1
  /\ UNCHANGED <<spaceEnd, objectsAllocated, weaks>>

WriteRef(a, t) ==
  /\ a \in MutatorAccessible /\ t \in MutatorAccessible \cup {Null}
  /\ mem' = [mem EXCEPT ![a].ref = t]
  /\ UNCHANGED <<spaceEnd, objectsAllocated, roots, weaks, nextId>>

SetRoot(r, t) ==
  /\ t \in MutatorAccessible \cup {Null}
  /\ roots' = [roots EXCEPT ![r] = t]
  /\ UNCHANGED <<mem, spaceEnd, objectsAllocated, weaks, nextId>>

SetLock(a, v) ==
  /\ a \in MutatorAccessible
  /\ mem' = [mem EXCEPT ![a].lw = PlainLW(v)]
  /\ UNCHANGED <<spaceEnd, objectsAllocated, roots, weaks, nextId>>

Intern(a) ==
  /\ a \in MutatorAccessible
  /\ weaks' = weaks \cup {a}
  /\ UNCHANGED <<mem, spaceEnd, objectsAllocated, roots, nextId>>

------------------------------------------------------------------------------

Init ==
  /\ mem = [a \in Addrs |-> IF a \in ImmuneAddrs THEN Header(a, 1) ELSE FreeCell]
  /\ spaceEnd = 0 /\ objectsAllocated = 0
  /\ roots = [r \in RootSlots |-> Null]
  /\ weaks = {} /\ nextId = 1 /\ mutations = 0
  /\ phase = "Idle" /\ immune = {} /\ bf = {} /\ withLockword = {}
  /\ lockQueue = << >> /\ markBitmap = {} /\ markStack = << >>
  /\ markStackCap = MarkStackInitialCapacity
  /\ bump = 0 /\ liveInSpace = 0 /\ cursor = 0 /\ objectStart = 0
  /\ snap = NoSnap
  /\ delayed = {}
  /\ epoch = 0

(* The collector's steps once RunPhases has begun.                         *)
CollectorStep ==
  \/ MarkingPhase \/ ProcessMarkStackStep \/ MarkingPhaseEnd \/ ReclaimPhase
  \/ FowardObject \/ UpdateReferences \/ MoveObjectVisitor \/ CompactEnd
  \/ FinishPhase

Mutator ==
  \/ \E r \in RootSlots, s \in ObjectSizes : MutatorStep(AllocInSpace(r, s))
  \/ \E r \in RootSlots, a \in OtherAddrs : MutatorStep(AllocInOther(r, a))
  \/ \E a \in Addrs, t \in Addrs \cup {Null} : MutatorStep(WriteRef(a, t))
  \/ \E r \in RootSlots, t \in Addrs \cup {Null} : MutatorStep(SetRoot(r, t))
  \/ \E a \in Addrs, v \in {0} \cup LockValues : MutatorStep(SetLock(a, v))
  \/ \E a \in Addrs : MutatorStep(Intern(a))

Next == InitializePhase \/ CollectorStep \/ Mutator

(* The collector thread runs a started cycle to its end: the pause has no  *)
(* cancellation.  Nothing forces a cycle to start.                          *)
Spec == Init /\ [][Next]_vars
FairSpec == Spec /\ WF_vars(CollectorStep)

------------------------------------------------------------------------------
(* Properties.                                                              *)

Cell == [id : {NoObj} \cup Ids, head : BOOLEAN, size : 0 .. 2,
         lw : [kind : {"plain"}, val : {0} \cup LockValues]
              \cup [kind : {"fwd"}, val : SpaceAddrs],
         ref : Addrs \cup {Null, Wild}]

TypeOK ==
  /\ mem \in [Addrs -> Cell]
  /\ spaceEnd \in 0 .. SpaceCapacity /\ bump \in 0 .. SpaceCapacity
  /\ roots \in [RootSlots -> Addrs \cup {Null, Wild}]
  /\ weaks \subseteq Addrs \cup {Wild}
  /\ phase \in {"Idle", "Initialized", "Marking", "Reclaim", "Forwarding",
                "Moving", "Finish"}
  /\ bf \subseteq 0 .. 2 * SpaceCapacity - 1
  /\ withLockword \subseteq SpaceAddrs /\ markBitmap \subseteq OtherAddrs
  /\ lockQueue \in Seq([lw : [kind : {"plain"}, val : LockValues], owner : Ids])
  /\ markStack \in Seq(Addrs) /\ Len(markStack) <= markStackCap
  /\ delayed \subseteq Addrs /\ epoch \in {0, 1}

(* The collection is invisible to the program but for the objects it can   *)
(* no longer reach: read through the ghost ids, the whole of RunPhases      *)
(* (marking, sweeping, forwarding, UpdateReferences, MoveObjects, Compact's *)
(* accounting) is one Collect step of the abstract heap, and every other   *)
(* collector step changes nothing the program sees.                        *)
AbsView(k) == IF phase = "Idle" THEN AbsPart(k) ELSE snap[k]

H == INSTANCE Heap WITH ImmuneIds <- ImmuneAddrs,
       objs <- AbsView("objs"), field <- AbsView("field"), lock <- AbsView("lock"),
       root <- AbsView("root"), weak <- AbsView("weak"), epoch <- epoch

(* H!Spec, with the stuttering case tried first.                           *)
HeapSpec == H!Init /\ [][UNCHANGED H!vars \/ H!Next]_(H!vars)

(* Between cycles the bump-pointer space is walkable and counted: the      *)
(* objects tile Begin..End with their tails behind them, the memory past   *)
(* End is zero (Compact's memset), and GetObjectsAllocated() equals the    *)
(* number of objects, after Compact subtracted objects_freed computed from *)
(* live_objects_in_space_.                                                  *)
SpaceHeads == {a \in SpaceAddrs : mem[a].head}

SpaceConsistent ==
  phase = "Idle" =>
    /\ \A a \in SpaceHeads :
         /\ a + mem[a].size <= spaceEnd
         /\ \A k \in 1 .. mem[a].size - 1 : mem[a + k] = TailCell(mem[a].id)
    /\ \A x \in 0 .. spaceEnd - 1 :
         \E a \in SpaceHeads : a <= x /\ x < a + mem[a].size
    /\ \A x \in spaceEnd .. SpaceCapacity - 1 : mem[x] = FreeCell
    /\ objectsAllocated = Cardinality(SpaceHeads)

(* The in-place memmove of MoveObjects never overwrites an object it has   *)
(* not moved yet: every object whose end bit the walk has not reached      *)
(* still has its header, with its forwarding address, and its tail.  This  *)
(* is what forwarding addresses assigned in ascending address order buy.   *)
Unmoved(a) == 2 * (a + mem[a].size) - 1 >= cursor

UnmovedIntact ==
  phase = "Moving" =>
    \A b \in bf : b % 2 = 0 /\ Unmoved(b \div 2) =>
      LET a == b \div 2 IN
        /\ mem[a].head /\ mem[a].lw.kind = "fwd" /\ mem[a].size \in ObjectSizes
        /\ \A k \in 1 .. mem[a].size - 1 : mem[a + k] = TailCell(mem[a].id)

(* lock_words_to_restore_ stays in step with the two bitmap walks: while   *)
(* forwarding it holds, in address order, the lock words saved from the    *)
(* objects forwarded so far; while moving, those of the objects not moved  *)
(* yet; each is the word the object had when the cycle began.              *)
Saved == IF phase = "Forwarding" THEN {a \in withLockword : 2 * a < cursor}
         ELSE {a \in withLockword : Unmoved(a)}

LockWordsPaired ==
  phase \in {"Forwarding", "Moving"} =>
    LET order == SetToSortSeq(Saved, <)
    IN /\ Len(lockQueue) = Len(order)
       /\ \A k \in 1 .. Len(order) :
            /\ lockQueue[k].owner = mem[order[k]].id
            /\ lockQueue[k].lw = PlainLW(snap.lock[mem[order[k]].id])

(* A cycle that has begun comes to its end: no CHECK of MoveObjects or     *)
(* FinishPhase fails and no walk gets stuck.                               *)
GcCompletes == phase /= "Idle" ~> phase = "Idle"

====
