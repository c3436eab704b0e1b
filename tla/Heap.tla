-------------------------------- MODULE Heap --------------------------------
(***************************************************************************)
(* What a collection promises the program: an abstract heap of objects,   *)
(* each with one reference field and a lock word, held by root slots and  *)
(* by the runtime's system-weak tables (intern table, monitor list).      *)
(* A collection is one atomic step that drops every object the program    *)
(* can no longer reach and clears the weak entries that named them;       *)
(* everything the program can still reach keeps its identity, its field   *)
(* and its lock word.  Some objects are java.lang.ref.WeakReferences:     *)
(* their field is the referent, which the program reads through get() but *)
(* which does not keep the referent alive; a collection clears the        *)
(* referent of a reference whose referent it drops.                        *)
(***************************************************************************)
EXTENDS Naturals, FiniteSets

CONSTANTS
  Ids,         \* object identities
  ImmuneIds,   \* objects of the image space, alive forever
  RootSlots,   \* thread-stack and global root slots
  LockValues,  \* non-empty lock word payloads (thin/fat lock, hash)
  RefIds,      \* objects that are weak references
  NoObj        \* the null reference

ASSUME /\ ImmuneIds \subseteq Ids /\ NoObj \notin Ids /\ 0 \notin LockValues
       /\ RefIds \subseteq Ids \ ImmuneIds

VARIABLES
  objs, field, lock, root, weak,
  epoch   \* flips with every collection, so a collection that frees nothing
          \* is still a step of its own

vars == <<objs, field, lock, root, weak, epoch>>

Ref == Ids \cup {NoObj}

(* Objects the program can name: through roots, the image space, and the  *)
(* weak tables (interning hands an entry back to the program).             *)
Named == ({root[r] : r \in RootSlots} \cup ImmuneIds \cup weak) \ {NoObj}

(* Everything reachable from a set of objects through the fields of the    *)
(* objects in Through.                                                      *)
RECURSIVE ReachFrom(_, _)
ReachFrom(S, Through) ==
  LET T == (S \cup {field[o] : o \in S \cap Through}) \cap objs
  IN IF T = S THEN S ELSE ReachFrom(T, Through)

Accessible == ReachFrom(Named \cap objs, Ids)

(* The objects a collection must keep: strongly reachable from roots or    *)
(* from the image space; weak entries and referents keep nothing alive.    *)
Live == ReachFrom(({root[r] : r \in RootSlots} \cup ImmuneIds) \cap objs, Ids \ RefIds)

(* A surviving reference keeps its referent only if the referent survives. *)
Kept(o) == o \in Live /\ (o \in RefIds => field[o] \in Live \cup {NoObj})

Init ==
  /\ objs = ImmuneIds
  /\ field = [o \in Ids |-> NoObj]
  /\ lock = [o \in Ids |-> 0]
  /\ root = [r \in RootSlots |-> NoObj]
  /\ weak = {}
  /\ epoch = 0

(* Each mutator action lists its effect before its guard (a conjunction   *)
(* either way), so that checking a step against it fails fast.             *)
Alloc(o, r) ==
  /\ UNCHANGED <<weak, epoch>>
  /\ root' = [root EXCEPT ![r] = o]
  /\ o \notin objs
  /\ objs' = objs \cup {o}
  /\ field' = [field EXCEPT ![o] = NoObj]
  /\ lock' = [lock EXCEPT ![o] = 0]

WriteField(o, t) ==
  /\ UNCHANGED <<objs, lock, root, weak, epoch>>
  /\ field' = [field EXCEPT ![o] = t]
  /\ o \in Accessible /\ t \in Accessible \cup {NoObj}

SetRoot(r, t) ==
  /\ UNCHANGED <<objs, field, lock, weak, epoch>>
  /\ root' = [root EXCEPT ![r] = t]
  /\ t \in Accessible \cup {NoObj}

SetLock(o, v) ==
  /\ UNCHANGED <<objs, field, root, weak, epoch>>
  /\ lock' = [lock EXCEPT ![o] = v]
  /\ o \in Accessible

AddWeak(o) ==
  /\ UNCHANGED <<objs, field, lock, root, epoch>>
  /\ weak' = weak \cup {o}
  /\ o \in Accessible

Collect ==
  /\ epoch' = 1 - epoch
  /\ UNCHANGED root
  /\ objs' = Live
  /\ field' = [o \in Ids |-> IF Kept(o) THEN field[o] ELSE NoObj]
  /\ lock' = [o \in Ids |-> IF o \in Live THEN lock[o] ELSE 0]
  /\ weak' = weak \cap Live

Next ==
  \/ \E o \in Ids, r \in RootSlots : Alloc(o, r)
  \/ \E o \in Ids, t \in Ref : WriteField(o, t)
  \/ \E r \in RootSlots, t \in Ref : SetRoot(r, t)
  \/ \E o \in Ids, v \in {0} \cup LockValues : SetLock(o, v)
  \/ \E o \in Ids : AddWeak(o)
  \/ Collect

Spec == Init /\ [][Next]_vars

=============================================================================
