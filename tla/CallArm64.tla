------------------------------ MODULE CallArm64 ------------------------------
(***************************************************************************)
(* The code compiler/dex/quick/arm64/call_arm64.cc emits for monitor-enter *)
(* and monitor-exit, executed as A64 executes it.                           *)
(*                                                                         *)
(* Threads run a synchronized block on one object, possibly nested, a      *)
(* bounded number of times.  Both generators take the                      *)
(* kArchVariantHasGoodBranchPredictor = false branch (a constexpr), which *)
(* is the Thumb2 sequence of the ARM back end: OpIT(kCondEq, ...) followed *)
(* by instructions marked /*eq*/ and /*ne*/.  A64 has no IT instruction    *)
(* and its stxr, str, ldr and blx are not conditional, so every one of     *)
(* them executes.  Two more facts of A64 enter: ldxr and stxr take a base  *)
(* register and no offset, so kA64Ldxr2rX and kA64Stxr3wrX address [x0],   *)
(* the object's klass_ word, not monitor_ at MonitorOffset(); and the      *)
(* exclusive monitor is lost by any store to the object.  (OpIT and the    *)
(* encoding tables are outside the repository.)                             *)
(*                                                                         *)
(* The entrypoints (artLockObjectFromCode, artUnlockObjectFromCode,        *)
(* Monitor::MonitorEnter/MonitorExit/Inflate) and the lock word layout     *)
(* (lock_word.h) are outside the repository and are modelled from their    *)
(* documented behaviour: a thin lock word holds the owner's thin lock id   *)
(* in bits 0-15 and the recursion count in 16-27; a contended thin lock is *)
(* inflated to a monitor (state 1 in bits 30-31) after the owner thread is *)
(* suspended.  Memory is sequentially consistent.                          *)
(***************************************************************************)
EXTENDS Integers, FiniteSets

CONSTANTS
  Threads,     \* mutator threads
  ThinLockId,  \* Thread::thin_lock_thread_id_ of each thread
  NoThread,    \* a monitor without owner
  Klass,       \* the object's klass_ word, a class pointer
  MaxRounds,   \* synchronized blocks each thread runs
  MaxDepth     \* nesting of monitor-enter on the object in one block

ASSUME /\ ThinLockId \in [Threads -> 1..(2^16 - 1)]
       /\ \A t, u \in Threads : t # u => ThinLockId[t] # ThinLockId[u]
       /\ Klass \notin {ThinLockId[t] : t \in Threads}
       /\ MaxRounds \in Nat \ {0} /\ MaxDepth \in 1..4

(* lock_word.h: a thin lock owned by a thread with a recursion count, and  *)
(* a fat lock word pointing at the object's monitor.                       *)
ThinLock(t, count) == ThinLockId[t] + count * 2 ^ 16
Fat == 2 ^ 30 + 1
IsThin(lw) == lw # 0 /\ lw < 2 ^ 30
ThinOwner(lw) == lw % 2 ^ 16
ThinCount(lw) == (lw \div 2 ^ 16) % 2 ^ 12
OwnedBy(lw, t) == IsThin(lw) /\ ThinOwner(lw) = ThinLockId[t]

(* Program points of a thread.  "enter" precedes the ldxr, "stxr" the      *)
(* stxr, "exit" the ldr of GenMonitorExit and "exit_str" its str;          *)
(* "lock_slow" and "unlock_slow" are the entrypoint calls; "body" is the   *)
(* synchronized block; "ims" is an IllegalMonitorStateException thrown by  *)
(* the unlock entrypoint.                                                   *)
Pcs == {"enter", "stxr", "lock_slow", "body", "exit", "exit_str",
        "unlock_slow", "done", "ims"}

VARIABLES
  klassWord, \* the object's klass_ field, the word at offset 0
  lockWord,  \* the object's monitor_ field
  monOwner,  \* Monitor::owner_ of the inflated monitor
  monCount,  \* Monitor::lock_count_
  pc,        \* program point of each thread
  r1,        \* register w1 of each thread
  reserved,  \* threads whose exclusive monitor holds the object
  depth,     \* monitor-enters of each thread not yet matched by an exit
  rounds     \* synchronized blocks each thread has completed

vars == <<klassWord, lockWord, monOwner, monCount, pc, r1, reserved, depth, rounds>>

Init ==
  /\ klassWord = Klass
  /\ lockWord = 0
  /\ monOwner = NoThread /\ monCount = 0
  /\ pc = [t \in Threads |-> "enter"]
  /\ r1 = [t \in Threads |-> 0]
  /\ reserved = {}
  /\ depth = [t \in Threads |-> 0]
  /\ rounds = [t \in Threads |-> 0]

(* The lock is now held one level deeper by t, and t runs the block.       *)
Acquired(t) ==
  /\ depth' = [depth EXCEPT ![t] = @ + 1]
  /\ pc' = [pc EXCEPT ![t] = "body"]

(* One level of t's lock is released: t exits again, starts its next      *)
(* block, or is done.                                                      *)
Released(t) ==
  /\ depth' = [depth EXCEPT ![t] = @ - 1]
  /\ rounds' = [rounds EXCEPT ![t] = IF depth[t] = 1 THEN @ + 1 ELSE @]
  /\ pc' = [pc EXCEPT ![t] = CASE depth[t] > 1 -> "exit"
                              [] rounds[t] + 1 < MaxRounds -> "enter"
                              [] OTHER -> "done"]

(* GenMonitorEnter: GenNullCheck; ldr w2, thin lock id; ldxr w1, [x0].     *)
EnterLdxr(t) ==
  /\ pc[t] = "enter"
  /\ r1' = [r1 EXCEPT ![t] = klassWord]
  /\ reserved' = reserved \cup {t}
  /\ pc' = [pc EXCEPT ![t] = "stxr"]
  /\ UNCHANGED <<klassWord, lockWord, monOwner, monCount, depth, rounds>>

(* GenMonitorEnter: cmp w1, #0; stxr w1, w2, [x0]; cmp w1, #0; ldr lr,     *)
(* pLockObject; blx lr.  The stxr stores the thin lock id into klass_      *)
(* while t's reservation stands, and may fail even then (w1 = 1); the      *)
(* call follows in every case.                                              *)
EnterStxr(t) ==
  /\ pc[t] = "stxr"
  /\ \/ /\ t \in reserved
        /\ klassWord' = ThinLockId[t] /\ reserved' = {}
        /\ r1' = [r1 EXCEPT ![t] = 0]
     \/ /\ reserved' = reserved \ {t}
        /\ r1' = [r1 EXCEPT ![t] = 1]
        /\ UNCHANGED klassWord
  /\ pc' = [pc EXCEPT ![t] = "lock_slow"]
  /\ UNCHANGED <<lockWord, monOwner, monCount, depth, rounds>>

(* pLockObject (artLockObjectFromCode, Monitor::MonitorEnter): take an     *)
(* unlocked word, add one to the count of t's own thin lock, or take or   *)
(* re-enter the inflated monitor.  Another thread's lock makes t wait.    *)
LockSlow(t) ==
  /\ pc[t] = "lock_slow"
  /\ \/ lockWord = 0 /\ lockWord' = ThinLock(t, 0) /\ UNCHANGED <<monOwner, monCount>>
     \/ OwnedBy(lockWord, t) /\ ThinCount(lockWord) < MaxDepth
        /\ lockWord' = lockWord + 2 ^ 16
        /\ UNCHANGED <<monOwner, monCount>>
     \/ lockWord = Fat /\ monOwner = NoThread
        /\ monOwner' = t /\ monCount' = 0 /\ UNCHANGED lockWord
     \/ lockWord = Fat /\ monOwner = t
        /\ monCount' = monCount + 1 /\ UNCHANGED <<lockWord, monOwner>>
  /\ reserved' = IF lockWord' # lockWord THEN {} ELSE reserved
  /\ Acquired(t)
  /\ UNCHANGED <<klassWord, r1, rounds>>

(* Where a thread can stop for a suspension request: not between the ldxr *)
(* and the stxr, nor between the ldr and the str, which contain no call   *)
(* and no suspend check (the comment before GenMonitorExit).              *)
SuspendPoint(p) == p \notin {"stxr", "exit_str"}

(* Monitor::InflateThinLocked from t's contention loop: suspend the owner  *)
(* (it stops at a suspend point), re-read the word, and if the owner still *)
(* holds it install a monitor owned by the owner with its count.          *)
Inflate(t) ==
  /\ pc[t] = "lock_slow"
  /\ IsThin(lockWord) /\ ~OwnedBy(lockWord, t)
  /\ \E u \in Threads :
       /\ OwnedBy(lockWord, u) /\ SuspendPoint(pc[u])
       /\ lockWord' = Fat /\ monOwner' = u /\ monCount' = ThinCount(lockWord)
  /\ reserved' = {}
  /\ UNCHANGED <<klassWord, pc, r1, depth, rounds>>

(* GenMonitorExit: GenNullCheck; ldr w1, [x0, #monitor]; ldr w2, thin lock *)
(* id; mov w3, #0; cmp w1, w2.                                             *)
ExitLdr(t) ==
  /\ pc[t] = "exit"
  /\ r1' = [r1 EXCEPT ![t] = lockWord]
  /\ pc' = [pc EXCEPT ![t] = "exit_str"]
  /\ UNCHANGED <<klassWord, lockWord, monOwner, monCount, reserved, depth, rounds>>

(* GenMonitorExit: str w3, [x0, #monitor]; ldr lr, pUnlockObject; blx lr. *)
(* The word is set to 0 whatever the compare found, and the call follows.  *)
ExitStr(t) ==
  /\ pc[t] = "exit_str"
  /\ lockWord' = 0 /\ reserved' = {}
  /\ pc' = [pc EXCEPT ![t] = "unlock_slow"]
  /\ UNCHANGED <<klassWord, monOwner, monCount, r1, depth, rounds>>

(* pUnlockObject (artUnlockObjectFromCode, Monitor::MonitorExit): lower    *)
(* the count of t's thin lock or of its monitor, releasing at count 0; a   *)
(* lock t does not hold throws IllegalMonitorStateException.               *)
UnlockSlow(t) ==
  /\ pc[t] = "unlock_slow"
  /\ IF OwnedBy(lockWord, t)
       THEN /\ lockWord' = IF ThinCount(lockWord) > 0 THEN lockWord - 2 ^ 16 ELSE 0
            /\ reserved' = {}
            /\ Released(t)
            /\ UNCHANGED <<monOwner, monCount>>
     ELSE IF lockWord = Fat /\ monOwner = t
       THEN /\ IF monCount > 0 THEN monCount' = monCount - 1 /\ UNCHANGED monOwner
                                ELSE monOwner' = NoThread /\ UNCHANGED monCount
            /\ Released(t)
            /\ UNCHANGED <<lockWord, reserved>>
       ELSE /\ pc' = [pc EXCEPT ![t] = "ims"]
            /\ UNCHANGED <<lockWord, monOwner, monCount, reserved, depth, rounds>>
  /\ UNCHANGED <<klassWord, r1>>

(* The synchronized block: enter the monitor once more, or leave.          *)
Body(t) ==
  /\ pc[t] = "body"
  /\ \/ depth[t] < MaxDepth /\ pc' = [pc EXCEPT ![t] = "enter"]
     \/ pc' = [pc EXCEPT ![t] = "exit"]
  /\ UNCHANGED <<klassWord, lockWord, monOwner, monCount, r1, reserved, depth, rounds>>

(* Every thread has run its blocks, or has thrown.                         *)
Terminated ==
  /\ \A t \in Threads : pc[t] \in {"done", "ims"}
  /\ UNCHANGED vars

Next ==
  \/ \E t \in Threads :
       \/ EnterLdxr(t) \/ EnterStxr(t) \/ LockSlow(t) \/ Inflate(t)
       \/ Body(t) \/ ExitLdr(t) \/ ExitStr(t) \/ UnlockSlow(t)
  \/ Terminated

Spec == Init /\ [][Next]_vars

-----------------------------------------------------------------------------
(* A thread that exits a monitor it entered, in properly nested            *)
(* synchronized blocks, never gets IllegalMonitorStateException: the       *)
(* inline path of GenMonitorExit releases the thin lock it finds, or hands *)
(* the exit to pUnlockObject, never both.                                  *)
ExitsSucceed == \A t \in Threads : pc[t] # "ims"
====
