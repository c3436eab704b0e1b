---------------------------- MODULE MCCallArm64 -----------------------------
EXTENDS CallArm64, TLC

(* Two threads with thin lock ids 1 and 2; a class pointer that is no     *)
(* thread's id.                                                            *)
MCThreads == {"t1", "t2"}
MCThinLockId == ("t1" :> 1) @@ ("t2" :> 2)
MCKlass == 4096
====
