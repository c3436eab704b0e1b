---------------------------- MODULE MCMarkCompact ----------------------------
(* Model values and bounds for checking MarkCompact with TLC.              *)
EXTENDS MarkCompact

MCSpaceCapacity == 3
MCOtherAddrs == {10}
MCImmuneAddrs == {20}
MCObjectSizes == {1, 2}
MCLockValues == {1}
MCMaxAllocs == 2
MCMaxMutations == 5
MCMarkStackInitialCapacity == 1
MCRefIds == {2}

====
