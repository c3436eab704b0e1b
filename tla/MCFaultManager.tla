--------------------------- MODULE MCFaultManager ---------------------------
(* The four handlers the runtime constructs, the four kinds of SIGSEGV     *)
(* they tell apart, and two method-register cases: an ArtMethod, and 0   *)
(* (every other early return of IsInGeneratedCode behaves like it).      *)
EXTENDS FaultManager, TLC

CONSTANTS npe, suspend, so, trace

MCHandlers == {npe, suspend, so, trace}
MCKind == (npe :> "null") @@ (suspend :> "suspend") @@ (so :> "overflow") @@ (trace :> "none")
MCGenCode == (npe :> TRUE) @@ (suspend :> TRUE) @@ (so :> TRUE) @@ (trace :> FALSE)
MCFaults == {"null", "suspend", "overflow", "other"}
MCMethods == {"zero", "ArtMethod"}
=============================================================================
