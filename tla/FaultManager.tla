---------------------------- MODULE FaultManager ----------------------------
(***************************************************************************)
(* runtime/fault_handler.cc: the process-wide FaultManager that owns the  *)
(* SIGSEGV action, the two ordered lists of FaultHandlers (those that     *)
(* only act on faults in generated code, and the others), and the         *)
(* dispatch of a fault: generated-code handlers first when                 *)
(* IsInGeneratedCode(context, true), then the other handlers, then the    *)
(* action that was installed before ART's (oldaction_).                   *)
(*                                                                         *)
(* A fault is handled in one step: the signal handler runs to completion   *)
(* on the faulting thread, and handlers are constructed by the runtime     *)
(* during start-up.  The Action of the null-pointer, suspension and        *)
(* stack-overflow handlers is architecture code outside the repository:   *)
(* each accepts the faults of its own kind.                                *)
(***************************************************************************)
EXTENDS Naturals, Sequences, SequencesExt, FiniteSets

CONSTANTS
  Handlers,    \* FaultHandler objects
  Kind,        \* the fault kind a handler's Action accepts ("none": never)
  GenCode,     \* the generated_code argument its constructor passes to AddHandler
  Trace,       \* the StackTraceHandler
  Faults,      \* fault kinds: null dereference, suspend check, stack overflow, other
  Methods,     \* what the frame's method register points to
  NoHandler,   \* no handler took the fault
  MaxInits     \* calls of FaultManager::Init

ASSUME /\ Kind \in [Handlers -> Faults \cup {"none"}]
       /\ GenCode \in [Handlers -> BOOLEAN]
       /\ Trace \in Handlers /\ Kind[Trace] = "none" /\ ~GenCode[Trace]
       /\ "ArtMethod" \in Methods
       /\ MaxInits \in Nat \ {0}

(* The signal context, as far as IsInGeneratedCode reads it: a current     *)
(* thread, Runnable, holding the mutator lock shared, the method register  *)
(* (0, an object whose class is null, unaligned, not a class, some other   *)
(* class, or an ArtMethod) and whether the return pc maps to a dex pc.     *)
Contexts == [thread : BOOLEAN, runnable : BOOLEAN, lockHeld : BOOLEAN,
             method : Methods, dexPc : BOOLEAN]

(* SIGSEGV actions: the process default, another library's, ART's.        *)
Actions == {"default", "library", "art"}

VARIABLES
  sigsegv,     \* the installed SIGSEGV action
  oldaction,   \* FaultManager::oldaction_
  gen,         \* generated_code_handlers_
  other,       \* other_handlers_
  constructed, \* handlers whose constructor has run
  inits,       \* FaultManager::Init calls so far
  previous,    \* the action installed before the first Init (ghost)
  last,        \* the last fault, who took it, and the handlers registered then
  fatal        \* the handler of a RemoveHandler that hit LOG(FATAL), or NoHandler

vars == <<sigsegv, oldaction, gen, other, constructed, inits, previous, last, fatal>>

NoFault == [fault |-> "none", by |-> NoHandler, dumped |-> FALSE, registered |-> {},
            ctx |-> [thread |-> FALSE, runnable |-> FALSE, lockHeld |-> FALSE,
                     method |-> "ArtMethod", dexPc |-> FALSE]]

(* FaultManager::IsInGeneratedCode: every early return false, then the dex *)
(* pc of the return address when check_dex_pc.                             *)
IsInGeneratedCode(ctx, check_dex_pc) ==
  /\ ctx.thread /\ ctx.runnable /\ ctx.lockHeld
  /\ ctx.method = "ArtMethod"
  /\ (check_dex_pc => ctx.dexPc)

(* FaultHandler::Action of the architecture handlers.                      *)
Accepts(h, f) == Kind[h] = f

(* Fault-injected variant: the walk stops after the first handler.         *)
FirstTakerFirstOnly(s, f) ==
  IF s # <<>> /\ Accepts(s[1], f) THEN s[1] ELSE NoHandler

(* The first handler of a list whose Action returns true.                  *)
FirstTaker(s, f) ==
  LET j == SelectInSeq(s, LAMBDA h : Accepts(h, f)) IN
    IF j = 0 THEN NoHandler ELSE s[j]

(* The FaultManager constructor reads the current action into oldaction_. *)
Init ==
  /\ sigsegv = "default"
  /\ oldaction = "default"
  /\ gen = <<>> /\ other = <<>>
  /\ constructed = {}
  /\ inits = 0
  /\ previous = "default"
  /\ last = NoFault
  /\ fatal = NoHandler

Running == fatal = NoHandler

(* Another library claims SIGSEGV before the runtime starts.               *)
LibraryInstalls ==
  /\ Running /\ inits = 0 /\ sigsegv = "default"
  /\ sigsegv' = "library"
  /\ UNCHANGED <<oldaction, gen, other, constructed, inits, previous, last, fatal>>

(* Fault-injected variant: sigaction(SIGSEGV, &action, nullptr).           *)
FaultManagerInitNoSave ==
  /\ Running /\ inits < MaxInits
  /\ sigsegv' = "art"
  /\ inits' = inits + 1
  /\ previous' = IF inits = 0 THEN sigsegv ELSE previous
  /\ UNCHANGED <<oldaction, gen, other, constructed, last, fatal>>

(* FaultManager::Init: install art_fault_handler, saving the current one.  *)
FaultManagerInit ==
  /\ Running /\ inits < MaxInits
  /\ oldaction' = sigsegv
  /\ sigsegv' = "art"
  /\ inits' = inits + 1
  /\ previous' = IF inits = 0 THEN sigsegv ELSE previous
  /\ UNCHANGED <<gen, other, constructed, last, fatal>>

(* Fault-injected variant: every handler goes to other_handlers_.          *)
AddHandlerOther(h, generated_code) ==
  /\ other' = Append(other, h)
  /\ UNCHANGED gen

(* FaultManager::AddHandler.                                               *)
AddHandler(h, generated_code) ==
  IF generated_code THEN /\ gen' = Append(gen, h) /\ UNCHANGED other
                    ELSE /\ other' = Append(other, h) /\ UNCHANGED gen

(* The constructors of NullPointerHandler, SuspensionHandler,              *)
(* StackOverflowHandler (generated code) and StackTraceHandler (other).    *)
Construct(h) ==
  /\ Running /\ h \notin constructed
  /\ constructed' = constructed \cup {h}
  /\ AddHandler(h, GenCode[h])
  /\ UNCHANGED <<sigsegv, oldaction, inits, previous, last, fatal>>

(* StackTraceHandler::Action: dump the Java stack when the fault is in     *)
(* generated code, with or without a dex pc; it always returns false.      *)
StackTraceDumps(ctx) == IsInGeneratedCode(ctx, FALSE)

(* FaultManager::RemoveHandler.  The second erase is passed `it', an      *)
(* iterator of generated_code_handlers_: undefined behaviour, after which  *)
(* other_handlers_ is either untouched or has lost its last slot, and      *)
(* LOG(FATAL) then aborts on every path.                                   *)
RemoveHandler(h) ==
  /\ Running /\ h \in constructed
  /\ gen' = Remove(gen, h)
  /\ \/ h \notin ToSet(other) /\ UNCHANGED other
     \/ h \in ToSet(other) /\ other' \in {other, SubSeq(other, 1, Len(other) - 1)}
  /\ fatal' = [h |-> h, registered |-> h \in ToSet(gen) \cup ToSet(other)]
  /\ UNCHANGED <<sigsegv, oldaction, constructed, inits, previous, last>>

(* FaultManager::HandleFault, entered through art_fault_handler, with the  *)
(* StackTraceHandler's Action dumping the stack when the walk reaches it.  *)
HandleFault(f, ctx) ==
  /\ Running /\ sigsegv = "art"
  /\ LET g == IF IsInGeneratedCode(ctx, TRUE) THEN FirstTaker(gen, f) ELSE NoHandler
         o == FirstTaker(other, f)
         walked == IF o = NoHandler THEN ToSet(other)
                   ELSE ToSet(SubSeq(other, 1, SelectInSeq(other, LAMBDA h : h = o)))
         by == CASE g # NoHandler -> g
                 [] o # NoHandler -> o
                 [] oldaction = "art" -> "recursion"
                 [] OTHER -> oldaction
     IN last' = [fault |-> f, ctx |-> ctx, by |-> by,
                 registered |-> ToSet(gen) \cup ToSet(other),
                 dumped |-> g = NoHandler /\ Trace \in walked
                            /\ StackTraceDumps(ctx)]
  /\ UNCHANGED <<sigsegv, oldaction, gen, other, constructed, inits, previous, fatal>>

Next ==
  \/ LibraryInstalls
  \/ FaultManagerInit
  \/ \E h \in Handlers : Construct(h) \/ RemoveHandler(h)
  \/ \E f \in Faults, ctx \in Contexts : HandleFault(f, ctx)

Spec == Init /\ [][Next]_vars

-----------------------------------------------------------------------------
(* Each constructed handler sits once in the list its constructor chose,   *)
(* as long as no RemoveHandler has run.                                    *)
TypeOK ==
  /\ sigsegv \in Actions /\ oldaction \in Actions /\ previous \in Actions
  /\ inits \in 0..MaxInits
  /\ Running =>
       /\ ToSet(gen) = {h \in constructed : GenCode[h]}
       /\ ToSet(other) = {h \in constructed : ~GenCode[h]}
       /\ Len(gen) + Len(other) = Cardinality(constructed)

(* A fault no ART handler takes is passed on to the SIGSEGV action that    *)
(* was installed before FaultManager::Init, whoever installed it.          *)
ChainPreserved ==
  last.fault # "none" /\ last.by \notin Handlers => last.by = previous

(* A fault in generated code that some registered handler accepts is       *)
(* taken by a handler that accepts it, never passed to the old action.     *)
NoneLost ==
  /\ last.fault # "none"
  /\ IsInGeneratedCode(last.ctx, TRUE)
  /\ \E h \in last.registered : Accepts(h, last.fault)
  => last.by \in Handlers /\ Accepts(last.by, last.fault)

(* RemoveHandler's LOG(FATAL) says "Attempted to remove non existent       *)
(* handler": it is meant to be reached only for a handler in no list.      *)
RemoveSound ==
  fatal # NoHandler => ~fatal.registered

=============================================================================
