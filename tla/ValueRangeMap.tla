---------------------------- MODULE ValueRangeMap ----------------------------
(***************************************************************************)
(* The per-block map from instructions to value ranges of the optimizing  *)
(* compiler's bounds-check elimination (bounds_check_elimination.h): a    *)
(* fixed table of kDefaultNumberOfEntries slots indexed by the            *)
(* instruction's hash code, a list of collision nodes that new entries    *)
(* are pushed onto, and a count of entries that lets Lookup answer        *)
(* "nothing" at once.  BoundsCheckElimination keeps one map per block,    *)
(* created on first use, and LookupValueRange walks up the dominator      *)
(* tree until a map knows the instruction.                                *)
(*                                                                         *)
(* The ghost variable `added' records, per block, the last range each     *)
(* instruction was given: the map the code means to implement.            *)
(***************************************************************************)
EXTENDS Naturals, Sequences, SequencesExt, FiniteSets

CONSTANTS
  Instrs,       \* HInstruction* keys
  Ranges,       \* ValueRange* values (opaque here)
  Blocks,       \* basic blocks of the graph
  Dominator,    \* immediate dominator of each block, or NoBlock for the entry
  HashCode,     \* HInstruction::ComputeHashCode, fixed per instruction
  K,            \* kDefaultNumberOfEntries
  Nothing,      \* nullptr
  NoBlock,      \* the entry block's dominator
  MaxAdds       \* bound on the number of Add calls

ASSUME /\ K \in Nat \ {0}
       /\ HashCode \in [Instrs -> Nat]
       /\ Dominator \in [Blocks -> Blocks \cup {NoBlock}]
       /\ Nothing \notin Ranges
       /\ MaxAdds \in Nat

VARIABLES table, collisions, number_of_entries, added, adds

vars == <<table, collisions, number_of_entries, added, adds>>

Entry == [instruction : Instrs, range : Ranges]

(* ValueRangeMapEntry.                                                     *)
MakeEntry(ins, r) == [instruction |-> ins, range |-> r]

Index(ins) == HashCode[ins] % K

(* ValueRangeMap::Lookup: the slot of the hash code first, then the       *)
(* collision list from its head (the newest node).                        *)
Lookup(b, ins) ==
  LET e == table[b][Index(ins)]
      j == SelectInSeq(collisions[b], LAMBDA n : n.instruction = ins)
  IN CASE number_of_entries[b] = 0 -> Nothing
       [] e # Nothing /\ e.instruction = ins -> e.range
       [] j # 0 -> collisions[b][j].range
       [] OTHER -> Nothing

(* The blocks LookupValueRange visits: b, its dominator, and so on up to   *)
(* the entry block.                                                        *)
RECURSIVE DominatorChain(_)
DominatorChain(b) ==
  IF b = NoBlock THEN <<>> ELSE <<b>> \o DominatorChain(Dominator[b])

(* Fault-injected variant: only the block's own map is consulted.          *)
LookupValueRangeNoWalk(ins, b) == Lookup(b, ins)

(* BoundsCheckElimination::LookupValueRange.                               *)
LookupValueRange(ins, b) ==
  LET chain == DominatorChain(b)
      j == SelectInSeq(chain, LAMBDA c : Lookup(c, ins) # Nothing)
  IN IF j = 0 THEN Nothing ELSE Lookup(chain[j], ins)

(* The ValueRangeMap constructor, for every map GetValueRangeMap creates.  *)
Init ==
  /\ table = [b \in Blocks |-> [i \in 0..K-1 |-> Nothing]]
  /\ collisions = [b \in Blocks |-> <<>>]
  /\ number_of_entries = [b \in Blocks |-> 0]
  /\ added = [b \in Blocks |-> [ins \in Instrs |-> Nothing]]
  /\ adds = 0

(* The effect of an Add on the ghost map and the call bound.               *)
Record(b, ins, r) ==
  /\ added' = [added EXCEPT ![b][ins] = r]
  /\ adds' = adds + 1

(* Fault-injected variant: a key already in its slot is pushed onto the    *)
(* collision list instead of replacing the slot.                           *)
AddNoUpdate(b, ins, r) ==
  /\ adds < MaxAdds
  /\ IF table[b][Index(ins)] = Nothing
       THEN /\ table' = [table EXCEPT ![b][Index(ins)] = MakeEntry(ins, r)]
            /\ number_of_entries' = [number_of_entries EXCEPT ![b] = @ + 1]
            /\ UNCHANGED collisions
       ELSE /\ collisions' = [collisions EXCEPT ![b] = <<MakeEntry(ins, r)>> \o @]
            /\ number_of_entries' = [number_of_entries EXCEPT ![b] = @ + 1]
            /\ UNCHANGED table
  /\ Record(b, ins, r)

(* Fault-injected variant: a collision node is not counted.               *)
AddNoCountCollision(b, ins, r) ==
  /\ adds < MaxAdds
  /\ LET slot == table[b][Index(ins)] IN
     CASE slot = Nothing ->
            /\ table' = [table EXCEPT ![b][Index(ins)] = MakeEntry(ins, r)]
            /\ number_of_entries' = [number_of_entries EXCEPT ![b] = @ + 1]
            /\ UNCHANGED collisions
       [] slot.instruction = ins ->
            /\ table' = [table EXCEPT ![b][Index(ins)] = MakeEntry(ins, r)]
            /\ UNCHANGED <<collisions, number_of_entries>>
       [] OTHER ->
            /\ collisions' = [collisions EXCEPT ![b] = <<MakeEntry(ins, r)>> \o @]
            /\ UNCHANGED <<table, number_of_entries>>
  /\ Record(b, ins, r)

(* ValueRangeMap::Add on the map of block b (GetValueRangeMap(b)).         *)
Add(b, ins, r) ==
  /\ adds < MaxAdds
  /\ LET slot == table[b][Index(ins)] IN
     CASE slot = Nothing ->
            /\ table' = [table EXCEPT ![b][Index(ins)] = MakeEntry(ins, r)]
            /\ number_of_entries' = [number_of_entries EXCEPT ![b] = @ + 1]
            /\ UNCHANGED collisions
       [] slot.instruction = ins ->
            /\ table' = [table EXCEPT ![b][Index(ins)] = MakeEntry(ins, r)]
            /\ UNCHANGED <<collisions, number_of_entries>>
       [] OTHER ->
            /\ collisions' = [collisions EXCEPT ![b] = <<MakeEntry(ins, r)>> \o @]
            /\ number_of_entries' = [number_of_entries EXCEPT ![b] = @ + 1]
            /\ UNCHANGED table
  /\ Record(b, ins, r)

Next == \E b \in Blocks, ins \in Instrs, r \in Ranges : Add(b, ins, r)

Spec == Init /\ [][Next]_vars

-----------------------------------------------------------------------------
(* The range the analysis means: the last one given to the instruction in  *)
(* the nearest block, going up the dominator tree, that gave it one.       *)
NearestRange(ins, b) ==
  LET chain == DominatorChain(b)
      j == SelectInSeq(chain, LAMBDA c : added[c][ins] # Nothing)
  IN IF j = 0 THEN Nothing ELSE added[chain[j]][ins]

(* Types, and number_of_entries_ counting every entry object the map       *)
(* holds: the filled slots and the collision nodes.                        *)
TypeOK ==
  /\ \A b \in Blocks :
       number_of_entries[b] =
         Len(collisions[b]) + Cardinality({i \in 0..K-1 : table[b][i] # Nothing})
  /\ table \in [Blocks -> [0..K-1 -> Entry \cup {Nothing}]]
  /\ \A b \in Blocks : collisions[b] \in Seq(Entry)
  /\ number_of_entries \in [Blocks -> Nat]
  /\ added \in [Blocks -> [Instrs -> Ranges \cup {Nothing}]]

(* Representation invariant Lookup relies on: a slot only ever holds       *)
(* entries of the instruction that first filled it, so an instruction in   *)
(* the collision list never owns its own slot, where Lookup would find a   *)
(* stale entry before the list.                                            *)
RepOK ==
  \A b \in Blocks : \A n \in 1..Len(collisions[b]) :
    LET e == collisions[b][n] IN
      /\ table[b][Index(e.instruction)] # Nothing
      /\ table[b][Index(e.instruction)].instruction # e.instruction

(* LookupValueRange, after any sequence of Add calls on any blocks,        *)
(* returns the range last added for the instruction in the nearest         *)
(* dominating block that has one, and nullptr when none has.               *)
LookupSound ==
  \A b \in Blocks, ins \in Instrs : LookupValueRange(ins, b) = NearestRange(ins, b)

=============================================================================
