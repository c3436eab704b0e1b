------------------------ MODULE LocalValueNumbering ------------------------
(***************************************************************************)
(* Local value numbering (compiler/dex/local_value_numbering.cc) over one *)
(* basic block, composed with an interpreter that executes the same       *)
(* block.  Each step is one instruction: the LVN part is the case of      *)
(* LocalValueNumbering::GetValueNumber for its opcode, the interpreter    *)
(* part is what the instruction does to registers and the heap.  The      *)
(* block is built as it runs: every step chooses the next instruction and *)
(* its operands among the registers already defined (SSA form), so the    *)
(* model explores every block of up to MaxInsns instructions over the     *)
(* modelled opcodes.                                                       *)
(*                                                                         *)
(* The properties state what the optimisations built on LVN rely on:      *)
(* registers with one value name hold one value, a name in the            *)
(* null-checked set is never null, and a name in the unique set denotes   *)
(* an object nobody else can reach.                                       *)
(***************************************************************************)
EXTENDS Integers, Sequences, FiniteSets, TLC

CONSTANTS
  PreObjs,          \* objects that exist before the block (method inputs)
  PreArrs,          \* int arrays that exist before the block
  PreArrInit,       \* PreArrs -> their contents
  MaxArrayLen,      \* NEW_ARRAY sizes beyond it are not explored
  IFieldRefs,       \* int instance field references instructions name
  FieldOf,          \* IFieldRefs -> the field it denotes at run time
  FieldKind,        \* IFieldRefs -> "resolved", "volatile" or "unresolved"
  MaxRacyWrites,    \* writes of volatile fields by other threads
  SFields,          \* resolved, non-volatile object static fields
  ConstVals,        \* 32-bit literals of CONST/CONST_4/CONST_16
  High16Vals,       \* literals of CONST_HIGH16
  LitVals,          \* literals (vC) of ADD_INT_LIT8
  ArgInts,          \* values of the int argument
  CalleeInts,       \* int values a callee may store into a field
  Wide32Vals,       \* vB of CONST_WIDE_16/32, as <<low, high>> halfwords
  WideVals,         \* literals of CONST_WIDE, as four halfwords
  WideHigh16Vals,   \* literals of CONST_WIDE_HIGH16
  CalleeLongs,      \* longs a callee may return
  ExceptionsShared, \* may a caught exception be reachable from elsewhere?
  MaxInsns          \* length of the block

(* A long or a 32-bit literal as its 16-bit halfwords, lowest first.       *)
Halves(n) == [1..n -> 0..65535]

ASSUME /\ \A r \in IFieldRefs : FieldKind[r] \in {"resolved", "volatile", "unresolved"}
       /\ PreObjs \subseteq 100..199 /\ PreArrs \subseteq 300..399 /\ MaxInsns \in 1..9
       /\ PreArrInit \in [PreArrs -> Seq(Nat)]
       /\ ConstVals \cup ArgInts \cup CalleeInts \subseteq 0..1048575
       /\ High16Vals \subseteq 0..15 /\ LitVals \subseteq 0..127
       /\ Wide32Vals \subseteq Halves(2) /\ WideVals \cup CalleeLongs \subseteq Halves(4)
       /\ WideHigh16Vals \subseteq 0..65535

NO_VALUE == 65535
Null == 0                      \* dex uses const 0 as null
NumArgs == 3                   \* sregs 1, 2, 3: object, int and int[] arguments
FreshObj(k) == 200 + k         \* object allocated by instruction k
IFields == {FieldOf[r] : r \in IFieldRefs}
AllObjs == PreObjs \cup PreArrs \cup {FreshObj(k) : k \in 1..MaxInsns}

(* Dalvik opcode numbers (dex_instruction_list.h), the op part of a key.  *)
CONST == 20
IGET == 82
SGET == 96
ADD_INT == 144
ADD_INT_LIT8 == 216
ARRAY_LENGTH == 33
ARRAY_REF == 65534             \* local_value_numbering.h: past the last opcode

Low16Bits(x) == x % 65536
High16Bits(x) == (x \div 65536) % 65536
(* Literals and arguments stay below 2^20 (ASSUME below), so the 32-bit    *)
(* wrap of an ADD_INT over at most MaxInsns operands never happens and the *)
(* sums stay within TLC's integers.                                         *)

VARIABLES
  \* LocalValueNumbering / value table state
  sregValue,        \* sreg_value_map_: sreg -> value name
  wideValue,        \* sreg_wide_value_map_: sreg -> value name of a wide value
  valueMap,         \* value map: key <<op, operand1, operand2, modifier>> -> name
  lastValue,        \* last_value_
  memVersion,       \* memory_version_map_: <<base, field, type>> -> version
  nextMemVersion,   \* next_memory_version_
  globalMemVersion, \* global_memory_version_
  nullChecked,      \* null_checked_
  uniqueObjects,    \* unique_objects_
  fieldIndex,       \* field_index_map_
  unresolvedIfieldVersion, \* unresolved_ifield_version_[0] (int type)
  \* the executing block
  pc,               \* instructions executed so far
  regs,             \* sreg -> runtime value
  regType,          \* sreg -> "I" (int) or "L" (reference)
  heap,             \* <<object, field>> -> int
  arrays,           \* array object -> its int elements
  statics,          \* static field -> reference
  escaped,          \* objects code outside the block can reach
  afterInvoke,      \* the previous instruction was an invoke
  racyWrites,       \* volatile writes other threads have made
  uncheckedOob      \* an access ran out of bounds with its range check removed

lvn == <<sregValue, valueMap, lastValue, memVersion, nextMemVersion,
         globalMemVersion, nullChecked, uniqueObjects, fieldIndex,
         unresolvedIfieldVersion, wideValue>>
vars == <<lvn, pc, regs, regType, heap, arrays, statics, escaped, afterInvoke,
          racyWrites, uncheckedOob>>

(* ----------------------------- value table ----------------------------- *)

(* The name LookupValue returns for a key: the stored one, or a new one,   *)
(* NewValueName's 16-bit truncation of ++last_value_.                      *)
NameOf(key) ==
  IF key \in DOMAIN valueMap THEN valueMap[key] ELSE (lastValue + 1) % 65536

LookupValue(key) ==
  IF key \in DOMAIN valueMap
  THEN UNCHANGED <<valueMap, lastValue>>
  ELSE /\ valueMap' = valueMap @@ (key :> NameOf(key))
       /\ lastValue' = lastValue + 1

(* LookupValue applied to each key of a sequence in turn: the value map    *)
(* and last_value_ after all of them.                                      *)
RECURSIVE Interned(_, _, _)
Interned(m, n, ks) ==
  IF ks = <<>> THEN <<m, n>>
  ELSE IF Head(ks) \in DOMAIN m THEN Interned(m, n, Tail(ks))
       ELSE Interned(m @@ (Head(ks) :> (n + 1) % 65536), n + 1, Tail(ks))

Overwrite(m, k, v) == [x \in DOMAIN m \cup {k} |-> IF x = k THEN v ELSE m[x]]

GetFieldId(f) ==
  IF f \in DOMAIN fieldIndex THEN fieldIndex[f] ELSE Cardinality(DOMAIN fieldIndex)

PutFieldId(f) == fieldIndex' = fieldIndex @@ (f :> GetFieldId(f))

(* --------------------------- memory versions --------------------------- *)

MV(key) == IF key \in DOMAIN memVersion THEN memVersion[key] ELSE 0

(* Fault-injected variant: a non-unique base ignores the global version.   *)
GetMemoryVersionNoGlobal(base, field, type) ==
  LET v == MV(<<base, field, type>>)
      aliased == MV(<<NO_VALUE, field, type>>)
  IN IF base # NO_VALUE /\ base \notin uniqueObjects /\ aliased > v THEN aliased ELSE v

GetMemoryVersion(base, field, type) ==
  LET v == MV(<<base, field, type>>)
      aliased == MV(<<NO_VALUE, field, type>>)
  IN CASE base # NO_VALUE /\ base \notin uniqueObjects ->
            LET m == IF aliased > v THEN aliased ELSE v
            IN IF globalMemVersion > m THEN globalMemVersion ELSE m
       [] base # NO_VALUE -> v
       [] OTHER -> IF globalMemVersion > v THEN globalMemVersion ELSE v

AdvanceMemoryVersion(base, field, type) ==
  LET result == nextMemVersion
      m1 == Overwrite(memVersion, <<base, field, type>>, result)
  IN /\ nextMemVersion' = (nextMemVersion + 1) % 65536
     /\ memVersion' = IF base # NO_VALUE /\ base \notin uniqueObjects
                      THEN Overwrite(m1, <<NO_VALUE, field, type>>, result)
                      ELSE m1

(* Fault-injected variant: next_memory_version_ is not incremented.         *)
AdvanceGlobalMemoryNoIncrement ==
  /\ globalMemVersion' = nextMemVersion
  /\ UNCHANGED nextMemVersion

AdvanceGlobalMemory ==
  /\ globalMemVersion' = nextMemVersion
  /\ nextMemVersion' = (nextMemVersion + 1) % 65536

HandleNullCheck(reg) == nullChecked' = nullChecked \cup {reg}

(* ------------------------------ registers ------------------------------ *)

Def == Cardinality(DOMAIN regs) + 1   \* the sreg the next definition gets
Fresh == FreshObj(pc + 1)
IntRegs == {s \in DOMAIN regs : regType[s] = "I"}
RefRegs == {s \in DOMAIN regs : regType[s] = "L"}

(* SetOperandValue for the defined sreg, plus the register it executes to. *)
SetOperand(name, val, ty) ==
  /\ sregValue' = sregValue @@ (Def :> name)
  /\ regs' = regs @@ (Def :> val)
  /\ regType' = regType @@ (Def :> ty)
  /\ UNCHANGED wideValue

Step(A) == pc < MaxInsns /\ A /\ pc' = pc + 1 /\ afterInvoke' = FALSE
                /\ UNCHANGED racyWrites

(* GetOperandValue of a fresh definition: the name of the key NO_VALUE,   *)
(* sreg; method arguments are named this way before the first insn.      *)
RegKey(s) == <<NO_VALUE, s, NO_VALUE, NO_VALUE>>

Init ==
  /\ sregValue = [s \in 1..NumArgs |-> s]
  /\ wideValue = [s \in {} |-> 0]
  /\ valueMap = [k \in {RegKey(s) : s \in 1..NumArgs} |-> k[2]]
  /\ lastValue = NumArgs
  /\ memVersion = [k \in {} |-> 0]
  /\ nextMemVersion = 1
  /\ globalMemVersion = 0
  /\ nullChecked = {}
  /\ uniqueObjects = {}
  /\ fieldIndex = [f \in {} |-> 0]
  /\ unresolvedIfieldVersion = 0
  /\ pc = 0
  /\ \E o \in PreObjs \cup {Null}, i \in ArgInts, a \in PreArrs \cup {Null} :
       regs = (1 :> o) @@ (2 :> i) @@ (3 :> a)
  /\ regType = (1 :> "L") @@ (2 :> "I") @@ (3 :> "A")
  /\ heap = [x \in AllObjs \X IFields |-> 0]
  /\ arrays = PreArrInit
  /\ statics \in [SFields -> PreObjs \cup {Null}]
  /\ escaped = PreObjs \cup PreArrs
  /\ afterInvoke = FALSE
  /\ racyWrites = 0
  /\ uncheckedOob = FALSE

(* ------------------------------- opcodes ------------------------------- *)

(* An instruction whose only effect is a defined register named by          *)
(* LookupValue(key).                                                        *)
DefineByKey(key, val, ty) ==
  /\ LookupValue(key)
  /\ SetOperand(NameOf(key), val, ty)
  /\ UNCHANGED <<memVersion, nextMemVersion, globalMemVersion, nullChecked,
                 uniqueObjects, fieldIndex, unresolvedIfieldVersion,
                 heap, arrays, statics, escaped, uncheckedOob>>

(* CONST, CONST_4, CONST_16: the key takes High16Bits(vB >> 16).           *)
Const(v) ==
  Step(DefineByKey(<<CONST, Low16Bits(v), High16Bits(v \div 65536), 0>>, v, "I"))

(* CONST_HIGH16 vB loads vB << 16.                                          *)
ConstHigh16(v) ==
  Step(DefineByKey(<<CONST, 0, v, 0>>, v * 65536, "I"))

(* ADD_INT: res = op + 2 operands.                                          *)
AddInt(a, b) ==
  Step(DefineByKey(<<ADD_INT, sregValue[a], sregValue[b], NO_VALUE>>,
                   regs[a] + regs[b], "I"))

(* ADD_INT_LIT8 vA, vB, #+vC, like the other LIT ops: "same as res = op   *)
(* + 2 operands, except use vB as operand 2", operand 2 being              *)
(* LookupValue(CONST, vB, 0, 0).  In these formats vB is the number of the *)
(* source register and the literal is vC.  The model gives every sreg its *)
(* own Dalvik register, numbered like the sreg.                            *)
AddIntLit8(a, lit) ==
  LET r1 == Interned(valueMap, lastValue, <<<<CONST, a, 0, 0>>>>)
      key == <<ADD_INT_LIT8, sregValue[a], r1[1][<<CONST, a, 0, 0>>], NO_VALUE>>
      r2 == Interned(r1[1], r1[2], <<key>>)
  IN Step(/\ valueMap' = r2[1] /\ lastValue' = r2[2]
          /\ SetOperand(r2[1][key], regs[a] + lit, "I")
          /\ UNCHANGED <<memVersion, nextMemVersion, globalMemVersion, nullChecked,
                         uniqueObjects, fieldIndex, unresolvedIfieldVersion,
                         heap, arrays, statics, escaped, uncheckedOob>>)

(* MOVE, MOVE_OBJECT: copy the value name of the source.                    *)
Move(a) ==
  Step(/\ SetOperand(sregValue[a], regs[a], regType[a])
       /\ UNCHANGED <<valueMap, lastValue, memVersion, nextMemVersion,
                      globalMemVersion, nullChecked, uniqueObjects, fieldIndex,
                      unresolvedIfieldVersion, heap, arrays, statics, escaped,
                    uncheckedOob>>)

(* MarkUniqueNonNull: the result is both null-checked and unique.           *)
MarkUniqueNonNull(o, ty) ==
  LET res == NameOf(RegKey(Def))
  IN /\ LookupValue(RegKey(Def))
     /\ SetOperand(res, o, ty)
     /\ nullChecked' = nullChecked \cup {res}
     /\ uniqueObjects' = uniqueObjects \cup {res}
     /\ UNCHANGED <<memVersion, nextMemVersion, globalMemVersion, fieldIndex,
                    unresolvedIfieldVersion, heap, statics, escaped, uncheckedOob>>

NewInstance == Step(MarkUniqueNonNull(Fresh, "L") /\ UNCHANGED arrays)

(* MOVE_EXCEPTION opens a catch block; the caught object is whatever was   *)
(* thrown, which may be an object the program already holds elsewhere.     *)
ExceptionObjs == IF ExceptionsShared THEN PreObjs \cup {Fresh} ELSE {Fresh}

MoveException(o) == pc = 0 /\ Step(MarkUniqueNonNull(o, "L") /\ UNCHANGED arrays)

(* Fault-injected variant: MOVE_RESULT_OBJECT grouped with the            *)
(* allocation opcodes, so the callee's result is taken as unique non-null. *)
MoveResultAsUnique(o) ==
  afterInvoke /\ Step(MarkUniqueNonNull(o, "L") /\ UNCHANGED arrays)

(* MOVE_RESULT_OBJECT after an invoke: a fresh name for whatever the        *)
(* callee returned, which is null or an object the callee could reach.     *)
MoveResult(o) ==
  afterInvoke /\ Step(DefineByKey(RegKey(Def), o, "L"))

MaxOf(a, b) == IF a > b THEN a ELSE b

(* IGET: null check of the base; a volatile (or unresolved, which the      *)
(* annotation marks volatile) field gets field id 0 and a new memory       *)
(* version, a resolved one max(unresolved_ifield_version_[type],           *)
(* GetMemoryVersion(base, field id, type)).  A null base throws and ends   *)
(* the block, so only the non-null case continues.                         *)
Iget(b, r) ==
  LET base == sregValue[b]
      vol == FieldKind[r] # "resolved"
      fid == IF vol THEN 0 ELSE GetFieldId(FieldOf[r])
      ver == IF vol THEN nextMemVersion
             ELSE MaxOf(unresolvedIfieldVersion, GetMemoryVersion(base, fid, 0))
      key == <<IGET, base, fid, ver>>
  IN /\ regs[b] # Null
     /\ Step(/\ HandleNullCheck(base)
             /\ IF vol THEN /\ nextMemVersion' = (nextMemVersion + 1) % 65536
                            /\ UNCHANGED fieldIndex
                       ELSE /\ PutFieldId(FieldOf[r])
                            /\ UNCHANGED nextMemVersion
             /\ LookupValue(key)
             /\ SetOperand(NameOf(key), heap[<<regs[b], FieldOf[r]>>], "I")
             /\ UNCHANGED <<memVersion, globalMemVersion, uniqueObjects,
                            unresolvedIfieldVersion, heap, arrays, statics, escaped,
                    uncheckedOob>>)

(* IPUT (int): null check of the base; an unresolved field bumps           *)
(* unresolved_ifield_version_[type], a resolved volatile one needs         *)
(* nothing, a resolved one gets a new memory version.                      *)
Iput(v, b, r) ==
  LET base == sregValue[b]
  IN /\ regs[b] # Null
     /\ Step(/\ HandleNullCheck(base)
             /\ CASE FieldKind[r] = "unresolved" ->
                       /\ unresolvedIfieldVersion' = nextMemVersion
                       /\ nextMemVersion' = (nextMemVersion + 1) % 65536
                       /\ UNCHANGED <<memVersion, fieldIndex>>
                  [] FieldKind[r] = "volatile" ->
                       UNCHANGED <<memVersion, nextMemVersion, fieldIndex,
                                   unresolvedIfieldVersion>>
                  [] OTHER ->
                       /\ PutFieldId(FieldOf[r])
                       /\ AdvanceMemoryVersion(base, GetFieldId(FieldOf[r]), 0)
                       /\ UNCHANGED unresolvedIfieldVersion
             /\ heap' = [heap EXCEPT ![<<regs[b], FieldOf[r]>>] = regs[v]]
             /\ UNCHANGED <<sregValue, wideValue, regs, regType, valueMap, lastValue,
                            globalMemVersion, uniqueObjects, arrays, statics,
                            escaped, uncheckedOob>>)

(* Another thread writes a volatile field of an object it can reach, in    *)
(* between two instructions of the block.                                   *)
RacyWrite(o, r, c) ==
  /\ FieldKind[r] = "volatile" /\ racyWrites < MaxRacyWrites
  /\ heap' = [heap EXCEPT ![<<o, FieldOf[r]>>] = c]
  /\ racyWrites' = racyWrites + 1
  /\ UNCHANGED <<lvn, pc, regs, regType, arrays, statics, escaped, afterInvoke,
                 uncheckedOob>>

(* SGET_OBJECT (type 1): key (SGET, NO_VALUE, field id, version).          *)
Sget(sf) ==
  LET fid == GetFieldId(sf)
      key == <<SGET, NO_VALUE, fid, GetMemoryVersion(NO_VALUE, fid, 1)>>
  IN Step(/\ PutFieldId(sf)
          /\ LookupValue(key)
          /\ SetOperand(NameOf(key), statics[sf], "L")
          /\ UNCHANGED <<memVersion, nextMemVersion, globalMemVersion,
                         nullChecked, uniqueObjects, unresolvedIfieldVersion,
                         heap, arrays, statics, escaped, uncheckedOob>>)

(* Fault-injected variant: SPUT_OBJECT without HandlePutObject.           *)
SputNoHandlePutObject(v, sf) ==
  Step(/\ UNCHANGED uniqueObjects
       /\ PutFieldId(sf)
       /\ AdvanceMemoryVersion(NO_VALUE, GetFieldId(sf), 1)
       /\ statics' = [statics EXCEPT ![sf] = regs[v]]
       /\ escaped' = escaped \cup ({regs[v]} \ {Null})
       /\ UNCHANGED <<sregValue, wideValue, regs, regType, valueMap, lastValue,
                      globalMemVersion, nullChecked, unresolvedIfieldVersion,
                      heap, arrays, uncheckedOob>>)

(* SPUT_OBJECT: HandlePutObject revokes uniqueness of the stored value,    *)
(* then the store advances the static field's memory version.             *)
Sput(v, sf) ==
  Step(/\ uniqueObjects' = uniqueObjects \ {sregValue[v]}
       /\ PutFieldId(sf)
       /\ AdvanceMemoryVersion(NO_VALUE, GetFieldId(sf), 1)
       /\ statics' = [statics EXCEPT ![sf] = regs[v]]
       /\ escaped' = escaped \cup ({regs[v]} \ {Null})
       /\ UNCHANGED <<sregValue, wideValue, regs, regType, valueMap, lastValue,
                      globalMemVersion, nullChecked, unresolvedIfieldVersion,
                      heap, arrays, uncheckedOob>>)

(* What a callee may do to memory it can reach: nothing, one int field     *)
(* write, or one static field write.                                        *)
CalleeEffect(E) ==
  \/ UNCHANGED <<heap, arrays, statics>>
  \/ \E o \in E, f \in IFields, c \in CalleeInts :
       heap' = [heap EXCEPT ![<<o, f>>] = c] /\ UNCHANGED <<arrays, statics>>
  \/ \E o \in E \cap DOMAIN arrays, c \in CalleeInts :
       \E k \in DOMAIN arrays[o] :
         arrays' = [arrays EXCEPT ![o][k] = c] /\ UNCHANGED <<heap, statics>>
  \/ \E sf \in SFields, o \in (E \ DOMAIN arrays) \cup {Null} :
       statics' = [statics EXCEPT ![sf] = o] /\ UNCHANGED <<heap, arrays>>

(* INVOKE_{DIRECT,VIRTUAL,SUPER,INTERFACE} null-check the receiver and     *)
(* fall through to INVOKE_STATIC: AdvanceGlobalMemory, MakeArgsNonUnique.  *)
Invoke(a, isStatic) ==
  LET E == escaped \cup ({regs[a]} \ {Null})
  IN /\ pc < MaxInsns
     /\ isStatic \/ regs[a] # Null
     /\ IF isStatic THEN UNCHANGED nullChecked
                    ELSE HandleNullCheck(sregValue[a])
     /\ AdvanceGlobalMemory
     /\ uniqueObjects' = uniqueObjects \ {sregValue[a]}
     /\ escaped' = E
     /\ CalleeEffect(E)
     /\ pc' = pc + 1
     /\ afterInvoke' = TRUE
     /\ UNCHANGED <<sregValue, wideValue, regs, regType, valueMap, lastValue, memVersion,
                    fieldIndex, unresolvedIfieldVersion, racyWrites, uncheckedOob>>

(* -------------------------------- arrays ------------------------------- *)

ArrRegs == {s \in DOMAIN regs : regType[s] = "A"}

(* Fault-injected variant: the range check is keyed on the array alone.    *)
RangeKeyNoIndex(array, index) == <<ARRAY_REF, array, NO_VALUE, NO_VALUE>>

(* HandleRangeCheck's key: a check whose key already has a value name is   *)
(* removed (MIR_IGNORE_RANGE_CHECK), and looking the key up records the    *)
(* check as done.                                                          *)
RangeKey(array, index) == <<ARRAY_REF, array, index, NO_VALUE>>

(* Does the access a[i] run?  A null array or an index out of bounds       *)
(* throws and ends the block, unless the check was removed, in which case  *)
(* the access runs unchecked.                                              *)
InBounds(a, i) == regs[i] \in 0..(Len(arrays[regs[a]]) - 1)
Runs(a, i) ==
  /\ regs[a] # Null
  /\ InBounds(a, i) \/ RangeKey(sregValue[a], sregValue[i]) \in DOMAIN valueMap

(* NEW_ARRAY: MarkUniqueNonNull, like NEW_INSTANCE; the size is not read   *)
(* by LVN.  A negative size throws.                                        *)
NewArray(n) ==
  /\ regs[n] \in 0..MaxArrayLen
  /\ Step(/\ MarkUniqueNonNull(Fresh, "A")
          /\ arrays' = arrays @@ (Fresh :> [k \in 1..regs[n] |-> 0]))

(* FILLED_NEW_ARRAY {a, b} followed by MOVE_RESULT_OBJECT: the first marks *)
(* the second's result unique and non-null and makes its arguments         *)
(* non-unique; the second takes the name already given to its sreg.        *)
FilledNewArray(a, b) ==
  /\ pc + 2 <= MaxInsns
  /\ MarkUniqueNonNull(Fresh, "A")
  /\ arrays' = arrays @@ (Fresh :> <<regs[a], regs[b]>>)
  /\ pc' = pc + 2 /\ afterInvoke' = FALSE
  /\ UNCHANGED racyWrites

(* ARRAY_LENGTH: res = op + 1 operand; LVN does not handle its null check. *)
ArrayLength(a) ==
  /\ regs[a] # Null
  /\ Step(DefineByKey(<<ARRAY_LENGTH, sregValue[a], NO_VALUE, NO_VALUE>>,
                      Len(arrays[regs[a]]), "I"))

(* AGET (int, type 0): HandleNullCheck, HandleRangeCheck, then the key     *)
(* (ARRAY_REF, array, index, GetMemoryVersion(array, NO_VALUE, type)).     *)
Aget(a, i) ==
  LET array == sregValue[a]
      index == sregValue[i]
      key == <<ARRAY_REF, array, index, GetMemoryVersion(array, NO_VALUE, 0)>>
      r == Interned(valueMap, lastValue, <<RangeKey(array, index), key>>)
  IN /\ Runs(a, i)
     /\ Step(/\ HandleNullCheck(array)
             /\ valueMap' = r[1] /\ lastValue' = r[2]
             /\ SetOperand(r[1][key],
                           IF InBounds(a, i) THEN arrays[regs[a]][regs[i] + 1] ELSE 0, "I")
             /\ uncheckedOob' = (uncheckedOob \/ ~InBounds(a, i))
             /\ UNCHANGED <<memVersion, nextMemVersion, globalMemVersion,
                            uniqueObjects, fieldIndex, unresolvedIfieldVersion,
                            heap, arrays, statics, escaped>>)

(* APUT (int): HandleNullCheck, HandleRangeCheck, then                     *)
(* AdvanceMemoryVersion(array, NO_VALUE, type).                            *)
Aput(v, a, i) ==
  LET array == sregValue[a]
  IN /\ Runs(a, i)
     /\ Step(/\ HandleNullCheck(array)
             /\ LookupValue(RangeKey(array, sregValue[i]))
             /\ AdvanceMemoryVersion(array, NO_VALUE, 0)
             /\ arrays' = IF InBounds(a, i)
                          THEN [arrays EXCEPT ![regs[a]][regs[i] + 1] = regs[v]]
                          ELSE arrays
             /\ uncheckedOob' = (uncheckedOob \/ ~InBounds(a, i))
             /\ UNCHANGED <<sregValue, wideValue, regs, regType, globalMemVersion,
                            uniqueObjects, fieldIndex, unresolvedIfieldVersion,
                            heap, statics, escaped>>)

(* ------------------------------ wide values ---------------------------- *)

(* A long at run time is four 16-bit halfwords, lowest first: TLC's        *)
(* integers are 32 bits wide.                                               *)
INT_TO_LONG == 129
CMP_LONG == 49
ADD_LONG == 155

WideRegs == {s \in DOMAIN regs : regType[s] = "J"}

(* SetOperandValueWide for the defined sreg, plus the long it executes to. *)
SetOperandWide(names, val) ==
  /\ wideValue' = names
  /\ regs' = regs @@ (Def :> val)
  /\ regType' = regType @@ (Def :> "J")
  /\ UNCHANGED sregValue

NoMemoryEffect ==
  UNCHANGED <<memVersion, nextMemVersion, globalMemVersion, nullChecked,
              uniqueObjects, fieldIndex, unresolvedIfieldVersion,
              heap, arrays, statics, escaped, uncheckedOob>>

(* The three LookupValue calls of a wide constant: the low word's key,     *)
(* the high word's key, then (CONST, low_res, high_res, 3).                *)
WideConst(lowKey, highKey, val) ==
  LET r1 == Interned(valueMap, lastValue, <<lowKey, highKey>>)
      key == <<CONST, r1[1][lowKey], r1[1][highKey], 3>>
      r2 == Interned(r1[1], r1[2], <<key>>)
  IN Step(/\ valueMap' = r2[1] /\ lastValue' = r2[2]
          /\ SetOperandWide(wideValue @@ (Def :> r2[1][key]), val)
          /\ NoMemoryEffect)

(* Fault-injected variant: the sign of vB is not tested, the high word is  *)
(* always keyed as zero.                                                   *)
ConstWide32NoSign(v) ==
  WideConst(<<CONST, v[1], High16Bits(v[2]), 1>>, <<CONST, 0, 0, 2>>,
            <<v[1], v[2], IF v[2] >= 32768 THEN 65535 ELSE 0,
                          IF v[2] >= 32768 THEN 65535 ELSE 0>>)

(* CONST_WIDE_16, CONST_WIDE_32: vB, the literal sign-extended to 32 bits *)
(* and given as its two halfwords, is sign-extended again to 64.  The low *)
(* key takes High16Bits(vB >> 16), like CONST; the high key is all ones   *)
(* when bit 31 of vB is set, zero otherwise.                                *)
ConstWide32(v) ==
  LET neg == v[2] >= 32768
      ext == IF neg THEN 65535 ELSE 0
  IN WideConst(<<CONST, v[1], High16Bits(v[2]), 1>>,
               IF neg THEN <<CONST, 65535, 65535, 2>> ELSE <<CONST, 0, 0, 2>>,
               <<v[1], v[2], ext, ext>>)

(* CONST_WIDE vB_wide: each 32-bit word keyed by its two halfwords.        *)
ConstWide(v) ==
  WideConst(<<CONST, v[1], v[2], 1>>, <<CONST, v[3], v[4], 2>>, v)

(* CONST_WIDE_HIGH16 vB loads vB << 48.                                     *)
ConstWideHigh16(v) ==
  WideConst(<<CONST, 0, 0, 1>>, <<CONST, 0, Low16Bits(v), 2>>, <<0, 0, 0, v>>)

(* MOVE_WIDE: copy the wide value name of the source.                       *)
MoveWide(w) ==
  Step(/\ SetOperandWide(wideValue @@ (Def :> wideValue[w]), regs[w])
       /\ UNCHANGED <<valueMap, lastValue>> /\ NoMemoryEffect)

(* MOVE_RESULT_WIDE after an invoke: GetOperandValueWide of its own def,   *)
(* a first use, names it by the key (NO_VALUE, sreg).                       *)
MoveResultWide(v) ==
  afterInvoke
  /\ Step(/\ LookupValue(RegKey(Def))
          /\ SetOperandWide(wideValue @@ (Def :> NameOf(RegKey(Def))), v)
          /\ NoMemoryEffect)

(* INT_TO_LONG reads its int operand with GetOperandValueWide: on first   *)
(* use the operand's sreg is named by the key (NO_VALUE, sreg) in the wide *)
(* map, then res = LookupValue(INT_TO_LONG, operand1, NO_VALUE, NO_VALUE). *)
IntToLong(a) ==
  LET w == wideValue @@ (a :> NameOf(RegKey(a)))
      r == Interned(valueMap, lastValue, <<RegKey(a)>>)
      m == IF a \in DOMAIN wideValue THEN <<valueMap, lastValue>> ELSE r
      key == <<INT_TO_LONG, w[a], NO_VALUE, NO_VALUE>>
      r2 == Interned(m[1], m[2], <<key>>)
      x == regs[a]
      ext == IF x < 0 THEN 65535 ELSE 0
  IN Step(/\ valueMap' = r2[1] /\ lastValue' = r2[2]
          /\ SetOperandWide(w @@ (Def :> r2[1][key]),
                            <<Low16Bits(x), High16Bits(x), ext, ext>>)
          /\ NoMemoryEffect)

(* 64-bit addition of two halfword sequences, carrying upwards.             *)
RECURSIVE AddHalves(_, _, _, _)
AddHalves(x, y, i, carry) ==
  IF i > 4 THEN <<>>
  ELSE LET t == x[i] + y[i] + carry
       IN <<t % 65536>> \o AddHalves(x, y, i + 1, t \div 65536)

(* ADD_LONG: wide res = op + 2 wide operands.                               *)
AddLong(a, b) ==
  LET key == <<ADD_LONG, wideValue[a], wideValue[b], NO_VALUE>>
      r == Interned(valueMap, lastValue, <<key>>)
  IN Step(/\ valueMap' = r[1] /\ lastValue' = r[2]
          /\ SetOperandWide(wideValue @@ (Def :> r[1][key]),
                            AddHalves(regs[a], regs[b], 1, 0))
          /\ NoMemoryEffect)

(* The signed value of a long's top halfword, and the signed order of two *)
(* longs: top halfwords first, then the lower ones unsigned.               *)
SignedTop(x) == IF x[4] >= 32768 THEN x[4] - 65536 ELSE x[4]
LongLess(x, y) ==
  \/ SignedTop(x) < SignedTop(y)
  \/ SignedTop(x) = SignedTop(y) /\ <<x[3], x[2], x[1]>> # <<y[3], y[2], y[1]>>
     /\ \E i \in 1..3 : x[i] < y[i] /\ \A j \in (i + 1)..3 : x[j] = y[j]

(* CMP_LONG: res = op + 2 wide operands, an int: -1, 0 or 1.                *)
CmpLong(a, b) ==
  Step(DefineByKey(<<CMP_LONG, wideValue[a], wideValue[b], NO_VALUE>>,
                   CASE LongLess(regs[a], regs[b]) -> -1
                     [] regs[a] = regs[b] -> 0
                     [] OTHER -> 1, "I"))

Next ==
  \/ \E v \in ConstVals : Const(v)
  \/ \E v \in High16Vals : ConstHigh16(v)
  \/ \E a, b \in IntRegs : AddInt(a, b)
  \/ \E a \in IntRegs, lit \in LitVals : AddIntLit8(a, lit)
  \/ \E a \in DOMAIN sregValue : Move(a)
  \/ \E o \in ExceptionObjs : MoveException(o)
  \/ NewInstance
  \/ \E o \in (escaped \ DOMAIN arrays) \cup {Null} : MoveResult(o)
  \/ \E b \in RefRegs, r \in IFieldRefs : Iget(b, r)
  \/ \E v \in IntRegs, b \in RefRegs, r \in IFieldRefs : Iput(v, b, r)
  \/ \E o \in escaped \ DOMAIN arrays, r \in IFieldRefs, c \in CalleeInts :
       RacyWrite(o, r, c)
  \/ \E sf \in SFields : Sget(sf)
  \/ \E v \in RefRegs, sf \in SFields : Sput(v, sf)
  \/ \E a \in RefRegs \cup ArrRegs, isStatic \in BOOLEAN : Invoke(a, isStatic)
  \/ \E n \in IntRegs : NewArray(n)
  \/ \E a, b \in IntRegs : FilledNewArray(a, b)
  \/ \E a \in ArrRegs : ArrayLength(a)
  \/ \E a \in ArrRegs, i \in IntRegs : Aget(a, i)
  \/ \E v, i \in IntRegs, a \in ArrRegs : Aput(v, a, i)
  \/ \E v \in Wide32Vals : ConstWide32(v)
  \/ \E v \in WideVals : ConstWide(v)
  \/ \E v \in WideHigh16Vals : ConstWideHigh16(v)
  \/ \E w \in WideRegs : MoveWide(w)
  \/ \E v \in CalleeLongs : MoveResultWide(v)
  \/ \E a \in IntRegs : IntToLong(a)
  \/ \E a, b \in WideRegs : AddLong(a, b) \/ CmpLong(a, b)

Spec == Init /\ [][Next]_vars

(* ------------------------------ properties ----------------------------- *)

Sregs == 1..(NumArgs + MaxInsns)

TypeOK ==
  /\ pc \in 0..MaxInsns
  /\ \E n \in NumArgs..(NumArgs + pc) : DOMAIN regs = 1..n
  /\ DOMAIN sregValue = DOMAIN regs \ WideRegs
  /\ WideRegs \subseteq DOMAIN wideValue
  /\ \A s \in DOMAIN regs : regType[s] \in {"I", "L", "A", "J"}
  /\ \A s \in IntRegs : regs[s] \in Int
  /\ \A s \in WideRegs : regs[s] \in Halves(4)
  /\ \A s \in RefRegs : regs[s] \in (AllObjs \ DOMAIN arrays) \cup {Null}
  /\ \A s \in ArrRegs : regs[s] \in DOMAIN arrays \cup {Null}
  /\ DOMAIN arrays \subseteq AllObjs
  /\ \A o \in DOMAIN arrays : \A k \in DOMAIN arrays[o] : arrays[o][k] \in Int
  /\ nullChecked \cup uniqueObjects \subseteq 0..NO_VALUE
  /\ escaped \subseteq AllObjs
  /\ nextMemVersion > globalMemVersion
  /\ nextMemVersion > unresolvedIfieldVersion
  /\ racyWrites \in 0..MaxRacyWrites

(* Value soundness, the contract of GetValueNumber: two registers that     *)
(* get the same value name hold the same value at run time, whatever      *)
(* the memory writes, calls and aliasing in between; and the same for     *)
(* wide registers, whose names come from sreg_wide_value_map_ and whose    *)
(* constants are keyed half by half.                                       *)
ValueSound ==
  /\ \A s1, s2 \in DOMAIN sregValue :
       sregValue[s1] = sregValue[s2] => regs[s1] = regs[s2]
  /\ \A s1, s2 \in WideRegs :
       wideValue[s1] = wideValue[s2] => regs[s1] = regs[s2]

(* HandleNullCheck elides the check of a base whose name is in             *)
(* null_checked_: every register carrying such a name is non-null.         *)
NullCheckSound ==
  \A s \in DOMAIN sregValue : sregValue[s] \in nullChecked => regs[s] # Null

(* GetMemoryVersion ignores aliased and global versions for a name in      *)
(* unique_objects_: such a name denotes an object that no code outside    *)
(* the block can reach and that no register of another name holds.        *)
UniqueSound ==
  \A s \in DOMAIN sregValue :
    sregValue[s] \in uniqueObjects =>
      /\ regs[s] \notin escaped
      /\ \A s2 \in DOMAIN sregValue : regs[s2] = regs[s] => sregValue[s2] = sregValue[s]

(* HandleRangeCheck removes the range check of an AGET or APUT whose      *)
(* (array name, index name) pair was checked before: no access whose check *)
(* was removed ever runs outside the array.                                *)
RangeCheckSound == ~uncheckedOob

====
