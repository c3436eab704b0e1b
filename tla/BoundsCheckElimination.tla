---------------------- MODULE BoundsCheckElimination ----------------------
(***************************************************************************)
(* The value-range algebra of compiler/optimizing/                         *)
(* bounds_check_elimination.h (ValueBound, ValueRange,                     *)
(* MonotonicValueRange) applied to a counted loop                          *)
(*                                                                         *)
(*     for (int i = init; i <cond> y; i += increment) { ... a[i] ... }      *)
(*                                                                         *)
(* The phi of i gets a MonotonicValueRange, the loop condition a          *)
(* ValueRange, and the body the Narrow of the two.  The loop is executed   *)
(* on concrete W-bit two's-complement integers (Java int arithmetic,       *)
(* narrowed from 32 bits: the header uses only INT_MIN and INT_MAX, never  *)
(* the width itself), so every overflow edge is within reach.              *)
(***************************************************************************)
EXTENDS Integers

CONSTANTS
  W,          \* bits of an int
  Lens,       \* lengths an array may have
  InitConsts, \* int constants a loop may start from
  CondConsts, \* int constants a loop condition may compare with
  XVals,      \* values the other int instruction may have
  Incs,       \* loop increments
  AddConsts   \* constants c of an index expression i + c

INT_MIN == -(2 ^ (W - 1))
INT_MAX == 2 ^ (W - 1) - 1
Int32 == INT_MIN..INT_MAX

ASSUME /\ W \in 3..8 /\ Lens \subseteq 0..INT_MAX
       /\ InitConsts \cup CondConsts \cup XVals \cup AddConsts \subseteq Int32
       /\ Incs \subseteq Int32 \ {0}

(* Two's-complement wrap of a mathematical result to an int.               *)
Wrap(x) == ((x - INT_MIN) % (2 ^ W)) + INT_MIN

MaxOf(a, b) == IF a >= b THEN a ELSE b
MinOf(a, b) == IF a <= b THEN a ELSE b

(* ------------------------------ instructions --------------------------- *)
(* Instructions a bound may refer to: an int constant, the ArrayLength of  *)
(* the accessed array, and some other int-valued instruction x.  Nil       *)
(* stands for the null HInstruction* of a constant bound.                  *)
Nil == [kind |-> "nil", val |-> 0]
IntConstant(k) == [kind |-> "const", val |-> k]
ArrayLength == [kind |-> "len", val |-> 0]
OtherValue == [kind |-> "x", val |-> 0]

(* --------------------------------- ValueBound -------------------------- *)

Bound(ins, c) == [ins |-> ins, c |-> c]

(* C++ int addition of the constant folding is Wrap'ped, as the build does. *)
MakeValueBound(ins, c) ==
  IF ins.kind = "const" THEN Bound(Nil, Wrap(ins.val + c)) ELSE Bound(ins, c)

IsRelativeToArrayLength(b) == b.ins.kind = "len"
IsConstant(b) == b.ins = Nil
BoundIsUseful(b) == b.c # INT_MAX /\ b.c # INT_MIN
MinBound == Bound(Nil, INT_MIN)
MaxBound == Bound(Nil, INT_MAX)
Equals(b1, b2) == b1.ins = b2.ins /\ b1.c = b2.c

GreaterThanOrEqual(b1, b2) ==
  b1.ins = b2.ins /\ b1.ins = Nil /\ b1.c >= b2.c

(* Fault-injected variant: the NewArray case forgets bound's constant.    *)
LessThanOrEqualNoOffset(b1, b2, arrayNewLen) ==
  IF b1.ins = b2.ins /\ b1.ins = Nil THEN b1.c <= b2.c
  ELSE IF b1.ins = b2.ins /\ IsRelativeToArrayLength(b1)
            /\ b1.c <= 0 /\ b2.c <= 0 THEN b1.c <= b2.c
  ELSE IsConstant(b1) /\ IsRelativeToArrayLength(b2) /\ arrayNewLen >= 0
       /\ b1.c <= arrayNewLen

(* The array length is known when the array is a NewArray of a constant;  *)
(* arrayNewLen is that constant, or -1 for an array of unknown origin.     *)
LessThanOrEqual(b1, b2, arrayNewLen) ==
  IF b1.ins = b2.ins /\ b1.ins = Nil THEN b1.c <= b2.c
  ELSE IF b1.ins = b2.ins /\ IsRelativeToArrayLength(b1)
            /\ b1.c <= 0 /\ b2.c <= 0 THEN b1.c <= b2.c
  ELSE IsConstant(b1) /\ IsRelativeToArrayLength(b2) /\ arrayNewLen >= 0
       /\ b1.c <= Wrap(arrayNewLen + b2.c)

NarrowLowerBound(b1, b2) ==
  IF b1.ins = b2.ins THEN Bound(b2.ins, MaxOf(b1.c, b2.c))
  ELSE IF IsConstant(b2) THEN b2 ELSE b1

NarrowUpperBound(b1, b2) ==
  IF b1.ins = b2.ins THEN Bound(b1.ins, MinOf(b1.c, b2.c))
  ELSE IF IsRelativeToArrayLength(b2) THEN b2 ELSE b1

(* Fault-injected variant: the constant part is added without saturating. *)
BoundAddNoSaturation(b, c) == Bound(b.ins, b.c + c)

BoundAdd(b, c) ==
  CASE c = 0 -> b
    [] c > 0 -> Bound(b.ins, IF b.c >= INT_MAX - c THEN INT_MAX ELSE b.c + c)
    [] OTHER -> Bound(b.ins, IF b.c <= INT_MIN - c THEN INT_MIN ELSE b.c + c)

(* ------------------------- ValueRange, MonotonicValueRange ------------- *)
(* A range is [lower, upper, increment]; increment 0 is a plain ValueRange, *)
(* any other a MonotonicValueRange.  NoRange is the null ValueRange*.       *)

NoRange == [lower |-> MinBound, upper |-> MaxBound, increment |-> 0, none |-> TRUE]
ValueRange(lo, up) == [lower |-> lo, upper |-> up, increment |-> 0, none |-> FALSE]

(* The constructor's DCHECKs: an increasing range has upper INT_MAX, a     *)
(* decreasing one lower INT_MIN.                                            *)
MonotonicValueRange(lo, up, inc) ==
  [lower |-> lo, upper |-> up, increment |-> inc, none |-> FALSE]

IsMonotonic(r) == ~r.none /\ r.increment # 0

RangeIsUseful(r) ==
  IsMonotonic(r) \/ r.lower.c # INT_MIN \/ r.upper.c # INT_MAX

FitsIn(r, other, arrayNewLen) ==
  CASE other.none -> TRUE
    [] IsMonotonic(r) ->
         IsMonotonic(other) /\ Equals(r.lower, other.lower)
         /\ r.increment = other.increment
    [] IsMonotonic(other) -> FALSE
    [] OTHER -> GreaterThanOrEqual(r.lower, other.lower)
                /\ LessThanOrEqual(r.upper, other.upper, arrayNewLen)

(* Fault-injected variant: the increasing case does not leave room for    *)
(* the increment below INT_MAX.                                            *)
MonotonicNarrowNoOverflowCheck(r, range) ==
  IF r.increment > 0 THEN
    LET lower == NarrowLowerBound(r.lower, range.lower)
        up == range.upper
    IN CASE ~BoundIsUseful(up) -> r
         [] IsConstant(up) -> ValueRange(lower, up)
         [] IsRelativeToArrayLength(up) /\ BoundAdd(up, r.increment).c <= 0 ->
              ValueRange(lower, up)
         [] OTHER -> range
  ELSE
    LET upper == NarrowUpperBound(r.upper, range.upper)
        lo == range.lower
    IN CASE ~BoundIsUseful(lo) -> r
         [] IsConstant(lo) /\ lo.c >= INT_MIN - r.increment -> ValueRange(lo, upper)
         [] OTHER -> range

(* MonotonicValueRange::Narrow: keep the monotonic lower (upper) bound only *)
(* when i + increment cannot overflow (underflow) below range's bound.      *)
MonotonicNarrow(r, range) ==
  IF r.increment > 0 THEN
    LET lower == NarrowLowerBound(r.lower, range.lower)
        up == range.upper
    IN CASE ~BoundIsUseful(up) -> r
         [] IsConstant(up) /\ up.c <= INT_MAX - r.increment -> ValueRange(lower, up)
         [] IsRelativeToArrayLength(up) /\ BoundAdd(up, r.increment).c <= 0 ->
              ValueRange(lower, up)
         [] OTHER -> range
  ELSE
    LET upper == NarrowUpperBound(r.upper, range.upper)
        lo == range.lower
    IN CASE ~BoundIsUseful(lo) -> r
         [] IsConstant(lo) /\ lo.c >= INT_MIN - r.increment -> ValueRange(lo, upper)
         [] OTHER -> range

Narrow(r, range) ==
  CASE range.none -> r
    [] IsMonotonic(r) -> MonotonicNarrow(r, range)
    [] IsMonotonic(range) -> r
    [] OTHER -> ValueRange(NarrowLowerBound(r.lower, range.lower),
                           NarrowUpperBound(r.upper, range.upper))

RangeAdd(r, c) ==
  CASE r.increment > 0 ->
         MonotonicValueRange(BoundAdd(r.lower, c), r.upper, r.increment)
    [] r.increment < 0 ->
         MonotonicValueRange(r.lower, BoundAdd(r.lower, c), r.increment)
    [] OTHER -> ValueRange(BoundAdd(r.lower, c), BoundAdd(r.upper, c))

(* ------------------------------- the loop ------------------------------ *)

VARIABLES
  len,      \* the array's length
  newLen,   \* len when the array is a NewArray of a constant, else -1
  x,        \* value of the other int instruction
  init,     \* instruction i starts from
  op,       \* comparison of the loop condition: "<", "<=", ">" or ">="
  y,        \* instruction the condition compares i with
  inc,      \* increment of i
  i,        \* the loop variable
  phase     \* "head", "body", "inner" (in if (i < a.length)), "exit"

vars == <<len, newLen, x, init, op, y, inc, i, phase>>

Eval(ins) ==
  CASE ins.kind = "const" -> ins.val
    [] ins.kind = "len" -> len
    [] ins.kind = "x" -> x
    [] OTHER -> 0

(* The integers a bound and a range denote (a bound is exact arithmetic:   *)
(* instruction value plus constant).                                       *)
Val(b) == Eval(b.ins) + b.c
InRange(v, r) == r.none \/ (Val(r.lower) <= v /\ v <= Val(r.upper))

Operands == {IntConstant(k) : k \in CondConsts} \cup {ArrayLength, OtherValue}

(* The range of the phi of i: monotonic from its initial value.            *)
PhiRange ==
  IF inc > 0 THEN MonotonicValueRange(MakeValueBound(init, 0), MaxBound, inc)
  ELSE MonotonicValueRange(MinBound, MakeValueBound(init, 0), inc)

(* The range the loop condition gives i in the loop body.                   *)
CondRange ==
  CASE op = "<" -> ValueRange(MinBound, MakeValueBound(y, -1))
    [] op = "<=" -> ValueRange(MinBound, MakeValueBound(y, 0))
    [] op = ">" -> ValueRange(MakeValueBound(y, 1), MaxBound)
    [] OTHER -> ValueRange(MakeValueBound(y, 0), MaxBound)

Holds(v) ==
  CASE op = "<" -> v < Eval(y)
    [] op = "<=" -> v <= Eval(y)
    [] op = ">" -> v > Eval(y)
    [] OTHER -> v >= Eval(y)

BodyRange == Narrow(PhiRange, CondRange)

(* Inside if (i < a.length) the body range is narrowed once more.           *)
InnerRange == Narrow(BodyRange, ValueRange(MinBound, MakeValueBound(ArrayLength, -1)))

CurRange == IF phase = "inner" THEN InnerRange ELSE BodyRange

(* The range a bounds check on a[i] needs i to fit in: [0, length - 1].     *)
ArrayRange == ValueRange(Bound(Nil, 0), MakeValueBound(ArrayLength, -1))

Init ==
  /\ len \in Lens
  /\ newLen \in {len, -1}
  /\ x \in XVals
  /\ init \in {IntConstant(k) : k \in InitConsts} \cup {ArrayLength, OtherValue}
  /\ inc \in Incs
  /\ op \in IF inc > 0 THEN {"<", "<="} ELSE {">", ">="}
  /\ y \in Operands
  /\ i = Eval(init)
  /\ phase = "head"

EnterBody == phase = "head" /\ Holds(i) /\ phase' = "body"
               /\ UNCHANGED <<len, newLen, x, init, op, y, inc, i>>

ExitLoop == phase = "head" /\ ~Holds(i) /\ phase' = "exit"
              /\ UNCHANGED <<len, newLen, x, init, op, y, inc, i>>

EnterInner == phase = "body" /\ i < len /\ phase' = "inner"
                /\ UNCHANGED <<len, newLen, x, init, op, y, inc, i>>

Increment == phase \in {"body", "inner"} /\ i' = Wrap(i + inc) /\ phase' = "head"
               /\ UNCHANGED <<len, newLen, x, init, op, y, inc>>

Next == EnterBody \/ ExitLoop \/ EnterInner \/ Increment

Spec == Init /\ [][Next]_vars

(* ------------------------------ properties ----------------------------- *)

TypeOK ==
  /\ i \in Int32 /\ x \in Int32 /\ len \in Lens /\ newLen \in {len, -1}
  /\ phase \in {"head", "body", "inner", "exit"}
  /\ ~CurRange.none
  /\ \A r \in {CurRange, PhiRange} \cup {RangeAdd(CurRange, c) : c \in AddConsts} :
       {r.lower.c, r.upper.c} \subseteq Int32

(* The range BCE derives for i where the body runs (Narrow of the phi's    *)
(* MonotonicValueRange with the loop condition, and with i < a.length      *)
(* inside the inner if) contains the value i has there.                    *)
BodySound == phase \in {"body", "inner"} => InRange(i, CurRange)

(* A bounds check on a[i] is removed when i's range FitsIn [0, length-1];   *)
(* every access whose check would be removed is in bounds.                 *)
CheckRemovalSound ==
  phase \in {"body", "inner"} /\ FitsIn(CurRange, ArrayRange, newLen)
    => 0 <= i /\ i < len

====
