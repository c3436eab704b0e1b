---------------------------- MODULE MirrorString ----------------------------
(***************************************************************************)
(* runtime/mirror/string.cc: the C++ mirror of java.lang.String.          *)
(*                                                                         *)
(* Two parts.  The lazily cached hash code: hash_code_ starts at 0 and     *)
(* GetHashCode computes and stores it on first use, with any number of    *)
(* threads calling it on the same string at once (plain 32-bit loads and  *)
(* stores, no lock).  And the operations that read a string's chars:     *)
(* CompareTo, FastIndexOf, the Equals overloads on a String and on a     *)
(* UTF-16 buffer, and the char decoding of AllocFromByteArray.  Each call *)
(* is one step that records its arguments and result in `last', and the  *)
(* properties compare the result with the definition java.lang.String    *)
(* documents.                                                              *)
(*                                                                         *)
(* Chars are uint16 values, int32 values are TLC integers (they fit), and *)
(* the 32-bit hash is computed as two 16-bit halves so that no           *)
(* intermediate value leaves TLC's range.                                  *)
(***************************************************************************)
EXTENDS Integers, Sequences, FiniteSets

CONSTANTS
  Chars,        \* uint16 code units strings are made of
  MaxLen,       \* longest string an operation is called on
  Objs,         \* String objects whose hash code threads ask for
  Value,        \* Objs -> their chars
  Threads,      \* threads calling GetHashCode
  MaxCalls,     \* GetHashCode calls per thread
  Starts,       \* start arguments of FastIndexOf
  SearchChars,  \* ch arguments of FastIndexOf (int32)
  Bytes,        \* Java bytes of AllocFromByteArray's array
  HighBytes,    \* high_byte arguments of AllocFromByteArray
  DebugBuild    \* kIsDebugBuild: DCHECKs are compiled in

ASSUME /\ Chars \subseteq 0..65535 /\ MaxLen \in Nat
       /\ \A o \in Objs : Value[o] \in Seq(Chars)
       /\ Bytes \subseteq -128..127 /\ HighBytes \subseteq -8388608..8388607
       /\ MaxCalls \in Nat /\ DebugBuild \in BOOLEAN

Strs == UNION {[1..n -> Chars] : n \in 0..MaxLen}

NoCall == [op |-> "none", args |-> <<>>, res |-> 0]

(* The runtime is running, or has aborted: a failed DCHECK of a thread, or *)
(* a SIGSEGV in runtime code.                                              *)
NoCrash == [cause |-> "none", by |-> "none"]

VARIABLES
  hashCode,    \* String::hash_code_ of each object
  pc,          \* where each thread is in GetHashCode
  obj,         \* the object each thread called GetHashCode on
  result,      \* GetHashCode's local `result'
  calls,       \* GetHashCode calls each thread has made
  returned,    \* what each thread's last GetHashCode returned, with its object
  last,        \* the last pure call: op, args, result
  storer,      \* the thread whose SetHashCode stored each hash_code_ (ghost)
  crash        \* NoCrash, or why and where the runtime aborted

vars == <<hashCode, pc, obj, result, calls, returned, last, storer, crash>>

(* ------------------------------ hash code ------------------------------ *)

(* One step of ComputeUtf16Hash, hash = hash * 31 + c in uint32, on the    *)
(* pair <<high 16 bits, low 16 bits>>.                                      *)
HashStep(h, c) ==
  LET lo == 31 * h[2] + c
  IN <<(31 * h[1] + lo \div 65536) % 65536, lo % 65536>>

RECURSIVE HashPair(_, _)
HashPair(h, s) == IF s = <<>> THEN h ELSE HashPair(HashStep(h, Head(s)), Tail(s))

(* ComputeUtf16Hash(chars, count) as the int32 it returns.                 *)
ComputeUtf16Hash(s) ==
  LET p == HashPair(<<0, 0>>, s)
  IN IF p[1] >= 32768 THEN (p[1] - 65536) * 65536 + p[2] ELSE p[1] * 65536 + p[2]

Init ==
  /\ hashCode = [o \in Objs |-> 0]
  /\ pc = [t \in Threads |-> "idle"]
  /\ obj = [t \in Threads |-> CHOOSE o \in Objs : TRUE]
  /\ result = [t \in Threads |-> 0]
  /\ calls = [t \in Threads |-> 0]
  /\ returned = [t \in Threads |-> <<>>]
  /\ last = NoCall
  /\ storer = [o \in Objs |-> "none"]
  /\ crash = NoCrash

Running == crash = NoCrash

Hashing == <<hashCode, pc, obj, result, calls, returned, storer>>

(* Fault-injected variant: the computed hash is not looked at.             *)
GetHashCodeReadAlwaysCompute(t, o) ==
  /\ Running /\ pc[t] = "idle" /\ calls[t] < MaxCalls
  /\ obj' = [obj EXCEPT ![t] = o]
  /\ result' = [result EXCEPT ![t] = hashCode[o]]
  /\ pc' = [pc EXCEPT ![t] = "compute"]
  /\ calls' = [calls EXCEPT ![t] = @ + 1]
  /\ last' = NoCall
  /\ UNCHANGED <<hashCode, returned, storer, crash>>

(* GetHashCode: result = GetField32(hash_code_); a 0 means not computed.  *)
GetHashCodeRead(t, o) ==
  /\ Running /\ pc[t] = "idle" /\ calls[t] < MaxCalls
  /\ obj' = [obj EXCEPT ![t] = o]
  /\ result' = [result EXCEPT ![t] = hashCode[o]]
  /\ pc' = [pc EXCEPT ![t] = IF hashCode[o] = 0 THEN "compute" ELSE "reread"]
  /\ calls' = [calls EXCEPT ![t] = @ + 1]
  /\ last' = NoCall
  /\ UNCHANGED <<hashCode, returned, storer, crash>>

(* SetHashCode: DCHECK_EQ(0, hash_code_), which aborts the runtime in a    *)
(* debug build, then the store.                                            *)
SetHashCode(t, new_hash_code) ==
  IF DebugBuild /\ hashCode[obj[t]] # 0
    THEN /\ crash' = [cause |-> "dcheck", by |-> t]
         /\ UNCHANGED <<hashCode, pc, storer>>
    ELSE /\ hashCode' = [hashCode EXCEPT ![obj[t]] = new_hash_code]
         /\ storer' = [storer EXCEPT ![obj[t]] = t]
         /\ pc' = [pc EXCEPT ![t] = "reread"]
         /\ UNCHANGED crash

(* Fault-injected variant: the hash of all chars but the last.             *)
ComputeHashCodeShort(t) ==
  /\ Running /\ pc[t] = "compute"
  /\ SetHashCode(t, ComputeUtf16Hash(SubSeq(Value[obj[t]], 1, Len(Value[obj[t]]) - 1)))
  /\ last' = NoCall
  /\ UNCHANGED <<obj, result, calls, returned>>

(* ComputeHashCode: SetHashCode(ComputeUtf16Hash(GetValue(), GetCount())). *)
ComputeHashCode(t) ==
  /\ Running /\ pc[t] = "compute"
  /\ SetHashCode(t, ComputeUtf16Hash(Value[obj[t]]))
  /\ last' = NoCall
  /\ UNCHANGED <<obj, result, calls, returned>>

(* Fault-injected variant: the value of the first read is returned.        *)
GetHashCodeReturnStale(t) ==
  /\ Running /\ pc[t] = "reread"
  /\ returned' = [returned EXCEPT ![t] = <<obj[t], result[t]>>]
  /\ pc' = [pc EXCEPT ![t] = "idle"]
  /\ last' = NoCall
  /\ UNCHANGED <<hashCode, obj, result, calls, storer, crash>>

(* GetHashCode: result = GetField32(hash_code_) again, and return it.      *)
GetHashCodeReturn(t) ==
  /\ Running /\ pc[t] = "reread"
  /\ result' = [result EXCEPT ![t] = hashCode[obj[t]]]
  /\ returned' = [returned EXCEPT ![t] = <<obj[t], hashCode[obj[t]]>>]
  /\ pc' = [pc EXCEPT ![t] = "idle"]
  /\ last' = NoCall
  /\ UNCHANGED <<hashCode, obj, calls, storer, crash>>

(* ------------------------------ char reads ----------------------------- *)

(* String::CharAt: an index outside [0, count_) throws                      *)
(* StringIndexOutOfBoundsException and returns 0.                          *)
CharAt(s, i) == IF i < 0 \/ i >= Len(s) THEN 0 ELSE s[i + 1]

(* The scan of FastIndexOf from p to end: the offset of the first char     *)
(* equal to ch (an int32, compared with the uint16 char without             *)
(* truncation), or -1.                                                      *)
RECURSIVE ScanFrom(_, _, _)
ScanFrom(s, ch, p) ==
  IF p >= Len(s) THEN -1 ELSE IF s[p + 1] = ch THEN p ELSE ScanFrom(s, ch, p + 1)

(* Fault-injected variant: p - chars instead of (p - 1) - chars.           *)
FastIndexOfPastMatch(s, ch, start) ==
  LET r == ScanFrom(s, ch, IF start < 0 THEN 0 ELSE IF start > Len(s) THEN Len(s) ELSE start)
  IN IF r = -1 THEN -1 ELSE r + 1

(* String::FastIndexOf: start clamped to [0, count], then the scan.       *)
FastIndexOf(s, ch, start) ==
  ScanFrom(s, ch, IF start < 0 THEN 0 ELSE IF start > Len(s) THEN Len(s) ELSE start)

(* Fault-injected variant: MemCmp16 subtracts the chars the other way.     *)
MemCmp16Swapped(s0, s1, count) ==
  LET D == {i \in 1..count : s0[i] # s1[i]}
  IN IF D = {} THEN 0 ELSE LET k == CHOOSE i \in D : \A j \in D : i <= j IN s1[k] - s0[k]

(* MemCmp16: the difference of the first differing chars, each widened to  *)
(* int32 without sign extension, through the uint32 return value and back *)
(* to int (a value in -65535..65535 survives the round trip).              *)
RECURSIVE MemCmp16(_, _, _)
MemCmp16(s0, s1, count) ==
  IF count = 0 THEN 0
  ELSE IF Head(s0) # Head(s1) THEN Head(s0) - Head(s1)
  ELSE MemCmp16(Tail(s0), Tail(s1), count - 1)

(* String::CompareTo; `same' is lhs == rhs (one object).                   *)
CompareTo(lhs, rhs, same) ==
  LET countDiff == Len(lhs) - Len(rhs)
      minCount == IF countDiff < 0 THEN Len(lhs) ELSE Len(rhs)
      otherRes == MemCmp16(lhs, rhs, minCount)
  IN CASE same -> 0
       [] otherRes # 0 -> otherRes
       [] OTHER -> countDiff

(* Fault-injected variant: no quick length test; the loop runs over that's *)
(* chars and CharAt answers 0 past the end of this.                         *)
EqualsNoCount(this, that, same, null) ==
  CASE same -> TRUE
    [] null -> FALSE
    [] OTHER -> \A i \in 0..(Len(that) - 1) : CharAt(this, i) = CharAt(that, i)

(* String::Equals(String* that): reference equality, null, length, chars. *)
Equals(this, that, same, null) ==
  CASE same -> TRUE
    [] null -> FALSE
    [] Len(this) # Len(that) -> FALSE
    [] OTHER -> \A i \in 0..(Len(that) - 1) : CharAt(this, i) = CharAt(that, i)

(* String::Equals(const uint16_t* that_chars, that_offset, that_length).   *)
EqualsChars(this, chars, offset, length) ==
  /\ Len(this) = length
  /\ \A i \in 0..(length - 1) : CharAt(this, i) = chars[offset + i + 1]

(* Fault-injected variant: the array's int8_t bytes are added signed.      *)
DecodeByteSigned(b, high_byte) == (high_byte * 256 + b) % 65536

(* AllocFromByteArray: new_value[i] = (high_byte << 8) + (data[i] & 0xFF), *)
(* data read as uint8_t and the sum stored into a uint16_t.  The shift of *)
(* a negative high_byte is two's complement on every target.              *)
DecodeByte(b, high_byte) == (high_byte * 256 + (b % 256)) % 65536

(* ------------------------------ copies --------------------------------- *)

(* memcpy of n code units from src at offset s to dst at offset d.         *)
MemCpy16(dst, d, src, s, n) ==
  [i \in 1..Len(dst) |-> IF d < i /\ i <= d + n THEN src[s + i - d] ELSE dst[i]]

(* A reference to a new array of chars, or nullptr.                      *)
Ref(value) == [null |-> FALSE, value |-> value]
NullRef == [null |-> TRUE, value |-> <<>>]

(* String::Alloc and CharArray::Alloc: zeroed memory of utf16_length code  *)
(* units, or nullptr with an OutOfMemoryError pending when the heap fails. *)
(* The size-overflow check (size < data_size) fails only for a negative    *)
(* length, which none of the callers below passes.                         *)
Alloc(utf16_length, fails) ==
  IF fails THEN NullRef ELSE Ref([i \in 1..utf16_length |-> 0])

(* AllocFromString: string_length chars of string from offset.             *)
AllocFromString(string_length, string, offset, fails) ==
  LET new_string == Alloc(string_length, fails)
  IN IF new_string.null THEN NullRef
     ELSE Ref(MemCpy16(new_string.value, 0, string, offset, string_length))

(* Fault-injected variant: string2 is copied at offset length2.            *)
AllocFromStringsAtLength2(string, string2, fails) ==
  LET new_string == Alloc(Len(string) + Len(string2), fails)
      new_value == MemCpy16(new_string.value, 0, string, 0, Len(string))
  IN IF new_string.null THEN NullRef
     ELSE Ref(MemCpy16(new_value, Len(string2), string2, 0, Len(string2)))

(* AllocFromStrings: string's chars, then string2's after them.           *)
AllocFromStrings(string, string2, fails) ==
  LET new_string == Alloc(Len(string) + Len(string2), fails)
      new_value == MemCpy16(new_string.value, 0, string, 0, Len(string))
  IN IF new_string.null THEN NullRef
     ELSE Ref(MemCpy16(new_value, Len(string), string2, 0, Len(string2)))

(* GetChars: chars [start, end) into array from index.                     *)
GetChars(this, start, end, array, index) ==
  MemCpy16(array, index, this, start, end - start)

(* ------------------------------ pure calls ----------------------------- *)

(* A call of a pure operation, recorded in `last' for one step.  These     *)
(* calls read only chars, which never change, and never hash_code_, so    *)
(* they are explored from the initial state, before any GetHashCode.      *)
Call(op, args, res) ==
  /\ Running /\ last = NoCall /\ \A t \in Threads : calls[t] = 0
  /\ last' = [op |-> op, args |-> args, res |-> res]
  /\ UNCHANGED <<Hashing, crash>>

(* ToCharArray: result = CharArray::Alloc(count_), then memcpy into        *)
(* result->GetData() with no check for nullptr: when the allocation fails  *)
(* a non-empty copy writes through a null pointer and the runtime dies of  *)
(* SIGSEGV outside generated code.                                         *)
ToCharArray(this, fails) ==
  LET array == Alloc(Len(this), fails) IN
  IF array.null /\ Len(this) > 0
    THEN /\ Running /\ last = NoCall /\ \A t \in Threads : calls[t] = 0
         /\ crash' = [cause |-> "segv", by |-> "ToCharArray"]
         /\ UNCHANGED <<Hashing, last>>
    ELSE Call("ToCharArray", <<this, fails>>,
              IF array.null THEN NullRef
              ELSE Ref(MemCpy16(array.value, 0, this, 0, Len(this))))

Next ==
  \/ \E t \in Threads, o \in Objs : GetHashCodeRead(t, o)
  \/ \E t \in Threads : ComputeHashCode(t) \/ GetHashCodeReturn(t)
  \/ \E a, b \in Strs, same \in BOOLEAN :
       /\ same => a = b
       /\ \/ Call("CompareTo", <<a, b>>, CompareTo(a, b, same))
          \/ Call("Equals", <<a, b>>, Equals(a, b, same, FALSE))
  \/ \E a \in Strs : Call("EqualsNull", <<a>>, Equals(a, <<>>, FALSE, TRUE))
  \/ \E a, chars \in Strs, offset, length \in 0..MaxLen :
       /\ offset + length <= Len(chars)
       /\ Call("EqualsChars", <<a, chars, offset, length>>,
               EqualsChars(a, chars, offset, length))
  \/ \E s \in Strs, ch \in SearchChars, start \in Starts :
       Call("FastIndexOf", <<s, ch, start>>, FastIndexOf(s, ch, start))
  \/ \E b \in Bytes, hb \in HighBytes : Call("DecodeByte", <<b, hb>>, DecodeByte(b, hb))
  \/ \E a \in Strs, offset, length \in 0..MaxLen, fails \in BOOLEAN :
       /\ offset + length <= Len(a)
       /\ Call("AllocFromString", <<a, offset, length, fails>>,
               AllocFromString(length, a, offset, fails))
  \/ \E a, b \in Strs, fails \in BOOLEAN :
       Call("AllocFromStrings", <<a, b, fails>>, AllocFromStrings(a, b, fails))
  \/ \E a \in Strs, fails \in BOOLEAN : ToCharArray(a, fails)
  \/ \E a, array \in Strs, start, end, index \in 0..MaxLen :
       /\ start <= end /\ end <= Len(a) /\ index + end - start <= Len(array)
       /\ Call("GetChars", <<a, start, end, array, index>>, GetChars(a, start, end, array, index))

Spec == Init /\ [][Next]_vars

(* ------------------------------ properties ----------------------------- *)

Least(S) == CHOOSE i \in S : \A j \in S : i <= j

(* What java.lang.String documents.  compareTo: the difference of the     *)
(* chars at the first index where the strings differ, else the difference *)
(* of their lengths.                                                       *)
JavaCompareTo(a, b) ==
  LET D == {i \in 1..Len(a) : i <= Len(b) /\ a[i] # b[i]}
  IN IF D = {} THEN Len(a) - Len(b) ELSE a[Least(D)] - b[Least(D)]

(* indexOf(ch, fromIndex): the least index >= fromIndex holding ch, or -1. *)
JavaIndexOf(s, ch, from) ==
  LET M == {i \in 0..(Len(s) - 1) : i >= from /\ s[i + 1] = ch}
  IN IF M = {} THEN -1 ELSE Least(M)

(* String(byte[] ascii, int hibyte, ...): each char is                      *)
(* ((hibyte & 0xff) << 8) | (b & 0xff).                                     *)
JavaByteChar(b, hb) == (hb % 256) * 256 + (b % 256)

(* The allocating copies return nullptr exactly when the allocation       *)
(* fails, and otherwise what String's constructors, toCharArray and        *)
(* getChars document: substring(offset, offset + length), concatenation,   *)
(* the same chars, and array with [index, index + end - start) replaced.   *)
CopySound ==
  LET a == last.args IN
  /\ last.op = "AllocFromString" =>
       last.res = IF a[4] THEN NullRef ELSE Ref(SubSeq(a[1], a[2] + 1, a[2] + a[3]))
  /\ last.op = "AllocFromStrings" =>
       last.res = IF a[3] THEN NullRef ELSE Ref(a[1] \o a[2])
  /\ last.op = "ToCharArray" => last.res = IF a[2] THEN NullRef ELSE Ref(a[1])
  /\ last.op = "GetChars" =>
       last.res = SubSeq(a[4], 1, a[5]) \o SubSeq(a[1], a[2] + 1, a[3])
                  \o SubSeq(a[4], a[5] + a[3] - a[2] + 1, Len(a[4]))

(* The hash-code cache only ever holds 0 or the string's hash.             *)
TypeOK ==
  /\ \A o \in Objs : hashCode[o] \in {0, ComputeUtf16Hash(Value[o])}
  /\ \A t \in Threads : pc[t] \in {"idle", "compute", "reread"} /\ obj[t] \in Objs
  /\ \A t \in Threads : calls[t] \in 0..MaxCalls
  /\ crash.cause \in {"none", "dcheck", "segv"}

(* SetHashCode's DCHECK_EQ(0, hash_code_) fails only in a race: the thread *)
(* that trips it read 0 from hash_code_ in GetHashCode, and another thread *)
(* stored the hash between that read and this thread's own SetHashCode; a *)
(* thread calling GetHashCode again and again never trips it.              *)
DcheckOnlyOnRace ==
  crash.cause = "dcheck" =>
    /\ result[crash.by] = 0
    /\ storer[obj[crash.by]] \notin {crash.by, "none"}

(* GetHashCode returns the string's hash on every call, whatever the other *)
(* threads are doing with the same string's hash_code_ at the same time.   *)
HashReturned ==
  \A t \in Threads :
    returned[t] # <<>> => returned[t][2] = ComputeUtf16Hash(Value[returned[t][1]])

(* CompareTo, with its MemCmp16 over the shorter length and its uint32     *)
(* round trip, returns what String.compareTo documents.                    *)
CompareToSound ==
  last.op = "CompareTo" =>
    last.res = JavaCompareTo(last.args[1], last.args[2])

(* FastIndexOf, with its clamping of start and its pointer arithmetic,     *)
(* returns what String.indexOf(ch, fromIndex) documents.                    *)
IndexOfSound ==
  last.op = "FastIndexOf" =>
    last.res = JavaIndexOf(last.args[1], last.args[2], last.args[3])

(* The Equals overloads on a String, on null and on a UTF-16 buffer answer *)
(* whether the char sequences are equal.                                   *)
EqualsSound ==
  /\ last.op = "Equals" => last.res = (last.args[1] = last.args[2])
  /\ last.op = "EqualsNull" => ~last.res
  /\ last.op = "EqualsChars" =>
       LET c == last.args[2] IN
         last.res = (last.args[1] = SubSeq(c, last.args[3] + 1, last.args[3] + last.args[4]))

(* AllocFromByteArray decodes each byte as String(byte[], int hibyte)      *)
(* documents, for every byte and any int high_byte.                        *)
DecodeSound ==
  last.op = "DecodeByte" =>
    last.res = JavaByteChar(last.args[1], last.args[2])

====
