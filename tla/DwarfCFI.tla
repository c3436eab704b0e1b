------------------------------ MODULE DwarfCFI ------------------------------
(***************************************************************************)
(* ElfWriterQuick::FillInCFIInformation (compiler/elf_writer_quick.cc):   *)
(* the .debug_abbrev, .debug_info and .debug_str bytes Write puts in the  *)
(* ELF file when the compiler driver has call frame information.  One     *)
(* compile unit DIE with a DW_TAG_subprogram child per compiled method,   *)
(* its name in .debug_str and its [low_pc, high_pc] range; the unit's own *)
(* range is the minimum and maximum over the methods, filled in with      *)
(* UpdateWord after the walk.                                             *)
(*                                                                         *)
(* A method is a record [name, low, high]: the name as a sequence of      *)
(* bytes, the pcs as uint32.  TLC's integers are 32 bits wide, so a       *)
(* uint32 at or above 2^31 is held as its int32 reading (0xFFFFFFFF is    *)
(* -1), which is what PushWord's int parameter receives anyway.           *)
(*                                                                         *)
(* A reference reader, written from the DWARF 3 format and not from this  *)
(* code, decodes the bytes again; the property CFIDecodes in              *)
(* ElfWriterQuick states that it reads back what the methods say.         *)
(***************************************************************************)
EXTENDS Integers, Sequences, SequencesExt

(* DWARF constants of the enum in elf_writer_quick.cc.                     *)
DW_TAG_compile_unit == 17
DW_TAG_subprogram == 46
DW_AT_name == 3
DW_AT_low_pc == 17
DW_AT_high_pc == 18
DW_AT_language == 19
DW_CHILDREN_no == 0
DW_CHILDREN_yes == 1
DW_FORM_addr == 1
DW_FORM_data1 == 11
DW_FORM_strp == 14
DW_LANG_Java == 11

(* Byte k (0 = lowest) of a 32-bit value, as data >> 8k & 0xff computes it *)
(* on an int: floor division keeps the two's complement bytes of a        *)
(* negative int.                                                          *)
ByteOf(x, k) == (x \div (2 ^ (8 * k))) % 256

PushWord(data) == <<ByteOf(data, 0), ByteOf(data, 1), ByteOf(data, 2), ByteOf(data, 3)>>

PushHalf(data) == <<ByteOf(data, 0), ByteOf(data, 1)>>

(* UpdateWord overwrites the four bytes at a 0-based offset.               *)
UpdateWord(buf, offset, data) ==
  [i \in DOMAIN buf |-> IF i - 1 - offset \in 0..3
                        THEN ByteOf(data, i - 1 - offset) ELSE buf[i]]

(* uint32 order on the int32 readings.                                     *)
U32Less(a, b) == IF (a < 0) = (b < 0) THEN a < b ELSE b < 0

(* Fault-injected variant: low_pc starts at 0 instead of 0xFFFFFFFFU.      *)
LowPcInitZero == 0

(* uint32_t low_pc = 0xFFFFFFFFU.                                          *)
LowPcInit == -1

(* The boilerplate .debug_abbrev: tag 1, the compile unit with children,  *)
(* language, low_pc and high_pc; tag 2, a subprogram without children,    *)
(* name, low_pc and high_pc; each list of attributes ends with PushHalf(0). *)
Abbrev ==
  <<1, DW_TAG_compile_unit, DW_CHILDREN_yes,
    DW_AT_language, DW_FORM_data1, DW_AT_low_pc, DW_FORM_addr,
    DW_AT_high_pc, DW_FORM_addr>> \o PushHalf(0)
  \o <<2, DW_TAG_subprogram, DW_CHILDREN_no,
       DW_AT_name, DW_FORM_strp, DW_AT_low_pc, DW_FORM_addr,
       DW_AT_high_pc, DW_FORM_addr>> \o PushHalf(0)

(* The .debug_info header up to the compile unit's pcs: unit_length (0,   *)
(* filled in later), version 3, abbrev offset 0, address size 4, tag 1,   *)
(* DW_LANG_Java.                                                           *)
InfoHeader ==
  PushWord(0) \o PushHalf(3) \o PushWord(0) \o <<4, 1, DW_LANG_Java>>

(* One iteration of the walk over GetCFIMethodInfo(): the running minimum *)
(* and maximum, tag 2, the name appended to dbg_str with its NUL, and the *)
(* name's offset, low_pc and high_pc.                                      *)
MethodStep(acc, m) ==
  [low  |-> IF U32Less(m.low, acc.low) THEN m.low ELSE acc.low,
   high |-> IF U32Less(acc.high, m.high) THEN m.high ELSE acc.high,
   info |-> acc.info \o <<2>> \o PushWord(Len(acc.str))
                     \o PushWord(m.low) \o PushWord(m.high),
   str  |-> acc.str \o m.name \o <<0>>]

(* FillInCFIInformation on empty vectors, as Write calls it.               *)
FillInCFIInformation(methods) ==
  LET low_pc_offset == Len(InfoHeader)
      w == FoldLeft(MethodStep,
                    [low |-> LowPcInit, high |-> 0,
                     info |-> InfoHeader \o PushWord(0) \o PushWord(0),
                     str |-> <<>>],
                    methods)
      info == w.info \o <<0>>
  IN [abbrev |-> Abbrev,
      info |-> UpdateWord(UpdateWord(UpdateWord(info, 0, Len(info) - 4),
                                     low_pc_offset, w.low),
                          low_pc_offset + 4, w.high),
      str |-> w.str]

-----------------------------------------------------------------------------
(* The reference reader.  Bytes are read at 1-based positions; a position *)
(* past the end reads 256, which no byte equals.                           *)
At(b, i) == IF i \in 1..Len(b) THEN b[i] ELSE 256

(* A 4-byte little-endian word, as its int32 reading.                      *)
Word(b, i) ==
  LET top == At(b, i + 3)
  IN At(b, i) + 256 * At(b, i + 1) + 65536 * At(b, i + 2)
     + 16777216 * (IF top >= 128 THEN top - 256 ELSE top)

Half(b, i) == At(b, i) + 256 * At(b, i + 1)

(* An abbreviation's attribute specifications, up to the (0, 0) pair.     *)
RECURSIVE AttrSpecs(_, _)
AttrSpecs(b, i) ==
  IF i >= Len(b) \/ (At(b, i) = 0 /\ At(b, i + 1) = 0) THEN <<>>
  ELSE <<[at |-> At(b, i), form |-> At(b, i + 1)]>> \o AttrSpecs(b, i + 2)

(* The declarations of an abbreviation table, up to a 0 code or its end.   *)
RECURSIVE AbbrevDecls(_, _)
AbbrevDecls(b, i) ==
  IF i > Len(b) \/ At(b, i) = 0 THEN <<>>
  ELSE LET specs == AttrSpecs(b, i + 3)
       IN <<[code |-> At(b, i), tag |-> At(b, i + 1), children |-> At(b, i + 2),
             specs |-> specs]>>
          \o AbbrevDecls(b, i + 3 + 2 * Len(specs) + 2)

FormSize(form) == CASE form = DW_FORM_data1 -> 1
                    [] form = DW_FORM_addr -> 4
                    [] form = DW_FORM_strp -> 4
                    [] OTHER -> 0

(* The attribute values of a DIE whose attributes start at i.              *)
RECURSIVE AttrVals(_, _, _)
AttrVals(b, i, specs) ==
  IF specs = <<>> THEN <<>>
  ELSE LET s == Head(specs)
       IN <<[at |-> s.at, val |-> IF s.form = DW_FORM_data1 THEN At(b, i) ELSE Word(b, i)]>>
          \o AttrVals(b, i + FormSize(s.form), Tail(specs))

DeclSize(d) == FoldLeft(LAMBDA n, s : n + FormSize(s.form), 0, d.specs)

(* The DIEs from position i to the end of the unit: a record per entry,   *)
(* with tag 0 for a null entry (code 0) and tag -1 for a code the table   *)
(* does not declare, where reading stops.                                  *)
Entry(tag, children, vals) == [tag |-> tag, children |-> children, vals |-> vals]
RECURSIVE Dies(_, _, _)
Dies(b, i, decls) ==
  IF i > Len(b) THEN <<>>
  ELSE IF At(b, i) = 0 THEN <<Entry(0, 0, <<>>)>> \o Dies(b, i + 1, decls)
  ELSE LET k == SelectInSeq(decls, LAMBDA d : d.code = At(b, i))
       IN IF k = 0 THEN <<Entry(-1, 0, <<>>)>>
          ELSE <<Entry(decls[k].tag, decls[k].children,
                       AttrVals(b, i + 1, decls[k].specs))>>
               \o Dies(b, i + 1 + DeclSize(decls[k]), decls)

(* The value of attribute `at' of a decoded DIE, or -2 when it has none.   *)
Attr(die, at) ==
  LET k == SelectInSeq(die.vals, LAMBDA v : v.at = at)
  IN IF k = 0 THEN -2 ELSE die.vals[k].val

(* The NUL-terminated string at a 0-based offset of a string section.     *)
RECURSIVE StrFrom(_, _)
StrFrom(b, i) == IF At(b, i) \in {0, 256} THEN <<>> ELSE <<b[i]>> \o StrFrom(b, i + 1)
=============================================================================
