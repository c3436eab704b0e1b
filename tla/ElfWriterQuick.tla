--------------------------- MODULE ElfWriterQuick ---------------------------
(***************************************************************************)
(* ElfWriterQuick::Write (compiler/elf_writer_quick.cc): the writer that   *)
(* wraps an oat file in a 32-bit ELF shared object.  Write works in three *)
(* phases: (1) it computes the file offset of every part by rounding up   *)
(* the running expected_offset, (2) it fills the ELF header, the program  *)
(* headers, .dynsym, .hash, .dynamic and the section headers from those   *)
(* offsets, and (3) it seeks to each offset and writes the part, giving   *)
(* up with `return false' at the first lseek or write that fails.         *)
(*                                                                         *)
(* Phases 1 and 2 are pure functions of Write's inputs, here the record   *)
(* `in': the oat data size (OatHeader::GetExecutableOffset), the size of  *)
(* the executable part (GetSize() minus it), the path of the file, the    *)
(* methods FillInCFIInformation describes and the size of .debug_frame   *)
(* (or NoDebug)                                                           *)
(* and the instruction set.  Phase 3 is a state machine over the file:    *)
(* the file position and the list of writes that reached the file.        *)
(*                                                                         *)
(* Strings are abstracted to their length: a string table is a sequence   *)
(* of pieces [label, len], each followed by a NUL, after a leading NUL.   *)
(* Byte contents are abstracted to the name of the part they came from.   *)
(***************************************************************************)
EXTENDS Naturals, Sequences, SequencesExt, DwarfCFI

CONSTANTS
  PageSize,      \* kPageSize
  OatDataSizes,  \* OatHeader::GetExecutableOffset(): size of .rodata
  OatExecSizes,  \* OatWriter::GetSize() - oat_data_size: size of .text
  Paths,         \* elf_file_->GetPath(), as sequences of characters
  DebugInfos,    \* [methods (GetCFIMethodInfo), frm (GetCallFrameInformation size)]
  NoDebug,       \* GetCallFrameInformation() == nullptr
  Isas           \* compiler_driver_->GetInstructionSet()

(* CHECK_ALIGNED(expected_offset, kPageSize) at the start of .text aborts  *)
(* unless the oat data size is a multiple of the page size.                *)
ASSUME /\ PageSize \in Nat \ {0}
       /\ \A d \in OatDataSizes : d % PageSize = 0
       /\ NoDebug \notin DebugInfos

(* Sizes of the <elf.h> structures for ELFCLASS32.                         *)
SizeofEhdr == 52
SizeofPhdr == 32
SizeofSym  == 16
SizeofDyn  == 8
SizeofShdr == 40
SizeofWord == 4

RoundUp(x, n) == ((x + n - 1) \div n) * n

(* The fixed counts and indices of Write.                                  *)
PH_NUM == 5
SYM_UNDEF == 0
SYM_OATDATA == 1
SYM_OATEXEC == 2
SYM_OATLASTWORD == 3
SYM_NUM == 4
HASH_NBUCKET == 0
HASH_NCHAIN == 1
HASH_BUCKET0 == 2
HASH_NUM == HASH_BUCKET0 + 1 + SYM_NUM
DH_NUM == 7
SH_DYNSYM == 1
SH_DYNSTR == 2
SH_HASH == 3
SH_RODATA == 4
SH_TEXT == 5
SH_DYNAMIC == 6
SH_SHSTRTAB == 7

(* SH_NUM: four more section headers when there is debug information.      *)
SH_NUMSwapped(in) == IF in.dbg # NoDebug THEN 8 ELSE 12
SH_NUM(in) == IF in.dbg # NoDebug THEN 12 ELSE 8

-----------------------------------------------------------------------------
(* String tables.  StrOffset(tab, k) is the size of the string before      *)
(* piece k is appended: the leading NUL and each earlier piece with its    *)
(* NUL.  StrAt is what a reader finds at an offset.                        *)
RECURSIVE StrOffset(_, _)
StrOffset(tab, k) ==
  IF k = 1 THEN 1 ELSE StrOffset(tab, k - 1) + tab[k - 1].len + 1

StrSize(tab) == StrOffset(tab, Len(tab) + 1)

StrAt(tab, off) ==
  LET k == SelectInSeq([i \in 1..Len(tab) |-> StrOffset(tab, i)], LAMBDA o : o = off)
  IN IF k = 0 THEN "none" ELSE tab[k].label

Piece(label, len) == [label |-> label, len |-> len]

(* The soname: the path after its last '/', or all of it.                  *)
Basename(path) ==
  SubSeq(path, SelectLastInSeq(path, LAMBDA c : c = "/") + 1, Len(path))

(* .dynstr: oatdata, oatexec, oatlastword and the soname.                  *)
Dynstr(in) ==
  << Piece("oatdata", 7), Piece("oatexec", 7), Piece("oatlastword", 11),
     Piece("soname", Len(Basename(in.path))) >>

(* .shstrtab: the section names in the order Write appends them.           *)
Shstrtab ==
  << Piece(".dynamic", 8), Piece(".dynsym", 7), Piece(".dynstr", 7),
     Piece(".hash", 5), Piece(".rodata", 7), Piece(".text", 5),
     Piece(".shstrtab", 9), Piece(".debug_info", 11),
     Piece(".debug_abbrev", 13), Piece(".debug_str", 10),
     Piece(".debug_frame", 12) >>

ShName(label) == StrOffset(Shstrtab, SelectInSeq(Shstrtab, LAMBDA p : p.label = label))

-----------------------------------------------------------------------------
(* Phase 1.  .dynamic is page aligned so that it starts a new segment;     *)
(* its natural alignment would be a word.                                  *)
DynamicAlignmentWord == SizeofWord
DynamicAlignment == PageSize

(* The debug sections follow .shstrtab: .debug_info and .debug_abbrev      *)
(* unaligned, .debug_frame on a word, .debug_str unaligned.  Their sizes   *)
(* are those of the vectors FillInCFIInformation fills, and of the call    *)
(* frame information.  Without debug information all four are empty, but   *)
(* .debug_frame's RoundUp still applies.                                   *)
DebugSizes(in) ==
  IF in.dbg = NoDebug THEN [info |-> 0, abbrev |-> 0, frm |-> 0, str |-> 0]
  ELSE LET c == in.dbg.cfi
       IN [info |-> Len(c.info), abbrev |-> Len(c.abbrev), frm |-> in.dbg.frm,
           str |-> Len(c.str)]

DebugLayoutNoFrmSize(start, in) ==
  LET sz == DebugSizes(in)
      frm == RoundUp(start + sz.info + sz.abbrev, 4)
  IN [info |-> start, abbrev |-> start + sz.info, frm |-> frm,
      str |-> frm, end |-> frm + sz.str]

DebugLayout(start, in) ==
  LET sz == DebugSizes(in)
      frm == RoundUp(start + sz.info + sz.abbrev, 4)
  IN [info |-> start, abbrev |-> start + sz.info, frm |-> frm,
      str |-> frm + sz.frm, end |-> frm + sz.frm + sz.str]

(* The offsets and sizes phase 1 computes, in the order it computes them.  *)
Layout(in) ==
  LET phdr_offset == SizeofEhdr
      phdr_size == SizeofPhdr * PH_NUM
      dynsym_offset == RoundUp(phdr_offset + phdr_size, SizeofWord)
      dynsym_size == SizeofSym * SYM_NUM
      dynstr_offset == RoundUp(dynsym_offset + dynsym_size, 1)
      dynstr_size == StrSize(Dynstr(in))
      hash_offset == RoundUp(dynstr_offset + dynstr_size, SizeofWord)
      hash_size == SizeofWord * HASH_NUM
      oat_data_offset == RoundUp(hash_offset + hash_size, PageSize)
      oat_exec_offset == RoundUp(oat_data_offset + in.data, PageSize)
      dynamic_offset == RoundUp(oat_exec_offset + in.exec, DynamicAlignment)
      dynamic_size == SizeofDyn * DH_NUM
      shstrtab_offset == dynamic_offset + dynamic_size
      shstrtab_size == StrSize(Shstrtab)
      dbg == DebugLayout(shstrtab_offset + shstrtab_size, in)
  IN [phdr_offset |-> phdr_offset, phdr_size |-> phdr_size,
      dynsym_offset |-> dynsym_offset, dynsym_size |-> dynsym_size,
      dynstr_offset |-> dynstr_offset, dynstr_size |-> dynstr_size,
      hash_offset |-> hash_offset, hash_size |-> hash_size,
      oat_data_offset |-> oat_data_offset, oat_data_size |-> in.data,
      oat_exec_offset |-> oat_exec_offset, oat_exec_size |-> in.exec,
      dynamic_offset |-> dynamic_offset, dynamic_size |-> dynamic_size,
      shstrtab_offset |-> shstrtab_offset, shstrtab_size |-> shstrtab_size,
      dbg |-> dbg,
      shdr_offset |-> RoundUp(dbg.end, SizeofWord),
      shdr_size |-> SizeofShdr * SH_NUM(in)]

-----------------------------------------------------------------------------
(* Phase 2.  The ELF header: e_machine by instruction set; kArm and every  *)
(* other set reach LOG(FATAL).                                             *)
Machine(isa) ==
  CASE isa = "kThumb2" -> "EM_ARM"
    [] isa = "kX86"    -> "EM_386"
    [] isa = "kMips"   -> "EM_MIPS"
    [] OTHER           -> "fatal"

ElfHeader(in) ==
  [machine |-> Machine(in.isa), phoff |-> Layout(in).phdr_offset,
   shoff |-> Layout(in).shdr_offset, ehsize |-> SizeofEhdr,
   phentsize |-> SizeofPhdr, phnum |-> PH_NUM, shentsize |-> SizeofShdr,
   shnum |-> SH_NUM(in), shstrndx |-> SH_SHSTRTAB]

Phdr(type, offset, size, flags, align) ==
  [type |-> type, offset |-> offset, vaddr |-> offset, filesz |-> size,
   memsz |-> size, flags |-> flags, align |-> align]

(* PHDR, LOAD R (headers, .dynsym, .dynstr, .hash, .rodata), LOAD R X      *)
(* (.text), LOAD RW (.dynamic) and DYNAMIC; vaddr = offset throughout.     *)
ProgramHeaders(in) ==
  LET L == Layout(in) IN
  << Phdr("PT_PHDR", L.phdr_offset, SizeofPhdr * PH_NUM, {"R"}, SizeofWord),
     Phdr("PT_LOAD", 0, L.oat_data_offset + L.oat_data_size, {"R"}, PageSize),
     Phdr("PT_LOAD", L.oat_exec_offset, L.oat_exec_size, {"R", "X"}, PageSize),
     Phdr("PT_LOAD", L.dynamic_offset, L.dynamic_size, {"R", "W"}, DynamicAlignment),
     Phdr("PT_DYNAMIC", L.dynamic_offset, L.dynamic_size, {"R", "W"}, DynamicAlignment) >>

(* .dynsym: STN_UNDEF, oatdata over .rodata, oatexec over .text, and       *)
(* oatlastword on the last word of .text.                                  *)
Dynsym(in) ==
  LET L == Layout(in)
      Sym(name, value, size, shndx) ==
        [name |-> name, value |-> value, size |-> size, shndx |-> shndx]
  IN << Sym(0, 0, 0, 0),
        Sym(StrOffset(Dynstr(in), 1), L.oat_data_offset, L.oat_data_size, SH_RODATA),
        Sym(StrOffset(Dynstr(in), 2), L.oat_exec_offset, L.oat_exec_size, SH_TEXT),
        Sym(StrOffset(Dynstr(in), 3), L.oat_exec_offset + L.oat_exec_size - 4, 4, SH_TEXT) >>

(* .hash, word by word as Write stores it: one bucket, whose chain runs    *)
(* oatdata -> oatexec -> oatlastword -> STN_UNDEF.  The array is not       *)
(* cleared; a word no store reaches is left as 0 here.                     *)
HashTableNoSkip ==
  [[i \in 0..HASH_NUM - 1 |-> 0] EXCEPT
     ![HASH_NBUCKET] = 1, ![HASH_NCHAIN] = SYM_NUM,
     ![HASH_BUCKET0] = SYM_OATDATA,
     ![HASH_BUCKET0 + SYM_UNDEF] = SYM_UNDEF,
     ![HASH_BUCKET0 + SYM_OATDATA] = SYM_OATEXEC,
     ![HASH_BUCKET0 + SYM_OATEXEC] = SYM_OATLASTWORD,
     ![HASH_BUCKET0 + SYM_OATLASTWORD] = SYM_UNDEF]

HashTable ==
  [[i \in 0..HASH_NUM - 1 |-> 0] EXCEPT
     ![HASH_NBUCKET] = 1, ![HASH_NCHAIN] = SYM_NUM,
     ![HASH_BUCKET0] = SYM_OATDATA,
     ![HASH_BUCKET0 + 1 + SYM_UNDEF] = SYM_UNDEF,
     ![HASH_BUCKET0 + 1 + SYM_OATDATA] = SYM_OATEXEC,
     ![HASH_BUCKET0 + 1 + SYM_OATEXEC] = SYM_OATLASTWORD,
     ![HASH_BUCKET0 + 1 + SYM_OATLASTWORD] = SYM_UNDEF]

(* .dynamic: tag |-> value; DT_NULL ends it.                               *)
DynamicHeaders(in) ==
  LET L == Layout(in) IN
  [DT_SONAME |-> StrOffset(Dynstr(in), 4), DT_HASH |-> L.hash_offset,
   DT_SYMTAB |-> L.dynsym_offset, DT_SYMENT |-> SizeofSym,
   DT_STRTAB |-> L.dynstr_offset, DT_STRSZ |-> L.dynstr_size, DT_NULL |-> 0]

Shdr(name, type, flags, addr, offset, size, link, align, entsize) ==
  [name |-> ShName(name), type |-> type, flags |-> flags, addr |-> addr,
   offset |-> offset, size |-> size, link |-> link, align |-> align,
   entsize |-> entsize]

(* The section headers; section k is element k + 1.  The debug sections   *)
(* are not allocated and have address 0.                                   *)
SectionHeaders(in) ==
  LET L == Layout(in)
      D == L.dbg
      sz == DebugSizes(in)
      base ==
        << [name |-> 0, type |-> "SHT_NULL", flags |-> {}, addr |-> 0, offset |-> 0,
            size |-> 0, link |-> 0, align |-> 0, entsize |-> 0],
           Shdr(".dynsym", "SHT_DYNSYM", {"ALLOC"}, L.dynsym_offset, L.dynsym_offset,
                L.dynsym_size, SH_DYNSTR, SizeofWord, SizeofSym),
           Shdr(".dynstr", "SHT_STRTAB", {"ALLOC"}, L.dynstr_offset, L.dynstr_offset,
                L.dynstr_size, 0, 1, 0),
           Shdr(".hash", "SHT_HASH", {"ALLOC"}, L.hash_offset, L.hash_offset,
                L.hash_size, SH_DYNSYM, SizeofWord, SizeofWord),
           Shdr(".rodata", "SHT_PROGBITS", {"ALLOC"}, L.oat_data_offset,
                L.oat_data_offset, L.oat_data_size, 0, PageSize, 0),
           Shdr(".text", "SHT_PROGBITS", {"ALLOC", "EXECINSTR"}, L.oat_exec_offset,
                L.oat_exec_offset, L.oat_exec_size, 0, PageSize, 0),
           Shdr(".dynamic", "SHT_DYNAMIC", {"WRITE", "ALLOC"}, L.dynamic_offset,
                L.dynamic_offset, L.dynamic_size, SH_DYNSTR, DynamicAlignment, SizeofDyn),
           Shdr(".shstrtab", "SHT_STRTAB", {}, L.shstrtab_offset, L.shstrtab_offset,
                L.shstrtab_size, 0, 1, 0) >>
      debug ==
        << Shdr(".debug_info", "SHT_PROGBITS", {}, 0, D.info, sz.info, 0, 1, 0),
           Shdr(".debug_abbrev", "SHT_PROGBITS", {}, 0, D.abbrev, sz.abbrev, 0, 1, 0),
           Shdr(".debug_frame", "SHT_PROGBITS", {}, 0, D.frm, sz.frm, 0, 4, 0),
           Shdr(".debug_str", "SHT_PROGBITS", {}, 0, D.str, sz.str, 0, 1, 0) >>
  IN IF in.dbg # NoDebug THEN base \o debug ELSE base

-----------------------------------------------------------------------------
(* Phase 3: the writes, in order.  seek is how the position is reached:    *)
(* "none" (the header, at the start of the new file), "cur" (the program  *)
(* headers: lseek(fd, 0, SEEK_CUR) must already equal phdr_offset) or      *)
(* "set" (lseek to the offset).  The oat file goes through one             *)
(* BufferedOutputStream: .rodata and .text, GetSize() bytes.               *)
Part(src, off, size, seek) == [src |-> src, off |-> off, size |-> size, seek |-> seek]

StepsDynamicNoSeek(in) ==
  LET L == Layout(in)
      D == L.dbg
      sz == DebugSizes(in)
  IN << Part("ehdr", 0, SizeofEhdr, "none"),
        Part("phdrs", L.phdr_offset, SizeofPhdr * PH_NUM, "cur"),
        Part(".dynsym", L.dynsym_offset, L.dynsym_size, "set"),
        Part(".dynstr", L.dynstr_offset, L.dynstr_size, "set"),
        Part(".hash", L.hash_offset, L.hash_size, "set"),
        Part("oat", L.oat_data_offset, in.data + in.exec, "set"),
        Part(".dynamic", L.dynamic_offset, L.dynamic_size, "none"),
        Part(".shstrtab", L.shstrtab_offset, L.shstrtab_size, "set") >>
     \o (IF in.dbg # NoDebug
           THEN << Part(".debug_info", D.info, sz.info, "set"),
                   Part(".debug_abbrev", D.abbrev, sz.abbrev, "set"),
                   Part(".debug_frame", D.frm, sz.frm, "set"),
                   Part(".debug_str", D.str, sz.str, "set") >>
           ELSE << >>)
     \o << Part("shdrs", L.shdr_offset, SizeofShdr * SH_NUM(in), "set") >>

Steps(in) ==
  LET L == Layout(in)
      D == L.dbg
      sz == DebugSizes(in)
  IN << Part("ehdr", 0, SizeofEhdr, "none"),
        Part("phdrs", L.phdr_offset, SizeofPhdr * PH_NUM, "cur"),
        Part(".dynsym", L.dynsym_offset, L.dynsym_size, "set"),
        Part(".dynstr", L.dynstr_offset, L.dynstr_size, "set"),
        Part(".hash", L.hash_offset, L.hash_size, "set"),
        Part("oat", L.oat_data_offset, in.data + in.exec, "set"),
        Part(".dynamic", L.dynamic_offset, L.dynamic_size, "set"),
        Part(".shstrtab", L.shstrtab_offset, L.shstrtab_size, "set") >>
     \o (IF in.dbg # NoDebug
           THEN << Part(".debug_info", D.info, sz.info, "set"),
                   Part(".debug_abbrev", D.abbrev, sz.abbrev, "set"),
                   Part(".debug_frame", D.frm, sz.frm, "set"),
                   Part(".debug_str", D.str, sz.str, "set") >>
           ELSE << >>)
     \o << Part("shdrs", L.shdr_offset, SizeofShdr * SH_NUM(in), "set") >>

VARIABLES
  in,       \* Write's inputs, fixed for the call
  elf,      \* what phases 1 and 2 compute from them
  pc,       \* 0: phase 2; k: about to perform elf.steps[k]
  pos,      \* the file position of elf_file_'s descriptor
  written,  \* the writes that reached the file, oldest first
  result    \* "running", or how Write ended: "ok", "failed", "aborted"

vars == <<in, elf, pc, pos, written, result>>

(* Write fills dbg_info, dbg_abbrev and dbg_str (FillInCFIInformation)     *)
(* before it lays anything out; a debug input carries the three vectors,   *)
(* as cfi, from then on.                                                   *)
WithCFI(d) == [methods |-> d.methods, frm |-> d.frm,
               cfi |-> FillInCFIInformation(d.methods)]

Inputs ==
  [data : OatDataSizes, exec : OatExecSizes, path : Paths,
   dbg : {WithCFI(d) : d \in DebugInfos} \cup {NoDebug}, isa : Isas]

(* The locals of Write that phases 1 and 2 fill in.                        *)
Tables(x) ==
  [layout |-> Layout(x), ehdr |-> ElfHeader(x), phdrs |-> ProgramHeaders(x),
   dynstr |-> Dynstr(x), dynsym |-> Dynsym(x), hash |-> HashTable,
   dynamic |-> DynamicHeaders(x), shdrs |-> SectionHeaders(x), steps |-> Steps(x)]

Init ==
  /\ in \in Inputs
  /\ elf = Tables(in)
  /\ pc = 0
  /\ pos = 0
  /\ written = << >>
  /\ result = "running"

(* Phases 1 and 2; an instruction set without a case is LOG(FATAL).        *)
Prepare ==
  /\ result = "running" /\ pc = 0
  /\ IF elf.ehdr.machine = "fatal"
       THEN /\ result' = "aborted" /\ UNCHANGED pc
       ELSE /\ pc' = 1 /\ UNCHANGED result
  /\ UNCHANGED <<in, elf, pos, written>>

Current == elf.steps[pc]

(* Where the write of the current step lands: lseek(SEEK_SET) moves the    *)
(* position to the step's offset, otherwise it is the current position.    *)
Target == IF Current.seek = "set" THEN Current.off ELSE pos

(* One step that succeeds: the position check or lseek, then WriteFully    *)
(* (oat_writer.Write for the oat part).  The program headers' SEEK_CUR     *)
(* check returns false when the position is not phdr_offset.               *)
WriteStep ==
  /\ result = "running" /\ pc \in 1..Len(elf.steps)
  /\ IF Current.seek = "cur" /\ pos # Current.off
       THEN /\ result' = "failed" /\ UNCHANGED <<pc, pos, written>>
       ELSE /\ written' = Append(written, [src |-> Current.src, off |-> Target,
                                           size |-> Current.size])
            /\ pos' = Target + Current.size
            /\ pc' = pc + 1
            /\ UNCHANGED result
  /\ UNCHANGED <<in, elf>>

(* lseek(fd, offset, SEEK_SET) returns -1: return false.                   *)
SeekFails ==
  /\ result = "running" /\ pc \in 1..Len(elf.steps)
  /\ Current.seek = "set"
  /\ result' = "failed"
  /\ UNCHANGED <<in, elf, pc, pos, written>>

(* WriteFully or oat_writer.Write returns false: return false.  What part  *)
(* of the bytes reached the file is left open.                             *)
WriteFails ==
  /\ result = "running" /\ pc \in 1..Len(elf.steps)
  /\ result' = "failed"
  /\ UNCHANGED <<in, elf, pc, pos, written>>

(* The last write succeeded: return true.                                  *)
Finish ==
  /\ result = "running" /\ pc = Len(elf.steps) + 1
  /\ result' = "ok"
  /\ UNCHANGED <<in, elf, pc, pos, written>>

(* Write has returned (or aborted); nothing more happens.                  *)
Terminated == result # "running" /\ UNCHANGED vars

Next == Prepare \/ WriteStep \/ SeekFails \/ WriteFails \/ Finish \/ Terminated

Spec == Init /\ [][Next]_vars

-----------------------------------------------------------------------------
Srcs == {"ehdr", "phdrs", "oat", "shdrs"} \cup {Shstrtab[i].label : i \in 1..Len(Shstrtab)}

Disjoint(a, b) == a.off + a.size <= b.off \/ b.off + b.size <= a.off

(* The bytes a section's header names come from: .rodata is the oat file  *)
(* up to the executable offset and .text the rest of it.                   *)
Content(name) ==
  CASE name = ".rodata" -> [src |-> "oat", at |-> 0]
    [] name = ".text"   -> [src |-> "oat", at |-> in.data]
    [] OTHER            -> [src |-> name, at |-> 0]

(* What a reader of the file finds through the ELF header: the header,     *)
(* the program headers at e_phoff, the section headers at e_shoff, and     *)
(* each non-empty section at sh_offset, named through .shstrtab.           *)
FileParts ==
  LET E == elf.ehdr
      S == elf.shdrs
  IN {[src |-> "ehdr", at |-> 0, off |-> 0, size |-> E.ehsize, align |-> 1],
      [src |-> "phdrs", at |-> 0, off |-> E.phoff, size |-> E.phnum * E.phentsize,
       align |-> SizeofWord],
      [src |-> "shdrs", at |-> 0, off |-> E.shoff, size |-> E.shnum * E.shentsize,
       align |-> SizeofWord]}
     \cup {LET c == Content(StrAt(Shstrtab, S[k].name)) IN
             [src |-> c.src, at |-> c.at, off |-> S[k].offset, size |-> S[k].size,
              align |-> S[k].align] : k \in {j \in 2..Len(S) : S[j].size > 0}}

(* The loader's lookup of a dynamic symbol through .hash: bucket[hash %    *)
(* nbucket], then chain[] until STN_UNDEF; a word outside the table ends   *)
(* the walk.  nchain bounds the walk.                                      *)
RECURSIVE ChainFind(_, _, _, _)
ChainFind(H, name, y, fuel) ==
  CASE y = 0 \/ fuel = 0 -> 0
    [] y >= H[HASH_NCHAIN] -> 0
    [] StrAt(elf.dynstr, elf.dynsym[y + 1].name) = name -> y
    [] HASH_BUCKET0 + H[HASH_NBUCKET] + y >= HASH_NUM -> 0
    [] OTHER -> ChainFind(H, name, H[HASH_BUCKET0 + H[HASH_NBUCKET] + y], fuel - 1)

HashLookup(name, hv) ==
  LET H == elf.hash IN
  IF H[HASH_NBUCKET] = 0 THEN 0
  ELSE ChainFind(H, name, H[HASH_BUCKET0 + (hv % H[HASH_NBUCKET])], SYM_NUM)

-----------------------------------------------------------------------------
(* Types, and the header counts and links agreeing with the tables Write   *)
(* emits: e_shnum (SH_NUM) is the number of section headers filled in, and *)
(* every sh_link, st_shndx and e_shstrndx names one of them.               *)
TypeOK ==
  /\ in \in Inputs
  /\ result \in {"running", "ok", "failed", "aborted"}
  /\ pc \in 0..Len(elf.steps) + 1
  /\ pos \in Nat
  /\ \A j \in 1..Len(written) :
       written[j].src \in Srcs /\ written[j].off \in Nat /\ written[j].size \in Nat
  /\ LET E == elf.ehdr
         S == elf.shdrs
     IN /\ E.shnum = Len(S) /\ E.phnum = Len(elf.phdrs)
        /\ E.shstrndx < E.shnum
        /\ \A k \in 1..Len(S) : S[k].link < E.shnum
        /\ \A y \in 1..SYM_NUM : elf.dynsym[y].shndx < E.shnum

(* Phase 1 gives every part of the file its own bytes: the header, the     *)
(* program headers, each non-empty section and the section headers are     *)
(* pairwise disjoint and each starts on its alignment (the DCHECK_LEs of   *)
(* phase 3 and the RoundUps of phase 1).                                   *)
LayoutDisjoint ==
  /\ \A a, b \in FileParts : a # b => Disjoint(a, b)
  /\ \A a \in FileParts : a.off % a.align = 0

(* The program headers map what the sections say must be loaded: every     *)
(* SHF_ALLOC section lies in a PT_LOAD with matching permissions and the   *)
(* same offset-to-address displacement, PT_PHDR and PT_DYNAMIC lie in a    *)
(* PT_LOAD, PT_DYNAMIC is .dynamic, and no two PT_LOADs share a page (the  *)
(* loader maps whole pages with one protection).                           *)
SegmentsCoverAlloc ==
  LET P == elf.phdrs
      S == elf.shdrs
      Loads == {P[i] : i \in {j \in 1..Len(P) : P[j].type = "PT_LOAD"}}
      Inside(off, size, p) == p.offset <= off /\ off + size <= p.offset + p.filesz
  IN /\ \A k \in 2..Len(S) : "ALLOC" \in S[k].flags =>
          \E p \in Loads :
            /\ Inside(S[k].offset, S[k].size, p)
            /\ S[k].addr - S[k].offset = p.vaddr - p.offset
            /\ ("EXECINSTR" \in S[k].flags <=> "X" \in p.flags)
            /\ ("WRITE" \in S[k].flags <=> "W" \in p.flags)
     /\ \A i \in {1, 5} : \E p \in Loads : Inside(P[i].offset, P[i].filesz, p)
     /\ P[5].offset = S[SH_DYNAMIC + 1].offset /\ P[5].filesz = S[SH_DYNAMIC + 1].size
     /\ \A p, q \in Loads : p.vaddr < q.vaddr =>
          RoundUp(p.vaddr + p.memsz, PageSize) <= (q.vaddr \div PageSize) * PageSize

(* The dynamic linker's view: DT_HASH, DT_SYMTAB and DT_STRTAB address the *)
(* .hash, .dynsym and .dynstr sections with the sizes the tables need,     *)
(* DT_SONAME is the soname, and a lookup of oatdata, oatexec and           *)
(* oatlastword through .hash, for any hash value, finds the symbol, which  *)
(* lies inside the section its st_shndx names.                             *)
SymbolsResolve ==
  LET S == elf.shdrs
      D == elf.dynamic
      H == elf.hash
      Sec(type, addr) == {k \in 1..Len(S) : S[k].type = type /\ S[k].addr = addr}
  IN /\ \E k \in Sec("SHT_HASH", D.DT_HASH) :
          S[k].size = SizeofWord * (2 + H[HASH_NBUCKET] + H[HASH_NCHAIN])
     /\ \E k \in Sec("SHT_DYNSYM", D.DT_SYMTAB) :
          /\ S[k].entsize = D.DT_SYMENT
          /\ S[k].size = H[HASH_NCHAIN] * D.DT_SYMENT
          /\ S[S[k].link + 1].addr = D.DT_STRTAB
     /\ \E k \in Sec("SHT_STRTAB", D.DT_STRTAB) : S[k].size = D.DT_STRSZ
     /\ StrAt(elf.dynstr, D.DT_SONAME) = "soname"
     /\ \A name \in {"oatdata", "oatexec", "oatlastword"}, hv \in 0..3 :
          LET y == HashLookup(name, hv)
              sym == elf.dynsym[y + 1]
              sec == S[sym.shndx + 1]
          IN /\ y # 0
             /\ sec.addr <= sym.value /\ sym.value + sym.size <= sec.addr + sec.size

(* The debug sections read back, by a DWARF 3 reader, as what the method  *)
(* table says: a unit_length that spans the rest of .debug_info, version 3,*)
(* abbreviations at offset 0 and 4-byte addresses; a compile unit DIE with *)
(* one subprogram child per method, in order, whose name offset finds the  *)
(* method's name in .debug_str and whose low_pc and high_pc are the        *)
(* method's, then the null entry that closes the children; and, when there *)
(* is a method, the unit's low_pc and high_pc are the least and greatest   *)
(* of them, so that the unit's range covers every method.                  *)
CFIDecodes ==
  in.dbg # NoDebug =>
    LET M == in.dbg.methods
        c == in.dbg.cfi
        D == Dies(c.info, 12, AbbrevDecls(c.abbrev, 1))
        lows == {M[k].low : k \in DOMAIN M}
        highs == {M[k].high : k \in DOMAIN M}
    IN /\ Word(c.info, 1) = Len(c.info) - 4
       /\ Half(c.info, 5) = 3 /\ Word(c.info, 7) = 0 /\ At(c.info, 11) = 4
       /\ Len(D) = Len(M) + 2 /\ D[Len(D)].tag = 0
       /\ D[1].tag = DW_TAG_compile_unit /\ D[1].children = DW_CHILDREN_yes
       /\ \A k \in DOMAIN M :
            LET d == D[k + 1]
            IN /\ d.tag = DW_TAG_subprogram
               /\ StrFrom(c.str, Attr(d, DW_AT_name) + 1) = M[k].name
               /\ Attr(d, DW_AT_low_pc) = M[k].low /\ Attr(d, DW_AT_high_pc) = M[k].high
       /\ M # <<>> =>
            /\ Attr(D[1], DW_AT_low_pc) \in lows /\ Attr(D[1], DW_AT_high_pc) \in highs
            /\ \A x \in lows : ~U32Less(x, Attr(D[1], DW_AT_low_pc))
            /\ \A x \in highs : ~U32Less(Attr(D[1], DW_AT_high_pc), x)

(* When Write returns true, every part the ELF header and the section      *)
(* headers describe holds, at its offset, the bytes of the part its name   *)
(* says, written by one write and not overwritten by a later one.          *)
WriteSound ==
  result = "ok" =>
    \A f \in FileParts :
      \E j \in 1..Len(written) :
        /\ written[j].src = f.src
        /\ written[j].off + f.at = f.off
        /\ f.at + f.size <= written[j].size
        /\ \A j2 \in j + 1..Len(written) : Disjoint(written[j2], f)

====
