----------------------------- MODULE ElfReader ------------------------------
(***************************************************************************)
(* elf_reader.cpp: what setTarget makes of a file.  The stream's position  *)
(* and its failbit, which once set makes every later seek and read do      *)
(* nothing, are kept from one call to the next, as the code does.          *)
(*                                                                         *)
(* Sizes, offsets and addresses count words.  The word at an offset of the *)
(* file is known by that offset.                                           *)
(***************************************************************************)
EXTENDS GuestIsa, SequencesExt

CONSTANTS
  Addresses,    (* addresses of the data image, the mapping at data_addr      *)
  HeaderAddr,   (* where the ELF header is put: 0x10000                       *)
  HeaderSize    (* words of it: e_ehsize                                      *)

ASSUME ImageAssumption ==
  Addresses \subseteq Nat /\ HeaderAddr \in Nat /\ HeaderSize \in Nat

Section == [name : STRING, addr : Nat, offset : Nat, size : Nat]

(* sections are the section headers without the null section that leads    *)
(* them, which is empty; text is the content of the one named .text.       *)
File == [kind : {"riscv", "missing", "notElf", "foreign"}, size : Nat, entry : Nat,
         text : Seq(Inst), sections : Seq(Section)]

TextIndex(f) == SelectInSeq(f.sections, LAMBDA s : s.name = ".text")

(* Without a .text, or with nothing behind it, getDataSections would read  *)
(* past the section headers, and an empty one has no end.                  *)
WellFormed(f) ==
  f.kind = "riscv" =>
    /\ TextIndex(f) \in 1..(Len(f.sections) - 1)
    /\ f.sections[TextIndex(f)].size = Len(f.text)
    /\ f.text # << >>

(* The constructor throws for any other file.                              *)
Opens(f) == f.kind = "riscv"

Word(o) == o + 1
Zero == 0

EmptyImage == [a \in Addresses |-> Zero]

-----------------------------------------------------------------------------
(* The stream.  load is its position and failbit with the image read so    *)
(* far, and whether getDataSections has returned.                          *)

Seek(load, o) == IF load.fail THEN load ELSE [load EXCEPT !.pos = o]

Left(f, load) == IF load.fail \/ load.pos > f.size THEN 0 ELSE f.size - load.pos

Read(f, load, addr, size) ==
  LET got == IF size <= Left(f, load) THEN size ELSE Left(f, load)
  IN  [load EXCEPT
         !.data = [a \in Addresses |->
                     IF a \in addr..(addr + got - 1)
                     THEN Word(load.pos + a - addr) ELSE load.data[a]],
         !.pos  = @ + got,
         !.fail = @ \/ got < size]

Cleared(load, section) ==
  [load EXCEPT !.data = [a \in Addresses |->
                           IF a \in section.addr..(section.addr + section.size - 1)
                           THEN Zero ELSE load.data[a]]]

-----------------------------------------------------------------------------
(* getTextSection leaves the stream behind the text.                       *)
getTextSection(f, data) ==
  LET section == f.sections[TextIndex(f)]
  IN  [pos |-> section.offset + section.size, fail |-> FALSE, done |-> FALSE,
       data |-> data]

(* The sections before .text are read from wherever the stream stands.     *)
ReadBefore(f, load) ==
  FoldLeft(LAMBDA l, s : Read(f, l, s.addr, s.size),
           load, SubSeq(f.sections, 1, TextIndex(f) - 1))

ReadHeader(f, load) == Read(f, Seek(load, 0), HeaderAddr, HeaderSize)

ZeroedSections == {".sbss", ".bss", ".tbss"}

ReadSection(f, load, section) ==
  LET read == Read(f, Seek(load, section.offset), section.addr, section.size)
  IN  [read EXCEPT !.done = read.fail]

(* A section behind .text; the first that cannot be read ends it all.      *)
LoadSection(f, load, section) ==
  IF load.done \/ section.addr = 0 THEN load
  ELSE IF section.name \in ZeroedSections THEN Cleared(load, section)
  ELSE ReadSection(f, load, section)

SectionsBehind(f) == SubSeq(f.sections, TextIndex(f) + 1, Len(f.sections))

(* Mutant: what is to be zero is cleared when everything has been read.    *)
ReadBehindThenClear(f, load) ==
  LET Zeroed(s) == s.name \in ZeroedSections
      Load(l, s) == LoadSection(f, l, s)
  IN  FoldLeft(Load,
               FoldLeft(Load, load,
                        SelectSeq(SectionsBehind(f), LAMBDA s : ~Zeroed(s))),
               SelectSeq(SectionsBehind(f), Zeroed))

ReadBehind(f, load) ==
  FoldLeft(LAMBDA l, s : LoadSection(f, l, s), load, SectionsBehind(f))

getDataSections(f, load) == ReadBehind(f, ReadHeader(f, ReadBefore(f, load)))

-----------------------------------------------------------------------------
(* The cursor's view of the text: its last word is never read.             *)
getNextInstruction(f, pc) ==
  LET offset == pc - f.sections[TextIndex(f)].addr
  IN  IF offset \in 0..(Len(f.text) - 2) THEN f.text[offset + 1] ELSE NoInst
=============================================================================
