---------------------------- MODULE ImageLayout ----------------------------
(***************************************************************************)
(* The path of an image through elfpe after gcc has produced the ELF file: *)
(* main (elfpe.cpp) grows .bss by the common symbols, assigns addresses,   *)
(* relocates against them, appends .reloc, assigns the addresses a second  *)
(* time, builds the PE header from the second assignment, appends it as    *)
(* .peheader and writes the sections out (coff.cpp).                       *)
(*                                                                         *)
(* Three walks over the same sections have to agree without sharing        *)
(* anything: getSectionRvas, which places them in memory and runs twice,   *)
(* createHeaderSection, which tells the loader where their bytes are in    *)
(* the file, and PECoffExecutable, which puts the bytes there.             *)
(***************************************************************************)
EXTENDS Align, Sequences, FiniteSets

CONSTANTS
  SectionAlign,  \* --section-alignment, a power of two
  FileAlign,     \* --file-alignment, a power of two
  RawHeader,     \* 0x80 + 0x200, the header size computeSize rounds up
  TableStart,    \* the byte of the header where the section table begins
  EntrySize,     \* bytes of a section table entry
  MaxSize,       \* bound: no section, grown or added, is larger
  MaxSections,   \* bound: sections of an input, .reloc and .peheader apart
  Inputs,        \* section sequences gcc's output may have
  Commons,       \* bytes the common symbols of an input may need
  RelocSizes,    \* sizes of the rendered .reloc section
  Offsets        \* offsets of the entry point in its section

\* The names the code looks for; ".other" stands for all the rest.
SectionNames == {".text", ".data", ".bss", ".edata", ".idata", ".rsrc",
                 ".reloc", ".peheader", ".other"}

Section == [name : SectionNames, nobits : BOOLEAN, alloc : BOOLEAN, size : 0..MaxSize]

ASSUME AlignAssumption ==
  /\ SectionAlign \in Nat \ {0}
  /\ FileAlign \in Nat \ {0}

ASSUME HeaderAssumption ==
  /\ RawHeader \in Nat
  /\ TableStart \in Nat
  /\ EntrySize \in Nat
  /\ TableStart <= RawHeader
  /\ RawHeader + SectionAlign <= MaxSize

ASSUME InputAssumption ==
  /\ MaxSize \in Nat
  /\ MaxSections \in Nat
  /\ \A input \in Inputs :
       /\ input \in Seq(Section)
       /\ Len(input) <= MaxSections
       /\ \A k \in 1..Len(input) :
            input[k].name = ".bss" =>
              \A c \in Commons : input[k].size + 3 + c <= MaxSize
  /\ Commons \subseteq Nat
  /\ RelocSizes \subseteq 0..MaxSize
  /\ Offsets \subseteq Nat

\* No sum of sizes leaves the 32 bits they are kept in.
ASSUME NoWrap == (MaxSections + 3) * (MaxSize + SectionAlign + FileAlign) < Word

VARIABLES
  pc,        \* where main is
  elf,       \* the sections of the file; elf[k] is ELF section k
  symbol,    \* entry_sym: the section and offset of the entry point, or NoSymbol
  i,         \* the loop index of the walk in progress
  start,     \* getSectionRvas: where the next section goes
  rvas,      \* sectionRvas: sequence of [index, rva]
  used,      \* the mapping the relocations were applied with
  header,    \* the fields of the PE header that createHeaderSection fills
  paddr,     \* createHeaderSection: the file offset for the next entry
  file       \* the extents written: sequence of [index, pos, len, end]

vars == <<pc, elf, symbol, i, start, rvas, used, header, paddr, file>>

NoSymbol == [index |-> 0, offset |-> 0]
NoHeader == [imageSize |-> 0, entry |-> 0, dirs |-> <<>>, table |-> <<>>]
NoFile   == <<>>
PeHeader == 0     \* the index under which file lists the header itself

-----------------------------------------------------------------------------
(* ElfPeHeader's members.  The class declares its constructor with         *)
(* (imagebase, imagealign, filealign, ...) and main passes the options in  *)
(* that order; the definition names the same parameters filealign and      *)
(* sectionalign, the other way round, and that order is what binds.        *)

filealign    == SectionAlign
sectionalign == FileAlign

ComputeSizeNoTable == Roundup(TableStart, filealign)       \* mutated

ComputeSize == Roundup(RawHeader, filealign)

RoundUp4(x) == 4 * ((x + 3) \div 4)

\* sections_by_name.insert: of several sections with a name the first is found.
Named(name) == {k \in 1..Len(elf) :
                  elf[k].name = name /\ \A j \in 1..(k-1) : elf[j].name # name}

\* The directory looked up in the mapping from before .reloc existed.
NamedSectionInfoStale(name) ==                             \* mutated
  LET hits == {m \in 1..Len(used) : used[m].index \in Named(name)
                                      /\ elf[used[m].index].size # 0}
  IN  IF hits = {} THEN <<0, 0>>
      ELSE LET m == CHOOSE m \in hits : TRUE
           IN  <<used[m].rva, elf[used[m].index].size>>

\* getNamedSectionInfo: <<rva, size>> of the named section, or <<0, 0>>.
NamedSectionInfo(name) ==
  LET hits == {m \in 1..Len(rvas) : rvas[m].index \in Named(name)
                                      /\ elf[rvas[m].index].size # 0}
  IN  IF hits = {} THEN <<0, 0>>
      ELSE LET m == CHOOSE m \in hits : TRUE
           IN  <<rvas[m].rva, elf[rvas[m].index].size>>

DirNames == {".text", ".data", ".edata", ".idata", ".rsrc", ".reloc"}

\* The symbol's section number taken for a position in the mapping.
EntryPointByPosition ==                                    \* mutated
  IF symbol.index \in 1..Len(rvas) THEN rvas[symbol.index].rva + symbol.offset
  ELSE ComputeSize

\* getEntryPoint: the symbol's address if its section is mapped, else the
\* first byte after the headers.
EntryPoint ==
  LET hits == {m \in 1..Len(rvas) : rvas[m].index = symbol.index}
  IN  IF hits = {} THEN ComputeSize
      ELSE rvas[CHOOSE m \in hits : TRUE].rva + symbol.offset

\* addSection: the new section is the last one of the file.
WithSectionFirst(name, size) ==                            \* mutated
  <<[name |-> name, nobits |-> FALSE, alloc |-> TRUE, size |-> size]>> \o elf

WithSection(name, size) ==
  Append(elf, [name |-> name, nobits |-> FALSE, alloc |-> TRUE, size |-> size])

\* What getSectionRvas records of section k and where it goes on after it.
MappingFromZero(k) == [index |-> k - 1, rva |-> start]     \* mutated

Mapping(k) == [index |-> k, rva |-> start]

NextStartSkipsBss(s) == IF s.nobits THEN start             \* mutated
                        ELSE Roundup(start + s.size, sectionalign)
NextStartPacked(s) == start + s.size                       \* mutated

NextStart(s) == Roundup(start + s.size, sectionalign)

\* The bytes createHeaderSection says a section has in the file.
PhysicalSizeOfAll(s) == Roundup(s.size, filealign)         \* mutated

PhysicalSize(s) == IF s.nobits THEN 0 ELSE Roundup(s.size, filealign)

\* What PECoffExecutable writes.
Stored(s) == s.name # ".peheader" /\ ~s.nobits /\ s.alloc

FileEnd == file[Len(file)].end

-----------------------------------------------------------------------------
(* The steps of main, each loop one section at a time.                     *)

Init ==
  /\ pc = "comdat"
  /\ elf \in Inputs
  /\ symbol \in {NoSymbol} \cup
       {s \in [index : 1..Len(elf), offset : Offsets] : s.offset < elf[s.index].size}
  /\ i = 1
  /\ start = ComputeSize
  /\ rvas = <<>>
  /\ used = <<>>
  /\ header = NoHeader
  /\ paddr = 0
  /\ file = NoFile

\* allocateComdat: common symbols go behind .bss, which grows by them.
AllocateComdat ==
  /\ pc = "comdat"
  /\ \E bss \in Named(".bss"), c \in Commons :
       elf' = [elf EXCEPT ![bss].size = RoundUp4(@) + c]
  /\ pc' = "layout"
  /\ UNCHANGED <<symbol, i, start, rvas, used, header, paddr, file>>

\* allocateComdat gives up with exit(1) when there is no .bss.
BssMissing ==
  /\ pc = "comdat"
  /\ Named(".bss") = {}
  /\ pc' = "exit"
  /\ UNCHANGED <<elf, symbol, i, start, rvas, used, header, paddr, file>>

\* getSectionRvas, one allocated section.
MapSection ==
  /\ pc \in {"layout", "relayout"}
  /\ i <= Len(elf)
  /\ elf[i].alloc
  /\ rvas' = Append(rvas, Mapping(i))
  /\ start' = NextStart(elf[i])
  /\ i' = i + 1
  /\ UNCHANGED <<pc, elf, symbol, used, header, paddr, file>>

\* getSectionRvas, a section without SHF_ALLOC.
PassSectionStuck ==                                        \* mutated
  /\ pc \in {"layout", "relayout"}
  /\ i <= Len(elf)
  /\ ~elf[i].alloc
  /\ UNCHANGED vars

PassSection ==
  /\ pc \in {"layout", "relayout"}
  /\ i <= Len(elf)
  /\ ~elf[i].alloc
  /\ i' = i + 1
  /\ UNCHANGED <<pc, elf, symbol, start, rvas, used, header, paddr, file>>

\* The first assignment is complete: ProcessRelocSections patches the sections
\* with it, its base relocations become .reloc, and getSectionRvas starts anew.
AddRelocSection ==
  /\ pc = "layout"
  /\ i > Len(elf)
  /\ used' = rvas
  /\ \E n \in RelocSizes :
       elf' = WithSection(".reloc", n)
  /\ rvas' = <<>>
  /\ start' = ComputeSize
  /\ i' = 1
  /\ pc' = "relayout"
  /\ UNCHANGED <<symbol, header, paddr, file>>

\* createHeaderSection up to the section table.
BeginHeader ==
  /\ pc = "relayout"
  /\ i > Len(elf)
  /\ header' = [imageSize |-> start,
                entry     |-> EntryPoint,
                dirs      |-> [n \in DirNames |-> NamedSectionInfo(n)],
                table     |-> <<>>]
  /\ paddr' = ComputeSize
  /\ i' = 1
  /\ pc' = "table"
  /\ UNCHANGED <<elf, symbol, start, rvas, used, file>>

\* createHeaderSection, one section table entry.
WriteEntry ==
  /\ pc = "table"
  /\ i <= Len(rvas)
  /\ LET s == elf[rvas[i].index]
         entry == [index |-> rvas[i].index, rva |-> rvas[i].rva, size |-> s.size,
                   paddr |-> paddr, psize |-> PhysicalSize(s)]
     IN  /\ header' = [header EXCEPT !.table = Append(@, entry)]
         /\ paddr' = paddr + PhysicalSize(s)
  /\ i' = i + 1
  /\ UNCHANGED <<pc, elf, symbol, start, rvas, used, file>>

\* addSection(".peheader") with getData(), then the head of PECoffExecutable:
\* it writes the section's data first.
AddPeHeader ==
  /\ pc = "table"
  /\ i > Len(rvas)
  /\ elf' = WithSection(".peheader", ComputeSize)
  /\ file' = <<[index |-> PeHeader, pos |-> 0, len |-> ComputeSize, end |-> ComputeSize]>>
  /\ i' = 1
  /\ pc' = "write"
  /\ UNCHANGED <<symbol, start, rvas, used, header, paddr>>

\* PECoffExecutable, one section with bytes in the file, padded to file_align.
WriteSection ==
  /\ pc = "write"
  /\ i <= Len(elf)
  /\ Stored(elf[i])
  /\ file' = Append(file, [index |-> i, pos |-> FileEnd, len |-> elf[i].size,
                           end |-> FileEnd + Roundup(elf[i].size, FileAlign)])
  /\ i' = i + 1
  /\ UNCHANGED <<pc, elf, symbol, start, rvas, used, header, paddr>>

\* PECoffExecutable, a section it leaves out.
SkipSection ==
  /\ pc = "write"
  /\ i <= Len(elf)
  /\ ~Stored(elf[i])
  /\ i' = i + 1
  /\ UNCHANGED <<pc, elf, symbol, start, rvas, used, header, paddr, file>>

\* fclose and Write, which renames the finished file over the output.
CloseFile ==
  /\ pc = "write"
  /\ i > Len(elf)
  /\ pc' = "done"
  /\ UNCHANGED <<elf, symbol, i, start, rvas, used, header, paddr, file>>

Next == \/ AllocateComdat \/ BssMissing
        \/ MapSection \/ PassSection \/ AddRelocSection
        \/ BeginHeader \/ WriteEntry \/ AddPeHeader
        \/ WriteSection \/ SkipSection \/ CloseFile

\* One sequential program that blocks on nothing: it takes its next step.
Spec == Init /\ [][Next]_vars /\ WF_vars(Next)
-----------------------------------------------------------------------------
(* What has to be true of the image.                                       *)

Built == pc \in {"write", "done"}      \* the header is complete

Address   == 0..(Word - 1)
Placement == [index : Nat, rva : Address]
Entry     == [index : Nat, rva : Address, size : 0..MaxSize,
              paddr : Address, psize : Address]
Extent    == [index : Nat, pos : Address, len : 0..MaxSize, end : Address]

\* Every variable holds a value the code could store there, and every section
\* number recorded is that of a section.
TypeOK ==
  /\ pc \in {"comdat", "exit", "layout", "relayout", "table", "write", "done"}
  /\ elf \in Seq(Section)
  /\ symbol \in [index : Nat, offset : Nat]
  /\ i \in 1..(Len(elf) + 1)
  /\ start \in Address
  /\ rvas \in Seq(Placement)
  /\ used \in Seq(Placement)
  /\ header \in [imageSize : Address, entry : Nat,
                 dirs : {<<>>} \cup [DirNames -> Nat \X Nat], table : Seq(Entry)]
  /\ paddr \in Address
  /\ file \in Seq(Extent)
  /\ \A k \in 1..Len(rvas) : rvas[k].index \in 1..Len(elf)
  /\ \A k \in 1..Len(used) : used[k].index \in 1..Len(elf)

End(m) == m.rva + elf[m.index].size

\* Sections are placed in the order of their numbers, above the headers, none
\* over another, whatever mixture of .bss, empty and unallocated sections the
\* file holds; what is placed ends below SizeOfImage.
SectionsApart ==
  /\ \A k \in 1..Len(rvas) : ComputeSize <= rvas[k].rva /\ End(rvas[k]) <= start
  /\ \A k, l \in 1..Len(rvas) :
       k < l => rvas[k].index < rvas[l].index /\ End(rvas[k]) <= rvas[l].rva

\* The code was relocated with the mapping of the first getSectionRvas; the
\* loader maps by the table made from the second.  Adding .reloc in between
\* moves no section.
RelocatedAsLoaded ==
  Built => /\ Len(header.table) = Len(used) + 1
           /\ \A k \in 1..Len(used) :
                header.table[k].index = used[k].index /\ header.table[k].rva = used[k].rva

\* The section table stays inside the buffer that computeSize sized, which is
\* also the space SizeOfHeaders and the first PointerToRawData leave for it.
HeaderFits == TableStart + EntrySize * Len(header.table) <= ComputeSize

\* createHeaderSection predicts file offsets that PECoffExecutable reaches by
\* writing: for every section with bytes in the file they are the same.
RawOffsetsMatch ==
  Built => \A f \in {file[k] : k \in 2..Len(file)} :
             \E m \in 1..Len(header.table) :
               /\ header.table[m].index = f.index
               /\ header.table[m].paddr = f.pos
               /\ header.table[m].psize = f.end - f.pos

\* A data directory is empty or is exactly the section of its name as the
\* table maps it, and the relocations the loader needs are found.
DirectoriesMapped ==
  Built =>
    /\ \A n \in DirNames :
         \/ header.dirs[n] = <<0, 0>>
         \/ \E m \in 1..Len(header.table) :
              /\ elf[header.table[m].index].name = n
              /\ header.dirs[n] = <<header.table[m].rva, header.table[m].size>>
    /\ LET reloc == header.table[Len(header.table)]
       IN  reloc.size # 0 => header.dirs[".reloc"] = <<reloc.rva, reloc.size>>

\* The entry point in the header is the address the relocated code knows the
\* entry symbol by, or the first mapped byte when the symbol has no address.
EntryAgrees ==
  Built =>
    \/ \E m \in 1..Len(used) : /\ used[m].index = symbol.index
                               /\ header.entry = used[m].rva + symbol.offset
    \/ /\ \A m \in 1..Len(used) : used[m].index # symbol.index
       /\ header.entry = ComputeSize

\* getSectionRvas hands out addresses the way Regions promises, on multiples
\* of the SectionAlignment the header records.
Mapped == INSTANCE Regions WITH
            Floor <- ComputeSize, Unit <- sectionalign,
            regions <- {[owner |-> rvas[k].index, lo |-> rvas[k].rva, hi |-> End(rvas[k])] :
                          k \in 1..Len(rvas)}
\* PlacesRegions: getSectionRvas, run twice, implements Regions.
PlacesRegions == Mapped!Spec

\* elfpe comes to an end: a file is written or .bss was missing.
Terminates == <>(pc \in {"done", "exit"})

=============================================================================
