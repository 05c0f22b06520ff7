-------------------------------- MODULE Symbols --------------------------------
(***************************************************************************)
(* The symbol table of the ELF file gcc leaves (src/elfpe/objectfile.cpp): *)
(* symbols by number and by name, the place allocateComdat gives a common  *)
(* symbol behind .bss, and the address relocations and the listing take    *)
(* for a symbol.                                                           *)
(*                                                                         *)
(* A symbol is [name, value, size, section, local].  Names are numbers in  *)
(* the order of std::map, 0 being the empty name.  ELF keeps local symbols *)
(* in front of the others.                                                 *)
(***************************************************************************)
EXTENDS Integers, Sequences, SequencesExt

Common == 65522      \* SHN_COMMON, 0xfff2: the value is the symbol's alignment
Absolute == 65521    \* SHN_ABS, 0xfff1

-----------------------------------------------------------------------------
\* populateSymbolTable: insert keeps the first symbol of a name.
ByNameLast(table) ==                                        \* mutated
  [name \in {table[j].name : j \in 1..Len(table)} |->
     table[SelectLastInSeq(table, LAMBDA s : s.name = name)]]

ByName(table) ==
  [name \in {table[j].name : j \in 1..Len(table)} |->
     table[SelectInSeq(table, LAMBDA s : s.name = name)]]

RoundUp4(n) == ((n + 3) \div 4) * 4

\* allocateComdat: the commons one behind the other in the order of their names,
\* each in as many bytes as its alignment; the offsets by name, and the new size
\* of .bss.
PlaceCommonPacked(comdat, name, symbol) ==                  \* mutated
  [offsets |-> [n \in DOMAIN comdat.offsets \cup {name} |->
                  IF n = name THEN comdat.size ELSE comdat.offsets[n]],
   size    |-> comdat.size + symbol.value]

PlaceCommon(comdat, name, symbol) ==
  [offsets |-> [n \in DOMAIN comdat.offsets \cup {name} |->
                  IF n = name THEN comdat.size ELSE comdat.offsets[n]],
   size    |-> comdat.size + RoundUp4(symbol.value)]

allocateComdat(table, bssSize) ==
  LET names == SetToSortSeq({n \in DOMAIN ByName(table) : ByName(table)[n].section = Common}, <)
  IN  FoldLeft(LAMBDA comdat, name : PlaceCommon(comdat, name, ByName(table)[name]),
               [offsets |-> <<>>, size |-> RoundUp4(bssSize)], names)

-----------------------------------------------------------------------------
\* The sections' addresses, and 0 for everything that is not a loaded section.
RvaOf(rvas, section) == IF section \in DOMAIN rvas THEN rvas[section] ELSE 0

\* SingleRelocSection: a symbol whose name is that of a placed common is taken for
\* the common.
Resolved(symbol, offsets, bss, rvas) ==
  IF symbol.name \in DOMAIN offsets THEN RvaOf(rvas, bss) + offsets[symbol.name]
  ELSE RvaOf(rvas, symbol.section) + symbol.value

Unlisted == -1
Crashed == -2

\* listSymbols: what it may print for a name: an address, or none (Unlisted).  For one
\* of a section that is not mapped, also for an undefined one, getSection(-1) reads in
\* front of the vector of the file's "sections" sections: whatever is found there, a
\* line without an address follows, or elfpe crashes.
Listed(symbol, offsets, bss, rvas, sections) ==
  LET placed  == symbol.name \in DOMAIN offsets
      section == IF placed THEN bss ELSE symbol.section
      offset  == IF placed THEN offsets[symbol.name] ELSE symbol.value
  IN  IF section \in DOMAIN rvas THEN {rvas[section] + offset}
      ELSE IF symbol.section = Absolute THEN {symbol.value}
      ELSE IF symbol.section >= sections THEN {Unlisted}
      ELSE {Unlisted, Crashed}

=============================================================================
