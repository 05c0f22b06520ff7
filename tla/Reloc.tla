------------------------------- MODULE Reloc -------------------------------
(***************************************************************************)
(* Relocation (src/elfpe/reloc.cpp): SingleReloc patches one field of a    *)
(* section and notes in a RelocationSection what a loader has to change    *)
(* if it puts the image somewhere else.  RelocSection renders the notes.   *)
(*                                                                         *)
(* Memory is a function from addresses to cells of 16 bits (Half values);  *)
(* an address counts cells, so a page has 2048 of them in the code.  A     *)
(* 32-bit word is two cells, the low one first.  "shadow" is the memory of *)
(* the same program linked for a base Delta higher: what a loader has to   *)
(* turn "mem" into.                                                        *)
(***************************************************************************)
EXTENDS Integers, Sequences

CONSTANTS
  Half,      \* values of a 16-bit cell
  Page,      \* addresses of a page, which is what one block covers
  Low, Top,  \* a REL24 field is the multiple of Low below Top in its word
  Base,      \* --image-base
  Delta,     \* how much higher the loader puts the image
  Sections,  \* section number -> [rva, size, alloc, rsrc]; rva 0 if unmapped
  Bss,       \* the number of .bss
  Fill,      \* values cells may hold before relocation
  Inputs     \* sequences of relocations

Word == Half * Half

\* The loader's granularity is 64 KB, a multiple of Half.
ASSUME SizeAssumption ==
  /\ {Half, Page, Low, Top} \subseteq Nat \ {0}
  /\ {Base, Delta} \subseteq Nat
  /\ Half % 2 = 0 /\ Delta % Half = 0
  /\ Word % Top = 0 /\ Top % Low = 0 /\ Top % 2 = 0

\* The types SingleReloc has a case for; it does nothing for any other, as for NONE.
RelocTypes == {"NONE", "ADDR32", "REL32", "UADDR32", "REL24", "ADDR16_LO", "ADDR16_HA"}

Relocation ==
  [target : DOMAIN Sections, offset : Nat, type : RelocTypes, addend : Int,
   symbol : [section : Nat, value : Nat, comdat : Nat \cup {-1}]]

\* getSectionRvas has mapped the loaded sections (ImageLayout): none covers another.
ASSUME InputAssumption ==
  /\ Sections \in [DOMAIN Sections -> [rva : Nat, size : Nat, alloc : BOOLEAN, rsrc : BOOLEAN]]
  /\ \A s, t \in DOMAIN Sections :
       s # t /\ Sections[s].alloc /\ Sections[t].alloc =>
         \/ Sections[s].rva + Sections[s].size <= Sections[t].rva
         \/ Sections[t].rva + Sections[t].size <= Sections[s].rva
  /\ Bss \in Nat
  /\ Fill \subseteq 0..(Half - 1)
  /\ \A relocs \in Inputs : relocs \in Seq(Relocation)

VARIABLES
  pc,        \* "relocating", or "aborted" by TargetPtr's assert
  input,     \* the relocations, those of all SHT_RELA sections in order
  n,         \* the next one
  fill,      \* what every cell held before
  mem,       \* the sections' contents
  shadow,    \* the same for a link at Base + Delta
  slices     \* RelocationSection: page -> (offset -> type)

vars == <<pc, input, n, fill, mem, shadow, slices>>

-----------------------------------------------------------------------------
Addresses == UNION {Sections[s].rva .. (Sections[s].rva + Sections[s].size - 1) :
                      s \in {t \in DOMAIN Sections : Sections[t].alloc}}

\* FindRVA: 0 for a section that is not mapped, and for the section numbers of
\* undefined, absolute and common symbols.
FindRVA(s) == IF s \in DOMAIN Sections THEN Sections[s].rva ELSE 0

\* SingleRelocSection looks the symbol's name up among the commons that
\* allocateComdat placed; symbol.comdat is the offset it found, or -1.
SymbolRva(symbol) == IF symbol.comdat # -1 THEN FindRVA(Bss) + symbol.comdat
                     ELSE FindRVA(symbol.section) + symbol.value

\* S + A and P for a link at the given base, and S + A - P.
Target(r, base) == (SymbolRva(r.symbol) + base + r.addend) % Word
Site(r) == FindRVA(r.target) + r.offset
Distance(r) == (SymbolRva(r.symbol) + r.addend - Site(r)) % Word

WordAt(m, a) == m[a] + Half * m[a + 1]
PutWord(m, a, w) == [m EXCEPT ![a] = w % Half, ![a + 1] = (w % Word) \div Half]

PutHalfAsWord(m, a, v) == PutWord(m, a, v)                 \* mutated
PutHalf(m, a, v) == [m EXCEPT ![a] = v % Half]

\* The bits of a word that ~ADDR24_MASK selects.
Field24(w) == (w % Top) - (w % Low)

Branch(old, d) == old - Field24(old) + Field24(d)

HighUnadjusted(w) == w \div Half                           \* mutated
HighCarry(w) == (w + Half \div 2) \div Half                 \* mutated
HighAdjusted(w) == ((w + Half \div 2) % Word) \div Half

\* SingleReloc: memory m after relocation r, linked at base.
Patched(m, r, base) ==
  LET p == Site(r)
  IN  CASE r.type = "ADDR32" -> PutWord(m, p, Target(r, base))
        [] r.type = "REL32"  -> PutWord(m, p, Distance(r))
        [] r.type = "UADDR32" ->
             PutWord(m, p, (Target(r, base) - base
                              + (IF Sections[r.target].rsrc THEN WordAt(m, p) ELSE 0)) % Word)
        [] r.type = "REL24"  -> PutWord(m, p, Branch(WordAt(m, p), Distance(r)))
        [] r.type = "ADDR16_LO" -> PutHalf(m, p, Target(r, base))
        [] r.type = "ADDR16_HA" -> [m EXCEPT ![p] = HighAdjusted(Target(r, base))]
        [] OTHER -> m

\* The base relocation type SingleReloc hands to AddReloc, 0 when it calls none.
BaseTypeNoHigh(r) == CASE r.type = "ADDR32"    -> 3        \* mutated
                       [] r.type = "ADDR16_LO" -> 2
                       [] OTHER                -> 0
BaseType(r) == CASE r.type = "ADDR32"    -> 3
                 [] r.type = "ADDR16_LO" -> 2
                 [] r.type = "ADDR16_HA" -> 4
                 [] OTHER                -> 0

NotedAlone(sl, a, type) ==                                 \* mutated
  LET page == a - (a % Page)
  IN  [p \in DOMAIN sl \cup {page} |-> IF p = page THEN [o \in {a % Page} |-> type] ELSE sl[p]]

\* RelocationSection::add: the slice of the page is created when it is missing;
\* insert keeps the first relocation of an offset.
Noted(sl, a, type) ==
  LET page == a - (a % Page)
      old  == IF page \in DOMAIN sl THEN sl[page] ELSE <<>>
      new  == [o \in DOMAIN old \cup {a % Page} |-> IF o \in DOMAIN old THEN old[o] ELSE type]
  IN  [p \in DOMAIN sl \cup {page} |-> IF p = page THEN new ELSE sl[p]]

-----------------------------------------------------------------------------
Init ==
  /\ pc = "relocating"
  /\ input \in Inputs
  /\ n = 1
  /\ fill \in Fill
  /\ mem = [a \in Addresses |-> fill]
  /\ shadow = mem
  /\ slices = <<>>

Current == input[n]

\* Relocations of a section that is not loaded are not applied.
SkipReloc ==
  /\ pc = "relocating"
  /\ n <= Len(input)
  /\ ~Sections[Current.target].alloc
  /\ n' = n + 1
  /\ UNCHANGED <<pc, input, fill, mem, shadow, slices>>

\* SingleReloc.
ApplyReloc ==
  /\ pc = "relocating"
  /\ n <= Len(input)
  /\ Sections[Current.target].alloc
  /\ Current.offset < Sections[Current.target].size
  /\ mem' = Patched(mem, Current, Base)
  /\ shadow' = Patched(shadow, Current, Base + Delta)
  /\ slices' = IF BaseType(Current) = 0 THEN slices
               ELSE Noted(slices, Site(Current), BaseType(Current))
  /\ n' = n + 1
  /\ UNCHANGED <<pc, input, fill>>

\* TargetPtr asserts that the address is inside the section.
AbortReloc ==
  /\ pc = "relocating"
  /\ n <= Len(input)
  /\ Sections[Current.target].alloc
  /\ Current.offset >= Sections[Current.target].size
  /\ pc' = "aborted"
  /\ UNCHANGED <<input, n, fill, mem, shadow, slices>>

Next == SkipReloc \/ ApplyReloc \/ AbortReloc

Spec == Init /\ [][Next]_vars /\ WF_vars(Next)

-----------------------------------------------------------------------------
(* What a set of <<address, type>> says of memory, however it is written    *)
(* down; RelocSection has the section, and a loader that reads it.          *)

\* Type 3 adds Delta to a word, 2 to the low half of one, 4 to the high half.
Rebased(m, fixups) ==
  [a \in DOMAIN m |->
     CASE <<a, 3>> \in fixups     -> (WordAt(m, a) + Delta) % Half
       [] <<a - 1, 3>> \in fixups -> ((WordAt(m, a - 1) + Delta) % Word) \div Half
       [] <<a, 2>> \in fixups     -> (m[a] + Delta) % Half
       [] <<a, 4>> \in fixups     -> (m[a] + Delta \div Half) % Half
       [] OTHER                   -> m[a]]

-----------------------------------------------------------------------------
(* Properties.                                                             *)

\* What RelocationSection has been told: set of <<address, type>>.
Notes == UNION {{<<page + o, slices[page][o]>> : o \in DOMAIN slices[page]} : page \in DOMAIN slices}

Applied == {k \in 1..(n - 1) : Sections[input[k].target].alloc}

Width(r) == IF r.type \in {"ADDR16_LO", "ADDR16_HA"} THEN 1
            ELSE IF r.type = "NONE" THEN 0 ELSE 2

\* Every cell is a 16-bit value, in both links.
TypeOK ==
  /\ pc \in {"relocating", "aborted"}
  /\ n \in 1..(Len(input) + 1)
  /\ mem \in [Addresses -> 0..(Half - 1)]
  /\ shadow \in [Addresses -> 0..(Half - 1)]
  /\ \A p \in DOMAIN slices : \A o \in DOMAIN slices[p] : o < Page /\ slices[p][o] \in {2, 3, 4}

(* What the theorems ask of the relocations. *)

\* TargetPtr lets it through, and SingleReloc applies it.
Reached(r) == Sections[r.target].alloc /\ r.offset < Sections[r.target].size

\* TargetPtr looks at the first byte of a field only; no field straddles the end of
\* its section.
FieldsFit ==
  \A relocs \in Inputs : \A k \in 1..Len(relocs) :
    Reached(relocs[k]) =>
      relocs[k].offset + Width(relocs[k]) <= Sections[relocs[k].target].size

\* A linker emits one relocation for a field, and fields do not overlap.
FieldsClear ==
  \A relocs \in Inputs : \A k, l \in 1..Len(relocs) :
    k # l /\ Reached(relocs[k]) /\ Reached(relocs[l]) =>
      \/ relocs[k].target # relocs[l].target
      \/ relocs[k].offset + Width(relocs[k]) <= relocs[l].offset
      \/ relocs[l].offset + Width(relocs[l]) <= relocs[k].offset

Signed(v, span) == IF v < span \div 2 THEN v ELSE v - span

\* The instruction or pointer that was relocated names the target: an absolute
\* word holds it, a relative one leads there from its own place, a branch in
\* range goes there and is still the same branch, and a high half gives it when
\* the sign-extended low half is added, as the processor does.
FieldsReach ==
  \A k \in Applied :
    LET r == input[k]
        p == Site(r)
        old == fill + Half * fill
        t == Target(r, Base)
    IN  CASE r.type = "ADDR32" -> WordAt(mem, p) = t
          [] r.type = "REL32" -> (WordAt(mem, p) + p + Base) % Word = t
          [] r.type = "UADDR32" ->
               (WordAt(mem, p) + Base) % Word =
                 (t + (IF Sections[r.target].rsrc THEN old ELSE 0)) % Word
          [] r.type = "REL24" ->
               LET d == Signed(Distance(r), Word)
               IN  /\ WordAt(mem, p) - Field24(WordAt(mem, p)) = old - Field24(old)
                   /\ d % Low = 0 /\ d \in (-(Top \div 2))..(Top \div 2 - 1) =>
                        (Base + p + Signed(Field24(WordAt(mem, p)), Top)) % Word = t
          [] r.type = "ADDR16_LO" -> mem[p] = t % Half
          [] r.type = "ADDR16_HA" ->
               (mem[p] * Half + Signed(t % Half, Half)) % Word = t
          [] OTHER -> TRUE

\* Nothing but the relocated fields changes.
UntouchedElsewhere ==
  \A a \in Addresses :
    (\A k \in Applied : a \notin Site(input[k])..(Site(input[k]) + Width(input[k]) - 1))
      => mem[a] = fill

\* After each relocation, not only at the end, the notes taken so far make up the
\* difference between the two links.
NotesComplete == Rebased(mem, Notes) = shadow

=============================================================================
