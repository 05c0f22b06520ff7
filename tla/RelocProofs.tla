----------------------------- MODULE RelocProofs -----------------------------
(***************************************************************************)
(* Theorems about Reloc: for every program and every size of cell, page    *)
(* and branch field, each relocated field reaches its target, nothing else *)
(* changes, and the notes for the loader are complete.                     *)
(***************************************************************************)
EXTENDS Reloc, Remainders

(* ---- what SingleReloc writes ---- *)

WordTypes == {"ADDR32", "REL32", "UADDR32", "REL24"}
HalfTypes == {"ADDR16_LO", "ADDR16_HA"}

\* The word and the half word that a relocation leaves where the old word was "old".
WordWritten(r, base, old) ==
  CASE r.type = "ADDR32"  -> Target(r, base)
    [] r.type = "REL32"   -> Distance(r)
    [] r.type = "UADDR32" ->
         (Target(r, base) - base + (IF Sections[r.target].rsrc THEN old ELSE 0)) % Word
    [] r.type = "REL24"   -> Branch(old, Distance(r))

HalfWritten(r, base) ==
  IF r.type = "ADDR16_LO" THEN Target(r, base) % Half ELSE HighAdjusted(Target(r, base))

Memory == [Addresses -> 0..(Half - 1)]

Field(r) == Site(r)..(Site(r) + Width(r) - 1)

(* ---- numbers ---- *)

LEMMA Numbers ==
  /\ Half \in Nat \ {0} /\ Page \in Nat \ {0} /\ Low \in Nat \ {0} /\ Top \in Nat \ {0}
  /\ Base \in Nat /\ Delta \in Nat /\ Bss \in Nat
  /\ Half % 2 = 0 /\ Delta % Half = 0
  /\ Word % Top = 0 /\ Top % Low = 0 /\ Top % 2 = 0
  /\ Word = Half * Half /\ Word \in Nat \ {0} /\ Half <= Word
<1>1. Half * Half \in Nat \ {0} /\ Half <= Half * Half
  <2>1. Half \in Nat \ {0}
    BY SizeAssumption
  <2> QED
    BY <2>1
<1> QED
  BY <1>1, SizeAssumption, InputAssumption DEF Word

LEMMA ModType ==
  ASSUME NEW a \in Int, NEW b \in Nat \ {0}
  PROVE  a % b \in Int /\ a % b \in Nat /\ a % b \in 0..(b - 1) /\ 0 <= a % b /\ a % b < b
<1>1. a % b \in 0..(b - 1)
  BY DivMod
<1> HIDE DEF Int
<1> QED
  BY <1>1

\* Half of an even number.
LEMMA Even ==
  ASSUME NEW b \in Nat \ {0}, b % 2 = 0
  PROVE  b \div 2 \in Nat /\ b = (b \div 2) + (b \div 2)
  BY SMT

LEMMA SectionTypes ==
  ASSUME NEW s \in DOMAIN Sections
  PROVE  /\ Sections[s].rva \in Nat /\ Sections[s].size \in Nat
         /\ Sections[s].alloc \in BOOLEAN /\ Sections[s].rsrc \in BOOLEAN
<1>1. Sections[s] \in [rva : Nat, size : Nat, alloc : BOOLEAN, rsrc : BOOLEAN]
  BY InputAssumption
<1> QED
  BY <1>1

LEMMA RvaType ==
  ASSUME NEW s
  PROVE  FindRVA(s) \in Nat
  BY SectionTypes DEF FindRVA

\* Where a relocation goes, and how much of memory it changes.
LEMMA RelocationTypes ==
  ASSUME NEW r \in Relocation, NEW base \in Int
  PROVE  /\ r.target \in DOMAIN Sections /\ r.offset \in Nat /\ r.addend \in Int
         /\ r.type \in RelocTypes
         /\ SymbolRva(r.symbol) \in Nat
         /\ Site(r) \in Nat /\ Site(r) = Sections[r.target].rva + r.offset
         /\ Target(r, base) \in 0..(Word - 1) /\ Distance(r) \in 0..(Word - 1)
         /\ r.type = "NONE" => Width(r) = 0
         /\ r.type \in HalfTypes => Width(r) = 1
         /\ r.type \in WordTypes => Width(r) = 2
         /\ Width(r) \in {0, 1, 2}
<1>1. /\ r.target \in DOMAIN Sections /\ r.offset \in Nat /\ r.addend \in Int
      /\ r.type \in RelocTypes
      /\ r.symbol \in [section : Nat, value : Nat, comdat : Nat \cup {-1}]
  BY DEF Relocation
<1>2. SymbolRva(r.symbol) \in Nat
  <2>1. r.symbol.value \in Nat /\ r.symbol.comdat \in Nat \cup {-1}
    BY <1>1
  <2>2. FindRVA(Bss) \in Nat /\ FindRVA(r.symbol.section) \in Nat
    BY RvaType
  <2>3. r.symbol.comdat # -1 => r.symbol.comdat \in Nat
    BY <2>1
  <2> QED
    BY <2>1, <2>2, <2>3 DEF SymbolRva
<1>3. Site(r) \in Nat /\ Site(r) = Sections[r.target].rva + r.offset
  BY <1>1, SectionTypes DEF Site, FindRVA
<1>4. Target(r, base) \in 0..(Word - 1)
  <2>1. SymbolRva(r.symbol) + base + r.addend \in Int
    BY <1>1, <1>2
  <2> QED
    BY <2>1, ModType, Numbers DEF Target
<1>5. Distance(r) \in 0..(Word - 1)
  <2>1. SymbolRva(r.symbol) + r.addend - Site(r) \in Int
    BY <1>1, <1>2, <1>3
  <2> QED
    BY <2>1, ModType, Numbers DEF Distance
<1>6. /\ r.type = "NONE" => Width(r) = 0
      /\ r.type \in HalfTypes => Width(r) = 1
      /\ r.type \in WordTypes => Width(r) = 2
      /\ Width(r) \in {0, 1, 2}
  BY DEF Width, HalfTypes, WordTypes
<1> QED
  BY <1>1, <1>2, <1>3, <1>4, <1>5, <1>6

\* A field that fits lies in memory.
LEMMA FieldInMemory ==
  ASSUME NEW r \in Relocation, Reached(r), r.offset + Width(r) <= Sections[r.target].size
  PROVE  /\ Field(r) \subseteq Addresses
         /\ r.type \in HalfTypes => Field(r) = {Site(r)}
         /\ r.type \in WordTypes => Field(r) = {Site(r), Site(r) + 1}
         /\ r.type = "NONE" => Field(r) = {}
<1>1. /\ r.target \in DOMAIN Sections /\ r.offset \in Nat
      /\ Site(r) \in Nat /\ Site(r) = Sections[r.target].rva + r.offset
      /\ r.type = "NONE" => Width(r) = 0
      /\ r.type \in HalfTypes => Width(r) = 1
      /\ r.type \in WordTypes => Width(r) = 2
      /\ Width(r) \in {0, 1, 2}
  BY RelocationTypes, Numbers
<1>2. Sections[r.target].rva \in Nat /\ Sections[r.target].size \in Nat
  BY <1>1, SectionTypes
<1>3. Field(r) \subseteq Sections[r.target].rva .. (Sections[r.target].rva + Sections[r.target].size - 1)
  <2> SUFFICES ASSUME NEW a \in Field(r)
               PROVE  a \in Sections[r.target].rva .. (Sections[r.target].rva + Sections[r.target].size - 1)
    OBVIOUS
  <2>1. a \in Int /\ Site(r) <= a /\ a <= Site(r) + Width(r) - 1
    BY <1>1 DEF Field
  <2> QED
    BY <1>1, <1>2, <2>1
<1>4. Sections[r.target].rva .. (Sections[r.target].rva + Sections[r.target].size - 1) \subseteq Addresses
  BY <1>1 DEF Addresses, Reached
<1>5. r.type \in HalfTypes => Field(r) = {Site(r)}
  BY <1>1 DEF Field
<1>6. r.type \in WordTypes => Field(r) = {Site(r), Site(r) + 1}
  BY <1>1 DEF Field
<1>7. r.type = "NONE" => Field(r) = {}
  BY <1>1 DEF Field
<1> QED
  BY <1>3, <1>4, <1>5, <1>6, <1>7

(* ---- words in memory ---- *)

\* A word is its two cells.
LEMMA WordCells ==
  ASSUME NEW m \in Memory, NEW p \in Int, p \in Addresses, p + 1 \in Addresses
  PROVE  /\ WordAt(m, p) \in 0..(Word - 1)
         /\ m[p] = WordAt(m, p) % Half /\ m[p + 1] = WordAt(m, p) \div Half
<1> DEFINE lo == m[p]
           hi == m[p + 1]
<1>1. lo \in 0..(Half - 1) /\ hi \in 0..(Half - 1)
  BY DEF Memory
<1>2. WordAt(m, p) = Half * hi + lo
  BY <1>1, Numbers DEF WordAt
<1> HIDE DEF lo, hi
<1>3. (Half * hi + lo) % Half = lo /\ (Half * hi + lo) \div Half = hi
  BY <1>1, Numbers, QuotientUnique
<1>4. Half * hi + lo \in 0..(Half * Half - 1)
  <2>1. Half \in Nat /\ Half >= 1 /\ Half * Half \in Nat /\ Half * hi \in Nat
    BY <1>1, Numbers
  <2>2. Half * hi <= Half * (Half - 1) /\ Half * (Half - 1) = Half * Half - Half
    BY <1>1, <2>1
  <2> QED
    BY <1>1, <2>1, <2>2
<1> QED
  BY <1>2, <1>3, <1>4, Numbers DEF lo, hi

\* le32write writes a word, whole, and nothing else.
LEMMA WordPut ==
  ASSUME NEW m \in Memory, NEW p \in Int, p \in Addresses, p + 1 \in Addresses,
         NEW w \in 0..(Word - 1)
  PROVE  /\ PutWord(m, p, w) \in Memory
         /\ WordAt(PutWord(m, p, w), p) = w
         /\ \A a \in Addresses : a # p /\ a # p + 1 => PutWord(m, p, w)[a] = m[a]
<1>1. w \in Nat /\ w < Word /\ Word \in Nat \ {0} /\ w \in 0..(Half * Half - 1)
  BY Numbers
<1>2. w % Word = w
  BY <1>1, ModBounds
<1>3. /\ w % Half \in 0..(Half - 1) /\ w \div Half \in 0..(Half - 1)
      /\ (w % Half) + Half * (w \div Half) = w
  BY <1>1, Numbers, TwoHalves
<1> DEFINE lo == w % Half
           hi == w \div Half
<1>4. PutWord(m, p, w) = [m EXCEPT ![p] = lo, ![p + 1] = hi]
  BY <1>2 DEF PutWord
<1> HIDE DEF lo, hi
<1>5. p # p + 1
  OBVIOUS
<1>6. /\ PutWord(m, p, w)[p] = lo /\ PutWord(m, p, w)[p + 1] = hi
      /\ \A a \in Addresses : a # p /\ a # p + 1 => PutWord(m, p, w)[a] = m[a]
  BY <1>4, <1>5 DEF Memory
<1>7. PutWord(m, p, w) \in Memory
  BY <1>3, <1>4 DEF Memory, lo, hi
<1> QED
  BY <1>3, <1>6, <1>7 DEF WordAt, lo, hi

(* ---- the bits of a branch ---- *)

\* The field of a branch, its multiple of Top and what is below Low.
LEMMA BranchParts ==
  ASSUME NEW w \in 0..(Word - 1)
  PROVE  \E q \in Nat, l \in 0..(Low - 1) :
           /\ w = Top * q + (Field24(w) + l)
           /\ Field24(w) \in 0..(Top - Low) /\ Field24(w) % Low = 0
           /\ w % Low = l
           /\ Top * q + Top <= Word
<1> DEFINE q == w \div Top
           s == w % Top
           l == s % Low
<1>1. /\ w \in Nat /\ w < Word /\ Word \in Nat /\ Top \in Nat \ {0} /\ Low \in Nat \ {0}
      /\ Word % Top = 0 /\ Top % Low = 0
  BY Numbers
<1>2. w = Top * q + s /\ q \in Int /\ s \in 0..(Top - 1)
  BY <1>1, DivMod
<1>3. q \in Nat
  BY <1>1, SMT
<1> HIDE DEF q, s
<1>4. l \in 0..(Low - 1)
  BY <1>1, <1>2, ModType
<1>5. (s - l) % Low = 0 /\ l <= s
  BY <1>1, <1>2, ClearedMod, ModBounds
<1>6. w % Low = l
  <2>1. (Top * q) % Low = 0 /\ Top * q \in Int
    <3>1. (Top * q) % Top = 0 /\ Top * q \in Int
      BY <1>1, <1>3, MultipleMod
    <3> QED
      BY <1>1, <3>1, MultipleOfMultiple
  <2> DEFINE c == (Top * q) \div Low
  <2>2. Top * q = Low * c /\ c \in Int
    BY <1>1, <2>1, DivMod
  <2> HIDE DEF c
  <2>3. (Low * c + s) % Low = s % Low
    <3>1. Low \in Nat \ {0} /\ s \in Int /\ c \in Int
      BY <1>1, <1>2, <2>2
    <3> QED
      BY <3>1, ModShift, Zenon
  <2> QED
    BY <1>2, <2>2, <2>3
<1>7. Field24(w) = s - l
  BY <1>6 DEF Field24, s
<1> HIDE DEF l
<1>8. s - l \in 0..(Top - Low)
  <2>1. Top - Low >= s - l
    <3>1. (s - l) % Low = 0 /\ s - l \in Int /\ s - l < Top
      BY <1>1, <1>2, <1>4, <1>5
    <3>2. (s - l) + Low <= Top
      <4>1. Low \in Nat \ {0} /\ Top \in Int /\ s - l \in Int
        BY <1>1, <3>1
      <4> QED
        BY <1>1, <3>1, <4>1, MultiplesApart, Zenon
    <3> QED
      BY <1>1, <1>2, <1>4, <3>2
  <2> QED
    BY <1>1, <1>2, <1>4, <1>5, <2>1
<1>9. Top * q + Top <= Word
  <2>1. (Top * q) % Top = 0 /\ Top * q \in Int /\ Top * q < Word
    <3>1. Top * q \in Nat
      BY <1>1, <1>3
    <3> QED
      BY <1>1, <1>2, <1>3, <3>1, MultipleMod
  <2> QED
    <3>1. Top \in Nat \ {0} /\ Word \in Int
      BY <1>1
    <3> QED
      BY <1>1, <2>1, <3>1, MultiplesApart, Zenon
<1>10. w = Top * q + ((s - l) + l)
  BY <1>2, <1>4
<1> QED
  BY <1>3, <1>4, <1>5, <1>6, <1>7, <1>8, <1>9, <1>10

\* A branch keeps all of its word but the field, and gets the field of the distance.
LEMMA BranchField ==
  ASSUME NEW old \in 0..(Word - 1), NEW d \in 0..(Word - 1)
  PROVE  /\ Branch(old, d) \in 0..(Word - 1)
         /\ Field24(Branch(old, d)) = Field24(d)
         /\ Branch(old, d) - Field24(Branch(old, d)) = old - Field24(old)
<1>1. PICK q \in Nat, l \in 0..(Low - 1) :
        /\ old = Top * q + (Field24(old) + l)
        /\ Field24(old) \in 0..(Top - Low)
        /\ Top * q + Top <= Word
  BY BranchParts
<1> DEFINE f == Field24(old)
           g == Field24(d)
<1>2. g \in 0..(Top - Low) /\ g % Low = 0
  BY BranchParts
<1>3. f \in 0..(Top - Low) /\ old = Top * q + (f + l)
  BY <1>1
<1>4. Branch(old, d) = old - f + g
  BY DEF Branch
<1> HIDE DEF f, g
<1>5. /\ Top \in Nat \ {0} /\ Low \in Nat \ {0} /\ Word \in Nat /\ Top * q \in Nat
      /\ Top % Low = 0
  BY Numbers
<1>6. /\ Branch(old, d) = Top * q + (g + l)
      /\ g + l \in 0..(Top - 1) /\ g + l \in Nat
  BY <1>2, <1>3, <1>4, <1>5
<1>7. Branch(old, d) \in 0..(Word - 1)
  BY <1>1, <1>5, <1>6
<1>8. Branch(old, d) % Top = g + l
  <2>1. (Top * q + (g + l)) % Top = g + l
    <3>1. q \in Int
      OBVIOUS
    <3> QED
      BY <1>5, <1>6, <3>1, QuotientUnique, Zenon
  <2> QED
    BY <1>6, <2>1
<1>9. Branch(old, d) % Low = l
  <2>1. (Top * q) % Low = 0
    <3>1. (Top * q) % Top = 0
      BY <1>5, MultipleMod
    <3> QED
      <4>1. Top * q \in Int
        BY <1>5
      <4> QED
        BY <1>5, <3>1, <4>1, MultipleOfMultiple, Zenon
  <2>2. (Top * q + g) % Low = 0 /\ Top * q + g \in Int
    <3>1. g \in Int /\ Top * q \in Int
      BY <1>2, <1>5
    <3>2. (Top * q + g) % Low = 0
      BY <1>2, <1>5, <2>1, <3>1, SumOfMultiples, Zenon
    <3> QED
      BY <3>1, <3>2
  <2> DEFINE c == (Top * q + g) \div Low
  <2>3. Top * q + g = Low * c /\ c \in Int
    BY <1>5, <2>2, DivMod
  <2> HIDE DEF c
  <2>4. (Low * c + l) % Low = l
    BY <1>5, <2>3, QuotientUnique
  <2>5. Branch(old, d) = Low * c + l
    BY <1>2, <1>5, <1>6, <2>3
  <2> QED
    BY <2>4, <2>5
<1>10. Field24(Branch(old, d)) = g
  BY <1>2, <1>5, <1>8, <1>9 DEF Field24
<1> QED
  BY <1>2, <1>3, <1>4, <1>7, <1>10 DEF f, g

(* ---- memory after one relocation ---- *)

\* The words and halves SingleReloc writes are words and halves.
LEMMA WrittenTypes ==
  ASSUME NEW r \in Relocation, NEW base \in Nat, NEW old \in 0..(Word - 1)
  PROVE  /\ r.type \in WordTypes => WordWritten(r, base, old) \in 0..(Word - 1)
         /\ r.type \in HalfTypes => HalfWritten(r, base) \in 0..(Half - 1)
<1>1. /\ Target(r, base) \in 0..(Word - 1) /\ Distance(r) \in 0..(Word - 1)
      /\ Word \in Nat \ {0} /\ Half \in Nat \ {0}
  <2>1. base \in Int
    OBVIOUS
  <2> QED
    BY <2>1, RelocationTypes, Numbers
<1>2. Branch(old, Distance(r)) \in 0..(Word - 1)
  BY <1>1, BranchField
<1>3. (Target(r, base) - base + (IF Sections[r.target].rsrc THEN old ELSE 0)) % Word \in 0..(Word - 1)
  <2>1. Target(r, base) - base + (IF Sections[r.target].rsrc THEN old ELSE 0) \in Int
    BY <1>1
  <2> QED
    BY <1>1, <2>1, ModType
<1>4. r.type \in WordTypes => WordWritten(r, base, old) \in 0..(Word - 1)
  BY <1>1, <1>2, <1>3 DEF WordTypes, WordWritten
<1>5. Target(r, base) % Half \in 0..(Half - 1)
  <2>1. Target(r, base) \in Int
    BY <1>1
  <2> QED
    BY <1>1, <2>1, ModType, Zenon
<1>6. HighAdjusted(Target(r, base)) \in 0..(Half - 1)
  <2> DEFINE y == Target(r, base) + Half \div 2
  <2>1. y \in Int
    BY <1>1, Numbers, Even
  <2>2. (y % Word) \div Half = (y \div Half) % Half /\ y \div Half \in Int
    <3>1. Word = Half * Half
      BY Numbers
    <3> HIDE DEF y
    <3>2. (y % (Half * Half)) \div Half = (y \div Half) % Half
      BY <1>1, <2>1, HighHalf, Zenon
    <3>3. y \div Half \in Int
      BY <1>1, <2>1, DivMod
    <3> QED
      BY <3>1, <3>2, <3>3
  <2>3. (y \div Half) % Half \in 0..(Half - 1)
    BY <1>1, <2>2, ModType
  <2> QED
    BY <2>2, <2>3 DEF HighAdjusted
<1> QED
  BY <1>4, <1>5, <1>6 DEF HalfWritten

\* SingleReloc changes the field of its relocation and nothing else, and what it
\* puts there depends on nothing but the old word.
LEMMA FieldPatched ==
  ASSUME NEW m \in Memory, NEW r \in Relocation, NEW base \in Nat, Reached(r),
         r.offset + Width(r) <= Sections[r.target].size
  PROVE  /\ Patched(m, r, base) \in Memory
         /\ \A a \in Addresses \ Field(r) : Patched(m, r, base)[a] = m[a]
         /\ r.type \in WordTypes =>
              /\ WordAt(m, Site(r)) \in 0..(Word - 1)
              /\ WordAt(Patched(m, r, base), Site(r)) =
                   WordWritten(r, base, WordAt(m, Site(r)))
         /\ r.type \in HalfTypes => Patched(m, r, base)[Site(r)] = HalfWritten(r, base)
<1> DEFINE p == Site(r)
           old == WordAt(m, p)
           after == Patched(m, r, base)
<1>1. p \in Nat /\ r.type \in RelocTypes
  BY RelocationTypes, Numbers
<1>2. /\ Field(r) \subseteq Addresses
      /\ r.type \in HalfTypes => Field(r) = {p}
      /\ r.type \in WordTypes => Field(r) = {p, p + 1}
      /\ r.type = "NONE" => Field(r) = {}
  BY FieldInMemory
<1>3. CASE r.type \in WordTypes
  <2>1. p \in Addresses /\ p + 1 \in Addresses /\ p \in Int
    BY <1>1, <1>2, <1>3
  <2>2. old \in 0..(Word - 1)
    BY <2>1, WordCells
  <2>3. after = PutWord(m, p, WordWritten(r, base, old))
    BY <1>3 DEF Patched, WordWritten, WordTypes
  <2>4. WordWritten(r, base, old) \in 0..(Word - 1)
    BY <1>3, <2>2, WrittenTypes
  <2> HIDE DEF p, old, after
  <2>5. /\ after \in Memory /\ WordAt(after, p) = WordWritten(r, base, old)
        /\ \A a \in Addresses : a # p /\ a # p + 1 => after[a] = m[a]
    BY <2>1, <2>3, <2>4, WordPut
  <2>6. r.type \notin HalfTypes
    BY <1>3 DEF WordTypes, HalfTypes
  <2> QED
    BY <1>2, <1>3, <2>2, <2>5, <2>6 DEF p, old, after
<1>4. CASE r.type \in HalfTypes
  <2>1. p \in Addresses
    BY <1>2, <1>4
  <2>2. after = [m EXCEPT ![p] = HalfWritten(r, base)]
    BY <1>4 DEF Patched, HalfWritten, HalfTypes, PutHalf
  <2>3. 0 \in 0..(Word - 1)
    BY Numbers
  <2>4. HalfWritten(r, base) \in 0..(Half - 1)
    BY <1>4, <2>3, WrittenTypes
  <2> HIDE DEF p, old, after
  <2>5. after \in Memory /\ after[p] = HalfWritten(r, base) /\ \A a \in Addresses \ {p} : after[a] = m[a]
    BY <2>1, <2>2, <2>4 DEF Memory
  <2>6. r.type \notin WordTypes
    BY <1>4 DEF WordTypes, HalfTypes
  <2> QED
    BY <1>2, <1>4, <2>5, <2>6 DEF p, old, after
<1>5. CASE r.type = "NONE"
  <2>1. after = m
    BY <1>5 DEF Patched
  <2>2. r.type \notin WordTypes /\ r.type \notin HalfTypes
    BY <1>5 DEF WordTypes, HalfTypes
  <2> QED
    BY <2>1, <2>2
<1>6. r.type \in WordTypes \/ r.type \in HalfTypes \/ r.type = "NONE"
  BY <1>1 DEF RelocTypes, WordTypes, HalfTypes
<1> QED
  BY <1>3, <1>4, <1>5, <1>6

(* ---- the inductive invariant ---- *)

\* What is relocated passed TargetPtr's assertion.
Asserted == \A k \in Applied : input[k].offset < Sections[input[k].target].size

\* The slices are pages, and what is in them is offsets.
Sliced ==
  \A page \in DOMAIN slices :
    /\ page \in Nat /\ page % Page = 0
    /\ DOMAIN slices[page] \subseteq 0..(Page - 1)

IInv == /\ TypeOK /\ input \in Inputs /\ fill \in 0..(Half - 1)
        /\ Asserted /\ Sliced

\* Nothing but the relocated fields differs from what it was, in either link.
Blank ==
  \A a \in Addresses :
    (\A k \in Applied : a \notin Field(input[k])) => mem[a] = fill /\ shadow[a] = fill

Old == fill + Half * fill

\* Each relocated field holds what its relocation wrote, in both links.
Kept ==
  \A k \in Applied :
    LET r == input[k]
    IN  /\ r.type \in WordTypes =>
             /\ WordAt(mem, Site(r)) = WordWritten(r, Base, Old)
             /\ WordAt(shadow, Site(r)) = WordWritten(r, Base + Delta, Old)
        /\ r.type \in HalfTypes =>
             /\ mem[Site(r)] = HalfWritten(r, Base)
             /\ shadow[Site(r)] = HalfWritten(r, Base + Delta)

\* The slices hold what AddReloc was told.
Told == Notes = {<<Site(input[k]), BaseType(input[k])>> :
                   k \in {j \in Applied : BaseType(input[j]) # 0}}

RInv == IInv /\ Blank /\ Kept /\ Told

(* ---- steps ---- *)

\* The relocation that is next.
LEMMA NextReloc ==
  ASSUME IInv
  PROVE  /\ n \in Nat /\ n >= 1 /\ Len(input) \in Nat
         /\ \A k \in 1..Len(input) : input[k] \in Relocation
         /\ n <= Len(input) => n \in 1..Len(input)
         /\ \A k \in Applied : k \in 1..Len(input) /\ k # n /\ Reached(input[k])
<1>1. input \in Seq(Relocation)
  BY InputAssumption DEF IInv
<1>2. n \in 1..(Len(input) + 1)
  BY DEF IInv, TypeOK
<1> HIDE DEF Relocation
<1>3. Len(input) \in Nat /\ \A k \in 1..Len(input) : input[k] \in Relocation
  BY <1>1
<1>4. \A k \in Applied : k \in 1..Len(input) /\ k # n
  BY <1>2, <1>3 DEF Applied
<1>5. \A k \in Applied : Reached(input[k])
  BY DEF IInv, Asserted, Applied, Reached
<1> QED
  BY <1>2, <1>3, <1>4, <1>5

LEMMA FitsNext ==
  ASSUME IInv, FieldsFit, NEW k \in 1..Len(input), Reached(input[k])
  PROVE  input[k].offset + Width(input[k]) <= Sections[input[k].target].size
  BY DEF IInv, FieldsFit

\* What is applied when a step has passed the relocation that is next.
LEMMA AppliedGrows ==
  ASSUME IInv, n <= Len(input), n' = n + 1, input' = input
  PROVE  Applied' = IF Sections[input[n].target].alloc THEN Applied \cup {n} ELSE Applied
<1>1. n \in Nat /\ n >= 1
  BY NextReloc
<1>2. Applied' = {k \in 1..((n + 1) - 1) : Sections[input[k].target].alloc}
  BY DEF Applied
<1>3. 1..((n + 1) - 1) = 1..(n - 1) \cup {n}
  BY <1>1
<1> QED
  BY <1>2, <1>3 DEF Applied

\* SingleReloc on the relocation that is next, in both links.
LEMMA ApplyChanges ==
  ASSUME IInv, FieldsFit, ApplyReloc
  PROVE  /\ n \in 1..Len(input) /\ input[n] \in Relocation /\ Reached(input[n])
         /\ Field(input[n]) \subseteq Addresses
         /\ UNCHANGED <<pc, input, fill>> /\ Applied' = Applied \cup {n}
         /\ mem' = Patched(mem, input[n], Base) /\ shadow' = Patched(shadow, input[n], Base + Delta)
         /\ mem \in Memory /\ shadow \in Memory /\ mem' \in Memory /\ shadow' \in Memory
         /\ \A a \in Addresses \ Field(input[n]) : mem'[a] = mem[a] /\ shadow'[a] = shadow[a]
<1>1. /\ n <= Len(input) /\ Sections[input[n].target].alloc
      /\ input[n].offset < Sections[input[n].target].size
      /\ mem' = Patched(mem, input[n], Base) /\ shadow' = Patched(shadow, input[n], Base + Delta)
      /\ n' = n + 1 /\ UNCHANGED <<pc, input, fill>>
  BY DEF ApplyReloc, Current
<1>2. n \in 1..Len(input) /\ input[n] \in Relocation /\ Reached(input[n])
  BY <1>1, NextReloc DEF Reached
<1>3. input[n].offset + Width(input[n]) <= Sections[input[n].target].size
  BY <1>2, FitsNext
<1>4. Applied' = Applied \cup {n}
  BY <1>1, AppliedGrows
<1>5. mem \in Memory /\ shadow \in Memory /\ Base \in Nat /\ Base + Delta \in Nat
  BY Numbers DEF IInv, TypeOK, Memory
<1>6. Field(input[n]) \subseteq Addresses
  BY <1>2, <1>3, FieldInMemory
<1>7. mem' \in Memory /\ \A a \in Addresses \ Field(input[n]) : mem'[a] = mem[a]
  BY <1>1, <1>2, <1>3, <1>5, FieldPatched
<1>8. shadow' \in Memory /\ \A a \in Addresses \ Field(input[n]) : shadow'[a] = shadow[a]
  BY <1>1, <1>2, <1>3, <1>5, FieldPatched
<1> QED
  BY <1>1, <1>2, <1>4, <1>5, <1>6, <1>7, <1>8

\* The page and the offset in it of an address.
LEMMA PageParts ==
  ASSUME NEW a \in Nat
  PROVE  /\ a - (a % Page) \in Nat /\ (a - (a % Page)) % Page = 0
         /\ a % Page \in 0..(Page - 1)
         /\ (a - (a % Page)) + (a % Page) = a
<1>1. Page \in Nat \ {0}
  BY Numbers
<1>2. a % Page \in Nat /\ a % Page < Page /\ a % Page <= a
  BY <1>1, ModBounds
<1>3. (a - (a % Page)) % Page = 0
  BY <1>1, ClearedMod
<1> QED
  BY <1>1, <1>2, <1>3

\* RelocationSection::add keeps the slices slices.
LEMMA NotedSliced ==
  ASSUME IInv, NEW a \in Nat, NEW type \in {2, 3, 4}, slices' = Noted(slices, a, type)
  PROVE  /\ Sliced'
         /\ \A p \in DOMAIN slices' : \A o \in DOMAIN slices'[p] :
              o < Page /\ slices'[p][o] \in {2, 3, 4}
<1> DEFINE page == a - (a % Page)
           off == a % Page
           old == IF page \in DOMAIN slices THEN slices[page] ELSE <<>>
           new == [o \in DOMAIN old \cup {off} |-> IF o \in DOMAIN old THEN old[o] ELSE type]
<1>1. page \in Nat /\ page % Page = 0 /\ off \in 0..(Page - 1)
  BY PageParts
<1>2. slices' = [p \in DOMAIN slices \cup {page} |-> IF p = page THEN new ELSE slices[p]]
  BY DEF Noted
<1>3. /\ \A p \in DOMAIN slices :
           /\ p \in Nat /\ p % Page = 0 /\ DOMAIN slices[p] \subseteq 0..(Page - 1)
           /\ \A o \in DOMAIN slices[p] : slices[p][o] \in {2, 3, 4}
  BY DEF IInv, TypeOK, Sliced
<1> HIDE DEF page, off
<1>4. DOMAIN old \subseteq 0..(Page - 1) /\ \A o \in DOMAIN old : old[o] \in {2, 3, 4}
  <2>1. CASE page \in DOMAIN slices
    BY <1>3, <2>1
  <2>2. CASE page \notin DOMAIN slices
    BY <2>2
  <2> QED
    BY <2>1, <2>2
<1> HIDE DEF old
<1>5. DOMAIN new \subseteq 0..(Page - 1) /\ \A o \in DOMAIN new : new[o] \in {2, 3, 4}
  BY <1>1, <1>4
<1> HIDE DEF new
<1>6. \A p \in DOMAIN slices' : \/ p = page /\ slices'[p] = new
                                \/ p \in DOMAIN slices /\ slices'[p] = slices[p]
  BY <1>2
<1>7. \A p \in DOMAIN slices' :
        /\ p \in Nat /\ p % Page = 0 /\ DOMAIN slices'[p] \subseteq 0..(Page - 1)
        /\ \A o \in DOMAIN slices'[p] : slices'[p][o] \in {2, 3, 4}
  BY <1>1, <1>3, <1>5, <1>6
<1>8. \A o \in 0..(Page - 1) : o < Page
  BY Numbers
<1> QED
  BY <1>7, <1>8 DEF Sliced

\* What it notes is the address and its type, if the address has no note yet.
LEMMA NotedAdds ==
  ASSUME IInv, NEW a \in Nat, NEW type \in {2, 3, 4}, slices' = Noted(slices, a, type),
         \A note \in Notes : note[1] # a
  PROVE  Notes' = Notes \cup {<<a, type>>}
<1> DEFINE page == a - (a % Page)
           off == a % Page
           old == IF page \in DOMAIN slices THEN slices[page] ELSE <<>>
           new == [o \in DOMAIN old \cup {off} |-> IF o \in DOMAIN old THEN old[o] ELSE type]
<1>1. page + off = a
  BY PageParts
<1>2. slices' = [p \in DOMAIN slices \cup {page} |-> IF p = page THEN new ELSE slices[p]]
  BY DEF Noted
<1> HIDE DEF page, off
<1>3. page \in DOMAIN slices => old = slices[page]
  OBVIOUS
<1>4. page \notin DOMAIN slices => DOMAIN old = {}
  OBVIOUS
<1> HIDE DEF old
<1>5. off \notin DOMAIN old
  <2> SUFFICES ASSUME off \in DOMAIN old PROVE FALSE
    OBVIOUS
  <2>1. page \in DOMAIN slices /\ off \in DOMAIN slices[page]
    BY <1>3, <1>4
  <2>2. <<page + off, slices[page][off]>> \in Notes
    BY <2>1 DEF Notes
  <2> QED
    BY <1>1, <2>2
<1>6. /\ DOMAIN new = DOMAIN old \cup {off} /\ new[off] = type
      /\ \A o \in DOMAIN old : new[o] = old[o]
  BY <1>5
<1> HIDE DEF new
<1>7. /\ DOMAIN slices' = DOMAIN slices \cup {page} /\ slices'[page] = new
      /\ \A p \in DOMAIN slices : p # page => slices'[p] = slices[p]
  BY <1>2
<1>8. Notes' = UNION {{<<p + o, slices'[p][o]>> : o \in DOMAIN slices'[p]} : p \in DOMAIN slices'}
  BY DEF Notes
<1>9. \A note \in Notes' : note \in Notes \cup {<<a, type>>}
  <2> SUFFICES ASSUME NEW p \in DOMAIN slices', NEW o \in DOMAIN slices'[p]
               PROVE  <<p + o, slices'[p][o]>> \in Notes \cup {<<a, type>>}
    BY <1>8
  <2>1. CASE p # page
    BY <1>7, <2>1 DEF Notes
  <2>2. CASE p = page /\ o = off
    BY <1>1, <1>6, <1>7, <2>2
  <2>3. CASE p = page /\ o # off
    <3>1. o \in DOMAIN old /\ slices'[p][o] = old[o] /\ page \in DOMAIN slices
      BY <1>4, <1>6, <1>7, <2>3
    <3> QED
      BY <1>3, <2>3, <3>1 DEF Notes
  <2> QED
    BY <2>1, <2>2, <2>3
<1>10. \A note \in Notes : note \in Notes'
  <2> SUFFICES ASSUME NEW p \in DOMAIN slices, NEW o \in DOMAIN slices[p]
               PROVE  <<p + o, slices[p][o]>> \in Notes'
    BY DEF Notes
  <2>1. p \in DOMAIN slices' /\ o \in DOMAIN slices'[p] /\ slices'[p][o] = slices[p][o]
    BY <1>3, <1>6, <1>7
  <2> QED
    BY <1>8, <2>1
<1>11. <<a, type>> \in Notes'
  BY <1>1, <1>6, <1>7, <1>8
<1> QED
  BY <1>9, <1>10, <1>11

LEMMA BaseTypes ==
  ASSUME NEW r
  PROVE  BaseType(r) \in {0, 2, 3, 4}
  BY DEF BaseType

LEMMA InitIInv ==
  ASSUME Init
  PROVE  IInv
<1>1. /\ pc = "relocating" /\ input \in Inputs /\ n = 1 /\ fill \in 0..(Half - 1)
      /\ mem = [a \in Addresses |-> fill] /\ shadow = mem /\ slices = <<>>
  BY InputAssumption DEF Init
<1>2. n \in 1..(Len(input) + 1)
  <2>1. input \in Seq(Relocation)
    BY <1>1, InputAssumption
  <2>2. Len(input) \in Nat
    BY <2>1
  <2> QED
    BY <1>1, <2>2
<1>3. DOMAIN slices = {}
  BY <1>1
<1>4. Applied = {}
  BY <1>1 DEF Applied
<1>5. TypeOK
  BY <1>1, <1>2, <1>3 DEF TypeOK
<1> QED
  BY <1>1, <1>3, <1>4, <1>5 DEF IInv, Asserted, Sliced

\* A relocation is applied, passed over or refused.
LEMMA ApplyIInv ==
  ASSUME IInv, FieldsFit, ApplyReloc
  PROVE  IInv'
<1>1. /\ n \in 1..Len(input) /\ input[n] \in Relocation /\ Reached(input[n])
      /\ UNCHANGED <<pc, input, fill>> /\ Applied' = Applied \cup {n}
      /\ mem' \in Memory /\ shadow' \in Memory
  BY ApplyChanges
<1>2. /\ n' = n + 1
      /\ slices' = IF BaseType(input[n]) = 0 THEN slices
                   ELSE Noted(slices, Site(input[n]), BaseType(input[n]))
  BY DEF ApplyReloc, Current
<1>3. n' \in 1..(Len(input) + 1)
  BY <1>1, <1>2, NextReloc
<1>4. /\ Sliced'
      /\ \A p \in DOMAIN slices' : \A o \in DOMAIN slices'[p] :
           o < Page /\ slices'[p][o] \in {2, 3, 4}
  <2>1. CASE BaseType(input[n]) = 0
    BY <1>2, <2>1 DEF IInv, TypeOK, Sliced
  <2>2. CASE BaseType(input[n]) # 0
    <3>1. Site(input[n]) \in Nat
      BY <1>1, RelocationTypes, Numbers
    <3>2. BaseType(input[n]) \in {2, 3, 4}
      BY <2>2, BaseTypes
    <3> QED
      BY <1>2, <2>2, <3>1, <3>2, NotedSliced
  <2> QED
    BY <2>1, <2>2
<1>5. Asserted'
  BY <1>1 DEF IInv, Asserted, Reached
<1>6. TypeOK'
  BY <1>1, <1>3, <1>4 DEF IInv, TypeOK, Memory
<1> QED
  BY <1>1, <1>4, <1>5, <1>6 DEF IInv

LEMMA NextIInv ==
  ASSUME IInv, FieldsFit, [Next]_vars
  PROVE  IInv'
<1>1. CASE ApplyReloc
  BY <1>1, ApplyIInv
<1>2. CASE SkipReloc
  <2>1. /\ n <= Len(input) /\ ~Sections[input[n].target].alloc /\ n' = n + 1
        /\ UNCHANGED <<pc, input, fill, mem, shadow, slices>>
    BY <1>2 DEF SkipReloc, Current
  <2>2. Applied' = Applied
    BY <2>1, AppliedGrows
  <2>3. n' \in 1..(Len(input) + 1)
    BY <2>1, NextReloc
  <2>4. Asserted' /\ Sliced'
    BY <2>1, <2>2 DEF IInv, Asserted, Sliced
  <2>5. TypeOK'
    BY <2>1, <2>3 DEF IInv, TypeOK
  <2> QED
    BY <2>1, <2>4, <2>5 DEF IInv
<1>3. CASE AbortReloc \/ UNCHANGED vars
  <2>1. /\ pc' \in {"relocating", "aborted"}
        /\ UNCHANGED <<input, n, fill, mem, shadow, slices>>
    BY <1>3 DEF AbortReloc, vars, IInv, TypeOK
  <2>2. TypeOK' /\ Asserted' /\ Sliced'
    BY <2>1 DEF IInv, TypeOK, Asserted, Applied, Sliced
  <2> QED
    BY <2>1, <2>2 DEF IInv
<1> QED
  BY <1>1, <1>2, <1>3 DEF Next

\* Every cell stays a 16-bit value and every note a note (TypeOK).
THEOREM TypeCorrect ==
  ASSUME FieldsFit
  PROVE  Spec => []TypeOK
<1>1. IInv => TypeOK
  BY DEF IInv
<1>2. IInv /\ [Next]_vars => IInv'
  BY NextIInv
<1> QED
  BY <1>1, <1>2, InitIInv, PTL DEF Spec

(* ---- nothing else changes ---- *)

\* A step that applies no relocation.
LEMMA OtherSteps ==
  ASSUME IInv, SkipReloc \/ AbortReloc \/ UNCHANGED vars
  PROVE  UNCHANGED <<input, fill, mem, shadow, slices>> /\ Applied' = Applied
<1>1. CASE SkipReloc
  <2>1. /\ n <= Len(input) /\ ~Sections[input[n].target].alloc /\ n' = n + 1
        /\ UNCHANGED <<input, fill, mem, shadow, slices>>
    BY <1>1 DEF SkipReloc, Current
  <2> QED
    BY <2>1, AppliedGrows
<1>2. CASE AbortReloc \/ UNCHANGED vars
  BY <1>2 DEF AbortReloc, vars, Applied
<1> QED
  BY <1>1, <1>2

LEMMA NextBlank ==
  ASSUME IInv, FieldsFit, Blank, [Next]_vars
  PROVE  Blank'
<1>1. CASE ApplyReloc
  <2>1. /\ UNCHANGED <<input, fill>> /\ Applied' = Applied \cup {n}
        /\ \A a \in Addresses \ Field(input[n]) : mem'[a] = mem[a] /\ shadow'[a] = shadow[a]
    BY <1>1, ApplyChanges
  <2> SUFFICES ASSUME NEW a \in Addresses, \A k \in Applied' : a \notin Field(input[k])
               PROVE  mem'[a] = fill /\ shadow'[a] = fill
    BY <2>1 DEF Blank, Field, Site, Width
  <2>2. a \in Addresses \ Field(input[n]) /\ \A k \in Applied : a \notin Field(input[k])
    BY <2>1
  <2> QED
    BY <2>1, <2>2 DEF Blank
<1>2. CASE SkipReloc \/ AbortReloc \/ UNCHANGED vars
  BY <1>2, OtherSteps DEF Blank
<1> QED
  BY <1>1, <1>2 DEF Next

\* Of all of memory, only the fields named by the relocations applied so far are other
\* than they were (UntouchedElsewhere), also if fields overlap.
THEOREM NothingElseChanges ==
  ASSUME FieldsFit
  PROVE  Spec => []UntouchedElsewhere
<1>1. Init => IInv /\ Blank
  <2> SUFFICES ASSUME Init PROVE Blank
    BY InitIInv
  <2>1. mem = [a \in Addresses |-> fill] /\ shadow = mem
    BY DEF Init
  <2> QED
    BY <2>1 DEF Blank
<1>2. IInv /\ Blank /\ [Next]_vars => (IInv /\ Blank)'
  BY NextIInv, NextBlank
<1>3. Blank => UntouchedElsewhere
  BY DEF Blank, UntouchedElsewhere, Field
<1> QED
  BY <1>1, <1>2, <1>3, PTL DEF Spec

(* ---- what was relocated stays relocated ---- *)

\* Fields that are relocated do not overlap.
LEMMA FieldsDisjoint ==
  ASSUME IInv, FieldsFit, FieldsClear,
         NEW k \in 1..Len(input), NEW l \in 1..Len(input), k # l,
         Reached(input[k]), Reached(input[l])
  PROVE  \A a \in Field(input[k]) : a \notin Field(input[l])
<1> DEFINE r == input[k]
           q == input[l]
<1>1. Reached(r) /\ Reached(q) /\ r \in Relocation /\ q \in Relocation
  BY NextReloc
<1>2. /\ r.offset + Width(r) <= Sections[r.target].size
      /\ q.offset + Width(q) <= Sections[q.target].size
  BY <1>1, FitsNext
<1>3. \/ r.target # q.target
      \/ r.offset + Width(r) <= q.offset
      \/ q.offset + Width(q) <= r.offset
  BY <1>1 DEF IInv, FieldsClear
<1> HIDE DEF r, q
<1>4. /\ r.target \in DOMAIN Sections /\ r.offset \in Nat /\ Width(r) \in {0, 1, 2}
      /\ Site(r) = Sections[r.target].rva + r.offset
      /\ q.target \in DOMAIN Sections /\ q.offset \in Nat /\ Width(q) \in {0, 1, 2}
      /\ Site(q) = Sections[q.target].rva + q.offset
  BY <1>1, RelocationTypes, Numbers
<1>5. /\ Sections[r.target].rva \in Nat /\ Sections[r.target].size \in Nat
      /\ Sections[q.target].rva \in Nat /\ Sections[q.target].size \in Nat
      /\ Site(r) \in Nat /\ Site(q) \in Nat /\ Width(r) \in Nat /\ Width(q) \in Nat
  <2>1. Site(r) \in Nat /\ Site(q) \in Nat
    BY <1>1, RelocationTypes, Numbers
  <2>2. Width(r) \in Nat /\ Width(q) \in Nat
    BY <1>4
  <2> QED
    BY <1>4, <2>1, <2>2, SectionTypes
<1>6. r.target # q.target =>
        \/ Sections[r.target].rva + Sections[r.target].size <= Sections[q.target].rva
        \/ Sections[q.target].rva + Sections[q.target].size <= Sections[r.target].rva
  BY <1>1, <1>4, InputAssumption DEF Reached
<1>7. Site(r) + Width(r) <= Site(q) \/ Site(q) + Width(q) <= Site(r)
  <2> DEFINE s == Sections[r.target].rva
             z == Sections[r.target].size
             t == Sections[q.target].rva
             y == Sections[q.target].size
             o == r.offset
             p == q.offset
             w == Width(r)
             v == Width(q)
  <2>1. /\ s \in Nat /\ z \in Nat /\ t \in Nat /\ y \in Nat
        /\ o \in Nat /\ p \in Nat /\ w \in Nat /\ v \in Nat
    BY <1>4, <1>5, Zenon
  <2>2. o + w <= z /\ p + v <= y /\ Site(r) = s + o /\ Site(q) = t + p
    BY <1>2, <1>4, Zenon
  <2>3. \/ s + z <= t
        \/ t + y <= s
        \/ s = t /\ (o + w <= p \/ p + v <= o)
    <3>1. CASE r.target # q.target
      BY <1>6, <3>1, Zenon
    <3>2. CASE r.target = q.target
      BY <1>3, <3>2, Zenon
    <3> QED
      BY <3>1, <3>2
  <2> HIDE DEF s, z, t, y, o, p, w, v
  <2>4. (s + o) + w <= t + p \/ (t + p) + v <= s + o
    <3>1. CASE s + z <= t
      BY <2>1, <2>2, <3>1
    <3>2. CASE t + y <= s
      BY <2>1, <2>2, <3>2
    <3>3. CASE s = t /\ (o + w <= p \/ p + v <= o)
      BY <2>1, <3>3
    <3> QED
      BY <2>3, <3>1, <3>2, <3>3
  <2> QED
    BY <2>2, <2>4 DEF w, v
<1>8. \A a \in Field(r) : a \notin Field(q)
  <2>1. Width(r) \in Nat /\ Width(q) \in Nat /\ Site(r) \in Nat /\ Site(q) \in Nat
    BY <1>5, Zenon
  <2>2. \A s, w, v, x, a \in Nat :
          (s + w <= v \/ v + x <= s) /\ a \in s..(s + w - 1) => a \notin v..(v + x - 1)
    OBVIOUS
  <2>3. \A a \in Field(r) : a \in Nat
    BY <2>1 DEF Field
  <2> QED
    BY <1>7, <2>1, <2>2, <2>3 DEF Field
<1> QED
  BY <1>8 DEF r, q

\* The field that is next overlaps none that was written.
LEMMA FieldsApart ==
  ASSUME IInv, FieldsFit, FieldsClear, NEW k \in Applied, n \in 1..Len(input), Reached(input[n])
  PROVE  \A a \in Field(input[k]) : a \notin Field(input[n])
  BY NextReloc, FieldsDisjoint

LEMMA OldType ==
  ASSUME IInv
  PROVE  Old \in Nat
  BY Numbers DEF IInv, Old

LEMMA NextKept ==
  ASSUME IInv, FieldsFit, FieldsClear, Blank, Kept, [Next]_vars
  PROVE  Kept'
<1>1. CASE ApplyReloc
  <2>1. /\ n \in 1..Len(input) /\ input[n] \in Relocation /\ Reached(input[n])
        /\ Field(input[n]) \subseteq Addresses
        /\ UNCHANGED <<input, fill>> /\ Applied' = Applied \cup {n}
        /\ mem' = Patched(mem, input[n], Base) /\ shadow' = Patched(shadow, input[n], Base + Delta)
        /\ mem \in Memory /\ shadow \in Memory
        /\ \A a \in Addresses \ Field(input[n]) : mem'[a] = mem[a] /\ shadow'[a] = shadow[a]
    BY <1>1, ApplyChanges
  <2>2. Old' = Old
    BY <2>1 DEF Old
  <2> SUFFICES ASSUME NEW k \in Applied \cup {n}
               PROVE  /\ input[k].type \in WordTypes =>
                           /\ WordAt(mem', Site(input[k])) = WordWritten(input[k], Base, Old)
                           /\ WordAt(shadow', Site(input[k])) = WordWritten(input[k], Base + Delta, Old)
                      /\ input[k].type \in HalfTypes =>
                           /\ mem'[Site(input[k])] = HalfWritten(input[k], Base)
                           /\ shadow'[Site(input[k])] = HalfWritten(input[k], Base + Delta)
    BY <2>1, <2>2 DEF Kept
  <2> DEFINE r == input[k]
             p == Site(r)
  <2>3. /\ r \in Relocation /\ Reached(r)
        /\ r.offset + Width(r) <= Sections[r.target].size
    <3>1. k \in 1..Len(input) /\ Reached(r)
      BY <2>1, NextReloc
    <3> QED
      BY <3>1, NextReloc, FitsNext
  <2>4. /\ Field(r) \subseteq Addresses
        /\ r.type \in HalfTypes => Field(r) = {p}
        /\ r.type \in WordTypes => Field(r) = {p, p + 1}
    BY <2>3, FieldInMemory
  <2>5. CASE k = n
    <3>1. \A a \in Field(r) : mem[a] = fill /\ shadow[a] = fill
      <4>1. \A a \in Field(r) : \A j \in Applied : a \notin Field(input[j])
        BY <2>1, <2>5, FieldsApart
      <4> QED
        BY <2>4, <4>1 DEF Blank
    <3>2. r.type \in WordTypes => WordAt(mem, p) = Old /\ WordAt(shadow, p) = Old
      BY <2>4, <3>1 DEF WordAt, Old
    <3>3. Base \in Nat /\ Base + Delta \in Nat
      BY Numbers
    <3>4. mem' = Patched(mem, r, Base) /\ shadow' = Patched(shadow, r, Base + Delta)
      BY <2>1, <2>5
    <3> HIDE DEF r
    <3>5. /\ r.type \in WordTypes => WordAt(mem', p) = WordWritten(r, Base, Old)
          /\ r.type \in HalfTypes => mem'[p] = HalfWritten(r, Base)
      <4>1. /\ r.type \in WordTypes =>
                 WordAt(Patched(mem, r, Base), p) = WordWritten(r, Base, WordAt(mem, p))
            /\ r.type \in HalfTypes => Patched(mem, r, Base)[p] = HalfWritten(r, Base)
        BY <2>1, <2>3, <3>3, FieldPatched, Zenon
      <4> QED
        BY <3>2, <3>4, <4>1
    <3>6. /\ r.type \in WordTypes => WordAt(shadow', p) = WordWritten(r, Base + Delta, Old)
          /\ r.type \in HalfTypes => shadow'[p] = HalfWritten(r, Base + Delta)
      <4>1. /\ r.type \in WordTypes =>
                 WordAt(Patched(shadow, r, Base + Delta), p) =
                   WordWritten(r, Base + Delta, WordAt(shadow, p))
            /\ r.type \in HalfTypes =>
                 Patched(shadow, r, Base + Delta)[p] = HalfWritten(r, Base + Delta)
        BY <2>1, <2>3, <3>3, FieldPatched, Zenon
      <4> QED
        BY <3>2, <3>4, <4>1
    <3> QED
      BY <3>5, <3>6 DEF r
  <2>6. CASE k \in Applied
    <3>1. \A a \in Field(r) : a \in Addresses \ Field(input[n])
      BY <2>1, <2>4, <2>6, FieldsApart
    <3>2. \A a \in Field(r) : mem'[a] = mem[a] /\ shadow'[a] = shadow[a]
      BY <2>1, <3>1
    <3>3. r.type \in WordTypes => WordAt(mem', p) = WordAt(mem, p) /\ WordAt(shadow', p) = WordAt(shadow, p)
      BY <2>4, <3>2 DEF WordAt
    <3> QED
      BY <2>4, <2>6, <3>2, <3>3 DEF Kept
  <2> QED
    BY <2>5, <2>6
<1>2. CASE SkipReloc \/ AbortReloc \/ UNCHANGED vars
  <2>1. UNCHANGED <<input, fill, mem, shadow>> /\ Applied' = Applied
    BY <1>2, OtherSteps
  <2> QED
    BY <2>1 DEF Kept, Old
<1> QED
  BY <1>1, <1>2 DEF Next

\* AddReloc's notes are those of the relocations applied.
LEMMA NextTold ==
  ASSUME IInv, FieldsFit, FieldsClear, Told, [Next]_vars
  PROVE  Told'
<1> DEFINE Note(k) == <<Site(input[k]), BaseType(input[k])>>
<1>1. CASE ApplyReloc
  <2>1. /\ n \in 1..Len(input) /\ input[n] \in Relocation /\ Reached(input[n])
        /\ UNCHANGED <<input, fill>> /\ Applied' = Applied \cup {n}
    BY <1>1, ApplyChanges
  <2>2. slices' = IF BaseType(input[n]) = 0 THEN slices
                  ELSE Noted(slices, Site(input[n]), BaseType(input[n]))
    BY <1>1 DEF ApplyReloc, Current
  <2>3. {Note(k) : k \in {j \in Applied \cup {n} : BaseType(input[j]) # 0}} =
          Notes \cup (IF BaseType(input[n]) = 0 THEN {} ELSE {Note(n)})
    BY DEF Told
  <2>4. Notes' = Notes \cup (IF BaseType(input[n]) = 0 THEN {} ELSE {Note(n)})
    <3>1. CASE BaseType(input[n]) = 0
      BY <2>2, <3>1 DEF Notes
    <3>2. CASE BaseType(input[n]) # 0
      <4>1. Site(input[n]) \in Nat /\ BaseType(input[n]) \in {2, 3, 4}
        BY <2>1, <3>2, RelocationTypes, Numbers, BaseTypes
      <4>2. \A note \in Notes : note[1] # Site(input[n])
        <5> SUFFICES ASSUME NEW k \in Applied, BaseType(input[k]) # 0
                     PROVE  Site(input[k]) # Site(input[n])
          BY DEF Told
        <5>1. \A a \in Field(input[k]) : a \notin Field(input[n])
          BY <2>1, FieldsApart
        <5>2. /\ k \in 1..Len(input) /\ Reached(input[k]) /\ input[k] \in Relocation
              /\ input[k].offset + Width(input[k]) <= Sections[input[k].target].size
              /\ input[n].offset + Width(input[n]) <= Sections[input[n].target].size
          BY <2>1, NextReloc, FitsNext
        <5>3. /\ input[k].type \in WordTypes \cup HalfTypes
              /\ input[n].type \in WordTypes \cup HalfTypes
          BY <3>2 DEF BaseType, WordTypes, HalfTypes
        <5>4. Site(input[k]) \in Field(input[k]) /\ Site(input[n]) \in Field(input[n])
          BY <2>1, <5>2, <5>3, FieldInMemory
        <5> QED
          BY <5>1, <5>4
      <4> QED
        BY <2>2, <3>2, <4>1, <4>2, NotedAdds
    <3> QED
      BY <3>1, <3>2
  <2> QED
    BY <2>1, <2>3, <2>4 DEF Told
<1>2. CASE SkipReloc \/ AbortReloc \/ UNCHANGED vars
  <2>1. UNCHANGED <<input, slices>> /\ Applied' = Applied
    BY <1>2, OtherSteps
  <2> QED
    BY <2>1 DEF Told, Notes
<1> QED
  BY <1>1, <1>2 DEF Next

LEMMA InitRInv ==
  ASSUME Init
  PROVE  RInv
<1>1. /\ n = 1 /\ mem = [a \in Addresses |-> fill] /\ shadow = mem /\ slices = <<>>
  BY DEF Init
<1>2. Applied = {} /\ DOMAIN slices = {}
  BY <1>1 DEF Applied
<1>3. Notes = {}
  BY <1>2 DEF Notes
<1> QED
  BY <1>1, <1>2, <1>3, InitIInv DEF RInv, Blank, Kept, Told

LEMMA NextRInv ==
  ASSUME RInv, FieldsFit, FieldsClear, [Next]_vars
  PROVE  RInv'
  BY NextIInv, NextBlank, NextKept, NextTold DEF RInv

(* ---- each field reaches its target ---- *)

\* A relative word leads to the target from its own place.
LEMMA RelativeReaches ==
  ASSUME NEW r \in Relocation
  PROVE  (Distance(r) + Site(r) + Base) % Word = Target(r, Base)
<1> DEFINE x == SymbolRva(r.symbol) + r.addend
           p == Site(r)
<1>1. /\ SymbolRva(r.symbol) \in Nat /\ r.addend \in Int /\ p \in Nat
      /\ Base \in Int /\ Word \in Nat \ {0}
  BY RelocationTypes, Numbers
<1>2. x \in Int /\ Target(r, Base) = (x + Base) % Word
  <2>1. SymbolRva(r.symbol) + Base + r.addend = x + Base
    BY <1>1
  <2> QED
    BY <1>1, <2>1 DEF Target
<1>3. Distance(r) = (x - p) % Word
  <2>1. SymbolRva(r.symbol) + r.addend - Site(r) = x - p
    BY <1>1
  <2> QED
    BY <2>1 DEF Distance
<1> HIDE DEF x, p
<1>4. (((x - p) % Word) + (p + Base)) % Word = ((x - p) + (p + Base)) % Word
  <2>1. x - p \in Int /\ p + Base \in Int
    BY <1>1, <1>2
  <2> QED
    BY <1>1, <2>1, ModSum, Zenon
<1>5. (x - p) + (p + Base) = x + Base
  BY <1>1, <1>2
<1>6. Distance(r) + p + Base = ((x - p) % Word) + (p + Base)
  <2>1. (x - p) % Word \in Int
    BY <1>1, <1>2, ModType
  <2> QED
    BY <1>1, <1>3, <2>1
<1> QED
  BY <1>2, <1>4, <1>5, <1>6 DEF p

\* An address relative to the image base gives the target when the base is added.
LEMMA RvaReaches ==
  ASSUME NEW tgt \in Int, NEW old \in Int
  PROVE  (((tgt - Base + old) % Word) + Base) % Word = (tgt + old) % Word
<1>1. tgt - Base + old \in Int /\ Base \in Int /\ Word \in Nat \ {0}
  BY Numbers
<1>2. (((tgt - Base + old) % Word) + Base) % Word = ((tgt - Base + old) + Base) % Word
  BY <1>1, ModSum, Zenon
<1>3. (tgt - Base + old) + Base = tgt + old
  BY <1>1
<1> QED
  BY <1>2, <1>3

\* A branch in range: the processor, which extends the field's sign, gets the distance.
LEMMA BranchDistance ==
  ASSUME NEW d \in 0..(Word - 1), Signed(d, Word) % Low = 0,
         Signed(d, Word) \in (-(Top \div 2))..(Top \div 2 - 1)
  PROVE  Signed(Field24(d), Top) = Signed(d, Word)
<1> DEFINE s == Signed(d, Word)
           half == Top \div 2
<1>1. /\ Word \in Nat \ {0} /\ Top \in Nat \ {0} /\ Low \in Nat \ {0}
      /\ Word % Top = 0 /\ Top % Low = 0
      /\ half \in Nat /\ Top = half + half
  BY Numbers, Even
<1>2. Word % Low = 0
  <2>1. Word \in Int
    BY <1>1
  <2> QED
    BY <1>1, <2>1, MultipleOfMultiple, Zenon
<1>3. (s = d /\ 0 <= s) \/ (d = s + Word /\ s < 0)
  BY <1>1 DEF Signed
<1>4. s \in Int /\ -half <= s /\ s <= half - 1
  BY <1>1, <1>3
<1>5. s % Low = 0
  OBVIOUS
<1> HIDE DEF s, half
<1>6. d % Low = 0
  <2>1. (s + Word) % Low = 0
    <3>1. Word \in Int
      BY <1>1
    <3> QED
      BY <1>1, <1>2, <1>4, <1>5, <3>1, SumOfMultiples, Zenon
  <2> QED
    BY <1>3, <1>5, <2>1
<1>7. Field24(d) = d % Top
  <2>1. d % Top \in Int
    BY <1>1, ModType
  <2> QED
    BY <1>6, <2>1 DEF Field24
<1>8. CASE s = d /\ 0 <= s
  <2>1. d \in Nat /\ d < Top /\ d < half
    BY <1>1, <1>4, <1>8
  <2>2. d % Top = d
    BY <1>1, <2>1, ModBounds
  <2> QED
    BY <1>7, <1>8, <2>1, <2>2 DEF Signed, s, half
<1>9. CASE d = s + Word /\ s < 0
  <2> DEFINE c == (Word \div Top) - 1
             rest == Top + s
  <2>1. Word = Top * (Word \div Top) /\ Word \div Top \in Int
    BY <1>1, DivMod
  <2>2. c \in Int /\ Top * c = Word - Top
    BY <1>1, <2>1
  <2>3. rest \in 0..(Top - 1) /\ rest >= half
    BY <1>1, <1>4, <1>9
  <2>4. d = Top * c + rest
    BY <1>1, <1>4, <1>9, <2>2
  <2> HIDE DEF c, rest
  <2>5. d % Top = rest
    BY <1>1, <2>2, <2>3, <2>4, QuotientUnique
  <2>6. rest - Top = s
    BY <1>1, <1>4 DEF rest
  <2>7. ~(rest < half)
    BY <1>1, <2>3
  <2> QED
    BY <1>7, <2>5, <2>6, <2>7 DEF Signed, s, half
<1> QED
  BY <1>3, <1>8, <1>9

LEMMA BranchReaches ==
  ASSUME NEW r \in Relocation, Signed(Distance(r), Word) % Low = 0,
         Signed(Distance(r), Word) \in (-(Top \div 2))..(Top \div 2 - 1)
  PROVE  (Base + Site(r) + Signed(Field24(Distance(r)), Top)) % Word = Target(r, Base)
<1> DEFINE d == Distance(r)
           s == Signed(d, Word)
           p == Site(r)
<1>1. /\ d \in 0..(Word - 1) /\ p \in Nat /\ Base \in Nat /\ Word \in Nat \ {0}
  BY RelocationTypes, Numbers
<1>2. Signed(Field24(d), Top) = s
  BY <1>1, BranchDistance
<1>3. (d + p + Base) % Word = Target(r, Base)
  BY RelativeReaches
<1>4. s \in Int /\ (s = d \/ s = d - Word)
  BY <1>1 DEF Signed
<1> HIDE DEF d, s, p
<1>5. CASE s = d
  <2>1. Base + p + s = d + p + Base
    BY <1>1, <1>4, <1>5
  <2> QED
    BY <1>2, <1>3, <2>1 DEF d, p
<1>6. CASE s = d - Word
  <2>1. Base + p + s = Word * (-1) + (d + p + Base)
    BY <1>1, <1>4, <1>6
  <2>2. (Word * (-1) + (d + p + Base)) % Word = (d + p + Base) % Word
    <3>1. d + p + Base \in Int /\ -1 \in Int
      BY <1>1
    <3> QED
      BY <1>1, <3>1, ModShift, Zenon
  <2> QED
    BY <1>2, <1>3, <2>1, <2>2 DEF d, p
<1> QED
  BY <1>4, <1>5, <1>6

\* The high half, adjusted, and the low half with its sign extended make the word.
LEMMA HighReaches ==
  ASSUME NEW w \in 0..(Word - 1)
  PROVE  (HighAdjusted(w) * Half + Signed(w % Half, Half)) % Word = w
<1> DEFINE q == w \div Half
           lo == w % Half
           h == Half \div 2
<1>1. /\ Half \in Nat \ {0} /\ Word \in Nat \ {0} /\ Word = Half * Half
      /\ h \in Nat /\ Half = h + h
  BY Numbers, Even
<1>2. lo \in 0..(Half - 1) /\ q \in 0..(Half - 1) /\ w = Half * q + lo
  <2>1. w \in 0..(Half * Half - 1)
    BY <1>1
  <2>2. /\ w % Half \in 0..(Half - 1) /\ w \div Half \in 0..(Half - 1)
        /\ (w % Half) + Half * (w \div Half) = w
    BY <1>1, <2>1, TwoHalves
  <2> QED
    BY <1>1, <2>2
<1> HIDE DEF q, lo, h
<1>3. HighAdjusted(w) = ((w + h) \div Half) % Half
  <2>1. w + h \in Int
    BY <1>1
  <2>2. ((w + h) % (Half * Half)) \div Half = ((w + h) \div Half) % Half
    BY <1>1, <2>1, HighHalf, Zenon
  <2> QED
    BY <1>1, <2>2 DEF HighAdjusted, h
<1>4. w % Word = w
  BY <1>1, ModBounds
<1>5. CASE lo < h
  <2>1. w + h = Half * q + (lo + h) /\ lo + h \in 0..(Half - 1)
    BY <1>1, <1>2, <1>5
  <2> DEFINE s == lo + h
  <2>2. s \in 0..(Half - 1) /\ w + h = Half * q + s /\ q \in Int
    BY <1>1, <1>2, <2>1
  <2> HIDE DEF s
  <2>3. (w + h) \div Half = q
    BY <1>1, <2>2, QuotientUnique
  <2>4. q % Half = q
    BY <1>1, <1>2, ModBounds
  <2>5. Signed(lo, Half) = lo
    BY <1>5 DEF Signed, h
  <2>6. HighAdjusted(w) * Half + Signed(lo, Half) = w
    <3>1. HighAdjusted(w) = q
      BY <1>3, <2>3, <2>4
    <3> QED
      BY <1>1, <1>2, <2>5, <3>1
  <2> QED
    BY <1>4, <2>6 DEF lo
<1>6. CASE ~(lo < h)
  <2> DEFINE s == lo - h
             c == q + 1
  <2>1. s \in 0..(Half - 1) /\ w + h = Half * c + s /\ c \in Int
    BY <1>1, <1>2, <1>6
  <2>2. (w + h) \div Half = q + 1
    <3>1. c = q + 1
      OBVIOUS
    <3> HIDE DEF s, c
    <3>2. (w + h) \div Half = c
      BY <1>1, <2>1, QuotientUnique
    <3> QED
      BY <3>1, <3>2
  <2> HIDE DEF s, c
  <2>3. Signed(lo, Half) = lo - Half
    BY <1>6 DEF Signed, h
  <2>4. CASE q + 1 < Half
    <3>1. (q + 1) % Half = q + 1
      BY <1>1, <1>2, <2>4, ModBounds
    <3>2. HighAdjusted(w) = q + 1
      BY <1>3, <2>2, <3>1
    <3>3. HighAdjusted(w) * Half + Signed(lo, Half) = w
      BY <1>1, <1>2, <2>3, <3>2
    <3> QED
      BY <1>4, <3>3 DEF lo
  <2>5. CASE q + 1 = Half
    <3>1. (q + 1) % Half = 0
      <4>1. (Half * 1) % Half = 0 /\ Half * 1 = Half
        <5>1. 1 \in Int
          OBVIOUS
        <5>2. (Half * 1) % Half = 0
          BY <1>1, <5>1, MultipleMod, Zenon
        <5> QED
          BY <1>1, <5>2
      <4> QED
        BY <2>5, <4>1
    <3>2. HighAdjusted(w) = 0
      BY <1>3, <2>2, <3>1
    <3>3. HighAdjusted(w) * Half + Signed(lo, Half) = Word * (-1) + w
      <4>1. Half * q = Half * Half - Half
        BY <1>1, <1>2, <2>5
      <4> QED
        BY <1>1, <1>2, <2>3, <3>2, <4>1
    <3>4. (Word * (-1) + w) % Word = w % Word
      <4>1. -1 \in Int /\ w \in Int
        OBVIOUS
      <4> QED
        BY <1>1, <4>1, ModShift, Zenon
    <3> QED
      BY <1>4, <3>3, <3>4 DEF lo
  <2> QED
    BY <1>1, <1>2, <2>4, <2>5
<1> QED
  BY <1>5, <1>6

\* The word a relocation found, as two cells of the fill, is a word.
LEMMA OldWord ==
  ASSUME IInv
  PROVE  Old \in 0..(Word - 1)
<1>1. fill \in 0..(Half - 1) /\ Half \in Nat \ {0} /\ Word = Half * Half /\ Word \in Nat
  BY Numbers DEF IInv
<1>2. Half * fill \in Nat /\ Half * fill + Half <= Half * Half
  BY <1>1
<1> QED
  BY <1>1, <1>2 DEF Old

\* What the applied relocation k has made of its field, and what is known of it.
LEMMA AppliedField ==
  ASSUME RInv, NEW k \in Applied
  PROVE  /\ k \in 1..Len(input) /\ input[k] \in Relocation /\ Reached(input[k])
         /\ Old \in 0..(Word - 1)
         /\ Site(input[k]) \in Nat
         /\ Target(input[k], Base) \in 0..(Word - 1)
         /\ Target(input[k], Base + Delta) \in 0..(Word - 1)
         /\ Distance(input[k]) \in 0..(Word - 1)
         /\ input[k].type \in RelocTypes
         /\ input[k].type \in WordTypes =>
              /\ WordAt(mem, Site(input[k])) = WordWritten(input[k], Base, Old)
              /\ WordAt(shadow, Site(input[k])) = WordWritten(input[k], Base + Delta, Old)
         /\ input[k].type \in HalfTypes =>
              /\ mem[Site(input[k])] = HalfWritten(input[k], Base)
              /\ shadow[Site(input[k])] = HalfWritten(input[k], Base + Delta)
<1>1. IInv /\ Kept
  BY DEF RInv
<1>2. k \in 1..Len(input) /\ input[k] \in Relocation /\ Reached(input[k])
  BY <1>1, NextReloc
<1>3. Old \in 0..(Word - 1)
  BY <1>1, OldWord
<1>4. Base \in Int /\ Base + Delta \in Int
  BY Numbers
<1>5. /\ Site(input[k]) \in Nat /\ input[k].type \in RelocTypes
      /\ Target(input[k], Base) \in 0..(Word - 1) /\ Distance(input[k]) \in 0..(Word - 1)
      /\ Target(input[k], Base + Delta) \in 0..(Word - 1)
  BY <1>2, <1>4, RelocationTypes
<1> QED
  BY <1>1, <1>2, <1>3, <1>5 DEF Kept

LEMMA FieldReaches ==
  ASSUME RInv
  PROVE  FieldsReach
<1> SUFFICES ASSUME NEW k \in Applied
             PROVE  LET r == input[k]
                        p == Site(r)
                        old == fill + Half * fill
                        t == Target(r, Base)
                    IN  CASE r.type = "ADDR32" -> WordAt(mem, p) = t
                          [] r.type = "REL32" -> (WordAt(mem, p) + p + Base) % Word = t
                          [] r.type = "UADDR32" ->
                               (WordAt(mem, p) + Base) % Word =
                                 (t + (IF Sections[r.target].rsrc THEN old ELSE 0)) % Word
                          [] r.type = "REL24" ->
                               LET d == Signed(Distance(r), Word)
                               IN  /\ WordAt(mem, p) - Field24(WordAt(mem, p)) = old - Field24(old)
                                   /\ d % Low = 0 /\ d \in (-(Top \div 2))..(Top \div 2 - 1) =>
                                        (Base + p + Signed(Field24(WordAt(mem, p)), Top)) % Word = t
                          [] r.type = "ADDR16_LO" -> mem[p] = t % Half
                          [] r.type = "ADDR16_HA" ->
                               (mem[p] * Half + Signed(t % Half, Half)) % Word = t
                          [] OTHER -> TRUE
  BY DEF FieldsReach
<1> DEFINE r == input[k]
           p == Site(r)
           t == Target(r, Base)
           w == WordAt(mem, p)
<1>1. /\ r \in Relocation /\ Old \in 0..(Word - 1) /\ p \in Nat
      /\ t \in 0..(Word - 1) /\ Distance(r) \in 0..(Word - 1) /\ r.type \in RelocTypes
      /\ r.type \in WordTypes => w = WordWritten(r, Base, Old)
      /\ r.type \in HalfTypes => mem[p] = HalfWritten(r, Base)
  BY AppliedField
<1> HIDE DEF r
<1>2. CASE r.type = "ADDR32"
  <2>1. w = t
    BY <1>1, <1>2 DEF WordTypes, WordWritten
  <2> QED
    BY <1>2, <2>1 DEF r
<1>3. CASE r.type = "REL32"
  <2>1. w = Distance(r)
    BY <1>1, <1>3 DEF WordTypes, WordWritten
  <2>2. (Distance(r) + p + Base) % Word = t
    BY <1>1, RelativeReaches
  <2> QED
    BY <1>3, <2>1, <2>2 DEF r
<1>4. CASE r.type = "UADDR32"
  <2> DEFINE added == IF Sections[r.target].rsrc THEN Old ELSE 0
  <2>1. w = (t - Base + added) % Word
    BY <1>1, <1>4 DEF WordTypes, WordWritten
  <2>2. t \in Int /\ added \in Int
    BY <1>1
  <2> HIDE DEF added, t, w
  <2>3. (((t - Base + added) % Word) + Base) % Word = (t + added) % Word
    BY <2>2, RvaReaches
  <2>4. (w + Base) % Word = (t + added) % Word
    BY <2>1, <2>3
  <2> QED
    BY <1>4, <2>4 DEF r, added, t, w, Old
<1>5. CASE r.type = "REL24"
  <2>1. w = Branch(Old, Distance(r))
    BY <1>1, <1>5 DEF WordTypes, WordWritten
  <2>2. /\ Field24(w) = Field24(Distance(r))
        /\ w - Field24(w) = Old - Field24(Old)
    BY <1>1, <2>1, BranchField
  <2>3. ASSUME Signed(Distance(r), Word) % Low = 0,
               Signed(Distance(r), Word) \in (-(Top \div 2))..(Top \div 2 - 1)
        PROVE  (Base + p + Signed(Field24(w), Top)) % Word = t
    <3>1. (Base + p + Signed(Field24(Distance(r)), Top)) % Word = t
      BY <1>1, <2>3, BranchReaches
    <3> QED
      BY <2>2, <3>1
  <2> HIDE DEF w, t, p
  <2> QED
    BY <1>5, <2>2, <2>3 DEF r, w, t, p, Old
<1>6. CASE r.type = "ADDR16_LO"
  <2>1. mem[p] = t % Half
    BY <1>1, <1>6 DEF HalfTypes, HalfWritten
  <2> QED
    BY <1>6, <2>1 DEF r
<1>7. CASE r.type = "ADDR16_HA"
  <2>1. mem[p] = HighAdjusted(t)
    BY <1>1, <1>7 DEF HalfTypes, HalfWritten
  <2>2. (HighAdjusted(t) * Half + Signed(t % Half, Half)) % Word = t
    BY <1>1, HighReaches
  <2> QED
    BY <1>7, <2>1, <2>2 DEF r
<1>8. CASE r.type = "NONE"
  BY <1>8 DEF r
<1> QED
  BY <1>1, <1>2, <1>3, <1>4, <1>5, <1>6, <1>7, <1>8 DEF RelocTypes

\* Each relocated instruction or pointer names its target, from the moment it is
\* relocated to the end (FieldsReach).
THEOREM EveryFieldReaches ==
  ASSUME FieldsFit, FieldsClear
  PROVE  Spec => []FieldsReach
<1>1. RInv /\ [Next]_vars => RInv'
  BY NextRInv
<1> QED
  BY <1>1, InitRInv, FieldReaches, PTL DEF Spec

(* ---- the notes make up the difference between the two links ---- *)

\* Moving the image moves every absolute target, modulo the address space.
LEMMA TargetMoves ==
  ASSUME NEW r \in Relocation
  PROVE  Target(r, Base + Delta) = (Target(r, Base) + Delta) % Word
<1> DEFINE x == SymbolRva(r.symbol) + Base + r.addend
<1>1. /\ SymbolRva(r.symbol) \in Nat /\ r.addend \in Int
      /\ Base \in Int /\ Delta \in Int /\ Word \in Nat \ {0}
  BY RelocationTypes, Numbers
<1>2. x \in Int /\ SymbolRva(r.symbol) + (Base + Delta) + r.addend = x + Delta
  BY <1>1
<1>3. ((x % Word) + Delta) % Word = (x + Delta) % Word
  <2> HIDE DEF x
  <2> QED
    BY <1>1, <1>2, ModSum, Zenon
<1> QED
  BY <1>2, <1>3 DEF Target

\* An address relative to the base does not depend on the base.
LEMMA RvaStays ==
  ASSUME NEW r \in Relocation, NEW base \in Int, NEW z \in Int
  PROVE  (Target(r, base) - base + z) % Word = (SymbolRva(r.symbol) + r.addend + z) % Word
<1> DEFINE x == SymbolRva(r.symbol) + base + r.addend
           y == z - base
<1>1. SymbolRva(r.symbol) \in Nat /\ r.addend \in Int /\ Word \in Nat \ {0}
  BY RelocationTypes, Numbers
<1>2. x \in Int /\ y \in Int /\ x + y = SymbolRva(r.symbol) + r.addend + z
  BY <1>1
<1>3. x % Word \in Int
  BY <1>1, <1>2, ModType
<1>4. ((x % Word) + y) % Word = (x + y) % Word
  <2> HIDE DEF x, y
  <2> QED
    BY <1>1, <1>2, ModSum, Zenon
<1>5. Target(r, base) - base + z = (x % Word) + y
  <2>1. Target(r, base) = x % Word
    BY DEF Target
  <2> QED
    BY <1>3, <2>1
<1> QED
  BY <1>2, <1>4, <1>5

\* The low half of a number is that of its word.
LEMMA LowHalf ==
  ASSUME NEW y \in Int
  PROVE  (y % Word) % Half = y % Half
<1> DEFINE c == y \div Word
           w == y % Word
           e == Half * c
<1>1. Word \in Nat \ {0} /\ Half \in Nat \ {0} /\ Word = Half * Half
  BY Numbers
<1>2. y = Word * c + w /\ c \in Int /\ w \in Int
  <2>1. Word \in Int /\ Word > 0
    BY <1>1
  <2>2. y = Word * c + w /\ c \in Int
    BY <2>1, DivMod, Zenon
  <2>3. w \in Int
    BY <1>1, ModType, Zenon
  <2> QED
    BY <2>2, <2>3
<1> HIDE DEF c, w
<1>3. e \in Int /\ y = Half * e + w
  BY <1>1, <1>2
<1> HIDE DEF e
<1>4. (Half * e + w) % Half = w % Half
  BY <1>1, <1>2, <1>3, ModShift, Zenon
<1> QED
  BY <1>3, <1>4 DEF w

\* Type 4, with a Delta that is a multiple of Half, turns the adjusted high half of an
\* address into that of the address Delta higher.
LEMMA HighMoves ==
  ASSUME NEW t \in 0..(Word - 1)
  PROVE  (HighAdjusted(t) + Delta \div Half) % Half = HighAdjusted((t + Delta) % Word)
<1> DEFINE h == Half \div 2
           e == Delta \div Half
           y == t + h
           q == y \div Half
<1>1. /\ Half \in Nat \ {0} /\ Word \in Nat \ {0} /\ Word = Half * Half
      /\ h \in Nat /\ Delta \in Int
  BY Numbers, Even
<1>2. Delta = Half * e /\ e \in Int
  BY <1>1, Numbers, DivMod
<1>3. y \in Int /\ (t + Delta) + h = Half * e + y /\ t + Delta \in Int
  BY <1>1, <1>2
<1>4. q \in Int
  BY <1>1, <1>3, DivMod
<1>5. HighAdjusted(t) = q % Half
  <2>1. (y % (Half * Half)) \div Half = q % Half
    <3> HIDE DEF y
    <3> QED
      BY <1>1, <1>3, HighHalf, Zenon
  <2> QED
    BY <1>1, <2>1 DEF HighAdjusted
<1>6. HighAdjusted((t + Delta) % Word) = (((t + Delta) + h) \div Half) % Half
  <2> DEFINE v == t + Delta
  <2>1. ((v % Word) + h) % Word = (v + h) % Word
    <3>1. v \in Int /\ h \in Int
      BY <1>1, <1>3
    <3> HIDE DEF v, h
    <3> QED
      BY <1>1, <3>1, ModSum, Zenon
  <2>2. ((v + h) % (Half * Half)) \div Half = ((v + h) \div Half) % Half
    <3>1. v + h \in Int
      BY <1>1, <1>3
    <3> HIDE DEF v, h
    <3> QED
      BY <1>1, <3>1, HighHalf, Zenon
  <2>3. HighAdjusted(v % Word) = (((v % Word) + h) % Word) \div Half
    BY DEF HighAdjusted
  <2> HIDE DEF v, h
  <2>4. HighAdjusted(v % Word) = ((v + h) \div Half) % Half
    BY <1>1, <2>1, <2>2, <2>3
  <2> QED
    BY <2>4 DEF v
<1> HIDE DEF h, e, y
<1>7. (Half * e + y) \div Half = e + q
  BY <1>1, <1>2, <1>3, ModShift, Zenon DEF q
<1> HIDE DEF q
<1>8. ((q % Half) + e) % Half = (q + e) % Half
  BY <1>1, <1>2, <1>4, ModSum, Zenon
<1>9. e + q = q + e
  BY <1>2, <1>4
<1> QED
  BY <1>3, <1>5, <1>6, <1>7, <1>8, <1>9 DEF e

\* A note names a relocated field of its type.
LEMMA NoteNames ==
  ASSUME RInv, FieldsFit, NEW a, NEW type, <<a, type>> \in Notes
  PROVE  \E j \in Applied :
           /\ a = Site(input[j]) /\ a \in Field(input[j]) /\ a \in Nat
           /\ type = 3 => input[j].type = "ADDR32" /\ a + 1 \in Field(input[j])
           /\ type = 2 => input[j].type = "ADDR16_LO"
           /\ type = 4 => input[j].type = "ADDR16_HA"
<1>1. PICK j \in Applied : BaseType(input[j]) # 0 /\ a = Site(input[j]) /\ type = BaseType(input[j])
  BY DEF RInv, Told
<1>2. IInv
  BY DEF RInv
<1>3. /\ j \in 1..Len(input) /\ input[j] \in Relocation /\ Reached(input[j])
      /\ input[j].offset + Width(input[j]) <= Sections[input[j].target].size
      /\ a \in Nat
  BY <1>1, <1>2, AppliedField, FitsNext
<1>4. /\ input[j].type \in HalfTypes => Field(input[j]) = {a}
      /\ input[j].type \in WordTypes => Field(input[j]) = {a, a + 1}
  BY <1>1, <1>3, FieldInMemory
<1>5. /\ type = 3 => input[j].type = "ADDR32"
      /\ type = 2 => input[j].type = "ADDR16_LO"
      /\ type = 4 => input[j].type = "ADDR16_HA"
      /\ type \in {2, 3, 4}
  BY <1>1 DEF BaseType
<1> QED
  BY <1>1, <1>3, <1>4, <1>5 DEF WordTypes, HalfTypes

\* The notes that concern a cell of a relocated field are those of its relocation.
LEMMA FieldNotes ==
  ASSUME RInv, FieldsFit, FieldsClear, NEW k \in Applied, NEW a \in Field(input[k])
  PROVE  /\ <<a, 3>> \in Notes <=> input[k].type = "ADDR32" /\ a = Site(input[k])
         /\ <<a - 1, 3>> \in Notes <=> input[k].type = "ADDR32" /\ a = Site(input[k]) + 1
         /\ <<a, 2>> \in Notes <=> input[k].type = "ADDR16_LO"
         /\ <<a, 4>> \in Notes <=> input[k].type = "ADDR16_HA"
<1> DEFINE r == input[k]
           p == Site(r)
<1>1. IInv
  BY DEF RInv
<1>2. /\ k \in 1..Len(input) /\ r \in Relocation /\ Reached(r) /\ p \in Nat
      /\ r.type \in RelocTypes
      /\ r.offset + Width(r) <= Sections[r.target].size
  BY <1>1, AppliedField, FitsNext
<1>3. \A j \in Applied : a \in Field(input[j]) => j = k
  <2> SUFFICES ASSUME NEW j \in Applied, j # k PROVE a \notin Field(input[j])
    OBVIOUS
  <2>1. /\ j \in 1..Len(input) /\ Reached(input[j])
        /\ k \in 1..Len(input) /\ Reached(input[k])
    BY <1>1, NextReloc
  <2> QED
    BY <1>1, <2>1, FieldsDisjoint
<1>4. /\ r.type \in HalfTypes => Field(r) = {p}
      /\ r.type \in WordTypes => Field(r) = {p, p + 1}
      /\ r.type = "NONE" => Field(r) = {}
  BY <1>2, FieldInMemory
<1>5. BaseType(r) # 0 => <<p, BaseType(r)>> \in Notes
  BY DEF RInv, Told
<1>6. a \in Int
  BY <1>2 DEF Field
<1>7. <<a, 3>> \in Notes <=> r.type = "ADDR32" /\ a = p
  <2>1. ASSUME <<a, 3>> \in Notes PROVE r.type = "ADDR32" /\ a = p
    BY <1>3, <2>1, NoteNames
  <2>2. ASSUME r.type = "ADDR32", a = p PROVE <<a, 3>> \in Notes
    <3>1. BaseType(r) = 3
      BY <2>2 DEF BaseType
    <3> QED
      BY <1>5, <2>2, <3>1
  <2> QED
    BY <2>1, <2>2
<1>8. <<a - 1, 3>> \in Notes <=> r.type = "ADDR32" /\ a = p + 1
  <2>1. ASSUME <<a - 1, 3>> \in Notes PROVE r.type = "ADDR32" /\ a = p + 1
    <3>1. PICK j \in Applied : /\ a - 1 = Site(input[j]) /\ input[j].type = "ADDR32"
                               /\ (a - 1) + 1 \in Field(input[j])
      BY <2>1, NoteNames
    <3>2. (a - 1) + 1 = a
      BY <1>6
    <3>3. j = k
      BY <1>3, <3>1, <3>2
    <3> QED
      BY <1>2, <1>6, <3>1, <3>3
  <2>2. ASSUME r.type = "ADDR32", a = p + 1 PROVE <<a - 1, 3>> \in Notes
    <3>1. BaseType(r) = 3 /\ a - 1 = p
      BY <1>2, <2>2 DEF BaseType
    <3> QED
      BY <1>5, <3>1
  <2> QED
    BY <2>1, <2>2
<1>9. <<a, 2>> \in Notes <=> r.type = "ADDR16_LO"
  <2>1. ASSUME <<a, 2>> \in Notes PROVE r.type = "ADDR16_LO"
    BY <1>3, <2>1, NoteNames
  <2>2. ASSUME r.type = "ADDR16_LO" PROVE <<a, 2>> \in Notes
    <3>1. BaseType(r) = 2 /\ a = p
      BY <1>4, <2>2 DEF BaseType, HalfTypes
    <3> QED
      BY <1>5, <3>1
  <2> QED
    BY <2>1, <2>2
<1>10. <<a, 4>> \in Notes <=> r.type = "ADDR16_HA"
  <2>1. ASSUME <<a, 4>> \in Notes PROVE r.type = "ADDR16_HA"
    BY <1>3, <2>1, NoteNames
  <2>2. ASSUME r.type = "ADDR16_HA" PROVE <<a, 4>> \in Notes
    <3>1. BaseType(r) = 4 /\ a = p
      BY <1>4, <2>2 DEF BaseType, HalfTypes
    <3> QED
      BY <1>5, <3>1
  <2> QED
    BY <2>1, <2>2
<1> QED
  BY <1>7, <1>8, <1>9, <1>10

\* What a loader makes of a cell whose notes exclude each other.
LEMMA RebasedCell ==
  ASSUME NEW m \in Memory, NEW notes, NEW a \in Addresses
  PROVE  LET three == <<a, 3>> \in notes
             after == <<a - 1, 3>> \in notes
             two   == <<a, 2>> \in notes
             four  == <<a, 4>> \in notes
         IN  /\ three /\ ~after /\ ~two /\ ~four =>
                  Rebased(m, notes)[a] = (WordAt(m, a) + Delta) % Half
             /\ ~three /\ after /\ ~two /\ ~four =>
                  Rebased(m, notes)[a] = ((WordAt(m, a - 1) + Delta) % Word) \div Half
             /\ ~three /\ ~after /\ two /\ ~four => Rebased(m, notes)[a] = (m[a] + Delta) % Half
             /\ ~three /\ ~after /\ ~two /\ four =>
                  Rebased(m, notes)[a] = (m[a] + Delta \div Half) % Half
             /\ ~three /\ ~after /\ ~two /\ ~four => Rebased(m, notes)[a] = m[a]
<1>1. DOMAIN m = Addresses
  BY DEF Memory
<1>2. Rebased(m, notes)[a] =
        CASE <<a, 3>> \in notes     -> (WordAt(m, a) + Delta) % Half
          [] <<a - 1, 3>> \in notes -> ((WordAt(m, a - 1) + Delta) % Word) \div Half
          [] <<a, 2>> \in notes     -> (m[a] + Delta) % Half
          [] <<a, 4>> \in notes     -> (m[a] + Delta \div Half) % Half
          [] OTHER                   -> m[a]
  BY <1>1 DEF Rebased
<1> DEFINE three == <<a, 3>> \in notes
           after == <<a - 1, 3>> \in notes
           two   == <<a, 2>> \in notes
           four  == <<a, 4>> \in notes
           e1 == (WordAt(m, a) + Delta) % Half
           e2 == ((WordAt(m, a - 1) + Delta) % Word) \div Half
           e3 == (m[a] + Delta) % Half
           e4 == (m[a] + Delta \div Half) % Half
           e5 == m[a]
           cell == Rebased(m, notes)[a]
<1>3. cell = CASE three -> e1 [] after -> e2 [] two -> e3 [] four -> e4 [] OTHER -> e5
  BY <1>2
<1> HIDE DEF three, after, two, four, e1, e2, e3, e4, e5, cell
<1>4. /\ three /\ ~after /\ ~two /\ ~four => cell = e1
      /\ ~three /\ after /\ ~two /\ ~four => cell = e2
      /\ ~three /\ ~after /\ two /\ ~four => cell = e3
      /\ ~three /\ ~after /\ ~two /\ four => cell = e4
      /\ ~three /\ ~after /\ ~two /\ ~four => cell = e5
  BY <1>3
<1> QED
  BY <1>4 DEF three, after, two, four, e1, e2, e3, e4, e5, cell

\* A word or half word that no note is about is the same in both links.
LEMMA RelativeStays ==
  ASSUME RInv, NEW k \in Applied, input[k].type \in {"REL32", "UADDR32", "REL24"}
  PROVE  WordAt(shadow, Site(input[k])) = WordAt(mem, Site(input[k]))
<1> DEFINE r == input[k]
           z == IF Sections[r.target].rsrc THEN Old ELSE 0
<1>1. /\ r \in Relocation /\ Old \in 0..(Word - 1)
      /\ r.type \in WordTypes =>
           /\ WordAt(mem, Site(r)) = WordWritten(r, Base, Old)
           /\ WordAt(shadow, Site(r)) = WordWritten(r, Base + Delta, Old)
  BY AppliedField
<1>2. r.type \in WordTypes
  BY DEF WordTypes
<1>3. WordWritten(r, Base, Old) = WordWritten(r, Base + Delta, Old)
  <2>1. CASE r.type = "REL32"
    BY <2>1 DEF WordWritten
  <2>2. CASE r.type = "REL24"
    BY <2>2 DEF WordWritten
  <2>3. CASE r.type = "UADDR32"
    <3>1. z \in Int
      BY <1>1
    <3>2. Base \in Int /\ Base + Delta \in Int
      BY Numbers
    <3> DEFINE moved == Base + Delta
    <3>3. /\ WordWritten(r, Base, Old) = (Target(r, Base) - Base + z) % Word
          /\ WordWritten(r, moved, Old) = (Target(r, moved) - moved + z) % Word
      BY <2>3 DEF WordWritten
    <3>4. moved \in Int
      BY <3>2
    <3> HIDE DEF moved, z, r
    <3>5. (Target(r, Base) - Base + z) % Word = (Target(r, moved) - moved + z) % Word
      BY <1>1, <3>1, <3>2, <3>4, RvaStays
    <3> QED
      BY <3>3, <3>5 DEF moved
  <2> QED
    BY <2>1, <2>2, <2>3
<1> QED
  BY <1>1, <1>2, <1>3

\* The loader turns every cell into what the other link has there.
LEMMA CellRebased ==
  ASSUME RInv, FieldsFit, FieldsClear, NEW a \in Addresses
  PROVE  Rebased(mem, Notes)[a] = shadow[a]
<1>1. IInv /\ mem \in Memory /\ shadow \in Memory
  BY DEF RInv, IInv, TypeOK, Memory
<1>2. CASE \A k \in Applied : a \notin Field(input[k])
  <2>1. <<a, 3>> \notin Notes /\ <<a, 2>> \notin Notes /\ <<a, 4>> \notin Notes
    BY <1>2, NoteNames
  <2>2. <<a - 1, 3>> \notin Notes
    <3> SUFFICES ASSUME <<a - 1, 3>> \in Notes PROVE FALSE
      OBVIOUS
    <3>1. PICK j \in Applied : (a - 1) + 1 \in Field(input[j])
      BY NoteNames
    <3>2. (a - 1) + 1 = a
      <4>1. a \in Int
        BY SectionTypes DEF Addresses
      <4> QED
        BY <4>1
    <3> QED
      BY <1>2, <3>1, <3>2
  <2>3. Rebased(mem, Notes)[a] = mem[a]
    BY <1>1, <2>1, <2>2, RebasedCell
  <2>4. mem[a] = fill /\ shadow[a] = fill
    BY <1>2 DEF RInv, Blank
  <2> QED
    BY <2>3, <2>4
<1>3. ASSUME NEW k \in Applied, a \in Field(input[k])
      PROVE  Rebased(mem, Notes)[a] = shadow[a]
  <2> DEFINE r == input[k]
             p == Site(r)
             t == Target(r, Base)
             v == Target(r, Base + Delta)
  <2>1. /\ r \in Relocation /\ Reached(r) /\ p \in Nat /\ r.type \in RelocTypes
        /\ t \in 0..(Word - 1) /\ v \in 0..(Word - 1)
        /\ r.type \in WordTypes =>
             /\ WordAt(mem, p) = WordWritten(r, Base, Old)
             /\ WordAt(shadow, p) = WordWritten(r, Base + Delta, Old)
        /\ r.type \in HalfTypes =>
             /\ mem[p] = HalfWritten(r, Base)
             /\ shadow[p] = HalfWritten(r, Base + Delta)
    BY AppliedField
  <2>2. r.offset + Width(r) <= Sections[r.target].size
    BY <1>1, AppliedField, FitsNext
  <2>3. /\ Field(r) \subseteq Addresses
        /\ r.type \in HalfTypes => Field(r) = {p}
        /\ r.type \in WordTypes => Field(r) = {p, p + 1}
        /\ r.type = "NONE" => Field(r) = {}
    BY <2>1, <2>2, FieldInMemory
  <2>4. /\ <<a, 3>> \in Notes <=> r.type = "ADDR32" /\ a = p
        /\ <<a - 1, 3>> \in Notes <=> r.type = "ADDR32" /\ a = p + 1
        /\ <<a, 2>> \in Notes <=> r.type = "ADDR16_LO"
        /\ <<a, 4>> \in Notes <=> r.type = "ADDR16_HA"
    BY <1>3, FieldNotes
  <2>5. v = (t + Delta) % Word
    BY <2>1, TargetMoves
  <2>6. /\ r.type \in WordTypes =>
             /\ mem[p] = WordAt(mem, p) % Half /\ mem[p + 1] = WordAt(mem, p) \div Half
             /\ shadow[p] = WordAt(shadow, p) % Half /\ shadow[p + 1] = WordAt(shadow, p) \div Half
    <3> SUFFICES ASSUME r.type \in WordTypes
                 PROVE  /\ mem[p] = WordAt(mem, p) % Half
                        /\ mem[p + 1] = WordAt(mem, p) \div Half
                        /\ shadow[p] = WordAt(shadow, p) % Half
                        /\ shadow[p + 1] = WordAt(shadow, p) \div Half
      OBVIOUS
    <3>1. p \in Int /\ p \in Addresses /\ p + 1 \in Addresses
      BY <2>1, <2>3
    <3> HIDE DEF p
    <3> QED
      BY <1>1, <3>1, WordCells
  <2>7. /\ t \in Int /\ t + Delta \in Int /\ Delta \in Int /\ Half \in Nat \ {0}
    BY <2>1, Numbers
  <2>8. v % Half = (t + Delta) % Half
    <3> DEFINE y == t + Delta
    <3> HIDE DEF y
    <3>1. (y % Word) % Half = y % Half
      BY <2>7, LowHalf DEF y
    <3> QED
      BY <2>5, <3>1 DEF y
  <2>9. CASE r.type = "ADDR32"
    <3>1. WordAt(mem, p) = t /\ WordAt(shadow, p) = v
      BY <2>1, <2>9 DEF WordTypes, WordWritten
    <3>2. r.type \in WordTypes
      BY <2>9 DEF WordTypes
    <3>3. CASE a = p
      <4>1. a # p + 1
        BY <2>1, <3>3
      <4>2. Rebased(mem, Notes)[a] = (WordAt(mem, a) + Delta) % Half
        BY <1>1, <2>4, <2>9, <3>3, <4>1, RebasedCell
      <4>3. shadow[a] = v % Half
        BY <2>6, <3>1, <3>2, <3>3
      <4> QED
        BY <2>8, <3>1, <3>3, <4>2, <4>3
    <3>4. CASE a = p + 1
      <4>1. a # p /\ a - 1 = p
        BY <2>1, <3>4
      <4>2. Rebased(mem, Notes)[a] = ((WordAt(mem, a - 1) + Delta) % Word) \div Half
        BY <1>1, <2>4, <2>9, <3>4, <4>1, RebasedCell
      <4>3. shadow[a] = v \div Half
        BY <2>6, <3>1, <3>2, <3>4
      <4> QED
        BY <2>5, <3>1, <4>1, <4>2, <4>3
    <3> QED
      BY <1>3, <2>3, <3>2, <3>3, <3>4
  <2>10. CASE r.type \in {"REL32", "UADDR32", "REL24"}
    <3>1. Rebased(mem, Notes)[a] = mem[a]
      <4>1. r.type # "ADDR32" /\ r.type # "ADDR16_LO" /\ r.type # "ADDR16_HA"
        BY <2>10
      <4>2. /\ <<a, 3>> \notin Notes /\ <<a - 1, 3>> \notin Notes
            /\ <<a, 2>> \notin Notes /\ <<a, 4>> \notin Notes
        BY <2>4, <4>1
      <4> QED
        BY <1>1, <4>2, RebasedCell
    <3>2. WordAt(shadow, p) = WordAt(mem, p)
      BY <2>10, RelativeStays
    <3>3. r.type \in WordTypes
      BY <2>10 DEF WordTypes
    <3>4. a = p \/ a = p + 1
      BY <1>3, <2>3, <3>3
    <3> QED
      BY <2>6, <3>1, <3>2, <3>3, <3>4
  <2>11. CASE r.type = "ADDR16_LO"
    <3>1. Rebased(mem, Notes)[a] = (mem[a] + Delta) % Half
      <4>1. /\ <<a, 3>> \notin Notes /\ <<a - 1, 3>> \notin Notes
            /\ <<a, 2>> \in Notes /\ <<a, 4>> \notin Notes
        BY <2>4, <2>11
      <4> QED
        BY <1>1, <4>1, RebasedCell
    <3>2. mem[p] = t % Half /\ shadow[p] = v % Half /\ a = p
      BY <1>3, <2>1, <2>3, <2>11 DEF HalfTypes, HalfWritten
    <3>3. ((t % Half) + Delta) % Half = (t + Delta) % Half
      <4> HIDE DEF t
      <4> QED
        BY <2>7, ModSum, Zenon
    <3> QED
      BY <2>8, <3>1, <3>2, <3>3
  <2>12. CASE r.type = "ADDR16_HA"
    <3>1. Rebased(mem, Notes)[a] = (mem[a] + Delta \div Half) % Half
      <4>1. /\ <<a, 3>> \notin Notes /\ <<a - 1, 3>> \notin Notes
            /\ <<a, 2>> \notin Notes /\ <<a, 4>> \in Notes
        BY <2>4, <2>12
      <4> QED
        BY <1>1, <4>1, RebasedCell
    <3>2. mem[p] = HighAdjusted(t) /\ shadow[p] = HighAdjusted(v) /\ a = p
      BY <1>3, <2>1, <2>3, <2>12 DEF HalfTypes, HalfWritten
    <3>3. (HighAdjusted(t) + Delta \div Half) % Half = HighAdjusted(v)
      <4> HIDE DEF t
      <4>1. (HighAdjusted(t) + Delta \div Half) % Half = HighAdjusted((t + Delta) % Word)
        BY <2>1, HighMoves
      <4> QED
        BY <2>5, <4>1
    <3> QED
      BY <3>1, <3>2, <3>3
  <2>13. r.type # "NONE"
    BY <1>3, <2>3
  <2> QED
    BY <2>1, <2>9, <2>10, <2>11, <2>12, <2>13 DEF RelocTypes
<1> QED
  BY <1>2, <1>3

LEMMA MemoryRebased ==
  ASSUME RInv, FieldsFit, FieldsClear
  PROVE  Rebased(mem, Notes) = shadow
<1>1. mem \in Memory /\ shadow \in Memory
  BY DEF RInv, IInv, TypeOK, Memory
<1>2. Rebased(mem, Notes) = [a \in Addresses |-> Rebased(mem, Notes)[a]]
  BY <1>1 DEF Rebased, Memory
<1>3. shadow = [a \in Addresses |-> shadow[a]]
  BY <1>1 DEF Memory
<1> QED
  BY <1>2, <1>3, CellRebased

\* At every moment the notes taken so far turn the memory, cell by cell, into that of the
\* same program linked Delta higher: no absolute field lacks a note, and no note is
\* about anything else (NotesComplete).
THEOREM LoaderCanMove ==
  ASSUME FieldsFit, FieldsClear
  PROVE  Spec => []NotesComplete
<1>1. RInv /\ [Next]_vars => RInv'
  BY NextRInv
<1>2. RInv => NotesComplete
  BY MemoryRebased DEF NotesComplete
<1> QED
  BY <1>1, <1>2, InitRInv, PTL DEF Spec

=============================================================================
