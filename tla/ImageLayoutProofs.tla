------------------------- MODULE ImageLayoutProofs -------------------------
(* Theorems about ImageLayout, for every set of inputs and every pair of    *)
(* alignments its assumptions allow.                                        *)
EXTENDS ImageLayout, Remainders, FiniteSetTheorems

(* ---- roundup ---- *)

\* roundup returns the next multiple: never below the value, less than one
\* alignment above it, as long as the sum stays in the word.
LEMMA RoundupBounds ==
  ASSUME NEW value \in Nat, NEW round \in Nat \ {0}, value + round <= Word
  PROVE  /\ Roundup(value, round) \in Nat
         /\ value <= Roundup(value, round)
         /\ Roundup(value, round) < value + round
<1> DEFINE top == value + round - 1
<1>1. top \in Nat /\ top < Word
  BY WordAssumption
<1>2. top % Word = top
  BY <1>1, WordAssumption, ModBounds
<1>3. Roundup(value, round) = top - (top % round)
  BY <1>2 DEF Roundup
<1>4. top % round \in Nat /\ top % round < round /\ top % round <= top
  BY <1>1, ModBounds
<1> QED
  BY <1>3, <1>4

\* What roundup returns is a multiple, even when the sum has left the word.
LEMMA RoundupMultiple ==
  ASSUME NEW value \in Nat, NEW round \in Nat \ {0}
  PROVE  Roundup(value, round) % round = 0
<1> DEFINE top == (value + round - 1) % Word
<1>1. top \in Nat
  <2>1. value + round - 1 \in Nat
    OBVIOUS
  <2> QED
    BY <2>1, WordAssumption, ModBounds
<1>2. Roundup(value, round) = top - (top % round)
  BY Zenon DEF Roundup
<1> HIDE DEF top
<1>3. (top - (top % round)) % round = 0
  BY <1>1, ClearedMod
<1> QED
  BY <1>2, <1>3

\* For an alignment that divides the word, as every power of two does, roundup
\* returns the least multiple that is not below the value, and 0 when there is none
\* in the word.
THEOREM RoundupReturnsLeast ==
  ASSUME NEW value \in 0..(Word - 1), NEW round \in Nat \ {0}, Word % round = 0
  PROVE  LeastMultiple(value, round, Roundup(value, round))
<1> DEFINE multiples == {m \in value..(Word - 1) : m % round = 0}
           r == Roundup(value, round)
<1>1. value \in Nat /\ value < Word /\ Word \in Nat \ {0}
  BY WordAssumption
<1>2. \A m : m \in multiples <=> m \in Nat /\ value <= m /\ m < Word /\ m % round = 0
  BY <1>1
<1>3. LeastMultiple(value, round, r) <=>
        r = IF multiples = {} THEN 0 ELSE CHOOSE m \in multiples : \A n \in multiples : m <= n
  BY DEF LeastMultiple
<1> HIDE DEF multiples
<1>4. CASE value + round <= Word
  <2>1. r \in Nat /\ value <= r /\ r < value + round
    BY <1>1, <1>4, RoundupBounds
  <2>2. r % round = 0
    BY <1>1, RoundupMultiple
  <2> HIDE DEF r
  <2>3. r \in multiples
    BY <1>1, <1>2, <1>4, <2>1, <2>2
  <2>4. \A n \in multiples : r <= n
    <3> SUFFICES ASSUME NEW n \in multiples, n < r PROVE FALSE
      BY <1>2, <2>1
    <3>1. n \in Nat /\ value <= n /\ n % round = 0
      BY <1>2
    <3>2. n + round <= r
      <4>1. n \in Int /\ r \in Int
        BY <2>1, <3>1
      <4> QED
        BY <4>1, <2>2, <3>1, MultiplesApart
    <3> QED
      BY <1>1, <2>1, <3>1, <3>2
  <2>5. \A m \in multiples : (\A n \in multiples : m <= n) => m = r
    BY <1>2, <2>1, <2>3, <2>4
  <2>6. r = CHOOSE m \in multiples : \A n \in multiples : m <= n
    BY <2>3, <2>4, <2>5
  <2>7. multiples # {}
    BY <2>3
  <2> QED
    BY <1>3, <2>6, <2>7, Zenon DEF r
<1>5. CASE Word < value + round
  <2>1. multiples = {}
    <3> SUFFICES ASSUME NEW m \in multiples PROVE FALSE
      OBVIOUS
    <3>1. m \in Nat /\ value <= m /\ m < Word /\ m % round = 0
      BY <1>2
    <3>2. m + round <= Word
      <4>1. m \in Int /\ Word \in Int
        BY <1>1, <3>1
      <4> QED
        BY <4>1, <3>1, MultiplesApart
    <3> QED
      BY <1>1, <1>5, <3>1, <3>2
  <2>2. round <= Word
    <3>1. Word < round => Word % round = Word
      BY <1>1, ModBounds
    <3> QED
      BY <1>1, <3>1
  <2>3. (value + round - 1) % Word = value + round - 1 - Word
    <3> DEFINE d == value + round - 1 - Word
    <3>1. d \in Nat /\ d < Word /\ value + round - 1 = Word + d
      BY <1>1, <1>5, <2>2
    <3> HIDE DEF d
    <3>2. (Word + d) % Word = d
      BY <1>1, <3>1, SMT
    <3> QED
      BY <3>1, <3>2 DEF d
  <2>4. (value + round - 1 - Word) % round = value + round - 1 - Word
    <3>1. value + round - 1 - Word \in Nat /\ value + round - 1 - Word < round
      BY <1>1, <1>5
    <3> QED
      BY <3>1, ModBounds
  <2>5. r = 0
    BY <1>1, <2>3, <2>4 DEF Roundup
  <2> QED
    BY <1>3, <2>1, <2>5
<1> QED
  BY <1>1, <1>4, <1>5

(* ---- how far a walk comes ---- *)

\* A bound on everything that is reached after n sections.
Step == MaxSize + SectionAlign + FileAlign

Reach(n) == n * Step

\* What a walk can accumulate grows by one Step per section.
LEMMA ReachGrows ==
  ASSUME NEW n \in Nat
  PROVE  /\ Step \in Nat
         /\ Reach(n) \in Nat
         /\ Reach(n + 1) = Reach(n) + Step
<1>1. Step \in Nat
  BY AlignAssumption, InputAssumption DEF Step
<1>2. \A s \in Nat : n * s \in Nat /\ (n + 1) * s = n * s + s
  BY SMT
<1> QED
  BY <1>1, <1>2 DEF Reach

\* No walk is long enough for the sum to leave the word (NoWrap).
LEMMA ReachFits ==
  ASSUME NEW n \in Nat, n <= MaxSections + 3
  PROVE  Reach(n) < Word
<1>1. Step \in Nat
  BY ReachGrows
<1>2. \A s, m \in Nat : n <= m => n * s <= m * s
  BY SMT
<1>3. MaxSections + 3 \in Nat
  BY InputAssumption
<1>4. n * Step <= (MaxSections + 3) * Step
  BY <1>1, <1>2, <1>3
<1> QED
  BY <1>1, <1>3, <1>4, NoWrap, WordAssumption DEF Reach, Step

\* computeSize covers the unrounded header and is itself a legal section size.
LEMMA HeaderSize ==
  /\ ComputeSize \in Nat
  /\ RawHeader <= ComputeSize
  /\ ComputeSize <= MaxSize
  /\ ComputeSize < Word
  /\ ComputeSize <= Reach(1)
<1>1. Reach(1) = Step
  BY AlignAssumption, InputAssumption DEF Reach, Step
<1>2. Reach(1) < Word
  BY ReachFits, InputAssumption
<1>3. RawHeader + SectionAlign <= Word
  BY <1>1, <1>2, AlignAssumption, InputAssumption, HeaderAssumption, WordAssumption DEF Step
<1>4. RawHeader \in Nat /\ filealign \in Nat \ {0} /\ RawHeader + filealign <= Word
  BY <1>3, AlignAssumption, HeaderAssumption DEF filealign
<1>5. /\ Roundup(RawHeader, filealign) \in Nat
      /\ RawHeader <= Roundup(RawHeader, filealign)
      /\ Roundup(RawHeader, filealign) < RawHeader + filealign
  BY <1>4, RoundupBounds
<1>6. ComputeSize \in Nat /\ RawHeader <= ComputeSize /\ ComputeSize <= MaxSize
  BY <1>4, <1>5, HeaderAssumption, InputAssumption DEF ComputeSize, filealign
<1>7. MaxSize <= Step /\ MaxSize \in Nat /\ Step \in Nat
  BY AlignAssumption, InputAssumption DEF Step
<1>8. ComputeSize <= Step /\ Step < Word
  BY <1>1, <1>2, <1>6, <1>7
<1> QED
  BY <1>1, <1>6, <1>7, <1>8, WordAssumption

\* A section's space, in memory or in the file, is less than one Step.
LEMMA RoundupReach ==
  ASSUME NEW n \in Nat, n <= MaxSections + 2,
         NEW base \in Nat, base <= Reach(n),
         NEW size \in 0..MaxSize,
         NEW round \in {SectionAlign, FileAlign}
  PROVE  /\ Roundup(base + size, round) \in Address
         /\ base + size <= Roundup(base + size, round)
         /\ Roundup(base + size, round) <= Reach(n + 1)
         /\ Roundup(size, round) \in Address
         /\ size <= Roundup(size, round)
         /\ base + Roundup(size, round) \in Address
         /\ base + Roundup(size, round) <= Reach(n + 1)
<1>1. /\ Reach(n) \in Nat
      /\ Reach(n + 1) = Reach(n) + Step
      /\ Step \in Nat
      /\ Reach(n + 1) < Word
  BY ReachGrows, ReachFits, InputAssumption
<1>2. size \in Nat /\ round \in Nat \ {0} /\ size + round <= Step
  BY AlignAssumption, InputAssumption DEF Step
<1>3. base + size \in Nat /\ (base + size) + round <= Reach(n + 1)
  BY <1>1, <1>2
<1>4. size + round <= Word /\ (base + size) + round <= Word
  BY <1>1, <1>2, <1>3, WordAssumption
<1>5. /\ Roundup(base + size, round) \in Nat
      /\ base + size <= Roundup(base + size, round)
      /\ Roundup(base + size, round) < (base + size) + round
  BY <1>2, <1>3, <1>4, RoundupBounds
<1>6. /\ Roundup(size, round) \in Nat
      /\ size <= Roundup(size, round)
      /\ Roundup(size, round) < size + round
  BY <1>2, <1>4, RoundupBounds
<1> QED
  BY <1>1, <1>2, <1>3, <1>5, <1>6, WordAssumption DEF Address

\* What Append does to the type, the length and the elements.
LEMMA AppendElement ==
  ASSUME NEW S, NEW s \in Seq(S), NEW e \in S
  PROVE  /\ Append(s, e) \in Seq(S)
         /\ Len(Append(s, e)) = Len(s) + 1
         /\ \A k \in 1..Len(s) : Append(s, e)[k] = s[k]
         /\ Append(s, e)[Len(s) + 1] = e
         /\ Len(s) \in Nat
  BY SMT

\* Addresses and sizes are natural numbers.
LEMMA RangesAreNat == Address \subseteq Nat /\ 0..MaxSize \subseteq Nat
<1>1. Word \in Nat /\ MaxSize \in Nat
  BY WordAssumption, InputAssumption
<1> QED
  BY <1>1 DEF Address

(* ---- the inductive invariant ---- *)

\* How many sections elfpe itself has appended.
Added == IF pc \in {"write", "done"} THEN 2
         ELSE IF pc \in {"relayout", "table"} THEN 1 ELSE 0

\* The walks have done one section per value of their index.
Counted ==
  /\ Len(elf) <= MaxSections + Added
  /\ pc \in {"layout", "relayout"} => Len(rvas) <= i - 1
  /\ Len(rvas) <= Len(elf) /\ Len(rvas) <= MaxSections + 1
  /\ pc = "table" => Len(header.table) = i - 1 /\ i <= Len(rvas) + 1
  /\ Len(header.table) <= Len(rvas)
  /\ pc \in {"comdat", "layout", "relayout"} => header = NoHeader

\* What each walk accumulates is bounded by how far it has come.
Bounded ==
  /\ pc \in {"layout", "relayout"} => start <= Reach(i)
  /\ pc = "table" => paddr <= Reach(i)
  /\ pc = "write" => Len(file) # 0 /\ FileEnd <= Reach(i)

\* Before allocateComdat nothing has happened to the input.
Untouched ==
  pc = "comdat" => elf \in Inputs /\ i = 1 /\ start = ComputeSize /\ rvas = <<>>

IInv == TypeOK /\ Counted /\ Bounded /\ Untouched

USE DEF Added

\* The inductive invariant holds when main has opened the file.
LEMMA InitIInv == Init => IInv
<1> SUFFICES ASSUME Init PROVE IInv
  OBVIOUS
<1>1. /\ elf \in Seq(Section) /\ Len(elf) <= MaxSections /\ Len(elf) \in Nat
  <2>1. elf \in Inputs
    BY DEF Init
  <2>2. elf \in Seq(Section) /\ Len(elf) <= MaxSections
    BY <2>1, InputAssumption
  <2> QED
    BY <2>2
<1>2. symbol \in [index : Nat, offset : Nat]
  <2>1. CASE symbol = NoSymbol
    BY <2>1 DEF NoSymbol
  <2>2. CASE symbol \in [index : 1..Len(elf), offset : Offsets]
    <3>1. /\ symbol = [index |-> symbol.index, offset |-> symbol.offset]
          /\ symbol.index \in 1..Len(elf)
          /\ symbol.offset \in Offsets
      BY <2>2
    <3>2. symbol.index \in Nat /\ symbol.offset \in Nat
      BY <1>1, <3>1, InputAssumption
    <3> QED
      BY <3>1, <3>2
  <2> QED
    BY <2>1, <2>2 DEF Init
<1>3. start \in Address /\ 0 \in Address
  BY HeaderSize, WordAssumption DEF Init, Address
<1>4. header \in [imageSize : Address, entry : Nat,
                 dirs : {<<>>} \cup [DirNames -> Nat \X Nat], table : Seq(Entry)]
  BY <1>3 DEF Init, NoHeader
<1>5. TypeOK
  BY <1>1, <1>2, <1>3, <1>4 DEF Init, TypeOK, NoFile
<1>6. Counted
  BY <1>1, InputAssumption DEF Init, Counted, NoHeader
<1> QED
  BY <1>5, <1>6 DEF Init, IInv, Bounded, Untouched

(* What the operators of a step return in a state of the invariant.        *)

\* An element of elf is a Section.
LEMMA SectionType ==
  ASSUME TypeOK, NEW k \in 1..Len(elf)
  PROVE  elf[k] \in Section /\ elf[k].size \in 0..MaxSize
<1>1. elf[k] \in Section
  BY DEF TypeOK
<1> QED
  BY <1>1 DEF Section

\* getNamedSectionInfo returns two numbers, found or not.
LEMMA NamedInfoType ==
  ASSUME IInv, NEW name
  PROVE  NamedSectionInfo(name) \in Nat \X Nat
<1> DEFINE hits == {m \in 1..Len(rvas) : rvas[m].index \in Named(name)
                                           /\ elf[rvas[m].index].size # 0}
<1>1. CASE hits = {}
  BY <1>1 DEF NamedSectionInfo
<1>2. CASE hits # {}
  <2> DEFINE m == CHOOSE m \in hits : TRUE
  <2>1. m \in 1..Len(rvas)
    BY <1>2
  <2>2. rvas[m] \in Placement /\ rvas[m].index \in 1..Len(elf)
    BY <2>1 DEF IInv, TypeOK
  <2>3. elf[rvas[m].index].size \in 0..MaxSize
    BY <2>2, SectionType DEF IInv
  <2>4. rvas[m].rva \in Address /\ elf[rvas[m].index].size \in 0..MaxSize
    BY <2>2, <2>3 DEF Placement
  <2>5. rvas[m].rva \in Nat /\ elf[rvas[m].index].size \in Nat
    BY <2>4, RangesAreNat, Zenon
  <2>6. NamedSectionInfo(name) = <<rvas[m].rva, elf[rvas[m].index].size>>
    BY <1>2 DEF NamedSectionInfo
  <2> HIDE DEF m
  <2> QED
    BY <2>5, <2>6
<1> QED
  BY <1>1, <1>2

\* getEntryPoint returns a number, found or not.
LEMMA EntryPointType == IInv => EntryPoint \in Nat
<1> SUFFICES ASSUME IInv PROVE EntryPoint \in Nat
  OBVIOUS
<1> DEFINE hits == {m \in 1..Len(rvas) : rvas[m].index = symbol.index}
<1>1. CASE hits = {}
  BY <1>1, HeaderSize DEF EntryPoint
<1>2. CASE hits # {}
  <2> DEFINE m == CHOOSE m \in hits : TRUE
  <2>1. m \in 1..Len(rvas)
    BY <1>2
  <2>2. rvas[m] \in Placement /\ symbol.offset \in Nat
    BY <2>1 DEF IInv, TypeOK
  <2>3. rvas[m].rva \in Nat
    BY <2>2, WordAssumption DEF Placement, Address
  <2>4. EntryPoint = rvas[m].rva + symbol.offset
    BY <1>2 DEF EntryPoint
  <2> QED
    BY <2>2, <2>3, <2>4
<1> QED
  BY <1>1, <1>2

\* addSection keeps every section there was, under its number.
LEMMA WithSectionType ==
  ASSUME IInv, NEW name \in SectionNames, NEW size \in 0..MaxSize
  PROVE  /\ WithSection(name, size) \in Seq(Section)
         /\ Len(WithSection(name, size)) = Len(elf) + 1
         /\ \A k \in 1..Len(elf) : WithSection(name, size)[k] = elf[k]
         /\ Len(elf) \in Nat
<1> DEFINE s == [name |-> name, nobits |-> FALSE, alloc |-> TRUE, size |-> size]
<1>1. s \in Section
  BY DEF Section
<1>2. elf \in Seq(Section)
  BY DEF IInv, TypeOK
<1> QED
  BY <1>1, <1>2, AppendElement DEF WithSection

(* ---- one step ---- *)

\* AllocateComdat keeps the inductive invariant.
LEMMA AllocateComdatStep == IInv /\ AllocateComdat => IInv'
<1> SUFFICES ASSUME IInv, AllocateComdat PROVE IInv'
  OBVIOUS
<1> USE DEF IInv
<1>1. PICK bss \in Named(".bss"), c \in Commons :
        elf' = [elf EXCEPT ![bss].size = RoundUp4(@) + c]
  BY DEF AllocateComdat
<1>2. /\ pc = "comdat" /\ pc' = "layout"
      /\ elf \in Inputs /\ i = 1 /\ start = ComputeSize /\ rvas = <<>>
      /\ UNCHANGED <<symbol, i, start, rvas, used, header, paddr, file>>
  BY DEF AllocateComdat, Untouched
<1>3. bss \in 1..Len(elf) /\ elf[bss].name = ".bss" /\ elf \in Seq(Section)
  BY DEF Named, TypeOK
<1>4. elf[bss] \in Section
  BY <1>3
<1>5. elf[bss].size \in Nat /\ c \in Nat /\ elf[bss].size + 3 + c <= MaxSize
  BY <1>2, <1>3, <1>4, InputAssumption DEF Section
<1>6. RoundUp4(elf[bss].size) + c \in 0..MaxSize
  <2>1. RoundUp4(elf[bss].size) \in Nat /\ RoundUp4(elf[bss].size) <= elf[bss].size + 3
    BY <1>5 DEF RoundUp4
  <2> QED
    BY <2>1, <1>5, InputAssumption
<1>7. elf' \in Seq(Section) /\ Len(elf') = Len(elf)
  <2>1. [elf[bss] EXCEPT !.size = RoundUp4(@) + c] \in Section
    BY <1>4, <1>6 DEF Section
  <2>2. elf' = [elf EXCEPT ![bss] = [elf[bss] EXCEPT !.size = RoundUp4(@) + c]]
    BY <1>1
  <2> QED
    BY <1>3, <2>1, <2>2
<1>8. TypeOK'
  BY <1>2, <1>7 DEF TypeOK, Address, Placement, Entry, Extent
<1>9. Counted'
  BY <1>2, <1>7 DEF Counted, TypeOK
<1>10. Bounded'
  BY <1>2, HeaderSize DEF Bounded
<1> QED
  BY <1>2, <1>8, <1>9, <1>10 DEF Untouched

\* BssMissing keeps the inductive invariant.
LEMMA BssMissingStep == IInv /\ BssMissing => IInv'
<1> SUFFICES ASSUME IInv, BssMissing PROVE IInv'
  OBVIOUS
<1>1. TypeOK'
  BY DEF IInv, BssMissing, TypeOK
<1>2. Counted'
  BY DEF IInv, BssMissing, Counted
<1> QED
  BY <1>1, <1>2 DEF IInv, BssMissing, Bounded, Untouched

\* MapSection keeps the inductive invariant.
LEMMA MapSectionStep == IInv /\ MapSection => IInv'
<1> SUFFICES ASSUME IInv, MapSection PROVE IInv'
  OBVIOUS
<1>1. /\ pc \in {"layout", "relayout"} /\ pc' = pc
      /\ i \in 1..Len(elf) /\ i' = i + 1 /\ Len(elf) \in Nat /\ elf' = elf
      /\ rvas' = Append(rvas, Mapping(i)) /\ start' = NextStart(elf[i])
      /\ UNCHANGED <<symbol, used, header, paddr, file>>
  BY DEF MapSection, IInv, TypeOK
<1>2. elf[i] \in Section /\ elf[i].size \in 0..MaxSize
  BY <1>1, SectionType DEF IInv
<1>3. /\ i \in Nat /\ i <= MaxSections + 1 /\ i <= MaxSections + 2
      /\ start \in Nat /\ start <= Reach(i)
  <2>1. start \in Nat
    BY RangesAreNat DEF IInv, TypeOK
  <2>2. start <= Reach(i)
    BY <1>1 DEF IInv, Bounded
  <2>3. Len(elf) <= MaxSections + 1
    <3>1. Len(elf) <= MaxSections + Added
      BY DEF IInv, Counted
    <3>2. Added = 0 \/ Added = 1
      BY <1>1
    <3> HIDE DEF Added
    <3> QED
      BY <1>1, <3>1, <3>2, InputAssumption
  <2>4. i \in Nat /\ i <= MaxSections + 1 /\ i <= MaxSections + 2
    BY <1>1, <2>3, InputAssumption
  <2> QED
    BY <2>1, <2>2, <2>4
<1>4. start' \in Address /\ start' <= Reach(i')
  <2>1. /\ Roundup(start + elf[i].size, FileAlign) \in Address
        /\ Roundup(start + elf[i].size, FileAlign) <= Reach(i + 1)
    BY <1>2, <1>3, RoundupReach
  <2> QED
    BY <1>1, <2>1 DEF NextStart, sectionalign
<1>5. Mapping(i) \in Placement /\ Mapping(i).index = i
  BY <1>3 DEF Mapping, Placement, IInv, TypeOK
<1>6. /\ rvas' \in Seq(Placement) /\ Len(rvas') = Len(rvas) + 1 /\ Len(rvas) \in Nat
      /\ \A k \in 1..Len(rvas) : rvas'[k] = rvas[k]
      /\ rvas'[Len(rvas) + 1].index = i
  <2>1. rvas \in Seq(Placement)
    BY DEF IInv, TypeOK
  <2> QED
    BY <1>1, <1>5, <2>1, AppendElement
<1>7. \A k \in 1..Len(rvas') : rvas'[k].index \in 1..Len(elf')
  <2> SUFFICES ASSUME NEW k \in 1..Len(rvas') PROVE rvas'[k].index \in 1..Len(elf)
    BY <1>1
  <2>1. CASE k \in 1..Len(rvas)
    BY <2>1, <1>6 DEF IInv, TypeOK
  <2>2. CASE k = Len(rvas) + 1
    BY <2>2, <1>1, <1>6
  <2> QED
    BY <1>6, <2>1, <2>2
<1>8. TypeOK'
  BY <1>1, <1>4, <1>6, <1>7 DEF IInv, TypeOK
<1>9. Counted'
  <2>1. /\ Len(elf) <= MaxSections + Added /\ Len(rvas) <= i - 1
        /\ header = NoHeader
    BY <1>1 DEF IInv, Counted
  <2>2. Added' = Added
    BY <1>1
  <2>3. Len(header.table) = 0
    BY <2>1 DEF NoHeader
  <2>4. Len(rvas') <= i' - 1 /\ Len(rvas') <= Len(elf') /\ Len(rvas') <= MaxSections + 1
    BY <1>1, <1>3, <1>6, <2>1, InputAssumption
  <2> HIDE DEF Added
  <2> QED
    BY <1>1, <1>6, <2>1, <2>2, <2>3, <2>4 DEF Counted
<1>10. Bounded'
  BY <1>1, <1>4 DEF Bounded
<1> QED
  BY <1>1, <1>8, <1>9, <1>10 DEF IInv, Untouched

\* PassSection keeps the inductive invariant.
LEMMA PassSectionStep == IInv /\ PassSection => IInv'
<1> SUFFICES ASSUME IInv, PassSection PROVE IInv'
  OBVIOUS
<1>1. /\ pc \in {"layout", "relayout"} /\ pc' = pc
      /\ i \in 1..Len(elf) /\ i' = i + 1 /\ Len(elf) \in Nat
      /\ start \in Nat /\ start <= Reach(i)
      /\ UNCHANGED <<elf, symbol, start, rvas, used, header, paddr, file>>
  BY RangesAreNat DEF PassSection, IInv, TypeOK, Bounded
<1>2. Reach(i) \in Nat /\ Reach(i + 1) = Reach(i) + Step /\ Step \in Nat
  BY <1>1, ReachGrows
<1>3. TypeOK'
  BY <1>1 DEF IInv, TypeOK
<1>4. Counted'
  <2>1. Len(rvas) \in Nat
    BY DEF IInv, TypeOK
  <2> QED
    BY <1>1, <2>1 DEF IInv, Counted
<1>5. Bounded'
  BY <1>1, <1>2 DEF Bounded
<1> QED
  BY <1>1, <1>3, <1>4, <1>5 DEF IInv, Untouched

\* AddRelocSection keeps the inductive invariant.
LEMMA AddRelocSectionStep == IInv /\ AddRelocSection => IInv'
<1> SUFFICES ASSUME IInv, AddRelocSection PROVE IInv'
  OBVIOUS
<1>1. PICK n \in RelocSizes : elf' = WithSection(".reloc", n)
  BY DEF AddRelocSection
<1>2. /\ pc = "layout" /\ pc' = "relayout"
      /\ i' = 1 /\ start' = ComputeSize /\ rvas' = <<>> /\ used' = rvas
      /\ UNCHANGED <<symbol, header, paddr, file>>
  BY DEF AddRelocSection
<1>3. /\ elf' \in Seq(Section) /\ Len(elf') = Len(elf) + 1 /\ Len(elf) \in Nat
  <2>1. n \in 0..MaxSize
    BY InputAssumption
  <2>2. ".reloc" \in SectionNames
    BY DEF SectionNames
  <2> QED
    BY <1>1, <2>1, <2>2, WithSectionType
<1>4. TypeOK'
  <2>1. \A k \in 1..Len(used') : used'[k].index \in 1..Len(elf')
    BY <1>2, <1>3 DEF IInv, TypeOK
  <2>2. start' \in Address
    BY <1>2, HeaderSize, WordAssumption DEF Address
  <2>3. i' \in 1..(Len(elf') + 1)
    BY <1>2, <1>3
  <2> QED
    BY <1>2, <1>3, <2>1, <2>2, <2>3 DEF IInv, TypeOK
<1>5. Counted'
  BY <1>2, <1>3, InputAssumption DEF IInv, Counted, NoHeader
<1>6. Bounded'
  BY <1>2, HeaderSize DEF Bounded
<1> QED
  BY <1>2, <1>4, <1>5, <1>6 DEF IInv, Untouched

\* BeginHeader keeps the inductive invariant.
LEMMA BeginHeaderStep == IInv /\ BeginHeader => IInv'
<1> SUFFICES ASSUME IInv, BeginHeader PROVE IInv'
  OBVIOUS
<1> DEFINE dirs == [n \in DirNames |-> NamedSectionInfo(n)]
<1>1. /\ pc = "relayout" /\ pc' = "table"
      /\ header' = [imageSize |-> start, entry |-> EntryPoint,
                    dirs |-> dirs, table |-> <<>>]
      /\ paddr' = ComputeSize /\ i' = 1
      /\ UNCHANGED <<elf, symbol, start, rvas, used, file>>
  BY DEF BeginHeader
<1>2. dirs \in [DirNames -> Nat \X Nat]
  BY NamedInfoType
<1>3. header' \in [imageSize : Address, entry : Nat,
                  dirs : {<<>>} \cup [DirNames -> Nat \X Nat], table : Seq(Entry)]
  <2>1. start \in Address /\ EntryPoint \in Nat
    BY EntryPointType DEF IInv, TypeOK
  <2> HIDE DEF dirs
  <2> QED
    BY <1>1, <1>2, <2>1
<1>4. paddr' \in Address
  BY <1>1, HeaderSize, WordAssumption DEF Address
<1>5. i' \in 1..(Len(elf') + 1)
  BY <1>1 DEF IInv, TypeOK
<1>6. TypeOK'
  BY <1>1, <1>3, <1>4, <1>5 DEF IInv, TypeOK
<1>7. Counted'
  <2>1. Len(header'.table) = 0 /\ Len(rvas) \in Nat
    BY <1>1 DEF IInv, TypeOK
  <2> QED
    BY <1>1, <2>1 DEF IInv, Counted
<1>8. Bounded'
  BY <1>1, HeaderSize DEF Bounded
<1> QED
  BY <1>1, <1>6, <1>7, <1>8 DEF IInv, Untouched

\* WriteEntry keeps the inductive invariant.
LEMMA WriteEntryStep == IInv /\ WriteEntry => IInv'
<1> SUFFICES ASSUME IInv, WriteEntry PROVE IInv'
  OBVIOUS
<1> DEFINE s == elf[rvas[i].index]
           entry == [index |-> rvas[i].index, rva |-> rvas[i].rva, size |-> s.size,
                     paddr |-> paddr, psize |-> PhysicalSize(s)]
<1>1. /\ pc = "table" /\ pc' = pc
      /\ i \in 1..Len(rvas) /\ i' = i + 1 /\ Len(rvas) \in Nat
      /\ header' = [header EXCEPT !.table = Append(@, entry)]
      /\ paddr' = paddr + PhysicalSize(s)
      /\ UNCHANGED <<elf, symbol, start, rvas, used, file>>
  BY DEF WriteEntry, IInv, TypeOK
<1>2. rvas[i] \in Placement /\ rvas[i].index \in 1..Len(elf)
  BY <1>1 DEF IInv, TypeOK
<1>3. s.size \in 0..MaxSize
  BY <1>2, SectionType DEF IInv
<1>4. /\ i \in Nat /\ i <= MaxSections + 1 /\ i <= MaxSections + 2
      /\ paddr \in Nat /\ paddr <= Reach(i) /\ paddr \in Address
  <2>1. paddr \in Nat /\ paddr \in Address
    BY RangesAreNat DEF IInv, TypeOK
  <2> QED
    BY <1>1, <2>1, InputAssumption DEF IInv, Counted, Bounded
<1>5. /\ PhysicalSize(s) \in Address
      /\ paddr + PhysicalSize(s) \in Address
      /\ paddr + PhysicalSize(s) <= Reach(i + 1)
  <2>1. Reach(i) \in Nat /\ Reach(i + 1) = Reach(i) + Step /\ Step \in Nat
    BY <1>4, ReachGrows
  <2>2. CASE s.nobits
    <3>1. PhysicalSize(s) = 0 /\ 0 \in Address
      BY <2>2, WordAssumption DEF PhysicalSize, Address
    <3> QED
      BY <3>1, <1>4, <2>1
  <2>3. CASE ~s.nobits
    <3>1. PhysicalSize(s) = Roundup(s.size, SectionAlign)
      BY <2>3 DEF PhysicalSize, filealign
    <3>2. /\ Roundup(s.size, SectionAlign) \in Address
          /\ paddr + Roundup(s.size, SectionAlign) \in Address
          /\ paddr + Roundup(s.size, SectionAlign) <= Reach(i + 1)
      BY <1>3, <1>4, RoundupReach
    <3> QED
      BY <3>1, <3>2
  <2> QED
    BY <2>2, <2>3
<1>6. entry \in Entry
  BY <1>2, <1>3, <1>4, <1>5 DEF Entry, Placement
<1>7. /\ header'.table \in Seq(Entry)
      /\ Len(header'.table) = Len(header.table) + 1 /\ Len(header.table) \in Nat
  <2>1. header.table \in Seq(Entry) /\ header'.table = Append(header.table, entry)
    BY <1>1 DEF IInv, TypeOK
  <2> HIDE DEF entry
  <2> QED
    BY <2>1, <1>6, AppendElement
<1>8. TypeOK'
  <2>1. header' \in [imageSize : Address, entry : Nat,
                    dirs : {<<>>} \cup [DirNames -> Nat \X Nat], table : Seq(Entry)]
    BY <1>1, <1>7 DEF IInv, TypeOK
  <2>2. i' \in 1..(Len(elf') + 1)
    <3>1. Len(rvas) <= Len(elf)
      BY DEF IInv, Counted
    <3> QED
      BY <1>1, <3>1 DEF IInv, TypeOK
  <2> QED
    BY <1>1, <1>5, <2>1, <2>2 DEF IInv, TypeOK
<1>9. Counted'
  BY <1>1, <1>7 DEF IInv, Counted
<1>10. Bounded'
  BY <1>1, <1>5 DEF Bounded
<1> QED
  BY <1>1, <1>8, <1>9, <1>10 DEF IInv, Untouched

\* AddPeHeader keeps the inductive invariant.
LEMMA AddPeHeaderStep == IInv /\ AddPeHeader => IInv'
<1> SUFFICES ASSUME IInv, AddPeHeader PROVE IInv'
  OBVIOUS
<1> DEFINE head == [index |-> PeHeader, pos |-> 0, len |-> ComputeSize, end |-> ComputeSize]
<1>1. /\ pc = "table" /\ pc' = "write"
      /\ elf' = WithSection(".peheader", ComputeSize)
      /\ file' = <<head>> /\ i' = 1
      /\ UNCHANGED <<symbol, start, rvas, used, header, paddr>>
  BY DEF AddPeHeader
<1>2. elf' \in Seq(Section) /\ Len(elf') = Len(elf) + 1 /\ Len(elf) \in Nat
  <2>1. ComputeSize \in 0..MaxSize
    BY HeaderSize, InputAssumption
  <2>2. ".peheader" \in SectionNames
    BY DEF SectionNames
  <2> QED
    BY <1>1, <2>1, <2>2, WithSectionType
<1>3. head \in Extent
  BY HeaderSize, WordAssumption, InputAssumption DEF Extent, Address, PeHeader
<1>4. file' \in Seq(Extent) /\ Len(file') = 1 /\ file'[1].end = ComputeSize
  BY <1>1, <1>3
<1>5. TypeOK'
  <2>1. i' \in 1..(Len(elf') + 1)
    BY <1>1, <1>2
  <2>2. /\ \A k \in 1..Len(rvas') : rvas'[k].index \in 1..Len(elf')
        /\ \A k \in 1..Len(used') : used'[k].index \in 1..Len(elf')
    <3>1. /\ \A k \in 1..Len(rvas) : rvas[k].index \in 1..Len(elf)
          /\ \A k \in 1..Len(used) : used[k].index \in 1..Len(elf)
      BY DEF IInv, TypeOK
    <3>2. \A x \in 1..Len(elf) : x \in 1..Len(elf')
      BY <1>2
    <3> QED
      BY <1>1, <3>1, <3>2
  <2> QED
    BY <1>1, <1>2, <1>4, <2>1, <2>2 DEF IInv, TypeOK
<1>6. Counted'
  <2>1. Len(rvas) \in Nat
    BY DEF IInv, TypeOK
  <2> QED
    BY <1>1, <1>2, <2>1, InputAssumption DEF IInv, Counted
<1>7. Bounded'
  BY <1>1, <1>4, HeaderSize DEF Bounded, FileEnd
<1> QED
  BY <1>1, <1>5, <1>6, <1>7 DEF IInv, Untouched

\* WriteSection keeps the inductive invariant.
LEMMA WriteSectionStep == IInv /\ WriteSection => IInv'
<1> SUFFICES ASSUME IInv, WriteSection PROVE IInv'
  OBVIOUS
<1> DEFINE e == [index |-> i, pos |-> FileEnd, len |-> elf[i].size,
                 end |-> FileEnd + Roundup(elf[i].size, FileAlign)]
<1>1. /\ pc = "write" /\ pc' = pc
      /\ i \in 1..Len(elf) /\ i' = i + 1 /\ Len(elf) \in Nat
      /\ file' = Append(file, e)
      /\ UNCHANGED <<elf, symbol, start, rvas, used, header, paddr>>
  BY DEF WriteSection, IInv, TypeOK
<1>2. elf[i].size \in 0..MaxSize
  BY <1>1, SectionType DEF IInv
<1>3. file \in Seq(Extent) /\ Len(file) \in Nat \ {0} /\ FileEnd <= Reach(i)
  BY <1>1 DEF IInv, TypeOK, Bounded
<1>4. FileEnd \in Address
  <2>1. file[Len(file)] \in Extent
    BY <1>3
  <2> QED
    BY <2>1 DEF FileEnd, Extent
<1>5. i \in Nat /\ i <= MaxSections + 2
  BY <1>1, InputAssumption DEF IInv, Counted
<1>6. /\ FileEnd + Roundup(elf[i].size, FileAlign) \in Address
      /\ FileEnd + Roundup(elf[i].size, FileAlign) <= Reach(i + 1)
  <2>1. FileEnd \in Nat
    BY <1>4, RangesAreNat
  <2> QED
    BY <1>2, <1>3, <1>5, <2>1, RoundupReach
<1>7. e \in Extent
  BY <1>2, <1>4, <1>5, <1>6 DEF Extent
<1>8. file' \in Seq(Extent) /\ Len(file') = Len(file) + 1 /\ file'[Len(file) + 1] = e
  <2> HIDE DEF e
  <2> QED
    BY <1>1, <1>3, <1>7, AppendElement
<1>9. TypeOK'
  BY <1>1, <1>8 DEF IInv, TypeOK
<1>10. Counted'
  BY <1>1 DEF IInv, Counted
<1>11. Bounded'
  <2>1. FileEnd' = FileEnd + Roundup(elf[i].size, FileAlign)
    BY <1>3, <1>8 DEF FileEnd
  <2> QED
    BY <1>1, <1>3, <1>6, <1>8, <2>1 DEF Bounded
<1> QED
  BY <1>1, <1>9, <1>10, <1>11 DEF IInv, Untouched

\* SkipSection keeps the inductive invariant.
LEMMA SkipSectionStep == IInv /\ SkipSection => IInv'
<1> SUFFICES ASSUME IInv, SkipSection PROVE IInv'
  OBVIOUS
<1>1. /\ pc = "write" /\ pc' = pc
      /\ i \in 1..Len(elf) /\ i' = i + 1 /\ Len(elf) \in Nat
      /\ UNCHANGED <<elf, symbol, start, rvas, used, header, paddr, file>>
  BY DEF SkipSection, IInv, TypeOK
<1>2. FileEnd \in Nat /\ FileEnd' = FileEnd
  <2>1. file[Len(file)] \in Extent
    BY <1>1 DEF IInv, TypeOK, Bounded
  <2>2. FileEnd \in Address
    BY <2>1 DEF FileEnd, Extent
  <2> QED
    BY <1>1, <2>2, RangesAreNat DEF FileEnd
<1>3. Reach(i) \in Nat /\ Reach(i + 1) = Reach(i) + Step /\ Step \in Nat
  BY <1>1, ReachGrows
<1>4. TypeOK'
  BY <1>1 DEF IInv, TypeOK
<1>5. Counted'
  BY <1>1 DEF IInv, Counted
<1>6. Bounded'
  BY <1>1, <1>2, <1>3 DEF IInv, Bounded
<1> QED
  BY <1>1, <1>4, <1>5, <1>6 DEF IInv, Untouched

\* CloseFile keeps the inductive invariant.
LEMMA CloseFileStep == IInv /\ CloseFile => IInv'
<1> SUFFICES ASSUME IInv, CloseFile PROVE IInv'
  OBVIOUS
<1>1. TypeOK'
  BY DEF IInv, CloseFile, TypeOK
<1>2. Counted'
  BY DEF IInv, CloseFile, Counted
<1> QED
  BY <1>1, <1>2 DEF IInv, CloseFile, Bounded, Untouched

\* A step that changes nothing keeps the invariant.
LEMMA StutterStep == IInv /\ UNCHANGED vars => IInv'
  BY DEF IInv, vars, TypeOK, Counted, Bounded, Untouched, FileEnd, ComputeSize

\* Every step of main keeps the inductive invariant.
LEMMA NextIInv == IInv /\ [Next]_vars => IInv'
  BY AllocateComdatStep, BssMissingStep, MapSectionStep, PassSectionStep,
     AddRelocSectionStep, BeginHeaderStep, WriteEntryStep, AddPeHeaderStep,
     WriteSectionStep, SkipSectionStep, CloseFileStep, StutterStep
     DEF Next

\* Every address, offset and size elfpe computes stays in its 32 bits and every
\* section number it keeps is that of a section, for all inputs whose sizes
\* add up to less than the word (NoWrap).
THEOREM TypeCorrect == Spec => []TypeOK
<1>1. IInv => TypeOK
  BY DEF IInv
<1> QED
  BY <1>1, InitIInv, NextIInv, PTL DEF Spec

(* ---- the section table ---- *)

\* The sections of a file that get an address, and those of them below the n-th.
Loaded(sections) == {k \in 1..Len(sections) : sections[k].alloc}
LoadedBelow(sections, n) == {k \in Loaded(sections) : k < n}

\* With at most "most" loaded sections in an input: the mapping has no more entries
\* than loaded sections have been passed, one for .reloc among them.
MappedLoaded(most) ==
  /\ pc \in {"comdat", "layout"} => Cardinality(Loaded(elf)) <= most
  /\ pc = "relayout" => Cardinality(Loaded(elf)) <= most + 1
  /\ pc \in {"layout", "relayout"} => Len(rvas) <= Cardinality(LoadedBelow(elf, i))
  /\ Len(rvas) <= most + 1

\* The sections of a file are finitely many.
LEMMA LoadedFinite ==
  ASSUME NEW sections \in Seq(Section)
  PROVE  IsFiniteSet(Loaded(sections)) /\ Cardinality(Loaded(sections)) \in Nat
<1>1. IsFiniteSet(1..Len(sections))
  BY FS_Interval
<1>2. Loaded(sections) \in SUBSET (1..Len(sections))
  BY DEF Loaded
<1>3. IsFiniteSet(Loaded(sections))
  BY <1>1, <1>2, FS_Subset
<1> QED
  BY <1>3, FS_CardinalityType

\* So are those below one of them, and there are no more.
LEMMA BelowFinite ==
  ASSUME NEW sections \in Seq(Section), NEW n \in Nat
  PROVE  /\ IsFiniteSet(LoadedBelow(sections, n)) /\ Cardinality(LoadedBelow(sections, n)) \in Nat
         /\ Cardinality(LoadedBelow(sections, n)) <= Cardinality(Loaded(sections))
<1>1. IsFiniteSet(Loaded(sections))
  BY LoadedFinite
<1>2. LoadedBelow(sections, n) \in SUBSET Loaded(sections)
  BY DEF LoadedBelow
<1>3. IsFiniteSet(LoadedBelow(sections, n)) /\ Cardinality(LoadedBelow(sections, n)) <= Cardinality(Loaded(sections))
  BY <1>1, <1>2, FS_Subset
<1> QED
  BY <1>3, FS_CardinalityType

\* A section placed is one more loaded section passed.
LEMMA MapSectionLoaded ==
  ASSUME IInv, NEW most \in Nat, MappedLoaded(most), MapSection
  PROVE  MappedLoaded(most)'
<1>1. /\ elf \in Seq(Section) /\ i \in Nat /\ i \in 1..Len(elf) /\ elf[i].alloc
      /\ pc \in {"layout", "relayout"} /\ i' = i + 1
      /\ UNCHANGED <<pc, elf>>
  BY DEF IInv, TypeOK, MapSection
<1>2. Len(rvas) \in Nat /\ Len(rvas') = Len(rvas) + 1
  BY DEF IInv, TypeOK, MapSection
<1>3. IsFiniteSet(LoadedBelow(elf, i)) /\ Cardinality(LoadedBelow(elf, i)) \in Nat
  BY <1>1, BelowFinite
<1>4. LoadedBelow(elf, i + 1) = LoadedBelow(elf, i) \cup {i} /\ i \notin LoadedBelow(elf, i)
  BY <1>1 DEF LoadedBelow, Loaded
<1>5. Cardinality(LoadedBelow(elf, i + 1)) = Cardinality(LoadedBelow(elf, i)) + 1
  BY <1>3, <1>4, FS_AddElement
<1>6. /\ Cardinality(LoadedBelow(elf, i + 1)) <= Cardinality(Loaded(elf))
      /\ Cardinality(Loaded(elf)) \in Nat
  BY <1>1, BelowFinite, LoadedFinite
<1>7. Len(rvas') <= Cardinality(LoadedBelow(elf, i + 1))
  BY <1>1, <1>2, <1>3, <1>5 DEF MappedLoaded
<1>8. Cardinality(Loaded(elf)) <= most + 1
  BY <1>1, <1>6 DEF MappedLoaded
<1>9. Len(rvas') <= most + 1
  BY <1>2, <1>3, <1>5, <1>6, <1>7, <1>8
<1> QED
  BY <1>1, <1>7, <1>9 DEF MappedLoaded

\* No step puts more into the mapping than there is to load.
LEMMA NextLoaded ==
  ASSUME NEW most \in Nat, \A input \in Inputs : Cardinality(Loaded(input)) <= most,
         IInv, MappedLoaded(most), [Next]_vars
  PROVE  MappedLoaded(most)'
<1>1. elf \in Seq(Section) /\ i \in Nat /\ rvas \in Seq(Placement) /\ Len(rvas) \in Nat
  BY DEF IInv, TypeOK
<1>2. CASE AllocateComdat
  <2>1. PICK bss \in Named(".bss"), c \in Commons :
          elf' = [elf EXCEPT ![bss].size = RoundUp4(@) + c]
    BY <1>2 DEF AllocateComdat
  <2>2. bss \in 1..Len(elf)
    BY DEF Named
  <2>3. Len(elf') = Len(elf) /\ \A k \in 1..Len(elf) : elf'[k].alloc = elf[k].alloc
    BY <1>1, <2>1, <2>2 DEF Section
  <2>4. Loaded(elf') = Loaded(elf)
    BY <2>3 DEF Loaded
  <2>5. pc = "comdat" /\ pc' = "layout" /\ rvas' = <<>> /\ i' = 1
    BY <1>2 DEF AllocateComdat, IInv, Untouched
  <2>6. elf' \in Seq(Section)
    BY <1>2, NextIInv DEF IInv, TypeOK, Next
  <2>7. Cardinality(LoadedBelow(elf', 1)) \in Nat
    BY <2>6, BelowFinite
  <2>8. Cardinality(Loaded(elf')) <= most
    BY <2>4, <2>5 DEF MappedLoaded
  <2> QED
    BY <2>5, <2>7, <2>8 DEF MappedLoaded
<1>3. CASE BssMissing
  BY <1>3 DEF BssMissing, MappedLoaded
<1>4. CASE MapSection
  BY <1>4, MapSectionLoaded
<1>5. CASE PassSection
  <2>1. LoadedBelow(elf, i + 1) = LoadedBelow(elf, i)
    BY <1>1, <1>5 DEF PassSection, LoadedBelow, Loaded
  <2> QED
    BY <1>5, <2>1 DEF PassSection, MappedLoaded
<1>6. CASE AddRelocSection
  <2>1. PICK n \in RelocSizes : elf' = WithSection(".reloc", n)
    BY <1>6 DEF AddRelocSection
  <2>2. n \in 0..MaxSize /\ ".reloc" \in SectionNames
    BY InputAssumption DEF SectionNames
  <2>3. /\ elf' \in Seq(Section) /\ Len(elf') = Len(elf) + 1 /\ Len(elf) \in Nat
        /\ \A k \in 1..Len(elf) : elf'[k] = elf[k]
    BY <2>1, <2>2, WithSectionType
  <2>4. Loaded(elf') \in SUBSET (Loaded(elf) \cup {Len(elf) + 1})
    BY <2>3 DEF Loaded
  <2>5. IsFiniteSet(Loaded(elf)) /\ Cardinality(Loaded(elf)) \in Nat
    BY <1>1, LoadedFinite
  <2>6. /\ IsFiniteSet(Loaded(elf) \cup {Len(elf) + 1})
        /\ Cardinality(Loaded(elf) \cup {Len(elf) + 1}) <= Cardinality(Loaded(elf)) + 1
    <3> DEFINE new == Len(elf) + 1
    <3>1. new \notin Loaded(elf)
      BY <2>3 DEF Loaded
    <3> HIDE DEF new
    <3>2. /\ IsFiniteSet(Loaded(elf) \cup {new})
          /\ Cardinality(Loaded(elf) \cup {new}) = Cardinality(Loaded(elf)) + 1
      BY <2>5, <3>1, FS_AddElement
    <3> QED
      BY <2>5, <3>2 DEF new
  <2>7. Cardinality(Loaded(elf')) <= Cardinality(Loaded(elf) \cup {Len(elf) + 1})
    BY <2>4, <2>6, FS_Subset
  <2>8. /\ pc = "layout" /\ pc' = "relayout" /\ rvas' = <<>> /\ i' = 1
    BY <1>6 DEF AddRelocSection
  <2>9. Cardinality(Loaded(elf')) \in Nat /\ Cardinality(LoadedBelow(elf', 1)) \in Nat
    BY <2>3, LoadedFinite, BelowFinite
  <2>10. Cardinality(Loaded(elf) \cup {Len(elf) + 1}) \in Nat
    BY <2>6, FS_CardinalityType
  <2>11. Cardinality(Loaded(elf')) <= most + 1
    BY <2>5, <2>6, <2>7, <2>8, <2>9, <2>10 DEF MappedLoaded
  <2> QED
    BY <2>8, <2>9, <2>11 DEF MappedLoaded
<1>7. CASE BeginHeader
  BY <1>7 DEF BeginHeader, MappedLoaded
<1>8. CASE WriteEntry
  BY <1>8 DEF WriteEntry, MappedLoaded
<1>9. CASE AddPeHeader
  BY <1>9 DEF AddPeHeader, MappedLoaded
<1>10. CASE WriteSection
  BY <1>10 DEF WriteSection, MappedLoaded
<1>11. CASE SkipSection
  BY <1>11 DEF SkipSection, MappedLoaded
<1>12. CASE CloseFile
  BY <1>12 DEF CloseFile, MappedLoaded
<1>13. CASE UNCHANGED vars
  BY <1>13 DEF vars, MappedLoaded
<1> QED
  BY <1>2, <1>3, <1>4, <1>5, <1>6, <1>7, <1>8, <1>9, <1>10, <1>11, <1>12, <1>13 DEF Next

\* If no input has more loaded sections than the header, in its rounded size, has
\* room for behind one entry for .reloc, the section table never leaves the header:
\* with the sizes of header.cpp and an alignment of 4096 that is 92 sections, however
\* many others the file has.
THEOREM TableFits ==
  ASSUME NEW most \in Nat, \A input \in Inputs : Cardinality(Loaded(input)) <= most,
         TableStart + EntrySize * (most + 1) <= ComputeSize
  PROVE  Spec => []HeaderFits
<1> DEFINE Inv == IInv /\ MappedLoaded(most)
<1>1. Init => Inv
  <2> SUFFICES ASSUME Init PROVE MappedLoaded(most)
    BY InitIInv
  <2>1. /\ elf \in Inputs /\ pc = "comdat" /\ rvas = <<>>
    BY DEF Init
  <2> QED
    BY <2>1 DEF MappedLoaded
<1>2. Inv /\ [Next]_vars => Inv'
  BY NextIInv, NextLoaded
<1>3. Inv => HeaderFits
  <2> SUFFICES ASSUME Inv PROVE HeaderFits
    OBVIOUS
  <2>1. Len(header.table) \in Nat /\ Len(rvas) \in Nat
    BY DEF IInv, TypeOK
  <2>2. Len(header.table) <= most + 1
    BY <2>1 DEF IInv, Counted, MappedLoaded
  <2>3. \A e, n, m \in Nat : n <= m => e * n \in Nat /\ e * m \in Nat /\ e * n <= e * m
    BY SMT
  <2>4. /\ EntrySize * Len(header.table) <= EntrySize * (most + 1)
        /\ EntrySize * Len(header.table) \in Nat /\ EntrySize * (most + 1) \in Nat
    BY <2>1, <2>2, <2>3, HeaderAssumption
  <2> QED
    BY <2>4, HeaderSize, HeaderAssumption DEF HeaderFits
<1> QED
  BY <1>1, <1>2, <1>3, PTL DEF Spec

(* ---- sections apart ---- *)

\* SectionsApart alone does not say that the section placed next has a higher
\* number than those placed.
Ordered ==
  /\ SectionsApart
  /\ ComputeSize <= start
  /\ pc \in {"layout", "relayout"} => \A k \in 1..Len(rvas) : rvas[k].index < i

\* A step that keeps the mapping, and every section it refers to, keeps Ordered.
LEMMA SamePlaces ==
  ASSUME IInv, Ordered, rvas' = rvas, start' = start,
         pc' \in {"layout", "relayout"} => pc \in {"layout", "relayout"} /\ i <= i',
         i' \in Nat,
         \A k \in 1..Len(elf) : elf'[k] = elf[k]
  PROVE  Ordered'
<1>1. \A k \in 1..Len(rvas) : rvas[k].index \in 1..Len(elf) /\ End(rvas[k])' = End(rvas[k])
  BY DEF IInv, TypeOK, End
<1>2. ComputeSize' = ComputeSize
  BY DEF ComputeSize
<1>3. SectionsApart'
  BY <1>1, <1>2 DEF Ordered, SectionsApart, End
<1>4. pc' \in {"layout", "relayout"} => \A k \in 1..Len(rvas') : rvas'[k].index < i'
  <2> SUFFICES ASSUME pc' \in {"layout", "relayout"}, NEW k \in 1..Len(rvas')
               PROVE  rvas'[k].index < i'
    OBVIOUS
  <2>1. rvas[k].index < i /\ rvas[k].index \in Nat /\ i \in Nat /\ i <= i'
    BY <1>1 DEF IInv, TypeOK, Ordered
  <2> QED
    BY <2>1
<1> QED
  BY <1>2, <1>3, <1>4 DEF Ordered

\* A step that leaves nothing placed has nothing to keep apart.
LEMMA NoPlaces ==
  ASSUME rvas' = <<>>, start' = ComputeSize
  PROVE  Ordered'
<1>1. ComputeSize' = ComputeSize /\ ComputeSize \in Nat
  BY HeaderSize DEF ComputeSize
<1> QED
  BY <1>1 DEF Ordered, SectionsApart

\* The section placed next lies above all those placed before.
LEMMA MapSectionOrdered ==
  ASSUME IInv, Ordered, MapSection
  PROVE  Ordered'
<1>1. /\ pc \in {"layout", "relayout"}
      /\ i \in 1..Len(elf) /\ i' = i + 1 /\ Len(elf) \in Nat /\ elf' = elf
      /\ rvas' = Append(rvas, Mapping(i)) /\ start' = Roundup(start + elf[i].size, FileAlign)
  BY DEF MapSection, IInv, TypeOK, NextStart, sectionalign
<1>2. /\ rvas' \in Seq(Placement) /\ Len(rvas') = Len(rvas) + 1 /\ Len(rvas) \in Nat
      /\ \A k \in 1..Len(rvas) : rvas'[k] = rvas[k]
      /\ rvas'[Len(rvas) + 1] = Mapping(i)
  <2>1. rvas \in Seq(Placement) /\ Mapping(i) \in Placement
    BY <1>1 DEF IInv, TypeOK, Mapping, Placement
  <2> QED
    BY <1>1, <2>1, AppendElement
<1>3. /\ start \in Nat /\ start <= Reach(i) /\ i \in Nat /\ i <= MaxSections + 2
      /\ elf[i].size \in 0..MaxSize /\ elf[i].size \in Nat
  <2>1. start \in Nat /\ elf[i].size \in 0..MaxSize /\ elf[i].size \in Nat
    BY <1>1, RangesAreNat, SectionType DEF IInv, TypeOK
  <2> QED
    BY <1>1, <2>1, InputAssumption DEF IInv, Counted, Bounded
<1>4. start + elf[i].size <= start' /\ start' \in Nat
  <2>1. /\ Roundup(start + elf[i].size, FileAlign) \in Address
        /\ start + elf[i].size <= Roundup(start + elf[i].size, FileAlign)
    BY <1>3, RoundupReach
  <2> QED
    BY <1>1, <2>1, RangesAreNat
<1>5. ComputeSize <= start /\ ComputeSize \in Nat /\ ComputeSize' = ComputeSize
  BY HeaderSize DEF Ordered, ComputeSize
<1>6. \A k \in 1..Len(rvas) :
        /\ rvas'[k].index \in Nat /\ rvas'[k].index < i
        /\ rvas'[k].rva \in Nat /\ ComputeSize <= rvas'[k].rva
        /\ End(rvas[k])' \in Nat /\ End(rvas[k])' <= start
  <2> SUFFICES ASSUME NEW k \in 1..Len(rvas)
               PROVE  /\ rvas[k].index \in Nat /\ rvas[k].index < i
                      /\ rvas[k].rva \in Nat /\ ComputeSize <= rvas[k].rva
                      /\ End(rvas[k]) \in Nat /\ End(rvas[k]) <= start
    BY <1>1, <1>2 DEF End
  <2>1. rvas[k] \in Placement /\ rvas[k].index \in 1..Len(elf)
    BY DEF IInv, TypeOK
  <2>2. rvas[k].index \in Nat /\ rvas[k].rva \in Nat
    BY <2>1, RangesAreNat DEF Placement
  <2>3. elf[rvas[k].index].size \in Nat
    BY <2>1, SectionType, RangesAreNat DEF IInv
  <2> QED
    BY <1>1, <2>2, <2>3 DEF Ordered, SectionsApart, End
<1>7. \A k, l \in 1..Len(rvas) :
        k < l => /\ rvas'[k].index < rvas'[l].index
                 /\ End(rvas[k])' <= rvas'[l].rva
  BY <1>1, <1>2 DEF Ordered, SectionsApart, End
<1>8. \A k \in 1..Len(rvas') : k = Len(rvas) + 1 =>
        rvas'[k].index = i /\ rvas'[k].rva = start /\ End(rvas[k])' = start + elf[i].size
  BY <1>1, <1>2 DEF Mapping, End
<1>9. /\ \A k \in 1..Len(rvas') : ComputeSize' <= rvas'[k].rva /\ End(rvas[k])' <= start'
      /\ \A k \in 1..Len(rvas') : rvas'[k].index < i'
  <2> SUFFICES ASSUME NEW k \in 1..Len(rvas')
               PROVE  /\ ComputeSize <= rvas'[k].rva /\ End(rvas[k])' <= start'
                      /\ rvas'[k].index < i'
    BY <1>5
  <2>1. CASE k \in 1..Len(rvas)
    BY <2>1, <1>1, <1>3, <1>4, <1>5, <1>6
  <2>2. CASE k = Len(rvas) + 1
    BY <2>2, <1>1, <1>3, <1>4, <1>5, <1>8
  <2> QED
    BY <1>2, <2>1, <2>2
<1>10. \A k, l \in 1..Len(rvas') :
         k < l => rvas'[k].index < rvas'[l].index /\ End(rvas[k])' <= rvas'[l].rva
  <2> SUFFICES ASSUME NEW k \in 1..Len(rvas'), NEW l \in 1..Len(rvas'), k < l
               PROVE  rvas'[k].index < rvas'[l].index /\ End(rvas[k])' <= rvas'[l].rva
    OBVIOUS
  <2>1. CASE l \in 1..Len(rvas)
    BY <2>1, <1>2, <1>7
  <2>2. CASE l = Len(rvas) + 1
    BY <2>2, <1>2, <1>6, <1>8
  <2> QED
    BY <1>2, <2>1, <2>2
<1>11. ComputeSize' <= start'
  BY <1>3, <1>4, <1>5
<1> QED
  BY <1>1, <1>9, <1>10, <1>11 DEF Ordered, SectionsApart

\* Every step of main keeps Ordered.
LEMMA NextOrdered ==
  ASSUME IInv, Ordered, [Next]_vars
  PROVE  Ordered'
<1>1. i \in Nat /\ i + 1 \in Nat /\ i <= i + 1
  BY DEF IInv, TypeOK
<1>2. CASE AllocateComdat
  BY <1>2, NoPlaces DEF AllocateComdat, IInv, Untouched
<1>3. CASE MapSection
  BY <1>3, MapSectionOrdered
<1>4. CASE AddRelocSection
  BY <1>4, NoPlaces DEF AddRelocSection
<1>5. CASE PassSection
  BY <1>1, <1>5, SamePlaces DEF PassSection
<1>6. CASE BeginHeader
  BY <1>1, <1>6, SamePlaces DEF BeginHeader
<1>7. CASE WriteEntry
  BY <1>1, <1>7, SamePlaces DEF WriteEntry
<1>8. CASE AddPeHeader
  <2>1. \A k \in 1..Len(elf) : elf'[k] = elf[k]
    <3>1. ".peheader" \in SectionNames /\ ComputeSize \in 0..MaxSize
      BY HeaderSize, InputAssumption DEF SectionNames
    <3> QED
      BY <1>8, <3>1, WithSectionType DEF AddPeHeader
  <2> QED
    BY <1>1, <1>8, <2>1, SamePlaces DEF AddPeHeader
<1>9. CASE WriteSection \/ SkipSection
  BY <1>1, <1>9, SamePlaces DEF WriteSection, SkipSection
<1>10. CASE CloseFile \/ BssMissing
  BY <1>1, <1>10, SamePlaces DEF CloseFile, BssMissing
<1>11. CASE UNCHANGED vars
  BY <1>1, <1>11, SamePlaces DEF vars
<1> QED
  BY <1>2, <1>3, <1>4, <1>5, <1>6, <1>7, <1>8, <1>9, <1>10, <1>11 DEF Next

\* The sections of every image are placed in order, above the headers, clear
\* of each other and below what becomes SizeOfImage.
THEOREM SectionsNeverOverlap == Spec => []SectionsApart
<1>1. Init => Ordered
  <2> SUFFICES ASSUME Init PROVE Ordered
    OBVIOUS
  <2> QED
    BY HeaderSize DEF Init, Ordered, SectionsApart
<1>2. Ordered => SectionsApart
  BY DEF Ordered
<1>3. IInv /\ Ordered /\ [Next]_vars => Ordered'
  BY NextOrdered
<1> QED
  BY <1>1, <1>2, <1>3, InitIInv, NextIInv, PTL DEF Spec

(* ---- getSectionRvas keeps the promise of Regions ---- *)

\* The regions that stand for a mapping; Mapped's regions are those of rvas.
Region(sections, p) ==
  [owner |-> p.index, lo |-> p.rva, hi |-> p.rva + sections[p.index].size]

Placed == {Region(elf, rvas[k]) : k \in 1..Len(rvas)}

\* Every section begins on a multiple of the alignment, and so does the next.
Multiples ==
  /\ \A k \in 1..Len(rvas) : rvas[k].rva % sectionalign = 0
  /\ pc \in {"comdat", "layout", "relayout"} => start % sectionalign = 0

RegionInv == IInv /\ Ordered /\ Multiples

\* The first section follows the headers, which end on a multiple of the other
\* alignment.
LEMMA FirstMultiple ==
  ASSUME SectionAlign % FileAlign = 0
  PROVE  ComputeSize % sectionalign = 0
<1>1. ComputeSize % SectionAlign = 0
  BY HeaderAssumption, AlignAssumption, RoundupMultiple DEF ComputeSize, filealign
<1>2. ComputeSize \in Int
  BY HeaderSize
<1> QED
  BY <1>1, <1>2, AlignAssumption, MultipleOfMultiple DEF sectionalign

\* What getSectionRvas adds to the mapping.
LEMMA SectionMapped ==
  ASSUME IInv, MapSection
  PROVE  /\ pc \in {"layout", "relayout"} /\ pc' = pc /\ i \in 1..Len(elf) /\ elf' = elf
         /\ Len(rvas') = Len(rvas) + 1 /\ Len(rvas) \in Nat
         /\ \A k \in 1..Len(rvas) : rvas'[k] = rvas[k]
         /\ rvas'[Len(rvas) + 1] = [index |-> i, rva |-> start]
         /\ start' = Roundup(start + elf[i].size, FileAlign)
         /\ start \in Nat /\ elf[i].size \in Nat
<1>1. /\ pc \in {"layout", "relayout"} /\ i \in 1..Len(elf) /\ pc' = pc /\ elf' = elf
      /\ rvas' = Append(rvas, [index |-> i, rva |-> start])
      /\ start' = Roundup(start + elf[i].size, FileAlign)
  BY DEF MapSection, IInv, TypeOK, Mapping, NextStart, sectionalign
<1>2. start \in Nat /\ elf[i].size \in Nat
  BY <1>1, RangesAreNat, SectionType DEF IInv, TypeOK
<1>3. rvas \in Seq(Placement) /\ [index |-> i, rva |-> start] \in Placement
  BY <1>1 DEF IInv, TypeOK, Placement
<1> QED
  BY <1>1, <1>2, <1>3, AppendElement

\* Every step keeps the addresses multiples of the alignment.
LEMMA NextMultiples ==
  ASSUME SectionAlign % FileAlign = 0, IInv, Multiples, [Next]_vars
  PROVE  Multiples'
<1> USE DEF Multiples
<1>1. CASE AllocateComdat
  BY <1>1 DEF AllocateComdat, sectionalign
<1>2. CASE MapSection
  <2>1. start' % sectionalign = 0
    <3>1. start + elf[i].size \in Nat
      BY <1>2, SectionMapped
    <3> QED
      BY <1>2, <3>1, SectionMapped, RoundupMultiple, AlignAssumption DEF sectionalign
  <2>2. \A k \in 1..Len(rvas') : rvas'[k].rva % sectionalign = 0
    <3> SUFFICES ASSUME NEW k \in 1..Len(rvas') PROVE rvas'[k].rva % sectionalign = 0
      OBVIOUS
    <3>1. CASE k \in 1..Len(rvas)
      BY <1>2, <3>1, SectionMapped
    <3>2. CASE k = Len(rvas) + 1
      BY <1>2, <3>2, SectionMapped
    <3> QED
      BY <1>2, <3>1, <3>2, SectionMapped
  <2> QED
    BY <2>1, <2>2 DEF sectionalign
<1>3. CASE AddRelocSection
  BY <1>3, FirstMultiple DEF AddRelocSection, sectionalign, ComputeSize
<1>4. CASE BssMissing \/ PassSection \/ BeginHeader \/ WriteEntry \/ AddPeHeader
  BY <1>4 DEF BssMissing, PassSection, BeginHeader, WriteEntry, AddPeHeader, sectionalign
<1>5. CASE WriteSection \/ SkipSection \/ CloseFile
  BY <1>5 DEF WriteSection, SkipSection, CloseFile, sectionalign
<1>6. CASE UNCHANGED vars
  BY <1>6 DEF vars, sectionalign
<1> QED
  BY <1>1, <1>2, <1>3, <1>4, <1>5, <1>6 DEF Next

\* Mapping a section is a Reserve.
LEMMA MapSectionReserves ==
  ASSUME RegionInv, MapSection
  PROVE  Mapped!Reserve
<1> DEFINE r == [owner |-> i, lo |-> start, hi |-> start + elf[i].size]
<1>1. /\ pc \in {"layout", "relayout"} /\ elf' = elf
      /\ Len(rvas') = Len(rvas) + 1 /\ Len(rvas) \in Nat
      /\ \A k \in 1..Len(rvas) : rvas'[k] = rvas[k]
      /\ rvas'[Len(rvas) + 1] = [index |-> i, rva |-> start]
      /\ start \in Nat /\ elf[i].size \in Nat
  BY SectionMapped DEF RegionInv
<1>2. Region(elf, rvas'[Len(rvas) + 1]) = r
  BY <1>1 DEF Region
<1> HIDE DEF r
<1>3. Placed' = Placed \cup {r}
  <2>1. Placed' = {Region(elf, rvas'[k]) : k \in 1..(Len(rvas) + 1)}
    BY <1>1 DEF Placed
  <2>2. \A k \in 1..Len(rvas) : Region(elf, rvas'[k]) = Region(elf, rvas[k])
    BY <1>1
  <2>3. 1..(Len(rvas) + 1) = 1..Len(rvas) \cup {Len(rvas) + 1}
    BY <1>1
  <2> QED
    BY <1>2, <2>1, <2>2, <2>3 DEF Placed
<1>4. ComputeSize <= r.lo /\ r.lo <= r.hi /\ r.lo % sectionalign = 0
  BY <1>1 DEF RegionInv, Ordered, Multiples, r
<1>5. \A q \in Placed : q.owner # r.owner /\ Mapped!Apart(q, r)
  <2> SUFFICES ASSUME NEW k \in 1..Len(rvas)
               PROVE  /\ Region(elf, rvas[k]).owner # r.owner
                      /\ Mapped!Apart(Region(elf, rvas[k]), r)
    BY DEF Placed
  <2>1. rvas[k].index < i /\ End(rvas[k]) <= start
    BY <1>1 DEF RegionInv, Ordered, SectionsApart
  <2>2. rvas[k].index \in Nat /\ i \in Nat
    BY <2>1 DEF RegionInv, IInv, TypeOK
  <2> QED
    BY <2>1, <2>2 DEF Region, End, Mapped!Apart, r
<1>6. /\ Placed = {[owner |-> rvas[k].index, lo |-> rvas[k].rva, hi |-> End(rvas[k])] :
                     k \in 1..Len(rvas)}
      /\ Placed' = {[owner |-> rvas'[k].index, lo |-> rvas'[k].rva, hi |-> End(rvas[k])'] :
                     k \in 1..Len(rvas')}
  BY DEF Placed, Region, End
<1>7. r \in Placed'
  BY <1>3
<1> QED
  BY <1>3, <1>4, <1>5, <1>6, <1>7 DEF Mapped!Reserve

\* A step that keeps the mapping, and every section in it, changes no region.
LEMMA SameRegions ==
  ASSUME IInv, rvas' = rvas, \A k \in 1..Len(elf) : elf'[k] = elf[k]
  PROVE  Placed' = Placed
<1>1. \A k \in 1..Len(rvas) : elf'[rvas[k].index] = elf[rvas[k].index]
  BY DEF IInv, TypeOK
<1> QED
  BY <1>1 DEF Placed, Region

\* Every step of main reserves a region, starts over or does nothing that Regions
\* can see.
LEMMA NextMapped ==
  ASSUME RegionInv, [Next]_vars
  PROVE  Mapped!Next \/ Placed' = Placed
<1>1. IInv
  BY DEF RegionInv
<1>2. CASE AllocateComdat \/ BssMissing
  <2>1. rvas = <<>> /\ rvas' = rvas
    BY <1>1, <1>2 DEF AllocateComdat, BssMissing, IInv, Untouched
  <2> QED
    BY <2>1 DEF Placed
<1>3. CASE MapSection
  BY <1>3, MapSectionReserves DEF Mapped!Next
<1>4. CASE AddRelocSection
  <2>1. rvas' = <<>>
    BY <1>4 DEF AddRelocSection
  <2>2. Mapped!StartOver
    BY <2>1 DEF Mapped!StartOver
  <2> QED
    BY <2>2 DEF Mapped!Next
<1>5. CASE AddPeHeader
  <2>1. \A k \in 1..Len(elf) : elf'[k] = elf[k]
    <3>1. ".peheader" \in SectionNames /\ ComputeSize \in 0..MaxSize
      BY HeaderSize, InputAssumption DEF SectionNames
    <3> QED
      BY <1>1, <1>5, <3>1, WithSectionType DEF AddPeHeader
  <2> QED
    BY <1>1, <1>5, <2>1, SameRegions DEF AddPeHeader
<1>6. CASE PassSection \/ BeginHeader \/ WriteEntry \/ WriteSection \/ SkipSection \/ CloseFile
  BY <1>1, <1>6, SameRegions
     DEF PassSection, BeginHeader, WriteEntry, WriteSection, SkipSection, CloseFile
<1>7. CASE UNCHANGED vars
  BY <1>1, <1>7, SameRegions DEF vars
<1> QED
  BY <1>2, <1>3, <1>4, <1>5, <1>6, <1>7 DEF Next

\* getSectionRvas, run twice over whatever sections gcc has left, hands out addresses
\* the way Regions promises, on multiples of the alignment it rounds to, if that
\* divides the one the header is rounded to (PlacesRegions).
THEOREM SectionsArePlaced ==
  ASSUME SectionAlign % FileAlign = 0
  PROVE  Spec => PlacesRegions
<1>1. Init => RegionInv
  <2> SUFFICES ASSUME Init PROVE RegionInv
    OBVIOUS
  <2>1. rvas = <<>> /\ start = ComputeSize /\ Len(rvas) = 0
    BY DEF Init
  <2>2. Ordered /\ Multiples
    BY <2>1, HeaderSize, FirstMultiple DEF Ordered, SectionsApart, Multiples
  <2> QED
    BY <2>2, InitIInv DEF RegionInv
<1>2. RegionInv /\ [Next]_vars => RegionInv'
  BY NextIInv, NextOrdered, NextMultiples DEF RegionInv
<1>3. Init => Mapped!Init
  <2> SUFFICES ASSUME Init PROVE Mapped!Init
    OBVIOUS
  <2>1. Len(rvas) = 0
    BY DEF Init
  <2> QED
    BY <2>1 DEF Mapped!Init
<1>4. RegionInv /\ [Next]_vars =>
        [Mapped!Next]_({[owner |-> rvas[k].index, lo |-> rvas[k].rva, hi |-> End(rvas[k])] :
                          k \in 1..Len(rvas)})
  BY NextMapped DEF Placed, Region, End
<1> QED
  BY <1>1, <1>2, <1>3, <1>4, PTL DEF Spec, PlacesRegions, Mapped!Spec

=============================================================================
