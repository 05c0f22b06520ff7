------------------------ MODULE ImageAgreementProofs ------------------------
(***************************************************************************)
(* The three walks of ImageLayout agree: theorems that the table, the      *)
(* directories, the entry point and the file offsets say the same of a     *)
(* section, for every input.                                               *)
(***************************************************************************)
EXTENDS ImageLayoutProofs

(* ---- what one walk makes ---- *)

\* Where getSectionRvas goes on after placement p.
After(sections, p) == Roundup(p.rva + sections[p.index].size, sectionalign)

NextFree(sections, m) ==
  IF m = <<>> THEN ComputeSize ELSE After(sections, m[Len(m)])

\* m is the mapping getSectionRvas makes of the first n sections: this says of
\* each entry what it is, and so there is only one such m.
WalkOf(sections, m, n) ==
  /\ \A k \in 1..Len(m) : m[k].index \in 1..n /\ sections[m[k].index].alloc
  /\ \A j \in 1..n : sections[j].alloc => \E k \in 1..Len(m) : m[k].index = j
  /\ \A k, l \in 1..Len(m) : k < l => m[k].index < m[l].index
  /\ \A k \in 1..Len(m) :
       m[k].rva = IF k = 1 THEN ComputeSize ELSE After(sections, m[k-1])

\* The sections that rvas is the mapping of.
Walked == IF pc \in {"layout", "relayout"} THEN i - 1
          ELSE IF pc = "table" THEN Len(elf)
          ELSE IF pc \in {"write", "done"} THEN Len(elf) - 1 ELSE 0

Walks ==
  /\ WalkOf(elf, rvas, Walked)
  /\ pc \in {"layout", "relayout"} => start = NextFree(elf, rvas)
  /\ pc = "relayout" => /\ Len(elf) # 0 /\ elf[Len(elf)].alloc
                        /\ WalkOf(elf, used, Len(elf) - 1)

\* The second walk does what the first did, and then one section more.
Repeats ==
  /\ pc = "relayout" =>
       /\ \A k \in 1..Len(rvas) : k <= Len(used) => rvas[k] = used[k]
       /\ IF i <= Len(elf) THEN Len(rvas) <= Len(used) ELSE Len(rvas) = Len(used) + 1
  /\ pc \in {"table", "write", "done"} =>
       /\ Len(rvas) = Len(used) + 1
       /\ \A k \in 1..Len(used) : rvas[k] = used[k]

\* The section table is the second mapping.
Tabled ==
  /\ \A k \in 1..Len(header.table) :
       header.table[k].index = rvas[k].index /\ header.table[k].rva = rvas[k].rva
  /\ Built => Len(header.table) = Len(rvas)

AInv == IInv /\ Walks /\ Repeats /\ Tabled

\* The entry symbol's section is one of gcc's, which .reloc is not.
Entered ==
  /\ symbol.index <= Len(elf) - Added
  /\ pc \in {"table", "write", "done"} =>
       \/ \E m \in 1..Len(used) : /\ used[m].index = symbol.index
                                  /\ header.entry = used[m].rva + symbol.offset
       \/ /\ \A m \in 1..Len(used) : used[m].index # symbol.index
          /\ header.entry = ComputeSize

\* Sizes and names in the table are the sections'; directories come from it.
Listed ==
  /\ pc \in {"table", "write", "done"} =>
       \A n \in DirNames :
         \/ header.dirs[n] = <<0, 0>>
         \/ \E m \in 1..Len(rvas) : /\ elf[rvas[m].index].name = n
                                    /\ header.dirs[n] = <<rvas[m].rva, elf[rvas[m].index].size>>
  /\ \A k \in 1..Len(header.table) :
       header.table[k].size = elf[header.table[k].index].size

\* gcc's output has neither of the sections elfpe adds.
Plain ==
  /\ \A k \in 1..(Len(elf) - Added) : elf[k].name \notin {".reloc", ".peheader"}
  /\ pc \in {"relayout", "table"} => Len(elf) # 0 /\ elf[Len(elf)].name = ".reloc"
  /\ pc \in {"write", "done"} => /\ elf[Len(elf)].name = ".peheader"
                                 /\ elf[Len(elf) - 1].name = ".reloc"

RelocListed ==
  pc \in {"table", "write", "done"} =>
    LET last == rvas[Len(rvas)]
    IN  elf[last.index].size # 0 => header.dirs[".reloc"] = <<last.rva, elf[last.index].size>>

\* Where createHeaderSection puts the bytes of the n-th entry.
FileOffset(table, n) ==
  IF n = 1 THEN ComputeSize ELSE table[n-1].paddr + table[n-1].psize

\* The k-th entry is the first one of section n or a later one.
Upcoming(table, k, n) ==
  /\ k \in 1..(Len(table) + 1)
  /\ k <= Len(table) => n <= table[k].index
  /\ k # 1 => table[k-1].index < n

\* createHeaderSection's offsets, and how far PECoffExecutable is along them: what
\* it has written ends where the next entry's bytes are expected.
Located ==
  /\ \A k \in 1..Len(header.table) :
       /\ header.table[k].psize = PhysicalSize(elf[header.table[k].index])
       /\ header.table[k].paddr = FileOffset(header.table, k)
  /\ pc = "table" => paddr = FileOffset(header.table, Len(header.table) + 1)
  /\ pc = "write" =>
       \A k \in 1..(Len(header.table) + 1) :
         Upcoming(header.table, k, i) => FileEnd = FileOffset(header.table, k)

USE DEF Added

(* ---- one walk ---- *)

\* The mapping depends on nothing but the sections it has walked.
LEMMA WalkKept ==
  ASSUME NEW s, NEW t, NEW m \in Seq(Placement), NEW n \in Nat,
         \A k \in 1..n : t[k] = s[k],
         WalkOf(s, m, n)
  PROVE  WalkOf(t, m, n) /\ NextFree(t, m) = NextFree(s, m)
<1>1. \A k \in 1..Len(m) : m[k].index \in 1..n
  BY DEF WalkOf
<1>2. \A k \in 1..Len(m) : t[m[k].index] = s[m[k].index] /\ After(t, m[k]) = After(s, m[k])
  BY <1>1 DEF After
<1>3. Len(m) \in Nat /\ (m # <<>> => Len(m) \in 1..Len(m))
  OBVIOUS
<1>4. NextFree(t, m) = NextFree(s, m)
  BY <1>2, <1>3 DEF NextFree
<1>5. \A k \in 1..Len(m) : k # 1 => k - 1 \in 1..Len(m)
  BY <1>3
<1> QED
  BY <1>1, <1>2, <1>4, <1>5 DEF WalkOf

\* An unallocated section changes nothing.
LEMMA WalkPass ==
  ASSUME NEW s, NEW m \in Seq(Placement), NEW n \in Nat,
         ~s[n+1].alloc,
         WalkOf(s, m, n)
  PROVE  WalkOf(s, m, n + 1)
  BY DEF WalkOf

\* An allocated section is placed where the one before it left off.
LEMMA WalkAppend ==
  ASSUME NEW s, NEW m \in Seq(Placement), NEW n \in Nat, NEW p \in Placement,
         p.index = n + 1, p.rva = NextFree(s, m), s[n+1].alloc,
         WalkOf(s, m, n)
  PROVE  /\ WalkOf(s, Append(m, p), n + 1)
         /\ NextFree(s, Append(m, p)) = After(s, p)
<1> DEFINE w == Append(m, p)
<1>1. /\ w \in Seq(Placement) /\ Len(w) = Len(m) + 1 /\ Len(m) \in Nat
      /\ \A k \in 1..Len(m) : w[k] = m[k]
      /\ w[Len(m) + 1] = p
  BY AppendElement
<1>2. \A k \in 1..Len(w) : k \in 1..Len(m) \/ k = Len(m) + 1
  BY <1>1
<1>3. \A k \in 1..Len(m) : m[k].index \in 1..n /\ s[m[k].index].alloc
  BY DEF WalkOf
<1>4. w # <<>>
  BY <1>1
<1> HIDE DEF w
<1>5. \A k \in 1..Len(w) : w[k].index \in 1..(n+1) /\ s[w[k].index].alloc
  BY <1>1, <1>2, <1>3
<1>6. \A j \in 1..(n+1) : s[j].alloc => \E k \in 1..Len(w) : w[k].index = j
  <2> SUFFICES ASSUME NEW j \in 1..(n+1), s[j].alloc
               PROVE  \E k \in 1..Len(w) : w[k].index = j
    OBVIOUS
  <2>1. CASE j = n + 1
    BY <2>1, <1>1
  <2>2. CASE j \in 1..n
    <3>1. PICK k \in 1..Len(m) : m[k].index = j
      BY <2>2 DEF WalkOf
    <3> QED
      BY <3>1, <1>1
  <2> QED
    BY <2>1, <2>2
<1>7. \A k, l \in 1..Len(w) : k < l => w[k].index < w[l].index
  <2> SUFFICES ASSUME NEW k \in 1..Len(w), NEW l \in 1..Len(w), k < l
               PROVE  w[k].index < w[l].index
    OBVIOUS
  <2>1. CASE l \in 1..Len(m)
    <3>1. k \in 1..Len(m) /\ w[k] = m[k] /\ w[l] = m[l]
      BY <2>1, <1>1
    <3> QED
      BY <2>1, <3>1 DEF WalkOf
  <2>2. CASE l = Len(m) + 1
    <3>1. k \in 1..Len(m) /\ w[k] = m[k]
      BY <2>2, <1>1
    <3> QED
      BY <2>2, <3>1, <1>1, <1>3
  <2> QED
    BY <2>1, <2>2, <1>2
<1>8. \A k \in 1..Len(w) : w[k].rva = IF k = 1 THEN ComputeSize ELSE After(s, w[k-1])
  <2> SUFFICES ASSUME NEW k \in 1..Len(w)
               PROVE  w[k].rva = IF k = 1 THEN ComputeSize ELSE After(s, w[k-1])
    OBVIOUS
  <2>1. CASE k \in 1..Len(m)
    <3>1. k # 1 => w[k-1] = m[k-1]
      BY <2>1, <1>1
    <3> QED
      BY <2>1, <3>1, <1>1 DEF WalkOf
  <2>2. CASE k = Len(m) + 1 /\ m = <<>>
    BY <2>2, <1>1 DEF NextFree
  <2>3. CASE k = Len(m) + 1 /\ m # <<>>
    <3>1. k # 1 /\ w[k-1] = m[Len(m)]
      BY <2>3, <1>1
    <3> QED
      BY <2>3, <3>1, <1>1 DEF NextFree
  <2> QED
    BY <2>1, <2>2, <2>3, <1>2
<1>9. NextFree(s, w) = After(s, p)
  BY <1>1, <1>4 DEF NextFree
<1> QED
  BY <1>5, <1>6, <1>7, <1>8, <1>9 DEF WalkOf, w

(* ---- a second walk over the same sections ---- *)

\* While the second walk has repeated the first and an allocated section of the
\* first is next, the first has an entry for it, the next one, at the same address.
LEMMA WalkFollows ==
  ASSUME NEW s, NEW m \in Seq(Placement), NEW u \in Seq(Placement),
         NEW n \in Nat, NEW o \in Nat, n < o,
         WalkOf(s, m, n), WalkOf(s, u, o),
         Len(m) <= Len(u), \A k \in 1..Len(m) : m[k] = u[k],
         s[n+1].alloc
  PROVE  /\ Len(m) + 1 <= Len(u)
         /\ u[Len(m) + 1].index = n + 1
         /\ u[Len(m) + 1].rva = NextFree(s, m)
<1> DEFINE l == Len(m) + 1
<1>1. Len(m) \in Nat /\ Len(u) \in Nat
  OBVIOUS
<1>2. PICK k \in 1..Len(u) : u[k].index = n + 1
  <2>1. n + 1 \in 1..o
    OBVIOUS
  <2> QED
    BY <2>1 DEF WalkOf
<1>3. k \notin 1..Len(m)
  <2>1. \A j \in 1..Len(m) : m[j].index \in 1..n
    BY DEF WalkOf
  <2> QED
    BY <2>1, <1>2
<1>4. l \in 1..Len(u) /\ l <= k
  BY <1>1, <1>2, <1>3
<1>5. u[l].index \in 1..o /\ s[u[l].index].alloc
  BY <1>4 DEF WalkOf
<1>6. u[l].index <= n + 1
  <2>1. CASE l = k
    BY <2>1, <1>2
  <2>2. CASE l < k
    <3>1. u[l].index < u[k].index
      BY <2>2, <1>2, <1>4 DEF WalkOf
    <3> QED
      BY <3>1, <1>2, <1>5
  <2> QED
    BY <2>1, <2>2, <1>1, <1>4
<1>7. ~(u[l].index \in 1..n)
  <2> SUFFICES ASSUME u[l].index \in 1..n PROVE FALSE
    OBVIOUS
  <2>1. PICK j \in 1..Len(m) : m[j].index = u[l].index
    BY <1>5 DEF WalkOf
  <2>2. u[j].index = u[l].index /\ j \in 1..Len(u) /\ j < l
    BY <2>1, <1>1, <1>4
  <2>3. u[j].index < u[l].index
    BY <2>2, <1>4 DEF WalkOf
  <2> QED
    BY <2>2, <2>3, <1>5
<1>8. u[l].index = n + 1
  BY <1>5, <1>6, <1>7
<1>9. u[l].rva = NextFree(s, m)
  <2>1. u[l].rva = IF l = 1 THEN ComputeSize ELSE After(s, u[l-1])
    BY <1>4 DEF WalkOf
  <2>2. CASE m = <<>>
    BY <2>1, <2>2 DEF NextFree
  <2>3. CASE m # <<>>
    <3>1. Len(m) \in 1..Len(m) /\ l # 1 /\ l - 1 = Len(m)
      BY <2>3, <1>1
    <3>2. u[l-1] = m[Len(m)]
      BY <3>1
    <3> QED
      BY <2>1, <2>3, <3>1, <3>2 DEF NextFree
  <2> QED
    BY <2>2, <2>3
<1> QED
  BY <1>4, <1>8, <1>9

\* When the second walk has passed all the sections of the first, the mappings are
\* of the same length.
LEMMA WalkEnds ==
  ASSUME NEW s, NEW m \in Seq(Placement), NEW u \in Seq(Placement), NEW n \in Nat,
         WalkOf(s, m, n), WalkOf(s, u, n),
         Len(m) <= Len(u), \A k \in 1..Len(m) : m[k] = u[k]
  PROVE  Len(m) = Len(u)
<1> SUFFICES ASSUME Len(m) < Len(u) PROVE FALSE
  OBVIOUS
<1> DEFINE l == Len(m) + 1
<1>1. Len(m) \in Nat /\ Len(u) \in Nat /\ l \in 1..Len(u)
  OBVIOUS
<1>2. u[l].index \in 1..n /\ s[u[l].index].alloc
  BY <1>1 DEF WalkOf
<1>3. PICK j \in 1..Len(m) : m[j].index = u[l].index
  BY <1>2 DEF WalkOf
<1>4. u[j].index = u[l].index /\ j \in 1..Len(u) /\ j < l
  BY <1>1, <1>3
<1>5. u[j].index < u[l].index
  BY <1>1, <1>4 DEF WalkOf
<1> QED
  BY <1>2, <1>4, <1>5

(* ---- the two walks of main ---- *)

\* A walk begins with nothing placed.
LEMMA WalkBegins ==
  ASSUME NEW s
  PROVE  WalkOf(s, <<>>, 0) /\ NextFree(s, <<>>) = ComputeSize
  BY DEF WalkOf, NextFree

\* What the steps below need to know of the types.
LEMMA WalkTypes ==
  ASSUME IInv
  PROVE  /\ rvas \in Seq(Placement) /\ used \in Seq(Placement)
         /\ Len(rvas) \in Nat /\ Len(used) \in Nat
         /\ Len(elf) \in Nat /\ i \in 1..(Len(elf) + 1) /\ i - 1 \in Nat
  BY DEF IInv, TypeOK

\* addSection leaves the sections there were, and its own is allocated.
LEMMA Added1 ==
  ASSUME IInv, NEW name \in SectionNames, NEW size \in 0..MaxSize,
         elf' = WithSection(name, size)
  PROVE  /\ Len(elf') = Len(elf) + 1
         /\ \A k \in 1..Len(elf) : elf'[k] = elf[k]
         /\ elf'[Len(elf')] = [name |-> name, nobits |-> FALSE, alloc |-> TRUE, size |-> size]
<1> DEFINE e == [name |-> name, nobits |-> FALSE, alloc |-> TRUE, size |-> size]
<1>1. e \in Section
  BY DEF Section
<1>2. elf \in Seq(Section) /\ elf' = Append(elf, e)
  BY DEF IInv, TypeOK, WithSection
<1> HIDE DEF e
<1>3. elf'[Len(elf')] = e /\ Len(elf') = Len(elf) + 1 /\ \A k \in 1..Len(elf) : elf'[k] = elf[k]
  BY <1>1, <1>2, AppendElement
<1> QED
  BY <1>3 DEF e

\* .reloc and .peheader are section names and not too large.
LEMMA OwnSections ==
  /\ ".reloc" \in SectionNames /\ ".peheader" \in SectionNames
  /\ RelocSizes \subseteq 0..MaxSize /\ ComputeSize \in 0..MaxSize
<1>1. ComputeSize \in 0..MaxSize
  BY HeaderSize, InputAssumption
<1> QED
  BY <1>1, InputAssumption DEF SectionNames

\* getSectionRvas maps one section the way WalkOf says.
LEMMA MapSectionWalks ==
  ASSUME IInv, Walks, MapSection
  PROVE  Walks'
<1>1. /\ pc \in {"layout", "relayout"} /\ pc' = pc
      /\ i \in 1..Len(elf) /\ i' = i + 1 /\ elf[i].alloc
      /\ rvas' = Append(rvas, Mapping(i)) /\ start' = NextStart(elf[i])
      /\ elf' = elf /\ used' = used
  BY DEF MapSection, IInv, TypeOK
<1>2. Mapping(i) \in Placement /\ Mapping(i).index = (i - 1) + 1
      /\ Mapping(i).rva = NextFree(elf, rvas) /\ elf[(i - 1) + 1].alloc
  <2>1. i \in Nat /\ start \in Address /\ (i - 1) + 1 = i
    BY <1>1, WalkTypes DEF IInv, TypeOK
  <2>2. start = NextFree(elf, rvas)
    BY <1>1 DEF Walks
  <2> QED
    BY <1>1, <2>1, <2>2 DEF Mapping, Placement
<1>3. WalkOf(elf, rvas, i - 1)
  BY <1>1 DEF Walks, Walked
<1>4. /\ WalkOf(elf, rvas', (i - 1) + 1)
      /\ NextFree(elf, rvas') = After(elf, Mapping(i))
  BY <1>1, <1>2, <1>3, WalkTypes, WalkAppend
<1>5. start' = After(elf, Mapping(i))
  BY <1>1 DEF NextStart, After, Mapping
<1>6. Walked' = (i - 1) + 1
  BY <1>1, WalkTypes DEF Walked
<1> QED
  BY <1>1, <1>4, <1>5, <1>6 DEF Walks

\* The second getSectionRvas starts from nothing, over the sections of the first
\* and .reloc.
LEMMA AddRelocSectionWalks ==
  ASSUME IInv, Walks, AddRelocSection
  PROVE  Walks'
<1>1. PICK n \in RelocSizes : elf' = WithSection(".reloc", n)
  BY DEF AddRelocSection
<1>2. /\ pc = "layout" /\ pc' = "relayout" /\ used' = rvas /\ rvas' = <<>>
      /\ start' = ComputeSize /\ i' = 1 /\ i - 1 = Len(elf)
  BY WalkTypes DEF AddRelocSection
<1>3. /\ Len(elf') = Len(elf) + 1 /\ \A k \in 1..Len(elf) : elf'[k] = elf[k]
      /\ elf'[Len(elf')].alloc
  <2>1. n \in 0..MaxSize
    BY OwnSections
  <2>2. elf'[Len(elf')] = [name |-> ".reloc", nobits |-> FALSE, alloc |-> TRUE, size |-> n]
    BY <1>1, <2>1, OwnSections, Added1
  <2> QED
    BY <1>1, <2>1, <2>2, OwnSections, Added1
<1>4. WalkOf(elf, rvas, Len(elf))
  BY <1>2 DEF Walks, Walked
<1>5. WalkOf(elf', rvas, Len(elf))
  BY <1>3, <1>4, WalkTypes, WalkKept
<1>6. Walked' = 0 /\ Len(elf') - 1 = Len(elf) /\ Len(elf') # 0
  BY <1>2, <1>3, WalkTypes DEF Walked
<1>7. WalkOf(elf', rvas', 0) /\ NextFree(elf', rvas') = ComputeSize
  BY <1>2, WalkBegins
<1> QED
  BY <1>2, <1>3, <1>5, <1>6, <1>7 DEF Walks

\* Every step of main keeps the mappings what a walk makes.
LEMMA NextWalks ==
  ASSUME IInv, Walks, [Next]_vars
  PROVE  Walks'
<1>1. CASE AllocateComdat
  <2>1. /\ pc' = "layout" /\ rvas' = <<>> /\ start' = ComputeSize /\ i' = 1
    BY <1>1 DEF AllocateComdat, IInv, Untouched
  <2>2. Walked' = 0
    BY <2>1 DEF Walked
  <2> QED
    BY <2>1, <2>2, WalkBegins DEF Walks
<1>2. CASE BssMissing
  <2>1. pc' = "exit" /\ rvas' = <<>>
    BY <1>2 DEF BssMissing, IInv, Untouched
  <2>2. Walked' = 0
    BY <2>1 DEF Walked
  <2> QED
    BY <2>1, <2>2, WalkBegins DEF Walks
<1>3. CASE MapSection
  BY <1>3, MapSectionWalks
<1>4. CASE PassSection
  <2>1. /\ pc \in {"layout", "relayout"} /\ pc' = pc /\ i' = i + 1 /\ ~elf[i].alloc
        /\ UNCHANGED <<elf, start, rvas, used>>
    BY <1>4 DEF PassSection
  <2>2. WalkOf(elf, rvas, i - 1) /\ ~elf[(i - 1) + 1].alloc
    BY <2>1, WalkTypes DEF Walks, Walked
  <2>3. WalkOf(elf, rvas, (i - 1) + 1)
    BY <2>2, WalkTypes, WalkPass
  <2>4. Walked' = (i - 1) + 1
    BY <2>1, WalkTypes DEF Walked
  <2> QED
    BY <2>1, <2>3, <2>4 DEF Walks
<1>5. CASE AddRelocSection
  BY <1>5, AddRelocSectionWalks
<1>6. CASE BeginHeader
  <2>1. pc = "relayout" /\ pc' = "table" /\ UNCHANGED <<elf, rvas>> /\ i - 1 = Len(elf)
    BY <1>6, WalkTypes DEF BeginHeader
  <2> QED
    BY <2>1 DEF Walks, Walked
<1>7. CASE WriteEntry
  BY <1>7 DEF WriteEntry, Walks, Walked
<1>8. CASE AddPeHeader
  <2>1. /\ pc = "table" /\ pc' = "write" /\ rvas' = rvas
        /\ elf' = WithSection(".peheader", ComputeSize)
    BY <1>8 DEF AddPeHeader
  <2>2. Len(elf') = Len(elf) + 1 /\ \A k \in 1..Len(elf) : elf'[k] = elf[k]
    BY <2>1, OwnSections, Added1
  <2>3. WalkOf(elf', rvas, Len(elf))
    BY <2>1, <2>2, WalkTypes, WalkKept DEF Walks, Walked
  <2>4. Walked' = Len(elf)
    BY <2>1, <2>2, WalkTypes DEF Walked
  <2> QED
    BY <2>1, <2>3, <2>4 DEF Walks
<1>9. CASE WriteSection \/ SkipSection \/ CloseFile
  BY <1>9 DEF WriteSection, SkipSection, CloseFile, Walks, Walked
<1>10. CASE UNCHANGED vars
  BY <1>10 DEF vars, Walks, Walked
<1> QED
  BY <1>1, <1>2, <1>3, <1>4, <1>5, <1>6, <1>7, <1>8, <1>9, <1>10 DEF Next

\* Every step keeps the second mapping a repetition of the first.
LEMMA NextRepeats ==
  ASSUME IInv, Walks, Repeats, [Next]_vars
  PROVE  Repeats'
<1>1. CASE MapSection
  <2> SUFFICES ASSUME pc = "relayout" PROVE Repeats'
    BY <1>1 DEF MapSection, Repeats
  <2>1. /\ pc' = pc /\ i \in 1..Len(elf) /\ i' = i + 1 /\ elf[(i - 1) + 1].alloc
        /\ rvas' = Append(rvas, Mapping(i)) /\ elf' = elf /\ used' = used
    BY <1>1, WalkTypes DEF MapSection
  <2>2. Mapping(i) \in Placement /\ Mapping(i) = [index |-> i, rva |-> NextFree(elf, rvas)]
    BY <2>1, WalkTypes DEF Mapping, Placement, IInv, TypeOK, Walks
  <2>3. /\ Len(rvas') = Len(rvas) + 1 /\ rvas'[Len(rvas) + 1] = Mapping(i)
        /\ \A k \in 1..Len(rvas) : rvas'[k] = rvas[k]
    BY <2>1, <2>2, WalkTypes, AppendElement
  <2>4. /\ Len(rvas) <= Len(used) /\ \A k \in 1..Len(rvas) : rvas[k] = used[k]
    BY <2>1, WalkTypes DEF Repeats
  <2>5. /\ WalkOf(elf, rvas, i - 1) /\ WalkOf(elf, used, Len(elf) - 1)
        /\ Len(elf) - 1 \in Nat
    BY <2>1, WalkTypes DEF Walks, Walked
  <2>6. CASE i < Len(elf)
    <3>1. /\ Len(rvas) + 1 <= Len(used)
          /\ used[Len(rvas) + 1].index = (i - 1) + 1
          /\ used[Len(rvas) + 1].rva = NextFree(elf, rvas)
      <4>1. i - 1 \in Nat /\ i - 1 < Len(elf) - 1
        BY <2>6, WalkTypes
      <4> HIDE <2>6
      <4> QED
        BY <2>1, <2>4, <2>5, <4>1, WalkTypes, WalkFollows
    <3>2. used[Len(rvas) + 1] \in Placement
      BY <3>1, WalkTypes
    <3>3. used[Len(rvas) + 1] = Mapping(i)
      BY <2>2, <3>1, <3>2, WalkTypes DEF Placement
    <3>4. \A k \in 1..Len(rvas') : k <= Len(used) => rvas'[k] = used[k]
      BY <2>3, <2>4, <3>3, WalkTypes
    <3> QED
      BY <2>1, <2>3, <2>6, <3>1, <3>4, WalkTypes DEF Repeats
  <2>7. CASE i = Len(elf)
    <3>1. Len(rvas) = Len(used)
      BY <2>4, <2>5, <2>7, WalkTypes, WalkEnds
    <3>2. \A k \in 1..Len(rvas') : k <= Len(used) => rvas'[k] = used[k]
      BY <2>3, <2>4, <3>1, WalkTypes
    <3> QED
      BY <2>1, <2>3, <2>7, <3>1, <3>2, WalkTypes DEF Repeats
  <2> QED
    BY <2>1, <2>6, <2>7, WalkTypes
<1>2. CASE PassSection
  <2> SUFFICES ASSUME pc = "relayout" PROVE Repeats'
    BY <1>2 DEF PassSection, Repeats
  <2>1. i # Len(elf) /\ i <= Len(elf) /\ i' = i + 1 /\ pc' = pc /\ UNCHANGED <<elf, rvas, used>>
    BY <1>2 DEF PassSection, Walks
  <2>2. i' <= Len(elf)
    BY <2>1, WalkTypes
  <2> QED
    BY <2>1, <2>2 DEF Repeats
<1>3. CASE AddRelocSection
  <2>1. PICK n \in RelocSizes : elf' = WithSection(".reloc", n)
    BY <1>3 DEF AddRelocSection
  <2>2. Len(elf') = Len(elf) + 1
    BY <2>1, OwnSections, Added1
  <2>3. pc' = "relayout" /\ rvas' = <<>> /\ i' = 1 /\ used' = rvas
    BY <1>3 DEF AddRelocSection
  <2>4. i' <= Len(elf') /\ Len(rvas') <= Len(used') /\ Len(rvas') = 0
    BY <2>2, <2>3, WalkTypes
  <2> QED
    BY <2>3, <2>4 DEF Repeats
<1>4. CASE BeginHeader
  <2>1. /\ pc = "relayout" /\ pc' = "table" /\ UNCHANGED <<rvas, used>> /\ ~(i <= Len(elf))
    BY <1>4, WalkTypes DEF BeginHeader
  <2>2. Len(rvas) = Len(used) + 1 /\ \A k \in 1..Len(used) : rvas[k] = used[k]
    BY <2>1, WalkTypes DEF Repeats
  <2> QED
    BY <2>1, <2>2 DEF Repeats
<1>5. CASE AllocateComdat \/ BssMissing
  BY <1>5 DEF AllocateComdat, BssMissing, Repeats
<1>6. CASE WriteEntry \/ AddPeHeader \/ WriteSection \/ SkipSection \/ CloseFile
  BY <1>6 DEF WriteEntry, AddPeHeader, WriteSection, SkipSection, CloseFile, Repeats
<1>7. CASE UNCHANGED vars
  BY <1>7 DEF vars, Repeats
<1> QED
  BY <1>1, <1>2, <1>3, <1>4, <1>5, <1>6, <1>7 DEF Next

(* ---- the section table ---- *)

\* Append's length and elements, whatever is appended.
LEMMA AppendAny ==
  ASSUME NEW S, NEW s \in Seq(S), NEW e
  PROVE  /\ Len(Append(s, e)) = Len(s) + 1
         /\ \A k \in 1..Len(s) : Append(s, e)[k] = s[k]
         /\ Append(s, e)[Len(s) + 1] = e
         /\ Len(s) \in Nat
  BY SMT

\* The entry that createHeaderSection writes next.
NextEntry ==
  LET s == elf[rvas[i].index]
  IN  [index |-> rvas[i].index, rva |-> rvas[i].rva, size |-> s.size,
       paddr |-> paddr, psize |-> PhysicalSize(s)]

\* WriteEntry puts it behind those there are.
LEMMA EntryAppended ==
  ASSUME IInv, WriteEntry
  PROVE  /\ Len(header'.table) = Len(header.table) + 1 /\ Len(header.table) \in Nat
         /\ i = Len(header.table) + 1 /\ i \in 1..Len(rvas)
         /\ \A k \in 1..Len(header.table) : header'.table[k] = header.table[k]
         /\ header'.table[i] = NextEntry
         /\ header'.dirs = header.dirs /\ header'.entry = header.entry
         /\ pc = "table" /\ UNCHANGED <<pc, elf, symbol, rvas, used>>
<1>1. /\ header' = [header EXCEPT !.table = Append(@, NextEntry)]
      /\ pc = "table" /\ i <= Len(rvas) /\ UNCHANGED <<pc, elf, symbol, rvas, used>>
  BY DEF WriteEntry, NextEntry
<1>2. /\ header \in [imageSize : Address, entry : Nat,
                     dirs : {<<>>} \cup [DirNames -> Nat \X Nat], table : Seq(Entry)]
      /\ Len(header.table) = i - 1 /\ i \in 1..(Len(elf) + 1) /\ Len(elf) \in Nat
      /\ Len(rvas) \in Nat
  BY <1>1 DEF IInv, TypeOK, Counted
<1>3. /\ header'.table = Append(header.table, NextEntry)
      /\ header'.dirs = header.dirs /\ header'.entry = header.entry
      /\ header.table \in Seq(Entry)
  BY <1>1, <1>2
<1>4. i = Len(header.table) + 1 /\ i \in 1..Len(rvas)
  BY <1>1, <1>2
<1> QED
  BY <1>1, <1>3, <1>4, AppendAny

\* Every entry repeats an entry of the mapping, and the table ends with it.
LEMMA NextTabled ==
  ASSUME IInv, Tabled, [Next]_vars
  PROVE  Tabled'
<1>1. CASE AllocateComdat \/ BssMissing \/ MapSection \/ PassSection \/ AddRelocSection
  <2>1. header' = NoHeader /\ pc' \in {"layout", "relayout", "exit"}
    BY <1>1 DEF AllocateComdat, BssMissing, MapSection, PassSection, AddRelocSection,
                IInv, Counted
  <2>2. Len(header'.table) = 0
    BY <2>1 DEF NoHeader
  <2> QED
    BY <2>1, <2>2 DEF Tabled, Built
<1>2. CASE BeginHeader
  <2>1. Len(header'.table) = 0 /\ pc' = "table"
    BY <1>2 DEF BeginHeader
  <2> QED
    BY <2>1 DEF Tabled, Built
<1>3. CASE WriteEntry
  <2>1. \A k \in 1..Len(header'.table) :
          header'.table[k].index = rvas[k].index /\ header'.table[k].rva = rvas[k].rva
    <3> SUFFICES ASSUME NEW k \in 1..Len(header'.table)
                 PROVE  /\ header'.table[k].index = rvas[k].index
                        /\ header'.table[k].rva = rvas[k].rva
      OBVIOUS
    <3>1. CASE k \in 1..Len(header.table)
      BY <1>3, <3>1, EntryAppended DEF Tabled
    <3>2. CASE k = i
      BY <1>3, <3>2, EntryAppended DEF NextEntry
    <3> QED
      BY <1>3, <3>1, <3>2, EntryAppended
  <2> QED
    BY <1>3, <2>1, EntryAppended DEF Tabled, Built
<1>4. CASE AddPeHeader
  <2>1. Len(header.table) = Len(rvas)
    BY <1>4, WalkTypes DEF AddPeHeader, IInv, Counted
  <2> QED
    BY <1>4, <2>1 DEF AddPeHeader, Tabled, Built
<1>5. CASE WriteSection \/ SkipSection \/ CloseFile
  BY <1>5 DEF WriteSection, SkipSection, CloseFile, Tabled, Built
<1>6. CASE UNCHANGED vars
  BY <1>6 DEF vars, Tabled, Built
<1> QED
  BY <1>1, <1>2, <1>3, <1>4, <1>5, <1>6 DEF Next

\* The invariant of the agreement holds when main has opened the file.
LEMMA InitAInv == Init => AInv
<1> SUFFICES ASSUME Init PROVE AInv
  OBVIOUS
<1>1. pc = "comdat" /\ rvas = <<>> /\ header = NoHeader
  BY DEF Init
<1>2. Walks
  BY <1>1, WalkBegins DEF Walks, Walked
<1>3. Repeats /\ Tabled
  BY <1>1 DEF Repeats, Tabled, NoHeader, Built
<1> QED
  BY <1>2, <1>3, InitIInv DEF AInv

\* Every step of main keeps it.
LEMMA NextAInv == AInv /\ [Next]_vars => AInv'
  BY NextIInv, NextWalks, NextRepeats, NextTabled DEF AInv

\* The loader maps every section at the address the code was relocated for: the
\* second getSectionRvas, .reloc behind it and the table made from it repeat the
\* first, for every input and all alignments (RelocatedAsLoaded).
THEOREM LoadedWhereRelocated == Spec => []RelocatedAsLoaded
<1>1. AInv => RelocatedAsLoaded
  <2> SUFFICES ASSUME AInv, Built PROVE RelocatedAsLoaded
    BY DEF RelocatedAsLoaded
  <2>1. /\ Len(header.table) = Len(rvas) /\ Len(rvas) = Len(used) + 1
        /\ \A k \in 1..Len(used) : rvas[k] = used[k]
    BY DEF AInv, Repeats, Tabled, Built
  <2>2. \A k \in 1..Len(used) : k \in 1..Len(header.table)
    BY <2>1, WalkTypes DEF AInv
  <2> QED
    BY <2>1, <2>2 DEF AInv, Tabled, RelocatedAsLoaded
<1> QED
  BY <1>1, InitAInv, NextAInv, PTL DEF Spec

(* ---- the entry point ---- *)

\* getEntryPoint finds in the second mapping what the first one says, since the
\* symbol is in none of the sections only the second one has.
LEMMA EntryPointAgrees ==
  ASSUME AInv, symbol.index < Len(elf), BeginHeader
  PROVE  \/ \E m \in 1..Len(used) : /\ used[m].index = symbol.index
                                    /\ EntryPoint = used[m].rva + symbol.offset
         \/ /\ \A m \in 1..Len(used) : used[m].index # symbol.index
            /\ EntryPoint = ComputeSize
<1> DEFINE hits == {m \in 1..Len(rvas) : rvas[m].index = symbol.index}
<1>1. /\ pc = "relayout" /\ ~(i <= Len(elf)) /\ i - 1 = Len(elf)
  BY WalkTypes DEF BeginHeader, AInv
<1>2. /\ Len(rvas) = Len(used) + 1 /\ \A k \in 1..Len(used) : rvas[k] = used[k]
      /\ Len(used) \in Nat
  BY <1>1, WalkTypes DEF AInv, Repeats
<1>3. WalkOf(elf, rvas, Len(elf)) /\ WalkOf(elf, used, Len(elf) - 1)
      /\ Len(elf) \in 1..Len(elf) /\ elf[Len(elf)].alloc
  BY <1>1, WalkTypes DEF AInv, Walks, Walked
<1>4. \A m \in hits : m \in 1..Len(used)
  <2> SUFFICES ASSUME NEW m \in hits, m = Len(used) + 1 PROVE FALSE
    BY <1>2
  <2>1. PICK k \in 1..Len(rvas) : rvas[k].index = Len(elf)
    BY <1>3 DEF WalkOf
  <2>2. \A l \in 1..Len(used) : used[l].index \in 1..(Len(elf) - 1)
    BY <1>3 DEF WalkOf
  <2>3. k = m
    BY <1>2, <1>3, <2>1, <2>2
  <2> QED
    BY <2>1, <2>3, <1>3
<1>5. CASE hits = {}
  <2>1. \A m \in 1..Len(used) : used[m].index # symbol.index
    BY <1>2, <1>5
  <2> QED
    BY <1>5, <2>1 DEF EntryPoint
<1>6. CASE hits # {}
  <2> DEFINE m == CHOOSE m \in hits : TRUE
  <2>1. m \in hits
    BY <1>6
  <2>2. EntryPoint = rvas[m].rva + symbol.offset
    BY <1>6 DEF EntryPoint
  <2> HIDE DEF m
  <2>3. m \in 1..Len(used) /\ used[m].index = symbol.index
    BY <1>2, <1>4, <2>1
  <2> QED
    BY <1>2, <2>2, <2>3
<1> QED
  BY <1>5, <1>6

\* elfpe adds sections behind gcc's and takes none away.
LEMMA NextLength ==
  ASSUME IInv, [Next]_vars
  PROVE  Len(elf') - Added' = Len(elf) - Added /\ symbol' = symbol
<1>1. CASE AllocateComdat
  <2>1. PICK bss \in Named(".bss"), c \in Commons :
          elf' = [elf EXCEPT ![bss].size = RoundUp4(@) + c]
    BY <1>1 DEF AllocateComdat
  <2>2. Len(elf') = Len(elf)
    BY <2>1 DEF IInv, TypeOK
  <2> QED
    BY <1>1, <2>2 DEF AllocateComdat
<1>2. CASE AddRelocSection
  <2>1. PICK n \in RelocSizes : elf' = WithSection(".reloc", n)
    BY <1>2 DEF AddRelocSection
  <2>2. n \in 0..MaxSize
    BY OwnSections
  <2>3. Len(elf') = Len(elf) + 1
    BY <2>1, <2>2, OwnSections, Added1
  <2> QED
    BY <1>2, <2>3, WalkTypes DEF AddRelocSection
<1>3. CASE AddPeHeader
  <2>1. elf' = WithSection(".peheader", ComputeSize)
    BY <1>3 DEF AddPeHeader
  <2>2. Len(elf') = Len(elf) + 1
    BY <2>1, OwnSections, Added1
  <2> QED
    BY <1>3, <2>2, WalkTypes DEF AddPeHeader
<1>4. CASE BssMissing \/ MapSection \/ PassSection \/ BeginHeader \/ WriteEntry
  BY <1>4 DEF BssMissing, MapSection, PassSection, BeginHeader, WriteEntry
<1>5. CASE WriteSection \/ SkipSection \/ CloseFile
  BY <1>5 DEF WriteSection, SkipSection, CloseFile
<1>6. CASE UNCHANGED vars
  BY <1>6 DEF vars
<1> QED
  BY <1>1, <1>2, <1>3, <1>4, <1>5, <1>6 DEF Next

\* The header's entry point is settled in BeginHeader and stays.
LEMMA NextEntered ==
  ASSUME AInv, Entered, [Next]_vars
  PROVE  Entered'
<1> USE DEF Entered
<1>1. symbol'.index <= Len(elf') - Added' /\ symbol' = symbol
  BY NextLength DEF AInv
<1>2. CASE BeginHeader
  <2>1. /\ pc = "relayout" /\ header'.entry = EntryPoint /\ used' = used
    BY <1>2 DEF BeginHeader
  <2>2. symbol.index < Len(elf)
    BY <2>1, WalkTypes DEF AInv, IInv, TypeOK
  <2> QED
    BY <1>1, <1>2, <2>1, <2>2, EntryPointAgrees
<1>3. CASE WriteEntry
  BY <1>1, <1>3, EntryAppended DEF AInv
<1>4. CASE AddPeHeader \/ WriteSection \/ SkipSection \/ CloseFile
  BY <1>1, <1>4 DEF AddPeHeader, WriteSection, SkipSection, CloseFile
<1>5. CASE AllocateComdat \/ BssMissing \/ MapSection \/ PassSection \/ AddRelocSection
  <2>1. pc' \notin {"table", "write", "done"}
    BY <1>5 DEF AllocateComdat, BssMissing, MapSection, PassSection, AddRelocSection
  <2> QED
    BY <1>1, <2>1
<1>6. CASE UNCHANGED vars
  BY <1>1, <1>6 DEF vars
<1> QED
  BY <1>2, <1>3, <1>4, <1>5, <1>6 DEF Next

\* The entry point in the header is the address the relocated code knows the entry
\* symbol by, or the first byte after the headers (EntryAgrees).
THEOREM EntryIsTheSymbol == Spec => []EntryAgrees
<1>1. Init => Entered
  <2> SUFFICES ASSUME Init PROVE Entered
    OBVIOUS
  <2>1. pc = "comdat" /\ IInv
    BY InitIInv DEF Init
  <2>2. symbol.index <= Len(elf)
    <3>1. CASE symbol = NoSymbol
      BY <2>1, <3>1, WalkTypes DEF NoSymbol
    <3>2. CASE symbol \in [index : 1..Len(elf), offset : Offsets]
      BY <2>1, <3>2, WalkTypes
    <3> QED
      BY <3>1, <3>2 DEF Init
  <2> QED
    BY <2>1, <2>2, WalkTypes DEF Entered
<1>2. Entered => EntryAgrees
  BY DEF Entered, EntryAgrees, Built
<1> QED
  BY <1>1, <1>2, NextEntered, InitAInv, NextAInv, PTL DEF Spec

(* ---- the names of the sections ---- *)

\* The linker script makes neither of the sections elfpe adds.
PlainInputs ==
  \A input \in Inputs : \A k \in 1..Len(input) : input[k].name \notin {".reloc", ".peheader"}

\* elfpe's own sections are the last ones, and the only ones of their names.
LEMMA NextPlain ==
  ASSUME IInv, Plain, [Next]_vars
  PROVE  Plain'
<1>1. CASE AllocateComdat
  <2>1. PICK bss \in Named(".bss"), c \in Commons :
          elf' = [elf EXCEPT ![bss].size = RoundUp4(@) + c]
    BY <1>1 DEF AllocateComdat
  <2>2. elf \in Seq(Section) /\ pc = "comdat" /\ pc' = "layout"
    BY <1>1 DEF IInv, TypeOK, AllocateComdat
  <2>3. Len(elf') = Len(elf) /\ \A k \in 1..Len(elf) : elf'[k].name = elf[k].name
    BY <2>1, <2>2 DEF Section
  <2> QED
    BY <2>2, <2>3 DEF Plain
<1>2. CASE AddRelocSection
  <2>1. PICK n \in RelocSizes : elf' = WithSection(".reloc", n)
    BY <1>2 DEF AddRelocSection
  <2>2. n \in 0..MaxSize
    BY OwnSections
  <2>3. /\ Len(elf') = Len(elf) + 1 /\ \A k \in 1..Len(elf) : elf'[k] = elf[k]
        /\ elf'[Len(elf')] = [name |-> ".reloc", nobits |-> FALSE, alloc |-> TRUE, size |-> n]
    BY <2>1, <2>2, OwnSections, Added1
  <2>4. pc = "layout" /\ pc' = "relayout" /\ Len(elf') - 1 = Len(elf)
    BY <1>2, <2>3, WalkTypes DEF AddRelocSection
  <2> QED
    BY <2>3, <2>4, WalkTypes DEF Plain
<1>3. CASE AddPeHeader
  <2>1. elf' = WithSection(".peheader", ComputeSize)
    BY <1>3 DEF AddPeHeader
  <2>2. /\ Len(elf') = Len(elf) + 1 /\ \A k \in 1..Len(elf) : elf'[k] = elf[k]
        /\ elf'[Len(elf')] = [name |-> ".peheader", nobits |-> FALSE, alloc |-> TRUE,
                              size |-> ComputeSize]
    BY <2>1, OwnSections, Added1
  <2>3. /\ pc = "table" /\ pc' = "write"
        /\ Len(elf') - 2 = Len(elf) - 1 /\ Len(elf') - 1 = Len(elf) /\ Len(elf) \in 1..Len(elf)
    <3>1. Len(elf) # 0
      BY <1>3 DEF AddPeHeader, Plain
    <3> QED
      BY <1>3, <2>2, <3>1, WalkTypes DEF AddPeHeader
  <2>4. elf'[Len(elf') - 1].name = ".reloc"
    BY <2>2, <2>3 DEF Plain
  <2> QED
    BY <2>2, <2>3, <2>4, WalkTypes DEF Plain
<1>4. CASE BssMissing \/ MapSection \/ PassSection \/ BeginHeader \/ WriteEntry
  BY <1>4 DEF BssMissing, MapSection, PassSection, BeginHeader, WriteEntry, Plain
<1>5. CASE WriteSection \/ SkipSection \/ CloseFile
  BY <1>5 DEF WriteSection, SkipSection, CloseFile, Plain
<1>6. CASE UNCHANGED vars
  BY <1>6 DEF vars, Plain
<1> QED
  BY <1>1, <1>2, <1>3, <1>4, <1>5, <1>6 DEF Next

\* Plain holds of what gcc has made, if it has made neither section.
LEMMA InitPlain ==
  ASSUME PlainInputs, Init
  PROVE  Plain
<1>1. pc = "comdat" /\ elf \in Inputs /\ Len(elf) \in Nat
  BY InitIInv, WalkTypes DEF Init
<1> QED
  BY <1>1 DEF PlainInputs, Plain

(* ---- the directories ---- *)

\* getNamedSectionInfo returns a mapped section of that name, or nothing.
LEMMA NamedInfoMapped ==
  ASSUME IInv, NEW name
  PROVE  \/ NamedSectionInfo(name) = <<0, 0>>
         \/ \E m \in 1..Len(rvas) :
              /\ elf[rvas[m].index].name = name
              /\ NamedSectionInfo(name) = <<rvas[m].rva, elf[rvas[m].index].size>>
<1> DEFINE hits == {m \in 1..Len(rvas) : rvas[m].index \in Named(name)
                                           /\ elf[rvas[m].index].size # 0}
<1>1. CASE hits = {}
  BY <1>1 DEF NamedSectionInfo
<1>2. CASE hits # {}
  <2> DEFINE m == CHOOSE m \in hits : TRUE
  <2>1. m \in hits
    BY <1>2
  <2>2. NamedSectionInfo(name) = <<rvas[m].rva, elf[rvas[m].index].size>>
    BY <1>2 DEF NamedSectionInfo
  <2> HIDE DEF m
  <2> QED
    BY <2>1, <2>2 DEF Named
<1> QED
  BY <1>1, <1>2

\* .reloc is the last section mapped, and is found by its name.
LEMMA RelocFound ==
  ASSUME AInv, Plain, BeginHeader,
         elf[rvas[Len(rvas)].index].size # 0
  PROVE  NamedSectionInfo(".reloc")
           = <<rvas[Len(rvas)].rva, elf[rvas[Len(rvas)].index].size>>
<1> DEFINE hits == {m \in 1..Len(rvas) : rvas[m].index \in Named(".reloc")
                                           /\ elf[rvas[m].index].size # 0}
<1>1. /\ pc = "relayout" /\ i - 1 = Len(elf) /\ Len(elf) \in 1..Len(elf)
      /\ elf[Len(elf)].name = ".reloc" /\ elf[Len(elf)].alloc
      /\ \A k \in 1..(Len(elf) - 1) : elf[k].name # ".reloc"
  BY WalkTypes DEF BeginHeader, AInv, Plain, Walks
<1>2. Named(".reloc") = {Len(elf)}
  BY <1>1, WalkTypes DEF Named, AInv
<1>3. WalkOf(elf, rvas, Len(elf)) /\ Len(rvas) \in Nat
  BY <1>1, WalkTypes DEF AInv, Walks, Walked
<1>4. PICK last \in 1..Len(rvas) : rvas[last].index = Len(elf)
  BY <1>1, <1>3 DEF WalkOf
<1>5. \A m \in 1..Len(rvas) : rvas[m].index = Len(elf) => m = Len(rvas)
  <2> SUFFICES ASSUME NEW m \in 1..Len(rvas), rvas[m].index = Len(elf), m < Len(rvas)
               PROVE  FALSE
    BY <1>3
  <2>1. Len(rvas) \in 1..Len(rvas)
    BY <1>3
  <2>2. rvas[m].index < rvas[Len(rvas)].index /\ rvas[Len(rvas)].index \in 1..Len(elf)
    BY <1>3, <2>1 DEF WalkOf
  <2> QED
    BY <1>1, <2>2
<1>6. rvas[Len(rvas)].index = Len(elf)
  BY <1>4, <1>5
<1>7. hits = {Len(rvas)}
  BY <1>2, <1>3, <1>4, <1>5, <1>6
<1> HIDE DEF hits
<1>8. (CHOOSE m \in hits : TRUE) = Len(rvas)
  BY <1>7
<1> QED
  BY <1>7, <1>8 DEF NamedSectionInfo, hits

\* The directories and the sizes in the table are those of the mapped sections.
LEMMA NextListed ==
  ASSUME AInv, Listed, [Next]_vars
  PROVE  Listed'
<1>1. IInv /\ IInv' /\ Tabled
  BY NextAInv DEF AInv
<1>2. CASE AllocateComdat \/ BssMissing \/ MapSection \/ PassSection \/ AddRelocSection
  <2>1. header' = NoHeader /\ pc' \in {"layout", "relayout", "exit"}
    BY <1>1, <1>2 DEF AllocateComdat, BssMissing, MapSection, PassSection, AddRelocSection,
                      IInv, Counted
  <2>2. Len(header'.table) = 0
    BY <2>1 DEF NoHeader
  <2> QED
    BY <2>1, <2>2 DEF Listed
<1>3. CASE BeginHeader
  <2>1. /\ header'.table = <<>> /\ header'.dirs = [n \in DirNames |-> NamedSectionInfo(n)]
        /\ UNCHANGED <<elf, rvas>>
    BY <1>3 DEF BeginHeader
  <2>2. \A n \in DirNames : header'.dirs[n] = NamedSectionInfo(n)
    BY <2>1
  <2>3. Len(header'.table) = 0
    BY <2>1
  <2> QED
    BY <1>1, <2>1, <2>2, <2>3, NamedInfoMapped DEF Listed
<1>4. CASE WriteEntry
  <2>1. header'.table[i].size = elf[header'.table[i].index].size
    BY <1>1, <1>4, EntryAppended DEF NextEntry
  <2>2. \A k \in 1..Len(header'.table) : k \in 1..Len(header.table) \/ k = i
    BY <1>1, <1>4, EntryAppended
  <2>3. /\ \A k \in 1..Len(header.table) : header'.table[k] = header.table[k]
        /\ header'.dirs = header.dirs /\ pc = "table" /\ UNCHANGED <<pc, elf, rvas>>
    BY <1>1, <1>4, EntryAppended
  <2>4. \A k \in 1..Len(header'.table) :
          header'.table[k].size = elf[header'.table[k].index].size
    BY <2>1, <2>2, <2>3 DEF Listed
  <2> QED
    BY <2>3, <2>4 DEF Listed
<1>5. CASE AddPeHeader
  <2>1. /\ pc = "table" /\ UNCHANGED <<rvas, header>>
        /\ elf' = WithSection(".peheader", ComputeSize)
    BY <1>5 DEF AddPeHeader
  <2>2. \A k \in 1..Len(elf) : elf'[k] = elf[k]
    BY <1>1, <2>1, OwnSections, Added1
  <2>3. \A m \in 1..Len(rvas) : elf'[rvas[m].index] = elf[rvas[m].index]
    BY <1>1, <2>2 DEF IInv, TypeOK
  <2>4. \A k \in 1..Len(header.table) :
          elf'[header.table[k].index] = elf[header.table[k].index]
    <3>1. Len(header.table) <= Len(rvas) /\ Len(header.table) \in Nat
      BY <1>1 DEF IInv, Counted, TypeOK
    <3>2. \A k \in 1..Len(header.table) : k \in 1..Len(rvas)
      BY <1>1, <3>1, WalkTypes
    <3>3. \A k \in 1..Len(header.table) : header.table[k].index = rvas[k].index
      BY <1>1 DEF Tabled
    <3> QED
      BY <2>3, <3>2, <3>3
  <2> QED
    BY <2>1, <2>3, <2>4 DEF Listed
<1>6. CASE WriteSection \/ SkipSection \/ CloseFile
  <2>1. pc = "write" /\ pc' \in {"write", "done"} /\ UNCHANGED <<elf, rvas, header>>
    BY <1>6 DEF WriteSection, SkipSection, CloseFile
  <2> QED
    BY <2>1 DEF Listed
<1>7. CASE UNCHANGED vars
  BY <1>7 DEF vars, Listed
<1> QED
  BY <1>2, <1>3, <1>4, <1>5, <1>6, <1>7 DEF Next

\* The directory of the base relocations is the section that holds them.
LEMMA NextRelocListed ==
  ASSUME AInv, Plain, RelocListed, [Next]_vars
  PROVE  RelocListed'
<1>1. IInv
  BY DEF AInv
<1>2. CASE AllocateComdat \/ BssMissing \/ MapSection \/ PassSection \/ AddRelocSection
  BY <1>1, <1>2 DEF AllocateComdat, BssMissing, MapSection, PassSection, AddRelocSection,
                    RelocListed
<1>3. CASE BeginHeader
  <2>1. /\ header'.dirs = [n \in DirNames |-> NamedSectionInfo(n)] /\ UNCHANGED <<elf, rvas>>
        /\ ".reloc" \in DirNames
    BY <1>3 DEF BeginHeader, DirNames
  <2>2. header'.dirs[".reloc"] = NamedSectionInfo(".reloc")
    BY <2>1
  <2> QED
    BY <1>3, <2>1, <2>2, RelocFound DEF RelocListed
<1>4. CASE WriteEntry
  BY <1>1, <1>4, EntryAppended DEF RelocListed
<1>5. CASE AddPeHeader
  <2>1. /\ pc = "table" /\ UNCHANGED <<rvas, header>>
        /\ elf' = WithSection(".peheader", ComputeSize)
    BY <1>5 DEF AddPeHeader
  <2>2. \A k \in 1..Len(elf) : elf'[k] = elf[k]
    BY <1>1, <2>1, OwnSections, Added1
  <2>3. Len(rvas) \in 1..Len(rvas)
    BY <1>1, <2>1, WalkTypes DEF AInv, Repeats
  <2>4. elf'[rvas[Len(rvas)].index] = elf[rvas[Len(rvas)].index]
    BY <1>1, <2>2, <2>3 DEF IInv, TypeOK
  <2> QED
    BY <2>1, <2>4 DEF RelocListed
<1>6. CASE WriteSection \/ SkipSection \/ CloseFile
  BY <1>6 DEF WriteSection, SkipSection, CloseFile, RelocListed
<1>7. CASE UNCHANGED vars
  BY <1>7 DEF vars, RelocListed
<1> QED
  BY <1>2, <1>3, <1>4, <1>5, <1>6, <1>7 DEF Next

\* A data directory is empty or one mapped section of its name, and the base
\* relocations are found, as long as gcc's output has no .reloc of its own
\* (DirectoriesMapped).
THEOREM DirectoriesAreSections ==
  ASSUME PlainInputs
  PROVE  Spec => []DirectoriesMapped
<1>1. Init => Plain /\ Listed /\ RelocListed
  <2> SUFFICES ASSUME Init PROVE Listed /\ RelocListed
    BY InitPlain
  <2>1. pc = "comdat" /\ Len(header.table) = 0
    BY DEF Init, NoHeader
  <2> QED
    BY <2>1 DEF Listed, RelocListed
<1>2. AInv /\ Listed /\ RelocListed => DirectoriesMapped
  <2> SUFFICES ASSUME AInv, Listed, RelocListed, Built PROVE DirectoriesMapped
    BY DEF DirectoriesMapped
  <2>1. /\ Len(header.table) = Len(rvas) /\ Len(rvas) \in 1..Len(rvas)
        /\ \A k \in 1..Len(rvas) :
             /\ header.table[k].index = rvas[k].index /\ header.table[k].rva = rvas[k].rva
             /\ header.table[k].size = elf[rvas[k].index].size
    BY WalkTypes DEF AInv, Repeats, Tabled, Listed, Built
  <2>2. \A n \in DirNames :
         \/ header.dirs[n] = <<0, 0>>
         \/ \E m \in 1..Len(rvas) : /\ elf[rvas[m].index].name = n
                                    /\ header.dirs[n] = <<rvas[m].rva, elf[rvas[m].index].size>>
    BY DEF Listed, Built
  <2>3. LET last == rvas[Len(rvas)]
        IN  elf[last.index].size # 0 => header.dirs[".reloc"] = <<last.rva, elf[last.index].size>>
    BY DEF RelocListed, Built
  <2> QED
    BY <2>1, <2>2, <2>3 DEF DirectoriesMapped
<1>3. IInv /\ Plain /\ [Next]_vars => Plain'
  BY NextPlain
<1>4. AInv => IInv
  BY DEF AInv
<1> QED
  BY <1>1, <1>2, <1>3, <1>4, NextListed, NextRelocListed, InitAInv, NextAInv, PTL DEF Spec

(* ---- the offsets in the file ---- *)

\* The types of the table's entries.
LEMMA TableTypes ==
  ASSUME IInv
  PROVE  /\ Len(header.table) \in Nat
         /\ \A k \in 1..Len(header.table) :
              /\ header.table[k].index \in Nat
              /\ header.table[k].paddr \in Nat /\ header.table[k].psize \in Nat
<1>1. header.table \in Seq(Entry)
  BY DEF IInv, TypeOK
<1>2. \A e \in Entry : e.index \in Nat /\ e.paddr \in Nat /\ e.psize \in Nat
  BY RangesAreNat DEF Entry
<1> QED
  BY <1>1, <1>2

\* While the sections are written, the table's entries are in the order of their
\* sections, which are allocated ones, and it has one for each section to write.
LEMMA TableWhole ==
  ASSUME AInv, Plain, pc = "write"
  PROVE  /\ \A k \in 1..Len(header.table) :
              /\ header.table[k].index \in 1..(Len(elf) - 1)
              /\ elf[header.table[k].index].alloc
              /\ elf[header.table[k].index].name # ".peheader"
         /\ \A k, l \in 1..Len(header.table) :
              k < l => header.table[k].index < header.table[l].index
         /\ \A j \in 1..Len(elf) :
              Stored(elf[j]) => \E m \in 1..Len(header.table) : header.table[m].index = j
<1>1. /\ Len(header.table) = Len(rvas) /\ Len(elf) \in Nat
      /\ \A k \in 1..Len(rvas) : header.table[k].index = rvas[k].index
  BY WalkTypes DEF AInv, Tabled, Built
<1>2. WalkOf(elf, rvas, Len(elf) - 1)
  BY DEF AInv, Walks, Walked
<1>3. /\ elf[Len(elf)].name = ".peheader" /\ elf[Len(elf) - 1].name = ".reloc"
      /\ \A k \in 1..(Len(elf) - 2) : elf[k].name # ".peheader"
  BY DEF Plain
<1>4. \A j \in 1..(Len(elf) - 1) : elf[j].name # ".peheader"
  BY <1>1, <1>3
<1>5. \A j \in 1..Len(elf) : Stored(elf[j]) => j \in 1..(Len(elf) - 1) /\ elf[j].alloc
  BY <1>1, <1>3 DEF Stored
<1> QED
  BY <1>1, <1>2, <1>4, <1>5 DEF WalkOf

\* The entry of the section to be written next is where the file ends.
LEMMA EntryUpcoming ==
  ASSUME AInv, Plain, Located, pc = "write",
         NEW m \in 1..Len(header.table), header.table[m].index = i
  PROVE  FileEnd = header.table[m].paddr
<1>1. Upcoming(header.table, m, i)
  <2>1. m # 1 => header.table[m-1].index < header.table[m].index
    BY TableWhole, TableTypes DEF AInv
  <2> QED
    BY <2>1, TableTypes DEF AInv, Upcoming
<1>2. m \in 1..(Len(header.table) + 1)
  BY TableTypes DEF AInv
<1> QED
  BY <1>1, <1>2 DEF Located

\* When section i has been dealt with, its entry's bytes are behind the file's end.
LEMMA EntryPassed ==
  ASSUME AInv, Plain, pc = "write",
         NEW m \in 1..Len(header.table), header.table[m].index = i,
         NEW k \in 1..(Len(header.table) + 1), Upcoming(header.table, k, i + 1)
  PROVE  FileOffset(header.table, k) = header.table[m].paddr + header.table[m].psize
<1>1. /\ Len(header.table) \in Nat /\ i \in Nat
      /\ \A j \in 1..Len(header.table) : header.table[j].index \in Nat
      /\ \A j, l \in 1..Len(header.table) :
           j < l => header.table[j].index < header.table[l].index
  BY TableTypes, TableWhole, WalkTypes DEF AInv
<1>2. ~(k < m)
  <2> SUFFICES ASSUME k < m PROVE FALSE
    OBVIOUS
  <2>1. header.table[k].index < header.table[m].index /\ i + 1 <= header.table[k].index
        /\ header.table[k].index \in Nat
    BY <1>1 DEF Upcoming
  <2> QED
    BY <1>1, <2>1
<1>3. k # m
  <2> SUFFICES ASSUME k = m PROVE FALSE
    OBVIOUS
  <2>1. i + 1 <= header.table[m].index
    BY <1>1 DEF Upcoming
  <2> QED
    BY <1>1, <2>1
<1>4. ~(m < k - 1)
  <2> SUFFICES ASSUME m < k - 1 PROVE FALSE
    OBVIOUS
  <2>1. k - 1 \in 1..Len(header.table)
    BY <1>1
  <2>2. header.table[m].index < header.table[k-1].index /\ header.table[k-1].index < i + 1
        /\ header.table[k-1].index \in Nat
    BY <1>1, <2>1 DEF Upcoming
  <2> QED
    BY <1>1, <2>2
<1>5. k - 1 = m /\ k # 1
  BY <1>1, <1>2, <1>3, <1>4
<1> QED
  BY <1>5 DEF FileOffset

\* PECoffExecutable's steps keep the two in step: the bytes of a section with an
\* entry follow those of the entry before.
LEMMA WriteLocated ==
  ASSUME SectionAlign = FileAlign,
         AInv, Plain, Located, WriteSection \/ SkipSection
  PROVE  Located'
<1>1. /\ pc = "write" /\ pc' = pc /\ i' = i + 1 /\ i \in 1..Len(elf)
      /\ UNCHANGED <<elf, header>>
  BY WalkTypes DEF WriteSection, SkipSection, AInv
<1>2. \A k \in 1..(Len(header.table) + 1) :
        Upcoming(header.table, k, i + 1) => FileEnd' = FileOffset(header.table, k)
  <2> SUFFICES ASSUME NEW k \in 1..(Len(header.table) + 1), Upcoming(header.table, k, i + 1)
               PROVE  FileEnd' = FileOffset(header.table, k)
    OBVIOUS
  <2>1. CASE WriteSection
    <3>1. PICK m \in 1..Len(header.table) : header.table[m].index = i
      BY <1>1, <2>1, TableWhole DEF WriteSection
    <3>2. FileEnd = header.table[m].paddr
      BY <1>1, <3>1, EntryUpcoming
    <3>3. FileOffset(header.table, k) = header.table[m].paddr + header.table[m].psize
      BY <1>1, <3>1, EntryPassed
    <3>4. header.table[m].psize = Roundup(elf[i].size, FileAlign)
      BY <2>1, <3>1 DEF Located, PhysicalSize, filealign, WriteSection, Stored
    <3>5. FileEnd' = FileEnd + Roundup(elf[i].size, FileAlign)
      <4> DEFINE e == [index |-> i, pos |-> FileEnd, len |-> elf[i].size,
                       end |-> FileEnd + Roundup(elf[i].size, FileAlign)]
      <4>1. file' = Append(file, e) /\ file \in Seq(Extent)
        BY <2>1 DEF WriteSection, AInv, IInv, TypeOK
      <4>2. file'[Len(file')] = e
        <5> HIDE DEF e
        <5> QED
          BY <4>1, AppendAny
      <4> QED
        BY <4>2 DEF FileEnd
    <3> QED
      BY <3>2, <3>3, <3>4, <3>5
  <2>2. CASE SkipSection
    <3>1. FileEnd' = FileEnd /\ ~Stored(elf[i])
      BY <2>2 DEF SkipSection, FileEnd
    <3>2. CASE \E m \in 1..Len(header.table) : header.table[m].index = i
      <4>1. PICK m \in 1..Len(header.table) : header.table[m].index = i
        BY <3>2
      <4>2. FileEnd = header.table[m].paddr
        BY <1>1, <4>1, EntryUpcoming
      <4>3. FileOffset(header.table, k) = header.table[m].paddr + header.table[m].psize
        BY <1>1, <4>1, EntryPassed
      <4>4. elf[i].nobits
        BY <1>1, <3>1, <4>1, TableWhole DEF Stored
      <4>5. header.table[m].psize = 0
        BY <4>1, <4>4 DEF Located, PhysicalSize
      <4> QED
        BY <3>1, <4>2, <4>3, <4>5, TableTypes DEF AInv
    <3>3. CASE \A m \in 1..Len(header.table) : header.table[m].index # i
      <4>1. Upcoming(header.table, k, i)
        <5>1. k # 1 => k - 1 \in 1..Len(header.table)
          BY TableTypes DEF AInv
        <5>2. /\ k <= Len(header.table) => i + 1 <= header.table[k].index
              /\ k # 1 => header.table[k-1].index < i + 1
          BY DEF Upcoming
        <5>3. \A j \in 1..Len(header.table) : header.table[j].index \in Nat
          BY TableTypes DEF AInv
        <5>4. i \in Nat /\ Len(header.table) \in Nat
          BY <1>1, TableTypes, WalkTypes DEF AInv
        <5>5. k <= Len(header.table) => i <= header.table[k].index
          <6>1. k <= Len(header.table) => k \in 1..Len(header.table)
            BY <5>4
          <6> QED
            BY <5>2, <5>3, <5>4, <6>1
        <5>6. k # 1 => header.table[k-1].index < i
          <6>1. k # 1 => header.table[k-1].index # i
            BY <3>3, <5>1
          <6> QED
            BY <5>1, <5>2, <5>3, <5>4, <6>1
        <5> QED
          BY <5>5, <5>6 DEF Upcoming
      <4> QED
        BY <1>1, <3>1, <4>1 DEF Located
    <3> QED
      BY <3>2, <3>3
  <2> QED
    BY <2>1, <2>2
<1> QED
  BY <1>1, <1>2 DEF Located, PhysicalSize

\* createHeaderSection's entry begins where the one before it ends.
LEMMA EntryLocated ==
  ASSUME AInv, Located, WriteEntry
  PROVE  Located'
<1>1. /\ Len(header'.table) = Len(header.table) + 1 /\ Len(header.table) \in Nat
      /\ i = Len(header.table) + 1 /\ i \in 1..Len(rvas)
      /\ \A k \in 1..Len(header.table) : header'.table[k] = header.table[k]
      /\ header'.table[i] = NextEntry
      /\ pc = "table" /\ UNCHANGED <<pc, elf, symbol, rvas, used>>
  BY EntryAppended DEF AInv
<1>2. paddr' = paddr + PhysicalSize(elf[rvas[i].index])
  BY DEF WriteEntry
<1>3. \A k \in 1..i : FileOffset(header'.table, k) = FileOffset(header.table, k)
  BY <1>1 DEF FileOffset
<1>4. paddr = FileOffset(header.table, i)
  BY <1>1 DEF Located
<1>5. \A k \in 1..Len(header'.table) :
        /\ header'.table[k].psize = PhysicalSize(elf[header'.table[k].index])
        /\ header'.table[k].paddr = FileOffset(header'.table, k)
  <2> SUFFICES ASSUME NEW k \in 1..Len(header'.table)
               PROVE  /\ header'.table[k].psize = PhysicalSize(elf[header'.table[k].index])
                      /\ header'.table[k].paddr = FileOffset(header'.table, k)
    OBVIOUS
  <2>1. CASE k \in 1..Len(header.table)
    BY <1>1, <1>3, <2>1 DEF Located
  <2>2. CASE k = i
    BY <1>1, <1>3, <1>4, <2>2 DEF NextEntry
  <2> QED
    BY <1>1, <2>1, <2>2
<1>6. paddr' = FileOffset(header'.table, Len(header'.table) + 1)
  BY <1>1, <1>2 DEF FileOffset, NextEntry
<1> QED
  BY <1>1, <1>5, <1>6 DEF Located, PhysicalSize

\* The header's bytes are written first, and the first entry begins behind them.
LEMMA AddPeHeaderLocated ==
  ASSUME AInv, Located, AddPeHeader
  PROVE  Located'
<1>1. /\ pc = "table" /\ pc' = "write" /\ i' = 1 /\ UNCHANGED <<rvas, header>>
      /\ elf' = WithSection(".peheader", ComputeSize)
      /\ FileEnd' = ComputeSize
  BY DEF AddPeHeader, FileEnd
<1>2. \A k \in 1..Len(elf) : elf'[k] = elf[k]
  BY <1>1, OwnSections, Added1 DEF AInv
<1>3. \A k \in 1..Len(header.table) :
        header.table[k].index \in 1..Len(elf) /\ header.table[k].index \in Nat
  <2>1. Len(header.table) <= Len(rvas) /\ Len(header.table) \in Nat
    BY DEF AInv, IInv, Counted, TypeOK
  <2>2. \A k \in 1..Len(rvas) : rvas[k].index \in 1..Len(elf)
    BY DEF AInv, IInv, TypeOK
  <2>3. Len(elf) \in Nat /\ Len(rvas) \in Nat
    BY WalkTypes DEF AInv
  <2>4. \A k \in 1..Len(header.table) :
          k \in 1..Len(rvas) /\ header.table[k].index = rvas[k].index
    BY <2>1, <2>3 DEF AInv, Tabled
  <2> QED
    BY <2>2, <2>3, <2>4
<1>4. \A k \in 1..(Len(header.table) + 1) : Upcoming(header.table, k, 1) => k = 1
  <2> SUFFICES ASSUME NEW k \in 1..(Len(header.table) + 1),
                      k # 1, header.table[k-1].index < 1
               PROVE  FALSE
    BY DEF Upcoming
  <2>1. k - 1 \in 1..Len(header.table)
    BY TableTypes DEF AInv
  <2> QED
    BY <1>3, <2>1
<1> QED
  BY <1>1, <1>2, <1>3, <1>4 DEF Located, PhysicalSize, FileOffset

\* Every step keeps the table's offsets and the file's end together.
LEMMA NextLocated ==
  ASSUME SectionAlign = FileAlign, AInv, Plain, Located, [Next]_vars
  PROVE  Located'
<1>1. CASE AllocateComdat \/ BssMissing \/ MapSection \/ PassSection \/ AddRelocSection
  <2>1. header' = NoHeader /\ pc' \in {"layout", "relayout", "exit"}
    BY <1>1 DEF AllocateComdat, BssMissing, MapSection, PassSection, AddRelocSection,
                AInv, IInv, Counted
  <2>2. Len(header'.table) = 0
    BY <2>1 DEF NoHeader
  <2> QED
    BY <2>1, <2>2 DEF Located
<1>2. CASE BeginHeader
  <2>1. Len(header'.table) = 0 /\ paddr' = ComputeSize /\ pc' = "table"
    BY <1>2 DEF BeginHeader
  <2> QED
    BY <2>1 DEF Located, FileOffset
<1>3. CASE CloseFile
  BY <1>3 DEF CloseFile, Located, PhysicalSize
<1>4. CASE UNCHANGED vars
  BY <1>4 DEF vars, Located, PhysicalSize, FileEnd
<1> QED
  BY <1>1, <1>2, <1>3, <1>4, EntryLocated, AddPeHeaderLocated, WriteLocated DEF Next

\* What is written is where the table says, section by section.
LEMMA NextRawOffsets ==
  ASSUME SectionAlign = FileAlign, AInv, Plain, Located, RawOffsetsMatch, [Next]_vars
  PROVE  RawOffsetsMatch'
<1> USE DEF RawOffsetsMatch, Built
<1>1. CASE AllocateComdat \/ BssMissing \/ MapSection \/ PassSection \/ AddRelocSection
  <2>1. pc' \in {"layout", "relayout", "exit"}
    BY <1>1 DEF AllocateComdat, BssMissing, MapSection, PassSection, AddRelocSection
  <2> QED
    BY <2>1
<1>2. CASE BeginHeader \/ WriteEntry
  BY <1>2 DEF BeginHeader, WriteEntry
<1>3. CASE AddPeHeader
  <2>1. Len(file') = 1
    BY <1>3 DEF AddPeHeader
  <2> QED
    BY <2>1
<1>4. CASE WriteSection
  <2> DEFINE e == [index |-> i, pos |-> FileEnd, len |-> elf[i].size,
                   end |-> FileEnd + Roundup(elf[i].size, FileAlign)]
  <2>1. /\ pc = "write" /\ i \in 1..Len(elf) /\ Stored(elf[i])
        /\ file' = Append(file, e) /\ file \in Seq(Extent) /\ header' = header
    BY <1>4, WalkTypes DEF WriteSection, AInv, IInv, TypeOK
  <2>2. /\ Len(file') = Len(file) + 1 /\ Len(file) \in Nat
        /\ file'[Len(file) + 1] = e /\ \A k \in 1..Len(file) : file'[k] = file[k]
    <3> HIDE DEF e
    <3> QED
      BY <2>1, AppendAny
  <2>3. PICK m \in 1..Len(header.table) : header.table[m].index = i
    BY <2>1, TableWhole
  <2>4. header.table[m].paddr = FileEnd
    BY <2>1, <2>3, EntryUpcoming
  <2>5. header.table[m].psize = Roundup(elf[i].size, FileAlign)
    BY <2>1, <2>3 DEF Located, PhysicalSize, filealign, Stored
  <2>6. e.end - e.pos = header.table[m].psize
    <3>1. header.table[m].psize \in Nat /\ header.table[m].paddr \in Nat
      BY TableTypes DEF AInv
    <3> QED
      BY <2>4, <2>5, <3>1
  <2>7. \E l \in 1..Len(header'.table) :
          /\ header'.table[l].index = e.index
          /\ header'.table[l].paddr = e.pos
          /\ header'.table[l].psize = e.end - e.pos
    BY <2>1, <2>3, <2>4, <2>6
  <2> HIDE DEF e
  <2>8. \A f \in {file'[k] : k \in 2..Len(file')} : f = e \/ f \in {file[k] : k \in 2..Len(file)}
    BY <2>2
  <2> QED
    BY <2>1, <2>7, <2>8
<1>5. CASE SkipSection \/ CloseFile
  BY <1>5 DEF SkipSection, CloseFile
<1>6. CASE UNCHANGED vars
  BY <1>6 DEF vars
<1> QED
  BY <1>1, <1>2, <1>3, <1>4, <1>5, <1>6 DEF Next

\* When the two alignments are the same, as they are by default, the bytes of every
\* section are in the file where the table tells the loader to look: the offsets
\* createHeaderSection foretells are those PECoffExecutable reaches by writing
\* (RawOffsetsMatch).  The run layout_swapped shows that it takes the hypothesis.
THEOREM BytesWhereTold ==
  ASSUME SectionAlign = FileAlign, PlainInputs
  PROVE  Spec => []RawOffsetsMatch
<1>1. Init => Plain /\ Located /\ RawOffsetsMatch
  <2> SUFFICES ASSUME Init PROVE Located /\ RawOffsetsMatch
    BY InitPlain
  <2>1. pc = "comdat" /\ Len(header.table) = 0
    BY DEF Init, NoHeader
  <2> QED
    BY <2>1 DEF Located, RawOffsetsMatch, Built
<1>2. IInv /\ Plain /\ [Next]_vars => Plain'
  BY NextPlain
<1>3. AInv => IInv
  BY DEF AInv
<1>4. AInv /\ Plain /\ Located /\ RawOffsetsMatch /\ [Next]_vars => Located' /\ RawOffsetsMatch'
  BY NextLocated, NextRawOffsets
<1> QED
  BY <1>1, <1>2, <1>3, <1>4, InitAInv, NextAInv, PTL DEF Spec

=============================================================================
