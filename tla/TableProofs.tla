----------------------------- MODULE TableProofs -----------------------------
(***************************************************************************)
(* Theorems about the tables that are rewritten where they stand: import   *)
(* address tables, for every well-formed import section (Imports), and the *)
(* half words of code pages (NlsSwap).                                     *)
(***************************************************************************)
EXTENDS Imports, NlsSwap, TLAPS

(* ---- import address tables: the inductive invariant ---- *)

Table(d) == given.tables[d]
Last == Len(given.tables)

\* The address tables of the first m descriptors are copies.
CopiedUpTo(m) ==
  \A c \in 1..m : \A k \in 1..Len(Table(c).hints) : At(Table(c).iat + k - 1) = Table(c).hints[k]

\* iatBegin and iatEnd are the range of the first m address tables.
Spans(m) ==
  IF m = 0 THEN iatBegin = 0 /\ iatEnd = 0
  ELSE /\ \A c \in 1..m : /\ iatBegin <= given.rva + Table(c).iat
                          /\ given.rva + Table(c).iat + Len(Table(c).hints) + 1 <= iatEnd
       /\ \E c \in 1..m : iatBegin = given.rva + Table(c).iat
       /\ \E c \in 1..m : iatEnd = given.rva + Table(c).iat + Len(Table(c).hints) + 1

\* k hints of the e-th descriptor's table have been copied.
CopiesTable(e, k) ==
  /\ hintName = Table(e).lookup /\ hintTablePtr = Table(e).lookup + k
  /\ iatTablePtr = Table(e).iat + k /\ iatRva = given.rva + Table(e).iat
  /\ \A j \in 1..k : At(Table(e).iat + j - 1) = Table(e).hints[j]

\* Nothing but the slots of address tables has changed, and their zeros have not.
Untouched ==
  /\ section \in Seq(Nat) /\ Len(section) = Len(given.words)
  /\ \A w \in 0..(Len(given.words) - 1) :
       (\A c \in 1..Last : w \notin IatSlots(c)) => At(w) = given.words[w + 1]
  /\ \A c \in 1..Last : At(Table(c).iat + Len(Table(c).hints)) = 0

IInv ==
  /\ given \in Sections /\ Untouched
  /\ pc \in {"descriptor", "copying", "done"}
  /\ pc = "descriptor" =>
       \E e \in 0..Last : importTarget = 5 * e /\ CopiedUpTo(e) /\ Spans(e) /\ iat = <<0, 0>>
  /\ pc = "copying" =>
       \E e \in 1..Last : /\ importTarget = 5 * e /\ CopiedUpTo(e - 1) /\ Spans(e - 1)
                          /\ \E k \in 0..Len(Table(e).hints) : CopiesTable(e, k)
                          /\ iat = <<0, 0>>
  /\ pc = "done" => CopiedUpTo(Last) /\ Spans(Last) /\ iat = <<iatBegin, iatEnd - iatBegin>>

(* ---- what is known of a well-formed section ---- *)

LEMMA ElementOf ==
  ASSUME NEW S, NEW s \in Seq(S)
  PROVE  \A k \in 1..Len(s) : s[k] \in S
  OBVIOUS

LEMMA SlotArithmetic ==
  ASSUME NEW a \in Nat, NEW n \in Nat, NEW j \in Nat, j <= n
  PROVE  /\ a + j \in Nat /\ a + j \in a..(a + n)
         /\ \A len \in Nat : a + n < len => a + j \in 0..(len - 1)
  OBVIOUS

LEMMA TwoAdded ==
  \A a, n \in Nat : a + n \in Nat
  OBVIOUS

LEMMA ThreeAdded ==
  \A base, a, n \in Nat : base + (a + n) + 1 = base + a + n + 1
  OBVIOUS

LEMMA AddressArithmetic ==
  ASSUME NEW base \in Nat, NEW a \in Nat, NEW n \in Nat
  PROVE  \A from \in Nat : ((from + n) + 1) - from + (base + a) = base + a + n + 1
  OBVIOUS

LEMMA SlotsOf ==
  \A c : IatSlots(c) = Table(c).iat..(Table(c).iat + Len(Table(c).hints))
  BY DEF IatSlots, Slots, Table

LEMMA GivenTables ==
  ASSUME given \in Sections
  PROVE  /\ given.rva \in Nat /\ given.words \in Seq(Nat) /\ Len(given.words) \in Nat /\ Last \in Nat
         /\ \A d \in 1..Last :
              /\ Table(d).lookup \in Nat /\ Table(d).iat \in Nat
              /\ Table(d).hints \in Seq(Nat \ {0}) /\ Len(Table(d).hints) \in Nat
<1>1. /\ given.rva \in Nat /\ given.words \in Seq(Nat)
      /\ given.tables \in Seq([lookup : Nat, iat : Nat, hints : Seq(Nat \ {0})])
  BY SectionAssumption
<1>2. \A d \in 1..Last : Table(d) \in [lookup : Nat, iat : Nat, hints : Seq(Nat \ {0})]
  BY <1>1, ElementOf DEF Last, Table
<1>3. \A d \in 1..Last : /\ Table(d).lookup \in Nat /\ Table(d).iat \in Nat
                         /\ Table(d).hints \in Seq(Nat \ {0})
  BY <1>2
<1>4. \A d \in 1..Last : Len(Table(d).hints) \in Nat
  BY <1>3
<1> QED
  BY <1>1, <1>3, <1>4 DEF Last

LEMMA GivenPlaces ==
  ASSUME given \in Sections
  PROVE  /\ \A d \in 1..Last :
              /\ given.words[5 * d - 4] = given.rva + Table(d).lookup
              /\ given.words[5 * d] = given.rva + Table(d).iat
              /\ 5 * (Last + 1) <= Table(d).lookup
              /\ Table(d).lookup + Len(Table(d).hints) < Len(given.words)
              /\ 5 * (Last + 1) <= Table(d).iat
              /\ Table(d).iat + Len(Table(d).hints) < Len(given.words)
              /\ \A k \in 1..Len(Table(d).hints) :
                   given.words[Table(d).lookup + k] = Table(d).hints[k]
              /\ given.words[Table(d).lookup + Len(Table(d).hints) + 1] = 0
              /\ given.words[Table(d).iat + Len(Table(d).hints) + 1] = 0
         /\ given.words # <<>> => /\ 5 * (Last + 1) <= Len(given.words)
                                  /\ given.words[5 * Last + 1] = 0
         /\ given.words = <<>> => Last = 0
  BY SectionAssumption DEF WellFormed, Last, Table

LEMMA GivenApart ==
  ASSUME given \in Sections, NEW c \in 1..Last, NEW d \in 1..Last
  PROVE  /\ IatSlots(c) \cap Slots(Table(d).lookup, Table(d).hints) = {}
         /\ c # d => IatSlots(c) \cap IatSlots(d) = {}
  BY SectionAssumption DEF WellFormed, Last, Table, IatSlots

\* Descriptors are read as they were found.
LEMMA DescriptorRead ==
  ASSUME given \in Sections, Untouched, section # <<>>, NEW e \in 0..Last
  PROVE  /\ At(5 * e) = given.words[5 * e + 1]
         /\ At(5 * e + 4) = given.words[5 * e + 5]
<1>1. /\ Last \in Nat /\ Len(given.words) \in Nat /\ given.words \in Seq(Nat)
      /\ \A c \in 1..Last : /\ Table(c).iat \in Nat /\ 5 * (Last + 1) <= Table(c).iat
                            /\ Len(Table(c).hints) \in Nat
  BY GivenTables, GivenPlaces
<1>2. 5 * (Last + 1) <= Len(given.words)
  <2>1. given.words # <<>>
    <3>1. Len(section) = Len(given.words) /\ section \in Seq(Nat)
      BY DEF Untouched
    <3> QED
      BY <3>1
  <2> QED
    BY <2>1, GivenPlaces
<1>3. ASSUME NEW w \in {5 * e, 5 * e + 4}
      PROVE  w \in 0..(Len(given.words) - 1) /\ \A c \in 1..Last : w \notin IatSlots(c)
  <2>1. w \in Nat /\ w < 5 * (Last + 1)
    BY <1>1
  <2>2. \A c \in 1..Last : w < Table(c).iat
    BY <1>1, <2>1
  <2> QED
    BY <1>1, <1>2, <2>1, <2>2 DEF IatSlots, Slots, Table
<1>4. \A w \in {5 * e, 5 * e + 4} : At(w) = given.words[w + 1]
  BY <1>3 DEF Untouched
<1>5. (5 * e + 4) + 1 = 5 * e + 5
  BY <1>1
<1> QED
  BY <1>4, <1>5

\* So are lookup tables.
LEMMA LookupRead ==
  ASSUME given \in Sections, Untouched, NEW e \in 1..Last, NEW k \in 0..Len(Table(e).hints)
  PROVE  At(Table(e).lookup + k) = IF k < Len(Table(e).hints) THEN Table(e).hints[k + 1] ELSE 0
<1> DEFINE w == Table(e).lookup + k
<1>1. /\ Table(e).lookup \in Nat /\ Len(Table(e).hints) \in Nat /\ Len(given.words) \in Nat
      /\ Table(e).lookup + Len(Table(e).hints) < Len(given.words)
  BY GivenTables, GivenPlaces
<1>2. w \in 0..(Len(given.words) - 1) /\ w \in Slots(Table(e).lookup, Table(e).hints)
  BY <1>1 DEF Slots
<1>3. \A c \in 1..Last : w \notin IatSlots(c)
  BY <1>2, GivenApart
<1>4. At(w) = given.words[w + 1]
  BY <1>2, <1>3 DEF Untouched
<1>5. w + 1 = Table(e).lookup + (k + 1)
  BY <1>1
<1>6. CASE k < Len(Table(e).hints)
  <2>1. k + 1 \in 1..Len(Table(e).hints)
    BY <1>1, <1>6
  <2>2. given.words[Table(e).lookup + (k + 1)] = Table(e).hints[k + 1]
    BY <2>1, GivenPlaces
  <2> QED
    BY <1>4, <1>5, <1>6, <2>2
<1>7. CASE ~(k < Len(Table(e).hints))
  <2>1. w + 1 = Table(e).lookup + Len(Table(e).hints) + 1
    BY <1>1, <1>7
  <2>2. given.words[Table(e).lookup + Len(Table(e).hints) + 1] = 0
    BY GivenPlaces
  <2> QED
    BY <1>4, <1>7, <2>1, <2>2
<1> QED
  BY <1>6, <1>7

(* ---- every step of the walk ---- *)

LEMMA InitIInv ==
  ASSUME Init
  PROVE  IInv
<1>1. /\ given \in Sections /\ section = given.words /\ pc = "descriptor" /\ importTarget = 0
      /\ iatBegin = 0 /\ iatEnd = 0 /\ iat = <<0, 0>>
  BY DEF Init
<1>2. Last \in Nat /\ 0 \in 0..Last /\ importTarget = 5 * 0
  BY <1>1, GivenTables
<1>3. CopiedUpTo(0) /\ Spans(0)
  BY <1>1 DEF CopiedUpTo, Spans
<1>4. Untouched
  BY <1>1, GivenTables, GivenPlaces DEF Untouched, At
<1> QED
  BY <1>1, <1>2, <1>3, <1>4 DEF IInv

\* What does not depend on the pointers stays when they move.
LEMMA SectionKept ==
  ASSUME IInv, UNCHANGED <<given, section>>
  PROVE  Untouched' /\ given' \in Sections
  BY DEF IInv, Untouched, At, Table, Last, IatSlots

LEMMA ReadDescriptorIInv ==
  ASSUME IInv, ReadDescriptor
  PROVE  IInv'
<1>1. /\ given \in Sections /\ Untouched /\ pc = "descriptor" /\ section # <<>>
      /\ At(importTarget) # 0 /\ pc' = "copying"
      /\ hintTablePtr' = At(importTarget) - given.rva /\ hintName' = hintTablePtr'
      /\ iatRva' = At(importTarget + 4) /\ iatTablePtr' = iatRva' - given.rva
      /\ importTarget' = importTarget + 5
      /\ UNCHANGED <<given, section, iatBegin, iatEnd, iat>>
  BY DEF IInv, ReadDescriptor, NextDescriptor
<1>2. PICK e \in 0..Last : importTarget = 5 * e /\ CopiedUpTo(e) /\ Spans(e) /\ iat = <<0, 0>>
  BY <1>1 DEF IInv
<1>3. At(5 * e) = given.words[5 * e + 1] /\ At(5 * e + 4) = given.words[5 * e + 5]
  BY <1>1, DescriptorRead
<1>4. Last \in Nat /\ given.words # <<>>
  <2>1. Len(section) = Len(given.words) /\ section \in Seq(Nat)
    BY <1>1 DEF Untouched
  <2>2. section # <<>>
    BY <1>1
  <2> QED
    BY <1>1, <2>1, <2>2, GivenTables
<1>5. e # Last
  BY <1>1, <1>2, <1>3, <1>4, GivenPlaces
<1>6. e + 1 \in 1..Last /\ (e + 1) - 1 = e /\ 5 * e + 5 = 5 * (e + 1) /\ 5 * e + 1 = 5 * (e + 1) - 4
  BY <1>4, <1>5
<1>7. At(importTarget) = given.rva + Table(e + 1).lookup /\ At(importTarget + 4) = given.rva + Table(e + 1).iat
  BY <1>1, <1>2, <1>3, <1>6, GivenPlaces
<1>8. /\ Table(e + 1).lookup \in Nat /\ Table(e + 1).iat \in Nat /\ given.rva \in Nat
      /\ Len(Table(e + 1).hints) \in Nat
  BY <1>1, <1>6, GivenTables
<1>9. /\ hintTablePtr' = Table(e + 1).lookup + 0 /\ hintName' = Table(e + 1).lookup
      /\ iatTablePtr' = Table(e + 1).iat + 0 /\ iatRva' = given.rva + Table(e + 1).iat
  BY <1>1, <1>7, <1>8
<1>10. CopiesTable(e + 1, 0)' /\ 0 \in 0..Len(Table(e + 1).hints)
  BY <1>1, <1>8, <1>9 DEF CopiesTable, Table
<1>11. (CopiedUpTo(e) /\ Spans(e))' /\ importTarget' = 5 * (e + 1)
  BY <1>1, <1>2, <1>6 DEF CopiedUpTo, Spans, Table, At
<1>12. Last' = Last /\ Table(e + 1)' = Table(e + 1)
  BY <1>1 DEF Last, Table
<1> QED
  BY <1>1, <1>2, <1>6, <1>10, <1>11, <1>12, SectionKept DEF IInv

\* One word of the e-th address table is overwritten.
LEMMA CopyHintIInv ==
  ASSUME IInv, CopyHint
  PROVE  IInv'
<1>1. /\ given \in Sections /\ Untouched /\ pc = "copying"
      /\ At(hintTablePtr) # 0
      /\ section' = [section EXCEPT ![iatTablePtr + 1] = At(hintTablePtr)]
      /\ hintTablePtr' = hintTablePtr + 1 /\ iatTablePtr' = iatTablePtr + 1
      /\ UNCHANGED <<pc, given, importTarget, hintName, iatRva, iatBegin, iatEnd, iat>>
  BY DEF IInv, CopyHint
<1>2. PICK e \in 1..Last :
        /\ importTarget = 5 * e /\ CopiedUpTo(e - 1) /\ Spans(e - 1) /\ iat = <<0, 0>>
        /\ \E k \in 0..Len(Table(e).hints) : CopiesTable(e, k)
  BY <1>1 DEF IInv
<1>3. PICK k \in 0..Len(Table(e).hints) : CopiesTable(e, k)
  BY <1>2
<1> DEFINE t == Table(e)
           n == Len(t.hints)
           slot == t.iat + k
<1>4. /\ t.lookup \in Nat /\ t.iat \in Nat /\ n \in Nat /\ t.hints \in Seq(Nat \ {0}) /\ Last \in Nat
      /\ Len(given.words) \in Nat
      /\ t.iat + n < Len(given.words) /\ k \in 0..n /\ k \in Nat /\ k <= n
      /\ hintName = t.lookup /\ hintTablePtr = t.lookup + k
      /\ iatTablePtr = slot /\ slot = t.iat + k /\ iatRva = given.rva + t.iat
  <2>1. /\ t.lookup \in Nat /\ t.iat \in Nat /\ n \in Nat /\ t.hints \in Seq(Nat \ {0}) /\ Last \in Nat
        /\ Len(given.words) \in Nat /\ t.iat + n < Len(given.words)
    BY <1>1, GivenTables, GivenPlaces
  <2>2. k \in 0..n /\ k \in Nat /\ k <= n
    BY <2>1
  <2>3. /\ hintName = t.lookup /\ hintTablePtr = t.lookup + k
        /\ iatTablePtr = slot /\ slot = t.iat + k /\ iatRva = given.rva + t.iat
    BY <1>3 DEF CopiesTable
  <2> QED
    BY <2>1, <2>2, <2>3
<1>5. At(hintTablePtr) = IF k < n THEN t.hints[k + 1] ELSE 0
  BY <1>1, <1>4, LookupRead
<1> HIDE DEF n, t, slot
<1>6. k < n /\ k \in Nat /\ k + 1 \in 1..n /\ k + 1 \in 0..n /\ At(hintTablePtr) = t.hints[k + 1]
  <2>1. At(hintTablePtr) # 0
    BY <1>1
  <2>2. k < n
    BY <1>5, <2>1
  <2>3. k + 1 \in 1..n /\ k + 1 \in 0..n
    BY <1>4, <2>2
  <2> QED
    BY <1>4, <1>5, <2>2, <2>3
<1>7. t.hints[k + 1] \in Nat
  BY <1>4, <1>6 DEF n
<1>8. /\ section \in Seq(Nat) /\ Len(section) = Len(given.words) /\ Len(section) \in Nat
      /\ slot \in Nat /\ slot + 1 \in 1..Len(section) /\ \A j \in 0..n : t.iat + j \in 0..(Len(section) - 1)
  <2>1. section \in Seq(Nat) /\ Len(section) = Len(given.words)
    BY <1>1 DEF Untouched
  <2>2. t.iat \in Nat /\ t.iat + n < Len(section) /\ n \in Nat /\ slot = t.iat + k
    BY <1>4, <2>1
  <2>3. slot \in Nat /\ slot + 1 \in 1..Len(section) /\ Len(section) \in Nat
    <3>1. Len(section) \in Nat /\ k \in Nat /\ k < n
      BY <1>4, <1>6, <2>1
    <3> QED
      BY <2>2, <3>1
  <2>4. ASSUME NEW j \in 0..n PROVE t.iat + j \in 0..(Len(section) - 1)
    <3>1. j \in Nat /\ j <= n /\ n \in Nat /\ t.iat \in Nat
      BY <2>2
    <3>2. Len(section) \in Nat /\ t.iat + n < Len(section)
      BY <2>2, <2>3
    <3> QED
      BY <3>1, <3>2, SlotArithmetic
  <2> QED
    BY <2>1, <2>3, <2>4
<1>9. /\ section' \in Seq(Nat) /\ Len(section') = Len(section)
      /\ section'[slot + 1] = t.hints[k + 1]
      /\ \A w \in 0..(Len(section) - 1) : w # slot => section'[w + 1] = section[w + 1]
  <2>1. section' = [section EXCEPT ![slot + 1] = t.hints[k + 1]]
    BY <1>1, <1>4, <1>6
  <2>2. section' \in Seq(Nat) /\ Len(section') = Len(section) /\ section'[slot + 1] = t.hints[k + 1]
    BY <1>7, <1>8, <2>1
  <2>3. ASSUME NEW w \in 0..(Len(section) - 1), w # slot
        PROVE  section'[w + 1] = section[w + 1]
    <3>1. w + 1 \in 1..Len(section) /\ w + 1 # slot + 1
      BY <1>8, <2>3
    <3> QED
      BY <1>8, <2>1, <3>1
  <2> QED
    BY <2>2, <2>3
<1>10. slot \in IatSlots(e)
  <2>1. IatSlots(e) = t.iat..(t.iat + n)
    BY SlotsOf DEF n, t
  <2>2. t.iat \in Nat /\ n \in Nat /\ k \in Nat /\ k <= n /\ slot = t.iat + k
    BY <1>4
  <2>3. slot \in t.iat..(t.iat + n)
    BY <2>2, SlotArithmetic
  <2> QED
    BY <2>1, <2>3
<1>11. ASSUME NEW c \in 1..Last, NEW j \in 0..Len(Table(c).hints), c # e
       PROVE  /\ Table(c).iat + j # slot
              /\ section'[(Table(c).iat + j) + 1] = section[(Table(c).iat + j) + 1]
  <2>1. Table(c).iat \in Nat /\ Len(Table(c).hints) \in Nat
        /\ Table(c).iat + Len(Table(c).hints) < Len(given.words)
    BY <1>1, GivenTables, GivenPlaces
  <2>2. Table(c).iat + j \in IatSlots(c) /\ Table(c).iat + j \in 0..(Len(section) - 1)
    <3>1. j \in Nat /\ j <= Len(Table(c).hints)
      BY <2>1
    <3>2. Table(c).iat + j \in Table(c).iat..(Table(c).iat + Len(Table(c).hints))
      BY <2>1, <3>1
    <3>3. Len(section) \in Nat /\ Table(c).iat + Len(Table(c).hints) < Len(section)
      BY <1>8, <2>1
    <3>4. Table(c).iat + j \in 0..(Len(section) - 1)
      BY <2>1, <3>1, <3>3
    <3> QED
      BY <3>2, <3>4, SlotsOf
  <2>3. IatSlots(c) \cap IatSlots(e) = {}
    BY <1>1, <1>11, GivenApart
  <2> QED
    BY <1>9, <1>10, <2>2, <2>3
<1>12. ASSUME NEW j \in 0..n, j # k
       PROVE  section'[(t.iat + j) + 1] = section[(t.iat + j) + 1]
  <2>1. t.iat + j # slot /\ t.iat + j \in 0..(Len(section) - 1)
    <3>1. j \in Nat /\ t.iat \in Nat /\ k \in Nat
      BY <1>4, <1>6
    <3>2. slot = t.iat + k
      BY <1>4
    <3>3. t.iat + j # slot
      BY <1>12, <3>1, <3>2
    <3> QED
      BY <1>8, <3>3
  <2> QED
    BY <1>9, <2>1
<1>13. Last' = Last /\ \A c : Table(c)' = Table(c)
  BY <1>1 DEF Last, Table
<1>14. Untouched'
  <2>1. ASSUME NEW w \in 0..(Len(given.words) - 1), \A c \in 1..Last : w \notin IatSlots(c)
        PROVE  section'[w + 1] = given.words[w + 1]
    <3>1. w # slot /\ At(w) = given.words[w + 1]
      BY <1>1, <1>10, <2>1 DEF Untouched
    <3> QED
      BY <1>8, <1>9, <3>1 DEF At
  <2>2. ASSUME NEW c \in 1..Last
        PROVE  section'[(Table(c).iat + Len(Table(c).hints)) + 1] = 0
    <3>1. At(Table(c).iat + Len(Table(c).hints)) = 0
      BY <1>1 DEF Untouched
    <3>2. Len(Table(c).hints) \in 0..Len(Table(c).hints)
      BY <1>1, GivenTables
    <3>3. CASE c = e
      <4>1. Table(c).iat = t.iat /\ Len(Table(c).hints) = n
        BY <3>3 DEF n, t
      <4>2. n \in 0..n /\ n # k
        BY <1>4, <1>6
      <4>3. section[(t.iat + n) + 1] = 0
        BY <3>1, <4>1 DEF At
      <4> QED
        BY <1>12, <4>1, <4>2, <4>3
    <3>4. CASE c # e
      BY <1>11, <3>1, <3>2, <3>4 DEF At
    <3> QED
      BY <3>3, <3>4
  <2>3. \A c : IatSlots(c)' = IatSlots(c)
    BY <1>1 DEF IatSlots
  <2> QED
    BY <1>1, <1>8, <1>9, <1>13, <2>1, <2>2, <2>3 DEF Untouched, At
<1>15. CopiedUpTo(e - 1)'
  <2>1. ASSUME NEW c \in 1..(e - 1), NEW j \in 1..Len(Table(c).hints)
        PROVE  section'[(Table(c).iat + j - 1) + 1] = Table(c).hints[j]
    <3>1. c \in 1..Last /\ c # e
      BY <1>4
    <3>2. j - 1 \in 0..Len(Table(c).hints) /\ Table(c).iat \in Nat /\ j \in Nat
      BY <1>1, <3>1, GivenTables
    <3>3. At(Table(c).iat + j - 1) = Table(c).hints[j]
      BY <1>2 DEF CopiedUpTo
    <3>4. Table(c).iat + (j - 1) = Table(c).iat + j - 1
      BY <3>2
    <3> QED
      BY <1>11, <3>1, <3>2, <3>3, <3>4 DEF At
  <2> QED
    BY <1>13, <2>1 DEF CopiedUpTo, At
<1>16. CopiesTable(e, k + 1)'
  <2>1. ASSUME NEW j \in 1..(k + 1)
        PROVE  section'[(t.iat + j - 1) + 1] = t.hints[j]
    <3>1. CASE j = k + 1
      <4>1. t.iat + j - 1 = slot
        BY <1>4, <1>6, <3>1
      <4> QED
        BY <1>9, <3>1, <4>1
    <3>2. CASE j # k + 1
      <4>1. j \in 1..k /\ j - 1 \in 0..n /\ j - 1 # k /\ t.iat + (j - 1) = t.iat + j - 1
        BY <1>4, <1>6, <3>2
      <4>2. At(t.iat + j - 1) = t.hints[j]
        BY <1>3, <4>1 DEF CopiesTable, t
      <4> QED
        BY <1>12, <4>1, <4>2 DEF At
    <3> QED
      BY <3>1, <3>2
  <2>2. /\ hintName' = t.lookup /\ hintTablePtr' = t.lookup + (k + 1)
        /\ iatTablePtr' = t.iat + (k + 1) /\ iatRva' = given.rva + t.iat
    <3>1. (t.lookup + k) + 1 = t.lookup + (k + 1) /\ (t.iat + k) + 1 = t.iat + (k + 1)
      <4>1. t.lookup \in Nat /\ t.iat \in Nat /\ k \in Nat
        BY <1>4
      <4> QED
        BY <4>1
    <3> QED
      BY <1>1, <1>4, <3>1
  <2> QED
    BY <1>1, <1>13, <2>1, <2>2 DEF CopiesTable, At, t
<1>17. Spans(e - 1)'
  BY <1>1, <1>2 DEF Spans, Table
<1> QED
  BY <1>1, <1>2, <1>6, <1>13, <1>14, <1>15, <1>16, <1>17 DEF IInv, n, t

LEMMA EndTableIInv ==
  ASSUME IInv, EndTable
  PROVE  IInv'
<1> DEFINE top == hintTablePtr' - hintName + iatRva
<1>1. /\ given \in Sections /\ Untouched /\ pc = "copying" /\ pc' = "descriptor"
      /\ At(hintTablePtr) = 0 /\ hintTablePtr' = hintTablePtr + 1
      /\ iatBegin' = (IF iatBegin = 0 \/ iatRva < iatBegin THEN iatRva ELSE iatBegin)
      /\ iatEnd' = (IF iatEnd = 0 \/ top > iatEnd THEN top ELSE iatEnd)
      /\ UNCHANGED <<given, section, importTarget, hintName, iatTablePtr, iatRva, iat>>
  BY DEF IInv, EndTable, IatMax
<1>2. PICK e \in 1..Last :
        /\ importTarget = 5 * e /\ CopiedUpTo(e - 1) /\ Spans(e - 1) /\ iat = <<0, 0>>
        /\ \E k \in 0..Len(Table(e).hints) : CopiesTable(e, k)
  BY <1>1 DEF IInv
<1>3. PICK k \in 0..Len(Table(e).hints) : CopiesTable(e, k)
  BY <1>2
<1> DEFINE t == Table(e)
           n == Len(t.hints)
<1>4. /\ t.lookup \in Nat /\ t.iat \in Nat /\ n \in Nat /\ t.hints \in Seq(Nat \ {0}) /\ Last \in Nat
      /\ given.rva \in Nat /\ 5 * (Last + 1) <= t.iat
  BY <1>1, GivenTables, GivenPlaces
<1>5. /\ hintName = t.lookup /\ hintTablePtr = t.lookup + k /\ iatRva = given.rva + t.iat
      /\ \A j \in 1..k : At(t.iat + j - 1) = t.hints[j]
  BY <1>3 DEF CopiesTable
<1>6. 0 = IF k < n THEN t.hints[k + 1] ELSE 0
  BY <1>1, <1>3, <1>5, LookupRead
<1> HIDE DEF n, t
<1>7. k = n
  <2>1. CASE k < n
    <3>1. k + 1 \in 1..n
      BY <1>4, <2>1 DEF n, t
    <3>2. t.hints[k + 1] \in Nat \ {0}
      BY <1>4, <3>1 DEF n
    <3> QED
      BY <1>6, <2>1, <3>2
  <2> QED
    BY <1>4, <2>1 DEF n, t
<1>8. CopiedUpTo(e)
  <2>1. \A c \in 1..e : c \in 1..(e - 1) \/ c = e
    BY <1>4
  <2> QED
    BY <1>2, <1>5, <1>7, <2>1 DEF CopiedUpTo, n, t
<1>9. top = given.rva + t.iat + n + 1 /\ iatRva = given.rva + t.iat
  <2>1. hintTablePtr' = (t.lookup + n) + 1 /\ hintName = t.lookup
    BY <1>1, <1>5, <1>7
  <2>2. t.lookup \in Nat /\ n \in Nat /\ t.iat \in Nat /\ given.rva \in Nat
    BY <1>4
  <2>3. top = ((t.lookup + n) + 1) - t.lookup + (given.rva + t.iat)
    BY <1>5, <2>1
  <2> HIDE DEF top
  <2> QED
    BY <1>5, <2>2, <2>3, AddressArithmetic
<1> DEFINE first(c) == given.rva + Table(c).iat
           behind(c) == given.rva + Table(c).iat + Len(Table(c).hints) + 1
<1>10. \A c \in 1..Last : first(c) \in Nat /\ behind(c) \in Nat /\ first(c) # 0 /\ behind(c) # 0
  <2> SUFFICES ASSUME NEW c \in 1..Last
               PROVE  first(c) \in Nat /\ behind(c) \in Nat /\ first(c) # 0 /\ behind(c) # 0
    OBVIOUS
  <2>1. /\ Table(c).iat \in Nat /\ Len(Table(c).hints) \in Nat /\ 5 * (Last + 1) <= Table(c).iat
        /\ given.rva \in Nat /\ Last \in Nat
    BY <1>1, GivenTables, GivenPlaces
  <2>2. Table(c).iat # 0
    BY <2>1
  <2> DEFINE base == given.rva
             a == Table(c).iat
             l == Len(Table(c).hints)
  <2>3. base \in Nat /\ a \in Nat /\ l \in Nat /\ a # 0
    BY <2>1, <2>2
  <2> HIDE DEF base, a, l
  <2>4. base + a \in Nat /\ base + a + l + 1 \in Nat /\ base + a # 0 /\ base + a + l + 1 # 0
    BY <2>3
  <2> QED
    BY <2>4 DEF base, a, l
<1>11. e \in 1..Last /\ first(e) = iatRva /\ behind(e) = top
  BY <1>9 DEF n, t
<1>12. /\ \A c \in 1..e : c \in 1..Last /\ (c \in 1..(e - 1) \/ c = e)
       /\ \A c \in 1..(e - 1) : c \in 1..e
       /\ e \in 1..e /\ e # 0
  BY <1>4
<1> HIDE DEF top, first, behind
<1>13. (\A c \in 1..e : iatBegin' <= first(c) /\ behind(c) <= iatEnd')
       /\ (\E c \in 1..e : iatBegin' = first(c)) /\ (\E c \in 1..e : iatEnd' = behind(c))
  <2>1. CASE e - 1 = 0
    <3>1. iatBegin = 0 /\ iatEnd = 0 /\ \A c \in 1..e : c = e
      BY <1>2, <1>4, <2>1 DEF Spans
    <3>2. iatBegin' = first(e) /\ iatEnd' = behind(e)
      BY <1>1, <1>11, <3>1
    <3>3. iatBegin' <= first(e) /\ behind(e) <= iatEnd'
      BY <1>10, <1>11, <3>2
    <3> QED
      BY <1>12, <3>1, <3>2, <3>3
  <2>2. CASE e - 1 # 0
    <3>1. /\ \A c \in 1..(e - 1) : iatBegin <= first(c) /\ behind(c) <= iatEnd
          /\ \E c \in 1..(e - 1) : iatBegin = first(c)
          /\ \E c \in 1..(e - 1) : iatEnd = behind(c)
      BY <1>2, <2>2 DEF Spans, first, behind
    <3>2. iatBegin \in Nat /\ iatEnd \in Nat /\ iatBegin # 0 /\ iatEnd # 0
      BY <1>10, <1>12, <3>1
    <3>3. /\ iatBegin' = IF first(e) < iatBegin THEN first(e) ELSE iatBegin
          /\ iatEnd' = IF behind(e) > iatEnd THEN behind(e) ELSE iatEnd
      BY <1>1, <1>11, <3>2
    <3>4. first(e) \in Nat /\ behind(e) \in Nat
      BY <1>10, <1>11
    <3>5. iatBegin' <= iatBegin /\ iatBegin' <= first(e) /\ iatEnd <= iatEnd' /\ behind(e) <= iatEnd'
          /\ iatBegin' \in Nat /\ iatEnd' \in Nat
      BY <3>2, <3>3, <3>4
    <3>6. \A c \in 1..e : iatBegin' <= first(c) /\ behind(c) <= iatEnd'
      <4> SUFFICES ASSUME NEW c \in 1..e PROVE iatBegin' <= first(c) /\ behind(c) <= iatEnd'
        OBVIOUS
      <4>1. CASE c = e
        BY <3>5, <4>1
      <4>2. CASE c \in 1..(e - 1)
        <5>1. iatBegin <= first(c) /\ behind(c) <= iatEnd /\ first(c) \in Nat /\ behind(c) \in Nat
          BY <1>10, <1>12, <3>1, <4>2
        <5> QED
          BY <3>2, <3>5, <5>1
      <4> QED
        BY <1>12, <4>1, <4>2
    <3>7. \E c \in 1..e : iatBegin' = first(c)
      BY <1>12, <3>1, <3>3
    <3>8. \E c \in 1..e : iatEnd' = behind(c)
      BY <1>12, <3>1, <3>3
    <3> QED
      BY <3>6, <3>7, <3>8
  <2> QED
    BY <2>1, <2>2
<1>14. Spans(e)'
  BY <1>1, <1>12, <1>13 DEF Spans, Table, first, behind
<1>15. CopiedUpTo(e)' /\ Last' = Last
  BY <1>1, <1>8 DEF CopiedUpTo, Table, At, Last
<1>16. e \in 0..Last
  BY <1>4
<1> QED
  BY <1>1, <1>2, <1>14, <1>15, <1>16, SectionKept DEF IInv

LEMMA FinishIInv ==
  ASSUME IInv, Finish
  PROVE  IInv'
<1>1. /\ given \in Sections /\ Untouched /\ pc = "descriptor" /\ section # <<>>
      /\ At(importTarget) = 0 /\ pc' = "done" /\ iat' = <<iatBegin, iatEnd - iatBegin>>
      /\ UNCHANGED <<given, section, iatBegin, iatEnd>>
  BY DEF IInv, Finish
<1>2. PICK e \in 0..Last : importTarget = 5 * e /\ CopiedUpTo(e) /\ Spans(e)
  BY <1>1 DEF IInv
<1>3. At(5 * e) = given.words[5 * e + 1] /\ Last \in Nat /\ given.rva \in Nat
  BY <1>1, DescriptorRead, GivenTables
<1>4. e = Last
  <2>1. CASE e < Last
    <3>1. e + 1 \in 1..Last /\ 5 * e + 1 = 5 * (e + 1) - 4
      BY <1>3, <2>1
    <3>2. /\ given.words[5 * e + 1] = given.rva + Table(e + 1).lookup
          /\ 5 * (Last + 1) <= Table(e + 1).lookup /\ Table(e + 1).lookup \in Nat
      BY <1>1, <3>1, GivenPlaces, GivenTables
    <3> QED
      BY <1>1, <1>2, <1>3, <3>2
  <2> QED
    BY <1>3, <2>1
<1>5. (CopiedUpTo(Last) /\ Spans(Last))'
  BY <1>1, <1>2, <1>4 DEF CopiedUpTo, Spans, Table, At, Last
<1> QED
  BY <1>1, <1>5, SectionKept DEF IInv

LEMMA NoImportsIInv ==
  ASSUME IInv, NoImports
  PROVE  IInv'
<1>1. /\ given \in Sections /\ Untouched /\ pc = "descriptor" /\ section = <<>> /\ pc' = "done"
      /\ UNCHANGED <<given, section, iatBegin, iatEnd, iat>>
  BY DEF IInv, NoImports
<1>2. PICK e \in 0..Last : CopiedUpTo(e) /\ Spans(e) /\ iat = <<0, 0>>
  BY <1>1 DEF IInv
<1>3. Last = 0
  <2>1. Len(given.words) = 0 /\ given.words \in Seq(Nat)
    BY <1>1, GivenTables DEF Untouched
  <2> QED
    BY <1>1, <2>1, GivenPlaces
<1>4. e = 0 /\ iatBegin = 0 /\ iatEnd = 0
  BY <1>2, <1>3 DEF Spans
<1>5. (CopiedUpTo(Last) /\ Spans(Last))'
  BY <1>1, <1>2, <1>3, <1>4 DEF CopiedUpTo, Spans, Table, At, Last
<1>6. iat' = <<iatBegin', iatEnd' - iatBegin'>>
  BY <1>1, <1>2, <1>4
<1> QED
  BY <1>1, <1>5, <1>6, SectionKept DEF IInv

LEMMA NextIInv ==
  ASSUME IInv, [Next]_vars
  PROVE  IInv'
<1>1. CASE UNCHANGED vars
  BY <1>1 DEF vars, IInv, Untouched, CopiedUpTo, Spans, CopiesTable, At, Table, Last, IatSlots
<1> QED
  BY <1>1, ReadDescriptorIInv, CopyHintIInv, EndTableIInv, FinishIInv, NoImportsIInv DEF Next

(* ---- what the invariant says of the end ---- *)

LEMMA AppendedAt ==
  ASSUME NEW S, NEW s \in Seq(S), NEW x, NEW i \in Nat, 1 <= i, i <= Len(s) + 1
  PROVE  Append(s, x)[i] = IF i <= Len(s) THEN s[i] ELSE x
  OBVIOUS

LEMMA SlotsCopied ==
  ASSUME IInv, pc = "done", NEW d \in Tables, NEW w \in IatSlots(d)
  PROVE  At(w) = Append(given.tables[d].hints, 0)[w - given.tables[d].iat + 1]
<1> DEFINE t == Table(d)
           n == Len(t.hints)
           k == w - t.iat
<1>1. d \in 1..Last /\ given \in Sections /\ CopiedUpTo(Last) /\ Untouched
  BY DEF IInv, Tables, Last
<1>2. t.iat \in Nat /\ n \in Nat /\ t.hints \in Seq(Nat \ {0})
  BY <1>1, GivenTables
<1>3. w \in t.iat..(t.iat + n)
  BY SlotsOf
<1>4. k \in Nat /\ k <= n /\ w = t.iat + k /\ w = t.iat + (k + 1) - 1
  BY <1>2, <1>3
<1>5. Append(t.hints, 0)[k + 1] = IF k < n THEN t.hints[k + 1] ELSE 0
  <2>1. n \in Nat /\ k \in Nat /\ k <= n
    BY <1>2, <1>4
  <2> HIDE DEF k, n, t
  <2>2. k + 1 \in Nat /\ 1 <= k + 1 /\ k + 1 <= n + 1 /\ (k + 1 <= n <=> k < n)
    BY <2>1
  <2> QED
    BY <1>2, <2>2, AppendedAt DEF n
<1>6. CASE k < n
  <2>1. k + 1 \in 1..n
    BY <1>2, <1>4, <1>6
  <2>2. At(t.iat + (k + 1) - 1) = t.hints[k + 1]
    BY <1>1, <2>1 DEF CopiedUpTo
  <2> QED
    BY <1>4, <1>5, <1>6, <2>2 DEF Table
<1>7. CASE ~(k < n)
  <2>1. w = t.iat + n
    BY <1>2, <1>4, <1>7
  <2>2. At(t.iat + n) = 0
    BY <1>1 DEF Untouched
  <2> QED
    BY <1>5, <1>7, <2>1, <2>2 DEF Table
<1> QED
  BY <1>6, <1>7

LEMMA OthersUntouched ==
  ASSUME IInv
  PROVE  /\ Len(section) = Len(given.words)
         /\ \A w \in 0..(Len(section) - 1) \ AllSlots : At(w) = given.words[w + 1]
<1>1. \A w : w \notin AllSlots => \A c \in 1..Last : w \notin IatSlots(c)
  BY DEF AllSlots, Tables, Last
<1> QED
  BY <1>1 DEF IInv, Untouched

LEMMA RangeHolds ==
  ASSUME IInv, pc = "done"
  PROVE  IF Tables = {} THEN getIat = <<0, 0>>
         ELSE LET first == getIat[1] - given.rva
                  last  == first + getIat[2] - 1
              IN  AllSlots \subseteq first..last /\ {first, last} \subseteq AllSlots
<1>1. /\ given \in Sections /\ Spans(Last) /\ iat = <<iatBegin, iatEnd - iatBegin>>
      /\ Tables = 1..Last
  BY DEF IInv, Tables, Last
<1>2. /\ Last \in Nat /\ given.rva \in Nat
      /\ \A d \in 1..Last : /\ Table(d).iat \in Nat /\ Len(Table(d).hints) \in Nat
                            /\ 5 * (Last + 1) <= Table(d).iat
  BY <1>1, GivenTables, GivenPlaces
<1>3. CASE Last = 0
  <2>1. Tables = {} /\ iat = <<0, 0 - 0>>
    BY <1>1, <1>3 DEF Spans
  <2>2. iat[1] = 0
    BY <2>1
  <2> QED
    BY <2>1, <2>2 DEF getIat
<1>4. CASE Last # 0
  <2>1. Tables # {}
    <3>1. 1 \in 1..Last
      BY <1>2, <1>4
    <3> QED
      BY <1>1, <3>1
  <2>2. /\ \A c \in 1..Last : /\ iatBegin <= given.rva + Table(c).iat
                              /\ given.rva + Table(c).iat + Len(Table(c).hints) + 1 <= iatEnd
        /\ \E c \in 1..Last : iatBegin = given.rva + Table(c).iat
        /\ \E c \in 1..Last : iatEnd = given.rva + Table(c).iat + Len(Table(c).hints) + 1
    BY <1>1, <1>4 DEF Spans
  <2>3. PICK b \in 1..Last : iatBegin = given.rva + Table(b).iat
    BY <2>2
  <2>4. PICK e \in 1..Last : iatEnd = given.rva + Table(e).iat + Len(Table(e).hints) + 1
    BY <2>2
  <2>5. /\ Table(b).iat \in Nat /\ Len(Table(b).hints) \in Nat /\ 5 * (Last + 1) <= Table(b).iat
        /\ Table(e).iat \in Nat /\ Len(Table(e).hints) \in Nat
    BY <1>2
  <2>6. iatBegin \in Nat /\ iatEnd \in Nat /\ iatBegin # 0 /\ iatBegin < iatEnd
    <3>1. given.rva + Table(b).iat + Len(Table(b).hints) + 1 <= iatEnd
      BY <2>2
    <3>2. given.rva \in Nat /\ Last \in Nat
      BY <1>2
    <3>3. iatBegin \in Nat /\ iatBegin # 0
      BY <2>3, <2>5, <3>2
    <3>4. iatEnd \in Nat
      <4>1. \A base, a, n \in Nat : base + a + n + 1 \in Nat
        OBVIOUS
      <4> QED
        BY <2>4, <2>5, <3>2, <4>1
    <3> QED
      BY <2>3, <2>5, <3>1, <3>2, <3>3, <3>4
  <2>7. iat[1] = iatBegin /\ iat[2] = iatEnd - iatBegin /\ getIat = iat
    <3>1. iat[1] = iatBegin /\ iat[2] = iatEnd - iatBegin
      BY <1>1
    <3>2. iat[1] # 0 /\ iat[2] # 0
      BY <2>6, <3>1
    <3> QED
      BY <3>1, <3>2 DEF getIat
  <2> DEFINE first == getIat[1] - given.rva
             last  == first + getIat[2] - 1
  <2>8. first = Table(b).iat /\ last = Table(e).iat + Len(Table(e).hints)
    <3>1. given.rva \in Nat
      BY <1>2
    <3>2. first = iatBegin - given.rva /\ last = (iatBegin - given.rva) + (iatEnd - iatBegin) - 1
      BY <2>7
    <3> DEFINE lo == Table(b).iat
               hi == Table(e).iat + Len(Table(e).hints)
    <3>3. lo \in Nat /\ hi \in Nat
      BY <2>5
    <3>4. iatBegin = given.rva + lo /\ iatEnd = given.rva + hi + 1
      BY <2>3, <2>4, <2>5, <3>1
    <3> HIDE DEF first, last, lo, hi
    <3>5. first = lo /\ last = hi
      BY <3>1, <3>2, <3>3, <3>4
    <3> QED
      BY <3>5 DEF lo, hi
  <2>9. first \in IatSlots(b) /\ last \in IatSlots(e)
    <3>1. /\ Table(b).iat \in Table(b).iat..(Table(b).iat + Len(Table(b).hints))
          /\ Table(e).iat + Len(Table(e).hints) \in Table(e).iat..(Table(e).iat + Len(Table(e).hints))
      <4>1. \A a, n \in Nat : a \in a..(a + n) /\ a + n \in a..(a + n)
        OBVIOUS
      <4> QED
        BY <2>5, <4>1
    <3> QED
      BY <2>8, <3>1, SlotsOf
  <2>10. ASSUME NEW c \in 1..Last, NEW w \in IatSlots(c)
         PROVE  w \in first..last
    <3>1. /\ Table(c).iat \in Nat /\ Len(Table(c).hints) \in Nat
          /\ w \in Table(c).iat..(Table(c).iat + Len(Table(c).hints))
      BY <1>2, SlotsOf
    <3>2. /\ given.rva + Table(b).iat <= given.rva + Table(c).iat
          /\ given.rva + Table(c).iat + Len(Table(c).hints) + 1
               <= given.rva + Table(e).iat + Len(Table(e).hints) + 1
      BY <2>2, <2>3, <2>4
    <3>3. given.rva \in Nat
      BY <1>2
    <3>4. Table(b).iat <= w /\ w <= Table(e).iat + Len(Table(e).hints) /\ w \in Nat
      <4> DEFINE lo == Table(b).iat
                 hi == Table(e).iat + Len(Table(e).hints)
                 mid == Table(c).iat
                 top == Table(c).iat + Len(Table(c).hints)
      <4>1. lo \in Nat /\ hi \in Nat /\ mid \in Nat /\ top \in Nat
        <5>1. lo \in Nat /\ mid \in Nat
          BY <2>5, <3>1
        <5>2. hi \in Nat
          BY <2>5, TwoAdded
        <5>3. top \in Nat
          BY <3>1, TwoAdded
        <5> QED
          BY <5>1, <5>2, <5>3
      <4>2. given.rva + lo <= given.rva + mid /\ given.rva + top + 1 <= given.rva + hi + 1
        <5>1. given.rva + top + 1 = given.rva + Table(c).iat + Len(Table(c).hints) + 1
          BY <3>1, <3>3, ThreeAdded
        <5>2. given.rva + hi + 1 = given.rva + Table(e).iat + Len(Table(e).hints) + 1
          BY <2>5, <3>3, ThreeAdded
        <5> QED
          BY <3>2, <5>1, <5>2
      <4>3. w \in mid..top
        BY <3>1
      <4> HIDE DEF lo, hi, mid, top
      <4>4. lo <= w /\ w <= hi /\ w \in Nat
        BY <3>3, <4>1, <4>2, <4>3
      <4> QED
        BY <4>4 DEF lo, hi
    <3> HIDE DEF first, last
    <3> QED
      BY <2>5, <2>8, <3>4
  <2>11. AllSlots \subseteq first..last /\ {first, last} \subseteq AllSlots
    BY <1>1, <2>9, <2>10 DEF AllSlots
  <2> QED
    BY <2>1, <2>11
<1> QED
  BY <1>3, <1>4

(* For every well-formed import section, though the walk writes what it is   *)
(* reading: in the end each import address table is a copy of its lookup     *)
(* table, no other word has changed, and the range in the header is that of  *)
(* the address tables.                                                       *)
THEOREM TablesAreShadowed == Spec => []IatShadows
<1>1. IInv => IatShadows
  <2> SUFFICES ASSUME IInv, pc = "done" PROVE IatShadows
    BY DEF IatShadows
  <2> QED
    BY SlotsCopied, OthersUntouched, RangeHolds DEF IatShadows
<1> QED
  BY <1>1, InitIInv, NextIInv, PTL DEF Spec


(* ---- code pages ---- *)

Half(file, half, k) == [word |-> file[k], swapped |-> k \in half /\ file[k] # 0]

\* The result has come to m half words, each as it should be.
UpTo(m, file, out, half) ==
  /\ out \in Seq([word : Nat, swapped : BOOLEAN]) /\ Len(out) = m
  /\ \A k \in 1..m : out[k] = Half(file, half, k)

LEMMA PieceAppended ==
  ASSUME NEW file, NEW half, NEW out, NEW m \in Nat, UpTo(m, file, out, half),
         NEW n \in Nat, NEW piece \in Seq([word : Nat, swapped : BOOLEAN]), Len(piece) = n,
         \A k \in 1..n : piece[k] = Half(file, half, m + k)
  PROVE  UpTo(m + n, file, out \o piece, half)
<1>1. out \in Seq([word : Nat, swapped : BOOLEAN]) /\ Len(out) = m
  BY DEF UpTo
<1>2. out \o piece \in Seq([word : Nat, swapped : BOOLEAN]) /\ Len(out \o piece) = m + n
  BY <1>1
<1>3. ASSUME NEW k \in 1..(m + n)
      PROVE  (out \o piece)[k] = Half(file, half, k)
  <2>1. CASE k <= m
    <3>1. k \in 1..m /\ (out \o piece)[k] = out[k]
      BY <1>1, <2>1
    <3> QED
      BY <3>1 DEF UpTo
  <2>2. CASE ~(k <= m)
    <3>1. k - m \in 1..n /\ m + (k - m) = k /\ (out \o piece)[k] = piece[k - m]
      BY <1>1, <2>2
    <3>2. piece[k - m] = Half(file, half, m + (k - m))
      BY <3>1
    <3> QED
      BY <3>1, <3>2
  <2> QED
    BY <2>1, <2>2
<1> QED
  BY <1>2, <1>3 DEF UpTo

LEMMA SliceOf ==
  ASSUME NEW file \in Seq(Nat), NEW m \in Nat, NEW n \in Nat, m + n <= Len(file)
  PROVE  /\ Slice(file, m, n) \in Seq(Nat) /\ Len(Slice(file, m, n)) = n
         /\ \A k \in 1..n : Slice(file, m, n)[k] = file[m + k] /\ file[m + k] \in Nat
<1>1. Len(file) \in Nat /\ m + 1 \in Nat /\ (m + n) - (m + 1) + 1 = n
  OBVIOUS
<1>2. SubSeq(file, m + 1, m + n) \in Seq(Nat) /\ Len(SubSeq(file, m + 1, m + n)) = n
  BY <1>1
<1>3. ASSUME NEW k \in 1..n
      PROVE  SubSeq(file, m + 1, m + n)[k] = file[m + k] /\ file[m + k] \in Nat
  <2>1. m + k \in 1..Len(file) /\ (m + 1) + k - 1 = m + k /\ k \in 1..((m + n) - (m + 1) + 1)
    BY <1>1
  <2> QED
    BY <1>1, <2>1
<1> QED
  BY <1>2, <1>3 DEF Slice

LEMMA SwappedWords ==
  ASSUME NEW words \in Seq(Nat)
  PROVE  /\ Swapped(words) \in Seq([word : Nat, swapped : BOOLEAN]) /\ Len(Swapped(words)) = Len(words)
         /\ \A k \in 1..Len(words) : Swapped(words)[k] = [word |-> words[k], swapped |-> words[k] # 0]
<1>1. \A k \in 1..Len(words) : [word |-> words[k], swapped |-> words[k] # 0] \in [word : Nat, swapped : BOOLEAN]
  OBVIOUS
<1> QED
  BY <1>1 DEF Swapped

LEMMA CopiedWords ==
  ASSUME NEW words \in Seq(Nat)
  PROVE  /\ Copied(words) \in Seq([word : Nat, swapped : BOOLEAN]) /\ Len(Copied(words)) = Len(words)
         /\ \A k \in 1..Len(words) : Copied(words)[k] = [word |-> words[k], swapped |-> FALSE]
<1>1. \A k \in 1..Len(words) : [word |-> words[k], swapped |-> FALSE] \in [word : Nat, swapped : BOOLEAN]
  OBVIOUS
<1> QED
  BY <1>1 DEF Copied

\* A slice that is swapped belongs to the tables, or is zero.
LEMMA SwappedSlice ==
  ASSUME NEW file \in Seq(Nat), NEW half, NEW out, NEW m \in Nat, UpTo(m, file, out, half),
         NEW n \in Nat, m + n <= Len(file),
         \A k \in 1..n : m + k \in half \/ file[m + k] = 0
  PROVE  UpTo(m + n, file, out \o Swapped(Slice(file, m, n)), half)
<1> DEFINE s == Slice(file, m, n)
<1>1. s \in Seq(Nat) /\ Len(s) = n /\ \A k \in 1..n : s[k] = file[m + k]
  BY SliceOf
<1> HIDE DEF s
<1>2. Swapped(s) \in Seq([word : Nat, swapped : BOOLEAN]) /\ Len(Swapped(s)) = n
  BY <1>1, SwappedWords
<1>3. ASSUME NEW k \in 1..n PROVE Swapped(s)[k] = Half(file, half, m + k)
  <2>1. Swapped(s)[k] = [word |-> file[m + k], swapped |-> file[m + k] # 0]
    BY <1>1, SwappedWords
  <2>2. (file[m + k] # 0) = (m + k \in half /\ file[m + k] # 0)
    OBVIOUS
  <2> QED
    BY <2>1, <2>2 DEF Half
<1>4. UpTo(m + n, file, out \o Swapped(s), half)
  BY <1>2, <1>3, PieceAppended
<1> QED
  BY <1>4 DEF s

\* One that is copied does not, or is zero.
LEMMA CopiedSlice ==
  ASSUME NEW file \in Seq(Nat), NEW half, NEW out, NEW m \in Nat, UpTo(m, file, out, half),
         NEW n \in Nat, m + n <= Len(file),
         \A k \in 1..n : m + k \notin half \/ file[m + k] = 0
  PROVE  UpTo(m + n, file, out \o Copied(Slice(file, m, n)), half)
<1> DEFINE s == Slice(file, m, n)
<1>1. s \in Seq(Nat) /\ Len(s) = n /\ \A k \in 1..n : s[k] = file[m + k]
  BY SliceOf
<1> HIDE DEF s
<1>2. Copied(s) \in Seq([word : Nat, swapped : BOOLEAN]) /\ Len(Copied(s)) = n
  BY <1>1, CopiedWords
<1>3. ASSUME NEW k \in 1..n PROVE Copied(s)[k] = Half(file, half, m + k)
  <2>1. Copied(s)[k] = [word |-> file[m + k], swapped |-> FALSE]
    BY <1>1, CopiedWords
  <2>2. FALSE = (m + k \in half /\ file[m + k] # 0)
    OBVIOUS
  <2> QED
    BY <2>1, <2>2 DEF Half
<1>4. UpTo(m + n, file, out \o Copied(s), half)
  BY <1>2, <1>3, PieceAppended
<1> QED
  BY <1>4 DEF s

HalfWords == [word : Nat, swapped : BOOLEAN]
Zero == [word |-> 0, swapped |-> FALSE]

LEMMA TwoZeros ==
  /\ Swapped(<<0, 0>>) \in Seq(HalfWords) /\ Len(Swapped(<<0, 0>>)) = 2
  /\ Swapped(<<0, 0>>)[1] = Zero /\ Swapped(<<0, 0>>)[2] = Zero
<1> DEFINE w == <<0, 0>>
<1>1. w \in Seq(Nat) /\ Len(w) = 2 /\ w[1] = 0 /\ w[2] = 0
  OBVIOUS
<1> HIDE DEF w
<1>2. /\ Swapped(w) \in Seq(HalfWords) /\ Len(Swapped(w)) = 2
      /\ \A k \in 1..2 : Swapped(w)[k] = [word |-> w[k], swapped |-> w[k] # 0]
  BY <1>1, SwappedWords DEF HalfWords
<1>3. (0 # 0) = FALSE
  OBVIOUS
<1>4. 1 \in 1..2 /\ 2 \in 1..2
  OBVIOUS
<1>5. Swapped(w)[1] = Zero /\ Swapped(w)[2] = Zero
  BY <1>1, <1>2, <1>3, <1>4 DEF Zero
<1> QED
  BY <1>2, <1>5 DEF w

(* For every code page, of any size, with and without double-byte ranges:    *)
(* with an OEM table the converted file has every half word in its place,    *)
(* and exactly the half words of its tables are swapped.  Without one a      *)
(* zero is put in that costs the half word behind the empty table, or moves  *)
(* the ranges up by one half word, and all others are as they should be.     *)
THEOREM CodePageConverted ==
  ASSUME NEW file, CodePage(file)
  PROVE  SwappedInPlace(file, swapnls(file), TableHalves(file))
<1> DEFINE start  == file[1]
           narrow == file[start + 1]
           behind == start + narrow
           oem    == OemPart(file, behind)
           rest   == start + narrow + oem.read
           half   == TableHalves(file)
           h1     == Swapped(Slice(file, 0, HeaderWords))
           h2     == h1 \o Copied(Slice(file, HeaderWords, RawWords))
           h3     == h2 \o Swapped(Slice(file, start, narrow))
           head   == h3 \o oem.out
           dbcs   == IF file[rest + 1] >= DbcsFlag
                     THEN Swapped(Slice(file, rest, Len(file) - rest)) ELSE <<>>
           whole  == head \o dbcs
           last   == IF HasRanges(file) THEN Len(file) ELSE OemEnd(file)
<1>1. /\ file \in Seq(Nat) /\ Len(file) \in Nat
      /\ HeaderWords \in Nat /\ RawWords \in Nat /\ OemWords \in Nat /\ DbcsFlag \in Nat
      /\ HeaderWords # 0 /\ RawWords # 0 /\ OemWords # 0 /\ DbcsFlag # 0
  BY NlsAssumption DEF CodePage
<1>2. /\ start = HeaderWords + RawWords /\ start \in Nat /\ start + 1 <= Len(file)
      /\ narrow \in Nat /\ narrow >= 1
  <2>1. start = HeaderWords + RawWords /\ start + 1 <= Len(file) /\ narrow >= 1
    BY DEF CodePage
  <2>2. start + 1 \in 1..Len(file)
    BY <1>1, <2>1
  <2>3. narrow \in Nat
    BY <1>1, <2>2, ElementOf
  <2> QED
    BY <1>1, <2>1, <2>3
<1>3. behind \in Nat /\ behind + 1 <= Len(file) /\ start + narrow = behind
  <2>1. behind + 1 <= Len(file)
    BY DEF CodePage
  <2>2. start \in Nat /\ narrow \in Nat /\ behind = start + narrow
    BY <1>2
  <2> HIDE DEF start, narrow, behind
  <2> QED
    BY <2>1, <2>2
<1>4. /\ OemEnd(file) = behind + 1 + (IF file[behind + 1] # 0 THEN OemWords ELSE 0)
      /\ OemEnd(file) + 1 <= Len(file) /\ HasOem(file) = (file[behind + 1] # 0)
  BY DEF CodePage, OemEnd, HasOem
<1>5. rest = OemEnd(file) /\ rest \in Nat /\ behind < rest /\ rest < Len(file)
  <2>1. oem.read = 1 + (IF file[behind + 1] # 0 THEN OemWords ELSE 0)
    BY <1>1 DEF OemPart
  <2>2. rest = behind + oem.read
    OBVIOUS
  <2> HIDE DEF oem, rest, behind
  <2>3. CASE file[behind + 1] = 0
    <3>1. rest = behind + 1 /\ OemEnd(file) = behind + 1 + 0
      BY <1>4, <2>1, <2>2, <2>3
    <3> QED
      BY <1>1, <1>3, <1>4, <3>1
  <2>4. CASE file[behind + 1] # 0
    <3>1. rest = behind + (1 + OemWords) /\ OemEnd(file) = behind + 1 + OemWords
      BY <1>4, <2>1, <2>2, <2>4
    <3> QED
      BY <1>1, <1>3, <1>4, <3>1
  <2> QED
    BY <2>3, <2>4
<1>6. half = 1..HeaderWords \cup (start + 1)..last /\ last \in Nat /\ rest <= last /\ last <= Len(file)
  <2>1. half = 1..HeaderWords \cup (start + 1)..last
    BY DEF TableHalves
  <2>2. last = (IF file[rest + 1] >= DbcsFlag THEN Len(file) ELSE rest)
    BY <1>5 DEF HasRanges
  <2>3. rest \in Nat /\ rest < Len(file) /\ Len(file) \in Nat
    BY <1>1, <1>5
  <2> HIDE DEF rest, last
  <2> QED
    BY <2>1, <2>2, <2>3
<1>7. swapnls(file) = whole \o Copied(SubSeq(file, Len(whole) + 1, Len(file)))
  BY DEF swapnls
<1>8. /\ last = (IF file[rest + 1] >= DbcsFlag THEN Len(file) ELSE rest)
      /\ HasRanges(file) = (file[rest + 1] >= DbcsFlag)
  BY <1>5 DEF HasRanges
<1> HIDE DEF start, narrow, behind, oem, rest, half, last, h1, h2, h3, head, dbcs, whole
<1>9. UpTo(HeaderWords, file, h1, half)
  <2>1. UpTo(0, file, <<>>, half)
    BY DEF UpTo
  <2>2. \A k \in 1..HeaderWords : 0 + k \in half
    BY <1>1, <1>6
  <2>3. UpTo(0 + HeaderWords, file, <<>> \o h1, half)
    <3>1. 0 + HeaderWords <= Len(file)
      BY <1>1, <1>2
    <3> QED
      BY <1>1, <2>1, <2>2, <3>1, SwappedSlice DEF h1
  <2>4. <<>> \o h1 = h1
    <3>1. Slice(file, 0, HeaderWords) \in Seq(Nat)
      BY <1>1, <1>2, SliceOf
    <3>2. h1 \in Seq([word : Nat, swapped : BOOLEAN])
      BY <3>1, SwappedWords DEF h1
    <3> QED
      BY <3>2
  <2> QED
    BY <1>1, <2>3, <2>4
<1>10. UpTo(start, file, h2, half)
  <2>1. \A k \in 1..RawWords : HeaderWords + k \notin half
    BY <1>1, <1>2, <1>6
  <2>2. HeaderWords + RawWords <= Len(file)
    BY <1>1, <1>2
  <2>3. UpTo(HeaderWords + RawWords, file, h2, half)
    BY <1>1, <1>9, <2>1, <2>2, CopiedSlice DEF h2
  <2> QED
    BY <1>2, <2>3
<1>11. UpTo(behind, file, h3, half)
  <2>1. \A k \in 1..narrow : start + k \in half
    <3> SUFFICES ASSUME NEW k \in 1..narrow PROVE start + k \in half
      OBVIOUS
    <3>1. k \in Nat /\ 1 <= k /\ k <= narrow
      BY <1>2
    <3>2. start + k \in (start + 1)..last
      BY <1>2, <1>3, <1>5, <1>6, <3>1
    <3> QED
      BY <1>6, <3>2
  <2>2. start + narrow <= Len(file)
    BY <1>1, <1>2, <1>3
  <2>3. UpTo(start + narrow, file, h3, half)
    BY <1>1, <1>2, <1>10, <2>1, <2>2, SwappedSlice DEF h3
  <2> QED
    BY <1>3, <2>3
<1>12. \A k \in 1..(rest - behind) : behind + k \in half
  <2> SUFFICES ASSUME NEW k \in 1..(rest - behind) PROVE behind + k \in half
    OBVIOUS
  <2>1. k \in Nat /\ 1 <= k /\ k <= rest - behind
    BY <1>3, <1>5
  <2>2. behind + k \in (start + 1)..last
    <3>1. start \in Nat /\ start < behind
      BY <1>2, <1>3
    <3>2. behind \in Nat /\ rest \in Nat /\ last \in Nat /\ rest <= last
      BY <1>3, <1>5, <1>6
    <3> QED
      BY <2>1, <3>1, <3>2
  <2> QED
    BY <1>6, <2>2
<1>13. ASSUME file[behind + 1] # 0
       PROVE  /\ UpTo(Len(whole), file, whole, half) /\ Len(whole) \in Nat
              /\ rest <= Len(whole) /\ Len(whole) <= Len(file)
              /\ \A k \in 1..(Len(file) - Len(whole)) : Len(whole) + k \notin half
  <2>1. oem.out = Swapped(Slice(file, behind, 1 + OemWords)) /\ rest = behind + (1 + OemWords)
    BY <1>1, <1>3, <1>4, <1>5, <1>13 DEF oem, OemPart
  <2>2. UpTo(rest, file, head, half)
    <3>1. \A k \in 1..(1 + OemWords) : behind + k \in half
      BY <1>1, <1>3, <1>12, <2>1
    <3>2. behind + (1 + OemWords) <= Len(file) /\ 1 + OemWords \in Nat
      BY <1>1, <1>5, <2>1
    <3>3. UpTo(behind + (1 + OemWords), file, head, half)
      BY <1>1, <1>3, <1>11, <2>1, <3>1, <3>2, SwappedSlice DEF head
    <3> QED
      BY <2>1, <3>3
  <2>3. CASE file[rest + 1] >= DbcsFlag
    <3>1. whole = head \o Swapped(Slice(file, rest, Len(file) - rest)) /\ last = Len(file)
      BY <1>8, <2>3 DEF whole, dbcs
    <3>2. \A k \in 1..(Len(file) - rest) : rest + k \in half
      <4> SUFFICES ASSUME NEW k \in 1..(Len(file) - rest) PROVE rest + k \in half
        OBVIOUS
      <4>1. k \in Nat /\ 1 <= k /\ k <= Len(file) - rest
        BY <1>1, <1>5
      <4>2. rest + k \in (start + 1)..last
        <5>1. start < rest
          BY <1>2, <1>3, <1>5
        <5>2. start \in Nat /\ rest \in Nat /\ Len(file) \in Nat
          BY <1>1, <1>2, <1>5
        <5> QED
          BY <3>1, <4>1, <5>1, <5>2
      <4> QED
        BY <1>6, <4>2
    <3>3. Len(file) - rest \in Nat /\ rest + (Len(file) - rest) = Len(file)
      BY <1>1, <1>5
    <3>4. UpTo(Len(file), file, whole, half)
      <4>1. rest + (Len(file) - rest) <= Len(file)
        BY <1>1, <3>3
      <4>2. UpTo(rest + (Len(file) - rest), file, whole, half)
        BY <1>1, <1>5, <2>2, <3>1, <3>2, <3>3, <4>1, SwappedSlice
      <4> QED
        BY <3>3, <4>2
    <3>5. Len(whole) = Len(file)
      BY <3>4 DEF UpTo
    <3> QED
      BY <1>1, <1>5, <3>4, <3>5
  <2>4. CASE ~(file[rest + 1] >= DbcsFlag)
    <3>1. whole = head \o <<>> /\ last = rest
      BY <1>8, <2>4 DEF whole, dbcs
    <3>2. whole = head /\ Len(head) = rest
      BY <2>2, <3>1 DEF UpTo
    <3>3. \A k \in 1..(Len(file) - rest) : rest + k \notin half
      <4> SUFFICES ASSUME NEW k \in 1..(Len(file) - rest) PROVE rest + k \notin half
        OBVIOUS
      <4>1. k \in Nat /\ 1 <= k
        BY <1>1, <1>5
      <4>2. HeaderWords < rest + k /\ last < rest + k
        <5>1. start < rest
          BY <1>2, <1>3, <1>5
        <5>2. start \in Nat /\ rest \in Nat /\ HeaderWords \in Nat /\ HeaderWords <= start
          BY <1>1, <1>2, <1>5
        <5> QED
          BY <3>1, <4>1, <5>1, <5>2
      <4>3. rest + k \in Nat /\ last \in Nat
        BY <1>5, <1>6, <4>1
      <4> QED
        BY <1>1, <1>6, <4>2, <4>3
    <3> QED
      BY <1>1, <1>5, <2>2, <3>2, <3>3
  <2> QED
    BY <2>3, <2>4
<1>14. CASE file[behind + 1] # 0
  <2>1. UpTo(Len(file), file, swapnls(file), half)
    <3> DEFINE m == Len(whole)
               n == Len(file) - m
    <3>1. m \in Nat /\ n \in Nat /\ m + n = Len(file) /\ m + n <= Len(file)
      BY <1>1, <1>13, <1>14
    <3>2. UpTo(m, file, whole, half) /\ \A k \in 1..n : m + k \notin half
      BY <1>13, <1>14
    <3>3. swapnls(file) = whole \o Copied(Slice(file, m, n))
      BY <1>7, <3>1 DEF Slice
    <3> HIDE DEF m, n
    <3>4. UpTo(m + n, file, whole \o Copied(Slice(file, m, n)), half)
      BY <1>1, <3>1, <3>2, CopiedSlice
    <3> QED
      BY <3>1, <3>3, <3>4
  <2>2. Lost(file) = {} /\ (\A k : PlaceOf(file, k) = k) /\ HasOem(file)
    BY <1>4, <1>14 DEF Lost, PlaceOf
  <2>3. ASSUME NEW k \in 1..Len(file)
        PROVE  /\ swapnls(file)[k].word = file[k]
               /\ swapnls(file)[k].swapped <=> k \in half /\ file[k] # 0
    <3>1. swapnls(file)[k] = Half(file, half, k)
      BY <2>1 DEF UpTo
    <3>2. /\ Half(file, half, k).word = file[k]
          /\ Half(file, half, k).swapped = (k \in half /\ file[k] # 0)
      BY DEF Half
    <3> QED
      BY <3>1, <3>2
  <2> QED
    BY <2>1, <2>2, <2>3 DEF SwappedInPlace, UpTo, half
<1>15. CASE file[behind + 1] = 0
  <2> DEFINE ranges == file[rest + 1] >= DbcsFlag
             many == IF ranges THEN Len(file) - rest ELSE Len(file) - (rest + 1)
             from == IF ranges THEN rest ELSE rest + 1
             tail == IF ranges THEN Swapped(Slice(file, from, many)) ELSE Copied(Slice(file, from, many))
             z == [word |-> 0, swapped |-> FALSE]
  <2>1. oem.out = Swapped(<<0, 0>>) /\ rest = behind + 1
    BY <1>1, <1>3, <1>4, <1>5, <1>15 DEF oem, OemPart
  <2>2. many \in Nat /\ from \in Nat /\ from + many = Len(file)
    <3>1. CASE ranges
      <4>1. many = Len(file) - rest /\ from = rest
        BY <3>1
      <4> QED
        BY <1>1, <1>5, <4>1
    <3>2. CASE ~ranges
      <4>1. many = Len(file) - (rest + 1) /\ from = rest + 1
        BY <3>2
      <4> HIDE DEF many, from
      <4> QED
        BY <1>1, <1>5, <4>1
    <3> QED
      BY <3>1, <3>2
  <2>3. Slice(file, from, many) \in Seq(Nat) /\ Len(Slice(file, from, many)) = many
        /\ \A k \in 1..many : Slice(file, from, many)[k] = file[from + k]
    <3>1. from + many <= Len(file)
      BY <1>1, <2>2
    <3> HIDE DEF from, many
    <3> QED
      BY <1>1, <2>2, <3>1, SliceOf
  <2>4. /\ tail \in Seq([word : Nat, swapped : BOOLEAN]) /\ Len(tail) = many
        /\ \A k \in 1..many :
             tail[k] = [word |-> file[from + k], swapped |-> ranges /\ file[from + k] # 0]
    <3> DEFINE sl == Slice(file, from, many)
    <3>1. sl \in Seq(Nat) /\ Len(sl) = many /\ \A k \in 1..many : sl[k] = file[from + k]
      BY <2>3
    <3>2. tail = IF ranges THEN Swapped(sl) ELSE Copied(sl)
      OBVIOUS
    <3> HIDE DEF sl, many, from, tail, ranges
    <3>3. CASE ranges
      <4>1. /\ tail \in Seq([word : Nat, swapped : BOOLEAN]) /\ Len(tail) = many
            /\ \A k \in 1..many : tail[k] = [word |-> sl[k], swapped |-> sl[k] # 0]
        BY <3>1, <3>2, <3>3, SwappedWords
      <4>2. \A w : (w # 0) = (ranges /\ w # 0)
        BY <3>3
      <4>3. ASSUME NEW k \in 1..many
            PROVE  tail[k] = [word |-> file[from + k], swapped |-> ranges /\ file[from + k] # 0]
        <5>1. tail[k] = [word |-> file[from + k], swapped |-> file[from + k] # 0]
          BY <3>1, <4>1
        <5> QED
          BY <4>2, <5>1
      <4> QED
        BY <4>1, <4>3
    <3>4. CASE ~ranges
      <4>1. /\ tail \in Seq([word : Nat, swapped : BOOLEAN]) /\ Len(tail) = many
            /\ \A k \in 1..many : tail[k] = [word |-> sl[k], swapped |-> FALSE]
        BY <3>1, <3>2, <3>4, CopiedWords
      <4>2. \A w : FALSE = (ranges /\ w # 0)
        BY <3>4
      <4>3. ASSUME NEW k \in 1..many
            PROVE  tail[k] = [word |-> file[from + k], swapped |-> ranges /\ file[from + k] # 0]
        <5>1. tail[k] = [word |-> file[from + k], swapped |-> FALSE]
          BY <3>1, <4>1
        <5> QED
          BY <4>2, <5>1
      <4> QED
        BY <4>1, <4>3
    <3> QED
      BY <3>3, <3>4
  <2> HIDE DEF tail
  <2> DEFINE out == (h3 \o Swapped(<<0, 0>>)) \o tail
  <2>5. /\ Len(h3 \o Swapped(<<0, 0>>)) = behind + 2
        /\ out \in Seq([word : Nat, swapped : BOOLEAN]) /\ Len(out) = behind + 2 + many
        /\ \A k \in 1..behind : out[k] = Half(file, half, k)
        /\ out[behind + 1] = z /\ out[behind + 2] = z
        /\ \A k \in 1..many : out[behind + 2 + k] = tail[k]
    <3> DEFINE two == Swapped(<<0, 0>>)
    <3>1. behind \in Nat /\ many \in Nat /\ h3 \in Seq(HalfWords) /\ Len(h3) = behind
      BY <1>3, <1>11, <2>2 DEF UpTo, HalfWords
    <3>2. tail \in Seq(HalfWords) /\ Len(tail) = many
      BY <2>4 DEF HalfWords
    <3>3. two \in Seq(HalfWords) /\ Len(two) = 2 /\ two[1] = Zero /\ two[2] = Zero
      BY TwoZeros
    <3> HIDE DEF many, two
    <3>4. /\ Len(h3 \o two) = behind + 2
          /\ (h3 \o two) \o tail \in Seq(HalfWords) /\ Len((h3 \o two) \o tail) = behind + 2 + many
          /\ \A k \in 1..behind : ((h3 \o two) \o tail)[k] = h3[k]
          /\ ((h3 \o two) \o tail)[behind + 1] = Zero
          /\ ((h3 \o two) \o tail)[behind + 2] = Zero
          /\ \A k \in 1..many : ((h3 \o two) \o tail)[behind + 2 + k] = tail[k]
      <4> DEFINE all == (h3 \o two) \o tail
                 d == 2
                 m == behind
                 R == HalfWords
      <4> HIDE DEF tail, h3
      <4>1. m \in Nat /\ many \in Nat /\ d \in Nat
        BY <3>1
      <4>2. h3 \in Seq(R) /\ Len(h3) = m
        BY <3>1
      <4>3. two \in Seq(R) /\ Len(two) = d
        BY <3>3
      <4>4. tail \in Seq(R) /\ Len(tail) = many
        BY <3>2
      <4> HIDE DEF m, d, R
      <4> DEFINE first == h3 \o two
                 e == m + d
      <4>5. /\ first \in Seq(R) /\ Len(first) = m + d
        BY <4>1, <4>2, <4>3
      <4>6. \A k \in 1..m : first[k] = h3[k]
        BY <4>1, <4>2, <4>3
      <4>7. \A k \in 1..d : first[m + k] = two[k]
        BY <4>1, <4>2, <4>3
      <4>8. e \in Nat /\ first \in Seq(R) /\ Len(first) = e
        BY <4>1, <4>5
      <4>9. (\A k \in 1..m : k \in 1..e) /\ (\A k \in 1..d : m + k \in 1..e)
        BY <4>1
      <4> HIDE DEF first, e
      <4>10. first \o tail \in Seq(R) /\ Len(first \o tail) = e + many
        BY <4>1, <4>4, <4>8
      <4>11. \A k \in 1..e : (first \o tail)[k] = first[k]
        BY <4>1, <4>4, <4>8
      <4>12. \A k \in 1..many : (first \o tail)[e + k] = tail[k]
        BY <4>1, <4>4, <4>8
      <4>13. all = first \o tail /\ first = h3 \o two /\ e = behind + 2
        BY DEF first, e, m, d
      <4> HIDE DEF all
      <4>14. Len(first) = behind + 2
        BY <4>5 DEF m, d
      <4>15. all \in Seq(HalfWords) /\ Len(all) = behind + 2 + many
        BY <4>10, <4>13 DEF R
      <4>16. \A k \in 1..behind : all[k] = h3[k]
        BY <4>6, <4>9, <4>11, <4>13 DEF m
      <4>17. \A k \in 1..d : all[m + k] = two[k]
        BY <4>7, <4>9, <4>11, <4>13
      <4>18. 1 \in 1..d /\ 2 \in 1..d
        BY DEF d
      <4>19. all[m + 1] = two[1] /\ all[m + 2] = two[2]
        BY <4>17, <4>18, Zenon
      <4>20. all[behind + 1] = Zero /\ all[behind + 2] = Zero
        BY <3>3, <4>19 DEF m
      <4>21. \A k \in 1..many : all[behind + 2 + k] = tail[k]
        BY <4>12, <4>13
      <4> QED
        BY <4>13, <4>14, <4>15, <4>16, <4>20, <4>21 DEF all
    <3>5. \A k \in 1..behind : h3[k] = Half(file, half, k)
      BY <1>11 DEF UpTo
    <3>6. out = (h3 \o two) \o tail
      BY DEF two
    <3> HIDE DEF out
    <3> QED
      BY <3>4, <3>5, <3>6 DEF two, HalfWords, Zero
  <2>6. swapnls(file) = out
    <3>1. head = h3 \o Swapped(<<0, 0>>)
      BY <2>1 DEF head
    <3>2. h3 \o Swapped(<<0, 0>>) \in Seq([word : Nat, swapped : BOOLEAN])
      <4>1. h3 \in Seq([word : Nat, swapped : BOOLEAN])
        BY <1>11 DEF UpTo
      <4>2. <<0, 0>> \in Seq(Nat)
        OBVIOUS
      <4>3. Swapped(<<0, 0>>) \in Seq([word : Nat, swapped : BOOLEAN])
        BY <4>2, SwappedWords
      <4> QED
        BY <4>1, <4>3
    <3>3. CASE ranges
      <4>1. dbcs = Swapped(Slice(file, rest, Len(file) - rest))
        BY <3>3 DEF dbcs
      <4>2. dbcs = tail
        BY <3>3, <4>1 DEF tail
      <4>3. whole = out
        BY <3>1, <4>2 DEF whole
      <4>4. Len(whole) = Len(file) + 1
        <5>1. many = Len(file) - rest /\ Len(out) = behind + 2 + many
          BY <2>5, <3>3
        <5> HIDE DEF out, many
        <5> QED
          BY <1>1, <1>3, <1>5, <2>1, <4>3, <5>1
      <4>5. SubSeq(file, Len(whole) + 1, Len(file)) = <<>>
        BY <1>1, <4>4
      <4>6. Copied(<<>>) = <<>>
        BY DEF Copied
      <4>7. swapnls(file) = out \o <<>>
        BY <1>7, <4>3, <4>5, <4>6
      <4>8. out \in Seq([word : Nat, swapped : BOOLEAN])
        BY <2>5
      <4> HIDE DEF out
      <4> QED
        BY <4>7, <4>8
    <3>4. CASE ~ranges
      <4>1. dbcs = <<>>
        BY <3>4 DEF dbcs
      <4>2. whole = h3 \o Swapped(<<0, 0>>)
        BY <3>1, <3>2, <4>1 DEF whole
      <4>3. Len(whole) = rest + 1 /\ from = rest + 1 /\ from + many = Len(file)
        <5>1. Len(whole) = behind + 2
          BY <2>5, <4>2
        <5> QED
          BY <1>3, <1>5, <2>1, <2>2, <3>4, <5>1
      <4>4. tail = Copied(SubSeq(file, Len(whole) + 1, Len(file)))
        BY <3>4, <4>3 DEF tail, Slice
      <4> QED
        BY <1>7, <4>2, <4>4
    <3> QED
      BY <3>3, <3>4
  <2> HIDE DEF out
  <2>7. OemEnd(file) = rest /\ ~HasOem(file) /\ HasRanges(file) = ranges
    BY <1>4, <1>5, <1>8, <1>15
  <2>8. Len(out) = PlaceOf(file, Len(file))
    <3>1. PlaceOf(file, Len(file)) = IF ranges THEN Len(file) + 1 ELSE Len(file)
      BY <1>1, <1>5, <2>7 DEF PlaceOf
    <3>2. Len(out) = behind + 2 + many
      BY <2>5
    <3>3. CASE ranges
      <4>1. many = Len(file) - rest
        BY <3>3
      <4> HIDE DEF many
      <4> QED
        BY <1>1, <1>3, <1>5, <2>1, <3>1, <3>2, <3>3, <4>1
    <3>4. CASE ~ranges
      <4>1. many = Len(file) - (rest + 1)
        BY <3>4
      <4> HIDE DEF many
      <4> QED
        BY <1>1, <1>3, <1>5, <2>1, <3>1, <3>2, <3>4, <4>1
    <3> QED
      BY <3>3, <3>4
  <2>9. ASSUME NEW k \in 1..Len(file) \ Lost(file)
        PROVE  out[PlaceOf(file, k)] = Half(file, half, k)
    <3>1. k \in Nat /\ 1 <= k /\ k <= Len(file)
      BY <1>1
    <3>2. CASE k <= behind
      <4>1. PlaceOf(file, k) = k
        BY <1>3, <2>1, <2>7, <3>1, <3>2 DEF PlaceOf
      <4>2. k \in 1..behind
        BY <1>3, <3>1, <3>2
      <4> QED
        BY <2>5, <4>1, <4>2
    <3>3. CASE k = rest
      <4>1. PlaceOf(file, k) = k
        BY <1>5, <2>7, <3>3 DEF PlaceOf
      <4>2. Half(file, half, k) = z
        <5>1. file[k] = 0
          BY <1>15, <2>1, <3>3
        <5>2. (k \in half /\ 0 # 0) = FALSE
          OBVIOUS
        <5> QED
          BY <5>1, <5>2 DEF Half
      <4> QED
        BY <2>1, <2>5, <3>3, <4>1, <4>2
    <3>4. CASE k > rest
      <4>1. k > from /\ k - from \in 1..many /\ from + (k - from) = k
            /\ PlaceOf(file, k) = behind + 2 + (k - from)
        <5>1. CASE ranges
          <6>1. PlaceOf(file, k) = k + 1
            BY <2>7, <3>4, <5>1 DEF PlaceOf
          <6>2. from = rest /\ many = Len(file) - rest
            BY <5>1
          <6> QED
            BY <1>1, <1>3, <1>5, <2>1, <3>1, <3>4, <6>1, <6>2
        <5>2. CASE ~ranges
          <6>1. PlaceOf(file, k) = k
            BY <2>7, <5>2 DEF PlaceOf
          <6>2. k # rest + 1
            BY <2>7, <5>2 DEF Lost
          <6>3. from = rest + 1 /\ many = Len(file) - (rest + 1)
            BY <5>2
          <6> QED
            BY <1>1, <1>3, <1>5, <2>1, <3>1, <3>4, <6>1, <6>2, <6>3
        <5> QED
          BY <5>1, <5>2
      <4>2. out[PlaceOf(file, k)] = tail[k - from]
        BY <2>5, <4>1
      <4>3. tail[k - from] = [word |-> file[k], swapped |-> ranges /\ file[k] # 0]
        BY <2>4, <4>1
      <4>4. k \in half <=> ranges
        <5>1. CASE ranges
          <6>1. last = Len(file)
            BY <1>8, <5>1
          <6>2. k \in (start + 1)..last
            BY <1>1, <1>2, <1>3, <1>5, <3>1, <3>4, <6>1
          <6> QED
            BY <1>6, <5>1, <6>2
        <5>2. CASE ~ranges
          <6>1. last = rest
            BY <1>8, <5>2
          <6>2. HeaderWords < k /\ last < k
            BY <1>1, <1>2, <1>3, <1>5, <3>1, <3>4, <6>1
          <6> QED
            BY <1>1, <1>6, <3>1, <5>2, <6>2
        <5> QED
          BY <5>1, <5>2
      <4>5. (ranges /\ file[k] # 0) = (k \in half /\ file[k] # 0)
        BY <4>4
      <4> QED
        BY <4>2, <4>3, <4>5 DEF Half
    <3> QED
      BY <1>3, <1>5, <2>1, <3>1, <3>2, <3>3, <3>4
  <2>10. ASSUME NEW k \in 1..Len(file) \ Lost(file)
         PROVE  /\ out[PlaceOf(file, k)].word = file[k]
                /\ out[PlaceOf(file, k)].swapped <=> k \in half /\ file[k] # 0
    <3>1. /\ Half(file, half, k).word = file[k]
          /\ Half(file, half, k).swapped = (k \in half /\ file[k] # 0)
      BY DEF Half
    <3> QED
      BY <2>9, <3>1
  <2>11. out[OemEnd(file) + 1].word = 0
    <3>1. OemEnd(file) + 1 = behind + 2
      BY <1>3, <2>1, <2>7
    <3> QED
      BY <2>5, <3>1
  <2> QED
    BY <2>6, <2>8, <2>10, <2>11 DEF SwappedInPlace, half
<1> QED
  BY <1>14, <1>15

=============================================================================
