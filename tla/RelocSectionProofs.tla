-------------------------- MODULE RelocSectionProofs --------------------------
(***************************************************************************)
(* Theorems about RelocSection: for every program, the .reloc section says *)
(* what AddReloc was told, and a loader that goes through it block by      *)
(* block turns the image into that of a link at the new base.              *)
(***************************************************************************)
EXTENDS RelocSection, RelocProofs, FiniteSetTheorems

(* ---- the inductive invariant ---- *)

Count(p) == Cardinality(DOMAIN slices[p])

\* The entries of a block that are written, by offset, and how many they are.
Written(p) == IF p = slice THEN DOMAIN slices[p] \ EntriesLeft ELSE DOMAIN slices[p]
Filled(p) == IF p = slice THEN ptr - (starts[p] + 4) ELSE Count(p)

\* Where a block begins, and the first cell behind it.
Behind(p) == starts[p] + BlockCells(p)
EntryCells(p) == (starts[p] + 4)..(starts[p] + 3 + Filled(p))

\* A block that has been begun: its header, what is written of its entries in order
\* of offset, and zeros.
Laid(p) ==
  LET c == starts[p]
  IN  /\ c \in Nat /\ c >= 1 /\ c % 2 = 1 /\ Behind(p) <= Len(section) + 1
      /\ section[c] = p /\ section[c + 2] = 2 * BlockCells(p)
      /\ Filled(p) \in Nat /\ Filled(p) = Cardinality(Written(p))
      /\ \A k \in EntryCells(p) : /\ section[k] % Page \in Written(p)
                                  /\ section[k] = EntryOf(p, section[k] % Page)
      /\ \A o \in Written(p) : \E k \in EntryCells(p) : section[k] % Page = o
      /\ \A k, l \in EntryCells(p) : k < l => section[k] % Page < section[l] % Page
      /\ \A k \in (c + 4 + Filled(p))..(Behind(p) - 1) : section[k] = 0

\* Blocks follow each other in order of page from the section's first cell on.
Tiled ==
  /\ \A p, q \in DOMAIN starts : p < q => Behind(p) <= starts[q]
  /\ \A p \in DOMAIN starts :
       Behind(p) = Len(section) + 1 \/ \E q \in DOMAIN starts : starts[q] = Behind(p)
  /\ section = <<>> \/ \E p \in DOMAIN starts : starts[p] = 1
  /\ Len(section) % 2 = 0

\* What has been rendered.
Rendering ==
  /\ stage \in {"rendering", "loading", "loaded"}
  /\ section \in Seq(Nat) /\ entry \in Int /\ ptr \in Int
  /\ slice \in DOMAIN slices \cup {None}
  /\ slice # None \/ stage # "rendering" => Relocated
  /\ DOMAIN starts = {p \in DOMAIN slices : p <= slice}
  /\ \A p \in DOMAIN starts : Laid(p)
  /\ Tiled
  /\ stage = "rendering" => at = 1 /\ end = 1
  /\ stage # "rendering" => EntriesLeft = {} /\ PagesLeft = {}

\* The note in a cell of a block, and the notes in front of the loader's place.
NoteAt(p, k) == <<p + (section[k] % Page), section[k] \div Page>>

Read == {note \in Notes : \E p \in DOMAIN starts : \E k \in EntryCells(p) :
                            k < at /\ note = NoteAt(p, k)}

\* The loader is at a block's end, or one cell behind it, or inside the one it has taken
\* page and end from, at an entry that is not overlooked or at the padding; and has applied
\* what is in front of its place, but for what is overlooked.
Loading ==
  /\ stage = "loading" =>
       /\ at \in Nat /\ end \in Nat /\ image = Rebased(mem, Read \ Overlooked)
       /\ \/ at = 1 /\ end = 1
          \/ \E p \in DOMAIN starts :
               /\ page = p /\ end = Behind(p) /\ starts[p] + 4 <= at /\ at <= end + 1
               /\ at \in EntryCells(p) => NoteAt(p, at) \notin Overlooked
  /\ stage = "loaded" => image = Rebased(mem, Notes \ Overlooked)

SInv == RInv /\ Rendering /\ Loading

(* ---- slices and blocks ---- *)

\* A page, its offsets, the entries made of them, and the size of its block.
LEMMA SliceParts ==
  ASSUME IInv, NEW p \in DOMAIN slices
  PROVE  /\ p \in Nat /\ p % Page = 0
         /\ DOMAIN slices[p] \subseteq 0..(Page - 1) /\ IsFiniteSet(DOMAIN slices[p])
         /\ Count(p) \in Nat
         /\ BlockCells(p) \in Nat /\ BlockCells(p) % 2 = 0
         /\ 4 + Count(p) <= BlockCells(p) /\ BlockCells(p) <= 5 + Count(p)
<1>1. p \in Nat /\ p % Page = 0 /\ DOMAIN slices[p] \subseteq 0..(Page - 1)
  BY DEF IInv, Sliced
<1>2. IsFiniteSet(DOMAIN slices[p])
  <2>1. 0 \in Int /\ Page - 1 \in Int
    BY Numbers
  <2>2. IsFiniteSet(0..(Page - 1))
    BY <2>1, FS_Interval
  <2> QED
    BY <1>1, <2>2, FS_Subset
<1>3. Count(p) \in Nat
  BY <1>2, FS_CardinalityType DEF Count
<1>4. BlockCells(p) = (4 + Count(p)) + ((4 + Count(p)) % 2)
  BY DEF BlockCells, Count
<1> DEFINE c == Count(p)
<1>5. c \in Nat
  BY <1>3
<1> HIDE DEF c
<1>6. \A z \in Nat : /\ z + (z % 2) \in Nat /\ (z + (z % 2)) % 2 = 0
                     /\ z <= z + (z % 2) /\ z + (z % 2) <= z + 1
  BY SMT
<1>7. 4 + c \in Nat
  BY <1>5
<1> QED
  BY <1>1, <1>2, <1>4, <1>5, <1>6, <1>7 DEF c

\* An entry is its type and its offset.
LEMMA EntryParts ==
  ASSUME IInv, NEW p \in DOMAIN slices, NEW o \in DOMAIN slices[p]
  PROVE  /\ o \in Nat /\ o < Page
         /\ slices[p][o] \in {2, 3, 4}
         /\ EntryOf(p, o) \in Nat /\ EntryOf(p, o) % Page = o
         /\ EntryOf(p, o) \div Page = slices[p][o]
         /\ EntryOf(p, o) \div Page # 0
<1>1. Page \in Nat \ {0}
  BY Numbers
<1>2. o \in 0..(Page - 1)
  BY SliceParts
<1>3. slices[p][o] \in {2, 3, 4}
  BY DEF IInv, TypeOK
<1>4. slices[p][o] \in Nat /\ slices[p][o] # 0
  BY <1>3
<1>5. /\ (slices[p][o] * Page + o) \div Page = slices[p][o]
      /\ (slices[p][o] * Page + o) % Page = o
      /\ slices[p][o] * Page + o \in Nat
  BY <1>1, <1>2, <1>4, DivModUnique
<1> QED
  BY <1>1, <1>2, <1>3, <1>4, <1>5 DEF EntryOf

\* A block that a step neither moves nor writes in stays as it is.
LEMMA LaidKept ==
  ASSUME SInv, NEW p \in DOMAIN starts, slices' = slices, starts'[p] = starts[p],
         Filled(p)' = Filled(p), Written(p)' = Written(p),
         Len(section') \in Nat, Len(section) <= Len(section'),
         \A k \in 1..Len(section) : starts[p] <= k /\ k < Behind(p) => section'[k] = section[k]
  PROVE  Laid(p)' /\ Behind(p)' = Behind(p)
<1> DEFINE c == starts[p]
           f == Filled(p)
           w == Written(p)
           b == Behind(p)
<1>1. Laid(p) /\ p \in DOMAIN slices /\ IInv
  BY DEF SInv, Rendering, RInv
<1>2. /\ c \in Nat /\ c >= 1 /\ c % 2 = 1 /\ b <= Len(section) + 1
      /\ section[c] = p /\ section[c + 2] = 2 * BlockCells(p)
      /\ f \in Nat /\ f = Cardinality(w)
      /\ \A k \in (c + 4)..(c + 3 + f) : /\ section[k] % Page \in w
                                        /\ section[k] = EntryOf(p, section[k] % Page)
      /\ \A o \in w : \E k \in (c + 4)..(c + 3 + f) : section[k] % Page = o
      /\ \A k, l \in (c + 4)..(c + 3 + f) : k < l => section[k] % Page < section[l] % Page
      /\ \A k \in (c + 4 + f)..(b - 1) : section[k] = 0
  BY <1>1 DEF Laid, EntryCells
<1>3. b = c + BlockCells(p) /\ BlockCells(p) \in Nat /\ 4 + Count(p) <= BlockCells(p)
      /\ Count(p) \in Nat
  BY <1>1, SliceParts DEF Behind
<1>4. f <= Count(p)
  <2>1. w \subseteq DOMAIN slices[p]
    BY DEF Written
  <2>2. Cardinality(w) <= Count(p)
    BY <1>1, <2>1, SliceParts, FS_Subset DEF Count
  <2> QED
    BY <1>2, <2>2
<1>5. Len(section) \in Nat
  BY DEF SInv, Rendering
<1>a. c \in Nat /\ c >= 1 /\ f \in Nat /\ b \in Nat /\ c + 4 + f <= b /\ b <= Len(section) + 1
  <2>1. c \in Nat /\ c >= 1 /\ f \in Nat /\ b <= Len(section) + 1
    BY <1>2
  <2> HIDE DEF c, f, w, b
  <2> QED
    BY <1>3, <1>4, <2>1
<1> HIDE DEF c, f, w, b
<1>6. \A k \in c..(b - 1) : section'[k] = section[k]
  <2> SUFFICES ASSUME NEW k \in c..(b - 1) PROVE section'[k] = section[k]
    OBVIOUS
  <2>1. k \in 1..Len(section) /\ c <= k /\ k < b
    BY <1>a, <1>5
  <2>2. starts[p] <= k /\ k < Behind(p)
    BY <2>1 DEF c, b
  <2> QED
    BY <2>1, <2>2
<1>7. BlockCells(p)' = BlockCells(p) /\ \A o : EntryOf(p, o)' = EntryOf(p, o)
  BY DEF BlockCells, EntryOf
<1>8. Behind(p)' = b /\ starts'[p] = c /\ Filled(p)' = f /\ Written(p)' = w
  BY <1>7 DEF Behind, c, f, w, b
<1>9. EntryCells(p)' = (c + 4)..(c + 3 + f)
  BY <1>8 DEF EntryCells
<1>10. \A k \in (c + 4)..(c + 3 + f) : section'[k] = section[k]
  <2>1. \A k \in (c + 4)..(c + 3 + f) : k \in c..(b - 1)
    BY <1>a
  <2> QED
    BY <1>6, <2>1
<1>11. \A k \in (c + 4 + f)..(b - 1) : section'[k] = section[k]
  <2>1. \A k \in (c + 4 + f)..(b - 1) : k \in c..(b - 1)
    BY <1>a
  <2> QED
    BY <1>6, <2>1
<1>12. section'[c] = section[c] /\ section'[c + 2] = section[c + 2]
  <2>1. c \in c..(b - 1) /\ c + 2 \in c..(b - 1)
    BY <1>a
  <2> QED
    BY <1>6, <2>1
<1>13. /\ c \in Nat /\ c >= 1 /\ c % 2 = 1 /\ b <= Len(section') + 1
       /\ section'[c] = p /\ section'[c + 2] = 2 * BlockCells(p)
       /\ f \in Nat /\ f = Cardinality(w)
  <2>1. b <= Len(section') + 1
    BY <1>2, <1>3, <1>5
  <2> QED
    BY <1>2, <1>12, <2>1
<1>14. /\ \A k \in (c + 4)..(c + 3 + f) : /\ section'[k] % Page \in w
                                         /\ section'[k] = EntryOf(p, section'[k] % Page)
       /\ \A o \in w : \E k \in (c + 4)..(c + 3 + f) : section'[k] % Page = o
       /\ \A k, l \in (c + 4)..(c + 3 + f) : k < l => section'[k] % Page < section'[l] % Page
       /\ \A k \in (c + 4 + f)..(b - 1) : section'[k] = 0
  BY <1>2, <1>10, <1>11, Zenon
<1> QED
  BY <1>7, <1>8, <1>9, <1>13, <1>14 DEF Laid, b

(* ---- rendering ---- *)

LEMMA InitSInv ==
  ASSUME RInit
  PROVE  SInv
<1>1. /\ Init /\ stage = "rendering" /\ section = <<>> /\ slice = -1 /\ entry = -1 /\ ptr = 1
      /\ starts = <<>> /\ at = 1 /\ end = 1 /\ slices = <<>>
  BY DEF RInit, Init, None
<1>2. RInv
  BY <1>1, InitRInv
<1>3. DOMAIN starts = {} /\ DOMAIN slices = {}
  BY <1>1
<1>4. Len(section) = 0 /\ section \in Seq(Nat)
  BY <1>1
<1>5. Rendering
  BY <1>1, <1>3, <1>4 DEF Rendering, Tiled, None
<1>6. Loading
  BY <1>1 DEF Loading
<1> QED
  BY <1>2, <1>5, <1>6 DEF SInv

\* Before the last relocation is applied nothing is rendered.
LEMMA RelocateSInv ==
  ASSUME SInv, FieldsFit, FieldsClear, Relocate
  PROVE  SInv'
<1>1. RInv /\ Rendering /\ Next /\ UNCHANGED rvars
  BY DEF SInv, Relocate
<1>2. RInv'
  BY <1>1, NextRInv
<1>3. n \in Nat /\ Len(input) \in Nat
  BY <1>1, NextReloc DEF RInv
<1>4. n <= Len(input)
  BY <1>1 DEF Next, SkipReloc, ApplyReloc, AbortReloc
<1>5. slice = -1 /\ stage = "rendering"
  BY <1>1, <1>3, <1>4 DEF Rendering, Relocated, None
<1>6. DOMAIN starts = {}
  <2>1. \A p \in DOMAIN slices : p \in Nat
    BY <1>1 DEF RInv, IInv, Sliced
  <2>2. \A p \in Nat : ~(p <= -1)
    OBVIOUS
  <2> QED
    BY <1>1, <1>5, <2>1, <2>2 DEF Rendering
<1>7. {p \in DOMAIN slices' : p <= slice'} = {}
  <2>1. \A p \in DOMAIN slices' : p \in Nat
    BY <1>2 DEF RInv, IInv, Sliced
  <2>2. \A p \in Nat : ~(p <= -1)
    OBVIOUS
  <2> QED
    BY <1>1, <1>5, <2>1, <2>2 DEF rvars
<1>8. UNCHANGED <<stage, section, slice, entry, ptr, starts, at, end>>
  BY <1>1 DEF rvars
<1>9. Rendering'
  BY <1>1, <1>5, <1>6, <1>7, <1>8 DEF Rendering, Tiled, None
<1>10. Loading'
  BY <1>5, <1>8 DEF Loading
<1> QED
  BY <1>2, <1>9, <1>10 DEF SInv

\* Rendering and loading leave what Reloc is about alone.
LEMMA VarsKept ==
  ASSUME SInv, FieldsFit, FieldsClear, UNCHANGED vars
  PROVE  /\ RInv' /\ Relocated' = Relocated /\ Notes' = Notes
         /\ \A p : BlockCells(p)' = BlockCells(p) /\ \A o : EntryOf(p, o)' = EntryOf(p, o)
<1>1. RInv'
  BY NextRInv DEF SInv
<1>2. UNCHANGED <<pc, input, n, slices>>
  BY DEF vars
<1> QED
  BY <1>1, <1>2 DEF Relocated, Notes, BlockCells, EntryOf

\* What is known where a block begins: everything before it is complete.
LEMMA BlockDone ==
  ASSUME SInv, EntriesLeft = {}, NEW p \in DOMAIN starts
  PROVE  Written(p) = DOMAIN slices[p] /\ Filled(p) = Count(p)
<1>1. Written(p) = DOMAIN slices[p]
  BY DEF Written
<1>2. Laid(p)
  BY DEF SInv, Rendering
<1> QED
  BY <1>1, <1>2 DEF Laid, Count, Filled

\* A block is appended behind the others.
LEMMA SliceLays ==
  ASSUME SInv, FieldsFit, FieldsClear, RenderSlice, NEW p \in PagesLeft, slice' = p,
         \A q \in PagesLeft : p <= q, section' = section \o Block(p),
         starts' = [q \in DOMAIN starts \cup {p} |-> IF q = p THEN Len(section) + 1 ELSE starts[q]]
  PROVE  /\ p \in DOMAIN slices /\ p \in Nat /\ p \notin DOMAIN starts
         /\ DOMAIN starts' = DOMAIN starts \cup {p}
         /\ DOMAIN starts' = {q \in DOMAIN slices : q <= p}
         /\ \A q \in DOMAIN starts : q < p /\ q # p /\ starts'[q] = starts[q]
         /\ section' \in Seq(Nat) /\ Len(section) \in Nat
         /\ Len(section') = Len(section) + BlockCells(p)
         /\ \A k \in 1..Len(section) : section'[k] = section[k]
         /\ \A k \in 1..BlockCells(p) : section'[Len(section) + k] = Block(p)[k]
<1>1. IInv /\ Rendering
  BY DEF SInv, RInv
<1>2. p \in DOMAIN slices /\ p > slice
  BY DEF PagesLeft
<1>3. p \in Nat /\ BlockCells(p) \in Nat
  BY <1>1, <1>2, SliceParts
<1>4. \A q \in DOMAIN slices : q \in Nat
  BY <1>1 DEF IInv, Sliced
<1>5. slice \in Int
  BY <1>1, <1>4 DEF Rendering, None
<1>6. DOMAIN starts = {q \in DOMAIN slices : q <= slice}
  BY <1>1 DEF Rendering
<1>7. \A q \in DOMAIN starts : q < p /\ q # p
  BY <1>2, <1>3, <1>4, <1>5, <1>6
<1>8. DOMAIN starts' = DOMAIN starts \cup {p}
  OBVIOUS
<1>9. DOMAIN starts \cup {p} = {q \in DOMAIN slices : q <= p}
  <2>1. ASSUME NEW q \in DOMAIN slices, q <= p PROVE q \in DOMAIN starts \cup {p}
    <3>1. CASE q <= slice
      BY <1>6, <3>1
    <3>2. CASE q > slice
      <4>1. q \in PagesLeft
        BY <3>2 DEF PagesLeft
      <4>2. p <= q
        BY <4>1
      <4> QED
        BY <1>3, <1>4, <2>1, <4>2
    <3> QED
      BY <1>4, <1>5, <3>1, <3>2
  <2>2. \A q \in DOMAIN starts \cup {p} : q \in DOMAIN slices /\ q <= p
    BY <1>2, <1>3, <1>4, <1>6, <1>7
  <2> QED
    BY <2>1, <2>2
<1>10. \A q \in DOMAIN starts : starts'[q] = starts[q]
  BY <1>7
<1>11. Block(p) \in Seq(Nat) /\ Len(Block(p)) = BlockCells(p)
  <2> DEFINE b == BlockCells(p)
  <2>1. b \in Nat /\ 2 * b \in Nat
    BY <1>3
  <2>2. Block(p) = [k \in 1..b |-> IF k = 1 THEN p ELSE IF k = 3 THEN 2 * b ELSE 0]
    BY DEF Block
  <2> HIDE DEF b
  <2>3. Block(p) \in [1..b -> Nat]
    BY <1>3, <2>1, <2>2
  <2>4. Block(p) \in Seq(Nat) /\ Len(Block(p)) = b
    BY <2>1, <2>3
  <2> QED
    BY <2>4 DEF b
<1>12. section \in Seq(Nat)
  BY <1>1 DEF Rendering
<1> DEFINE blk == Block(p)
<1> HIDE DEF blk
<1>13. /\ section' \in Seq(Nat) /\ Len(section) \in Nat
       /\ Len(section') = Len(section) + Len(blk)
       /\ \A k \in 1..Len(section) : section'[k] = section[k]
       /\ \A k \in 1..Len(blk) : section'[Len(section) + k] = blk[k]
  <2>1. section' = section \o blk /\ blk \in Seq(Nat)
    BY <1>11 DEF blk
  <2> QED
    BY <1>12, <2>1
<1> QED
  BY <1>2, <1>3, <1>7, <1>8, <1>9, <1>10, <1>11, <1>13 DEF blk

LEMMA RenderSliceSInv ==
  ASSUME SInv, FieldsFit, FieldsClear, RenderSlice
  PROVE  SInv'
<1>1. /\ stage = "rendering" /\ Relocated /\ EntriesLeft = {}
      /\ entry' = -1 /\ ptr' = Len(section) + 5
      /\ UNCHANGED <<vars, stage, image, page, at, end>>
  BY DEF RenderSlice, None
<1>2. PICK p \in PagesLeft :
        /\ \A q \in PagesLeft : p <= q
        /\ slice' = p
        /\ section' = section \o Block(p)
        /\ starts' = [q \in DOMAIN starts \cup {p} |-> IF q = p THEN Len(section) + 1 ELSE starts[q]]
  BY DEF RenderSlice
<1>3. /\ p \in DOMAIN slices /\ p \in Nat /\ p \notin DOMAIN starts
      /\ DOMAIN starts' = DOMAIN starts \cup {p}
      /\ DOMAIN starts' = {q \in DOMAIN slices : q <= p}
      /\ \A q \in DOMAIN starts : q < p /\ q # p /\ starts'[q] = starts[q]
      /\ section' \in Seq(Nat) /\ Len(section) \in Nat
      /\ Len(section') = Len(section) + BlockCells(p)
      /\ \A k \in 1..Len(section) : section'[k] = section[k]
      /\ \A k \in 1..BlockCells(p) : section'[Len(section) + k] = Block(p)[k]
  BY <1>2, SliceLays
<1>4. /\ RInv' /\ Relocated' = Relocated /\ slices' = slices
      /\ BlockCells(p)' = BlockCells(p)
  BY <1>1, VarsKept DEF vars
<1>5. IInv /\ Rendering
  BY DEF SInv, RInv
<1>6. /\ BlockCells(p) \in Nat /\ BlockCells(p) % 2 = 0 /\ BlockCells(p) >= 4
      /\ Count(p) \in Nat
  BY <1>3, <1>5, SliceParts
<1>7. starts'[p] = Len(section) + 1
  BY <1>2
<1>8. Behind(p)' = Len(section') + 1
  BY <1>3, <1>4, <1>6, <1>7 DEF Behind
<1>9. \A q \in DOMAIN starts : Laid(q)' /\ Behind(q)' = Behind(q)
  <2> SUFFICES ASSUME NEW q \in DOMAIN starts PROVE Laid(q)' /\ Behind(q)' = Behind(q)
    OBVIOUS
  <2>1. Written(q) = DOMAIN slices[q] /\ Filled(q) = Count(q)
    BY <1>1, BlockDone
  <2>2. Written(q)' = DOMAIN slices[q] /\ Filled(q)' = Count(q)
    BY <1>2, <1>3, <1>4 DEF Written, Filled, Count
  <2>3. Len(section') \in Nat /\ Len(section) <= Len(section')
    BY <1>3, <1>6
  <2>4. starts'[q] = starts[q]
    BY <1>3
  <2> QED
    BY <1>3, <1>4, <2>1, <2>2, <2>3, <2>4, LaidKept
<1>10. Laid(p)'
  <2> DEFINE l == Len(section)
  <2>1. l \in Nat /\ l % 2 = 0
    BY <1>3, <1>5 DEF Rendering, Tiled
  <2>2. EntriesLeft' = DOMAIN slices[p]
    <3>1. EntriesLeft' = {o \in DOMAIN slices[p] : o > -1}
      BY <1>1, <1>2, <1>3, <1>4 DEF EntriesLeft, None
    <3>2. \A o \in DOMAIN slices[p] : o > -1
      <4>1. \A o \in DOMAIN slices[p] : o \in Nat
        BY <1>3, <1>5, EntryParts
      <4> QED
        BY <4>1
    <3> QED
      BY <3>1, <3>2
  <2>3. Written(p)' = {}
    BY <1>2, <1>4, <2>2 DEF Written
  <2>4. Filled(p)' = 0
    BY <1>1, <1>2, <1>3, <1>7 DEF Filled
  <2>5. EntryCells(p)' = {}
    <3>1. EntryCells(p)' = (l + 1 + 4)..(l + 1 + 3 + 0)
      BY <1>7, <2>4 DEF EntryCells
    <3> QED
      BY <2>1, <3>1
  <2>6. section'[l + 1] = p /\ section'[l + 3] = 2 * BlockCells(p)
    <3>1. 1 \in 1..BlockCells(p) /\ 3 \in 1..BlockCells(p)
      BY <1>6
    <3>2. Block(p)[1] = p /\ Block(p)[3] = 2 * BlockCells(p)
      BY <3>1 DEF Block
    <3> QED
      BY <1>3, <3>1, <3>2
  <2>7. \A k \in (l + 1 + 4)..(l + BlockCells(p)) : section'[k] = 0
    <3> SUFFICES ASSUME NEW k \in (l + 5)..(l + BlockCells(p)) PROVE section'[k] = 0
      BY <2>1
    <3> DEFINE j == k - l
    <3>1. j \in 1..BlockCells(p) /\ j # 1 /\ j # 3 /\ k = l + j
      BY <1>6, <2>1
    <3> HIDE DEF j
    <3>2. Block(p)[j] = 0
      BY <3>1 DEF Block
    <3> QED
      BY <1>3, <3>1, <3>2
  <2>8. (l + 1) % 2 = 1 /\ l + 1 \in Nat /\ l + 1 >= 1 /\ l + 1 + 2 = l + 3
    BY <2>1
  <2>9. Cardinality({}) = 0
    BY FS_EmptySet
  <2>10. /\ starts'[p] = l + 1 /\ Behind(p)' = l + BlockCells(p) + 1
         /\ Behind(p)' <= Len(section') + 1
         /\ Behind(p)' - 1 = l + BlockCells(p) /\ l + 1 + 4 + 0 = l + 1 + 4
    BY <1>3, <1>6, <1>7, <1>8, <2>1
  <2> HIDE DEF l
  <2> QED
    BY <1>4, <2>3, <2>4, <2>5, <2>6, <2>7, <2>8, <2>9, <2>10 DEF Laid
<1>11. Tiled'
  <2>1. /\ \A q, r \in DOMAIN starts : q < r => Behind(q) <= starts[r]
        /\ \A q \in DOMAIN starts :
             Behind(q) = Len(section) + 1 \/ \E r \in DOMAIN starts : starts[r] = Behind(q)
        /\ section = <<>> \/ \E q \in DOMAIN starts : starts[q] = 1
        /\ Len(section) % 2 = 0
    BY <1>5 DEF Rendering, Tiled
  <2>2. \A q \in DOMAIN starts : Behind(q) <= Len(section) + 1 /\ q \in Nat
    <3>1. \A q \in DOMAIN starts : Behind(q) <= Len(section) + 1
      BY <1>5 DEF Rendering, Laid
    <3>2. \A q \in DOMAIN starts : q \in Nat
      BY <1>5, SliceParts DEF Rendering
    <3> QED
      BY <3>1, <3>2
  <2>3. \A q, r \in DOMAIN starts' : q < r => Behind(q)' <= starts'[r]
    <3> SUFFICES ASSUME NEW q \in DOMAIN starts', NEW r \in DOMAIN starts', q < r
                 PROVE  Behind(q)' <= starts'[r]
      BY Zenon
    <3>1. CASE r = p
      <4>1. q # p
        BY <1>3, <3>1
      <4>2. q \in DOMAIN starts
        BY <1>3, <4>1
      <4> QED
        BY <1>7, <1>9, <2>2, <3>1, <4>2
    <3>2. CASE r # p
      <4>1. r \in DOMAIN starts /\ r < p
        BY <1>3, <3>2
      <4>2. q # p
        BY <1>3, <2>2, <4>1
      <4>3. q \in DOMAIN starts
        BY <1>3, <4>2
      <4> QED
        BY <1>3, <1>9, <2>1, <4>1, <4>3
    <3> QED
      BY <3>1, <3>2
  <2>4. \A q \in DOMAIN starts' :
          Behind(q)' = Len(section') + 1 \/ \E r \in DOMAIN starts' : starts'[r] = Behind(q)'
    <3> SUFFICES ASSUME NEW q \in DOMAIN starts', Behind(q)' # Len(section') + 1
                 PROVE  \E r \in DOMAIN starts' : starts'[r] = Behind(q)'
      BY Zenon
    <3>1. q # p
      BY <1>8
    <3>2. q \in DOMAIN starts
      BY <1>3, <3>1
    <3>3. CASE Behind(q) = Len(section) + 1
      BY <1>3, <1>7, <1>9, <3>2, <3>3
    <3>4. CASE \E r \in DOMAIN starts : starts[r] = Behind(q)
      BY <1>3, <1>9, <3>2, <3>4
    <3> QED
      BY <2>1, <3>2, <3>3, <3>4
  <2>5. \E q \in DOMAIN starts' : starts'[q] = 1
    <3>1. CASE section = <<>>
      <4>1. Len(section) = 0
        BY <3>1
      <4>2. starts'[p] = 1
        BY <1>7, <4>1
      <4> QED
        BY <1>3, <4>2
    <3>2. CASE \E q \in DOMAIN starts : starts[q] = 1
      BY <1>3, <3>2
    <3> QED
      BY <2>1, <3>1, <3>2
  <2>6. Len(section') % 2 = 0
    <3>1. Len(section) \in Int /\ BlockCells(p) \in Int /\ 2 \in Nat \ {0}
      BY <1>3, <1>6
    <3> QED
      BY <1>3, <1>6, <2>1, <3>1, SumOfMultiples
  <2> QED
    BY <2>3, <2>4, <2>5, <2>6 DEF Tiled
<1>12. Rendering'
  <2>1. \A q \in DOMAIN starts' : Laid(q)'
    BY <1>3, <1>9, <1>10
  <2>2. /\ entry' \in Int /\ ptr' \in Int /\ slice' \in DOMAIN slices'
    BY <1>1, <1>2, <1>3, <1>4
  <2>3. stage' = "rendering" /\ at' = 1 /\ end' = 1
    BY <1>1, <1>5 DEF Rendering
  <2>4. DOMAIN starts' = {q \in DOMAIN slices' : q <= slice'}
    BY <1>2, <1>3, <1>4
  <2> QED
    BY <1>1, <1>3, <1>4, <1>11, <2>1, <2>2, <2>3, <2>4 DEF Rendering
<1>13. Loading'
  BY <1>1 DEF Loading
<1> QED
  BY <1>4, <1>12, <1>13 DEF SInv

\* The next entry goes into the block's first free cell.
LEMMA EntryFits ==
  ASSUME SInv, slice # None, NEW o \in EntriesLeft, \A q \in EntriesLeft : o <= q
  PROVE  /\ slice \in DOMAIN starts /\ o \in DOMAIN slices[slice] /\ o \notin Written(slice)
         /\ \A q \in Written(slice) : q < o
         /\ Written(slice) \cup {o} = DOMAIN slices[slice] \ {q \in DOMAIN slices[slice] : q > o}
         /\ Cardinality(Written(slice) \cup {o}) = Filled(slice) + 1
         /\ ptr = starts[slice] + 4 + Filled(slice) /\ Filled(slice) \in Nat
         /\ starts[slice] \in Nat /\ starts[slice] >= 1
         /\ ptr \in 1..Len(section) /\ ptr < Behind(slice) /\ Behind(slice) \in Nat
         /\ Behind(slice) <= Len(section) + 1
<1> DEFINE p == slice
           d == DOMAIN slices[p]
           w == Written(p)
<1>1. IInv /\ Rendering
  BY DEF SInv, RInv
<1>2. p \in DOMAIN slices
  BY <1>1 DEF Rendering
<1>3. /\ p \in Nat /\ d \subseteq 0..(Page - 1) /\ IsFiniteSet(d) /\ Count(p) \in Nat
      /\ BlockCells(p) \in Nat /\ 4 + Count(p) <= BlockCells(p)
  BY <1>1, <1>2, SliceParts
<1>4. p \in DOMAIN starts
  BY <1>1, <1>2, <1>3 DEF Rendering
<1>5. /\ starts[p] \in Nat /\ starts[p] >= 1
      /\ Behind(p) <= Len(section) + 1 /\ Filled(p) \in Nat /\ Filled(p) = Cardinality(w)
  BY <1>1, <1>4 DEF Rendering, Laid
<1>6. EntriesLeft = {q \in d : q > entry} /\ entry \in Int
  BY <1>1 DEF EntriesLeft, Rendering
<1>7. w = d \ EntriesLeft
  BY DEF Written
<1>8. \A q \in d : q \in Int
  BY <1>3
<1>9. o \in d /\ o > entry /\ o \notin w
  BY <1>6, <1>7
<1>10. \A q \in w : q < o
  BY <1>6, <1>7, <1>8, <1>9
<1>11. w \cup {o} = d \ {q \in d : q > o}
  <2>1. ASSUME NEW q \in d, ~(q > o), q \notin w PROVE q = o
    <3>1. q \in EntriesLeft
      BY <1>7, <2>1
    <3>2. o <= q
      BY <3>1
    <3> QED
      BY <1>8, <1>9, <2>1, <3>2
  <2>2. \A q \in w \cup {o} : q \in d /\ ~(q > o)
    BY <1>7, <1>8, <1>9, <1>10
  <2> QED
    BY <2>1, <2>2
<1>12. IsFiniteSet(w) /\ IsFiniteSet(w \cup {o}) /\ w \cup {o} \subseteq d
  <2>1. w \subseteq d /\ w \cup {o} \subseteq d
    BY <1>7, <1>9
  <2> QED
    BY <1>3, <2>1, FS_Subset
<1>13. Cardinality(w \cup {o}) = Filled(p) + 1
  BY <1>5, <1>9, <1>12, FS_AddElement
<1>14. Filled(p) + 1 <= Count(p)
  BY <1>3, <1>12, <1>13, FS_Subset DEF Count
<1>15. ptr \in Int /\ Len(section) \in Nat
  BY <1>1 DEF Rendering
<1>16. ptr = starts[p] + 4 + Filled(p)
  BY <1>5, <1>15 DEF Filled
<1>17. Behind(p) = starts[p] + BlockCells(p)
  BY DEF Behind
<1> HIDE DEF p, d, w
<1>18. ptr \in 1..Len(section) /\ ptr < Behind(p) /\ Behind(p) \in Nat
  <2>1. /\ Count(p) \in Nat /\ BlockCells(p) \in Nat /\ 4 + Count(p) <= BlockCells(p)
        /\ starts[p] \in Nat /\ starts[p] >= 1 /\ Filled(p) \in Nat
        /\ Behind(p) <= Len(section) + 1
    BY <1>3, <1>5
  <2> QED
    BY <1>14, <1>15, <1>16, <1>17, <2>1
<1> QED
  BY <1>4, <1>5, <1>9, <1>10, <1>11, <1>13, <1>16, <1>18 DEF p, d, w

\* The block the entry is written in.
LEMMA EntryLays ==
  ASSUME SInv, FieldsFit, FieldsClear, RenderEntry, NEW o \in EntriesLeft,
         \A q \in EntriesLeft : o <= q, entry' = o,
         section' = [section EXCEPT ![ptr] = EntryOf(slice, o)], NEW p, p = slice
  PROVE  Laid(p)' /\ Behind(p)' = Behind(p)
<1> DEFINE c == starts[p]
           f == Filled(p)
           w == Written(p)
           b == Behind(p)
           l == Len(section)
<1>1. UNCHANGED <<vars, slice, starts>> /\ ptr' = ptr + 1
  BY DEF RenderEntry
<1>2. slice # None
  BY DEF EntriesLeft
<1>3. /\ p \in DOMAIN starts /\ o \in DOMAIN slices[p] /\ o \notin w
      /\ \A q \in w : q < o
      /\ w \cup {o} = DOMAIN slices[p] \ {q \in DOMAIN slices[p] : q > o}
      /\ Cardinality(w \cup {o}) = f + 1
      /\ ptr = c + 4 + f /\ f \in Nat
      /\ c \in Nat /\ c >= 1
      /\ ptr \in 1..l /\ ptr < b /\ b \in Nat /\ b <= l + 1
  BY <1>2, EntryFits
<1>4. IInv /\ Rendering /\ p \in DOMAIN slices
  BY <1>3 DEF SInv, RInv, Rendering
<1>5. slices' = slices /\ BlockCells(p)' = BlockCells(p) /\ \A q : EntryOf(p, q)' = EntryOf(p, q)
  BY <1>1, VarsKept DEF vars
<1>6. /\ EntryOf(p, o) \in Nat /\ EntryOf(p, o) % Page = o
      /\ \A q \in DOMAIN slices[p] : q \in Nat
  BY <1>3, <1>4, EntryParts
<1>7. section \in Seq(Nat) /\ l \in Nat
  BY <1>4 DEF Rendering
<1>8. /\ section' \in Seq(Nat) /\ Len(section') = l /\ section'[ptr] = EntryOf(p, o)
      /\ \A k \in 1..l : k # ptr => section'[k] = section[k]
  BY <1>3, <1>6, <1>7
<1>9. /\ c % 2 = 1 /\ section[c] = p /\ section[c + 2] = 2 * BlockCells(p)
      /\ \A k \in (c + 4)..(c + 3 + f) : /\ section[k] % Page \in w
                                        /\ section[k] = EntryOf(p, section[k] % Page)
      /\ \A q \in w : \E k \in (c + 4)..(c + 3 + f) : section[k] % Page = q
      /\ \A k, m \in (c + 4)..(c + 3 + f) : k < m => section[k] % Page < section[m] % Page
      /\ \A k \in (c + 4 + f)..(b - 1) : section[k] = 0
  BY <1>3, <1>4 DEF Rendering, Laid, EntryCells
<1>10. Written(p)' = w \cup {o}
  <2>1. EntriesLeft' = {q \in DOMAIN slices[p] : q > o}
    BY <1>1, <1>2, <1>5 DEF EntriesLeft
  <2>2. Written(p)' = DOMAIN slices[p] \ EntriesLeft'
    BY <1>1, <1>5 DEF Written
  <2> QED
    BY <1>3, <2>1, <2>2
<1>11. Filled(p)' = f + 1
  <2>1. Filled(p)' = (ptr + 1) - (c + 4)
    BY <1>1 DEF Filled
  <2> QED
    BY <1>3, <2>1
<1>12. Behind(p)' = b
  BY <1>1, <1>5 DEF Behind
<1>13. starts'[p] = c /\ slice' = p
  BY <1>1
<1>w. w \subseteq DOMAIN slices[p]
  BY DEF Written
<1> HIDE DEF c, f, w, b, l
<1>14. EntryCells(p)' = (c + 4)..(c + 3 + f) \cup {ptr}
  <2>1. EntryCells(p)' = (c + 4)..(c + 3 + (f + 1))
    BY <1>11, <1>13 DEF EntryCells, c
  <2> QED
    BY <1>3, <2>1
<1>15. \A k \in (c + 4)..(c + 3 + f) : k \in 1..l /\ k # ptr /\ k < ptr /\ section'[k] = section[k]
  <2>1. \A k \in (c + 4)..(c + 3 + f) : k \in 1..l /\ k # ptr /\ k < ptr
    BY <1>3, <1>7
  <2> QED
    BY <1>8, <2>1
<1>16. section'[ptr] % Page = o /\ section'[ptr] = EntryOf(p, o)
  BY <1>6, <1>8
<1>17. \A k \in EntryCells(p)' : /\ section'[k] % Page \in w \cup {o}
                                /\ section'[k] = EntryOf(p, section'[k] % Page)
  BY <1>9, <1>14, <1>15, <1>16
<1>18. \A q \in w \cup {o} : \E k \in EntryCells(p)' : section'[k] % Page = q
  BY <1>9, <1>14, <1>15, <1>16
<1>19. \A k, m \in EntryCells(p)' : k < m => section'[k] % Page < section'[m] % Page
  <2> SUFFICES ASSUME NEW k \in EntryCells(p)', NEW m \in EntryCells(p)', k < m
               PROVE  section'[k] % Page < section'[m] % Page
    BY Zenon
  <2>1. k # ptr
    <3>1. ~(ptr < ptr)
      BY <1>3
    <3>2. \A j \in (c + 4)..(c + 3 + f) : ~(ptr < j)
      BY <1>3
    <3> QED
      BY <1>14, <3>1, <3>2
  <2>2. k \in (c + 4)..(c + 3 + f)
    BY <1>14, <2>1
  <2>3. CASE m = ptr
    <3>1. section'[k] % Page \in w
      BY <1>9, <1>15, <2>2
    <3> QED
      BY <1>3, <1>16, <2>3, <3>1
  <2>4. CASE m # ptr
    <3>1. m \in (c + 4)..(c + 3 + f)
      BY <1>14, <2>4
    <3> QED
      BY <1>9, <1>15, <2>2, <3>1
  <2> QED
    BY <2>3, <2>4
<1>20. \A k \in (c + 4 + (f + 1))..(b - 1) : section'[k] = 0
  <2>1. \A k \in (c + 4 + (f + 1))..(b - 1) : k \in (c + 4 + f)..(b - 1) /\ k \in 1..l /\ k # ptr
    BY <1>3, <1>7
  <2> QED
    BY <1>8, <1>9, <2>1
<1>21. section'[c] = section[c] /\ section'[c + 2] = section[c + 2]
  <2>1. c \in 1..l /\ c # ptr /\ c + 2 \in 1..l /\ c + 2 # ptr
    BY <1>3, <1>7
  <2> QED
    BY <1>8, <2>1
<1>22. f + 1 \in Nat /\ f + 1 = Cardinality(w \cup {o})
  BY <1>3
<1>23. Behind(p)' <= Len(section') + 1
  BY <1>3, <1>8, <1>12
<1>24. Behind(p)' - 1 = b - 1
  BY <1>12
<1>25. Laid(p)'
  BY <1>3, <1>5, <1>9, <1>10, <1>11, <1>13, <1>17, <1>18, <1>19, <1>20, <1>21, <1>22, <1>23, <1>24
     DEF Laid, c
<1> QED
  BY <1>12, <1>13, <1>25 DEF b

LEMMA RenderEntrySInv ==
  ASSUME SInv, FieldsFit, FieldsClear, RenderEntry
  PROVE  SInv'
<1>1. /\ stage = "rendering" /\ Relocated /\ ptr' = ptr + 1
      /\ UNCHANGED <<vars, stage, slice, starts, image, page, at, end>>
  BY DEF RenderEntry
<1>2. PICK o \in EntriesLeft : /\ \A q \in EntriesLeft : o <= q
                               /\ entry' = o
                               /\ section' = [section EXCEPT ![ptr] = EntryOf(slice, o)]
  BY DEF RenderEntry
<1>3. slice # None
  BY DEF EntriesLeft
<1>4. /\ slice \in DOMAIN starts /\ o \in DOMAIN slices[slice]
      /\ starts[slice] \in Nat /\ ptr = starts[slice] + 4 + Filled(slice) /\ Filled(slice) \in Nat
      /\ ptr \in 1..Len(section) /\ ptr < Behind(slice)
  BY <1>2, <1>3, EntryFits
<1>5. IInv /\ Rendering /\ slice \in DOMAIN slices
  BY <1>4 DEF SInv, RInv, Rendering
<1>6. RInv' /\ Relocated' = Relocated /\ slices' = slices
  BY <1>1, VarsKept DEF vars
<1>7. EntryOf(slice, o) \in Nat /\ o \in Nat
  BY <1>4, <1>5, EntryParts
<1>8. /\ section' \in Seq(Nat) /\ Len(section') = Len(section) /\ Len(section) \in Nat
      /\ \A k \in 1..Len(section) : k # ptr => section'[k] = section[k]
  <2>1. section \in Seq(Nat)
    BY <1>5 DEF Rendering
  <2> QED
    BY <1>2, <1>4, <1>7, <2>1
<1>9. \A q \in DOMAIN starts : Laid(q)' /\ Behind(q)' = Behind(q)
  <2> SUFFICES ASSUME NEW q \in DOMAIN starts PROVE Laid(q)' /\ Behind(q)' = Behind(q)
    OBVIOUS
  <2>1. CASE q = slice
    BY <1>2, <2>1, EntryLays
  <2>2. CASE q # slice
    <3>1. q <= slice /\ q \in DOMAIN slices
      BY <1>5 DEF Rendering
    <3>2. q \in Nat /\ slice \in Nat
      BY <1>5, <3>1, SliceParts
    <3>3. Behind(q) <= starts[slice]
      BY <1>4, <1>5, <2>2, <3>1, <3>2 DEF Rendering, Tiled
    <3>4. Behind(q) \in Int /\ starts[q] \in Nat
      <4>1. starts[q] \in Nat
        BY <1>5 DEF Rendering, Laid
      <4>2. BlockCells(q) \in Nat
        BY <1>5, <3>1, SliceParts
      <4> QED
        BY <4>1, <4>2 DEF Behind
    <3>5. \A k \in 1..Len(section) : starts[q] <= k /\ k < Behind(q) => section'[k] = section[k]
      <4>1. \A k \in 1..Len(section) : k < Behind(q) => k # ptr
        BY <1>4, <3>3, <3>4
      <4> QED
        BY <1>8, <4>1
    <3>6. Filled(q)' = Filled(q) /\ Written(q)' = Written(q) /\ starts'[q] = starts[q]
      BY <1>1, <1>6, <2>2 DEF Filled, Written, Count
    <3>7. Len(section') \in Nat /\ Len(section) <= Len(section')
      BY <1>8
    <3> QED
      BY <1>6, <3>5, <3>6, <3>7, LaidKept
  <2> QED
    BY <2>1, <2>2
<1>10. Tiled'
  <2>1. section' = <<>> \/ \E q \in DOMAIN starts : starts[q] = 1
    <3>1. section # <<>>
      BY <1>4
    <3> QED
      BY <1>5, <3>1 DEF Rendering, Tiled
  <2>2. starts' = starts
    BY <1>1
  <2> QED
    BY <1>5, <1>8, <1>9, <2>1, <2>2 DEF Rendering, Tiled
<1>11. Rendering'
  <2>1. \A q \in DOMAIN starts' : Laid(q)'
    BY <1>1, <1>9
  <2>2. entry' \in Int /\ ptr' \in Int
    BY <1>1, <1>2, <1>5, <1>7 DEF Rendering
  <2> QED
    BY <1>1, <1>5, <1>6, <1>8, <1>10, <2>1, <2>2 DEF Rendering
<1>12. Loading'
  BY <1>1 DEF Loading
<1> QED
  BY <1>6, <1>11, <1>12 DEF SInv

\* An address is that of one block at most, and of one entry in it.
LEMMA CellNote ==
  ASSUME SInv, EntriesLeft = {}, NEW p \in DOMAIN starts, NEW k \in EntryCells(p)
  PROVE  /\ NoteAt(p, k) \in Notes /\ section[k] \div Page \in {2, 3, 4}
         /\ section[k] % Page \in DOMAIN slices[p]
         /\ NoteAt(p, k) = <<p + (section[k] % Page), slices[p][section[k] % Page]>>
<1>1. IInv /\ Laid(p) /\ p \in DOMAIN slices
  BY DEF SInv, RInv, Rendering
<1>2. Written(p) = DOMAIN slices[p]
  BY BlockDone
<1>3. section[k] % Page \in DOMAIN slices[p] /\ section[k] = EntryOf(p, section[k] % Page)
  BY <1>1, <1>2 DEF Laid
<1> DEFINE o == section[k] % Page
<1>4. o \in DOMAIN slices[p] /\ section[k] = EntryOf(p, o)
  BY <1>3
<1> HIDE DEF o
<1>5. section[k] \div Page = slices[p][o] /\ slices[p][o] \in {2, 3, 4}
  BY <1>1, <1>4, EntryParts
<1>6. <<p + o, slices[p][o]>> \in Notes
  BY <1>1, <1>4 DEF Notes
<1> QED
  BY <1>4, <1>5, <1>6 DEF NoteAt, o

\* Behind the entries of a block there are only zeros.
LEMMA PaddingCell ==
  ASSUME SInv, EntriesLeft = {}, NEW p \in DOMAIN starts, NEW k \in Int,
         starts[p] + 4 <= k, k < Behind(p), k \notin EntryCells(p)
  PROVE  section[k] = 0 /\ section[k] \div Page = 0
<1>1. Laid(p) /\ p \in DOMAIN slices /\ IInv
  BY DEF SInv, RInv, Rendering
<1>2. /\ starts[p] \in Nat /\ Filled(p) \in Nat /\ BlockCells(p) \in Nat
      /\ \A j \in (starts[p] + 4 + Filled(p))..(Behind(p) - 1) : section[j] = 0
  BY <1>1, SliceParts DEF Laid
<1>3. k \in (starts[p] + 4 + Filled(p))..(Behind(p) - 1)
  BY <1>2 DEF EntryCells, Behind
<1>4. section[k] = 0
  BY <1>2, <1>3
<1>5. 0 \div Page = 0
  <2>1. Page \in Nat \ {0} /\ 0 \in 0..(Page - 1)
    BY Numbers
  <2>2. (0 * Page + 0) \div Page = 0
    BY <2>1, DivModUnique
  <2> QED
    BY <2>1, <2>2
<1> QED
  BY <1>4, <1>5

\* Every note stands in one cell.
LEMMA NoteCell ==
  ASSUME SInv, EntriesLeft = {}, DOMAIN starts = DOMAIN slices, NEW note \in Notes
  PROVE  \E p \in DOMAIN starts : \E k \in EntryCells(p) : note = NoteAt(p, k)
<1>1. PICK p \in DOMAIN slices : \E o \in DOMAIN slices[p] : note = <<p + o, slices[p][o]>>
  BY DEF Notes
<1>2. PICK o \in DOMAIN slices[p] : note = <<p + o, slices[p][o]>>
  BY <1>1
<1>3. Laid(p)
  BY DEF SInv, Rendering
<1>4. Written(p) = DOMAIN slices[p]
  BY BlockDone
<1>5. PICK k \in EntryCells(p) : section[k] % Page = o
  BY <1>3, <1>4 DEF Laid
<1>6. NoteAt(p, k) = <<p + o, slices[p][o]>>
  BY <1>5, CellNote
<1> QED
  BY <1>2, <1>5, <1>6

\* Different pages and offsets make different addresses.
LEMMA AddressParts ==
  ASSUME IInv, NEW p \in DOMAIN slices, NEW q \in DOMAIN slices,
         NEW o \in DOMAIN slices[p], NEW r \in DOMAIN slices[q], p + o = q + r
  PROVE  p = q /\ o = r
<1>1. /\ p \in Nat /\ p % Page = 0 /\ q \in Nat /\ q % Page = 0
      /\ o \in 0..(Page - 1) /\ r \in 0..(Page - 1)
  BY SliceParts
<1>2. Page \in Nat \ {0} /\ p \in Int /\ q \in Int
  BY <1>1, Numbers
<1>3. CASE p < q
  <2>1. p + Page <= q
    BY <1>1, <1>2, <1>3, MultiplesApart
  <2> QED
    BY <1>1, <1>2, <2>1
<1>4. CASE q < p
  <2>1. q + Page <= p
    BY <1>1, <1>2, <1>4, MultiplesApart
  <2> QED
    BY <1>1, <1>2, <2>1
<1>5. CASE p = q
  BY <1>1, <1>5
<1> QED
  BY <1>1, <1>3, <1>4, <1>5

\* No two cells are about the same address.
LEMMA CellsDiffer ==
  ASSUME SInv, EntriesLeft = {}, NEW p \in DOMAIN starts, NEW q \in DOMAIN starts,
         NEW k \in EntryCells(p), NEW l \in EntryCells(q), NoteAt(p, k)[1] = NoteAt(q, l)[1]
  PROVE  p = q /\ k = l
<1> DEFINE o == section[k] % Page
           r == section[l] % Page
<1>1. /\ o \in DOMAIN slices[p] /\ r \in DOMAIN slices[q]
      /\ NoteAt(p, k)[1] = p + o /\ NoteAt(q, l)[1] = q + r
  BY CellNote DEF NoteAt
<1>2. IInv /\ p \in DOMAIN slices /\ q \in DOMAIN slices
  BY DEF SInv, RInv, Rendering
<1>3. o \in 0..(Page - 1) /\ r \in 0..(Page - 1)
  BY <1>1, <1>2, SliceParts
<1>4. Page \in Nat \ {0}
  BY Numbers
<1>5. p + o = q + r
  BY <1>1
<1> HIDE DEF o, r
<1>6. p = q /\ o = r
  BY <1>1, <1>2, <1>5, AddressParts
<1>7. Laid(p)
  BY DEF SInv, Rendering
<1>8. k \in Int /\ l \in Int /\ l \in EntryCells(p)
  BY <1>6, <1>7 DEF EntryCells, Laid
<1>9. ~(o < r) /\ ~(r < o)
  BY <1>3, <1>4, <1>6
<1>10. ~(k < l) /\ ~(l < k)
  BY <1>7, <1>8, <1>9 DEF Laid, o, r
<1> QED
  BY <1>6, <1>8, <1>10

(* ---- one base relocation ---- *)

\* Notes are about cells of memory, and no two about the same one.
LEMMA NotesApart ==
  ASSUME RInv, FieldsFit, FieldsClear, NEW a, NEW t, NEW b, NEW u,
         <<a, t>> \in Notes, <<b, u>> \in Notes
  PROVE  /\ a \in Nat /\ Span(a, t) \subseteq Addresses
         /\ <<a, t>> # <<b, u>> => Span(a, t) \cap Span(b, u) = {}
<1>1. \A x, v : <<x, v>> \in Notes =>
        \E j \in Applied : /\ x = Site(input[j]) /\ v = BaseType(input[j]) /\ x \in Nat
                           /\ Span(x, v) \subseteq Field(input[j])
                           /\ Field(input[j]) \subseteq Addresses
  <2> SUFFICES ASSUME NEW x, NEW v, <<x, v>> \in Notes
               PROVE  \E j \in Applied :
                        /\ x = Site(input[j]) /\ v = BaseType(input[j]) /\ x \in Nat
                        /\ Span(x, v) \subseteq Field(input[j])
                        /\ Field(input[j]) \subseteq Addresses
    OBVIOUS
  <2>1. PICK j \in Applied : BaseType(input[j]) # 0 /\ x = Site(input[j]) /\ v = BaseType(input[j])
    BY DEF RInv, Told
  <2>2. /\ input[j] \in Relocation /\ Reached(input[j]) /\ j \in 1..Len(input)
    BY AppliedField DEF RInv
  <2>3. input[j].offset + Width(input[j]) <= Sections[input[j].target].size
    BY <2>2, FitsNext DEF RInv
  <2>4. /\ Field(input[j]) \subseteq Addresses
        /\ input[j].type \in HalfTypes => Field(input[j]) = {x}
        /\ input[j].type \in WordTypes => Field(input[j]) = {x, x + 1}
    BY <2>1, <2>2, <2>3, FieldInMemory
  <2>5. x \in Nat
    BY <2>1, <2>2, RelocationTypes, Numbers
  <2>6. v = 3 => input[j].type \in WordTypes
    BY <2>1 DEF BaseType, WordTypes
  <2>7. input[j].type \in WordTypes \cup HalfTypes
    BY <2>1 DEF BaseType, WordTypes, HalfTypes
  <2>8. Span(x, v) \subseteq Field(input[j])
    BY <2>4, <2>6, <2>7 DEF Span
  <2> QED
    BY <2>1, <2>4, <2>5, <2>8
<1>2. PICK j \in Applied : /\ a = Site(input[j]) /\ t = BaseType(input[j]) /\ a \in Nat
                           /\ Span(a, t) \subseteq Field(input[j])
                           /\ Field(input[j]) \subseteq Addresses
  BY <1>1
<1>3. PICK k \in Applied : /\ b = Site(input[k]) /\ u = BaseType(input[k])
                           /\ Span(b, u) \subseteq Field(input[k])
  BY <1>1
<1>4. ASSUME <<a, t>> # <<b, u>> PROVE Span(a, t) \cap Span(b, u) = {}
  <2>1. j # k
    BY <1>2, <1>3, <1>4
  <2>2. j \in 1..Len(input) /\ Reached(input[j]) /\ k \in 1..Len(input) /\ Reached(input[k])
    BY NextReloc DEF RInv
  <2>3. \A x \in Field(input[j]) : x \notin Field(input[k])
    BY <2>1, <2>2, FieldsDisjoint DEF RInv
  <2> QED
    BY <1>2, <1>3, <2>3
<1> QED
  BY <1>2, <1>4

\* A cell depends on four notes only.
LEMMA RebasedSame ==
  ASSUME NEW m \in Memory, NEW x, NEW y, NEW a \in Addresses,
         <<a, 3>> \in x <=> <<a, 3>> \in y, <<a - 1, 3>> \in x <=> <<a - 1, 3>> \in y,
         <<a, 2>> \in x <=> <<a, 2>> \in y, <<a, 4>> \in x <=> <<a, 4>> \in y
  PROVE  Rebased(m, x)[a] = Rebased(m, y)[a]
<1>1. DOMAIN m = Addresses
  BY DEF Memory
<1> QED
  BY <1>1 DEF Rebased

LEMMA RebasedNot ==
  ASSUME NEW m \in Memory, NEW x, NEW a \in Addresses,
         <<a, 3>> \notin x, <<a - 1, 3>> \notin x, <<a, 2>> \notin x, <<a, 4>> \notin x
  PROVE  Rebased(m, x)[a] = m[a]
BY RebasedCell

LEMMA RebasedLow ==
  ASSUME NEW m \in Memory, NEW x, NEW a \in Addresses,
         <<a, 3>> \in x, <<a - 1, 3>> \notin x, <<a, 2>> \notin x, <<a, 4>> \notin x
  PROVE  Rebased(m, x)[a] = (WordAt(m, a) + Delta) % Half
BY RebasedCell

LEMMA RebasedHigh ==
  ASSUME NEW m \in Memory, NEW x, NEW a \in Addresses,
         <<a, 3>> \notin x, <<a - 1, 3>> \in x, <<a, 2>> \notin x, <<a, 4>> \notin x
  PROVE  Rebased(m, x)[a] = ((WordAt(m, a - 1) + Delta) % Word) \div Half
BY RebasedCell

LEMMA RebasedHalf ==
  ASSUME NEW m \in Memory, NEW x, NEW a \in Addresses, <<a, 3>> \notin x, <<a - 1, 3>> \notin x
  PROVE  /\ <<a, 2>> \in x /\ <<a, 4>> \notin x => Rebased(m, x)[a] = (m[a] + Delta) % Half
         /\ <<a, 4>> \in x /\ <<a, 2>> \notin x =>
              Rebased(m, x)[a] = (m[a] + Delta \div Half) % Half
BY RebasedCell

\* A function that differs from another in one place, or in two.
LEMMA OneCell ==
  ASSUME NEW S, NEW f, NEW g, f = [b \in S |-> f[b]], g = [b \in S |-> g[b]],
         NEW a \in S, NEW x, g[a] = x, \A b \in S : b # a => g[b] = f[b]
  PROVE  [f EXCEPT ![a] = x] = g
<1> DEFINE h == [f EXCEPT ![a] = x]
<1>1. DOMAIN f = S
  OBVIOUS
<1>2. h = [b \in S |-> IF b = a THEN x ELSE f[b]]
  BY <1>1
<1>3. \A b \in S : (IF b = a THEN x ELSE f[b]) = g[b]
  OBVIOUS
<1>4. [b \in S |-> IF b = a THEN x ELSE f[b]] = [b \in S |-> g[b]]
  BY <1>3
<1> QED
  BY <1>2, <1>4

LEMMA TwoCells ==
  ASSUME NEW S, NEW f, NEW g, f = [b \in S |-> f[b]], g = [b \in S |-> g[b]],
         NEW a \in S, NEW c \in S, a # c, NEW x, NEW y, g[a] = x, g[c] = y,
         \A b \in S : b # a /\ b # c => g[b] = f[b]
  PROVE  [f EXCEPT ![a] = x, ![c] = y] = g
<1> DEFINE h == [f EXCEPT ![a] = x]
<1>1. h = [b \in S |-> h[b]]
  OBVIOUS
<1>2. h[a] = x /\ \A b \in S : b # a => h[b] = f[b]
  OBVIOUS
<1>3. [f EXCEPT ![a] = x, ![c] = y] = [h EXCEPT ![c] = y]
  OBVIOUS
<1> HIDE DEF h
<1>4. \A b \in S : b # c => g[b] = h[b]
  BY <1>2
<1>5. [h EXCEPT ![c] = y] = g
  BY <1>1, <1>4, OneCell
<1> QED
  BY <1>3, <1>5

\* The second slot of type 4, whatever it holds, takes nothing from the high half and
\* adds nothing to it, as Delta has no low half.
LEMMA LowSlotIdle ==
  ASSUME NEW v \in Nat, NEW low \in Nat
  PROVE  (v * Half + Signed(low % Half, Half) + Delta + Half \div 2) \div Half = v + (Delta \div Half)
<1> DEFINE h == Half \div 2
           z == low % Half
           d == Delta \div Half
           b == Half
<1>1. /\ b \in Nat \ {0} /\ h \in Nat /\ b = 2 * h /\ h # 0
      /\ Delta \in Nat /\ Delta % b = 0
  BY Numbers, Even DEF b, h
<1>2. z \in 0..(b - 1)
  BY <1>1, ModType
<1>3. Delta = b * d /\ d \in Nat
  <2>1. Delta = b * (Delta \div b) + (Delta % b) /\ Delta \div b \in Int
    BY <1>1, DivMod
  <2>2. Delta \div b \in Nat
    BY <1>1
  <2> QED
    BY <1>1, <2>1, <2>2
<1> DEFINE r == Signed(z, b) + h
<1>4. r \in 0..(b - 1) /\ Signed(z, b) \in Int
  <2>1. Signed(z, b) = IF z < h THEN z ELSE z - b
    BY DEF Signed
  <2> HIDE DEF z, b, h
  <2> QED
    BY <1>1, <1>2, <2>1
<1> HIDE DEF z, d, h, b
<1>5. v * b + Signed(z, b) + Delta + h = b * (v + d) + r /\ v + d \in Int
  BY <1>1, <1>3, <1>4
<1>6. (b * (v + d) + r) \div b = v + d
  BY <1>1, <1>4, <1>5, QuotientUnique
<1>7. (v * b + Signed(z, b) + Delta + h) \div b = v + d
  BY <1>5, <1>6
<1> QED
  BY <1>7 DEF z, d, h, b

\* Applying one more note to what some of them have made of memory.
LEMMA MovedRebased ==
  ASSUME RInv, FieldsFit, FieldsClear, NEW some \in SUBSET Notes, NEW a, NEW t,
         NEW low \in Nat, <<a, t>> \in Notes, <<a, t>> \notin some, t \in {2, 3, 4}
  PROVE  Moved(Rebased(mem, some), a, t, low) = Rebased(mem, some \cup {<<a, t>>})
<1> DEFINE old == Rebased(mem, some)
           more == some \cup {<<a, t>>}
           new == Rebased(mem, more)
           moved == Moved(old, a, t, low)
<1>1. mem \in Memory /\ DOMAIN mem = Addresses
  BY DEF RInv, IInv, TypeOK, Memory
<1>2. /\ old = [b \in Addresses |-> old[b]]
      /\ new = [b \in Addresses |-> new[b]]
  BY <1>1 DEF Rebased
<1>3. a \in Nat /\ Span(a, t) \subseteq Addresses
  BY NotesApart
<1>4. a \in Addresses /\ (t = 3 => a + 1 \in Addresses)
  BY <1>3 DEF Span
<1>5. \A b \in Addresses : b \in Int
  BY SectionTypes DEF Addresses
\* A cell outside: the new note is not about it.
<1>6. ASSUME NEW b \in Addresses, b \notin Span(a, t) PROVE new[b] = old[b]
  <2>1. <<b, 3>> # <<a, t>> /\ <<b, 2>> # <<a, t>> /\ <<b, 4>> # <<a, t>>
    BY <1>6 DEF Span
  <2>2. <<b - 1, 3>> # <<a, t>>
    <3> SUFFICES ASSUME b - 1 = a, t = 3 PROVE FALSE
      OBVIOUS
    <3>1. b = a + 1
      BY <1>3, <1>5
    <3> QED
      BY <1>6, <3>1 DEF Span
  <2>3. /\ <<b, 3>> \in more <=> <<b, 3>> \in some
        /\ <<b - 1, 3>> \in more <=> <<b - 1, 3>> \in some
        /\ <<b, 2>> \in more <=> <<b, 2>> \in some
        /\ <<b, 4>> \in more <=> <<b, 4>> \in some
    BY <2>1, <2>2
  <2> HIDE DEF more
  <2>4. Rebased(mem, more)[b] = Rebased(mem, some)[b]
    BY <1>1, <2>3, RebasedSame
  <2> QED
    BY <2>4 DEF more
\* A cell inside: no other note is about it.
<1>7. ASSUME NEW b \in Span(a, t), NEW c, NEW u, <<c, u>> \in Notes, b \in Span(c, u)
      PROVE  <<c, u>> = <<a, t>>
  BY <1>7, NotesApart
<1>8. ASSUME NEW b \in Span(a, t)
      PROVE  /\ <<b, 3>> \in Notes => <<b, 3>> = <<a, t>>
             /\ <<b - 1, 3>> \in Notes => <<b - 1, 3>> = <<a, t>>
             /\ <<b, 2>> \in Notes => <<b, 2>> = <<a, t>>
             /\ <<b, 4>> \in Notes => <<b, 4>> = <<a, t>>
  <2>1. b \in Int
    BY <1>3, <1>5
  <2>2. b \in Span(b, 3) /\ b \in Span(b, 2) /\ b \in Span(b, 4)
    BY DEF Span
  <2>3. b \in Span(b - 1, 3)
    BY <2>1 DEF Span
  <2> QED
    BY <1>7, <2>2, <2>3
<1>9. ASSUME NEW b \in Span(a, t) PROVE old[b] = mem[b]
  <2>1. <<b, 3>> \notin some /\ <<b - 1, 3>> \notin some /\ <<b, 2>> \notin some /\ <<b, 4>> \notin some
    BY <1>8
  <2>2. b \in Addresses
    BY <1>3
  <2>3. Rebased(mem, some)[b] = mem[b]
    BY <1>1, <2>1, <2>2, RebasedNot
  <2> QED
    BY <2>3
<1>12. CASE t = 3
  <2>1. a \in Span(a, t) /\ a + 1 \in Span(a, t) /\ Span(a, t) = {a, a + 1}
    BY <1>12 DEF Span
  <2>2. WordAt(old, a) = WordAt(mem, a)
    BY <1>9, <2>1 DEF WordAt
  <2> DEFINE w == WordAt(mem, a) + Delta
  <2>3. moved = [old EXCEPT ![a] = w % Half, ![a + 1] = (w % Word) \div Half]
    BY <1>12, <2>2 DEF Moved, PutWord
  <2>4. a # a + 1
    BY <1>3
  <2>5. new[a] = w % Half
    <3>1. <<a, 3>> \in more /\ <<a - 1, 3>> \notin more /\ <<a, 2>> \notin more /\ <<a, 4>> \notin more
      <4>1. <<a - 1, 3>> # <<a, t>>
        BY <1>3
      <4> QED
        BY <1>8, <1>12, <2>1, <4>1
    <3> HIDE DEF more
    <3>2. Rebased(mem, more)[a] = (WordAt(mem, a) + Delta) % Half
      BY <1>1, <1>4, <3>1, RebasedLow
    <3> QED
      BY <3>2
  <2>6. new[a + 1] = (w % Word) \div Half
    <3>1. (a + 1) - 1 = a
      BY <1>3
    <3>2. <<a + 1, 3>> \notin more /\ <<a, 3>> \in more /\ <<a + 1, 2>> \notin more /\ <<a + 1, 4>> \notin more
      <4>1. a + 1 # a
        BY <1>3
      <4> QED
        BY <1>8, <1>12, <2>1, <4>1
    <3> DEFINE b == a + 1
    <3>3. b \in Addresses /\ b - 1 = a /\ <<b, 3>> \notin more /\ <<b - 1, 3>> \in more
          /\ <<b, 2>> \notin more /\ <<b, 4>> \notin more
      BY <1>4, <1>12, <3>1, <3>2
    <3> HIDE DEF more, b
    <3>4. Rebased(mem, more)[b] = ((WordAt(mem, b - 1) + Delta) % Word) \div Half
      BY <1>1, <3>3, RebasedHigh
    <3> QED
      BY <3>3, <3>4 DEF b
  <2>7. \A b \in Addresses : b # a /\ b # a + 1 => new[b] = old[b]
    BY <1>6, <2>1
  <2> HIDE DEF w, moved, old, new, more
  <2>8. moved = new
    BY <1>2, <1>4, <1>12, <2>3, <2>4, <2>5, <2>6, <2>7, TwoCells
  <2> QED
    BY <2>8 DEF moved, old, new, more
<1>13. CASE t = 2 \/ t = 4
  <2> DEFINE v == IF t = 2 THEN (mem[a] + Delta) % Half ELSE (mem[a] + Delta \div Half) % Half
  <2>1. a \in Span(a, t) /\ Span(a, t) = {a}
    BY <1>13 DEF Span
  <2>2. moved = [old EXCEPT ![a] = v]
    <3>1. old[a] = mem[a]
      BY <1>9, <2>1
    <3>2. CASE t = 2
      <4>1. moved = [old EXCEPT ![a] = (old[a] + Delta) % Half]
        BY <3>2 DEF Moved, PutHalf
      <4> HIDE DEF moved, old
      <4> QED
        BY <3>1, <3>2, <4>1
    <3>3. CASE t = 4
      <4>1. moved = [old EXCEPT ![a] = (old[a] + Delta \div Half) % Half]
        <5>1. mem[a] \in Nat
          BY <1>1, <1>4, Numbers DEF Memory
        <5>2. (mem[a] * Half + Signed(low % Half, Half) + Delta + Half \div 2) \div Half
                = mem[a] + (Delta \div Half)
          BY <5>1, LowSlotIdle
        <5>3. moved = [old EXCEPT ![a] =
                         ((mem[a] * Half + Signed(low % Half, Half) + Delta + Half \div 2)
                            \div Half) % Half]
          BY <3>1, <3>3 DEF Moved
        <5> QED
          BY <3>1, <5>2, <5>3
      <4> HIDE DEF moved, old
      <4> QED
        BY <3>1, <3>3, <4>1
    <3> QED
      BY <1>13, <3>2, <3>3
  <2>3. new[a] = v
    <3>1. /\ <<a, 3>> \notin more /\ <<a - 1, 3>> \notin more
          /\ <<a, 2>> \in more <=> t = 2
          /\ <<a, 4>> \in more <=> t = 4
      BY <1>8, <1>13, <2>1
    <3> HIDE DEF more
    <3>2. CASE t = 2
      <4>1. Rebased(mem, more)[a] = (mem[a] + Delta) % Half
        BY <1>1, <1>4, <3>1, <3>2, RebasedHalf
      <4> QED
        BY <3>2, <4>1
    <3>3. CASE t = 4
      <4>1. Rebased(mem, more)[a] = (mem[a] + Delta \div Half) % Half
        BY <1>1, <1>4, <3>1, <3>3, RebasedHalf
      <4> QED
        BY <3>3, <4>1
    <3> QED
      BY <1>13, <3>2, <3>3
  <2>4. \A b \in Addresses : b # a => new[b] = old[b]
    BY <1>6, <2>1
  <2> HIDE DEF v, moved, old, new, more
  <2>5. moved = new
    BY <1>2, <1>4, <2>2, <2>3, <2>4, OneCell
  <2> QED
    BY <2>5 DEF moved, old, new, more
<1> QED
  BY <1>12, <1>13

(* ---- the loader ---- *)

\* What RenderEnd and the loader's steps leave as it is.
LEMMA SectionKept ==
  ASSUME SInv, FieldsFit, FieldsClear, Relocated, EntriesLeft = {}, PagesLeft = {},
         UNCHANGED <<vars, section, slice, entry, ptr, starts>>, stage' \in {"loading", "loaded"}
  PROVE  /\ RInv' /\ Rendering'
         /\ \A p : EntryCells(p)' = EntryCells(p) /\ Behind(p)' = Behind(p)
         /\ \A p, k : NoteAt(p, k)' = NoteAt(p, k)
         /\ Overlooked' = Overlooked
         /\ Read' = {note \in Notes : \E p \in DOMAIN starts : \E k \in EntryCells(p) :
                                        k < at' /\ note = NoteAt(p, k)}
<1>1. /\ RInv' /\ Relocated' = Relocated /\ Notes' = Notes
      /\ \A p : BlockCells(p)' = BlockCells(p) /\ \A o : EntryOf(p, o)' = EntryOf(p, o)
  BY VarsKept
<1>2. UNCHANGED <<section, slice, entry, ptr, starts>> /\ slices' = slices
  BY DEF vars
<1>3. EntriesLeft' = EntriesLeft /\ PagesLeft' = PagesLeft
  BY <1>2 DEF EntriesLeft, PagesLeft
<1>4. /\ \A p : Written(p)' = Written(p) /\ Filled(p)' = Filled(p)
      /\ \A p : EntryCells(p)' = EntryCells(p) /\ Behind(p)' = Behind(p)
  BY <1>1, <1>2, <1>3 DEF Written, Filled, Count, EntryCells, Behind
<1>5. \A p \in DOMAIN starts' : Laid(p)'
  <2> SUFFICES ASSUME NEW p \in DOMAIN starts PROVE Laid(p)'
    BY <1>2
  <2>1. Laid(p)
    BY DEF SInv, Rendering
  <2> QED
    BY <1>1, <1>2, <1>4, <2>1 DEF Laid
<1>6. Tiled'
  BY <1>2, <1>4 DEF SInv, Rendering, Tiled
<1>7. Rendering'
  BY <1>1, <1>2, <1>3, <1>5, <1>6 DEF SInv, Rendering
<1>8. \A p, k : NoteAt(p, k)' = NoteAt(p, k)
  BY <1>2 DEF NoteAt
<1>9. Overlooked' = Overlooked
  BY <1>2 DEF Overlooked, HighRun
<1> QED
  BY <1>1, <1>2, <1>4, <1>7, <1>8, <1>9 DEF Read

\* The section is complete when the loader comes to it.
LEMMA SectionComplete ==
  ASSUME SInv, stage # "rendering"
  PROVE  Relocated /\ EntriesLeft = {} /\ PagesLeft = {} /\ DOMAIN starts = DOMAIN slices
<1>1. Rendering /\ Relocated /\ EntriesLeft = {} /\ PagesLeft = {}
  BY DEF SInv, Rendering
<1>2. \A p \in DOMAIN slices : p \in Int
  BY SliceParts DEF SInv, RInv
<1>3. slice \in Int
  BY <1>1, <1>2 DEF Rendering, None
<1>4. \A p \in DOMAIN slices : p <= slice
  BY <1>1, <1>2, <1>3 DEF PagesLeft
<1> QED
  BY <1>1, <1>4 DEF Rendering

\* Where the entries of a block are, and that they are in no other block.
LEMMA CellPlace ==
  ASSUME SInv, EntriesLeft = {}, NEW p \in DOMAIN starts
  PROVE  /\ starts[p] \in Nat /\ starts[p] >= 1 /\ BlockCells(p) \in Nat /\ BlockCells(p) >= 4
         /\ Behind(p) \in Nat /\ Behind(p) = starts[p] + BlockCells(p)
         /\ \A k \in EntryCells(p) : k \in Int /\ starts[p] + 4 <= k /\ k < Behind(p)
<1>1. IInv /\ Laid(p) /\ p \in DOMAIN slices
  BY DEF SInv, RInv, Rendering
<1>2. /\ Count(p) \in Nat /\ BlockCells(p) \in Nat /\ 4 + Count(p) <= BlockCells(p)
  BY <1>1, SliceParts
<1>3. Filled(p) = Count(p)
  BY BlockDone
<1>4. starts[p] \in Nat /\ starts[p] >= 1
  BY <1>1 DEF Laid
<1> QED
  BY <1>2, <1>3, <1>4 DEF EntryCells, Behind

LEMMA CellOfBlock ==
  ASSUME SInv, EntriesLeft = {}, NEW p \in DOMAIN starts, NEW q \in DOMAIN starts,
         NEW k \in EntryCells(p), starts[q] <= k, k < Behind(q)
  PROVE  p = q
<1>1. /\ k \in Int /\ starts[p] + 4 <= k /\ k < Behind(p) /\ starts[p] \in Nat /\ Behind(p) \in Nat
  BY CellPlace
<1>2. starts[q] \in Nat /\ Behind(q) \in Nat
  BY CellPlace
<1>3. /\ p < q => Behind(p) <= starts[q]
      /\ q < p => Behind(q) <= starts[p]
  BY DEF SInv, Rendering, Tiled
<1>4. p \in Nat /\ q \in Nat
  BY SliceParts DEF SInv, RInv, Rendering
<1> QED
  BY <1>1, <1>2, <1>3, <1>4

(* ---- what is overlooked ---- *)

LEMMA OverlookedNotes ==
  ASSUME NEW note \in Overlooked
  PROVE  note \in Notes /\ note = <<note[1], note[2]>>
<1>1. PICK p \in DOMAIN slices : \E o \in DOMAIN slices[p] : note = <<p + o, slices[p][o]>>
  BY DEF Overlooked
<1> QED
  BY <1>1 DEF Notes

\* Whether a cell's note is one of them depends on the run in front of it alone.
LEMMA OverlookedCell ==
  ASSUME SInv, EntriesLeft = {}, NEW p \in DOMAIN starts, NEW k \in EntryCells(p)
  PROVE  NoteAt(p, k) \in Overlooked <=> Cardinality(HighRun(p, section[k] % Page)) % 2 = 1
<1> DEFINE o == section[k] % Page
<1>1. /\ o \in DOMAIN slices[p] /\ NoteAt(p, k) = <<p + o, slices[p][o]>>
      /\ IInv /\ p \in DOMAIN slices
  BY CellNote DEF SInv, RInv, Rendering
<1> HIDE DEF o
<1>2. ASSUME NoteAt(p, k) \in Overlooked PROVE Cardinality(HighRun(p, o)) % 2 = 1
  <2>1. PICK q \in DOMAIN slices : \E i \in DOMAIN slices[q] :
               /\ Cardinality(HighRun(q, i)) % 2 = 1 /\ NoteAt(p, k) = <<q + i, slices[q][i]>>
    BY <1>2 DEF Overlooked
  <2>2. PICK i \in DOMAIN slices[q] :
               /\ Cardinality(HighRun(q, i)) % 2 = 1 /\ NoteAt(p, k) = <<q + i, slices[q][i]>>
    BY <2>1
  <2>3. p + o = q + i
    BY <1>1, <2>2
  <2>4. p = q /\ o = i
    BY <1>1, <2>3, AddressParts
  <2> QED
    BY <2>2, <2>4
<1>3. ASSUME Cardinality(HighRun(p, o)) % 2 = 1 PROVE NoteAt(p, k) \in Overlooked
  BY <1>1, <1>3 DEF Overlooked
<1> QED
  BY <1>2, <1>3 DEF o

\* No offset lies between those of a cell and the next.
LEMMA CellOrder ==
  ASSUME SInv, EntriesLeft = {}, NEW p \in DOMAIN starts, NEW x \in DOMAIN slices[p],
         NEW k \in EntryCells(p)
  PROVE  /\ x \in Int /\ section[k] % Page \in Int /\ k \in Int
         /\ x < section[k] % Page => k - 1 \in EntryCells(p) /\ x <= section[k - 1] % Page
<1>1. /\ Laid(p) /\ IInv /\ p \in DOMAIN slices /\ Written(p) = DOMAIN slices[p]
      /\ Filled(p) \in Nat /\ starts[p] \in Nat
  BY BlockDone DEF SInv, RInv, Rendering, Laid
<1>2. \A o \in DOMAIN slices[p] : o \in Int
  <2>1. DOMAIN slices[p] \subseteq 0..(Page - 1)
    BY <1>1, SliceParts
  <2> QED
    BY <2>1
<1>3. \A l \in EntryCells(p) : l \in Int /\ section[l] % Page \in Int
  BY <1>1, <1>2 DEF Laid, EntryCells
<1>4. PICK l \in EntryCells(p) : section[l] % Page = x
  BY <1>1 DEF Laid
<1>5. ASSUME x < section[k] % Page PROVE k - 1 \in EntryCells(p) /\ x <= section[k - 1] % Page
  <2>1. ~(k < l) /\ k # l
    <3>1. k < l => section[k] % Page < section[l] % Page
      BY <1>1 DEF Laid
    <3> QED
      BY <1>2, <1>3, <1>4, <1>5, <3>1
  <2>2. l < k
    BY <1>3, <2>1
  <2>3. k - 1 \in EntryCells(p) /\ (l = k - 1 \/ l < k - 1)
    BY <1>1, <1>3, <2>2 DEF EntryCells
  <2>4. l < k - 1 => section[l] % Page < section[k - 1] % Page
    BY <1>1, <2>3 DEF Laid
  <2> QED
    BY <1>2, <1>3, <1>4, <2>3, <2>4
<1> QED
  BY <1>2, <1>3, <1>5

\* The first entry of a block is not overlooked.
LEMMA FirstTaken ==
  ASSUME SInv, EntriesLeft = {}, NEW p \in DOMAIN starts, starts[p] + 4 \in EntryCells(p)
  PROVE  NoteAt(p, starts[p] + 4) \notin Overlooked
<1> DEFINE k == starts[p] + 4
<1>1. starts[p] \in Nat
  BY CellPlace
<1>2. k - 1 \notin EntryCells(p)
  BY <1>1 DEF EntryCells
<1>3. k \in EntryCells(p)
  OBVIOUS
<1> HIDE DEF k
<1>4. HighRun(p, section[k] % Page) = {}
  BY <1>2, <1>3, CellOrder DEF HighRun
<1>5. Cardinality(HighRun(p, section[k] % Page)) % 2 = 0
  BY <1>4, FS_EmptySet
<1>6. NoteAt(p, k) \notin Overlooked
  BY <1>3, <1>5, OverlookedCell
<1> QED
  BY <1>6 DEF k

\* Another one is if and only if the one before is of type 4 and is not.
LEMMA NextTaken ==
  ASSUME SInv, EntriesLeft = {}, NEW p \in DOMAIN starts, NEW k \in EntryCells(p),
         k + 1 \in EntryCells(p)
  PROVE  NoteAt(p, k + 1) \in Overlooked <=>
           section[k] \div Page = 4 /\ NoteAt(p, k) \notin Overlooked
<1> DEFINE o == section[k] % Page
           r == section[k + 1] % Page
<1>1. /\ o \in DOMAIN slices[p] /\ section[k] \div Page = slices[p][o] /\ r \in DOMAIN slices[p]
  BY CellNote DEF NoteAt
<1>2. /\ k \in Int /\ (k + 1) - 1 = k /\ Laid(p) /\ IInv /\ p \in DOMAIN slices
  BY CellPlace DEF SInv, RInv, Rendering
<1>3. o \in Int /\ r \in Int /\ o < r
  <2>1. \A x \in DOMAIN slices[p] : x \in Int
    BY CellOrder
  <2>2. k < k + 1
    BY <1>2
  <2>3. o < r
    BY <1>2, <2>2 DEF Laid
  <2> QED
    BY <1>1, <2>1, <2>3
<1>4. \A x \in DOMAIN slices[p] : x \in Int /\ (x < r => x <= o)
  <2> SUFFICES ASSUME NEW x \in DOMAIN slices[p] PROVE x \in Int /\ (x < r => x <= o)
    OBVIOUS
  <2> DEFINE l == k + 1
  <2>1. l \in EntryCells(p) /\ l - 1 = k
    BY <1>2
  <2> HIDE DEF l
  <2>2. x \in Int /\ (x < section[l] % Page => x <= section[l - 1] % Page)
    BY <2>1, CellOrder
  <2> QED
    BY <2>1, <2>2 DEF l
<1> DEFINE run == HighRun(p, o)
<1>5. IsFiniteSet(run) /\ Cardinality(run) \in Nat /\ o \notin run
  <2>1. IsFiniteSet(DOMAIN slices[p])
    BY <1>2, SliceParts
  <2>2. run \subseteq DOMAIN slices[p] /\ o \notin run
    BY <1>3 DEF HighRun
  <2> QED
    BY <2>1, <2>2, FS_Subset, FS_CardinalityType
<1>6. NoteAt(p, k) \in Overlooked <=> Cardinality(run) % 2 = 1
  BY OverlookedCell
<1>7. NoteAt(p, k + 1) \in Overlooked <=> Cardinality(HighRun(p, r)) % 2 = 1
  BY OverlookedCell
<1> HIDE DEF o, r
<1>8. CASE slices[p][o] = 4
  <2>1. HighRun(p, r) = run \cup {o}
    <3>1. ASSUME NEW q \in HighRun(p, r) PROVE q \in run \cup {o}
      <4>1. q \in DOMAIN slices[p] /\ q <= o /\ q \in Int
        BY <1>4 DEF HighRun
      <4>2. \A x \in DOMAIN slices[p] : q <= x /\ x < o => slices[p][x] = 4
        BY <1>3, <1>4 DEF HighRun
      <4> QED
        BY <1>3, <4>1, <4>2 DEF HighRun
    <3>2. ASSUME NEW q \in run \cup {o} PROVE q \in HighRun(p, r)
      <4>1. q \in DOMAIN slices[p] /\ q \in Int /\ q <= o
        BY <1>1, <1>3, <1>4 DEF HighRun
      <4>2. \A x \in DOMAIN slices[p] : q <= x /\ x < o => slices[p][x] = 4
        <5>1. CASE q = o
          BY <1>3, <1>4, <5>1
        <5>2. CASE q \in run
          BY <5>2 DEF HighRun
        <5> QED
          BY <5>1, <5>2
      <4>3. \A x \in DOMAIN slices[p] : q <= x /\ x < r => slices[p][x] = 4
        <5> SUFFICES ASSUME NEW x \in DOMAIN slices[p], q <= x, x < r PROVE slices[p][x] = 4
          OBVIOUS
        <5>1. x < o \/ x = o
          BY <1>3, <1>4
        <5> QED
          BY <1>8, <4>2, <5>1
      <4> QED
        BY <1>3, <4>1, <4>3 DEF HighRun
    <3> QED
      BY <3>1, <3>2
  <2> HIDE DEF run
  <2>2. Cardinality(HighRun(p, r)) = Cardinality(run) + 1
    BY <1>5, <2>1, FS_AddElement
  <2>3. \A c \in Nat : (c + 1) % 2 = 1 <=> ~(c % 2 = 1)
    BY SMT
  <2> QED
    BY <1>1, <1>5, <1>6, <1>7, <1>8, <2>2, <2>3
<1>9. CASE slices[p][o] # 4
  <2>1. HighRun(p, r) = {}
    BY <1>1, <1>3, <1>4, <1>9 DEF HighRun
  <2>2. Cardinality(HighRun(p, r)) % 2 = 0
    BY <2>1, FS_EmptySet
  <2> QED
    BY <1>1, <1>7, <1>9, <2>2
<1> QED
  BY <1>8, <1>9

(* ---- the loader's steps ---- *)

LEMMA RenderEndSInv ==
  ASSUME SInv, FieldsFit, FieldsClear, RenderEnd
  PROVE  SInv'
<1>1. /\ stage = "rendering" /\ Relocated /\ EntriesLeft = {} /\ PagesLeft = {}
      /\ stage' = "loading" /\ image' = mem
      /\ UNCHANGED <<vars, section, slice, entry, ptr, starts, page, at, end>>
  BY DEF RenderEnd
<1>2. /\ RInv' /\ Rendering'
      /\ Read' = {note \in Notes : \E p \in DOMAIN starts : \E k \in EntryCells(p) :
                                     k < at' /\ note = NoteAt(p, k)}
      /\ Overlooked' = Overlooked
  BY <1>1, SectionKept
<1>3. at' = 1 /\ end' = 1
  BY <1>1 DEF SInv, Rendering
<1>4. Read' \ Overlooked' = {}
  <2>1. \A p \in DOMAIN starts : \A k \in EntryCells(p) : ~(k < 1)
    BY <1>1, CellPlace
  <2> QED
    BY <1>2, <1>3, <2>1
<1>5. Rebased(mem, {}) = mem
  <2>1. mem = [b \in DOMAIN mem |-> mem[b]]
    BY DEF SInv, RInv, IInv, TypeOK
  <2> QED
    BY <2>1 DEF Rebased
<1>6. image' = Rebased(mem, Read \ Overlooked)'
  <2>1. mem' = mem
    BY <1>1 DEF vars
  <2>2. Rebased(mem, Read \ Overlooked)' = Rebased(mem', Read' \ Overlooked')
    BY DEF Rebased, WordAt
  <2> QED
    BY <1>1, <1>4, <1>5, <2>1, <2>2
<1>7. Loading'
  BY <1>1, <1>3, <1>6 DEF Loading
<1> QED
  BY <1>2, <1>7 DEF SInv

\* The memory the loader has made is that of the notes in front of its place.
LEMMA LoadedSoFar ==
  ASSUME UNCHANGED vars, Read' \ Overlooked' = Read \ Overlooked, image' = image,
         image = Rebased(mem, Read \ Overlooked)
  PROVE  image' = Rebased(mem, Read \ Overlooked)'
<1>1. mem' = mem
  BY DEF vars
<1>2. Rebased(mem, Read \ Overlooked)' = Rebased(mem', Read' \ Overlooked')
  BY DEF Rebased, WordAt
<1> QED
  BY <1>1, <1>2

LEMMA LoadBlockSInv ==
  ASSUME SInv, FieldsFit, FieldsClear, LoadBlock
  PROVE  SInv'
<1>1. /\ stage = "loading" /\ at >= end /\ end <= Len(section)
      /\ page' = section[end] /\ at' = end + 4 /\ end' = end + section[end + 2] \div 2
      /\ UNCHANGED <<vars, stage, section, slice, entry, ptr, starts, image>>
  BY DEF LoadBlock
<1>2. Relocated /\ EntriesLeft = {} /\ PagesLeft = {}
  BY <1>1, SectionComplete
<1>3. /\ RInv' /\ Rendering'
      /\ \A p : EntryCells(p)' = EntryCells(p) /\ Behind(p)' = Behind(p)
      /\ \A p, k : NoteAt(p, k)' = NoteAt(p, k)
      /\ Overlooked' = Overlooked
      /\ Read' = {note \in Notes : \E p \in DOMAIN starts : \E k \in EntryCells(p) :
                                     k < at' /\ note = NoteAt(p, k)}
  BY <1>1, <1>2, SectionKept
<1>4. image = Rebased(mem, Read \ Overlooked) /\ at \in Nat /\ end \in Nat
  BY <1>1 DEF SInv, Loading
<1>5. Rendering /\ Tiled /\ Len(section) \in Nat
  BY DEF SInv, Rendering
<1>6. \E q \in DOMAIN starts : starts[q] = end
  <2>1. CASE at = 1 /\ end = 1
    <3>1. section # <<>>
      BY <1>1, <2>1
    <3> QED
      BY <1>5, <2>1, <3>1 DEF Tiled
  <2>2. CASE \E p \in DOMAIN starts : end = Behind(p)
    BY <1>1, <1>4, <1>5, <2>2 DEF Tiled
  <2> QED
    BY <1>1, <2>1, <2>2 DEF SInv, Loading
<1>7. PICK q \in DOMAIN starts : starts[q] = end
  BY <1>6
<1>8. /\ BlockCells(q) \in Nat /\ BlockCells(q) >= 4
      /\ Behind(q) = end + BlockCells(q) /\ Behind(q) \in Nat
  BY <1>2, <1>7, CellPlace
<1>9. page' = q /\ end' = Behind(q)
  <2>1. section[end] = q /\ section[end + 2] = 2 * BlockCells(q)
    BY <1>5, <1>7 DEF Rendering, Laid
  <2>2. \A z \in Nat : (2 * z) \div 2 = z
    OBVIOUS
  <2> QED
    BY <1>1, <1>8, <2>1, <2>2
<1>10. Read' = Read
  <2>1. ASSUME NEW p \in DOMAIN starts, NEW k \in EntryCells(p), k < end + 4
        PROVE  k < end
    <3>1. k \in Int /\ starts[p] + 4 <= k /\ starts[p] \in Nat
      BY <1>2, CellPlace
    <3> SUFFICES ASSUME end <= k PROVE FALSE
      BY <1>4, <3>1
    <3>2. k < Behind(q)
      BY <1>4, <1>8, <2>1, <3>1
    <3>3. p = q
      BY <1>2, <1>7, <3>2, CellOfBlock
    <3> QED
      BY <1>4, <1>7, <2>1, <3>1, <3>3
  <2>2. at <= end + 1
    BY <1>1, <1>4 DEF SInv, Loading
  <2>3. \A p \in DOMAIN starts : \A k \in EntryCells(p) : k < end + 4 <=> k < at
    <3>1. \A p \in DOMAIN starts : \A k \in EntryCells(p) : k \in Int
      BY <1>2, CellPlace
    <3> QED
      BY <1>1, <1>4, <2>1, <2>2, <3>1
  <2> QED
    BY <1>1, <1>3, <2>3 DEF Read
<1>11. image' = Rebased(mem, Read \ Overlooked)'
  BY <1>1, <1>3, <1>4, <1>10, LoadedSoFar
<1>12. at' \in EntryCells(q)' => NoteAt(q, at)' \notin Overlooked'
  <2>1. at' = starts[q] + 4 /\ EntryCells(q)' = EntryCells(q)
    BY <1>1, <1>3, <1>7
  <2>2. NoteAt(q, at)' = NoteAt(q, at')
    BY <1>1 DEF NoteAt
  <2> QED
    BY <1>2, <1>3, <2>1, <2>2, FirstTaken
<1>13. /\ page' = q /\ end' = Behind(q)' /\ q \in DOMAIN starts'
       /\ starts'[q] + 4 <= at' /\ at' <= end' + 1 /\ at' \in Nat /\ end' \in Nat
  BY <1>1, <1>3, <1>4, <1>7, <1>8, <1>9
<1>14. Loading'
  BY <1>1, <1>11, <1>12, <1>13 DEF Loading
<1> QED
  BY <1>3, <1>14 DEF SInv

\* Between the last entry of a block and the first of the next there are no entries.
LEMMA NoEntryBehind ==
  ASSUME SInv, EntriesLeft = {}, NEW p \in DOMAIN starts, NEW q \in DOMAIN starts
  PROVE  Behind(p) \notin EntryCells(q)
<1> SUFFICES ASSUME Behind(p) \in EntryCells(q) PROVE FALSE
  OBVIOUS
<1> DEFINE k == Behind(p)
<1>1. /\ k \in Int /\ starts[q] + 4 <= k /\ k < Behind(q)
      /\ starts[q] \in Nat /\ Behind(q) \in Nat
  BY CellPlace
<1>2. Len(section) \in Nat /\ Behind(q) <= Len(section) + 1
  BY DEF SInv, Rendering, Laid
<1>3. k # Len(section) + 1
  BY <1>1, <1>2
<1>4. PICK r \in DOMAIN starts : starts[r] = k
  BY <1>3 DEF SInv, Rendering, Tiled
<1>5. starts[r] \in Nat /\ Behind(r) = starts[r] + BlockCells(r) /\ BlockCells(r) \in Nat
      /\ BlockCells(r) >= 4
  BY CellPlace
<1>6. k \in EntryCells(q) /\ starts[r] <= k /\ k < Behind(r)
  BY <1>4, <1>5
<1> HIDE DEF k
<1>7. q = r
  BY <1>6, CellOfBlock
<1> QED
  BY <1>1, <1>4, <1>7

\* What is read when the loader goes from one place to another.
LEMMA ReadOn ==
  ASSUME SInv, stage # "rendering", NEW to \in Nat, at \in Nat, at <= to, NEW more \in SUBSET Notes,
         \A q \in DOMAIN starts : \A k \in EntryCells(q) :
           at <= k /\ k < to => NoteAt(q, k) \in more,
         \A note \in more : \E q \in DOMAIN starts : \E k \in EntryCells(q) :
           k < to /\ note = NoteAt(q, k)
  PROVE  {note \in Notes : \E q \in DOMAIN starts : \E k \in EntryCells(q) :
                             k < to /\ note = NoteAt(q, k)} = Read \cup more
<1>1. \A q \in DOMAIN starts : \A k \in EntryCells(q) : k \in Int
  BY CellPlace, SectionComplete
<1>2. \A q \in DOMAIN starts : \A k \in EntryCells(q) : k < at => k < to
  BY <1>1
<1>3. \A q \in DOMAIN starts : \A k \in EntryCells(q) :
        k < to => k < at \/ NoteAt(q, k) \in more
  BY <1>1
<1> QED
  BY <1>2, <1>3 DEF Read

LEMMA LoadEntrySInv ==
  ASSUME SInv, FieldsFit, FieldsClear, LoadEntry
  PROVE  SInv'
<1> DEFINE a == page + (section[at] % Page)
           t == section[at] \div Page
           low == IF at < Len(section) THEN section[at + 1] ELSE 0
<1>1. /\ stage = "loading" /\ at < end /\ at' = at + (IF t = 4 THEN 2 ELSE 1)
      /\ image' = Moved(image, a, t, low)
      /\ UNCHANGED <<vars, stage, section, slice, entry, ptr, starts, page, end>>
  BY DEF LoadEntry
<1>2. Relocated /\ EntriesLeft = {} /\ PagesLeft = {}
  BY <1>1, SectionComplete
<1>3. /\ RInv' /\ Rendering'
      /\ \A p : EntryCells(p)' = EntryCells(p) /\ Behind(p)' = Behind(p)
      /\ Overlooked' = Overlooked
      /\ Read' = {note \in Notes : \E p \in DOMAIN starts : \E k \in EntryCells(p) :
                                     k < at' /\ note = NoteAt(p, k)}
  BY <1>1, <1>2, SectionKept
<1>4. image = Rebased(mem, Read \ Overlooked) /\ at \in Nat /\ end \in Nat
  BY <1>1 DEF SInv, Loading
<1>5. PICK p \in DOMAIN starts :
        /\ page = p /\ end = Behind(p) /\ starts[p] + 4 <= at
        /\ at \in EntryCells(p) => NoteAt(p, at) \notin Overlooked
  BY <1>1, <1>4 DEF SInv, Loading
<1>6. low \in Nat
  <2>1. section \in Seq(Nat)
    BY DEF SInv, Rendering
  <2> QED
    BY <1>1, <1>4, <1>5, <2>1, CellPlace, <1>2
<1> HIDE DEF low
<1>7. \A q \in DOMAIN starts : \A k \in EntryCells(q) :
        k \in Int /\ (k = at => q = p) /\ (k = at + 1 => q = p)
  <2> SUFFICES ASSUME NEW q \in DOMAIN starts, NEW k \in EntryCells(q)
               PROVE  k \in Int /\ (k = at => q = p) /\ (k = at + 1 => q = p)
    OBVIOUS
  <2>1. k \in Int /\ starts[p] \in Nat /\ Behind(p) \in Nat
    BY <1>2, CellPlace
  <2>2. ASSUME k = at \/ k = at + 1 PROVE q = p
    <3>1. k # Behind(p)
      BY <1>2, NoEntryBehind
    <3>2. starts[p] <= k /\ k < Behind(p)
      BY <1>1, <1>4, <1>5, <2>1, <2>2, <3>1
    <3> QED
      BY <1>2, <3>2, CellOfBlock
  <2> QED
    BY <2>1, <2>2
<1>8. /\ starts[p] \in Nat /\ Behind(p) \in Nat /\ Filled(p) \in Nat
  BY <1>2, CellPlace DEF SInv, Rendering, Laid
<1>9. ASSUME at \in EntryCells(p)
      PROVE  /\ image' = Rebased(mem, Read' \ Overlooked)
             /\ at' \in EntryCells(p) => NoteAt(p, at') \notin Overlooked
  <2>1. NoteAt(p, at) = <<a, t>> /\ <<a, t>> \notin Overlooked
    BY <1>5, <1>9 DEF NoteAt
  <2>2. <<a, t>> \in Notes /\ t \in {2, 3, 4}
    BY <1>2, <1>9, <2>1, CellNote
  <2>3. <<a, t>> \notin Read
    <3> SUFFICES ASSUME NEW q \in DOMAIN starts, NEW k \in EntryCells(q), k < at,
                        NoteAt(p, at) = NoteAt(q, k)
                 PROVE  FALSE
      BY <2>1 DEF Read
    <3>1. k = at
      BY <1>2, <1>9, CellsDiffer
    <3> QED
      BY <1>4, <3>1
  <2>4. Moved(Rebased(mem, Read \ Overlooked), a, t, low)
          = Rebased(mem, (Read \ Overlooked) \cup {<<a, t>>})
    <3>1. Read \ Overlooked \in SUBSET Notes /\ <<a, t>> \notin Read \ Overlooked /\ RInv
      BY <2>3 DEF Read, SInv
    <3> HIDE DEF a, t
    <3> QED
      BY <1>6, <2>2, <3>1, MovedRebased
  <2>5. /\ Read' \ Overlooked = (Read \ Overlooked) \cup {<<a, t>>}
        /\ at' \in EntryCells(p) => NoteAt(p, at') \notin Overlooked
    <3>1. CASE t # 4
      <4>1. at' = at + 1
        BY <1>1, <3>1
      <4>2. \A q \in DOMAIN starts : \A k \in EntryCells(q) :
              at <= k /\ k < at' => NoteAt(q, k) \in {<<a, t>>}
        <5>1. \A q \in DOMAIN starts : \A k \in EntryCells(q) : at <= k /\ k < at' => k = at /\ q = p
          BY <1>4, <1>7, <4>1
        <5> QED
          BY <2>1, <5>1
      <4>3. \A note \in {<<a, t>>} : \E q \in DOMAIN starts : \E k \in EntryCells(q) :
              k < at' /\ note = NoteAt(q, k)
        <5>1. at < at'
          BY <1>4, <4>1
        <5> QED
          BY <1>9, <2>1, <5>1
      <4>4. Read' = Read \cup {<<a, t>>}
        <5>1. at' \in Nat /\ at <= at'
          BY <1>4, <4>1
        <5>2. {<<a, t>>} \in SUBSET Notes
          BY <2>2
        <5> HIDE DEF a, t
        <5> QED
          BY <1>1, <1>3, <1>4, <4>2, <4>3, <5>1, <5>2, ReadOn
      <4>5. at' \in EntryCells(p) => NoteAt(p, at') \notin Overlooked
        BY <1>2, <1>9, <3>1, <4>1, NextTaken
      <4> QED
        BY <2>1, <4>4, <4>5
    <3>2. CASE t = 4
      <4>1. at' = at + 2 /\ at' = (at + 1) + 1
        BY <1>1, <1>4, <3>2
      <4> DEFINE eaten == IF at + 1 \in EntryCells(p) THEN {NoteAt(p, at + 1)} ELSE {}
                 more == {<<a, t>>} \cup eaten
      <4>2. eaten \subseteq Overlooked /\ eaten \subseteq Notes
        BY <1>2, <1>5, <1>9, <3>2, NextTaken, CellNote
      <4>3. \A q \in DOMAIN starts : \A k \in EntryCells(q) :
              at <= k /\ k < at' => NoteAt(q, k) \in more
        <5>1. \A q \in DOMAIN starts : \A k \in EntryCells(q) :
                at <= k /\ k < at' => (k = at \/ k = at + 1) /\ q = p
          BY <1>4, <1>7, <4>1
        <5> QED
          BY <2>1, <5>1
      <4>4. \A note \in more : \E q \in DOMAIN starts : \E k \in EntryCells(q) :
              k < at' /\ note = NoteAt(q, k)
        <5>1. at < at' /\ at + 1 < at'
          BY <1>4, <4>1
        <5> QED
          BY <1>9, <2>1, <5>1
      <4>5. Read' = Read \cup more
        <5>1. at' \in Nat /\ at <= at'
          BY <1>4, <4>1
        <5>2. more \in SUBSET Notes
          BY <2>2, <4>2
        <5> HIDE DEF more
        <5> QED
          BY <1>1, <1>3, <1>4, <4>3, <4>4, <5>1, <5>2, ReadOn
      <4>6. Read' \ Overlooked = (Read \ Overlooked) \cup {<<a, t>>}
        BY <2>1, <4>2, <4>5
      <4>7. at' \in EntryCells(p) => NoteAt(p, at') \notin Overlooked
        <5> SUFFICES ASSUME at' \in EntryCells(p) PROVE NoteAt(p, at') \notin Overlooked
          OBVIOUS
        <5>1. at + 1 \in EntryCells(p)
          BY <1>4, <1>5, <1>8, <4>1 DEF EntryCells
        <5>2. NoteAt(p, at + 1) \in Overlooked
          BY <1>2, <1>5, <1>9, <3>2, <5>1, NextTaken
        <5> DEFINE k == at + 1
        <5>3. k \in EntryCells(p) /\ k + 1 = at' /\ NoteAt(p, k) \in Overlooked
          BY <4>1, <5>1, <5>2
        <5> HIDE DEF k
        <5> QED
          BY <1>2, <5>3, NextTaken
      <4> QED
        BY <4>6, <4>7
    <3> QED
      BY <3>1, <3>2
  <2> QED
    BY <1>1, <1>4, <2>4, <2>5
<1>10. ASSUME at \notin EntryCells(p)
       PROVE  /\ image' = Rebased(mem, Read' \ Overlooked)
              /\ at' \in EntryCells(p) => NoteAt(p, at') \notin Overlooked
  <2>1. t = 0 /\ at' = at + 1
    <3>1. t = 0
      BY <1>1, <1>2, <1>4, <1>5, <1>10, PaddingCell
    <3> QED
      BY <1>1, <3>1
  <2>2. Read' = Read
    <3>1. \A q \in DOMAIN starts : \A k \in EntryCells(q) : k < at' <=> k < at
      BY <1>4, <1>7, <1>10, <2>1
    <3> QED
      BY <1>3, <3>1 DEF Read
  <2>3. image' = Rebased(mem, Read \ Overlooked)
    BY <1>1, <1>4, <2>1 DEF Moved
  <2>4. at' \notin EntryCells(p)
    BY <1>4, <1>5, <1>8, <1>10, <2>1 DEF EntryCells
  <2> QED
    BY <2>2, <2>3, <2>4
<1>11. /\ image' = Rebased(mem, Read' \ Overlooked)
       /\ at' \in EntryCells(p) => NoteAt(p, at') \notin Overlooked
  BY <1>9, <1>10
<1>12. image' = Rebased(mem, Read \ Overlooked)'
  <2>1. mem' = mem
    BY <1>1 DEF vars
  <2>2. Rebased(mem, Read \ Overlooked)' = Rebased(mem', Read' \ Overlooked')
    BY DEF Rebased, WordAt
  <2> QED
    BY <1>3, <1>11, <2>1, <2>2
<1>13. at' \in EntryCells(p)' => NoteAt(p, at)' \notin Overlooked'
  <2>1. NoteAt(p, at)' = NoteAt(p, at') /\ EntryCells(p)' = EntryCells(p)
    BY <1>1, <1>3 DEF NoteAt
  <2> QED
    BY <1>3, <1>11, <2>1
<1>14. /\ page' = p /\ end' = Behind(p)' /\ p \in DOMAIN starts'
       /\ starts'[p] + 4 <= at' /\ at' <= end' + 1 /\ at' \in Nat /\ end' \in Nat
  <2>1. at' = at + 1 \/ at' = at + 2
    BY <1>1
  <2> QED
    BY <1>1, <1>3, <1>4, <1>5, <1>8, <2>1
<1>15. Loading'
  BY <1>1, <1>12, <1>13, <1>14 DEF Loading
<1> QED
  BY <1>3, <1>15 DEF SInv

LEMMA LoadEndSInv ==
  ASSUME SInv, FieldsFit, FieldsClear, LoadEnd
  PROVE  SInv'
<1>1. /\ stage = "loading" /\ at >= end /\ end > Len(section) /\ stage' = "loaded"
      /\ UNCHANGED <<vars, section, slice, entry, ptr, starts, image, page, at, end>>
  BY DEF LoadEnd
<1>2. /\ Relocated /\ EntriesLeft = {} /\ PagesLeft = {} /\ DOMAIN starts = DOMAIN slices
  BY <1>1, SectionComplete
<1>3. RInv' /\ Rendering' /\ Overlooked' = Overlooked
  BY <1>1, <1>2, SectionKept
<1>4. image = Rebased(mem, Read \ Overlooked) /\ at \in Nat /\ end \in Nat
  BY <1>1 DEF SInv, Loading
<1>5. Read = Notes
  <2> SUFFICES ASSUME NEW note \in Notes PROVE note \in Read
    BY DEF Read
  <2>1. PICK p \in DOMAIN starts : \E k \in EntryCells(p) : note = NoteAt(p, k)
    BY <1>2, NoteCell
  <2>2. PICK k \in EntryCells(p) : note = NoteAt(p, k)
    BY <2>1
  <2>3. k \in Int /\ k < Behind(p) /\ Behind(p) \in Nat
    BY <1>2, CellPlace
  <2>4. Behind(p) <= Len(section) + 1 /\ Len(section) \in Nat
    BY DEF SInv, Rendering, Laid
  <2>5. k < at
    BY <1>1, <1>4, <2>3, <2>4
  <2> QED
    BY <2>2, <2>5 DEF Read
<1>6. Rebased(mem, Notes \ Overlooked)' = Rebased(mem, Notes \ Overlooked)
  <2>1. mem' = mem /\ Notes' = Notes
    BY <1>1 DEF vars, Notes
  <2>2. Rebased(mem, Notes \ Overlooked)' = Rebased(mem', Notes' \ Overlooked')
    BY DEF Rebased, WordAt
  <2> QED
    BY <1>3, <2>1, <2>2
<1>7. image' = Rebased(mem, Notes \ Overlooked)'
  BY <1>1, <1>4, <1>5, <1>6
<1>8. Loading'
  BY <1>1, <1>7 DEF Loading
<1> QED
  BY <1>3, <1>8 DEF SInv

LEMMA StutterSInv ==
  ASSUME SInv, FieldsFit, FieldsClear, UNCHANGED <<vars, rvars>>
  PROVE  SInv'
<1>1. /\ RInv' /\ Relocated' = Relocated /\ Notes' = Notes
      /\ \A p : BlockCells(p)' = BlockCells(p) /\ \A o : EntryOf(p, o)' = EntryOf(p, o)
  BY VarsKept
<1>2. /\ UNCHANGED <<stage, section, slice, entry, ptr, starts, image, page, at, end>>
      /\ UNCHANGED <<mem, shadow, slices>>
  BY DEF vars, rvars
<1>3. EntriesLeft' = EntriesLeft /\ PagesLeft' = PagesLeft
  BY <1>2 DEF EntriesLeft, PagesLeft
<1>4. /\ \A p : Written(p)' = Written(p) /\ Filled(p)' = Filled(p)
      /\ \A p : EntryCells(p)' = EntryCells(p) /\ Behind(p)' = Behind(p)
      /\ \A p, k : NoteAt(p, k)' = NoteAt(p, k)
  BY <1>1, <1>2, <1>3 DEF Written, Filled, Count, EntryCells, Behind, NoteAt
<1>5. \A p \in DOMAIN starts' : Laid(p)'
  <2> SUFFICES ASSUME NEW p \in DOMAIN starts PROVE Laid(p)'
    BY <1>2
  <2>1. Laid(p)
    BY DEF SInv, Rendering
  <2> QED
    BY <1>1, <1>2, <1>4, <2>1 DEF Laid
<1>6. Tiled'
  BY <1>2, <1>4 DEF SInv, Rendering, Tiled
<1>7. Rendering'
  BY <1>1, <1>2, <1>3, <1>5, <1>6 DEF SInv, Rendering
<1>8. /\ Rebased(mem, Read \ Overlooked)' = Rebased(mem, Read \ Overlooked)
      /\ Rebased(mem, Notes \ Overlooked)' = Rebased(mem, Notes \ Overlooked)
      /\ Overlooked' = Overlooked
  <2>1. Read' = Read
    BY <1>1, <1>2, <1>4 DEF Read
  <2>2. Overlooked' = Overlooked
    BY <1>2 DEF Overlooked, HighRun
  <2>3. /\ Rebased(mem, Read \ Overlooked)' = Rebased(mem', Read' \ Overlooked')
        /\ Rebased(mem, Notes \ Overlooked)' = Rebased(mem', Notes' \ Overlooked')
    BY DEF Rebased, WordAt
  <2> QED
    BY <1>1, <1>2, <2>1, <2>2, <2>3
<1>9. \A p : NoteAt(p, at)' = NoteAt(p, at)
  BY <1>2 DEF NoteAt
<1>10. Loading'
  BY <1>2, <1>4, <1>8, <1>9 DEF SInv, Loading
<1> QED
  BY <1>1, <1>7, <1>10 DEF SInv

LEMMA NextSInv ==
  ASSUME SInv, FieldsFit, FieldsClear, [RNext]_<<vars, rvars>>
  PROVE  SInv'
<1>1. CASE Relocate
  BY <1>1, RelocateSInv
<1>2. CASE RenderSlice
  BY <1>2, RenderSliceSInv
<1>3. CASE RenderEntry
  BY <1>3, RenderEntrySInv
<1>4. CASE RenderEnd
  BY <1>4, RenderEndSInv
<1>5. CASE LoadBlock
  BY <1>5, LoadBlockSInv
<1>6. CASE LoadEntry
  BY <1>6, LoadEntrySInv
<1>7. CASE LoadEnd
  BY <1>7, LoadEndSInv
<1>8. CASE UNCHANGED <<vars, rvars>>
  BY <1>8, StutterSInv
<1> QED
  BY <1>1, <1>2, <1>3, <1>4, <1>5, <1>6, <1>7, <1>8 DEF RNext

LEMMA AlwaysSInv ==
  ASSUME FieldsFit, FieldsClear
  PROVE  RSpec => []SInv
<1>1. RInit => SInv
  BY InitSInv
<1>2. SInv /\ [RNext]_<<vars, rvars>> => SInv'
  BY NextSInv
<1> QED
  BY <1>1, <1>2, PTL DEF RSpec

(* ---- what the section says and what the loader makes of it ---- *)

\* A block, read by its header, says of its page what is in the slice.
LEMMA BlockSays ==
  ASSUME SInv, EntriesLeft = {}, NEW p \in DOMAIN starts
  PROVE  /\ starts[p] % 2 = 1 /\ section[starts[p]] = p
         /\ Said(starts[p]) = {<<p + o, slices[p][o]>> : o \in DOMAIN slices[p]}
<1> DEFINE c == starts[p]
           says == {j \in (c + 4)..(c + section[c + 2] \div 2 - 1) : section[j] \div Page # 0}
<1>1. /\ c % 2 = 1 /\ section[c] = p /\ section[c + 2] = 2 * BlockCells(p)
      /\ \A o \in Written(p) : \E k \in EntryCells(p) : section[k] % Page = o
  BY DEF SInv, Rendering, Laid
<1>2. /\ c \in Nat /\ BlockCells(p) \in Nat /\ Behind(p) = c + BlockCells(p)
      /\ \A k \in EntryCells(p) : k \in Int /\ c + 4 <= k /\ k < Behind(p)
  BY CellPlace
<1>3. (2 * BlockCells(p)) \div 2 = BlockCells(p)
  <2>1. \A z \in Nat : (2 * z) \div 2 = z
    OBVIOUS
  <2> QED
    BY <1>2, <2>1
<1>4. says = {j \in (c + 4)..(Behind(p) - 1) : section[j] \div Page # 0}
  BY <1>1, <1>2, <1>3
<1>5. says = EntryCells(p)
  <2>1. ASSUME NEW k \in EntryCells(p) PROVE k \in says
    <3>1. section[k] \div Page # 0
      <4>1. section[k] \div Page \in {2, 3, 4}
        BY CellNote
      <4> QED
        BY <4>1
    <3>2. k \in (c + 4)..(Behind(p) - 1)
      BY <1>2
    <3> QED
      BY <1>4, <3>1, <3>2
  <2>2. ASSUME NEW k \in says PROVE k \in EntryCells(p)
    <3>1. k \in (c + 4)..(Behind(p) - 1) /\ section[k] \div Page # 0
      BY <1>4, <2>2
    <3>2. k \in Int /\ c + 4 <= k /\ k < Behind(p)
      BY <1>2, <3>1
    <3> QED
      BY <3>1, <3>2, PaddingCell
  <2> QED
    BY <2>1, <2>2
<1>6. Said(c) = {NoteAt(p, k) : k \in EntryCells(p)}
  <2>1. Said(c) = {<<section[c] + (section[k] % Page), section[k] \div Page>> : k \in says}
    BY DEF Said
  <2> HIDE DEF says
  <2> QED
    BY <1>1, <1>5, <2>1 DEF NoteAt
<1>7. Written(p) = DOMAIN slices[p]
  BY BlockDone
<1>8. ASSUME NEW k \in EntryCells(p)
      PROVE  NoteAt(p, k) \in {<<p + o, slices[p][o]>> : o \in DOMAIN slices[p]}
  BY CellNote
<1>9. ASSUME NEW o \in DOMAIN slices[p]
      PROVE  <<p + o, slices[p][o]>> \in {NoteAt(p, k) : k \in EntryCells(p)}
  <2>1. PICK k \in EntryCells(p) : section[k] % Page = o
    BY <1>1, <1>7
  <2>2. NoteAt(p, k) = <<p + o, slices[p][o]>>
    BY <2>1, CellNote
  <2> QED
    BY <2>2
<1>10. {NoteAt(p, k) : k \in EntryCells(p)} = {<<p + o, slices[p][o]>> : o \in DOMAIN slices[p]}
  BY <1>8, <1>9
<1> QED
  BY <1>1, <1>6, <1>10

\* However many entries and pages there are, the finished section has one block for each
\* page, on a 32-bit boundary, and what a reader of the block finds between its header
\* and the end its size gives is what AddReloc was told, padding aside (RenderFaithful).
THEOREM SectionSaysNotes ==
  ASSUME FieldsFit, FieldsClear
  PROVE  RSpec => []RenderFaithful
<1>1. SInv => RenderFaithful
  <2> SUFFICES ASSUME SInv, stage # "rendering"
               PROVE  /\ DOMAIN starts = DOMAIN slices
                      /\ \A p \in DOMAIN slices :
                           /\ starts[p] % 2 = 1
                           /\ section[starts[p]] = p
                           /\ Said(starts[p]) = {<<p + o, slices[p][o]>> : o \in DOMAIN slices[p]}
    BY DEF RenderFaithful
  <2>1. EntriesLeft = {} /\ DOMAIN starts = DOMAIN slices
    BY SectionComplete
  <2> QED
    BY <2>1, BlockSays
<1> QED
  BY <1>1, AlwaysSInv, PTL

\* From one block's size to the next, the loader comes to the blocks that were rendered
\* and to the end of the section, never into the middle of one (LoaderInStep).
THEOREM LoaderStaysInStep ==
  ASSUME FieldsFit, FieldsClear
  PROVE  RSpec => []LoaderInStep
<1>1. SInv => LoaderInStep
  <2> SUFFICES ASSUME SInv, stage = "loading", at >= end
               PROVE  end = Len(section) + 1 \/ \E p \in DOMAIN starts : starts[p] = end
    BY DEF LoaderInStep
  <2>1. Tiled
    BY DEF SInv, Rendering
  <2>2. CASE at = 1 /\ end = 1
    <3>1. section = <<>> => Len(section) = 0
      OBVIOUS
    <3> QED
      BY <2>1, <2>2, <3>1 DEF Tiled
  <2>3. CASE \E p \in DOMAIN starts : end = Behind(p)
    BY <2>1, <2>3 DEF Tiled
  <2> QED
    BY <2>2, <2>3 DEF SInv, Loading
<1> QED
  BY <1>1, AlwaysSInv, PTL

\* A cell of the loaded image: NotesApart makes an overlooked note the only one about it.
LEMMA CellLoaded ==
  ASSUME SInv, FieldsFit, FieldsClear, stage = "loaded", NEW a \in Addresses
  PROVE  image[a] = IF \E note \in Overlooked : a \in Span(note[1], note[2])
                    THEN mem[a] ELSE shadow[a]
<1> DEFINE x == Notes \ Overlooked
<1>1. image = Rebased(mem, x) /\ RInv
  BY DEF SInv, Loading
<1>2. mem \in Memory /\ a \in Int
  BY SectionTypes DEF SInv, RInv, IInv, TypeOK, Memory, Addresses
<1>3. /\ a \in Span(a, 3) /\ a \in Span(a, 2) /\ a \in Span(a, 4)
      /\ a \in Span(a - 1, 3)
  BY <1>2 DEF Span
<1>4. CASE \E note \in Overlooked : a \in Span(note[1], note[2])
  <2>1. PICK note \in Overlooked : a \in Span(note[1], note[2])
    BY <1>4
  <2> DEFINE b == note[1]
             u == note[2]
  <2>2. <<b, u>> \in Notes /\ <<b, u>> \in Overlooked /\ a \in Span(b, u)
    BY <2>1, OverlookedNotes
  <2> HIDE DEF b, u
  <2>3. \A c, v : <<c, v>> \in Notes /\ a \in Span(c, v) => <<c, v>> = <<b, u>>
    <3> SUFFICES ASSUME NEW c, NEW v, <<c, v>> \in Notes, a \in Span(c, v), <<c, v>> # <<b, u>>
                 PROVE  FALSE
      OBVIOUS
    <3>1. Span(c, v) \cap Span(b, u) = {}
      BY <1>1, <2>2, NotesApart
    <3> QED
      BY <2>2, <3>1
  <2>4. <<a, 3>> \notin x /\ <<a - 1, 3>> \notin x /\ <<a, 2>> \notin x /\ <<a, 4>> \notin x
    BY <1>3, <2>2, <2>3
  <2> HIDE DEF x
  <2>5. Rebased(mem, x)[a] = mem[a]
    BY <1>2, <2>4, RebasedNot
  <2> QED
    BY <1>1, <1>4, <2>5
<1>5. CASE ~\E note \in Overlooked : a \in Span(note[1], note[2])
  <2>1. \A c, v : a \in Span(c, v) => (<<c, v>> \in x <=> <<c, v>> \in Notes)
    <3> SUFFICES ASSUME NEW c, NEW v, a \in Span(c, v) PROVE <<c, v>> \notin Overlooked
      OBVIOUS
    <3>1. <<c, v>>[1] = c /\ <<c, v>>[2] = v
      OBVIOUS
    <3> QED
      BY <1>5, <3>1
  <2>2. /\ <<a, 3>> \in x <=> <<a, 3>> \in Notes
        /\ <<a - 1, 3>> \in x <=> <<a - 1, 3>> \in Notes
        /\ <<a, 2>> \in x <=> <<a, 2>> \in Notes
        /\ <<a, 4>> \in x <=> <<a, 4>> \in Notes
    BY <1>3, <2>1
  <2>3. Rebased(mem, Notes) = shadow
    BY MemoryRebased DEF SInv
  <2> HIDE DEF x
  <2>4. Rebased(mem, x)[a] = Rebased(mem, Notes)[a]
    BY <1>2, <2>2, RebasedSame
  <2> QED
    BY <1>1, <1>5, <2>3, <2>4
<1> QED
  BY <1>4, <1>5

\* From the relocations to the loader: one that knows only the section's bytes and how
\* far it moves the image, and takes a second slot with every HIGHADJ entry, gets, cell
\* by cell, the memory a link at the new base would have produced; except that of a run
\* of HIGHADJ entries and the entry that ends it every second one is lost, and exactly
\* the fields of these keep what they had (Rebasable).
THEOREM LoadedImageIsRebased ==
  ASSUME FieldsFit, FieldsClear
  PROVE  RSpec => []Rebasable
<1>1. SInv => Rebasable
  BY CellLoaded DEF Rebasable
<1> QED
  BY <1>1, AlwaysSInv, PTL

\* While the section is rendered and loaded, too, cells are 16-bit values (TypeOK), each
\* field names its target (FieldsReach), nothing else differs from what it was
\* (UntouchedElsewhere) and the notes make up the difference (NotesComplete).
THEOREM RelocatedToTheEnd ==
  ASSUME FieldsFit, FieldsClear
  PROVE  RSpec => [](TypeOK /\ FieldsReach /\ UntouchedElsewhere /\ NotesComplete)
<1>1. SInv => TypeOK
  BY DEF SInv, RInv, IInv
<1>2. SInv => FieldsReach
  BY FieldReaches DEF SInv
<1>3. SInv => UntouchedElsewhere
  BY DEF SInv, RInv, Blank, UntouchedElsewhere, Field
<1>4. SInv => NotesComplete
  BY MemoryRebased DEF SInv, NotesComplete
<1> QED
  BY <1>1, <1>2, <1>3, <1>4, AlwaysSInv, PTL

=============================================================================
