----------------------------- MODULE RelocSection -----------------------------
(***************************************************************************)
(* The PE .reloc section (src/elfpe/reloc.cpp, RelocationSection::render): *)
(* what Reloc has noted in "slices" is written as one block for each page, *)
(* in order of address; and the loader that puts the image Delta higher    *)
(* and goes through these blocks (external).                               *)
(*                                                                         *)
(* The section is a sequence of 16-bit cells, numbered from 1: an entry is *)
(* one, a block's address and its size in bytes are two, whose values are  *)
(* not scaled down with Half and Page.                                     *)
(***************************************************************************)
EXTENDS Reloc, FiniteSets

VARIABLES
  stage,     \* "rendering", "loading" or "loaded"
  section,   \* relocSect
  slice,     \* the outer loop's iterator: the page of the last block begun, or -1
  entry,     \* the inner loop's: the offset of the last entry written, or -1
  ptr,       \* where the next entry is written
  starts,    \* cur_offset of every block begun: page -> its first cell
  image,     \* the memory the loader changes
  page,      \* the page of the block the loader is in
  at, end    \* the cell it reads next, and the first behind the block

rvars == <<stage, section, slice, entry, ptr, starts, image, page, at, end>>

None == -1

-----------------------------------------------------------------------------
\* All relocations are applied, and ProcessRelocSections calls render.
Relocated == pc = "relocating" /\ n > Len(input)

PagesLeft == {p \in DOMAIN slices : p > slice}
EntriesLeft == IF slice = None THEN {} ELSE {o \in DOMAIN slices[slice] : o > entry}

\* The cells of a block: address, size and entries, and one more if that makes the
\* size a multiple of four bytes.
BlockCellsOdd(p) == 4 + Cardinality(DOMAIN slices[p])      \* mutated
BlockCells(p) == LET cells == 4 + Cardinality(DOMAIN slices[p]) IN cells + (cells % 2)

\* A block before its entries are written: resize fills it with zeros.
BlockHeadless(p) ==                                        \* mutated
  [k \in 1..BlockCells(p) |-> IF k = 1 THEN p ELSE IF k = 3 THEN 2 * (BlockCells(p) - 4) ELSE 0]
BlockUnsized(p) == [k \in 1..BlockCells(p) |-> IF k = 1 THEN p ELSE 0]   \* mutated
Block(p) ==
  [k \in 1..BlockCells(p) |-> IF k = 1 THEN p ELSE IF k = 3 THEN 2 * BlockCells(p) ELSE 0]

\* SingleRelocation's "rendered".
EntryOf(p, o) == slices[p][o] * Page + o

RInit ==
  /\ Init
  /\ stage = "rendering"
  /\ section = <<>> /\ slice = None /\ entry = None /\ ptr = 1 /\ starts = <<>>
  /\ image = <<>> /\ page = 0 /\ at = 1 /\ end = 1

\* A step of SingleRelocSection.
Relocate == Next /\ UNCHANGED rvars

\* RelocationSlice::render begins on the next page.
RenderSlice ==
  /\ stage = "rendering" /\ Relocated /\ EntriesLeft = {}
  /\ \E p \in PagesLeft :
       /\ \A q \in PagesLeft : p <= q
       /\ slice' = p
       /\ section' = section \o Block(p)
       /\ starts' = [q \in DOMAIN starts \cup {p} |-> IF q = p THEN Len(section) + 1 ELSE starts[q]]
  /\ entry' = None
  /\ ptr' = Len(section) + 5
  /\ UNCHANGED <<vars, stage, image, page, at, end>>

\* Its loop writes the next entry.
RenderEntry ==
  /\ stage = "rendering" /\ Relocated
  /\ \E o \in EntriesLeft :
       /\ \A q \in EntriesLeft : o <= q
       /\ entry' = o
       /\ section' = [section EXCEPT ![ptr] = EntryOf(slice, o)]
  /\ ptr' = ptr + 1
  /\ UNCHANGED <<vars, stage, slice, starts, image, page, at, end>>

\* The section is complete; some time later the image is loaded.
RenderEnd ==
  /\ stage = "rendering" /\ Relocated /\ EntriesLeft = {} /\ PagesLeft = {}
  /\ stage' = "loading"
  /\ image' = mem
  /\ UNCHANGED <<vars, section, slice, entry, ptr, starts, page, at, end>>

-----------------------------------------------------------------------------
(* The loader, which knows nothing but the section and Delta.              *)

\* One base relocation.  Type 4 takes two slots in a PE file: the second one, "low", is
\* the low half of the address whose high half is at a, signed.
Moved(m, a, type, low) ==
  CASE type = 3 -> PutWord(m, a, WordAt(m, a) + Delta)
    [] type = 2 -> PutHalf(m, a, m[a] + Delta)
    [] type = 4 -> [m EXCEPT ![a] =
                      ((m[a] * Half + Signed(low % Half, Half) + Delta + Half \div 2) \div Half) % Half]
    [] OTHER    -> m

\* The size in its header leads from a block to the next.
LoadBlock ==
  /\ stage = "loading" /\ at >= end /\ end <= Len(section)
  /\ page' = section[end]
  /\ at' = end + 4
  /\ end' = end + section[end + 2] \div 2
  /\ UNCHANGED <<vars, stage, section, slice, entry, ptr, starts, image>>

\* A low half is taken from the next cell, the next block's or one behind the section
\* (0) when the entry is a block's last: AddReloc writes one slot for type 4, too, so
\* that the loader takes the entry that follows for a low half and goes past it.
LoadEntry ==
  /\ stage = "loading" /\ at < end
  /\ LET type == section[at] \div Page
         low  == IF at < Len(section) THEN section[at + 1] ELSE 0
     IN  /\ image' = Moved(image, page + (section[at] % Page), type, low)
         /\ at' = at + (IF type = 4 THEN 2 ELSE 1)
  /\ UNCHANGED <<vars, stage, section, slice, entry, ptr, starts, page, end>>

LoadEnd ==
  /\ stage = "loading" /\ at >= end /\ end > Len(section)
  /\ stage' = "loaded"
  /\ UNCHANGED <<vars, section, slice, entry, ptr, starts, image, page, at, end>>

RNext ==
  \/ Relocate \/ RenderSlice \/ RenderEntry \/ RenderEnd
  \/ LoadBlock \/ LoadEntry \/ LoadEnd

RSpec == RInit /\ [][RNext]_<<vars, rvars>> /\ WF_<<vars, rvars>>(RNext)

-----------------------------------------------------------------------------
(* Properties.                                                             *)

\* What the block that begins at cell c says: set of <<address, type>>.
Said(c) ==
  {<<section[c] + (section[k] % Page), section[k] \div Page>> :
     k \in {j \in (c + 4)..(c + section[c + 2] \div 2 - 1) : section[j] \div Page # 0}}

\* Once the section is complete there is a block for every page, on a multiple of
\* four bytes, that says of its page exactly what AddReloc was told.
RenderFaithful ==
  stage # "rendering" =>
    /\ DOMAIN starts = DOMAIN slices
    /\ \A p \in DOMAIN slices :
         /\ starts[p] % 2 = 1
         /\ section[starts[p]] = p
         /\ Said(starts[p]) = {<<p + o, slices[p][o]>> : o \in DOMAIN slices[p]}

\* The loader, which sees only sizes, is never out of step with the renderer: where
\* a block ends another one that was rendered begins, or the section ends.
LoaderInStep ==
  stage = "loading" /\ at >= end =>
    end = Len(section) + 1 \/ \E p \in DOMAIN starts : starts[p] = end

\* The entries of type 4 that follow one another right in front of offset o.
HighRun(p, o) ==
  {q \in DOMAIN slices[p] :
     q < o /\ \A r \in DOMAIN slices[p] : q <= r /\ r < o => slices[p][r] = 4}

\* Of a run of type 4 and the entry that ends it, the loader takes every second one for
\* a low half.
Overlooked ==
  UNION {{<<p + o, slices[p][o]>> :
            o \in {i \in DOMAIN slices[p] : Cardinality(HighRun(p, i)) % 2 = 1}} :
          p \in DOMAIN slices}

\* The cells a base relocation changes.
Span(a, type) == IF type = 3 THEN {a, a + 1} ELSE {a}

\* A loader that moves the image by Delta and applies .reloc gets the memory a link
\* at that address would have produced, but for the fields whose entries it takes for
\* the missing low half of the entry before: these, and no others, stay as they were.
Rebasable ==
  stage = "loaded" =>
    \A a \in Addresses :
      image[a] = IF \E note \in Overlooked : a \in Span(note[1], note[2])
                 THEN mem[a] ELSE shadow[a]

\* Every image is loaded, unless TargetPtr has aborted elfpe.
Loads == <>(stage = "loaded" \/ pc = "aborted")

=============================================================================
