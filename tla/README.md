# Models of elfpe and pyhive

This directory holds TLA+ models of the programs of this repository, the TLC
configurations that check them, and proofs that TLAPS checks. Its subject is the
code in `elfpe/` (the compiler driver that turns gcc's ELF output into a PE image),
`pyhive/` (the writer of registry hives), `pynls/` and `install.sh`. `PROJECT.json` lists the components,
the runs, the lines each definition models, the mutated definitions that show what
each property notices, the findings and the hazards.

    tlc -config layout_equal.cfg MCImageLayout
    tlapm ImageLayoutProofs.tla

## The system

| component | state | operations | what makes it correct |
|---|---|---|---|
| image layout (`header.cpp`, `coff.cpp`, parts of `elfpe.cpp`) | the ELF file's sections, the section mapping, the header's bytes, the output file | `getSectionRvas` (twice), `addSection`, `createHeaderSection`, `PECoffExecutable` | sections apart; the addresses relocated with are those loaded at; table and file agree; the table fits its buffer; directories and entry point name what they should |
| alignment (`util.cpp`) | none | `roundup` | least multiple, also at the end of the word |
| relocation (`reloc.cpp`) | section contents, `RelocationSection` | `SingleReloc`, `AddReloc`, `render` | every field reaches its target, nothing else changes, the `.reloc` section is complete |
| ELF object (`objectfile.cpp`) | sections and symbols by number and by name, offsets of commons | `init`, `update`, `addSection`, `allocateComdat`, `getComdat` | lookups survive updates; commons do not overlap |
| driver (`elfpe.cpp`) | argument vector, wait status, output and temporary file | `execute_command`, the steps of `main`, `Write` | whole images only, this run's image, a truthful exit status |
| options (`argparse.cpp`) | argument vector | `getarg`, `expandLinkerArg`, `possibly_define` | finds and removes an option, once |
| imports, exports (`imports.cpp`, `exports.cpp`) | `.idata`, `.edata`, the IAT range | `ImportFixup`, `ExportFixup` | IAT a copy of the lookup table, range covers it |
| hive writer (`hbin.py`) | bins, the claims in each, the tree of keys | `claim`, `write`, `makecell`, `export`, `addkey` | cells apart, written once, found again from the root |
| INF reader (`reginf.py`, `mkhive.py`) | lines, parsed entries | `nextline`, `regelt`, `bindata` | parses what it is given into the right key |
| NLS (`nlsswap.py`) | none | `swapnls` | every half word in its place, those of tables swapped |
| installation (`install.sh`) | directories, the step | `binutils`, `gcc`, `mingw`, `finish`, `all` | each step once, failures noticed |

`main` calls all of elfpe's parts in one sequence on one `ElfObjectFile`: gcc is
run and waited for, commons are placed behind `.bss`, sections get addresses,
relocations are applied with these addresses and recorded, `.reloc` is appended,
sections get addresses again, the header is built from the second assignment,
appended as `.peheader`, and everything is written to a temporary file that is
renamed over the output. Nothing runs concurrently inside elfpe; the hard parts
are (1) data derived twice or in two places that must agree, (2) 32-bit
arithmetic and fixed buffers, (3) failures and kills between the steps, seen by
`make`, which runs elfpe again. The hive writer is a recursion that claims space
before it knows what to write there, over bins that fill up.

## Modules

| module | models | about |
|---|---|---|
| `Align` | `roundup` | `Roundup(value, round)` modulo `Word` |
| `Regions` | — | abstract allocator: regions apart, aligned, above a floor, and given back only by starting over |
| `ImageLayout` | `main` from `ElfObjectFile` to `Write` | one action per iteration of each loop |
| `Reloc` | `SingleRelocSection`, `SingleReloc`, `RelocationSection::add`, `TargetPtr` | memory of 16-bit cells, in two links |
| `RelocSection` | `RelocationSection::render`, `RelocationSlice::render`, and a PE loader (external) | extends `Reloc`: one action per block and per entry, on both sides |
| `Hive` | `makecell`, `claim`, `write`, `export` | one action per claim, the recursion as a stack of frames |
| `Args` | `getarg` and `main` up to the call of gcc | one action per pass over the arguments, then the command line built around what is left |
| `Symbols` | the symbol table by name, `allocateComdat`, `getComdat`, `listSymbols` | functions of a symbol table |
| `Imports` | `ImportFixup`, `getIat` | one action per descriptor and per hint, on the words of `.idata` |
| `NlsSwap` | `swapnls` | a function of a file of half words |
| `InfFile` | `nextline`, `regelt`, `addentry` | functions of lines and characters |
| `RegTree` | `addkey`, `addkey_with_type`, `navigate`, the loop of `mkhive.py` | the tree that `Hive` writes |
| `Install` | `install.sh` | one action per command, nested runs as a stack |
| `Driver` | `main` and `execute_command` from outside | gcc, the files, kills that gcc survives or not, failing library calls, repeated runs |
| `Remainders` | — | lemmas about quotients and remainders that the proofs share |
| `ImageLayoutProofs` | — | what `Roundup` returns, for every alignment; theorems about `ImageLayout`: types, the table, sections apart, and that it implements `Regions` |
| `ImageAgreementProofs` | — | theorems about `ImageLayout`: the walks over the sections agree |
| `RelocProofs` | — | theorems about `Reloc` |
| `RelocSectionProofs` | — | theorems about `RelocSection` |
| `HiveProofs` | — | theorems about `Hive`, that it implements `Regions` among them |
| `DriverProofs` | — | theorems about `Driver` |
| `TableProofs` | — | theorems about `Imports` and `NlsSwap` |
| `MCImageLayout`, `MCReloc`, `MCHive`, `MCArgs`, `MCImports` | — | inputs for TLC |
| `MCFunctions` | — | calls of `Align`, `Symbols`, `NlsSwap` and `InfFile`, each against a definition of what it should return |

A definition marked "mutated" is the form a plausible mistake would give the
definition below it. It is used by nothing; `PROJECT.json` says which property it
breaks.

### ImageLayout

`elf` is the sequence of sections; index k is ELF section number k. `rvas` is
`sectionRvas`, `used` a copy of it from the moment the relocations were applied,
`header` the part of the PE header that depends on the layout, `paddr` and `start`
the running sums of `createHeaderSection` and `getSectionRvas`, `file` the extents
written. `pc` is the place in `main`; each loop is walked one section per action,
so that every intermediate value is checked. `createHeaderSection` and
`PECoffExecutable` are modelled with the alignments they really use: the
constructor is declared with the two alignments in one order and defined with
them in the other, so `filealign` is the value of `--section-alignment` and
`sectionalign` that of `--file-alignment`. `DirNames` includes `.text` and `.data`,
whose places and sizes the optional header records in the same way. Sizes are numbers,
contents are left out, and so are header fields that are constants or come
straight from an option. libelf is taken at its word: the size `setSectionSize`
sets is the size read back.

### Reloc

Memory maps addresses to 16-bit cells, and `Half` is the number of values of a
cell, so that TLC can use 4-bit cells and the arithmetic keeps its shape: a high
half carries when the low half is "negative", sums wrap at `Half * Half`. `mem` is
the memory elfpe produces, `shadow` the one the same relocations would produce
for a base `Delta` higher. `NotesComplete` says that the notes `AddReloc` has taken so
far account for the difference of the two, after every relocation. `Rebased` gives a
set of notes this meaning; it is no loader, which `RelocSection` has.

`InputAssumption` takes the loaded sections to be clear of each other, which is
what `SectionsNeverOverlap` says of the addresses `getSectionRvas` gives them, and
`SizeAssumption` the move to be a multiple of 64 KB, as a Windows loader's is. Two
things the code relies on and does not check are stated by name: `FieldsFit`
(`TargetPtr` asserts only that the first byte of a field is inside its section)
and `FieldsClear` (no field is relocated twice). `MCReloc` asserts both of its
inputs.

### RelocSection

When `Reloc` is through, the section is rendered: `RenderSlice` is the beginning of
`RelocationSlice::render` for the next page (`resize`, address and size),
`RenderEntry` one turn of its loop; `slice` and `entry` are the two iterators over
`std::map`, which goes in ascending order. Cells of the section have 16 bits, as
memory has. Then a loader reads it, which is external: `LoadBlock` takes a page and a size
from the cells at `end`, `LoadEntry` applies the entry in the cell at `at` to `image`.
The loader uses nothing but the section's cells and `Delta`; where the blocks begin
(`starts`) is known to the properties only. As the PE format has it, a HIGHADJ takes two
slots, the second with the low half; elfpe writes one (`reloc.cpp:154`). The loader takes
the next cell for it, which is the next entry, and does not apply that one (`Overlooked`). `RenderFaithful` says that a finished block
says what `AddReloc` was told of its page, `LoaderInStep` that the loader comes to each
block at its beginning, `Rebasable` that it ends with `shadow` except in the fields of
overlooked entries, which are as in `mem`, and `Loads` that it
ends. `Relocate` is a step of `Reloc`, which rendering and loading leave alone.

### Hive

A claim is `[cell, len]`, a write adds the content as a record of what
`encode`, `encode_header` and the lists put in the cell. The stack holds one
frame per call of `makecell`. The branch of `regf.claim` that opens a bin, and
the exception for a claim no bin can hold, are modelled.

`MCHive` also writes trees made by `RegTree` from lists of INF entries, so that
`EntriesFound` speaks of the whole way from an entry to the finished hive: it looks
the entry up as a reader would, from the root, without regard to case, by what its
path means (`Meant`). A key's label is its name in lower case with the spelling that
made it. The code knows `CurrentControlSet` in that spelling only: entries that spell it
otherwise are among the inputs, are lost, and are excluded (`Astray`).

### Args

A string is a sequence of pieces: the separators the code looks for and words it
compares as a whole. `getarg` is the function of the code without its loop (the
first argument that names the option decides), called by one action per pass in
the order of `main`. Each unit of a command line carries what its author means by
it: `gives`, the options and values, and `keeps`, the arguments gcc is to see. The
properties compare that with the values that arrive and with what gcc is handed. In a
`-Wl` group with one of elfpe's options a linker's option is meant for gcc, too, and is
dropped with the group: `PassedOn` excludes these by name (`Mixed`).

### Imports

`section` holds the words of `.idata` and addresses count words. The program reads and
writes the same section, so that what it reads next can be what it has just written;
`given` keeps the section as it was found. `ReadDescriptor`, `CopyHint` and `EndTable`
are the two loops, `Finish` the descriptor whose first word is 0. `WellFormed` names what
the code relies on and does not check: the tables lie in the section behind the
descriptors, each lookup table ends in a zero, and the address tables have a zero in
that place too and share no word with a table that is read or with one another.
Where that fails the walk leaves the section or copies what it has overwritten. The
descriptor's words, which are written back as they were read, are read only.

### Symbols, NlsSwap, InfFile

Operators only, without state of their own; in `MCFunctions` a state is a call
before or after it returns. Symbols' names are numbers in the order in which
`std::map` walks them. Half
words of a code page carry whether they were swapped; `CodePage` says which files are
meant, and `TableHalves` where their half words are. For a file without an OEM table
`Lost` and `PlaceOf` say what the second zero that `swapnls` puts out does to the rest.
`Listed` is the set of what `listSymbols` may print for a symbol: with no mapped section
`getSection(-1)` reads in front of a vector (`objectfile.cpp:265`), of which the outcomes
are a line without an address and a crash. An INF line is a sequence
of characters, of which the five that mean anything are told apart.

### Install

`loops` holds the processes that wait in the loop of `all`; a step is its commands,
each of which succeeds or fails, and `Checked` ones end the process when they
fail. With more than `MaxDepth` processes the oldest are forgotten, which can only
make the program end sooner.

### Driver

Each file is a kind and the number of the run that made it. `status` is what
`waitpid` stored and `code` what the caller sees of it. `seen` records which of
the troubles allowed by `Trouble` have happened in any run, `now` which this run has met;
properties are stated relative to them. `rename` can fail with the temporary file in
place (`RenameFails`): the ELF keeps the output's name, the image is left over, and the
status is 0. A kill takes gcc with it (`Killed`) or not (`KilledAlone`): then the child of
`vfork` is among the `orphans`, and at any later time, also in the middle of another run,
`OrphanEnds` may put its ELF under the output's name or remove what is there. A run is
beside an orphan (`"orphan" \in now`) if there was one when it began. A kill is that of a
process: what a machine that stops keeps of unsynced data is not modelled.

A child whose `execv` fails runs on in `main` (there is no `_exit`), on
memory it shares with the parent until it returns: the outcomes are the parent
reading the child's status, or dying.

## Runs

| run | bounds | result |
|---|---|---|
| `functions` | 6-bit word, all values, all powers of two; symbol tables of up to one local and three global symbols over three names; code pages with and without an OEM table and double-byte ranges, in all combinations; INF files of two entries, fields empty, spaced, quoted, with quotes inside, on one line or two | all properties hold |
| `imports` | none or up to two imported libraries with up to two hints each, tables in any order | all properties hold |
| `args` | 28 units: every option of `elfpe` alone, in all pairs and in triples of eight, apart, with `=`, and in a `-Wl` group | all properties hold |
| `args_definitions` | one command line with `-D_CRTIMP2=x` | **violates** `DefinitionsPresent` |
| `layout_equal` | both alignments 128; all inputs of up to 3 sections out of 10 kinds, sizes 0, 1 and a page, and up to 5 sections with room for 6 entries; commons of 0 or 4 bytes; `.reloc` of 0 or 12; no entry symbol, or one in any section | all properties hold |
| `layout_swapped` | alignments 0x1000 and 0x200 | **violates** `RawOffsetsMatch` |
| `layout_table_full` | alignment 128, 6 sections and `.reloc`, room for 6 | **violates** `HeaderFits` |
| `reloc` | 4-bit cells, four loaded sections and one debug section, all pairs of relocations that do not overlap, and up to 6 relocations on two pages | all properties hold |
| `hive` | 1 key with up to 3 values, 2 keys with up to 2 each, 3 keys in both shapes with 1 each; sizes 0, odd, around half a bin, a full bin and one more; trees of up to three INF entries over seven paths | all properties hold |
| `driver` | 3 runs, all troubles | all properties hold |
| `driver_status` | 2 runs, no trouble but a failing gcc | **violates** `SuccessMeansOutput` |
| `install_all` | all steps, every command may fail, the last three processes remembered | **violates** `InstallEnds` |

Why the bounds are enough. In the layout a section interacts with its
predecessor (running sums), with `.bss` and with unloaded sections; three sections
give every pair of kinds in both orders with something before or behind, and
sizes 0, 1 and one page (the alignment: with 128 in place of the default 0x1000 the same
cases occur, and the header can be filled) are the classes `roundup`
distinguishes. The theorems remove the bound, and all but `BytesWhereTold` are about
unequal alignments too. Relocations
interact only on a page (order, padding) and through `insert`; two, and six for
the blocks, are enough (`RelocProofs` removes the bound). In the hive the interesting sizes are those that end
exactly at, or one byte past, what is usable; three claims fill two bins; two entries meet on a path or do not,
and a third can come between them. Passes of `getarg` interact when one removes
what stands next to what another looks for, which takes two units; the third
stands before, between or behind them. A common symbol meets a local one of its
name and the common behind it in the order of the names. An import table is told
from a neighbour on either side, `regelt` looks one character ahead, and `swapnls`
has two optional parts. For the
driver one run leaves something behind, the next finds it, and a third finds what
the second left.

Named bounds: `MaxSize`, `MaxSections`, `Longest`, `Sizes` (layout), `Sizes`
(hive), `MaxRuns` (driver), `MaxDepth` (install), `Inputs` (args), `Word` and
`Rounds` (functions). They bound inputs; no action is disabled by a
bound except `Start`, by `MaxRuns`.

Fairness. `ImageLayout`, `Reloc`, `RelocSection`, `Hive`, `Imports` and `Args` have weak fairness of
their next step: a sequential program that waits for nothing takes it. (In
`RelocSection` this includes the loader, once somebody loads the image.) `Driver` has `WF_vars(Step)`:
a process that runs goes on (gcc included: that it returns is assumed); neither
`Start` nor a kill nor the end of an orphan is fair, since nobody has to run elfpe again or to kill it.
`Install` has `WF_vars(Next)`: every command returns, which is more than the
violation of `InstallEnds` needs. CHECK_DEADLOCK is off because the programs end.

## Findings

1. `ElfPeHeader`'s constructor takes `--section-alignment` for the file
   alignment and the other way round (`header.h:14-16`, `header.cpp:6-8`). With
   the defaults, which are equal, it cannot be seen (`layout_equal`); with
   others the file offsets in the section table are wrong (`layout_swapped`).
2. The header has a fixed size with "We'll compute it for real later"
   (`header.cpp:33`), and nothing checks the table against it
   (`layout_table_full`). `TableFits` says how many sections are safe: with the default
   alignment of 4096, 92 that are loaded.
3. `main` returns the wait status of gcc. For exit code 1 that is 256, of which
   the caller sees 0 (`driver_status`): to `make` a compilation that failed has
   succeeded.

4. `possibly_define` compares a prefix: a user's `-D_CRTIMP2` passes for an override
   of `_CRTIMP`, which is then defined by nobody, although the definitions are
   "necessary" (`elfpe.cpp:207`; `args_definitions`). Among its own definitions the
   order in `main` avoids this (`NecessaryDefined`).
5. The target list of `install.sh` contains `all`, and the loop of `all` goes over
   it: without a step `install.sh` never ends (`install_all`).

Also seen, without a line in the repository that says otherwise; properties
exclude these cases by name:

- A common symbol gets as many bytes as its alignment (`st_value`), not as its
  size: a larger one overlaps the next (`CommonsApart` speaks of the others). A
  local symbol of the same name hides a common, which then has no place at all
  (`Hidden`).
- A HIGHADJ base relocation lacks its second slot, so that a loader passes over the
  entry behind it (`Overlooked`).
- `CurrentControlSet` in another spelling makes a key of its own (`Astray`).
- A linker's option that shares a `-Wl` group with one of elfpe's is dropped (`Mixed`).
- A line for a key alone replaces the flags of a key: its name is no longer marked
  as bytes, and the bit `FLG_ADDREG_KEYONLY` is `REG_KEY_LINK_CELL` (`Renamed`).
- A `-Wl` group is removed with the first of elfpe's options in it, and an option
  in last place stays: `-shared` at the end reaches gcc (`WellFormed`,
  `SharedTrails`).
- Commas and semicolons in a quoted field split and cut it; `HKU` stands for
  `\Register\User`, which is in no hive.
- Without an OEM table `swapnls` puts out a second zero: the half word behind the empty
  table is lost, or double-byte ranges are moved up by one (`Lost`, `PlaceOf`).
- `rename` is unchecked: when it fails, a run that reports success has left an ELF file.

And when `fopen` of the temporary file fails, `Write` still renames, so that what a
killed run, or one whose rename failed, left there becomes the output. `OutputWhole` is
therefore stated for histories in which `fopen` and `fwrite` work, `OutputFresh` for runs
in which nothing fails unnoticed (after any that went wrong), and `NeverAnOlderImage` says
that it takes both failures, the earlier and the present one.

## Proofs

Every theorem below but `RoundupReturnsLeast` and `CodePageConverted`, which are about
functions, is about the specification itself, `Spec => ...`, for all values
of the constants that satisfy the assumptions of its module; a hypothesis beyond
these is named. Each rests on an inductive invariant, one lemma for each action
(or for each kind of action), and the lemmas of `Remainders`. TLC agreed with the
invariants on the runs' instances before they were proved.

`ImageLayoutProofs` begins with `RoundupReturnsLeast`: it says that `Roundup` returns the least multiple
that is not below its argument, and 0 above the last one, when the alignment divides
the word (`Word % round = 0`, as every power of two does). It is what
`RoundupIsLeast` checks for 6-bit words, next to the equality with the code's mask. About
`ImageLayout`:

- `TypeCorrect` (`TypeOK`). That every address stays in the word is not
  inductive by itself. `IInv` adds how far each walk can have come (`Counted`:
  lengths against the loop index and the two sections elfpe adds) and what it can have
  summed up by then (`Bounded`: at most `Reach(i)`, i steps of a largest section
  and both alignments), and that the input is untouched before `allocateComdat`.
  `NoWrap` makes the largest `Reach` fit; without it the claim is false of the
  code, which checks no sum.
- `TableFits` (`HeaderFits`), if no input has more loaded sections than the header, in its
  rounded size, has room for, one entry kept for `.reloc`. Sections that are not loaded (symbol
  and string tables, relocations) do not count. With the sizes of `header.cpp` and an
  alignment of 4096 that is 92. `MappedLoaded` is the strengthening: the mapping has no more entries
  than loaded sections have been passed. `layout_table_full` shows the need.
- `SectionsNeverOverlap` (`SectionsApart`), with `Ordered` as the strengthening:
  what is placed has a smaller number than the section at hand and ends at or
  below `start`.
- `SectionsArePlaced` (`PlacesRegions`), the refinement of `Regions`,
  from `Ordered` and `Multiples` (addresses are multiples of the alignment they are
  rounded to). The first address is rounded to the other alignment, of which this one
  has to be a divisor (`SectionAlign % FileAlign = 0`).

`ImageAgreementProofs` proves what three walks over the same sections have to agree on:

- `LoadedWhereRelocated` (`RelocatedAsLoaded`). The invariant has to say what a
  mapping is without saying how it was computed: by `WalkOf` it holds the loaded ones
  of the first n sections, in order, each where its predecessor ends, rounded, so
  that there is only one such mapping. `Walks` says that `rvas` is one of the sections passed and `used`
  one of all but `.reloc`; `Repeats` that the second walk is the first as far as
  it has come, from which it differs by the one section behind; `Tabled` that the
  table in the header is the second.
- `EntryIsTheSymbol` (`EntryAgrees`), with `Entered`: the entry symbol's section is
  one of gcc's, and its address is the one in `used`.
- `DirectoriesAreSections` (`DirectoriesMapped`), if gcc's output has no `.reloc`
  or `.peheader` (`PlainInputs`): with a `.reloc` of its own the name would be there
  twice, and the directory is one of those of that name. The linker script makes neither.
- `BytesWhereTold` (`RawOffsetsMatch`), with `PlainInputs` and equal alignments. `Located`
  says that what the file holds so far ends where the next entry's bytes are expected.
  `layout_swapped` shows that it is false of unequal alignments.

`RelocProofs`, for every program, every order of relocations, and every size of
cell, page and branch field:

- `TypeCorrect` (`TypeOK`), if fields fit (`FieldsFit`). That a branch stays a word is
  `BranchField`: the field is cut out and another put in without a carry.
- `NothingElseChanges` (`UntouchedElsewhere`), if fields fit, overlapping or not.
- `EveryFieldReaches` (`FieldsReach`), if fields fit and are clear of each other
  (`FieldsClear`). `Kept` is the strengthening: each field applied holds what its relocation
  wrote, as a function of the old word alone, in both links; `Blank` that every other
  cell is as it was. Keeping `Kept` is where `FieldsClear` and the disjoint sections
  are needed. Then it is arithmetic modulo the word: `RelativeReaches`,
  `BranchReaches` (a sign-extended field in range is the distance) and
  `HighReaches` (the carry makes up for a low half with its sign extended).
- `LoaderCanMove` (`NotesComplete`), with both hypotheses, from `Told` as well: the
  slices hold the site and type of every absolute field, and nothing else.
  `CellRebased` compares the two links cell by cell.

`RelocSectionProofs`, for every number of pages and entries, with `FieldsFit` and
`FieldsClear`. The invariant is `SInv`: `Reloc`'s own (`RInv`), `Rendering` and `Loading`.
`Rendering` says of each block begun (`Laid`) that its cells hold, in order, an entry for
each offset the iterator has passed and zeros behind them, and of the blocks (`Tiled`)
that they follow each other from the first cell to the last. `Loading` says that
`image` is `Rebased(mem, Read)`, with `Read` the notes in the cells in front of the loader's
place, without those that it took for low halves (`Read \ Overlooked`). In this form no
recursion over blocks is needed:

- `SectionSaysNotes` (`RenderFaithful`) and `LoaderStaysInStep` (`LoaderInStep`), from
  `Laid` and `Tiled`. That the padding has room is counting: `EntryFits` compares the
  cardinality of the offsets written with that of the slice.
- `LoadedImageIsRebased` (`Rebasable`). Which entries are overlooked is a matter of counting
  the HIGHADJs right in front of one; that the loader stands before an entry that is not
  overlooked, or behind one that is and goes with it, is part of `Loading` and kept by
  `FirstTaken` and `NextTaken`. A step of the loader then adds one note to `Read`, which
  is not there yet because no two cells are about one address, and applying it changes the
  cells of that note only, because no two notes are about one memory cell. What it takes for a low half does
  not matter, `Delta` being a multiple of 64 KB (`LowSlotIdle`). At the end
  `Read` is `Notes`, and `NotesComplete` does the rest.
- `RelocatedToTheEnd` states `Reloc`'s four properties of the composition.

`HiveProofs`, for every tree, every size and every bin, without further hypotheses:

- `TypeCorrect` (`TypeOK`) and `NoCellCut` (`CellsKept`), from `IInv`, which adds
  `Placing`: claims lie on the grain and end at or below `Frontier`, the next address
  of the last bin.
- `CellsArePlaced` (`PlacesCells`), the refinement of `Regions`, from the same.
- `WrittenAsClaimed` (`WritesAsClaimed`). `Pending` is the strengthening: the claims not
  written yet are, one for one, those of the keys on `makecell`'s stack, which is why a
  key's late write finds its cell still unwritten and of the right length.
- `HiveReadsBack` (`HiveDecodes`). Following handles through a tree looks like induction over
  its depth; it is not, because `HiveDecodes` says of each header that was written where
  its lists lead, and these are facts about single cells. `Linked` is the strengthening:
  each header written so far `LeadsIn` to headers and values that are written, with its own
  handle as their parent, and each call on the stack has such for the subkeys and values
  it is done with, while its caller waits for the next one. What a cell holds never
  changes (`HeldStays`), since by `Pending` no cell is written twice.

`TableProofs`, about tables that are rewritten where they stand:

- `TablesAreShadowed` (`IatShadows`), for every well-formed import section. The invariant
  `IInv` says which address tables are copies so far (`CopiedUpTo`, `CopiesTable`), that
  `iatBegin` and `iatEnd` are the extremes of those (`Spans`), and what keeps the walk on its
  way: only slots of address tables have changed, and never their zeros (`Untouched`).
- `CodePageConverted`: for every `CodePage` the result of `swapnls` is `SwappedInPlace`, which
  is what `NlsSwapped` checks of small files. With an OEM table each part is put out at the place it was
  read from (`SwappedSlice`, `CopiedSlice`); without one the parts in front of it are, two
  zeros follow, and then the ranges, one half word too far up, or the rest of the file
  without its first half word.

`DriverProofs`, for any number of runs and any exit codes and signals:

- `TypeCorrect` (`TypeOK`), `NeverHalfWritten` (`OutputWhole`), `SuccessIsFresh`
  (`OutputFresh`) and `NothingStale` (`NeverAnOlderImage`). Only the first is inductive.
  `Whole` adds that a temporary file about to be renamed is complete while `fopen` and
  `fwrite` work; `Own` that without orphans the file the fixups have opened is this run's;
  `Progress` that in a run without trouble the temporary file is this run's image at the
  rename, and the output is after it; `Swept` that without kills and failed renames no temporary file outlives its
  run, and `NotOlder` what a single failure leaves of that.

They assume that a failing gcc exits with 1 to 255 or dies of a signal from 1 to
127 (`DriverAssumption`).

Only model-checked:

- liveness (`Terminates`, `Loads`, `Exports`, `FixupEnds`, `RunsEnd`), which is outside of what the prover does;
- `EntriesFound`, which follows handles along a path of any length: that takes induction
  over data, which the provers cannot instantiate;
- `OptionsHonoured`, `PassedOn` and `NecessaryDefined` of `Args`, and the functions of
  `MCFunctions` other than `Roundup` and `swapnls`, which are recursive functions and folds over
  sequences.

## Not modelled

The patches in `gnu/` (to sources that are not here), the linker script (it shapes
the inputs of `MCImageLayout`), `CombineImportSections` and `removeSection` (not
called), `ExportFixup` (writes back what it reads), traces, header fields
without influence on the layout. Alignments that are not powers of two, `SHT_REL`
sections (whose addends are uninitialized), relocations that repeat or overlap,
fields that straddle the end of their section, and import tables without a zero are
outside the inputs: the toolchain emits none of them, and the code promises
nothing about them. Of `reginf.py`, `flags` and `bindata` evaluate fields as Python
expressions and are left out, and so are the roots that `HKLM` and the others stand
for. The size in front of a hive's cells is left out: it is not the space the cell
takes, and nobody promises that it is. What `install.sh`'s commands do on disk
belongs to make, patch and cp.

## Plan

1. Done: `Align`, `Regions`, `ImageLayout`, `Reloc`, `RelocSection`, `Hive` with `RegTree`,
   `Driver`, `Args`, `Symbols`, `Imports`, `NlsSwap`, `InfFile` and `Install`, and the proofs
   about `ImageLayout`, `Reloc`, `RelocSection`, `Hive`, `Driver`, `Imports` and `NlsSwap`.
2. Proofs left: what `Args` can say step by step without its recursion (a pass neither
   invents nor reorders arguments), and one-step facts of the functions in `Symbols` that
   need no induction.
