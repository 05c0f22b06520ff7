-------------------------------- MODULE Hive --------------------------------
(***************************************************************************)
(* Writing a registry hive (src/pyhive/hbin.py).  regkey.makecell turns a  *)
(* tree of keys and values into cells: it claims a cell for the key, then  *)
(* claims and writes the cells of its values, does the same for each       *)
(* subkey, claims and writes the two lists, and writes the key's own cell  *)
(* last, when it knows where the lists are.  regf.claim takes space from   *)
(* the current bin, or from a new one when the current one is full, and a  *)
(* cell's handle is its bin's index and its offset in one number.          *)
(*                                                                         *)
(* Contents are kept as records of what encode and encode_header put into  *)
(* the cell; only their lengths are numbers.                               *)
(***************************************************************************)
EXTENDS Integers, Sequences

CONSTANTS
  BinSize,     \* hbin.size
  BinHeader,   \* where the first cell of a bin begins
  Usable,      \* hbin.usable: no claim ends above it
  Gran,        \* cells begin on multiples of this
  KeyLen,      \* bytes of a key's header apart from its name
  ValueLen,    \* bytes of a value's header apart from its name
  Trees        \* [root, subkeys, values, name, flags]: the key that export starts
               \* from, and for each key its subkeys and its values [size, name]
               \* in order, the length of its name and its flags

ASSUME BinAssumption ==
  /\ {BinSize, BinHeader, Usable, KeyLen, ValueLen} \subseteq Nat
  /\ Gran \in Nat \ {0}
  /\ BinHeader % Gran = 0 /\ BinSize % Gran = 0
  /\ BinHeader <= Usable /\ Usable + 4 <= BinSize

ASSUME TreeAssumption == \A t \in Trees :
  LET keys == DOMAIN t.subkeys
  IN  /\ t.root \in keys
      /\ t.subkeys \in [keys -> Seq(keys)]
      /\ t.values \in [keys -> Seq([size : Nat, name : Nat])]
      /\ t.name \in [keys -> Nat]

VARIABLES
  pc,        \* "building", "done" or "failed"
  tree,      \* the keys and values handed to export
  bins,      \* regf.bins: the "used" of each bin, the last being thebin
  claims,    \* the claims made: sequence of [cell, len]
  writes,    \* the cells written: sequence of [cell, len, content]
  stack,     \* the makecell calls in progress, the innermost last
  keycell    \* regf.keycell, the root's cell, which the hive's header names

vars == <<pc, tree, bins, claims, writes, stack, keycell>>

Null == -1         \* HCELL_NULL, and the parent of the root

-----------------------------------------------------------------------------
roundup(n, gran) == LET top == n + gran - 1 IN top - (top % gran)

\* hbin.claim: the new "used" if the current one is used; a cell is its data
\* and four bytes for its size.
UsedAfterNoSize(used, bytes) == roundup(used + bytes, Gran)   \* mutated
UsedAfter(used, bytes) == roundup(used + (bytes + 4), Gran)

FitsSize(used, bytes) == UsedAfter(used, bytes) <= BinSize    \* mutated
Fits(used, bytes) == UsedAfter(used, bytes) <= Usable

Used == bins[Len(bins)]

\* regf.claim, where the handle's low 12 bits are the offset in the bin.
Handle(index, offset) == index * BinSize + offset

ClaimedCell(bytes) == IF Fits(Used, bytes) THEN Handle(Len(bins) - 1, Used)
                      ELSE Handle(Len(bins), BinHeader)

BinsAfterReuse(bytes) ==                                   \* mutated
  IF Fits(Used, bytes) THEN [bins EXCEPT ![Len(bins)] = UsedAfter(Used, bytes)]
  ELSE Append(bins, BinHeader)

BinsAfter(bytes) ==
  IF Fits(Used, bytes) THEN [bins EXCEPT ![Len(bins)] = UsedAfter(Used, bytes)]
  ELSE Append(bins, UsedAfter(BinHeader, bytes))

ClaimableHere(bytes) == Fits(Used, bytes)                  \* mutated
Claimable(bytes) == Fits(Used, bytes) \/ Fits(BinHeader, bytes)

Claim(bytes) ==
  /\ Claimable(bytes)
  /\ bins' = BinsAfter(bytes)
  /\ claims' = Append(claims, [cell |-> ClaimedCell(bytes), len |-> bytes])

Write(cell, bytes, content) ==
  writes' = Append(writes, [cell |-> cell, len |-> bytes, content |-> content])

\* regf.claim_write.
ClaimWrite(bytes, content) ==
  Claim(bytes) /\ Write(ClaimedCell(bytes), bytes, content)

-----------------------------------------------------------------------------
\* A call of makecell: the key, its cell and what it has collected so far.
Frame(key, cell, parent) ==
  [key |-> key, cell |-> cell, parent |-> parent, data |-> Null,
   valcells |-> <<>>, keycells |-> <<>>, keylist |-> Null, valuelist |-> Null]

Top == stack[Len(stack)]
Under == SubSeq(stack, 1, Len(stack) - 1)

ReplaceTop(frame) == stack' = [stack EXCEPT ![Len(stack)] = frame]

Root == tree.root
Subkeys(key) == tree.subkeys[key]
Values(key) == tree.values[key]

HeaderLen(key) == KeyLen + roundup(tree.name[key], 4)

\* regval.makecell's and makecell's next piece of work in the innermost call.
ValuesLeft  == Len(Top.valcells) < Len(Values(Top.key))
KeysLeft    == ~ValuesLeft /\ Len(Top.keycells) < Len(Subkeys(Top.key))
ListsLeft   == ~ValuesLeft /\ ~KeysLeft
NextValue   == Values(Top.key)[Len(Top.valcells) + 1]
NextSubkey  == Subkeys(Top.key)[Len(Top.keycells) + 1]

Building == pc = "building" /\ stack # <<>>

Init ==
  /\ pc = "building"
  /\ tree \in Trees
  /\ bins = <<BinHeader>>
  /\ claims = <<>>
  /\ writes = <<>>
  /\ stack = <<>>
  /\ keycell = Null

\* export calls makecell of the root key.
StartRoot ==
  /\ pc = "building" /\ stack = <<>>
  /\ Claim(HeaderLen(Root))
  /\ stack' = <<Frame(Root, ClaimedCell(HeaderLen(Root)), Null)>>
  /\ UNCHANGED <<pc, tree, writes, keycell>>

\* regval.makecell, first half: the value's data.
WriteData ==
  /\ Building /\ ValuesLeft /\ Top.data = Null
  /\ ClaimWrite(NextValue.size, [kind |-> "data", size |-> NextValue.size])
  /\ ReplaceTop([Top EXCEPT !.data = ClaimedCell(NextValue.size)])
  /\ UNCHANGED <<pc, tree, keycell>>

\* regval.makecell, second half: the value, which names its data's cell.
WriteValue ==
  /\ Building /\ ValuesLeft /\ Top.data # Null
  /\ LET bytes == ValueLen + roundup(NextValue.name, 4)
     IN  /\ ClaimWrite(bytes, [kind |-> "value", size |-> NextValue.size,
                               data |-> Top.data])
         /\ ReplaceTop([Top EXCEPT !.valcells = Append(@, ClaimedCell(bytes)),
                                   !.data = Null])
  /\ UNCHANGED <<pc, tree, keycell>>

\* The recursive call for a subkey, which claims its cell at once.
EnterSubkey ==
  /\ Building /\ KeysLeft
  /\ Claim(HeaderLen(NextSubkey))
  /\ stack' = Append(stack, Frame(NextSubkey, ClaimedCell(HeaderLen(NextSubkey)), Top.cell))
  /\ UNCHANGED <<pc, tree, writes, keycell>>

\* make_key_list_cell.
WriteKeyList ==
  /\ Building /\ ListsLeft /\ Top.keylist = Null
  /\ LET bytes == 4 + 8 * Len(Top.keycells)
     IN  /\ ClaimWrite(bytes, [kind |-> "keylist", cells |-> Top.keycells])
         /\ ReplaceTop([Top EXCEPT !.keylist = ClaimedCell(bytes)])
  /\ UNCHANGED <<pc, tree, keycell>>

\* make_value_list_cell.
WriteValueList ==
  /\ Building /\ ListsLeft /\ Top.keylist # Null /\ Top.valuelist = Null
  /\ LET bytes == 4 * Len(Top.valcells)
     IN  /\ ClaimWrite(bytes, [kind |-> "valuelist", cells |-> Top.valcells])
         /\ ReplaceTop([Top EXCEPT !.valuelist = ClaimedCell(bytes)])
  /\ UNCHANGED <<pc, tree, keycell>>

\* encode_header, with what the call has collected.
HeaderContentOrphan(frame) ==                               \* mutated
  [kind |-> "key", key |-> frame.key, flags |-> tree.flags[frame.key], parent |-> Null,
   subkeys |-> Len(Subkeys(frame.key)), keylist |-> frame.keylist,
   values |-> Len(Values(frame.key)), valuelist |-> frame.valuelist]

HeaderContent(frame) ==
  [kind |-> "key", key |-> frame.key, flags |-> tree.flags[frame.key], parent |-> frame.parent,
   subkeys |-> Len(Subkeys(frame.key)), keylist |-> frame.keylist,
   values |-> Len(Values(frame.key)), valuelist |-> frame.valuelist]

\* The call ends: it writes the key's cell and returns it to its caller.
ReturnTo(frames, cell) ==
  IF frames = <<>> THEN <<>>
  ELSE [frames EXCEPT ![Len(frames)].keycells = Append(@, cell)]

FinishKey ==
  /\ Building /\ ListsLeft /\ Top.keylist # Null /\ Top.valuelist # Null
  /\ Write(Top.cell, HeaderLen(Top.key), HeaderContent(Top))
  /\ stack' = ReturnTo(Under, Top.cell)
  /\ pc' = IF Under = <<>> THEN "done" ELSE pc
  /\ keycell' = IF Under = <<>> THEN Top.cell ELSE keycell
  /\ UNCHANGED <<tree, bins, claims>>

\* The claim that the next piece of work begins with.
NextClaim ==
  CASE stack = <<>>                     -> HeaderLen(Root)
    [] Building /\ ValuesLeft           -> IF Top.data = Null THEN NextValue.size
                                           ELSE ValueLen + roundup(NextValue.name, 4)
    [] Building /\ KeysLeft             -> HeaderLen(NextSubkey)
    [] Building /\ ListsLeft            -> IF Top.keylist = Null
                                           THEN 4 + 8 * Len(Top.keycells)
                                           ELSE 4 * Len(Top.valcells)

\* regf.claim on a cell larger than a bin: the second thebin.claim returns None
\* as well, and combining it with the index raises a TypeError.
ClaimFails ==
  /\ pc = "building"
  /\ ~(Building /\ ListsLeft /\ Top.valuelist # Null)
  /\ ~Claimable(NextClaim)
  /\ bins' = Append(bins, BinHeader)
  /\ pc' = "failed"
  /\ UNCHANGED <<tree, claims, writes, stack, keycell>>

Next == \/ StartRoot \/ WriteData \/ WriteValue \/ EnterSubkey
        \/ WriteKeyList \/ WriteValueList \/ FinishKey \/ ClaimFails

\* One sequential program: it takes its next step.
Spec == Init /\ [][Next]_vars /\ WF_vars(Next)
-----------------------------------------------------------------------------
(* Properties.                                                             *)

\* The keys export reaches: the root's, their subkeys', and so on.
KeysWithin[depth \in Nat] ==
  IF depth = 0 THEN {Root}
  ELSE LET above == KeysWithin[depth - 1]
       IN  above \cup UNION {{Subkeys(p)[j] : j \in 1..Len(Subkeys(p))} : p \in above}
Keys == KeysWithin[Len(tree.subkeys)]

\* A call of makecell in progress.
Cell == Nat \cup {Null}
Call == [key : DOMAIN tree.subkeys, cell : Nat, parent : Cell, data : Cell,
         valcells : Seq(Nat), keycells : Seq(Nat), keylist : Cell, valuelist : Cell]

\* A bin's "used" stays between its header and what is usable of it, and every
\* handle is a number a cell can hold.
TypeOK ==
  /\ pc \in {"building", "done", "failed"}
  /\ bins \in Seq(BinHeader..Usable) /\ bins # <<>>
  /\ claims \in Seq([cell : Nat, len : Nat])
  /\ keycell \in Cell
  /\ \A k \in 1..Len(writes) : writes[k].cell \in Nat /\ writes[k].len \in Nat
  /\ stack \in Seq(Call)

\* Cells are handed out the way Regions promises: however the claims of a key,
\* its values and its subkeys interleave, and across bins, no cell covers
\* another one, size field included.
Cells == INSTANCE Regions WITH
           Floor <- BinHeader, Unit <- Gran,
           regions <- {[owner |-> k, lo |-> claims[k].cell,
                        hi |-> claims[k].cell + 4 + claims[k].len] : k \in 1..Len(claims)}
\* PlacesCells: hbin.claim and regf.claim together implement Regions.
PlacesCells == Cells!Spec

\* Every cell lies in the part of its own bin that export keeps, which leaves
\* room for the end mark: block[:used] cuts no cell, a bin stays BinSize long,
\* and the handle splits into the index and offset it was made of.
CellsKept ==
  \A k \in 1..Len(claims) :
    LET index  == claims[k].cell \div BinSize
        offset == claims[k].cell % BinSize
    IN  /\ index < Len(bins)
        /\ BinHeader <= offset
        /\ offset + 4 + claims[k].len <= bins[index + 1]
        /\ bins[index + 1] + 4 <= BinSize

\* A key's cell is written long after it is claimed, with the whole subtree in
\* between; what is written is what was claimed, once.
WritesAsClaimed ==
  /\ \A k \in 1..Len(writes) :
       \E c \in 1..Len(claims) : /\ claims[c].cell = writes[k].cell
                                /\ claims[c].len = writes[k].len
  /\ \A k, l \in 1..Len(writes) : writes[k].cell = writes[l].cell => k = l
  /\ pc = "done" => Len(writes) = Len(claims)

\* Reading the hive back: what was written at a handle.
ContentAt(h) == LET k == CHOOSE k \in 1..Len(writes) : writes[k].cell = h
                IN  writes[k].content

HeaderAt(h, key, parent) ==
  LET header == ContentAt(h)
  IN  header.kind = "key" /\ header.key = key /\ header.parent = parent

ValueAt(h, size) ==
  LET value == ContentAt(h)
  IN  /\ value.kind = "value" /\ value.size = size
      /\ ContentAt(value.data) = [kind |-> "data", size |-> size]

\* The lists that the header at h names lead to the subkeys and the values of its
\* key, all of them, in their order; the subkeys lead back to it.
Leads(h) ==
  LET header == ContentAt(h)
      subs   == ContentAt(header.keylist)
      listed == ContentAt(header.valuelist)
  IN  /\ subs.kind = "keylist" /\ listed.kind = "valuelist"
      /\ header.subkeys = Len(Subkeys(header.key)) /\ Len(subs.cells) = header.subkeys
      /\ \A j \in 1..header.subkeys : HeaderAt(subs.cells[j], Subkeys(header.key)[j], h)
      /\ header.values = Len(Values(header.key)) /\ Len(listed.cells) = header.values
      /\ \A j \in 1..header.values : ValueAt(listed.cells[j], Values(header.key)[j].size)

\* The root's handle names the root, and every header written leads on to what its
\* key holds: reading from the root finds the whole tree that was exported.
HiveDecodes ==
  pc = "done" =>
    /\ HeaderAt(keycell, Root, Null)
    /\ \A k \in 1..Len(writes) : writes[k].content.kind = "key" => Leads(writes[k].cell)

\* Some cell of the tree does not fit in an empty bin.
TooLarge ==
  \E key \in Keys :
    \/ ~Fits(BinHeader, HeaderLen(key))
    \/ ~Fits(BinHeader, 4 + 8 * Len(Subkeys(key)))
    \/ ~Fits(BinHeader, 4 * Len(Values(key)))
    \/ \E j \in 1..Len(Values(key)) :
         \/ ~Fits(BinHeader, Values(key)[j].size)
         \/ ~Fits(BinHeader, ValueLen + roundup(Values(key)[j].name, 4))

\* export comes to an end, with a hive unless some cell is larger than a bin.
Exports == <>(pc = IF TooLarge THEN "failed" ELSE "done")

=============================================================================
