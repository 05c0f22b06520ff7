------------------------------ MODULE MCHive ------------------------------
(* Trees of up to three keys, with values of sizes that are empty, odd,     *)
(* half a bin, exactly what an empty bin holds and one byte more; and the   *)
(* trees mkhive makes of up to three INF entries, whose paths differ in     *)
(* spelling, use the alias in its own spelling or in another, or lead to    *)
(* another hive.                                                            *)
EXTENDS Hive, RegTree

CONSTANT Sizes

Vals(n) == UNION {[1..m -> [size : Sizes, name : {5}]] : m \in 0..n}

Tree(subkeys, values) ==
  [root |-> 1, subkeys |-> subkeys, values |-> values,
   name |-> [k \in DOMAIN subkeys |-> 3 * (k - 1)],
   flags |-> [k \in DOMAIN subkeys |-> Packed], entries |-> <<>>]

Shapes == { <<<<2, 3>>, <<>>, <<>>>>, <<<<2>>, <<3>>, <<>>>> }

Given ==
  {Tree(<<<<>>>>, <<v>>) : v \in Vals(3)}
    \cup {Tree(<<<<2>>, <<>>>>, v) : v \in [1..2 -> Vals(2)]}
    \cup {Tree(s, v) : s \in Shapes, v \in [1..3 -> Vals(1)]}

-----------------------------------------------------------------------------
(* Trees from INF entries.                                                 *)

Machine == <<Name("registry", "Registry"), Name("machine", "Machine")>>
HivePath == Append(Machine, Name("system", "SYSTEM"))

Paths ==
  { <<Name("system", "SYSTEM"), Name("setup", "Setup")>>,
    <<Name("system", "System"), Name("setup", "SETUP")>>,
    <<Name("system", "SYSTEM"), Name("currentcontrolset", "CurrentControlSet"), Name("setup", "Setup")>>,
    <<Name("system", "SYSTEM"), Name("controlset001", "ControlSet001"), Name("setup", "setup")>>,
    <<Name("system", "SYSTEM"), Name("currentcontrolset", "currentcontrolset"), Name("setup", "Setup")>>,
    <<Name("software", "SOFTWARE"), Name("setup", "Setup")>>,
    <<Name("system", "SYSTEM")>> }

\* The n-th entry's value is n bytes long, so that it can be recognized.
Entry(path, keyonly, n) ==
  [path |-> Machine \o path, keyonly |-> keyonly, value |-> [size |-> n, name |-> 5]]

EntryLists ==
  UNION {{[n \in 1..m |-> Entry(paths[n], keyonly[n], n)] : paths \in [1..m -> Paths], keyonly \in [1..m -> BOOLEAN]}
         : m \in 1..3}

FromEntries(entries) ==
  LET made == HiveTree(Name("", ""), HivePath, entries)
  IN  [root |-> made.key, subkeys |-> made.tree.subkeys, values |-> made.tree.values,
       name |-> [k \in DOMAIN made.tree.label |-> 6], flags |-> made.tree.flags,
       label |-> made.tree.label, entries |-> entries]

MCTrees == Given \cup {FromEntries(entries) : entries \in EntryLists}

-----------------------------------------------------------------------------
(* Looking an entry up in the written hive, as its reader does: names are   *)
(* compared without regard to case, and only a name stored in bytes is one. *)

Found(cell, word) ==
  {c \in {ContentAt(ContentAt(cell).keylist).cells[j] :
            j \in 1..Len(ContentAt(ContentAt(cell).keylist).cells)} :
     /\ "packed" \in ContentAt(c).flags
     /\ tree.label[ContentAt(c).key].word = word}

CellsAt(path) ==
  FoldLeft(LAMBDA cells, word : UNION {Found(c, word) : c \in cells}, {keycell}, path)

\* What a path in an INF file means, in any spelling: the current control set is the
\* first one.
Meant(path) ==
  [k \in DOMAIN path |-> IF path[k].word = "currentcontrolset" THEN "controlset001" ELSE path[k].word]

InHive(entry) == entry.path[3].word = HivePath[3].word
Below(entry) == SubSeq(Meant(entry.path), 4, Len(entry.path))

\* The code knows the current control set in one spelling only; in another it becomes
\* a key of its own, where no reader looks.
Astray(path) ==
  \E k \in DOMAIN path : path[k].word = "currentcontrolset" /\ path[k].spelled # "CurrentControlSet"

\* A line for a key alone replaces the flags of the key, "packed" included.
Renamed(path) ==
  \E n \in 1..Len(tree.entries) :
    LET e == tree.entries[n]
    IN  /\ e.keyonly /\ ~Astray(e.path) /\ 3 < Len(e.path) /\ Len(e.path) <= Len(path)
        /\ Meant(e.path) = SubSeq(Meant(path), 1, Len(e.path))

\* Every value of an INF entry that belongs to the hive is found in it, under one
\* key, whatever the spelling of other keys in its path and the order and number of
\* the entries.  Excluded are entries that spell CurrentControlSet in another way, and
\* those on whose path a line for a key alone stands.
EntriesFound ==
  pc = "done" => \A n \in 1..Len(tree.entries) :
    LET entry == tree.entries[n]
    IN  InHive(entry) /\ ~entry.keyonly /\ ~Astray(entry.path) /\ ~Renamed(entry.path) =>
          \E cell \in CellsAt(Below(entry)) :
            /\ CellsAt(Below(entry)) = {cell}
            /\ LET listed == ContentAt(ContentAt(cell).valuelist).cells
               IN  Cardinality({j \in 1..Len(listed) : ContentAt(listed[j]).size = entry.value.size}) = 1
=============================================================================
