-------------------------------- MODULE RegTree --------------------------------
(***************************************************************************)
(* The tree of keys mkhive.py builds from the entries of the INF files     *)
(* before a hive is written: addkey, addkey_with_type and navigate of      *)
(* src/pyhive/hbin.py.                                                     *)
(*                                                                         *)
(* A tree is [subkeys, values, label, flags], functions of the keys, which *)
(* are numbered in the order they are made; key 1 is the absolute root.  A *)
(* name is what it is in lower case and how it is spelled.                 *)
(***************************************************************************)
EXTENDS Integers, Sequences, SequencesExt

Name(word, spelled) == [word |-> word, spelled |-> spelled]

\* regkey.__init__: a name in bytes, not in half words.
Packed == {"packed"}

OneKey(name) == [subkeys |-> << <<>> >>, values |-> << <<>> >>, label |-> <<name>>, flags |-> <<Packed>>]

addvalue(tree, key, value) == [tree EXCEPT !.values[key] = Append(@, value)]

\* A new key without subkeys and values, the last of its parent's.
addsubkey(tree, key, name) ==
  [subkeys |-> Append([tree.subkeys EXCEPT ![key] = Append(@, Len(tree.label) + 1)], <<>>),
   values  |-> Append(tree.values, <<>>),
   label   |-> Append(tree.label, name),
   flags   |-> Append(tree.flags, Packed)]

navigateExact(at, name) ==                                  \* mutated
  LET same == SelectInSeq(at.tree.subkeys[at.key], LAMBDA k : at.tree.label[k] = name)
  IN  IF same # 0 THEN [at EXCEPT !.key = at.tree.subkeys[at.key][same]]
      ELSE [tree |-> addsubkey(at.tree, at.key, name), key |-> Len(at.tree.label) + 1]

\* navigate, from the key "at" stands at: the subkey of this name in any spelling,
\* or a new one.
navigate(at, name) ==
  LET same == SelectInSeq(at.tree.subkeys[at.key], LAMBDA k : at.tree.label[k].word = name.word)
  IN  IF same # 0 THEN [at EXCEPT !.key = at.tree.subkeys[at.key][same]]
      ELSE [tree |-> addsubkey(at.tree, at.key, name), key |-> Len(at.tree.label) + 1]

\* addkey's alias.
Aliased(name) ==
  IF name.spelled = "CurrentControlSet" THEN Name("controlset001", "ControlSet001") ELSE name

\* addkey: the path from the absolute root.
addkey(tree, path) ==
  FoldLeft(LAMBDA at, name : navigate(at, Aliased(name)), [tree |-> tree, key |-> 1], path)

\* addkey_with_type: the flags of the entry replace those of the key.
addkey_with_type(tree, path, flags) ==
  LET at == addkey(tree, path) IN [at EXCEPT !.tree.flags[at.key] = flags]

\* FLG_ADDREG_KEYONLY is the same bit as REG_KEY_LINK_CELL.
KeyOnly == {"link"}

\* mkhive: an entry [path, keyonly, value].
AddEntry(tree, entry) ==
  IF entry.keyonly THEN addkey_with_type(tree, entry.path, KeyOnly).tree
  ELSE LET at == addkey(tree, entry.path) IN addvalue(at.tree, at.key, entry.value)

\* regf.__init__ marks its root.
Marked(at) == [at EXCEPT !.tree.flags[at.key] = @ \cup {"root"}]

\* The absolute root, the hive's root at a path, and all entries, wherever they
\* belong.
HiveTree(absolute, path, entries) ==
  LET root == Marked(addkey(Marked([tree |-> OneKey(absolute), key |-> 1]).tree, path))
  IN  [tree |-> FoldLeft(AddEntry, root.tree, entries), key |-> root.key]

=============================================================================
