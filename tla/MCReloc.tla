------------------------------ MODULE MCReloc ------------------------------
(* A program of four loaded sections and a debug section, with addresses    *)
(* and values scaled down to 4-bit cells.                                   *)
EXTENDS RelocSection, SequencesExt

MCSections ==
  [s \in 1..5 |->
     CASE s = 1 -> [rva |-> 16, size |-> 8, alloc |-> TRUE, rsrc |-> FALSE]
       [] s = 2 -> [rva |-> 24, size |-> 4, alloc |-> TRUE, rsrc |-> FALSE]
       [] s = 3 -> [rva |-> 32, size |-> 4, alloc |-> TRUE, rsrc |-> FALSE]
       [] s = 4 -> [rva |-> 40, size |-> 4, alloc |-> TRUE, rsrc |-> TRUE]
       [] OTHER -> [rva |-> 0, size |-> 4, alloc |-> FALSE, rsrc |-> FALSE]]

\* In .text, in .data, a common symbol and one the program does not define.
Names == { [section |-> 1, value |-> 6, comdat |-> -1],
           [section |-> 2, value |-> 3, comdat |-> -1],
           [section |-> 0, value |-> 4, comdat |-> 2],
           [section |-> 0, value |-> 0, comdat |-> -1] }

Words  == {"ADDR32", "REL32", "UADDR32", "REL24", "NONE"}
Halves == {"ADDR16_LO", "ADDR16_HA"}

Relocs ==
  [target : {1}, offset : {0, 4, 8}, type : Words, symbol : Names, addend : {0, 9}]
    \cup [target : {1}, offset : {2, 3}, type : Halves, symbol : Names, addend : {0, 9}]
    \cup [target : {2, 4, 5}, offset : {0}, type : Words, symbol : Names, addend : {0}]
    \cup [target : {2}, offset : {3}, type : Halves, symbol : Names, addend : {0}]

Clear(r, q) == r.target # q.target \/ r.offset + Width(r) <= q.offset
                                   \/ q.offset + Width(q) <= r.offset

Pairs == {<<>>} \cup {<<r>> : r \in Relocs}
                \cup {s \in {<<r, q>> : r, q \in Relocs} : Clear(s[1], s[2])}

\* Up to five entries on one page and some on the next, in any order.
Dense(type) == {[target |-> 1, offset |-> o, type |-> type, addend |-> 1,
                 symbol |-> [section |-> 2, value |-> 3, comdat |-> -1]] : o \in {1, 3, 5, 6, 7}}
Pages == {SetToSeq(d \cup e) : d \in SUBSET Dense("ADDR16_HA"),
                               e \in {{}} \cup {{[target |-> 2, offset |-> 0, type |-> "ADDR32", addend |-> 0,
                                         symbol |-> [section |-> 0, value |-> 4, comdat |-> 2]]}}}

MCInputs == Pairs \cup Pages

\* They are such as the theorems of RelocProofs speak of.
ASSUME LinkerInputs == FieldsFit /\ FieldsClear
=============================================================================
