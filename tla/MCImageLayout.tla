--------------------------- MODULE MCImageLayout ---------------------------
(* Inputs for TLC: every sequence of sections, up to Longest of them, drawn *)
(* from the kinds the linker script and gcc -r produce, with sizes on and   *)
(* around an alignment boundary.                                            *)
EXTENDS ImageLayout

CONSTANTS Longest,   \* bound on the sections of an input
          Sizes      \* sizes of the sections

Kinds ==
  [name : {".text", ".idata"}, nobits : {FALSE}, alloc : {TRUE}, size : Sizes]
    \cup [name : {".bss"}, nobits : {TRUE}, alloc : {TRUE}, size : Sizes]
    \cup [name : {".other"}, nobits : {FALSE}, alloc : {FALSE}, size : {1}]

MCInputs == UNION {[1..n -> Kinds] : n \in 1..Longest}

\* Enough sections of one page or less to come to the end of the table.
Filled(n) == [k \in 1..n |-> [name |-> IF k = n THEN ".bss" ELSE ".text",
                              nobits |-> k = n, alloc |-> TRUE, size |-> 12 * k]]
Unloaded == [name |-> ".other", nobits |-> FALSE, alloc |-> FALSE, size |-> 1]
MCFilled == UNION {{Filled(n), Append(Filled(n), Unloaded)} : n \in 1..(MaxSections - 1)}

MCAll == MCInputs \cup MCFilled
=============================================================================
