------------------------------- MODULE MCImports -------------------------------
(* Import sections of up to two descriptors, with their tables in any order *)
(* behind them, and none.                                                   *)
EXTENDS Imports, SequencesExt

CONSTANT ImportRva

Hints == UNION {[1..n -> {7, 8}] : n \in 0..2}

Blocks(n) == {<<d, which>> : d \in 1..n, which \in {"lookup", "iat"}}

\* A table is its hints and a zero; what an address table holds before is 9.
ImportSection(hints, order) ==
  LET n        == Len(hints)
      fill(b)  == IF b[2] = "lookup" THEN hints[b[1]] ELSE [k \in 1..Len(hints[b[1]]) |-> 9]
      written  == [k \in 1..Len(order) |-> Append(fill(order[k]), 0)]
      place(b) == 5 * (n + 1) + Len(FlattenSeq(SubSeq(written, 1, SelectInSeq(order, LAMBDA c : c = b) - 1)))
      table(d) == [lookup |-> place(<<d, "lookup">>), iat |-> place(<<d, "iat">>), hints |-> hints[d]]
      entry(d) == <<ImportRva + table(d).lookup, 1, 1, 1, ImportRva + table(d).iat>>
  IN  [rva    |-> ImportRva,
       words  |-> FlattenSeq([d \in 1..n |-> entry(d)]) \o <<0, 0, 0, 0, 0>> \o FlattenSeq(written),
       tables |-> [d \in 1..n |-> table(d)]]

MCSections ==
  {[rva |-> 0, words |-> <<>>, tables |-> <<>>]}
    \cup UNION {{ImportSection(hints, order) : hints \in [1..n -> Hints], order \in SetToSeqs(Blocks(n))}
                : n \in 0..2}
=============================================================================
