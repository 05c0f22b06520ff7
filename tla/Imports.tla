-------------------------------- MODULE Imports --------------------------------
(***************************************************************************)
(* ImportFixup (src/elfpe/imports.cpp): a walk over the import descriptors *)
(* in .idata, and for each a walk over its lookup table, which is copied   *)
(* into its import address table.  The range of all address tables is      *)
(* remembered for the header.                                              *)
(*                                                                         *)
(* The section is written while it is read.  Its unit here is the 32-bit   *)
(* word, and addresses count words; a descriptor is five words: the first  *)
(* is the address of the lookup table, or 0 after the last one, the fifth  *)
(* that of the table the program calls through.                            *)
(***************************************************************************)
EXTENDS Integers, Sequences

CONSTANT Sections    \* import sections [rva, words, tables]; a table is [lookup,
                     \* iat, hints]: where its two copies are, and what it holds

Slots(first, hints) == first..(first + Len(hints))

\* What the walk relies on and does not check: the tables lie in the section behind
\* the descriptors, the lookup tables end in a zero, and the address tables have
\* one where it will be needed and share no word with another table.
WellFormed(s) ==
  LET n == Len(s.tables)
  IN  /\ \A d \in 1..n : LET t == s.tables[d] IN
           /\ s.words[5 * d - 4] = s.rva + t.lookup /\ s.words[5 * d] = s.rva + t.iat
           /\ 5 * (n + 1) <= t.lookup /\ t.lookup + Len(t.hints) < Len(s.words)
           /\ 5 * (n + 1) <= t.iat /\ t.iat + Len(t.hints) < Len(s.words)
           /\ \A k \in 1..Len(t.hints) : s.words[t.lookup + k] = t.hints[k]
           /\ s.words[t.lookup + Len(t.hints) + 1] = 0
           /\ s.words[t.iat + Len(t.hints) + 1] = 0
      /\ \A c, d \in 1..n : LET t == s.tables[c]  u == s.tables[d] IN
           /\ Slots(t.iat, t.hints) \cap Slots(u.lookup, u.hints) = {}
           /\ c # d => Slots(t.iat, t.hints) \cap Slots(u.iat, u.hints) = {}
      /\ s.words # <<>> => 5 * (n + 1) <= Len(s.words) /\ s.words[5 * n + 1] = 0
      /\ s.words = <<>> => n = 0

ASSUME SectionAssumption == \A s \in Sections :
  /\ s.rva \in Nat /\ s.words \in Seq(Nat)
  /\ s.tables \in Seq([lookup : Nat, iat : Nat, hints : Seq(Nat \ {0})])
  /\ WellFormed(s)

VARIABLES
  pc,            \* "descriptor", "copying" or "done"
  given,         \* the import section as it was found; no words if there is none
  section,       \* its words now
  importTarget,  \* the word that the next descriptor begins with
  hintName,      \* where the lookup table began
  hintTablePtr,  \* the next word of the lookup table
  iatTablePtr,   \* the next word of the address table
  iatRva,        \* the address of the address table
  iatBegin, iatEnd,
  iat            \* eof's iat: the address and the size that setIat was given

vars == <<pc, given, section, importTarget, hintName, hintTablePtr, iatTablePtr,
          iatRva, iatBegin, iatEnd, iat>>

At(word) == section[word + 1]
-----------------------------------------------------------------------------
Init ==
  /\ pc = "descriptor"
  /\ given \in Sections
  /\ section = given.words
  /\ importTarget = 0
  /\ hintName = 0 /\ hintTablePtr = 0 /\ iatTablePtr = 0 /\ iatRva = 0
  /\ iatBegin = 0 /\ iatEnd = 0
  /\ iat = <<0, 0>>

\* Without an import section there is nothing to do.
NoImports ==
  /\ pc = "descriptor" /\ section = <<>>
  /\ pc' = "done"
  /\ UNCHANGED <<given, section, importTarget, hintName, hintTablePtr, iatTablePtr,
                 iatRva, iatBegin, iatEnd, iat>>

NextDescriptorStuck(target) == target                       \* mutated
NextDescriptor(target) == target + 5

\* The beginning of the outer loop's body: two fields of the descriptor.
ReadDescriptor ==
  /\ pc = "descriptor" /\ section # <<>>
  /\ At(importTarget) # 0
  /\ hintTablePtr' = At(importTarget) - given.rva
  /\ hintName' = hintTablePtr'
  /\ iatRva' = At(importTarget + 4)
  /\ iatTablePtr' = iatRva' - given.rva
  /\ importTarget' = NextDescriptor(importTarget)
  /\ pc' = "copying"
  /\ UNCHANGED <<given, section, iatBegin, iatEnd, iat>>

\* One round of the inner loop.
CopyHint ==
  /\ pc = "copying" /\ At(hintTablePtr) # 0
  /\ section' = [section EXCEPT ![iatTablePtr + 1] = At(hintTablePtr)]
  /\ hintTablePtr' = hintTablePtr + 1
  /\ iatTablePtr' = iatTablePtr + 1
  /\ UNCHANGED <<pc, given, importTarget, hintName, iatRva, iatBegin, iatEnd, iat>>

\* The range includes the zero at the table's end, which has been read but is not
\* written.
IatMaxShort(read) == read - 1 + iatRva                      \* mutated
IatMax(read) == read + iatRva

\* The inner loop has read a zero; the rest of the outer loop's body.
EndTable ==
  /\ pc = "copying" /\ At(hintTablePtr) = 0
  /\ hintTablePtr' = hintTablePtr + 1
  /\ LET iatMax == IatMax(hintTablePtr' - hintName)
     IN  /\ iatBegin' = IF iatBegin = 0 \/ iatRva < iatBegin THEN iatRva ELSE iatBegin
         /\ iatEnd' = IF iatEnd = 0 \/ iatMax > iatEnd THEN iatMax ELSE iatEnd
  /\ pc' = "descriptor"
  /\ UNCHANGED <<given, section, importTarget, hintName, iatTablePtr, iatRva, iat>>

\* The descriptor after the last one.
Finish ==
  /\ pc = "descriptor" /\ section # <<>>
  /\ At(importTarget) = 0
  /\ importTarget' = NextDescriptor(importTarget)
  /\ iat' = <<iatBegin, iatEnd - iatBegin>>
  /\ pc' = "done"
  /\ UNCHANGED <<given, section, hintName, hintTablePtr, iatTablePtr, iatRva, iatBegin, iatEnd>>

Next == NoImports \/ ReadDescriptor \/ CopyHint \/ EndTable \/ Finish

\* One sequential program: it takes its next step.
Spec == Init /\ [][Next]_vars /\ WF_vars(Next)

\* The entry of the header: nothing unless both are set.
getIat == IF iat[1] # 0 /\ iat[2] # 0 THEN iat ELSE <<0, 0>>
-----------------------------------------------------------------------------
(* Properties.                                                             *)

Tables == 1..Len(given.tables)
IatSlots(d) == Slots(given.tables[d].iat, given.tables[d].hints)
AllSlots == UNION {IatSlots(d) : d \in Tables}

\* Though the section is rewritten while it is walked, in the end each import address
\* table is a copy of its lookup table, nothing else in the section has changed, and
\* the range in the header goes from the first word of an address table to the zero
\* of one and holds all of them, in whatever order they lie.
IatShadows ==
  pc = "done" =>
    /\ Len(section) = Len(given.words)
    /\ \A d \in Tables : LET t == given.tables[d] IN
         \A w \in IatSlots(d) : At(w) = Append(t.hints, 0)[w - t.iat + 1]
    /\ \A w \in 0..(Len(section) - 1) \ AllSlots : At(w) = given.words[w + 1]
    /\ IF Tables = {} THEN getIat = <<0, 0>>
       ELSE LET first == getIat[1] - given.rva
                last  == first + getIat[2] - 1
            IN  AllSlots \subseteq first..last /\ {first, last} \subseteq AllSlots

\* The walk ends: no hint that is copied hides the zero that ends a lookup table.
FixupEnds == <>(pc = "done")

=============================================================================
