-------------------------------- MODULE NlsSwap --------------------------------
(***************************************************************************)
(* swapnls (src/pynls/nlsswap.py): a code page file of little-endian half  *)
(* words, rewritten for a big-endian machine.  A file is the sequence of   *)
(* its half words; in the result each carries whether its bytes were       *)
(* swapped or copied.                                                      *)
(***************************************************************************)
EXTENDS Integers, Sequences

CONSTANTS
  HeaderWords,   \* half words of the header that are swapped (8)
  RawWords,      \* half words after them that are copied (5)
  OemWords,      \* half words of an OEM table (256)
  DbcsFlag       \* 0x8000: half words from here on have the top bit

ASSUME NlsAssumption == {HeaderWords, RawWords, OemWords, DbcsFlag} \subseteq Nat \ {0}

\* Zero is the same half word swapped and copied.
Swapped(words) == [k \in 1..Len(words) |-> [word |-> words[k], swapped |-> words[k] # 0]]
Copied(words) == [k \in 1..Len(words) |-> [word |-> words[k], swapped |-> FALSE]]

\* n half words behind the first "start".
Slice(file, start, n) == SubSeq(file, start + 1, start + n)

OemPartHeadless(file, start) ==                             \* mutated
  IF file[start + 1] # 0
  THEN [out |-> Swapped(Slice(file, start + 1, OemWords)), read |-> 1 + OemWords]
  ELSE [out |-> <<>>, read |-> 1]

\* The OEM table, behind a half word that says whether there is one.  Without one a
\* second zero is put out while nothing more is read.
OemPart(file, start) ==
  IF file[start + 1] # 0
  THEN [out |-> Swapped(Slice(file, start, 1 + OemWords)), read |-> 1 + OemWords]
  ELSE [out |-> Swapped(<<0, 0>>), read |-> 1]

\* With the flag in the next half word, everything from it on is swapped; what is
\* left of the file is copied from where the result has come to.
swapnls(file) ==
  LET start  == file[1]
      narrow == file[start + 1]
      oem    == OemPart(file, start + narrow)
      rest   == start + narrow + oem.read
      head   == Swapped(Slice(file, 0, HeaderWords)) \o Copied(Slice(file, HeaderWords, RawWords))
                  \o Swapped(Slice(file, start, narrow)) \o oem.out
      dbcs   == IF file[rest + 1] >= DbcsFlag
                THEN Swapped(Slice(file, rest, Len(file) - rest)) ELSE <<>>
      result == head \o dbcs
  IN  result \o Copied(SubSeq(file, Len(result) + 1, Len(file)))

-----------------------------------------------------------------------------
(* What the result should be, and of which files.                          *)

\* The half word behind the narrow table is not zero.
HasOem(file) == file[file[1] + file[file[1] + 1] + 1] # 0

\* How many half words there are up to the end of the OEM table.
OemEnd(file) == file[1] + file[file[1] + 1] + 1 + (IF HasOem(file) THEN OemWords ELSE 0)

\* The half word behind it says whether double-byte ranges begin there.
HasRanges(file) == file[OemEnd(file) + 1] >= DbcsFlag

\* Files the conversion is meant for: a header of the usual size and all tables there.
CodePage(file) ==
  /\ file \in Seq(Nat) /\ file # <<>> /\ file[1] = HeaderWords + RawWords
  /\ file[1] + 1 <= Len(file) /\ file[file[1] + 1] >= 1
  /\ file[1] + file[file[1] + 1] + 1 <= Len(file)
  /\ OemEnd(file) + 1 <= Len(file)

\* Where half words are to be swapped.
TableHalves(file) ==
  1..HeaderWords \cup (file[1] + 1)..(IF HasRanges(file) THEN Len(file) ELSE OemEnd(file))

\* The second zero that stands for a missing OEM table takes the place of the half word
\* behind the first one, which is lost, or moves double-byte ranges up by one.
Lost(file) == IF HasOem(file) \/ HasRanges(file) THEN {} ELSE {OemEnd(file) + 1}
PlaceOf(file, k) ==
  IF ~HasOem(file) /\ HasRanges(file) /\ k > OemEnd(file) THEN k + 1 ELSE k

\* With an OEM table every half word is in its place and swapped if it belongs to a
\* table.  Without one this holds of all but the half word that is lost, if one is, and
\* for the places the double-byte ranges, if any, are moved to; a zero is put in.
SwappedInPlace(file, out, half) ==
  /\ Len(out) = PlaceOf(file, Len(file))
  /\ \A k \in 1..Len(file) \ Lost(file) :
       /\ out[PlaceOf(file, k)].word = file[k]
       /\ out[PlaceOf(file, k)].swapped <=> k \in half /\ file[k] # 0
  /\ ~HasOem(file) => out[OemEnd(file) + 1].word = 0

=============================================================================
