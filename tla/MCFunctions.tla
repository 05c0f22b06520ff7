----------------------------- MODULE MCFunctions -----------------------------
(* The parts of elfpe and of the Python tools that are pure functions, each *)
(* against a definition of what it should return, over small inputs.  A     *)
(* state is a call, before and after it returns.                            *)
EXTENDS Align, Symbols, NlsSwap, InfFile, Bitwise

CONSTANT Rounds      \* the alignments tried

VARIABLES task, result, returned

Returned(kind) == returned /\ task.kind = kind

-----------------------------------------------------------------------------
(* Inputs of roundup: every value of a small word.                         *)

RoundupTasks == {[kind |-> "roundup", value |-> v, round |-> r] : v \in 0..(Word - 1), r \in Rounds}

(* Symbol tables: up to one local symbol, then globals of distinct names    *)
(* that are defined in a section, common, absolute or undefined.            *)

Bss == 2
Debug == 3           \* a section that is not loaded
Loaded == [s \in {1, Bss} |-> 100 * s]

Symbol(name, value, size, section, local) ==
  [name |-> name, value |-> value, size |-> size, section |-> section, local |-> local]

Locals == {<<>>} \cup {<<Symbol(n, v, 4, s, TRUE)>> : n \in {0, 1, 2}, v \in {0, 8}, s \in {1, Bss, Debug}}

GlobalsNamed(n) ==
  {<<>>, <<Symbol(n, 4, 4, 1, FALSE)>>, <<Symbol(n, 7, 0, Absolute, FALSE)>>, <<Symbol(n, 0, 0, 0, FALSE)>>}
    \cup {<<Symbol(n, align, size, Common, FALSE)>> : align \in {1, 4, 8}, size \in {1, 8}}

SymbolTasks ==
  {[kind |-> "symbols", table |-> l \o g3 \o g1 \o g2, bssSize |-> bss] :
     l \in Locals, g1 \in GlobalsNamed(1), g2 \in GlobalsNamed(2), g3 \in GlobalsNamed(3), bss \in {0, 5}}

(* Code pages: with and without an OEM table, and with all of the rest      *)
(* marked as double-byte ranges.  "half" is where half words are.           *)

Numbered(first, n) == [k \in 1..n |-> first + k - 1]

NlsTask(narrow, oem, dbcs, rest) ==
  LET start == HeaderWords + RawWords
      upto  == start + narrow + 1 + (IF oem THEN OemWords ELSE 0)
      file  == <<start>> \o Numbered(20, start - 1) \o <<narrow>> \o Numbered(30, narrow - 1)
                 \o (IF oem THEN <<OemWords>> \o Numbered(40, OemWords) ELSE <<0>>)
                 \o <<dbcs>> \o Numbered(50, rest)
  IN  [kind |-> "nls", file |-> file, oem |-> oem, dbcs |-> dbcs,
       half |-> 1..HeaderWords \cup (start + 1)..(IF dbcs >= DbcsFlag THEN Len(file) ELSE upto)]

NlsInputs == {NlsTask(narrow, oem, dbcs, rest) :
                narrow \in 1..3, oem \in BOOLEAN, dbcs \in {0, 1, DbcsFlag, DbcsFlag + 1}, rest \in 0..3}

(* INF files: a comment, an entry of three fields on one line or two, and   *)
(* another entry.  A field is what is written and what is meant.            *)

Doubled(text) == FlattenSeq([k \in 1..Len(text) |-> IF text[k] = Quote THEN <<Quote, Quote>> ELSE <<text[k]>>])
Spaced(text) == <<Blank>> \o text \o <<Blank>>

BareTexts == {<<>>, <<"a">>, <<"a", Blank, "b">>}
QuotedTexts == BareTexts \cup {<<Quote>>, <<"a", Quote>>, <<Quote, "a">>, <<"a", Quote, Quote, "b">>, <<Blank, "a">>}

Quoted(text) == <<Quote>> \o Doubled(text) \o <<Quote>>

Fields ==
  {[written |-> t, means |-> t] : t \in BareTexts}
    \cup {[written |-> Spaced(t), means |-> t] : t \in BareTexts}
    \cup {[written |-> Quoted(t), means |-> strip(t)] : t \in QuotedTexts}
    \cup {[written |-> Spaced(Quoted(t)), means |-> strip(t)] : t \in QuotedTexts}

Comment == <<Semicolon, "c">>

\* The line is cut behind its first comma or not, with a comment where it is cut.
InfTask(f, g, cut, comment) ==
  LET first == <<"H">> \o <<Comma>>
      rest  == f.written \o <<Comma>> \o g.written
      note  == IF comment THEN Comment ELSE <<>>
      lines == IF cut THEN <<first \o note \o <<Backslash>>, rest \o Comment>> ELSE <<first \o rest \o note>>
  IN  [kind  |-> "inf",
       lines |-> << Comment, <<>> >> \o lines \o << <<"[">>, <<"H", Comma, "x", Comma, "y">> >>,
       means |-> << <<<<"H">>, f.means, g.means>>, << <<"H">>, <<"x">>, <<"y">> >> >>]

InfTasks == {InfTask(f, g, cut, comment) : f, g \in Fields, cut, comment \in BOOLEAN}

-----------------------------------------------------------------------------
Init ==
  /\ result = <<>> /\ returned = FALSE
  /\ task \in RoundupTasks \cup SymbolTasks \cup NlsInputs \cup InfTasks

Call ==
  CASE task.kind = "roundup" -> Roundup(task.value, task.round)
    [] task.kind = "symbols" -> allocateComdat(task.table, task.bssSize)
    [] task.kind = "nls"     -> swapnls(task.file)
    [] task.kind = "inf"     -> Entries(task.lines)

Return == ~returned /\ returned' = TRUE /\ result' = Call /\ UNCHANGED task

Spec == Init /\ [][Return]_<<task, result, returned>>

-----------------------------------------------------------------------------
(* Properties.                                                             *)

\* The result is the least multiple that is not below the value, or 0 when the sum
\* wraps, and the one that the code's mask ~(round - 1) leaves of the sum.
RoundupIsLeast ==
  Returned("roundup") =>
    /\ LeastMultiple(task.value, task.round, result)
    /\ result = ((task.value + task.round - 1) % Word) & (Word - task.round)

\* A local symbol of the same name hides a common from allocateComdat.
Hidden(symbol) == \E j \in 1..Len(task.table) : task.table[j].name = symbol.name /\ task.table[j].local

Commons == {j \in 1..Len(task.table) : task.table[j].section = Common /\ ~Hidden(task.table[j])}

\* Commons that are no larger than their alignment, rounded up to words (the room
\* they are given), lie behind the old .bss, inside the new one, on words and clear
\* of each other.
CommonsApart ==
  Returned("symbols") =>
    LET place(j) == result.offsets[task.table[j].name]
        room(j)  == task.table[j].size
        fitting  == {j \in Commons : room(j) <= RoundUp4(task.table[j].value)}
    IN  \A j \in fitting :
          /\ task.bssSize <= place(j) /\ place(j) + room(j) <= result.size /\ place(j) % 4 = 0
          /\ \A i \in fitting \ {j} :
               place(i) + room(i) <= place(j) \/ place(j) + room(j) <= place(i)

\* A symbol that is defined in a loaded section keeps its own address and is never
\* taken for a common, whatever names occur twice; a common is relocated to a place of
\* its own, unless a local symbol has its name (it is Hidden and relocated against 0,
\* of which nothing is said here); and under the name of a symbol of a loaded section,
\* an absolute one or such a common the address is listed that its references were
\* given.
SymbolsResolve ==
  Returned("symbols") =>
    LET address(s) == Resolved(s, result.offsets, Bss, Loaded)
        listed(s)  == Listed(s, result.offsets, Bss, Loaded, Debug + 1)
    IN  \A j \in 1..Len(task.table) : LET s == task.table[j] IN
          /\ s.section \in DOMAIN Loaded => address(s) = Loaded[s.section] + s.value
          /\ j \in Commons => /\ address(s) >= Loaded[Bss] + task.bssSize
                             /\ \A i \in Commons \ {j} : address(task.table[i]) # address(s)
          /\ s = ByName(task.table)[s.name]
               /\ (s.section \in DOMAIN Loaded \cup {Absolute} \/ j \in Commons)
               => listed(s) = {address(s)}

\* Of a code page with an OEM table the result has the length and every half word, each
\* in its place, and exactly those of a table are swapped, although what was read and
\* what was put out need not have the same length.  Without one, a zero stands behind
\* the empty table that the file does not have: in the place of a half word, or, in
\* front of double-byte ranges, as one more, with the ranges moved up by one.
NlsSwapped ==
  Returned("nls") =>
    /\ CodePage(task.file) /\ HasOem(task.file) = task.oem /\ TableHalves(task.file) = task.half
    /\ SwappedInPlace(task.file, result, task.half)

\* The reader gives back the fields that were written, blanks around them and
\* comments removed, quotes resolved and lines joined, for fields without commas.
EntriesRead == Returned("inf") => result = task.means

=============================================================================
