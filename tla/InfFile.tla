-------------------------------- MODULE InfFile --------------------------------
(***************************************************************************)
(* Reading an INF file (src/pyhive/reginf.py and the loop of mkhive.py):   *)
(* lines are joined where they end in a backslash, comments are cut, and   *)
(* a line is split into fields, which may be quoted.  A line is a sequence *)
(* of characters, of which only these five mean anything.                  *)
(***************************************************************************)
EXTENDS Integers, Sequences, SequencesExt

Blank == " "  Comma == ","  Quote == "\""  Semicolon == ";"  Backslash == "\\"

-----------------------------------------------------------------------------
\* str.strip: no blanks at either end.
strip(text) ==
  LET first == SelectInSeq(text, LAMBDA c : c # Blank)
      last  == SelectLastInSeq(text, LAMBDA c : c # Blank)
  IN  IF first = 0 THEN <<>> ELSE SubSeq(text, first, last)

stripcomment(text) ==
  LET n == SelectInSeq(text, LAMBDA c : c = Semicolon)
  IN  IF n = 0 THEN text ELSE strip(SubSeq(text, 1, n - 1))

Continued(line) == line # <<>> /\ Last(line) = Backslash

\* nextline: from the first line that is neither blank nor a comment, as many as
\* end in a backslash and one more; comments are cut after each.
Join(text, line) ==
  strip(stripcomment(text \o (IF Continued(line) THEN Front(line) ELSE line)))

Skipped(line) == strip(stripcomment(line)) = <<>> \/ line = <<"[">>

nextline(lines, current) ==
  LET kept  == {k \in current..Len(lines) : ~Skipped(lines[k])}
      first == IF kept = {} THEN Len(lines) + 1
               ELSE CHOOSE k \in kept : \A j \in kept : k <= j
      ends  == {k \in first..Len(lines) : ~Continued(lines[k])}
      last  == IF ends = {} THEN Len(lines) ELSE CHOOSE k \in ends : \A j \in ends : k <= j
  IN  [text |-> FoldLeft(Join, <<>>, SubSeq(lines, first, last)), next |-> last + 1]

-----------------------------------------------------------------------------
\* regelt.__init__: the state between two characters is the fields so far, the
\* current one and 0, 1 in quotes or 2 after a quote that may close them.
Closed(word) == strip(IF word # <<>> /\ word[1] = Quote THEN SubSeq(word, 2, Len(word) - 1)
                      ELSE word)

Pending(state) == IF state.quoted = 2 THEN Append(state.word, Quote) ELSE state.word

ReadQuoteOnce(state) ==                                     \* mutated
  CASE state.quoted = 0 -> [state EXCEPT !.quoted = 1, !.word = Append(@, Quote)]
    [] state.quoted = 1 -> [state EXCEPT !.quoted = 2]
    [] state.quoted = 2 -> [state EXCEPT !.quoted = 1]

\* A quote opens, may close, or is the second of a doubled one.
ReadQuote(state) ==
  CASE state.quoted = 0 -> [state EXCEPT !.quoted = 1, !.word = Append(@, Quote)]
    [] state.quoted = 1 -> [state EXCEPT !.quoted = 2]
    [] state.quoted = 2 -> [state EXCEPT !.quoted = 1, !.word = Append(@, Quote)]

\* A comma ends the field, in quotes as well.
ReadChar(state, char) ==
  CASE char = Comma -> [fields |-> Append(state.fields, Closed(strip(Pending(state)))),
                        word |-> <<>>, quoted |-> 0]
    [] char = Quote -> ReadQuote(state)
    [] OTHER        -> [state EXCEPT !.word = Append(Pending(state), char),
                                     !.quoted = IF @ = 2 THEN 0 ELSE @]

\* The last field is stripped before its quotes are taken off only if a quote has
\* just closed.
regelt(text) ==
  LET end  == FoldLeft(ReadChar, [fields |-> <<>>, word |-> <<>>, quoted |-> 0], text)
      word == IF end.quoted = 2 THEN strip(Pending(end)) ELSE end.word
  IN  Append(end.fields, Closed(word))

Empty(parsed) == Len(parsed) < 3 \/ parsed[1] = <<>>

\* reginf.addentry and the loop of mkhive: the entries of a file.
Entries(lines) ==
  LET Read(file, k) ==
        IF k < file.next THEN file
        ELSE LET line == nextline(lines, k)
             IN  [next |-> line.next,
                  content |-> IF line.text = <<>> \/ Empty(regelt(line.text)) THEN file.content
                              ELSE Append(file.content, regelt(line.text))]
  IN  FoldLeft(Read, [next |-> 1, content |-> <<>>], [k \in 1..Len(lines) |-> k]).content

=============================================================================
