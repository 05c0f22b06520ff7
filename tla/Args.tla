--------------------------------- MODULE Args ---------------------------------
(***************************************************************************)
(* The command line of elfpe (src/elfpe/argparse.cpp and main in           *)
(* src/elfpe/elfpe.cpp): fifteen passes of getarg over the arguments, each *)
(* of which reads one option and may take it away, and then the command    *)
(* line of the real gcc built around what is left.                         *)
(*                                                                         *)
(* A string is the sequence of the pieces the code can tell apart: the     *)
(* comma, the "=", the "_" and the "@" it looks for, and words it compares *)
(* as a whole.  Labels that begin alike share their first piece, so that a *)
(* prefix of pieces is a prefix of characters.                             *)
(***************************************************************************)
EXTENDS Integers, Sequences, SequencesExt

CONSTANT Inputs      \* command lines, each a sequence of units: what a caller
                     \* writes at a time [args, gives, keeps], see Properties

VARIABLES
  pc,          \* "parse", "entry", "startup", "system", "define", "driver" or "done"
  units,       \* the command line elfpe was given
  args,        \* gcc_args_str
  step,        \* the pass, or the definition, that is next
  opt,         \* main's variables that the passes read values into
  found        \* the names of the options getarg found

vars == <<pc, units, args, step, opt, found>>

-----------------------------------------------------------------------------
(* getarg.                                                                 *)

\* expandLinkerArg: what stands between the commas; an empty rest is dropped.
expandLinkerArg(input) ==
  LET commas == SelectSeq([i \in 1..Len(input) |-> i], LAMBDA i : input[i] = ",")
      ends   == <<0>> \o commas \o <<Len(input) + 1>>
      words  == [k \in 1..(Len(ends) - 1) |-> SubSeq(input, ends[k] + 1, ends[k + 1] - 1)]
  IN  IF Last(words) = <<>> THEN Front(words) ELSE words

IsGroup(arg) == Len(arg) > 1 /\ arg[1] = "-Wl"
Group(arg) == expandLinkerArg(SubSeq(arg, 3, Len(arg)))

\* --entry=foo for the long name --entry.
Assigns(arg, longName) ==
  longName # <<>> /\ Len(arg) > 1 /\ <<arg[1], arg[2]>> = longName \o <<"=">>

Names(arg, shortName, longName) ==
  arg = shortName \/ (longName # <<>> /\ arg = longName) \/ Assigns(arg, longName)

\* The option's value when it is the i-th argument: behind the "=", or the next
\* argument, or what the variable holds when there is none.
ValueAt(arguments, i, longName, result) ==
  IF Assigns(arguments[i], longName) THEN SubSeq(arguments[i], 3, Len(arguments[i]))
  ELSE IF i < Len(arguments) THEN arguments[i + 1]
  ELSE result

\* Where an option stands in the expansion of a group, or 0.
PlaceInGroup(arg, shortName, longName) ==
  SelectInSeq(Group(arg), LAMBDA a : Names(a, shortName, longName))

Hit(arg, shortName, longName) ==
  IF IsGroup(arg) THEN PlaceInGroup(arg, shortName, longName) # 0
  ELSE Names(arg, shortName, longName)

\* How many arguments a hit removes: a group or an assignment is one argument; an
\* option goes with its value, but stays when nothing follows it.
TakenAlways(arguments, i, longName, novar) ==              \* mutated
  IF IsGroup(arguments[i]) \/ Assigns(arguments[i], longName) THEN 1 ELSE 2

Taken(arguments, i, longName, novar) ==
  IF IsGroup(arguments[i]) \/ Assigns(arguments[i], longName) THEN 1
  ELSE IF i = Len(arguments) THEN 0
  ELSE IF novar THEN 1 ELSE 2

getargInGroup(shortName, longName, remove, arguments, result, novar) == \* mutated
  LET i == SelectInSeq(arguments, LAMBDA a : Hit(a, shortName, longName))
      n == IF remove THEN Taken(arguments, i, longName, novar) ELSE 0
  IN  IF i = 0 THEN [found |-> FALSE, result |-> result, arguments |-> arguments]
      ELSE [found     |-> TRUE,
            result    |-> ValueAt(arguments, i, longName, result),
            arguments |-> SubSeq(arguments, 1, i - 1)
                            \o SubSeq(arguments, i + n, Len(arguments))]

\* The first argument that names the option decides.
getarg(shortName, longName, remove, arguments, result, novar) ==
  LET i == SelectInSeq(arguments, LAMBDA a : Hit(a, shortName, longName))
      n == IF remove THEN Taken(arguments, i, longName, novar) ELSE 0
  IN  IF i = 0 THEN [found |-> FALSE, result |-> result, arguments |-> arguments]
      ELSE [found     |-> TRUE,
            result    |-> IF IsGroup(arguments[i])
                          THEN ValueAt(Group(arguments[i]),
                                       PlaceInGroup(arguments[i], shortName, longName),
                                       longName, result)
                          ELSE ValueAt(arguments, i, longName, result),
            arguments |-> SubSeq(arguments, 1, i - 1)
                            \o SubSeq(arguments, i + n, Len(arguments))]

-----------------------------------------------------------------------------
(* main: the passes.                                                       *)

Pass(name, shortName, longName, remove, novar) ==
  [name |-> name, short |-> shortName, long |-> longName, remove |-> remove, novar |-> novar]

Passes == <<
  Pass("gcc_name",      <<"-gcc-name">>,     <<>>,                        TRUE,  FALSE),
  Pass("output_file",   <<"-o">>,            <<>>,                        FALSE, FALSE),
  Pass("noheader",      <<"-N">>,            <<>>,                        FALSE, FALSE),
  Pass("compile",       <<"-c">>,            <<>>,                        FALSE, FALSE),
  Pass("preprocess",    <<"-E">>,            <<>>,                        FALSE, FALSE),
  Pass("mingw_lib_dir", <<"-mingw-lib-dir">>, <<>>,                       TRUE,  FALSE),
  Pass("verbose",       <<"-v">>,            <<>>,                        FALSE, FALSE),
  Pass("nostdlib",      <<"-nostdlib">>,     <<>>,                        FALSE, FALSE),
  Pass("nostartfiles",  <<"-nostartfiles">>, <<>>,                        FALSE, FALSE),
  Pass("subsystem",     <<>>,                <<"--subsystem">>,           TRUE,  FALSE),
  Pass("entry_point",   <<"-e">>,            <<"--entry">>,               TRUE,  FALSE),
  Pass("image_base",    <<>>,                <<"--image-base">>,          TRUE,  FALSE),
  Pass("section_align", <<>>,                <<"--section-alignment">>,   TRUE,  FALSE),
  Pass("file_align",    <<>>,                <<"--file-alignment">>,      TRUE,  FALSE),
  Pass("is_dll",        <<"-shared">>,       <<>>,                        TRUE,  TRUE) >>

PassNames == {Passes[i].name : i \in 1..Len(Passes)}

\* The other passes read into "result", which nobody looks at.
Defaults == [
  gcc_name      |-> <<"powerpcle-unknown-elf-gcc">>,
  output_file   |-> <<>>,
  mingw_lib_dir |-> <<"lib">>,
  subsystem     |-> <<"cui">>,
  entry_point   |-> <<>>,
  image_base    |-> <<"0x02000000">>,
  section_align |-> <<"0x1000">>,
  file_align    |-> <<"0x1000">>]

Init ==
  /\ pc = "parse"
  /\ units \in Inputs
  /\ args = FlattenSeq([u \in 1..Len(units) |-> units[u].args])
  /\ step = 1
  /\ opt = Defaults
  /\ found = {}

compile_only ==
  found \cap {"compile", "preprocess"} # {} \/ Contains(opt.output_file, ".gch")

\* Whether a compilation has been asked for already: || looks no further.
Decided(name) == name = "preprocess" /\ "compile" \in found

ParsePass ==
  /\ pc = "parse"
  /\ LET p == Passes[step]
         old == IF p.name \in DOMAIN opt THEN opt[p.name] ELSE <<>>
         g == IF Decided(p.name) THEN [found |-> FALSE, result |-> old, arguments |-> args]
              ELSE getarg(p.short, p.long, p.remove, args, old, p.novar)
     IN  /\ opt' = IF p.name \in DOMAIN opt THEN [opt EXCEPT ![p.name] = g.result] ELSE opt
         /\ args' = g.arguments
         /\ found' = IF g.found THEN found \cup {p.name} ELSE found
  /\ step' = step + 1
  /\ pc' = IF step = Len(Passes) THEN "entry" ELSE "parse"
  /\ UNCHANGED units

\* The name the linker knows the entry point by: no leading "_", nothing from an
\* "@" on.
Undecorated(name) ==
  LET bare == IF name # <<>> /\ name[1] = "_" THEN Tail(name) ELSE name
      at   == SelectInSeq(bare, LAMBDA piece : piece = "@")
  IN  IF at = 0 THEN bare ELSE SubSeq(bare, 1, at - 1)

NameEntry ==
  /\ pc = "entry"
  /\ opt' = [opt EXCEPT !.entry_point =
               IF "entry_point" \in found THEN Undecorated(@)
               ELSE IF opt.subsystem = <<"windows">> THEN <<"WinMainCRTStartup">>
               ELSE <<"mainCRTStartup">>]
  /\ pc' = "startup"
  /\ UNCHANGED <<units, args, step, found>>

-----------------------------------------------------------------------------
(* main: the command line of gcc.                                          *)

AddStartup ==
  /\ pc = "startup"
  /\ args' = IF compile_only THEN args
             ELSE args \o << <<"-Wl", ",", "--entry", "=">> \o opt.entry_point,
                             <<"-Wl", ",", "--undefined", "=">> \o opt.entry_point >>
                       \o (IF "nostartfiles" \in found THEN <<>> ELSE << <<"crt1.o">> >>)
  /\ pc' = "system"
  /\ UNCHANGED <<units, step, opt, found>>

\* The system's include directories, and the switches elfpe always gives.
IncludeDirs == << "include", "lib/mingw-w64-headers", "lib/mingw-w64-headers/crt",
                  "lib/mingw-w64-headers/include" >>

AddSystem ==
  /\ pc = "system"
  /\ args' = << <<"-mwinnt">>, <<"-mlittle-endian">>, <<"-nostartfiles">>, <<"-nostdlib">> >>
             \o FlattenSeq([i \in 1..Len(IncludeDirs) |-> << <<"-isystem">>, <<IncludeDirs[i]>> >>])
             \o args
  /\ pc' = "define"
  /\ step' = 1
  /\ UNCHANGED <<units, opt, found>>

DefinitionsReordered == <<                                  \* mutated
  <<"_M_PPC">>, <<"_PPC_">>, <<"__powerpc__">>, <<"__PowerPC__">>,
  <<"stdcall">>, <<"__stdcall", "__">>, <<"__stdcall">>,
  <<"cdecl">>, <<"__cdecl", "__">>, <<"__cdecl">>, <<"fastcall">>, <<"__fastcall__">>,
  <<"__MINGW_IMPORT">>, <<"_CRTIMP">>, <<"NTSYSAPI">>, <<"__NO_CTYPE_INLINES">>,
  <<"__declspec(x)">> >>

\* The labels handed to possibly_define, in this order; the order matters.
Definitions == <<
  <<"_M_PPC">>, <<"_PPC_">>, <<"__powerpc__">>, <<"__PowerPC__">>,
  <<"stdcall">>, <<"__stdcall">>, <<"__stdcall", "__">>,
  <<"cdecl">>, <<"__cdecl">>, <<"__cdecl", "__">>, <<"fastcall">>, <<"__fastcall__">>,
  <<"__MINGW_IMPORT">>, <<"_CRTIMP">>, <<"NTSYSAPI">>, <<"__NO_CTYPE_INLINES">>,
  <<"__declspec(x)">> >>

\* possibly_define: an argument that begins like the definition counts as one.
AlreadyDefined(label) == \E i \in 1..Len(args) : IsPrefix(<<"-D">> \o label, args[i])

PossiblyDefine ==
  /\ pc = "define"
  /\ LET label == Definitions[step]
     IN  args' = IF AlreadyDefined(label) THEN args
                 ELSE << <<"-D">> \o label \o <<"=">> >> \o args
  /\ step' = step + 1
  /\ pc' = IF step = Len(Definitions) THEN "driver" ELSE "define"
  /\ UNCHANGED <<units, opt, found>>

Libraries == << <<"-L">> \o opt.mingw_lib_dir, <<"-lmingw32">>, <<"-lmsvcrt">>,
                <<"-lcrtdll">>, <<"-lkernel32">> >>

\* The driver's name and the linker's switches in front; libraries and the end of
\* the group behind.
AddDriver ==
  /\ pc = "driver"
  /\ args' = <<opt.gcc_name>>
             \o (IF compile_only THEN <<>>
                 ELSE << <<"-Wl", ",", "-T", ",">> \o opt.mingw_lib_dir \o <<"/ldscript">>,
                         <<"-Wl", ",", "--start-group">>, <<"-Wl", ",", "-EL">>,
                         <<"-Wl", ",", "-r">> >>)
             \o << <<"-mlittle-endian">> >>
             \o (IF "verbose" \in found THEN << <<"-v">> >> ELSE <<>>)
             \o args
             \o (IF compile_only \/ "nostdlib" \in found THEN <<>> ELSE Libraries)
             \o (IF compile_only THEN <<>> ELSE << <<"-Wl", ",", "--end-group">> >>)
  /\ pc' = "done"
  /\ UNCHANGED <<units, step, opt, found>>

Next == ParsePass \/ NameEntry \/ AddStartup \/ AddSystem \/ PossiblyDefine \/ AddDriver

Spec == Init /\ [][Next]_vars /\ WF_vars(Next)

-----------------------------------------------------------------------------
(* Properties.  A unit says what its author means by it: "gives" is the    *)
(* options and their values, "keeps" the arguments gcc is to see.          *)

Gives == UNION {units[u].gives : u \in 1..Len(units)}

\* No option twice, and no two of elfpe's options in one -Wl group, which is
\* removed with the first that is found in it.
WellFormed ==
  \A u, v \in 1..Len(units) : \A g \in units[u].gives, h \in units[v].gives :
    g.name = h.name => u = v /\ g = h
OneEach == \A u \in 1..Len(units) : \A g, h \in units[u].gives : g = h

\* Whatever the order and the form of the options (apart, with "=", in a group of
\* the linker's), and whatever earlier passes removed around them, each arrives
\* with its own value and none arrives that was not given.
OptionsHonoured ==
  pc = "done" /\ WellFormed /\ OneEach =>
    \A name \in PassNames :
      /\ name \in found <=> ~Decided(name) /\ \E g \in Gives : g.name = name
      /\ name \in DOMAIN opt =>
           IF name \in found THEN [name |-> name, value |-> opt[name]] \in Gives
           ELSE name # "entry_point" => opt[name] = Defaults[name]

\* A -Wl group with an option for the linker beside one of elfpe's: the whole group is
\* taken away, and the linker does not get its option.
Mixed(unit) == unit.keeps \notin {<<>>, unit.args}

Kept == FlattenSeq([u \in 1..Len(units) |-> IF Mixed(units[u]) THEN <<>> ELSE units[u].keeps])

\* -shared with nothing but elfpe's own options behind it is found but, being the
\* last argument by then, not removed.
SharedTrails ==
  \E u \in 1..Len(units) : /\ units[u].args = << <<"-shared">> >>
                           /\ \A v \in (u + 1)..Len(units) : units[v].keeps # units[v].args

\* gcc sees everything that is not elfpe's own, in its order and in one piece, except
\* for what shares a -Wl group with one of elfpe's options; of elfpe's own it sees
\* nothing, unless -shared trails.
PassedOn ==
  WellFormed /\ OneEach /\ ~SharedTrails =>
    /\ pc = "entry" => args = Kept
    /\ pc \notin {"parse", "entry"} =>
         \E i \in 0..(Len(args) - Len(Kept)) : SubSeq(args, i + 1, i + Len(Kept)) = Kept

Defining(label) ==
  {i \in 1..Len(args) : IsPrefix(<<"-D">> \o label, args[i])
                         /\ (Len(args[i]) = Len(label) + 1 \/ args[i][Len(label) + 2] = "=")}

\* gcc is given a definition of this label.
Defined(label) == Defining(label) # {}

UsersLabels == {label \in {Definitions[d] : d \in 1..Len(Definitions)} :
                  \E i \in 1..Len(Kept) : IsPrefix(<<"-D">> \o label, Kept[i])}

\* Every necessary definition is there once, although definitions that begin alike
\* hide each other, unless the user's own arguments begin like it.
NecessaryDefined ==
  pc = "done" => \A d \in 1..Len(Definitions) :
    Definitions[d] \notin UsersLabels => \E i \in 1..Len(args) : Defining(Definitions[d]) = {i}

\* "Add necessary definitions but allow overrides": whatever the user defines, each
\* label is defined in the end, by the user or by elfpe.
DefinitionsPresent ==
  pc = "done" => \A d \in 1..Len(Definitions) : Defined(Definitions[d])

=============================================================================
