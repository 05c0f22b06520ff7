------------------------------- MODULE MCArgs -------------------------------
(* Every pair of units, and every triple of some: each option in each of    *)
(* its forms next to each other one, in both orders.                        *)
EXTENDS Args

Unit(words, gives, keeps) == [args |-> words, gives |-> gives, keeps |-> keeps]
Give(name, value) == {[name |-> name, value |-> value]}

Foreign(arg) == Unit(<<arg>>, {}, <<arg>>)

\* A flag, which is found and nothing more; an option of elfpe's own in its forms.
Flag(word, name) == Unit(<< <<word>> >>, Give(name, <<>>), << <<word>> >>)
Apart(word, name, given, value) == Unit(<< <<word>>, given >>, Give(name, value), <<>>)
Joined(word, name, given, value) ==
  Unit(<< <<word, "=">> \o given >>, Give(name, value), <<>>)
Grouped(word, name, given, value) ==
  Unit(<< <<"-Wl", ",", word, ",">> \o given >>, Give(name, value), <<>>)
GroupJoined(word, name, given, value) ==
  Unit(<< <<"-Wl", ",", "--gc-sections", ",", word, "=">> \o given >>, Give(name, value),
       << <<"-Wl", ",", "--gc-sections">> >>)

Decorated == <<"_", "start", "@", "16">>

Entries == {Apart("-e", "entry_point", Decorated, <<"start">>),
            Apart("--entry", "entry_point", <<"_", "start">>, <<"start">>),
            Joined("--entry", "entry_point", Decorated, <<"start">>),
            Grouped("-e", "entry_point", <<"start", "@", "8">>, <<"start">>),
            GroupJoined("--entry", "entry_point", Decorated, <<"start">>)}

Subsystems == {Apart("--subsystem", "subsystem", <<"windows">>, <<"windows">>),
               Joined("--subsystem", "subsystem", <<"native">>, <<"native">>),
               Grouped("--subsystem", "subsystem", <<"windows">>, <<"windows">>)}

Numbers == {Joined("--image-base", "image_base", <<"0x400000">>, <<"0x400000">>),
            GroupJoined("--file-alignment", "file_align", <<"0x200">>, <<"0x200">>),
            Apart("--section-alignment", "section_align", <<"0x2000">>, <<"0x2000">>)}

Flags == {Flag("-c", "compile"), Flag("-E", "preprocess"), Flag("-N", "noheader"),
          Flag("-v", "verbose"), Flag("-nostdlib", "nostdlib"),
          Flag("-nostartfiles", "nostartfiles")}

Outputs == {Unit(<< <<"-o">>, name >>, Give("output_file", name), << <<"-o">>, name >>) :
              name \in {<<"prog", ".exe">>, <<"pre", ".gch">>}}

Own == {Apart("-gcc-name", "gcc_name", <<"xgcc">>, <<"xgcc">>),
        Apart("-mingw-lib-dir", "mingw_lib_dir", <<"dir">>, <<"dir">>),
        Unit(<< <<"-shared">> >>, Give("is_dll", <<>>), <<>>)}

\* What is none of elfpe's business, and two of its options in one group.
Others == {Foreign(arg) :
             arg \in {<<"main.c">>, <<"-Wl", ",", "-s", ",", "--cref">>, <<"-Wl", ",">>,
                      <<"-D", "stdcall">>, <<"-D", "__stdcall", "__", "=", "x">>}}
          \cup {Unit(<< <<"-Wl", ",", "--subsystem", ",", "windows", ",", "--entry", "=", "start">> >>,
                     Give("subsystem", <<"windows">>) \cup Give("entry_point", <<"start">>), <<>>)}

Units == Entries \cup Subsystems \cup Numbers \cup Flags \cup Outputs \cup Own \cup Others

Few == {Foreign(<<"main.c">>), Flag("-N", "noheader"),
        Unit(<< <<"-shared">> >>, Give("is_dll", <<>>), <<>>),
        Grouped("-e", "entry_point", <<"start", "@", "8">>, <<"start">>),
        Joined("--subsystem", "subsystem", <<"native">>, <<"native">>),
        Apart("-gcc-name", "gcc_name", <<"xgcc">>, <<"xgcc">>),
        GroupJoined("--file-alignment", "file_align", <<"0x200">>, <<"0x200">>),
        Unit(<< <<"-o">>, <<"prog", ".exe">> >>, Give("output_file", <<"prog", ".exe">>),
             << <<"-o">>, <<"prog", ".exe">> >>)}

MCInputs == {<<u>> : u \in Units} \cup {<<u, v>> : u, v \in Units} \cup {<<u, v, w>> : u, v, w \in Few}

\* A program that defines a name of its own that begins like one of elfpe's.
MCLonger == {<<Foreign(<<"main.c">>), Foreign(<<"-D", "_CRTIMP", "2", "=", "x">>)>>}
=============================================================================
