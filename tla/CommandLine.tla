------------------------------ MODULE CommandLine ------------------------------
(***************************************************************************)
(* The arguments of CliParser::Parse (compiler/cli) and what each does to   *)
(* the options; Driver has the loop over the arguments.  The name of the    *)
(* program is left out.  An argument is what the parser sees in it: a       *)
(* switch; a setting with its value (--profile=x, -Ox, --opt=x); a setting  *)
(* whose value is the next argument (--profile); another --key=value; any   *)
(* other flag; a name ending in .myc; or any other word, the empty one too. *)
(* The switches and --color that only output and logging read are left out. *)
(***************************************************************************)
EXTENDS Integers, SequencesExt

NotGiven == "<not given>"

Switches == {"show_help", "show_version", "verbose", "quiet", "diagnostics_output"}
SettingsTakingNext == {"profile", "target", "platform"}
Settings == SettingsTakingNext \union {"optimization"}

Forms == {"switch", "setting", "taking next", "entry", "unknown flag", "source file", "word"}
Argument(texts) ==
  {a \in [form : Forms, name : Switches \union Settings \union texts, text : texts] :
     CASE a.form = "switch" -> a.name \in Switches
       [] a.form = "setting" -> a.name \in Settings
       [] a.form = "taking next" -> a.name \in SettingsTakingNext
       [] OTHER -> a.name \in texts}

(* An argument taken as a value: a flag is none that a setting understands. *)
FlagText == "--"
TextOf(a) == IF a.form \in {"source file", "word"} THEN a.text ELSE FlagText

(* CliOptions{}: the command line with nothing on it. *)
EmptyCommandLine ==
  [show_help |-> FALSE, show_version |-> FALSE, verbose |-> FALSE, quiet |-> FALSE,
   diagnostics_output |-> FALSE,
   profile |-> NotGiven, target |-> NotGiven, platform |-> NotGiven, optimization |-> NotGiven,
   command |-> "", positional_args |-> <<>>, source_files |-> <<>>,
   options |-> <<>>, unknown_flags |-> <<>>]

-----------------------------------------------------------------------------
(* Of two entries of one key the first stays.                               *)
WithEntry(entries, key, text) ==
  [name \in DOMAIN entries \union {key} |->
     IF name \in DOMAIN entries THEN entries[name] ELSE text]

(* ParseGlobalFlag on a flag that is whole; of two values of one setting the *)
(* last stays.                                                               *)
ParseGlobalFlag(o, a) ==
  CASE a.form = "switch" -> [o EXCEPT ![a.name] = TRUE]
    [] a.form = "setting" -> [o EXCEPT ![a.name] = a.text]
    [] a.form = "entry" -> [o EXCEPT !.options = WithEntry(@, a.name, a.text)]
    [] a.form = "unknown flag" -> [o EXCEPT !.unknown_flags = Append(@, a.text)]

(* The rest of the loop: a file, the command, or a positional argument. *)
ParsePlain(o, a) ==
  CASE a.form = "source file" -> [o EXCEPT !.source_files = Append(@, a.text)]
    [] a.form = "word" /\ o.command = "" -> [o EXCEPT !.command = a.text]
    [] a.form = "word" /\ o.command # "" -> [o EXCEPT !.positional_args = Append(@, a.text)]

-----------------------------------------------------------------------------
(* The command line read without parsing it.  The values are the arguments  *)
(* behind an odd run of settings that take the next argument: two such      *)
(* settings in a row are one setting and its value.                         *)

Run(argv, i) ==
  {j \in 1..i - 1 : \A k \in j..i - 1 : argv[k].form = "taking next"}
IsValue(argv, i) == Cardinality(Run(argv, i)) % 2 = 1

(* The texts of the arguments of a form that are no values, in their order. *)
Written(argv, form) ==
  LET plain == {i \in DOMAIN argv : argv[i].form = form /\ ~IsValue(argv, i)}
  IN  [k \in 1..Cardinality(plain) |->
         argv[CHOOSE i \in plain : Cardinality({j \in plain : j < i}) = k - 1].text]

(* The positions that give a setting, and what is given there. *)
Givings(argv, setting) ==
  {i \in DOMAIN argv : /\ ~IsValue(argv, i)
                       /\ \/ argv[i].form = "setting"
                          \/ argv[i].form = "taking next" /\ i < Len(argv)
                       /\ argv[i].name = setting}
LastGiven(argv, setting) ==
  LET at == Givings(argv, setting)
      last == CHOOSE i \in at : \A j \in at : j <= i
  IN  IF at = {} THEN NotGiven
      ELSE IF argv[last].form = "setting" THEN argv[last].text ELSE TextOf(argv[last + 1])

(* Every argument is used once, for what it says: o has the switches that   *)
(* are written, the last value of each setting, the words in their order    *)
(* with the first non-empty one as the command, the files, the flags that   *)
(* nobody knows and the first value of each entry, and nothing else.        *)
Says(argv, o) ==
  LET words == Written(argv, "word")
      named == {k \in DOMAIN words : words[k] # ""}
      first == CHOOSE k \in named : \A j \in named : k <= j
      names == {argv[i].name : i \in {j \in DOMAIN argv : argv[j].form = "entry"
                                                         /\ ~IsValue(argv, j)}}
      entry(name) == CHOOSE i \in DOMAIN argv :
                       /\ argv[i].form = "entry" /\ argv[i].name = name /\ ~IsValue(argv, i)
                       /\ \A j \in 1..i - 1 :
                            argv[j].form = "entry" /\ argv[j].name = name => IsValue(argv, j)
  IN  /\ \A switch \in Switches :
           o[switch] <=> \E i \in DOMAIN argv :
                           ~IsValue(argv, i) /\ argv[i].form = "switch" /\ argv[i].name = switch
      /\ \A setting \in Settings : o[setting] = LastGiven(argv, setting)
      /\ o.source_files = Written(argv, "source file")
      /\ o.unknown_flags = Written(argv, "unknown flag")
      /\ o.options = [name \in names |-> argv[entry(name)].text]
      /\ IF named = {} THEN o.command = "" /\ o.positional_args = <<>>
         ELSE /\ o.command = words[first]
              /\ o.positional_args = SubSeq(words, first + 1, Len(words))
=============================================================================
