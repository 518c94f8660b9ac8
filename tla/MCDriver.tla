------------------------------ MODULE MCDriver ------------------------------
(* Instances of Driver for TLC: two source files, every command with the    *)
(* settings refused in part, short arbitrary argument vectors, and engines  *)
(* with tight limits.                                                       *)
EXTENDS Driver

MCTexts ==
  {"a.myc", "b.myc", "help", "version", "build", "tokens", "banner", "nonsense", "",
   "release", "custom", "fast", "arm64", "pdp11", "darwin", "amiga", "O1", "2", "O9", "--unknown",
   "key", FlagText}

Arg(form, name, text) == [form |-> form, name |-> name, text |-> text]
Switch(name) == Arg("switch", name, "")
Setting(name, text) == Arg("setting", name, text)
Taking(name) == Arg("taking next", name, "")
Entry(key, text) == Arg("entry", key, text)
UnknownFlag == Arg("unknown flag", "", "--unknown")
File(text) == Arg("source file", "", text)
Text(text) == Arg("word", "", text)

-----------------------------------------------------------------------------
(* Every command with the settings that matter to a run. *)

A == File("a.myc")
B == File("b.myc")
FileLists == {<<>>, <<A>>, <<A, B>>, <<A, B, A>>}

Invocations ==
  {<<Text(c)>> : c \in Registered \union {"nonsense"}}
  \union {<<Text("help"), Text("build")>>, <<Text("help"), Text("nonsense")>>, <<>>,
          <<Text("tokens"), Text("nonsense")>>}
  \union {<<Text(c)>> \o f : c \in {"build", "tokens"}, f \in FileLists}
  \union {<<A, Switch(s), Text("build")>> : s \in {"show_help", "show_version"}}

SettingChoices ==
  {<<>>,
   <<Setting("profile", "release"), Taking("target"), Text("arm64"), Taking("platform"),
     Text("darwin"), Setting("optimization", "O1")>>,
   <<Setting("optimization", "O9"), Setting("profile", "custom"), Setting("platform", "darwin")>>,
   <<Setting("profile", "fast"), Setting("target", "arm64"), Setting("platform", "amiga"),
     Setting("optimization", "2"), Switch("diagnostics_output")>>,
   <<Taking("profile"), Text("release"), Setting("target", "pdp11")>>}

(* Arguments in any order: settings that take the next one, whatever it is. *)
Anything ==
  {Taking("profile"), Taking("target"), Setting("profile", "release"), Text("release"),
   Text("banner"), Text(""), A, Switch("verbose"), Switch("quiet"), Switch("show_help"),
   Entry("key", "fast"), Entry("key", "2"), UnknownFlag}

MCArgumentVectors ==
  {c \o i : c \in SettingChoices, i \in Invocations} \union UNION {[1..n -> Anything] : n \in 0..3}

MCEnvironments ==
  {[profile |-> p, target |-> "wasm32", platform |-> "amiga"] : p \in {NotGiven, "minsizerel", "custom"}}
  \union {[profile |-> "fast", target |-> NotGiven, platform |-> "linux"]}

(* Every limit at one, and none of the secondary messages. *)
Tight == [DefaultPolicy EXCEPT !.error_limit = 1, !.show_notes = FALSE, !.show_hints = FALSE]
Short == [DefaultPolicy EXCEPT !.max_diagnostics = 1]
MCPolicies == {DefaultPolicy, Tight, Short}
=============================================================================
