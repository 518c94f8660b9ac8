---------------------------- MODULE DriverProofs ----------------------------
(***************************************************************************)
(* Theorems of Driver, for every set of arguments, environments and        *)
(* policies: its types, that exit code, reports and configuration tell one *)
(* story, and that the options are what the arguments say.                 *)
(***************************************************************************)
EXTENDS Driver, DiagnosticsProofs, NaturalsInduction, WellFoundedInduction, SequenceTheorems

-----------------------------------------------------------------------------
(* The values of the settings. *)

(* The profiles a spelling can mean. *)
LEMMA Profiles ==
  Meanings("profile") = {"Debug", "Release", "RelWithDebInfo", "MinSizeRel", "Custom"}
  BY DEF Meanings, Named, ProfileNamed

(* The levels the profiles bring can be asked for too. *)
LEMMA Levels ==
  {"O0", "O1", "O2", "O3", "Os"} \subseteq Meanings("optimization")
<1>1. \A v \in {"O0", "O1", "O2", "O3", "Os"} :
        v \in DOMAIN OptimizationNamed /\ OptimizationNamed[v] = v
  BY DEF OptimizationNamed
<1>2. QED
  BY <1>1 DEF Meanings, Named

(* A profile brings a level that exists. *)
LEMMA ProfileLevels ==
  \A p \in DOMAIN ProfileOptimization :
    /\ ProfileOptimization[p] \in Meanings("optimization")
    /\ p \in Meanings("profile")
  BY Levels, Profiles DEF ProfileOptimization

(* A value that is understood means one of the setting's enumerators. *)
LEMMA UnderstoodMeans ==
  \A setting, value : Understood(setting, value) => Meaning(setting, value) \in Meanings(setting)
  BY Zenon DEF Understood, Meaning, Meanings

-----------------------------------------------------------------------------
(* The configuration stays a configuration. *)

Configuration ==
  [profile : Meanings("profile"), optimization : Meanings("optimization"),
   target : Meanings("target") \union {"Unknown"},
   platform : Meanings("platform") \union {"Unknown"}, diagnostics : DiagnosticsPolicy]

(* ApplyProfileDefaults sets the profile and, but for Custom, its level. *)
LEMMA ProfileType ==
  ASSUME NEW c \in Configuration, NEW p \in Meanings("profile")
  PROVE  /\ WithProfile(c, p) \in Configuration
         /\ WithProfile(c, p).profile = p
         /\ p = "Custom" \/ WithProfile(c, p).optimization = ProfileOptimization[p]
<1>1. p \in DOMAIN ProfileOptimization \/ p = "Custom"
  BY Profiles DEF ProfileOptimization
<1>2. CASE p \in DOMAIN ProfileOptimization
  BY <1>2, ProfileLevels DEF WithProfile, Configuration
<1>3. CASE p \notin DOMAIN ProfileOptimization
  BY <1>1, <1>3 DEF WithProfile, Configuration
<1>4. QED
  BY <1>2, <1>3

(* LoadConfiguration on the fresh configuration keeps the asked level. *)
LEMMA ConfiguredType ==
  ASSUME NEW c \in Configuration, c.profile = "Debug", c.optimization = "O0"
  PROVE  /\ Configured(c) \in Configuration
         /\ Accepted("optimization") => Configured(c).optimization = Chosen("optimization")
         /\ \/ Accepted("optimization")
            \/ Configured(c).profile = "Custom"
            \/ Configured(c).optimization = ProfileOptimization[Configured(c).profile]
<1> DEFINE p == Profiled(c)
           t == Targeted(p)
           o == Optimized(t)
<1>0. \A setting : Accepted(setting) => Chosen(setting) \in Meanings(setting)
  BY UnderstoodMeans DEF Accepted, Chosen
<1>1. /\ p \in Configuration
      /\ p.profile = "Custom" \/ p.optimization = ProfileOptimization[p.profile]
  <2>1. CASE Accepted("profile")
    BY <1>0, <2>1, ProfileType DEF Profiled
  <2>2. CASE ~Given("profile")
    <3>1. "Debug" \in Meanings("profile")
      BY Profiles
    <3>2. p = WithProfile(c, "Debug")
      BY <2>2 DEF Profiled, Accepted
    <3>3. QED
      BY <3>1, <3>2, ProfileType
  <2>3. CASE ~Accepted("profile") /\ Given("profile")
    BY <2>3 DEF Profiled, ProfileOptimization
  <2>4. QED
    BY <2>1, <2>2, <2>3
<1>2. t \in Configuration /\ t.profile = p.profile /\ t.optimization = p.optimization
  <2> HIDE DEF p
  <2>1. "X86_64" \in Meanings("target")
    <3>1. "x86_64" \in DOMAIN TargetNamed /\ TargetNamed["x86_64"] = "X86_64"
      BY DEF TargetNamed
    <3>2. QED
      BY <3>1 DEF Meanings, Named
  <2>2. /\ Accepted("target") => Chosen("target") \in Meanings("target")
        /\ Accepted("platform") => Chosen("platform") \in Meanings("platform")
    BY <1>0
  <2>3. QED
    BY <1>1, <2>1, <2>2 DEF Targeted, Configuration
<1>3. /\ o \in Configuration /\ o.profile = t.profile
      /\ Accepted("optimization") => o.optimization = Chosen("optimization")
      /\ ~Accepted("optimization") => o.optimization = t.optimization
  <2> HIDE DEF t
  <2>1. Accepted("optimization") => Chosen("optimization") \in Meanings("optimization")
    BY <1>0
  <2>2. QED
    BY <1>2, <2>1 DEF Optimized, Configuration
<1>4. /\ Configured(c) \in Configuration /\ Configured(c).profile = o.profile
      /\ Configured(c).optimization = o.optimization
  <2>1. Configured(c) = WithSecondaries(o)
    BY DEF Configured
  <2> HIDE DEF o
  <2>2. /\ WithSecondaries(o) \in Configuration /\ WithSecondaries(o).profile = o.profile
        /\ WithSecondaries(o).optimization = o.optimization
    BY <1>3 DEF WithSecondaries, Configuration, DiagnosticsPolicy
  <2>3. QED
    BY <2>1, <2>2
<1> HIDE DEF p, t, o
<1>5. QED
  BY <1>1, <1>2, <1>3, <1>4

(* MYC_TARGET and MYC_PLATFORM touch neither profile nor level. *)
LEMMA EnvironmentType ==
  ASSUME NEW c \in Configuration, NEW setting \in {"target", "platform"}, NEW value
  PROVE  LET by == IF Understood(setting, value)
                     THEN [c EXCEPT ![setting] = Meaning(setting, value)] ELSE c
         IN  by \in Configuration /\ by.profile = c.profile /\ by.optimization = c.optimization
<1>1. Understood(setting, value) => Meaning(setting, value) \in Meanings(setting)
  BY UnderstoodMeans
<1>2. CASE setting = "target"
  BY <1>1, <1>2 DEF Configuration
<1>3. CASE setting = "platform"
  BY <1>1, <1>3 DEF Configuration
<1>4. QED
  BY <1>2, <1>3

-----------------------------------------------------------------------------
(* The options stay options, and the files they name are texts. *)

CliOptions(o) ==
  /\ DOMAIN o = DOMAIN EmptyCommandLine
  /\ o.source_files \in Seq(Texts)
  /\ o.positional_args \in Seq(Texts)

(* CliOptions{} is one of them. *)
LEMMA EmptyType == CliOptions(EmptyCommandLine)
  BY DEF CliOptions, EmptyCommandLine

(* A switch or a setting never names the files or the words. *)
LEMMA ArgumentType ==
  ASSUME NEW a \in Argument(Texts)
  PROVE  /\ a.text \in Texts
         /\ a.form \in {"switch", "setting", "taking next"} =>
              /\ a.name \in DOMAIN EmptyCommandLine
              /\ a.name \notin {"source_files", "positional_args"}
  BY DEF Argument, Switches, SettingsTakingNext, Settings, EmptyCommandLine

(* o with field n changed to v: every case of the parse is one of these. *)
LEMMA FieldType ==
  \A o, n, v, r :
    /\ CliOptions(o)
    /\ r = [o EXCEPT ![n] = v]
    /\ n = "source_files" => v \in Seq(Texts)
    /\ n = "positional_args" => v \in Seq(Texts)
    => CliOptions(r)
<1> SUFFICES ASSUME NEW o, NEW n, NEW v, NEW r, CliOptions(o), r = [o EXCEPT ![n] = v],
                    n = "source_files" => v \in Seq(Texts),
                    n = "positional_args" => v \in Seq(Texts)
             PROVE  CliOptions(r)
  OBVIOUS
<1>1. DOMAIN r = DOMAIN o
  OBVIOUS
<1>2. {"source_files", "positional_args"} \subseteq DOMAIN o
  BY DEF CliOptions, EmptyCommandLine
<1>3. /\ r.source_files \in {o.source_files, v}
      /\ r.positional_args \in {o.positional_args, v}
      /\ n # "source_files" => r.source_files = o.source_files
      /\ n # "positional_args" => r.positional_args = o.positional_args
  BY <1>2
<1>4. o.source_files \in Seq(Texts) /\ o.positional_args \in Seq(Texts)
  BY DEF CliOptions
<1>5. QED
  BY <1>1, <1>3, <1>4 DEF CliOptions

(* ParseGlobalFlag leaves options behind. *)
LEMMA FlagType ==
  ASSUME NEW o, CliOptions(o), NEW a \in Argument(Texts),
         a.form \in {"switch", "setting", "entry", "unknown flag"}
  PROVE  CliOptions(ParseGlobalFlag(o, a))
<1> DEFINE r == ParseGlobalFlag(o, a)
           entries == WithEntry(o["options"], a.name, a.text)
           flags == Append(o["unknown_flags"], a.text)
<1>1. /\ a.form = "switch" => r = [o EXCEPT ![a.name] = TRUE]
      /\ a.form = "setting" => r = [o EXCEPT ![a.name] = a.text]
  BY Zenon DEF ParseGlobalFlag
<1>2. a.form = "entry" => r = [o EXCEPT !["options"] = entries]
  BY Zenon DEF ParseGlobalFlag
<1>3. a.form = "unknown flag" => r = [o EXCEPT !["unknown_flags"] = flags]
  BY Zenon DEF ParseGlobalFlag
<1> HIDE DEF r, entries, flags
<1>4. a.form \in {"switch", "setting"} => a.name \notin {"source_files", "positional_args"}
  BY ArgumentType
<1>5. CASE a.form = "switch"
  BY <1>1, <1>4, <1>5, FieldType, Zenon DEF r
<1>6. CASE a.form = "setting"
  BY <1>1, <1>4, <1>6, FieldType, Zenon DEF r
<1>7. CASE a.form = "entry"
  BY <1>2, <1>7, FieldType, Zenon DEF r
<1>8. CASE a.form = "unknown flag"
  BY <1>3, <1>8, FieldType, Zenon DEF r
<1>9. QED
  BY <1>5, <1>6, <1>7, <1>8

(* A sequence of texts grows by a text. *)
LEMMA AppendedTexts ==
  \A s \in Seq(Texts), x \in Texts : Append(s, x) \in Seq(Texts)
  OBVIOUS

(* A file, the command or a word leaves options behind. *)
LEMMA PlainType ==
  ASSUME NEW o, CliOptions(o), NEW a \in Argument(Texts), a.form \in {"source file", "word"}
  PROVE  CliOptions(ParsePlain(o, a))
<1> DEFINE r == ParsePlain(o, a)
           files == Append(o.source_files, a.text)
           args == Append(o.positional_args, a.text)
<1>1. a.text \in Texts
  BY ArgumentType
<1>2. files \in Seq(Texts) /\ args \in Seq(Texts)
  <2>1. o.source_files \in Seq(Texts) /\ o.positional_args \in Seq(Texts)
    BY DEF CliOptions
  <2>2. QED
    BY <1>1, <2>1, AppendedTexts
<1>3. /\ a.form = "source file" => r = [o EXCEPT !["source_files"] = files]
      /\ a.form = "word" /\ o.command = "" => r = [o EXCEPT !["command"] = a.text]
      /\ a.form = "word" /\ o.command # "" => r = [o EXCEPT !["positional_args"] = args]
  BY Zenon DEF ParsePlain
<1> HIDE DEF r, files, args
<1>4. CASE a.form = "source file"
  BY <1>2, <1>3, <1>4, FieldType, Zenon DEF r
<1>5. CASE a.form = "word" /\ o.command = ""
  BY <1>3, <1>5, FieldType, Zenon DEF r
<1>6. CASE a.form = "word" /\ o.command # ""
  BY <1>2, <1>3, <1>6, FieldType, Zenon DEF r
<1>7. QED
  BY <1>4, <1>5, <1>6

-----------------------------------------------------------------------------
(* The inductive invariant, in parts. *)

(* An engine that is handed errors only holds something exactly when it has *)
(* errors.                                                                  *)
ErrorsOnly(e) ==
  /\ e \in Engine(Diagnostic)
  /\ e.diagnostics # <<>> <=> HasErrors(e)

(* The types, with the configuration, the options and the engine as values  *)
(* of their own; TypeOK follows.                                            *)
Types ==
  /\ pc \in Steps
  /\ argv \in Seq(Argument(Texts)) /\ index \in 1..Len(argv) + 1
  /\ CliOptions(options)
  /\ config \in Configuration
  /\ ErrorsOnly(engine)
  /\ content \in [Texts -> Contents]
  /\ pending \in Seq(Texts)
  /\ had_lexical_errors \in BOOLEAN
  /\ exit_code \in ExitCodes \union {NoExitCode}
  /\ shown \subseteq Codes
  /\ printed \in BOOLEAN
  /\ handed \subseteq Codes
  /\ overridden \in BOOLEAN

Beginning == {"parse", "configure", "environment", "diagnostics", "dispatch"}


(* The level: Debug with O0 until the settings are read, and in agreement   *)
(* from then on, before MYC_PROFILE as after it.                            *)
Levelled ==
  /\ \/ Accepted("optimization")
     \/ config.profile = "Custom"
     \/ config.optimization = ProfileOptimization[config.profile]
  /\ Accepted("optimization") /\ ~ overridden =>
       config.optimization = Chosen("optimization")

LevelInv ==
  /\ pc \in {"parse", "configure"} => config.profile = "Debug" /\ config.optimization = "O0"
  /\ pc \in {"parse", "configure", "environment"} => ~ overridden
  /\ pc \in {"environment", "diagnostics", "dispatch"} => Levelled

(* The files: what is not pending was loaded and, while no failure is       *)
(* remembered, lexed without one; a remembered failure is in the engine or  *)
(* was mute.                                                                *)
SomeMute == \E f \in FilesRead : content[f] = "mute"

FilesInv ==
  /\ pc \in Beginning => ~ had_lexical_errors
  /\ had_lexical_errors => HasErrors(engine) \/ SomeMute
  /\ pc \in {"load", "lex"} =>
       /\ ReadsFiles /\ ToSet(pending) \subseteq FilesRead
       /\ \A f \in FilesRead :
            \/ f \in ToSet(pending)
            \/ /\ content[f] # "unread"
               /\ Command = "tokens" /\ ~ had_lexical_errors => content[f] = "clean"
  /\ pc = "lex" => /\ pending # <<>>
                   /\ Command = "tokens"
                   /\ content[Head(pending)] # "unread"

(* What was handed over: configuration errors only, up to the commands; any *)
(* other error is still counted when the files are read.                    *)
HandedInv ==
  /\ pc \in Beginning => handed \subseteq ConfigCodes
  /\ pc \in {"load", "lex"} => handed \subseteq ConfigCodes \/ HasErrors(engine)

(* The exit code before the last report. *)
Clean ==
  /\ handed \subseteq ConfigCodes
  /\ ReadsFiles => \A f \in FilesRead : content[f] # "unread"
  /\ Command = "tokens" => \A f \in FilesRead : content[f] = "clean"

LoadErrorHeld ==
  \/ StoredCodes(engine) \intersect SourceCodes # {}
  \/ engine.truncated
  \/ LimitReached(engine.policy.error_limit, engine.error_count)

ReportInv ==
  pc = "report" =>
    /\ exit_code # InternalCompilerError
    /\ exit_code = Success => ~ HasErrors(engine) /\ Clean
    /\ exit_code # Success => HasErrors(engine) \/ printed \/ SomeMute
    /\ exit_code = FileNotFound => HasErrors(engine) /\ LoadErrorHeld

StoryInv ==
  /\ FilesInv
  /\ HandedInv
  /\ ReportInv
  /\ SuccessIsClean
  /\ HeldIsShown
  /\ FailureExplained

(* The three together are inductive.                                        *)
IInv == Types /\ LevelInv /\ StoryInv

-----------------------------------------------------------------------------
(* Engines that are handed errors only. *)

(* A sequence without indices is the empty one. *)
LEMMA NoneEmpty ==
  ASSUME NEW S, NEW s \in Seq(S)
  PROVE  s = <<>> <=> DOMAIN s = {}
<1>1. DOMAIN s = 1..Len(s) /\ Len(s) \in Nat
  OBVIOUS
<1>2. s = <<>> <=> Len(s) = 0
  OBVIOUS
<1>3. Len(s) = 0 <=> 1..Len(s) = {}
  <2>1. Len(s) # 0 => 1 \in 1..Len(s)
    BY <1>1
  <2>2. Len(s) = 0 => \A i \in 1..Len(s) : FALSE
    BY <1>1
  <2>3. QED
    BY <2>1, <2>2
<1>4. QED
  BY <1>1, <1>2, <1>3

(* Such an engine has errors exactly when it has something to show. *)
LEMMA HeldCodes ==
  ASSUME NEW e, ErrorsOnly(e)
  PROVE  /\ StoredCodes(e) \subseteq Codes
         /\ HasErrors(e) <=> StoredCodes(e) # {}
<1>1. e.diagnostics \in Seq(Diagnostic)
  BY DEF ErrorsOnly, Engine
<1>2. \A i \in DOMAIN e.diagnostics : e.diagnostics[i].code \in Codes
  <2>1. \A i \in DOMAIN e.diagnostics : e.diagnostics[i] \in Diagnostic
    BY <1>1
  <2>2. \A d \in Diagnostic : d.code \in Codes
    BY DEF Diagnostic
  <2>3. QED
    BY <2>1, <2>2
<1>3. e.diagnostics = <<>> <=> DOMAIN e.diagnostics = {}
  BY <1>1, NoneEmpty
<1>4. QED
  BY <1>2, <1>3 DEF ErrorsOnly, StoredCodes

(* EmitError builds a diagnostic of severity Error. *)
LEMMA ErrorIsDiagnostic ==
  \A c \in Codes : Error(c) \in Diagnostic /\ Error(c).severity = "Error" /\ Error(c).code = c
  BY DEF Error, Diagnostic, Severities

(* An error that is recorded is counted and stored. *)
LEMMA ErrorRecorded ==
  ASSUME NEW e \in Engine(Diagnostic), NEW c \in Codes
  PROVE  /\ ErrorsOnly(Recorded(e, Error(c)))
         /\ HasErrors(Recorded(e, Error(c)))
         /\ c \in StoredCodes(Recorded(e, Error(c)))
<1> DEFINE d == Error(c)
           r == Recorded(e, d)
           n == Len(e.diagnostics)
<1>1. d \in Diagnostic /\ d.severity = "Error" /\ d.code = c
  BY ErrorIsDiagnostic
<1> HIDE DEF d
<1>2. r \in Engine(Diagnostic) /\ r.error_count = e.error_count + OneIf(CountsAsError(e, d))
  BY <1>1, RecordedType
<1>3. OneIf(CountsAsError(e, d)) = 1
  BY <1>1 DEF CountsAsError, OneIf
<1>4. r.error_count > 0
  BY <1>2, <1>3 DEF Engine
<1>5. r.diagnostics = Append(e.diagnostics, d) /\ e.diagnostics \in Seq(Diagnostic)
  BY DEF Recorded, Engine
<1>6. /\ n \in Nat /\ DOMAIN r.diagnostics = 1..(n + 1)
      /\ r.diagnostics[n + 1] = d
      /\ r.diagnostics # <<>>
  BY <1>1, <1>5
<1>7. c \in StoredCodes(r)
  BY <1>1, <1>6 DEF StoredCodes
<1>8. QED
  BY <1>2, <1>4, <1>6, <1>7 DEF ErrorsOnly, HasErrors, d

(* An engine that is handed an error holds one afterwards: this one, or     *)
(* those that kept it out.                                                  *)
LEMMA ErrorHeld ==
  ASSUME NEW e, ErrorsOnly(e), NEW c \in Codes
  PROVE  LET r == Emitted(e, Error(c)) IN
         /\ ErrorsOnly(r)
         /\ HasErrors(r)
         /\ \/ c \in StoredCodes(r)
            \/ r.truncated
            \/ LimitReached(r.policy.error_limit, r.error_count)
         /\ e.diagnostics = <<>> => c \in StoredCodes(r)
<1> DEFINE d == Error(c)
           r == Emitted(e, d)
           full == [e EXCEPT !.truncated = TRUE]
<1>1. d \in Diagnostic /\ d.severity = "Error"
  BY ErrorIsDiagnostic
<1>2. e \in Engine(Diagnostic)
  BY DEF ErrorsOnly
<1>3. /\ ~ ShouldAccept(e, d) => r = e
      /\ ShouldAccept(e, d) /\ IsFull(e) => r = full
      /\ ShouldAccept(e, d) /\ ~ IsFull(e) => r = Recorded(e, d)
  BY Zenon DEF Emitted
<1>4. ShouldAccept(e, d) <=> ~ LimitReached(e.policy.error_limit, e.error_count)
  BY <1>1 DEF ShouldAccept
<1>5. /\ LimitReached(e.policy.error_limit, e.error_count) => e.error_count > 0
      /\ IsFull(e) => e.diagnostics # <<>>
  BY <1>2 DEF LimitReached, IsFull, Engine, DiagnosticsPolicy
<1>6. CASE ~ ShouldAccept(e, d)
  <2>1. r = e /\ HasErrors(e) /\ e.diagnostics # <<>>
    BY <1>3, <1>4, <1>5, <1>6 DEF HasErrors, ErrorsOnly
  <2>2. QED
    BY <1>4, <1>6, <2>1
<1>7. CASE ShouldAccept(e, d) /\ IsFull(e)
  <2>1. /\ full \in Engine(Diagnostic) /\ full.truncated = TRUE
        /\ full.diagnostics = e.diagnostics
        /\ full.error_count = e.error_count /\ full.fatal_count = e.fatal_count
    BY <1>2 DEF Engine
  <2>2. r = full /\ e.diagnostics # <<>> /\ HasErrors(full)
    BY <1>3, <1>5, <1>7, <2>1 DEF HasErrors, ErrorsOnly
  <2> HIDE DEF full, r
  <2>3. ErrorsOnly(r) /\ HasErrors(r) /\ r.truncated
    BY <2>1, <2>2 DEF ErrorsOnly
  <2>4. QED
    BY <2>2, <2>3 DEF r
<1>8. CASE ShouldAccept(e, d) /\ ~ IsFull(e)
  <2>1. r = Recorded(e, d)
    BY <1>3, <1>8
  <2>2. QED
    BY <1>2, <2>1, ErrorRecorded, Zenon
<1>9. QED
  BY <1>6, <1>7, <1>8

(* Clear leaves an engine with nothing in it. *)
LEMMA ClearedHolds ==
  ASSUME NEW e \in Engine(Diagnostic)
  PROVE  ErrorsOnly(Cleared(e)) /\ Cleared(e).diagnostics = <<>>
<1>1. /\ Cleared(e) \in Engine(Diagnostic) /\ Cleared(e).diagnostics = <<>>
      /\ Cleared(e).fatal_count = 0 /\ Cleared(e).error_count = 0
  BY ClearedType
<1>2. QED
  BY <1>1 DEF ErrorsOnly, HasErrors

(* SetPolicy touches neither counters nor store. *)
LEMMA PolicySet ==
  ASSUME NEW e, ErrorsOnly(e), NEW p \in DiagnosticsPolicy
  PROVE  ErrorsOnly(WithPolicy(e, p))
<1>1. e \in Engine(Diagnostic)
  BY DEF ErrorsOnly
<1>2. /\ WithPolicy(e, p) \in Engine(Diagnostic)
      /\ WithPolicy(e, p).diagnostics = e.diagnostics
      /\ WithPolicy(e, p).fatal_count = e.fatal_count
      /\ WithPolicy(e, p).error_count = e.error_count
  BY <1>1, WithPolicyType
<1>3. QED
  BY <1>2 DEF ErrorsOnly, HasErrors

(* A refused setting is one of the configuration errors. *)
LEMMA RefusalHeld ==
  ASSUME NEW e, ErrorsOnly(e), NEW setting \in Settings
  PROVE  ErrorsOnly(RefusedInto(e, setting)) /\ RefusalCode[setting] \in ConfigCodes
<1>1. RefusalCode[setting] \in ConfigCodes
  BY DEF RefusalCode, ConfigCodes, Settings, SettingsTakingNext
<1>2. RefusalCode[setting] \in Codes
  BY <1>1 DEF Codes
<1>3. ErrorsOnly(Emitted(e, Error(RefusalCode[setting])))
  BY <1>2, ErrorHeld
<1>4. QED
  BY <1>1, <1>3 DEF RefusedInto

-----------------------------------------------------------------------------
(* The types. *)

(* The steps, as the cases every preservation proof splits on. *)
LEMMA NextCases ==
  ASSUME [Next]_vars
  PROVE  \/ ParseTaking \/ ParseFlag \/ ParseOther \/ ParseFails \/ ParseSucceeds
         \/ LoadConfiguration
         \/ \E env \in Environments : LoadEnvironmentOverrides(env)
         \/ InitializeDiagnostics
         \/ NoCommand \/ Complain \/ PrintOnly \/ OpenFiles
         \/ \E found \in Contents : LoadFile(found)
         \/ \E code \in SourceCodes : LoadFileFails(code)
         \/ Lex \/ FilesDone \/ ReportAndExit \/ Catch
         \/ UNCHANGED vars
  BY DEF Next, Exited

(* The files of the command are texts. *)
LEMMA InputTexts ==
  ASSUME CliOptions(options)
  PROVE  InputFiles \in Seq(Texts) /\ ToSet(InputFiles) \subseteq Texts
<1>1. InputFiles \in Seq(Texts)
  BY DEF CliOptions, InputFiles
<1>2. QED
  BY <1>1 DEF ToSet

(* Types implies the type invariant of Driver. *)
LEMMA TypesMeanTypeOK == Types => TypeOK
<1> SUFFICES ASSUME Types PROVE TypeOK
  OBVIOUS
<1>1. DOMAIN options = DOMAIN EmptyCommandLine /\ ToSet(InputFiles) \subseteq Texts
  BY InputTexts DEF Types, CliOptions
<1>2. /\ config.profile \in Meanings("profile")
      /\ config.target \in Meanings("target") \union {"Unknown"}
      /\ config.platform \in Meanings("platform") \union {"Unknown"}
      /\ config.optimization \in Meanings("optimization")
      /\ config.diagnostics \in DiagnosticsPolicy
  BY DEF Types, Configuration
<1>3. engine \in Engine(Diagnostic)
  BY DEF Types, ErrorsOnly
<1>4. QED
  BY <1>1, <1>2, <1>3 DEF Types, TypeOK

(* The process starts in its types. *)
LEMMA InitTypes == Init => Types
<1> SUFFICES ASSUME Init PROVE Types
  OBVIOUS
<1>1. argv \in Seq(Argument(Texts)) /\ index \in 1..Len(argv) + 1
  BY ArgumentsAssumption DEF Init
<1>2. CliOptions(options)
  BY EmptyType DEF Init
<1>3. config \in Configuration
  <2>1. "Debug" \in Meanings("profile") /\ "O0" \in Meanings("optimization")
    BY Profiles, Levels
  <2>2. QED
    BY <2>1, PoliciesAssumption DEF Init, Configuration
<1>4. ErrorsOnly(engine)
  <2>1. NewEngine \in Engine(Diagnostic)
    BY NewEngineType
  <2>2. ErrorsOnly(NewEngine)
    BY <2>1 DEF ErrorsOnly, HasErrors, NewEngine, EmptyEngine
  <2>3. QED
    BY <2>2 DEF Init
<1>5. content \in [Texts -> Contents] /\ pending \in Seq(Texts)
  BY DEF Init, Contents
<1>6. pc \in Steps /\ exit_code \in ExitCodes \union {NoExitCode}
  BY DEF Init, Steps
<1>7. /\ had_lexical_errors \in BOOLEAN /\ printed \in BOOLEAN /\ overridden \in BOOLEAN
      /\ shown \subseteq Codes /\ handed \subseteq Codes
  BY DEF Init
<1>8. QED
  BY <1>1, <1>2, <1>3, <1>4, <1>5, <1>6, <1>7 DEF Types

(* The codes, for the steps that report one. *)
LEMMA NamedCodes ==
  /\ {"D0001", "D0002", "D0003", "D9999", "LexicalError"} \subseteq Codes
  /\ ConfigCodes \subseteq Codes
  /\ SourceCodes \subseteq Codes
  BY DEF Codes

(* EmitError keeps the types of what it touches. *)
LEMMA EmittedError ==
  ASSUME Types, NEW code \in Codes, EmitError(code)
  PROVE  /\ ErrorsOnly(engine)'
         /\ StoredCodes(engine') \subseteq Codes
         /\ handed' \subseteq Codes
<1>1. ErrorsOnly(Emitted(engine, Error(code)))
  BY ErrorHeld DEF Types
<1>2. StoredCodes(Emitted(engine, Error(code))) \subseteq Codes
  BY <1>1, HeldCodes
<1>3. QED
  BY <1>1, <1>2 DEF EmitError, Types

(* An exception leaves exactly itself behind. *)
LEMMA CaughtShown ==
  ASSUME Types, Catch
  PROVE  /\ ErrorsOnly(engine') /\ HasErrors(engine')
         /\ StoredCodes(engine') \subseteq Codes
         /\ "D9999" \in StoredCodes(engine')
         /\ handed' \subseteq Codes
<1> DEFINE e == Cleared(engine)
<1>1. ErrorsOnly(e) /\ e.diagnostics = <<>>
  BY ClearedHolds DEF Types, ErrorsOnly
<1> HIDE DEF e
<1>2. /\ ErrorsOnly(Emitted(e, Error("D9999"))) /\ HasErrors(Emitted(e, Error("D9999")))
      /\ "D9999" \in StoredCodes(Emitted(e, Error("D9999")))
  BY <1>1, ErrorHeld, NamedCodes
<1>3. engine' = Emitted(e, Error("D9999")) /\ handed' = handed \union {"D9999"}
  BY DEF Catch, e
<1>4. QED
  BY <1>2, <1>3, HeldCodes, NamedCodes DEF Types

(* The environment leaves a configuration, and a level that is the old one  *)
(* or belongs to the profile it named.                                      *)
LEMMA OverriddenType ==
  ASSUME config \in Configuration, NEW env, LoadEnvironmentOverrides(env)
  PROVE  /\ config' \in Configuration
         /\ ~ overridden' => /\ config'.profile = config.profile
                             /\ config'.optimization = config.optimization
         /\ overridden' => \/ config'.profile = "Custom"
                           \/ config'.optimization = ProfileOptimization[config'.profile]
<1> DEFINE By(setting, c) == IF Understood(setting, env[setting])
                             THEN [c EXCEPT ![setting] = Meaning(setting, env[setting])] ELSE c
           p == IF Understood("profile", env.profile)
                THEN WithProfile(config, Meaning("profile", env.profile)) ELSE config
           t == By("target", p)
           f == By("platform", t)
<1>1. config' = f /\ overridden' = Understood("profile", env.profile)
  BY DEF LoadEnvironmentOverrides
<1>2. /\ p \in Configuration
      /\ ~ Understood("profile", env.profile) => p = config
      /\ Understood("profile", env.profile) =>
           p.profile = "Custom" \/ p.optimization = ProfileOptimization[p.profile]
  <2>1. CASE Understood("profile", env.profile)
    <3>1. Meaning("profile", env.profile) \in Meanings("profile")
      BY <2>1, UnderstoodMeans
    <3>2. QED
      BY <2>1, <3>1, ProfileType
  <2>2. CASE ~ Understood("profile", env.profile)
    BY <2>2
  <2>3. QED
    BY <2>1, <2>2
<1> HIDE DEF p
<1>3. t \in Configuration /\ t.profile = p.profile /\ t.optimization = p.optimization
  BY <1>2, EnvironmentType
<1> HIDE DEF t
<1>4. f \in Configuration /\ f.profile = t.profile /\ f.optimization = t.optimization
  BY <1>3, EnvironmentType
<1> HIDE DEF f
<1>5. QED
  BY <1>1, <1>2, <1>3, <1>4

(* The argument Parse looks at, and what is left of the files. *)
LEMMA ParsingType ==
  ASSUME Types, NEW form, Parsing(form)
  PROVE  /\ Len(argv) \in Nat /\ index \in 1..Len(argv)
         /\ argv[index] \in Argument(Texts)
         /\ argv[index].form = form
<1>1. argv \in Seq(Argument(Texts)) /\ index \in 1..Len(argv) + 1
  BY DEF Types
<1>2. index <= Len(argv) /\ argv[index].form = form
  BY DEF Parsing
<1>3. \A S : \A s \in Seq(S) : Len(s) \in Nat /\ \A i \in 1..Len(s) : s[i] \in S
  OBVIOUS
<1>4. Len(argv) \in Nat /\ index \in 1..Len(argv)
  BY <1>1, <1>2, <1>3
<1>5. QED
  BY <1>1, <1>2, <1>3, <1>4

(* One or two arguments on is inside the vector or just behind it. *)
LEMMA NextArgument ==
  \A n \in Nat : \A i \in 1..n : i + 1 \in 1..n + 1 /\ (i < n => i + 2 \in 1..n + 1)
  OBVIOUS

(* A turn of Parse's loop that leaves options keeps the types. *)
LEMMA GoOnType ==
  ASSUME Types, CliOptions(options'), NEW next \in 1..Len(argv) + 1, GoOnAt(next)
  PROVE  Types'
<1>1. index' \in 1..Len(argv') + 1 /\ argv' = argv
  BY DEF GoOnAt
<1>2. QED
  BY <1>1 DEF GoOnAt, Types

(* The files still to open stay texts. *)
LEMMA TailTexts ==
  \A s \in Seq(Texts) : s # <<>> => Tail(s) \in Seq(Texts)
  OBVIOUS

(* Every step keeps the types. *)
LEMMA TypesStep == IInv /\ [Next]_vars => Types'
<1> SUFFICES ASSUME IInv, [Next]_vars PROVE Types'
  OBVIOUS
<1> USE DEF IInv
<1>1. CASE ParseTaking
  <2>1. /\ Len(argv) \in Nat /\ index \in 1..Len(argv)
        /\ argv[index] \in Argument(Texts)
        /\ argv[index].form = "taking next"
    BY <1>1, ParsingType DEF ParseTaking
  <2>2. argv[index].name \notin {"source_files", "positional_args"}
    BY <2>1, ArgumentType
  <2>3. CliOptions(options')
    <3>1. CliOptions(options)
      BY DEF Types
    <3>2. options' = [options EXCEPT ![argv[index].name] = TextOf(argv[index + 1])]
      BY <1>1 DEF ParseTaking
    <3> DEFINE n == argv[index].name
               v == TextOf(argv[index + 1])
    <3> HIDE DEF n, v
    <3>3. n # "source_files" /\ n # "positional_args" /\ options' = [options EXCEPT ![n] = v]
      BY <2>2, <3>2 DEF n, v
    <3>4. QED
      BY <3>1, <3>3, FieldType, Zenon
  <2>4. index < Len(argv) /\ GoOnAt(index + 2)
    BY <1>1, Zenon DEF ParseTaking
  <2>5. index + 2 \in 1..Len(argv) + 1
    BY <2>1, <2>4, NextArgument
  <2>6. QED
    BY <2>3, <2>4, <2>5, GoOnType
<1>2. CASE ParseFlag
  <2>1. /\ Len(argv) \in Nat /\ index \in 1..Len(argv)
        /\ argv[index] \in Argument(Texts)
        /\ argv[index].form \in {"switch", "setting", "entry", "unknown flag"}
    BY <1>2, ParsingType DEF ParseFlag
  <2>2. CliOptions(ParseGlobalFlag(options, argv[index]))
    BY <2>1, FlagType DEF Types
  <2>3. CliOptions(options') /\ GoOnAt(index + 1)
    BY <1>2, <2>2, Zenon DEF ParseFlag
  <2>4. index + 1 \in 1..Len(argv) + 1
    BY <2>1, NextArgument
  <2>5. QED
    BY <2>3, <2>4, GoOnType
<1>3. CASE ParseOther
  <2>1. /\ Len(argv) \in Nat /\ index \in 1..Len(argv)
        /\ argv[index] \in Argument(Texts)
        /\ argv[index].form \in {"source file", "word"}
    BY <1>3, ParsingType DEF ParseOther
  <2>2. CliOptions(ParsePlain(options, argv[index]))
    BY <2>1, PlainType DEF Types
  <2>3. CliOptions(options') /\ GoOnAt(index + 1)
    BY <1>3, <2>2, Zenon DEF ParseOther
  <2>4. index + 1 \in 1..Len(argv) + 1
    BY <2>1, NextArgument
  <2>5. QED
    BY <2>3, <2>4, GoOnType
<1>4. CASE ParseFails
  <2>1. ErrorsOnly(engine') /\ StoredCodes(engine') \subseteq Codes /\ handed' \subseteq Codes
    BY <1>4, EmittedError, NamedCodes DEF ParseFails
  <2>2. QED
    BY <1>4, <2>1 DEF ParseFails, Report, Types, Steps, ExitCodes
<1>5. CASE ParseSucceeds
  BY <1>5 DEF ParseSucceeds, Types, Steps
<1>6. CASE LoadConfiguration
  <2>1. config' \in Configuration
    BY <1>6, ConfiguredType DEF LoadConfiguration, Types, LevelInv
  <2>2. ErrorsOnly(engine')
    BY <1>6, RefusalHeld DEF LoadConfiguration, Types, Settings, SettingsTakingNext
  <2>3. handed' \subseteq Codes
    BY <1>6, RefusalHeld, NamedCodes DEF LoadConfiguration, Types
  <2>4. QED
    BY <1>6, <2>1, <2>2, <2>3 DEF LoadConfiguration, Types, Steps
<1>7. ASSUME NEW env \in Environments, LoadEnvironmentOverrides(env) PROVE Types'
  <2>1. config' \in Configuration
    BY <1>7, OverriddenType DEF Types
  <2>2. overridden' \in BOOLEAN
    BY <1>7 DEF LoadEnvironmentOverrides, Understood
  <2>3. QED
    BY <1>7, <2>1, <2>2 DEF LoadEnvironmentOverrides, Types, Steps
<1>8. CASE InitializeDiagnostics
  <2>1. ErrorsOnly(engine')
    BY <1>8, ClearedHolds, PolicySet DEF InitializeDiagnostics, Types, Configuration, ErrorsOnly
  <2>2. QED
    BY <1>8, <2>1 DEF InitializeDiagnostics, Types, Steps
<1>9. CASE NoCommand
  <2>1. ErrorsOnly(engine') /\ handed' \subseteq Codes
    BY <1>9, EmittedError, NamedCodes DEF NoCommand
  <2>2. QED
    BY <1>9, <2>1 DEF NoCommand, Leave, Types, Steps, ExitCodes
<1>10. CASE Complain \/ PrintOnly
  BY <1>10 DEF Complain, PrintOnly, Returned, Leave, Types, Steps, ExitCodes
<1>11. CASE OpenFiles
  <2>1. pending' \in Seq(Texts)
    BY <1>11, InputTexts DEF OpenFiles, Types
  <2>2. QED
    BY <1>11, <2>1 DEF OpenFiles, Types, Steps
<1>12. ASSUME NEW found \in Contents, LoadFile(found) PROVE Types'
  <2>1. content' \in [Texts -> Contents]
    BY <1>12 DEF LoadFile, Types
  <2>2. pending' \in Seq(Texts) /\ pc' \in Steps
    BY <1>12, TailTexts DEF LoadFile, Types, Steps
  <2>3. QED
    BY <1>12, <2>1, <2>2 DEF LoadFile, Types
<1>13. ASSUME NEW code \in SourceCodes, LoadFileFails(code) PROVE Types'
  <2>1. ErrorsOnly(engine') /\ handed' \subseteq Codes
    BY <1>13, EmittedError, NamedCodes DEF LoadFileFails
  <2>2. QED
    BY <1>13, <2>1 DEF LoadFileFails, Returned, Leave, Types, Steps, ExitCodes
<1>14. CASE Lex
  <2>1. ErrorsOnly(engine') /\ handed' \subseteq Codes
    <3>1. CASE EmitError("LexicalError")
      BY <3>1, EmittedError, NamedCodes
    <3>2. CASE UNCHANGED <<engine, handed>>
      BY <3>2 DEF Types
    <3>3. QED
      BY <1>14, <3>1, <3>2 DEF Lex
  <2>2. pending' \in Seq(Texts) /\ had_lexical_errors' \in BOOLEAN
    BY <1>14, TailTexts DEF Lex, Types, StoryInv, FilesInv
  <2>3. QED
    BY <1>14, <2>1, <2>2 DEF Lex, Types, Steps
<1>15. CASE FilesDone
  <2>1. shown' \subseteq Codes
    BY <1>15, HeldCodes DEF FilesDone, Report, Types
  <2>2. QED
    BY <1>15, <2>1 DEF FilesDone, Returned, Leave, Types, Steps, ExitCodes
<1>16. CASE ReportAndExit
  <2>1. shown' \subseteq Codes
    BY <1>16, HeldCodes DEF ReportAndExit, Report, Types
  <2>2. QED
    BY <1>16, <2>1 DEF ReportAndExit, Types, Steps
<1>17. CASE Catch
  <2>1. /\ ErrorsOnly(engine') /\ StoredCodes(engine') \subseteq Codes
        /\ handed' \subseteq Codes
    BY <1>17, CaughtShown
  <2>2. QED
    BY <1>17, <2>1 DEF Catch, Report, Types, Steps, ExitCodes
<1>18. CASE UNCHANGED vars
  BY <1>18 DEF vars, Types
<1>19. QED
  BY <1>1, <1>2, <1>3, <1>4, <1>5, <1>6, <1>7, <1>8, <1>9, <1>10, <1>11, <1>12, <1>13,
     <1>14, <1>15, <1>16, <1>17, <1>18, NextCases

-----------------------------------------------------------------------------
(* The level. *)

(* What the options say changes with the options only. *)
LEMMA OptionsRead ==
  ASSUME UNCHANGED options
  PROVE  /\ Accepted("optimization")' <=> Accepted("optimization")
         /\ Chosen("optimization")' = Chosen("optimization")
         /\ Command' = Command
         /\ InputFiles' = InputFiles
         /\ FilesRead' = FilesRead
         /\ ReadsFiles' <=> ReadsFiles
<1>1. /\ Accepted("optimization")' <=> Accepted("optimization")
      /\ Chosen("optimization")' = Chosen("optimization")
  BY DEF Accepted, Given, Chosen
<1>2. Command' = Command
  BY Zenon DEF Command
<1>3. InputFiles' = InputFiles
  BY <1>2, Zenon DEF InputFiles
<1>4. QED
  BY <1>1, <1>2, <1>3, Zenon DEF FilesRead, ReadsFiles

(* Every step keeps the level in agreement. *)
LEMMA LevelStep == IInv /\ [Next]_vars => LevelInv'
<1> SUFFICES ASSUME IInv, [Next]_vars PROVE LevelInv'
  OBVIOUS
<1>1. Types /\ LevelInv
  BY DEF IInv
<1>2. CASE ParseTaking \/ ParseFlag \/ ParseOther
  <2>1. pc = "parse" /\ UNCHANGED <<pc, config, overridden>>
    BY <1>2 DEF ParseTaking, ParseFlag, ParseOther, Parsing, GoOnAt
  <2>2. QED
    BY <1>1, <2>1 DEF LevelInv
<1>3. CASE ParseSucceeds
  BY <1>1, <1>3 DEF ParseSucceeds, LevelInv
<1>4. CASE LoadConfiguration
  <2>1. /\ Accepted("optimization") => config'.optimization = Chosen("optimization")
        /\ \/ Accepted("optimization")
           \/ config'.profile = "Custom"
           \/ config'.optimization = ProfileOptimization[config'.profile]
    BY <1>1, <1>4, ConfiguredType DEF LoadConfiguration, Types, LevelInv
  <2>2. pc' = "environment" /\ ~ overridden' /\ UNCHANGED options
    BY <1>1, <1>4 DEF LoadConfiguration, LevelInv
  <2>3. QED
    BY <2>1, <2>2, OptionsRead DEF LevelInv, Levelled
<1>5. ASSUME NEW env \in Environments, LoadEnvironmentOverrides(env) PROVE LevelInv'
  <2>1. /\ ~ overridden' => /\ config'.profile = config.profile
                            /\ config'.optimization = config.optimization
        /\ overridden' => \/ config'.profile = "Custom"
                          \/ config'.optimization = ProfileOptimization[config'.profile]
    BY <1>1, <1>5, OverriddenType DEF Types
  <2>2. Levelled /\ ~ overridden /\ pc' = "diagnostics" /\ UNCHANGED options
    BY <1>1, <1>5 DEF LoadEnvironmentOverrides, LevelInv
  <2>3. QED
    BY <2>1, <2>2, OptionsRead DEF LevelInv, Levelled
<1>6. CASE InitializeDiagnostics
  <2>1. Levelled /\ pc' = "dispatch" /\ UNCHANGED <<options, config, overridden>>
    BY <1>1, <1>6 DEF InitializeDiagnostics, LevelInv
  <2>2. QED
    BY <2>1, OptionsRead DEF LevelInv, Levelled
<1>7. ASSUME pc' \in {"load", "lex", "report", "done"} PROVE LevelInv'
  BY <1>7 DEF LevelInv
<1>8. CASE \/ ParseFails \/ NoCommand \/ Complain \/ PrintOnly \/ OpenFiles
           \/ Lex \/ FilesDone \/ ReportAndExit \/ Catch
  BY <1>7, <1>8 DEF ParseFails, NoCommand, Complain, PrintOnly, OpenFiles, Lex, FilesDone,
     ReportAndExit, Catch, Returned, Leave
<1>9. ASSUME NEW found \in Contents, LoadFile(found) PROVE LevelInv'
  BY <1>7, <1>9 DEF LoadFile
<1>10. ASSUME NEW code \in SourceCodes, LoadFileFails(code) PROVE LevelInv'
  BY <1>7, <1>10 DEF LoadFileFails, Returned, Leave
<1>11. CASE UNCHANGED vars
  <2>1. UNCHANGED <<pc, options, config, overridden>>
    BY <1>11 DEF vars
  <2>2. QED
    BY <1>1, <2>1, OptionsRead DEF LevelInv, Levelled
<1>12. QED
  BY <1>2, <1>3, <1>4, <1>5, <1>6, <1>8, <1>9, <1>10, <1>11, NextCases

-----------------------------------------------------------------------------
(* The files, the reports and the exit code. *)

(* What is in a sequence is its head or in its tail. *)
LEMMA HeadAndTail ==
  ASSUME NEW S, NEW s \in Seq(S), s # <<>>
  PROVE  /\ Head(s) \in S
         /\ ToSet(s) = {Head(s)} \union ToSet(Tail(s))
<1>1. /\ Len(s) \in Nat /\ Len(s) > 0 /\ Head(s) = s[1] /\ \A i \in 1..Len(s) : s[i] \in S
      /\ Len(Tail(s)) = Len(s) - 1
      /\ \A i \in 1..Len(s) - 1 : Tail(s)[i] = s[i + 1]
  OBVIOUS
<1>2. ToSet(s) = {s[i] : i \in 1..Len(s)}
  BY DEF ToSet
<1>3. ToSet(Tail(s)) = {s[i + 1] : i \in 1..Len(s) - 1}
  <2>1. DOMAIN Tail(s) = 1..Len(s) - 1
    BY <1>1
  <2>2. QED
    BY <1>1, <2>1 DEF ToSet
<1>4. \A x \in ToSet(s) : x = Head(s) \/ x \in ToSet(Tail(s))
  <2>1. \A i \in 1..Len(s) : i # 1 => i - 1 \in 1..Len(s) - 1 /\ i = (i - 1) + 1
    BY <1>1
  <2>2. QED
    BY <1>1, <1>2, <1>3, <2>1
<1>5. Head(s) \in S /\ Head(s) \in ToSet(s) /\ ToSet(Tail(s)) \subseteq ToSet(s)
  <2>1. 1 \in 1..Len(s) /\ \A j \in 1..Len(s) - 1 : j + 1 \in 1..Len(s)
    BY <1>1
  <2>2. QED
    BY <1>1, <1>2, <1>3, <2>1
<1>6. QED
  BY <1>4, <1>5, Zenon

(* A file once found mute stays mute, whatever is loaded next. *)
LEMMA MuteStays ==
  ASSUME UNCHANGED <<options, content>>
  PROVE  SomeMute' <=> SomeMute
<1>1. FilesRead' = FilesRead
  BY OptionsRead
<1>2. QED
  BY <1>1 DEF SomeMute

(* A step can end in three places: before the commands, ...                 *)
LEMMA BeginningStory ==
  ASSUME pc' \in Beginning, ~ had_lexical_errors', handed' \subseteq ConfigCodes
  PROVE  StoryInv'
<1>1. pc' \notin {"load", "lex", "report", "done"}
  BY DEF Beginning
<1>2. FilesInv' /\ HandedInv' /\ ReportInv'
  BY <1>1 DEF FilesInv, HandedInv, ReportInv
<1>3. SuccessIsClean' /\ HeldIsShown' /\ FailureExplained'
  BY <1>1 DEF SuccessIsClean, HeldIsShown, FailureExplained, Done
<1>4. QED
  BY <1>2, <1>3 DEF StoryInv

(* ... at the last report, ...                                              *)
LEMMA ReportStory ==
  ASSUME pc' = "report", had_lexical_errors' => HasErrors(engine') \/ SomeMute', ReportInv'
  PROVE  StoryInv'
<1>1. FilesInv' /\ HandedInv'
  BY DEF FilesInv, HandedInv, Beginning
<1>2. SuccessIsClean' /\ HeldIsShown' /\ FailureExplained'
  BY DEF SuccessIsClean, HeldIsShown, FailureExplained, Done
<1>3. QED
  BY <1>1, <1>2 DEF StoryInv

(* ... and among the files.                                                 *)
LEMMA FilesStory ==
  ASSUME pc' \in {"load", "lex"}, FilesInv', HandedInv'
  PROVE  StoryInv'
<1>1. ReportInv'
  BY DEF ReportInv
<1>2. SuccessIsClean' /\ HeldIsShown' /\ FailureExplained'
  BY DEF SuccessIsClean, HeldIsShown, FailureExplained, Done
<1>3. QED
  BY <1>1, <1>2 DEF StoryInv

(* EmitError leaves an engine with errors: this one or those before it. *)
LEMMA EmitHeld ==
  ASSUME IInv, NEW code \in Codes, EmitError(code)
  PROVE  /\ HasErrors(engine') /\ ErrorsOnly(engine')
         /\ \/ code \in StoredCodes(engine')
            \/ engine'.truncated
            \/ LimitReached(engine'.policy.error_limit, engine'.error_count)
<1>1. ErrorsOnly(engine) /\ engine' = Emitted(engine, Error(code))
  BY DEF EmitError, IInv, Types
<1>2. QED
  BY <1>1, ErrorHeld

(* The steps before the dispatch report refused settings only. *)
LEMMA BeginningStep ==
  ASSUME IInv,
         \/ ParseTaking \/ ParseFlag \/ ParseOther \/ ParseSucceeds \/ LoadConfiguration
         \/ \E env \in Environments : LoadEnvironmentOverrides(env)
         \/ InitializeDiagnostics
  PROVE  StoryInv'
<1>1. pc \in Beginning => ~ had_lexical_errors /\ handed \subseteq ConfigCodes
  BY DEF IInv, StoryInv, FilesInv, HandedInv
<1>2. CASE ParseTaking \/ ParseFlag \/ ParseOther
  <2>1. pc \in Beginning /\ UNCHANGED <<pc, had_lexical_errors, handed>>
    BY <1>2 DEF ParseTaking, ParseFlag, ParseOther, Parsing, GoOnAt, Beginning
  <2>2. QED
    BY <1>1, <2>1, BeginningStory
<1>3. CASE \/ ParseSucceeds \/ InitializeDiagnostics
           \/ \E env \in Environments : LoadEnvironmentOverrides(env)
  <2>1. pc \in Beginning /\ pc' \in Beginning /\ UNCHANGED <<had_lexical_errors, handed>>
    BY <1>3 DEF ParseSucceeds, LoadEnvironmentOverrides, InitializeDiagnostics, Beginning
  <2>2. QED
    BY <1>1, <2>1, BeginningStory
<1>4. CASE LoadConfiguration
  <2>1. pc \in Beginning /\ pc' \in Beginning /\ UNCHANGED had_lexical_errors
    BY <1>4 DEF LoadConfiguration, Beginning
  <2>2. \A setting \in Settings : RefusalCode[setting] \in ConfigCodes
    BY RefusalHeld DEF IInv, Types
  <2>3. handed' \subseteq ConfigCodes
    BY <1>1, <1>4, <2>1, <2>2 DEF LoadConfiguration
  <2>4. QED
    BY <1>1, <2>1, <2>3, BeginningStory
<1>5. QED
  BY <1>2, <1>3, <1>4

(* The dispatch: what needs no file, and the start of what does. *)
LEMMA CommandStep ==
  ASSUME IInv, NoCommand \/ Complain \/ PrintOnly \/ OpenFiles
  PROVE  StoryInv'
<1>1. /\ pc = "dispatch" /\ ~ had_lexical_errors' /\ handed \subseteq ConfigCodes
      /\ UNCHANGED <<options, content>>
  <2>1. /\ pc = "dispatch" /\ UNCHANGED had_lexical_errors /\ UNCHANGED <<options, content>>
    BY DEF Dispatching, NoCommand, Complain, PrintOnly, OpenFiles
  <2>2. QED
    BY <2>1 DEF IInv, StoryInv, FilesInv, HandedInv, Beginning
<1>2. CASE NoCommand
  <2>1. HasErrors(engine') /\ pc' = "report" /\ exit_code' = InvalidArguments
    BY <1>2, EmitHeld, NamedCodes DEF NoCommand, Leave
  <2>2. ReportInv'
    BY <2>1 DEF ReportInv, Success, InvalidArguments, FileNotFound, InternalCompilerError
  <2>3. QED
    BY <1>1, <2>1, <2>2, ReportStory
<1>3. CASE Complain
  <2>1. printed' /\ pc' = "report" /\ exit_code' = InvalidArguments
    BY <1>3 DEF Complain, Returned, Leave, Success, InvalidArguments
  <2>2. ReportInv'
    BY <2>1 DEF ReportInv, Success, InvalidArguments, FileNotFound, InternalCompilerError
  <2>3. QED
    BY <1>1, <2>1, <2>2, ReportStory
<1>4. CASE PrintOnly
  <2>1. /\ pc' = "report" /\ UNCHANGED <<engine, handed>>
        /\ exit_code' = IF HasErrors(engine') THEN GeneralError ELSE Success
    BY <1>4 DEF PrintOnly, Returned, Leave
  <2>2. Command \in {"help", "version", "banner"} /\ Command' = Command
    BY <1>1, <1>4, OptionsRead DEF PrintOnly, Dispatching
  <2>3. Clean'
    BY <1>1, <2>1, <2>2 DEF Clean, ReadsFiles
  <2>4. ReportInv'
    BY <2>1, <2>3 DEF ReportInv, Success, GeneralError, FileNotFound, InternalCompilerError
  <2>5. QED
    BY <1>1, <2>1, <2>4, ReportStory
<1>5. CASE OpenFiles
  <2>1. /\ pc' = "load" /\ pending' = InputFiles /\ UNCHANGED handed
        /\ Command \in {"build", "tokens"}
    BY <1>5 DEF OpenFiles, Dispatching
  <2>2. FilesRead' = ToSet(pending') /\ ReadsFiles'
    BY <1>1, <2>1, OptionsRead DEF FilesRead, ReadsFiles
  <2>3. FilesInv'
    BY <1>1, <2>1, <2>2 DEF FilesInv, Beginning
  <2>4. HandedInv'
    BY <1>1, <2>1 DEF HandedInv, Beginning
  <2>5. QED
    BY <2>1, <2>3, <2>4, FilesStory
<1>6. QED
  BY <1>2, <1>3, <1>4, <1>5

(* A file that is loaded is the next one, and keeps what it was found to be. *)
LEMMA LoadStep ==
  ASSUME IInv, NEW found \in Contents, LoadFile(found)
  PROVE  StoryInv'
<1> DEFINE file == Head(pending)
<1>1. /\ pc = "load" /\ pending # <<>> /\ content' = [content EXCEPT ![file] = found]
      /\ found \in IF content[file] = "unread" THEN Contents \ {"unread"} ELSE {content[file]}
      /\ UNCHANGED <<options, engine, had_lexical_errors, handed>>
      /\ \/ Command = "tokens" /\ pc' = "lex" /\ UNCHANGED pending
         \/ Command = "build" /\ pc' = "load" /\ pending' = Tail(pending)
  BY DEF LoadFile
<1>2. pending \in Seq(Texts) /\ content \in [Texts -> Contents] /\ FilesInv /\ HandedInv
  BY DEF IInv, Types, StoryInv
<1>3. file \in Texts /\ ToSet(pending) = {file} \union ToSet(Tail(pending))
  BY <1>1, <1>2, HeadAndTail
<1> HIDE DEF file
<1>4. /\ FilesRead' = FilesRead /\ Command' = Command /\ (ReadsFiles' <=> ReadsFiles)
  BY <1>1, OptionsRead
<1>5. /\ found # "unread" /\ content'[file] = found
      /\ \A f : f # file => content'[f] = content[f]
      /\ content[file] # "unread" => found = content[file]
  BY <1>1, <1>2, <1>3
<1>6. SomeMute => SomeMute'
  BY <1>4, <1>5 DEF SomeMute
<1>7. FilesInv'
  <2>1. had_lexical_errors' => HasErrors(engine') \/ SomeMute'
    BY <1>1, <1>2, <1>6 DEF FilesInv
  <2>2. ReadsFiles' /\ ToSet(pending') \subseteq FilesRead'
    BY <1>1, <1>2, <1>3, <1>4 DEF FilesInv
  <2>3. \A f \in FilesRead' :
          \/ f \in ToSet(pending')
          \/ /\ content'[f] # "unread"
             /\ Command' = "tokens" /\ ~ had_lexical_errors' => content'[f] = "clean"
    BY <1>1, <1>2, <1>3, <1>4, <1>5 DEF FilesInv
  <2>4. pc' = "lex" => pending' # <<>> /\ Command' = "tokens" /\ content'[Head(pending')] # "unread"
    BY <1>1, <1>4, <1>5 DEF file
  <2>5. pc' \notin Beginning
    BY <1>1 DEF Beginning
  <2>6. QED
    BY <2>1, <2>2, <2>3, <2>4, <2>5 DEF FilesInv
<1>8. HandedInv'
  BY <1>1, <1>2 DEF HandedInv, Beginning
<1>9. QED
  BY <1>1, <1>7, <1>8, FilesStory

(* A file that cannot be loaded ends the command with its error. *)
LEMMA LoadFailsStep ==
  ASSUME IInv, NEW code \in SourceCodes, LoadFileFails(code)
  PROVE  StoryInv'
<1>1. /\ HasErrors(engine')
      /\ \/ code \in StoredCodes(engine')
         \/ engine'.truncated
         \/ LimitReached(engine'.policy.error_limit, engine'.error_count)
  BY EmitHeld, NamedCodes DEF LoadFileFails
<1>2. pc' = "report" /\ exit_code' = FileNotFound
  BY DEF LoadFileFails, Returned, Leave, Success, FileNotFound
<1>3. LoadErrorHeld'
  BY <1>1 DEF LoadErrorHeld
<1>4. ReportInv'
  BY <1>1, <1>2, <1>3 DEF ReportInv, Success, FileNotFound, InternalCompilerError
<1>5. QED
  BY <1>1, <1>2, <1>4, ReportStory

(* A file that is lexed leaves a failure remembered, reported or mute. *)
LEMMA LexStep ==
  ASSUME IInv, Lex
  PROVE  StoryInv'
<1> DEFINE file == Head(pending)
<1>1. /\ pc = "lex" /\ pc' = "load" /\ pending' = Tail(pending)
      /\ had_lexical_errors' = (had_lexical_errors \/ content[file] # "clean")
      /\ UNCHANGED <<options, content>>
  BY DEF Lex
<1>2. /\ pending \in Seq(Texts) /\ content \in [Texts -> Contents] /\ FilesInv /\ HandedInv
      /\ had_lexical_errors \in BOOLEAN
  BY DEF IInv, Types, StoryInv
<1>3. pending # <<>> /\ Command = "tokens" /\ content[file] # "unread"
  BY <1>1, <1>2 DEF FilesInv
<1>4. file \in Texts /\ ToSet(pending) = {file} \union ToSet(Tail(pending))
  BY <1>2, <1>3, HeadAndTail
<1>5. \/ HasErrors(engine')
      \/ UNCHANGED <<engine, handed>> /\ content[file] # "faulty"
  <2>1. CASE content[file] = "faulty"
    BY <2>1, EmitHeld, NamedCodes DEF Lex
  <2>2. CASE content[file] # "faulty"
    BY <2>2 DEF Lex
  <2>3. QED
    BY <2>1, <2>2
<1> HIDE DEF file
<1>6. /\ FilesRead' = FilesRead /\ Command' = Command /\ (ReadsFiles' <=> ReadsFiles)
      /\ SomeMute' <=> SomeMute
  BY <1>1, OptionsRead, MuteStays
<1>7. FilesInv'
  <2>1. had_lexical_errors' => HasErrors(engine') \/ SomeMute'
    <3>1. content[file] \in Contents /\ file \in FilesRead
      BY <1>1, <1>2, <1>4 DEF FilesInv
    <3>2. content[file] \notin {"clean", "faulty"} => SomeMute
      BY <1>3, <3>1 DEF SomeMute, Contents
    <3>3. QED
      BY <1>1, <1>2, <1>5, <1>6, <3>2 DEF FilesInv
  <2>2. ReadsFiles' /\ ToSet(pending') \subseteq FilesRead'
    BY <1>1, <1>2, <1>4, <1>6 DEF FilesInv
  <2>3. \A f \in FilesRead' :
          \/ f \in ToSet(pending')
          \/ /\ content'[f] # "unread"
             /\ Command' = "tokens" /\ ~ had_lexical_errors' => content'[f] = "clean"
    BY <1>1, <1>2, <1>3, <1>4, <1>6 DEF FilesInv
  <2>4. QED
    BY <1>1, <2>1, <2>2, <2>3 DEF FilesInv, Beginning
<1>8. HandedInv'
  BY <1>1, <1>2, <1>5 DEF HandedInv, Beginning
<1>9. QED
  BY <1>1, <1>7, <1>8, FilesStory

(* The end of the files is a success when nothing failed. *)
LEMMA FilesDoneStep ==
  ASSUME IInv, FilesDone
  PROVE  StoryInv'
<1>1. /\ pc = "load" /\ pending = <<>> /\ pc' = "report"
      /\ UNCHANGED <<options, engine, content, had_lexical_errors, handed>>
      /\ exit_code' = IF had_lexical_errors \/ HasErrors(engine) THEN GeneralError ELSE Success
  BY DEF FilesDone, Returned, Leave, Success, GeneralError
<1>2. FilesInv /\ HandedInv
  BY DEF IInv, StoryInv
<1>3. /\ FilesRead' = FilesRead /\ Command' = Command /\ (ReadsFiles' <=> ReadsFiles)
      /\ SomeMute' <=> SomeMute
  BY <1>1, OptionsRead, MuteStays
<1>4. ToSet(pending) = {}
  BY <1>1 DEF ToSet
<1>5. \A f \in FilesRead :
        /\ content[f] # "unread"
        /\ Command = "tokens" /\ ~ had_lexical_errors => content[f] = "clean"
  BY <1>1, <1>2, <1>4 DEF FilesInv
<1>6. ~ had_lexical_errors /\ ~ HasErrors(engine) => Clean'
  BY <1>1, <1>2, <1>3, <1>5 DEF Clean, HandedInv
<1>7. had_lexical_errors' => HasErrors(engine') \/ SomeMute'
  BY <1>1, <1>2, <1>3 DEF FilesInv
<1>8. ReportInv'
  BY <1>1, <1>6, <1>7 DEF ReportInv, Success, GeneralError, FileNotFound, InternalCompilerError
<1>9. QED
  BY <1>1, <1>7, <1>8, ReportStory

(* The three ways out of Run. *)
LEMMA EndStep ==
  ASSUME IInv, ParseFails \/ ReportAndExit \/ Catch
  PROVE  StoryInv'
<1>1. pc' = "done" /\ UNCHANGED <<options, content, had_lexical_errors>>
  BY DEF ParseFails, ReportAndExit, Catch
<1>2. /\ FilesRead' = FilesRead /\ Command' = Command /\ (ReadsFiles' <=> ReadsFiles)
      /\ SomeMute' <=> SomeMute
  BY <1>1, OptionsRead, MuteStays
<1>3. HandedInv' /\ ReportInv'
  BY <1>1 DEF HandedInv, ReportInv, Beginning
<1>4. FilesInv /\ ReportInv /\ ErrorsOnly(engine)
  BY DEF IInv, Types, StoryInv
<1>5. CASE ParseFails
  <2>1. HasErrors(engine') /\ ErrorsOnly(engine')
    BY <1>5, EmitHeld, NamedCodes DEF ParseFails
  <2>2. StoredCodes(engine') \subseteq shown' /\ StoredCodes(engine') # {}
    BY <1>5, <2>1, HeldCodes DEF ParseFails, Report
  <2>3. exit_code' = InvalidArguments
    BY <1>5 DEF ParseFails
  <2>4. FilesInv'
    BY <1>1, <2>1 DEF FilesInv, Beginning
  <2>5. SuccessIsClean' /\ HeldIsShown' /\ FailureExplained'
    BY <2>2, <2>3 DEF SuccessIsClean, HeldIsShown, FailureExplained, Success, InvalidArguments,
       FileNotFound, InternalCompilerError
  <2>6. QED
    BY <1>3, <2>4, <2>5 DEF StoryInv
<1>6. CASE Catch
  <2>1. HasErrors(engine') /\ "D9999" \in StoredCodes(engine')
    BY <1>6, CaughtShown DEF IInv
  <2>2. StoredCodes(engine') \subseteq shown' /\ exit_code' = InternalCompilerError
    BY <1>6 DEF Catch, Report
  <2>3. FilesInv'
    BY <1>1, <2>1 DEF FilesInv, Beginning
  <2>4. SuccessIsClean' /\ HeldIsShown' /\ FailureExplained'
    BY <2>1, <2>2 DEF SuccessIsClean, HeldIsShown, FailureExplained, Success, FileNotFound,
       InternalCompilerError
  <2>5. QED
    BY <1>3, <2>3, <2>4 DEF StoryInv
<1>7. CASE ReportAndExit
  <2>1. /\ pc = "report" /\ UNCHANGED <<engine, exit_code, printed, handed>>
        /\ HasErrors(engine) => shown' = shown \union StoredCodes(engine)
    BY <1>7 DEF ReportAndExit, Report
  <2>2. HasErrors(engine) <=> StoredCodes(engine) # {}
    BY <1>4, HeldCodes
  <2>3. StoredCodes(engine') \subseteq shown'
    BY <2>1, <2>2
  <2>4. FilesInv'
    BY <1>1, <1>2, <1>4, <2>1 DEF FilesInv, Beginning
  <2>5. SuccessIsClean'
    <3>1. Clean => Clean'
      BY <1>1, <1>2, <2>1 DEF Clean
    <3>2. exit_code' = Success => Clean'
      BY <1>4, <2>1, <3>1 DEF ReportInv
    <3>3. QED
      BY <3>2 DEF SuccessIsClean, Clean
  <2>6. FailureExplained'
    <3>1. exit_code' # Success => shown' # {} \/ printed' \/ SomeMute'
      BY <1>2, <1>4, <2>1, <2>2 DEF ReportInv
    <3>2. exit_code' = FileNotFound =>
            \/ shown' \intersect SourceCodes # {}
            \/ engine'.truncated
            \/ LimitReached(engine'.policy.error_limit, engine'.error_count)
      BY <1>4, <2>1 DEF ReportInv, LoadErrorHeld
    <3>3. exit_code' # InternalCompilerError
      BY <1>4, <2>1 DEF ReportInv
    <3>4. QED
      BY <3>1, <3>2, <3>3 DEF FailureExplained, SomeMute
  <2>7. HeldIsShown'
    BY <2>3 DEF HeldIsShown
  <2>8. QED
    BY <1>3, <2>4, <2>5, <2>6, <2>7 DEF StoryInv
<1>8. QED
  BY <1>5, <1>6, <1>7

(* Nothing changes when nothing happens. *)
LEMMA StoryStays == ASSUME IInv, UNCHANGED vars PROVE StoryInv'
<1>1. /\ UNCHANGED <<pc, options, engine, content, pending, had_lexical_errors, exit_code,
                     shown, printed, handed>>
  BY DEF vars
<1>2. /\ FilesRead' = FilesRead /\ Command' = Command /\ (ReadsFiles' <=> ReadsFiles)
      /\ SomeMute' <=> SomeMute
  BY <1>1, OptionsRead, MuteStays
<1>3. StoryInv
  BY DEF IInv
<1>4. FilesInv' /\ HandedInv'
  BY <1>1, <1>2, <1>3 DEF StoryInv, FilesInv, HandedInv
<1>5. ReportInv'
  BY <1>1, <1>2, <1>3 DEF StoryInv, ReportInv, Clean, LoadErrorHeld
<1>6. SuccessIsClean' /\ HeldIsShown' /\ FailureExplained'
  BY <1>1, <1>2, <1>3 DEF StoryInv, SuccessIsClean, HeldIsShown, FailureExplained, Done
<1>7. QED
  BY <1>4, <1>5, <1>6 DEF StoryInv

(* Every step keeps the story of the files and the reports. *)
LEMMA StoryStep == IInv /\ [Next]_vars => StoryInv'
  BY NextCases, BeginningStep, CommandStep, LoadStep, LoadFailsStep, LexStep, FilesDoneStep,
     EndStep, StoryStays

-----------------------------------------------------------------------------
(* Reading a command line, one argument more at a time. *)

(* A set of naturals has a least element. *)
LEMMA LeastExists ==
  ASSUME NEW S \in SUBSET Nat, S # {}
  PROVE  \E x \in S : \A y \in S : x <= y
<1>1. IsWellFoundedOn(OpToRel(<, Nat), Nat)
  BY NatLessThanWellFounded
<1>2. PICK x \in S : \A y \in S : ~ (<<y, x>> \in OpToRel(<, Nat))
  BY <1>1, WFMin, Zenon
<1>3. \A y \in S : ~ (y < x)
  BY <1>2 DEF OpToRel
<1>4. QED
  BY <1>3

(* A set of numbers up to n has a greatest element. *)
LEMMA GreatestExists ==
  ASSUME NEW n \in Nat, NEW S \in SUBSET (1..n), S # {}
  PROVE  \E x \in S : \A y \in S : y <= x
<1> DEFINE D == {n - i : i \in S}
<1>1. D \in SUBSET Nat /\ D # {}
  <2>1. \A i \in S : i \in 1..n
    OBVIOUS
  <2>2. \A i \in S : n - i \in Nat
    BY <2>1
  <2>3. QED
    BY <2>2
<1>2. PICK d \in D : \A e \in D : d <= e
  BY <1>1, LeastExists
<1>3. PICK x \in S : d = n - x
  BY <1>2
<1>4. \A y \in S : n - x <= n - y
  BY <1>2, <1>3
<1>5. QED
  BY <1>4

(* Whether an argument is a value depends on those before it only. *)
LEMMA ValuesAgree ==
  ASSUME NEW s, NEW t, NEW n \in Nat, \A i \in 1..n : t[i] = s[i], NEW i \in 1..n + 1
  PROVE  IsValue(t, i) <=> IsValue(s, i)
<1>1. \A j \in 1..i - 1 : \A k \in j..i - 1 : t[k] = s[k]
  OBVIOUS
<1>2. Run(t, i) = Run(s, i)
  BY <1>1 DEF Run
<1>3. QED
  BY <1>2 DEF IsValue

(* The first argument is no value, and one is a value exactly behind a     *)
(* setting that takes it and is none itself.                               *)
LEMMA NextValue ==
  ASSUME NEW s
  PROVE  /\ ~IsValue(s, 1)
         /\ \A i \in Nat \ {0} :
              IsValue(s, i + 1) <=> s[i].form = "taking next" /\ ~IsValue(s, i)
<1>1. ~IsValue(s, 1)
  <2>1. Run(s, 1) = {}
    BY DEF Run
  <2>2. QED
    BY <2>1, FS_EmptySet DEF IsValue
<1>2. ASSUME NEW i \in Nat \ {0}
      PROVE  IsValue(s, i + 1) <=> s[i].form = "taking next" /\ ~IsValue(s, i)
  <2>0. \A j : j \in Run(s, i + 1) <=> j \in 1..i /\ \A k \in j..i : s[k].form = "taking next"
    <3> DEFINE m == i + 1
    <3>1. m - 1 = i
      OBVIOUS
    <3> HIDE DEF m
    <3>2. Run(s, m) = {j \in 1..i : \A k \in j..i : s[k].form = "taking next"}
      BY <3>1 DEF Run
    <3>3. QED
      BY <3>2 DEF m
  <2>1. CASE s[i].form # "taking next"
    <3>1. \A j \in 1..i : i \in j..i
      OBVIOUS
    <3>3. Run(s, i + 1) = {}
      BY <2>0, <2>1, <3>1
    <3>4. ~IsValue(s, i + 1)
      BY <3>3, FS_EmptySet DEF IsValue
    <3>5. QED
      BY <2>1, <3>4
  <2>2. CASE s[i].form = "taking next"
    <3>1. \A j : j \in Run(s, i + 1) <=> j \in Run(s, i) \union {i}
      <4>1. \A j, k : j \in 1..i /\ k \in j..i <=> j \in 1..i /\ (k \in j..i - 1 \/ k = i)
        OBVIOUS
      <4>2. \A j : j \in 1..i <=> j \in 1..i - 1 \/ j = i
        OBVIOUS
      <4>4. \A j : j \in Run(s, i) <=>
              j \in 1..i - 1 /\ \A k \in j..i - 1 : s[k].form = "taking next"
        BY DEF Run
      <4>5. \A k : k \notin i..i - 1
        OBVIOUS
      <4>6. QED
        BY <2>0, <2>2, <4>1, <4>2, <4>4, <4>5
    <3>2. IsFiniteSet(Run(s, i)) /\ i \notin Run(s, i)
      <4>1. IsFiniteSet(1..i - 1)
        BY FS_Interval
      <4>2. Run(s, i) \subseteq 1..i - 1
        BY DEF Run
      <4>3. i \notin 1..i - 1
        OBVIOUS
      <4>4. QED
        BY <4>1, <4>2, <4>3, FS_Subset
    <3>3. Run(s, i + 1) = Run(s, i) \union {i}
      BY <3>1
    <3>4. Cardinality(Run(s, i)) \in Nat
          /\ Cardinality(Run(s, i + 1)) = Cardinality(Run(s, i)) + 1
      BY <3>2, <3>3, FS_AddElement, FS_CardinalityType
    <3>5. \A c \in Nat : (c + 1) % 2 = 1 <=> c % 2 # 1
      OBVIOUS
    <3>6. QED
      BY <2>2, <3>4, <3>5 DEF IsValue
  <2>3. QED
    BY <2>1, <2>2
<1>3. QED
  BY <1>1, <1>2

-----------------------------------------------------------------------------
(* The arguments of a form, in their order. *)

Rank(P, i) == Cardinality({j \in P : j < i})
Nth(P, k) == CHOOSE i \in P : Rank(P, i) = k - 1

(* A set of numbers up to n has one of every rank. *)
LEMMA NthIs ==
  ASSUME NEW n \in Nat, NEW P \in SUBSET (1..n), NEW k \in 1..Cardinality(P)
  PROVE  Nth(P, k) \in P /\ Rank(P, Nth(P, k)) = k - 1
<1> DEFINE Upto(m) == P \intersect 1..m
           S == {m \in Nat : Cardinality(Upto(m)) >= k}
<1>1. \A m \in Nat : IsFiniteSet(Upto(m)) /\ Cardinality(Upto(m)) \in Nat
  <2> TAKE m \in Nat
  <2>1. IsFiniteSet(1..m) /\ Upto(m) \subseteq 1..m
    BY FS_Interval
  <2> HIDE DEF Upto
  <2>2. IsFiniteSet(Upto(m))
    BY <2>1, FS_Subset
  <2>3. QED
    BY <2>2, FS_CardinalityType
<1>2. Upto(n) = P /\ Upto(0) = {}
  <2>1. P \subseteq 1..n /\ 1..0 = {}
    OBVIOUS
  <2>2. QED
    BY <2>1
<1>3. k \in Nat /\ k > 0 /\ k <= Cardinality(P)
  <2>1. Cardinality(P) \in Nat
    BY <1>1, <1>2
  <2>2. QED
    BY <2>1
<1>4. n \in S /\ 0 \notin S
  BY <1>1, <1>2, <1>3, FS_EmptySet
<1>5. PICK m \in S : \A l \in S : m <= l
  <2>1. S \in SUBSET Nat /\ S # {}
    BY <1>4
  <2> HIDE DEF S
  <2>2. QED
    BY <2>1, LeastExists
<1>6. m \in Nat /\ m # 0 /\ m - 1 \in Nat /\ Cardinality(Upto(m)) >= k
  BY <1>4, <1>5
<1>7. Cardinality(Upto(m - 1)) < k
  <2>1. m - 1 \notin S
    BY <1>5, <1>6
  <2>2. QED
    BY <1>1, <1>3, <1>6, <2>1
<1>8. m \in P /\ Upto(m) = Upto(m - 1) \union {m} /\ m \notin Upto(m - 1)
  <2>1. CASE m \notin P
    <3>1. Upto(m) = Upto(m - 1)
      BY <1>6, <2>1
    <3>2. FALSE
      <4> HIDE DEF Upto, S
      <4>1. QED
        BY <1>1, <1>3, <1>6, <1>7, <3>1
    <3>3. QED
      BY <3>2
  <2>2. CASE m \in P
    BY <1>6, <2>2
  <2>3. QED
    BY <2>1, <2>2
<1>9. Cardinality(Upto(m)) = Cardinality(Upto(m - 1)) + 1
  <2> HIDE DEF Upto
  <2>1. QED
    BY <1>1, <1>6, <1>8, FS_AddElement
<1>10. Cardinality(Upto(m - 1)) = k - 1
  BY <1>1, <1>3, <1>6, <1>7, <1>9
<1>11. {j \in P : j < m} = Upto(m - 1)
  <2>1. \A j \in P : j \in 1..n
    OBVIOUS
  <2>2. \A j \in 1..n : j < m <=> j \in 1..m - 1
    BY <1>6
  <2>3. QED
    BY <2>1, <2>2
<1>12. m \in P /\ Rank(P, m) = k - 1
  BY <1>8, <1>10, <1>11 DEF Rank
<1>13. QED
  BY <1>12, Zenon DEF Nth

(* Only one has it. *)
LEMMA RanksDiffer ==
  ASSUME NEW n \in Nat, NEW P \in SUBSET (1..n), NEW i \in P, NEW j \in P,
         Rank(P, i) = Rank(P, j)
  PROVE  i = j
<1>1. ASSUME NEW x \in P, NEW y \in P, x < y PROVE Rank(P, x) # Rank(P, y)
  <2> DEFINE X == {l \in P : l < x}
             Y == {l \in P : l < y}
  <2>1. X \subseteq Y /\ x \in Y /\ x \notin X
    <3>1. \A l \in P : l \in Int
      OBVIOUS
    <3>2. \A l \in P : l < x => l < y
      BY <1>1, <3>1
    <3>3. ~(x < x)
      BY <3>1
    <3>4. QED
      BY <1>1, <3>2, <3>3
  <2>2. IsFiniteSet(Y)
    <3>1. IsFiniteSet(1..n)
      BY FS_Interval
    <3>2. Y \subseteq 1..n
      OBVIOUS
    <3> HIDE DEF Y
    <3>3. QED
      BY <3>1, <3>2, FS_Subset
  <2> HIDE DEF X, Y
  <2>3. Cardinality(Y) # Cardinality(X)
    BY <2>1, <2>2, FS_Subset
  <2>4. QED
    BY <2>3 DEF Rank, X, Y
<1>2. i \in Int /\ j \in Int
  OBVIOUS
<1>3. QED
  BY <1>1, <1>2

(* A number behind them all is the last. *)
LEMMA NthStays ==
  ASSUME NEW n \in Nat, NEW P \in SUBSET (1..n)
  PROVE  LET Q == P \union {n + 1}
         IN  /\ Cardinality(P) \in Nat /\ Cardinality(Q) = Cardinality(P) + 1
             /\ \A k \in 1..Cardinality(P) : Nth(P, k) \in P /\ Nth(Q, k) = Nth(P, k)
             /\ Nth(Q, Cardinality(P) + 1) = n + 1
<1> DEFINE Q == P \union {n + 1}
<1>1. Cardinality(P) \in Nat /\ Cardinality(Q) = Cardinality(P) + 1
  <2>1. IsFiniteSet(P)
    <3>1. IsFiniteSet(1..n)
      BY FS_Interval
    <3>2. QED
      BY <3>1, FS_Subset
  <2>2. n + 1 \notin P
    OBVIOUS
  <2>3. QED
    BY <2>1, <2>2, FS_AddElement, FS_CardinalityType
<1>2. \A i \in P : Rank(Q, i) = Rank(P, i)
  <2> TAKE i \in P
  <2>1. {j \in Q : j < i} = {j \in P : j < i}
    OBVIOUS
  <2>2. QED
    BY <2>1 DEF Rank
<1>3. Rank(Q, n + 1) = Cardinality(P)
  <2>1. {j \in Q : j < n + 1} = P
    <3>1. \A j \in P : j \in 1..n
      OBVIOUS
    <3>2. ~(n + 1 < n + 1) /\ \A j \in 1..n : j < n + 1
      OBVIOUS
    <3>3. QED
      BY <3>1, <3>2
  <2>2. QED
    BY <2>1 DEF Rank
<1>4. Q \in SUBSET (1..n + 1) /\ n + 1 \in Nat /\ n + 1 \in Q /\ P \subseteq Q
  OBVIOUS
<1> HIDE DEF Q
<1>5. ASSUME NEW k \in 1..Cardinality(P) PROVE Nth(P, k) \in P /\ Nth(Q, k) = Nth(P, k)
  <2>1. k \in 1..Cardinality(Q)
    BY <1>1
  <2>2. Nth(P, k) \in P /\ Rank(P, Nth(P, k)) = k - 1
    BY NthIs
  <2>3. Nth(Q, k) \in Q /\ Rank(Q, Nth(Q, k)) = k - 1
    BY <1>4, <2>1, NthIs
  <2>4. Rank(Q, Nth(P, k)) = Rank(Q, Nth(Q, k)) /\ Nth(P, k) \in Q
    BY <1>2, <1>4, <2>2, <2>3
  <2>5. QED
    BY <1>4, <2>2, <2>3, <2>4, RanksDiffer
<1>6. Nth(Q, Cardinality(P) + 1) = n + 1
  <2> DEFINE k == Cardinality(P) + 1
  <2>1. k \in 1..Cardinality(Q) /\ k - 1 = Cardinality(P)
    BY <1>1
  <2> HIDE DEF k
  <2>2. Nth(Q, k) \in Q /\ Rank(Q, Nth(Q, k)) = Rank(Q, n + 1)
    BY <1>3, <1>4, <2>1, NthIs
  <2>3. QED
    BY <1>4, <2>2, RanksDiffer DEF k
<1>7. QED
  BY <1>1, <1>5, <1>6 DEF Q

Plain(s, form) == {i \in DOMAIN s : s[i].form = form /\ ~IsValue(s, i)}

(* The positions that count when one argument more is read. *)
LEMMA PlainGrows ==
  ASSUME NEW s \in Seq(Argument(Texts)), NEW a, NEW form
  PROVE  LET t == Append(s, a)
             n == Len(s)
         IN  /\ n \in Nat /\ DOMAIN s = 1..n /\ DOMAIN t = 1..n + 1 /\ Len(t) = n + 1
             /\ t[n + 1] = a /\ \A i \in 1..n : t[i] = s[i]
             /\ \A i \in 1..n : IsValue(t, i) <=> IsValue(s, i)
             /\ Plain(s, form) \in SUBSET (1..n)
             /\ Plain(t, form) = IF a.form = form /\ ~IsValue(t, n + 1)
                                   THEN Plain(s, form) \union {n + 1} ELSE Plain(s, form)
<1> DEFINE t == Append(s, a)
           n == Len(s)
<1>1. /\ n \in Nat /\ DOMAIN s = 1..n /\ DOMAIN t = 1..n + 1 /\ Len(t) = n + 1
      /\ t[n + 1] = a /\ \A i \in 1..n : t[i] = s[i]
  OBVIOUS
<1> HIDE DEF t, n
<1>2. \A i \in 1..n : IsValue(t, i) <=> IsValue(s, i)
  <2>1. \A i \in 1..n : i \in 1..n + 1
    BY <1>1
  <2>2. QED
    BY <1>1, <2>1, ValuesAgree
<1>3. Plain(s, form) \in SUBSET (1..n)
  BY <1>1 DEF Plain
<1>4. \A i : i \in Plain(t, form) <=>
        \/ i \in Plain(s, form)
        \/ i = n + 1 /\ a.form = form /\ ~IsValue(t, n + 1)
  <2>1. \A i : i \in 1..n + 1 <=> i \in 1..n \/ i = n + 1
    BY <1>1
  <2>2. n + 1 \notin 1..n
    BY <1>1
  <2>3. QED
    BY <1>1, <1>2, <2>1, <2>2 DEF Plain
<1>5. Plain(t, form) = IF a.form = form /\ ~IsValue(t, n + 1)
                         THEN Plain(s, form) \union {n + 1} ELSE Plain(s, form)
  BY <1>4
<1>6. QED
  BY <1>1, <1>2, <1>3, <1>5 DEF t, n

(* What is written in a form are texts, and one more or none at a time. *)
LEMMA WrittenGrows ==
  ASSUME NEW s \in Seq(Argument(Texts)), NEW a \in Argument(Texts), NEW form
  PROVE  LET t == Append(s, a)
         IN  /\ Written(s, form) \in Seq(Texts)
             /\ Written(t, form) = IF a.form = form /\ ~IsValue(t, Len(s) + 1)
                                     THEN Append(Written(s, form), a.text)
                                     ELSE Written(s, form)
<1> DEFINE t == Append(s, a)
           n == Len(s)
           P == Plain(s, form)
           Q == Plain(t, form)
           m == Cardinality(P)
<1>1. /\ n \in Nat /\ DOMAIN s = 1..n
      /\ t[n + 1] = a /\ \A i \in 1..n : t[i] = s[i]
      /\ P \in SUBSET (1..n)
      /\ Q = IF a.form = form /\ ~IsValue(t, n + 1) THEN P \union {n + 1} ELSE P
  BY PlainGrows
<1>2. Written(s, form) = [k \in 1..m |-> s[Nth(P, k)].text]
  BY DEF Written, Plain, Nth, Rank
<1>3. Written(t, form) = [k \in 1..Cardinality(Q) |-> t[Nth(Q, k)].text]
  BY DEF Written, Plain, Nth, Rank
<1>4. m \in Nat /\ \A k \in 1..m : Nth(P, k) \in 1..n
  <2> HIDE DEF P, n
  <2>1. m \in Nat /\ \A k \in 1..m : Nth(P, k) \in P
    BY <1>1, NthStays
  <2>2. QED
    BY <1>1, <2>1
<1>5. \A i \in 1..n : s[i].text \in Texts
  <2>1. \A i \in 1..n : s[i] \in Argument(Texts)
    OBVIOUS
  <2>2. QED
    BY <2>1, ArgumentType
<1>6. a.text \in Texts
  BY ArgumentType
<1> HIDE DEF t, n, P, Q
<1>7. Written(s, form) \in Seq(Texts) /\ Len(Written(s, form)) = m
  <2> DEFINE w == [k \in 1..m |-> s[Nth(P, k)].text]
  <2>1. \A k \in 1..m : s[Nth(P, k)].text \in Texts
    BY <1>4, <1>5
  <2>2. w \in [1..m -> Texts]
    BY <2>1
  <2> HIDE DEF m
  <2>3. w \in Seq(Texts) /\ Len(w) = m
    BY <1>4, <2>2
  <2>4. QED
    BY <1>2, <2>3
<1>8. CASE Q = P
  <2>1. \A k \in 1..m : t[Nth(P, k)].text = s[Nth(P, k)].text
    BY <1>1, <1>4
  <2>2. Written(t, form) = Written(s, form)
    BY <1>2, <1>3, <1>8, <2>1
  <2>3. ~(a.form = form /\ ~IsValue(t, n + 1))
    <3>1. n + 1 \notin P
      BY <1>1
    <3>2. QED
      BY <1>1, <1>8, <3>1
  <2>4. QED
    BY <1>7, <2>2, <2>3 DEF t, n
<1>9. CASE a.form = form /\ ~IsValue(t, n + 1)
  <2>1. Q = P \union {n + 1}
    BY <1>1, <1>9
  <2>2. /\ Cardinality(Q) = m + 1
        /\ \A k \in 1..m : Nth(Q, k) = Nth(P, k)
        /\ Nth(Q, m + 1) = n + 1
    <3> DEFINE R == P \union {n + 1}
    <3>1. /\ Cardinality(R) = m + 1
          /\ \A k \in 1..m : Nth(R, k) = Nth(P, k)
          /\ Nth(R, m + 1) = n + 1
      BY <1>1, NthStays
    <3> HIDE DEF R
    <3>2. Q = R
      BY <2>1 DEF R
    <3>3. QED
      BY <3>1, <3>2
  <2>3. \A k \in 1..m + 1 :
          t[Nth(Q, k)].text = IF k = m + 1 THEN a.text ELSE Written(s, form)[k]
    <3> HIDE DEF m
    <3>1. \A k \in 1..m : t[Nth(Q, k)].text = Written(s, form)[k]
      BY <1>1, <1>2, <1>4, <2>2
    <3>2. \A k \in 1..m + 1 : k = m + 1 \/ k \in 1..m
      BY <1>4
    <3>3. m + 1 \notin 1..m
      BY <1>4
    <3>4. QED
      BY <1>1, <2>2, <3>1, <3>2, <3>3
  <2> HIDE DEF m
  <2>4. Written(t, form) = [k \in 1..m + 1 |-> IF k = m + 1 THEN a.text ELSE Written(s, form)[k]]
    BY <1>3, <2>2, <2>3
  <2>5. Append(Written(s, form), a.text)
          = [k \in 1..m + 1 |-> IF k = m + 1 THEN a.text ELSE Written(s, form)[k]]
    <3> DEFINE w == Written(s, form)
               x == a.text
    <3>1. w \in Seq(Texts) /\ Len(w) = m
      BY <1>7
    <3> HIDE DEF w, x
    <3>2. x \in Texts
      BY <1>6 DEF x
    <3>3. /\ Append(w, x) \in Seq(Texts) /\ Len(Append(w, x)) = m + 1
          /\ Append(w, x)[m + 1] = x /\ \A k \in 1..m : Append(w, x)[k] = w[k]
      BY <1>4, <3>1, <3>2
    <3>4. /\ \A k \in 1..m + 1 : k = m + 1 \/ k \in 1..m
          /\ m + 1 \notin 1..m
      BY <1>4
    <3> DEFINE v == Append(w, x)
    <3> HIDE DEF v
    <3>5. v = [k \in 1..m + 1 |-> v[k]]
      <4>1. v \in Seq(Texts) /\ Len(v) = m + 1
        BY <3>3 DEF v
      <4>2. v \in [1..Len(v) -> Texts]
        BY <4>1
      <4>3. v \in [1..m + 1 -> Texts]
        BY <4>1, <4>2
      <4>4. QED
        BY <4>3
    <3>6. \A k \in 1..m + 1 : v[k] = IF k = m + 1 THEN x ELSE w[k]
      BY <3>3, <3>4 DEF v
    <3>7. QED
      BY <3>5, <3>6 DEF v, w, x
  <2>6. QED
    BY <1>7, <1>9, <2>4, <2>5 DEF t, n
<1>10. QED
  BY <1>1, <1>8, <1>9

-----------------------------------------------------------------------------
(* What Says asks of the options, in parts. *)

SaysSwitches(s, o) ==
  \A switch \in Switches :
    o[switch] <=> \E i \in DOMAIN s :
                    ~IsValue(s, i) /\ s[i].form = "switch" /\ s[i].name = switch
SaysSettings(s, o) == \A setting \in Settings : o[setting] = LastGiven(s, setting)

Entries(s) == {i \in DOMAIN s : s[i].form = "entry" /\ ~IsValue(s, i)}
EntryAt(s, name) ==
  CHOOSE i \in DOMAIN s :
    /\ s[i].form = "entry" /\ s[i].name = name /\ ~IsValue(s, i)
    /\ \A j \in 1..i - 1 : s[j].form = "entry" /\ s[j].name = name => IsValue(s, j)
SaysEntries(s, o) ==
  o.options = [name \in {s[i].name : i \in Entries(s)} |-> s[EntryAt(s, name)].text]

NonEmpty(words) == {k \in DOMAIN words : words[k] # ""}
LeastIn(K) == CHOOSE k \in K : \A j \in K : k <= j
First(words) == LeastIn(NonEmpty(words))
SaysWords(words, o) ==
  IF NonEmpty(words) = {} THEN o.command = "" /\ o.positional_args = <<>>
  ELSE /\ o.command = words[First(words)]
       /\ o.positional_args = SubSeq(words, First(words) + 1, Len(words))

(* Says is all of them. *)
LEMMA SaysParts ==
  \A s, o : Says(s, o) <=> /\ SaysSwitches(s, o) /\ SaysSettings(s, o)
                           /\ o.source_files = Written(s, "source file")
                           /\ o.unknown_flags = Written(s, "unknown flag")
                           /\ SaysEntries(s, o) /\ SaysWords(Written(s, "word"), o)
  BY Zenon DEF Says, SaysSwitches, SaysSettings, Entries, EntryAt, SaysEntries, NonEmpty, First,
               LeastIn, SaysWords

(* Switches: one more, or none. *)
LEMMA SwitchesGrow ==
  ASSUME NEW s \in Seq(Argument(Texts)), NEW a, NEW o, NEW r, SaysSwitches(s, o),
         \A switch \in Switches :
           r[switch] <=> \/ o[switch]
                         \/ /\ ~IsValue(Append(s, a), Len(s) + 1)
                            /\ a.form = "switch" /\ a.name = switch
  PROVE  SaysSwitches(Append(s, a), r)
<1> DEFINE t == Append(s, a)
           n == Len(s)
<1>1. /\ n \in Nat /\ DOMAIN s = 1..n /\ DOMAIN t = 1..n + 1
      /\ t[n + 1] = a /\ \A i \in 1..n : t[i] = s[i]
      /\ \A i \in 1..n : IsValue(t, i) <=> IsValue(s, i)
  BY PlainGrows
<1>2. \A switch \in Switches :
        r[switch] <=> \/ o[switch]
                      \/ ~IsValue(t, n + 1) /\ a.form = "switch" /\ a.name = switch
  OBVIOUS
<1> HIDE DEF t, n
<1>3. \A i : i \in 1..n + 1 <=> i \in 1..n \/ i = n + 1
  BY <1>1
<1>4. SaysSwitches(t, r)
  BY <1>1, <1>2, <1>3 DEF SaysSwitches
<1>5. QED
  BY <1>4 DEF t

(* The last of some positions, where a setting is given. *)
LastOf(at) == CHOOSE i \in at : \A j \in at : j <= i

(* A set of positions that is not empty has a last one, and only one. *)
LEMMA LastOfIs ==
  ASSUME NEW n \in Nat, NEW at \in SUBSET (1..n), at # {}
  PROVE  /\ LastOf(at) \in at /\ \A j \in at : j <= LastOf(at)
         /\ \A i \in at : (\A j \in at : j <= i) => LastOf(at) = i
<1>1. \E i \in at : \A j \in at : j <= i
  BY GreatestExists
<1>2. LastOf(at) \in at /\ \A j \in at : j <= LastOf(at)
  BY <1>1, Zenon DEF LastOf
<1>3. \A i \in at : i \in Int
  OBVIOUS
<1>4. ASSUME NEW i \in at, \A j \in at : j <= i PROVE LastOf(at) = i
  <2>1. LastOf(at) <= i /\ i <= LastOf(at)
    BY <1>2, <1>4
  <2>2. LastOf(at) \in Int /\ i \in Int
    BY <1>2, <1>3
  <2>3. QED
    BY <2>1, <2>2
<1>5. QED
  BY <1>2, <1>4

(* What is given at position i. *)
GivenText(s, i) == IF s[i].form = "setting" THEN s[i].text ELSE TextOf(s[i + 1])

(* LastGiven, in these terms. *)
LEMMA LastGivenIs ==
  \A s, setting :
    LastGiven(s, setting) = IF Givings(s, setting) = {} THEN NotGiven
                            ELSE GivenText(s, LastOf(Givings(s, setting)))
  BY Zenon DEF LastGiven, GivenText, LastOf

(* The positions that give a setting when one argument more is read: it     *)
(* is one if it says so, and if it is a value the one before is one.        *)
LEMMA GivingsGrow ==
  ASSUME NEW s \in Seq(Argument(Texts)), NEW a, NEW setting
  PROVE  LET t == Append(s, a)
             n == Len(s)
         IN  /\ Givings(s, setting) \in SUBSET (1..n)
             /\ \A i \in Givings(s, setting) : s[i].form = "setting" \/ i + 1 \in 1..n
             /\ \A i : i \in Givings(t, setting) <=>
                  \/ i \in Givings(s, setting)
                  \/ /\ i = n + 1 /\ ~IsValue(t, n + 1)
                     /\ a.form = "setting" /\ a.name = setting
                  \/ i = n /\ n # 0 /\ IsValue(t, n + 1) /\ s[n].name = setting
             /\ IsValue(t, n + 1) => /\ n # 0 /\ n \notin Givings(s, setting)
                                     /\ s[n].form = "taking next"
<1> DEFINE t == Append(s, a)
           n == Len(s)
<1>1. /\ n \in Nat /\ DOMAIN s = 1..n /\ DOMAIN t = 1..n + 1 /\ Len(t) = n + 1
      /\ t[n + 1] = a /\ \A i \in 1..n : t[i] = s[i]
      /\ \A i \in 1..n : IsValue(t, i) <=> IsValue(s, i)
  BY PlainGrows
<1>2. Len(s) = n
  OBVIOUS
<1> HIDE DEF t, n
<1>3. /\ ~IsValue(t, 1)
      /\ n # 0 => (IsValue(t, n + 1) <=> s[n].form = "taking next" /\ ~IsValue(s, n))
  <2>1. ASSUME n # 0 PROVE IsValue(t, n + 1) <=> s[n].form = "taking next" /\ ~IsValue(s, n)
    <3>1. n \in Nat \ {0} /\ n \in 1..n
      BY <1>1, <2>1
    <3>2. IsValue(t, n + 1) <=> t[n].form = "taking next" /\ ~IsValue(t, n)
      BY <3>1, NextValue
    <3>3. QED
      BY <1>1, <3>1, <3>2
  <2>2. QED
    BY <2>1, NextValue
<1>4. \A i : i \in Givings(s, setting) <=>
        /\ i \in 1..n /\ ~IsValue(s, i) /\ s[i].name = setting
        /\ \/ s[i].form = "setting"
           \/ s[i].form = "taking next" /\ i < n
  BY <1>1, <1>2 DEF Givings
<1>5. \A i : i \in Givings(t, setting) <=>
        /\ i \in 1..n + 1 /\ ~IsValue(t, i) /\ t[i].name = setting
        /\ \/ t[i].form = "setting"
           \/ t[i].form = "taking next" /\ i < n + 1
  BY <1>1 DEF Givings
<1>6. IsValue(t, n + 1) => /\ n # 0 /\ n \notin Givings(s, setting)
                           /\ s[n].form = "taking next"
  <2>1. n = 0 => n + 1 = 1
    OBVIOUS
  <2>2. ~(n < n)
    BY <1>1
  <2>3. QED
    BY <1>3, <1>4, <2>1, <2>2
<1>7. \A i \in Givings(s, setting) : s[i].form = "setting" \/ i + 1 \in 1..n
  <2>1. \A i \in 1..n : i < n => i + 1 \in 1..n
    BY <1>1
  <2>2. QED
    BY <1>4, <2>1
<1>8. ASSUME NEW i
      PROVE  i \in Givings(t, setting) <=>
               \/ i \in Givings(s, setting)
               \/ /\ i = n + 1 /\ ~IsValue(t, n + 1)
                  /\ a.form = "setting" /\ a.name = setting
               \/ i = n /\ n # 0 /\ IsValue(t, n + 1) /\ s[n].name = setting
  <2>1. /\ i \in 1..n + 1 <=> i \in 1..n \/ i = n + 1
        /\ n + 1 \notin 1..n /\ n # n + 1
        /\ n # 0 => n \in 1..n
        /\ i \in 1..n => i < n + 1 /\ (i < n \/ i = n) /\ ~(n < n)
        /\ ~(n + 1 < n + 1)
        /\ 0 \notin 1..n
    BY <1>1
  <2>2. CASE i = n + 1
    BY <1>1, <1>4, <1>5, <2>1, <2>2
  <2>3. CASE i = n /\ n # 0
    <3>1. i \in 1..n /\ i < n + 1 /\ ~(i < n)
      BY <2>1, <2>3
    <3>2. QED
      BY <1>1, <1>3, <1>4, <1>5, <2>1, <2>3, <3>1
  <2>4. CASE i \in 1..n /\ i # n
    <3>1. i < n /\ i < n + 1 /\ i # n + 1 /\ i \in 1..n + 1
      BY <2>1, <2>4
    <3>2. t[i] = s[i] /\ (IsValue(t, i) <=> IsValue(s, i))
      BY <1>1, <2>4
    <3>3. i \in Givings(t, setting) <=> i \in Givings(s, setting)
      BY <1>4, <1>5, <2>4, <3>1, <3>2
    <3>4. QED
      BY <2>4, <3>1, <3>3
  <2>5. CASE i \notin 1..n + 1
    BY <1>4, <1>5, <2>1, <2>5
  <2>6. QED
    BY <2>1, <2>2, <2>3, <2>4, <2>5
<1>9. Givings(s, setting) \in SUBSET (1..n)
  BY <1>4
<1>10. QED
  BY <1>6, <1>7, <1>8, <1>9 DEF t, n

(* The last value of a setting when one argument more is read. *)
LEMMA LastGivenGrows ==
  ASSUME NEW s \in Seq(Argument(Texts)), NEW a, NEW setting
  PROVE  LET t == Append(s, a)
             n == Len(s)
         IN  LastGiven(t, setting) =
               IF IsValue(t, n + 1)
                 THEN IF s[n].name = setting THEN TextOf(a) ELSE LastGiven(s, setting)
                 ELSE IF a.form = "setting" /\ a.name = setting THEN a.text
                      ELSE LastGiven(s, setting)
<1> DEFINE t == Append(s, a)
           n == Len(s)
           A == Givings(s, setting)
           B == Givings(t, setting)
<1>1. /\ n \in Nat /\ t[n + 1] = a /\ \A i \in 1..n : t[i] = s[i]
  BY PlainGrows
<1>2. /\ A \in SUBSET (1..n)
      /\ \A i \in A : s[i].form = "setting" \/ i + 1 \in 1..n
      /\ \A i : i \in B <=>
           \/ i \in A
           \/ /\ i = n + 1 /\ ~IsValue(t, n + 1)
              /\ a.form = "setting" /\ a.name = setting
           \/ i = n /\ n # 0 /\ IsValue(t, n + 1) /\ s[n].name = setting
      /\ IsValue(t, n + 1) => /\ n # 0 /\ n \notin A
                              /\ s[n].form = "taking next"
  BY GivingsGrow
<1>3. /\ LastGiven(s, setting) = IF A = {} THEN NotGiven ELSE GivenText(s, LastOf(A))
      /\ LastGiven(t, setting) = IF B = {} THEN NotGiven ELSE GivenText(t, LastOf(B))
  BY LastGivenIs
<1> HIDE DEF t, n, A, B
<1>4. \A i \in A : i \in 1..n /\ GivenText(t, i) = GivenText(s, i)
  BY <1>1, <1>2 DEF GivenText
<1>5. /\ n + 1 \in Nat /\ B \in SUBSET (1..n + 1)
      /\ n # 0 => n \in 1..n /\ n <= n /\ \A i \in 1..n : i <= n
  <2>1. /\ 1..n \subseteq 1..n + 1 /\ n + 1 \in 1..n + 1
        /\ n # 0 => n \in 1..n /\ n \in 1..n + 1
    BY <1>1
  <2>2. \A i \in A : i \in 1..n + 1
    BY <1>2, <2>1
  <2>3. \A i \in B : i \in A \/ i = n + 1 \/ (i = n /\ n # 0)
    BY <1>2
  <2>4. \A i \in B : i \in 1..n + 1
    BY <2>1, <2>2, <2>3
  <2>5. n <= n /\ \A i \in 1..n : i <= n
    BY <1>1
  <2>6. QED
    BY <1>1, <2>1, <2>4, <2>5
<1>6. ASSUME B = A PROVE LastGiven(t, setting) = LastGiven(s, setting)
  <2>1. A # {} => LastOf(A) \in A
    BY <1>1, <1>2, LastOfIs
  <2>2. QED
    BY <1>3, <1>4, <1>6, <2>1
<1>7. CASE IsValue(t, n + 1) /\ s[n].name = setting
  <2>1. n \in B /\ \A j \in B : j <= n
    <3>1. n # 0 /\ \A j \in B : j \in A \/ j = n
      BY <1>2, <1>7
    <3>2. \A j \in A : j <= n
      BY <1>4, <1>5, <3>1
    <3>3. QED
      BY <1>2, <1>5, <1>7, <3>1, <3>2
  <2>2. LastOf(B) = n
    BY <1>5, <2>1, LastOfIs
  <2>3. t[n].form = "taking next"
    <3>1. n \in 1..n
      BY <1>2, <1>5, <1>7
    <3>2. QED
      BY <1>1, <1>2, <1>7, <3>1
  <2>4. GivenText(t, n) = TextOf(a)
    BY <1>1, <2>3 DEF GivenText
  <2>5. QED
    BY <1>3, <1>7, <2>1, <2>2, <2>4 DEF t, n
<1>8. CASE IsValue(t, n + 1) /\ s[n].name # setting
  <2>1. B = A
    BY <1>2, <1>8
  <2>2. QED
    BY <1>6, <1>8, <2>1 DEF t, n
<1>9. CASE ~IsValue(t, n + 1) /\ a.form = "setting" /\ a.name = setting
  <2>1. n + 1 \in B /\ \A j \in B : j <= n + 1
    <3>1. \A j \in 1..n + 1 : j <= n + 1
      BY <1>1
    <3>2. QED
      BY <1>2, <1>5, <1>9, <3>1
  <2>2. LastOf(B) = n + 1
    BY <1>5, <2>1, LastOfIs
  <2>3. GivenText(t, n + 1) = a.text
    BY <1>1, <1>9 DEF GivenText
  <2>4. QED
    BY <1>3, <1>9, <2>1, <2>2, <2>3 DEF t, n
<1>10. CASE ~IsValue(t, n + 1) /\ ~(a.form = "setting" /\ a.name = setting)
  <2>1. B = A
    BY <1>2, <1>10
  <2>2. QED
    BY <1>6, <1>10, <2>1 DEF t, n
<1>11. QED
  BY <1>7, <1>8, <1>9, <1>10

(* Entries: the first of each name. *)
FirstEntry(s, name, i) ==
  /\ i \in DOMAIN s
  /\ s[i].form = "entry" /\ s[i].name = name /\ ~IsValue(s, i)
  /\ \A j \in 1..i - 1 : s[j].form = "entry" /\ s[j].name = name => IsValue(s, j)

(* The position of an entry is the first of its name. *)
LEMMA EntryAtIs ==
  ASSUME NEW S, NEW s \in Seq(S), NEW i \in Entries(s)
  PROVE  FirstEntry(s, s[i].name, EntryAt(s, s[i].name))
<1> DEFINE name == s[i].name
           E == {j \in Entries(s) : s[j].name = name}
<1>1. DOMAIN s = 1..Len(s) /\ Len(s) \in Nat
  OBVIOUS
<1>2. E \in SUBSET Nat /\ E # {} /\ E \subseteq 1..Len(s)
  BY <1>1 DEF Entries
<1> HIDE DEF name
<1>3. PICK f \in E : \A j \in E : f <= j
  <2> HIDE DEF E
  <2>1. QED
    BY <1>2, LeastExists
<1>4. f \in 1..Len(s) /\ \A j \in 1..f - 1 : j \in 1..Len(s) /\ ~(f <= j)
  <2>1. f \in 1..Len(s)
    BY <1>2, <1>3
  <2>2. QED
    BY <1>1, <2>1
<1>5. FirstEntry(s, name, f)
  BY <1>1, <1>3, <1>4 DEF FirstEntry, Entries
<1>6. \E g : FirstEntry(s, name, g)
  BY <1>5
<1>7. EntryAt(s, name) = CHOOSE g : FirstEntry(s, name, g)
  BY Zenon DEF EntryAt, FirstEntry
<1>8. QED
  BY <1>6, <1>7, Zenon DEF name

(* There is one first of a name. *)
LEMMA FirstEntryOnly ==
  ASSUME NEW S, NEW s \in Seq(S), NEW name, NEW i, NEW j,
         FirstEntry(s, name, i), FirstEntry(s, name, j)
  PROVE  i = j
<1>1. i \in 1..Len(s) /\ j \in 1..Len(s) /\ Len(s) \in Nat
  BY DEF FirstEntry
<1>2. ~(i < j)
  <2>1. i < j => i \in 1..j - 1
    BY <1>1
  <2>2. QED
    BY <2>1 DEF FirstEntry
<1>3. ~(j < i)
  <2>1. j < i => j \in 1..i - 1
    BY <1>1
  <2>2. QED
    BY <2>1 DEF FirstEntry
<1>4. QED
  BY <1>1, <1>2, <1>3

(* Of two entries of one key the first stays. *)
LEMMA EntriesGrow ==
  ASSUME NEW s \in Seq(Argument(Texts)), NEW a, NEW o, NEW r, SaysEntries(s, o),
         r.options = IF a.form = "entry" /\ ~IsValue(Append(s, a), Len(s) + 1)
                       THEN WithEntry(o.options, a.name, a.text) ELSE o.options
  PROVE  SaysEntries(Append(s, a), r)
<1> DEFINE t == Append(s, a)
           n == Len(s)
           new == a.form = "entry" /\ ~IsValue(t, n + 1)
           M == {s[i].name : i \in Entries(s)}
           N == {t[i].name : i \in Entries(t)}
<1>1. /\ n \in Nat /\ DOMAIN s = 1..n /\ DOMAIN t = 1..n + 1
      /\ t[n + 1] = a /\ \A i \in 1..n : t[i] = s[i]
      /\ \A i \in 1..n : IsValue(t, i) <=> IsValue(s, i)
      /\ Entries(s) \in SUBSET (1..n)
      /\ Entries(t) = IF new THEN Entries(s) \union {n + 1} ELSE Entries(s)
  <2>1. Plain(s, "entry") = Entries(s) /\ Plain(t, "entry") = Entries(t)
    BY DEF Plain, Entries
  <2>2. QED
    BY <2>1, PlainGrows
<1>2. r.options = IF new THEN WithEntry(o.options, a.name, a.text) ELSE o.options
  OBVIOUS
<1>3. o.options = [name \in M |-> s[EntryAt(s, name)].text]
  BY DEF SaysEntries
<1>4. s \in Seq(Argument(Texts)) /\ t \in Seq(Argument(Texts) \union {a})
  OBVIOUS
<1> HIDE DEF t, n
<1>5. \A name, i : FirstEntry(s, name, i) => FirstEntry(t, name, i) /\ i \in 1..n
  <2> TAKE name, i
  <2>1. SUFFICES ASSUME FirstEntry(s, name, i) PROVE FirstEntry(t, name, i) /\ i \in 1..n
    OBVIOUS
  <2>2. i \in 1..n /\ i \in 1..n + 1 /\ \A j \in 1..i - 1 : j \in 1..n
    BY <1>1, <2>1 DEF FirstEntry
  <2>3. QED
    BY <1>1, <2>1, <2>2 DEF FirstEntry
<1>6. \A name \in M : t[EntryAt(t, name)].text = s[EntryAt(s, name)].text
  <2> TAKE name \in M
  <2> DEFINE e == EntryAt(s, name)
             f == EntryAt(t, name)
  <2>1. PICK i \in Entries(s) : name = s[i].name
    OBVIOUS
  <2>2. FirstEntry(s, name, e)
    BY <1>4, <2>1, EntryAtIs
  <2>3. FirstEntry(t, name, e) /\ e \in 1..n
    BY <1>5, <2>2
  <2>4. i \in Entries(t) /\ t[i].name = name
    BY <1>1, <2>1
  <2>5. FirstEntry(t, name, f)
    BY <1>4, <2>4, EntryAtIs
  <2> HIDE DEF e, f
  <2>6. f = e
    BY <1>4, <2>3, <2>5, FirstEntryOnly
  <2>7. QED
    BY <1>1, <2>3, <2>6 DEF e, f
<1>7. new /\ a.name \notin M => t[EntryAt(t, a.name)].text = a.text
  <2>1. SUFFICES ASSUME new, a.name \notin M PROVE t[EntryAt(t, a.name)].text = a.text
    OBVIOUS
  <2>2. n + 1 \in Entries(t) /\ n + 1 \in 1..n + 1
    BY <1>1, <2>1
  <2>3. FirstEntry(t, a.name, EntryAt(t, a.name))
    BY <1>1, <1>4, <2>2, EntryAtIs
  <2>4. ASSUME NEW j \in 1..n, t[j].form = "entry", t[j].name = a.name PROVE IsValue(t, j)
    BY <1>1, <2>1, <2>4 DEF Entries
  <2>5. (n + 1) - 1 = n
    BY <1>1
  <2>6. FirstEntry(t, a.name, n + 1)
    BY <1>1, <2>1, <2>2, <2>4, <2>5 DEF FirstEntry
  <2>7. EntryAt(t, a.name) = n + 1
    BY <1>4, <2>3, <2>6, FirstEntryOnly
  <2>8. QED
    BY <1>1, <2>7
<1>8. N = IF new THEN M \union {a.name} ELSE M
  <2>1. \A i \in Entries(s) : t[i].name = s[i].name
    BY <1>1
  <2>2. CASE new
    <3>1. Entries(t) = Entries(s) \union {n + 1} /\ t[n + 1] = a
      BY <1>1, <2>2
    <3>2. QED
      BY <2>1, <2>2, <3>1
  <2>3. CASE ~new
    <3>1. Entries(t) = Entries(s)
      BY <1>1, <2>3
    <3>2. QED
      BY <2>1, <2>3, <3>1
  <2>4. QED
    BY <2>2, <2>3
<1>9. SaysEntries(t, r) <=> r.options = [name \in N |-> t[EntryAt(t, name)].text]
  BY DEF SaysEntries
<1> HIDE DEF new, M, N
<1>10. CASE ~new
  <2>1. [name \in N |-> t[EntryAt(t, name)].text] = [name \in M |-> s[EntryAt(s, name)].text]
    BY <1>6, <1>8, <1>10
  <2>2. QED
    BY <1>2, <1>3, <1>9, <1>10, <2>1 DEF t
<1>11. CASE new
  <2> DEFINE old == o.options
             name1 == a.name
             text1 == a.text
  <2>1. DOMAIN old = M /\ \A name \in M : old[name] = s[EntryAt(s, name)].text
    BY <1>3
  <2>2. r.options = WithEntry(old, name1, text1)
    BY <1>2, <1>11
  <2> HIDE DEF old
  <2>3. WithEntry(old, name1, text1)
          = [name \in M \union {name1} |-> IF name \in M THEN old[name] ELSE text1]
    BY <2>1 DEF WithEntry
  <2>4. \A name \in N : t[EntryAt(t, name)].text = IF name \in M THEN old[name] ELSE text1
    BY <1>6, <1>7, <1>8, <1>11, <2>1
  <2>5. N = M \union {name1}
    BY <1>8, <1>11
  <2>6. QED
    BY <1>9, <2>2, <2>3, <2>4, <2>5 DEF t
<1>12. QED
  BY <1>10, <1>11

(* v is s, of length n, and x behind it, in the terms the words need. *)
OneLonger(s, n, x, v) ==
  /\ n \in Nat /\ DOMAIN s = 1..n /\ DOMAIN v = 1..n + 1 /\ Len(v) = n + 1
  /\ v[n + 1] = x /\ \A i \in 1..n : v[i] = s[i]
  /\ \A i : i \in 1..n + 1 <=> i \in 1..n \/ i = n + 1
  /\ n + 1 \notin 1..n
  /\ SubSeq(v, n + 1 + 1, n + 1) = <<>>
  /\ \A f \in 1..n : SubSeq(v, f + 1, n + 1) = Append(SubSeq(s, f + 1, n), x)

(* Append makes a sequence one longer. *)
LEMMA OneMore ==
  ASSUME NEW S, NEW s \in Seq(S), NEW x \in S
  PROVE  OneLonger(s, Len(s), x, Append(s, x))
<1> DEFINE v == Append(s, x)
           n == Len(s)
<1>1. /\ n \in Nat /\ DOMAIN s = 1..n /\ DOMAIN v = 1..n + 1 /\ Len(v) = n + 1
      /\ v[n + 1] = x /\ \A i \in 1..n : v[i] = s[i]
      /\ v \in Seq(S) /\ s \in Seq(S) /\ Len(s) = n
  OBVIOUS
<1> HIDE DEF n, v
<1>2. /\ \A i : i \in 1..n + 1 <=> i \in 1..n \/ i = n + 1
      /\ n + 1 \notin 1..n
      /\ SubSeq(v, n + 1 + 1, n + 1) = <<>>
  BY <1>1
<1>3. ASSUME NEW f \in 1..n
      PROVE  SubSeq(v, f + 1, n + 1) = Append(SubSeq(s, f + 1, n), x)
  <2> DEFINE a == SubSeq(v, f + 1, n + 1)
             b == SubSeq(s, f + 1, n)
             c == Append(b, x)
  <2>1. /\ a \in Seq(S) /\ Len(a) = n + 1 - f
        /\ \A i \in 1..n + 1 - f : a[i] = v[f + i]
    BY <1>1
  <2>2. /\ b \in Seq(S) /\ Len(b) = n - f
        /\ \A i \in 1..n - f : b[i] = s[f + i]
    BY <1>1
  <2> HIDE DEF a, b
  <2>3. n - f \in Nat
    BY <1>1
  <2>4. /\ c \in Seq(S) /\ Len(c) = n - f + 1
        /\ c[n - f + 1] = x /\ \A i \in 1..n - f : c[i] = b[i]
    BY <2>2, <2>3
  <2> HIDE DEF c
  <2>5. n + 1 - f = n - f + 1 /\ f + (n - f + 1) = n + 1
    BY <1>1
  <2>6. ASSUME NEW i \in 1..n + 1 - f PROVE a[i] = c[i]
    <3>1. CASE i = n - f + 1
      BY <1>1, <2>1, <2>4, <2>5, <3>1
    <3>2. CASE i # n - f + 1
      <4>1. i \in 1..n - f /\ f + i \in 1..n
        BY <1>1, <3>2
      <4>2. QED
        BY <1>1, <2>1, <2>2, <2>4, <4>1
    <3>3. QED
      BY <3>1, <3>2
  <2>7. a = c
    BY <2>1, <2>4, <2>5, <2>6, SeqEqual
  <2>8. QED
    BY <2>7 DEF a, b, c
<1>4. QED
  BY <1>1, <1>2, <1>3, Zenon DEF n, v, OneLonger

(* The first of some positions does not change with one behind them. *)
LEMMA LeastStays ==
  ASSUME NEW n \in Nat, NEW K \in SUBSET (1..n), NEW L, NEW more \in BOOLEAN,
         \A k : k \in L <=> \/ k \in K
                            \/ k = n + 1 /\ more
  PROVE  /\ K # {} => LeastIn(K) \in K /\ LeastIn(L) = LeastIn(K)
         /\ K = {} /\ more => LeastIn(L) = n + 1
<1>1. \A k \in L : k \in 1..n + 1
  <2>1. \A k \in K : k \in 1..n
    OBVIOUS
  <2>2. n + 1 \in 1..n + 1 /\ \A k \in 1..n : k \in 1..n + 1
    OBVIOUS
  <2>3. \A k \in L : k \in K \/ k = n + 1
    OBVIOUS
  <2>4. QED
    BY <2>1, <2>2, <2>3, Zenon
<1>2. \A k \in L : k \in Int
  BY <1>1
<1>3. ASSUME NEW k \in L, \A j \in L : k <= j PROVE LeastIn(L) = k
  <2>1. LeastIn(L) \in L /\ \A j \in L : LeastIn(L) <= j
    BY <1>3, Zenon DEF LeastIn
  <2>2. LeastIn(L) <= k /\ k <= LeastIn(L) /\ k \in Int /\ LeastIn(L) \in Int
    BY <1>2, <1>3, <2>1
  <2>3. QED
    BY <2>2
<1>4. CASE K # {}
  <2>1. K \in SUBSET Nat
    OBVIOUS
  <2>2. \E k \in K : \A j \in K : k <= j
    BY <1>4, <2>1, LeastExists
  <2>3. LeastIn(K) \in K /\ \A j \in K : LeastIn(K) <= j
    BY <2>2, Zenon DEF LeastIn
  <2>4. \A k \in 1..n : k <= n + 1
    OBVIOUS
  <2>5. LeastIn(K) \in L /\ \A j \in L : LeastIn(K) <= j
    BY <2>3, <2>4
  <2>6. QED
    BY <1>3, <1>4, <2>3, <2>5
<1>5. CASE K = {} /\ more
  <2>1. n + 1 \in L /\ n + 1 <= n + 1 /\ \A j \in L : j = n + 1
    BY <1>5
  <2>2. \A j \in L : n + 1 <= j
    BY <2>1
  <2>3. QED
    BY <1>3, <1>5, <2>1, <2>2
<1>6. QED
  BY <1>4, <1>5

(* Words: the command, or one more positional argument. *)
LEMMA WordsGrow ==
  ASSUME NEW words \in Seq(Texts), NEW x \in Texts, NEW o, NEW r, SaysWords(words, o),
         r.command = IF o.command = "" THEN x ELSE o.command,
         r.positional_args = IF o.command = "" THEN o.positional_args
                             ELSE Append(o.positional_args, x)
  PROVE  SaysWords(Append(words, x), r)
<1> DEFINE v == Append(words, x)
           n == Len(words)
           K == NonEmpty(words)
           L == NonEmpty(v)
           f == LeastIn(K)
<1>1. /\ n \in Nat /\ DOMAIN words = 1..n /\ DOMAIN v = 1..n + 1 /\ Len(v) = n + 1
      /\ v[n + 1] = x /\ \A i \in 1..n : v[i] = words[i]
      /\ \A i : i \in 1..n + 1 <=> i \in 1..n \/ i = n + 1
      /\ n + 1 \notin 1..n
      /\ SubSeq(v, n + 1 + 1, n + 1) = <<>>
      /\ \A k \in 1..n : SubSeq(v, k + 1, n + 1) = Append(SubSeq(words, k + 1, n), x)
  <2>1. OneLonger(words, n, x, v)
    BY OneMore, Zenon
  <2>2. QED
    BY <2>1, Zenon DEF OneLonger
<1>2. /\ SaysWords(v, r) <=> IF L = {} THEN r.command = "" /\ r.positional_args = <<>>
                             ELSE /\ r.command = v[LeastIn(L)]
                                  /\ r.positional_args = SubSeq(v, LeastIn(L) + 1, Len(v))
      /\ IF K = {} THEN o.command = "" /\ o.positional_args = <<>>
         ELSE /\ o.command = words[f] /\ o.positional_args = SubSeq(words, f + 1, n)
  BY Zenon DEF SaysWords, First
<1>3. /\ \A k : k \in K <=> k \in 1..n /\ words[k] # ""
      /\ \A k : k \in L <=> k \in 1..n + 1 /\ v[k] # ""
  BY <1>1, Zenon DEF NonEmpty
<1> HIDE DEF n, v, K, L
<1>4. \A k : k \in L <=> \/ k \in K
                         \/ k = n + 1 /\ x # ""
  BY <1>1, <1>3, Zenon
<1>5. /\ K # {} => f \in K /\ LeastIn(L) = f
      /\ K = {} /\ x # "" => LeastIn(L) = n + 1
  <2> DEFINE more == x # ""
  <2>1. more \in BOOLEAN /\ K \in SUBSET (1..n)
    BY <1>3, Zenon
  <2>2. \A k : k \in L <=> \/ k \in K
                           \/ k = n + 1 /\ more
    BY <1>4, Zenon
  <2> HIDE DEF more
  <2>3. /\ K # {} => LeastIn(K) \in K /\ LeastIn(L) = LeastIn(K)
        /\ K = {} /\ more => LeastIn(L) = n + 1
    <3>1. n \in Nat
      BY <1>1
    <3> HIDE DEF f
    <3>2. QED
      BY <3>1, <2>1, <2>2, LeastStays
  <2>4. QED
    BY <2>3, Zenon DEF more
<1> HIDE DEF f
<1>6. CASE K = {}
  <2>1. r.command = x /\ r.positional_args = <<>> /\ o.command = ""
    BY <1>2, <1>6
  <2>2. CASE x = ""
    <3>1. L = {}
      BY <1>4, <1>6, <2>2, Zenon
    <3>2. QED
      BY <1>2, <2>1, <2>2, <3>1, Zenon DEF v
  <2>3. CASE x # ""
    <3>1. L # {} /\ LeastIn(L) = n + 1
      BY <1>4, <1>5, <1>6, <2>3, Zenon
    <3>2. r.command = v[LeastIn(L)] /\ r.positional_args = SubSeq(v, LeastIn(L) + 1, Len(v))
      BY <1>1, <2>1, <3>1, Zenon
    <3>3. QED
      BY <1>2, <3>1, <3>2, Zenon DEF v
  <2>4. QED
    BY <2>2, <2>3, Zenon
<1>7. CASE K # {}
  <2>1. f \in 1..n /\ words[f] # "" /\ L # {} /\ LeastIn(L) = f
    BY <1>3, <1>4, <1>5, <1>7, Zenon
  <2>2. o.command = words[f] /\ o.positional_args = SubSeq(words, f + 1, n)
    BY <1>2, <1>7, Zenon
  <2>3. r.command = words[f] /\ r.positional_args = Append(SubSeq(words, f + 1, n), x)
    BY <2>1, <2>2, Zenon
  <2>4. r.command = v[LeastIn(L)] /\ r.positional_args = SubSeq(v, LeastIn(L) + 1, Len(v))
    BY <1>1, <2>1, <2>3, Zenon
  <2>5. QED
    BY <1>2, <2>1, <2>4, Zenon DEF v
<1>8. QED
  BY <1>6, <1>7, Zenon

-----------------------------------------------------------------------------
(* One argument more, in all the parts at once. *)

(* r is what o becomes with a, read on its own or as the value of setting. *)
Follows(o, a, value, setting, r) ==
  LET is(form) == a.form = form /\ ~value
  IN  /\ \A switch \in Switches : r[switch] <=> o[switch] \/ (is("switch") /\ a.name = switch)
      /\ \A given \in Settings :
           r[given] = IF value THEN IF setting = given THEN TextOf(a) ELSE o[given]
                      ELSE IF a.form = "setting" /\ a.name = given THEN a.text ELSE o[given]
      /\ r.source_files = IF is("source file") THEN Append(o.source_files, a.text)
                          ELSE o.source_files
      /\ r.unknown_flags = IF is("unknown flag") THEN Append(o.unknown_flags, a.text)
                           ELSE o.unknown_flags
      /\ r.options = IF is("entry") THEN WithEntry(o.options, a.name, a.text) ELSE o.options
      /\ r.command = IF is("word") /\ o.command = "" THEN a.text ELSE o.command
      /\ r.positional_args = IF is("word") /\ o.command # ""
                               THEN Append(o.positional_args, a.text) ELSE o.positional_args

(* Options that say what the arguments before say, and follow with the next, *)
(* say what they all say.                                                    *)
LEMMA SaysGrows ==
  ASSUME NEW s \in Seq(Argument(Texts)), NEW a \in Argument(Texts), NEW o, NEW r, Says(s, o),
         Follows(o, a, IsValue(Append(s, a), Len(s) + 1), s[Len(s)].name, r)
  PROVE  Says(Append(s, a), r)
<1> DEFINE t == Append(s, a)
           n == Len(s)
           value == IsValue(t, n + 1)
           setting == s[n].name
<1>0. Follows(o, a, value, setting, r)
  OBVIOUS
<1>1. /\ SaysSwitches(s, o) /\ SaysSettings(s, o)
      /\ o.source_files = Written(s, "source file")
      /\ o.unknown_flags = Written(s, "unknown flag")
      /\ SaysEntries(s, o) /\ SaysWords(Written(s, "word"), o)
  BY SaysParts, Zenon
<1>2. SaysSwitches(t, r)
  <2>1. \A switch \in Switches :
          r[switch] <=> o[switch] \/ (~value /\ a.form = "switch" /\ a.name = switch)
    BY <1>0, Zenon DEF Follows
  <2>2. QED
    BY <1>1, <2>1, SwitchesGrow, Zenon
<1>3. SaysSettings(t, r)
  <2> SUFFICES ASSUME NEW given \in Settings PROVE r[given] = LastGiven(t, given)
    BY Zenon DEF SaysSettings
  <2>1. o[given] = LastGiven(s, given)
    BY <1>1, Zenon DEF SaysSettings
  <2>2. r[given] = IF value THEN IF setting = given THEN TextOf(a) ELSE o[given]
                   ELSE IF a.form = "setting" /\ a.name = given THEN a.text ELSE o[given]
    BY <1>0, Zenon DEF Follows
  <2>3. LastGiven(t, given) =
          IF value THEN IF setting = given THEN TextOf(a) ELSE LastGiven(s, given)
          ELSE IF a.form = "setting" /\ a.name = given THEN a.text ELSE LastGiven(s, given)
    BY LastGivenGrows, Zenon
  <2> HIDE DEF t, n, value, setting
  <2>4. QED
    BY <2>1, <2>2, <2>3
<1>4. \A form : /\ Written(s, form) \in Seq(Texts)
                /\ Written(t, form) = IF a.form = form /\ ~value
                                        THEN Append(Written(s, form), a.text)
                                        ELSE Written(s, form)
  BY WrittenGrows, Zenon
<1>5. /\ r.source_files = Written(t, "source file")
      /\ r.unknown_flags = Written(t, "unknown flag")
  BY <1>0, <1>1, <1>4, Zenon DEF Follows
<1>6. SaysEntries(t, r)
  <2>1. r.options = IF a.form = "entry" /\ ~value THEN WithEntry(o.options, a.name, a.text)
                    ELSE o.options
    BY <1>0, Zenon DEF Follows
  <2>2. QED
    BY <1>1, <2>1, EntriesGrow, Zenon
<1>7. SaysWords(Written(t, "word"), r)
  <2> DEFINE words == Written(s, "word")
  <2>1. words \in Seq(Texts) /\ SaysWords(words, o) /\ a.text \in Texts
    BY <1>1, <1>4, ArgumentType, Zenon
  <2>2. CASE a.form = "word" /\ ~value
    <3>1. /\ r.command = IF o.command = "" THEN a.text ELSE o.command
          /\ r.positional_args = IF o.command = "" THEN o.positional_args
                                 ELSE Append(o.positional_args, a.text)
      BY <1>0, <2>2, Zenon DEF Follows
    <3>2. Written(t, "word") = Append(words, a.text)
      BY <1>4, <2>2, Zenon
    <3> HIDE DEF words, t, value, setting
    <3>3. SaysWords(Append(words, a.text), r)
      BY <2>1, <3>1, WordsGrow, Zenon
    <3>4. QED
      BY <3>2, <3>3, Zenon
  <2>3. CASE ~(a.form = "word" /\ ~value)
    <3>1. r.command = o.command /\ r.positional_args = o.positional_args
      BY <1>0, <2>3, Zenon DEF Follows
    <3>2. Written(t, "word") = words
      BY <1>4, <2>3, Zenon
    <3>3. QED
      BY <2>1, <3>1, <3>2, Zenon DEF SaysWords
  <2>4. QED
    BY <2>2, <2>3, Zenon
<1>8. QED
  BY <1>2, <1>3, <1>5, <1>6, <1>7, SaysParts, Zenon DEF t

(* The options and their kinds. *)
LEMMA OptionNames ==
  /\ Switches \subseteq DOMAIN EmptyCommandLine
  /\ Settings \subseteq DOMAIN EmptyCommandLine
  /\ SettingsTakingNext \subseteq Settings
  /\ {"command", "positional_args", "source_files", "options", "unknown_flags"}
       \subseteq DOMAIN EmptyCommandLine
  /\ \A n \in Switches : n \notin Settings
  /\ \A n \in Switches \union Settings :
       n \notin {"command", "positional_args", "source_files", "options", "unknown_flags"}
  BY DEF Switches, Settings, SettingsTakingNext, EmptyCommandLine

(* o with field n changed to v, and the rest left. *)
OneChanged(o, n, v, r) ==
  /\ r[n] = v /\ \A m \in DOMAIN EmptyCommandLine : m # n => r[m] = o[m]
  /\ r.source_files = IF n = "source_files" THEN v ELSE o.source_files
  /\ r.unknown_flags = IF n = "unknown_flags" THEN v ELSE o.unknown_flags
  /\ r.options = IF n = "options" THEN v ELSE o.options
  /\ r.command = IF n = "command" THEN v ELSE o.command
  /\ r.positional_args = IF n = "positional_args" THEN v ELSE o.positional_args

(* That is what EXCEPT does. *)
LEMMA OneField ==
  ASSUME NEW o, CliOptions(o), NEW n \in DOMAIN EmptyCommandLine, NEW v, NEW r,
         r = [o EXCEPT ![n] = v]
  PROVE  OneChanged(o, n, v, r)
<1>1. DOMAIN o = DOMAIN EmptyCommandLine
  BY Zenon DEF CliOptions
<1>2. r[n] = v /\ \A m \in DOMAIN EmptyCommandLine : m # n => r[m] = o[m]
  BY <1>1
<1>3. QED
  BY <1>2, OptionNames DEF OneChanged

(* The name of an argument fits its form. *)
LEMMA ArgumentNames ==
  ASSUME NEW a \in Argument(Texts)
  PROVE  /\ a.form = "switch" => a.name \in Switches
         /\ a.form = "setting" => a.name \in Settings
         /\ a.form = "taking next" => a.name \in SettingsTakingNext
  BY DEF Argument

(* What the cases of the parse change, field n to v. *)
Changes(o, a, value, setting, n, v) ==
  \/ a.form = "switch" /\ ~value /\ n = a.name /\ v = TRUE
  \/ a.form = "setting" /\ ~value /\ n = a.name /\ v = a.text
  \/ a.form = "entry" /\ ~value /\ n = "options"
     /\ v = WithEntry(o.options, a.name, a.text)
  \/ a.form = "unknown flag" /\ ~value /\ n = "unknown_flags"
     /\ v = Append(o.unknown_flags, a.text)
  \/ a.form = "source file" /\ ~value /\ n = "source_files"
     /\ v = Append(o.source_files, a.text)
  \/ a.form = "word" /\ ~value /\ o.command = "" /\ n = "command" /\ v = a.text
  \/ a.form = "word" /\ ~value /\ o.command # "" /\ n = "positional_args"
     /\ v = Append(o.positional_args, a.text)
  \/ value /\ setting \in SettingsTakingNext /\ n = setting /\ v = TextOf(a)

(* Each is what the argument asks for. *)
LEMMA FieldFollows ==
  ASSUME NEW o, CliOptions(o), NEW a \in Argument(Texts), NEW n, NEW v, NEW value \in BOOLEAN,
         NEW setting, NEW r, r = [o EXCEPT ![n] = v],
         Changes(o, a, value, setting, n, v)
  PROVE  Follows(o, a, value, setting, r)
<1> USE DEF Changes
<1> DEFINE is(form) == a.form = form /\ ~value
           Fields == {"command", "positional_args", "source_files", "options", "unknown_flags"}
<1>1. n \in Switches \/ n \in Settings \/ n \in Fields
  BY ArgumentNames, OptionNames, Zenon
<1>2. n \in DOMAIN EmptyCommandLine
  BY <1>1, OptionNames, Zenon
<1>3. /\ r[n] = v /\ \A m \in DOMAIN EmptyCommandLine : m # n => r[m] = o[m]
      /\ r.source_files = IF n = "source_files" THEN v ELSE o.source_files
      /\ r.unknown_flags = IF n = "unknown_flags" THEN v ELSE o.unknown_flags
      /\ r.options = IF n = "options" THEN v ELSE o.options
      /\ r.command = IF n = "command" THEN v ELSE o.command
      /\ r.positional_args = IF n = "positional_args" THEN v ELSE o.positional_args
  <2>1. OneChanged(o, n, v, r)
    BY <1>2, OneField, Zenon
  <2>2. QED
    BY <2>1, Zenon DEF OneChanged
<1>4. \A switch \in Switches : r[switch] <=> o[switch] \/ (is("switch") /\ a.name = switch)
  <2> SUFFICES ASSUME NEW switch \in Switches
               PROVE  r[switch] <=> o[switch] \/ (is("switch") /\ a.name = switch)
    OBVIOUS
  <2>1. switch \in DOMAIN EmptyCommandLine /\ switch \notin Settings /\ switch \notin Fields
    BY OptionNames, Zenon
  <2>2. CASE switch = n
    <3>1. a.form = "switch" /\ ~value /\ n = a.name /\ v = TRUE
      BY <2>1, <2>2, ArgumentNames, OptionNames, Zenon
    <3>2. QED
      BY <1>3, <2>2, <3>1, Zenon
  <2>3. CASE switch # n
    <3>1. r[switch] = o[switch]
      BY <1>3, <2>1, <2>3, Zenon
    <3>2. ~(is("switch") /\ a.name = switch)
      BY <2>3
    <3>3. QED
      BY <3>1, <3>2, Zenon
  <2>4. QED
    BY <2>2, <2>3, Zenon
<1>5. \A given \in Settings :
        r[given] = IF value THEN IF setting = given THEN TextOf(a) ELSE o[given]
                   ELSE IF a.form = "setting" /\ a.name = given THEN a.text ELSE o[given]
  <2> SUFFICES ASSUME NEW given \in Settings
               PROVE  r[given] =
                        IF value THEN IF setting = given THEN TextOf(a) ELSE o[given]
                        ELSE IF a.form = "setting" /\ a.name = given THEN a.text ELSE o[given]
    OBVIOUS
  <2>1. given \in DOMAIN EmptyCommandLine /\ given \notin Switches /\ given \notin Fields
    BY OptionNames, Zenon
  <2>2. CASE given = n
    <3>1. \/ a.form = "setting" /\ ~value /\ n = a.name /\ v = a.text
          \/ value /\ n = setting /\ v = TextOf(a)
      BY <2>1, <2>2, ArgumentNames, Zenon
    <3>2. QED
      BY <1>3, <2>2, <3>1, Zenon
  <2>3. CASE given # n
    <3>1. r[given] = o[given]
      BY <1>3, <2>1, <2>3, Zenon
    <3>2. /\ value => setting # given
          /\ ~value => ~(a.form = "setting" /\ a.name = given)
      BY <2>3
    <3>3. QED
      BY <3>1, <3>2, Zenon
  <2>4. QED
    BY <2>2, <2>3, Zenon
<1>6. n \in Fields \/ n \notin Fields
  OBVIOUS
<1>7. n \notin Fields =>
        a.form \in {"switch", "setting"} \/ value
  OBVIOUS
<1>8. n \in Fields => ~value /\ a.form \notin {"switch", "setting", "taking next"}
  BY ArgumentNames, OptionNames
<1>9. /\ r.source_files = IF is("source file") THEN Append(o.source_files, a.text)
                          ELSE o.source_files
      /\ r.unknown_flags = IF is("unknown flag") THEN Append(o.unknown_flags, a.text)
                           ELSE o.unknown_flags
      /\ r.options = IF is("entry") THEN WithEntry(o.options, a.name, a.text) ELSE o.options
      /\ r.command = IF is("word") /\ o.command = "" THEN a.text ELSE o.command
      /\ r.positional_args = IF is("word") /\ o.command # ""
                               THEN Append(o.positional_args, a.text) ELSE o.positional_args
  BY <1>3, <1>7, <1>8
<1>10. QED
  BY <1>4, <1>5, <1>9, Zenon DEF Follows

(* A flag that is whole, read by ParseGlobalFlag. *)
LEMMA FlagSays ==
  ASSUME NEW s \in Seq(Argument(Texts)), NEW a \in Argument(Texts), NEW o, CliOptions(o),
         Says(s, o), ~IsValue(Append(s, a), Len(s) + 1),
         a.form \in {"switch", "setting", "entry", "unknown flag"}
  PROVE  Says(Append(s, a), ParseGlobalFlag(o, a))
<1> DEFINE value == IsValue(Append(s, a), Len(s) + 1)
           setting == s[Len(s)].name
           r == ParseGlobalFlag(o, a)
           entries == WithEntry(o.options, a.name, a.text)
           flags == Append(o.unknown_flags, a.text)
<1>1. value \in BOOLEAN
  BY Zenon DEF IsValue
<1>2. /\ a.form = "switch" => r = [o EXCEPT ![a.name] = TRUE]
      /\ a.form = "setting" => r = [o EXCEPT ![a.name] = a.text]
      /\ a.form = "entry" => r = [o EXCEPT !["options"] = entries]
      /\ a.form = "unknown flag" => r = [o EXCEPT !["unknown_flags"] = flags]
  BY Zenon DEF ParseGlobalFlag
<1>3. ~value
  OBVIOUS
<1> SUFFICES Follows(o, a, value, setting, r)
  BY SaysGrows, Zenon
<1> HIDE DEF value, setting, r, entries, flags
<1>4. CASE a.form = "switch"
  <2>1. Changes(o, a, value, setting, a.name, TRUE)
    BY <1>3, <1>4, Zenon DEF Changes
  <2>2. r = [o EXCEPT ![a.name] = TRUE]
    BY <1>2, <1>4, Zenon
  <2>3. QED
    BY <1>1, <2>1, <2>2, FieldFollows, Zenon
<1>5. CASE a.form = "setting"
  <2>1. Changes(o, a, value, setting, a.name, a.text)
    BY <1>3, <1>5, Zenon DEF Changes
  <2>2. r = [o EXCEPT ![a.name] = a.text]
    BY <1>2, <1>5, Zenon
  <2>3. QED
    BY <1>1, <2>1, <2>2, FieldFollows, Zenon
<1>6. CASE a.form = "entry"
  <2>1. Changes(o, a, value, setting, "options", entries)
    BY <1>3, <1>6, Zenon DEF Changes, entries
  <2>2. r = [o EXCEPT !["options"] = entries]
    BY <1>2, <1>6, Zenon
  <2>3. QED
    BY <1>1, <2>1, <2>2, FieldFollows, Zenon
<1>7. CASE a.form = "unknown flag"
  <2>1. Changes(o, a, value, setting, "unknown_flags", flags)
    BY <1>3, <1>7, Zenon DEF Changes, flags
  <2>2. r = [o EXCEPT !["unknown_flags"] = flags]
    BY <1>2, <1>7, Zenon
  <2>3. QED
    BY <1>1, <2>1, <2>2, FieldFollows, Zenon
<1>8. QED
  BY <1>4, <1>5, <1>6, <1>7

(* A file, the command or a positional argument. *)
LEMMA PlainSays ==
  ASSUME NEW s \in Seq(Argument(Texts)), NEW a \in Argument(Texts), NEW o, CliOptions(o),
         Says(s, o), ~IsValue(Append(s, a), Len(s) + 1), a.form \in {"source file", "word"}
  PROVE  Says(Append(s, a), ParsePlain(o, a))
<1> DEFINE value == IsValue(Append(s, a), Len(s) + 1)
           setting == s[Len(s)].name
           r == ParsePlain(o, a)
           files == Append(o.source_files, a.text)
           args == Append(o.positional_args, a.text)
<1>1. value \in BOOLEAN
  BY Zenon DEF IsValue
<1>2. /\ a.form = "source file" => r = [o EXCEPT !["source_files"] = files]
      /\ a.form = "word" /\ o.command = "" => r = [o EXCEPT !["command"] = a.text]
      /\ a.form = "word" /\ o.command # "" => r = [o EXCEPT !["positional_args"] = args]
  BY Zenon DEF ParsePlain
<1>3. ~value
  OBVIOUS
<1> SUFFICES Follows(o, a, value, setting, r)
  BY SaysGrows, Zenon
<1> HIDE DEF value, setting, r, files, args
<1>4. CASE a.form = "source file"
  <2>1. Changes(o, a, value, setting, "source_files", files)
    BY <1>3, <1>4, Zenon DEF Changes, files
  <2>2. r = [o EXCEPT !["source_files"] = files]
    BY <1>2, <1>4, Zenon
  <2>3. QED
    BY <1>1, <2>1, <2>2, FieldFollows, Zenon
<1>5. CASE a.form = "word" /\ o.command = ""
  <2>1. Changes(o, a, value, setting, "command", a.text)
    BY <1>3, <1>5, Zenon DEF Changes
  <2>2. r = [o EXCEPT !["command"] = a.text]
    BY <1>2, <1>5, Zenon
  <2>3. QED
    BY <1>1, <2>1, <2>2, FieldFollows, Zenon
<1>6. CASE a.form = "word" /\ o.command # ""
  <2>1. Changes(o, a, value, setting, "positional_args", args)
    BY <1>3, <1>6, Zenon DEF Changes, args
  <2>2. r = [o EXCEPT !["positional_args"] = args]
    BY <1>2, <1>6, Zenon
  <2>3. QED
    BY <1>1, <2>1, <2>2, FieldFollows, Zenon
<1>7. QED
  BY <1>4, <1>5, <1>6

(* A setting that takes the next argument, on its own. *)
LEMMA TakerSays ==
  ASSUME NEW s \in Seq(Argument(Texts)), NEW a \in Argument(Texts), NEW o,
         Says(s, o), ~IsValue(Append(s, a), Len(s) + 1), a.form = "taking next"
  PROVE  Says(Append(s, a), o)
<1>1. Follows(o, a, IsValue(Append(s, a), Len(s) + 1), s[Len(s)].name, o)
  <2> DEFINE value == IsValue(Append(s, a), Len(s) + 1)
             setting == s[Len(s)].name
  <2>1. ~value
    OBVIOUS
  <2> HIDE DEF value, setting
  <2>2. Follows(o, a, value, setting, o)
    BY <2>1 DEF Follows
  <2>3. QED
    BY <2>2, Zenon DEF value, setting
<1>2. QED
  BY <1>1, SaysGrows, Zenon

(* The value such a setting takes. *)
LEMMA ValueSays ==
  ASSUME NEW s \in Seq(Argument(Texts)), NEW a \in Argument(Texts), NEW o, CliOptions(o),
         Says(s, o), IsValue(Append(s, a), Len(s) + 1),
         s[Len(s)].name \in SettingsTakingNext
  PROVE  Says(Append(s, a), [o EXCEPT ![s[Len(s)].name] = TextOf(a)])
<1> DEFINE value == IsValue(Append(s, a), Len(s) + 1)
           setting == s[Len(s)].name
           r == [o EXCEPT ![setting] = TextOf(a)]
<1>1. value \in BOOLEAN /\ value /\ setting \in SettingsTakingNext
  BY Zenon DEF IsValue
<1>2. r = [o EXCEPT ![setting] = TextOf(a)]
  OBVIOUS
<1> SUFFICES Follows(o, a, value, setting, r)
  BY SaysGrows, Zenon
<1> HIDE DEF value, setting, r
<1>3. Changes(o, a, value, setting, setting, TextOf(a))
  BY <1>1, Zenon DEF Changes
<1>4. QED
  BY <1>1, <1>2, <1>3, FieldFollows, Zenon

(* No argument read, nothing said. *)
LEMMA NothingSaid == Says(<<>>, EmptyCommandLine)
<1> DEFINE o == EmptyCommandLine
<1>1. DOMAIN <<>> = {}
  OBVIOUS
<1>2. \A form : Written(<<>>, form) = <<>>
  <2> TAKE form
  <2>1. Plain(<<>>, form) = {}
    BY <1>1, Zenon DEF Plain
  <2>2. Cardinality(Plain(<<>>, form)) = 0
    BY <2>1, FS_EmptySet
  <2>3. Written(<<>>, form) = [k \in 1..0 |-> <<>>[Nth(Plain(<<>>, form), k)].text]
    BY <2>2, Zenon DEF Written, Plain, Nth, Rank
  <2>4. QED
    BY <2>3
<1>3. SaysSwitches(<<>>, o)
  <2>1. \A switch \in Switches : o[switch] = FALSE
    <3>1. /\ o["show_help"] = FALSE /\ o["show_version"] = FALSE /\ o["verbose"] = FALSE
          /\ o["quiet"] = FALSE /\ o["diagnostics_output"] = FALSE
      BY DEF EmptyCommandLine
    <3> HIDE DEF o
    <3>2. QED
      BY <3>1 DEF Switches
  <2>2. QED
    BY <1>1, <2>1, Zenon DEF SaysSwitches
<1>4. SaysSettings(<<>>, o)
  <2>1. \A setting \in Settings : o[setting] = NotGiven
    <3>1. /\ o["profile"] = NotGiven /\ o["target"] = NotGiven /\ o["platform"] = NotGiven
          /\ o["optimization"] = NotGiven
      BY DEF EmptyCommandLine
    <3> HIDE DEF o
    <3>2. QED
      BY <3>1 DEF Settings, SettingsTakingNext
  <2>2. \A setting : Givings(<<>>, setting) = {}
    BY <1>1, Zenon DEF Givings
  <2>3. QED
    BY <2>1, <2>2, LastGivenIs, Zenon DEF SaysSettings
<1>5. SaysEntries(<<>>, o)
  <2>1. Entries(<<>>) = {}
    BY <1>1, Zenon DEF Entries
  <2>2. o.options = <<>>
    BY DEF EmptyCommandLine
  <2> DEFINE M == {<<>>[i].name : i \in Entries(<<>>)}
  <2>3. M = {}
    BY <2>1
  <2>4. SaysEntries(<<>>, o) <=> o.options = [name \in M |-> <<>>[EntryAt(<<>>, name)].text]
    BY Zenon DEF SaysEntries
  <2> HIDE DEF M
  <2>5. [name \in M |-> <<>>[EntryAt(<<>>, name)].text] = <<>>
    BY <2>3
  <2>6. QED
    BY <2>2, <2>4, <2>5, Zenon
<1>6. SaysWords(<<>>, o)
  <2>1. NonEmpty(<<>>) = {}
    BY <1>1, Zenon DEF NonEmpty
  <2>2. o.command = "" /\ o.positional_args = <<>>
    BY DEF EmptyCommandLine
  <2>3. QED
    BY <2>1, <2>2, Zenon DEF SaysWords
<1>7. o.source_files = <<>> /\ o.unknown_flags = <<>>
  BY DEF EmptyCommandLine
<1> HIDE DEF o
<1>8. Says(<<>>, o)
  BY <1>2, <1>3, <1>4, <1>5, <1>6, <1>7, SaysParts, Zenon
<1>9. QED
  BY <1>8 DEF o

-----------------------------------------------------------------------------
(* Parse's loop. *)

(* o is what the arguments before i say, and none of them takes i. *)
ReadTo(v, i, o) == Says(SubSeq(v, 1, i - 1), o) /\ ~IsValue(v, i)

(* The arguments before i and i itself. *)
LEMMA Prefix ==
  ASSUME NEW S, NEW v \in Seq(S), NEW i \in 1..Len(v)
  PROVE  LET s == SubSeq(v, 1, i - 1)
         IN  /\ s \in Seq(S) /\ Len(s) = i - 1 /\ Len(s) + 1 = i /\ v[i] \in S
             /\ \A k \in 1..i - 1 : s[k] = v[k]
             /\ SubSeq(v, 1, i) = Append(s, v[i])
             /\ \A k \in 1..i : Append(s, v[i])[k] = v[k]
<1> DEFINE s == SubSeq(v, 1, i - 1)
           t == Append(s, v[i])
           u == SubSeq(v, 1, i)
<1>1. Len(v) \in Nat /\ i \in Int /\ i - 1 \in Nat /\ i \in Nat /\ v[i] \in S
  OBVIOUS
<1>2. s \in Seq(S) /\ Len(s) = i - 1 /\ \A k \in 1..i - 1 : s[k] = v[k]
  OBVIOUS
<1>3. u \in Seq(S) /\ Len(u) = i /\ \A k \in 1..i : u[k] = v[k]
  OBVIOUS
<1> HIDE DEF s, u
<1>4. Len(s) + 1 = i
  BY <1>1, <1>2
<1>5. t \in Seq(S) /\ Len(t) = i /\ t[i] = v[i] /\ \A k \in 1..i - 1 : t[k] = s[k]
  BY <1>1, <1>2
<1> HIDE DEF t
<1>6. \A k \in 1..i : k \in 1..i - 1 \/ k = i
  BY <1>1
<1>7. \A k \in 1..i : t[k] = v[k]
  BY <1>2, <1>5, <1>6, Zenon
<1>8. u = t
  <2>1. Len(u) = Len(t) /\ \A k \in 1..Len(u) : u[k] = t[k]
    BY <1>3, <1>5, <1>7
  <2>2. QED
    BY <1>3, <1>5, <2>1, SeqEqual
<1>9. QED
  BY <1>1, <1>2, <1>4, <1>7, <1>8, Zenon DEF s, t, u

(* An argument that is no value is none for those before it either. *)
LEMMA NoValueHere ==
  ASSUME NEW S, NEW v \in Seq(S), NEW i \in 1..Len(v)
  PROVE  LET s == SubSeq(v, 1, i - 1)
         IN  IsValue(Append(s, v[i]), Len(s) + 1) <=> IsValue(v, i)
<1> DEFINE s == SubSeq(v, 1, i - 1)
           t == Append(s, v[i])
           n == i - 1
<1>1. Len(s) + 1 = i /\ \A k \in 1..i : t[k] = v[k]
  BY Prefix
<1>2. n \in Nat /\ i \in 1..n + 1 /\ \A k \in 1..n : k \in 1..i
  OBVIOUS
<1> HIDE DEF s, t, n
<1>3. \A k \in 1..n : t[k] = v[k]
  BY <1>1, <1>2, Zenon
<1>4. IsValue(t, i) <=> IsValue(v, i)
  BY <1>2, <1>3, ValuesAgree
<1>5. QED
  BY <1>1, <1>4, Zenon DEF s, t

(* A turn that reads one argument. *)
LEMMA OneRead ==
  ASSUME NEW v \in Seq(Argument(Texts)), NEW i \in 1..Len(v), NEW o, CliOptions(o),
         ReadTo(v, i, o)
  PROVE  /\ v[i].form \in {"switch", "setting", "entry", "unknown flag"} =>
              ReadTo(v, i + 1, ParseGlobalFlag(o, v[i]))
         /\ v[i].form \in {"source file", "word"} => ReadTo(v, i + 1, ParsePlain(o, v[i]))
<1> DEFINE s == SubSeq(v, 1, i - 1)
           a == v[i]
<1>1. /\ s \in Seq(Argument(Texts)) /\ a \in Argument(Texts)
      /\ SubSeq(v, 1, i) = Append(s, a)
  BY Prefix, Zenon
<1>2. ~IsValue(Append(s, a), Len(s) + 1) /\ Says(s, o)
  BY NoValueHere, Zenon DEF ReadTo
<1>3. a.form # "taking next" => ~IsValue(v, i + 1)
  <2>1. i \in Nat \ {0}
    OBVIOUS
  <2>2. QED
    BY <2>1, NextValue, Zenon
<1>4. \A r : ReadTo(v, i + 1, r) <=> Says(Append(s, a), r) /\ ~IsValue(v, i + 1)
  <2>1. (i + 1) - 1 = i
    OBVIOUS
  <2>2. QED
    BY <1>1, <2>1, Zenon DEF ReadTo
<1> HIDE DEF s, a
<1>5. ASSUME a.form \in {"switch", "setting", "entry", "unknown flag"}
      PROVE  ReadTo(v, i + 1, ParseGlobalFlag(o, a))
  <2>1. a.form # "taking next"
    BY <1>5
  <2>2. Says(Append(s, a), ParseGlobalFlag(o, a))
    BY <1>1, <1>2, <1>5, FlagSays, Zenon
  <2>3. QED
    BY <1>3, <1>4, <2>1, <2>2, Zenon
<1>6. ASSUME a.form \in {"source file", "word"} PROVE ReadTo(v, i + 1, ParsePlain(o, a))
  <2>1. a.form # "taking next"
    BY <1>6
  <2>2. Says(Append(s, a), ParsePlain(o, a))
    BY <1>1, <1>2, <1>6, PlainSays, Zenon
  <2>3. QED
    BY <1>3, <1>4, <2>1, <2>2, Zenon
<1>7. QED
  BY <1>5, <1>6, Zenon DEF a

(* Positions one and two on. *)
LEMMA TwoOn ==
  \A n \in Nat : \A i \in 1..n :
    i < n => LET j == i + 1
             IN  i \in Nat \ {0} /\ j \in Nat \ {0} /\ j - 1 = i /\ i + 2 = j + 1
                 /\ j \in 1..n /\ (i + 2) - 1 = j /\ i \in 1..j - 1
  OBVIOUS

(* Lengths are numbers. *)
LEMMA LengthType == \A S : \A s \in Seq(S) : Len(s) \in Nat
  OBVIOUS

(* A turn that reads a setting and its value. *)
LEMMA TwoRead ==
  ASSUME NEW v \in Seq(Argument(Texts)), NEW i \in 1..Len(v), NEW o, CliOptions(o),
         ReadTo(v, i, o), v[i].form = "taking next", i < Len(v)
  PROVE  ReadTo(v, i + 2, [o EXCEPT ![v[i].name] = TextOf(v[i + 1])])
<1> DEFINE s == SubSeq(v, 1, i - 1)
           a == v[i]
           j == i + 1
           t == SubSeq(v, 1, j - 1)
           b == v[j]
           r == [o EXCEPT ![a.name] = TextOf(b)]
<1>1. i \in Nat \ {0} /\ j \in Nat \ {0} /\ j - 1 = i /\ i + 2 = j + 1 /\ j \in 1..Len(v)
      /\ (i + 2) - 1 = j /\ i \in 1..j - 1
  BY TwoOn, LengthType, Zenon
<1>2. r = [o EXCEPT ![a.name] = TextOf(b)]
  OBVIOUS
<1>3. a.form = "taking next"
  OBVIOUS
<1>4. /\ s \in Seq(Argument(Texts)) /\ a \in Argument(Texts)
      /\ SubSeq(v, 1, i) = Append(s, a)
  BY Prefix, Zenon
<1>5. ~IsValue(Append(s, a), Len(s) + 1) /\ Says(s, o) /\ ~IsValue(v, i)
  BY NoValueHere, Zenon DEF ReadTo
<1>6. IsValue(v, j) /\ ~IsValue(v, i + 2)
  <2>1. IsValue(v, j)
    BY <1>1, <1>3, <1>5, NextValue, Zenon
  <2> HIDE DEF j
  <2>2. ~IsValue(v, j + 1)
    BY <1>1, <2>1, NextValue, Zenon
  <2>3. QED
    BY <1>1, <2>1, <2>2, Zenon
<1>7. Says(Append(s, a), o) /\ a.name \in SettingsTakingNext
  <2> HIDE DEF s, a
  <2>1. QED
    BY <1>3, <1>4, <1>5, TakerSays, ArgumentNames, Zenon
<1> HIDE DEF j
<1>8. /\ t \in Seq(Argument(Texts)) /\ b \in Argument(Texts) /\ Len(t) = j - 1
      /\ SubSeq(v, 1, j) = Append(t, b) /\ \A k \in 1..j - 1 : t[k] = v[k]
  <2>1. j \in 1..Len(v)
    BY <1>1
  <2>2. QED
    BY <2>1, Prefix, Zenon
<1>9. IsValue(Append(t, b), Len(t) + 1)
  BY <1>1, <1>6, NoValueHere, Zenon
<1>10. t = Append(s, a)
  BY <1>1, <1>4, Zenon
<1>11. Len(t) = i /\ t[Len(t)] = a
  <2>1. Len(t) = i
    BY <1>1, <1>8, Zenon
  <2>2. QED
    BY <1>1, <1>8, <2>1, Zenon
<1> HIDE DEF s, a, t, b, r
<1>12. Says(Append(t, b), r)
  <2>1. Says(t, o)
    BY <1>7, <1>10, Zenon
  <2>2. r = [o EXCEPT ![t[Len(t)].name] = TextOf(b)] /\ t[Len(t)].name \in SettingsTakingNext
    BY <1>2, <1>7, <1>11, Zenon
  <2>3. Says(Append(t, b), [o EXCEPT ![t[Len(t)].name] = TextOf(b)])
    BY <1>8, <1>9, <2>1, <2>2, ValueSays, Zenon
  <2>4. QED
    BY <2>2, <2>3, Zenon
<1>13. ReadTo(v, i + 2, r)
  BY <1>1, <1>6, <1>8, <1>12, Zenon DEF ReadTo
<1>14. QED
  BY <1>13, Zenon DEF r, a, b, j

(* What the arguments so far say is in the options, and Parse went through  *)
(* them all before anything acts on them.                                   *)
ReadInv ==
  /\ ReadTo(argv, index, options)
  /\ pc \notin {"parse", "done"} => index = Len(argv) + 1

(* It holds before the first argument. *)
LEMMA InitRead == Init => ReadInv
<1> SUFFICES ASSUME Init PROVE ReadInv
  OBVIOUS
<1>1. index = 1 /\ options = EmptyCommandLine /\ pc = "parse"
  BY DEF Init
<1>2. SubSeq(argv, 1, 1 - 1) = <<>>
  <2>1. argv \in Seq(Argument(Texts))
    BY ArgumentsAssumption DEF Init
  <2>2. QED
    BY <2>1
<1>3. ~IsValue(argv, 1)
  BY NextValue
<1>4. ReadTo(argv, index, options)
  BY <1>1, <1>2, <1>3, NothingSaid, Zenon DEF ReadTo
<1>5. QED
  BY <1>1, <1>4 DEF ReadInv

(* A turn of the loop keeps it. *)
LEMMA TurnRead ==
  ASSUME NEW next, GoOnAt(next), pc = "parse", ReadTo(argv, next, options')
  PROVE  ReadInv'
<1>1. index' = next /\ argv' = argv /\ pc' = "parse"
  BY DEF GoOnAt
<1>2. ReadTo(argv', index', options')
  BY <1>1
<1>3. QED
  BY <1>1, <1>2 DEF ReadInv

(* Every step keeps it. *)
LEMMA ReadStep == IInv /\ ReadInv /\ [Next]_vars => ReadInv'
<1> SUFFICES ASSUME IInv, ReadInv, [Next]_vars PROVE ReadInv'
  OBVIOUS
<1>1. Types /\ CliOptions(options) /\ argv \in Seq(Argument(Texts)) /\ pc \in Steps
      /\ ReadTo(argv, index, options) /\ Len(argv) \in Nat /\ index \in 1..Len(argv) + 1
  <2>1. Types /\ CliOptions(options) /\ argv \in Seq(Argument(Texts)) /\ pc \in Steps
        /\ ReadTo(argv, index, options) /\ index \in 1..Len(argv) + 1
    BY DEF IInv, Types, ReadInv
  <2>2. QED
    BY <2>1
<1>2. CASE ParseTaking
  <2>1. index \in 1..Len(argv) /\ argv[index].form = "taking next" /\ pc = "parse"
    BY <1>1, <1>2, ParsingType DEF ParseTaking, Parsing
  <2>2. /\ index < Len(argv) /\ GoOnAt(index + 2)
        /\ options' = [options EXCEPT ![argv[index].name] = TextOf(argv[index + 1])]
    BY <1>2, Zenon DEF ParseTaking
  <2>3. ReadTo(argv, index + 2, options')
    BY <1>1, <2>1, <2>2, TwoRead, Zenon
  <2>4. QED
    BY <2>1, <2>2, <2>3, TurnRead, Zenon
<1>3. CASE ParseFlag
  <2>1. /\ index \in 1..Len(argv) /\ pc = "parse"
        /\ argv[index].form \in {"switch", "setting", "entry", "unknown flag"}
    BY <1>1, <1>3, ParsingType DEF ParseFlag, Parsing
  <2>2. GoOnAt(index + 1) /\ options' = ParseGlobalFlag(options, argv[index])
    BY <1>3, Zenon DEF ParseFlag
  <2>3. ReadTo(argv, index + 1, options')
    BY <1>1, <2>1, <2>2, OneRead, Zenon
  <2>4. QED
    BY <2>1, <2>2, <2>3, TurnRead, Zenon
<1>4. CASE ParseOther
  <2>1. /\ index \in 1..Len(argv) /\ pc = "parse"
        /\ argv[index].form \in {"source file", "word"}
    BY <1>1, <1>4, ParsingType DEF ParseOther, Parsing
  <2>2. GoOnAt(index + 1) /\ options' = ParsePlain(options, argv[index])
    BY <1>4, Zenon DEF ParseOther
  <2>3. ReadTo(argv, index + 1, options')
    BY <1>1, <2>1, <2>2, OneRead, Zenon
  <2>4. QED
    BY <2>1, <2>2, <2>3, TurnRead, Zenon
<1>5. CASE ParseSucceeds
  <2>1. /\ index > Len(argv) /\ UNCHANGED <<argv, index, options>>
    BY <1>5, Zenon DEF ParseSucceeds
  <2>2. index = Len(argv) + 1
    BY <1>1, <2>1
  <2>3. QED
    BY <1>1, <2>1, <2>2, Zenon DEF ReadInv
<1>6. ASSUME UNCHANGED <<argv, index, options>>, pc # "parse" \/ pc' \in {"parse", "done"},
             pc = "done" => pc' = "done"
      PROVE  ReadInv'
  BY <1>1, <1>6 DEF ReadInv
<1>7. CASE ParseFails \/ Catch
  BY <1>6, <1>7 DEF ParseFails, Catch
<1>8. CASE LoadConfiguration \/ (\E env \in Environments : LoadEnvironmentOverrides(env))
           \/ InitializeDiagnostics \/ UNCHANGED vars
  BY <1>6, <1>8 DEF LoadConfiguration, LoadEnvironmentOverrides, InitializeDiagnostics, vars
<1>9. CASE NoCommand \/ Complain \/ PrintOnly \/ OpenFiles
  BY <1>6, <1>9 DEF NoCommand, Complain, PrintOnly, OpenFiles, Dispatching
<1>10. CASE \/ \E found \in Contents : LoadFile(found)
            \/ \E code \in SourceCodes : LoadFileFails(code)
            \/ Lex \/ FilesDone \/ ReportAndExit
  BY <1>6, <1>10 DEF LoadFile, LoadFileFails, Lex, FilesDone, ReportAndExit
<1>11. QED
  BY <1>2, <1>3, <1>4, <1>5, <1>7, <1>8, <1>9, <1>10, NextCases, Zenon

-----------------------------------------------------------------------------
(* The theorems. *)

(* The inductive invariant: the types, the level and the story of the files *)
(* hold together from the first argument to the exit code.                  *)
THEOREM Invariance == Spec => []IInv
<1>1. Init => IInv
  <2> SUFFICES ASSUME Init PROVE IInv
    OBVIOUS
  <2>1. LevelInv
    BY DEF Init, LevelInv
  <2>2. pc \in Beginning /\ pc \notin {"load", "lex", "report", "done"}
        /\ ~ had_lexical_errors /\ handed = {}
    BY DEF Init, Beginning
  <2>3. StoryInv
    BY <2>2 DEF StoryInv, FilesInv, HandedInv, ReportInv, SuccessIsClean, HeldIsShown,
       FailureExplained, Done
  <2>4. QED
    BY <2>1, <2>3, InitTypes DEF IInv
<1>2. IInv /\ [Next]_vars => IInv'
  BY TypesStep, LevelStep, StoryStep DEF IInv
<1>3. QED
  BY <1>1, <1>2, PTL DEF Spec

(* Every variable of the driver keeps its type; the configuration holds     *)
(* enumerators whatever the arguments and the environment spell.            *)
THEOREM TypeCorrect == Spec => []TypeOK
<1>1. IInv => TypeOK
  BY TypesMeanTypeOK DEF IInv
<1>2. QED
  BY <1>1, Invariance, PTL

(* The level a command sees is the one asked for or the one of its profile: *)
(* LoadConfiguration reads the profile first, so that an asked level stays. *)
THEOREM LevelAgrees == Spec => []OptimizationAgrees
<1>1. IInv => OptimizationAgrees
  BY DEF IInv, LevelInv, Levelled, OptimizationAgrees
<1>2. QED
  BY <1>1, Invariance, PTL

(* Exit code 0 is earned: nothing but refused settings was ever reported,   *)
(* and the files of the command were read and, for tokens, lexed cleanly.   *)
THEOREM SuccessEarned == Spec => []SuccessIsClean
<1>1. IInv => SuccessIsClean
  BY DEF IInv, StoryInv
<1>2. QED
  BY <1>1, Invariance, PTL

(* Run leaves no diagnostic in the engine unshown, on any way out of it.    *)
THEOREM NothingHeldBack == Spec => []HeldIsShown
<1>1. IInv => HeldIsShown
  BY DEF IInv, StoryInv
<1>2. QED
  BY <1>1, Invariance, PTL

(* A failing exit code comes with its reason: exit code 3 with the load     *)
(* error unless a limit dropped it, exit code 5 with the internal error.    *)
THEOREM FailuresExplained == Spec => []FailureExplained
<1>1. IInv => FailureExplained
  BY DEF IInv, StoryInv
<1>2. QED
  BY <1>1, Invariance, PTL

(* Run acts on what the arguments say: each is read once, as a value or for *)
(* itself, and all are read before the configuration is.                    *)
THEOREM ArgumentsRead == Spec => []ArgumentsUnderstood
<1>1. Init => ReadInv
  BY InitRead
<1>2. IInv /\ ReadInv /\ [Next]_vars => ReadInv'
  BY ReadStep
<1>3. ReadInv => ArgumentsUnderstood
  BY Zenon DEF ReadInv, ReadTo, ArgumentsUnderstood
<1>4. QED
  BY <1>1, <1>2, <1>3, Invariance, PTL DEF Spec
=============================================================================
