------------------------------- MODULE Driver -------------------------------
(***************************************************************************)
(* One process of the myc executable: CompilerDriver::Run, the dispatcher   *)
(* and the commands that touch the diagnostic engine or the source manager  *)
(* (compiler/driver, compiler/commands).  Run is sequential; each step here *)
(* is a function of the code, or one turn of a command's loop over its      *)
(* files, and an exception may end any of them.  Logging is left out.       *)
(***************************************************************************)
EXTENDS Diagnostics, CommandLine

CONSTANTS
  Texts,          (* the files, words and values an argument may be or have *)
  ArgumentVectors, (* the arguments myc may be run with                     *)
  Environments,   (* values of MYC_PROFILE, MYC_TARGET and MYC_PLATFORM     *)
  Policies        (* diagnostic configurations set through GetConfig        *)

ASSUME ArgumentsAssumption == ArgumentVectors \subseteq Seq(Argument(Texts))
ASSUME PoliciesAssumption == Policies \subseteq DiagnosticsPolicy

(* The spellings accepted for each setting and what they select. *)
ProfileNamed ==
  [debug |-> "Debug", release |-> "Release", relwithdebinfo |-> "RelWithDebInfo",
   minsizerel |-> "MinSizeRel", custom |-> "Custom"]
TargetNamed ==
  [x86_64 |-> "X86_64", amd64 |-> "X86_64", aarch64 |-> "AArch64", arm64 |-> "AArch64",
   wasm32 |-> "Wasm32", wasm64 |-> "Wasm64", riscv64 |-> "RiscV64"]
PlatformNamed ==
  [linux |-> "Linux", windows |-> "Windows", macos |-> "MacOS", darwin |-> "MacOS",
   wasm |-> "Wasm", baremetal |-> "BareMetal"]
OptimizationNamed ==
  [v \in {"O0", "O1", "O2", "O3", "Os", "Oz", "0", "1", "2", "3", "s", "z"} |->
     CASE v \in {"0", "O0"} -> "O0" [] v \in {"1", "O1"} -> "O1" [] v \in {"2", "O2"} -> "O2"
       [] v \in {"3", "O3"} -> "O3" [] v \in {"s", "Os"} -> "Os" [] v \in {"z", "Oz"} -> "Oz"]

Named == [profile |-> ProfileNamed, target |-> TargetNamed,
          platform |-> PlatformNamed, optimization |-> OptimizationNamed]
Understood(setting, value) == value \in DOMAIN Named[setting]
Meaning(setting, value) == Named[setting][value]

(* ApplyProfileDefaults: the optimization level that comes with a profile;  *)
(* Custom brings none.                                                      *)
ProfileOptimization ==
  [Debug |-> "O0", Release |-> "O3", RelWithDebInfo |-> "O2", MinSizeRel |-> "Os"]

(* The registry; the commands that only print a banner (run, fmt, lint,     *)
(* benchmark and the placeholders) count as one.                             *)
Registered == {"help", "version", "build", "tokens", "banner"}

(* What a source file turns out to hold: nothing yet read; text the lexer   *)
(* accepts; text it reports errors in; text it fails on without a report    *)
(* (CharacterScanner at end of input after a backslash).                    *)
Contents == {"unread", "clean", "faulty", "mute"}

ConfigCodes == {"D0004", "D0005", "D0006", "D0007"}
SourceCodes == {"SourceFileNotFound", "SourceFileReadError", "SourceInvalidEncoding"}
Codes == {"D0001", "D0002", "D0003", "D9999", "LexicalError"}
         \union ConfigCodes \union SourceCodes

Diagnostic == [severity : Severities, code : Codes]
Error(code) == [severity |-> "Error", code |-> code]

RefusalCode ==
  [profile |-> "D0004", target |-> "D0005", platform |-> "D0006", optimization |-> "D0007"]

Success == 0
GeneralError == 1
InvalidArguments == 2
FileNotFound == 3
InternalCompilerError == 5
ExitCodes == {Success, GeneralError, InvalidArguments, FileNotFound, InternalCompilerError}
NoExitCode == 99

VARIABLES
  pc,             (* the step Run has come to                               *)
  argv,           (* the arguments of the process                           *)
  index,          (* the argument Parse has come to                         *)
  options,        (* the parsed command line                                *)
  config,         (* CompilerConfig                                         *)
  engine,         (* the driver's DiagnosticEngine                          *)
  content,        (* SourceManager, by path: what was loaded                *)
  pending,        (* the files the running command has still to open        *)
  had_lexical_errors,
  exit_code,
  shown,          (* history: the codes a DiagnosticReporter has written    *)
  printed,        (* history: an error was written straight to std::cerr    *)
  handed,         (* history: the codes handed to Emit                      *)
  overridden      (* history: MYC_PROFILE was applied                       *)

vars == <<pc, argv, index, options, config, engine, content, pending, had_lexical_errors,
          exit_code, shown, printed, handed, overridden>>

Steps == {"parse", "configure", "environment", "diagnostics", "dispatch",
          "load", "lex", "report", "done"}

(* CompilerConfig() is the debug profile with nothing known of the target.  *)
Init ==
  /\ pc = "parse"
  /\ argv \in ArgumentVectors
  /\ index = 1
  /\ options = EmptyCommandLine
  /\ \E policy \in Policies :
       config = [profile |-> "Debug", optimization |-> "O0", target |-> "Unknown",
                 platform |-> "Unknown", diagnostics |-> policy]
  /\ engine = NewEngine
  /\ content = [text \in Texts |-> "unread"]
  /\ pending = <<>>
  /\ had_lexical_errors = FALSE
  /\ exit_code = NoExitCode
  /\ shown = {}
  /\ printed = FALSE
  /\ handed = {}
  /\ overridden = FALSE

-----------------------------------------------------------------------------
(* Emission and reporting. *)

StoredCodes(e) == {e.diagnostics[i].code : i \in DOMAIN e.diagnostics}

(* EmitError. *)
EmitError(code) ==
  /\ engine' = Emitted(engine, Error(code))
  /\ handed' = handed \union {code}

(* A DiagnosticReporter writes everything the engine holds. *)
Report(e) == shown' = shown \union StoredCodes(e)

Leave(code) ==
  /\ pc' = "report"
  /\ exit_code' = code

(* ExecuteCommand, after Execute: only a success gives way to held errors.  *)
Returned(code) ==
  Leave(IF code = Success /\ HasErrors(engine') THEN GeneralError ELSE code)

-----------------------------------------------------------------------------
(* CompilerDriver::Run up to the dispatch. *)

Parsing(form) == pc = "parse" /\ index <= Len(argv) /\ argv[index].form = form

(* The loop of CliParser::Parse. *)
GoOnAt(next) ==
  /\ index' = next
  /\ UNCHANGED <<pc, argv, config, engine, content, pending, had_lexical_errors,
                 exit_code, shown, printed, handed, overridden>>

(* argv[index + 1] in place of argv[++index]: the value is read again. *)
ParseTakingTwice ==
  /\ Parsing("taking next") /\ index < Len(argv)
  /\ options' = [options EXCEPT ![argv[index].name] = TextOf(argv[index + 1])]
  /\ GoOnAt(index + 1)

(* A setting takes the next argument, whatever it is. *)
ParseTaking ==
  /\ Parsing("taking next") /\ index < Len(argv)
  /\ options' = [options EXCEPT ![argv[index].name] = TextOf(argv[index + 1])]
  /\ GoOnAt(index + 2)

ParseFlag ==
  /\ \E form \in {"switch", "setting", "entry", "unknown flag"} : Parsing(form)
  /\ options' = ParseGlobalFlag(options, argv[index])
  /\ GoOnAt(index + 1)

ParseOther ==
  /\ Parsing("source file") \/ Parsing("word")
  /\ options' = ParsePlain(options, argv[index])
  /\ GoOnAt(index + 1)

(* A setting that waits for its value at the end, or --verbose with --quiet: *)
(* HandleParseError.                                                         *)
ParseFails ==
  /\ \/ Parsing("taking next") /\ index = Len(argv)
     \/ pc = "parse" /\ index > Len(argv) /\ options.verbose /\ options.quiet
  /\ EmitError("D0001")
  /\ Report(engine')
  /\ exit_code' = InvalidArguments
  /\ pc' = "done"
  /\ UNCHANGED <<argv, index, options, config, content, pending, had_lexical_errors,
                 printed, overridden>>

ParseSucceeds ==
  /\ pc = "parse" /\ index > Len(argv)
  /\ ~(options.verbose /\ options.quiet)
  /\ pc' = "configure"
  /\ UNCHANGED <<argv, index, options, config, engine, content, pending,
                 had_lexical_errors, exit_code, shown, printed, handed, overridden>>

WithProfile(c, profile) ==
  [c EXCEPT !.profile = profile,
            !.optimization = IF profile \in DOMAIN ProfileOptimization
                             THEN ProfileOptimization[profile] ELSE @]

Given(setting) == options[setting] # NotGiven
Accepted(setting) == Given(setting) /\ Understood(setting, options[setting])

(* What a setting was given as, and what it means. *)
ChosenUnparsed(setting) == options[setting]
Chosen(setting) == Meaning(setting, options[setting])

(* The profile first, for it brings an optimization level; an absent        *)
(* profile is Debug and an absent target is X86_64, an unknown one leaves   *)
(* what was there.                                                          *)
Profiled(c) ==
  IF Accepted("profile") THEN WithProfile(c, Chosen("profile"))
  ELSE IF Given("profile") THEN c ELSE WithProfile(c, "Debug")

Targeted(c) ==
  [c EXCEPT !.target = IF Accepted("target") THEN Chosen("target")
                       ELSE IF Given("target") THEN @ ELSE "X86_64",
            !.platform = IF Accepted("platform") THEN Chosen("platform") ELSE @]

Optimized(c) ==
  [c EXCEPT !.optimization = IF Accepted("optimization") THEN Chosen("optimization") ELSE @]

WithSecondaries(c) ==
  IF options.diagnostics_output
  THEN [c EXCEPT !.diagnostics.show_notes = TRUE, !.diagnostics.show_hints = TRUE]
  ELSE c

(* The level read before the profile that resets it. *)
ConfiguredOptimizedFirst(c) == WithSecondaries(Targeted(Profiled(Optimized(c))))
Configured(c) == WithSecondaries(Optimized(Targeted(Profiled(c))))

(* A setting that was refused is an error each, in the order they are read. *)
Refused(setting) == Given(setting) /\ ~ Accepted(setting)
RefusedInto(e, setting) ==
  IF Refused(setting) THEN Emitted(e, Error(RefusalCode[setting])) ELSE e

LoadConfiguration ==
  /\ pc = "configure"
  /\ config' = Configured(config)
  /\ engine' = RefusedInto(RefusedInto(RefusedInto(RefusedInto(engine,
                  "profile"), "target"), "platform"), "optimization")
  /\ handed' = handed \union {RefusalCode[s] : s \in {t \in Settings : Refused(t)}}
  /\ pc' = "environment"
  /\ UNCHANGED <<argv, index, options, content, pending, had_lexical_errors, exit_code,
                 shown, printed, overridden>>

(* LoadEnvironmentOverrides: a value that is not understood is ignored. *)
LoadEnvironmentOverrides(env) ==
  LET ByProfile(c) == IF Understood("profile", env.profile)
                      THEN WithProfile(c, Meaning("profile", env.profile)) ELSE c
      By(setting, c) == IF Understood(setting, env[setting])
                        THEN [c EXCEPT ![setting] = Meaning(setting, env[setting])] ELSE c
  IN
  /\ pc = "environment"
  /\ config' = By("platform", By("target", ByProfile(config)))
  /\ overridden' = Understood("profile", env.profile)
  /\ pc' = "diagnostics"
  /\ UNCHANGED <<argv, index, options, engine, content, pending, had_lexical_errors,
                 exit_code, shown, printed, handed>>

(* InitializeDiagnostics clears the engine before it sets the policy. *)
InitializeDiagnostics ==
  /\ pc = "diagnostics"
  /\ engine' = WithPolicy(Cleared(engine), config.diagnostics)
  /\ pc' = "dispatch"
  /\ UNCHANGED <<argv, index, options, config, content, pending, had_lexical_errors,
                 exit_code, shown, printed, handed, overridden>>

-----------------------------------------------------------------------------
(* CommandDispatcher::Dispatch and the commands. *)

Command == CASE options.show_help -> "help"
             [] options.show_version /\ ~ options.show_help -> "version"
             [] OTHER -> options.command

(* The files of the command: tokens also takes positional arguments. *)
InputFiles ==
  IF Command = "tokens" /\ options.source_files = <<>>
    THEN options.positional_args ELSE options.source_files

HelpTopicUnknown ==
  options.positional_args # <<>> /\ Head(options.positional_args) \notin Registered

Dispatching(command) == pc = "dispatch" /\ Command = command

NoCommand ==
  /\ \/ Dispatching("") /\ EmitError("D0002")
     \/ /\ pc = "dispatch" /\ Command \notin Registered \union {""}
        /\ EmitError("D0003")
  /\ Leave(InvalidArguments)
  /\ UNCHANGED <<argv, index, options, config, content, pending, had_lexical_errors,
                 shown, printed, overridden>>

(* A complaint that goes to std::cerr past the engine. *)
Complain ==
  /\ \/ Dispatching("help") /\ HelpTopicUnknown
     \/ Dispatching("tokens") /\ InputFiles = <<>>
  /\ printed' = TRUE
  /\ UNCHANGED engine
  /\ Returned(InvalidArguments)
  /\ UNCHANGED <<argv, index, options, config, content, pending, had_lexical_errors,
                 shown, handed, overridden>>

PrintOnly ==
  /\ \/ Dispatching("help") /\ ~HelpTopicUnknown
     \/ Dispatching("version")
     \/ Dispatching("banner")
  /\ UNCHANGED engine
  /\ Returned(Success)
  /\ UNCHANGED <<argv, index, options, config, content, pending, had_lexical_errors,
                 shown, printed, handed, overridden>>

OpenFiles ==
  /\ \/ Dispatching("build")
     \/ Dispatching("tokens") /\ InputFiles # <<>>
  /\ pending' = InputFiles
  /\ pc' = "load"
  /\ UNCHANGED <<argv, index, options, config, engine, content, had_lexical_errors,
                 exit_code, shown, printed, handed, overridden>>

(* LoadFile answers: from the index, or from the disk. *)
LoadFile(found) ==
  LET file == Head(pending) IN
  /\ pc = "load" /\ pending # <<>>
  /\ found \in IF content[file] = "unread" THEN Contents \ {"unread"} ELSE {content[file]}
  /\ content' = [content EXCEPT ![file] = found]
  /\ \/ Command = "tokens" /\ pc' = "lex" /\ UNCHANGED pending
     \/ Command = "build" /\ pending' = Tail(pending) /\ UNCHANGED pc
  /\ UNCHANGED <<argv, index, options, config, engine, had_lexical_errors, exit_code,
                 shown, printed, handed, overridden>>

(* The same with the source manager not given the engine to report to. *)
LoadFileFailsMutely(code) ==
  /\ pc = "load" /\ pending # <<>>
  /\ content[Head(pending)] = "unread"
  /\ UNCHANGED <<engine, handed>>
  /\ Returned(FileNotFound)
  /\ UNCHANGED <<argv, index, options, config, content, pending, had_lexical_errors,
                 shown, printed, overridden>>

(* LoadFile reports why and returns nullopt; the rest is not looked at. *)
LoadFileFails(code) ==
  /\ pc = "load" /\ pending # <<>>
  /\ content[Head(pending)] = "unread"
  /\ EmitError(code)
  /\ Returned(FileNotFound)
  /\ UNCHANGED <<argv, index, options, config, content, pending, had_lexical_errors,
                 shown, printed, overridden>>

(* tokens: a failure of the last file only. *)
LexLastOnly ==
  LET text == content[Head(pending)] IN
  /\ pc = "lex"
  /\ IF text = "faulty" THEN EmitError("LexicalError") ELSE UNCHANGED <<engine, handed>>
  /\ had_lexical_errors' = (text # "clean")
  /\ pending' = Tail(pending)
  /\ pc' = "load"
  /\ UNCHANGED <<argv, index, options, config, content, exit_code, shown, printed,
                 overridden>>

(* tokens: a loop that does not move on. *)
LexAgain ==
  /\ pc = "lex"
  /\ pc' = "load"
  /\ UNCHANGED <<argv, index, options, config, engine, content, pending,
                 had_lexical_errors, exit_code, shown, printed, handed, overridden>>

(* tokens: Tokenize the loaded file, remember whether any failed. *)
Lex ==
  LET text == content[Head(pending)] IN
  /\ pc = "lex"
  /\ IF text = "faulty" THEN EmitError("LexicalError") ELSE UNCHANGED <<engine, handed>>
  /\ had_lexical_errors' = (had_lexical_errors \/ text # "clean")
  /\ pending' = Tail(pending)
  /\ pc' = "load"
  /\ UNCHANGED <<argv, index, options, config, content, exit_code, shown, printed,
                 overridden>>

FilesDone ==
  /\ pc = "load" /\ pending = <<>>
  /\ IF had_lexical_errors /\ HasErrors(engine) THEN Report(engine) ELSE UNCHANGED shown
  /\ UNCHANGED engine
  /\ Returned(IF had_lexical_errors THEN GeneralError ELSE Success)
  /\ UNCHANGED <<argv, index, options, config, content, pending, had_lexical_errors,
                 printed, handed, overridden>>

-----------------------------------------------------------------------------
(* The end of Run. *)

(* Run's last report tied to the exit code instead of the engine. *)
ReportAndExitOnOne ==
  /\ pc = "report"
  /\ IF exit_code = GeneralError THEN Report(engine) ELSE UNCHANGED shown
  /\ pc' = "done"
  /\ UNCHANGED <<argv, index, options, config, engine, content, pending,
                 had_lexical_errors, exit_code, printed, handed, overridden>>

ReportAndExit ==
  /\ pc = "report"
  /\ IF HasErrors(engine) THEN Report(engine) ELSE UNCHANGED shown
  /\ pc' = "done"
  /\ UNCHANGED <<argv, index, options, config, engine, content, pending,
                 had_lexical_errors, exit_code, printed, handed, overridden>>

(* The catch clauses: an exception out of any step. *)
Catch ==
  /\ pc # "done"
  /\ engine' = Emitted(Cleared(engine), Error("D9999"))
  /\ handed' = handed \union {"D9999"}
  /\ Report(engine')
  /\ exit_code' = InternalCompilerError
  /\ pc' = "done"
  /\ UNCHANGED <<argv, index, options, config, content, pending, had_lexical_errors,
                 printed, overridden>>

Exited == pc = "done" /\ UNCHANGED vars

Next ==
  \/ ParseTaking
  \/ ParseFlag
  \/ ParseOther
  \/ ParseFails
  \/ ParseSucceeds
  \/ LoadConfiguration
  \/ \E env \in Environments : LoadEnvironmentOverrides(env)
  \/ InitializeDiagnostics
  \/ NoCommand
  \/ Complain
  \/ PrintOnly
  \/ OpenFiles
  \/ \E found \in Contents : LoadFile(found)
  \/ \E code \in SourceCodes : LoadFileFails(code)
  \/ Lex
  \/ FilesDone
  \/ ReportAndExit
  \/ Catch
  \/ Exited

Spec == Init /\ [][Next]_vars

(* Run is a sequential function: the process keeps taking its next step. *)
FairSpec == Spec /\ WF_vars(Next)

-----------------------------------------------------------------------------
Done == pc = "done"
FilesRead == ToSet(InputFiles)
ReadsFiles == Command \in {"build", "tokens"}

Meanings(setting) == {Named[setting][v] : v \in DOMAIN Named[setting]}

(* TypeOK: every variable stays in its type; configuration values are the   *)
(* enumerators, never the spellings they were given in.                     *)
TypeOK ==
  /\ pc \in Steps
  /\ argv \in Seq(Argument(Texts))
  /\ index \in 1..Len(argv) + 1
  /\ DOMAIN options = DOMAIN EmptyCommandLine
  /\ ToSet(InputFiles) \subseteq Texts
  /\ config.profile \in Meanings("profile")
  /\ config.target \in Meanings("target") \union {"Unknown"}
  /\ config.platform \in Meanings("platform") \union {"Unknown"}
  /\ config.optimization \in Meanings("optimization")
  /\ config.diagnostics \in DiagnosticsPolicy
  /\ engine \in Engine(Diagnostic)
  /\ content \in [Texts -> Contents]
  /\ pending \in Seq(Texts)
  /\ had_lexical_errors \in BOOLEAN
  /\ exit_code \in ExitCodes \union {NoExitCode}
  /\ shown \subseteq Codes
  /\ printed \in BOOLEAN
  /\ handed \subseteq Codes
  /\ overridden \in BOOLEAN

(* A process that exits with 0 met no error once its engine was set up, was *)
(* able to load every file its command reads and, for tokens, to lex them,   *)
(* whatever the limits made the engine drop.                                *)
SuccessIsClean ==
  Done /\ exit_code = Success =>
    /\ handed \subseteq ConfigCodes
    /\ ReadsFiles => \A f \in FilesRead : content[f] # "unread"
    /\ Command = "tokens" => \A f \in FilesRead : content[f] = "clean"

(* Nothing is left in the engine that the user has not been shown, on any    *)
(* way out of Run.                                                           *)
HeldIsShown == Done => StoredCodes(engine) \subseteq shown

(* A failing process says why, but for the one lexical failure that comes    *)
(* without a diagnostic.  Exit code 3 comes with the load error, unless a    *)
(* limit kept it out; an internal error is always shown, for the engine is   *)
(* cleared first.                                                            *)
FailureExplained ==
  Done /\ exit_code # Success =>
    /\ \/ shown # {}
       \/ printed
       \/ \E f \in FilesRead : content[f] = "mute"
    /\ exit_code = FileNotFound =>
         \/ shown \intersect SourceCodes # {}
         \/ engine.truncated
         \/ LimitReached(engine.policy.error_limit, engine.error_count)
    /\ exit_code = InternalCompilerError => "D9999" \in shown

(* What Run acts on is what the arguments say, each of them used once: no    *)
(* value is read as a command or a file as well, and no word is lost.        *)
ArgumentsUnderstood ==
  /\ Says(SubSeq(argv, 1, index - 1), options)
  /\ pc \notin {"parse", "done"} => index = Len(argv) + 1

(* The optimization level is the profile's unless it was asked for or the    *)
(* profile has none; an asked level is lost to MYC_PROFILE only.             *)
OptimizationAgrees ==
  pc = "dispatch" =>
    /\ \/ Accepted("optimization")
       \/ config.profile = "Custom"
       \/ config.optimization = ProfileOptimization[config.profile]
    /\ Accepted("optimization") /\ ~ overridden =>
         config.optimization = Chosen("optimization")

(* Run returns, whatever the command does with its files.                    *)
RunReturns == <>Done

(* exitcodes/README.md has a code for "Invalid configuration"; a refused     *)
(* --profile, --target, --platform or -O should at least not end in success. *)
(* InitializeDiagnostics clears the error before anyone looks.               *)
RefusedSettingFails ==
  Done /\ handed \intersect ConfigCodes # {} => exit_code # Success

(* driver/DISPATCHER.md: "If DiagnosticEngine::HasErrors() is true after     *)
(* command execution, the dispatcher overrides the command exit code with    *)
(* GeneralError (1)."  Only a success is overridden.                         *)
HeldErrorsOverride ==
  pc = "report" /\ HasErrors(engine) /\ Command \in {"build", "tokens"} =>
    exit_code = GeneralError
=============================================================================
