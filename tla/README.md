# A verification project for the Myc compiler (AeonX)

TLA+ modules for the compiler under `src/compiler`, the TLC configurations that
check them on small instances and the theorems TLAPS proves about them for every
instance. `PROJECT.json` lists the runs, the mutations every property is tested
against, the lines each definition models, the findings, the hazards and the
theorems. Paths below are relative to `src/compiler` unless they start with `src/`.

## The system

`main` builds a `CompilerDriver` and calls `Run`: parse the command line, configure
logging, load the configuration, apply the environment, initialise the diagnostic
engine, dispatch a command, report, return an exit code. Behind the commands stand the
source manager, the lexer and (from tests and library users only, so far) the parser.
What the directories `semantic`, `typechecker`, `hir`, `mir`, `ir`, `codegen`, `llvm`
and the like hold is a placeholder each.

| component | state | operations | hard part | what makes it correct |
|---|---|---|---|---|
| diagnostic engine, builder (`diagnostics`) | policy, stored diagnostics, three counters, truncation flag; a builder's draft and `emitted_` | `Emit…`, `Clear`, `SetPolicy`, the fluent builder | limits that drop diagnostics, warnings that count twice, a policy that changes in between | counters agree with the store, no error vanishes without a sign, limits hold, "stop" stays stop |
| source manager, file loader (`source`) | `files_`, `path_index_`, `next_id_`, working directory | `LoadFile`, `AddMemoryBuffer`, `AddVirtualFile`, `GetFile`, `SetWorkingDirectory` | several threads; work outside the lock; check, unlock, act, check again | a path is stored once, an identifier keeps answering with its file |
| driver, dispatcher, commands (`driver`, `commands`) | parsed options, configuration, engine, exit code | `Run`, `Dispatch`, each command's `Execute` | failures and exceptions at every step, errors cleared before they are seen | exit code, reported diagnostics and configuration tell one story |
| configuration, command-line parser, exit codes (`config`, `cli`, `exitcodes`) | profile, target, platform, level, diagnostic settings | setters, `ApplyProfileDefaults`, `Parse` | order of overrides | the level asked for is the level used |
| source text (`source`) | line table, buffer, spans, encoding | offset to line and column, slices, span algebra, UTF-8 validation | boundaries | agreement with a plain definition |
| lexer (`lexer`) | character stream, pending tokens, error flag | scanner dispatch, eleven scanners, `Tokenize` | every character consumed once, recovery, termination | tokens in order and disjoint, a failure always reported |
| token stream, parser (`lexer`, `parser`) | cursor, error and panic flags, error count, the call stack | recursive descent, `ReportError`, `Recover` | recovery that takes or leaves the wrong token, termination under errors | the tree derives the tokens, the language is accepted, operators group by precedence, the parse ends |
| syntax tree, pretty printer (`ast`) | nodes that own their parts; the printer's indentation | `MakeNode`, `ExtendSpan`, the visits of the printer | null parts, spans merged over them, owners | one owner per node, parts of the right kinds, honest spans, every node printed once at its depth |
| rendering, logging, console (`diagnostics`, `src/shared`, `common`) | none of their own | printing | none | not modelled |

They interact by calls in one process. The engine is shared by reference: the source
manager, the lexer and the driver emit into it, and the driver and the `tokens` command
report from it. The engine's `Emit`, `Clear` and `SetPolicy` and the manager's methods
take a mutex, so both are meant to be used from several threads; nothing else is.

The `hazards` of `PROJECT.json` name, line by line, what can go wrong here that a test
would hardly reach, and the properties that would notice.

## Modules

| module | models |
|---|---|
| `Diagnostics` | the engine as a value: one operator for what each member function leaves behind |
| `DiagnosticEngine` | an engine with its callers and builders; EXTENDS `Diagnostics` |
| `SourceRegistry` | abstract: what the source manager promises |
| `SourceManager` | threads inside the source manager; implements `SourceRegistry` |
| `SourceText` | the line table of a text as operators |
| `Lexer` | `Tokenize` over one text; EXTENDS `SourceText` |
| `CommandLine` | what `CliParser` does with one argument, and a command line read without parsing it |
| `Driver` | a run of the executable; EXTENDS `Diagnostics` and `CommandLine`, so it owns the same engine |
| `ParserContext` | token stream, cursor, error state and recovery, as operators on a context |
| `SyntaxTree` | nodes, their spans and what each kind may own; EXTENDS `ParserContext` |
| `Parser` | `ParseProgram` over one token stream as a stack machine; EXTENDS `SyntaxTree` |
| `Grammar` | abstract: the productions of the language, and the parser's properties; EXTENDS `Parser` |
| `AstPrinter` | what `AstPrettyPrinter` writes for a tree; EXTENDS `Parser` |
| `MCDiagnosticEngine`, `MCSourceManager`, `MCLexer`, `MCDriver`, `MCParser` | the instances for TLC |
| `DiagnosticsProofs`, `DiagnosticEngineProofs`, `SourceManagerProofs`, `DriverProofs`, `LexerProofs`, `ParserProofs`, `ParserTreeProofs`, `ParserOwnersProofs` | lemmas, theorems, proofs |

Operators named for a variation of another (`LimitReachedLate`, `YieldOwnId`,
`LexAgain`, ...) stand beside the definition they vary. No specification uses them: each
is a plausible mistake, and a property is kept only if TLC sees it violated when the
mistake takes the definition's place (`mutants` in `PROJECT.json`).

### DiagnosticEngine

`engine` is the object's members. `Emitted` is `Emit`: the per-severity filter
(`ShouldAccept`), the room (`IsFull`, which sets `truncated`), then `Recorded` for
`RecordCounts` and the append. Each member function holds the mutex for all of its body,
so each is one atomic action and "several threads" is any interleaving of actions. A
diagnostic is its severity and the parts attached to it; text, codes and spans are left
out. A `builder` has its draft and `emitted_`; `EmitBuilder` is its `Emit`, which marks
first and asks later. A second `Emit` of a builder does nothing and has no action. The
readers (`HasErrors`, `GetDiagnostics`) take no lock in the code; only single-threaded
reads are modelled.

`handed`, `offered` and `settled` are history: how often a builder reached the engine,
which severities were offered since the last `Clear`, and whether everything in the store
came in under the policy in force. `settled` separates what holds under one policy from
what holds even if it changes: under one policy `error_count` is exact; across policies
it is only bounded. `MaxStored` bounds an unlimited engine; with 3 it exceeds every
limit of the instance (1 and 2), so each limit is reached, passed in attempt, and
compared with a store filled under another policy. An Error is held against the errors
alone and a Fatal against fatals and errors together, so the two may outgrow
`error_limit`, but only by errors: `LimitsHold` counts, for each stored Fatal, the fatals
and errors stored before it (`FatalsInTime`). The four policies use every field of
`DiagnosticsPolicy`. One builder is enough: builders share nothing but the engine, where
a direct call is as good as another builder's.

### SourceManager

A thread's call is a sequence of steps, one per locked section and one per thing done
outside the lock: `BeginLoad` (resolve the path), `Probe` (first look, shared lock),
`ReadFile` or `FailRead` (resolve again, read, validate), `TakeId` and `BumpId`
(`next_id_++`, the load and the store of a plain integer), and under the unique lock
`InsertLoaded` or `YieldToExisting` (second look), or `InsertBuffer`. `BeginBuffer` is
`AddMemoryBuffer` and `AddVirtualFile` alike, up to the kind they record. A text is valid
UTF-8 or an invalid one that was cleared. `Canonical` is `NormalizePath`, any function
from directories and requests to absolute paths.

Two data races are in the code and in the model, as choices over what a build can do:
`next_id_++` by two threads is a lost update (`overlapped` records that two threads were
inside it), and `working_directory_` is read unlocked, so a load sees the directory of
before or after a change (`moved` records a change under a running load). A torn read of
the directory's string is not modelled.

The instance has two threads, a relative and an absolute request that name the same file
in one directory and different files in the other, a buffer named like a file, and three
registered files: enough for a race between two loads of one path, a later caller, and
the buffer that takes over a loaded path.

`SourceRegistry` says what callers rely on: a source joins under an identifier no other
has, a path from disk joins once, a buffer takes over its name. `SerialSpec` is the
executions in which no two threads are inside `next_id_++` at once; there the manager
implements the registry (`sources` is the set of stored files, `index` is
`path_index_`). With overlap it does not: see the findings.

### Lexer

`position` is the stream's cursor, `state` the `LexerState` with two values added for
what follows the loop of `Tokenize`, `tokens` and `pending` the collected tokens and the
context's, `open` the locals of a string or comment scan. A dispatch is a guard:
`Dispatch(s)` holds for the first scanner in `Scanners` that handles the character. Each
scanner is one step, with `RunEnd` for its inner loops, but for strings and block
comments, whose loops are steps of their own (`StringEscape`, `NestComment`, ...), one per
branch. `Mark`, measure and `Reset` leave the stream as it was and are the operator
`IdentifierEnd`.

Offsets count characters where the code counts bytes, and one character, `NonAscii`,
stands for all above 0x7F: no scanner but the identifier's looks at such a character, and
no operator contains one. The table of operators is the code's, that of reserved words
a constant: which words it holds decides nothing but a token's type. Which directive a
directive is, and the kind of a number, are left out; so are statistics.
`RecoverFromUnknownCharacter` is not modelled because it cannot be reached:
`UnknownScanner` handles every character (`Handles`). A NUL character is told from the
end of the text by every loop of the code and has no scanner; it behaves like any other
unknown character.

`MCTexts` are all texts up to four characters (five or eight behind an opening quote or
`/*`) over the characters one group of scanners tells apart, and all texts of three over
a mixture: long enough for two failures in one string, a comment nested three deep, a
number with fraction and exponent, an operator of every length with a neighbour. They
are lexed with the default options, with trivia, and with trivia, a stop at errors and
neither directives nor annotations.

`LinesAgree` checks `SourceText` against counting newlines, over every offset of those
texts. Fairness is `WF_vars(Next)`: `Tokenize` is a loop that waits for nobody.
`Finished` is the stuttering of a returned call.

### Driver

`pc` is the step `Run` has come to; an action is one function of the driver, one argument
of the parse, or one turn of a command's loop over its files. `config`, `engine`,
`options` are the objects. `content` is the source manager seen from one thread: per
path, nothing, or what its text is to the lexer (accepted, reported, or failed without a
report). `Catch` is an exception out of any step, up to the report; exceptions inside a
step are taken at its start, and what a step did before throwing is not kept. `shown`,
`printed`, `handed`, `overridden` are history: codes a reporter has written, an error that
went straight to `std::cerr`, codes handed to the engine, whether `MYC_PROFILE` was
applied. The commands that only print a banner are one. `Policies` are the diagnostic
configurations a user of the library may set with `GetConfig`. One lexical error stands
for the errors of a file.

The arguments come from `CommandLine`: an argument is what the parser sees in it (a
switch, a setting with its value, a setting that takes the next argument, an entry, an
unknown flag, a source file, a word), and `index` is the loop variable of `Parse`, which a
setting of the third form moves by two (`ParseTaking`). A setting takes its argument
unseen: `--profile --verbose` makes `--verbose` the profile. A setting at the end ends the
run (`ParseFails`); an unknown flag is collected and ends it once all is read. Spelling is
left out, and with it the flags only output and logging read. `Says` reads the same
arguments without a loop: an argument is a value when an odd number of settings that take
the next one stands before it in a row.

The instance has every command with and without a topic, file lists up to three entries
with a repeated file, five combinations of settings from all absent to all refused, all
vectors of up to three of thirteen arguments (settings with and without their value, the
empty word, a file, switches, entries of one key, an unknown flag), the environment with
understood and unknown values, and three engine policies, two of them with a limit of one,
so that the second error of a run is dropped. Three arguments are enough for a setting
that takes a setting, a flag or the command, with an argument before or after it.

Fairness: `WF_vars(Next)` on the whole next-state relation. `Run` is a sequential
function that never waits for another thread, so the process takes its next step as long
as there is one; nothing says which one if the environment has a choice. `Exited` is the
stuttering of a finished process, so a deadlock would be a state `Run` cannot leave.

### Parser

`calls` is the stack of the functions that run, a frame per function with the point it is
at and what its locals hold; `returned` is what the last call answered, 0 for null. A step
runs the function on top from one call to the next: `Invoke` calls, `Return` and
`ReturnNode` return, `Become` is a tail call. The cursor and the error state are a value
(`context`), so that a step composes the calls it makes: `ExpectedOrRecovered` is `Expect`
with the caller's `Recover()`. Recovery skips in one step to the first token it stops at
(`SkippedTo`), as its loops do. A token is its type, and one type stands for those the
parsers treat alike. `nodes` collects every `MakeNode`; `from` and `to`, the text a node
was made from, are history. Statistics, names and flags on nodes are left out.

One place needs care. In front of a declaration keyword a block asks for a statement for
ever, each time with a new diagnostic and a new node equal to the last; the model keeps
the node once (`EndExpressionStatement`, `StatementParsed`) and `error_count` up to the limit
it is compared with, so that this run of the code is a cycle of the model.

What the model shows of the code, besides the properties: recovery takes the closing brace
it stops at even if it is the block's own; bodies of classes and traits skip what starts
no declaration without an error; attributes are dropped unless a function follows; an
operator without a right side makes every level above return what it has; the spans of
classes, traits, enums and modules without a body are their keyword, and that of an empty
expression statement may reach the token behind it; merged spans are told apart by their
offsets only, their line and column being 1 and 1; `max_syntax_errors` sets
`in_panic_mode`, which nothing reads. No command runs the parser: its callers are tests.

`Grammar` states the language without the parser: `Derives(i)` says that the tokens node
`i` was made from, each part replaced by its symbol, are a sentence of its kind.
`AstPrinter` is the visitor as the sequence of its writes, indents and dedents;
`TreePrinted` compares that with the tree.

The instance parses every text of the grammar up to a depth (expressions with two
operators over all operands, statements nested twice, an if in an if with one else, every
declaration with its lists empty, single, double and with a trailing comma), and every
sequence of up to three tokens (two in a module body) in each place where one parser calls
another: 8 alphabets, each with the tokens the place tells apart. Both with recovery (and a
limit of two errors) and without. Two operators with an operand each are enough to tell
levels apart, because a level only looks one level up; three tokens are enough for an
error, a recovery and an error behind it in front of the tokens that end the place.

Fairness is `WF_vars(Next)`: `ParseProgram` is sequential. `Finished` stutters when it has
returned, so every other stop would be a deadlock.

## Runs

| run | shows |
|---|---|
| `diagnostics` | in every order of emissions, builders, clears and policy changes: counters match the store, no error vanishes silently, promoted warnings fail, limits hold, a Fatal and the errors before it share one limit, builders hand over once, a stop is kept |
| `source_threads` | two threads in every interleaving: the index leads to stored files, a path is loaded once and its loads agree, identifiers are unique and answer for their path (without overlap in `next_id_++`), an identifier's answer never changes, text is stored under its own path (unless the directory moved) |
| `source_registry` | `SerialSpec` implements `SourceRegistry` |
| `lexer` | for every short text: tokens in order and disjoint but for refused escapes inside a string, nothing lost, errors told, the option to stop obeyed (but for unknown characters), words and operators as long as the language has them (`TokensMaximal`), strings and comments ended by their own delimiter (`DelimitersMatched`), lines and columns right, `Tokenize` ends |
| `driver` | whole runs from the arguments on: success means every file was read and lexed, everything held was shown, failures have a reason (an internal error always a visible one), every argument is used once and for what it says, the optimization level is the one asked for or the profile's, and `Run` returns |
| `parser` | without errors the tree derives exactly the tokens; the language is accepted; operators group by precedence; nodes form trees of the right kinds; spans stay in their text and cover their parts; the printer writes each node once at its depth; the parser returns, or is for ever at a declaration keyword inside a block or a struct (with recovery), or at an error (without) |
| `hidden_notes`, `source_ids`, `silent_escape`, `refused_settings`, `held_errors`, `parser_module` | the findings: each checks one sentence of the documentation and TLC refutes it |

### Findings

1. `hidden_notes` (`diagnostic_engine.cpp:146`). The filter looks at the primary severity
   only, so notes attached to an error are stored although `show_notes` is off; the
   documentation says "Filter secondary messages".
2. `source_ids` (`source_manager.cpp:76`). Two registrations may be given one identifier,
   and the later caller's identifier then answers with the other file. The documentation
   says "Load operations take an exclusive lock."
3. `silent_escape` (`character_scanner.cpp:12`). A text that ends behind the backslash of
   a character literal fails without an Error token and without a diagnostic, where the
   lexer's documentation says each such situation produces both.
4. `refused_settings` (`compiler_driver.cpp:285`). `InitializeDiagnostics` clears the
   errors `LoadConfiguration` has just emitted: `myc --profile fast version` exits
   with 0 and says nothing, where the exit codes have a code for an invalid configuration.
5. `held_errors` (`command_dispatcher.cpp:57`). A failing command keeps its own exit code
   though the engine holds errors; `DISPATCHER.md` says it becomes 1.
6. `parser_module` (`statement_parser.cpp:52`). `mod app { fn main() {} }` is never parsed
   to its end: a module's body is a block of statements, no statement begins with `fn`, and
   recovery stops in front of it. The unit test `decl_mod_body`
   (`src/tests/unit/test_parser.cpp:551`) expects it to parse without errors.

## Proofs

Proved for every value of the constants, under these assumptions only: `Policies` are
policies and `MaxStored` is a natural number (`PoliciesAssumption`,
`MaxStoredAssumption`); `Canonical` is a function into `Paths` and buffer names are paths
(`PathAssumption`); the arguments of a process are a sequence of arguments
(`ArgumentsAssumption`); the lexer's texts are sequences of its alphabet, which does not
hold the mark for the end of input, nor is that the character that stands for all those
above 0x7F (`TextsAssumption`, `EofAssumption`, `NonAsciiAssumption`), and its options are
options (`OptionsAssumption`); the parser's `Texts` are sequences of token types that end with their only end
of file, and `Configurations` are pairs of a Boolean and a positive limit
(`TokenStreamsAssumption`, `ConfigurationsAssumption`). No number of threads, builders,
paths, files, arguments, characters, reserved words or tokens is assumed, nor that any of these sets is finite, except
that a store, a text and a token stream are finite sequences.

**Engine.** `DiagnosticsProofs` has the lemmas about the operators: types, what recording
does to the number of stored diagnostics of each severity (`StoredRecorded`, by
cardinality), and that emission preserves `CountsAgree` and, with exact counters,
`WithinLimits` and `FatalsInTime`. For the last, `GraveCounted` shows that the two counters
stand for no less than the fatals, errors and promoted warnings in the store, so the
Fatal that `ShouldAccept` lets in has fewer than `error_limit` of them before it. None of the properties is inductive alone. `IInv` adds the link each one
is missing: a warning limit is enforced against `warning_count`, so "no promoted warning
vanishes" needs the counter to be the number of stored warnings, and that number to
imply an error count above zero; "no error vanishes silently" needs that an error refused
because of `error_limit` was refused because `error_count` or `fatal_count` is positive.
`Invariance` proves `IInv`; `CountersTruthful`, `ErrorsAccountedFor`,
`PromotionReliable`, `LimitsRespected` and `BuildersHandOnce` follow, and `StopSticks` follows from the types.

**Source manager.** Three inductive invariants, because the three guarantees hold under
different conditions. `RegistryInv` (always): the index and the files agree both ways, a
thread building a buffer uses a buffer's name, and everything returned is stored under
its path and, for a path that is no buffer's, is what the index says. `IdsInv` (without
overlap): identifiers taken by threads are below `next_id` once bumped, differ from each
other and from those of stored files, and at most one thread is between the load and the
store. `PathsInv` (unless moved): the key in a running load is the path its request
resolves to now. Then `IdsUnique`, `HeldIdsResolve`, `LoadsDeduplicated`, `LoadsAgree`,
`IndexSound`, `PathsHonest`; `IdsStable` holds even with overlap because `files_` only
grows and `GetFile` takes the first match (the first match exists by well-founded
induction on the naturals). `RegistryImplemented` is the refinement: a step that stores a
file is a `Register`, any other a stutter.

**Driver.** `IInv` is the types, the level and the story of the files. `Types` keeps the
options, the configuration and the engine as values: the lemmas before it say that each
case of the parse leaves options and each way to configure a configuration, and
`ErrorHeld` that an engine which is handed errors only holds something exactly when
`HasErrors`, and after one more holds that one or those that kept it out. `LevelInv` needs
that the configuration is still Debug with O0 when the settings are read: that is why an
asked level survives the profile. `StoryInv` follows a failure from where it happens to the
exit code: a file that is no longer pending was loaded, and lexed cleanly while no failure
is remembered (`FilesInv`); a remembered failure is in the engine or was mute; what was
handed over before the commands is refused settings only, which is all that
`InitializeDiagnostics` clears away (`HandedInv`); and the exit code agrees with both at the
last report (`ReportInv`). The lemmas take Run's steps in groups; `Invariance` joins them,
and five theorems are its consequences.

`ArgumentsRead` is the sixth: the options are what the arguments say (`ArgumentsUnderstood`,
where `Says` looks at whole argument vectors and knows no loop). `ReadInv` adds that the
argument Parse has come to is no value, which the turn that takes a setting and its value
needs to know that the two belong together. The work is in what one argument more changes
in each part of `Says`: a value is found behind an odd run of settings that take one, and
`NextValue` turns that count into a step; `NthStays` and `WrittenGrows` say that the k-th
word, file or unknown flag stays the k-th; `LastGivenGrows` that the last value of a setting
is the new one or the old one; `EntriesGrow` that the first entry of a name stays;
`WordsGrow` that the first word that is not empty stays the command. `SaysGrows` joins them,
and `FlagSays`, `PlainSays`, `TakerSays` and `ValueSays` are the branches of the loop.

**Lexer.** `LexerProofs` begins with where the operators on offsets end: a run of
characters ends at a first character outside its set (`RunEnds`, from the least element of
a set of naturals), and on it rest numbers, escapes, words and lines. `LexInv` adds to the
types what the locals of a scan and the pending tokens say of each other (`ScanInv`), that
finished tokens end before the scan in progress began (`TokensBehind`), and that pending
tokens are refused escapes of that scan, in order (`PendingInside`). `NextSteps` shows that
under it the 35 ways to take a step are of eight kinds (`Emits` a token, `Skips`, `Opens`,
`Turns`, `Refuses` an escape, `CutsOff`, `Ends`, `Stays`), and the invariants that follow are
proved over the kinds: order needs nothing more (`TokensKeepOrder`); `FailuresAreTold` counts
Error tokens over `Said`, the finished tokens and the pending ones, which a step extends by
one token at most; `ErrorsStop` needs that behind the last token nothing is scanned once it
was a stopping one (`StopInv`); `NothingIsLost` that all before the frontier is kept
(`KeptInv`). A second part says what a token was made from (`Makes`: a step makes one
token with such an `Origin`, or none), so that a property of single tokens needs only hold
when one is made: `TokensAreMaximal`. For `DelimitersMatch` the loops have invariants of
their own. `StringScan`: all quotes and newlines behind are escaped, and the loop never stands
at an escaped character unless the text ends; escapes alternate along a run of backslashes
(`EscapedNext`), whose beginning is unique (`SlashesBegin`). `CommentScan`: the count of the
loop is the depth by definition, above zero all the way, and no pair is cut in half; the pairs
are a recursive function whose existence is shown by a least counterexample
(`PairingExists`), whose values do not depend on where the text is cut (`PairedAgree`), and
which grow the depth by one, less one or nothing from an offset to the next (`DepthNext`).
`LinesAreRight` is a fact about texts: each line has one start (`LineOfStart`), an offset's
line starts at the last one up to it (`PlaceIs`), and the newlines before it are in bijection
with the starts (`NewlinesBefore`).

**Parser.** `TypeCorrect` says for every token stream that no parser takes the end of file,
and that it works with nodes that were made. `IInv` adds what each function relies on when
it is resumed. The functions that take their keyword without looking at it (`Taking`) are
entered at a token that is no end of file, which holds of the frame on top only
(`CallsInv`). The functions that use a part without asking whether it is null (`Trusting`)
have it, and as many parts as their point needs (`Ready`): the last parameter's name, both
branches of an if, the left side of an operator. Spans name tokens of the stream
(`GoodSpan`), although some are built by merging those of parts that may be null or may
have empty spans. The proof has three layers: every call on the context leaves the cursor
on a token, no earlier than before (`Follows`; `SkippedFollows` uses that a set of naturals
has a least element, by well-founded induction); each way a segment ends keeps the
invariant (`ContinueKeeps`, `InvokeKeeps`, `BecomeKeeps`, `ReturnNodeKeeps` and the like,
by way of `StepKept`); and each action is one of these. `PartsOlder` follows too: every
part of a new node was in a frame, and frames hold nodes that exist.

`ParserTreeProofs` proves that operators group by precedence (`OperatorsGroup`), which no
function alone ensures: `ParseBinary` looks at the token behind its operand once, and what
it relies on was promised by functions below it and is asked for by callers above it.
`PrecInv` therefore speaks of the whole stack, as long as no error was reported. Every node
is `Grouped`. What a frame `Holds` binds as its point needs: the left side of a waiting
operator binds at least as tightly as that operator, which the frame's least precedence
allows. A callee is one its caller is `Calling`: the frame of a right side has the
operator's precedence plus one as its least. What a frame `Answers` is what its caller gets:
a `ParseBinary` that returns stands at no operator it could have taken, and a node of
`ParseUnary` or `ParsePrimary` starts where the frame did and ends at the cursor, so that
the node's spans of tokens tell a prefix operator from a postfix one and name the operator
behind a left side. A frame that runs knows where the cursor `Stands`. The lemmas that end
in `Prec` say what each way to end a segment needs for this; `Aside` is every step of the
declaration and statement parsers, which only has to leave the error flag, the older nodes
and the callers alone; those that end in `Climbs` take the expression parser function by
function. After an error nothing is claimed: an operator whose right side is missing gives
up every level it is under, and its left side may then stand below one that binds tighter.

`ParserOwnersProofs` proves that the nodes form trees, and here errors change little: a parser
that gives up hands its parts to nobody, but it does not hand them to two. `BuiltInv` is what
every node and frame knows of its parts. A frame's parts have roles like those of a node, by
the function and the point it is at (`Shape`), what a function may be handed at a point is
known (`Awaited`), what it may return as well (`Results`), and a call is made only where the
one is among the other (`CallSound`); parts stand one after the other in the text between the
frame's start and what it has called. `HeldInv` is about owners: no two nodes or frames hold
the same part, nor one of them twice (`Settled`), and what is returned is held by nobody
below the frame it is returned to (`Returning`). Every step is one of ten moves (`StepMoves`),
the invariants are proved over the moves (`MoveBuilt`, `MoveHolds`), and `NodesBuilt` and
`TreesAreOwned` follow. One move owns something twice on purpose: the expression statement
that an error leaves where it was is returned again, node and all (`Repeats`). It may be held
already by the block that asks for it and by no other caller (`BareCaller`), which takes what
the stack looks like: expressions call expressions only (`Nested`), every other statement has
taken a token before it calls anything, and so has a block, so that the statement could not
begin where they did.

`SpansAreHonest` rests on the same facts about where parts stand, not on owners. `SpanInv`
says of every node that its span is `Inside` the text it was made from, where an error may
take in the token after it, and that it `CoversAll` its parts unless an error came first;
a step makes one node that is so, or none (`Spanned`, `StepSpanned`). There are few ways to
make a span: one token (`LeafSpanned`), the function's first token up to the token that
closes it (`ClosedSpanned`), up to what was returned last (`ExtendedSpanned`), over the parts
one by one (`BranchSpanned`), from the left part to the right one (`InfixSpanned`), and the
keyword alone (`KeywordSpanned`). Those that take in only the last part need that it stands
behind the others (`ReturnedBehind`), a call's that the arguments between the first and the
last lie between them (`PartsFollow`). A program's span is that of all its declarations
(`AllSpans`); it may be empty where that of no other node is, so that `SpanInv` adds that a
program is the last node there is (`ProgramLast`) and no span is made from one.

**Model-checked only.** All of `AstPrinter`; of the parser, derivations (`TreeDerived`,
`GrammarAccepted`, where the texts of the grammar are a constant). Liveness (`LexerFinishes`, `RunReturns`,
`StuckOnlyAtDeclarations`) is out of the prover's reach, as is any statement about what a
recursive definition computes, such as a sentence of the grammar or a printed tree.

## Not modelled, and what is left

Wording, colours, JSON, logging, timestamps and file metadata are not modelled: nothing
in the program depends on them. The byte arithmetic of UTF-8 is not modelled; `Contains`,
`Intersects`, stream checkpoints, `SynchronizeBlock`, `ReportErrorAt` and the nodes and
parsers named for the future have no caller. The other compiler phases hold no code.

What is left is out of the prover's reach, as said above.
