---------------------------- MODULE Diagnostics ----------------------------
(***************************************************************************)
(* The diagnostic engine of compiler/diagnostics as a value: the record an *)
(* engine object holds and, for every member function, the record it       *)
(* leaves behind.  DiagnosticEngine runs these operators as a state        *)
(* machine of its own; Driver uses them for the engine it owns.            *)
(***************************************************************************)
EXTENDS Naturals, Sequences, FiniteSets

(* severity.hpp: the six severities, strongest first. *)
Severities == {"Fatal", "Error", "Warning", "Note", "Hint", "Info"}

(* DiagnosticsPolicy.  A limit of 0 means unlimited. *)
DiagnosticsPolicy ==
  [warnings_as_errors : BOOLEAN, suppress_warnings : BOOLEAN,
   show_notes : BOOLEAN, show_hints : BOOLEAN, error_recovery : BOOLEAN,
   max_diagnostics : Nat, error_limit : Nat, warning_limit : Nat]

DefaultPolicy ==
  [warnings_as_errors |-> FALSE, suppress_warnings |-> FALSE,
   show_notes |-> TRUE, show_hints |-> TRUE, error_recovery |-> TRUE,
   max_diagnostics |-> 0, error_limit |-> 0, warning_limit |-> 0]

(***************************************************************************)
(* The engine: its policy, the accepted diagnostics in order, the counters *)
(* kept beside them and the flag that says one was refused for lack of     *)
(* room.  Each module that owns an engine says what a diagnostic is: a     *)
(* record with at least a severity.                                        *)
(***************************************************************************)
Engine(Diagnostic) ==
  [policy : DiagnosticsPolicy, diagnostics : Seq(Diagnostic),
   fatal_count : Nat, error_count : Nat, warning_count : Nat,
   truncated : BOOLEAN]

EmptyEngine(policy) ==
  [policy |-> policy, diagnostics |-> <<>>,
   fatal_count |-> 0, error_count |-> 0, warning_count |-> 0,
   truncated |-> FALSE]

NewEngine == EmptyEngine(DefaultPolicy)

(* A limit that is set and that a count has reached; and the same test made *)
(* one diagnostic too late.                                                 *)
LimitReachedLate(limit, count) == limit > 0 /\ count > limit
LimitReached(limit, count) == limit > 0 /\ count >= limit

(* The filters with a Fatal held against the fatals alone. *)
ShouldAcceptFatalsAlone(e, d) ==
  /\ d.severity = "Warning" =>
       /\ ~ e.policy.suppress_warnings
       /\ ~ LimitReached(e.policy.warning_limit, e.warning_count)
  /\ d.severity = "Error" => ~ LimitReached(e.policy.error_limit, e.error_count)
  /\ d.severity = "Fatal" => ~ LimitReached(e.policy.error_limit, e.fatal_count)
  /\ d.severity = "Note" => e.policy.show_notes
  /\ d.severity = "Hint" => e.policy.show_hints

(* ShouldAccept: the per-severity filters.  An Error is held against the   *)
(* errors alone, a Fatal against fatals and errors together.               *)
ShouldAccept(e, d) ==
  /\ d.severity = "Warning" =>
       /\ ~ e.policy.suppress_warnings
       /\ ~ LimitReached(e.policy.warning_limit, e.warning_count)
  /\ d.severity = "Error" => ~ LimitReached(e.policy.error_limit, e.error_count)
  /\ d.severity = "Fatal" =>
       ~ LimitReached(e.policy.error_limit, e.fatal_count + e.error_count)
  /\ d.severity = "Note" => e.policy.show_notes
  /\ d.severity = "Hint" => e.policy.show_hints

IsFull(e) == LimitReached(e.policy.max_diagnostics, Len(e.diagnostics))

(* The counting without the promotion of warnings.                          *)
CountsAsErrorUnpromoted(e, d) == d.severity = "Error"

(* RecordCounts: a warning counts as an error too when warnings are errors. *)
CountsAsError(e, d) ==
  \/ d.severity = "Error"
  \/ d.severity = "Warning" /\ e.policy.warnings_as_errors

OneIf(b) == IF b THEN 1 ELSE 0

(* The record a warning leaves that is counted as an error or as a warning, *)
(* never as both.                                                           *)
RecordedEither(e, d) ==
  [policy |-> e.policy,
   diagnostics |-> Append(e.diagnostics, d),
   fatal_count |-> e.fatal_count + OneIf(d.severity = "Fatal"),
   error_count |-> e.error_count + OneIf(CountsAsError(e, d)),
   warning_count |-> e.warning_count
                       + OneIf(d.severity = "Warning" /\ ~ CountsAsError(e, d)),
   truncated |-> e.truncated]

Recorded(e, d) ==
  [policy |-> e.policy,
   diagnostics |-> Append(e.diagnostics, d),
   fatal_count |-> e.fatal_count + OneIf(d.severity = "Fatal"),
   error_count |-> e.error_count + OneIf(CountsAsError(e, d)),
   warning_count |-> e.warning_count + OneIf(d.severity = "Warning"),
   truncated |-> e.truncated]

(* Emit that refuses for lack of room without saying so. *)
EmittedUnflagged(e, d) ==
  IF ShouldAccept(e, d) /\ ~ IsFull(e) THEN Recorded(e, d) ELSE e

(* Emit that makes room instead, taking the oldest for an error. *)
EmittedEvicting(e, d) ==
  LET room == [e EXCEPT !.diagnostics = Tail(@), !.error_count = @ - 1] IN
  IF ~ ShouldAccept(e, d) THEN e
  ELSE Recorded(IF IsFull(e) THEN room ELSE e, d)

(* Emit, called with mutex_ held: filter, then room, then record.  Only the *)
(* lack of room is remembered.                                              *)
Emitted(e, d) ==
  CASE ~ ShouldAccept(e, d)               -> e
    [] ShouldAccept(e, d) /\ IsFull(e)    -> [e EXCEPT !.truncated = TRUE]
    [] ShouldAccept(e, d) /\ ~ IsFull(e)  -> Recorded(e, d)

(* Clear keeps the policy. *)
Cleared(e) == EmptyEngine(e.policy)

WithPolicy(e, p) == [e EXCEPT !.policy = p]

HasErrors(e) == e.fatal_count > 0 \/ e.error_count > 0
HasFatals(e) == e.fatal_count > 0

(* The decision taken on the latest diagnostic alone. *)
ShouldContinueOnLatest(e) ==
  \/ e.diagnostics = <<>>
  \/ e.diagnostics[Len(e.diagnostics)].severity \notin {"Fatal", "Error"}

ShouldContinue(e) ==
  IF e.policy.error_recovery THEN ~ HasFatals(e) ELSE ~ HasErrors(e)

GetExitCode(e) == OneIf(HasErrors(e))

(* How many stored diagnostics have a severity: what the counters stand for. *)
Stored(e, sev) == {i \in DOMAIN e.diagnostics : e.diagnostics[i].severity = sev}
StoredCount(e, sev) == Cardinality(Stored(e, sev))

(* The counters agree with the store; error_count may exceed the stored     *)
(* errors only by stored warnings that were promoted.                       *)
CountsAgree(e) ==
  /\ e.fatal_count = StoredCount(e, "Fatal")
  /\ e.warning_count = StoredCount(e, "Warning")
  /\ e.error_count >= StoredCount(e, "Error")
  /\ e.error_count <= StoredCount(e, "Error") + StoredCount(e, "Warning")

(* The store is within the policy's limits: the total, the warnings and the *)
(* errors, each counted in the store.                                       *)
Within(limit, count) == limit > 0 => count <= limit
WithinLimits(e) ==
  /\ Within(e.policy.max_diagnostics, Len(e.diagnostics))
  /\ Within(e.policy.warning_limit, StoredCount(e, "Warning"))
  /\ Within(e.policy.error_limit, StoredCount(e, "Error"))

(* The fatals and the errors, promoted warnings among them, that are stored *)
(* before place i; and that no fatal has error_limit of them before it.     *)
GraveBefore(e, i) ==
  {j \in 1..(i - 1) : \/ e.diagnostics[j].severity = "Fatal"
                      \/ CountsAsError(e, e.diagnostics[j])}

FatalsInTime(e) ==
  e.policy.error_limit > 0 =>
    \A i \in Stored(e, "Fatal") : Cardinality(GraveBefore(e, i)) < e.policy.error_limit
=============================================================================
