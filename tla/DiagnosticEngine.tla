-------------------------- MODULE DiagnosticEngine --------------------------
(***************************************************************************)
(* One DiagnosticEngine and the phases that feed it, directly or through   *)
(* fluent DiagnosticBuilders (compiler/diagnostics).  Emit, Clear and      *)
(* SetPolicy each hold mutex_ for their whole body, so each is one step,   *)
(* and any caller may take the next one.                                   *)
(***************************************************************************)
EXTENDS Diagnostics

CONSTANTS
  Builders,     (* DiagnosticBuilder objects alive at a time            *)
  Parts,        (* what a builder can attach: "span", "note", "hint"... *)
  Policies,     (* the policies SetPolicy is called with                *)
  MaxStored     (* bound on the diagnostics an unlimited engine holds   *)

ASSUME PoliciesAssumption == Policies \subseteq DiagnosticsPolicy
ASSUME MaxStoredAssumption == MaxStored \in Nat

VARIABLES
  engine,       (* the engine's members                                    *)
  builder,      (* for each builder, diagnostic_ (its draft) and emitted_  *)
  handed,       (* history: how often each builder called engine_.Emit     *)
  offered,      (* history: the grave severities Emit was called with since *)
                (* the last Clear                                           *)
  settled       (* history: the store was filled under the present policy   *)

vars == <<engine, builder, handed, offered, settled>>

Diagnostic == [severity : Severities, parts : SUBSET Parts]
Draft(sev) == [severity |-> sev, parts |-> {}]
Builder == [draft : Diagnostic, emitted : BOOLEAN]

(* The severities an exit code can depend on. *)
Grave == {"Fatal", "Error", "Warning"}

Init ==
  /\ engine = NewEngine
  /\ builder = [b \in Builders |-> [draft |-> Draft("Error"), emitted |-> FALSE]]
  /\ handed = [b \in Builders |-> 0]
  /\ offered = {}
  /\ settled = TRUE

-----------------------------------------------------------------------------
(* The engine's member functions. *)

(* What Emit leaves behind, for a direct call and for a builder's. *)
Receive(d) ==
  /\ engine' = Emitted(engine, d)
  /\ Len(engine'.diagnostics) <= MaxStored
  /\ offered' = offered \union ({d.severity} \intersect Grave)

EmitDirect(sev) ==
  /\ Receive(Draft(sev))
  /\ UNCHANGED <<builder, handed, settled>>

Clear ==
  /\ engine' = Cleared(engine)
  /\ offered' = {}
  /\ settled' = TRUE
  /\ UNCHANGED <<builder, handed>>

SetPolicy(p) ==
  /\ engine' = WithPolicy(engine, p)
  /\ settled' = \/ settled /\ p = engine.policy
                \/ offered = {} /\ engine.diagnostics = <<>>
  /\ UNCHANGED <<builder, handed, offered>>

-----------------------------------------------------------------------------
(* A builder's life.  Its constructor is given a severity; Fatal, Error,   *)
(* Warning and Info replace the whole draft; At, Label, Note, Hint and     *)
(* FixIt attach to it; Emit hands it over once.                            *)

NewBuilder(b, sev) ==
  /\ builder' = [builder EXCEPT ![b] = [draft |-> Draft(sev), emitted |-> FALSE]]
  /\ handed' = [handed EXCEPT ![b] = 0]
  /\ UNCHANGED <<engine, offered, settled>>

SetPrimary(b, sev) ==
  /\ sev \in {"Fatal", "Error", "Warning", "Info"}
  /\ builder' = [builder EXCEPT ![b].draft = Draft(sev)]
  /\ UNCHANGED <<engine, handed, offered, settled>>

Attach(b, part) ==
  /\ builder' = [builder EXCEPT ![b].draft.parts = @ \union {part}]
  /\ UNCHANGED <<engine, handed, offered, settled>>

(* Emit that marks the builder only when the engine took the diagnostic. *)
EmitBuilderUntilTaken(b) ==
  /\ ~ builder[b].emitted
  /\ Receive(builder[b].draft)
  /\ builder' = [builder EXCEPT ![b].emitted =
                   Len(engine'.diagnostics) > Len(engine.diagnostics)]
  /\ handed' = [handed EXCEPT ![b] = @ + 1]
  /\ UNCHANGED settled

EmitBuilder(b) ==
  /\ ~ builder[b].emitted
  /\ builder' = [builder EXCEPT ![b].emitted = TRUE]
  /\ Receive(builder[b].draft)
  /\ handed' = [handed EXCEPT ![b] = @ + 1]
  /\ UNCHANGED settled

Next ==
  \/ \E sev \in Severities : EmitDirect(sev)
  \/ Clear
  \/ \E p \in Policies : SetPolicy(p)
  \/ \E b \in Builders :
       \/ \E sev \in Severities : NewBuilder(b, sev) \/ SetPrimary(b, sev)
       \/ \E part \in Parts : Attach(b, part)
       \/ EmitBuilder(b)

Spec == Init /\ [][Next]_vars

-----------------------------------------------------------------------------
(* TypeOK: the engine, the builders and the history stay in their types. *)
TypeOK ==
  /\ engine \in Engine(Diagnostic)
  /\ builder \in [Builders -> Builder]
  /\ handed \in [Builders -> Nat]
  /\ offered \subseteq Grave
  /\ settled \in BOOLEAN

(* The counters HasErrors, ShouldContinue and the exit code rest on agree  *)
(* with the stored diagnostics (RecordCounts, Clear).  Under one policy    *)
(* error_count is exact: the errors, and the warnings if those are errors. *)
(* Across policies it lies between the errors alone and the two together.  *)
CountsMatchStore ==
  /\ CountsAgree(engine)
  /\ settled => engine.error_count =
       StoredCount(engine, "Error")
         + IF engine.policy.warnings_as_errors THEN StoredCount(engine, "Warning") ELSE 0

(* An Error or a Fatal handed to Emit is never lost without a trace: either *)
(* the engine has errors or it says it was truncated, whatever the limits   *)
(* and however often the policy changed (the early returns of Emit).        *)
NoErrorLostSilently ==
  offered \intersect {"Error", "Fatal"} # {} => HasErrors(engine) \/ engine.truncated

(* The same for warnings while a policy that promotes them is in force.     *)
(* Not so once the policy changes between two emissions: warnings taken     *)
(* under the earlier policy use up warning_limit unpromoted.                *)
PromotedWarningsFail ==
  /\ settled
  /\ engine.policy.warnings_as_errors
  /\ ~ engine.policy.suppress_warnings
  /\ "Warning" \in offered
  => HasErrors(engine) \/ engine.truncated

(* Under one policy the store never outgrows the policy's limits: the total, *)
(* the warnings, the errors, each counted in the store, and whatever the     *)
(* order, no Fatal is stored behind error_limit fatals and errors together,  *)
(* a promoted warning being an error.  Not so the reverse: ShouldAccept      *)
(* holds an Error against the errors alone.                                  *)
LimitsHold == settled => WithinLimits(engine) /\ FatalsInTime(engine)

(* A builder reaches the engine once, and is marked exactly when it has:    *)
(* one refused for lack of room is not retried after a Clear (emitted_ is   *)
(* set before engine_.Emit answers).                                        *)
HandedOnce == \A b \in Builders : handed[b] = OneIf(builder[b].emitted)

(* Once ShouldContinue says stop, only Clear or a new policy lets a phase   *)
(* continue; emission alone never turns it back.                            *)
StopIsSticky ==
  [][ /\ ~ ShouldContinue(engine)
      /\ engine'.policy = engine.policy
      /\ engine'.diagnostics # <<>>
      => ~ ShouldContinue(engine') ]_vars

(* What diagnostics/README.md says show_notes does, "Filter secondary      *)
(* messages": under a policy that hides notes nothing stored is one or     *)
(* carries one.  ShouldAccept looks at the primary severity only.          *)
SecondaryMessagesFiltered ==
  settled /\ ~ engine.policy.show_notes =>
    \A i \in DOMAIN engine.diagnostics :
      /\ engine.diagnostics[i].severity # "Note"
      /\ "note" \notin engine.diagnostics[i].parts
=============================================================================
