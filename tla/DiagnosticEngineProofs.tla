----------------------- MODULE DiagnosticEngineProofs -----------------------
(***************************************************************************)
(* The invariants of DiagnosticEngine, for every set of builders, parts    *)
(* and policies and every bound.                                           *)
(***************************************************************************)
EXTENDS DiagnosticEngine, DiagnosticsProofs

LEMMA DraftType ==
  ASSUME NEW sev \in Severities PROVE Draft(sev) \in Diagnostic
  BY DEF Draft, Diagnostic

LEMMA DiagnosticIsSet == DiagnosticSet(Diagnostic)
  BY DEF DiagnosticSet, Diagnostic

(* The six kinds of step, as the cases every preservation proof splits on. *)
LEMMA NextCases ==
  ASSUME [Next]_vars
  PROVE  \/ \E sev \in Severities : EmitDirect(sev)
         \/ Clear
         \/ \E p \in Policies : SetPolicy(p)
         \/ \E b \in Builders, sev \in Severities : NewBuilder(b, sev) \/ SetPrimary(b, sev)
         \/ \E b \in Builders, part \in Parts : Attach(b, part)
         \/ \E b \in Builders : EmitBuilder(b)
         \/ UNCHANGED vars
  BY DEF Next

(* TypeOK holds in every reachable state. *)
THEOREM TypeCorrect == Spec => []TypeOK
<1>1. Init => TypeOK
  <2> SUFFICES ASSUME Init PROVE TypeOK
    OBVIOUS
  <2>1. engine \in Engine(Diagnostic)
    BY NewEngineType DEF Init
  <2>2. Draft("Error") \in Diagnostic
    BY DraftType DEF Severities
  <2>3. QED
    BY <2>1, <2>2 DEF Init, TypeOK, Builder
<1>2. TypeOK /\ [Next]_vars => TypeOK'
  <2> SUFFICES ASSUME TypeOK, [Next]_vars PROVE TypeOK'
    OBVIOUS
  <2>1. ASSUME NEW sev \in Severities, EmitDirect(sev) PROVE TypeOK'
    <3>1. Draft(sev) \in Diagnostic
      BY DraftType
    <3>2. Emitted(engine, Draft(sev)) \in Engine(Diagnostic)
      BY <3>1, EmittedType DEF TypeOK
    <3>3. QED
      BY <2>1, <3>2 DEF EmitDirect, Receive, TypeOK, Grave
  <2>2. CASE Clear
    <3>1. Cleared(engine) \in Engine(Diagnostic)
      BY ClearedType DEF TypeOK
    <3>2. QED
      BY <2>2, <3>1 DEF Clear, TypeOK
  <2>3. ASSUME NEW p \in Policies, SetPolicy(p) PROVE TypeOK'
    <3>1. WithPolicy(engine, p) \in Engine(Diagnostic)
      BY PoliciesAssumption, WithPolicyType DEF TypeOK
    <3>2. QED
      BY <2>3, <3>1 DEF SetPolicy, TypeOK
  <2>4. ASSUME NEW b \in Builders, NEW sev \in Severities,
               NewBuilder(b, sev) \/ SetPrimary(b, sev)
        PROVE  TypeOK'
    <3>1. Draft(sev) \in Diagnostic
      BY DraftType
    <3>2. [builder EXCEPT ![b] = [draft |-> Draft(sev), emitted |-> FALSE]]
            \in [Builders -> Builder]
      BY <3>1 DEF TypeOK, Builder
    <3>3. [builder EXCEPT ![b].draft = Draft(sev)] \in [Builders -> Builder]
      BY <3>1 DEF TypeOK, Builder
    <3>4. [handed EXCEPT ![b] = 0] \in [Builders -> Nat]
      BY DEF TypeOK
    <3>5. CASE NewBuilder(b, sev)
      BY <3>2, <3>4, <3>5 DEF NewBuilder, TypeOK
    <3>6. CASE SetPrimary(b, sev)
      BY <3>3, <3>6 DEF SetPrimary, TypeOK
    <3>7. QED
      BY <2>4, <3>5, <3>6
  <2>5. ASSUME NEW b \in Builders, NEW part \in Parts, Attach(b, part) PROVE TypeOK'
    <3>1. builder[b].draft.parts \union {part} \in SUBSET Parts
      BY DEF TypeOK, Builder, Diagnostic
    <3>2. [builder EXCEPT ![b].draft.parts = @ \union {part}] \in [Builders -> Builder]
      BY <3>1 DEF TypeOK, Builder, Diagnostic
    <3>3. QED
      BY <2>5, <3>2 DEF Attach, TypeOK
  <2>6. ASSUME NEW b \in Builders, EmitBuilder(b) PROVE TypeOK'
    <3>1. builder[b].draft \in Diagnostic
      BY DEF TypeOK, Builder
    <3>2. Emitted(engine, builder[b].draft) \in Engine(Diagnostic)
      BY <3>1, EmittedType DEF TypeOK
    <3>3. builder' \in [Builders -> Builder] /\ handed' \in [Builders -> Nat]
      <4>1. [builder EXCEPT ![b].emitted = TRUE] \in [Builders -> Builder]
        BY DEF TypeOK, Builder
      <4>2. [handed EXCEPT ![b] = @ + 1] \in [Builders -> Nat]
        BY DEF TypeOK
      <4>3. QED
        BY <2>6, <4>1, <4>2 DEF EmitBuilder
    <3>4. engine' \in Engine(Diagnostic)
      BY <2>6, <3>2 DEF EmitBuilder, Receive
    <3>5. offered' \subseteq Grave
      BY <2>6 DEF EmitBuilder, Receive, TypeOK
    <3>6. settled' \in BOOLEAN
      BY <2>6 DEF EmitBuilder, TypeOK
    <3>7. QED
      BY <3>3, <3>4, <3>5, <3>6 DEF TypeOK
  <2>7. CASE UNCHANGED vars
    BY <2>7 DEF vars, TypeOK
  <2>8. QED
    BY <2>1, <2>2, <2>3, <2>4, <2>5, <2>6, <2>7, NextCases
<1>3. QED
  BY <1>1, <1>2, PTL DEF Spec

-----------------------------------------------------------------------------
(* What one emission does to the exit code's evidence, whatever the policy. *)
LEMMA EmittedEvidence ==
  ASSUME NEW e \in Engine(Diagnostic), NEW d \in Diagnostic
  PROVE  LET u == Emitted(e, d) IN
         /\ u.fatal_count >= e.fatal_count /\ u.error_count >= e.error_count
         /\ e.truncated => u.truncated
         /\ d.severity \in {"Error", "Fatal"} => HasErrors(u) \/ u.truncated
<1> DEFINE u == Emitted(e, d)
<1>1. /\ e.fatal_count \in Nat /\ e.error_count \in Nat /\ e.warning_count \in Nat
      /\ e.policy.error_limit \in Nat
  BY DEF Engine, DiagnosticsPolicy
<1>2. CASE ~ ShouldAccept(e, d)
  <2>1. u = e
    BY <1>2 DEF Emitted
  <2>2. d.severity \in {"Error", "Fatal"} => HasErrors(e)
    BY <1>1, <1>2 DEF ShouldAccept, LimitReached, HasErrors
  <2> HIDE DEF u
  <2>3. QED
    BY <1>1, <2>1, <2>2 DEF u
<1>3. CASE ShouldAccept(e, d) /\ IsFull(e)
  <2>1. u = [e EXCEPT !.truncated = TRUE]
    BY <1>3 DEF Emitted
  <2>2. u.truncated /\ u.fatal_count = e.fatal_count /\ u.error_count = e.error_count
    BY <2>1 DEF Engine
  <2>3. QED
    BY <1>1, <2>2
<1>4. CASE ShouldAccept(e, d) /\ ~ IsFull(e)
  <2>1. u = Recorded(e, d)
    BY <1>4 DEF Emitted
  <2>2. /\ u.fatal_count = e.fatal_count + OneIf(d.severity = "Fatal")
        /\ u.error_count = e.error_count + OneIf(CountsAsError(e, d))
        /\ u.truncated = e.truncated
    BY <2>1, RecordedType
  <2> HIDE DEF u
  <2>3. QED
    BY <1>1, <2>2 DEF OneIf, CountsAsError, HasErrors, u
<1>5. QED
  BY <1>2, <1>3, <1>4

(* The invariant every property below follows from: each part is preserved  *)
(* with the help of the parts before it.                                    *)
EngineInv ==
  /\ CountsMatchStore
  /\ NoErrorLostSilently
  /\ PromotedWarningsFail
  /\ LimitsHold

IInv == TypeOK /\ EngineInv /\ HandedOnce

(* An engine whose store is empty has counted nothing. *)
LEMMA EmptyCountsNothing ==
  ASSUME TypeOK, CountsMatchStore, engine.diagnostics = <<>>
  PROVE  /\ engine.fatal_count = 0 /\ engine.warning_count = 0 /\ engine.error_count = 0
         /\ \A sev : StoredCount(engine, sev) = 0
  BY StoredEmpty DEF CountsMatchStore, CountsAgree, TypeOK, Engine

(* Emission, direct or through a builder, preserves the engine's part. *)
LEMMA ReceivePreserves ==
  ASSUME TypeOK, EngineInv, NEW d \in Diagnostic, Receive(d), settled' = settled
  PROVE  EngineInv'
<1> DEFINE e == engine
           u == Emitted(engine, d)
<1>1. /\ engine' = u /\ engine \in Engine(Diagnostic) /\ u \in Engine(Diagnostic)
      /\ u.policy = engine.policy
      /\ offered' = offered \union ({d.severity} \intersect Grave)
  BY EmittedType DEF Receive, TypeOK
<1>2. /\ u.fatal_count >= e.fatal_count /\ u.error_count >= e.error_count
      /\ e.truncated => u.truncated
      /\ d.severity \in {"Error", "Fatal"} => HasErrors(u) \/ u.truncated
  BY <1>1, EmittedEvidence
<1>3. CountsAgree(u)
  BY <1>1, DiagnosticIsSet, CountsAgreeEmitted DEF EngineInv, CountsMatchStore
<1>4. settled => WithinLimits(u)
  BY <1>1, DiagnosticIsSet, WithinLimitsEmitted
     DEF EngineInv, CountsMatchStore, LimitsHold
<1>5. /\ e.fatal_count \in Nat /\ e.error_count \in Nat /\ e.warning_count \in Nat
      /\ u.fatal_count \in Nat /\ u.error_count \in Nat /\ u.warning_count \in Nat
      /\ e.policy.warning_limit \in Nat
      /\ \A sev : StoredCount(e, sev) \in Nat
  BY <1>1, StoredFinite DEF Engine, DiagnosticsPolicy
<1>6. HasErrors(e) => HasErrors(u)
  BY <1>2, <1>5 DEF HasErrors
<1>7. settled => u.error_count =
        StoredCount(u, "Error")
          + IF u.policy.warnings_as_errors THEN StoredCount(u, "Warning") ELSE 0
  <2> SUFFICES ASSUME settled PROVE u.error_count =
        StoredCount(u, "Error")
          + IF u.policy.warnings_as_errors THEN StoredCount(u, "Warning") ELSE 0
    OBVIOUS
  <2>1. CASE u.error_count = e.error_count /\ u.diagnostics = e.diagnostics
    BY <1>1, <2>1 DEF EngineInv, CountsMatchStore, StoredCount, Stored
  <2>2. CASE u = Recorded(e, d)
    <3>1. /\ StoredCount(u, "Error") = StoredCount(e, "Error") + OneIf(d.severity = "Error")
          /\ StoredCount(u, "Warning") = StoredCount(e, "Warning") + OneIf(d.severity = "Warning")
          /\ u.error_count = e.error_count + OneIf(CountsAsError(e, d))
      BY <1>1, <2>2, StoredRecorded, RecordedType
    <3> HIDE DEF u
    <3>2. QED
      BY <1>1, <1>5, <3>1 DEF EngineInv, CountsMatchStore, OneIf, CountsAsError
  <2>3. u = Recorded(e, d) \/ (u.error_count = e.error_count /\ u.diagnostics = e.diagnostics)
    BY <1>1 DEF Emitted, Engine
  <2>4. QED
    BY <2>1, <2>2, <2>3
<1>8. d.severity = "Warning" /\ settled /\ e.policy.warnings_as_errors
        /\ ~ e.policy.suppress_warnings => HasErrors(u) \/ u.truncated
  <2> SUFFICES ASSUME d.severity = "Warning", settled, e.policy.warnings_as_errors,
                      ~ e.policy.suppress_warnings
               PROVE  HasErrors(u) \/ u.truncated
    OBVIOUS
  <2>1. e.error_count >= e.warning_count
    BY <1>5 DEF EngineInv, CountsMatchStore, CountsAgree
  <2>2. CASE ~ ShouldAccept(e, d)
    <3>1. e.warning_count > 0
      BY <1>5, <2>2 DEF ShouldAccept, LimitReached
    <3>2. QED
      BY <1>2, <1>5, <2>1, <3>1 DEF HasErrors
  <2>3. CASE ShouldAccept(e, d) /\ IsFull(e)
    BY <1>1, <2>3 DEF Emitted, Engine
  <2>4. CASE ShouldAccept(e, d) /\ ~ IsFull(e)
    <3>1. u.error_count = e.error_count + OneIf(CountsAsError(e, d))
      BY <1>1, <2>4, RecordedType DEF Emitted
    <3>2. OneIf(CountsAsError(e, d)) = 1
      BY DEF OneIf, CountsAsError
    <3> HIDE DEF u
    <3>3. QED
      BY <1>5, <3>1, <3>2 DEF HasErrors
  <2>5. QED
    BY <2>2, <2>3, <2>4
<1>9. settled => FatalsInTime(u)
  <2> SUFFICES ASSUME settled PROVE FatalsInTime(u)
    OBVIOUS
  <2>1. /\ CountsAgree(e) /\ FatalsInTime(e)
        /\ e.policy.warnings_as_errors =>
             e.error_count = StoredCount(e, "Error") + StoredCount(e, "Warning")
    BY DEF EngineInv, CountsMatchStore, LimitsHold
  <2>2. QED
    BY <1>1, <2>1, DiagnosticIsSet, FatalsInTimeEmitted
<1> HIDE DEF u
<1>10. CountsMatchStore'
  BY <1>1, <1>3, <1>7 DEF CountsMatchStore
<1>11. NoErrorLostSilently'
  BY <1>1, <1>2, <1>6 DEF NoErrorLostSilently, EngineInv, Grave
<1>12. PromotedWarningsFail'
  BY <1>1, <1>2, <1>6, <1>8 DEF PromotedWarningsFail, EngineInv
<1>13. LimitsHold'
  BY <1>1, <1>4, <1>9 DEF LimitsHold
<1>14. QED
  BY <1>10, <1>11, <1>12, <1>13 DEF EngineInv

(* A step that leaves the engine and its history alone. *)
LEMMA EngineUntouched ==
  ASSUME EngineInv, UNCHANGED <<engine, offered, settled>>
  PROVE  EngineInv'
  BY DEF EngineInv, CountsMatchStore, NoErrorLostSilently, PromotedWarningsFail,
         LimitsHold

(* In an empty store no Fatal comes too late. *)
LEMMA EmptyInTime ==
  ASSUME NEW e, e.diagnostics = <<>>
  PROVE  FatalsInTime(e)
<1>1. Stored(e, "Fatal") = {}
  BY DEF Stored
<1>2. QED
  BY <1>1 DEF FatalsInTime

LEMMA InitInv == Init => IInv
<1> SUFFICES ASSUME Init PROVE IInv
  OBVIOUS
<1>1. TypeOK
  <2>1. engine \in Engine(Diagnostic)
    BY NewEngineType DEF Init
  <2>2. Draft("Error") \in Diagnostic
    BY DraftType DEF Severities
  <2>3. QED
    BY <2>1, <2>2 DEF Init, TypeOK, Builder
<1>2. /\ engine.diagnostics = <<>> /\ engine.error_count = 0 /\ CountsAgree(engine)
      /\ engine.policy = DefaultPolicy
  BY NewEngineType DEF Init, NewEngine, EmptyEngine
<1>3. \A sev : StoredCount(engine, sev) = 0
  BY <1>2, StoredEmpty
<1>4. CountsMatchStore
  BY <1>2, <1>3 DEF CountsMatchStore, DefaultPolicy
<1>5. LimitsHold
  BY <1>2, <1>3, EmptyInTime DEF LimitsHold, WithinLimits, Within, DefaultPolicy
<1>6. NoErrorLostSilently /\ PromotedWarningsFail
  BY DEF NoErrorLostSilently, PromotedWarningsFail, Init
<1>7. HandedOnce
  BY DEF HandedOnce, Init, OneIf
<1>8. QED
  BY <1>1, <1>4, <1>5, <1>6, <1>7 DEF IInv, EngineInv

(* Every kind of step preserves the engine's part of the invariant. *)
LEMMA EngineInvStep ==
  ASSUME IInv, [Next]_vars
  PROVE  EngineInv'
<1>1. ASSUME NEW sev \in Severities, EmitDirect(sev) PROVE EngineInv'
  <2>1. Draft(sev) \in Diagnostic /\ Receive(Draft(sev)) /\ settled' = settled
    BY <1>1, DraftType DEF EmitDirect
  <2>2. QED
    BY <2>1, ReceivePreserves DEF IInv
<1>2. CASE Clear
  <2> DEFINE u == Cleared(engine)
  <2>1. /\ engine' = u /\ offered' = {} /\ u.diagnostics = <<>>
        /\ u.fatal_count = 0 /\ u.error_count = 0 /\ u.warning_count = 0
    BY <1>2, ClearedType DEF Clear, IInv, TypeOK
  <2>2. \A sev : StoredCount(u, sev) = 0
    BY <2>1, StoredEmpty
  <2> HIDE DEF u
  <2>3. CountsMatchStore'
    BY <2>1, <2>2 DEF CountsMatchStore, CountsAgree
  <2>4. LimitsHold'
    <3>1. Cleared(engine) \in Engine(Diagnostic) /\ Len(u.diagnostics) = 0
      BY <2>1, ClearedType DEF IInv, TypeOK
    <3>2. u.policy \in DiagnosticsPolicy
      BY <3>1 DEF Engine, u
    <3>3. QED
      BY <2>1, <2>2, <3>1, <3>2, EmptyInTime
         DEF LimitsHold, WithinLimits, Within, DiagnosticsPolicy
  <2>5. NoErrorLostSilently' /\ PromotedWarningsFail'
    BY <2>1 DEF NoErrorLostSilently, PromotedWarningsFail
  <2>6. QED
    BY <2>3, <2>4, <2>5 DEF EngineInv
<1>3. ASSUME NEW p \in Policies, SetPolicy(p) PROVE EngineInv'
  <2> DEFINE u == WithPolicy(engine, p)
  <2>1. /\ engine' = u /\ offered' = offered /\ u.policy = p
        /\ u.diagnostics = engine.diagnostics /\ u.truncated = engine.truncated
        /\ u.fatal_count = engine.fatal_count /\ u.error_count = engine.error_count
        /\ u.warning_count = engine.warning_count
        /\ settled' = \/ settled /\ p = engine.policy
                      \/ offered = {} /\ engine.diagnostics = <<>>
    BY <1>3, PoliciesAssumption, WithPolicyType DEF SetPolicy, IInv, TypeOK
  <2>2. \A sev : StoredCount(u, sev) = StoredCount(engine, sev)
    BY <2>1 DEF StoredCount, Stored
  <2>3. engine.diagnostics = <<>> =>
          engine.error_count = 0 /\ \A sev : StoredCount(engine, sev) = 0
    BY EmptyCountsNothing DEF IInv, EngineInv
  <2> HIDE DEF u
  <2>4. CountsMatchStore'
    BY <2>1, <2>2, <2>3 DEF CountsMatchStore, CountsAgree, IInv, EngineInv
  <2>5. LimitsHold'
    <3>1. CASE settled /\ p = engine.policy
      <4>1. \A i : GraveBefore(u, i) = GraveBefore(engine, i)
        BY <2>1, <3>1 DEF GraveBefore, CountsAsError
      <4>2. Stored(u, "Fatal") = Stored(engine, "Fatal")
        BY <2>1 DEF Stored
      <4>3. FatalsInTime(u)
        BY <2>1, <3>1, <4>1, <4>2 DEF LimitsHold, FatalsInTime, IInv, EngineInv
      <4>4. WithinLimits(u)
        BY <2>1, <2>2, <3>1 DEF LimitsHold, WithinLimits, IInv, EngineInv
      <4>5. QED
        BY <2>1, <4>3, <4>4 DEF LimitsHold
    <3>2. CASE engine.diagnostics = <<>>
      <4>1. p \in DiagnosticsPolicy /\ Len(engine.diagnostics) = 0
        BY <3>2, PoliciesAssumption
      <4>2. QED
        BY <2>1, <2>2, <2>3, <3>2, <4>1, EmptyInTime
           DEF LimitsHold, WithinLimits, Within, DiagnosticsPolicy
    <3>3. QED
      BY <2>1, <3>1, <3>2 DEF LimitsHold
  <2>6. NoErrorLostSilently'
    BY <2>1 DEF NoErrorLostSilently, HasErrors, IInv, EngineInv
  <2>7. PromotedWarningsFail'
    BY <2>1 DEF PromotedWarningsFail, HasErrors, IInv, EngineInv
  <2>8. QED
    BY <2>4, <2>5, <2>6, <2>7 DEF EngineInv
<1>4. ASSUME NEW b \in Builders, NEW sev \in Severities,
             NewBuilder(b, sev) \/ SetPrimary(b, sev)
      PROVE  EngineInv'
  BY <1>4, EngineUntouched DEF NewBuilder, SetPrimary, IInv
<1>5. ASSUME NEW b \in Builders, NEW part \in Parts, Attach(b, part) PROVE EngineInv'
  BY <1>5, EngineUntouched DEF Attach, IInv
<1>6. ASSUME NEW b \in Builders, EmitBuilder(b) PROVE EngineInv'
  <2>1. builder[b].draft \in Diagnostic
    BY DEF IInv, TypeOK, Builder
  <2>2. Receive(builder[b].draft) /\ settled' = settled
    BY <1>6 DEF EmitBuilder
  <2>3. QED
    BY <2>1, <2>2, ReceivePreserves DEF IInv
<1>7. CASE UNCHANGED vars
  BY <1>7, EngineUntouched DEF vars, IInv
<1>8. QED
  BY <1>1, <1>2, <1>3, <1>4, <1>5, <1>6, <1>7, NextCases

(* And the builders' part. *)
LEMMA HandedOnceStep ==
  ASSUME TypeOK, HandedOnce, [Next]_vars
  PROVE  HandedOnce'
<1>1. ASSUME NEW b \in Builders, NEW sev \in Severities,
             NewBuilder(b, sev) \/ SetPrimary(b, sev)
      PROVE  HandedOnce'
  BY <1>1 DEF NewBuilder, SetPrimary, HandedOnce, OneIf, TypeOK, Builder
<1>2. ASSUME NEW b \in Builders, NEW part \in Parts, Attach(b, part) PROVE HandedOnce'
  BY <1>2 DEF Attach, HandedOnce, TypeOK, Builder
<1>3. ASSUME NEW b \in Builders, EmitBuilder(b) PROVE HandedOnce'
  BY <1>3 DEF EmitBuilder, HandedOnce, OneIf, TypeOK, Builder
<1>4. CASE UNCHANGED <<builder, handed>>
  BY <1>4 DEF HandedOnce
<1>5. QED
  BY <1>1, <1>2, <1>3, <1>4, NextCases DEF EmitDirect, Clear, SetPolicy, vars

(* Every part of the invariant holds in every reachable state. *)
THEOREM Invariance == Spec => []IInv
<1>1. Init => IInv
  BY InitInv
<1>2. IInv /\ TypeOK' /\ [Next]_vars => IInv'
  BY EngineInvStep, HandedOnceStep DEF IInv
<1>3. QED
  BY <1>1, <1>2, TypeCorrect, PTL DEF Spec

-----------------------------------------------------------------------------
(* The counters agree with the store. *)
THEOREM CountersTruthful == Spec => []CountsMatchStore
<1>1. IInv => CountsMatchStore
  BY DEF IInv, EngineInv
<1>2. QED
  BY <1>1, Invariance, PTL

(* No Error or Fatal is lost without a trace. *)
THEOREM ErrorsAccountedFor == Spec => []NoErrorLostSilently
<1>1. IInv => NoErrorLostSilently
  BY DEF IInv, EngineInv
<1>2. QED
  BY <1>1, Invariance, PTL

(* Under one policy that promotes them, neither is a warning. *)
THEOREM PromotionReliable == Spec => []PromotedWarningsFail
<1>1. IInv => PromotedWarningsFail
  BY DEF IInv, EngineInv
<1>2. QED
  BY <1>1, Invariance, PTL

(* Under one policy the store respects every limit, and no Fatal comes behind *)
(* as many fatals and errors as error_limit allows.                           *)
THEOREM LimitsRespected == Spec => []LimitsHold
<1>1. IInv => LimitsHold
  BY DEF IInv, EngineInv
<1>2. QED
  BY <1>1, Invariance, PTL

(* A builder reaches the engine once, and is marked exactly when it has. *)
THEOREM BuildersHandOnce == Spec => []HandedOnce
<1>1. IInv => HandedOnce
  BY DEF IInv
<1>2. QED
  BY <1>1, Invariance, PTL

(* A stop decision is not revoked by further emission. *)
LEMMA EmissionKeepsStop ==
  ASSUME TypeOK, NEW d \in Diagnostic, engine' = Emitted(engine, d),
         ~ ShouldContinue(engine)
  PROVE  ~ ShouldContinue(engine')
<1>1. engine \in Engine(Diagnostic) /\ engine' \in Engine(Diagnostic)
      /\ engine'.policy = engine.policy
  BY EmittedType DEF TypeOK
<1>2. /\ engine'.fatal_count >= engine.fatal_count
      /\ engine'.error_count >= engine.error_count
  BY <1>1, EmittedEvidence
<1>3. /\ engine.fatal_count \in Nat /\ engine.error_count \in Nat
      /\ engine'.fatal_count \in Nat /\ engine'.error_count \in Nat
  BY <1>1 DEF Engine
<1>4. QED
  BY <1>1, <1>2, <1>3 DEF ShouldContinue, HasErrors, HasFatals

(* Once ShouldContinue says stop, only Clear or a new policy lifts it. *)
THEOREM StopSticks == Spec => StopIsSticky
<1> DEFINE Sticky == /\ ~ ShouldContinue(engine)
                     /\ engine'.policy = engine.policy
                     /\ engine'.diagnostics # <<>>
                     => ~ ShouldContinue(engine')
<1>1. TypeOK /\ [Next]_vars => Sticky
  <2> SUFFICES ASSUME TypeOK, [Next]_vars, ~ ShouldContinue(engine),
                      engine'.policy = engine.policy, engine'.diagnostics # <<>>
               PROVE  ~ ShouldContinue(engine')
    OBVIOUS
  <2>1. ASSUME NEW sev \in Severities, EmitDirect(sev) PROVE ~ ShouldContinue(engine')
    BY <2>1, DraftType, EmissionKeepsStop DEF EmitDirect, Receive
  <2>2. ASSUME NEW b \in Builders, EmitBuilder(b) PROVE ~ ShouldContinue(engine')
    <3>1. builder[b].draft \in Diagnostic
      BY DEF TypeOK, Builder
    <3>2. QED
      BY <2>2, <3>1, EmissionKeepsStop DEF EmitBuilder, Receive
  <2>3. ~ Clear
    BY ClearedType DEF Clear, TypeOK
  <2>4. ASSUME NEW p \in Policies, SetPolicy(p) PROVE ~ ShouldContinue(engine')
    <3>1. /\ engine'.policy = p
          /\ engine'.fatal_count = engine.fatal_count
          /\ engine'.error_count = engine.error_count
      BY <2>4, PoliciesAssumption, WithPolicyType DEF SetPolicy, TypeOK
    <3>2. QED
      BY <3>1 DEF ShouldContinue, HasErrors, HasFatals
  <2>5. CASE UNCHANGED engine
    BY <2>5
  <2>6. QED
    BY <2>1, <2>2, <2>3, <2>4, <2>5, NextCases DEF NewBuilder, SetPrimary, Attach, vars
<1>2. QED
  BY <1>1, TypeCorrect, PTL DEF Spec, StopIsSticky
=============================================================================
