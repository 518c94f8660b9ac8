------------------------- MODULE DiagnosticsProofs -------------------------
(***************************************************************************)
(* What Emitted, Cleared and WithPolicy preserve, for every engine value   *)
(* and every set of diagnostics.  The state machines that own an engine    *)
(* cite these lemmas.                                                      *)
(***************************************************************************)
EXTENDS Diagnostics, FiniteSetTheorems, TLAPS

(* OneIf is a number, so counters stay numbers. *)
LEMMA OneIfNat == ASSUME NEW b \in BOOLEAN PROVE OneIf(b) \in 0..1
  BY DEF OneIf

(* The diagnostics of one severity are finitely many. *)
LEMMA StoredFinite ==
  ASSUME NEW D, NEW e \in Engine(D), NEW sev
  PROVE  /\ IsFiniteSet(Stored(e, sev))
         /\ StoredCount(e, sev) \in Nat
         /\ Stored(e, sev) \subseteq 1..Len(e.diagnostics)
<1>1. Len(e.diagnostics) \in Nat /\ DOMAIN e.diagnostics = 1..Len(e.diagnostics)
  BY DEF Engine
<1>2. Stored(e, sev) \subseteq 1..Len(e.diagnostics)
  BY <1>1 DEF Stored
<1>3. IsFiniteSet(1..Len(e.diagnostics))
  BY <1>1, FS_Interval
<1>4. IsFiniteSet(Stored(e, sev))
  BY <1>2, <1>3, FS_Subset
<1>5. QED
  BY <1>2, <1>4, FS_CardinalityType DEF StoredCount

(* An empty store holds nothing of any severity. *)
LEMMA StoredEmpty ==
  ASSUME NEW e, e.diagnostics = <<>>, NEW sev
  PROVE  StoredCount(e, sev) = 0
<1>1. Stored(e, sev) = {}
  BY DEF Stored
<1>2. QED
  BY <1>1, FS_EmptySet DEF StoredCount

(* Recording a diagnostic adds one to its own severity and to no other. *)
LEMMA StoredRecorded ==
  ASSUME NEW D, NEW e \in Engine(D), NEW d \in D, NEW sev
  PROVE  StoredCount(Recorded(e, d), sev) =
           StoredCount(e, sev) + OneIf(d.severity = sev)
<1> DEFINE n == Len(e.diagnostics)
           r == Recorded(e, d)
<1>1. n \in Nat /\ DOMAIN e.diagnostics = 1..n /\ e.diagnostics \in Seq(D)
  BY DEF Engine
<1>2. r.diagnostics = Append(e.diagnostics, d)
  BY DEF Recorded, Engine
<1>3. /\ DOMAIN r.diagnostics = 1..(n + 1)
      /\ \A i \in 1..n : r.diagnostics[i] = e.diagnostics[i]
      /\ r.diagnostics[n + 1] = d
  BY <1>1, <1>2
<1>4. IsFiniteSet(Stored(e, sev)) /\ StoredCount(e, sev) \in Nat /\ n + 1 \notin Stored(e, sev)
  BY <1>1, StoredFinite DEF Stored
<1>5. CASE d.severity = sev
  <2>1. Stored(r, sev) = Stored(e, sev) \union {n + 1}
    BY <1>1, <1>3, <1>5 DEF Stored
  <2>2. Cardinality(Stored(e, sev) \union {n + 1}) = Cardinality(Stored(e, sev)) + 1
    BY <1>4, FS_AddElement
  <2>3. QED
    BY <2>1, <2>2, <1>5 DEF StoredCount, OneIf
<1>6. CASE d.severity # sev
  <2>1. Stored(r, sev) = Stored(e, sev)
    BY <1>1, <1>3, <1>6 DEF Stored
  <2>2. QED
    BY <2>1, <1>4, <1>6 DEF StoredCount, OneIf
<1>7. QED
  BY <1>5, <1>6

(* What it means for D to be a set of diagnostics. *)
DiagnosticSet(D) == \A d \in D : d.severity \in Severities

(* Every operation leaves an engine value behind. *)
LEMMA RecordedType ==
  ASSUME NEW D, NEW e \in Engine(D), NEW d \in D
  PROVE  /\ Recorded(e, d) \in Engine(D)
         /\ Recorded(e, d).policy = e.policy
         /\ Recorded(e, d).truncated = e.truncated
         /\ Len(Recorded(e, d).diagnostics) = Len(e.diagnostics) + 1
         /\ Recorded(e, d).fatal_count = e.fatal_count + OneIf(d.severity = "Fatal")
         /\ Recorded(e, d).warning_count = e.warning_count + OneIf(d.severity = "Warning")
         /\ Recorded(e, d).error_count = e.error_count + OneIf(CountsAsError(e, d))
<1>1. /\ OneIf(d.severity = "Fatal") \in 0..1
      /\ OneIf(d.severity = "Warning") \in 0..1
      /\ OneIf(CountsAsError(e, d)) \in 0..1
  BY DEF OneIf
<1>2. /\ e.diagnostics \in Seq(D)
      /\ Append(e.diagnostics, d) \in Seq(D)
      /\ Len(Append(e.diagnostics, d)) = Len(e.diagnostics) + 1
      /\ e.fatal_count \in Nat /\ e.error_count \in Nat /\ e.warning_count \in Nat
      /\ e.policy \in DiagnosticsPolicy /\ e.truncated \in BOOLEAN
  BY DEF Engine
<1>3. QED
  BY <1>1, <1>2 DEF Recorded, Engine

LEMMA EmittedType ==
  ASSUME NEW D, NEW e \in Engine(D), NEW d \in D
  PROVE  /\ Emitted(e, d) \in Engine(D)
         /\ Emitted(e, d).policy = e.policy
<1>1. [e EXCEPT !.truncated = TRUE] \in Engine(D)
  BY DEF Engine
<1>2. [e EXCEPT !.truncated = TRUE].policy = e.policy
  BY DEF Engine
<1>3. QED
  BY <1>1, <1>2, RecordedType, Zenon DEF Emitted

LEMMA ClearedType ==
  ASSUME NEW D, NEW e \in Engine(D)
  PROVE  /\ Cleared(e) \in Engine(D)
         /\ Cleared(e).policy = e.policy
         /\ Cleared(e).diagnostics = <<>>
         /\ Cleared(e).truncated = FALSE
         /\ Cleared(e).fatal_count = 0
         /\ Cleared(e).error_count = 0
         /\ Cleared(e).warning_count = 0
<1>1. e.policy \in DiagnosticsPolicy
  BY DEF Engine
<1>2. QED
  BY <1>1 DEF Cleared, EmptyEngine, Engine

LEMMA WithPolicyType ==
  ASSUME NEW D, NEW e \in Engine(D), NEW p \in DiagnosticsPolicy
  PROVE  /\ WithPolicy(e, p) \in Engine(D)
         /\ WithPolicy(e, p).policy = p
         /\ WithPolicy(e, p).diagnostics = e.diagnostics
         /\ WithPolicy(e, p).truncated = e.truncated
         /\ WithPolicy(e, p).fatal_count = e.fatal_count
         /\ WithPolicy(e, p).error_count = e.error_count
         /\ WithPolicy(e, p).warning_count = e.warning_count
  BY DEF WithPolicy, Engine

(* The fresh engine is one, with counters that agree with its empty store. *)
LEMMA NewEngineType ==
  ASSUME NEW D
  PROVE  /\ NewEngine \in Engine(D)
         /\ CountsAgree(NewEngine)
<1>1. NewEngine \in Engine(D)
  BY DEF NewEngine, EmptyEngine, DefaultPolicy, Engine, DiagnosticsPolicy
<1>2. QED
  BY <1>1, StoredEmpty DEF NewEngine, EmptyEngine, CountsAgree

-----------------------------------------------------------------------------
(* The counters go on agreeing with the store. *)
LEMMA CountsAgreeEmitted ==
  ASSUME NEW D, DiagnosticSet(D), NEW e \in Engine(D), NEW d \in D, CountsAgree(e)
  PROVE  CountsAgree(Emitted(e, d))
<1>1. CASE ~ ShouldAccept(e, d)
  BY <1>1 DEF Emitted
<1>2. CASE ShouldAccept(e, d) /\ IsFull(e)
  <2> DEFINE t == [e EXCEPT !.truncated = TRUE]
  <2>1. /\ t.diagnostics = e.diagnostics /\ t.fatal_count = e.fatal_count
        /\ t.error_count = e.error_count /\ t.warning_count = e.warning_count
    BY DEF Engine
  <2>2. \A sev : StoredCount(t, sev) = StoredCount(e, sev)
    BY <2>1 DEF StoredCount, Stored
  <2>3. Emitted(e, d) = t
    BY <1>2 DEF Emitted
  <2> HIDE DEF t
  <2>4. QED
    BY <2>1, <2>2, <2>3 DEF CountsAgree
<1>3. CASE ShouldAccept(e, d) /\ ~ IsFull(e)
  <2> DEFINE r == Recorded(e, d)
  <2>1. Emitted(e, d) = r
    BY <1>3 DEF Emitted
  <2>2. \A sev : /\ StoredCount(r, sev) = StoredCount(e, sev) + OneIf(d.severity = sev)
                 /\ StoredCount(e, sev) \in Nat
    BY StoredRecorded, StoredFinite
  <2>3. /\ r.fatal_count = e.fatal_count + OneIf(d.severity = "Fatal")
        /\ r.warning_count = e.warning_count + OneIf(d.severity = "Warning")
        /\ r.error_count = e.error_count + OneIf(CountsAsError(e, d))
    BY RecordedType
  <2>4. /\ OneIf(d.severity = "Error") <= OneIf(CountsAsError(e, d))
        /\ OneIf(CountsAsError(e, d)) <= OneIf(d.severity = "Error") + OneIf(d.severity = "Warning")
        /\ OneIf(d.severity = "Error") \in 0..1
        /\ OneIf(d.severity = "Warning") \in 0..1
        /\ OneIf(d.severity = "Fatal") \in 0..1
        /\ OneIf(CountsAsError(e, d)) \in 0..1
    BY DEF OneIf, CountsAsError
  <2>5. e.fatal_count \in Nat /\ e.error_count \in Nat /\ e.warning_count \in Nat
    BY DEF Engine
  <2> HIDE DEF r
  <2>6. QED
    BY <2>1, <2>2, <2>3, <2>4, <2>5 DEF CountsAgree
<1>4. QED
  BY <1>1, <1>2, <1>3

(* Emission never takes a store beyond the limits of the policy it is       *)
(* under, provided the counters agree with the store.                       *)
LEMMA WithinLimitsEmitted ==
  ASSUME NEW D, DiagnosticSet(D), NEW e \in Engine(D), NEW d \in D,
         CountsAgree(e), WithinLimits(e)
  PROVE  WithinLimits(Emitted(e, d))
<1>1. CASE ~ ShouldAccept(e, d)
  BY <1>1 DEF Emitted
<1>2. CASE ShouldAccept(e, d) /\ IsFull(e)
  <2> DEFINE t == [e EXCEPT !.truncated = TRUE]
  <2>1. t.diagnostics = e.diagnostics /\ t.policy = e.policy
    BY DEF Engine
  <2>2. \A sev : StoredCount(t, sev) = StoredCount(e, sev)
    BY <2>1 DEF StoredCount, Stored
  <2>3. Emitted(e, d) = t
    BY <1>2 DEF Emitted
  <2> HIDE DEF t
  <2>4. QED
    BY <2>1, <2>2, <2>3 DEF WithinLimits
<1>3. CASE ShouldAccept(e, d) /\ ~ IsFull(e)
  <2> DEFINE r == Recorded(e, d)
  <2>1. Emitted(e, d) = r
    BY <1>3 DEF Emitted
  <2>2. \A sev : /\ StoredCount(r, sev) = StoredCount(e, sev) + OneIf(d.severity = sev)
                 /\ StoredCount(e, sev) \in Nat
    BY StoredRecorded, StoredFinite
  <2>3. r.policy = e.policy /\ Len(r.diagnostics) = Len(e.diagnostics) + 1
    BY RecordedType
  <2>4. /\ e.fatal_count \in Nat /\ e.error_count \in Nat /\ e.warning_count \in Nat
        /\ Len(e.diagnostics) \in Nat
        /\ e.policy.max_diagnostics \in Nat /\ e.policy.warning_limit \in Nat
        /\ e.policy.error_limit \in Nat
    BY DEF Engine, DiagnosticsPolicy
  <2> HIDE DEF r
  <2>5. Within(r.policy.max_diagnostics, Len(r.diagnostics))
    BY <1>3, <2>3, <2>4 DEF IsFull, LimitReached, Within
  <2>6. Within(r.policy.warning_limit, StoredCount(r, "Warning"))
    BY <1>3, <2>2, <2>3, <2>4 DEF ShouldAccept, LimitReached, Within, OneIf,
                                  CountsAgree, WithinLimits
  <2>7. Within(r.policy.error_limit, StoredCount(r, "Error"))
    BY <1>3, <2>2, <2>3, <2>4 DEF ShouldAccept, LimitReached, Within, OneIf,
                                  CountsAgree, WithinLimits
  <2>8. QED
    BY <2>1, <2>5, <2>6, <2>7 DEF WithinLimits
<1>4. QED
  BY <1>1, <1>2, <1>3

(* The counters stand for at least the fatals, the errors and the promoted  *)
(* warnings in the store.                                                    *)
LEMMA GraveCounted ==
  ASSUME NEW D, NEW e \in Engine(D), CountsAgree(e),
         e.policy.warnings_as_errors =>
           e.error_count = StoredCount(e, "Error") + StoredCount(e, "Warning")
  PROVE  LET all == GraveBefore(e, Len(e.diagnostics) + 1)
         IN  /\ Cardinality(all) \in Nat
             /\ Cardinality(all) <= e.fatal_count + e.error_count
<1> DEFINE F == Stored(e, "Fatal")
           E == Stored(e, "Error")
           W == IF e.policy.warnings_as_errors THEN Stored(e, "Warning") ELSE {}
           all == GraveBefore(e, Len(e.diagnostics) + 1)
<1>1. /\ Len(e.diagnostics) \in Nat /\ DOMAIN e.diagnostics = 1..Len(e.diagnostics)
      /\ e.fatal_count \in Nat /\ e.error_count \in Nat
  BY DEF Engine
<1>2. all = (F \union E) \union W
  <2>1. (Len(e.diagnostics) + 1) - 1 = Len(e.diagnostics)
    BY <1>1
  <2>2. QED
    BY <1>1, <2>1 DEF GraveBefore, Stored, CountsAsError
<1>3. IsFiniteSet(F) /\ IsFiniteSet(E) /\ IsFiniteSet(W)
  BY StoredFinite, FS_EmptySet
<1>4. /\ Cardinality(F) = e.fatal_count /\ Cardinality(E) \in Nat /\ Cardinality(W) \in Nat
      /\ Cardinality(E) + Cardinality(W) <= e.error_count
  <2>1. /\ StoredCount(e, "Error") \in Nat /\ StoredCount(e, "Warning") \in Nat
        /\ Cardinality({}) = 0
    BY StoredFinite, FS_EmptySet
  <2>2. CASE e.policy.warnings_as_errors
    BY <1>1, <2>1, <2>2 DEF CountsAgree, StoredCount
  <2>3. CASE ~ e.policy.warnings_as_errors
    BY <1>1, <2>1, <2>3 DEF CountsAgree, StoredCount
  <2>4. QED
    BY <2>2, <2>3
<1> HIDE DEF F, E, W, all
<1>5. /\ IsFiniteSet(F \union E)
      /\ Cardinality(F \union E) = Cardinality(F) + Cardinality(E) - Cardinality(F \cap E)
  BY <1>3, FS_Union
<1>6. /\ IsFiniteSet((F \union E) \union W)
      /\ Cardinality((F \union E) \union W) =
           Cardinality(F \union E) + Cardinality(W) - Cardinality((F \union E) \cap W)
  BY <1>3, <1>5, FS_Union
<1>7. Cardinality(F \cap E) \in Nat /\ Cardinality((F \union E) \cap W) \in Nat
  <2>1. IsFiniteSet(F \cap E) /\ IsFiniteSet((F \union E) \cap W)
    BY <1>3, <1>5, FS_Intersection
  <2>2. QED
    BY <2>1, FS_CardinalityType
<1>8. Cardinality(all) \in Nat
  BY <1>2, <1>6, FS_CardinalityType
<1>9. Cardinality(all) <= e.fatal_count + e.error_count
  BY <1>1, <1>2, <1>4, <1>5, <1>6, <1>7
<1>10. QED
  BY <1>8, <1>9 DEF all

(* What is stored before a place does not change when one more is recorded. *)
LEMMA GraveKept ==
  ASSUME NEW D, NEW e \in Engine(D), NEW d \in D, NEW i \in 1..(Len(e.diagnostics) + 1)
  PROVE  GraveBefore(Recorded(e, d), i) = GraveBefore(e, i)
<1> DEFINE n == Len(e.diagnostics)
           r == Recorded(e, d)
<1>1. n \in Nat /\ e.diagnostics \in Seq(D)
  BY DEF Engine
<1>2. r.diagnostics = Append(e.diagnostics, d) /\ r.policy = e.policy
  BY DEF Recorded
<1>3. \A j \in 1..n : r.diagnostics[j] = e.diagnostics[j]
  BY <1>1, <1>2
<1>4. \A j \in 1..(i - 1) : j \in 1..n
  BY <1>1
<1> HIDE DEF n, r
<1>5. \A j \in 1..(i - 1) : r.diagnostics[j] = e.diagnostics[j]
  BY <1>3, <1>4
<1>6. GraveBefore(r, i) = GraveBefore(e, i)
  BY <1>2, <1>5 DEF GraveBefore, CountsAsError
<1>7. QED
  BY <1>6 DEF r

(* Emission stores no Fatal behind as many fatals and errors as the limit   *)
(* allows, provided the counters stand for all of these.                    *)
LEMMA FatalsInTimeEmitted ==
  ASSUME NEW D, DiagnosticSet(D), NEW e \in Engine(D), NEW d \in D,
         CountsAgree(e), FatalsInTime(e),
         e.policy.warnings_as_errors =>
           e.error_count = StoredCount(e, "Error") + StoredCount(e, "Warning")
  PROVE  FatalsInTime(Emitted(e, d))
<1>1. CASE ~ ShouldAccept(e, d)
  BY <1>1 DEF Emitted
<1>2. CASE ShouldAccept(e, d) /\ IsFull(e)
  <2> DEFINE t == [e EXCEPT !.truncated = TRUE]
  <2>1. t.diagnostics = e.diagnostics /\ t.policy = e.policy
    BY DEF Engine
  <2>2. Emitted(e, d) = t
    BY <1>2 DEF Emitted
  <2> HIDE DEF t
  <2>3. /\ Stored(t, "Fatal") = Stored(e, "Fatal")
        /\ \A i : GraveBefore(t, i) = GraveBefore(e, i)
    BY <2>1 DEF Stored, GraveBefore, CountsAsError
  <2>4. QED
    BY <2>1, <2>2, <2>3 DEF FatalsInTime
<1>3. CASE ShouldAccept(e, d) /\ ~ IsFull(e)
  <2> DEFINE n == Len(e.diagnostics)
             r == Recorded(e, d)
  <2>1. n \in Nat /\ DOMAIN e.diagnostics = 1..n /\ e.diagnostics \in Seq(D)
    BY DEF Engine
  <2>2. r.diagnostics = Append(e.diagnostics, d) /\ r.policy = e.policy /\ Emitted(e, d) = r
    BY <1>3 DEF Recorded, Emitted
  <2>3. /\ DOMAIN r.diagnostics = 1..(n + 1)
        /\ \A i \in 1..n : r.diagnostics[i] = e.diagnostics[i]
        /\ r.diagnostics[n + 1] = d
    BY <2>1, <2>2
  <2>4. \A i \in 1..(n + 1) : GraveBefore(r, i) = GraveBefore(e, i)
    BY GraveKept
  <2>5. /\ e.fatal_count \in Nat /\ e.error_count \in Nat /\ e.policy.error_limit \in Nat
    BY DEF Engine, DiagnosticsPolicy
  <2>6. /\ Cardinality(GraveBefore(e, n + 1)) \in Nat
        /\ Cardinality(GraveBefore(e, n + 1)) <= e.fatal_count + e.error_count
    BY GraveCounted
  <2> HIDE DEF n, r
  <2>7. ASSUME e.policy.error_limit > 0, NEW i \in Stored(r, "Fatal")
        PROVE  Cardinality(GraveBefore(r, i)) < e.policy.error_limit
    <3>1. i \in 1..(n + 1) /\ r.diagnostics[i].severity = "Fatal"
      BY <2>3, <2>7 DEF Stored
    <3>2. CASE i = n + 1
      <4>1. e.fatal_count + e.error_count < e.policy.error_limit
        BY <1>3, <2>3, <2>5, <2>7, <3>1, <3>2 DEF ShouldAccept, LimitReached
      <4>2. GraveBefore(r, i) = GraveBefore(e, n + 1)
        BY <2>4, <3>1, <3>2
      <4>3. QED
        BY <2>5, <2>6, <4>1, <4>2
    <3>3. CASE i # n + 1
      <4>1. i \in 1..n
        BY <2>1, <3>1, <3>3
      <4>2. i \in Stored(e, "Fatal")
        BY <2>1, <2>3, <3>1, <4>1 DEF Stored
      <4>3. QED
        BY <2>4, <2>7, <3>1, <4>2 DEF FatalsInTime
    <3>4. QED
      BY <3>2, <3>3
  <2>8. QED
    BY <2>2, <2>7 DEF FatalsInTime
<1>4. QED
  BY <1>1, <1>2, <1>3
=============================================================================
