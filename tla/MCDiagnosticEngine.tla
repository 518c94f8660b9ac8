------------------------- MODULE MCDiagnosticEngine -------------------------
(* Instances of DiagnosticEngine for TLC: every policy field is exercised.  *)
EXTENDS DiagnosticEngine

Recovering == [DefaultPolicy EXCEPT !.warning_limit = 1, !.max_diagnostics = 2]
Strict == [DefaultPolicy EXCEPT !.warnings_as_errors = TRUE,
                                !.error_recovery = FALSE, !.warning_limit = 2,
                                !.error_limit = 2, !.show_hints = FALSE]
Terse == [DefaultPolicy EXCEPT !.suppress_warnings = TRUE, !.show_notes = FALSE,
                               !.error_limit = 1, !.error_recovery = FALSE]
MCPolicies == {DefaultPolicy, Recovering, Strict, Terse}
=============================================================================
