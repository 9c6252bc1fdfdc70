--------------------------- MODULE AbstractBuilder ---------------------------
(***************************************************************************)
(* What OpenApiExampleBuilder.build promises: for the chosen schema name   *)
(* it returns, in one step, the value of the copy-on-recurse semantics Gen *)
(* (or raises), and it always returns.                                     *)
(***************************************************************************)
EXTENDS SchemaSemantics

CONSTANT Roots     \* schema names build() is called with

VARIABLES root, status, result

absVars == <<root, status, result>>

Init ==
    /\ root \in Roots
    /\ status = "idle"
    /\ result = NullVal

Build ==
    LET o == BuildOutcome(root)
    IN  /\ status = "idle"
        /\ status' = IF o.ok THEN "done" ELSE "failed"
        /\ result' = o.val
        /\ UNCHANGED root

SafetySpec == Init /\ [][Build]_absVars

\* Build is enabled in every idle state (Gen is total), so weak fairness of
\* Build amounts to: build() eventually returns or raises.
Returns == <>(status # "idle")

Spec == SafetySpec /\ Returns
=============================================================================
