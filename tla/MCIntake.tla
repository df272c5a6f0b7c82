------------------------------ MODULE MCIntake ------------------------------
(* Small instances of Intake for TLC. *)
EXTENDS Intake, TLC

CONSTANTS foo, xfoo     \* the handles "foo" and "x-foo"

\* The strategy id of x-foo, "Class-x-foo", ends in both handles.
MCHandlesOf == (foo :> <<foo>>) @@ (xfoo :> <<xfoo, foo>>)

\* foo's entries are market data, x-foo's are order events.
MCKinds == (foo :> {"noise"}) @@ (xfoo :> {"trade"})

MCBoots == {[sid |-> foo, mode |-> "live", proto |-> "v1"],
            [sid |-> xfoo, mode |-> "sandbox", proto |-> "v1"],
            [sid |-> xfoo, mode |-> "live", proto |-> "v0"]}
=============================================================================
