-------------------------- MODULE MCReportRequests --------------------------
(* Small instances of ReportRequests for TLC. *)
EXTENDS ReportRequests, TLC

CONSTANTS a, b          \* two pods

\* Both pods run in sandbox mode and have announced themselves.
MCRegistry == [s \in {a, b} |-> "sandbox"]
\* Only one of the two has announced itself.
MCPartialRegistry == [s \in {a} |-> "sandbox"]

MCSymmetry == Permutations(Cmds)
=============================================================================
