------------------------------- MODULE MCSink -------------------------------
(***************************************************************************)
(* Instances of Sink and ErrorCollector for TLC.                           *)
(***************************************************************************)
EXTENDS ErrorCollector

CONSTANTS c1, c2

MCCallers == {c1, c2}
MCLevelOf == [i \in Item |-> CASE i % 3 = 1 -> "warning"
                               [] i % 3 = 2 -> "error"
                               [] OTHER -> "unleveled"]
=============================================================================
