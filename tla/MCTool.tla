------------------------------- MODULE MCTool -------------------------------
(* Small instances of Tool.                                                 *)
EXTENDS Tool

Rule(start, stop) == [start |-> start, stop |-> stop]

\* A unit that is stopped and one that starts later, for good.
MCRuleSets == {<<Rule("OnStart", "After"), Rule("After", "OnStart")>>}
=============================================================================
