---------------------------- MODULE MCLifeCycle ----------------------------
(***************************************************************************)
(* Small instances of LifeCycle.                                            *)
(***************************************************************************)
EXTENDS LifeCycle

CONSTANTS main, dialog, other

Nobody == [w \in Client |-> None]
DialogOfMain == [w \in Client |-> IF w = dialog THEN main ELSE None]
\* other is in the group of dialog, and dialog belongs to main.
GroupOfDialog == [w \in Client |-> IF w = other THEN dialog ELSE None]
NoHints == [w \in Client |-> None]
MainNormal == [w \in Client |-> IF w = main THEN "Normal" ELSE "Iconic"]
TwoMaps == {<<>>, <<1, 0>>}
Anywhere == [w \in Client |-> {}]
OtherElsewhere == [w \in Client |-> IF w = other THEN {1} ELSE {}]
FirstRun == {<<>>}

=============================================================================
