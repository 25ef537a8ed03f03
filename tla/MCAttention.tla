---------------------------- MODULE MCAttention ----------------------------
(***************************************************************************)
(* Two or three windows for Attention, two of which overlap.                *)
(***************************************************************************)
EXTENDS Attention, TLC

CONSTANTS left, right, third

\* The pointer is off the windows, over one of them, or where two overlap.
Places == {"root", "left", "title", "both", "right", "third"}
Where ==
  [p \in Places |->
     [w \in Win |->
        CASE w = left -> CASE p = "title" -> "frame"
                           [] p \in {"left", "both"} -> "client"
                           [] OTHER -> "none"
          [] w = right -> IF p = "both" THEN "frame"
                          ELSE IF p = "right" THEN "client" ELSE "none"
          [] w = third -> IF p = "third" THEN "frame" ELSE "none"]]

Middle == [w \in Win |-> CASE w = left -> "both" [] w = right -> "right" [] OTHER -> "third"]

TwoWindows == <<left, right>>
ThreeWindows == <<left, right, third>>

Everywhere == [w \in Win |-> WorkSpace]
RightElsewhere == [w \in Win |-> IF w = right THEN {1, 2} ELSE {1}]

=============================================================================
