--------------------------- MODULE MCInteraction ---------------------------
(***************************************************************************)
(* Interaction with small menus.                                            *)
(***************************************************************************)
EXTENDS Interaction, TLC

CONSTANTS m1, m2, p1, p2

entry(f) == [func |-> f, sub |-> None]

MCPinnedOf == (m1 :> p1) @@ (m2 :> p2)

MCMenuItems ==
  (m1 :> <<[func |-> "menu", sub |-> m2], entry("move"), entry("function")>>) @@
  (m2 :> <<entry("pin"), entry("resize"), entry("exec"), entry("nop")>>)

MCBound ==
  ("root" :> {[func |-> "menu", sub |-> m1], entry("move"), entry("altcontext")}) @@
  ("window" :> {[func |-> "menu", sub |-> m1], entry("resize"), entry("delete")}) @@
  ("title" :> {entry("function"), entry("altkeymap")}) @@
  ("alternate" :> {entry("identify")})

MCFunctionItems == <<"move", "deltastop", "resize">>

MCSymmetry == Permutations(Button)

=============================================================================
