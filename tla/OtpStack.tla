------------------------------ MODULE OtpStack ------------------------------
(***************************************************************************)
(* The list of "owls" (OtpWinList) of otp.c and the operations that reorder *)
(* it.  Every managed window has an owl, and so has every icon; the owls of *)
(* a screen form one list, bottom to top, that must ascend in effective     *)
(* priority.                                                                *)
(*                                                                          *)
(* The doubly linked list is modelled by the set of owls below each owl:    *)
(* `under[o]` holds everything that following the `below` pointers from o   *)
(* meets.  Nothing here is recursive, so that theorems can be proved of it. *)
(*                                                                          *)
(* The module has no variables.  Its operators take and return the record   *)
(* that Otp keeps in its variable `otp`; the field `ok` falls to FALSE where *)
(* the code fails an assertion or calls abort().                            *)
(***************************************************************************)
EXTENDS Integers

CONSTANTS
  Win,          \* the client windows; a window also stands for its own owl
  Icon,         \* the icons; an icon also stands for its own owl
  None,         \* NULL, or a property that is not there
  Foreign,      \* an X window that no client of ctwm owns
  WinOf,        \* the window an icon belongs to
  TransientFor, \* WM_TRANSIENT_FOR of a window, None where it is not transient
  Group,        \* the window group a window names, None where it names none
  WType         \* the EWMH type of a window

ASSUME OwlAssumption ==
  /\ Win \cap Icon = {}
  /\ None \notin Win \cup Icon \cup {Foreign} \cup Int
  /\ Foreign \notin Win \cup Icon

ASSUME HintAssumption ==
  /\ WinOf \in [Icon -> Win]
  /\ TransientFor \in [Win -> Win \cup {None, Foreign}]
  /\ \A w \in Win : TransientFor[w] # w
  /\ Group \in [Win -> Win \cup {None}]
  /\ WType \in [Win -> {"normal", "dock", "desktop"}]

Owl == Win \cup Icon

(***************************************************************************)
(* Priorities run from 0 to OTP_MAX around the neutral OTP_ZERO.  The EWMH  *)
(* states shift the base priority of an owl or replace it (ewmh.h).         *)
(***************************************************************************)
OTP_ZERO == 8
OTP_MAX == 2 * OTP_ZERO
EWMH_PRI_ABOVE == 2
EWMH_PRI_DOCK == 4
EWMH_PRI_FULLSCREEN == 6
EWMH_PRI_DESKTOP == -8

Aflag == {"ABOVE", "BELOW", "FULLSCREEN"}

Clamp(n) == IF n < 0 THEN 0 ELSE IF n > OTP_MAX THEN OTP_MAX ELSE n

\* The list of a screen and what the effective priorities depend on.
StackType ==
  [ listed  : SUBSET Owl,           \* the owls on the list
    under   : [Owl -> SUBSET Owl],  \* the owls below each of them
    base    : [Owl -> 0 .. OTP_MAX],
    flags   : [Owl -> SUBSET Aflag],
    focus   : Win \cup {None},      \* Scr->Focus
    managed : SUBSET Win,           \* the windows GetTwmWindow() finds
    small   : SUBSET Win,           \* the transients TransientOnTop lets pass
    ok      : BOOLEAN ]             \* no assertion has failed

EmptyStack ==
  [ listed  |-> {},
    under   |-> [o \in Owl |-> {}],
    base    |-> [o \in Owl |-> OTP_ZERO],
    flags   |-> [o \in Owl |-> {}],
    focus   |-> None,
    managed |-> {},
    small   |-> {},
    ok      |-> TRUE ]

TwmWinOf(o) == IF o \in Win THEN o ELSE WinOf[o]

GetTwmWindow(s, x) == IF x \in s.managed THEN x ELSE None

isTransientOf(t, w) == /\ t \in Win /\ w \in Win
                       /\ TransientFor[t] = w

isGroupLeader(w) == Group[w] \in {None, w}

isGroupLeaderOf(l, w) == /\ isGroupLeader(l) /\ ~isGroupLeader(w)
                         /\ Group[l] = Group[w]

\* Should x stay above o if o was raised?  Whether the area of a transient is
\* under TransientOnTop percent of its window's is a fact of the geometry.
shouldStayAbove(s, x, o) == isTransientOf(x, o) /\ x \in s.small

(***************************************************************************)
(* OwlEffectivePriority: the base, shifted by ABOVE and BELOW, jammed near  *)
(* the top while the window, or the window it is transient for, is focused  *)
(* and it carries FULLSCREEN.  A transient whose window ctwm does not       *)
(* manage compares Scr->Focus with the NULL of GetTwmWindow.                *)
(***************************************************************************)
Shifted(w, base, flags) ==
  base + (IF "ABOVE" \in flags THEN EWMH_PRI_ABOVE ELSE 0)
       - (IF "BELOW" \in flags THEN EWMH_PRI_ABOVE ELSE 0)
       - (IF /\ "BELOW" \in flags
             /\ WType[w] = "dock"
             /\ base = OTP_ZERO + EWMH_PRI_DOCK
          THEN EWMH_PRI_DOCK ELSE 0)

OnFocus(s, w) ==
  \/ s.focus = w
  \/ /\ TransientFor[w] # None
     /\ s.focus = GetTwmWindow(s, TransientFor[w])

Pri(s, o) ==
  Clamp(IF "FULLSCREEN" \in s.flags[o] /\ OnFocus(s, TwmWinOf(o))
        THEN OTP_ZERO + EWMH_PRI_FULLSCREEN
        ELSE Shifted(TwmWinOf(o), s.base[o], s.flags[o]))

DisplayPri(s, w) == Pri(s, w) - OTP_ZERO

(***************************************************************************)
(* Places in the list.                                                      *)
(***************************************************************************)
\* What OwlRightBelow(p) has under it, itself included: the owls met from the
\* bottom before the first whose priority reaches p.
BelowPriority(s, p) ==
  {x \in s.listed : \A y \in s.under[x] \cup {x} : Pri(s, y) < p}

Over(s, o) == {x \in s.listed : o \in s.under[x]}

\* owl->above: one owl, or NULL at the top.
NextUp(s, o) ==
  IF Over(s, o) = {} THEN {None}
  ELSE {x \in Over(s, o) : s.under[x] = s.under[o] \cup {o}}

Layer(s, o) == {y \in Owl : Pri(s, y) = Pri(s, o)}

\* The owls a walk up, or down, from o meets before one that is not in S.
RunAbove(s, o, S) ==
  {x \in Over(s, o) : (s.under[x] \cup {x}) \cap Over(s, o) \subseteq S}

RunBelow(s, o, S) ==
  {x \in s.under[o] : {y \in s.under[o] : y = x \/ x \in s.under[y]} \subseteq S}

\* OtpCheckConsistency: going up, the effective priority never goes backward.
Sorted(s) == \A x \in s.listed : \A y \in s.under[x] : Pri(s, y) <= Pri(s, x)

Checked(s) == [s EXCEPT !.ok = s.ok /\ Sorted(s)]

(***************************************************************************)
(* Taking owls off the list and putting them back.                          *)
(***************************************************************************)
RemoveOwl(s, w) ==
  [s EXCEPT !.listed = s.listed \ {w},
            !.under = [o \in Owl |-> IF o = w THEN {} ELSE s.under[o] \ {w}]]

\* Put w, which is off the list, over the owls of `low` (a bottom part of the
\* list); the owls of `follow`, among them, come along and end up just above w
\* in the order they had, with the base priority and flags of w (PRI_CP).
PutOver(s, w, low, follow) ==
  LET stay == low \ follow
      below(o) ==
        CASE o = w -> stay
          [] o \in follow -> stay \cup {w} \cup (s.under[o] \cap follow)
          [] o \in stay -> s.under[o] \ follow
          [] o \in s.listed \ (low \cup {w}) -> s.under[o] \cup {w}
          [] OTHER -> s.under[o]
  IN  [s EXCEPT
        !.listed = s.listed \cup {w},
        !.under = [o \in Owl |-> below(o)],
        !.base = [o \in Owl |-> IF o \in follow THEN s.base[w] ELSE s.base[o]],
        !.flags = [o \in Owl |-> IF o \in follow THEN s.flags[w]
                                                 ELSE s.flags[o]]]

\* The assertions of InsertOwlAbove for the owls of `put`, which now lie over
\* `stay`: none is under the top of `stay` nor over its own upper neighbour.
InPlace(s, put, stay) ==
  \A x \in put :
    /\ \A y \in stay : s.under[y] \cup {y} = stay => Pri(s, y) <= Pri(s, x)
    /\ \A y \in s.listed :
         s.under[y] = s.under[x] \cup {x} => Pri(s, x) <= Pri(s, y)

PutAsserted(s, w, low, follow, put) ==
  LET r == PutOver(s, w, low, follow)
  IN  [r EXCEPT !.ok = s.ok /\ InPlace(r, put, low \ follow)]

\* InsertOwlAbove(w, y) with `low` being y and everything under it, after
\* RaiseSmallTransientsOfAbove(w, y) where the code calls that first.
InsertOwlAbove(s, w, low) == PutAsserted(s, w, low, {}, {w})

RaiseOver(s, w, low) ==
  LET follow == {x \in low : shouldStayAbove(s, x, w)}
  IN  PutAsserted(s, w, low, follow, follow \cup {w})

InsertOwlOffByOne(s, w, where) ==  \* mutant: searches for p, not p + 1
  LET p == Pri(s, w) - (IF where = "Above" THEN 0 ELSE 1)
      low == BelowPriority(s, p)
      follow == {x \in low : shouldStayAbove(s, x, w)}
  IN  PutAsserted(s, w, low, follow, {w} \cup follow)

\* InsertOwl: to the top (Above) or the bottom (Below) of w's layer.  The small
\* transients right at the end of the search stay where they are, the others
\* are raised over them; the first owl of an empty list is asserted nothing.
InsertOwl(s, w, where) ==
  LET p == Pri(s, w) - (IF where = "Above" THEN 0 ELSE 1)
      low == BelowPriority(s, p + 1)
      follow == {x \in low : shouldStayAbove(s, x, w)}
      popped == {x \in follow : \A y \in low : x \in s.under[y] => y \in follow}
  IN  PutAsserted(s, w, low, follow,
                  IF s.listed = {} THEN {} ELSE {w} \cup (follow \ popped))

Reinsert(s, w, where) == InsertOwl(RemoveOwl(s, w), w, where)

SetOwlPriorityLate(s, w, pri, where) ==  \* mutant: inserts before it sets
  [Reinsert(s, w, where) EXCEPT !.base[w] = Clamp(pri)]

SetOwlPriorityUnbounded(s, w, pri, where) ==  \* mutant: forgets the bounds
  Reinsert([s EXCEPT !.base[w] = pri], w, where)

SetOwlPriority(s, w, pri, where) ==
  Reinsert([s EXCEPT !.base[w] = Clamp(pri)], w, where)

\* OtpRemove frees the owl, then checks the list.
OtpRemove(s, w) ==
  Checked([RemoveOwl(s, w) EXCEPT !.base[w] = OTP_ZERO, !.flags[w] = {}])

OtpRestackWindow(s, w) == Checked(Reinsert(s, w, "Above"))

=============================================================================
