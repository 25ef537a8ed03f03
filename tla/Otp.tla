-------------------------------- MODULE Otp --------------------------------
(***************************************************************************)
(* The stacking of windows and icons under OnTopPriority: otp.c and the     *)
(* handlers that call into it.  ctwm is one thread, so an action is one     *)
(* handler run to its end, but for the two loops over the transients of a   *)
(* window, which reorder the list they walk: those run step by step, with   *)
(* `job` holding their local variables and nothing else enabled meanwhile.  *)
(***************************************************************************)
EXTENDS OtpStack

CONSTANTS
  DefaultPriority,  \* OnTopPriority without a list, for windows and for icons
  DefaultSwitching, \* PrioritySwitching without a list, for both
  Preferences,      \* what the lists of the configuration may say of a name
  UserPriorities,   \* bound: the arguments of f.setpriority
  UserDeltas,       \* bound: the arguments of f.changepriority
  Togglable,        \* bound: the owls f.priorityswitching is invoked on
  Switchable,       \* bound: the owls f.switchpriority is invoked on
  Zooms,            \* bound: the zoom functions invoked
  Zoomable,         \* bound: the windows they are invoked on
  StackModeWins,    \* the windows whose stacking requests are honoured
  ClientFlags,      \* bound: the _NET_WM_STATE bits a client may set itself
  InputWins,        \* the windows that take the focus (wmhints->input)
  RaiseOnResize     \* NoRaiseOnResize is not set

ZoomFunc == {"zoom", "fullscreen", "xfullscreen"}

ASSUME ConfigAssumption ==
  /\ DefaultPriority \in [{"win", "icon"} -> 0 .. OTP_MAX]
  /\ DefaultSwitching \in [{"win", "icon"} -> BOOLEAN]
  /\ Preferences \subseteq
       [pri : (0 .. OTP_MAX) \cup {None}, switch : BOOLEAN]
  /\ UserPriorities \subseteq Int
  /\ UserDeltas \subseteq Int
  /\ Togglable \subseteq Owl
  /\ Switchable \subseteq Owl
  /\ Zooms \subseteq ZoomFunc
  /\ Zoomable \subseteq Win
  /\ StackModeWins \subseteq Win
  /\ ClientFlags \subseteq {"ABOVE", "BELOW"}
  /\ InputWins \subseteq Win
  /\ RaiseOnResize \in BOOLEAN

\* A window has one icon at a time: OtpReassignIcon hands the owl of the icon
\* it had to the icon it gets.
ASSUME IconAssumption ==
  \A i, j \in Icon : WinOf[i] = WinOf[j] => i = j

\* A property that is not there is not one that holds no flags.
ASSUME StashAssumption == \A flags \in SUBSET Aflag : flags # None

VARIABLES
  otp,        \* the list, see StackType
  switching,  \* owl->switching
  stash,      \* the XA_CTWM_OTP_AFLAGS property of each window, None if unset
  ewmh,       \* twm_win->ewmhFlags, also the _NET_WM_STATE property
  zoomed,     \* twm_win->zoomed
  job         \* the loop over transients under way

vars == <<otp, switching, stash, ewmh, zoomed, job>>

Idle == [kind |-> "idle"]

\* TryToMoveTransientsOfTo has got to the owl `next`.  What called it goes on
\* to give `owl` the priority too and, if `tell`, to the end of
\* otp_priority_handler; a zoom then leaves the sizes of `small`.
Walks == [ kind : {"walk"}, owl : Owl, pri : Int, where : {"Above", "Below"},
           next : Owl \cup {None}, tell : BOOLEAN, small : SUBSET Win ]

\* OtpFocusWindowBE still has the transients of `todo` to reinsert, in the
\* order they had when it collected them.  On the way out of a window the
\* focus goes on to `then`.
Shuffles == [ kind : {"focus"}, todo : SUBSET Win, order : [Owl -> SUBSET Owl],
              out : BOOLEAN, then : Win \cup {None} ]

TypeOK ==
  /\ otp \in StackType
  /\ switching \in [Owl -> BOOLEAN]
  /\ stash \in [Win -> (SUBSET Aflag) \cup {None}]
  /\ ewmh \in [Win -> SUBSET Aflag]
  /\ zoomed \in [Win -> ZoomFunc \cup {"none"}]
  /\ job \in {Idle} \cup Walks \cup Shuffles

Init ==
  /\ otp = EmptyStack
  /\ switching = [o \in Owl |-> FALSE]
  /\ stash = [w \in Win |-> None]
  /\ ewmh = [w \in Win |-> {}]
  /\ zoomed = [w \in Win |-> "none"]
  /\ job = Idle

Ready == otp.ok /\ job = Idle

Kind(o) == IF o \in Win THEN "win" ELSE "icon"

IconOfNever(s, w) == {None}  \* mutant: the owl of the icon is forgotten

\* The icon of w on the list, or NULL.
IconOf(s, w) ==
  IF \E i \in Icon \cap s.listed : WinOf[i] = w
  THEN {i \in Icon \cap s.listed : WinOf[i] = w} ELSE {None}

\* The sizes after the size of w alone may have changed.
Sizes(s, w) ==
  {sm \in SUBSET {t \in Win : TransientFor[t] \in Win} :
     \A t \in Win : t # w /\ TransientFor[t] # w => (t \in sm <=> t \in s.small)}

(***************************************************************************)
(* What the code tells the client: the ABOVE and BELOW of _NET_WM_STATE say *)
(* where the window effectively is, its FULLSCREEN how it is zoomed.        *)
(***************************************************************************)
AboveBelow(s, w) ==
  LET pri == DisplayPri(s, w)
      usual == \/ WType[w] = "dock" /\ pri = EWMH_PRI_DOCK
               \/ WType[w] = "desktop" /\ pri = EWMH_PRI_DESKTOP
  IN  {f \in {"ABOVE", "BELOW"} :
         ~usual /\ (IF f = "ABOVE" THEN pri > 0 ELSE pri < 0)}

TellAboveBelow(s, w) ==
  [ewmh EXCEPT ![w] = (@ \ {"ABOVE", "BELOW"}) \cup AboveBelow(s, w)]

TellZoom(w, func) ==
  [ewmh EXCEPT ![w] = (@ \ {"FULLSCREEN"})
                      \cup {f \in {"FULLSCREEN"} : func = "fullscreen"}]

\* OtpStashAflagsFirstTime
StashFirstTime(s, w) == IF stash[w] = None
                        THEN [stash EXCEPT ![w] = s.flags[w]] ELSE stash

(***************************************************************************)
(* Raising, lowering and changing priorities.                               *)
(***************************************************************************)
WillSwitch(s, o, where) ==
  /\ switching[o]
  /\ IF where = "Above" THEN OTP_MAX - s.base[o] > s.base[o]
                        ELSE OTP_MAX - s.base[o] < s.base[o]

StartWalkAtOwl(s, o, pri, where, tell, sm) ==  \* mutant: starts at o itself
  job' = [ kind |-> "walk", owl |-> o, pri |-> pri, where |-> where,
           next |-> IF o \in Win THEN o ELSE None, tell |-> tell, small |-> sm ]

\* TryToMoveTransientsOfTo starts at the bottom of the layer of o.
StartWalk(s, o, pri, where, tell, sm) ==
  LET rest == s.listed \ BelowPriority(s, Pri(s, o))
  IN  \E first \in {x \in rest : s.under[x] \cap rest = {}} :
        job' = [ kind |-> "walk", owl |-> o, pri |-> pri, where |-> where,
                 next |-> IF o \in Win THEN first ELSE None,
                 tell |-> tell, small |-> sm ]

\* RaiseOwl and LowerOwl, then OtpCheckConsistency.
Move(s, o, where, sm) ==
  IF WillSwitch(s, o, where)
  THEN /\ otp' = s
       /\ StartWalk(s, o, OTP_MAX - s.base[o], where, FALSE, sm)
  ELSE /\ otp' = [Checked(Reinsert(s, o, where)) EXCEPT !.small = sm]
       /\ job' = Idle

InLayer == job.next # None /\ Pri(otp, job.next) = Pri(otp, job.owl)

WalkTurnStays ==  \* mutant: looks at an owl again once it has moved it
  /\ otp.ok /\ job.kind = "walk"
  /\ IF InLayer
     THEN \E up \in NextUp(otp, job.next) :
            job' = [job EXCEPT !.next = IF isTransientOf(@, job.owl) THEN @
                                                                     ELSE up]
     ELSE job' = Idle

\* The owl above is noted before the one at hand moves.
WalkTurn ==
  /\ otp.ok /\ job.kind = "walk"
  /\ IF InLayer
     THEN \E up \in NextUp(otp, job.next) : job' = [job EXCEPT !.next = up]
     ELSE job' = Idle

WalkStep ==
  /\ WalkTurn /\ InLayer
  /\ otp' = IF isTransientOf(job.next, job.owl)
            THEN SetOwlPriority([otp EXCEPT !.flags[job.next] =
                                              otp.flags[job.owl]],
                                job.next, job.pri, job.where)
            ELSE otp
  /\ UNCHANGED <<switching, stash, ewmh, zoomed>>

WalkEnd ==
  /\ WalkTurn /\ ~InLayer
  /\ LET s == Checked(SetOwlPriority(otp, job.owl, job.pri, job.where))
         w == TwmWinOf(job.owl)
     IN  /\ otp' = [s EXCEPT !.small = job.small]
         /\ stash' = IF job.tell THEN StashFirstTime(s, w) ELSE stash
         /\ ewmh' = IF job.tell THEN TellAboveBelow(s, w) ELSE ewmh
  /\ UNCHANGED <<switching, zoomed>>

Raise(o) ==
  /\ Ready /\ o \in otp.listed
  /\ Move(otp, o, "Above", otp.small)
  /\ UNCHANGED <<switching, stash, ewmh, zoomed>>

Lower(o) ==
  /\ Ready /\ o \in otp.listed
  /\ Move(otp, o, "Below", otp.small)
  /\ UNCHANGED <<switching, stash, ewmh, zoomed>>

\* Raises where an owl that may hide o is met above it up to the mirror image
\* of its priority; which of them overlap it on the screen is the geometry's.
RaiseLower(o) ==
  /\ Ready /\ o \in otp.listed
  /\ LET p == IF Pri(otp, o) >= OTP_ZERO THEN Pri(otp, o)
                                         ELSE OTP_MAX - Pri(otp, o)
         hiders == {x \in RunAbove(otp, o, {y \in Owl : Pri(otp, y) <= p}) :
                      ~shouldStayAbove(otp, x, o)}
     IN  \/ hiders # {} /\ Move(otp, o, "Above", otp.small)
         \/ Move(otp, o, "Below", otp.small)
  /\ UNCHANGED <<switching, stash, ewmh, zoomed>>

\* Over the first owl of its layer that hides it.
TinyRaise(o) ==
  /\ Ready /\ o \in otp.listed
  /\ \E x \in RunAbove(otp, o, Layer(otp, o)) :
       /\ ~shouldStayAbove(otp, x, o)
       /\ otp' = Checked(RaiseOver(RemoveOwl(otp, o), o,
                                   (otp.under[x] \ {o}) \cup {x}))
  /\ UNCHANGED <<switching, stash, ewmh, zoomed, job>>

\* Under the first owl of its layer that it hides.
TinyLower(o) ==
  /\ Ready /\ o \in otp.listed
  /\ \E x \in RunBelow(otp, o, Layer(otp, o)) :
       otp' = Checked(InsertOwlAbove(RemoveOwl(otp, o), o, otp.under[x]))
  /\ UNCHANGED <<switching, stash, ewmh, zoomed, job>>

\* A number out of range changes no priority, but otp_priority_handler goes on.
SetPriority(o, n, where) ==
  /\ Ready /\ o \in otp.listed
  /\ IF n \in -OTP_ZERO .. OTP_ZERO
     THEN /\ StartWalk(otp, o, OTP_ZERO + n, where, TRUE, otp.small)
          /\ UNCHANGED <<otp, stash, ewmh>>
     ELSE /\ otp' = Checked(otp)
          /\ stash' = StashFirstTime(otp, TwmWinOf(o))
          /\ ewmh' = TellAboveBelow(otp, TwmWinOf(o))
          /\ UNCHANGED job
  /\ UNCHANGED <<switching, zoomed>>

ChangePriority(o, n) ==
  /\ Ready /\ o \in otp.listed
  /\ StartWalk(otp, o, otp.base[o] + n, IF n < 0 THEN "Below" ELSE "Above",
               TRUE, otp.small)
  /\ UNCHANGED <<otp, switching, stash, ewmh, zoomed>>

SwitchPriority(o) ==
  /\ Ready /\ o \in otp.listed
  /\ LET pri == OTP_MAX - otp.base[o]
     IN  StartWalk(otp, o, pri, IF pri < OTP_ZERO THEN "Below" ELSE "Above",
                   TRUE, otp.small)
  /\ UNCHANGED <<otp, switching, stash, ewmh, zoomed>>

ToggleSwitching(o) ==
  /\ Ready /\ o \in otp.listed
  /\ otp' = Checked(otp)
  /\ switching' = [switching EXCEPT ![o] = ~@]
  /\ stash' = StashFirstTime(otp, TwmWinOf(o))
  /\ ewmh' = TellAboveBelow(otp, TwmWinOf(o))
  /\ UNCHANGED <<zoomed, job>>

\* A client asks to be put over or under another window: it takes the other's
\* base priority, but keeps its own flags.
ForcePlacement(w, x, where) ==
  /\ Ready /\ {w, x} \subseteq otp.managed /\ w # x
  /\ LET s == RemoveOwl([otp EXCEPT !.base[w] = otp.base[x]], w)
     IN  otp' = Checked(InsertOwlAbove(s, w,
                  IF where = "Above" THEN s.under[x] \cup {x} ELSE s.under[x]))
  /\ UNCHANGED <<switching, stash, ewmh, zoomed, job>>

(***************************************************************************)
(* Coming and going.                                                        *)
(***************************************************************************)
\* The window whose priority a new transient or group member inherits: the
\* first of the window list that fits, so the last one added.
Parents(s, w) ==
  LET fits == {x \in s.managed : isTransientOf(w, x) \/ isGroupLeaderOf(x, w)}
  IN  IF fits = {} THEN {None} ELSE fits

EwmhGetInitPriority(w) ==
  CASE WType[w] = "desktop" -> EWMH_PRI_DESKTOP
    [] WType[w] = "dock" -> EWMH_PRI_DOCK
    [] OTHER -> 0

\* AddNewOwl up to the insertion: the attributes of the new owl o of window w
\* whose parent is x and whose name the preferences `pr` match.  `got` are the
\* stashed flags, None where there are none (an icon has none), `state` is
\* what _NET_WM_STATE says.
NewBase(s, o, x, pr) ==
  LET inherited == IF x = None THEN DefaultPriority[Kind(o)] ELSE s.base[x]
      free == x = None \/ TransientFor[TwmWinOf(o)] = None
      wanted == IF free /\ pr.pri # None THEN pr.pri ELSE inherited
  IN  IF wanted = 0 THEN OTP_ZERO + EwmhGetInitPriority(TwmWinOf(o)) ELSE wanted

NewSwitching(o, x, pr) ==
  LET free == x = None \/ TransientFor[TwmWinOf(o)] = None
  IN  IF free /\ pr.switch THEN ~DefaultSwitching[Kind(o)]
      ELSE IF x = None THEN DefaultSwitching[Kind(o)] ELSE switching[x]

NewFlags(s, x, got, state) ==
  (IF x = None THEN {} ELSE s.flags[x])
  \cup (IF got = None THEN state \cap {"ABOVE", "BELOW"}
        ELSE (got \cap {"ABOVE", "BELOW"}) \cup (state \cap {"FULLSCREEN"}))

NewOwl(s, o, x, pr, got, state) ==
  [s EXCEPT !.base[o] = NewBase(s, o, x, pr),
            !.flags[o] = NewFlags(s, x, got, state)]

\* A window is mapped for the first time, or taken over after a restart.  Its
\* _NET_WM_STATE is what it had or what its client put there meanwhile; its
\* contexts are set only after the list has been checked.
AddWindow(w, pr) ==
  /\ Ready /\ w \notin otp.managed
  /\ \E x \in Parents(otp, w), sm \in Sizes(otp, w),
        state \in (SUBSET ClientFlags) \cup {ewmh[w] \cap {"ABOVE", "BELOW"}} :
       LET s == NewOwl([otp EXCEPT !.small = sm], w, x, pr, stash[w], state)
           r == Checked(InsertOwl(s, w, "Above"))
       IN  /\ otp' = [r EXCEPT !.managed = otp.managed \cup {w}]
           /\ switching' = [switching EXCEPT ![w] = NewSwitching(w, x, pr)]
           /\ stash' = IF Pri(s, w) # OTP_ZERO \/ s.flags[w] # {}
                       THEN StashFirstTime(s, w) ELSE stash
           /\ ewmh' = [ewmh EXCEPT ![w] = AboveBelow(r, w)]
  /\ UNCHANGED <<zoomed, job>>

\* The icon window is made when it is first needed.
AddIcon(i, pr) ==
  /\ Ready /\ i \notin otp.listed /\ WinOf[i] \in otp.managed
  /\ LET s == NewOwl(otp, i, None, pr, None, ewmh[WinOf[i]])
     IN  otp' = Checked(InsertOwl(s, i, "Above"))
  /\ switching' = [switching EXCEPT ![i] = NewSwitching(i, None, pr)]
  /\ UNCHANGED <<stash, ewmh, zoomed, job>>

\* OtpFreeIcon: the icon is dropped, with a new name that has no icon.
FreeIcon(i) ==
  /\ Ready /\ i \in otp.listed
  /\ otp' = OtpRemove(otp, i)
  /\ switching' = [switching EXCEPT ![i] = FALSE]
  /\ UNCHANGED <<stash, ewmh, zoomed, job>>

\* HandleDestroyNotify, also on the way of a withdrawn window, whose properties
\* outlive it.  The list is checked while Scr->Focus and the contexts of the
\* window are still there.
RemoveWindow(w, withdrawn) ==
  /\ Ready /\ w \in otp.managed
  /\ \E i \in IconOf(otp, w) :
       LET s == IF i = None THEN otp ELSE OtpRemove(otp, i)
           r == OtpRemove(s, w)
       IN  /\ otp' = [r EXCEPT !.focus = IF @ = w THEN None ELSE @,
                               !.managed = @ \ {w}, !.small = @ \ {w}]
           /\ switching' = [o \in Owl |-> o \notin {w, i} /\ switching[o]]
  /\ stash' = IF withdrawn THEN stash ELSE [stash EXCEPT ![w] = None]
  /\ ewmh' = IF withdrawn THEN ewmh ELSE [ewmh EXCEPT ![w] = {}]
  /\ zoomed' = [zoomed EXCEPT ![w] = "none"]
  /\ UNCHANGED job

\* DoRestart: a new ctwm takes the windows over as if they were new (AddWindow);
\* only the properties of the windows are left of what the old one knew.
Restart ==
  /\ Ready
  /\ otp' = [EmptyStack EXCEPT !.small = otp.small]
  /\ switching' = [o \in Owl |-> FALSE]
  /\ zoomed' = [w \in Win |-> "none"]
  /\ UNCHANGED <<stash, ewmh, job>>

\* A new name under AutoPriority: the preferences are applied again, to the
\* window and then to its icon.
Preferred(pr, base) == IF pr.pri = None THEN base ELSE pr.pri

RecomputeOwlPrefs(s, o, pr) ==
  LET base == Preferred(pr, s.base[o])
  IN  IF base = s.base[o] THEN s
      ELSE Reinsert([s EXCEPT !.base[o] = base], o, "Above")

RecomputePrefs(w, pr, ipr) ==
  /\ Ready /\ w \in otp.managed
  /\ \E i \in IconOf(otp, w) :
       LET r == RecomputeOwlPrefs(otp, w, pr)
           q == IF i = None THEN r ELSE RecomputeOwlPrefs(r, i, ipr)
           moved == Preferred(pr, otp.base[w]) # otp.base[w]
           iconMoved == i # None /\ Preferred(ipr, otp.base[i]) # otp.base[i]
       IN  /\ otp' = Checked(q)
           /\ switching' =
                [o \in Owl |->
                   IF o = w /\ pr.switch THEN ~DefaultSwitching["win"]
                   ELSE IF o = i /\ ipr.switch THEN ~DefaultSwitching["icon"]
                   ELSE switching[o]]
           /\ stash' = IF moved THEN StashFirstTime(r, w) ELSE stash
           /\ ewmh' = IF moved \/ iconMoved THEN TellAboveBelow(q, w) ELSE ewmh
  /\ UNCHANGED <<zoomed, job>>

(***************************************************************************)
(* Zooming, the EWMH states, and the sizes of windows.                      *)
(***************************************************************************)
SetFlags(s, w, flags) == [s EXCEPT !.flags[w] = flags]

\* unzoom forgets the zoom; only F_FULLSCREENZOOM clears FULLSCREEN.
Unzoomed(s, w) ==
  IF zoomed[w] = "fullscreen"
  THEN OtpRestackWindow(SetFlags(s, w, s.flags[w] \ {"FULLSCREEN"}), w)
  ELSE s

ZoomedInPlace(s, w, func) ==  \* mutant: sets the flag and restacks nothing
  IF func \in {"fullscreen", "xfullscreen"}
  THEN SetFlags(s, w, s.flags[w] \cup {"FULLSCREEN"}) ELSE s

Zoomed(s, w, func) ==
  IF func \in {"fullscreen", "xfullscreen"}
  THEN OtpRestackWindow(SetFlags(s, w, s.flags[w] \cup {"FULLSCREEN"}), w)
  ELSE s

StashAfterNever(s, w, changed) == stash  \* mutant: stashes no later change

\* OtpSetAflag and OtpClearAflag stash the flags each time.
StashAfter(s, w, changed) ==
  IF changed THEN [stash EXCEPT ![w] = s.flags[w]] ELSE stash

\* fullzoom toggles: "zoom" stands for the functions that are not fullscreen.
FullZoom(w, func) ==
  /\ Ready /\ w \in otp.managed
  /\ LET off == zoomed[w] = func
         s == IF off THEN Unzoomed(otp, w) ELSE Zoomed(otp, w, func)
         now == IF off THEN "none" ELSE func
         special == func = "fullscreen" \/ (func = "xfullscreen" /\ ~off)
     IN  \E sm \in Sizes(otp, w) :
           /\ IF RaiseOnResize /\ func # "fullscreen"
              THEN Move(s, w, "Above", sm)
              ELSE otp' = [s EXCEPT !.small = sm] /\ UNCHANGED job
           /\ zoomed' = [zoomed EXCEPT ![w] = now]
           /\ stash' = StashAfter(s, w, special)
           /\ ewmh' = TellZoom(w, now)
  /\ UNCHANGED switching

\* EndResize by the user (raise), or a client's ConfigureRequest for a size.
Resize(w, raise) ==
  /\ Ready /\ w \in otp.managed
  /\ \E sm \in Sizes(otp, w) :
       LET s == [Unzoomed(otp, w) EXCEPT !.small = sm]
       IN  IF raise /\ RaiseOnResize THEN Move(s, w, "Above", sm)
                                     ELSE otp' = s /\ UNCHANGED job
  /\ stash' = StashAfter(Unzoomed(otp, w), w, zoomed[w] = "fullscreen")
  /\ zoomed' = [zoomed EXCEPT ![w] = "none"]
  /\ UNCHANGED <<switching, ewmh>>

\* A _NET_WM_STATE message adds, removes or toggles ABOVE or BELOW.
NetWmState(w, flag, on) ==
  /\ Ready /\ w \in otp.managed
  /\ LET flags == IF on THEN otp.flags[w] \cup {flag}
                        ELSE otp.flags[w] \ {flag}
         s == SetFlags(otp, w, flags)
         r == IF Pri(s, w) # Pri(otp, w) THEN OtpRestackWindow(s, w) ELSE s
     IN  /\ otp' = r
         /\ stash' = StashAfter(s, w, TRUE)
         /\ ewmh' = TellAboveBelow(r, w)
  /\ UNCHANGED <<switching, zoomed, job>>

(***************************************************************************)
(* Focus: a window whose priority depends on it is restacked as it loses or *)
(* gets the focus, and then its transients.                                 *)
(***************************************************************************)
OtpIsFocusDependent(s, w) == "FULLSCREEN" \in s.flags[w]

OtpFocusWindowBE(s, w, out, then) ==
  LET r == Reinsert(s, w, "Above")
  IN  /\ otp' = r
      /\ job' = [ kind |-> "focus", order |-> r.under,
                  todo |-> {t \in Win \cap r.listed : isTransientOf(t, w)},
                  out |-> out, then |-> then ]

FocusEntersInPlace(s, w) ==  \* mutant: restacks nothing
  otp' = [s EXCEPT !.focus = w] /\ job' = Idle

FocusEnters(s, w) ==
  IF w # None /\ OtpIsFocusDependent(s, w)
  THEN OtpFocusWindowBE([s EXCEPT !.focus = w], w, FALSE, None)
  ELSE otp' = [s EXCEPT !.focus = w] /\ job' = Idle

\* SetFocus, HandleFocusIn and HandleFocusOut.
SetFocus(w) ==
  /\ Ready /\ w \in (otp.managed \cap InputWins) \cup {None} /\ w # otp.focus
  /\ IF otp.focus # None /\ OtpIsFocusDependent(otp, otp.focus)
     THEN OtpFocusWindowBE([otp EXCEPT !.focus = None], otp.focus, TRUE, w)
     ELSE FocusEnters(otp, w)
  /\ UNCHANGED <<switching, stash, ewmh, zoomed>>

FocusStep ==
  /\ otp.ok /\ job.kind = "focus"
  /\ \E t \in job.todo :
       /\ job.order[t] \cap job.todo = {}
       /\ otp' = Reinsert(otp, t, "Above")
       /\ job' = [job EXCEPT !.todo = @ \ {t}]
  /\ UNCHANGED <<switching, stash, ewmh, zoomed>>

FocusEnd ==
  /\ otp.ok /\ job.kind = "focus" /\ job.todo = {}
  /\ IF job.out THEN FocusEnters(Checked(otp), job.then)
                ELSE otp' = Checked(otp) /\ job' = Idle
  /\ UNCHANGED <<switching, stash, ewmh, zoomed>>

JobStep == WalkStep \/ WalkEnd \/ FocusStep \/ FocusEnd

Next ==
  \/ JobStep
  \/ \E o \in Owl : \/ Raise(o) \/ Lower(o) \/ RaiseLower(o)
                    \/ TinyRaise(o) \/ TinyLower(o)
  \/ \E o \in Owl, n \in UserPriorities, where \in {"Above", "Below"} :
       SetPriority(o, n, where)
  \/ \E o \in Owl, n \in UserDeltas : ChangePriority(o, n)
  \/ \E o \in Switchable : SwitchPriority(o)
  \/ \E o \in Togglable : ToggleSwitching(o)
  \/ \E w \in StackModeWins, x \in Win, where \in {"Above", "Below"} :
       ForcePlacement(w, x, where)
  \/ \E w \in Win, pr \in Preferences : AddWindow(w, pr)
  \/ \E i \in Icon, pr \in Preferences : AddIcon(i, pr)
  \/ \E i \in Icon : FreeIcon(i)
  \/ \E w \in Win, withdrawn \in BOOLEAN : RemoveWindow(w, withdrawn)
  \/ Restart
  \/ \E w \in Win, pr, ipr \in Preferences : RecomputePrefs(w, pr, ipr)
  \/ \E w \in Zoomable, func \in Zooms : FullZoom(w, func)
  \/ \E w \in Win, raise \in BOOLEAN : Resize(w, raise)
  \/ \E w \in Win, flag \in ClientFlags, on \in BOOLEAN : NetWmState(w, flag, on)
  \/ \E w \in Win \cup {None} : SetFocus(w)

Spec == Init /\ [][Next]_vars

\* ctwm does nothing else until a handler returns, so a loop under way runs on.
FairSpec == Spec /\ WF_job(WalkTurn) /\ WF_job(FocusStep \/ FocusEnd)

(***************************************************************************)
(* Properties.                                                              *)
(***************************************************************************)
IsList(s) ==
  /\ \A x \in Owl : /\ s.under[x] \subseteq s.listed \ {x}
                    /\ x \notin s.listed => s.under[x] = {}
  /\ \A x \in s.listed : \A y \in s.under[x] : s.under[y] \subseteq s.under[x]
  /\ \A x, y \in s.listed : x = y \/ x \in s.under[y] \/ y \in s.under[x]

\* The owls form one list, every window ctwm manages has its owl there and
\* every icon there belongs to such a window, and the focus, which the
\* priorities depend on, is never a window that is gone.  Each operation
\* unlinks and links several owls (otp.c RemoveOwl, InsertOwlAbove), and a
\* window leaves by several handlers.
ListIsAStack ==
  /\ IsList(otp)
  /\ otp.listed \cap Win = otp.managed
  /\ \A i \in otp.listed \cap Icon : WinOf[i] \in otp.managed
  /\ otp.focus \in otp.managed \cup {None}

\* Between two handlers no owl is under one of a lower effective priority:
\* "Windows of lower priority can never get on top of a window of higher
\* priority" (doc/devman/principles.adoc), whatever changed the priorities.
PriorityAscends == job = Idle => Sorted(otp)

\* No assertion of otp.c fails and OtpCheckConsistency never calls abort().
NoAbort == otp.ok

\* What the list promises (OtpLayers): layers in order, and nothing moves but the
\* window a handler is about, its icon and its transients.
Companions(w) ==
  {w} \cup {i \in Icon : WinOf[i] = w} \cup {t \in Win : isTransientOf(t, w)}

Layers == INSTANCE OtpLayers WITH
  Thing <- Owl, Client <- Win, PartOf <- [w \in Win |-> Companions(w)],
  MaxLayer <- OTP_MAX, below <- otp.under,
  layer <- [o \in Owl |-> IF o \in otp.listed THEN Pri(otp, o) ELSE None]

ImplementsLayers == Layers!LayersSpec

\* A raise ends with nothing of the owl's layer over it but its own small
\* transients, and with those of them that are no higher over it; a lower ends
\* with nothing of its layer under it.
AtTop(s, o) ==
  /\ \A x \in Over(s, o) : Pri(s, x) > Pri(s, o) \/ shouldStayAbove(s, x, o)
  /\ \A x \in s.under[o] : ~shouldStayAbove(s, x, o)

AtBottom(s, o) == \A x \in s.under[o] : Pri(s, x) < Pri(s, o)

MovesReachTheirEnd ==
  [][/\ \A o \in Owl : /\ Raise(o) /\ job' = Idle => AtTop(otp', o)
                       /\ Lower(o) /\ job' = Idle => AtBottom(otp', o)
     /\ WalkEnd => IF job.where = "Above" THEN AtTop(otp', job.owl)
                                          ELSE AtBottom(otp', job.owl)]_vars

\* A window whose priority the user or PrioritySwitching changes leaves none of
\* the transients of its layer behind (TryToMoveTransientsOfTo).
TransientsMoveAlong ==
  [][WalkEnd => \A t \in Win :
       /\ isTransientOf(t, job.owl) /\ t \in otp.listed
       /\ Pri(otp, t) = Pri(otp, job.owl)
       => Pri(otp', t) = Pri(otp', job.owl)]_vars

\* The stashed flags are those of the owl, so that the ctwm that takes over
\* after a restart gives the window the ABOVE and BELOW it had.
StashIsCurrent ==
  \A w \in otp.managed :
    LET kept == IF stash[w] = None THEN {} ELSE stash[w] \cap {"ABOVE", "BELOW"}
    IN  otp.flags[w] \cap {"ABOVE", "BELOW"} = kept

\* A handler that walks the transients of a window gets to the end of them.
HandlersReturn == job # Idle ~> job = Idle \/ ~otp.ok

=============================================================================
