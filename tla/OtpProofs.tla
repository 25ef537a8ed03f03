----------------------------- MODULE OtpProofs -----------------------------
(***************************************************************************)
(* Theorems about Otp, for every set of windows and icons, every relation   *)
(* among them and every configuration:                                      *)
(*                                                                          *)
(*   TypeCorrect        priorities stay in range, whatever is added to them *)
(*   StackStaysWhole    the owls are one list of what ctwm manages, no more *)
(*                      and no less                                         *)
(*   StashStaysCurrent  a window that inherits no flags keeps those it has  *)
(*                      over a restart                                      *)
(*                                                                          *)
(* that the list stays in order:                                            *)
(*                                                                          *)
(*   NeverAborts      no assertion of otp.c fails, OtpCheckConsistency never *)
(*                    aborts                                                *)
(*   OrderIsKept      nothing is ever under an owl of lower priority        *)
(*                                                                          *)
(* and what the order gives the user:                                       *)
(*                                                                          *)
(*   LayersAreImplemented     Otp implements OtpLayers                      *)
(*   MovesEndWhereTheyShould  a raise ends on top of its layer, a lower at  *)
(*                            its bottom                                    *)
(*   NoDialogIsLeftBehind     the dialogs of the layer follow their window  *)
(*                            to another                                    *)
(*                                                                          *)
(* Each invariant is shown for the operators on the list first, then for    *)
(* the actions, one lemma for the actions of one kind.  For the order, an   *)
(* owl goes where its priority belongs, with it those of its transients     *)
(* that get its priority, and nothing changes the priority of an owl that   *)
(* is not put back into its place.  Each operator on the list is shown to   *)
(* keep order (Calm) and to leave the other owls alone (Apart), which is    *)
(* what the refinement needs.                                               *)
(*                                                                          *)
(* The hypotheses of the order name what breaks it in the code: a dialog of *)
(* a window that may be FULLSCREEN depends on the focus of that window, and *)
(* nothing restacks it in time (the run otp_fullscreen_dialog); a dialog    *)
(* that is a dock when its window is none, or the other way round, takes    *)
(* the base and the flags of its window but not its priority; and a client  *)
(* that restacks next to a sibling takes the base of the sibling but not    *)
(* its flags.                                                               *)
(***************************************************************************)
EXTENDS Otp, TLAPS

(***************************************************************************)
(* Types.                                                                   *)
(***************************************************************************)
\* A priority stays in range whatever shifts it: OwlEffectivePriority clamps.
LEMMA PriType ==
  ASSUME NEW s \in StackType, NEW o \in Owl
  PROVE  Pri(s, o) \in 0 .. OTP_MAX
<1> USE DEF StackType
<1>1. s.base[o] \in Int
  BY DEF OTP_MAX, OTP_ZERO
<1>2. Shifted(TwmWinOf(o), s.base[o], s.flags[o]) \in Int
  BY <1>1 DEF Shifted, EWMH_PRI_ABOVE, EWMH_PRI_DOCK
<1>3. OTP_ZERO + EWMH_PRI_FULLSCREEN \in Int
  BY DEF OTP_ZERO, EWMH_PRI_FULLSCREEN
<1>4. \A n \in Int : Clamp(n) \in 0 .. OTP_MAX
  BY DEF Clamp, OTP_MAX, OTP_ZERO
<1>5. QED
  BY <1>2, <1>3, <1>4 DEF Pri

\* RemoveOwl leaves a list.
LEMMA RemoveOwlType ==
  ASSUME NEW s \in StackType, NEW w \in Owl
  PROVE  RemoveOwl(s, w) \in StackType
  BY DEF RemoveOwl, StackType

\* Linking an owl, with others that follow it, leaves a list.
LEMMA PutOverType ==
  ASSUME NEW s \in StackType, NEW w \in Owl,
         NEW low \in SUBSET Owl, NEW follow \in SUBSET low
  PROVE  PutOver(s, w, low, follow) \in StackType
<1> DEFINE stay == low \ follow
      below(o) ==
        CASE o = w -> stay
          [] o \in follow -> stay \cup {w} \cup (s.under[o] \cap follow)
          [] o \in stay -> s.under[o] \ follow
          [] o \in s.listed \ (low \cup {w}) -> s.under[o] \cup {w}
          [] OTHER -> s.under[o]
<1>1. \A o \in Owl : below(o) \in SUBSET Owl
  BY DEF StackType
<1>2. s.listed \cup {w} \in SUBSET Owl
  BY DEF StackType
<1>3. [o \in Owl |-> IF o \in follow THEN s.base[w] ELSE s.base[o]]
        \in [Owl -> 0 .. OTP_MAX]
  BY DEF StackType
<1>4. [o \in Owl |-> IF o \in follow THEN s.flags[w] ELSE s.flags[o]]
        \in [Owl -> SUBSET Aflag]
  BY DEF StackType
<1>5. QED
  BY <1>1, <1>2, <1>3, <1>4 DEF PutOver, StackType

\* The assertions of the insertion only touch `ok`.
LEMMA PutAssertedType ==
  ASSUME NEW s \in StackType, NEW w \in Owl, NEW put,
         NEW low \in SUBSET Owl, NEW follow \in SUBSET low
  PROVE  PutAsserted(s, w, low, follow, put) \in StackType
<1> DEFINE r == PutOver(s, w, low, follow)
<1>1. r \in StackType
  BY PutOverType
<1>2. (s.ok /\ InPlace(r, put, low \ follow)) \in BOOLEAN
  BY DEF StackType
<1>3. QED
  BY <1>1, <1>2 DEF PutAsserted, StackType

\* OtpCheckConsistency only touches `ok`.
LEMMA CheckedType ==
  ASSUME NEW s \in StackType
  PROVE  Checked(s) \in StackType
<1>1. (s.ok /\ Sorted(s)) \in BOOLEAN
  BY DEF StackType
<1>2. QED
  BY <1>1 DEF Checked, StackType

\* Insertion above a given owl leaves a list.
LEMMA InsertOwlAboveType ==
  ASSUME NEW s \in StackType, NEW w \in Owl, NEW low \in SUBSET Owl
  PROVE  /\ InsertOwlAbove(s, w, low) \in StackType
         /\ RaiseOver(s, w, low) \in StackType
<1>1. InsertOwlAbove(s, w, low) \in StackType
  BY PutAssertedType DEF InsertOwlAbove
<1>2. {x \in low : shouldStayAbove(s, x, w)} \in SUBSET low
  OBVIOUS
<1>3. RaiseOver(s, w, low) \in StackType
  BY <1>2, PutAssertedType DEF RaiseOver
<1>4. QED
  BY <1>1, <1>3

\* Insertion by priority leaves a list.
LEMMA InsertOwlType ==
  ASSUME NEW s \in StackType, NEW w \in Owl, NEW where
  PROVE  InsertOwl(s, w, where) \in StackType
<1> DEFINE p == Pri(s, w) - (IF where = "Above" THEN 0 ELSE 1)
           low == BelowPriority(s, p + 1)
           follow == {x \in low : shouldStayAbove(s, x, w)}
<1>1. low \in SUBSET Owl /\ follow \in SUBSET low
  BY DEF BelowPriority, StackType
<1>2. QED
  BY <1>1, PutAssertedType DEF InsertOwl

\* Taking an owl off and inserting it again leaves a list.
LEMMA ReinsertType ==
  ASSUME NEW s \in StackType, NEW w \in Owl, NEW where
  PROVE  Reinsert(s, w, where) \in StackType
  BY RemoveOwlType, InsertOwlType DEF Reinsert

\* What is clamped is in range.
LEMMA ClampType ==
  ASSUME NEW n \in Int
  PROVE  Clamp(n) \in 0 .. OTP_MAX
  BY DEF Clamp, OTP_MAX, OTP_ZERO

\* The attributes of an owl may be any in range.
LEMMA NewAttributesType ==
  ASSUME NEW s \in StackType, NEW w \in Owl,
         NEW base \in 0 .. OTP_MAX, NEW flags \in SUBSET Aflag
  PROVE  /\ [s EXCEPT !.base[w] = base] \in StackType
         /\ [s EXCEPT !.flags[w] = flags] \in StackType
         /\ [s EXCEPT !.base[w] = base, !.flags[w] = flags] \in StackType
  BY DEF StackType

\* SetOwlPriority takes any number and keeps the base in range.
LEMMA SetOwlPriorityType ==
  ASSUME NEW s \in StackType, NEW w \in Owl, NEW pri \in Int, NEW where
  PROVE  SetOwlPriority(s, w, pri, where) \in StackType
<1>1. [s EXCEPT !.base[w] = Clamp(pri)] \in StackType
  BY ClampType DEF StackType
<1>2. QED
  BY <1>1, ReinsertType DEF SetOwlPriority

\* OtpRemove leaves a list.
LEMMA OtpRemoveType ==
  ASSUME NEW s \in StackType, NEW w \in Owl
  PROVE  OtpRemove(s, w) \in StackType
<1>1. OTP_ZERO \in 0 .. OTP_MAX
  BY DEF OTP_ZERO, OTP_MAX
<1>2. QED
  BY <1>1, RemoveOwlType, NewAttributesType, CheckedType DEF OtpRemove

\* OtpRestackWindow leaves a list.
LEMMA OtpRestackWindowType ==
  ASSUME NEW s \in StackType, NEW w \in Owl
  PROVE  OtpRestackWindow(s, w) \in StackType
  BY ReinsertType, CheckedType DEF OtpRestackWindow

\* What the variable `job` may be.
JobType == {Idle} \cup Walks \cup Shuffles

\* IconOf is NULL or a listed icon of the window.
LEMMA IconOfType ==
  ASSUME NEW s \in StackType, NEW w \in Win, NEW i \in IconOf(s, w)
  PROVE  i # None => i \in Icon /\ i \in s.listed /\ WinOf[i] = w
  BY DEF IconOf

\* What is told to the client and stashed are sets of flags.
LEMMA TellType ==
  ASSUME NEW s \in StackType, NEW w \in Win, TypeOK
  PROVE  /\ StashFirstTime(s, w) \in [Win -> (SUBSET Aflag) \cup {None}]
         /\ StashAfter(s, w, TRUE) \in [Win -> (SUBSET Aflag) \cup {None}]
         /\ TellAboveBelow(s, w) \in [Win -> SUBSET Aflag]
         /\ \A func : TellZoom(w, func) \in [Win -> SUBSET Aflag]
         /\ AboveBelow(s, w) \in SUBSET Aflag
<1>1. s.flags[w] \in SUBSET Aflag
  BY DEF StackType, Owl
<1>2. StashFirstTime(s, w) \in [Win -> (SUBSET Aflag) \cup {None}]
  BY <1>1 DEF TypeOK, StashFirstTime
<1>3. StashAfter(s, w, TRUE) \in [Win -> (SUBSET Aflag) \cup {None}]
  BY <1>1 DEF TypeOK, StashAfter
<1>4. AboveBelow(s, w) \in SUBSET Aflag
  BY DEF AboveBelow, Aflag
<1>5. TellAboveBelow(s, w) \in [Win -> SUBSET Aflag]
  BY <1>4 DEF TypeOK, TellAboveBelow
<1>6. ASSUME NEW func PROVE TellZoom(w, func) \in [Win -> SUBSET Aflag]
  <2>1. {f \in {"FULLSCREEN"} : func = "fullscreen"} \in SUBSET Aflag
    BY DEF Aflag
  <2>2. QED
    BY <2>1 DEF TypeOK, TellZoom
<1>7. QED
  BY <1>2, <1>3, <1>4, <1>5, <1>6

\* A walk starts with local variables of the right types.
LEMMA StartWalkType ==
  ASSUME NEW s \in StackType, NEW o \in Owl, NEW pri \in Int,
         NEW where \in {"Above", "Below"}, NEW tell \in BOOLEAN,
         NEW sm \in SUBSET Win, StartWalk(s, o, pri, where, tell, sm)
  PROVE  job' \in Walks
<1> DEFINE rest == s.listed \ BelowPriority(s, Pri(s, o))
<1>1. PICK first \in {x \in rest : s.under[x] \cap rest = {}} :
        job' = [ kind |-> "walk", owl |-> o, pri |-> pri, where |-> where,
                 next |-> IF o \in Win THEN first ELSE None,
                 tell |-> tell, small |-> sm ]
  BY DEF StartWalk
<1>2. (IF o \in Win THEN first ELSE None) \in Owl \cup {None}
  BY DEF StackType
<1>3. QED
  BY <1>1, <1>2 DEF Walks

\* RaiseOwl and LowerOwl leave a list and a job.
LEMMA MoveType ==
  ASSUME NEW s \in StackType, NEW o \in Owl, NEW where \in {"Above", "Below"},
         NEW sm \in SUBSET Win, Move(s, o, where, sm)
  PROVE  otp' \in StackType /\ job' \in JobType
<1>1. CASE WillSwitch(s, o, where)
  <2>1. OTP_MAX - s.base[o] \in Int
    BY DEF StackType, OTP_MAX, OTP_ZERO
  <2>2. QED
    BY <1>1, <2>1, StartWalkType DEF Move, JobType
<1>2. CASE ~WillSwitch(s, o, where)
  <2>1. Checked(Reinsert(s, o, where)) \in StackType
    BY ReinsertType, CheckedType
  <2>2. QED
    BY <1>2, <2>1 DEF Move, JobType, StackType
<1>3. QED
  BY <1>1, <1>2

\* OtpFocusWindowBE leaves a list and notes the transients still to restack.
LEMMA FocusBEType ==
  ASSUME NEW s \in StackType, NEW w \in Win, NEW out \in BOOLEAN,
         NEW then \in Win \cup {None}, OtpFocusWindowBE(s, w, out, then)
  PROVE  otp' \in StackType /\ job' \in JobType
<1>1. Reinsert(s, w, "Above") \in StackType
  BY ReinsertType DEF Owl
<1>2. QED
  BY <1>1 DEF OtpFocusWindowBE, JobType, Shuffles, StackType

\* So does giving the focus to a window, or to none.
LEMMA FocusEntersType ==
  ASSUME NEW s \in StackType, NEW w \in Win \cup {None}, FocusEnters(s, w)
  PROVE  otp' \in StackType /\ job' \in JobType
<1> DEFINE q == [s EXCEPT !.focus = w]
<1>1. q \in StackType
  BY DEF StackType
<1>2. CASE w # None /\ OtpIsFocusDependent(s, w)
  <2>1. OtpFocusWindowBE(q, w, FALSE, None)
    BY <1>2 DEF FocusEnters
  <2>2. QED
    BY <1>1, <1>2, <2>1, FocusBEType
<1>3. CASE ~(w # None /\ OtpIsFocusDependent(s, w))
  BY <1>1, <1>3 DEF FocusEnters, JobType
<1>4. QED
  BY <1>2, <1>3

\* The sizes that a handler may leave are of windows.
LEMMA SizesType ==
  ASSUME NEW s \in StackType, NEW w \in Win, NEW sm \in Sizes(s, w)
  PROVE  sm \in SUBSET Win
  BY DEF Sizes

\* What a new owl gets from its parent, the configuration and its properties.
LEMMA NewOwlType ==
  ASSUME NEW s \in StackType, NEW o \in Owl, NEW x \in Win \cup {None},
         NEW pr \in Preferences, NEW got \in (SUBSET Aflag) \cup {None},
         NEW state \in SUBSET Aflag
  PROVE  NewOwl(s, o, x, pr, got, state) \in StackType
<1>1. TwmWinOf(o) \in Win
  BY HintAssumption DEF TwmWinOf, Owl
<1>2. OTP_ZERO + EwmhGetInitPriority(TwmWinOf(o)) \in 0 .. OTP_MAX
  BY DEF EwmhGetInitPriority, OTP_MAX, OTP_ZERO, EWMH_PRI_DESKTOP, EWMH_PRI_DOCK
<1>3. DefaultPriority[Kind(o)] \in 0 .. OTP_MAX
  BY ConfigAssumption DEF Kind
<1>4. pr.pri \in (0 .. OTP_MAX) \cup {None}
  BY ConfigAssumption
<1>5. x # None => s.base[x] \in 0 .. OTP_MAX
  BY DEF StackType, Owl
<1>6. NewBase(s, o, x, pr) \in 0 .. OTP_MAX
  BY <1>2, <1>3, <1>4, <1>5 DEF NewBase
<1>7. NewFlags(s, x, got, state) \in SUBSET Aflag
  <2>1. (IF x = None THEN {} ELSE s.flags[x]) \in SUBSET Aflag
    BY DEF StackType, Owl
  <2>2. (IF got = None THEN state \cap {"ABOVE", "BELOW"}
         ELSE (got \cap {"ABOVE", "BELOW"}) \cup (state \cap {"FULLSCREEN"}))
        \in SUBSET Aflag
    BY DEF Aflag
  <2>3. QED
    BY <2>1, <2>2 DEF NewFlags
<1>8. QED
  BY <1>6, <1>7, NewAttributesType DEF NewOwl

\* Whether a new owl switches its priority as it is raised and lowered.
LEMMA NewSwitchingType ==
  ASSUME TypeOK, NEW o \in Owl, NEW x \in Win \cup {None}, NEW pr
  PROVE  NewSwitching(o, x, pr) \in BOOLEAN
<1>1. DefaultSwitching[Kind(o)] \in BOOLEAN
  BY ConfigAssumption DEF Kind
<1>2. x # None => switching[x] \in BOOLEAN
  BY DEF TypeOK, Owl
<1>3. QED
  BY <1>1, <1>2 DEF NewSwitching

\* New preferences keep a priority in range.
LEMMA RecomputeType ==
  ASSUME NEW s \in StackType, NEW o \in Owl, NEW pr \in Preferences
  PROVE  RecomputeOwlPrefs(s, o, pr) \in StackType
<1> DEFINE base == Preferred(pr, s.base[o])
<1>1. pr.pri \in (0 .. OTP_MAX) \cup {None}
  BY ConfigAssumption
<1>2. base \in 0 .. OTP_MAX
  BY <1>1 DEF Preferred, StackType
<1>3. [s EXCEPT !.base[o] = base] \in StackType
  BY <1>2 DEF StackType
<1>4. QED
  BY <1>3, ReinsertType DEF RecomputeOwlPrefs

\* Neither zooming nor unzooming leaves the types.
LEMMA ZoomType ==
  ASSUME NEW s \in StackType, NEW w \in Win, NEW func
  PROVE  /\ Unzoomed(s, w) \in StackType
         /\ Zoomed(s, w, func) \in StackType
<1>1. w \in Owl /\ s.flags[w] \in SUBSET Aflag
  BY DEF StackType, Owl
<1>2. SetFlags(s, w, s.flags[w] \ {"FULLSCREEN"}) \in StackType
  BY <1>1, NewAttributesType DEF SetFlags, StackType
<1>3. s.flags[w] \cup {"FULLSCREEN"} \in SUBSET Aflag
  BY <1>1 DEF Aflag
<1>4. SetFlags(s, w, s.flags[w] \cup {"FULLSCREEN"}) \in StackType
  BY <1>1, <1>3, NewAttributesType DEF SetFlags, StackType
<1>5. QED
  BY <1>1, <1>2, <1>4, OtpRestackWindowType DEF Unzoomed, Zoomed

\* Type correctness of each step of the loops over transients.
LEMMA JobStepType == TypeOK /\ JobStep => TypeOK'
<1> SUFFICES ASSUME TypeOK, JobStep PROVE TypeOK'
  OBVIOUS
<1> otp \in StackType /\ job \in JobType
  BY DEF TypeOK, JobType
<1>a. job.kind = "walk" => job \in Walks
  BY DEF JobType, Idle, Shuffles
<1>b. job.kind = "focus" => job \in Shuffles
  BY DEF JobType, Idle, Walks
<1>1. ASSUME WalkStep PROVE TypeOK'
  <2>1. job \in Walks /\ job.next \in Owl
    BY <1>1, <1>a DEF WalkStep, WalkTurn, InLayer, Walks
  <2>2. \A up \in NextUp(otp, job.next) : up \in Owl \cup {None}
    BY DEF NextUp, Over, StackType
  <2>3. PICK up \in NextUp(otp, job.next) : job' = [job EXCEPT !.next = up]
    BY <1>1 DEF WalkStep, WalkTurn
  <2>4. job' \in JobType
    BY <2>1, <2>2, <2>3 DEF JobType, Walks
  <2> DEFINE q == [otp EXCEPT !.flags[job.next] = otp.flags[job.owl]]
  <2>5. q \in StackType
    BY <2>1 DEF StackType, Walks
  <2>6. SetOwlPriority(q, job.next, job.pri, job.where) \in StackType
    BY <2>1, <2>5, SetOwlPriorityType DEF Walks
  <2>7. otp' \in StackType
    BY <1>1, <2>6 DEF WalkStep
  <2>8. QED
    BY <1>1, <2>4, <2>7 DEF WalkStep, TypeOK, JobType
<1>2. ASSUME WalkEnd PROVE TypeOK'
  <2> DEFINE s == Checked(SetOwlPriority(otp, job.owl, job.pri, job.where))
             w == TwmWinOf(job.owl)
  <2>1. job \in Walks
    BY <1>2, <1>a DEF WalkEnd, WalkTurn
  <2>2. s \in StackType
    BY <2>1, SetOwlPriorityType, CheckedType DEF Walks
  <2>3. w \in Win
    BY <2>1, HintAssumption DEF Walks, TwmWinOf, Owl
  <2>4. otp' = [s EXCEPT !.small = job.small]
    BY <1>2 DEF WalkEnd
  <2>5. otp' \in StackType
    BY <2>1, <2>2, <2>4 DEF Walks, StackType
  <2>6. job' = Idle
    BY <1>2 DEF WalkEnd, WalkTurn
  <2>7. /\ stash' \in [Win -> (SUBSET Aflag) \cup {None}]
        /\ ewmh' \in [Win -> SUBSET Aflag]
    <3>1. /\ stash' = IF job.tell THEN StashFirstTime(s, w) ELSE stash
          /\ ewmh' = IF job.tell THEN TellAboveBelow(s, w) ELSE ewmh
      BY <1>2 DEF WalkEnd
    <3>2. /\ StashFirstTime(s, w) \in [Win -> (SUBSET Aflag) \cup {None}]
          /\ TellAboveBelow(s, w) \in [Win -> SUBSET Aflag]
      BY <2>2, <2>3, TellType
    <3>3. QED
      BY <3>1, <3>2 DEF TypeOK
  <2>8. QED
    BY <1>2, <2>5, <2>6, <2>7 DEF WalkEnd, TypeOK
<1>3. ASSUME FocusStep PROVE TypeOK'
  <2>1. job \in Shuffles
    BY <1>3, <1>b DEF FocusStep
  <2>2. PICK t \in job.todo : /\ otp' = Reinsert(otp, t, "Above")
                              /\ job' = [job EXCEPT !.todo = @ \ {t}]
    BY <1>3 DEF FocusStep
  <2>3. otp' \in StackType
    BY <2>1, <2>2, ReinsertType DEF Shuffles, Owl
  <2>4. job' \in JobType
    BY <2>1, <2>2 DEF Shuffles, JobType
  <2>5. QED
    BY <1>3, <2>3, <2>4 DEF FocusStep, TypeOK, JobType
<1>4. ASSUME FocusEnd PROVE TypeOK'
  <2>1. job.then \in Win \cup {None}
    BY <1>4, <1>b DEF FocusEnd, Shuffles
  <2>2. otp' \in StackType /\ job' \in JobType
    BY <1>4, <2>1, CheckedType, FocusEntersType DEF FocusEnd, JobType
  <2>3. QED
    BY <1>4, <2>2 DEF FocusEnd, TypeOK, JobType
<1>5. QED
  BY <1>1, <1>2, <1>3, <1>4 DEF JobStep

\* Starting to walk the transients of an owl keeps the types.
LEMMA WalkStartsType ==
  ASSUME TypeOK, NEW o \in Owl, NEW pri \in Int,
         NEW where \in {"Above", "Below"}, StartWalk(otp, o, pri, where, TRUE, otp.small),
         UNCHANGED <<otp, switching, stash, ewmh, zoomed>>
  PROVE  TypeOK'
<1>1. otp.small \in SUBSET Win /\ otp \in StackType
  BY DEF TypeOK, StackType
<1>2. job' \in Walks
  BY <1>1, StartWalkType
<1>3. QED
  BY <1>2 DEF TypeOK

\* Type correctness of the functions that raise and lower.
LEMMA MoveStepType ==
  ASSUME TypeOK, NEW o \in Owl,
         Raise(o) \/ Lower(o) \/ RaiseLower(o) \/ TinyRaise(o) \/ TinyLower(o)
  PROVE  TypeOK'
<1> otp \in StackType /\ otp.small \in SUBSET Win
  BY DEF TypeOK, StackType
<1>1. ASSUME NEW where \in {"Above", "Below"}, Move(otp, o, where, otp.small),
             UNCHANGED <<switching, stash, ewmh, zoomed>>
      PROVE  TypeOK'
  <2>1. otp' \in StackType /\ job' \in JobType
    BY <1>1, MoveType
  <2>2. QED
    BY <1>1, <2>1 DEF TypeOK, JobType
<1>2. CASE Raise(o) \/ Lower(o)
  BY <1>1, <1>2 DEF Raise, Lower
<1>3. CASE RaiseLower(o)
  BY <1>1, <1>3 DEF RaiseLower
<1>4. CASE TinyRaise(o)
  <2>1. PICK x \in Owl :
          otp' = Checked(RaiseOver(RemoveOwl(otp, o), o,
                                   (otp.under[x] \ {o}) \cup {x}))
    BY <1>4 DEF TinyRaise, RunAbove, Over, StackType
  <2>2. (otp.under[x] \ {o}) \cup {x} \in SUBSET Owl
    BY DEF StackType
  <2>3. otp' \in StackType
    BY <2>1, <2>2, RemoveOwlType, InsertOwlAboveType, CheckedType
  <2>4. QED
    BY <1>4, <2>3 DEF TinyRaise, TypeOK
<1>5. CASE TinyLower(o)
  <2>1. PICK x \in Owl :
          otp' = Checked(InsertOwlAbove(RemoveOwl(otp, o), o, otp.under[x]))
    BY <1>5 DEF TinyLower, RunBelow, StackType
  <2>2. otp.under[x] \in SUBSET Owl
    BY DEF StackType
  <2>3. otp' \in StackType
    BY <2>1, <2>2, RemoveOwlType, InsertOwlAboveType, CheckedType
  <2>4. QED
    BY <1>5, <2>3 DEF TinyLower, TypeOK
<1>6. QED
  BY <1>2, <1>3, <1>4, <1>5

\* Type correctness of the functions that set, change or switch priorities.
LEMMA PriorityStepType ==
  ASSUME TypeOK, NEW o \in Owl
  PROVE  /\ \A n \in UserPriorities, where \in {"Above", "Below"} :
              SetPriority(o, n, where) => TypeOK'
         /\ \A n \in UserDeltas : ChangePriority(o, n) => TypeOK'
         /\ SwitchPriority(o) => TypeOK'
         /\ ToggleSwitching(o) => TypeOK'
<1> otp \in StackType /\ otp.small \in SUBSET Win
  BY DEF TypeOK, StackType
<1>1. TwmWinOf(o) \in Win
  BY HintAssumption DEF TwmWinOf, Owl
<1>2. /\ StashFirstTime(otp, TwmWinOf(o)) \in [Win -> (SUBSET Aflag) \cup {None}]
      /\ TellAboveBelow(otp, TwmWinOf(o)) \in [Win -> SUBSET Aflag]
  BY <1>1, TellType
<1>3. Checked(otp) \in StackType
  BY CheckedType
<1>4. ASSUME NEW n \in UserPriorities, NEW where \in {"Above", "Below"},
             SetPriority(o, n, where)
      PROVE  TypeOK'
  <2>1. CASE n \in -OTP_ZERO .. OTP_ZERO
    <3>1. OTP_ZERO + n \in Int
      BY ConfigAssumption DEF OTP_ZERO
    <3>2. QED
      BY <1>4, <2>1, <3>1, WalkStartsType DEF SetPriority
  <2>2. CASE n \notin -OTP_ZERO .. OTP_ZERO
    BY <1>2, <1>3, <1>4, <2>2 DEF SetPriority, TypeOK
  <2>3. QED
    BY <2>1, <2>2
<1>5. ASSUME NEW n \in UserDeltas, ChangePriority(o, n) PROVE TypeOK'
  <2>1. otp.base[o] + n \in Int
    BY ConfigAssumption DEF StackType, OTP_MAX, OTP_ZERO
  <2>2. QED
    BY <1>5, <2>1, WalkStartsType DEF ChangePriority
<1>6. ASSUME SwitchPriority(o) PROVE TypeOK'
  <2>1. OTP_MAX - otp.base[o] \in Int
    BY DEF StackType, OTP_MAX, OTP_ZERO
  <2>2. QED
    BY <1>6, <2>1, WalkStartsType DEF SwitchPriority
<1>7. ASSUME ToggleSwitching(o) PROVE TypeOK'
  BY <1>2, <1>3, <1>7 DEF ToggleSwitching, TypeOK
<1>8. QED
  BY <1>4, <1>5, <1>6, <1>7

\* Type correctness of a request to be stacked next to another window.
LEMMA ForcePlacementType ==
  ASSUME TypeOK, NEW w \in Win, NEW x \in Win, NEW where, ForcePlacement(w, x, where)
  PROVE  TypeOK'
<1> DEFINE s == RemoveOwl([otp EXCEPT !.base[w] = otp.base[x]], w)
           low == IF where = "Above" THEN s.under[x] \cup {x} ELSE s.under[x]
<1>1. otp \in StackType /\ w \in Owl /\ x \in Owl
  BY DEF TypeOK, Owl
<1>2. [otp EXCEPT !.base[w] = otp.base[x]] \in StackType
  BY <1>1 DEF StackType
<1>3. s \in StackType
  BY <1>1, <1>2, RemoveOwlType
<1>4. low \in SUBSET Owl
  BY <1>1, <1>3 DEF StackType
<1>5. Checked(InsertOwlAbove(s, w, low)) \in StackType
  BY <1>1, <1>3, <1>4, InsertOwlAboveType, CheckedType
<1>6. QED
  BY <1>5 DEF ForcePlacement, TypeOK

\* Type correctness as windows and icons come.
LEMMA AddStepType ==
  ASSUME TypeOK, NEW pr \in Preferences
  PROVE  /\ \A w \in Win : AddWindow(w, pr) => TypeOK'
         /\ \A i \in Icon : AddIcon(i, pr) => TypeOK'
<1> otp \in StackType
  BY DEF TypeOK
<1>1. ASSUME NEW w \in Win, AddWindow(w, pr) PROVE TypeOK'
  <2>1. PICK x \in Parents(otp, w), sm \in Sizes(otp, w),
             state \in (SUBSET ClientFlags) \cup {ewmh[w] \cap {"ABOVE", "BELOW"}} :
          LET s == NewOwl([otp EXCEPT !.small = sm], w, x, pr, stash[w], state)
              r == Checked(InsertOwl(s, w, "Above"))
          IN  /\ otp' = [r EXCEPT !.managed = otp.managed \cup {w}]
              /\ switching' = [switching EXCEPT ![w] = NewSwitching(w, x, pr)]
              /\ stash' = IF Pri(s, w) # OTP_ZERO \/ s.flags[w] # {}
                          THEN StashFirstTime(s, w) ELSE stash
              /\ ewmh' = [ewmh EXCEPT ![w] = AboveBelow(r, w)]
    BY <1>1 DEF AddWindow
  <2> DEFINE s == NewOwl([otp EXCEPT !.small = sm], w, x, pr, stash[w], state)
             r == Checked(InsertOwl(s, w, "Above"))
  <2>2. x \in Win \cup {None} /\ w \in Owl
    BY DEF Parents, StackType, Owl
  <2>3. state \in SUBSET Aflag /\ stash[w] \in (SUBSET Aflag) \cup {None}
    BY ConfigAssumption DEF TypeOK, Aflag
  <2>4. [otp EXCEPT !.small = sm] \in StackType
    BY SizesType DEF StackType
  <2>5. s \in StackType
    BY <2>2, <2>3, <2>4, NewOwlType
  <2>6. r \in StackType
    BY <2>2, <2>5, InsertOwlType, CheckedType
  <2>7. otp' \in StackType
    BY <2>1, <2>6 DEF StackType
  <2>8. switching' \in [Owl -> BOOLEAN]
    BY <2>1, <2>2, NewSwitchingType DEF TypeOK
  <2>9. stash' \in [Win -> (SUBSET Aflag) \cup {None}]
    BY <2>1, <2>5, TellType DEF TypeOK
  <2>10. AboveBelow(r, w) \in SUBSET Aflag
    BY <2>6, TellType
  <2>11. ewmh' \in [Win -> SUBSET Aflag]
    BY <2>1, <2>10 DEF TypeOK
  <2>12. QED
    BY <1>1, <2>7, <2>8, <2>9, <2>11 DEF AddWindow, TypeOK
<1>2. ASSUME NEW i \in Icon, AddIcon(i, pr) PROVE TypeOK'
  <2> DEFINE s == NewOwl(otp, i, None, pr, None, ewmh[WinOf[i]])
  <2>1. i \in Owl /\ ewmh[WinOf[i]] \in SUBSET Aflag
    BY HintAssumption DEF TypeOK, Owl
  <2>2. s \in StackType
    BY <2>1, NewOwlType
  <2>3. otp' = Checked(InsertOwl(s, i, "Above"))
    BY <1>2 DEF AddIcon
  <2>4. otp' \in StackType
    BY <2>1, <2>2, <2>3, InsertOwlType, CheckedType
  <2>5. NewSwitching(i, None, pr) \in BOOLEAN
    BY <2>1, NewSwitchingType
  <2>6. switching' \in [Owl -> BOOLEAN]
    BY <1>2, <2>5 DEF AddIcon, TypeOK
  <2>7. QED
    BY <1>2, <2>4, <2>6 DEF AddIcon, TypeOK
<1>3. QED
  BY <1>1, <1>2

\* Type correctness as they go.
LEMMA RemoveStepType ==
  ASSUME TypeOK
  PROVE  /\ \A i \in Icon : FreeIcon(i) => TypeOK'
         /\ \A w \in Win, withdrawn \in BOOLEAN :
              RemoveWindow(w, withdrawn) => TypeOK'
         /\ Restart => TypeOK'
<1> otp \in StackType
  BY DEF TypeOK
<1>1. ASSUME NEW i \in Icon, FreeIcon(i) PROVE TypeOK'
  <2>1. OtpRemove(otp, i) \in StackType
    BY OtpRemoveType DEF Owl
  <2>2. QED
    BY <1>1, <2>1 DEF FreeIcon, TypeOK
<1>2. ASSUME NEW w \in Win, NEW withdrawn \in BOOLEAN, RemoveWindow(w, withdrawn)
      PROVE  TypeOK'
  <2>1. PICK i \in IconOf(otp, w) :
          LET s == IF i = None THEN otp ELSE OtpRemove(otp, i)
              r == OtpRemove(s, w)
          IN  /\ otp' = [r EXCEPT !.focus = IF @ = w THEN None ELSE @,
                                  !.managed = @ \ {w}, !.small = @ \ {w}]
              /\ switching' = [o \in Owl |-> o \notin {w, i} /\ switching[o]]
    BY <1>2 DEF RemoveWindow
  <2> DEFINE s == IF i = None THEN otp ELSE OtpRemove(otp, i)
             r == OtpRemove(s, w)
  <2>2. i # None => i \in Owl
    BY IconOfType DEF Owl
  <2>3. s \in StackType
    BY <2>2, OtpRemoveType
  <2>4. r \in StackType
    BY <2>3, OtpRemoveType DEF Owl
  <2>5. otp' \in StackType
    BY <2>1, <2>4 DEF StackType
  <2>6. switching' \in [Owl -> BOOLEAN]
    BY <2>1
  <2>7. stash' \in [Win -> (SUBSET Aflag) \cup {None}]
    BY <1>2 DEF RemoveWindow, TypeOK
  <2>8. ewmh' \in [Win -> SUBSET Aflag] /\ zoomed' \in [Win -> ZoomFunc \cup {"none"}]
    BY <1>2 DEF RemoveWindow, TypeOK
  <2>9. QED
    BY <1>2, <2>5, <2>6, <2>7, <2>8 DEF RemoveWindow, TypeOK
<1>3. ASSUME Restart PROVE TypeOK'
  <2>1. EmptyStack \in StackType
    BY DEF EmptyStack, StackType, OTP_MAX, OTP_ZERO
  <2>2. otp' \in StackType
    BY <1>3, <2>1 DEF Restart, StackType
  <2>3. QED
    BY <1>3, <2>2 DEF Restart, TypeOK
<1>4. QED
  BY <1>1, <1>2, <1>3

\* Type correctness as a window gets a new name.
LEMMA RecomputePrefsType ==
  ASSUME TypeOK, NEW w \in Win, NEW pr \in Preferences, NEW ipr \in Preferences,
         RecomputePrefs(w, pr, ipr)
  PROVE  TypeOK'
<1> otp \in StackType /\ w \in Owl
  BY DEF TypeOK, Owl
<1>1. PICK i \in IconOf(otp, w) :
        LET r == RecomputeOwlPrefs(otp, w, pr)
            q == IF i = None THEN r ELSE RecomputeOwlPrefs(r, i, ipr)
            moved == Preferred(pr, otp.base[w]) # otp.base[w]
            iconMoved == i # None /\ Preferred(ipr, otp.base[i]) # otp.base[i]
        IN  /\ otp' = Checked(q)
            /\ switching' =
                 [o \in Owl |->
                    IF o = w /\ pr.switch THEN ~DefaultSwitching["win"]
                    ELSE IF o = i /\ ipr.switch THEN ~DefaultSwitching["icon"]
                    ELSE switching[o]]
            /\ stash' = IF moved THEN StashFirstTime(r, w) ELSE stash
            /\ ewmh' = IF moved \/ iconMoved THEN TellAboveBelow(q, w) ELSE ewmh
  BY DEF RecomputePrefs
<1> DEFINE r == RecomputeOwlPrefs(otp, w, pr)
           q == IF i = None THEN r ELSE RecomputeOwlPrefs(r, i, ipr)
<1>2. r \in StackType
  BY RecomputeType
<1>3. i # None => i \in Owl
  BY IconOfType DEF Owl
<1>4. q \in StackType
  BY <1>2, <1>3, RecomputeType
<1>5. otp' \in StackType
  BY <1>1, <1>4, CheckedType
<1>6. switching' \in [Owl -> BOOLEAN]
  BY <1>1 DEF TypeOK
<1>7. /\ StashFirstTime(r, w) \in [Win -> (SUBSET Aflag) \cup {None}]
      /\ TellAboveBelow(q, w) \in [Win -> SUBSET Aflag]
  BY <1>2, <1>4, TellType
<1>8. stash' \in [Win -> (SUBSET Aflag) \cup {None}] /\ ewmh' \in [Win -> SUBSET Aflag]
  BY <1>1, <1>7 DEF TypeOK
<1>9. UNCHANGED <<zoomed, job>>
  BY DEF RecomputePrefs
<1>10. QED
  BY <1>5, <1>6, <1>8, <1>9 DEF TypeOK

\* Type correctness of zooming and resizing, which may also raise the window.
LEMMA SizeStepType ==
  ASSUME TypeOK, NEW w \in Win
  PROVE  /\ \A func \in ZoomFunc : FullZoom(w, func) => TypeOK'
         /\ \A raise \in BOOLEAN : Resize(w, raise) => TypeOK'
<1> otp \in StackType /\ w \in Owl
  BY DEF TypeOK, Owl
<1>0. \A s \in StackType, changed \in BOOLEAN :
        StashAfter(s, w, changed) \in [Win -> (SUBSET Aflag) \cup {None}]
  BY TellType DEF StashAfter, TypeOK
<1>1. ASSUME NEW func \in ZoomFunc, FullZoom(w, func) PROVE TypeOK'
  <2> DEFINE off == zoomed[w] = func
             s == IF off THEN Unzoomed(otp, w) ELSE Zoomed(otp, w, func)
             now == IF off THEN "none" ELSE func
             special == func = "fullscreen" \/ (func = "xfullscreen" /\ ~off)
  <2>1. PICK sm \in Sizes(otp, w) :
          /\ IF RaiseOnResize /\ func # "fullscreen"
             THEN Move(s, w, "Above", sm)
             ELSE otp' = [s EXCEPT !.small = sm] /\ UNCHANGED job
          /\ zoomed' = [zoomed EXCEPT ![w] = now]
          /\ stash' = StashAfter(s, w, special)
          /\ ewmh' = TellZoom(w, now)
    BY <1>1 DEF FullZoom
  <2>2. s \in StackType /\ sm \in SUBSET Win
    BY ZoomType, SizesType
  <2> HIDE DEF s
  <2>3. otp' \in StackType /\ job' \in JobType
    <3>1. CASE RaiseOnResize /\ func # "fullscreen"
      BY <2>1, <2>2, <3>1, MoveType
    <3>2. CASE ~(RaiseOnResize /\ func # "fullscreen")
      BY <2>1, <2>2, <3>2 DEF StackType, TypeOK, JobType
    <3>3. QED
      BY <3>1, <3>2
  <2>4. zoomed' \in [Win -> ZoomFunc \cup {"none"}]
    BY <2>1 DEF TypeOK
  <2>5. stash' \in [Win -> (SUBSET Aflag) \cup {None}]
    BY <1>0, <2>1, <2>2
  <2>6. ewmh' \in [Win -> SUBSET Aflag]
    BY <2>1, TellType
  <2>7. QED
    BY <1>1, <2>3, <2>4, <2>5, <2>6 DEF FullZoom, TypeOK, JobType
<1>2. ASSUME NEW raise \in BOOLEAN, Resize(w, raise) PROVE TypeOK'
  <2>1. PICK sm \in Sizes(otp, w) :
          LET s == [Unzoomed(otp, w) EXCEPT !.small = sm]
          IN  IF raise /\ RaiseOnResize THEN Move(s, w, "Above", sm)
                                        ELSE otp' = s /\ UNCHANGED job
    BY <1>2 DEF Resize
  <2> DEFINE s == [Unzoomed(otp, w) EXCEPT !.small = sm]
  <2>2. Unzoomed(otp, w) \in StackType /\ sm \in SUBSET Win
    BY ZoomType, SizesType
  <2>3. s \in StackType
    BY <2>2 DEF StackType
  <2> HIDE DEF s
  <2>4. otp' \in StackType /\ job' \in JobType
    <3>1. CASE raise /\ RaiseOnResize
      <4>1. Move(s, w, "Above", sm)
        BY <2>1, <3>1 DEF s
      <4>2. QED
        BY <2>2, <2>3, <4>1, MoveType
    <3>2. CASE ~(raise /\ RaiseOnResize)
      <4>1. otp' = s /\ UNCHANGED job
        BY <2>1, <3>2 DEF s
      <4>2. QED
        BY <2>3, <4>1 DEF TypeOK, JobType
    <3>3. QED
      BY <3>1, <3>2
  <2>5. stash' \in [Win -> (SUBSET Aflag) \cup {None}]
    BY <1>0, <1>2, <2>2 DEF Resize
  <2>6. zoomed' \in [Win -> ZoomFunc \cup {"none"}]
    BY <1>2 DEF Resize, TypeOK
  <2>7. QED
    BY <1>2, <2>4, <2>5, <2>6 DEF Resize, TypeOK, JobType
<1>3. QED
  BY <1>1, <1>2

\* Type correctness of the _NET_WM_STATE messages.
LEMMA NetWmStateType ==
  ASSUME TypeOK, NEW w \in Win, NEW flag \in ClientFlags, NEW on,
         NetWmState(w, flag, on)
  PROVE  TypeOK'
<1> otp \in StackType /\ w \in Owl
  BY DEF TypeOK, Owl
<1> DEFINE flags == IF on THEN otp.flags[w] \cup {flag} ELSE otp.flags[w] \ {flag}
           s == SetFlags(otp, w, flags)
           r == IF Pri(s, w) # Pri(otp, w) THEN OtpRestackWindow(s, w) ELSE s
<1>1. flags \in SUBSET Aflag
  BY ConfigAssumption DEF StackType, Aflag
<1>2. s \in StackType
  <2> HIDE DEF flags
  <2>1. [otp EXCEPT !.flags[w] = flags] \in StackType
    BY <1>1 DEF StackType
  <2>2. QED
    BY <2>1 DEF SetFlags
<1>3. r \in StackType
  BY <1>2, OtpRestackWindowType
<1>4. /\ StashAfter(s, w, TRUE) \in [Win -> (SUBSET Aflag) \cup {None}]
      /\ TellAboveBelow(r, w) \in [Win -> SUBSET Aflag]
  BY <1>2, <1>3, TellType
<1>5. otp' = r /\ stash' = StashAfter(s, w, TRUE) /\ ewmh' = TellAboveBelow(r, w)
  BY DEF NetWmState
<1>6. UNCHANGED <<switching, zoomed, job>>
  BY DEF NetWmState
<1>7. QED
  BY <1>3, <1>4, <1>5, <1>6 DEF TypeOK

\* Type correctness of a change of focus.
LEMMA SetFocusType ==
  ASSUME TypeOK, NEW w \in Win \cup {None}, SetFocus(w)
  PROVE  TypeOK'
<1> otp \in StackType
  BY DEF TypeOK
<1>1. otp' \in StackType /\ job' \in JobType
  <2>1. CASE otp.focus # None /\ OtpIsFocusDependent(otp, otp.focus)
    <3>1. otp.focus \in Win /\ [otp EXCEPT !.focus = None] \in StackType
      BY <2>1 DEF StackType
    <3>2. OtpFocusWindowBE([otp EXCEPT !.focus = None], otp.focus, TRUE, w)
      BY <2>1 DEF SetFocus
    <3>3. QED
      BY <3>1, <3>2, FocusBEType
  <2>2. CASE ~(otp.focus # None /\ OtpIsFocusDependent(otp, otp.focus))
    BY <2>2, FocusEntersType DEF SetFocus
  <2>3. QED
    BY <2>1, <2>2
<1>2. QED
  BY <1>1 DEF SetFocus, TypeOK, JobType

\* Every step keeps the types.
LEMMA TypeStep == TypeOK /\ [Next]_vars => TypeOK'
<1> SUFFICES ASSUME TypeOK, [Next]_vars PROVE TypeOK'
  OBVIOUS
<1>1. CASE UNCHANGED vars
  BY <1>1 DEF vars, TypeOK
<1>2. CASE Next
  <2>1. CASE JobStep
    BY <2>1, JobStepType
  <2>2. CASE \E o \in Owl : \/ Raise(o) \/ Lower(o) \/ RaiseLower(o)
                            \/ TinyRaise(o) \/ TinyLower(o)
    BY <2>2, MoveStepType
  <2>3. CASE \/ \E o \in Owl, n \in UserPriorities, where \in {"Above", "Below"} :
                  SetPriority(o, n, where)
             \/ \E o \in Owl, n \in UserDeltas : ChangePriority(o, n)
             \/ \E o \in Switchable : SwitchPriority(o)
             \/ \E o \in Togglable : ToggleSwitching(o)
    BY <2>3, PriorityStepType, ConfigAssumption
  <2>4. CASE \E w \in StackModeWins, x \in Win, where \in {"Above", "Below"} :
               ForcePlacement(w, x, where)
    BY <2>4, ForcePlacementType, ConfigAssumption
  <2>5. CASE \/ \E w \in Win, pr \in Preferences : AddWindow(w, pr)
             \/ \E i \in Icon, pr \in Preferences : AddIcon(i, pr)
    BY <2>5, AddStepType
  <2>6. CASE \/ \E i \in Icon : FreeIcon(i)
             \/ \E w \in Win, withdrawn \in BOOLEAN : RemoveWindow(w, withdrawn)
             \/ Restart
    BY <2>6, RemoveStepType
  <2>7. CASE \E w \in Win, pr, ipr \in Preferences : RecomputePrefs(w, pr, ipr)
    BY <2>7, RecomputePrefsType
  <2>8. CASE \/ \E w \in Zoomable, func \in Zooms : FullZoom(w, func)
             \/ \E w \in Win, raise \in BOOLEAN : Resize(w, raise)
    BY <2>8, SizeStepType, ConfigAssumption
  <2>9. CASE \E w \in Win, flag \in ClientFlags, on \in BOOLEAN :
               NetWmState(w, flag, on)
    BY <2>9, NetWmStateType
  <2>10. CASE \E w \in Win \cup {None} : SetFocus(w)
    BY <2>10, SetFocusType
  <2>11. QED
    BY <1>2, <2>1, <2>2, <2>3, <2>4, <2>5, <2>6, <2>7, <2>8, <2>9, <2>10 DEF Next
<1>3. QED
  BY <1>1, <1>2

\* The type invariant of Otp, for every set of windows and every configuration:
\* priorities stay in 0 .. OTP_MAX whatever is added to them, and the list
\* holds owls only.
THEOREM TypeCorrect == Spec => []TypeOK
<1>1. Init => TypeOK
  BY DEF Init, TypeOK, EmptyStack, StackType, OTP_MAX, OTP_ZERO
<1>2. TypeOK /\ [Next]_vars => TypeOK'
  BY TypeStep
<1>3. QED
  BY <1>1, <1>2, PTL DEF Spec

(***************************************************************************)
(* The list stays one list.  The operators are shown to keep IsList first.  *)
(***************************************************************************)
\* A bottom part of the list: with an owl, all that lies under it.
BottomPart(s, low) ==
  /\ low \subseteq s.listed
  /\ \A x \in low : s.under[x] \subseteq low

\* The same owls on the list, of the same windows, perhaps in another order.
Reordered(s, r) ==
  /\ r \in StackType /\ IsList(r)
  /\ r.listed = s.listed /\ r.managed = s.managed /\ r.focus = s.focus

\* RemoveOwl closes the gap.
LEMMA RemoveOwlList ==
  ASSUME NEW s \in StackType, IsList(s), NEW w \in Owl
  PROVE  /\ IsList(RemoveOwl(s, w))
         /\ RemoveOwl(s, w).listed = s.listed \ {w}
         /\ RemoveOwl(s, w).managed = s.managed /\ RemoveOwl(s, w).focus = s.focus
  BY DEF RemoveOwl, IsList, StackType

\* Two owls that lie under a third are ordered too; none lies under itself.
LEMMA ListOrder ==
  ASSUME NEW s \in StackType, IsList(s)
  PROVE  /\ \A x, y \in Owl : y \in s.under[x] =>
              /\ y \in s.listed /\ x \in s.listed /\ x # y
              /\ x \notin s.under[y] /\ s.under[y] \subseteq s.under[x]
         /\ \A x \in s.listed : BottomPart(s, s.under[x])
         /\ \A x \in s.listed : BottomPart(s, s.under[x] \cup {x})
<1>1. s.listed \subseteq Owl
  BY DEF StackType
<1>2. QED
  BY <1>1 DEF IsList, BottomPart

\* The owls under a priority are a bottom part.
LEMMA BelowPriorityBottom ==
  ASSUME NEW s \in StackType, IsList(s), NEW p
  PROVE  BottomPart(s, BelowPriority(s, p))
<1>1. ASSUME NEW x \in BelowPriority(s, p), NEW y \in s.under[x]
      PROVE  y \in BelowPriority(s, p)
  <2>1. x \in s.listed /\ x \in Owl
    BY DEF BelowPriority, StackType
  <2>2. y \in s.listed /\ s.under[y] \subseteq s.under[x]
    BY <2>1 DEF IsList
  <2>3. QED
    BY <2>2 DEF BelowPriority
<1>2. QED
  BY <1>1 DEF BottomPart, BelowPriority

\* What lies over a bottom part has all of it under it.
LEMMA OverBottomPart ==
  ASSUME NEW s \in StackType, IsList(s), NEW low, BottomPart(s, low),
         NEW x \in s.listed \ low
  PROVE  low \subseteq s.under[x]
<1>1. ASSUME NEW y \in low PROVE y \in s.under[x]
  <2>1. x # y /\ y \in s.listed
    BY DEF BottomPart
  <2>2. x \notin s.under[y]
    BY DEF BottomPart
  <2>3. QED
    BY <2>1, <2>2 DEF IsList
<1>2. QED
  BY <1>1

\* PutOver links an owl that was off the list, and moves those that follow it.
LEMMA PutOverList ==
  ASSUME NEW s \in StackType, IsList(s), NEW w \in Owl \ s.listed,
         NEW low, BottomPart(s, low), NEW follow \in SUBSET low
  PROVE  /\ IsList(PutOver(s, w, low, follow))
         /\ PutOver(s, w, low, follow).listed = s.listed \cup {w}
<1> DEFINE r == PutOver(s, w, low, follow)
           stay == low \ follow
           high == s.listed \ low
<1>1. /\ low \subseteq s.listed /\ s.listed \subseteq Owl /\ w \notin s.listed
      /\ s.under[w] = {}
  BY DEF BottomPart, StackType, IsList
<1>2. r.listed = stay \cup {w} \cup follow \cup high
  BY <1>1 DEF PutOver
<1>3. r.under[w] = stay
  BY <1>1 DEF PutOver
<1>4. \A o \in stay : r.under[o] = s.under[o] \ follow
  BY <1>1 DEF PutOver
<1>5. \A o \in follow : r.under[o] = stay \cup {w} \cup (s.under[o] \cap follow)
  BY <1>1 DEF PutOver
<1>6. \A o \in high : r.under[o] = s.under[o] \cup {w}
  BY <1>1 DEF PutOver
<1>7. \A o \in Owl \ r.listed : r.under[o] = {}
  <2>1. ASSUME NEW o \in Owl \ r.listed PROVE r.under[o] = s.under[o]
    BY <1>1, <1>2 DEF PutOver
  <2>2. QED
    BY <1>2, <2>1 DEF IsList
<1>8. \A o \in low : s.under[o] \subseteq low \ {o}
  BY <1>1 DEF BottomPart, IsList
<1>9. \A o \in high : low \subseteq s.under[o] /\ s.under[o] \subseteq s.listed \ {o}
  BY <1>1, OverBottomPart DEF IsList
<1> HIDE DEF r
<1>10. \A x \in Owl : /\ r.under[x] \subseteq r.listed \ {x}
                      /\ x \notin r.listed => r.under[x] = {}
  BY <1>1, <1>2, <1>3, <1>4, <1>5, <1>6, <1>7, <1>8, <1>9
<1>11. ASSUME NEW x \in r.listed, NEW y \in r.under[x]
       PROVE  r.under[y] \subseteq r.under[x]
  <2>0. \A a \in s.listed : \A b \in s.under[a] : s.under[b] \subseteq s.under[a]
    BY DEF IsList
  <2>1. CASE x \in stay
    BY <1>1, <1>4, <1>8, <2>0, <2>1
  <2>2. CASE x = w
    BY <1>3, <1>4, <1>8, <2>2
  <2>3. CASE x \in follow
    <3>1. CASE y \in stay
      BY <1>4, <1>5, <1>8, <2>3, <3>1
    <3>2. CASE y = w
      BY <1>3, <1>5, <2>3, <3>2
    <3>3. CASE y \in s.under[x] \cap follow
      BY <1>1, <1>5, <2>0, <2>3, <3>3
    <3>4. QED
      BY <1>5, <2>3, <3>1, <3>2, <3>3
  <2>4. CASE x \in high
    <3>1. CASE y = w
      BY <1>3, <1>6, <1>9, <2>4, <3>1
    <3>2. CASE y \in stay
      BY <1>4, <1>6, <1>8, <1>9, <2>4, <3>2
    <3>3. CASE y \in follow
      BY <1>5, <1>6, <1>8, <1>9, <2>4, <3>3
    <3>4. CASE y \in high
      BY <1>1, <1>6, <1>9, <2>0, <2>4, <3>4
    <3>5. QED
      BY <1>6, <1>9, <2>4, <3>1, <3>2, <3>3, <3>4
  <2>5. QED
    BY <1>2, <2>1, <2>2, <2>3, <2>4
<1>12. ASSUME NEW x \in r.listed, NEW y \in r.listed
       PROVE  x = y \/ x \in r.under[y] \/ y \in r.under[x]
  <2>0. \A a, b \in s.listed : a = b \/ a \in s.under[b] \/ b \in s.under[a]
    BY DEF IsList
  <2>1. CASE x = w \/ y = w
    BY <1>2, <1>3, <1>5, <1>6, <2>1
  <2>2. CASE x \in high \/ y \in high
    BY <1>1, <1>2, <1>6, <1>9, <2>0, <2>2
  <2>3. CASE x \in low /\ y \in low
    BY <1>1, <1>4, <1>5, <2>0, <2>3
  <2>4. QED
    BY <1>2, <2>1, <2>2, <2>3
<1>13. QED
  <2>1. IsList(r)
    BY <1>10, <1>11, <1>12 DEF IsList
  <2>2. r.listed = s.listed \cup {w}
    BY <1>1, <1>2
  <2>3. QED
    BY <2>1, <2>2 DEF r

\* The owl w has come onto the list of s, which is r now.
Linked(s, r, w) ==
  /\ r \in StackType /\ IsList(r)
  /\ r.listed = s.listed \cup {w}
  /\ r.managed = s.managed /\ r.focus = s.focus

\* The assertions of the insertion change nothing.
LEMMA PutAssertedList ==
  ASSUME NEW s \in StackType, IsList(s), NEW w \in Owl \ s.listed,
         NEW low, BottomPart(s, low), NEW follow \in SUBSET low, NEW put
  PROVE  Linked(s, PutAsserted(s, w, low, follow, put), w)
<1> DEFINE r == PutOver(s, w, low, follow)
           q == PutAsserted(s, w, low, follow, put)
<1>1. low \in SUBSET Owl
  BY DEF BottomPart, StackType
<1>2. IsList(r) /\ r.listed = s.listed \cup {w}
  BY PutOverList
<1>3. r.managed = s.managed /\ r.focus = s.focus
  BY DEF PutOver
<1>4. r \in StackType /\ q \in StackType
  BY <1>1, PutOverType, PutAssertedType
<1>5. /\ q.listed = r.listed /\ q.under = r.under
      /\ q.managed = r.managed /\ q.focus = r.focus
  BY <1>4 DEF PutAsserted, StackType
<1> HIDE DEF r, q
<1>6. IsList(q)
  BY <1>2, <1>5 DEF IsList
<1>7. Linked(s, q, w)
  BY <1>2, <1>3, <1>4, <1>5, <1>6 DEF Linked
<1>8. QED
  BY <1>7 DEF q

\* Each way to insert an owl links it.
LEMMA InsertList ==
  ASSUME NEW s \in StackType, IsList(s), NEW w \in Owl \ s.listed
  PROVE  /\ \A where : Linked(s, InsertOwl(s, w, where), w)
         /\ \A low : BottomPart(s, low) =>
              /\ Linked(s, InsertOwlAbove(s, w, low), w)
              /\ Linked(s, RaiseOver(s, w, low), w)
<1>1. ASSUME NEW where PROVE Linked(s, InsertOwl(s, w, where), w)
  <2> DEFINE p == Pri(s, w) - (IF where = "Above" THEN 0 ELSE 1)
             low == BelowPriority(s, p + 1)
             follow == {x \in low : shouldStayAbove(s, x, w)}
  <2>1. BottomPart(s, low) /\ follow \in SUBSET low
    BY BelowPriorityBottom
  <2> HIDE DEF low
  <2>2. \A put : Linked(s, PutAsserted(s, w, low, follow, put), w)
    BY <2>1, PutAssertedList
  <2>3. QED
    BY <2>2 DEF InsertOwl, low
<1>2. ASSUME NEW low, BottomPart(s, low)
      PROVE  /\ Linked(s, InsertOwlAbove(s, w, low), w)
             /\ Linked(s, RaiseOver(s, w, low), w)
  <2>1. {} \in SUBSET low /\ {x \in low : shouldStayAbove(s, x, w)} \in SUBSET low
    OBVIOUS
  <2>2. QED
    BY <1>2, <2>1, PutAssertedList DEF InsertOwlAbove, RaiseOver
<1>3. QED
  BY <1>1, <1>2

\* An owl that is taken off and put back leaves the same owls.
LEMMA RelinkedIsReordered ==
  ASSUME NEW s \in StackType, IsList(s), NEW w \in s.listed, NEW r,
         Linked(RemoveOwl(s, w), r, w)
  PROVE  Reordered(s, r)
<1>1. w \in Owl
  BY DEF StackType
<1>2. QED
  BY <1>1, RemoveOwlList DEF Linked, Reordered

\* So raising, lowering and giving another priority only reorder the list.
LEMMA ReinsertList ==
  ASSUME NEW s \in StackType, IsList(s), NEW w \in s.listed, NEW where
  PROVE  Reordered(s, Reinsert(s, w, where))
<1> DEFINE q == RemoveOwl(s, w)
<1>1. w \in Owl
  BY DEF StackType
<1>2. q \in StackType /\ IsList(q) /\ w \in Owl \ q.listed
  BY <1>1, RemoveOwlType, RemoveOwlList
<1>3. Linked(q, InsertOwl(q, w, where), w)
  BY <1>2, InsertList
<1>4. QED
  BY <1>3, RelinkedIsReordered DEF Reinsert

\* What depends on other fields of the record than the list.
LEMMA OtherFields ==
  ASSUME NEW s \in StackType, NEW r \in StackType, IsList(s),
         r.listed = s.listed, r.under = s.under,
         r.managed = s.managed, r.focus = s.focus
  PROVE  Reordered(s, r)
  BY DEF Reordered, IsList

\* Reordering twice is reordering.
LEMMA ReorderedTwice ==
  ASSUME NEW s, NEW q, NEW r, Reordered(s, q), Reordered(q, r)
  PROVE  Reordered(s, r)
  BY DEF Reordered

\* OtpCheckConsistency only looks.
LEMMA CheckedList ==
  ASSUME NEW s \in StackType, IsList(s)
  PROVE  Reordered(s, Checked(s))
<1>1. Checked(s) \in StackType
  BY CheckedType
<1>2. QED
  BY <1>1, OtherFields DEF Checked, StackType

\* OtpSetPriority, OtpRestackWindow, a new name and a zoom reorder the list.
LEMMA SetOwlPriorityList ==
  ASSUME NEW s \in StackType, IsList(s), NEW w \in s.listed, NEW pri \in Int, NEW where
  PROVE  Reordered(s, SetOwlPriority(s, w, pri, where))
<1> DEFINE q == [s EXCEPT !.base[w] = Clamp(pri)]
<1>1. w \in Owl
  BY DEF StackType
<1>2. q \in StackType
  BY ClampType DEF StackType
<1>3. Reordered(s, q) /\ w \in q.listed
  <2>1. /\ q.listed = s.listed /\ q.under = s.under
        /\ q.managed = s.managed /\ q.focus = s.focus
    BY DEF StackType
  <2>2. QED
    BY <1>2, <2>1, OtherFields
<1>4. Reordered(q, Reinsert(q, w, where))
  BY <1>2, <1>3, ReinsertList DEF Reordered
<1>5. QED
  BY <1>3, <1>4, ReorderedTwice DEF SetOwlPriority

\* OtpRestackWindow.
LEMMA RestackList ==
  ASSUME NEW s \in StackType, IsList(s), NEW w \in s.listed
  PROVE  Reordered(s, OtpRestackWindow(s, w))
<1>1. Reordered(s, Reinsert(s, w, "Above"))
  BY ReinsertList
<1>2. Reordered(Reinsert(s, w, "Above"), OtpRestackWindow(s, w))
  BY <1>1, CheckedList DEF OtpRestackWindow, Reordered
<1>3. QED
  BY <1>1, <1>2, ReorderedTwice

\* Zooming and the EWMH states.
LEMMA FlagsList ==
  ASSUME NEW s \in StackType, IsList(s), NEW w \in Win, NEW flags \in SUBSET Aflag
  PROVE  Reordered(s, SetFlags(s, w, flags))
<1> DEFINE q == SetFlags(s, w, flags)
<1>1. q \in StackType
  BY DEF SetFlags, StackType, Owl
<1>2. /\ q.listed = s.listed /\ q.under = s.under
      /\ q.managed = s.managed /\ q.focus = s.focus
  BY DEF SetFlags, StackType
<1>3. QED
  BY <1>1, <1>2, OtherFields

\* unzoom and the fullscreen zooms set a flag and restack the window.
LEMMA ZoomList ==
  ASSUME NEW s \in StackType, IsList(s), NEW w \in Win, w \in s.listed, NEW func
  PROVE  /\ Reordered(s, Unzoomed(s, w))
         /\ Reordered(s, Zoomed(s, w, func))
<1>1. /\ s.flags[w] \ {"FULLSCREEN"} \in SUBSET Aflag
      /\ s.flags[w] \cup {"FULLSCREEN"} \in SUBSET Aflag
  BY DEF StackType, Aflag, Owl
<1>2. ASSUME NEW flags \in SUBSET Aflag
      PROVE  Reordered(s, OtpRestackWindow(SetFlags(s, w, flags), w))
  <2>1. Reordered(s, SetFlags(s, w, flags))
    BY FlagsList
  <2>2. Reordered(SetFlags(s, w, flags), OtpRestackWindow(SetFlags(s, w, flags), w))
    BY <2>1, RestackList DEF Reordered
  <2>3. QED
    BY <2>1, <2>2, ReorderedTwice
<1>3. Reordered(s, s)
  BY DEF Reordered
<1>4. QED
  BY <1>1, <1>2, <1>3 DEF Unzoomed, Zoomed

\* OtpRecomputePrefs reorders the list.
LEMMA RecomputeList ==
  ASSUME NEW s \in StackType, IsList(s), NEW o \in s.listed, NEW pr \in Preferences
  PROVE  Reordered(s, RecomputeOwlPrefs(s, o, pr))
<1> DEFINE base == Preferred(pr, s.base[o])
           q == [s EXCEPT !.base[o] = base]
<1>1. o \in Owl
  BY DEF StackType
<1>2. base \in 0 .. OTP_MAX
  <2>1. pr.pri \in (0 .. OTP_MAX) \cup {None}
    BY ConfigAssumption
  <2>2. QED
    BY <1>1, <2>1 DEF Preferred, StackType
<1> HIDE DEF base
<1>3. q \in StackType
  BY <1>1, <1>2 DEF StackType
<1>4. /\ q.listed = s.listed /\ q.under = s.under
      /\ q.managed = s.managed /\ q.focus = s.focus
  BY DEF StackType
<1>5. Reordered(s, q)
  BY <1>3, <1>4, OtherFields
<1> HIDE DEF q
<1>6. Reordered(q, Reinsert(q, o, "Above"))
  <2>1. q \in StackType /\ IsList(q) /\ o \in q.listed
    BY <1>3, <1>4, <1>5 DEF Reordered
  <2>2. QED
    BY <2>1, ReinsertList
<1>7. Reordered(s, Reinsert(q, o, "Above"))
  BY <1>5, <1>6, ReorderedTwice
<1>8. Reordered(s, s)
  BY DEF Reordered
<1>9. QED
  BY <1>7, <1>8 DEF RecomputeOwlPrefs, base, q

\* OtpRemove takes its owl off the list and no other.
LEMMA OtpRemoveList ==
  ASSUME NEW s \in StackType, IsList(s), NEW w \in Owl
  PROVE  /\ OtpRemove(s, w) \in StackType /\ IsList(OtpRemove(s, w))
         /\ OtpRemove(s, w).listed = s.listed \ {w}
         /\ OtpRemove(s, w).managed = s.managed /\ OtpRemove(s, w).focus = s.focus
<1> DEFINE r == RemoveOwl(s, w)
           q == [r EXCEPT !.base[w] = OTP_ZERO, !.flags[w] = {}]
<1>1. /\ r \in StackType /\ IsList(r) /\ r.listed = s.listed \ {w}
      /\ r.managed = s.managed /\ r.focus = s.focus
  BY RemoveOwlType, RemoveOwlList
<1> HIDE DEF r
<1>2. OTP_ZERO \in 0 .. OTP_MAX
  BY DEF OTP_ZERO, OTP_MAX
<1>3. q \in StackType
  BY <1>1, <1>2, NewAttributesType
<1>4. /\ q.listed = r.listed /\ q.under = r.under
      /\ q.managed = r.managed /\ q.focus = r.focus
  BY <1>1 DEF StackType
<1>5. Reordered(r, q)
  BY <1>1, <1>3, <1>4, OtherFields
<1>6. Reordered(q, Checked(q))
  BY <1>3, <1>5, CheckedList DEF Reordered
<1>7. OtpRemove(s, w) = Checked(q)
  BY DEF OtpRemove, r
<1>8. QED
  BY <1>1, <1>5, <1>6, <1>7 DEF Reordered

\* The members of the list are the windows ctwm manages and icons of theirs.
Members(s) ==
  /\ s.listed \cap Win = s.managed
  /\ \A i \in s.listed \cap Icon : WinOf[i] \in s.managed
  /\ s.focus \in s.managed \cup {None}

Whole(s) == s \in StackType /\ IsList(s) /\ Members(s)

\* The loops under way refer to owls of the list and windows ctwm manages.
JobInList ==
  /\ job.kind = "walk" => /\ job.owl \in otp.listed
                          /\ job.next \in otp.listed \cup {None}
  /\ job.kind = "focus" => /\ job.todo \subseteq otp.listed
                           /\ job.then \in otp.managed \cup {None}

StackInv == TypeOK /\ Whole(otp) /\ JobInList

\* Whoever reorders the list keeps it whole.
LEMMA ReorderedWhole ==
  ASSUME NEW s, NEW r, Whole(s), Reordered(s, r)
  PROVE  Whole(r)
  BY DEF Whole, Reordered, Members

\* The sizes are no part of the list.
LEMMA SmallWhole ==
  ASSUME NEW s, Whole(s), NEW sm \in SUBSET Win
  PROVE  Whole([s EXCEPT !.small = sm]) /\ Reordered(s, [s EXCEPT !.small = sm])
<1> DEFINE r == [s EXCEPT !.small = sm]
<1>1. r \in StackType /\ s \in StackType
  BY DEF Whole, StackType
<1>2. /\ r.listed = s.listed /\ r.under = s.under
      /\ r.managed = s.managed /\ r.focus = s.focus
  BY <1>1 DEF StackType
<1>3. Reordered(s, r)
  BY <1>1, <1>2, OtherFields DEF Whole
<1>4. QED
  BY <1>3, ReorderedWhole

\* No loop is under way.
LEMMA IdleInList == job' = Idle => JobInList'
  BY DEF JobInList, Idle

\* A walk starts at an owl of the list.
LEMMA StartWalkList ==
  ASSUME NEW s, Whole(s), NEW o \in s.listed, NEW pri, NEW where, NEW tell, NEW sm,
         StartWalk(s, o, pri, where, tell, sm), otp' = s
  PROVE  JobInList'
<1> DEFINE rest == s.listed \ BelowPriority(s, Pri(s, o))
<1>1. PICK first \in {x \in rest : s.under[x] \cap rest = {}} :
        job' = [ kind |-> "walk", owl |-> o, pri |-> pri, where |-> where,
                 next |-> IF o \in Win THEN first ELSE None,
                 tell |-> tell, small |-> sm ]
  BY DEF StartWalk
<1>2. first \in s.listed
  OBVIOUS
<1>3. QED
  BY <1>1, <1>2 DEF JobInList

\* Raising and lowering.
LEMMA MoveList ==
  ASSUME NEW s, Whole(s), NEW o \in s.listed, NEW where, NEW sm \in SUBSET Win,
         Move(s, o, where, sm)
  PROVE  Whole(otp') /\ JobInList'
<1>1. CASE WillSwitch(s, o, where)
  BY <1>1, StartWalkList DEF Move
<1>2. CASE ~WillSwitch(s, o, where)
  <2> DEFINE q == Reinsert(s, o, where)
  <2>1. Reordered(s, q)
    BY ReinsertList DEF Whole
  <2>2. Reordered(q, Checked(q))
    BY <2>1, CheckedList DEF Reordered
  <2>3. Whole(Checked(q))
    BY <2>1, <2>2, ReorderedWhole
  <2>4. otp' = [Checked(q) EXCEPT !.small = sm] /\ job' = Idle
    BY <1>2 DEF Move
  <2>5. Whole(otp')
    BY <2>3, <2>4, SmallWhole
  <2>6. QED
    BY <2>4, <2>5, IdleInList
<1>3. QED
  BY <1>1, <1>2

\* The focus goes to a window ctwm manages, or to none.
LEMMA FocusWhole ==
  ASSUME NEW s, Whole(s), NEW w \in s.managed \cup {None}
  PROVE  Whole([s EXCEPT !.focus = w])
<1> DEFINE q == [s EXCEPT !.focus = w]
<1>1. s \in StackType /\ q \in StackType
  BY DEF Whole, StackType
<1>2. /\ q.listed = s.listed /\ q.under = s.under
      /\ q.managed = s.managed /\ q.focus = w
  BY <1>1 DEF StackType
<1>3. IsList(q) /\ Members(q)
  BY <1>2 DEF Whole, IsList, Members
<1>4. QED
  BY <1>1, <1>3 DEF Whole

\* OtpFocusWindowBE keeps the list whole, and collects owls of the list only.
LEMMA FocusBEList ==
  ASSUME NEW s, Whole(s), NEW w \in s.managed, NEW out, NEW then \in s.managed \cup {None},
         OtpFocusWindowBE(s, w, out, then)
  PROVE  Whole(otp') /\ JobInList'
<1> DEFINE r == Reinsert(s, w, "Above")
<1>1. w \in s.listed
  BY DEF Whole, Members
<1>2. Reordered(s, r)
  BY <1>1, ReinsertList DEF Whole
<1>3. Whole(r) /\ r.managed = s.managed
  BY <1>2, ReorderedWhole DEF Reordered
<1> HIDE DEF r
<1>4. /\ otp' = r
      /\ job' = [ kind |-> "focus", order |-> r.under,
                  todo |-> {t \in Win \cap r.listed : isTransientOf(t, w)},
                  out |-> out, then |-> then ]
  BY DEF OtpFocusWindowBE, r
<1>5. QED
  BY <1>3, <1>4 DEF JobInList

\* Giving the focus to a window ctwm manages keeps the list whole.
LEMMA FocusEntersList ==
  ASSUME NEW s, Whole(s), NEW w \in s.managed \cup {None}, FocusEnters(s, w)
  PROVE  Whole(otp') /\ JobInList'
<1> DEFINE q == [s EXCEPT !.focus = w]
<1>1. Whole(q) /\ q.managed = s.managed
  BY FocusWhole DEF Whole, StackType
<1>2. CASE w # None /\ OtpIsFocusDependent(s, w)
  <2>1. OtpFocusWindowBE(q, w, FALSE, None)
    BY <1>2 DEF FocusEnters
  <2>2. QED
    BY <1>1, <1>2, <2>1, FocusBEList
<1>3. CASE ~(w # None /\ OtpIsFocusDependent(s, w))
  BY <1>1, <1>3, IdleInList DEF FocusEnters
<1>4. QED
  BY <1>2, <1>3

\* The steps of the loops keep the list whole.
LEMMA JobStepList ==
  ASSUME StackInv, JobStep
  PROVE  Whole(otp') /\ JobInList'
<1> otp \in StackType /\ Whole(otp) /\ IsList(otp) /\ TypeOK
  BY DEF StackInv, Whole
<1>a. job.kind = "walk" => job \in Walks /\ job.owl \in otp.listed
  BY DEF StackInv, JobInList, TypeOK, Idle, Shuffles
<1>b. job.kind = "focus" => /\ job \in Shuffles /\ job.todo \subseteq otp.listed
                            /\ job.then \in otp.managed \cup {None}
  BY DEF StackInv, JobInList, TypeOK, Idle, Walks
<1>1. CASE WalkStep
  <2>1. job \in Walks /\ job.next \in otp.listed /\ job.owl \in otp.listed
    BY <1>1, <1>a DEF WalkStep, WalkTurn, InLayer, StackInv, JobInList
  <2>2. PICK up \in NextUp(otp, job.next) : job' = [job EXCEPT !.next = up]
    BY <1>1 DEF WalkStep, WalkTurn
  <2>3. up \in otp.listed \cup {None}
    BY DEF NextUp, Over
  <2> DEFINE q == [otp EXCEPT !.flags[job.next] = otp.flags[job.owl]]
  <2>4. q \in StackType
    BY <2>1 DEF StackType
  <2>5. /\ q.listed = otp.listed /\ q.under = otp.under
        /\ q.managed = otp.managed /\ q.focus = otp.focus
    BY DEF StackType
  <2> HIDE DEF q
  <2>6. Reordered(otp, q)
    BY <2>4, <2>5, OtherFields
  <2>7. job.next \in q.listed /\ job.pri \in Int /\ IsList(q)
    BY <2>1, <2>5, <2>6 DEF Walks, Reordered
  <2>8. Reordered(q, SetOwlPriority(q, job.next, job.pri, job.where))
    BY <2>4, <2>7, SetOwlPriorityList
  <2>9. Reordered(otp, SetOwlPriority(q, job.next, job.pri, job.where))
    BY <2>6, <2>8, ReorderedTwice
  <2>10. Reordered(otp, otp)
    BY DEF Reordered
  <2>11. otp' = IF isTransientOf(job.next, job.owl)
                THEN SetOwlPriority(q, job.next, job.pri, job.where) ELSE otp
    BY <1>1 DEF WalkStep, q
  <2>12. Reordered(otp, otp')
    BY <2>9, <2>10, <2>11
  <2>13. Whole(otp')
    BY <2>12, ReorderedWhole
  <2>14. job'.owl = job.owl /\ job'.next = up /\ job'.kind = "walk"
    BY <1>1, <2>1, <2>2 DEF Walks
  <2>15. QED
    BY <2>1, <2>3, <2>12, <2>13, <2>14 DEF JobInList, Reordered
<1>2. CASE WalkEnd
  <2> DEFINE q == SetOwlPriority(otp, job.owl, job.pri, job.where)
  <2>1. job \in Walks /\ job.owl \in otp.listed
    BY <1>2, <1>a DEF WalkEnd, WalkTurn
  <2>2. Reordered(otp, q)
    BY <2>1, SetOwlPriorityList DEF Walks
  <2>3. Reordered(q, Checked(q))
    BY <2>2, CheckedList DEF Reordered
  <2>4. Whole(Checked(q))
    BY <2>2, <2>3, ReorderedWhole
  <2>5. otp' = [Checked(q) EXCEPT !.small = job.small] /\ job.small \in SUBSET Win
    BY <1>2, <2>1 DEF WalkEnd, Walks
  <2>6. job' = Idle
    BY <1>2 DEF WalkEnd, WalkTurn
  <2>7. QED
    BY <2>4, <2>5, <2>6, SmallWhole, IdleInList
<1>3. CASE FocusStep
  <2>1. /\ job \in Shuffles /\ job.todo \subseteq otp.listed
        /\ job.then \in otp.managed \cup {None}
    BY <1>3, <1>b DEF FocusStep
  <2>2. PICK t \in job.todo : /\ otp' = Reinsert(otp, t, "Above")
                              /\ job' = [job EXCEPT !.todo = @ \ {t}]
    BY <1>3 DEF FocusStep
  <2>3. Reordered(otp, otp')
    BY <2>1, <2>2, ReinsertList
  <2>4. Whole(otp')
    BY <2>3, ReorderedWhole
  <2>5. /\ job'.kind = "focus" /\ job'.todo = job.todo \ {t}
        /\ job'.then = job.then
    BY <1>3, <2>1, <2>2 DEF Shuffles
  <2>6. QED
    BY <2>1, <2>3, <2>4, <2>5 DEF JobInList, Reordered
<1>4. CASE FocusEnd
  <2>1. job.then \in otp.managed \cup {None}
    BY <1>4, <1>b DEF FocusEnd
  <2>2. Reordered(otp, Checked(otp))
    BY CheckedList
  <2>3. Whole(Checked(otp)) /\ Checked(otp).managed = otp.managed
    BY <2>2, ReorderedWhole DEF Reordered
  <2>4. CASE job.out
    <3>1. FocusEnters(Checked(otp), job.then)
      BY <1>4, <2>4 DEF FocusEnd
    <3>2. QED
      BY <2>1, <2>3, <3>1, FocusEntersList
  <2>5. CASE ~job.out
    BY <1>4, <2>3, <2>5, IdleInList DEF FocusEnd
  <2>6. QED
    BY <2>4, <2>5
<1>5. QED
  BY <1>1, <1>2, <1>3, <1>4 DEF JobStep

\* So do the functions that raise, lower and change priorities.
LEMMA MoveStepList ==
  ASSUME StackInv, NEW o \in Owl,
         Raise(o) \/ Lower(o) \/ RaiseLower(o) \/ TinyRaise(o) \/ TinyLower(o)
  PROVE  Whole(otp') /\ JobInList'
<1> otp \in StackType /\ otp.small \in SUBSET Win /\ Whole(otp) /\ IsList(otp)
  BY DEF StackInv, Whole, StackType
<1>1. o \in otp.listed /\ job = Idle
  BY DEF Raise, Lower, RaiseLower, TinyRaise, TinyLower, Ready
<1>2. CASE Raise(o) \/ Lower(o)
  BY <1>1, <1>2, MoveList DEF Raise, Lower
<1>3. CASE RaiseLower(o)
  BY <1>1, <1>3, MoveList DEF RaiseLower
<1> DEFINE s == RemoveOwl(otp, o)
<1>4. /\ s \in StackType /\ IsList(s) /\ o \in Owl \ s.listed
      /\ s.listed = otp.listed \ {o}
  BY RemoveOwlType, RemoveOwlList
<1>5. \A x \in Owl : s.under[x] = IF x = o THEN {} ELSE otp.under[x] \ {o}
  BY DEF RemoveOwl
<1>6. \A q : Linked(s, q, o) => Whole(Checked(q))
  <2>1. SUFFICES ASSUME NEW q, Linked(s, q, o) PROVE Whole(Checked(q))
    OBVIOUS
  <2>2. Reordered(otp, q)
    BY <1>1, <2>1, RelinkedIsReordered
  <2>3. Reordered(q, Checked(q))
    BY <2>2, CheckedList DEF Reordered
  <2>4. QED
    BY <2>2, <2>3, ReorderedWhole
<1> HIDE DEF s
<1>7. CASE TinyRaise(o)
  <2>1. PICK x \in RunAbove(otp, o, Layer(otp, o)) :
          otp' = Checked(RaiseOver(s, o, (otp.under[x] \ {o}) \cup {x}))
    BY <1>7 DEF TinyRaise, s
  <2>2. x \in otp.listed /\ o \in otp.under[x] /\ x \in Owl
    BY DEF RunAbove, Over, StackType
  <2>3. x # o
    BY <2>2, ListOrder
  <2>4. BottomPart(s, s.under[x] \cup {x})
    BY <1>4, <2>2, <2>3, ListOrder
  <2>5. s.under[x] \cup {x} = (otp.under[x] \ {o}) \cup {x}
    BY <1>5, <2>2, <2>3
  <2>6. Whole(otp')
    BY <1>4, <1>6, <2>1, <2>4, <2>5, InsertList
  <2>7. QED
    BY <1>1, <1>7, <2>6, IdleInList DEF TinyRaise
<1>8. CASE TinyLower(o)
  <2>1. PICK x \in RunBelow(otp, o, Layer(otp, o)) :
          otp' = Checked(InsertOwlAbove(s, o, otp.under[x]))
    BY <1>8 DEF TinyLower, s
  <2>2. x \in otp.under[o]
    BY DEF RunBelow
  <2>3. x \in otp.listed /\ x # o /\ o \notin otp.under[x] /\ x \in Owl
    BY <2>2, ListOrder DEF StackType, IsList
  <2>4. BottomPart(s, s.under[x])
    BY <1>4, <2>3, ListOrder
  <2>5. s.under[x] = otp.under[x]
    BY <1>5, <2>3
  <2>6. Whole(otp')
    BY <1>4, <1>6, <2>1, <2>4, <2>5, InsertList
  <2>7. QED
    BY <1>1, <1>8, <2>6, IdleInList DEF TinyLower
<1>9. QED
  BY <1>2, <1>3, <1>7, <1>8

\* And those that set, change and switch priorities.
LEMMA PriorityStepList ==
  ASSUME StackInv, NEW o \in Owl
  PROVE  /\ \A n, where : SetPriority(o, n, where) => Whole(otp') /\ JobInList'
         /\ \A n : ChangePriority(o, n) => Whole(otp') /\ JobInList'
         /\ SwitchPriority(o) => Whole(otp') /\ JobInList'
         /\ ToggleSwitching(o) => Whole(otp') /\ JobInList'
<1> Whole(otp) /\ otp \in StackType /\ IsList(otp)
  BY DEF StackInv, Whole
<1>1. Whole(Checked(otp))
  BY CheckedList, ReorderedWhole
<1>2. ASSUME NEW n, NEW where, SetPriority(o, n, where)
      PROVE  Whole(otp') /\ JobInList'
  <2>1. o \in otp.listed /\ job = Idle
    BY <1>2 DEF SetPriority, Ready
  <2>2. CASE n \in -OTP_ZERO .. OTP_ZERO
    BY <1>2, <2>1, <2>2, StartWalkList DEF SetPriority
  <2>3. CASE n \notin -OTP_ZERO .. OTP_ZERO
    BY <1>1, <1>2, <2>1, <2>3, IdleInList DEF SetPriority
  <2>4. QED
    BY <2>2, <2>3
<1>3. ASSUME NEW n, ChangePriority(o, n) PROVE Whole(otp') /\ JobInList'
  BY <1>3, StartWalkList DEF ChangePriority
<1>4. ASSUME SwitchPriority(o) PROVE Whole(otp') /\ JobInList'
  BY <1>4, StartWalkList DEF SwitchPriority
<1>5. ASSUME ToggleSwitching(o) PROVE Whole(otp') /\ JobInList'
  BY <1>1, <1>5, IdleInList DEF ToggleSwitching, Ready
<1>6. QED
  BY <1>2, <1>3, <1>4, <1>5

\* A window stacked next to another.
LEMMA ForcePlacementList ==
  ASSUME StackInv, NEW w \in Win, NEW x \in Win, NEW where, ForcePlacement(w, x, where)
  PROVE  Whole(otp') /\ JobInList'
<1> DEFINE q == [otp EXCEPT !.base[w] = otp.base[x]]
           s == RemoveOwl(q, w)
           low == IF where = "Above" THEN s.under[x] \cup {x} ELSE s.under[x]
<1>1. Whole(otp) /\ otp \in StackType /\ IsList(otp) /\ w \in Owl /\ x \in Owl
  BY DEF StackInv, Whole, Owl
<1>2. w \in otp.listed /\ x \in otp.listed /\ x # w /\ job = Idle
  BY <1>1 DEF ForcePlacement, Ready, Whole, Members
<1>3. q \in StackType
  BY <1>1 DEF StackType
<1>4. /\ q.listed = otp.listed /\ q.under = otp.under
      /\ q.managed = otp.managed /\ q.focus = otp.focus
  BY <1>1 DEF StackType
<1> HIDE DEF q
<1>5. Reordered(otp, q)
  BY <1>1, <1>3, <1>4, OtherFields
<1>6. /\ s \in StackType /\ IsList(s) /\ w \in Owl \ s.listed /\ x \in s.listed
  BY <1>1, <1>2, <1>4, <1>5, RemoveOwlType, RemoveOwlList DEF Reordered
<1>7. BottomPart(s, low)
  BY <1>6, ListOrder
<1>8. Linked(s, InsertOwlAbove(s, w, low), w)
  BY <1>6, <1>7, InsertList
<1> DEFINE r == InsertOwlAbove(s, w, low)
<1>9. Reordered(q, r)
  BY <1>2, <1>4, <1>5, <1>8, RelinkedIsReordered DEF Reordered
<1>10. Reordered(r, Checked(r))
  BY <1>9, CheckedList DEF Reordered
<1>11. Whole(Checked(r))
  BY <1>1, <1>5, <1>9, <1>10, ReorderedWhole
<1>12. otp' = Checked(r) /\ job' = Idle
  BY <1>2 DEF ForcePlacement, q
<1>13. QED
  BY <1>11, <1>12, IdleInList

\* The attributes of an owl are no part of the list.
LEMMA NewOwlList ==
  ASSUME NEW s \in StackType, IsList(s), NEW o \in Owl, NEW x \in Win \cup {None},
         NEW pr \in Preferences, NEW got \in (SUBSET Aflag) \cup {None},
         NEW state \in SUBSET Aflag
  PROVE  Reordered(s, NewOwl(s, o, x, pr, got, state))
<1> DEFINE r == NewOwl(s, o, x, pr, got, state)
<1>1. r \in StackType
  BY NewOwlType
<1>2. /\ r.listed = s.listed /\ r.under = s.under
      /\ r.managed = s.managed /\ r.focus = s.focus
  BY DEF NewOwl, StackType
<1>3. QED
  BY <1>1, <1>2, OtherFields

\* A window or an icon comes.
LEMMA AddStepList ==
  ASSUME StackInv, NEW pr \in Preferences
  PROVE  /\ \A w \in Win : AddWindow(w, pr) => Whole(otp') /\ JobInList'
         /\ \A i \in Icon : AddIcon(i, pr) => Whole(otp') /\ JobInList'
<1> Whole(otp) /\ otp \in StackType /\ IsList(otp) /\ TypeOK
  BY DEF StackInv, Whole
<1>1. ASSUME NEW w \in Win, AddWindow(w, pr) PROVE Whole(otp') /\ JobInList'
  <2>1. PICK x \in Parents(otp, w), sm \in Sizes(otp, w),
             state \in (SUBSET ClientFlags) \cup {ewmh[w] \cap {"ABOVE", "BELOW"}} :
          LET s == NewOwl([otp EXCEPT !.small = sm], w, x, pr, stash[w], state)
              r == Checked(InsertOwl(s, w, "Above"))
          IN  otp' = [r EXCEPT !.managed = otp.managed \cup {w}]
    BY <1>1 DEF AddWindow
  <2> DEFINE o == [otp EXCEPT !.small = sm]
             s == NewOwl(o, w, x, pr, stash[w], state)
             r == InsertOwl(s, w, "Above")
             q == Checked(r)
  <2>2. x \in Win \cup {None} /\ w \in Owl
    BY DEF Parents, StackType, Owl
  <2>3. state \in SUBSET Aflag /\ stash[w] \in (SUBSET Aflag) \cup {None}
    BY ConfigAssumption DEF TypeOK, Aflag
  <2>4. Whole(o) /\ Reordered(otp, o)
    BY SizesType, SmallWhole
  <2> HIDE DEF o
  <2>5. Reordered(o, s)
    BY <2>2, <2>3, <2>4, NewOwlList DEF Whole
  <2>6. Reordered(otp, s)
    BY <2>4, <2>5, ReorderedTwice
  <2>7. w \notin otp.listed /\ w \notin otp.managed /\ job = Idle
    BY <1>1 DEF AddWindow, Whole, Members, Ready
  <2> HIDE DEF s
  <2>8. s \in StackType /\ IsList(s) /\ w \in Owl \ s.listed
    BY <2>2, <2>6, <2>7 DEF Reordered
  <2>9. Linked(s, r, w)
    BY <2>8, InsertList
  <2> HIDE DEF r
  <2>10. Reordered(r, q)
    BY <2>9, CheckedList DEF Linked
  <2>11. /\ q \in StackType /\ IsList(q) /\ q.listed = otp.listed \cup {w}
         /\ q.managed = otp.managed /\ q.focus = otp.focus
    BY <2>6, <2>9, <2>10 DEF Linked, Reordered
  <2>12. otp' = [q EXCEPT !.managed = otp.managed \cup {w}]
    BY <2>1 DEF o, s, r
  <2> HIDE DEF q
  <2>13. otp' \in StackType
    BY <2>11, <2>12 DEF StackType
  <2>14. /\ otp'.listed = otp.listed \cup {w} /\ otp'.under = q.under
         /\ otp'.managed = otp.managed \cup {w} /\ otp'.focus = otp.focus
    BY <2>11, <2>12 DEF StackType
  <2>15. IsList(otp')
    BY <2>11, <2>14 DEF IsList
  <2>16. Members(otp')
    BY <2>14, OwlAssumption DEF Whole, Members
  <2>17. job' = Idle
    BY <1>1, <2>7 DEF AddWindow
  <2>18. QED
    BY <2>13, <2>15, <2>16, <2>17, IdleInList DEF Whole
<1>2. ASSUME NEW i \in Icon, AddIcon(i, pr) PROVE Whole(otp') /\ JobInList'
  <2> DEFINE s == NewOwl(otp, i, None, pr, None, ewmh[WinOf[i]])
             r == InsertOwl(s, i, "Above")
             q == Checked(r)
  <2>1. i \in Owl /\ ewmh[WinOf[i]] \in SUBSET Aflag
    BY HintAssumption DEF TypeOK, Owl
  <2>2. Reordered(otp, s)
    BY <2>1, NewOwlList
  <2>3. i \notin otp.listed /\ WinOf[i] \in otp.managed /\ job = Idle
    BY <1>2 DEF AddIcon, Ready
  <2> HIDE DEF s
  <2>4. s \in StackType /\ IsList(s) /\ i \in Owl \ s.listed
    BY <2>1, <2>2, <2>3 DEF Reordered
  <2>5. Linked(s, r, i)
    BY <2>4, InsertList
  <2> HIDE DEF r
  <2>6. Reordered(r, q)
    BY <2>5, CheckedList DEF Linked
  <2>7. /\ q \in StackType /\ IsList(q) /\ q.listed = otp.listed \cup {i}
        /\ q.managed = otp.managed /\ q.focus = otp.focus
    BY <2>2, <2>5, <2>6 DEF Linked, Reordered
  <2>8. otp' = q /\ job' = Idle
    BY <1>2, <2>3 DEF AddIcon, s, r
  <2>9. Members(q)
    BY <2>3, <2>7, OwlAssumption DEF Whole, Members
  <2>10. QED
    BY <2>7, <2>8, <2>9, IdleInList DEF Whole
<1>3. QED
  BY <1>1, <1>2

\* A window or an icon goes: a window has no other icon than the one freed.
LEMMA RemoveStepList ==
  ASSUME StackInv
  PROVE  /\ \A i \in Icon : FreeIcon(i) => Whole(otp') /\ JobInList'
         /\ \A w \in Win, withdrawn \in BOOLEAN :
              RemoveWindow(w, withdrawn) => Whole(otp') /\ JobInList'
         /\ Restart => Whole(otp') /\ JobInList'
<1> Whole(otp) /\ otp \in StackType /\ IsList(otp)
  BY DEF StackInv, Whole
<1>1. ASSUME NEW i \in Icon, FreeIcon(i) PROVE Whole(otp') /\ JobInList'
  <2>1. i \in Owl /\ job' = Idle /\ otp' = OtpRemove(otp, i)
    BY <1>1 DEF FreeIcon, Owl, Ready
  <2>2. Whole(otp')
    BY <2>1, OtpRemoveList, OwlAssumption DEF Whole, Members
  <2>3. QED
    BY <2>1, <2>2, IdleInList
<1>2. ASSUME NEW w \in Win, NEW withdrawn \in BOOLEAN, RemoveWindow(w, withdrawn)
      PROVE  Whole(otp') /\ JobInList'
  <2>1. PICK i \in IconOf(otp, w) :
          LET s == IF i = None THEN otp ELSE OtpRemove(otp, i)
              r == OtpRemove(s, w)
          IN  otp' = [r EXCEPT !.focus = IF @ = w THEN None ELSE @,
                               !.managed = @ \ {w}, !.small = @ \ {w}]
    BY <1>2 DEF RemoveWindow
  <2> DEFINE s == IF i = None THEN otp ELSE OtpRemove(otp, i)
             r == OtpRemove(s, w)
  <2>2. i # None => i \in Icon /\ i \in Owl /\ i \in otp.listed /\ WinOf[i] = w
    BY IconOfType DEF Owl
  <2>3. /\ s \in StackType /\ IsList(s) /\ s.listed = otp.listed \ {i}
        /\ s.managed = otp.managed /\ s.focus = otp.focus
    <3>1. CASE i = None
      <4>1. None \notin otp.listed
        BY OwlAssumption DEF StackType, Owl
      <4>2. QED
        BY <3>1, <4>1
    <3>2. CASE i # None
      BY <2>2, <3>2, OtpRemoveList
    <3>3. QED
      BY <3>1, <3>2
  <2> HIDE DEF s
  <2>4. /\ r \in StackType /\ IsList(r) /\ r.listed = otp.listed \ {i, w}
        /\ r.managed = otp.managed /\ r.focus = otp.focus
    <3>1. w \in Owl
      BY DEF Owl
    <3>2. QED
      BY <2>3, <3>1, OtpRemoveList
  <2>5. otp' = [r EXCEPT !.focus = IF @ = w THEN None ELSE @,
                         !.managed = @ \ {w}, !.small = @ \ {w}]
    BY <2>1 DEF s
  <2> HIDE DEF r
  <2>6. otp' \in StackType
    BY <2>4, <2>5 DEF StackType
  <2>7. /\ otp'.listed = otp.listed \ {i, w} /\ otp'.under = r.under
        /\ otp'.managed = otp.managed \ {w}
        /\ otp'.focus = IF otp.focus = w THEN None ELSE otp.focus
    BY <2>4, <2>5 DEF StackType
  <2>8. IsList(otp')
    BY <2>4, <2>7 DEF IsList
  <2>9. \A j \in otp.listed \cap Icon : WinOf[j] = w => j = i
    BY <2>2, IconAssumption DEF IconOf
  <2>10. i \notin Win
    BY <2>2, OwlAssumption
  <2>11. Members(otp')
    BY <2>7, <2>9, <2>10 DEF Whole, Members
  <2>12. job' = Idle
    BY <1>2 DEF RemoveWindow, Ready
  <2>13. QED
    BY <2>6, <2>8, <2>11, <2>12, IdleInList DEF Whole
<1>3. ASSUME Restart PROVE Whole(otp') /\ JobInList'
  <2>1. otp' = [EmptyStack EXCEPT !.small = otp.small] /\ job' = Idle
    BY <1>3 DEF Restart, Ready
  <2>2. Whole(EmptyStack)
    BY DEF Whole, IsList, Members, EmptyStack, StackType, OTP_MAX, OTP_ZERO
  <2>3. otp.small \in SUBSET Win
    BY DEF StackType
  <2>4. QED
    BY <2>1, <2>2, <2>3, SmallWhole, IdleInList
<1>4. QED
  BY <1>1, <1>2, <1>3

\* A window gets a new name.
LEMMA RecomputePrefsList ==
  ASSUME StackInv, NEW w \in Win, NEW pr \in Preferences, NEW ipr \in Preferences,
         RecomputePrefs(w, pr, ipr)
  PROVE  Whole(otp') /\ JobInList'
<1> Whole(otp) /\ otp \in StackType /\ IsList(otp)
  BY DEF StackInv, Whole
<1>1. PICK i \in IconOf(otp, w) :
        LET r == RecomputeOwlPrefs(otp, w, pr)
            q == IF i = None THEN r ELSE RecomputeOwlPrefs(r, i, ipr)
        IN  otp' = Checked(q)
  BY DEF RecomputePrefs
<1> DEFINE r == RecomputeOwlPrefs(otp, w, pr)
           q == IF i = None THEN r ELSE RecomputeOwlPrefs(r, i, ipr)
<1>2. w \in otp.listed /\ job' = Idle
  BY DEF RecomputePrefs, Ready, Whole, Members
<1>3. Reordered(otp, r)
  BY <1>2, RecomputeList
<1> HIDE DEF r
<1>4. i # None => i \in r.listed
  BY <1>3, IconOfType DEF Reordered
<1>5. Reordered(r, q)
  <2>1. Reordered(r, r)
    BY <1>3 DEF Reordered
  <2>2. i # None => Reordered(r, RecomputeOwlPrefs(r, i, ipr))
    BY <1>3, <1>4, RecomputeList DEF Reordered
  <2>3. QED
    BY <2>1, <2>2
<1> HIDE DEF q
<1>6. Reordered(q, Checked(q))
  BY <1>5, CheckedList DEF Reordered
<1>7. Whole(Checked(q))
  BY <1>3, <1>5, <1>6, ReorderedWhole
<1>8. otp' = Checked(q)
  BY <1>1 DEF r, q
<1>9. QED
  BY <1>2, <1>7, <1>8, IdleInList

\* A window is zoomed or resized.
LEMMA SizeStepList ==
  ASSUME StackInv, NEW w \in Win
  PROVE  /\ \A func : FullZoom(w, func) => Whole(otp') /\ JobInList'
         /\ \A raise : Resize(w, raise) => Whole(otp') /\ JobInList'
<1> Whole(otp) /\ otp \in StackType /\ IsList(otp)
  BY DEF StackInv, Whole
<1>1. ASSUME NEW func, FullZoom(w, func) PROVE Whole(otp') /\ JobInList'
  <2> DEFINE s == IF zoomed[w] = func THEN Unzoomed(otp, w) ELSE Zoomed(otp, w, func)
  <2>1. w \in otp.listed /\ job = Idle
    BY <1>1 DEF FullZoom, Ready, Whole, Members
  <2>2. Reordered(otp, s)
    BY <2>1, ZoomList
  <2>3. PICK sm \in Sizes(otp, w) :
          IF RaiseOnResize /\ func # "fullscreen"
          THEN Move(s, w, "Above", sm)
          ELSE otp' = [s EXCEPT !.small = sm] /\ UNCHANGED job
    BY <1>1 DEF FullZoom
  <2> HIDE DEF s
  <2>4. Whole(s) /\ w \in s.listed /\ sm \in SUBSET Win
    BY <2>1, <2>2, ReorderedWhole, SizesType DEF Reordered
  <2>5. CASE RaiseOnResize /\ func # "fullscreen"
    BY <2>3, <2>4, <2>5, MoveList
  <2>6. CASE ~(RaiseOnResize /\ func # "fullscreen")
    <3>1. otp' = [s EXCEPT !.small = sm] /\ job' = Idle
      BY <2>1, <2>3, <2>6
    <3>2. Whole(otp')
      BY <2>4, <3>1, SmallWhole
    <3>3. QED
      BY <3>1, <3>2, IdleInList
  <2>7. QED
    BY <2>5, <2>6
<1>2. ASSUME NEW raise, Resize(w, raise) PROVE Whole(otp') /\ JobInList'
  <2> DEFINE u == Unzoomed(otp, w)
  <2>1. w \in otp.listed /\ job = Idle
    BY <1>2 DEF Resize, Ready, Whole, Members
  <2>2. Reordered(otp, u)
    BY <2>1, ZoomList
  <2>3. PICK sm \in Sizes(otp, w) :
          LET s == [u EXCEPT !.small = sm]
          IN  IF raise /\ RaiseOnResize THEN Move(s, w, "Above", sm)
                                        ELSE otp' = s /\ UNCHANGED job
    BY <1>2 DEF Resize
  <2> DEFINE s == [u EXCEPT !.small = sm]
  <2> HIDE DEF u
  <2>4. Whole(s) /\ Reordered(otp, s) /\ sm \in SUBSET Win
    <3>1. Whole(u) /\ sm \in SUBSET Win
      BY <2>2, ReorderedWhole, SizesType
    <3>2. Whole(s) /\ Reordered(u, s)
      BY <3>1, SmallWhole
    <3>3. QED
      BY <2>2, <3>1, <3>2, ReorderedTwice
  <2>5. IF raise /\ RaiseOnResize THEN Move(s, w, "Above", sm)
                                  ELSE otp' = s /\ UNCHANGED job
    BY <2>3
  <2> HIDE DEF s
  <2>6. w \in s.listed
    BY <2>1, <2>4 DEF Reordered
  <2>7. CASE raise /\ RaiseOnResize
    BY <2>4, <2>5, <2>6, <2>7, MoveList
  <2>8. CASE ~(raise /\ RaiseOnResize)
    BY <2>1, <2>4, <2>5, <2>8, IdleInList
  <2>9. QED
    BY <2>7, <2>8
<1>3. QED
  BY <1>1, <1>2

\* A client changes its states.
LEMMA NetWmStateList ==
  ASSUME StackInv, NEW w \in Win, NEW flag \in ClientFlags, NEW on,
         NetWmState(w, flag, on)
  PROVE  Whole(otp') /\ JobInList'
<1> DEFINE flags == IF on THEN otp.flags[w] \cup {flag} ELSE otp.flags[w] \ {flag}
           s == SetFlags(otp, w, flags)
           r == IF Pri(s, w) # Pri(otp, w) THEN OtpRestackWindow(s, w) ELSE s
<1>1. Whole(otp) /\ otp \in StackType /\ IsList(otp)
  BY DEF StackInv, Whole
<1>2. w \in otp.listed /\ job' = Idle /\ otp' = r
  BY <1>1 DEF NetWmState, Ready, Whole, Members
<1>3. flags \in SUBSET Aflag
  BY <1>1, ConfigAssumption DEF StackType, Aflag, Owl
<1> HIDE DEF flags
<1>4. Reordered(otp, s)
  BY <1>1, <1>3, FlagsList
<1> HIDE DEF s
<1>5. Reordered(s, OtpRestackWindow(s, w))
  BY <1>2, <1>4, RestackList DEF Reordered
<1>6. Reordered(otp, OtpRestackWindow(s, w))
  BY <1>4, <1>5, ReorderedTwice
<1>7. Whole(r)
  BY <1>1, <1>4, <1>6, ReorderedWhole
<1>8. QED
  BY <1>2, <1>7, IdleInList

\* The focus changes.
LEMMA SetFocusList ==
  ASSUME StackInv, NEW w \in Win \cup {None}, SetFocus(w)
  PROVE  Whole(otp') /\ JobInList'
<1>1. Whole(otp) /\ otp \in StackType /\ w \in otp.managed \cup {None}
  BY DEF StackInv, Whole, SetFocus
<1>2. CASE otp.focus # None /\ OtpIsFocusDependent(otp, otp.focus)
  <2> DEFINE s == [otp EXCEPT !.focus = None]
  <2>1. OtpFocusWindowBE(s, otp.focus, TRUE, w)
    BY <1>2 DEF SetFocus
  <2>2. Whole(s)
    BY <1>1, FocusWhole
  <2>3. s.managed = otp.managed /\ otp.focus \in otp.managed
    BY <1>1, <1>2 DEF StackType, Whole, Members
  <2> HIDE DEF s
  <2>4. QED
    BY <1>1, <2>1, <2>2, <2>3, FocusBEList
<1>3. CASE ~(otp.focus # None /\ OtpIsFocusDependent(otp, otp.focus))
  BY <1>1, <1>3, FocusEntersList DEF SetFocus
<1>4. QED
  BY <1>2, <1>3

\* StackInv is inductive.
LEMMA StackStep == StackInv /\ [Next]_vars => StackInv'
<1> SUFFICES ASSUME StackInv, [Next]_vars PROVE StackInv'
  OBVIOUS
<1>1. TypeOK'
  BY TypeStep DEF StackInv
<1>2. Whole(otp') /\ JobInList'
  <2>1. CASE UNCHANGED vars
    BY <2>1 DEF vars, StackInv, JobInList
  <2>2. CASE Next
    <3>1. CASE JobStep
      BY <3>1, JobStepList
    <3>2. CASE \E o \in Owl : \/ Raise(o) \/ Lower(o) \/ RaiseLower(o)
                              \/ TinyRaise(o) \/ TinyLower(o)
      BY <3>2, MoveStepList
    <3>3. CASE \/ \E o \in Owl, n \in UserPriorities, where \in {"Above", "Below"} :
                    SetPriority(o, n, where)
               \/ \E o \in Owl, n \in UserDeltas : ChangePriority(o, n)
               \/ \E o \in Switchable : SwitchPriority(o)
               \/ \E o \in Togglable : ToggleSwitching(o)
      BY <3>3, PriorityStepList, ConfigAssumption
    <3>4. CASE \E w \in StackModeWins, x \in Win, where \in {"Above", "Below"} :
                 ForcePlacement(w, x, where)
      BY <3>4, ForcePlacementList, ConfigAssumption
    <3>5. CASE \/ \E w \in Win, pr \in Preferences : AddWindow(w, pr)
               \/ \E i \in Icon, pr \in Preferences : AddIcon(i, pr)
      BY <3>5, AddStepList
    <3>6. CASE \/ \E i \in Icon : FreeIcon(i)
               \/ \E w \in Win, withdrawn \in BOOLEAN : RemoveWindow(w, withdrawn)
               \/ Restart
      BY <3>6, RemoveStepList
    <3>7. CASE \E w \in Win, pr, ipr \in Preferences : RecomputePrefs(w, pr, ipr)
      BY <3>7, RecomputePrefsList
    <3>8. CASE \/ \E w \in Zoomable, func \in Zooms : FullZoom(w, func)
               \/ \E w \in Win, raise \in BOOLEAN : Resize(w, raise)
      BY <3>8, SizeStepList, ConfigAssumption
    <3>9. CASE \E w \in Win, flag \in ClientFlags, on \in BOOLEAN :
                 NetWmState(w, flag, on)
      BY <3>9, NetWmStateList
    <3>10. CASE \E w \in Win \cup {None} : SetFocus(w)
      BY <3>10, SetFocusList
    <3>11. QED
      BY <2>2, <3>1, <3>2, <3>3, <3>4, <3>5, <3>6, <3>7, <3>8, <3>9, <3>10 DEF Next
  <2>3. QED
    BY <2>1, <2>2
<1>3. QED
  BY <1>1, <1>2 DEF StackInv

\* StackInv holds of the empty list.
LEMMA StackInit == Init => StackInv
<1> SUFFICES ASSUME Init PROVE StackInv
  OBVIOUS
<1>1. TypeOK
  BY DEF Init, TypeOK, EmptyStack, StackType, OTP_MAX, OTP_ZERO
<1>2. Whole(otp)
  BY <1>1 DEF Init, TypeOK, Whole, IsList, Members, EmptyStack
<1>3. JobInList
  BY DEF Init, JobInList, Idle
<1>4. QED
  BY <1>1, <1>2, <1>3 DEF StackInv

\* Whatever the order of the handlers, the owls are one list of exactly the
\* windows ctwm manages and icons of theirs: each unlinking and linking of otp.c,
\* the two loops that reorder the list they walk included, leaves no owl out, none
\* of a window that is gone, and no two that are not ordered.
THEOREM StackStaysWhole == Spec => []ListIsAStack
<1>1. StackInv => ListIsAStack
  BY DEF StackInv, Whole, Members, ListIsAStack
<1>2. QED
  BY <1>1, StackInit, StackStep, PTL DEF Spec


(***************************************************************************)
(* What the owl and the properties of a window say of its flags.            *)
(***************************************************************************)
\* A window that may get the flags of another: a dialog as a walk moves it along,
\* and dialogs and members of groups as they are mapped.
Inherits(w) ==
  \/ TransientFor[w] \in Win
  \/ \E l \in Win : isGroupLeaderOf(l, w)

Cut(flags) == flags \cap {"ABOVE", "BELOW"}

\* The stash of w, seen as the flags a new ctwm would give it.
StashOf(w) == IF stash[w] = None THEN {} ELSE Cut(stash[w])

StashInv == \A w \in otp.managed : Inherits(w) \/ Cut(otp.flags[w]) = StashOf(w)

\* An operator leaves the windows, and the flags of those that do not inherit any.
SameFlags(s, r) ==
  /\ r.managed = s.managed
  /\ \A w \in Win : Inherits(w) \/ Cut(r.flags[w]) = Cut(s.flags[w])

\* Two operators in a row do.
LEMMA SameFlagsTwice ==
  ASSUME NEW s, NEW q, NEW r, SameFlags(s, q), SameFlags(q, r)
  PROVE  SameFlags(s, r)
  BY DEF SameFlags

\* Only dialogs of an owl that is inserted come along with it.
LEMMA PutOverFlags ==
  ASSUME NEW s \in StackType, NEW w, NEW low, NEW follow,
         \A x \in follow : shouldStayAbove(s, x, w)
  PROVE  /\ SameFlags(s, PutOver(s, w, low, follow))
         /\ \A put : SameFlags(s, PutAsserted(s, w, low, follow, put))
<1> DEFINE r == PutOver(s, w, low, follow)
<1>1. \A x \in follow : Inherits(x)
  BY DEF shouldStayAbove, isTransientOf, Inherits
<1>2. \A x \in Owl : r.flags[x] = IF x \in follow THEN s.flags[w] ELSE s.flags[x]
  BY DEF PutOver, StackType
<1>3. /\ r.managed = s.managed
      /\ \A put : /\ PutAsserted(s, w, low, follow, put).flags = r.flags
                  /\ PutAsserted(s, w, low, follow, put).managed = r.managed
  BY DEF PutAsserted, PutOver, StackType
<1>4. SameFlags(s, r)
  BY <1>1, <1>2, <1>3 DEF SameFlags, Owl
<1>5. QED
  BY <1>3, <1>4 DEF SameFlags

\* Taking an owl off the list and inserting it leave the flags.
LEMMA ReinsertFlags ==
  ASSUME NEW s \in StackType, NEW w \in Owl
  PROVE  /\ SameFlags(s, RemoveOwl(s, w))
         /\ \A where : /\ SameFlags(s, InsertOwl(s, w, where))
                       /\ SameFlags(s, Reinsert(s, w, where))
         /\ \A low : /\ SameFlags(s, InsertOwlAbove(RemoveOwl(s, w), w, low))
                     /\ SameFlags(s, RaiseOver(RemoveOwl(s, w), w, low))
<1> DEFINE q == RemoveOwl(s, w)
<1>1. q.flags = s.flags /\ q.managed = s.managed
  BY DEF RemoveOwl, StackType
<1>2. SameFlags(s, q)
  BY <1>1 DEF SameFlags
<1>3. q \in StackType
  BY RemoveOwlType
<1> HIDE DEF q
<1>4. ASSUME NEW z \in StackType, NEW where PROVE SameFlags(z, InsertOwl(z, w, where))
  BY PutOverFlags DEF InsertOwl
<1>5. \A where : SameFlags(s, Reinsert(s, w, where))
  BY <1>2, <1>3, <1>4, SameFlagsTwice DEF Reinsert, q
<1>6. \A low : SameFlags(q, InsertOwlAbove(q, w, low)) /\ SameFlags(q, RaiseOver(q, w, low))
  BY <1>3, PutOverFlags DEF InsertOwlAbove, RaiseOver
<1>7. \A low : SameFlags(s, InsertOwlAbove(q, w, low)) /\ SameFlags(s, RaiseOver(q, w, low))
  BY <1>2, <1>6, SameFlagsTwice
<1>8. QED
  BY <1>2, <1>4, <1>5, <1>7 DEF q

\* So do the operators made of these.
LEMMA OperatorFlags ==
  ASSUME NEW s \in StackType, NEW w \in Owl
  PROVE  /\ SameFlags(s, Checked(s))
         /\ SameFlags(s, OtpRestackWindow(s, w))
         /\ \A base \in 0 .. OTP_MAX : \A where :
              SameFlags(s, Reinsert([s EXCEPT !.base[w] = base], w, where))
         /\ \A pri \in Int : \A where : SameFlags(s, SetOwlPriority(s, w, pri, where))
         /\ \A pr \in Preferences : SameFlags(s, RecomputeOwlPrefs(s, w, pr))
         /\ \A sm \in SUBSET Win : SameFlags(s, [s EXCEPT !.small = sm])
         /\ \A f \in Win \cup {None} : SameFlags(s, [s EXCEPT !.focus = f])
<1>1. \A z \in StackType : Checked(z).flags = z.flags /\ Checked(z).managed = z.managed
  BY DEF Checked, StackType
<1>2. \A z \in StackType : SameFlags(z, Checked(z))
  BY <1>1 DEF SameFlags
<1>3. SameFlags(s, OtpRestackWindow(s, w))
  BY <1>2, ReinsertFlags, ReinsertType, SameFlagsTwice DEF OtpRestackWindow
<1>4. ASSUME NEW base \in 0 .. OTP_MAX, NEW where
      PROVE  SameFlags(s, Reinsert([s EXCEPT !.base[w] = base], w, where))
  <2> DEFINE q == [s EXCEPT !.base[w] = base]
  <2>1. q \in StackType /\ q.flags = s.flags /\ q.managed = s.managed
    BY DEF StackType
  <2> HIDE DEF q
  <2>2. SameFlags(s, q) /\ SameFlags(q, Reinsert(q, w, where))
    BY <2>1, ReinsertFlags DEF SameFlags
  <2>3. QED
    BY <2>2, SameFlagsTwice DEF q
<1>5. \A pri \in Int : \A where : SameFlags(s, SetOwlPriority(s, w, pri, where))
  BY <1>4, ClampType DEF SetOwlPriority
<1>6. ASSUME NEW pr \in Preferences PROVE SameFlags(s, RecomputeOwlPrefs(s, w, pr))
  <2>1. Preferred(pr, s.base[w]) \in 0 .. OTP_MAX
    BY ConfigAssumption DEF Preferred, StackType
  <2>2. SameFlags(s, s)
    BY DEF SameFlags
  <2>3. QED
    BY <1>4, <2>1, <2>2 DEF RecomputeOwlPrefs
<1>7. \A sm \in SUBSET Win : /\ [s EXCEPT !.small = sm].flags = s.flags
                             /\ [s EXCEPT !.small = sm].managed = s.managed
  BY DEF StackType
<1>8. \A f \in Win \cup {None} : /\ [s EXCEPT !.focus = f].flags = s.flags
                                /\ [s EXCEPT !.focus = f].managed = s.managed
  BY DEF StackType
<1>9. QED
  BY <1>2, <1>3, <1>4, <1>5, <1>6, <1>7, <1>8 DEF SameFlags

\* Zooming changes no flag but FULLSCREEN.
LEMMA ZoomFlags ==
  ASSUME NEW s \in StackType, NEW w \in Win
  PROVE  SameFlags(s, Unzoomed(s, w)) /\ \A func : SameFlags(s, Zoomed(s, w, func))
<1>1. w \in Owl /\ s.flags[w] \in SUBSET Aflag
  BY DEF StackType, Owl
<1>2. ASSUME NEW flags \in SUBSET Aflag, Cut(flags) = Cut(s.flags[w])
      PROVE  SameFlags(s, OtpRestackWindow(SetFlags(s, w, flags), w))
  <2> DEFINE q == SetFlags(s, w, flags)
  <2>1. q \in StackType
    BY <1>1 DEF SetFlags, StackType
  <2>2. /\ q.flags[w] = flags /\ q.managed = s.managed
        /\ \A x \in Owl \ {w} : q.flags[x] = s.flags[x]
    BY <1>1 DEF SetFlags, StackType
  <2> HIDE DEF q
  <2>3. SameFlags(s, q)
    BY <1>2, <2>2 DEF SameFlags, Owl
  <2>4. SameFlags(q, OtpRestackWindow(q, w))
    BY <1>1, <2>1, OperatorFlags
  <2>5. QED
    BY <2>3, <2>4, SameFlagsTwice DEF q
<1>3. /\ s.flags[w] \ {"FULLSCREEN"} \in SUBSET Aflag
      /\ Cut(s.flags[w] \ {"FULLSCREEN"}) = Cut(s.flags[w])
      /\ s.flags[w] \cup {"FULLSCREEN"} \in SUBSET Aflag
      /\ Cut(s.flags[w] \cup {"FULLSCREEN"}) = Cut(s.flags[w])
  BY <1>1 DEF Aflag, Cut
<1>4. SameFlags(s, s)
  BY DEF SameFlags
<1>5. QED
  BY <1>2, <1>3, <1>4 DEF Unzoomed, Zoomed


\* The flags of w and its stash stay as they are, or are made to agree.
StashStep(w) ==
  /\ otp'.managed = otp.managed
  /\ \/ Inherits(w)
     \/ stash'[w] # None /\ Cut(stash'[w]) = Cut(otp'.flags[w])
     \/ Cut(otp'.flags[w]) = Cut(otp.flags[w]) /\ stash'[w] = stash[w]

\* A window is stashed for the first time where the stash is written at all.
LEMMA StashFirstStep ==
  ASSUME TypeOK, NEW w \in Win, NEW v \in Win, NEW s \in StackType, SameFlags(otp, s),
         SameFlags(s, otp'), stash' \in {stash, StashFirstTime(s, v)}
  PROVE  StashStep(w)
<1>1. s.flags[w] \in SUBSET Aflag
  BY DEF StackType, Owl
<1>2. s.flags[w] # None
  BY <1>1, StashAssumption
<1>3. CASE stash'[w] = stash[w]
  BY <1>3 DEF SameFlags, StashStep
<1>4. CASE stash'[w] # stash[w]
  <2>1. stash'[w] = s.flags[w]
    BY <1>4 DEF StashFirstTime, TypeOK
  <2>2. QED
    BY <1>2, <2>1 DEF SameFlags, StashStep
<1>5. QED
  BY <1>3, <1>4

\* And where it is written each time.
LEMMA StashAfterStep ==
  ASSUME TypeOK, NEW w \in Win, NEW v \in Win, NEW s \in StackType, SameFlags(otp, s),
         SameFlags(s, otp'), NEW changed, stash' = StashAfter(s, v, changed)
  PROVE  StashStep(w)
<1>1. s.flags[w] \in SUBSET Aflag
  BY DEF StackType, Owl
<1>2. s.flags[w] # None
  BY <1>1, StashAssumption
<1>3. stash'[w] = stash[w] \/ stash'[w] = s.flags[w]
  BY DEF StashAfter, TypeOK
<1>4. QED
  BY <1>2, <1>3 DEF SameFlags, StashStep

\* A handler that leaves the flags alone.
LEMMA StashSame ==
  ASSUME SameFlags(otp, otp'), stash' = stash
  PROVE  \A w \in Win : StashStep(w)
  BY DEF SameFlags, StashStep

\* Raising and lowering.
LEMMA MoveFlags ==
  ASSUME NEW s \in StackType, NEW o \in Owl, NEW where, NEW sm \in SUBSET Win,
         Move(s, o, where, sm)
  PROVE  SameFlags(s, otp')
<1> DEFINE q == Reinsert(s, o, where)
<1>1. q \in StackType /\ SameFlags(s, q)
  BY ReinsertType, ReinsertFlags
<1>2. otp' = s \/ otp' = [Checked(q) EXCEPT !.small = sm]
  BY DEF Move
<1> HIDE DEF q
<1>3. Checked(q) \in StackType /\ SameFlags(q, Checked(q))
  BY <1>1, CheckedType, OperatorFlags
<1>4. SameFlags(Checked(q), [Checked(q) EXCEPT !.small = sm])
  BY <1>3, OperatorFlags
<1>5. SameFlags(s, [Checked(q) EXCEPT !.small = sm])
  BY <1>1, <1>3, <1>4, SameFlagsTwice
<1>6. SameFlags(s, s)
  BY DEF SameFlags
<1>7. QED
  BY <1>2, <1>5, <1>6

\* The focus changes.
LEMMA FocusFlags ==
  ASSUME NEW s \in StackType, NEW w \in Win \cup {None}
  PROVE  /\ FocusEnters(s, w) => SameFlags(s, otp')
         /\ \A f \in Win \cup {None} : \A out, then :
              w # None /\ OtpFocusWindowBE([s EXCEPT !.focus = f], w, out, then)
              => SameFlags(s, otp')
<1>1. \A f \in Win \cup {None} :
        /\ [s EXCEPT !.focus = f] \in StackType
        /\ [s EXCEPT !.focus = f].flags = s.flags
        /\ [s EXCEPT !.focus = f].managed = s.managed
  BY DEF StackType
<1>2. ASSUME NEW f \in Win \cup {None}, NEW out, NEW then, w # None,
             OtpFocusWindowBE([s EXCEPT !.focus = f], w, out, then)
      PROVE  SameFlags(s, otp')
  <2> DEFINE q == [s EXCEPT !.focus = f]
  <2>1. q \in StackType /\ SameFlags(s, q) /\ otp' = Reinsert(q, w, "Above") /\ w \in Owl
    BY <1>1, <1>2 DEF OtpFocusWindowBE, SameFlags, Owl
  <2> HIDE DEF q
  <2>2. QED
    BY <2>1, ReinsertFlags, SameFlagsTwice
<1>3. w # None /\ OtpIsFocusDependent(s, w) /\ FocusEnters(s, w) => SameFlags(s, otp')
  <2>1. w # None /\ OtpIsFocusDependent(s, w) /\ FocusEnters(s, w) =>
          OtpFocusWindowBE([s EXCEPT !.focus = w], w, FALSE, None)
    BY DEF FocusEnters
  <2>2. QED
    BY <1>2, <2>1
<1>4. ~(w # None /\ OtpIsFocusDependent(s, w)) /\ FocusEnters(s, w) => SameFlags(s, otp')
  <2> DEFINE q == [s EXCEPT !.focus = w]
  <2>1. ~(w # None /\ OtpIsFocusDependent(s, w)) /\ FocusEnters(s, w) => otp' = q
    BY DEF FocusEnters
  <2>2. q.flags = s.flags /\ q.managed = s.managed
    BY <1>1
  <2> HIDE DEF q
  <2>3. QED
    BY <2>1, <2>2 DEF SameFlags
<1>5. QED
  BY <1>2, <1>3, <1>4

\* The loops over transients.
LEMMA JobFlags ==
  ASSUME StackInv, JobStep, NEW w \in Win
  PROVE  StashStep(w)
<1> otp \in StackType /\ TypeOK /\ otp.listed \subseteq Owl
  BY DEF StackInv, Whole, StackType
<1>a. job.kind = "walk" => /\ job \in Walks /\ job.owl \in otp.listed
                           /\ job.next \in otp.listed \cup {None}
  BY DEF StackInv, JobInList, TypeOK, Idle, Shuffles
<1>b. job.kind = "focus" => /\ job \in Shuffles /\ job.todo \subseteq otp.listed
                            /\ job.then \in otp.managed \cup {None}
  BY DEF StackInv, JobInList, TypeOK, Idle, Walks
<1>1. CASE WalkStep
  <2>1. job.next \in otp.listed /\ job \in Walks
    BY <1>1, <1>a DEF WalkStep, WalkTurn, InLayer
  <2>2. CASE isTransientOf(job.next, job.owl)
    <3> DEFINE n == job.next
               pri == job.pri
               f == [otp EXCEPT !.flags[n] = otp.flags[job.owl]]
    <3>1. n \in Owl /\ Inherits(n) /\ pri \in Int /\ job.owl \in Owl
      BY <1>1, <1>a, <2>1, <2>2 DEF isTransientOf, Inherits, Owl, Walks
    <3>2. otp' = SetOwlPriority(f, n, pri, job.where)
      BY <1>1, <2>2 DEF WalkStep
    <3> HIDE DEF n, pri
    <3>3. f \in StackType
      BY <3>1 DEF StackType
    <3>4. f.managed = otp.managed /\ \A x \in Owl \ {n} : f.flags[x] = otp.flags[x]
      BY <3>1 DEF StackType
    <3> HIDE DEF f
    <3>5. SameFlags(otp, f) /\ SameFlags(f, otp')
      BY <3>1, <3>2, <3>3, <3>4, OperatorFlags DEF SameFlags, Owl
    <3>6. SameFlags(otp, otp') /\ stash' = stash
      BY <1>1, <3>5, SameFlagsTwice DEF WalkStep
    <3>7. QED
      BY <3>6, StashSame
  <2>3. CASE ~isTransientOf(job.next, job.owl)
    BY <1>1, <2>3, StashSame DEF WalkStep, SameFlags
  <2>4. QED
    BY <2>2, <2>3
<1>2. CASE WalkEnd
  <2> DEFINE o == job.owl
             pri == job.pri
             sm == job.small
             v == TwmWinOf(o)
             q == SetOwlPriority(otp, o, pri, job.where)
             s == Checked(q)
  <2>1. o \in Owl /\ pri \in Int /\ sm \in SUBSET Win /\ v \in Win
    BY <1>2, <1>a, HintAssumption DEF WalkEnd, WalkTurn, Walks, TwmWinOf, Owl
  <2>2. /\ otp' = [s EXCEPT !.small = sm]
        /\ stash' \in {stash, StashFirstTime(s, v)}
    BY <1>2 DEF WalkEnd
  <2> HIDE DEF o, pri, sm, v
  <2>3. q \in StackType /\ SameFlags(otp, q)
    BY <2>1, SetOwlPriorityType, OperatorFlags
  <2> HIDE DEF q
  <2>4. s \in StackType /\ SameFlags(otp, s)
    BY <2>1, <2>3, CheckedType, OperatorFlags, SameFlagsTwice
  <2> HIDE DEF s
  <2>5. otp'.flags = s.flags /\ otp'.managed = s.managed
    BY <2>2, <2>4 DEF StackType
  <2>6. SameFlags(s, otp')
    BY <2>5 DEF SameFlags
  <2>7. QED
    BY <2>1, <2>2, <2>4, <2>6, StashFirstStep
<1>3. CASE FocusStep
  <2>1. PICK t \in job.todo : otp' = Reinsert(otp, t, "Above")
    BY <1>3 DEF FocusStep
  <2>2. t \in Owl
    BY <1>3, <1>b, <2>1 DEF FocusStep
  <2>3. QED
    BY <1>3, <2>1, <2>2, ReinsertFlags, StashSame DEF FocusStep
<1>4. CASE FocusEnd
  <2>1. job.then \in Win \cup {None}
    BY <1>4, <1>b DEF FocusEnd, Shuffles
  <2>2. Checked(otp) \in StackType /\ SameFlags(otp, Checked(otp))
    BY CheckedType DEF Checked, StackType, SameFlags
  <2>3. otp' = Checked(otp) \/ FocusEnters(Checked(otp), job.then)
    BY <1>4, <2>2 DEF FocusEnd
  <2> DEFINE then == job.then
  <2>4. FocusEnters(Checked(otp), then) => SameFlags(Checked(otp), otp')
    <3>1. then \in Win \cup {None}
      BY <2>1
    <3> HIDE DEF then
    <3>2. QED
      BY <2>2, <3>1, FocusFlags
  <2>5. SameFlags(otp, otp')
    BY <2>2, <2>3, <2>4 DEF SameFlags
  <2>6. QED
    BY <1>4, <2>5, StashSame DEF FocusEnd
<1>5. QED
  BY <1>1, <1>2, <1>3, <1>4 DEF JobStep


\* The user moves an owl, or a client its window.
LEMMA MoveStepFlags ==
  ASSUME StackInv, NEW o \in Owl, NEW w \in Win,
         \/ Raise(o) \/ Lower(o) \/ RaiseLower(o) \/ TinyRaise(o) \/ TinyLower(o)
         \/ \E v, x \in Win, where \in {"Above", "Below"} : ForcePlacement(v, x, where)
  PROVE  StashStep(w)
<1> otp \in StackType /\ otp.small \in SUBSET Win
  BY DEF StackInv, Whole, StackType
<1>1. CASE Raise(o) \/ Lower(o) \/ RaiseLower(o)
  BY <1>1, MoveFlags, StashSame DEF Raise, Lower, RaiseLower
<1>2. ASSUME NEW q \in StackType, SameFlags(otp, q), otp' = Checked(q), stash' = stash
      PROVE  StashStep(w)
  BY <1>2, OperatorFlags, SameFlagsTwice, StashSame
<1>3. CASE TinyRaise(o)
  <2>1. PICK low \in SUBSET Owl : otp' = Checked(RaiseOver(RemoveOwl(otp, o), o, low))
    <3>1. PICK x \in Owl : otp' = Checked(RaiseOver(RemoveOwl(otp, o), o,
                                          (otp.under[x] \ {o}) \cup {x}))
      BY <1>3 DEF TinyRaise, RunAbove, Over, StackType
    <3>2. (otp.under[x] \ {o}) \cup {x} \in SUBSET Owl
      BY <3>1 DEF StackType
    <3>3. QED
      BY <3>1, <3>2
  <2>2. RaiseOver(RemoveOwl(otp, o), o, low) \in StackType
    BY RemoveOwlType, PutAssertedType DEF RaiseOver
  <2>3. QED
    BY <1>2, <1>3, <2>1, <2>2, ReinsertFlags DEF TinyRaise
<1>4. CASE TinyLower(o)
  <2>1. PICK low \in SUBSET Owl : otp' = Checked(InsertOwlAbove(RemoveOwl(otp, o), o, low))
    <3>1. PICK x \in Owl : otp' = Checked(InsertOwlAbove(RemoveOwl(otp, o), o, otp.under[x]))
      BY <1>4 DEF TinyLower, RunBelow, StackType
    <3>2. otp.under[x] \in SUBSET Owl
      BY <3>1 DEF StackType
    <3>3. QED
      BY <3>1, <3>2
  <2>2. InsertOwlAbove(RemoveOwl(otp, o), o, low) \in StackType
    BY RemoveOwlType, InsertOwlAboveType
  <2>3. QED
    BY <1>2, <1>4, <2>1, <2>2, ReinsertFlags DEF TinyLower
<1>5. ASSUME NEW v \in Win, NEW x \in Win, NEW where \in {"Above", "Below"},
             ForcePlacement(v, x, where)
      PROVE  StashStep(w)
  <2> DEFINE b == [otp EXCEPT !.base[v] = otp.base[x]]
             s == RemoveOwl(b, v)
  <2>1. v \in Owl /\ x \in Owl
    BY DEF Owl
  <2>2. b \in StackType /\ b.flags = otp.flags /\ b.managed = otp.managed
    BY <2>1 DEF StackType
  <2> HIDE DEF b
  <2>3. s \in StackType
    BY <2>1, <2>2, RemoveOwlType
  <2>4. PICK low \in SUBSET Owl : otp' = Checked(InsertOwlAbove(s, v, low))
    <3>1. s.under[x] \in SUBSET Owl /\ s.under[x] \cup {x} \in SUBSET Owl
      BY <2>1, <2>3 DEF StackType
    <3>2. QED
      BY <1>5, <3>1 DEF ForcePlacement, b
  <2>5. InsertOwlAbove(s, v, low) \in StackType
    BY <2>1, <2>3, InsertOwlAboveType
  <2>6. SameFlags(b, InsertOwlAbove(s, v, low))
    BY <2>1, <2>2, ReinsertFlags
  <2>7. SameFlags(otp, InsertOwlAbove(s, v, low))
    BY <2>2, <2>6 DEF SameFlags
  <2>8. QED
    BY <1>2, <1>5, <2>4, <2>5, <2>7 DEF ForcePlacement
<1>6. QED
  BY <1>1, <1>3, <1>4, <1>5

\* The user changes a priority.
LEMMA PriorityStepFlags ==
  ASSUME StackInv, NEW o \in Owl, NEW w \in Win,
         \/ \E n \in UserPriorities, where \in {"Above", "Below"} : SetPriority(o, n, where)
         \/ \E n \in UserDeltas : ChangePriority(o, n)
         \/ SwitchPriority(o) \/ ToggleSwitching(o)
  PROVE  StashStep(w)
<1> otp \in StackType /\ TypeOK
  BY DEF StackInv, Whole
<1> DEFINE v == TwmWinOf(o)
<1>1. /\ otp' \in {otp, Checked(otp)}
      /\ stash' \in {stash, StashFirstTime(otp, v)}
  BY DEF SetPriority, ChangePriority, SwitchPriority, ToggleSwitching
<1>2. SameFlags(otp, otp) /\ SameFlags(otp, otp')
  BY <1>1, OperatorFlags DEF SameFlags
<1>3. v \in Win
  BY HintAssumption DEF TwmWinOf, Owl
<1> HIDE DEF v
<1>4. QED
  BY <1>1, <1>2, <1>3, StashFirstStep

\* A window gets a new name.
LEMMA RecomputeFlags ==
  ASSUME StackInv, NEW v \in Win, NEW pr \in Preferences, NEW ipr \in Preferences,
         RecomputePrefs(v, pr, ipr), NEW w \in Win
  PROVE  StashStep(w)
<1> otp \in StackType /\ TypeOK /\ v \in Owl
  BY DEF StackInv, Whole, Owl
<1>1. PICK i \in IconOf(otp, v) :
        LET r == RecomputeOwlPrefs(otp, v, pr)
            q == IF i = None THEN r ELSE RecomputeOwlPrefs(r, i, ipr)
        IN  otp' = Checked(q) /\ stash' \in {stash, StashFirstTime(r, v)}
  BY DEF RecomputePrefs
<1> DEFINE r == RecomputeOwlPrefs(otp, v, pr)
           q == IF i = None THEN r ELSE RecomputeOwlPrefs(r, i, ipr)
<1>2. r \in StackType /\ SameFlags(otp, r)
  BY RecomputeType, OperatorFlags
<1>3. otp' = Checked(q) /\ stash' \in {stash, StashFirstTime(r, v)}
  BY <1>1
<1> HIDE DEF r
<1>4. i # None => i \in Owl
  BY IconOfType DEF Owl
<1>5. q \in StackType /\ SameFlags(r, q)
  BY <1>2, <1>4, RecomputeType, OperatorFlags DEF SameFlags
<1> HIDE DEF q
<1>6. SameFlags(r, otp')
  BY <1>3, <1>5, OperatorFlags, SameFlagsTwice
<1>7. QED
  BY <1>2, <1>3, <1>6, StashFirstStep


\* A window is zoomed or resized, or its client changes its states.
LEMMA SizeFlags ==
  ASSUME StackInv, NEW v \in Win, NEW w \in Win,
         \/ \E func : FullZoom(v, func)
         \/ \E raise : Resize(v, raise)
         \/ \E flag \in ClientFlags, on \in BOOLEAN : NetWmState(v, flag, on)
  PROVE  StashStep(w)
<1> otp \in StackType /\ TypeOK /\ v \in Owl
  BY DEF StackInv, Whole, Owl
<1>1. ASSUME NEW func, FullZoom(v, func) PROVE StashStep(w)
  <2> DEFINE s == IF zoomed[v] = func THEN Unzoomed(otp, v) ELSE Zoomed(otp, v, func)
  <2>1. s \in StackType /\ SameFlags(otp, s)
    BY ZoomType, ZoomFlags
  <2>2. PICK sm \in Sizes(otp, v), changed \in BOOLEAN :
          /\ IF RaiseOnResize /\ func # "fullscreen"
             THEN Move(s, v, "Above", sm)
             ELSE otp' = [s EXCEPT !.small = sm] /\ UNCHANGED job
          /\ stash' = StashAfter(s, v, changed)
    BY <1>1 DEF FullZoom
  <2> HIDE DEF s
  <2>3. SameFlags(s, otp')
    BY <2>1, <2>2, MoveFlags, OperatorFlags, SizesType
  <2>4. QED
    BY <2>1, <2>2, <2>3, StashAfterStep
<1>2. ASSUME NEW raise, Resize(v, raise) PROVE StashStep(w)
  <2> DEFINE u == Unzoomed(otp, v)
  <2>1. u \in StackType /\ SameFlags(otp, u)
    BY ZoomType, ZoomFlags
  <2>2. PICK sm \in Sizes(otp, v) :
          LET s == [u EXCEPT !.small = sm]
          IN  IF raise /\ RaiseOnResize THEN Move(s, v, "Above", sm)
                                        ELSE otp' = s /\ UNCHANGED job
    BY <1>2 DEF Resize
  <2>3. stash' = StashAfter(u, v, zoomed[v] = "fullscreen") /\ sm \in SUBSET Win
    BY <1>2, SizesType DEF Resize
  <2> DEFINE s == [u EXCEPT !.small = sm]
  <2>4. otp' = s \/ Move(s, v, "Above", sm)
    BY <2>2
  <2> HIDE DEF u
  <2>5. s \in StackType /\ SameFlags(u, s)
    BY <2>1, <2>3, OperatorFlags DEF StackType
  <2> HIDE DEF s
  <2>6. SameFlags(s, otp')
    BY <2>3, <2>4, <2>5, MoveFlags DEF SameFlags
  <2>7. SameFlags(u, otp')
    BY <2>5, <2>6, SameFlagsTwice
  <2>8. QED
    BY <2>1, <2>3, <2>7, StashAfterStep
<1>3. ASSUME NEW flag \in ClientFlags, NEW on \in BOOLEAN, NetWmState(v, flag, on)
      PROVE  StashStep(w)
  <2> DEFINE flags == IF on THEN otp.flags[v] \cup {flag} ELSE otp.flags[v] \ {flag}
             s == SetFlags(otp, v, flags)
  <2>1. flags \in SUBSET Aflag
    BY ConfigAssumption DEF StackType, Aflag, Owl
  <2>2. stash' = StashAfter(s, v, TRUE) /\ otp' \in {s, OtpRestackWindow(s, v)}
    BY <1>3 DEF NetWmState
  <2> HIDE DEF flags
  <2>3. /\ s \in StackType /\ s.managed = otp.managed
        /\ \A x \in Owl \ {v} : s.flags[x] = otp.flags[x]
    BY <2>1 DEF SetFlags, StackType
  <2> HIDE DEF s
  <2>4. SameFlags(s, otp')
    BY <2>2, <2>3, OperatorFlags DEF SameFlags
  <2>5. stash' = [stash EXCEPT ![v] = s.flags[v]]
    BY <2>2 DEF StashAfter
  <2>6. CASE w = v
    <3>1. s.flags[v] \in SUBSET Aflag
      BY <2>3 DEF StackType
    <3>2. stash'[v] = s.flags[v] /\ s.flags[v] # None
      BY <2>5, <3>1, StashAssumption DEF TypeOK
    <3>3. QED
      BY <2>3, <2>4, <2>6, <3>2 DEF SameFlags, StashStep
  <2>7. CASE w # v
    BY <2>3, <2>4, <2>5, <2>7 DEF SameFlags, StashStep, TypeOK, Owl
  <2>8. QED
    BY <2>6, <2>7
<1>4. QED
  BY <1>1, <1>2, <1>3

\* The focus changes.
LEMMA SetFocusFlags ==
  ASSUME StackInv, NEW v \in Win \cup {None}, SetFocus(v), NEW w \in Win
  PROVE  StashStep(w)
<1> otp \in StackType /\ otp.focus \in Win \cup {None}
  BY DEF StackInv, Whole, StackType
<1>1. SameFlags(otp, otp')
  <2> DEFINE f == otp.focus
  <2>1. \/ FocusEnters(otp, v)
        \/ f # None /\ OtpFocusWindowBE([otp EXCEPT !.focus = None], f, TRUE, v)
    BY DEF SetFocus
  <2>2. f \in Win \cup {None}
    OBVIOUS
  <2> HIDE DEF f
  <2>3. QED
    BY <2>1, <2>2, FocusFlags
<1>2. QED
  BY <1>1, StashSame DEF SetFocus

\* An icon comes or goes.
LEMMA IconFlags ==
  ASSUME StackInv, NEW i \in Icon, NEW w \in Win,
         FreeIcon(i) \/ \E pr \in Preferences : AddIcon(i, pr)
  PROVE  StashStep(w)
<1> otp \in StackType /\ TypeOK /\ i \in Owl /\ i \notin Win
  BY OwlAssumption DEF StackInv, Whole, Owl
<1>1. CASE FreeIcon(i)
  <2>1. /\ OtpRemove(otp, i).managed = otp.managed
        /\ \A x \in Win : OtpRemove(otp, i).flags[x] = otp.flags[x]
    BY DEF OtpRemove, Checked, RemoveOwl, StackType, Owl
  <2>2. QED
    BY <1>1, <2>1, StashSame DEF FreeIcon, SameFlags
<1>2. ASSUME NEW pr \in Preferences, AddIcon(i, pr) PROVE StashStep(w)
  <2> DEFINE state == ewmh[WinOf[i]]
             s == NewOwl(otp, i, None, pr, None, state)
  <2>1. state \in SUBSET Aflag
    BY HintAssumption DEF TypeOK
  <2>2. otp' = Checked(InsertOwl(s, i, "Above"))
    BY <1>2 DEF AddIcon
  <2> HIDE DEF state
  <2>3. s \in StackType
    BY <2>1, NewOwlType
  <2>4. s.managed = otp.managed /\ \A x \in Win : s.flags[x] = otp.flags[x]
    BY DEF NewOwl, StackType, Owl
  <2> HIDE DEF s
  <2>5. SameFlags(s, InsertOwl(s, i, "Above")) /\ InsertOwl(s, i, "Above") \in StackType
    BY <2>3, ReinsertFlags, InsertOwlType
  <2>6. SameFlags(s, otp')
    BY <2>2, <2>5, OperatorFlags, SameFlagsTwice
  <2>7. SameFlags(otp, otp')
    BY <2>4, <2>6 DEF SameFlags
  <2>8. QED
    BY <1>2, <2>7, StashSame DEF AddIcon
<1>3. QED
  BY <1>1, <1>2


\* A window is new: its stash is kept, or is what it starts with.
LEMMA AddWindowStash ==
  ASSUME StackInv, StashInv, NEW v \in Win, NEW pr \in Preferences, AddWindow(v, pr)
  PROVE  StashInv'
<1> otp \in StackType /\ TypeOK /\ v \in Owl /\ otp.managed \subseteq Win
  BY DEF StackInv, Whole, Owl, StackType
<1>1. PICK x \in Parents(otp, v), sm \in Sizes(otp, v),
           state \in (SUBSET ClientFlags) \cup {ewmh[v] \cap {"ABOVE", "BELOW"}} :
        LET s == NewOwl([otp EXCEPT !.small = sm], v, x, pr, stash[v], state)
            r == Checked(InsertOwl(s, v, "Above"))
        IN  /\ otp' = [r EXCEPT !.managed = otp.managed \cup {v}]
            /\ stash' = IF Pri(s, v) # OTP_ZERO \/ s.flags[v] # {}
                        THEN StashFirstTime(s, v) ELSE stash
  BY DEF AddWindow
<1> DEFINE got == stash[v]
           o == [otp EXCEPT !.small = sm]
           s == NewOwl(o, v, x, pr, got, state)
           r == Checked(InsertOwl(s, v, "Above"))
<1>2. /\ otp' = [r EXCEPT !.managed = otp.managed \cup {v}]
      /\ stash' = IF Pri(s, v) # OTP_ZERO \/ s.flags[v] # {}
                  THEN [stash EXCEPT ![v] = IF got = None THEN s.flags[v] ELSE got]
                  ELSE stash
  BY <1>1 DEF StashFirstTime, TypeOK
<1>3. /\ x \in Win \cup {None} /\ got \in (SUBSET Aflag) \cup {None}
      /\ state \in SUBSET Aflag /\ sm \in SUBSET Win
  BY SizesType, ConfigAssumption DEF Parents, StackType, TypeOK, Aflag
<1>4. o \in StackType /\ o.flags = otp.flags
  BY <1>3 DEF StackType
<1>5. ~Inherits(v) => x = None
  BY DEF Parents, isTransientOf, Inherits, StackType
<1> HIDE DEF o, got
<1>6. s \in StackType
  BY <1>3, <1>4, NewOwlType
<1>7. /\ s.flags[v] = NewFlags(o, x, got, state)
      /\ \A y \in Owl \ {v} : s.flags[y] = otp.flags[y]
  BY <1>4 DEF NewOwl, StackType
<1> HIDE DEF s
<1>8. InsertOwl(s, v, "Above") \in StackType /\ SameFlags(s, InsertOwl(s, v, "Above"))
  BY <1>6, InsertOwlType, ReinsertFlags
<1>9. r \in StackType /\ SameFlags(s, r)
  BY <1>8, CheckedType, OperatorFlags, SameFlagsTwice
<1> HIDE DEF r
<1>10. otp'.flags = r.flags /\ otp'.managed = otp.managed \cup {v}
  BY <1>2, <1>9 DEF StackType
<1>11. Inherits(v) \/ Cut(otp'.flags[v]) = StashOf(v)'
  <2> SUFFICES ASSUME ~Inherits(v) PROVE Cut(otp'.flags[v]) = StashOf(v)'
    OBVIOUS
  <2>1. s.flags[v] = IF got = None THEN state \cap {"ABOVE", "BELOW"}
                     ELSE (got \cap {"ABOVE", "BELOW"}) \cup (state \cap {"FULLSCREEN"})
    BY <1>5, <1>7 DEF NewFlags
  <2>2. Cut(otp'.flags[v]) = Cut(s.flags[v])
    BY <1>9, <1>10 DEF SameFlags
  <2>3. s.flags[v] \in SUBSET Aflag /\ s.flags[v] # None
    BY <1>6, StashAssumption DEF StackType
  <2>4. CASE got = None
    <3>1. \/ stash'[v] = s.flags[v]
          \/ stash'[v] = None /\ s.flags[v] = {}
      BY <1>2, <2>4 DEF got, TypeOK
    <3>2. QED
      BY <2>2, <2>3, <3>1 DEF StashOf, Cut
  <2>5. CASE got # None
    <3>1. stash'[v] = got
      BY <1>2, <2>5 DEF got, TypeOK
    <3>2. Cut(s.flags[v]) = Cut(got)
      BY <2>1, <2>5 DEF Cut
    <3>3. QED
      BY <2>2, <2>5, <3>1, <3>2 DEF StashOf
  <2>6. QED
    BY <2>4, <2>5
<1>12. ASSUME NEW w \in otp.managed \ {v}
       PROVE  Inherits(w) \/ Cut(otp'.flags[w]) = StashOf(w)'
  <2>1. stash'[w] = stash[w]
    BY <1>2, <1>12 DEF TypeOK
  <2>2. Inherits(w) \/ Cut(otp'.flags[w]) = Cut(otp.flags[w])
    BY <1>7, <1>9, <1>10, <1>12 DEF SameFlags, Owl
  <2>3. QED
    BY <1>12, <2>1, <2>2 DEF StashInv, StashOf
<1>13. QED
  BY <1>10, <1>11, <1>12 DEF StashInv

\* A window goes: the others keep what they have.
LEMMA RemoveWindowStash ==
  ASSUME StackInv, StashInv, NEW v \in Win, NEW withdrawn \in BOOLEAN,
         RemoveWindow(v, withdrawn)
  PROVE  StashInv'
<1> otp \in StackType /\ TypeOK /\ v \in Owl /\ otp.managed \subseteq Win
  BY DEF StackInv, Whole, Owl, StackType
<1>1. PICK i \in IconOf(otp, v) :
        LET s == IF i = None THEN otp ELSE OtpRemove(otp, i)
            r == OtpRemove(s, v)
        IN  otp' = [r EXCEPT !.focus = IF @ = v THEN None ELSE @,
                             !.managed = @ \ {v}, !.small = @ \ {v}]
  BY DEF RemoveWindow
<1> DEFINE s == IF i = None THEN otp ELSE OtpRemove(otp, i)
           r == OtpRemove(s, v)
<1>2. ASSUME NEW z \in StackType, NEW o \in Owl
      PROVE  /\ OtpRemove(z, o) \in StackType /\ OtpRemove(z, o).managed = z.managed
             /\ \A x \in Owl \ {o} : OtpRemove(z, o).flags[x] = z.flags[x]
  <2>1. OtpRemove(z, o) \in StackType
    BY OtpRemoveType
  <2>2. OtpRemove(z, o).managed = z.managed
    BY DEF OtpRemove, Checked, RemoveOwl, StackType
  <2>3. \A x \in Owl \ {o} : OtpRemove(z, o).flags[x] = z.flags[x]
    BY DEF OtpRemove, Checked, RemoveOwl, StackType
  <2>4. QED
    BY <2>1, <2>2, <2>3
<1>3. i # None => i \in Icon /\ i \in Owl /\ i \notin Win
  BY IconOfType, OwlAssumption DEF Owl
<1>4. s \in StackType /\ s.managed = otp.managed /\ \A x \in Win : s.flags[x] = otp.flags[x]
  BY <1>2, <1>3 DEF Owl
<1>5. otp' = [r EXCEPT !.focus = IF @ = v THEN None ELSE @,
                       !.managed = @ \ {v}, !.small = @ \ {v}]
  BY <1>1
<1> HIDE DEF s
<1>6. /\ r \in StackType /\ r.managed = otp.managed
      /\ \A x \in Win \ {v} : r.flags[x] = otp.flags[x]
  BY <1>2, <1>4 DEF Owl
<1> HIDE DEF r
<1>7. otp'.managed = otp.managed \ {v} /\ otp'.flags = r.flags
  BY <1>5, <1>6 DEF StackType
<1>8. \A w \in Win \ {v} : stash'[w] = stash[w]
  BY DEF RemoveWindow, TypeOK
<1>9. QED
  BY <1>6, <1>7, <1>8 DEF StashInv, StashOf

\* What the steps do to the flags keeps the stash current.
LEMMA StashStepIsCurrent ==
  ASSUME StackInv', StashInv, \A w \in Win : StashStep(w)
  PROVE  StashInv'
<1>1. otp'.managed \subseteq Win
  BY DEF StackInv, Whole, StackType
<1>2. QED
  BY <1>1 DEF StashInv, StashStep, StashOf, Cut

\* A restart keeps nothing but the properties.
LEMMA RestartStash ==
  ASSUME Restart
  PROVE  StashInv'
<1>1. otp'.managed = {}
  BY DEF Restart, EmptyStack
<1>2. QED
  BY <1>1 DEF StashInv

\* Every step keeps the stash current.
LEMMA StashInvStep == StackInv /\ StackInv' /\ StashInv /\ [Next]_vars => StashInv'
<1> SUFFICES ASSUME StackInv, StackInv', StashInv, [Next]_vars PROVE StashInv'
  OBVIOUS
<1>1. CASE UNCHANGED vars
  BY <1>1 DEF vars, StashInv, StashOf
<1>2. CASE JobStep
  BY <1>2, JobFlags, StashStepIsCurrent
<1>3. CASE \/ \E o \in Owl : \/ Raise(o) \/ Lower(o) \/ RaiseLower(o)
                             \/ TinyRaise(o) \/ TinyLower(o)
           \/ \E w \in StackModeWins, x \in Win, where \in {"Above", "Below"} :
                ForcePlacement(w, x, where)
  BY <1>3, MoveStepFlags, StashStepIsCurrent, ConfigAssumption DEF Owl
<1>4. CASE \/ \E o \in Owl, n \in UserPriorities, where \in {"Above", "Below"} :
                SetPriority(o, n, where)
           \/ \E o \in Owl, n \in UserDeltas : ChangePriority(o, n)
           \/ \E o \in Switchable : SwitchPriority(o)
           \/ \E o \in Togglable : ToggleSwitching(o)
  BY <1>4, PriorityStepFlags, StashStepIsCurrent, ConfigAssumption
<1>5. CASE \/ \E i \in Icon, pr \in Preferences : AddIcon(i, pr)
           \/ \E i \in Icon : FreeIcon(i)
  BY <1>5, IconFlags, StashStepIsCurrent
<1>6. CASE \/ \E w \in Win, pr \in Preferences : AddWindow(w, pr)
           \/ \E w \in Win, withdrawn \in BOOLEAN : RemoveWindow(w, withdrawn)
           \/ Restart
  BY <1>6, AddWindowStash, RemoveWindowStash, RestartStash
<1>7. CASE \E w \in Win, pr, ipr \in Preferences : RecomputePrefs(w, pr, ipr)
  BY <1>7, RecomputeFlags, StashStepIsCurrent
<1>8. CASE \/ \E w \in Zoomable, func \in Zooms : FullZoom(w, func)
           \/ \E w \in Win, raise \in BOOLEAN : Resize(w, raise)
           \/ \E w \in Win, flag \in ClientFlags, on \in BOOLEAN :
                NetWmState(w, flag, on)
  BY <1>8, SizeFlags, StashStepIsCurrent, ConfigAssumption
<1>9. CASE \E w \in Win \cup {None} : SetFocus(w)
  BY <1>9, SetFocusFlags, StashStepIsCurrent
<1>10. QED
  BY <1>1, <1>2, <1>3, <1>4, <1>5, <1>6, <1>7, <1>8, <1>9 DEF Next

\* The stash of a window that inherits no flags from another is current: a new
\* ctwm gives it the ABOVE and BELOW it has, whoever set them, zoomed the window or
\* changed its priority, and also when the window was withdrawn meanwhile.  So it
\* is of every window where none is a dialog of another or in its group.
THEOREM StashStaysCurrent ==
  Spec => [](/\ StashInv
             /\ (\A w \in Win : ~Inherits(w)) => StashIsCurrent)
<1>1. Init => StashInv
  <2>1. Init => otp.managed = {}
    BY DEF Init, EmptyStack
  <2>2. QED
    BY <2>1 DEF StashInv
<1>2. StackInv /\ StashInv /\ (\A w \in Win : ~Inherits(w)) => StashIsCurrent
  <2>1. StackInv => otp.managed \subseteq Win
    BY DEF StackInv, Whole, StackType
  <2>2. QED
    BY <2>1 DEF StashInv, StashOf, Cut, StashIsCurrent
<1>3. QED
  BY <1>1, <1>2, StackInit, StackStep, StashInvStep, PTL DEF Spec


\* FULLSCREEN is set on the windows that are zoomed, and the members of a group
\* inherit it from their leader.
MayBeFullscreen(w) ==
  /\ Zooms \cap {"fullscreen", "xfullscreen"} # {}
  /\ w \in Zoomable \/ \E l \in Zoomable : isGroupLeaderOf(l, w)

FullscreenIsAlone ==
  \A w \in Win : MayBeFullscreen(w) =>
    TransientFor[w] = None /\ \A t \in Win : TransientFor[t] # w

DocksAgree ==
  \A t, w \in Win : TransientFor[t] = w => (WType[t] = "dock" <=> WType[w] = "dock")

Orderly == FullscreenIsAlone /\ DocksAgree

\* Only windows that may be FULLSCREEN are; an icon never is.
Clear(s) ==
  \A o \in Owl : "FULLSCREEN" \in s.flags[o] => o \in Win /\ MayBeFullscreen(o)

Calm(s) == s \in StackType /\ IsList(s) /\ Sorted(s) /\ s.ok /\ Clear(s)

\* The owls not in C are where they were among each other, at the priorities
\* they had.
Apart(s, r, C) ==
  \A x \in Owl \ C :
    /\ x \in r.listed <=> x \in s.listed
    /\ x \in s.listed => Pri(r, x) = Pri(s, x)
    /\ \A y \in Owl \ C : y \in r.under[x] <=> y \in s.under[x]

\* An owl and the transients that may follow it.
Party(o) == {o} \cup {t \in Win : isTransientOf(t, o)}

\* What leaves more alone leaves less alone, and the same twice.
LEMMA ApartTwice ==
  ASSUME NEW s, NEW q, NEW r, NEW C, NEW D, NEW E, Apart(s, q, C), Apart(q, r, D),
         C \subseteq E, D \subseteq E
  PROVE  Apart(s, r, E)
  BY DEF Apart

\* The priority depends on the base, the flags and, under FULLSCREEN, the focus.
LEMMA PriSame ==
  ASSUME FullscreenIsAlone, NEW s, Clear(s), NEW r, NEW o \in Owl,
         r.base[o] = s.base[o], r.flags[o] = s.flags[o],
         \/ r.focus = s.focus
         \/ "FULLSCREEN" \notin s.flags[o]
         \/ o # s.focus /\ o # r.focus
  PROVE  Pri(r, o) = Pri(s, o)
<1>1. CASE "FULLSCREEN" \in s.flags[o]
  <2>1. o \in Win /\ TransientFor[o] = None /\ TwmWinOf(o) = o
    BY <1>1 DEF Clear, FullscreenIsAlone, TwmWinOf
  <2>2. /\ OnFocus(s, o) <=> s.focus = o
        /\ OnFocus(r, o) <=> r.focus = o
    BY <2>1 DEF OnFocus
  <2>3. OnFocus(s, TwmWinOf(o)) <=> OnFocus(r, TwmWinOf(o))
    BY <1>1, <2>1, <2>2
  <2>4. QED
    BY <2>3 DEF Pri
<1>2. CASE "FULLSCREEN" \notin s.flags[o]
  BY <1>2 DEF Pri
<1>3. QED
  BY <1>1, <1>2

\* A transient with the base and the flags of its window has its priority.
LEMMA SharedPri ==
  ASSUME Orderly, NEW s, Clear(s), NEW t, NEW w, isTransientOf(t, w),
         s.base[t] = s.base[w], s.flags[t] = s.flags[w]
  PROVE  Pri(s, t) = Pri(s, w) /\ "FULLSCREEN" \notin s.flags[w]
<1>1. t \in Win /\ w \in Win /\ TransientFor[t] = w /\ w \in Owl
  BY DEF isTransientOf, Owl
<1>2. "FULLSCREEN" \notin s.flags[w]
  BY <1>1 DEF Orderly, FullscreenIsAlone, Clear
<1>3. TwmWinOf(t) = t /\ TwmWinOf(w) = w /\ (WType[t] = "dock" <=> WType[w] = "dock")
  BY <1>1 DEF TwmWinOf, Orderly, DocksAgree
<1>4. Shifted(t, s.base[t], s.flags[t]) = Shifted(w, s.base[w], s.flags[w])
  BY <1>3 DEF Shifted
<1>5. QED
  BY <1>2, <1>3, <1>4 DEF Pri

\* Sortedness depends on the order and the priorities of what is listed.
LEMMA SortedSame ==
  ASSUME NEW s, NEW r, Sorted(s), r.listed \subseteq s.listed,
         \A x \in r.listed : /\ r.under[x] \subseteq s.under[x]
                            /\ r.under[x] \subseteq r.listed
                            /\ Pri(r, x) = Pri(s, x)
  PROVE  Sorted(r)
  BY DEF Sorted

\* The owls of `follow` got the base, the flags and so the priority of w, the
\* others kept theirs.
Followed(s, r, w, follow) ==
  /\ \A x \in follow : /\ Pri(r, x) = Pri(s, w)
                       /\ r.base[x] = s.base[w]
                       /\ r.flags[x] = s.flags[w]
  /\ \A x \in Owl \ follow : /\ Pri(r, x) = Pri(s, x)
                             /\ r.base[x] = s.base[x]
                             /\ r.flags[x] = s.flags[x]

\* PutOver does that to those that follow.
LEMMA PutOverPri ==
  ASSUME Orderly, NEW s \in StackType, Clear(s), NEW w \in Owl \ s.listed,
         NEW low \in SUBSET s.listed, NEW follow \in SUBSET low,
         \A x \in follow : isTransientOf(x, w)
  PROVE  /\ Clear(PutOver(s, w, low, follow))
         /\ Followed(s, PutOver(s, w, low, follow), w, follow)
<1> DEFINE r == PutOver(s, w, low, follow)
<1>1. /\ \A x \in Owl \ follow : r.base[x] = s.base[x] /\ r.flags[x] = s.flags[x]
      /\ \A x \in follow : r.base[x] = s.base[w] /\ r.flags[x] = s.flags[w]
      /\ r.focus = s.focus
  BY DEF PutOver, StackType
<1> HIDE DEF r
<1>2. w \in Owl \ follow
  OBVIOUS
<1>3. \A x \in Owl \ follow : Pri(r, x) = Pri(s, x)
  BY <1>1, PriSame DEF Orderly
<1>4. ASSUME NEW x \in follow PROVE "FULLSCREEN" \notin r.flags[x]
  <2>1. TransientFor[x] = w /\ x \in Win /\ w \in Win
    BY DEF isTransientOf
  <2>2. "FULLSCREEN" \notin s.flags[w]
    BY <2>1 DEF Orderly, FullscreenIsAlone, Clear, Owl
  <2>3. QED
    BY <1>1, <2>2
<1>5. Clear(r)
  BY <1>1, <1>4 DEF Clear
<1>6. ASSUME NEW x \in follow PROVE Pri(r, x) = Pri(s, w)
  <2>1. isTransientOf(x, w) /\ r.base[x] = r.base[w] /\ r.flags[x] = r.flags[w]
    BY <1>1, <1>2
  <2>2. Pri(r, x) = Pri(r, w)
    BY <1>5, <2>1, SharedPri
  <2>3. QED
    BY <1>2, <1>3, <2>2
<1>7. QED
  BY <1>1, <1>3, <1>5, <1>6 DEF Followed, r

\* What r is once w lies over `low` in order, with those that follow it.
PutInOrder(s, r, w, low, follow) ==
  /\ Sorted(r) /\ r.ok = s.ok /\ Clear(r) /\ r.small = s.small
  /\ Apart(s, r, {w} \cup follow)
  /\ r.under[w] = low \ follow
  /\ Followed(s, r, w, follow)

\* An owl put between those of no higher and those of no lower priority, its
\* transients with it: the list stays in order, the assertions hold, and the
\* others stay where they were.
LEMMA PutSorted ==
  ASSUME Orderly, NEW s \in StackType, IsList(s), Sorted(s), Clear(s),
         NEW w \in Owl \ s.listed, NEW low, BottomPart(s, low),
         NEW follow \in SUBSET low, \A x \in follow : isTransientOf(x, w),
         \A y \in low : Pri(s, y) <= Pri(s, w),
         \A y \in s.listed \ low : Pri(s, w) <= Pri(s, y),
         NEW put \in SUBSET ({w} \cup follow)
  PROVE  PutInOrder(s, PutAsserted(s, w, low, follow, put), w, low, follow)
<1> DEFINE r == PutOver(s, w, low, follow)
           q == PutAsserted(s, w, low, follow, put)
           stay == low \ follow
           high == s.listed \ low
<1>1. low \subseteq s.listed /\ low \in SUBSET Owl /\ s.listed \in SUBSET Owl
  BY DEF BottomPart, StackType
<1>2. r \in StackType /\ q \in StackType
  BY <1>1, PutOverType, PutAssertedType
<1>3. /\ q.listed = r.listed /\ q.under = r.under /\ q.base = r.base
      /\ q.flags = r.flags /\ q.focus = r.focus /\ q.small = r.small
  BY <1>2 DEF PutAsserted, StackType
<1>4. /\ r.listed = s.listed \cup {w} /\ IsList(r)
      /\ r.focus = s.focus /\ r.small = s.small
  <2>1. r.listed = s.listed \cup {w} /\ IsList(r)
    BY PutOverList
  <2>2. r.focus = s.focus /\ r.small = s.small
    BY DEF PutOver
  <2>3. QED
    BY <2>1, <2>2
<1>5. /\ r.under[w] = stay
      /\ \A o \in stay : r.under[o] = s.under[o] \ follow
      /\ \A o \in follow : r.under[o] = stay \cup {w} \cup (s.under[o] \cap follow)
      /\ \A o \in high : r.under[o] = s.under[o] \cup {w}
      /\ \A o \in Owl \ (s.listed \cup {w}) : r.under[o] = s.under[o]
  BY <1>1 DEF PutOver
<1>6. Clear(r) /\ Followed(s, r, w, follow)
  BY <1>1, PutOverPri
<1>p. /\ \A x \in follow : Pri(r, x) = Pri(s, w)
      /\ \A x \in Owl \ follow : Pri(r, x) = Pri(s, x)
  BY <1>6 DEF Followed
<1>7. \A x \in Owl : Pri(r, x) \in Int /\ Pri(s, x) \in Int /\ Pri(q, x) = Pri(r, x)
  <2>1. \A x \in Owl : Pri(r, x) \in 0 .. OTP_MAX /\ Pri(s, x) \in 0 .. OTP_MAX
    BY <1>2, PriType
  <2>2. Clear(q)
    BY <1>3, <1>6 DEF Clear
  <2>3. \A x \in Owl : Pri(q, x) = Pri(r, x)
    BY <1>3, <1>6, PriSame DEF Orderly
  <2>4. QED
    BY <2>1, <2>3 DEF OTP_MAX, OTP_ZERO
<1>8. w \in Owl \ follow /\ stay \subseteq Owl /\ high \subseteq Owl /\ follow \subseteq Owl
  BY <1>1
<1> HIDE DEF r, q
<1>9. \A x \in r.listed : \A y \in r.under[x] : Pri(r, y) <= Pri(r, x)
  <2>1. \A x \in s.listed : \A y \in s.under[x] : y \in s.listed /\ Pri(s, y) <= Pri(s, x)
    BY <1>1 DEF Sorted, IsList
  <2>2. \A x \in low : s.under[x] \subseteq low
    BY DEF BottomPart
  <2>3. ASSUME NEW x \in r.listed, NEW y \in r.under[x] PROVE Pri(r, y) <= Pri(r, x)
    <3>1. CASE x = w
      BY <1>5, <1>p, <1>8, <3>1
    <3>2. CASE x \in stay
      BY <1>1, <1>5, <1>p, <1>8, <2>1, <2>2, <3>2
    <3>3. CASE x \in follow
      <4>1. Pri(r, x) = Pri(s, w) /\ Pri(s, w) \in Int
        BY <1>p, <1>7, <1>8, <3>3
      <4>2. CASE y \in stay
        BY <1>p, <1>8, <4>1, <4>2
      <4>3. CASE y = w \/ y \in follow
        BY <1>p, <1>7, <1>8, <4>1, <4>3
      <4>4. QED
        BY <1>5, <3>3, <4>2, <4>3
    <3>4. CASE x \in high
      <4>1. Pri(r, x) = Pri(s, x) /\ Pri(s, w) <= Pri(s, x)
        BY <1>p, <1>8, <3>4
      <4>2. CASE y = w \/ y \in follow
        BY <1>p, <1>8, <4>1, <4>2
      <4>3. CASE y \in s.under[x] /\ y \notin follow
        BY <1>1, <1>p, <1>8, <2>1, <3>4, <4>1, <4>3
      <4>4. QED
        BY <1>5, <3>4, <4>2, <4>3
    <3>5. QED
      BY <1>4, <3>1, <3>2, <3>3, <3>4
  <2>4. QED
    BY <2>3
<1>10. \A x \in r.listed : x \in Owl /\ r.under[x] \subseteq Owl
  BY <1>2, <1>4 DEF StackType
<1>11. Sorted(q)
  BY <1>3, <1>7, <1>9, <1>10 DEF Sorted
<1>12. InPlace(r, put, stay)
  <2>1. \A x \in put : x \in r.listed /\ Pri(r, x) = Pri(s, w)
    BY <1>1, <1>4, <1>p, <1>8
  <2>2. \A y \in stay : Pri(r, y) <= Pri(s, w)
    BY <1>p, <1>8
  <2>3. \A x \in put : \A y \in r.listed :
          r.under[y] = r.under[x] \cup {x} => Pri(r, x) <= Pri(r, y)
    BY <1>9
  <2>4. QED
    BY <2>1, <2>2, <2>3 DEF InPlace
<1>13. q.ok = s.ok
  BY <1>2, <1>12 DEF PutAsserted, StackType, r, q
<1>14. Apart(s, q, {w} \cup follow)
  <2> DEFINE C == {w} \cup follow
  <2>1. \A x \in Owl \ C : /\ x \in q.listed <=> x \in s.listed
                           /\ Pri(q, x) = Pri(s, x)
    BY <1>3, <1>4, <1>p, <1>7
  <2>2. ASSUME NEW x \in Owl \ C, NEW y \in Owl \ C
        PROVE  y \in q.under[x] <=> y \in s.under[x]
    <3>1. x \in stay \/ x \in high \/ x \in Owl \ (s.listed \cup {w})
      OBVIOUS
    <3>2. QED
      BY <1>3, <1>5, <3>1
  <2>3. QED
    BY <2>1, <2>2 DEF Apart
<1>15. Clear(q)
  BY <1>3, <1>6 DEF Clear
<1>16. QED
  BY <1>3, <1>4, <1>5, <1>6, <1>7, <1>8, <1>11, <1>13, <1>14, <1>15 DEF Followed, PutInOrder, q


\* But for transients of w that came along, the attributes are what they were.
Kept(s, r, w) ==
  \A o \in Owl :
    \/ r.base[o] = s.base[o] /\ r.flags[o] = s.flags[o]
    \/ isTransientOf(o, w) /\ r.base[o] = s.base[w] /\ r.flags[o] = s.flags[w]

\* The owl w has been put where it belongs: at the end of its layer.
Placed(s, r, w, where) ==
  /\ Calm(r) /\ Kept(s, r, w) /\ r.small = s.small /\ r.focus = s.focus
  /\ where = "Above" => AtTop(r, w)
  /\ where = "Below" => AtBottom(r, w)

\* InsertOwl puts an owl in its place in a list that is in order.
LEMMA InsertOwlCalm ==
  ASSUME Orderly, NEW s, Calm(s), NEW w \in Owl \ s.listed,
         NEW where \in {"Above", "Below"}
  PROVE  /\ Placed(s, InsertOwl(s, w, where), w, where)
         /\ Apart(s, InsertOwl(s, w, where), Party(w))
         /\ Linked(s, InsertOwl(s, w, where), w)
<1> DEFINE p == Pri(s, w) - (IF where = "Above" THEN 0 ELSE 1)
           low == BelowPriority(s, p + 1)
           follow == {x \in low : shouldStayAbove(s, x, w)}
           popped == {x \in follow : \A y \in low : x \in s.under[y] => y \in follow}
           put == IF s.listed = {} THEN {} ELSE {w} \cup (follow \ popped)
           r == PutAsserted(s, w, low, follow, put)
<1>1. /\ s \in StackType /\ IsList(s) /\ Sorted(s) /\ s.ok /\ Clear(s)
      /\ s.listed \subseteq Owl /\ \A o \in Owl : Pri(s, o) \in Int
  BY PriType DEF Calm, StackType, OTP_MAX, OTP_ZERO
<1>2. BottomPart(s, low)
  BY <1>1, BelowPriorityBottom
<1>3. /\ \A y \in low : Pri(s, y) < p + 1
      /\ \A y \in s.listed \ low : p + 1 <= Pri(s, y)
  <2>1. \A y \in low : Pri(s, y) < p + 1
    BY DEF BelowPriority
  <2>2. ASSUME NEW y \in s.listed \ low PROVE p + 1 <= Pri(s, y)
    <3>1. PICK x \in s.under[y] \cup {y} : ~(Pri(s, x) < p + 1)
      BY <2>2 DEF BelowPriority
    <3>2. Pri(s, x) <= Pri(s, y) /\ x \in Owl
      BY <1>1, <3>1 DEF Sorted, StackType
    <3>3. QED
      BY <1>1, <3>1, <3>2
  <2>3. QED
    BY <2>1, <2>2
<1>4. r = InsertOwl(s, w, where)
  BY DEF InsertOwl
<1>5. Linked(s, InsertOwl(s, w, where), w)
  BY <1>1, InsertList
<1> HIDE DEF low
<1>6. low \subseteq s.listed
  BY <1>2 DEF BottomPart
<1>7. /\ \A y \in low : Pri(s, y) <= Pri(s, w)
      /\ \A y \in s.listed \ low : Pri(s, w) <= Pri(s, y)
  BY <1>1, <1>3, <1>6
<1>8. /\ follow \in SUBSET low /\ put \in SUBSET ({w} \cup follow)
      /\ \A x \in follow : isTransientOf(x, w)
  BY DEF shouldStayAbove
<1> HIDE DEF follow, put
<1>9. /\ Sorted(r) /\ r.ok = s.ok /\ Clear(r) /\ Apart(s, r, {w} \cup follow)
      /\ r.under[w] = low \ follow /\ r.small = s.small /\ Followed(s, r, w, follow)
  <2>1. PutInOrder(s, r, w, low, follow)
    BY <1>1, <1>2, <1>7, <1>8, PutSorted
  <2>2. QED
    BY <2>1 DEF PutInOrder
<1>10. r \in StackType /\ IsList(r) /\ r.listed = s.listed \cup {w} /\ r.focus = s.focus
  BY <1>4, <1>5 DEF Linked
<1> HIDE DEF r
<1>11. Calm(r)
  BY <1>1, <1>9, <1>10 DEF Calm
<1>12. Kept(s, r, w)
  BY <1>8, <1>9 DEF Kept, Followed
<1>13. Apart(s, r, Party(w))
  <2>1. {w} \cup follow \subseteq Party(w)
    BY <1>8 DEF Party, isTransientOf
  <2>2. QED
    BY <1>9, <2>1 DEF Apart
<1>14. /\ \A x \in Owl \ follow : Pri(r, x) = Pri(s, x)
       /\ w \in Owl \ follow
  BY <1>6, <1>8, <1>9 DEF Followed
<1>15. ASSUME where = "Above" PROVE AtTop(r, w)
  <2>1. ASSUME NEW x \in Over(r, w)
        PROVE  Pri(r, x) > Pri(r, w) \/ shouldStayAbove(r, x, w)
    <3>1. x \in r.listed /\ w \in r.under[x] /\ x # w /\ x \in Owl
      BY <1>10 DEF Over, IsList, StackType
    <3>2. x \notin low \ follow
      BY <1>9, <1>10, <3>1 DEF IsList
    <3>3. CASE x \in follow
      BY <1>9, <3>3 DEF follow, shouldStayAbove
    <3>4. CASE x \in s.listed \ low
      <4>1. p = Pri(s, w) /\ p + 1 <= Pri(s, x)
        BY <1>1, <1>3, <1>15, <3>4
      <4>2. Pri(r, x) = Pri(s, x) /\ Pri(r, w) = Pri(s, w)
        BY <1>8, <1>14, <3>1, <3>4
      <4>3. QED
        BY <1>1, <3>1, <4>1, <4>2
    <3>5. QED
      BY <1>10, <3>1, <3>2, <3>3, <3>4
  <2>2. ASSUME NEW x \in r.under[w] PROVE ~shouldStayAbove(r, x, w)
    BY <1>9, <2>2 DEF follow, shouldStayAbove
  <2>3. QED
    BY <2>1, <2>2 DEF AtTop
<1>16. ASSUME where = "Below" PROVE AtBottom(r, w)
  <2>1. ASSUME NEW x \in r.under[w] PROVE Pri(r, x) < Pri(r, w)
    <3>1. x \in low /\ x \in Owl \ follow
      BY <1>1, <1>6, <1>9
    <3>2. Pri(s, x) < p + 1 /\ p = Pri(s, w) - 1
      BY <1>3, <1>16, <3>1
    <3>3. QED
      BY <1>1, <1>14, <3>1, <3>2
  <2>2. QED
    BY <2>1 DEF AtBottom
<1>17. QED
  BY <1>4, <1>5, <1>9, <1>10, <1>11, <1>12, <1>13, <1>15, <1>16 DEF Placed

\* An owl whose priority changes is put back into its place.
LEMMA ReinsertCalm ==
  ASSUME Orderly, NEW s, Calm(s), NEW w \in s.listed,
         NEW where \in {"Above", "Below"},
         NEW q \in StackType, q.listed = s.listed, q.under = s.under, q.ok = s.ok,
         Clear(q), \A o \in Owl \ {w} : Pri(q, o) = Pri(s, o)
  PROVE  /\ Placed(q, Reinsert(q, w, where), w, where)
         /\ Apart(s, Reinsert(q, w, where), Party(w))
<1> DEFINE r == RemoveOwl(q, w)
<1>1. s \in StackType /\ w \in Owl /\ IsList(q)
  BY DEF Calm, StackType, IsList
<1>2. r \in StackType /\ IsList(r) /\ w \in Owl \ r.listed /\ r.listed = q.listed \ {w}
  BY <1>1, RemoveOwlType, RemoveOwlList
<1>3. /\ r.base = q.base /\ r.flags = q.flags /\ r.focus = q.focus /\ r.ok = q.ok
      /\ r.small = q.small
  BY DEF RemoveOwl, StackType
<1>4. \A x \in Owl \ {w} : r.under[x] = q.under[x] \ {w}
  BY <1>2 DEF RemoveOwl, StackType
<1> HIDE DEF r
<1>5. \A x \in Owl \ {w} : Pri(r, x) = Pri(s, x)
  <2>1. ASSUME NEW x \in Owl \ {w} PROVE Pri(r, x) = Pri(s, x)
    <3>1. Pri(r, x) = Pri(q, x)
      BY <1>3, PriSame DEF Orderly
    <3>2. QED
      BY <3>1
  <2>2. QED
    BY <2>1
<1>6. Sorted(r)
  <2>1. \A x \in r.listed : x \in s.listed /\ x \in Owl \ {w} /\ r.under[x] \subseteq s.under[x]
    BY <1>2, <1>4 DEF StackType
  <2>2. \A x \in r.listed : r.under[x] \subseteq r.listed
    BY <1>2 DEF IsList, StackType
  <2>3. QED
    BY <1>2, <1>5, <2>1, <2>2, SortedSame DEF Calm
<1>7. Calm(r)
  BY <1>2, <1>3, <1>6 DEF Calm, Clear
<1>8. Apart(s, r, {w})
  BY <1>2, <1>4, <1>5 DEF Apart
<1>9. /\ Placed(r, InsertOwl(r, w, where), w, where)
      /\ Apart(r, InsertOwl(r, w, where), Party(w))
  BY <1>2, <1>7, InsertOwlCalm
<1>10. Apart(s, InsertOwl(r, w, where), Party(w))
  <2>1. {w} \subseteq Party(w)
    BY DEF Party
  <2>2. QED
    BY <1>8, <1>9, <2>1, ApartTwice
<1>11. QED
  BY <1>3, <1>9, <1>10 DEF Reinsert, Placed, Kept, r


\* OtpCheckConsistency does not abort on a list that is in order.
LEMMA CheckedCalm ==
  ASSUME NEW s, Calm(s)
  PROVE  Checked(s) = s
<1>1. [s EXCEPT !.ok = TRUE] = s
  BY DEF Calm, StackType
<1>2. (s.ok /\ Sorted(s)) = TRUE
  BY DEF Calm
<1>3. QED
  BY <1>1, <1>2 DEF Checked

\* Order does not depend on the sizes, nor on which windows are managed.
LEMMA OthersCalm ==
  ASSUME NEW s, Calm(s), NEW r \in StackType,
         r.listed = s.listed, r.under = s.under, r.ok = s.ok, Clear(r),
         \A o \in s.listed : Pri(r, o) = Pri(s, o)
  PROVE  Calm(r) /\ \A C : Apart(s, r, C)
<1>1. IsList(r)
  BY DEF Calm, IsList
<1>2. Sorted(r)
  BY DEF Calm, Sorted, IsList, StackType
<1>3. \A C : Apart(s, r, C)
  BY DEF Apart
<1>4. QED
  BY <1>1, <1>2, <1>3 DEF Calm

\* The sizes of windows change no priority.
LEMMA SmallCalm ==
  ASSUME Orderly, NEW s, Calm(s), NEW sm \in SUBSET Win
  PROVE  /\ Calm([s EXCEPT !.small = sm]) /\ \A C : Apart(s, [s EXCEPT !.small = sm], C)
         /\ [s EXCEPT !.small = sm].listed = s.listed
         /\ [s EXCEPT !.small = sm].focus = s.focus
<1> DEFINE r == [s EXCEPT !.small = sm]
<1>1. s \in StackType /\ r \in StackType
  BY DEF Calm, StackType
<1>2. /\ r.listed = s.listed /\ r.under = s.under /\ r.ok = s.ok
      /\ r.base = s.base /\ r.flags = s.flags /\ r.focus = s.focus
  BY <1>1 DEF StackType
<1> HIDE DEF r
<1>3. \A o \in s.listed : Pri(r, o) = Pri(s, o)
  BY <1>1, <1>2, PriSame DEF StackType, Calm, Orderly
<1>4. Clear(r)
  BY <1>2 DEF Calm, Clear
<1>5. Calm(r) /\ \A C : Apart(s, r, C)
  BY <1>1, <1>2, <1>3, <1>4, OthersCalm
<1>6. QED
  BY <1>2, <1>5 DEF r

\* An owl and what follows it go with the window it belongs to.
LEMMA PartyIsCompany ==
  ASSUME NEW o \in Owl
  PROVE  TwmWinOf(o) \in Win /\ Party(o) \subseteq Companions(TwmWinOf(o))
<1>1. TwmWinOf(o) \in Win /\ TwmWinOf(o) \in Win
  BY HintAssumption DEF TwmWinOf, Owl
<1>2. CASE o \in Win
  BY <1>1, <1>2 DEF Party, Companions, TwmWinOf
<1>3. CASE o \in Icon
  BY <1>1, <1>3, OwlAssumption DEF Party, Companions, TwmWinOf, isTransientOf
<1>4. QED
  BY <1>2, <1>3 DEF Owl

\* No loop under way is on its way out of a window that still has the focus.
JobFocus == job.kind = "focus" /\ job.out => otp.focus = None

CalmInv == StackInv /\ Calm(otp) /\ JobFocus

\* A step about one client keeps order and leaves the others alone.
OneClient == otp' = otp \/ \E c \in Win : Apart(otp, otp', Companions(c))

KeepsOrder == Calm(otp') /\ JobFocus' /\ OneClient

\* What is about an owl is about a client.
LEMMA OneOwl ==
  ASSUME NEW o \in Owl, Apart(otp, otp', Party(o))
  PROVE  OneClient
<1>1. Apart(otp, otp', Companions(TwmWinOf(o)))
  BY PartyIsCompany DEF Apart
<1>2. QED
  BY <1>1, PartyIsCompany DEF OneClient

\* No focus loop, no duty to have taken the focus away.
LEMMA NoFocusJob == (job' = Idle \/ job'.kind = "walk") => JobFocus'
  BY DEF JobFocus, Idle

\* A walk is no focus loop.
LEMMA StartWalkKind ==
  ASSUME NEW s, NEW o, NEW pri, NEW where, NEW tell, NEW sm,
         StartWalk(s, o, pri, where, tell, sm)
  PROVE  job'.kind = "walk"
  BY DEF StartWalk

\* What is alone stays alone.
LEMMA ApartSelf == \A s, C : Apart(s, s, C)
  BY DEF Apart

\* Raising and lowering puts the owl in its place.
LEMMA MoveCalm ==
  ASSUME Orderly, NEW s, Calm(s), NEW o \in s.listed,
         NEW where \in {"Above", "Below"}, NEW sm \in SUBSET Win, Move(s, o, where, sm)
  PROVE  Calm(otp') /\ JobFocus' /\ Apart(s, otp', Party(o))
<1>1. CASE WillSwitch(s, o, where)
  <2>1. otp' = s /\ job'.kind = "walk"
    BY <1>1, StartWalkKind DEF Move
  <2>2. QED
    BY <2>1, NoFocusJob, ApartSelf
<1>2. CASE ~WillSwitch(s, o, where)
  <2> DEFINE q == Reinsert(s, o, where)
  <2>1. Calm(q) /\ Apart(s, q, Party(o))
    BY ReinsertCalm DEF Calm, Placed
  <2>2. otp' = [Checked(q) EXCEPT !.small = sm] /\ job' = Idle
    BY <1>2 DEF Move
  <2> HIDE DEF q
  <2>3. otp' = [q EXCEPT !.small = sm]
    BY <2>1, <2>2, CheckedCalm
  <2>4. Calm(otp') /\ Apart(q, otp', Party(o))
    BY <2>1, <2>3, SmallCalm
  <2>5. Apart(s, otp', Party(o))
    BY <2>1, <2>4, ApartTwice
  <2>6. QED
    BY <2>2, <2>4, <2>5, NoFocusJob
<1>3. QED
  BY <1>1, <1>2

\* The focus goes from one window to another; what depends on it moves.
LEMMA FocusPri ==
  ASSUME Orderly, NEW s \in StackType, Clear(s), NEW w \in Win \cup {None},
         NEW o \in Owl, o # w \/ "FULLSCREEN" \notin s.flags[o],
         o # s.focus \/ "FULLSCREEN" \notin s.flags[o]
  PROVE  Pri([s EXCEPT !.focus = w], o) = Pri(s, o)
<1> DEFINE q == [s EXCEPT !.focus = w]
<1>1. q.base = s.base /\ q.flags = s.flags /\ q.focus = w
  BY DEF StackType
<1> HIDE DEF q
<1>2. Pri(q, o) = Pri(s, o)
  BY <1>1, PriSame DEF Orderly
<1>3. QED
  BY <1>2 DEF q

\* Restacking the one window whose priority the focus changes keeps order.
LEMMA FocusBECalm ==
  ASSUME Orderly, NEW s, Calm(s), NEW f \in Win \cup {None}, NEW w \in Win,
         w \in s.listed, \A o \in Owl \ {w} : Pri([s EXCEPT !.focus = f], o) = Pri(s, o),
         NEW out, NEW then, OtpFocusWindowBE([s EXCEPT !.focus = f], w, out, then),
         out => f = None
  PROVE  Calm(otp') /\ JobFocus' /\ Apart(s, otp', Party(w))
<1> DEFINE q == [s EXCEPT !.focus = f]
           r == Reinsert(q, w, "Above")
<1>1. s \in StackType /\ q \in StackType
  BY DEF Calm, StackType
<1>2. /\ q.listed = s.listed /\ q.under = s.under /\ q.ok = s.ok
      /\ q.flags = s.flags /\ q.focus = f
  BY <1>1 DEF StackType
<1>3. Clear(q)
  BY <1>2 DEF Calm, Clear
<1>4. otp' = r /\ job'.out = out
  BY DEF OtpFocusWindowBE
<1>5. \A o \in Owl \ {w} : Pri(q, o) = Pri(s, o)
  OBVIOUS
<1> HIDE DEF q
<1>6. Calm(r) /\ r.focus = q.focus /\ Apart(s, r, Party(w))
  BY <1>1, <1>2, <1>3, <1>5, ReinsertCalm DEF Placed
<1>7. QED
  BY <1>2, <1>4, <1>6 DEF JobFocus

\* So a window that gets the focus, while none that cares loses it, keeps order.
LEMMA FocusEntersCalm ==
  ASSUME Orderly, NEW s, Calm(s), NEW w \in Win \cup {None},
         w \in s.listed \cup {None}, FocusEnters(s, w),
         s.focus = None \/ "FULLSCREEN" \notin s.flags[s.focus]
  PROVE  /\ Calm(otp') /\ JobFocus'
         /\ \A v \in Win : w \in {v, None} => Apart(s, otp', Party(v))
         /\ w = None /\ s.focus = None => otp' = s
<1> DEFINE q == [s EXCEPT !.focus = w]
<1>1. s \in StackType /\ q \in StackType /\ Clear(s) /\ None \notin Owl
  BY OwlAssumption DEF Calm, StackType, Owl
<1>2. CASE w # None /\ OtpIsFocusDependent(s, w)
  <2>1. OtpFocusWindowBE(q, w, FALSE, None)
    BY <1>2 DEF FocusEnters
  <2>2. \A o \in Owl \ {w} : Pri(q, o) = Pri(s, o)
    BY <1>1, FocusPri
  <2>3. w \in Win /\ w \in s.listed
    BY <1>2
  <2>4. Calm(otp') /\ JobFocus' /\ Apart(s, otp', Party(w))
    BY <2>1, <2>2, <2>3, FocusBECalm
  <2>5. QED
    BY <1>2, <2>4
<1>3. CASE ~(w # None /\ OtpIsFocusDependent(s, w))
  <2>1. otp' = q /\ job' = Idle
    BY <1>3 DEF FocusEnters
  <2>2. \A o \in Owl : Pri(q, o) = Pri(s, o)
    BY <1>1, <1>3, FocusPri DEF OtpIsFocusDependent
  <2>3. /\ q.listed = s.listed /\ q.under = s.under /\ q.ok = s.ok
        /\ q.flags = s.flags
    BY <1>1 DEF StackType
  <2>4. Clear(q) /\ s.listed \subseteq Owl
    BY <1>1, <2>3 DEF Clear, StackType
  <2>5. w = None /\ s.focus = None => q = s
    BY <1>1 DEF StackType
  <2> HIDE DEF q
  <2>6. Calm(q) /\ \A C : Apart(s, q, C)
    BY <1>1, <2>2, <2>3, <2>4, OthersCalm
  <2>7. QED
    BY <2>1, <2>5, <2>6, NoFocusJob
<1>4. QED
  BY <1>2, <1>3

\* One attribute changes, and its owl is put back into its place.
LEMMA NewBaseCalm ==
  ASSUME Orderly, NEW s, Calm(s), NEW w \in s.listed, NEW base \in 0 .. OTP_MAX,
         NEW where \in {"Above", "Below"}
  PROVE  LET q == [s EXCEPT !.base[w] = base]
         IN  /\ Placed(q, Reinsert(q, w, where), w, where)
             /\ Apart(s, Reinsert(q, w, where), Party(w))
<1> DEFINE q == [s EXCEPT !.base[w] = base]
<1>1. s \in StackType /\ q \in StackType /\ w \in Owl
  BY DEF Calm, StackType
<1>2. /\ q.listed = s.listed /\ q.under = s.under /\ q.ok = s.ok
      /\ q.flags = s.flags /\ q.focus = s.focus
      /\ \A o \in Owl \ {w} : q.base[o] = s.base[o]
  BY <1>1 DEF StackType
<1> HIDE DEF q
<1>3. \A o \in Owl \ {w} : Pri(q, o) = Pri(s, o)
  BY <1>2, PriSame DEF Calm, Orderly
<1>4. Clear(q)
  BY <1>2 DEF Calm, Clear
<1>5. Placed(q, Reinsert(q, w, where), w, where) /\ Apart(s, Reinsert(q, w, where), Party(w))
  BY <1>1, <1>2, <1>3, <1>4, ReinsertCalm
<1>6. QED
  BY <1>5 DEF q

\* New flags keep order if the window is restacked or its priority is the same.
LEMMA NewFlagsCalm ==
  ASSUME Orderly, NEW s, Calm(s), NEW w \in Win, w \in s.listed,
         NEW flags \in SUBSET Aflag, "FULLSCREEN" \in flags => MayBeFullscreen(w)
  PROVE  /\ Calm(OtpRestackWindow(SetFlags(s, w, flags), w))
         /\ Apart(s, OtpRestackWindow(SetFlags(s, w, flags), w), Party(w))
         /\ Pri(SetFlags(s, w, flags), w) = Pri(s, w) =>
              /\ Calm(SetFlags(s, w, flags))
              /\ Apart(s, SetFlags(s, w, flags), Party(w))
<1> DEFINE q == SetFlags(s, w, flags)
<1>1. s \in StackType /\ q \in StackType /\ w \in Owl
  BY DEF Calm, StackType, SetFlags, Owl
<1>2. /\ q.listed = s.listed /\ q.under = s.under /\ q.ok = s.ok
      /\ q.base = s.base /\ q.focus = s.focus /\ q.flags[w] = flags
      /\ \A o \in Owl \ {w} : q.flags[o] = s.flags[o]
  BY <1>1 DEF SetFlags, StackType
<1> HIDE DEF q
<1>3. \A o \in Owl \ {w} : Pri(q, o) = Pri(s, o)
  BY <1>2, PriSame DEF Calm, Orderly
<1>4. Clear(q)
  BY <1>2 DEF Calm, Clear
<1>5. Calm(Reinsert(q, w, "Above")) /\ Apart(s, Reinsert(q, w, "Above"), Party(w))
  BY <1>1, <1>2, <1>3, <1>4, ReinsertCalm DEF Placed
<1>6. Calm(OtpRestackWindow(q, w)) /\ Apart(s, OtpRestackWindow(q, w), Party(w))
  BY <1>5, CheckedCalm DEF OtpRestackWindow
<1>7. ASSUME Pri(q, w) = Pri(s, w) PROVE Calm(q) /\ Apart(s, q, Party(w))
  <2>1. \A o \in s.listed : Pri(q, o) = Pri(s, o)
    BY <1>1, <1>3, <1>7 DEF StackType
  <2>2. QED
    BY <1>1, <1>2, <1>4, <2>1, OthersCalm
<1>8. QED
  BY <1>6, <1>7 DEF q

\* Zooming and unzooming keep order.
LEMMA ZoomCalm ==
  ASSUME Orderly, NEW s, Calm(s), NEW w \in Win, w \in s.listed
  PROVE  /\ Calm(Unzoomed(s, w)) /\ Apart(s, Unzoomed(s, w), Party(w))
         /\ \A func \in Zooms : w \in Zoomable =>
              Calm(Zoomed(s, w, func)) /\ Apart(s, Zoomed(s, w, func), Party(w))
<1>1. s.flags[w] \in SUBSET Aflag
  BY DEF Calm, StackType, Owl
<1>2. Calm(Unzoomed(s, w)) /\ Apart(s, Unzoomed(s, w), Party(w))
  <2> DEFINE flags == s.flags[w] \ {"FULLSCREEN"}
  <2>1. flags \in SUBSET Aflag /\ "FULLSCREEN" \notin flags
    BY <1>1
  <2>2. /\ Calm(OtpRestackWindow(SetFlags(s, w, flags), w))
        /\ Apart(s, OtpRestackWindow(SetFlags(s, w, flags), w), Party(w))
    BY <2>1, NewFlagsCalm
  <2>3. QED
    BY <2>2, ApartSelf DEF Unzoomed
<1>3. ASSUME NEW func \in Zooms, w \in Zoomable
      PROVE  Calm(Zoomed(s, w, func)) /\ Apart(s, Zoomed(s, w, func), Party(w))
  <2> DEFINE flags == s.flags[w] \cup {"FULLSCREEN"}
  <2>1. CASE func \in {"fullscreen", "xfullscreen"}
    <3>1. flags \in SUBSET Aflag /\ MayBeFullscreen(w)
      BY <1>1, <1>3, <2>1 DEF Aflag, MayBeFullscreen
    <3>2. /\ Calm(OtpRestackWindow(SetFlags(s, w, flags), w))
          /\ Apart(s, OtpRestackWindow(SetFlags(s, w, flags), w), Party(w))
      BY <3>1, NewFlagsCalm
    <3>3. QED
      BY <2>1, <3>2 DEF Zoomed
  <2>2. CASE func \notin {"fullscreen", "xfullscreen"}
    BY <2>2, ApartSelf DEF Zoomed
  <2>3. QED
    BY <2>1, <2>2
<1>4. QED
  BY <1>2, <1>3

\* New preferences keep order.
LEMMA RecomputeCalm ==
  ASSUME Orderly, NEW s, Calm(s), NEW o \in s.listed, NEW pr \in Preferences
  PROVE  Calm(RecomputeOwlPrefs(s, o, pr)) /\ Apart(s, RecomputeOwlPrefs(s, o, pr), Party(o))
<1>1. pr.pri \in (0 .. OTP_MAX) \cup {None} /\ o \in Owl /\ s \in StackType
  BY ConfigAssumption DEF Calm, StackType
<1>2. Preferred(pr, s.base[o]) \in 0 .. OTP_MAX
  BY <1>1 DEF Preferred, StackType
<1>3. QED
  BY <1>2, NewBaseCalm, ApartSelf DEF RecomputeOwlPrefs, Placed

\* Taking an owl off and freeing it keeps order.
LEMMA OtpRemoveCalm ==
  ASSUME Orderly, NEW s, Calm(s), NEW w \in Owl
  PROVE  Calm(OtpRemove(s, w)) /\ Apart(s, OtpRemove(s, w), {w})
<1> DEFINE r == RemoveOwl(s, w)
           q == [r EXCEPT !.base[w] = OTP_ZERO, !.flags[w] = {}]
<1>1. /\ r \in StackType /\ IsList(r) /\ r.listed = s.listed \ {w} /\ s \in StackType
  BY RemoveOwlType, RemoveOwlList DEF Calm
<1>2. /\ r.base = s.base /\ r.flags = s.flags /\ r.focus = s.focus /\ r.ok = s.ok
      /\ \A x \in Owl : r.under[x] \subseteq s.under[x]
      /\ \A x \in Owl \ {w} : r.under[x] = s.under[x] \ {w}
  BY <1>1 DEF RemoveOwl, StackType
<1> HIDE DEF r
<1>3. OTP_ZERO \in 0 .. OTP_MAX
  BY DEF OTP_ZERO, OTP_MAX
<1>4. q \in StackType
  BY <1>1, <1>3, NewAttributesType
<1>5. /\ q.listed = r.listed /\ q.under = r.under /\ q.ok = r.ok /\ q.focus = r.focus
      /\ \A o \in Owl \ {w} : q.base[o] = r.base[o] /\ q.flags[o] = r.flags[o]
      /\ q.flags[w] = {}
  BY <1>1 DEF StackType
<1> HIDE DEF q
<1>6. \A x \in Owl \ {w} : Pri(q, x) = Pri(s, x)
  <2>1. ASSUME NEW x \in Owl \ {w} PROVE Pri(q, x) = Pri(s, x)
    BY <1>2, <1>5, PriSame DEF Calm, Orderly
  <2>2. QED
    BY <2>1
<1>7. IsList(q) /\ \A x \in q.listed : x \in Owl \ {w}
  BY <1>1, <1>5 DEF IsList, StackType
<1>8. Sorted(q)
  BY <1>1, <1>2, <1>5, <1>6, <1>7, SortedSame DEF Calm, IsList
<1>9. Clear(q)
  BY <1>2, <1>5 DEF Calm, Clear
<1>10. Calm(q)
  BY <1>2, <1>4, <1>5, <1>7, <1>8, <1>9 DEF Calm
<1>11. Apart(s, q, {w})
  BY <1>1, <1>2, <1>5, <1>6 DEF Apart
<1>12. OtpRemove(s, w) = Checked(q)
  BY DEF OtpRemove, q, r
<1>13. QED
  BY <1>10, <1>11, <1>12, CheckedCalm


\* A transient that a walk moves gets the flags, the base and the place of its
\* window's new priority.
LEMMA WalkMoveCalm ==
  ASSUME Orderly, NEW s, Calm(s), NEW t \in s.listed, NEW w, isTransientOf(t, w),
         NEW pri \in Int, NEW where \in {"Above", "Below"}
  PROVE  LET f == [s EXCEPT !.flags[t] = s.flags[w]]
             q == [f EXCEPT !.base[t] = Clamp(pri)]
         IN  /\ Placed(q, SetOwlPriority(f, t, pri, where), t, where)
             /\ Apart(s, SetOwlPriority(f, t, pri, where), Party(t))
<1> DEFINE f == [s EXCEPT !.flags[t] = s.flags[w]]
           q == [f EXCEPT !.base[t] = Clamp(pri)]
<1>1. s \in StackType /\ t \in Owl /\ w \in Owl /\ t \in Win /\ w \in Win /\ TransientFor[t] = w
  BY DEF Calm, StackType, isTransientOf, Owl
<1>2. f \in StackType /\ q \in StackType
  BY <1>1, ClampType DEF StackType
<1>3. /\ q.listed = s.listed /\ q.under = s.under /\ q.ok = s.ok /\ q.focus = s.focus
      /\ q.flags[t] = s.flags[w]
      /\ \A o \in Owl \ {t} : q.base[o] = s.base[o] /\ q.flags[o] = s.flags[o]
  BY <1>1 DEF StackType
<1>4. SetOwlPriority(f, t, pri, where) = Reinsert(q, t, where)
  BY DEF SetOwlPriority
<1> HIDE DEF q, f
<1>5. \A o \in Owl \ {t} : Pri(q, o) = Pri(s, o)
  BY <1>3, PriSame DEF Calm, Orderly
<1>6. "FULLSCREEN" \notin s.flags[w]
  BY <1>1 DEF Orderly, FullscreenIsAlone, Calm, Clear
<1>7. Clear(q)
  BY <1>3, <1>6 DEF Calm, Clear
<1>8. Placed(q, Reinsert(q, t, where), t, where) /\ Apart(s, Reinsert(q, t, where), Party(t))
  BY <1>2, <1>3, <1>5, <1>7, ReinsertCalm
<1>9. QED
  BY <1>4, <1>8 DEF q, f

\* The steps of the loops over transients.
LEMMA JobStepCalm ==
  ASSUME Orderly, CalmInv, JobStep
  PROVE  KeepsOrder
<1> Calm(otp) /\ otp \in StackType /\ TypeOK
  BY DEF CalmInv, StackInv, Calm
<1>a. job.kind = "walk" => /\ job \in Walks /\ job.owl \in otp.listed
                           /\ job.next \in otp.listed \cup {None}
  BY DEF CalmInv, StackInv, JobInList, TypeOK, Idle, Shuffles
<1>b. job.kind = "focus" => /\ job \in Shuffles /\ job.todo \subseteq otp.listed
                            /\ job.then \in otp.managed \cup {None}
  BY DEF CalmInv, StackInv, JobInList, TypeOK, Idle, Walks
<1>c. otp.listed \subseteq Owl
  BY DEF StackType
<1>1. CASE WalkStep
  <2>1. /\ job \in Walks /\ job.next \in otp.listed /\ job.pri \in Int
        /\ job.where \in {"Above", "Below"}
    BY <1>1, <1>a DEF WalkStep, WalkTurn, InLayer, Walks
  <2>2. PICK up \in NextUp(otp, job.next) : job' = [job EXCEPT !.next = up]
    BY <1>1 DEF WalkStep, WalkTurn
  <2>3. JobFocus'
    BY <2>1, <2>2, NoFocusJob DEF Walks
  <2>4. CASE isTransientOf(job.next, job.owl)
    <3> DEFINE f == [otp EXCEPT !.flags[job.next] = otp.flags[job.owl]]
    <3>1. otp' = SetOwlPriority(f, job.next, job.pri, job.where)
      BY <1>1, <2>4 DEF WalkStep
    <3>2. /\ Calm(SetOwlPriority(f, job.next, job.pri, job.where))
          /\ Apart(otp, SetOwlPriority(f, job.next, job.pri, job.where), Party(job.next))
      BY <2>1, <2>4, WalkMoveCalm DEF Placed
    <3> HIDE DEF f
    <3>3. OneClient
      BY <1>c, <2>1, <3>1, <3>2, OneOwl
    <3>4. QED
      BY <2>3, <3>1, <3>2, <3>3 DEF KeepsOrder
  <2>5. CASE ~isTransientOf(job.next, job.owl)
    BY <1>1, <2>3, <2>5 DEF WalkStep, KeepsOrder, OneClient
  <2>6. QED
    BY <2>4, <2>5
<1>2. CASE WalkEnd
  <2> DEFINE q == SetOwlPriority(otp, job.owl, job.pri, job.where)
  <2>1. job \in Walks /\ job.owl \in otp.listed /\ job' = Idle
    BY <1>2, <1>a DEF WalkEnd, WalkTurn
  <2>2. Clamp(job.pri) \in 0 .. OTP_MAX /\ job.where \in {"Above", "Below"}
    BY <2>1, ClampType DEF Walks
  <2>3. Calm(q) /\ Apart(otp, q, Party(job.owl))
    BY <2>1, <2>2, NewBaseCalm DEF SetOwlPriority, Placed
  <2>4. otp' = [Checked(q) EXCEPT !.small = job.small] /\ job.small \in SUBSET Win
    BY <1>2, <2>1 DEF WalkEnd, Walks
  <2> HIDE DEF q
  <2>5. otp' = [q EXCEPT !.small = job.small]
    BY <2>3, <2>4, CheckedCalm
  <2>6. Calm(otp') /\ Apart(q, otp', Party(job.owl))
    <3> DEFINE sm == job.small
    <3> HIDE DEF sm
    <3>1. sm \in SUBSET Win /\ otp' = [q EXCEPT !.small = sm]
      BY <2>4, <2>5 DEF sm
    <3>2. QED
      BY <2>3, <3>1, SmallCalm
  <2>7. Apart(otp, otp', Party(job.owl))
    BY <2>3, <2>6, ApartTwice
  <2>8. QED
    BY <1>c, <2>1, <2>6, <2>7, OneOwl, NoFocusJob DEF KeepsOrder
<1>3. CASE FocusStep
  <2>1. job \in Shuffles /\ job.todo \subseteq otp.listed
    BY <1>3, <1>b DEF FocusStep
  <2>2. PICK t \in job.todo : /\ otp' = Reinsert(otp, t, "Above")
                              /\ job' = [job EXCEPT !.todo = @ \ {t}]
    BY <1>3 DEF FocusStep
  <2>3. Calm(otp') /\ otp'.focus = otp.focus /\ Apart(otp, otp', Party(t))
    BY <2>1, <2>2, ReinsertCalm DEF Calm, Placed
  <2>4. job'.kind = job.kind /\ job'.out = job.out
    BY <2>1, <2>2 DEF Shuffles
  <2>5. OneClient
    BY <1>c, <2>1, <2>3, OneOwl
  <2>6. QED
    BY <2>3, <2>4, <2>5 DEF CalmInv, JobFocus, KeepsOrder
<1>4. CASE FocusEnd
  <2>1. Checked(otp) = otp /\ job.then \in Win \cup {None}
    BY <1>4, <1>b, CheckedCalm DEF FocusEnd, Shuffles
  <2>2. CASE job.out
    <3>1. otp.focus = None /\ FocusEnters(otp, job.then)
      BY <1>4, <2>1, <2>2 DEF CalmInv, JobFocus, FocusEnd
    <3>2. job.then \in otp.listed \cup {None}
      BY <1>4, <1>b DEF FocusEnd, CalmInv, StackInv, Whole, Members
    <3>3. /\ Calm(otp') /\ JobFocus'
          /\ \A v \in Win : job.then \in {v, None} => Apart(otp, otp', Party(v))
          /\ job.then = None => otp' = otp
      BY <2>1, <3>1, <3>2, FocusEntersCalm
    <3>4. OneClient
      BY <2>1, <3>3, OneOwl DEF OneClient, Owl
    <3>5. QED
      BY <3>3, <3>4 DEF KeepsOrder
  <2>3. CASE ~job.out
    BY <1>4, <2>1, <2>3, NoFocusJob DEF FocusEnd, KeepsOrder, OneClient
  <2>4. QED
    BY <2>2, <2>3
<1>5. QED
  BY <1>1, <1>2, <1>3, <1>4 DEF JobStep

\* Raising and lowering, all the way or past one owl.
LEMMA MoveStepCalm ==
  ASSUME Orderly, CalmInv, NEW o \in Owl,
         Raise(o) \/ Lower(o) \/ RaiseLower(o) \/ TinyRaise(o) \/ TinyLower(o)
  PROVE  KeepsOrder
<1> /\ Calm(otp) /\ otp \in StackType /\ IsList(otp) /\ Sorted(otp) /\ Clear(otp)
    /\ otp.small \in SUBSET Win /\ otp.ok
  BY DEF CalmInv, Calm, StackType
<1>1. o \in otp.listed /\ job = Idle
  BY DEF Raise, Lower, RaiseLower, TinyRaise, TinyLower, Ready
<1>2. CASE Raise(o) \/ Lower(o)
  BY <1>1, <1>2, MoveCalm, OneOwl DEF Raise, Lower, KeepsOrder
<1>3. CASE RaiseLower(o)
  BY <1>1, <1>3, MoveCalm, OneOwl DEF RaiseLower, KeepsOrder
<1> DEFINE s == RemoveOwl(otp, o)
<1>4. /\ s \in StackType /\ IsList(s) /\ o \in Owl \ s.listed
      /\ s.listed = otp.listed \ {o}
      /\ s.flags = otp.flags /\ s.base = otp.base /\ s.focus = otp.focus /\ s.ok = otp.ok
  <2>1. s \in StackType /\ IsList(s) /\ s.listed = otp.listed \ {o}
    BY RemoveOwlType, RemoveOwlList
  <2>2. /\ s.flags = otp.flags /\ s.base = otp.base /\ s.focus = otp.focus
        /\ s.ok = otp.ok
    BY DEF RemoveOwl, StackType
  <2> HIDE DEF s
  <2>3. QED
    BY <2>1, <2>2
<1>5. \A x \in Owl : /\ s.under[x] = IF x = o THEN {} ELSE otp.under[x] \ {o}
                     /\ Pri(s, x) = Pri(otp, x)
  <2>1. \A x \in Owl : s.under[x] = IF x = o THEN {} ELSE otp.under[x] \ {o}
    BY DEF RemoveOwl
  <2>2. \A x \in Owl : Pri(s, x) = Pri(otp, x)
    BY <1>4, PriSame DEF Orderly
  <2>3. QED
    BY <2>1, <2>2
<1> HIDE DEF s
<1>6. Sorted(s) /\ Clear(s) /\ Apart(otp, s, {o})
  <2>1. \A x \in s.listed : /\ s.under[x] \subseteq s.listed
                            /\ s.under[x] \subseteq otp.under[x]
                            /\ Pri(s, x) = Pri(otp, x)
    <3>1. ASSUME NEW x \in s.listed
          PROVE  /\ s.under[x] \subseteq s.listed
                 /\ s.under[x] \subseteq otp.under[x]
                 /\ Pri(s, x) = Pri(otp, x)
      <4>1. x \in Owl
        BY <1>4 DEF StackType
      <4>2. s.under[x] \subseteq s.listed
        BY <1>4, <4>1 DEF IsList
      <4>3. QED
        BY <1>5, <4>1, <4>2
    <3>2. QED
      BY <3>1
  <2>2. s.listed \subseteq otp.listed
    BY <1>4
  <2>3. Sorted(s)
    BY <2>1, <2>2, SortedSame
  <2>4. Apart(otp, s, {o})
    BY <1>4, <1>5 DEF Apart
  <2>5. QED
    BY <1>4, <2>3, <2>4 DEF Clear
<1>7. ASSUME NEW low, BottomPart(s, low), NEW x \in s.listed,
             Pri(otp, x) = Pri(otp, o), low = s.under[x] \/ low = s.under[x] \cup {x},
             NEW follow \in SUBSET low, \A y \in follow : isTransientOf(y, o)
      PROVE  LET r == Checked(PutAsserted(s, o, low, follow, follow \cup {o}))
             IN  Calm(r) /\ Apart(otp, r, Party(o))
  <2>0. x \in Owl /\ s.listed \subseteq Owl /\ Pri(s, o) = Pri(s, x) /\ Pri(s, x) \in Int
    <3>1. x \in Owl /\ s.listed \subseteq Owl
      BY <1>4 DEF StackType
    <3>2. Pri(s, o) = Pri(s, x)
      BY <1>5, <1>7, <3>1
    <3>3. Pri(s, x) \in 0 .. OTP_MAX
      BY <1>4, <3>1, PriType
    <3>4. QED
      BY <3>1, <3>2, <3>3 DEF OTP_MAX, OTP_ZERO
  <2>1. \A y \in low : Pri(s, y) <= Pri(s, o)
    BY <1>6, <1>7, <2>0 DEF Sorted
  <2>2. \A y \in s.listed \ low : Pri(s, o) <= Pri(s, y)
    <3>1. \A y \in s.listed \ low : y = x \/ x \in s.under[y]
      BY <1>4, <1>7 DEF IsList
    <3>2. QED
      BY <1>6, <2>0, <3>1 DEF Sorted
  <2> DEFINE put == follow \cup {o}
             r == PutAsserted(s, o, low, follow, put)
  <2>3. Linked(s, r, o)
    BY <1>4, <1>7, PutAssertedList
  <2>4. put \in SUBSET ({o} \cup follow)
    OBVIOUS
  <2> HIDE DEF put
  <2>5. PutInOrder(s, r, o, low, follow)
    BY <1>4, <1>6, <1>7, <2>1, <2>2, <2>4, PutSorted
  <2> HIDE DEF r
  <2>6. Calm(r)
    BY <1>4, <2>3, <2>5 DEF Calm, Linked, PutInOrder
  <2>7. Apart(otp, r, Party(o))
    <3>1. {o} \cup follow \subseteq Party(o)
      BY <1>7 DEF Party, isTransientOf
    <3>2. QED
      BY <1>6, <2>5, <3>1 DEF PutInOrder, Apart
  <2>8. QED
    BY <2>6, <2>7, CheckedCalm DEF r, put
<1>8. CASE TinyRaise(o)
  <2>1. PICK x \in RunAbove(otp, o, Layer(otp, o)) :
          otp' = Checked(RaiseOver(s, o, (otp.under[x] \ {o}) \cup {x}))
    BY <1>8 DEF TinyRaise, s
  <2>2. /\ x \in otp.listed /\ o \in otp.under[x] /\ x \in Owl
        /\ Pri(otp, x) = Pri(otp, o)
    BY DEF RunAbove, Layer, Over, StackType
  <2>3. x # o
    BY <2>2, ListOrder
  <2>4. BottomPart(s, s.under[x] \cup {x}) /\ x \in s.listed
    BY <1>4, <2>2, <2>3, ListOrder
  <2>5. s.under[x] \cup {x} = (otp.under[x] \ {o}) \cup {x}
    BY <1>5, <2>2, <2>3
  <2> DEFINE low == s.under[x] \cup {x}
             follow == {y \in low : shouldStayAbove(s, y, o)}
  <2>6. RaiseOver(s, o, low) = PutAsserted(s, o, low, follow, follow \cup {o})
    BY DEF RaiseOver
  <2>7. follow \in SUBSET low /\ \A y \in follow : isTransientOf(y, o)
    BY DEF shouldStayAbove
  <2>8. Calm(otp') /\ Apart(otp, otp', Party(o))
    <3> HIDE DEF follow
    <3>1. QED
      BY <1>7, <2>1, <2>2, <2>4, <2>5, <2>6, <2>7
  <2>9. QED
    BY <1>1, <1>8, <2>8, OneOwl, NoFocusJob DEF TinyRaise, KeepsOrder
<1>9. CASE TinyLower(o)
  <2>1. PICK x \in RunBelow(otp, o, Layer(otp, o)) :
          otp' = Checked(InsertOwlAbove(s, o, otp.under[x]))
    BY <1>9 DEF TinyLower, s
  <2>2. x \in otp.under[o]
    BY DEF RunBelow
  <2>3. /\ x \in otp.listed /\ x # o /\ o \notin otp.under[x] /\ x \in Owl
    BY <2>2, ListOrder DEF StackType, IsList
  <2>4. Pri(otp, x) = Pri(otp, o)
    BY <2>2 DEF RunBelow, Layer
  <2>5. BottomPart(s, s.under[x]) /\ x \in s.listed /\ s.under[x] = otp.under[x]
    BY <1>4, <1>5, <2>3, ListOrder
  <2>6. InsertOwlAbove(s, o, s.under[x]) = PutAsserted(s, o, s.under[x], {}, {} \cup {o})
    <3>1. {} \cup {o} = {o}
      OBVIOUS
    <3>2. QED
      BY <3>1 DEF InsertOwlAbove
  <2>7. {} \in SUBSET s.under[x] /\ \A y \in {} : isTransientOf(y, o)
    OBVIOUS
  <2>8. Calm(otp') /\ Apart(otp, otp', Party(o))
    BY <1>7, <2>1, <2>4, <2>5, <2>6, <2>7
  <2>9. QED
    BY <1>1, <1>9, <2>8, OneOwl, NoFocusJob DEF TinyLower, KeepsOrder
<1>10. QED
  BY <1>2, <1>3, <1>8, <1>9


\* Setting, changing and switching priorities only start a walk.
LEMMA PriorityStepCalm ==
  ASSUME Orderly, CalmInv, NEW o \in Owl
  PROVE  /\ \A n, where : SetPriority(o, n, where) => KeepsOrder
         /\ \A n : ChangePriority(o, n) => KeepsOrder
         /\ SwitchPriority(o) => KeepsOrder
         /\ ToggleSwitching(o) => KeepsOrder
<1> Calm(otp) /\ Checked(otp) = otp
  BY CheckedCalm DEF CalmInv
<1>0. otp' = otp => Calm(otp') /\ OneClient
  BY DEF OneClient
<1>1. ASSUME NEW n, NEW where, SetPriority(o, n, where)
      PROVE  KeepsOrder
  <2>1. otp' = otp /\ job = Idle
    BY <1>1 DEF SetPriority, Ready
  <2>2. job' = Idle \/ job'.kind = "walk"
    BY <1>1, <2>1, StartWalkKind DEF SetPriority
  <2>3. QED
    BY <1>0, <2>1, <2>2, NoFocusJob DEF KeepsOrder
<1>2. ASSUME NEW n, ChangePriority(o, n) PROVE KeepsOrder
  BY <1>0, <1>2, StartWalkKind, NoFocusJob DEF ChangePriority, KeepsOrder
<1>3. ASSUME SwitchPriority(o) PROVE KeepsOrder
  BY <1>0, <1>3, StartWalkKind, NoFocusJob DEF SwitchPriority, KeepsOrder
<1>4. ASSUME ToggleSwitching(o) PROVE KeepsOrder
  BY <1>0, <1>4, NoFocusJob DEF ToggleSwitching, Ready, KeepsOrder
<1>5. QED
  BY <1>1, <1>2, <1>3, <1>4

\* A new name keeps order, of the window and of its icon.
LEMMA RecomputePrefsCalm ==
  ASSUME Orderly, CalmInv, NEW w \in Win, NEW pr \in Preferences,
         NEW ipr \in Preferences, RecomputePrefs(w, pr, ipr)
  PROVE  KeepsOrder
<1> Calm(otp) /\ Whole(otp) /\ otp \in StackType /\ IsList(otp)
  BY DEF CalmInv, StackInv, Whole
<1>1. PICK i \in IconOf(otp, w) :
        LET r == RecomputeOwlPrefs(otp, w, pr)
            q == IF i = None THEN r ELSE RecomputeOwlPrefs(r, i, ipr)
        IN  otp' = Checked(q)
  BY DEF RecomputePrefs
<1> DEFINE r == RecomputeOwlPrefs(otp, w, pr)
           q == IF i = None THEN r ELSE RecomputeOwlPrefs(r, i, ipr)
           C == Companions(w)
<1>2. w \in otp.listed /\ job' = Idle /\ w \in Owl
  BY DEF RecomputePrefs, Ready, Whole, Members, Owl
<1>3. Reordered(otp, r) /\ Calm(r) /\ Apart(otp, r, Party(w))
  BY <1>2, RecomputeList, RecomputeCalm
<1> HIDE DEF r
<1>4. i # None => i \in r.listed /\ i \in Owl /\ TwmWinOf(i) = w
  BY <1>3, IconOfType, OwlAssumption DEF Reordered, TwmWinOf, Owl
<1>5. Party(w) \subseteq C /\ (i # None => Party(i) \subseteq C)
  <2>1. TwmWinOf(w) = w
    BY DEF TwmWinOf
  <2>2. QED
    BY <1>2, <1>4, <2>1, PartyIsCompany
<1>6. Calm(q) /\ Apart(otp, q, C)
  <2>1. CASE i = None
    BY <1>3, <1>5, <2>1 DEF Apart
  <2>2. CASE i # None
    <3>1. Calm(q) /\ Apart(r, q, Party(i))
      BY <1>3, <1>4, <2>2, RecomputeCalm
    <3> HIDE DEF q
    <3>2. QED
      BY <1>3, <1>5, <2>2, <3>1, ApartTwice
  <2>3. QED
    BY <2>1, <2>2
<1> HIDE DEF q
<1>7. otp' = Checked(q)
  BY <1>1 DEF r, q
<1>8. QED
  BY <1>2, <1>6, <1>7, CheckedCalm, NoFocusJob DEF KeepsOrder, OneClient

\* What a new owl is given changes no other priority.
LEMMA NewOwlCalm ==
  ASSUME Orderly, NEW s, Calm(s), NEW o \in Owl \ s.listed, NEW x \in Win \cup {None},
         NEW pr \in Preferences, NEW got \in (SUBSET Aflag) \cup {None},
         NEW state \in SUBSET Aflag,
         "FULLSCREEN" \in NewFlags(s, x, got, state) => o \in Win /\ MayBeFullscreen(o)
  PROVE  /\ Calm(NewOwl(s, o, x, pr, got, state))
         /\ NewOwl(s, o, x, pr, got, state).listed = s.listed
         /\ \A C : Apart(s, NewOwl(s, o, x, pr, got, state), C)
<1> DEFINE r == NewOwl(s, o, x, pr, got, state)
<1>1. s \in StackType /\ r \in StackType
  BY NewOwlType DEF Calm
<1>2. /\ r.listed = s.listed /\ r.under = s.under /\ r.ok = s.ok /\ r.focus = s.focus
      /\ \A y \in Owl \ {o} : r.base[y] = s.base[y] /\ r.flags[y] = s.flags[y]
      /\ r.flags[o] = NewFlags(s, x, got, state)
  BY <1>1 DEF NewOwl, StackType
<1> HIDE DEF r
<1>3. Clear(r)
  BY <1>2 DEF Calm, Clear
<1>4. \A y \in s.listed : Pri(r, y) = Pri(s, y)
  <2>1. ASSUME NEW y \in s.listed PROVE Pri(r, y) = Pri(s, y)
    <3>1. y \in Owl \ {o}
      BY <1>1 DEF StackType
    <3>2. QED
      BY <1>2, <3>1, PriSame DEF Calm, Orderly
  <2>2. QED
    BY <2>1
<1>5. Calm(r) /\ \A C : Apart(s, r, C)
  BY <1>1, <1>2, <1>3, <1>4, OthersCalm
<1>6. QED
  BY <1>2, <1>5 DEF r

\* A new window is FULLSCREEN only as the member of a group whose leader is.
LEMMA NewFullscreen ==
  ASSUME Orderly, NEW s \in StackType, Clear(s), NEW w \in Win, NEW x \in Parents(s, w),
         NEW got, NEW state, "FULLSCREEN" \notin state,
         "FULLSCREEN" \in NewFlags(s, x, got, state)
  PROVE  MayBeFullscreen(w)
<1>1. x # None /\ "FULLSCREEN" \in s.flags[x]
  BY DEF NewFlags
<1>2. x \in Win /\ (isTransientOf(w, x) \/ isGroupLeaderOf(x, w))
  BY <1>1 DEF Parents, StackType
<1>3. MayBeFullscreen(x)
  BY <1>1, <1>2 DEF Clear, Owl
<1>4. ~isTransientOf(w, x)
  BY <1>2, <1>3 DEF Orderly, FullscreenIsAlone, isTransientOf
<1>5. \A l : ~isGroupLeaderOf(l, x)
  BY <1>2, <1>4 DEF isGroupLeaderOf
<1>6. QED
  BY <1>2, <1>3, <1>4, <1>5 DEF MayBeFullscreen

\* Coming.
LEMMA AddStepCalm ==
  ASSUME Orderly, CalmInv, NEW pr \in Preferences
  PROVE  /\ \A w \in Win : AddWindow(w, pr) => KeepsOrder
         /\ \A i \in Icon : AddIcon(i, pr) => KeepsOrder
<1> Calm(otp) /\ Whole(otp) /\ otp \in StackType /\ TypeOK /\ Clear(otp)
  BY DEF CalmInv, StackInv, Whole, Calm
<1>1. ASSUME NEW w \in Win, AddWindow(w, pr) PROVE KeepsOrder
  <2>1. PICK x \in Parents(otp, w), sm \in Sizes(otp, w),
             state \in (SUBSET ClientFlags) \cup {ewmh[w] \cap {"ABOVE", "BELOW"}} :
          LET s == NewOwl([otp EXCEPT !.small = sm], w, x, pr, stash[w], state)
              r == Checked(InsertOwl(s, w, "Above"))
          IN  otp' = [r EXCEPT !.managed = otp.managed \cup {w}]
    BY <1>1 DEF AddWindow
  <2> DEFINE o == [otp EXCEPT !.small = sm]
             s == NewOwl(o, w, x, pr, stash[w], state)
             r == InsertOwl(s, w, "Above")
             C == Party(w)
  <2>2. x \in Win \cup {None} /\ w \in Owl /\ x \in Parents(o, w)
    BY OwlAssumption DEF Parents, StackType, Owl
  <2>3. /\ state \in SUBSET Aflag /\ stash[w] \in (SUBSET Aflag) \cup {None}
        /\ "FULLSCREEN" \notin state
    BY ConfigAssumption DEF TypeOK, Aflag
  <2>4. Calm(o) /\ o.listed = otp.listed /\ Apart(otp, o, C)
    BY SizesType, SmallCalm
  <2>5. w \notin otp.listed /\ job' = Idle
    BY <1>1 DEF AddWindow, Whole, Members, Ready
  <2> HIDE DEF o, C
  <2>6. "FULLSCREEN" \in NewFlags(o, x, stash[w], state) => MayBeFullscreen(w)
    BY <2>2, <2>3, <2>4, NewFullscreen DEF Calm
  <2>7. Calm(s) /\ s.listed = o.listed /\ Apart(o, s, C)
    <3> DEFINE got == stash[w]
               flags == NewFlags(o, x, got, state)
    <3>1. got \in (SUBSET Aflag) \cup {None} /\ w \in Owl \ o.listed
      BY <2>2, <2>3, <2>4, <2>5
    <3>2. "FULLSCREEN" \in flags => w \in Win /\ MayBeFullscreen(w)
      BY <2>6
    <3> HIDE DEF got
    <3>3. /\ Calm(NewOwl(o, w, x, pr, got, state))
          /\ NewOwl(o, w, x, pr, got, state).listed = o.listed
          /\ \A D : Apart(o, NewOwl(o, w, x, pr, got, state), D)
      BY <2>2, <2>3, <2>4, <3>1, <3>2, NewOwlCalm
    <3>4. QED
      BY <3>3 DEF got
  <2> HIDE DEF s
  <2>8. Calm(r) /\ Apart(s, r, C)
    BY <2>2, <2>4, <2>5, <2>7, InsertOwlCalm DEF C, Placed
  <2> HIDE DEF r
  <2> DEFINE q == [r EXCEPT !.managed = otp.managed \cup {w}]
  <2>9. otp' = q
    BY <2>1, <2>8, CheckedCalm DEF o, s, r
  <2>10. r \in StackType /\ q \in StackType
    BY <2>8 DEF Calm, StackType
  <2>11. /\ q.listed = r.listed /\ q.under = r.under /\ q.ok = r.ok
         /\ q.base = r.base /\ q.flags = r.flags /\ q.focus = r.focus
    BY <2>10 DEF StackType
  <2> HIDE DEF q
  <2>12. \A y \in r.listed : Pri(q, y) = Pri(r, y)
    BY <2>8, <2>10, <2>11, PriSame DEF StackType, Calm, Orderly
  <2>13. Clear(q)
    BY <2>8, <2>11 DEF Calm, Clear
  <2>14. Calm(q) /\ Apart(r, q, C)
    BY <2>8, <2>10, <2>11, <2>12, <2>13, OthersCalm
  <2>15. Apart(otp, q, C)
    <3>1. Apart(otp, s, C)
      BY <2>4, <2>7, ApartTwice
    <3>2. Apart(otp, r, C)
      BY <2>8, <3>1, ApartTwice
    <3>3. QED
      BY <2>14, <3>2, ApartTwice
  <2>16. QED
    BY <2>2, <2>5, <2>9, <2>14, <2>15, OneOwl, NoFocusJob DEF KeepsOrder, C
<1>2. ASSUME NEW i \in Icon, AddIcon(i, pr) PROVE KeepsOrder
  <2> DEFINE s == NewOwl(otp, i, None, pr, None, ewmh[WinOf[i]])
             r == InsertOwl(s, i, "Above")
  <2>1. i \in Owl /\ ewmh[WinOf[i]] \in SUBSET Aflag
    BY HintAssumption DEF TypeOK, Owl
  <2>2. i \notin otp.listed /\ job' = Idle
    BY <1>2 DEF AddIcon, Ready
  <2>3. "FULLSCREEN" \notin NewFlags(otp, None, None, ewmh[WinOf[i]])
    BY DEF NewFlags
  <2>4. Calm(s) /\ s.listed = otp.listed /\ Apart(otp, s, Party(i))
    <3> DEFINE state == ewmh[WinOf[i]]
    <3>1. state \in SUBSET Aflag /\ i \in Owl \ otp.listed
      BY <2>1, <2>2
    <3>2. "FULLSCREEN" \in NewFlags(otp, None, None, state) =>
            i \in Win /\ MayBeFullscreen(i)
      BY <2>3
    <3> HIDE DEF state
    <3>3. /\ Calm(NewOwl(otp, i, None, pr, None, state))
          /\ NewOwl(otp, i, None, pr, None, state).listed = otp.listed
          /\ \A D : Apart(otp, NewOwl(otp, i, None, pr, None, state), D)
      BY <3>1, <3>2, NewOwlCalm
    <3>4. QED
      BY <3>3 DEF state
  <2> HIDE DEF s
  <2>5. Calm(r) /\ Apart(s, r, Party(i))
    BY <2>1, <2>2, <2>4, InsertOwlCalm DEF Placed
  <2>6. otp' = r
    BY <1>2, <2>5, CheckedCalm DEF AddIcon, s
  <2> HIDE DEF r
  <2>7. Apart(otp, otp', Party(i))
    BY <2>4, <2>5, <2>6, ApartTwice
  <2>8. QED
    BY <2>1, <2>2, <2>5, <2>6, <2>7, OneOwl, NoFocusJob DEF KeepsOrder
<1>3. QED
  BY <1>1, <1>2

\* Going.
LEMMA RemoveStepCalm ==
  ASSUME Orderly, CalmInv
  PROVE  /\ \A i \in Icon : FreeIcon(i) => KeepsOrder
         /\ \A w \in Win, withdrawn \in BOOLEAN :
              RemoveWindow(w, withdrawn) => KeepsOrder
         /\ Restart => /\ Calm(otp') /\ JobFocus'
                       /\ otp' = [EmptyStack EXCEPT !.small = otp.small]
<1> Calm(otp) /\ Whole(otp) /\ otp \in StackType /\ IsList(otp)
  BY DEF CalmInv, StackInv, Whole
<1>1. ASSUME NEW i \in Icon, FreeIcon(i) PROVE KeepsOrder
  <2>1. otp' = OtpRemove(otp, i) /\ job' = Idle /\ i \in Owl
    BY <1>1 DEF FreeIcon, Ready, Owl
  <2>2. Calm(otp') /\ Apart(otp, otp', {i})
    BY <2>1, OtpRemoveCalm
  <2>3. Apart(otp, otp', Party(i))
    BY <2>2 DEF Apart, Party
  <2>4. QED
    BY <2>1, <2>2, <2>3, OneOwl, NoFocusJob DEF KeepsOrder
<1>2. ASSUME NEW w \in Win, NEW withdrawn \in BOOLEAN, RemoveWindow(w, withdrawn)
      PROVE  KeepsOrder
  <2>1. PICK i \in IconOf(otp, w) :
          LET s == IF i = None THEN otp ELSE OtpRemove(otp, i)
              r == OtpRemove(s, w)
          IN  otp' = [r EXCEPT !.focus = IF @ = w THEN None ELSE @,
                               !.managed = @ \ {w}, !.small = @ \ {w}]
    BY <1>2 DEF RemoveWindow
  <2> DEFINE s == IF i = None THEN otp ELSE OtpRemove(otp, i)
             r == OtpRemove(s, w)
             q == [r EXCEPT !.focus = IF @ = w THEN None ELSE @,
                            !.managed = @ \ {w}, !.small = @ \ {w}]
             C == Companions(w)
  <2>2. w \in C /\ (i # None => i \in Icon /\ i \in C)
    BY IconOfType DEF Companions
  <2>3. Calm(s) /\ Apart(otp, s, C)
    <3>1. CASE i = None
      BY <3>1, ApartSelf
    <3>2. CASE i # None
      <4>1. Calm(s) /\ Apart(otp, s, {i})
        BY <2>2, <3>2, OtpRemoveCalm DEF Owl
      <4>2. QED
        BY <2>2, <3>2, <4>1 DEF Apart
    <3>3. QED
      BY <3>1, <3>2
  <2> HIDE DEF s, C
  <2>4. w \in Owl /\ s \in StackType /\ IsList(s)
    BY <2>3 DEF Calm, Owl
  <2>5. Calm(r) /\ r.listed = s.listed \ {w} /\ Apart(s, r, {w})
    BY <2>3, <2>4, OtpRemoveCalm, OtpRemoveList
  <2>6. otp' = q
    BY <2>1 DEF s
  <2> HIDE DEF r
  <2>7. r \in StackType /\ q \in StackType
    BY <2>5 DEF Calm, StackType
  <2>8. /\ q.listed = r.listed /\ q.under = r.under /\ q.ok = r.ok
        /\ q.base = r.base /\ q.flags = r.flags
        /\ q.focus = IF r.focus = w THEN None ELSE r.focus
    BY <2>7 DEF StackType
  <2> HIDE DEF q
  <2>9. \A y \in r.listed : Pri(q, y) = Pri(r, y)
    <3>1. ASSUME NEW y \in r.listed PROVE Pri(q, y) = Pri(r, y)
      <4>1. y \in Owl /\ y # w /\ y # None
        BY <2>5, <2>7, OwlAssumption DEF StackType, Owl
      <4>2. r.focus = q.focus \/ (y # r.focus /\ y # q.focus)
        BY <2>8, <4>1
      <4>3. QED
        BY <2>5, <2>8, <4>1, <4>2, PriSame DEF Calm, Orderly
    <3>2. QED
      BY <3>1
  <2>10. Clear(q)
    BY <2>5, <2>8 DEF Calm, Clear
  <2>11. Calm(q) /\ Apart(r, q, C)
    BY <2>5, <2>7, <2>8, <2>9, <2>10, OthersCalm
  <2>12. Apart(otp, q, C)
    <3>1. Apart(otp, r, C)
      BY <2>2, <2>3, <2>5, ApartTwice
    <3>2. QED
      BY <2>11, <3>1, ApartTwice
  <2>13. job' = Idle
    BY <1>2 DEF RemoveWindow, Ready
  <2>14. QED
    BY <2>6, <2>11, <2>12, <2>13, NoFocusJob DEF KeepsOrder, OneClient, C
<1>3. ASSUME Restart
      PROVE  /\ Calm(otp') /\ JobFocus'
             /\ otp' = [EmptyStack EXCEPT !.small = otp.small]
  <2>1. otp' = [EmptyStack EXCEPT !.small = otp.small] /\ job' = Idle
    BY <1>3 DEF Restart, Ready
  <2>2. Calm(EmptyStack)
    BY DEF Calm, IsList, Sorted, Clear, EmptyStack, StackType, OTP_MAX, OTP_ZERO, Owl
  <2>3. otp.small \in SUBSET Win
    BY DEF StackType
  <2>4. QED
    BY <2>1, <2>2, <2>3, SmallCalm, NoFocusJob
<1>4. QED
  BY <1>1, <1>2, <1>3

\* Zooming and resizing.
LEMMA SizeStepCalm ==
  ASSUME Orderly, CalmInv, NEW w \in Win
  PROVE  /\ \A func \in Zooms : w \in Zoomable /\ FullZoom(w, func) => KeepsOrder
         /\ \A raise : Resize(w, raise) => KeepsOrder
<1> Calm(otp) /\ Whole(otp) /\ otp \in StackType /\ IsList(otp) /\ w \in Owl
  BY DEF CalmInv, StackInv, Whole, Owl
<1>1. ASSUME NEW func \in Zooms, w \in Zoomable, FullZoom(w, func) PROVE KeepsOrder
  <2> DEFINE s == IF zoomed[w] = func THEN Unzoomed(otp, w) ELSE Zoomed(otp, w, func)
  <2>1. w \in otp.listed /\ job = Idle
    BY <1>1 DEF FullZoom, Ready, Whole, Members
  <2>2. Reordered(otp, s) /\ Calm(s) /\ Apart(otp, s, Party(w))
    BY <1>1, <2>1, ZoomList, ZoomCalm
  <2>3. PICK sm \in Sizes(otp, w) :
          IF RaiseOnResize /\ func # "fullscreen"
          THEN Move(s, w, "Above", sm)
          ELSE otp' = [s EXCEPT !.small = sm] /\ UNCHANGED job
    BY <1>1 DEF FullZoom
  <2> HIDE DEF s
  <2>4. w \in s.listed /\ sm \in SUBSET Win
    BY <2>1, <2>2, SizesType DEF Reordered
  <2>5. Calm(otp') /\ JobFocus' /\ Apart(s, otp', Party(w))
    <3>1. CASE RaiseOnResize /\ func # "fullscreen"
      BY <2>2, <2>3, <2>4, <3>1, MoveCalm
    <3>2. CASE ~(RaiseOnResize /\ func # "fullscreen")
      <4>1. otp' = [s EXCEPT !.small = sm] /\ job' = Idle
        BY <2>1, <2>3, <3>2
      <4>2. Calm(otp') /\ Apart(s, otp', Party(w))
        BY <2>2, <2>4, <4>1, SmallCalm
      <4>3. QED
        BY <4>1, <4>2, NoFocusJob
    <3>3. QED
      BY <3>1, <3>2
  <2>6. Apart(otp, otp', Party(w))
    BY <2>2, <2>5, ApartTwice
  <2>7. QED
    BY <2>5, <2>6, OneOwl DEF KeepsOrder
<1>2. ASSUME NEW raise, Resize(w, raise) PROVE KeepsOrder
  <2> DEFINE u == Unzoomed(otp, w)
  <2>1. w \in otp.listed /\ job = Idle
    BY <1>2 DEF Resize, Ready, Whole, Members
  <2>2. Reordered(otp, u) /\ Calm(u) /\ Apart(otp, u, Party(w))
    BY <2>1, ZoomList, ZoomCalm
  <2>3. PICK sm \in Sizes(otp, w) :
          LET s == [u EXCEPT !.small = sm]
          IN  IF raise /\ RaiseOnResize THEN Move(s, w, "Above", sm)
                                        ELSE otp' = s /\ UNCHANGED job
    BY <1>2 DEF Resize
  <2> DEFINE s == [u EXCEPT !.small = sm]
  <2> HIDE DEF u
  <2>4. Calm(s) /\ s.listed = u.listed /\ sm \in SUBSET Win /\ Apart(u, s, Party(w))
    BY <2>2, SizesType, SmallCalm
  <2>5. IF raise /\ RaiseOnResize THEN Move(s, w, "Above", sm)
                                  ELSE otp' = s /\ UNCHANGED job
    BY <2>3
  <2> HIDE DEF s
  <2>6. w \in s.listed
    BY <2>1, <2>2, <2>4 DEF Reordered
  <2>7. Calm(otp') /\ JobFocus' /\ Apart(s, otp', Party(w))
    <3>1. CASE raise /\ RaiseOnResize
      BY <2>4, <2>5, <2>6, <3>1, MoveCalm
    <3>2. CASE ~(raise /\ RaiseOnResize)
      BY <2>1, <2>4, <2>5, <3>2, NoFocusJob, ApartSelf
    <3>3. QED
      BY <3>1, <3>2
  <2>8. Apart(otp, otp', Party(w))
    <3>1. Apart(otp, s, Party(w))
      BY <2>2, <2>4, ApartTwice
    <3>2. QED
      BY <2>7, <3>1, ApartTwice
  <2>9. QED
    BY <2>7, <2>8, OneOwl DEF KeepsOrder
<1>3. QED
  BY <1>1, <1>2

\* A _NET_WM_STATE message keeps order: the window is restacked unless its
\* priority is the same as before.
LEMMA NetWmStateCalm ==
  ASSUME Orderly, CalmInv, NEW w \in Win, NEW flag \in ClientFlags, NEW on,
         NetWmState(w, flag, on)
  PROVE  KeepsOrder
<1> DEFINE flags == IF on THEN otp.flags[w] \cup {flag} ELSE otp.flags[w] \ {flag}
           s == SetFlags(otp, w, flags)
           r == IF Pri(s, w) # Pri(otp, w) THEN OtpRestackWindow(s, w) ELSE s
<1>1. Calm(otp) /\ Whole(otp) /\ otp \in StackType /\ w \in Owl
  BY DEF CalmInv, StackInv, Whole, Owl
<1>2. w \in otp.listed /\ job' = Idle /\ otp' = r
  BY <1>1 DEF NetWmState, Ready, Whole, Members
<1>3. flags \in SUBSET Aflag
  BY <1>1, ConfigAssumption DEF StackType, Aflag, Owl
<1>4. "FULLSCREEN" \in flags => MayBeFullscreen(w)
  BY <1>1, ConfigAssumption DEF Calm, Clear
<1> HIDE DEF flags
<1>5. Calm(r) /\ Apart(otp, r, Party(w))
  BY <1>1, <1>2, <1>3, <1>4, NewFlagsCalm
<1>6. QED
  BY <1>1, <1>2, <1>5, NoFocusJob, OneOwl DEF KeepsOrder

\* A change of focus keeps order.
LEMMA SetFocusCalm ==
  ASSUME Orderly, CalmInv, NEW w \in Win \cup {None}, SetFocus(w)
  PROVE  KeepsOrder
<1>1. /\ Calm(otp) /\ Whole(otp) /\ otp \in StackType /\ Clear(otp)
      /\ w \in otp.listed \cup {None} /\ None \notin Owl /\ w # otp.focus
      /\ otp.focus \in Win \cup {None}
  BY OwlAssumption DEF CalmInv, StackInv, Whole, Members, Calm, SetFocus, Owl, StackType
<1>2. CASE otp.focus # None /\ OtpIsFocusDependent(otp, otp.focus)
  <2> DEFINE f == otp.focus
  <2>1. OtpFocusWindowBE([otp EXCEPT !.focus = None], f, TRUE, w)
    BY <1>2 DEF SetFocus
  <2>2. f \in Win /\ f \in otp.listed
    BY <1>1, <1>2 DEF Whole, Members, StackType
  <2>3. \A o \in Owl \ {f} : Pri([otp EXCEPT !.focus = None], o) = Pri(otp, o)
    BY <1>1, FocusPri
  <2>4. Calm(otp') /\ JobFocus' /\ Apart(otp, otp', Party(f))
    BY <1>1, <2>1, <2>2, <2>3, FocusBECalm
  <2>5. QED
    BY <2>2, <2>4, OneOwl DEF KeepsOrder, Owl
<1>3. CASE ~(otp.focus # None /\ OtpIsFocusDependent(otp, otp.focus))
  <2>1. FocusEnters(otp, w)
    BY <1>3 DEF SetFocus
  <2>2. otp.focus = None \/ "FULLSCREEN" \notin otp.flags[otp.focus]
    BY <1>3 DEF OtpIsFocusDependent
  <2>3. /\ Calm(otp') /\ JobFocus'
        /\ \A v \in Win : w \in {v, None} => Apart(otp, otp', Party(v))
    BY <1>1, <2>1, <2>2, FocusEntersCalm
  <2>4. \E v \in Win : w \in {v, None}
    BY <1>1
  <2>5. QED
    BY <2>3, <2>4, OneOwl DEF KeepsOrder, Owl
<1>4. QED
  BY <1>2, <1>3

\* Every step but a restart is about one client.
LEMMA CalmNext ==
  ASSUME Orderly, StackModeWins = {}, CalmInv, Next
  PROVE  KeepsOrder \/ (Restart /\ Calm(otp') /\ JobFocus')
<1>1. CASE JobStep
  BY <1>1, JobStepCalm
<1>2. CASE \E o \in Owl : \/ Raise(o) \/ Lower(o) \/ RaiseLower(o)
                          \/ TinyRaise(o) \/ TinyLower(o)
  BY <1>2, MoveStepCalm
<1>3. CASE \/ \E o \in Owl, n \in UserPriorities, where \in {"Above", "Below"} :
                SetPriority(o, n, where)
           \/ \E o \in Owl, n \in UserDeltas : ChangePriority(o, n)
           \/ \E o \in Switchable : SwitchPriority(o)
           \/ \E o \in Togglable : ToggleSwitching(o)
  BY <1>3, PriorityStepCalm, ConfigAssumption
<1>4. CASE \/ \E w \in Win, pr \in Preferences : AddWindow(w, pr)
           \/ \E i \in Icon, pr \in Preferences : AddIcon(i, pr)
  BY <1>4, AddStepCalm
<1>5. CASE \/ \E i \in Icon : FreeIcon(i)
           \/ \E w \in Win, withdrawn \in BOOLEAN : RemoveWindow(w, withdrawn)
           \/ Restart
  BY <1>5, RemoveStepCalm
<1>6. CASE \E w \in Win, pr, ipr \in Preferences : RecomputePrefs(w, pr, ipr)
  BY <1>6, RecomputePrefsCalm
<1>7. CASE \/ \E w \in Zoomable, func \in Zooms : FullZoom(w, func)
           \/ \E w \in Win, raise \in BOOLEAN : Resize(w, raise)
  BY <1>7, SizeStepCalm, ConfigAssumption
<1>8. CASE \E w \in Win, flag \in ClientFlags, on \in BOOLEAN :
             NetWmState(w, flag, on)
  BY <1>8, NetWmStateCalm
<1>9. CASE \E w \in Win \cup {None} : SetFocus(w)
  BY <1>9, SetFocusCalm
<1>10. QED
  BY <1>1, <1>2, <1>3, <1>4, <1>5, <1>6, <1>7, <1>8, <1>9 DEF Next

\* CalmInv is inductive where it should be.
LEMMA CalmStep ==
  ASSUME Orderly, StackModeWins = {}
  PROVE  CalmInv /\ [Next]_vars => CalmInv'
<1> SUFFICES ASSUME CalmInv, [Next]_vars PROVE CalmInv'
  OBVIOUS
<1>1. StackInv'
  BY StackStep DEF CalmInv
<1>2. CASE UNCHANGED vars
  BY <1>1, <1>2 DEF vars, CalmInv, JobFocus
<1>3. CASE Next
  BY <1>1, <1>3, CalmNext DEF CalmInv, KeepsOrder
<1>4. QED
  BY <1>2, <1>3

\* And holds where ctwm starts.
LEMMA CalmInit == Init => CalmInv
<1> SUFFICES ASSUME Init PROVE CalmInv
  OBVIOUS
<1>1. StackInv
  BY StackInit
<1>2. Calm(otp)
  BY <1>1 DEF Init, StackInv, Whole, Calm, Sorted, Clear, EmptyStack, Owl
<1>3. JobFocus
  BY DEF Init, JobFocus, Idle
<1>4. QED
  BY <1>1, <1>2, <1>3 DEF CalmInv

\* Where no window that may be FULLSCREEN has dialogs or is one, where dialogs
\* and their windows agree on being docks, and no client restacks next to a
\* sibling: no assertion of otp.c fails and OtpCheckConsistency never calls
\* abort(), whatever windows, dialogs and icons come and go, are raised, take the
\* focus, are zoomed or change their priorities and states.
THEOREM NeverAborts ==
  ASSUME FullscreenIsAlone, DocksAgree, StackModeWins = {}
  PROVE  Spec => []NoAbort
<1>1. Orderly
  BY DEF Orderly
<1>2. CalmInv => NoAbort
  BY DEF CalmInv, Calm, NoAbort
<1>3. QED
  BY <1>1, <1>2, CalmInit, CalmStep, PTL DEF Spec

\* There the list is in order too, between two handlers and even within one:
\* nothing is ever under an owl of a lower effective priority.
THEOREM OrderIsKept ==
  ASSUME FullscreenIsAlone, DocksAgree, StackModeWins = {}
  PROVE  Spec => [](Sorted(otp) /\ PriorityAscends)
<1>1. Orderly
  BY DEF Orderly
<1>2. CalmInv => Sorted(otp) /\ PriorityAscends
  BY DEF CalmInv, Calm, PriorityAscends
<1>3. QED
  BY <1>1, <1>2, CalmInit, CalmStep, PTL DEF Spec

(***************************************************************************)
(* The refinement.                                                          *)
(***************************************************************************)
\* A list in order is layered.
LEMMA CalmIsLayered == CalmInv => Layers!Layered
<1> SUFFICES ASSUME CalmInv PROVE Layers!Layered
  OBVIOUS
<1> DEFINE layer == [o \in Owl |-> IF o \in otp.listed THEN Pri(otp, o) ELSE None]
<1>1. /\ otp \in StackType /\ IsList(otp) /\ Sorted(otp) /\ otp.listed \subseteq Owl
      /\ otp.under \in [Owl -> SUBSET Owl]
  BY DEF CalmInv, Calm, StackType
<1>2. \A o \in Owl : Pri(otp, o) \in 0 .. OTP_MAX /\ Pri(otp, o) # None
  <2>1. \A o \in Owl : Pri(otp, o) \in 0 .. OTP_MAX
    BY <1>1, PriType
  <2>2. QED
    BY <2>1, OwlAssumption
<1>3. Layers!Shown = otp.listed
  BY <1>1, <1>2 DEF Layers!Shown
<1>4. layer \in [Owl -> (0 .. OTP_MAX) \cup {None}]
  BY <1>2
<1>5. \A x \in Owl : /\ otp.under[x] \subseteq otp.listed \ {x}
                     /\ x \notin otp.listed => otp.under[x] = {}
  BY <1>1 DEF IsList
<1>6. \A x, y \in otp.listed : x = y \/ x \in otp.under[y] \/ y \in otp.under[x]
  BY <1>1 DEF IsList
<1>7. \A x \in otp.listed : \A y \in otp.under[x] :
        otp.under[y] \subseteq otp.under[x] /\ layer[y] <= layer[x]
  <2>1. \A x \in otp.listed : \A y \in otp.under[x] :
          /\ otp.under[y] \subseteq otp.under[x] /\ Pri(otp, y) <= Pri(otp, x)
          /\ y \in otp.listed
    BY <1>1, <1>5 DEF IsList, Sorted
  <2>2. \A x \in otp.listed : layer[x] = Pri(otp, x)
    BY <1>1
  <2>3. QED
    BY <2>1, <2>2
<1> HIDE DEF layer
<1>8. /\ layer \in [Owl -> (0 .. OTP_MAX) \cup {None}]
      /\ otp.under \in [Owl -> SUBSET Owl]
      /\ \A x \in Owl : otp.under[x] \subseteq otp.listed \ {x}
      /\ \A x \in Owl \ otp.listed : otp.under[x] = {}
      /\ \A x, y \in otp.listed : x = y \/ x \in otp.under[y] \/ y \in otp.under[x]
      /\ \A x \in otp.listed : \A y \in otp.under[x] :
           otp.under[y] \subseteq otp.under[x] /\ layer[y] <= layer[x]
  BY <1>1, <1>4, <1>5, <1>6, <1>7
<1>9. QED
  BY <1>3, <1>8 DEF Layers!Layered, layer

\* After a step too.
LEMMA CalmIsLayeredNext == CalmInv' => Layers!Layered'
  BY CalmIsLayered, PTL

\* A step about one client is an Arrange, or a stutter.
LEMMA OneClientIsArranged ==
  ASSUME otp \in StackType, CalmInv', OneClient
  PROVE  [Layers!LayersNext]_(Layers!layerVars)
<1>1. CASE otp' = otp
  BY <1>1 DEF Layers!layerVars
<1>2. CASE \E c \in Win : Apart(otp, otp', Companions(c))
  <2>1. PICK c \in Win : Apart(otp, otp', Companions(c))
    BY <1>2
  <2>2. Layers!Layered'
    BY CalmIsLayeredNext
  <2>3. Layers!Arrange(c)
    BY <2>1, <2>2 DEF Layers!Arrange, Apart
  <2>4. QED
    BY <2>3 DEF Layers!LayersNext
<1>3. QED
  BY <1>1, <1>2 DEF OneClient
\* A restart starts the layers over.
LEMMA RestartStartsOver ==
  ASSUME otp' = [EmptyStack EXCEPT !.small = otp.small]
  PROVE  Layers!StartOver
<1>1. otp'.listed = {} /\ otp'.under = [o \in Owl |-> {}]
  BY DEF EmptyStack
<1>2. QED
  BY <1>1 DEF Layers!StartOver

\* Otp implements OtpLayers: windows and icons lie in layers, a higher over a
\* lower one, and no handler that is about one window, as it is raised, zoomed,
\* given the focus or another priority, mapped or destroyed, moves any other than
\* its icon and its dialogs.
THEOREM LayersAreImplemented ==
  ASSUME FullscreenIsAlone, DocksAgree, StackModeWins = {}
  PROVE  Spec => ImplementsLayers
<1>0. Orderly
  BY DEF Orderly
<1>1. Init => Layers!LayersInit
  BY DEF Init, EmptyStack, Layers!LayersInit
<1>2. CalmInv /\ CalmInv' /\ [Next]_vars => [Layers!LayersNext]_(Layers!layerVars)
  <2> SUFFICES ASSUME CalmInv, CalmInv', [Next]_vars
               PROVE  [Layers!LayersNext]_(Layers!layerVars)
    OBVIOUS
  <2>1. CASE UNCHANGED vars
    BY <2>1 DEF vars, Layers!layerVars
  <2>2. CASE Restart
    BY <2>2, RemoveStepCalm, RestartStartsOver, <1>0 DEF Layers!LayersNext
  <2>3. CASE Next /\ ~Restart
    <3>1. OneClient
      BY <1>0, <2>3, CalmNext DEF KeepsOrder
    <3>2. QED
      BY <3>1, OneClientIsArranged DEF CalmInv, Calm
  <2>4. QED
    BY <2>1, <2>2, <2>3
<1>3. QED
  BY <1>0, <1>1, <1>2, CalmInit, CalmStep, PTL DEF Spec, ImplementsLayers, Layers!LayersSpec

(***************************************************************************)
(* How the walks over the transients of a window begin and go on.           *)
(***************************************************************************)
\* Under NoRaiseOnResize, or with no zoom but the one that never raises, a walk
\* ends with the sizes it began with.
ZoomsDoNotRaise == RaiseOnResize => Zooms \subseteq {"fullscreen"}

\* A walk has begun over the list as it is now.
Begun ==
  \E o \in otp'.listed, pri \in Int, where \in {"Above", "Below"},
     tell \in BOOLEAN, sm \in SUBSET Win :
    /\ StartWalk(otp', o, pri, where, tell, sm)
    /\ ZoomsDoNotRaise => sm = otp'.small

NoWalk == job'.kind # "walk"

\* Raising and lowering under PrioritySwitching begins one.
LEMMA MoveBegins ==
  ASSUME NEW s \in StackType, NEW o \in s.listed, NEW where \in {"Above", "Below"},
         NEW sm \in SUBSET Win, Move(s, o, where, sm), ZoomsDoNotRaise => sm = s.small
  PROVE  NoWalk \/ Begun
<1>1. CASE WillSwitch(s, o, where)
  <2>1. otp' = s /\ StartWalk(s, o, OTP_MAX - s.base[o], where, FALSE, sm)
    BY <1>1 DEF Move
  <2>2. OTP_MAX - s.base[o] \in Int
    BY DEF StackType, OTP_MAX, OTP_ZERO
  <2>3. QED
    BY <2>1, <2>2 DEF Begun
<1>2. CASE ~WillSwitch(s, o, where)
  BY <1>2 DEF Move, NoWalk, Idle
<1>3. QED
  BY <1>1, <1>2

\* Giving the focus begins none.
LEMMA FocusBeginsNone ==
  ASSUME NEW s, NEW w
  PROVE  /\ FocusEnters(s, w) => NoWalk
         /\ \A out, then : OtpFocusWindowBE(s, w, out, then) => NoWalk
<1>1. \A r, out, then : OtpFocusWindowBE(r, w, out, then) => NoWalk
  BY DEF OtpFocusWindowBE, NoWalk
<1>2. job' = Idle => NoWalk
  BY DEF Idle, NoWalk
<1>3. QED
  BY <1>1, <1>2 DEF FocusEnters

\* After any step there is no walk, or it goes on, or it has begun.
LEMMA HowWalksBegin ==
  ASSUME StackInv, Next
  PROVE  NoWalk \/ WalkStep \/ Begun
<1>0. otp \in StackType /\ Whole(otp) /\ IsList(otp) /\ otp.small \in SUBSET Win
  BY DEF StackInv, Whole, StackType
<1>a. (job' = Idle \/ (job' = job /\ job = Idle)) => NoWalk
  BY DEF Idle, NoWalk
<1>b. /\ otp.base \in [Owl -> 0 .. OTP_MAX]
      /\ otp.listed \subseteq Owl
  BY <1>0 DEF StackType
<1>1. CASE JobStep
  <2>1. CASE WalkEnd
    <3>1. WalkTurn /\ ~InLayer
      BY <2>1 DEF WalkEnd
    <3>2. job' = Idle
      BY <3>1 DEF WalkTurn
    <3>3. QED
      BY <3>2, <1>a
  <2>2. CASE FocusStep
    <3>1. job \in Shuffles
      BY <2>2 DEF FocusStep, StackInv, TypeOK, Idle, Walks
    <3>2. QED
      BY <2>2, <3>1 DEF FocusStep, Shuffles, NoWalk
  <2>3. CASE FocusEnd
    <3>1. FocusEnters(Checked(otp), job.then) \/ job' = Idle
      BY <2>3 DEF FocusEnd
    <3>2. QED
      BY <3>1, <1>a, FocusBeginsNone
  <2>4. QED
    BY <1>1, <2>1, <2>2, <2>3 DEF JobStep
<1>2. CASE \E o \in Owl : \/ Raise(o) \/ Lower(o) \/ RaiseLower(o)
                          \/ TinyRaise(o) \/ TinyLower(o)
  <2>1. ASSUME NEW o \in Owl, Raise(o) \/ Lower(o) \/ RaiseLower(o)
        PROVE  NoWalk \/ Begun
    BY <1>0, <2>1, MoveBegins DEF Raise, Lower, RaiseLower
  <2>2. ASSUME NEW o \in Owl, TinyRaise(o) \/ TinyLower(o) PROVE NoWalk
    BY <1>a, <2>2 DEF TinyRaise, TinyLower, Ready
  <2>3. QED
    BY <1>2, <2>1, <2>2
<1>3. CASE \/ \E o \in Owl, n \in UserPriorities, where \in {"Above", "Below"} :
                SetPriority(o, n, where)
           \/ \E o \in Owl, n \in UserDeltas : ChangePriority(o, n)
           \/ \E o \in Switchable : SwitchPriority(o)
           \/ \E o \in Togglable : ToggleSwitching(o)
  <2>1. ASSUME NEW o \in Owl, NEW pri \in Int, NEW where \in {"Above", "Below"},
               o \in otp.listed, otp' = otp,
               StartWalk(otp, o, pri, where, TRUE, otp.small)
        PROVE  Begun
    <3>1. o \in otp'.listed /\ StartWalk(otp', o, pri, where, TRUE, otp.small)
      BY <2>1
    <3>2. otp.small \in SUBSET Win /\ otp.small = otp'.small
      BY <1>0, <2>1
    <3> DEFINE sm == otp.small
    <3> HIDE DEF sm
    <3>3. StartWalk(otp', o, pri, where, TRUE, sm) /\ sm \in SUBSET Win /\ sm = otp'.small
      BY <3>1, <3>2 DEF sm
    <3>4. QED
      BY <3>1, <3>3 DEF Begun
  <2>2. ASSUME NEW o \in Owl, NEW n \in UserPriorities, NEW where \in {"Above", "Below"},
               SetPriority(o, n, where)
        PROVE  NoWalk \/ Begun
    <3>1. CASE n \in -OTP_ZERO .. OTP_ZERO
      <4>1. OTP_ZERO + n \in Int
        BY <3>1 DEF OTP_ZERO
      <4>2. QED
        BY <2>1, <2>2, <3>1, <4>1 DEF SetPriority
    <3>2. CASE n \notin -OTP_ZERO .. OTP_ZERO
      BY <1>a, <2>2, <3>2 DEF SetPriority, Ready
    <3>3. QED
      BY <3>1, <3>2
  <2>3. ASSUME NEW o \in Owl, NEW n \in UserDeltas, ChangePriority(o, n) PROVE Begun
    <3>1. otp.base[o] + n \in Int
      BY <1>b, ConfigAssumption DEF OTP_MAX, OTP_ZERO
    <3>2. QED
      BY <2>1, <2>3, <3>1 DEF ChangePriority
  <2>4. ASSUME NEW o \in Owl, SwitchPriority(o) PROVE Begun
    <3>1. OTP_MAX - otp.base[o] \in Int
      BY <1>b DEF OTP_MAX, OTP_ZERO
    <3>2. QED
      BY <2>1, <2>4, <3>1 DEF SwitchPriority
  <2>5. ASSUME NEW o \in Owl, ToggleSwitching(o) PROVE NoWalk
    BY <1>a, <2>5 DEF ToggleSwitching, Ready
  <2>6. QED
    BY <1>3, <2>2, <2>3, <2>4, <2>5, ConfigAssumption
<1>4. CASE \/ \E w \in StackModeWins, x \in Win, where \in {"Above", "Below"} :
                ForcePlacement(w, x, where)
           \/ \E w \in Win, pr \in Preferences : AddWindow(w, pr)
           \/ \E i \in Icon, pr \in Preferences : AddIcon(i, pr)
           \/ \E i \in Icon : FreeIcon(i)
           \/ \E w \in Win, withdrawn \in BOOLEAN : RemoveWindow(w, withdrawn)
           \/ Restart
           \/ \E w \in Win, pr, ipr \in Preferences : RecomputePrefs(w, pr, ipr)
           \/ \E w \in Win, flag \in ClientFlags, on \in BOOLEAN :
                NetWmState(w, flag, on)
  BY <1>4, <1>a DEF ForcePlacement, AddWindow, AddIcon, FreeIcon, RemoveWindow,
                    Restart, RecomputePrefs, NetWmState, Ready
<1>5. ASSUME NEW w \in Zoomable, NEW func \in Zooms, FullZoom(w, func)
      PROVE  NoWalk \/ Begun
  <2> DEFINE s == IF zoomed[w] = func THEN Unzoomed(otp, w) ELSE Zoomed(otp, w, func)
  <2>1. w \in otp.listed /\ job = Idle /\ w \in Win
    BY <1>0, <1>5, ConfigAssumption DEF FullZoom, Ready, Whole, Members
  <2>2. s \in StackType /\ w \in s.listed
    BY <1>0, <2>1, ZoomList DEF Reordered
  <2>3. PICK sm \in Sizes(otp, w) :
          IF RaiseOnResize /\ func # "fullscreen"
          THEN Move(s, w, "Above", sm)
          ELSE otp' = [s EXCEPT !.small = sm] /\ UNCHANGED job
    BY <1>5 DEF FullZoom
  <2> HIDE DEF s
  <2>4. CASE RaiseOnResize /\ func # "fullscreen"
    <3>1. sm \in SUBSET Win /\ ~ZoomsDoNotRaise
      BY <1>0, <2>1, <2>4, SizesType DEF ZoomsDoNotRaise
    <3>2. QED
      BY <2>2, <2>3, <2>4, <3>1, MoveBegins
  <2>5. CASE ~(RaiseOnResize /\ func # "fullscreen")
    BY <1>a, <2>1, <2>3, <2>5
  <2>6. QED
    BY <2>4, <2>5
<1>6. ASSUME NEW w \in Win, NEW raise \in BOOLEAN, Resize(w, raise) PROVE NoWalk \/ Begun
  <2> DEFINE u == Unzoomed(otp, w)
  <2>1. w \in otp.listed /\ job = Idle
    BY <1>0, <1>6 DEF Resize, Ready, Whole, Members
  <2>2. u \in StackType /\ w \in u.listed
    BY <1>0, <2>1, ZoomList DEF Reordered
  <2>3. PICK sm \in Sizes(otp, w) :
          LET s == [u EXCEPT !.small = sm]
          IN  IF raise /\ RaiseOnResize THEN Move(s, w, "Above", sm)
                                        ELSE otp' = s /\ UNCHANGED job
    BY <1>6 DEF Resize
  <2> DEFINE s == [u EXCEPT !.small = sm]
  <2>4. sm \in SUBSET Win
    BY <1>0, SizesType
  <2> HIDE DEF u
  <2>5. s \in StackType /\ w \in s.listed /\ s.small = sm
    BY <2>2, <2>4 DEF StackType
  <2>6. IF raise /\ RaiseOnResize THEN Move(s, w, "Above", sm)
                                  ELSE otp' = s /\ UNCHANGED job
    BY <2>3
  <2> HIDE DEF s
  <2>7. QED
    BY <1>a, <2>1, <2>4, <2>5, <2>6, MoveBegins
<1>7. CASE \E w \in Win \cup {None} : SetFocus(w)
  BY <1>7, FocusBeginsNone DEF SetFocus
<1>8. QED
  BY <1>1, <1>2, <1>3, <1>4, <1>5, <1>6, <1>7 DEF Next


(***************************************************************************)
(* Where a move ends.                                                       *)
(***************************************************************************)
\* A walk under way leaves the sizes it was begun with.
JobSmall == job.kind = "walk" => job.small = otp.small

\* What a step of a walk does to the list.
LEMMA WalkStepMoves ==
  ASSUME Orderly, CalmInv, WalkStep
  PROVE  /\ job \in Walks /\ job.owl \in otp.listed /\ job.next \in otp.listed
         /\ Pri(otp, job.next) = Pri(otp, job.owl)
         /\ \E up \in NextUp(otp, job.next) : job' = [job EXCEPT !.next = up]
         /\ otp'.small = otp.small
<1>1. /\ job.kind = "walk" /\ InLayer
      /\ \E up \in NextUp(otp, job.next) : job' = [job EXCEPT !.next = up]
  BY DEF WalkStep, WalkTurn
<1>2. /\ job \in Walks /\ job.owl \in otp.listed /\ job.next \in otp.listed
      /\ Pri(otp, job.next) = Pri(otp, job.owl)
  BY <1>1 DEF CalmInv, StackInv, JobInList, TypeOK, Idle, Shuffles, InLayer
<1>3. CASE isTransientOf(job.next, job.owl)
  <2> DEFINE n == job.next
             w == job.owl
             pri == job.pri
             where == job.where
  <2>1. otp' = SetOwlPriority([otp EXCEPT !.flags[n] = otp.flags[w]], n, pri, where)
    BY <1>3 DEF WalkStep
  <2>2. n \in otp.listed /\ isTransientOf(n, w) /\ pri \in Int /\ where \in {"Above", "Below"}
    BY <1>2, <1>3 DEF Walks
  <2> HIDE DEF n, w, pri, where
  <2> DEFINE q == [[otp EXCEPT !.flags[n] = otp.flags[w]] EXCEPT !.base[n] = Clamp(pri)]
  <2>3. Placed(q, otp', n, where)
    BY <2>1, <2>2, WalkMoveCalm DEF CalmInv
  <2>4. q.small = otp.small
    BY DEF CalmInv, Calm, StackType
  <2>5. otp'.small = otp.small
    BY <2>3, <2>4 DEF Placed
  <2>6. QED
    BY <1>1, <1>2, <2>5
<1>4. CASE ~isTransientOf(job.next, job.owl)
  BY <1>1, <1>2, <1>4 DEF WalkStep
<1>5. QED
  BY <1>3, <1>4

\* The sizes do not change under a walk.
LEMMA JobSmallStep ==
  ASSUME Orderly, ZoomsDoNotRaise
  PROVE  CalmInv /\ JobSmall /\ [Next]_vars => JobSmall'
<1> SUFFICES ASSUME CalmInv, JobSmall, [Next]_vars PROVE JobSmall'
  OBVIOUS
<1>1. CASE UNCHANGED vars
  BY <1>1 DEF vars, JobSmall
<1>2. CASE NoWalk
  BY <1>2 DEF NoWalk, JobSmall
<1>3. CASE WalkStep
  <2>1. job.kind = "walk" /\ job \in Walks /\ otp'.small = otp.small
        /\ \E up \in NextUp(otp, job.next) : job' = [job EXCEPT !.next = up]
    BY <1>3, WalkStepMoves DEF Walks
  <2>2. job'.small = job.small
    BY <2>1 DEF Walks
  <2>3. QED
    BY <2>1, <2>2 DEF JobSmall
<1>4. CASE Begun
  BY <1>4 DEF Begun, StartWalk, JobSmall
<1>5. QED
  BY <1>1, <1>2, <1>3, <1>4, HowWalksBegin DEF CalmInv

\* A raise or a lower that is no walk.
LEMMA MoveEnds ==
  ASSUME Orderly, CalmInv, NEW o \in otp.listed, NEW where \in {"Above", "Below"},
         Move(otp, o, where, otp.small), job' = Idle
  PROVE  /\ where = "Above" => AtTop(otp', o)
         /\ where = "Below" => AtBottom(otp', o)
<1>1. ~WillSwitch(otp, o, where)
  BY StartWalkKind DEF Move, StartWalk, Idle
<1> DEFINE q == Reinsert(otp, o, where)
<1>2. Placed(otp, q, o, where)
  BY ReinsertCalm DEF CalmInv, Calm
<1>3. otp' = [Checked(q) EXCEPT !.small = otp.small]
  BY <1>1 DEF Move
<1> HIDE DEF q
<1>4. Checked(q) = q /\ q \in StackType /\ q.small = otp.small
  BY <1>2, CheckedCalm DEF Placed, Calm
<1>5. otp' = q
  BY <1>3, <1>4 DEF StackType
<1>6. QED
  BY <1>2, <1>5 DEF Placed

\* The end of a walk: its owl is put in its place, and then the sizes change.
LEMMA WalkEndPlaces ==
  ASSUME Orderly, CalmInv, WalkEnd
  PROVE  /\ job \in Walks /\ job.owl \in otp.listed
         /\ \E q : /\ Placed([otp EXCEPT !.base[job.owl] = Clamp(job.pri)], q,
                             job.owl, job.where)
                  /\ q.small = otp.small
                  /\ otp' = [q EXCEPT !.small = job.small]
<1>1. job.kind = "walk"
  BY DEF WalkEnd, WalkTurn
<1>2. job \in Walks /\ job.owl \in otp.listed
  BY <1>1 DEF CalmInv, StackInv, JobInList, TypeOK, Idle, Shuffles
<1> DEFINE w == job.owl
           pri == job.pri
           where == job.where
           q == SetOwlPriority(otp, w, pri, where)
<1>3. Clamp(pri) \in 0 .. OTP_MAX /\ where \in {"Above", "Below"} /\ w \in otp.listed
  BY <1>2, ClampType DEF Walks
<1>4. otp' = [Checked(q) EXCEPT !.small = job.small]
  BY <1>1 DEF WalkEnd
<1> HIDE DEF w, where, pri
<1>5. Placed([otp EXCEPT !.base[w] = Clamp(pri)], q, w, where)
  BY <1>3, NewBaseCalm DEF CalmInv, SetOwlPriority
<1>6. [otp EXCEPT !.base[w] = Clamp(pri)].small = otp.small
  BY DEF CalmInv, Calm, StackType
<1> HIDE DEF q
<1>7. Checked(q) = q /\ q.small = otp.small
  BY <1>5, <1>6, CheckedCalm DEF Placed, Calm
<1>8. QED
  BY <1>2, <1>4, <1>5, <1>7 DEF w, pri, where

\* Where they do not, the owl is in its place when the walk ends.
LEMMA WalkEndEnds ==
  ASSUME Orderly, CalmInv, JobSmall, WalkEnd
  PROVE  /\ job \in Walks
         /\ Placed([otp EXCEPT !.base[job.owl] = Clamp(job.pri)], otp', job.owl, job.where)
<1>1. PICK q : /\ Placed([otp EXCEPT !.base[job.owl] = Clamp(job.pri)], q,
                         job.owl, job.where)
              /\ q.small = otp.small
              /\ otp' = [q EXCEPT !.small = job.small]
  BY WalkEndPlaces
<1>2. q \in StackType /\ job.small = otp.small
  BY <1>1 DEF Placed, Calm, JobSmall, WalkEnd, WalkTurn
<1>3. otp' = q
  BY <1>1, <1>2 DEF StackType
<1>4. QED
  BY <1>1, <1>3, WalkEndPlaces

\* Whatever the sizes, it has kept its order and its attributes.
LEMMA WalkEndKeeps ==
  ASSUME Orderly, CalmInv, WalkEnd
  PROVE  /\ job \in Walks /\ job.owl \in otp.listed /\ Clear(otp')
         /\ Kept([otp EXCEPT !.base[job.owl] = Clamp(job.pri)], otp', job.owl)
<1>1. PICK q : /\ Placed([otp EXCEPT !.base[job.owl] = Clamp(job.pri)], q,
                         job.owl, job.where)
              /\ otp' = [q EXCEPT !.small = job.small]
  BY WalkEndPlaces
<1>2. q \in StackType /\ Clear(q)
  BY <1>1 DEF Placed, Calm
<1>3. otp'.base = q.base /\ otp'.flags = q.flags
  BY <1>1, <1>2 DEF StackType
<1>4. QED
  BY <1>1, <1>2, <1>3, WalkEndPlaces DEF Placed, Kept, Clear

\* A raise ends with nothing of the layer of the owl over it but its own small
\* transients, a lower with nothing of its layer under it, with or without a
\* walk over its transients first, where no zoom changes sizes behind the walk.
THEOREM MovesEndWhereTheyShould ==
  ASSUME FullscreenIsAlone, DocksAgree, StackModeWins = {}, ZoomsDoNotRaise
  PROVE  Spec => MovesReachTheirEnd
<1>0. Orderly
  BY DEF Orderly
<1> DEFINE A == /\ \A o \in Owl : /\ Raise(o) /\ job' = Idle => AtTop(otp', o)
                                  /\ Lower(o) /\ job' = Idle => AtBottom(otp', o)
                /\ WalkEnd => IF job.where = "Above" THEN AtTop(otp', job.owl)
                                                     ELSE AtBottom(otp', job.owl)
<1>1. CalmInv /\ JobSmall => A
  <2> SUFFICES ASSUME CalmInv, JobSmall PROVE A
    OBVIOUS
  <2>1. ASSUME NEW o \in Owl
        PROVE  /\ Raise(o) /\ job' = Idle => AtTop(otp', o)
               /\ Lower(o) /\ job' = Idle => AtBottom(otp', o)
    BY <1>0, MoveEnds DEF Raise, Lower
  <2>2. ASSUME WalkEnd
        PROVE  IF job.where = "Above" THEN AtTop(otp', job.owl)
                                      ELSE AtBottom(otp', job.owl)
    BY <1>0, <2>2, WalkEndEnds DEF Placed, Walks
  <2>3. QED
    BY <2>1, <2>2
<1>2. Init => JobSmall
  BY DEF Init, JobSmall, Idle
<1>3. CalmInv /\ JobSmall /\ [Next]_vars => (CalmInv /\ JobSmall)'
  BY <1>0, CalmStep, JobSmallStep
<1>4. QED
  BY <1>0, <1>1, <1>2, <1>3, CalmInit, PTL DEF Spec, MovesReachTheirEnd


(***************************************************************************)
(* Which transients a walk moves.                                           *)
(***************************************************************************)
\* No dialog has dialogs of its own.  A walk may take the small dialogs of a
\* dialog it moves along, and with them the owl it has noted as the next: it then
\* stops before the end of the layer.
DialogsAreFlat ==
  \A t, u \in Win : isTransientOf(u, t) => TransientFor[t] \notin Win

\* The walk has given t the priority, or it is still to come to it.
MovedByWalk(t) ==
  otp.base[t] = Clamp(job.pri) /\ otp.flags[t] = otp.flags[job.owl]

AheadOfWalk(t) == job.next # None /\ (t = job.next \/ job.next \in otp.under[t])

\* A walk goes up from the bottom of the layer and passes no transient of it by.
WalkProgress ==
  job.kind = "walk" =>
    /\ job.next # None => Pri(otp, job.next) >= Pri(otp, job.owl)
    /\ \A t \in otp.listed :
         isTransientOf(t, job.owl) /\ Pri(otp, t) = Pri(otp, job.owl)
         => MovedByWalk(t) \/ AheadOfWalk(t)

\* A walk begins at the bottom of the layer.
LEMMA ProgressBegins ==
  ASSUME Calm(otp'), Begun
  PROVE  WalkProgress'
<1>1. PICK o \in otp'.listed, pri \in Int, where \in {"Above", "Below"},
           tell \in BOOLEAN, sm \in SUBSET Win :
        StartWalk(otp', o, pri, where, tell, sm)
  BY DEF Begun
<1> DEFINE rest == otp'.listed \ BelowPriority(otp', Pri(otp', o))
<1>2. PICK first \in rest :
        /\ otp'.under[first] \cap rest = {}
        /\ job' = [ kind |-> "walk", owl |-> o, pri |-> pri, where |-> where,
                    next |-> IF o \in Win THEN first ELSE None,
                    tell |-> tell, small |-> sm ]
  BY <1>1 DEF StartWalk
<1>3. /\ otp' \in StackType /\ IsList(otp') /\ o \in Owl /\ first \in Owl
      /\ otp'.listed \subseteq Owl /\ first \in otp'.listed
  BY <1>1, <1>2 DEF Calm, StackType
<1>4. \A x \in otp'.listed : Pri(otp', x) \in 0 .. OTP_MAX
  BY <1>3, PriType
<1>5. otp'.under[first] \subseteq otp'.listed
  BY <1>3 DEF IsList
<1>6. \A y \in otp'.under[first] : Pri(otp', y) < Pri(otp', o)
  BY <1>2, <1>5 DEF BelowPriority
<1>7. \A t \in otp'.listed : Pri(otp', t) >= Pri(otp', o) =>
        t = first \/ first \in otp'.under[t]
  BY <1>1, <1>3, <1>4, <1>6 DEF IsList, OTP_MAX, OTP_ZERO
<1>8. Pri(otp', first) >= Pri(otp', o)
  BY <1>1, <1>2, <1>3, <1>4, <1>6 DEF BelowPriority, OTP_MAX, OTP_ZERO
<1>9. job'.owl = o /\ (job'.next = IF o \in Win THEN first ELSE None)
  BY <1>2
<1>10. \A t \in otp'.listed : isTransientOf(t, o) /\ Pri(otp', t) = Pri(otp', o) =>
         job'.next = first /\ (t = first \/ first \in otp'.under[t])
  BY <1>1, <1>4, <1>7, <1>9 DEF isTransientOf, OTP_MAX, OTP_ZERO
<1>11. first # None
  BY <1>3, OwlAssumption DEF Owl
<1>12. QED
  BY <1>8, <1>9, <1>10, <1>11 DEF WalkProgress, AheadOfWalk

\* The owl above the one at hand comes next, for all that are over it.
LEMMA NextIsLowest ==
  ASSUME NEW s, IsList(s), s \in StackType, NEW n \in s.listed, NEW up \in NextUp(s, n),
         NEW t \in s.listed, n \in s.under[t]
  PROVE  up \in s.listed /\ up # None /\ n \in s.under[up] /\ (t = up \/ up \in s.under[t])
<1>1. t \in Over(s, n)
  BY DEF Over
<1>2. up \in Over(s, n) /\ s.under[up] = s.under[n] \cup {n}
  BY <1>1 DEF NextUp
<1>3. up \in s.listed /\ n \in s.under[up] /\ up \in Owl /\ t \in Owl /\ n \in Owl
  BY <1>2 DEF Over, StackType
<1>4. t \notin s.under[up]
  BY <1>2, <1>3 DEF IsList
<1>5. up # None
  BY <1>3, OwlAssumption DEF Owl
<1>6. QED
  BY <1>3, <1>4, <1>5 DEF IsList

\* Where it goes on, it goes up.
LEMMA NextIsUp ==
  ASSUME NEW s, NEW n, NEW up \in NextUp(s, n), up # None
  PROVE  up \in s.listed /\ n \in s.under[up]
  BY DEF NextUp, Over


\* A step of a walk moves the owl at hand at most, if that has no dialogs.
LEMMA WalkStepMovesOne ==
  ASSUME Orderly, DialogsAreFlat, CalmInv, WalkStep
  PROVE  /\ Apart(otp, otp', {job.next})
         /\ \A o \in Owl \ {job.next} : /\ otp'.base[o] = otp.base[o]
                                        /\ otp'.flags[o] = otp.flags[o]
         /\ isTransientOf(job.next, job.owl) =>
              /\ otp'.base[job.next] = Clamp(job.pri)
              /\ otp'.flags[job.next] = otp.flags[job.owl]
<1>1. CASE ~isTransientOf(job.next, job.owl)
  BY <1>1, ApartSelf DEF WalkStep
<1>2. CASE isTransientOf(job.next, job.owl)
  <2> DEFINE n == job.next
             w == job.owl
             pri == job.pri
             where == job.where
  <2>1. otp' = SetOwlPriority([otp EXCEPT !.flags[n] = otp.flags[w]], n, pri, where)
    BY <1>2 DEF WalkStep
  <2>2. /\ n \in otp.listed /\ isTransientOf(n, w) /\ pri \in Int
        /\ where \in {"Above", "Below"}
    BY <1>2, WalkStepMoves DEF Walks
  <2> HIDE DEF n, w, pri, where
  <2> DEFINE q == [[otp EXCEPT !.flags[n] = otp.flags[w]] EXCEPT !.base[n] = Clamp(pri)]
  <2>3. Placed(q, otp', n, where) /\ Apart(otp, otp', Party(n))
    BY <2>1, <2>2, WalkMoveCalm DEF CalmInv
  <2>4. otp \in StackType /\ n \in Owl /\ n \in Win /\ w \in Win /\ TransientFor[n] = w
    BY <2>2 DEF CalmInv, Calm, isTransientOf, Owl
  <2>5. /\ q.base[n] = Clamp(pri) /\ q.flags[n] = otp.flags[w]
        /\ \A o \in Owl \ {n} : q.base[o] = otp.base[o] /\ q.flags[o] = otp.flags[o]
    BY <2>4 DEF StackType
  <2>6. \A o \in Owl : ~isTransientOf(o, n)
    BY <2>4 DEF DialogsAreFlat, isTransientOf
  <2>7. Party(n) = {n}
    BY <2>6 DEF Party, Owl
  <2> HIDE DEF q
  <2>8. \A o \in Owl : otp'.base[o] = q.base[o] /\ otp'.flags[o] = q.flags[o]
    BY <2>3, <2>6 DEF Placed, Kept
  <2>9. /\ Apart(otp, otp', {n})
        /\ \A o \in Owl \ {n} : otp'.base[o] = otp.base[o] /\ otp'.flags[o] = otp.flags[o]
        /\ otp'.base[n] = Clamp(pri) /\ otp'.flags[n] = otp.flags[w]
    BY <2>3, <2>4, <2>5, <2>7, <2>8
  <2>10. QED
    BY <2>9 DEF n, w, pri
<1>3. QED
  BY <1>1, <1>2

\* It passes no transient by.
LEMMA ProgressGoesOn ==
  ASSUME Orderly, DialogsAreFlat, CalmInv, Calm(otp'), WalkProgress, WalkStep
  PROVE  WalkProgress'
<1>1. /\ job \in Walks /\ job.owl \in otp.listed /\ job.next \in otp.listed
      /\ Pri(otp, job.next) = Pri(otp, job.owl)
  BY WalkStepMoves
<1>2. PICK up \in NextUp(otp, job.next) : job' = [job EXCEPT !.next = up]
  BY WalkStepMoves
<1>3. job'.owl = job.owl /\ job'.pri = job.pri /\ job'.next = up
  BY <1>1, <1>2 DEF Walks
<1>4. /\ Apart(otp, otp', {job.next})
      /\ \A o \in Owl \ {job.next} : /\ otp'.base[o] = otp.base[o]
                                     /\ otp'.flags[o] = otp.flags[o]
      /\ isTransientOf(job.next, job.owl) =>
           /\ otp'.base[job.next] = Clamp(job.pri)
           /\ otp'.flags[job.next] = otp.flags[job.owl]
  BY WalkStepMovesOne
<1> DEFINE n == job.next
           w == job.owl
<1>5. /\ otp \in StackType /\ IsList(otp) /\ Sorted(otp) /\ otp.listed \subseteq Owl
      /\ otp' \in StackType /\ IsList(otp') /\ Sorted(otp') /\ otp'.listed \subseteq Owl
  BY DEF CalmInv, Calm, StackType
<1>6. \A x \in Owl : Pri(otp, x) \in 0 .. OTP_MAX /\ Pri(otp', x) \in 0 .. OTP_MAX
  BY <1>5, PriType
<1>7. isTransientOf(n, w) => n # w
  BY HintAssumption DEF isTransientOf
<1>8. CASE ~isTransientOf(n, w)
  <2>1. otp' = otp
    BY <1>8 DEF WalkStep
  <2>2. up # None => Pri(otp, up) >= Pri(otp, w)
    BY <1>1, <1>5, <1>6, NextIsUp DEF Sorted
  <2>3. ASSUME NEW t \in otp.listed, isTransientOf(t, w), Pri(otp, t) = Pri(otp, w)
        PROVE  MovedByWalk(t) \/ (up # None /\ (t = up \/ up \in otp.under[t]))
    <3>1. MovedByWalk(t) \/ n \in otp.under[t]
      BY <1>1, <1>8, <2>3 DEF WalkProgress, AheadOfWalk, Walks
    <3>2. QED
      BY <1>1, <1>5, <2>3, <3>1, NextIsLowest
  <2>4. QED
    BY <1>3, <2>1, <2>2, <2>3 DEF WalkProgress, MovedByWalk, AheadOfWalk
<1>9. CASE isTransientOf(n, w)
  <2>1. w \in otp'.listed /\ Pri(otp', w) = Pri(otp, w) /\ otp'.flags[w] = otp.flags[w]
    BY <1>1, <1>4, <1>5, <1>7, <1>9 DEF Apart
  <2>2. up # None => up \in otp.listed /\ n \in otp.under[up] /\ up # n
    BY <1>5, NextIsUp DEF IsList
  <2>3. up # None => Pri(otp', up) >= Pri(otp', w)
    <3>1. up # None => Pri(otp, up) >= Pri(otp, w)
      BY <1>1, <1>5, <1>6, <2>2 DEF Sorted
    <3>2. up # None => Pri(otp', up) = Pri(otp, up)
      BY <1>4, <1>5, <2>2 DEF Apart
    <3>3. QED
      BY <2>1, <3>1, <3>2
  <2>4. ASSUME NEW t \in otp'.listed, isTransientOf(t, w), Pri(otp', t) = Pri(otp', w)
        PROVE  \/ otp'.base[t] = Clamp(job.pri) /\ otp'.flags[t] = otp'.flags[w]
               \/ up # None /\ (t = up \/ up \in otp'.under[t])
    <3>1. CASE t = n
      BY <1>4, <1>9, <2>1, <3>1
    <3>2. CASE t # n
      <4>1. t \in Owl \ {n} /\ t \in otp.listed /\ Pri(otp', t) = Pri(otp, t)
        BY <1>4, <1>5, <3>2 DEF Apart
      <4>2. MovedByWalk(t) \/ n \in otp.under[t]
        BY <1>1, <2>1, <2>4, <3>2, <4>1 DEF WalkProgress, AheadOfWalk, Walks
      <4>3. CASE MovedByWalk(t)
        BY <1>4, <2>1, <4>1, <4>3 DEF MovedByWalk
      <4>4. CASE n \in otp.under[t]
        <5>1. up \in otp.listed /\ up # None /\ (t = up \/ up \in otp.under[t])
          BY <1>1, <1>5, <4>1, <4>4, NextIsLowest
        <5>2. up \in Owl \ {n}
          BY <1>5, <2>2, <5>1
        <5>3. up \in otp.under[t] => up \in otp'.under[t]
          BY <1>4, <4>1, <5>2 DEF Apart
        <5>4. QED
          BY <5>1, <5>3
      <4>5. QED
        BY <4>2, <4>3, <4>4
    <3>3. QED
      BY <3>1, <3>2
  <2>5. QED
    BY <1>3, <2>3, <2>4 DEF WalkProgress, MovedByWalk, AheadOfWalk
<1>10. QED
  BY <1>8, <1>9

\* At its end it has passed them all.
LEMMA ProgressIsMade ==
  ASSUME Orderly, CalmInv, WalkProgress, WalkEnd,
         NEW t \in Win, isTransientOf(t, job.owl), t \in otp.listed,
         Pri(otp, t) = Pri(otp, job.owl)
  PROVE  Pri(otp', t) = Pri(otp', job.owl)
<1>1. /\ job \in Walks /\ job.owl \in otp.listed
      /\ Clear(otp') /\ Kept([otp EXCEPT !.base[job.owl] = Clamp(job.pri)], otp', job.owl)
  BY WalkEndKeeps
<1> DEFINE w == job.owl
           q == [otp EXCEPT !.base[w] = Clamp(job.pri)]
<1>2. /\ otp \in StackType /\ IsList(otp) /\ Sorted(otp) /\ otp.listed \subseteq Owl
      /\ t \in Owl /\ w \in Owl /\ t # w /\ w \in Win
  BY <1>1, HintAssumption DEF CalmInv, Calm, StackType, isTransientOf
<1>3. MovedByWalk(t)
  <2>1. job.kind = "walk" /\ ~InLayer
    BY DEF WalkEnd, WalkTurn
  <2>2. MovedByWalk(t) \/ AheadOfWalk(t)
    BY <2>1 DEF WalkProgress
  <2>3. ~AheadOfWalk(t)
    <3> SUFFICES ASSUME AheadOfWalk(t) PROVE FALSE
      OBVIOUS
    <3>1. job.next # None /\ Pri(otp, job.next) # Pri(otp, w) /\ job.next \in otp.under[t]
      BY <2>1 DEF AheadOfWalk, InLayer
    <3>2. Pri(otp, job.next) >= Pri(otp, w) /\ Pri(otp, job.next) <= Pri(otp, t)
      BY <2>1, <3>1, <1>2 DEF WalkProgress, Sorted
    <3>3. job.next \in Owl
      BY <1>2, <3>1 DEF IsList
    <3>4. Pri(otp, job.next) \in 0 .. OTP_MAX /\ Pri(otp, w) \in 0 .. OTP_MAX
      BY <1>2, <3>3, PriType
    <3>5. QED
      BY <3>1, <3>2, <3>4 DEF OTP_MAX, OTP_ZERO
  <2>4. QED
    BY <2>2, <2>3
<1>4. /\ q.base[w] = Clamp(job.pri) /\ q.flags[w] = otp.flags[w]
      /\ q.base[t] = Clamp(job.pri) /\ q.flags[t] = otp.flags[w]
  BY <1>2, <1>3 DEF MovedByWalk, StackType
<1> HIDE DEF q
<1>5. ~isTransientOf(w, w)
  BY HintAssumption DEF isTransientOf
<1>6. /\ otp'.base[w] = Clamp(job.pri) /\ otp'.flags[w] = otp.flags[w]
      /\ otp'.base[t] = Clamp(job.pri) /\ otp'.flags[t] = otp.flags[w]
  <2>1. Kept(q, otp', w)
    BY <1>1 DEF q
  <2> HIDE DEF w
  <2>2. QED
    BY <1>2, <1>4, <1>5, <2>1 DEF Kept
<1>7. QED
  BY <1>1, <1>6, SharedPri

\* A window whose priority the user or PrioritySwitching changes leaves none of
\* the transients of its layer behind, where no dialog has dialogs: the owl noted as
\* the next one is still where it was when the one at hand has moved.
THEOREM NoDialogIsLeftBehind ==
  ASSUME FullscreenIsAlone, DocksAgree, StackModeWins = {}, DialogsAreFlat
  PROVE  Spec => TransientsMoveAlong
<1>0. Orderly
  BY DEF Orderly
<1> DEFINE A == WalkEnd => \A t \in Win :
                  /\ isTransientOf(t, job.owl) /\ t \in otp.listed
                  /\ Pri(otp, t) = Pri(otp, job.owl)
                  => Pri(otp', t) = Pri(otp', job.owl)
<1>1. CalmInv /\ WalkProgress => A
  BY <1>0, ProgressIsMade
<1>2. Init => WalkProgress
  BY DEF Init, WalkProgress, Idle
<1>3. CalmInv /\ CalmInv' /\ WalkProgress /\ [Next]_vars => WalkProgress'
  <2> SUFFICES ASSUME CalmInv, CalmInv', WalkProgress, [Next]_vars PROVE WalkProgress'
    OBVIOUS
  <2>1. CASE UNCHANGED vars
    BY <2>1 DEF vars, WalkProgress, MovedByWalk, AheadOfWalk, Pri, OnFocus
  <2>2. CASE NoWalk
    BY <2>2 DEF NoWalk, WalkProgress
  <2>3. Calm(otp')
    BY DEF CalmInv
  <2>4. QED
    BY <1>0, <2>1, <2>2, <2>3, HowWalksBegin, ProgressBegins, ProgressGoesOn DEF CalmInv
<1>4. QED
  BY <1>0, <1>1, <1>2, <1>3, CalmInit, CalmStep, PTL DEF Spec, TransientsMoveAlong

=============================================================================
