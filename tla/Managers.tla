------------------------------ MODULE Managers ------------------------------
(***************************************************************************)
(* The icon managers.  Each has a copy for every workspace, and a window an *)
(* entry in each copy whose workspace it occupies.  An entry is on two      *)
(* lists, that of the manager and that of the window; three pointers, two   *)
(* of them global, name entries too, and the entries of the manager of the  *)
(* current workspace have to come first on the lists of the windows.        *)
(***************************************************************************)
EXTENDS Integers, SequencesExt

CONSTANTS
  Win,
  None,
  Freed,            \* what a pointer to an entry that was freed points to
  Manager,          \* those of the configuration, as a sequence
  IconMgrs,         \* the manager each window belongs to; None if not shown
  NWorkSpaces,
  columns,          \* of each manager
  Name,             \* icon names, as numbers: their order
  SortIconMgr,
  ManagerSessions          \* bound: what happens, one set for each session

ManagerUse == {"destroy", "occupy", "workspace", "focus", "enter", "iconify", "name", "sort",
        "move", "movemapped", "hide"}

WorkSpace == 1 .. NWorkSpaces
Mgr == Range(Manager)
IconMgr == Mgr \X WorkSpace
Entry == Win \X IconMgr
EntryOrNull == Entry \cup {None, Freed}

ASSUME ManagersAssumption ==
  /\ IsFiniteSet(Win) /\ None \notin Win \cup Mgr \cup Entry /\ Freed \notin Entry
  /\ Manager \in Seq(Mgr)
  /\ NWorkSpaces \in Nat \ {0}
  /\ IsInjective(Manager)
  /\ IconMgrs \in [Win -> Mgr \cup {None}]
  /\ columns \in [Mgr -> Nat \ {0}]
  /\ Name \subseteq Nat /\ Name # {}
  /\ SortIconMgr \in BOOLEAN
  /\ ManagerSessions \subseteq SUBSET ManagerUse

VARIABLES
  wins,   \* the windows: name, occupation (empty if not managed), mapped
  im,     \* the managers
  uses    \* what happens in this session

managerVars == <<wins, im, uses>>

WinsType ==
  [ name : [Win -> Name], occupation : [Win -> SUBSET WorkSpace],
    mapped : SUBSET Win, focus : Win \cup {None}, ws : WorkSpace ]

ImType ==
  [ list    : [IconMgr -> SeqOf(Win, Cardinality(Win))],
    count   : [IconMgr -> Nat],
    cell    : [Entry -> Nat \X Nat],            \* row and col
    cur     : [IconMgr -> Nat \X Nat],          \* cur_rows and cur_columns
    chain   : [Win -> SeqOf(IconMgr, NWorkSpaces)],
    mapped  : SUBSET IconMgr,
    isicon  : SUBSET IconMgr,
    active  : [IconMgr -> EntryOrNull],
    Current : EntryOrNull,
    Active  : EntryOrNull ]

ManagersTypeOK == wins \in WinsType /\ im \in ImType /\ uses \in ManagerSessions

\* A state [wins, im] as a value, so that steps compose.
Icm == [wins |-> wins, im |-> im]
IcmBecomes(s) == wins' = s.wins /\ im' = s.im /\ UNCHANGED uses

managed(s) == {w \in Win : s.wins.occupation[w] # {}}

\* With one virtual screen a manager is visible in its workspace.
visible(ip, ws) == ip[2] = ws

First(s, ip) ==
  IF s.im.list[ip] = <<>> THEN None ELSE <<Head(s.im.list[ip]), ip>>

(***************************************************************************)
(* One manager.                                                             *)
(***************************************************************************)

\* mutant: rows are counted from one.
CellOfFromOne(i, c) == <<i \div c + 1, i % c>>

\* The row and column of an entry, from 0.
CellOf(i, c) == <<i \div c, i % c>>

\* Rows and columns are given to the entries in their order.
PackIconManager(s, ip) ==
  LET n == Len(s.im.list[ip])
      c == columns[ip[1]]
      at(w) == CHOOSE i \in 1 .. n : s.im.list[ip][i] = w
  IN  [s EXCEPT
        !.im.cell = [e \in Entry |->
                       IF e[2] = ip /\ e[1] \in Range(s.im.list[ip])
                       THEN CellOf(at(e[1]) - 1, c) ELSE @[e]],
        !.im.cur[ip] = <<(n + c - 1) \div c, IF n = 0 THEN 1 ELSE IF n < c THEN n ELSE c>>]

\* Before the first entry with a greater name, or at the end.
Inserted(s, list, w, sort) ==
  LET greater == {i \in DOMAIN list : s.wins.name[w] < s.wins.name[list[i]]}
  IN  IF ~sort \/ greater = {} THEN Append(list, w)
      ELSE InsertAt(list, CHOOSE i \in greater : \A j \in greater : i <= j, w)

InsertInIconManager(s, ip, w) ==
  [s EXCEPT !.im.list[ip] = Inserted(s, @, w, SortIconMgr)]

RemoveFromIconManager(s, ip, w) ==
  LET t == [s EXCEPT !.im.list[ip] = RemoveFirst(@, w)]
  IN  [t EXCEPT !.im.Current = IF @ = <<w, ip>> THEN First(t, ip) ELSE @]

\* Each entry that is less than one before it is taken out and put in again;
\* should it be Current, the first entry becomes that meanwhile.
SortIconManager(s, ip) ==
  LET put(list, w) == Inserted(s, list, w, TRUE)
      list == s.im.list[ip]
      sorted[i \in 0 .. Len(list)] ==
        IF i = 0 THEN <<>> ELSE put(sorted[i - 1], list[i])
      at == SelectInSeq(list, LAMBDA v : <<v, ip>> = s.im.Current)
      moves == at > 1 /\ s.wins.name[list[at]] < s.wins.name[Last(sorted[at - 1])]
  IN  PackIconManager(
        [s EXCEPT !.im.list[ip] = sorted[Len(list)],
                  !.im.Current = IF moves THEN <<Head(sorted[at - 1]), ip>> ELSE @], ip)

(***************************************************************************)
(* The entries of a window.                                                 *)
(***************************************************************************)

\* The first entry whose manager is to be seen goes to the head of the list.
VisibleFirst(chain, ws) ==
  LET i == SelectInSeq(chain, LAMBDA ip : visible(ip, ws))
  IN  IF i = 0 THEN chain ELSE <<chain[i]>> \o RemoveAt(chain, i)

AddEntry(s, ip, w) ==
  LET t == PackIconManager([InsertInIconManager(s, ip, w) EXCEPT !.im.count[ip] = @ + 1], ip)
  IN  [t EXCEPT !.im.chain[w] = <<ip>> \o @,
                !.im.mapped = IF ip \in s.im.isicon THEN @ ELSE @ \cup {ip}]

\* For the workspaces in occ, which the window is not in yet.
AddIconManager(s, w, occ) ==
  LET added[i \in 0 .. NWorkSpaces] ==
        IF i = 0 THEN s
        ELSE IF i \in occ THEN AddEntry(added[i - 1], <<IconMgrs[w], i>>, w)
        ELSE added[i - 1]
  IN  IF IconMgrs[w] = None \/ occ = {} THEN s
      ELSE [added[NWorkSpaces] EXCEPT !.im.chain[w] = VisibleFirst(@, s.wins.ws)]

RemoveEntry(s, ip, w) ==
  LET freed(e) == IF e = <<w, ip>> THEN Freed ELSE e
      t == RemoveFromIconManager(s, ip, w)
      u == PackIconManager([t EXCEPT !.im.count[ip] = @ - 1], ip)
  IN  [u EXCEPT !.im.chain[w] = RemoveFirst(@, ip),
                !.im.mapped = IF u.im.count[ip] = 0 THEN @ \ {ip} ELSE @,
                !.im.Active = freed(@),
                !.im.active = [p \in IconMgr |-> freed(@[p])]]

\* Every entry that the occupation of the window does not call for goes.
RemoveIconManager(s, w) ==
  LET chain == s.im.chain[w]
      left[i \in 0 .. Len(chain)] ==
        IF i = 0 THEN s
        ELSE IF chain[i][2] \in s.wins.occupation[w] THEN left[i - 1]
        ELSE RemoveEntry(left[i - 1], chain[i], w)
  IN  left[Len(chain)]

\* mutant: it is added to every workspace it occupies.
ChangeOccupationAddsAll(s, w, occ) ==
  RemoveIconManager([AddIconManager(s, w, occ) EXCEPT !.wins.occupation[w] = occ], w)

ChangeOccupation(s, w, occ) ==
  RemoveIconManager(
    [AddIconManager(s, w, occ \ s.wins.occupation[w]) EXCEPT !.wins.occupation[w] = occ], w)

\* SetFocusVisualAttributes
Highlighted(s, w) ==
  IF w = None \/ s.im.chain[w] = <<>> THEN s
  ELSE LET e == <<w, Head(s.im.chain[w])>>
       IN  [s EXCEPT !.im.Active = e, !.im.active[e[2]] = e, !.im.Current = e]

SetFocus(s, w) ==
  IF w = s.wins.focus THEN s ELSE Highlighted([s EXCEPT !.wins.focus = w], w)

\* The entries of the new workspace come first; the first of its first manager
\* that has one is Current, unless the focus is on a window that is seen there.
GotoWorkSpace(s, ws) ==
  LET t == [s EXCEPT !.wins.ws = ws,
                     !.im.chain = [w \in Win |-> VisibleFirst(@[w], ws)]]
      full == SelectInSeq(Manager, LAMBDA m : t.im.list[<<m, ws>>] # <<>>)
      u == [t EXCEPT !.im.Current = IF full = 0 THEN None
                                    ELSE First(t, <<Manager[full], ws>>)]
      w == s.wins.focus
  IN  IF w # None /\ ws \in s.wins.occupation[w] THEN Highlighted(u, w)
      ELSE [u EXCEPT !.wins.focus = None]

(***************************************************************************)
(* Moving about in the managers.  The pointer is warped to an entry, and    *)
(* the EnterNotify makes that one Current.                                  *)
(***************************************************************************)

Enter(s, w) ==
  IF s.im.chain[w] = <<>> THEN s
  ELSE [s EXCEPT !.im.Current = <<w, Head(s.im.chain[w])>>]

Step == [up |-> <<-1, 0>>, down |-> <<1, 0>>, left |-> <<0, -1>>, right |-> <<0, 1>>]

\* The cells that the search for an entry visits, and the entries at them.
CellAt(s, k, dir) ==
  LET e == s.im.Current
      cur == s.im.cur[e[2]]
  IN  <<(s.im.cell[e][1] + k * Step[dir][1]) % cur[1],
        (s.im.cell[e][2] + k * Step[dir][2]) % cur[2]>>

EntriesAt(s, k, dir) ==
  LET ip == s.im.Current[2]
  IN  {w \in Range(s.im.list[ip]) : s.im.cell[<<w, ip>>] = CellAt(s, k, dir)}

Steps(s, dir) ==
  {k \in 1 .. Cardinality(Win) : EntriesAt(s, k, dir) # {}}

MoveIconManager(s, dir) ==
  LET k == CHOOSE i \in Steps(s, dir) : \A j \in Steps(s, dir) : i <= j
  IN  Enter(s, CHOOSE w \in EntriesAt(s, k, dir) : TRUE)

\* f.forwiconmgr and f.forwmapiconmgr, and back: along the list.
Along(s, e, step, fit) ==
  LET list == s.im.list[e[2]]
      n == Len(list)
      at == SelectInSeq(list, LAMBDA w : w = e[1])
      good == {k \in 1 .. n : list[((at - 1 + k * step) % n) + 1] \in fit}
  IN  IF good = {} THEN s
      ELSE Enter(s, list[((at - 1 + step * (CHOOSE k \in good : \A l \in good : k <= l)) % n) + 1])

MoveAlong(s, step) == Along(s, s.im.Current, step, Win)

MoveMappedIconManager(s, step) ==
  LET t == IF s.im.Current = None THEN [s EXCEPT !.im.Current = s.im.Active] ELSE s
  IN  Along(t, t.im.Current, step, s.wins.mapped)

\* The next or previous manager of the workspace that shows entries, from the
\* other end if there is none; the only screen's first or last one otherwise.
JumpIconManager(s, step) ==
  LET n == Len(Manager)
      ip == s.im.Current[2]
      at == SelectInSeq(Manager, LAMBDA m : m = ip[1])
      order == [k \in 1 .. n |-> <<Manager[((at - 1 + k * step) % n) + 1], ip[2]>>]
      next == SelectInSeq(order, LAMBDA p : s.im.count[p] # 0 /\ p \in s.im.mapped)
  IN  IF next = 0 THEN s
      ELSE LET to == s.im.active[order[next]]
           IN  IF to \in Entry THEN Enter(s, to[1]) ELSE s

showiconmgr(s) ==
  LET shown == {ip \in IconMgr : s.im.count[ip] # 0}
  IN  [s EXCEPT !.im.mapped = @ \cup shown, !.im.isicon = @ \ shown]

HideIconManager(s) == [s EXCEPT !.im.mapped = {}, !.im.isicon = IconMgr]

(***************************************************************************)
(* The steps: one event or function each.                                   *)
(***************************************************************************)

ManagersInit ==
  /\ wins = [name |-> [w \in Win |-> CHOOSE n \in Name : TRUE],
             occupation |-> [w \in Win |-> {}], mapped |-> {}, focus |-> None, ws |-> 1]
  \* CreateIconManagers; ShowIconManager
  /\ im = [list |-> [ip \in IconMgr |-> <<>>], count |-> [ip \in IconMgr |-> 0],
           cell |-> [e \in Entry |-> <<0, 0>>], cur |-> [ip \in IconMgr |-> <<0, 0>>],
           chain |-> [w \in Win |-> <<>>], mapped |-> {}, isicon |-> {},
           active |-> [ip \in IconMgr |-> None], Current |-> None, Active |-> None]
  /\ uses \in ManagerSessions

AddWindow ==
  \E w \in Win \ managed(Icm), occ \in SUBSET WorkSpace \ {{}} :
    IcmBecomes(AddIconManager([Icm EXCEPT !.wins.occupation[w] = occ,
                                       !.wins.mapped = @ \cup {w}], w, occ))

HandleDestroyNotify ==
  /\ "destroy" \in uses
  /\ \E w \in managed(Icm) :
       LET t == IF w = wins.focus THEN SetFocus(Icm, None) ELSE Icm
       IN  IcmBecomes(RemoveIconManager([t EXCEPT !.wins.occupation[w] = {},
                                               !.wins.mapped = @ \ {w}], w))

Occupy ==
  /\ "occupy" \in uses
  /\ \E w \in managed(Icm), occ \in SUBSET WorkSpace \ {{}} :
       /\ occ # wins.occupation[w]
       /\ IcmBecomes(ChangeOccupation(Icm, w, occ))

SwitchWorkSpace ==
  /\ "workspace" \in uses
  /\ \E ws \in WorkSpace \ {wins.ws} : IcmBecomes(GotoWorkSpace(Icm, ws))

Focus ==
  /\ "focus" \in uses
  /\ \E w \in {v \in managed(Icm) : wins.ws \in wins.occupation[v]} \cup {None} :
       IcmBecomes(SetFocus(Icm, w))

EnterNotify ==
  /\ "enter" \in uses
  /\ \E w \in managed(Icm) : wins.ws \in wins.occupation[w] /\ IcmBecomes(Enter(Icm, w))

Iconify ==
  /\ "iconify" \in uses
  /\ \E w \in managed(Icm) :
     IcmBecomes([Icm EXCEPT !.wins.mapped = IF w \in @ THEN @ \ {w} ELSE @ \cup {w}])

\* A new name: only the manager of the first entry is sorted again.
RedoIconName ==
  /\ "name" \in uses
  /\ \E w \in managed(Icm), n \in Name :
       LET t == [Icm EXCEPT !.wins.name[w] = n]
       IN  IcmBecomes(IF im.chain[w] = <<>> \/ ~SortIconMgr THEN t
                   ELSE SortIconManager(t, Head(im.chain[w])))

\* f.sorticonmgr, on an icon manager.
sorticonmgr ==
  /\ "sort" \in uses
  /\ \E ip \in IconMgr : IcmBecomes(SortIconManager(Icm, ip))

Moves ==
  /\ "move" \in uses
  /\ im.Current # None
  /\ \/ \E dir \in DOMAIN Step : IcmBecomes(MoveIconManager(Icm, dir))
     \/ \E step \in {1, -1} : \/ IcmBecomes(MoveAlong(Icm, step))
                              \/ IcmBecomes(JumpIconManager(Icm, step))

\* Bound: not when it would start from an entry that was freed.
MovesMapped ==
  /\ "movemapped" \in uses
  /\ im.Current # None \/ im.Active \in Entry
  /\ \E step \in {1, -1} : IcmBecomes(MoveMappedIconManager(Icm, step))

ShowHide ==
  /\ "hide" \in uses
  /\ IcmBecomes(showiconmgr(Icm)) \/ IcmBecomes(HideIconManager(Icm))

ManagersNext ==
  \/ AddWindow \/ HandleDestroyNotify \/ Occupy \/ SwitchWorkSpace \/ Focus
  \/ EnterNotify \/ Iconify \/ RedoIconName \/ sorticonmgr \/ Moves \/ MovesMapped
  \/ ShowHide

ManagersSpec == ManagersInit /\ [][ManagersNext]_managerVars

(***************************************************************************)
(* Properties.                                                              *)
(***************************************************************************)

\* One entry for every workspace a window occupies, in the list of the manager
\* and in that of the window.
EntriesAreOnce ==
  /\ \A w \in Win :
       /\ IsInjective(im.chain[w])
       /\ Range(im.chain[w]) = IF IconMgrs[w] = None THEN {}
                               ELSE {IconMgrs[w]} \X wins.occupation[w]
  /\ \A ip \in IconMgr :
       /\ IsInjective(im.list[ip]) /\ im.count[ip] = Len(im.list[ip])
       /\ Range(im.list[ip]) = {w \in Win : ip \in Range(im.chain[w])}
       /\ ip \in im.mapped => im.count[ip] > 0
  /\ im.Current # None => im.Current[1] \in Range(im.list[im.Current[2]])

\* What is drawn and warped to is the first entry of a window.
FirstEntryIsShown ==
  \A w \in Win : wins.ws \in wins.occupation[w] /\ IconMgrs[w] # None =>
    visible(Head(im.chain[w]), wins.ws)

\* The lists of the managers and those of the windows hold the same entries,
\* each once (AddIconManager puts a window into every workspace it is given, even
\* if it is there already, and ChangeOccupation dances around that); Current is
\* one of them, an empty manager is not shown, the counts are right; and the
\* first entry of a window is that of the current workspace if it has one, after
\* any number of workspace and occupation changes.
EntriesAgree == ManagersTypeOK /\ EntriesAreOnce /\ FirstEntryIsShown

\* The search for the entry above, below or beside the current one ends: it
\* comes back to that one at the latest (MoveIconManager has no other limit).
SearchesEnd ==
  im.Current # None => \A dir \in DOMAIN Step : Steps(Icm, dir) # {}

=============================================================================
