--------------------------- MODULE SidebarSettings ---------------------------
(***************************************************************************)
(* The order and the visibility the user gives the usage groups            *)
(* (client/view-model.ts, client/controller.ts, ui/SettingsSection.tsx).   *)
(* Providers come and go, and one shows as a single group or as its pools, *)
(* depending on its usage; the settings outlive that, and the page.        *)
(*                                                                         *)
(* Abstracted: an id is the provider, or the provider and a pool; panel    *)
(* height and wording are left out.                                        *)
(***************************************************************************)
EXTENDS Naturals, SequencesExt

CONSTANTS
  Roster,        \* providers in the order the host lists them
  Pooled,        \* the provider that shows as pools
  Pool,          \* its pools, in the order they are shown
  MaxSaved,      \* bound: ids the storage holds at first, hand-edited ones too
  MaxClicks,     \* bound: moves and clicks
  None

Id == {<<p>> : p \in Range(Roster)} \cup {<<Pooled, pool>> : pool \in Range(Pool)}

VARIABLES
  registered,    \* the providers the host lists now
  pools,         \* the pools of the pooled one; none while its usage is not available
  settings,      \* the controller's settings
  stored,        \* the browser's storage
  clicks,        \* how often the user changed them
  done           \* history: the change last made, what was shown and what must come of it

sidebarVars == <<registered, pools, settings, stored, clicks, done>>

NoSettings == [order |-> <<>>, hidden |-> {}]

Init ==
  /\ registered \in SUBSET Range(Roster)
  /\ pools \in SUBSET Range(Pool)
  /\ stored \in [order : SeqOf(Id, MaxSaved), hidden : {{}}]
  /\ settings = stored
  /\ clicks = 0
  /\ done = None

-----------------------------------------------------------------------------
(* What is shown *)

\* getAllUsageGroups: each listed provider's groups.
Groups ==
  FlattenSeq([i \in DOMAIN Roster |->
    LET p == Roster[i]
    IN  IF p \notin registered THEN <<>>
        ELSE IF p # Pooled \/ pools = {} THEN <<<<p>>>>
        ELSE LET shown == SelectSeq(Pool, LAMBDA pool : pool \in pools)
             IN  [j \in DOMAIN shown |-> <<p, shown[j]>>]])

\* resolveOrderedRoster: a saved id stands for its group or else for the groups of the
\* provider it names; groups it has not placed come last.
Placed(s, i) ==
  LET id == s.order[i]
  IN  IF id \in Range(Groups) THEN <<id>> ELSE SelectSeq(Groups, LAMBDA g : g[1] = id[1] /\ Len(id) = 1)

RemoveRepeats(seq) ==
  FoldLeft(LAMBDA acc, x : IF x \in Range(acc) THEN acc ELSE Append(acc, x), <<>>, seq)

Resolved(s) == RemoveRepeats(FlattenSeq([i \in DOMAIN s.order |-> Placed(s, i)]) \o Groups)

Visible(s, g) == g \notin s.hidden /\ <<g[1]>> \notin s.hidden

-----------------------------------------------------------------------------
(* What the user does *)

\* setSidebarSettings: saving may fail unnoticed, and saves nothing where nothing is set.
Change(s, record) ==
  /\ clicks < MaxClicks /\ clicks' = clicks + 1
  /\ settings' = s
  /\ stored' \in {s, stored}
  /\ done' = record
  /\ UNCHANGED <<registered, pools>>

\* setProviderVisible: the box of a group is checked or unchecked.
Click(g) ==
  /\ g \in Range(Groups)
  /\ LET visible == ~Visible(settings, g)
     IN  Change([settings EXCEPT !.hidden = IF visible THEN @ \ {g} ELSE @ \cup {g}],
                [kind |-> "click", group |-> g, visible |-> visible, was |-> settings,
                 shown |-> Resolved(settings)])

Swapped(seq, i, j) == [seq EXCEPT ![i] = seq[j], ![j] = seq[i]]

\* The saved ids, each once, a provider's standing for its pools that are shown, and then
\* the groups that have no place yet.
Slots(s, present) ==
  LET expanded(id) ==
        IF id \in Range(present) THEN <<id>>
        ELSE LET own == SelectSeq(present, LAMBDA g : Len(g) = 2 /\ id = <<g[1]>>)
             IN  IF own = <<>> THEN <<id>> ELSE own
      saved == RemoveRepeats(s.order)
  IN  RemoveRepeats(FlattenSeq([i \in DOMAIN saved |-> expanded(saved[i])]) \o present)

\* Mutant: what is not shown now is forgotten.
FilledPresent(slots, present, next) == next

\* The groups shown fill their slots anew; an id that is not shown keeps its own.
Filled(slots, present, next) ==
  [i \in DOMAIN slots |->
     IF slots[i] \in Range(present)
     THEN next[Cardinality({j \in 1..i : slots[j] \in Range(present)})]
     ELSE slots[i]]

\* moveProviderInOrder
Move(i, j) ==
  LET present == Resolved(settings)
      next == Swapped(present, i, j)
  IN  /\ {i, j} \subseteq DOMAIN present /\ (j = i + 1 \/ j = i - 1)
      /\ Change([settings EXCEPT !.order = Filled(Slots(settings, present), present, next)],
                [kind |-> "move", group |-> present[i], was |-> settings, shown |-> present, next |-> next])

Reset ==
  /\ settings # NoSettings
  /\ Change(NoSettings, None)

-----------------------------------------------------------------------------
(* What happens meanwhile *)

HostChanges ==
  /\ registered' \in SUBSET Range(Roster)
  /\ pools' \in SUBSET Range(Pool)
  /\ done' = None
  /\ UNCHANGED <<settings, stored, clicks>>

Reload ==
  /\ settings' = stored
  /\ done' = None
  /\ UNCHANGED <<registered, pools, stored, clicks>>

Next ==
  \/ \E g \in Id : Click(g)
  \/ \E i, j \in 1..Cardinality(Id) : Move(i, j)
  \/ Reset \/ HostChanges \/ Reload

-----------------------------------------------------------------------------
(* Properties *)

\* The groups shown that stand before an id that is not.
Before(s, present, id) ==
  LET slots == Slots(s, present)
  IN  {g \in Range(present) : \E i, j \in DOMAIN slots : i < j /\ slots[i] = g /\ slots[j] = id}

\* Whatever the settings hold and whoever is there, every group is shown exactly once; a
\* move shows exactly the step the user asked for, and leaves every id that is not there
\* between as many groups as before, visibility as it was; and a click on a box changes
\* that box and no other - but that a provider hidden while it was one group hides its
\* pools, whose boxes then do nothing.
ClicksCount ==
  /\ Cardinality(Range(Resolved(settings))) = Len(Resolved(settings))
  /\ Range(Resolved(settings)) = Range(Groups)
  /\ done # None /\ done.kind = "move" =>
       /\ Resolved(settings) = done.next
       /\ settings.hidden = done.was.hidden
       /\ \A id \in Range(done.was.order) \ Range(done.shown) :
            id \in Range(Slots(done.was, done.shown)) =>
              /\ id \in Range(settings.order)
              /\ Cardinality(Before(settings, done.next, id)) = Cardinality(Before(done.was, done.shown, id))
  /\ done # None /\ done.kind = "click" =>
       /\ Resolved(settings) = done.shown
       /\ \A g \in Range(done.shown) :
            Visible(settings, g) = IF g = done.group /\ ~(Len(g) = 2 /\ <<g[1]>> \in done.was.hidden)
                                   THEN done.visible
                                   ELSE Visible(done.was, g)
=============================================================================
