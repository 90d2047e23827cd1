--------------------------- MODULE ModelVisibility ---------------------------
(***************************************************************************)
(* The models the user hides: the browser's storage, the settings section  *)
(* that edits it, the host that filters what it advertises                 *)
(* (core/client/model-visibility.ts, ModelVisibilitySection.tsx,           *)
(* registry/service.ts).                                                   *)
(*                                                                         *)
(* Abstracted: one window, whose connection carries calls in order; when   *)
(* it breaks, every call under way fails and those not yet handled are     *)
(* lost.  The host answers a read once the vendors listed their models.    *)
(***************************************************************************)
EXTENDS Naturals, Sequences, FiniteSets

CONSTANTS
  Model,
  MaxCalls,     \* calls of one window (bound)
  None

VARIABLES
  stored,       \* the hidden models in the browser's storage
  section,      \* the section shown: its mount, status and hidden models
  calls,        \* calls under way, in the order they were made
  made,         \* how many calls were made
  hidden,       \* the host's hidden models
  listed,       \* the hidden models DSH's catalogue was last built without
  wanted,       \* history: what the user last asked for, or what was there if that failed
  lost          \* history: a load's set failed, or the host handled one whose answer was lost

visibilityVars == <<stored, section, calls, made, hidden, listed, wanted, lost>>

\* A call is a set of the host's models, by a load or by a section; or a section's read.
\* "was" is what a set's section goes back to when it fails.
SetCall(mount, models, was) == [kind |-> "set", mount |-> mount, models |-> models, was |-> was, stage |-> "sent"]
GetCall(mount) == [kind |-> "get", mount |-> mount, models |-> {}, was |-> {}, stage |-> "sent"]

\* apply: the window tells the host what its storage holds.
Loaded(models) == <<SetCall(0, models, models)>>

Init ==
  /\ stored \in SUBSET Model
  /\ hidden \in SUBSET Model /\ listed = hidden
  /\ section = None /\ calls = Loaded(stored) /\ made = 1
  /\ wanted = stored /\ lost = FALSE

Loading(c) == c.kind = "set" /\ c.mount = 0
Call(c) == made < MaxCalls /\ made' = made + 1 /\ calls' = Append(calls, c)

\* The section reads the host once the window's own set has settled.
Mount ==
  /\ section = None
  /\ ~\E i \in DOMAIN calls : Loading(calls[i])
  /\ Call(GetCall(made))
  /\ section' = [mount |-> made, status |-> "loading", hidden |-> {}]
  /\ UNCHANGED <<stored, hidden, listed, wanted, lost>>

Unmount ==
  /\ section # None
  /\ section' = None
  /\ UNCHANGED <<stored, calls, made, hidden, listed, wanted, lost>>

\* Mutant: the checkboxes stay enabled while a change is saved.
MayCommitWhileSaving == section.status # "loading"

\* The checkboxes are there once the section has read the host's models.
MayCommit == section.status \notin {"loading", "saving"}

\* commit: a box is ticked, or all models are shown.
Commit ==
  /\ section # None /\ MayCommit
  /\ \E next \in {{}} \cup {section.hidden \cup {m} : m \in Model} \cup {section.hidden \ {m} : m \in Model} :
       /\ section.status = "unread" => next = {} /\ section.hidden # {}
       /\ Call(SetCall(section.mount, next, section.hidden))
       /\ section' = [section EXCEPT !.status = "saving", !.hidden = next]
       /\ stored' = next /\ wanted' = next
  /\ UNCHANGED <<hidden, listed, lost>>

-----------------------------------------------------------------------------
(* The host *)

Handled(i, models) == calls' = [calls EXCEPT ![i].stage = "answered", ![i].models = models]

\* Calls are handled as they arrive.
Arrives(i) == calls[i].stage = "sent" /\ \A j \in 1..(i - 1) : calls[j].stage # "sent"

\* Mutant: the sets are compared by their size alone.
SameSize(models) == Cardinality(models) = Cardinality(hidden)

Same(models) == models = hidden

\* setHiddenModels; DSH lists the models again when they changed.
HostSets ==
  \E i \in DOMAIN calls :
    /\ Arrives(i) /\ calls[i].kind = "set"
    /\ IF Same(calls[i].models) THEN UNCHANGED <<hidden, listed>> /\ Handled(i, hidden)
       ELSE hidden' = calls[i].models /\ listed' = hidden' /\ Handled(i, hidden')
    /\ UNCHANGED <<stored, section, made, wanted, lost>>

\* getModelVisibilityPublic: first the vendors' lists, then the hidden models.
HostReads ==
  \E i \in DOMAIN calls :
    /\ calls[i].kind = "get"
    /\ \/ Arrives(i) /\ calls' = [calls EXCEPT ![i].stage = "listing"]
       \/ calls[i].stage = "listing" /\ Handled(i, hidden)
    /\ UNCHANGED <<stored, section, made, hidden, listed, wanted, lost>>

-----------------------------------------------------------------------------
(* Answers *)

Shown(c) == section # None /\ section.mount = c.mount

SetAnswered(c, models) ==
  /\ stored' = IF Loading(c) THEN stored ELSE models
  /\ section' = IF Shown(c) /\ ~Loading(c) THEN [section EXCEPT !.status = "ready", !.hidden = models] ELSE section
  /\ lost' = FALSE
  /\ UNCHANGED wanted

GetAnswered(c, models) ==
  /\ section' = IF Shown(c) THEN [section EXCEPT !.status = "ready", !.hidden = models] ELSE section
  /\ UNCHANGED <<stored, wanted, lost>>

\* The calls but the i-th.
Without(i) == SubSeq(calls, 1, i - 1) \o SubSeq(calls, i + 1, Len(calls))

\* Answers arrive in the order they were given; no two of a window's sets are answered
\* otherwise than in the order of the calls.
Answer ==
  \E i \in DOMAIN calls :
    /\ calls[i].stage = "answered"
    /\ calls[i].kind = "set" => \A j \in 1..(i - 1) : calls[j].kind = "get"
    /\ calls' = Without(i)
    /\ IF calls[i].kind = "set" THEN SetAnswered(calls[i], calls[i].models)
       ELSE GetAnswered(calls[i], calls[i].models)
    /\ UNCHANGED <<made, hidden, listed>>

\* A call whose failure leaves the host without what the browser has, or the other way round.
Divides(c) == Loading(c) \/ (c.kind = "set" /\ c.stage = "answered")

Unread(shown) ==
  IF shown # None /\ shown.status = "loading" THEN [shown EXCEPT !.status = "unread"] ELSE shown

\* The connection breaks: the calls fail, in the order they were made, and each change the user
\* made is taken back, so that what the last of them began from is left.
Break ==
  /\ calls # <<>>
  /\ calls' = <<>>
  /\ lost' = (lost \/ \E i \in DOMAIN calls : Divides(calls[i]))
  /\ LET commits == {i \in DOMAIN calls : calls[i].kind = "set" /\ ~Loading(calls[i])} IN
     \/ commits = {} /\ section' = Unread(section) /\ UNCHANGED <<stored, wanted>>
     \/ \E i \in commits :
          /\ \A j \in commits : j <= i
          /\ stored' = calls[i].was /\ wanted' = calls[i].was
          /\ section' = IF Shown(calls[i]) THEN [section EXCEPT !.status = "error", !.hidden = calls[i].was]
                        ELSE Unread(section)
  /\ UNCHANGED <<made, hidden, listed>>

\* The window is loaded again.
Reload ==
  /\ made < MaxCalls
  /\ made' = made + 1
  /\ calls' = Loaded(stored) /\ section' = None
  /\ wanted' = stored
  /\ UNCHANGED <<stored, hidden, listed, lost>>

Next == Mount \/ Unmount \/ Commit \/ HostSets \/ HostReads \/ Answer \/ Break \/ Reload

Spec == Init /\ [][Next]_visibilityVars

-----------------------------------------------------------------------------
(* Properties *)

Writing == \E i \in DOMAIN calls : calls[i].kind = "set"

\* Once nothing is being saved, and unless the connection broke between a change and its
\* answer, the browser's storage, the host, DSH's catalogue and the section that is shown
\* agree on what the user last asked for.
AllAgree ==
  /\ listed = hidden
  /\ ~Writing /\ ~lost =>
       /\ wanted = stored /\ stored = hidden
       /\ section # None /\ section.status = "ready" => section.hidden = hidden
=============================================================================
