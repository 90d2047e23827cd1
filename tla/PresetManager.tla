---------------------------- MODULE PresetManager ----------------------------
(***************************************************************************)
(* The suite's commands that install, update and remove the Orchestrator   *)
(* preset in the user's preset directory (suite/src/preset-manager.ts).    *)
(* Commands of two terminals may interleave, any may be interrupted, every *)
(* file operation may fail.                                                *)
(*                                                                         *)
(* Abstracted: a tree is what its files are (a packaged version, the       *)
(* user's edit of one, a part of one) and what its marker records; the     *)
(* manifest comparison reads it in one step.  The user edits the preset    *)
(* only while no command runs.                                             *)
(***************************************************************************)
EXTENDS Naturals, FiniteSets, TLC

CONSTANTS
  Terminal,     \* where commands are run, one at a time in each
  Version,      \* versions of the suite's package
  None          \* nothing there, no marker

VARIABLES
  target,       \* the preset's directory
  command,      \* the command each terminal runs: what, of which version, how far
  staged,       \* its stage directory
  backup,       \* its backup directory
  litter,       \* stages and backups that interrupted commands left
  edited,       \* history: the user edited the preset
  removed       \* history: it is being removed, or was, and not installed alone since

presetVars == <<target, command, staged, backup, litter, edited, removed>>

Part == "part of a tree"
Edited == "edited by the user"
Whole(v) == [files |-> v, marker |-> v]
Idle == [name |-> None, version |-> None, step |-> "idle"]

Init ==
  /\ target \in {None, [files |-> Edited, marker |-> None]} \cup {Whole(v) : v \in Version}
  /\ command = [t \in Terminal |-> Idle]
  /\ staged = [t \in Terminal |-> None]
  /\ backup = [t \in Terminal |-> None]
  /\ litter = {}
  /\ edited = (target # None /\ target.files = Edited)
  /\ removed = (target = None)

-----------------------------------------------------------------------------

\* inspectOrchestratorPreset
State(version) ==
  CASE target = None -> "absent"
    [] target # None /\ target.marker = None -> "unmanaged"
    [] target # None /\ target.marker # None /\ target.files # target.marker -> "modified"
    [] OTHER -> IF target.marker = version THEN "current" ELSE "outdated"

\* Mutant: an update does not look for local changes.
ProceedsOverChanges(name, state) ==
  CASE name = "install" -> state = "absent"
    [] name = "update" -> state \in {"outdated", "modified"}
    [] name = "remove" -> state \in {"current", "outdated"}

\* In every other state the command returns or refuses.
Proceeds(name, state) ==
  CASE name = "install" -> state = "absent"
    [] name = "update" -> state = "outdated"
    [] name = "remove" -> state \in {"current", "outdated"}

Run(t) ==
  /\ command[t] = Idle
  /\ \E name \in {"install", "update", "remove"}, version \in Version :
       /\ Proceeds(name, State(version))
       /\ command' = [command EXCEPT ![t] =
            [name |-> name, version |-> version, step |-> IF name = "remove" THEN "remove" ELSE "stage"]]
       /\ removed' = (removed \/ name = "remove")
  /\ UNCHANGED <<target, staged, backup, litter, edited>>

At(t, step) == command[t].step = step
Goto(t, step) == command' = [command EXCEPT ![t].step = step]
End(t) == command' = [command EXCEPT ![t] = Idle]
Histories == UNCHANGED <<litter, edited, removed>>

\* stageManagedPreset: the copy is not there until its marker is.
StageBegins(t) ==
  /\ At(t, "stage") /\ staged[t] = None
  /\ staged' = [staged EXCEPT ![t] = [files |-> Part, marker |-> None]]
  /\ UNCHANGED <<target, command, backup>> /\ Histories
StageEnds(t) ==
  /\ At(t, "stage") /\ staged[t] # None
  /\ \/ /\ staged' = [staged EXCEPT ![t] = Whole(command[t].version)]
        /\ Goto(t, IF command[t].name = "install" THEN "install" ELSE "back up")
     \/ staged' = [staged EXCEPT ![t] = None] /\ End(t)
  /\ UNCHANGED <<target, backup>> /\ Histories

\* A directory is renamed onto nothing only.
Install(t) ==
  /\ At(t, "install")
  /\ staged' = [staged EXCEPT ![t] = None]
  /\ End(t)
  /\ \/ /\ target = None
        /\ target' = staged[t]
        /\ removed' = (removed /\ \E u \in Terminal \ {t} : command[u] # Idle)
     \/ UNCHANGED <<target, removed>>
  /\ UNCHANGED <<backup, litter, edited>>

BackUp(t) ==
  /\ At(t, "back up")
  /\ \/ /\ target # None
        /\ backup' = [backup EXCEPT ![t] = target] /\ target' = None
        /\ Goto(t, "replace") /\ UNCHANGED staged
     \/ staged' = [staged EXCEPT ![t] = None] /\ End(t) /\ UNCHANGED <<target, backup>>
  /\ Histories

Replace(t) ==
  /\ At(t, "replace")
  /\ \/ /\ target = None
        /\ target' = staged[t] /\ staged' = [staged EXCEPT ![t] = None]
        /\ Goto(t, "clean")
     \/ Goto(t, "restore") /\ UNCHANGED <<target, staged>>
  /\ UNCHANGED backup /\ Histories

\* The backup is put back; if that fails too it stays where it is.
Restore(t) ==
  /\ At(t, "restore")
  /\ \/ /\ target = None
        /\ target' = backup[t] /\ backup' = [backup EXCEPT ![t] = None]
        /\ UNCHANGED litter
     \/ /\ litter' = litter \cup {backup[t]} /\ backup' = [backup EXCEPT ![t] = None]
        /\ UNCHANGED target
  /\ staged' = [staged EXCEPT ![t] = None]
  /\ End(t)
  /\ UNCHANGED <<edited, removed>>

Clean(t) ==
  /\ At(t, "clean")
  /\ backup' = [backup EXCEPT ![t] = None]
  /\ End(t)
  /\ UNCHANGED <<target, staged>> /\ Histories

\* rm takes the files one by one, the marker among them.
RemoveSome(t) ==
  /\ At(t, "remove") /\ target # None
  /\ target' \in {[files |-> Part, marker |-> m] : m \in {None, target.marker}}
  /\ UNCHANGED <<command, staged, backup, litter, edited, removed>>
RemoveEnds(t) ==
  /\ At(t, "remove")
  /\ target' \in {None, target}
  /\ End(t)
  /\ UNCHANGED <<staged, backup, litter, edited, removed>>

\* The command is killed, or the host goes down.
Interrupt(t) ==
  /\ command[t] # Idle
  /\ End(t)
  /\ litter' = litter \cup ({staged[t], backup[t]} \ {None})
  /\ staged' = [staged EXCEPT ![t] = None] /\ backup' = [backup EXCEPT ![t] = None]
  /\ UNCHANGED <<target, edited, removed>>

Edit ==
  /\ \A t \in Terminal : command[t] = Idle
  /\ target # None /\ target.files # Part
  /\ target' = [target EXCEPT !.files = Edited]
  /\ edited' = TRUE
  /\ UNCHANGED <<command, staged, backup, litter, removed>>

Next ==
  \/ Edit
  \/ \E t \in Terminal :
       \/ Run(t) \/ StageBegins(t) \/ StageEnds(t) \/ Install(t) \/ BackUp(t) \/ Replace(t)
       \/ Restore(t) \/ Clean(t) \/ RemoveSome(t) \/ RemoveEnds(t) \/ Interrupt(t)

Spec == Init /\ [][Next]_presetVars

-----------------------------------------------------------------------------
(* Properties *)

Kept == ({target} \cup litter \cup {backup[t] : t \in Terminal}) \ {None}

\* What the user has is never lost: his edits stay where they are, and as long as nothing
\* is being removed a whole preset is in the preset's directory or in a backup beside it,
\* whichever commands interleave, fail or are interrupted; and the directory never shows
\* a part of a preset.
NothingLost ==
  /\ edited => target # None /\ target.files = Edited
  /\ ~removed => \E tree \in Kept : tree.files # Part
  /\ ~removed /\ target # None => target.files # Part
=============================================================================
