------------------------------- MODULE Parts -------------------------------
(* The parts that are proved about as well as explored: each an instance with *)
(* state of its own, and what each promises. Only one part moves in a         *)
(* behaviour of MCParts, the one "part" names, so that each promise is made   *)
(* of that part's behaviours; PartsProofs and CodexThreadProofs prove         *)
(* promises from the parts' own specifications.                               *)
EXTENDS Naturals, Sequences, FiniteSets

CONSTANTS
  None,
  Load, Identity, Route,                                 \* ProviderRegistry
  Searcher, Query, Executable, MaxPreflights, MaxQueries,\* VendorSearch
  Caller, Floor, MaxTime, MaxProcesses, MaxCollects,     \* UsageSources
  Model, MaxCalls,                                       \* ModelVisibility
  Terminal, Version,                                     \* PresetManager
  MaxLoads, MaxVersions,                                 \* ModelCatalog, with Caller
  CallId, Empty, MaxSteps,                               \* BridgeReply
  Session, MaxFailures, MaxAuxiliary, MaxInFlight,       \* CodexThread, with MaxSteps
  Item, MaxPieces, MaxRetrying                           \* CodexStream

VARIABLES
  part,
  stage, descriptor, byId, byRoute, modelListers, adapters, hostUp, registered, cached,
  search, query, installed, verified, pending, preflight,
  source, now, caller, process, shared, lastAttempt, last, collects, answered, newest,
  hiddenModels, section, calls, made, hidden, catalogue, asked, missed,
  target, command, staged, backup, litter, edited, removed,
  adapter, version, modelsCaller, aborted, load, loadChild, cachedModels, loads,
  provider, kept, wrote, callIds, repaired, reply, decision, steps,
  history, rewritten, replay, call, inFlight, activeTurns, child, disposed, thread, rollout,
    lost, late, failures,
  turn, chunks, vendor

Registry == INSTANCE ProviderRegistry WITH Provider <- Identity
Search == INSTANCE VendorSearch WITH Call <- Searcher, call <- search
Sources == INSTANCE UsageSources WITH MaxCalls <- MaxCollects, inFlight <- shared, calls <- collects
Visibility == INSTANCE ModelVisibility WITH stored <- hiddenModels, listed <- catalogue,
                                            wanted <- asked, lost <- missed
Preset == INSTANCE PresetManager
Catalog == INSTANCE ModelCatalog WITH provider <- adapter, caller <- modelsCaller,
                                      child <- loadChild, cached <- cachedModels
Bridge == INSTANCE BridgeReply
Thread == INSTANCE CodexThread
Stream == INSTANCE CodexStream

-----------------------------------------------------------------------------
(* The types the assumptions below speak of *)

\* ModelCatalog: what a load came to, and a load.
OutcomeState == [is : {"models", "failed", "aborted"}, models : Nat \cup {None}]
LoadState == [owner : Caller, attempt : {1, 2}, outcome : OutcomeState \cup {None}]

\* PresetManager: a directory holding a preset, whole, partly copied or edited.
Tree == [files : Version \cup {Preset!Part, Preset!Edited}, marker : Version \cup {None}]

\* ModelVisibility: a mounted settings section.
SectionStatus == {"loading", "ready", "saving", "error", "unread"}
Sections == [mount : Nat, status : SectionStatus, hidden : SUBSET Model]

-----------------------------------------------------------------------------
(* Assumptions: in each part the sentinel None is none of the values it stands *)
(* beside, as null and undefined are none in the code; the floor is a number.  *)

ASSUME RegistryAssumption == None \notin Load /\ None \notin Registry!Descriptor

ASSUME SearchAssumption == None \notin Executable /\ None \notin Search!Outcome /\ None \notin Nat

ASSUME SourcesAssumption ==
  Floor \in Nat /\ None \notin Nat /\ None \notin {"AVAILABLE", "UNAVAILABLE", "LOGIN_REQUIRED", "ERROR"}

ASSUME CatalogAssumption ==
  None \notin Caller /\ None \notin Nat /\ None \notin LoadState /\ None # "running"

ASSUME PresetAssumption ==
  None \notin Version /\ Preset!Part \notin Version /\ Preset!Edited \notin Version /\ None \notin Tree

ASSUME VisibilityAssumption == None \notin Sections

\* The ids a model writes are strings, the empty one too; DSH's own are numbers here.
ASSUME BridgeAssumption ==
  CallId # {} /\ None \notin CallId \cup {Empty} /\ \A id \in CallId \cup {Empty} : id \notin Nat

\* CodexThread: the number of steps is one; no turn, session or replay state is null.
ASSUME ThreadAssumption ==
  /\ MaxSteps \in Nat
  /\ None \notin Thread!Step /\ None \notin Session /\ None \notin Thread!ReplayState
  /\ None \notin Thread!Message

\* CodexStream: a block has a number and a phase, or as yet none.
ASSUME StreamAssumption == None \notin Nat /\ None # "commentary"

-----------------------------------------------------------------------------
(* What each part promises *)

\* ProviderRegistry: every load that is present serves its id and its routes, and nothing of a
\* load that failed or is gone is left.
PresentServes == part = "provider registry" => Registry!PresentServes /\ Registry!GoneLeavesNothing

\* ProviderRegistry: the usage the host shows is the registered provider's.
RosterFollowsRegistry == part = "provider registry" => Registry!RosterFollowsRegistry

\* VendorSearch: when the tool has answered, no directory and no child of it is left, and only
\* the caller's own abort is reported as one.
NothingOutlives == part = "vendor search" => Search!NothingOutlives /\ Search!OwnAbort

\* VendorSearch: a codex search runs only a verified executable.
VerifiedRuns == part = "vendor search" => Search!VerifiedRuns

\* UsageSources: few vendor processes, however many callers, and no answer goes back behind what
\* was served before.
Bounded == part = "usage sources" => Sources!Bounded /\ Sources!Newest

\* ModelVisibility: storage, section, host and catalogue come to agree.
AllAgree == part = "model visibility" => Visibility!AllAgree

\* PresetManager: the commands lose neither the preset nor the user's edits.
NothingLost == part = "preset manager" => Preset!NothingLost

\* ModelCatalog: one load at a time, whose abort is told only to those it concerns.
CatalogAnswers == part = "model catalog" => Catalog!CatalogAnswers

\* BridgeReply: a decision is read of what decides, and calls are told apart.
RepliesRead == part = "bridge reply" => Bridge!RepliesRead

\* CodexThread: one turn of a thread at a time, every variable of its type, and dispose leaves
\* no turn's process running.
Consistent == part = "codex thread" => Thread!Consistent /\ Thread!DisposeClosesAll

\* CodexThread: a turn runs on a thread that has heard DSH's history and nothing else.
HeardHistory == part = "codex thread" => Thread!HeardHistory

\* CodexStream: what DSH reads of a codex turn is one well-formed message.
WellFormed == part = "codex stream" => Stream!WellFormed
=============================================================================
