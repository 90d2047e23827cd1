------------------------------ MODULE MCParts ------------------------------
(* Parts that do not interact, or whose interaction another module models, *)
(* explored by TLC one at a time: only the part "part" names ever moves.   *)
(* Parts names the ones that are proved about.                             *)
EXTENDS Parts, TLC

CONSTANTS
  Letters, Key, Tag, Marked,                             \* ToolArguments
  Number, MaxMeters, MaxReadings,                        \* UsageReadings
  Pooled, MaxSaved, MaxClicks,                           \* SidebarSettings
  Topic, MaxLines, MaxBytes, MaxInitial, MaxEdits        \* MemoryMap

\* SidebarSettings: providers in the order the host lists them, and the pools of one.
Roster == <<"claude", Pooled>>
Pool == <<"first pool", "second pool">>

VARIABLES
  schema, wanted, sent, received,
  payload, snapshots, readings,
  listed, pools, settings, stored, clicks, done,
  file, foreign, added, shown, edits

threadVars == <<history, rewritten, replay, call, inFlight, activeTurns, child, disposed, thread,
                rollout, lost, late, failures>>
streamVars == <<turn, chunks, vendor>>
argumentsVars == <<schema, wanted, sent, received>>
registryVars == <<stage, descriptor, byId, byRoute, modelListers, adapters, hostUp, registered, cached>>
searchVars == <<search, query, installed, verified, pending, preflight>>
sourceVars == <<source, now, caller, process, shared, lastAttempt, last, collects, answered, newest>>
readingVars == <<payload, snapshots, readings>>
sidebarVars == <<listed, pools, settings, stored, clicks, done>>
visibilityVars == <<hiddenModels, section, calls, made, hidden, catalogue, asked, missed>>
presetVars == <<target, command, staged, backup, litter, edited, removed>>
mapVars == <<file, foreign, added, shown, edits>>
bridgeVars == <<provider, kept, wrote, callIds, repaired, reply, decision, steps>>
catalogVars == <<adapter, version, modelsCaller, aborted, load, loadChild, cachedModels, loads>>

Arguments == INSTANCE ToolArguments WITH Text <- Letters
Readings == INSTANCE UsageReadings WITH cached <- snapshots
Sidebar == INSTANCE SidebarSettings WITH registered <- listed
Memory == INSTANCE MemoryMap

Init ==
  /\ part \in {"codex thread", "codex stream", "tool arguments", "provider registry",
               "vendor search", "usage sources", "usage readings", "sidebar settings",
               "model visibility", "preset manager", "memory map", "bridge reply",
               "model catalog"}
  /\ IF part = "codex thread" THEN Thread!Init
     ELSE /\ history = None /\ rewritten = None /\ replay = None /\ call = None /\ inFlight = None
          /\ activeTurns = None /\ child = None /\ disposed = None /\ thread = None
          /\ rollout = None /\ lost = None /\ late = None /\ failures = None
  /\ IF part = "codex stream" THEN Stream!Init ELSE turn = None /\ chunks = None /\ vendor = None
  /\ IF part = "tool arguments" THEN Arguments!Init
     ELSE schema = None /\ wanted = None /\ sent = None /\ received = None
  /\ IF part = "provider registry" THEN Registry!Init
     ELSE /\ stage = None /\ descriptor = None /\ byId = None /\ byRoute = None
          /\ modelListers = None /\ adapters = None /\ hostUp = None /\ registered = None
          /\ cached = None
  /\ IF part = "vendor search" THEN Search!Init
     ELSE /\ search = None /\ query = None /\ installed = None /\ verified = None
          /\ pending = None /\ preflight = None
  /\ IF part = "usage sources" THEN Sources!Init
     ELSE /\ source = None /\ now = None /\ caller = None /\ process = None /\ shared = None
          /\ lastAttempt = None /\ last = None /\ collects = None /\ answered = None /\ newest = None
  /\ IF part = "usage readings" THEN Readings!Init
     ELSE payload = None /\ snapshots = None /\ readings = None
  /\ IF part = "sidebar settings" THEN Sidebar!Init
     ELSE /\ listed = None /\ pools = None /\ settings = None /\ stored = None /\ clicks = None
          /\ done = None
  /\ IF part = "model visibility" THEN Visibility!Init
     ELSE /\ hiddenModels = None /\ section = None /\ calls = None /\ made = None /\ hidden = None
          /\ catalogue = None /\ asked = None /\ missed = None
  /\ IF part = "preset manager" THEN Preset!Init
     ELSE /\ target = None /\ command = None /\ staged = None /\ backup = None /\ litter = None
          /\ edited = None /\ removed = None
  /\ IF part = "memory map" THEN Memory!Init
     ELSE file = None /\ foreign = None /\ added = None /\ shown = None /\ edits = None
  /\ IF part = "bridge reply" THEN Bridge!Init
     ELSE /\ provider = None /\ kept = None /\ wrote = None /\ callIds = None /\ repaired = None
          /\ reply = None /\ decision = None /\ steps = None
  /\ IF part = "model catalog" THEN Catalog!Init
     ELSE /\ adapter = None /\ version = None /\ modelsCaller = None /\ aborted = None
          /\ load = None /\ loadChild = None /\ cachedModels = None /\ loads = None

Next ==
  /\ UNCHANGED part
  /\ IF part = "codex thread" THEN Thread!Next ELSE UNCHANGED threadVars
  /\ IF part = "codex stream" THEN Stream!Next ELSE UNCHANGED streamVars
  /\ IF part = "tool arguments" THEN Arguments!Next ELSE UNCHANGED argumentsVars
  /\ IF part = "provider registry" THEN Registry!Next ELSE UNCHANGED registryVars
  /\ IF part = "vendor search" THEN Search!Next ELSE UNCHANGED searchVars
  /\ IF part = "usage sources" THEN Sources!Next ELSE UNCHANGED sourceVars
  /\ IF part = "usage readings" THEN Readings!Next ELSE UNCHANGED readingVars
  /\ IF part = "sidebar settings" THEN Sidebar!Next ELSE UNCHANGED sidebarVars
  /\ IF part = "model visibility" THEN Visibility!Next ELSE UNCHANGED visibilityVars
  /\ IF part = "preset manager" THEN Preset!Next ELSE UNCHANGED presetVars
  /\ IF part = "memory map" THEN Memory!Next ELSE UNCHANGED mapVars
  /\ IF part = "bridge reply" THEN Bridge!Next ELSE UNCHANGED bridgeVars
  /\ IF part = "model catalog" THEN Catalog!Next ELSE UNCHANGED catalogVars

\* Every instance has its interchangeable actors from one pair.
Interchangeable == Permutations(Session)

Spec == Init /\ [][Next]_<<part, threadVars, streamVars, argumentsVars, registryVars, searchVars,
                           sourceVars, readingVars, sidebarVars, visibilityVars, presetVars, mapVars, bridgeVars,
                           catalogVars>>

\* ToolArguments: DSH is handed the arguments the model wanted to give.
ArgumentsSurvive == part = "tool arguments" => Arguments!ArgumentsSurvive

\* UsageReadings: the panel shows what the vendor said.
ShownAsSaid == part = "usage readings" => Readings!ShownAsSaid

\* SidebarSettings: a click changes what it names and nothing else.
ClicksCount == part = "sidebar settings" => Sidebar!ClicksCount

\* MemoryMap: every topic has its one entry, and nothing else of the file changed.
MapKept == part = "memory map" => Memory!MapKept

\* MemoryMap: a session is shown as much of the file as the limits allow.
ShownIsLongest == part = "memory map" => Memory!ShownIsLongest
=============================================================================
