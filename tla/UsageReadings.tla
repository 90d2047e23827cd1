---------------------------- MODULE UsageReadings ----------------------------
(***************************************************************************)
(* What a vendor says of its limits, on its way to the browser's panel:    *)
(* each provider's normalizer (usage.ts, usage-command.ts, usage-billing.ts*)
(* of the providers), the contract every snapshot must meet (contract.ts), *)
(* the projection the browser is sent (public-projection.ts) and the       *)
(* groups it shows (usage-group-model.ts).                                 *)
(*                                                                         *)
(* Claude also names meters that are checked and dropped: its connected    *)
(* apps (seven_day_oauth_apps) and the entries of model_scoped give no     *)
(* window.                                                                 *)
(*                                                                         *)
(* Abstracted: a payload is the sequence of its meters; a percentage is    *)
(* one of a few; labels, resets, tiers and extra usage are left out; an    *)
(* account without limits is one without meters; what else a vendor may    *)
(* get wrong is one flag.                                                  *)
(***************************************************************************)
EXTENDS Integers, SequencesExt

CONSTANTS
  Number,        \* percentages a meter may carry, some outside 0..100
  MaxMeters,     \* bound: meters of a payload
  MaxReadings,   \* bound: readings ever taken
  None

Provider == {"codex", "claude", "antigravity", "grok"}
Kind == {"SHORT", "WEEKLY"}

VARIABLES
  payload,       \* what the vendor of each snapshot said
  cached,        \* UsageService: the snapshot of each provider
  readings       \* how many were taken

readingVars == <<payload, cached, readings>>

Init ==
  /\ payload = [p \in Provider |-> None]
  /\ cached = [p \in Provider |-> None]
  /\ readings = 0

-----------------------------------------------------------------------------
(* What a vendor may say.  Antigravity names its buckets as it likes, or not; the others' *)
(* meters are told apart by their place in the answer.                                    *)

Meter(p) == {m \in
  [scope : CASE p = "codex" -> {"PROVIDER", "BUCKET"}
             [] p = "claude" -> {"PROVIDER", "MODEL", "CONNECTED_APPS", "MODEL_SCOPED"}
             [] p = "antigravity" -> {"BUCKET"}
             [] p = "grok" -> {"PROVIDER"},
   pool : IF p = "antigravity" THEN {1, 2} ELSE {1},
   name : IF p = "antigravity" THEN {None, 1} ELSE {None},
   kind : Kind, number : Number \cup {None}] :
  m.scope \in {"MODEL", "CONNECTED_APPS", "MODEL_SCOPED"} => m.kind = "WEEKLY"}

\* Claude names one window of each kind and one meter of the apps; the others may say more.
Sayable(p, meters) ==
  p = "claude" => \A i, j \in DOMAIN meters :
    i # j /\ meters[i].scope \in {"PROVIDER", "CONNECTED_APPS"} =>
      <<meters[i].scope, meters[i].kind>> # <<meters[j].scope, meters[j].kind>>

\* wellFormed: no other field is out of its range or of the wrong type; of grok, that its
\* period is open.
Payload(p) ==
  [meters : {m \in SeqOf(Meter(p), IF p = "grok" THEN 1 ELSE MaxMeters) : Sayable(p, m)},
   wellFormed : BOOLEAN]

-----------------------------------------------------------------------------
(* The providers' normalizers: a snapshot, or None where they throw *)

Clamp(n) == IF n < 0 THEN 0 ELSE IF n > 100 THEN 100 ELSE n
InRange(n) == n \in 0..100

Snapshot(status, windows) == [status |-> status, windows |-> windows]

Window(meter, id, used) ==
  [id |-> id, kind |-> meter.kind, scope |-> meter.scope, pool |-> meter.pool, used |-> used]

\* normalizeCodexRateLimits: every percentage is there and in its range, or nothing is said.
Codex(said) ==
  IF said.wellFormed /\ \A i \in DOMAIN said.meters : InRange(said.meters[i].number)
  THEN Snapshot("AVAILABLE", [i \in DOMAIN said.meters |-> Window(said.meters[i], i, said.meters[i].number)])
  ELSE None

\* The meters Claude's normalizer adds a window for: not those it only checks.
GivesWindow(meter) == meter.scope \notin {"CONNECTED_APPS", "MODEL_SCOPED"}

\* parsePercent; the percentage of a model_scoped entry may exceed 100.
Acceptable(meter) ==
  \/ meter.number = None
  \/ InRange(meter.number)
  \/ meter.scope = "MODEL_SCOPED" /\ meter.number >= 0

\* normalizeClaudeUsage: every meter is checked, and a window may lack its percentage.
Claude(said) ==
  LET shown == SelectSeq(said.meters, GivesWindow)
  IN  IF said.wellFormed /\ \A i \in DOMAIN said.meters : Acceptable(said.meters[i])
      THEN Snapshot("AVAILABLE", [i \in DOMAIN shown |-> Window(shown[i], i, shown[i].number)])
      ELSE None

\* usageWindowsFrom: a bucket without a finite fraction is no window.
NumberedBuckets(meters) == SelectSeq(meters, LAMBDA m : m.number # None)

\* normalizeAntigravityCapability: the windows are named as the buckets are, or by their place.
Antigravity(said) ==
  LET buckets == NumberedBuckets(said.meters)
      id(i) == IF buckets[i].name = None THEN <<"place", i>> ELSE <<"name", buckets[i].name>>
  IN  IF ~said.wellFormed THEN None
      ELSE IF buckets = <<>> THEN Snapshot("UNAVAILABLE", <<>>)
      ELSE Snapshot("AVAILABLE", [i \in DOMAIN buckets |-> Window(buckets[i], id(i), Clamp(buckets[i].number))])

\* usageWindowFromBilling: no number or no open period is no reading.
Billing(said) ==
  IF said.meters = <<>> \/ ~said.wellFormed \/ said.meters[1].number = None THEN <<>>
  ELSE <<Window(said.meters[1], 1, Clamp(said.meters[1].number))>>

\* normalizeGrokUsage
Grok(said) == Snapshot(IF Billing(said) = <<>> THEN "UNAVAILABLE" ELSE "AVAILABLE", Billing(said))

\* The collector of each provider.
Normalized(p, said) ==
  CASE p = "codex" -> Codex(said)
    [] p = "claude" -> Claude(said)
    [] p = "antigravity" -> Antigravity(said)
    [] p = "grok" -> Grok(said)

\* parseProviderUsageSnapshot
\* Mutant: two windows may have one id.
MeetsContractTwice(s) == TRUE
MeetsContract(s) ==
  /\ \A i, j \in DOMAIN s.windows : s.windows[i].id = s.windows[j].id => i = j
  /\ \A i \in DOMAIN s.windows : s.windows[i].used # None => InRange(s.windows[i].used)
  /\ s.status # "AVAILABLE" => s.windows = <<>>

\* A refresh: what throws leaves the cache as it is.
Collect(p) ==
  /\ readings < MaxReadings
  /\ readings' = readings + 1
  /\ \E said \in Payload(p) :
       LET s == Normalized(p, said)
       IN  /\ s # None /\ MeetsContract(s)
           /\ cached' = [cached EXCEPT ![p] = s]
           /\ payload' = [payload EXCEPT ![p] = said]

\* invalidateProvider, and a provider that is unregistered.
Forget(p) ==
  /\ cached[p] # None
  /\ cached' = [cached EXCEPT ![p] = None]
  /\ payload' = [payload EXCEPT ![p] = None]
  /\ UNCHANGED readings

Next == \E p \in Provider : Collect(p) \/ Forget(p)

-----------------------------------------------------------------------------
(* What the browser is sent, and shows *)

\* projectProviderUsageForPublic throws over a window without a percentage.
Projects(s) == \A i \in DOMAIN s.windows : s.windows[i].used # None
Public(s) == [i \in DOMAIN s.windows |-> [remaining |-> 100 - s.windows[i].used] @@ s.windows[i]]

\* getCachedProviders answers for all that are cached, or throws.
Listed == {p \in Provider : cached[p] # None}
ListThrows == \E p \in Listed : ~Projects(cached[p])

\* buildUsageGroups: a provider's own windows, with the buckets of another kind, are one
\* group; Antigravity's pools are a group each.
Own(p) ==
  LET windows == Range(Public(cached[p]))
      own == {w \in windows : w.scope = "PROVIDER"}
  IN  IF p = "antigravity" THEN own
      ELSE own \cup {w \in windows : w.scope = "BUCKET" /\ \A o \in own : o.kind # w.kind}

Pools(p) ==
  IF p # "antigravity" THEN {}
  ELSE {{w \in Range(Public(cached[p])) : w.scope = "BUCKET" /\ w.pool = pool} : pool \in {1, 2}} \ {{}}

Groups(p) ==
  LET groups == Pools(p) \cup ({Own(p)} \ {{}})
  IN  IF groups = {} THEN {{}} ELSE groups

-----------------------------------------------------------------------------
(* Properties *)

\* The meters to be shown: those with a number, but for Claude's connected apps and its
\* model_scoped entries.
Numbered(p) ==
  {i \in DOMAIN payload[p].meters :
     payload[p].wellFormed /\ payload[p].meters[i].number # None
                           /\ payload[p].meters[i].scope \notin {"CONNECTED_APPS", "MODEL_SCOPED"}}

\* Claude says of one of its windows that there is one, and not how much of it is used.
ClaudeIncomplete ==
  /\ "claude" \in Listed
  /\ \E i \in DOMAIN payload["claude"].meters :
       /\ payload["claude"].meters[i].number = None
       /\ payload["claude"].meters[i].scope \in {"PROVIDER", "MODEL"}

\* What the panel shows is what the vendor said, all or nothing: a window for every meter
\* that has a number - but for Claude's connected apps and model_scoped entries, which are
\* only checked - and for no other, with that number within 0..100, under an id of its
\* own, in exactly one group - but for a bucket of a kind the provider has a window of,
\* and the windows of one model, which no group has.  A listing of all that is cached
\* fails over a window of Claude's without a number, and over nothing else.
ShownAsSaid ==
  /\ ListThrows <=> ClaudeIncomplete
  /\ \A p \in Listed : Projects(cached[p]) =>
       LET windows == Public(cached[p])
           meters == payload[p].meters
       IN  /\ Len(windows) = Cardinality(Numbered(p))
           /\ Cardinality({w.id : w \in Range(windows)}) = Len(windows)
           /\ \A i \in Numbered(p) : \E w \in Range(windows) :
                /\ w.used = Clamp(meters[i].number) /\ w.used + w.remaining = 100
                /\ w.kind = meters[i].kind /\ w.pool = meters[i].pool
           /\ \A w \in Range(windows) : \/ Cardinality({g \in Groups(p) : w \in g}) = 1
                                         \/ w.scope = "MODEL"
                                         \/ /\ w.scope = "BUCKET" /\ p # "antigravity"
                                            /\ \E o \in Range(windows) : o.scope = "PROVIDER" /\ o.kind = w.kind
=============================================================================
