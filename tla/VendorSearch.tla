---------------------------- MODULE VendorSearch ----------------------------
(***************************************************************************)
(* One web_search call runs its queries at once, each in a vendor child    *)
(* and a temporary directory of its own (core/web-search/tool.ts, and the  *)
(* web-search-backend.ts of the three providers).  Codex first verifies    *)
(* the executable, in a preflight that concurrent searches share.          *)
(*                                                                         *)
(* Abstracted: what a child prints (SearchStreams), and the POSIX          *)
(* invocation only.  DSH's tool service, which aborts a call and times it  *)
(* out, and the subprocess service are external.                           *)
(***************************************************************************)
EXTENDS Naturals, Sequences, FiniteSets

CONSTANTS
  Call,           \* calls of the tool
  Query,          \* queries of a call
  Executable,     \* paths the codex command may resolve to
  MaxPreflights,  \* bound: preflights ever started
  MaxQueries,     \* bound: queries ever started
  None

Backend == {"codex", "grok", "antigravity"}
Preflight == 1 .. MaxPreflights

\* How a query or a call ends: "failed" is every code but WEB_SEARCH_ABORTED.
Outcome == {"ok", "failed", "aborted"}

VARIABLES
  call,           \* each call: its backend, its queries and how far it is
  query,          \* each query of each call
  installed,      \* what the codex command resolves to now
  verified,       \* codex: the executable verified last
  pending,        \* codex: the preflight new searches join
  preflight       \* codex: the preflights started so far

vars == <<call, query, installed, verified, pending, preflight>>

NoQuery == [stage |-> "idle", code |-> None, exe |-> None, on |-> None,
            dir |-> FALSE, child |-> "none"]

Init ==
  /\ call = [c \in Call |-> [stage |-> "idle", backend |-> None, queries |-> {},
                             aborted |-> FALSE, batchAborted |-> FALSE, outcome |-> None]]
  /\ query = [c \in Call |-> [q \in Query |-> NoQuery]]
  /\ installed \in Executable
  /\ verified = None
  /\ pending = None
  /\ preflight = <<>>

-----------------------------------------------------------------------------
(* The call *)

Started == UNION {{c} \X call[c].queries : c \in Call}

\* Each query's signal is the call's, joined in a batch with the batch's own.
Aborted(c) == call[c].aborted \/ call[c].batchAborted

Set(c, q, next) == query' = [query EXCEPT ![c][q] = next]

\* execute: the backend is the one registered for the session's provider at this moment.
Start(c) ==
  /\ call[c].stage = "idle"
  /\ \E b \in Backend \cup {None}, qs \in (SUBSET Query) \ {{}} :
       /\ Cardinality(Started) + Cardinality(qs) <= MaxQueries
       /\ call' = [call EXCEPT ![c] = [stage |-> "running", backend |-> b, queries |-> qs,
                     aborted |-> FALSE, batchAborted |-> FALSE, outcome |-> None]]
       /\ query' = [query EXCEPT ![c] =
            [q \in Query |-> IF q \notin qs THEN NoQuery
                             ELSE IF b = None THEN [NoQuery EXCEPT !.stage = "removing", !.code = "failed"]
                             ELSE [NoQuery EXCEPT !.stage = "opening"]]]
  /\ UNCHANGED <<installed, verified, pending, preflight>>

\* The caller stops, or the tool's time is up.
Abort(c) ==
  /\ call[c].stage = "running" /\ ~call[c].aborted
  /\ call' = [call EXCEPT ![c].aborted = TRUE]
  /\ UNCHANGED <<query, installed, verified, pending, preflight>>

\* Mutant: the failure a batch reports is the last one.
KeepLast(c, code) == IF code = "ok" THEN call[c].outcome ELSE code

\* The failure a batch reports is its first one.
KeepFirst(c, code) ==
  IF code = "ok" \/ call[c].outcome # None THEN call[c].outcome ELSE code

\* The directory is removed and the query settles; in a batch its failure aborts its
\* siblings.
Settle(c, q) ==
  /\ query[c][q].stage = "removing"
  /\ Set(c, q, [query[c][q] EXCEPT !.stage = "done", !.dir = FALSE, !.on = None])
  /\ LET code == query[c][q].code
     IN  call' = [call EXCEPT ![c].outcome = KeepFirst(c, code),
                              ![c].batchAborted = @ \/ (code # "ok" /\ Cardinality(call[c].queries) > 1)]
  /\ UNCHANGED <<installed, verified, pending, preflight>>

\* Mutant: Promise.all in place of Promise.allSettled.
ReturnOnFailure(c) ==
  /\ call[c].stage = "running"
  /\ \/ call[c].outcome # None
     \/ \A q \in call[c].queries : query[c][q].stage = "done"
  /\ call' = [call EXCEPT ![c].stage = "done", ![c].outcome = IF @ = None THEN "ok" ELSE @]
  /\ UNCHANGED <<query, installed, verified, pending, preflight>>

Return(c) ==
  /\ call[c].stage = "running"
  /\ \A q \in call[c].queries : query[c][q].stage = "done"
  /\ call' = [call EXCEPT ![c].stage = "done", ![c].outcome = IF @ = None THEN "ok" ELSE @]
  /\ UNCHANGED <<query, installed, verified, pending, preflight>>

-----------------------------------------------------------------------------
(* A query: the caller's abort is told from the vendor's failure *)

FailureCode(c) == IF Aborted(c) THEN "aborted" ELSE "failed"
Rest == UNCHANGED <<call, installed, verified, pending, preflight>>
Leave(c, q, code) == Set(c, q, [query[c][q] EXCEPT !.stage = "removing", !.code = code])

\* The temporary directory and its files.
Open(c, q) ==
  /\ query[c][q].stage = "opening"
  /\ \/ Set(c, q, [query[c][q] EXCEPT !.stage = "resolving", !.dir = TRUE])
     \/ Leave(c, q, "failed")
     \/ Set(c, q, [query[c][q] EXCEPT !.stage = "removing", !.dir = TRUE, !.code = "failed"])
  /\ Rest

\* Nothing is awaited between the executable and its spawn.
Spawn(c, q, exe) ==
  \/ Set(c, q, [query[c][q] EXCEPT !.stage = "reading", !.exe = exe, !.child = "alive"])
  \/ Leave(c, q, FailureCode(c))

Resolve(c, q) ==
  /\ query[c][q].stage = "resolving" /\ call[c].backend # "codex"
  /\ Spawn(c, q, None)
  /\ Rest

\* Antigravity resolves its command outside the try that names the failure.
ResolveFails(c, q) ==
  /\ query[c][q].stage = "resolving"
  /\ Leave(c, q, IF call[c].backend = "antigravity" THEN "failed" ELSE FailureCode(c))
  /\ Rest

\* What reading the child's output comes to.  Grok looks at its signal when the child is
\* gone and before the answer; the others keep an answer that came first.  The timer of
\* their own that Grok and Antigravity have is a failure.
Readings(c) ==
  LET given == {"ok", "failed"}
  IN  CASE ~Aborted(c) -> given
        [] Aborted(c) /\ call[c].backend = "grok" -> {"aborted"}
        [] OTHER -> given \cup {"aborted"}

Read(c, q) ==
  /\ query[c][q].stage = "reading"
  /\ \E code \in Readings(c) : Set(c, q, [query[c][q] EXCEPT !.stage = "disposing", !.code = code])
  /\ Rest

\* disposeVendorChild waits for the exit and may fail, which never hides the failure of
\* the operation; AgyTurnProcess.close gives up waiting after the grace.
Dispose(c, q) ==
  /\ query[c][q].stage = "disposing"
  /\ \/ Set(c, q, [query[c][q] EXCEPT !.stage = "removing", !.child = "gone"])
     \/ /\ call[c].backend = "antigravity"
        /\ Set(c, q, [query[c][q] EXCEPT !.stage = "removing", !.child = "terminated"])
     \/ /\ call[c].backend # "antigravity"
        /\ Set(c, q, [query[c][q] EXCEPT !.stage = "removing", !.child = "terminated",
                                          !.code = IF @ = "ok" THEN "failed" ELSE @])
  /\ Rest

-----------------------------------------------------------------------------
(* The codex preflight *)

\* Mutant: a search joins the preflight under way, whatever it verifies.
JoinsAny(exe) == pending # None
Joins(exe) == pending # None /\ preflight[pending].exe = exe

\* Resolve the command and make sure of what it resolved to: at once, or by joining or
\* starting a preflight.  A caller that is aborted already leaves after that.
Ensure(c, q) ==
  /\ query[c][q].stage = "resolving" /\ call[c].backend = "codex"
  /\ LET exe == installed
         wait(p) == IF Aborted(c)
                    THEN Leave(c, q, "aborted")
                    ELSE Set(c, q, [query[c][q] EXCEPT !.stage = "waiting", !.exe = exe, !.on = p])
     IN  CASE verified = exe ->
                Spawn(c, q, exe) /\ UNCHANGED <<pending, preflight>>
           [] verified # exe /\ Joins(exe) ->
                wait(pending) /\ UNCHANGED <<pending, preflight>>
           [] OTHER ->
                /\ Len(preflight) < MaxPreflights
                /\ preflight' = Append(preflight, [exe |-> exe, stage |-> "running", good |-> FALSE])
                /\ pending' = Len(preflight) + 1
                /\ wait(Len(preflight) + 1)
  /\ UNCHANGED <<call, installed, verified>>

\* initialize answers, or fails, or its own 30 seconds are up; the connection is closed.
Verify(p, good) ==
  /\ preflight[p].stage = "running"
  /\ preflight' = [preflight EXCEPT ![p].stage = "clearing", ![p].good = good]
  /\ verified' = IF good THEN preflight[p].exe ELSE verified
  /\ UNCHANGED <<call, query, installed, pending>>

\* Its directory is removed, and nobody joins it any more, unless a newer one replaced it.
Clear(p) ==
  /\ preflight[p].stage = "clearing"
  /\ preflight' = [preflight EXCEPT ![p].stage = "settled"]
  /\ pending' = IF pending = p THEN None ELSE pending
  /\ UNCHANGED <<call, query, installed, verified>>

\* waitForPromise: the caller's abort rejects this caller only.
Wait(c, q) ==
  /\ query[c][q].stage = "waiting"
  /\ LET p == preflight[query[c][q].on]
     IN  \/ /\ p.stage = "settled" /\ p.good
            /\ Spawn(c, q, query[c][q].exe)
         \/ /\ Aborted(c) \/ (p.stage = "settled" /\ ~p.good)
            /\ Leave(c, q, FailureCode(c))
  /\ Rest

\* The command resolves to another path: an upgrade, another PATH.
Reinstall ==
  /\ installed' \in Executable \ {installed}
  /\ UNCHANGED <<call, query, verified, pending, preflight>>

Next ==
  \/ Reinstall
  \/ \E p \in DOMAIN preflight : Clear(p) \/ \E good \in BOOLEAN : Verify(p, good)
  \/ \E c \in Call :
       \/ Start(c) \/ Abort(c) \/ Return(c)
       \/ \E q \in call[c].queries :
            \/ Open(c, q) \/ Resolve(c, q) \/ ResolveFails(c, q) \/ Ensure(c, q) \/ Wait(c, q)
            \/ Read(c, q) \/ Dispose(c, q) \/ Settle(c, q)

Spec == Init /\ [][Next]_vars

-----------------------------------------------------------------------------
(* Properties *)

TypeOK ==
  /\ verified \in Executable \cup {None} /\ installed \in Executable
  /\ pending \in DOMAIN preflight \cup {None}
  /\ \A c \in Call : call[c].outcome \in Outcome \cup {None}

\* When the tool has answered, nothing of its call is left: every query has settled, its
\* directory is gone, and its child with it - or was told to end, when the failure of the
\* cleanup is what the query reports, or antigravity's grace ran out.
NothingOutlives ==
  /\ TypeOK
  /\ \A c \in Call : call[c].stage = "done" => \A q \in call[c].queries :
       LET s == query[c][q]
       IN  /\ s.stage = "done" /\ ~s.dir /\ s.child # "alive"
           /\ s.child = "terminated" => call[c].backend = "antigravity" \/ s.code # "ok"

\* A codex search runs only an executable that a preflight has verified, even when the
\* command resolves to another one meanwhile; and the preflight a new search would join
\* has not settled, so that a failed one is tried again.
VerifiedRuns ==
  /\ \A c \in Call, q \in Query :
       query[c][q].exe # None /\ query[c][q].child # "none" =>
         \E p \in DOMAIN preflight : preflight[p].exe = query[c][q].exe /\ preflight[p].good
  /\ pending # None => preflight[pending].stage # "settled"

\* Only the caller's own abort is reported as one: not the abort a failed query spreads
\* to its batch, nor that of another call waiting for the same preflight.
OwnAbort ==
  \A c \in Call : call[c].stage = "done" /\ call[c].outcome = "aborted" => call[c].aborted
=============================================================================
