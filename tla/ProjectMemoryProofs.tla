------------------------ MODULE ProjectMemoryProofs ------------------------
(***************************************************************************)
(* Proofs about the project memory: about its writer lock for any number   *)
(* of processes and calls, plain-file lockers beside them, with inode      *)
(* reuse or not; and about the journalled transaction, which takes that    *)
(* lock as AbstractLock states it, for any number of processes, topics,    *)
(* calls, deaths and faults.                                               *)
(***************************************************************************)
EXTENDS ProjectMemory, TLAPS

LEMMA LockBound == MaxCalls \in Nat
  BY BoundsAssumption

-----------------------------------------------------------------------------
(* The writer lock: safe because a marker can only be unlinked by its own live *)
(* holder or after that holder's death (RemovalTarget): everything a stalled   *)
(* release or reclaim may do later follows from what it expects.               *)

\* What an actor unlinks is its own acquisition or a dead process's.
RemovalTarget ==
  \A a \in running \cap Actor :
    at[a] \in Writer!RemovePCs /\ expected[a] \in Writer!Token =>
      expected[a] = Writer!MyToken(a) \/ Writer!Owner(expected[a]) \notin running

\* The unlink happens in the directory whose marker was compared.
UnlinkTarget ==
  \A a \in Actor :
    at[a] = "rmUnlink" => looked[a] = expected[a] /\ expected[a] \in Writer!Token

\* A holder that releases looks at its own directory all along.
ReleaseLooksAtOwn ==
  \A a \in Actor :
    Writer!Holding(a) /\ at[a] \in {"rmOpen", "rmCompare", "rmUnlink"}
      => looked[a] = Writer!MyToken(a)

\* A caller that waits or works has drawn a token.
Drawn == \A a \in Actor : at[a] \in {"acquire", "critical"} => calls[a] \in 1..MaxCalls

WriterInv ==
  /\ Writer!TypeOK
  /\ Drawn
  /\ Writer!LockIntact
  /\ RemovalTarget
  /\ UnlinkTarget
  /\ ReleaseLooksAtOwn

-----------------------------------------------------------------------------

LEMMA InitWriter == Writer!Init => WriterInv
  BY LockBound, WriterAssumption
  DEF Writer!Init, WriterInv, Writer!TypeOK, Drawn, Writer!LockIntact,
      Writer!Holding, RemovalTarget, UnlinkTarget, ReleaseLooksAtOwn, Writer!RemovePCs,
      Writer!Entry, Writer!Outcome

\* A pair determines its owner and its call number.
LEMMA TokenParts ==
  ASSUME NEW t \in Writer!Token
  PROVE  /\ Writer!Owner(t) \in Actor /\ t = <<Writer!Owner(t), t[2]>>
         /\ t \notin Upstream /\ t # NoEntry
  BY LockBound, WriterAssumption DEF Writer!Token, Writer!Owner

LEMMA WriterTypes ==
  ASSUME Writer!TypeOK, Drawn, [Writer!Next]_(Writer!vars)
  PROVE  Writer!TypeOK'
<1> USE LockBound, WriterAssumption DEF Writer!TypeOK, Writer!At, Writer!Goto,
                      Writer!Finish, Writer!Outcome, Writer!RemovePCs, Writer!ReadPCs,
                      Writer!Entry
<1>1. ASSUME NEW a \in Actor, Writer!Acquire(a) \/ Writer!StartRelease(a) PROVE Writer!TypeOK'
  <2>1. CASE Writer!CallLock(a) BY <2>1 DEF Writer!CallLock
  <2>2. CASE Writer!Publish(a) BY <2>2 DEF Writer!Publish, Writer!MyToken, Writer!Token, Drawn
  <2>3. CASE Writer!GiveUp(a) BY <2>3 DEF Writer!GiveUp
  <2>4. CASE Writer!StartRelease(a) BY <2>4 DEF Writer!StartRelease, Writer!MyToken,
                                                Writer!Token, Drawn
  <2> QED BY <1>1, <2>1, <2>2, <2>3, <2>4 DEF Writer!Acquire
<1>2. ASSUME NEW a \in Actor, Writer!StartReclaim(a) PROVE Writer!TypeOK'
  BY <1>2 DEF Writer!StartReclaim
<1>3. ASSUME NEW a \in Actor, Writer!Read(a) PROVE Writer!TypeOK'
  <2>1. CASE Writer!ReadFile(a) BY <2>1 DEF Writer!ReadFile
  <2>2. CASE Writer!ReadLstat(a) BY <2>2 DEF Writer!ReadLstat, Writer!LstatDirectory
  <2>3. CASE Writer!ReadOpen(a) BY <2>3 DEF Writer!ReadOpen, Writer!OpenDirectory
  <2>4. CASE Writer!ReadList(a) BY <2>4 DEF Writer!ReadList
  <2>5. CASE Writer!ReadMarker(a) BY <2>5 DEF Writer!ReadMarker
  <2>6. CASE Writer!CheckAlive(a) BY <2>6 DEF Writer!CheckAlive
  <2> QED BY <1>3, <2>1, <2>2, <2>3, <2>4, <2>5, <2>6 DEF Writer!Read
<1>4. ASSUME NEW a \in Actor, Writer!Remove(a) PROVE Writer!TypeOK'
  <2>1. CASE Writer!RemoveStat(a) BY <2>1 DEF Writer!RemoveStat
  <2>2. CASE Writer!RemoveLstat(a) BY <2>2 DEF Writer!RemoveLstat, Writer!LstatDirectory
  <2>3. CASE Writer!RemoveOpen(a) BY <2>3 DEF Writer!RemoveOpen, Writer!OpenDirectory
  <2>4. CASE Writer!RemoveCompare(a) BY <2>4 DEF Writer!RemoveCompare
  <2>5. CASE Writer!RemoveUnlink(a) BY <2>5 DEF Writer!RemoveUnlink
  <2>6. CASE Writer!RemoveRestat(a) BY <2>6 DEF Writer!RemoveRestat
  <2>7. CASE Writer!RemoveDir(a) BY <2>7 DEF Writer!RemoveDir
  <2>8. CASE Writer!RemoveFileCheck(a) BY <2>8 DEF Writer!RemoveFileCheck
  <2>9. CASE Writer!RemoveFile(a) BY <2>9 DEF Writer!RemoveFile
  <2> QED BY <1>4, <2>1, <2>2, <2>3, <2>4, <2>5, <2>6, <2>7, <2>8, <2>9 DEF Writer!Remove
<1>5. ASSUME NEW u \in Upstream, Writer!UpstreamAcquire(u) \/ Writer!UpstreamRelease(u)
      PROVE Writer!TypeOK'
  BY <1>5 DEF Writer!UpstreamAcquire, Writer!UpstreamRelease
<1>6. ASSUME NEW p \in Actor \cup Upstream, Writer!Crash(p) PROVE Writer!TypeOK'
  BY <1>6 DEF Writer!Crash
<1>7. CASE UNCHANGED Writer!vars BY <1>7 DEF Writer!vars
<1> QED BY <1>1, <1>2, <1>3, <1>4, <1>5, <1>6, <1>7 DEF Writer!Next

-----------------------------------------------------------------------------
(* A step preserves the strengthening, one lemma per group of actions. *)

LEMMA AcquireWriter ==
  ASSUME WriterInv,
         NEW a \in Actor, Writer!Acquire(a) \/ Writer!StartRelease(a)
  PROVE  (Drawn /\ Writer!LockIntact /\ RemovalTarget /\ UnlinkTarget /\ ReleaseLooksAtOwn)'
<1> USE LockBound, WriterAssumption
    DEF WriterInv, Writer!TypeOK, Writer!At, Writer!Goto,
        Writer!Finish, Writer!RemovePCs, Writer!ReadPCs, Writer!Holding, Writer!LockIntact,
        RemovalTarget, UnlinkTarget, ReleaseLooksAtOwn, Drawn, Writer!MyToken
<1>1. CASE Writer!CallLock(a) BY <1>1 DEF Writer!CallLock
<1>2. CASE Writer!Publish(a)
  <2>1. \A b \in Actor : ~Writer!Holding(b)
    BY <1>2 DEF Writer!Publish, Writer!Publishable
  <2> QED BY <1>2, <2>1 DEF Writer!Publish
<1>3. CASE Writer!GiveUp(a) BY <1>3 DEF Writer!GiveUp
<1>4. CASE Writer!StartRelease(a) BY <1>4 DEF Writer!StartRelease, Writer!Token, Writer!Owner
<1> QED BY <1>1, <1>2, <1>3, <1>4 DEF Writer!Acquire

LEMMA ReadWriter ==
  ASSUME WriterInv,
         NEW a \in Actor, Writer!StartReclaim(a) \/ Writer!Read(a)
  PROVE  (Drawn /\ Writer!LockIntact /\ RemovalTarget /\ UnlinkTarget /\ ReleaseLooksAtOwn)'
<1> USE LockBound, WriterAssumption
    DEF WriterInv, Writer!TypeOK, Writer!At, Writer!Goto,
        Writer!Finish, Writer!RemovePCs, Writer!ReadPCs, Writer!Holding, Writer!LockIntact,
        RemovalTarget, UnlinkTarget, ReleaseLooksAtOwn, Drawn, Writer!MyToken
<1>1. CASE Writer!StartReclaim(a) BY <1>1 DEF Writer!StartReclaim
<1>2. CASE Writer!ReadFile(a) BY <1>2 DEF Writer!ReadFile
<1>3. CASE Writer!ReadLstat(a) BY <1>3 DEF Writer!ReadLstat, Writer!LstatDirectory
<1>4. CASE Writer!ReadOpen(a) BY <1>4 DEF Writer!ReadOpen, Writer!OpenDirectory
<1>5. CASE Writer!ReadList(a) BY <1>5 DEF Writer!ReadList
<1>6. CASE Writer!ReadMarker(a) BY <1>6 DEF Writer!ReadMarker
<1>7. CASE Writer!CheckAlive(a)
  <2>1. CASE at'[a] = "rmStat" /\ Writer!OwnerProcess(expected[a]) \notin running
    <3>1. expected' = expected /\ running' = running /\ expected[a] \in Writer!Token
            => Writer!Owner(expected'[a]) \notin running'
      BY <2>1 DEF Writer!OwnerProcess
    <3>2. ~(at'[a] = "rmStat" /\ expected[a] = Writer!MyToken(a))
      <4>1. a \in running BY <1>7 DEF Writer!CheckAlive
      <4>2. expected[a] \in Writer!Entry BY DEF Writer!Entry
      <4>3. Writer!MyToken(a) \in Actor \X (0..MaxCalls) OBVIOUS
      <4>4. Writer!MyToken(a) \notin Upstream \cup {NoEntry} BY <4>3
      <4>5. CASE expected[a] = Writer!MyToken(a)
        <5>1. expected[a] \in Writer!Token BY <4>2, <4>4, <4>5 DEF Writer!Entry
        <5>2. Writer!OwnerProcess(expected[a]) = a BY <4>5, <5>1
          DEF Writer!OwnerProcess, Writer!Owner
        <5> QED BY <2>1, <4>1, <5>2
      <4> QED BY <4>5
    <3> QED BY <1>7, <2>1, <3>1, <3>2 DEF Writer!CheckAlive
  <2>2. CASE ~(at'[a] = "rmStat" /\ Writer!OwnerProcess(expected[a]) \notin running)
    BY <1>7, <2>2 DEF Writer!CheckAlive
  <2> QED BY <2>1, <2>2
<1> QED BY <1>1, <1>2, <1>3, <1>4, <1>5, <1>6, <1>7 DEF Writer!Read

LEMMA RemoveWriter ==
  ASSUME WriterInv, NEW a \in Actor, Writer!Remove(a)
  PROVE  (Drawn /\ Writer!LockIntact /\ RemovalTarget /\ UnlinkTarget /\ ReleaseLooksAtOwn)'
<1> USE LockBound, WriterAssumption
    DEF WriterInv, Writer!TypeOK, Writer!At, Writer!Goto,
        Writer!Finish, Writer!RemovePCs, Writer!ReadPCs, Writer!Holding, Writer!LockIntact,
        RemovalTarget, UnlinkTarget, ReleaseLooksAtOwn, Drawn, Writer!MyToken
<1>1. CASE Writer!RemoveStat(a) BY <1>1 DEF Writer!RemoveStat
<1>2. CASE Writer!RemoveLstat(a) BY <1>2 DEF Writer!RemoveLstat, Writer!LstatDirectory
<1>3. CASE Writer!RemoveOpen(a) BY <1>3 DEF Writer!RemoveOpen, Writer!OpenDirectory
<1>4. CASE Writer!RemoveCompare(a) BY <1>4 DEF Writer!RemoveCompare
<1>5. CASE Writer!RemoveUnlink(a)
  <2>1. ASSUME NEW b \in Actor, Writer!Holding(b), b # a PROVE looked[a] # Writer!MyToken(b)
    BY <1>5, <2>1 DEF Writer!RemoveUnlink, Writer!Owner
  <2> QED BY <1>5, <2>1 DEF Writer!RemoveUnlink
<1>6. CASE Writer!RemoveRestat(a) BY <1>6 DEF Writer!RemoveRestat
<1>7. CASE Writer!RemoveDir(a) BY <1>7 DEF Writer!RemoveDir
<1>8. CASE Writer!RemoveFileCheck(a) BY <1>8 DEF Writer!RemoveFileCheck
<1>9. CASE Writer!RemoveFile(a) BY <1>9 DEF Writer!RemoveFile
<1> QED BY <1>1, <1>2, <1>3, <1>4, <1>5, <1>6, <1>7, <1>8, <1>9 DEF Writer!Remove

LEMMA EnvironmentWriter ==
  ASSUME WriterInv,
         \/ \E u \in Upstream : Writer!UpstreamAcquire(u) \/ Writer!UpstreamRelease(u)
         \/ \E p \in Actor \cup Upstream : Writer!Crash(p)
         \/ UNCHANGED Writer!vars
  PROVE  (Drawn /\ Writer!LockIntact /\ RemovalTarget /\ UnlinkTarget /\ ReleaseLooksAtOwn)'
<1> USE LockBound, WriterAssumption
    DEF WriterInv, Writer!TypeOK, Writer!At, Writer!RemovePCs,
        Writer!ReadPCs, Writer!Holding, Writer!LockIntact, RemovalTarget, UnlinkTarget,
        ReleaseLooksAtOwn, Drawn, Writer!MyToken
<1>1. CASE \E u \in Upstream : Writer!UpstreamAcquire(u) BY <1>1 DEF Writer!UpstreamAcquire
<1>2. CASE \E u \in Upstream : Writer!UpstreamRelease(u)
  BY <1>2 DEF Writer!UpstreamRelease
<1>3. CASE \E p \in Actor \cup Upstream : Writer!Crash(p) BY <1>3 DEF Writer!Crash
<1>4. CASE UNCHANGED Writer!vars BY <1>4 DEF Writer!vars
<1> QED BY <1>1, <1>2, <1>3, <1>4

LEMMA StepWriter ==
  ASSUME WriterInv, [Writer!Next]_(Writer!vars)
  PROVE  WriterInv'
<1>1. Writer!TypeOK' BY WriterTypes DEF WriterInv
<1>2. (Drawn /\ Writer!LockIntact /\ RemovalTarget /\ UnlinkTarget /\ ReleaseLooksAtOwn)'
  BY AcquireWriter, ReadWriter, RemoveWriter, EnvironmentWriter DEF Writer!Next
<1> QED BY <1>1, <1>2 DEF WriterInv

\* The strengthening holds in every reachable state.
THEOREM WriterInductive == Writer!Spec => []WriterInv
  BY InitWriter, StepWriter, PTL DEF Writer!Spec

\* The state of the protocol is well typed.
THEOREM LockTypeCorrect == Writer!Spec => []Writer!TypeOK
<1>1. WriterInv => Writer!TypeOK BY DEF WriterInv
<1> QED BY <1>1, WriterInductive, PTL

\* A held lock is on disk: no reader, reclaimer or delayed release of another
\* process ever takes the directory or the marker of a running holder.
THEOREM HeldLockIntact == Writer!Spec => []Writer!LockIntact
<1>1. WriterInv => Writer!LockIntact BY DEF WriterInv
<1> QED BY <1>1, WriterInductive, PTL

\* Two running processes never hold the lock at once.
THEOREM Exclusion == Writer!Spec => []MutualExclusion
<1>1. Writer!LockIntact => MutualExclusion
  BY DEF MutualExclusion, Writer!LockIntact, Writer!MutualExclusion, Writer!MyToken
<1> QED BY <1>1, HeldLockIntact, PTL

-----------------------------------------------------------------------------
(* Giving the lock up, and the abstract lock *)

LEMMA StepRelease ==
  ASSUME WriterInv, [Writer!Next]_(Writer!vars),
         NEW h \in Actor, Writer!Holding(h), ~Writer!Holding(h)', h \in running'
  PROVE  at'[h] = "rmRestat"
<1> USE LockBound, WriterAssumption
    DEF WriterInv, Writer!TypeOK, Writer!At, Writer!Goto,
        Writer!Finish, Writer!RemovePCs, Writer!ReadPCs, Writer!Holding, Writer!LockIntact,
        RemovalTarget, UnlinkTarget, ReleaseLooksAtOwn, Drawn, Writer!MyToken
<1>1. ASSUME NEW a \in Actor, Writer!Acquire(a) \/ Writer!StartRelease(a) PROVE at'[h] = "rmRestat"
  BY <1>1 DEF Writer!Acquire, Writer!CallLock, Writer!Publish, Writer!GiveUp, Writer!StartRelease
<1>2. ASSUME NEW a \in Actor, Writer!StartReclaim(a) \/ Writer!Read(a) PROVE at'[h] = "rmRestat"
  <2>1. CASE Writer!StartReclaim(a) BY <1>2, <2>1 DEF Writer!StartReclaim
  <2>2. CASE Writer!Read(a)
    BY <2>2 DEF Writer!Read, Writer!ReadFile, Writer!ReadLstat, Writer!LstatDirectory,
                Writer!ReadOpen, Writer!OpenDirectory, Writer!ReadList, Writer!ReadMarker,
                Writer!CheckAlive
  <2> QED BY <1>2, <2>1, <2>2
<1>3. ASSUME NEW a \in Actor, Writer!Remove(a) PROVE at'[h] = "rmRestat"
  <2>1. entry = Writer!MyToken(h) /\ entry \in marked /\ entry \in Writer!Token
    OBVIOUS
  <2>2. CASE Writer!RemoveStat(a) BY <2>1, <2>2 DEF Writer!RemoveStat
  <2>3. CASE Writer!RemoveLstat(a) BY <2>1, <2>3, TokenParts
    DEF Writer!RemoveLstat, Writer!LstatDirectory
  <2>4. CASE Writer!RemoveOpen(a) BY <2>1, <2>4 DEF Writer!RemoveOpen, Writer!OpenDirectory
  <2>5. CASE Writer!RemoveCompare(a) BY <2>1, <2>5 DEF Writer!RemoveCompare
  <2>6. CASE Writer!RemoveUnlink(a) BY <2>1, <2>6 DEF Writer!RemoveUnlink
  <2>7. CASE Writer!RemoveRestat(a) BY <2>1, <2>7 DEF Writer!RemoveRestat
  <2>8. CASE Writer!RemoveDir(a) BY <2>1, <2>8 DEF Writer!RemoveDir
  <2>9. CASE Writer!RemoveFileCheck(a) \/ Writer!RemoveFile(a)
    BY <2>1, <2>9 DEF Writer!RemoveFileCheck, Writer!RemoveFile
  <2> QED BY <1>3, <2>2, <2>3, <2>4, <2>5, <2>6, <2>7, <2>8, <2>9 DEF Writer!Remove
<1>4. ASSUME NEW u \in Upstream, Writer!UpstreamAcquire(u) \/ Writer!UpstreamRelease(u)
      PROVE at'[h] = "rmRestat"
  BY <1>4 DEF Writer!UpstreamAcquire, Writer!UpstreamRelease
<1>5. ASSUME NEW p \in Actor \cup Upstream, Writer!Crash(p) PROVE at'[h] = "rmRestat"
  BY <1>5 DEF Writer!Crash
<1>6. CASE UNCHANGED Writer!vars BY <1>6 DEF Writer!vars
<1> QED BY <1>1, <1>2, <1>3, <1>4, <1>5, <1>6 DEF Writer!Next

\* A running holder loses the lock only by unlinking its own marker: its
\* release never misses, and nobody else's cleanup reaches it.
THEOREM OnlyHolderReleases == Writer!Spec => Writer!ReleaseOnlyByHolder
<1>1. WriterInv /\ [Writer!Next]_(Writer!vars) =>
        [\A a \in Actor : Writer!Holding(a) /\ ~Writer!Holding(a)'
              => at'[a] = "rmRestat" \/ a \notin running']_(Writer!vars)
  BY StepRelease
<1> QED BY <1>1, WriterInductive, PTL DEF Writer!Spec, Writer!ReleaseOnlyByHolder

\* The abstract lock's variables, as WriterLock's instance names them.
AbsAlive == running \cap Actor
AbsHolder == IF entry \in marked THEN entry ELSE NoEntry
AbsInside == {Writer!MyToken(a) : a \in {b \in Actor : Writer!At(b, "critical")}}

LEMMA AbsDefs ==
  /\ Writer!Lock!AbsInit <=> AbsAlive = Actor /\ AbsHolder = NoEntry /\ AbsInside = {}
  /\ UNCHANGED <<AbsAlive, AbsHolder, AbsInside>> => UNCHANGED Writer!Lock!absVars
  BY DEF Writer!Lock!AbsInit, Writer!Lock!absVars, AbsAlive, AbsHolder, AbsInside

LEMMA InitMaps == Writer!Init => Writer!Lock!AbsInit
  BY DEF Writer!Init, Writer!Lock!AbsInit, Writer!At

LEMMA StepMaps ==
  ASSUME WriterInv, WriterInv', [Writer!Next]_(Writer!vars)
  PROVE  [Writer!Lock!AbsNext]_(Writer!Lock!absVars)
<1> USE LockBound, WriterAssumption
    DEF WriterInv, Writer!TypeOK, Writer!At, Writer!Goto,
        Writer!Finish, Writer!RemovePCs, Writer!ReadPCs, AbsAlive, AbsHolder, AbsInside,
        Writer!MyToken
<1> SUFFICES Writer!Lock!AbsNext \/ UNCHANGED <<AbsAlive, AbsHolder, AbsInside>>
  BY AbsDefs
<1>1. ASSUME NEW a \in Actor, Writer!CallLock(a) \/ Writer!GiveUp(a) \/ Writer!StartReclaim(a)
      PROVE UNCHANGED <<AbsAlive, AbsHolder, AbsInside>>
  <2>1. CASE Writer!CallLock(a) BY <2>1 DEF Writer!CallLock
  <2>2. CASE Writer!GiveUp(a) BY <2>2 DEF Writer!GiveUp
  <2>3. CASE Writer!StartReclaim(a) BY <2>3 DEF Writer!StartReclaim
  <2> QED BY <1>1, <2>1, <2>2, <2>3
<1>2. ASSUME NEW a \in Actor, Writer!Publish(a)
      PROVE Writer!Lock!Grant(Writer!MyToken(a)) /\ Writer!MyToken(a) \in Writer!Token
  <2>1. Writer!MyToken(a) \in Writer!Token BY <1>2 DEF Writer!Publish, Drawn, Writer!Token
  <2>2. AbsHolder = NoEntry BY <1>2 DEF Writer!Publish, Writer!Publishable
  <2>3. AbsHolder' = Writer!MyToken(a) BY <1>2 DEF Writer!Publish
  <2>4. AbsInside' = AbsInside \cup {Writer!MyToken(a)} BY <1>2 DEF Writer!Publish
  <2>5. running' = running /\ a \in running BY <1>2 DEF Writer!Publish
  <2> QED BY <2>1, <2>2, <2>3, <2>4, <2>5 DEF Writer!Lock!Grant, Writer!Owner
<1>3. ASSUME NEW a \in Actor, Writer!StartRelease(a)
      PROVE Writer!Lock!Leave(Writer!MyToken(a)) /\ Writer!MyToken(a) \in Writer!Token
  <2>1. Writer!MyToken(a) \in Writer!Token /\ Writer!MyToken(a) \in AbsInside
    BY <1>3 DEF Writer!StartRelease, Drawn, Writer!Token
  <2>2. AbsInside' = AbsInside \ {Writer!MyToken(a)} BY <1>3 DEF Writer!StartRelease
  <2>3. UNCHANGED <<AbsAlive, AbsHolder>> BY <1>3 DEF Writer!StartRelease
  <2> QED BY <2>1, <2>2, <2>3 DEF Writer!Lock!Leave
<1>4. ASSUME NEW a \in Actor, Writer!Read(a) PROVE UNCHANGED <<AbsAlive, AbsHolder, AbsInside>>
  BY <1>4 DEF Writer!Read, Writer!ReadFile, Writer!ReadLstat, Writer!LstatDirectory,
              Writer!ReadOpen, Writer!OpenDirectory, Writer!ReadList, Writer!ReadMarker,
              Writer!CheckAlive
<1>5. ASSUME NEW a \in Actor, Writer!RemoveUnlink(a)
      PROVE Writer!Lock!Free \/ UNCHANGED <<AbsAlive, AbsHolder, AbsInside>>
  <2>1. UNCHANGED <<AbsAlive, AbsInside>> BY <1>5 DEF Writer!RemoveUnlink
  <2>2. CASE entry \in marked /\ looked[a] = entry
    <3>1. AbsHolder = entry /\ AbsHolder # NoEntry /\ AbsHolder' = NoEntry
      BY <1>5, <2>2, TokenParts DEF Writer!RemoveUnlink
    <3>2. entry \notin AbsInside
      BY <1>5, <2>2 DEF Writer!RemoveUnlink, UnlinkTarget, RemovalTarget, Writer!Owner
    <3> QED BY <2>1, <3>1, <3>2 DEF Writer!Lock!Free
  <2>3. CASE ~(entry \in marked /\ looked[a] = entry)
    BY <1>5, <2>1, <2>3 DEF Writer!RemoveUnlink
  <2> QED BY <2>2, <2>3
<1>6. ASSUME NEW a \in Actor, Writer!Remove(a), ~Writer!RemoveUnlink(a)
      PROVE UNCHANGED <<AbsAlive, AbsHolder, AbsInside>>
  <2>1. CASE Writer!RemoveStat(a) BY <2>1 DEF Writer!RemoveStat
  <2>2. CASE Writer!RemoveLstat(a) BY <2>2 DEF Writer!RemoveLstat, Writer!LstatDirectory
  <2>3. CASE Writer!RemoveOpen(a) BY <2>3 DEF Writer!RemoveOpen, Writer!OpenDirectory
  <2>4. CASE Writer!RemoveCompare(a) BY <2>4 DEF Writer!RemoveCompare
  <2>5. CASE Writer!RemoveRestat(a) BY <2>5 DEF Writer!RemoveRestat
  <2>6. CASE Writer!RemoveDir(a) BY <2>6, TokenParts DEF Writer!RemoveDir
  <2>7. CASE Writer!RemoveFileCheck(a) BY <2>7 DEF Writer!RemoveFileCheck
  <2>8. CASE Writer!RemoveFile(a) BY <2>8, TokenParts DEF Writer!RemoveFile
  <2> QED BY <1>6, <2>1, <2>2, <2>3, <2>4, <2>5, <2>6, <2>7, <2>8 DEF Writer!Remove
<1>7. ASSUME NEW u \in Upstream, Writer!UpstreamAcquire(u) \/ Writer!UpstreamRelease(u)
      PROVE UNCHANGED <<AbsAlive, AbsHolder, AbsInside>>
  BY <1>7, TokenParts DEF Writer!UpstreamAcquire, Writer!UpstreamRelease
<1>8. ASSUME NEW p \in Actor \cup Upstream, Writer!Crash(p)
      PROVE Writer!Lock!Die(p) \/ UNCHANGED <<AbsAlive, AbsHolder, AbsInside>>
  <2>1. UNCHANGED AbsHolder BY <1>8 DEF Writer!Crash
  <2>2. CASE p \in Actor
    <3>1. p \in AbsAlive /\ AbsAlive' = AbsAlive \ {p} BY <1>8, <2>2 DEF Writer!Crash
    <3>2. AbsInside' = {g \in AbsInside : Writer!Owner(g) # p} BY <1>8, <2>2
      DEF Writer!Crash, Writer!Owner
    <3> QED BY <2>1, <3>1, <3>2 DEF Writer!Lock!Die
  <2>3. CASE p \notin Actor BY <1>8, <2>1, <2>3 DEF Writer!Crash
  <2> QED BY <2>2, <2>3
<1>9. CASE UNCHANGED Writer!vars BY <1>9 DEF Writer!vars
<1>10. ASSUME NEW p \in Actor \cup Upstream, Writer!Crash(p), Writer!Lock!Die(p)
       PROVE Writer!Lock!AbsNext
  <2>1. p \in Actor BY <1>10 DEF Writer!Lock!Die
  <2> QED BY <1>10, <2>1 DEF Writer!Lock!AbsNext
<1> HIDE DEF WriterInv, Writer!TypeOK, Writer!At, Writer!Goto, Writer!Finish, AbsAlive,
             AbsHolder, AbsInside, Writer!MyToken
<1>11. ASSUME NEW a \in Actor,
              Writer!Acquire(a) \/ Writer!StartRelease(a) \/ Writer!StartReclaim(a)
                \/ Writer!Read(a) \/ Writer!Remove(a)
       PROVE Writer!Lock!AbsNext \/ UNCHANGED <<AbsAlive, AbsHolder, AbsInside>>
  BY <1>1, <1>2, <1>3, <1>4, <1>5, <1>6, <1>11, Zenon DEF Writer!Acquire, Writer!Lock!AbsNext
<1> QED BY <1>7, <1>8, <1>9, <1>10, <1>11, Zenon DEF Writer!Next

\* The file-system protocol implements the abstract generation mutex.
THEOREM LockImplements == Writer!Spec => ImplementsLock
  BY InitMaps, StepMaps, WriterInductive, PTL
  DEF Writer!Spec, ImplementsLock, Writer!ImplementsLock, Writer!Lock!AbsSpec

-----------------------------------------------------------------------------
(* The journalled transaction *)

\* Where a process relies on a journal record.
SeenPCs == {"probeCheck", "ownerCheck", "dropJournal", "dropMemory", "dropTopic", "claimLock",
            "claimRead", "claimWrite", "claimMemory", "claimVerify", "settleLock"}
           \cup SettlePCs \cup CommitPCs

Reason == {"wait", "claim", "map", "rollback", "commit"}
Outcome == {"recovered", "retry", "ok", "failed"}

\* What the control state says about the local variables.
Shape ==
  \A a \in Actor :
    /\ pc[a] # "idle" => op[a] \in Op
    /\ pc[a] \in SeenPCs => seen[a] \in Record
    /\ pc[a] \in {"bootLock", "bootRead", "bootWrite"} => op[a].kind \in Bootstrap

\* The two halves of the type invariant: what a process keeps, what all share.
LocalInv ==
  /\ pc \in [Actor -> PCs]
  /\ op \in [Actor -> Op \cup {Nil}]
  /\ round \in [Actor -> 0..2]
  /\ tries \in [Actor -> 0..(MaxObservations - 1)]
  /\ seen \in [Actor -> Record \cup {Nil}]
  /\ plan \in [Actor -> Memory]
  /\ after \in [Actor -> {"none"} \cup Reason \cup Outcome]
  /\ applied \subseteq Op /\ acked \subseteq Op /\ failed \subseteq Op
  /\ Shape

SharedInv ==
  /\ alive \subseteq Actor
  /\ lock \in [LockName -> Actor \cup {Nil}]
  /\ journal \in Record \cup {Nil}
  /\ topics \in [Topic -> Content]
  /\ memory \in Memory
  /\ crashes \in 0..MaxCrashes
  /\ faults \in 0..MaxFaults
  /\ settlementFaults \in 0..MaxSettlementFaults

LEMMA Halves == TypeOK /\ Shape <=> LocalInv /\ SharedInv
  BY DEF TypeOK, LocalInv, SharedInv, Reason, Outcome

LEMMA InitHalves == Init => LocalInv /\ SharedInv
<1> SUFFICES ASSUME Init PROVE LocalInv /\ SharedInv
  OBVIOUS
<1>1. memory \in Memory
  BY TopicAssumption DEF Init, Memory
<1>2. SharedInv
  BY <1>1, TopicAssumption, BoundsAssumption DEF Init, SharedInv, Content
<1>3. LocalInv
  BY BoundsAssumption DEF Init, LocalInv, Shape, PCs, SeenPCs, SettlePCs, CommitPCs, Memory
<1> QED BY <1>2, <1>3

-----------------------------------------------------------------------------
(* The control operators keep the local half *)

LEMMA BodyStarts ==
  ASSUME NEW o \in Op, o.kind # "read"
  PROVE  /\ BodyStart(o) \in {"mapLock", "bootLock", "onlyLock"}
         /\ BodyStart(o) = "bootLock" => o.kind \in Bootstrap
<1>1. o.kind \in Kind BY DEF Op
<1>2. CASE o.kind \in Compound \cup {"mapEntry"}
  BY <1>2 DEF BodyStart, Compound, Bootstrap, TopicOnly
<1>3. CASE o.kind \in Bootstrap BY <1>3 DEF BodyStart, Compound, Bootstrap, TopicOnly
<1>4. CASE o.kind \in TopicOnly BY <1>4 DEF BodyStart, Compound, Bootstrap, TopicOnly
<1> QED BY <1>1, <1>2, <1>3, <1>4 DEF Kind

LEMMA MoveKeeps ==
  ASSUME LocalInv, NEW a \in Actor, pc[a] # "idle", UNCHANGED <<local, history>>,
         NEW label \in PCs, Goto(a, label),
         label \in SeenPCs => seen[a] \in Record,
         label \notin {"bootLock", "bootRead", "bootWrite"} \/ op[a].kind \in Bootstrap
  PROVE  LocalInv'
  BY DEF LocalInv, Shape, Goto, local, history

LEMMA UnwindKeeps ==
  ASSUME LocalInv, NEW a \in Actor, pc[a] # "idle", NEW next \in Outcome, Unwind(a, next),
         applied' \subseteq Op, UNCHANGED <<acked, failed>>
  PROVE  LocalInv'
  BY DEF LocalInv, Shape, Unwind, Goto, PCs, SeenPCs, SettlePCs, CommitPCs

LEMMA FinishKeeps ==
  ASSUME LocalInv, NEW a \in Actor, pc[a] # "idle", NEW success \in BOOLEAN, Finish(a, success)
  PROVE  LocalInv'
<1>1. op[a] \in Op BY DEF LocalInv, Shape
<1> QED
  BY <1>1, BoundsAssumption
  DEF LocalInv, Shape, Finish, Goto, PCs, SeenPCs, SettlePCs, CommitPCs, Memory

LEMMA RecoveredKeeps ==
  ASSUME LocalInv, NEW a \in Actor, pc[a] # "idle", Recovered(a)
  PROVE  LocalInv'
<1>1. CASE Finish(a, TRUE) BY <1>1, FinishKeeps
<1>2. ASSUME NEW label \in PCs, label \notin SeenPCs, round[a] \in 1..2,
             label \notin {"bootLock", "bootRead", "bootWrite"} \/ op[a].kind \in Bootstrap,
             Goto(a, label), round' = [round EXCEPT ![a] = @ - 1],
             tries' = [tries EXCEPT ![a] = 0], Relies(a, Nil),
             after' = [after EXCEPT ![a] = "none"], UNCHANGED <<op, plan, history>>
      PROVE  LocalInv'
  <2>1. round[a] - 1 \in 0..2
    BY <1>2, Z3
  <2>2. round' \in [Actor -> 0..2]
    BY <1>2, <2>1 DEF LocalInv
  <2>3. tries' \in [Actor -> 0..(MaxObservations - 1)]
    BY <1>2, BoundsAssumption DEF LocalInv
  <2>4. /\ pc' \in [Actor -> PCs] /\ seen' \in [Actor -> Record \cup {Nil}]
        /\ after' \in [Actor -> {"none"} \cup Reason \cup Outcome]
    BY <1>2 DEF LocalInv, Goto, Relies
  <2>5. Shape'
    BY <1>2 DEF LocalInv, Shape, Goto, Relies
  <2> QED BY <1>2, <2>2, <2>3, <2>4, <2>5 DEF LocalInv, history
<1>3. op[a] \in Op /\ round[a] \in 0..2 BY DEF LocalInv, Shape
<1>4. CASE round[a] > 1 /\ ~Finish(a, TRUE)
  <2>1. "probe" \in PCs \ SeenPCs
    BY DEF PCs, RecoverPCs, SeenPCs, SettlePCs, CommitPCs
  <2>2. /\ Goto(a, "probe") /\ round' = [round EXCEPT ![a] = @ - 1]
        /\ tries' = [tries EXCEPT ![a] = 0] /\ Relies(a, Nil)
        /\ after' = [after EXCEPT ![a] = "none"] /\ UNCHANGED <<op, plan, history>>
    BY <1>4 DEF Recovered
  <2>3. round[a] \in 1..2
    BY <1>3, <1>4
  <2> QED BY <1>2, <2>1, <2>2, <2>3
<1>5. CASE round[a] = 1 /\ op[a].kind # "read" /\ ~Finish(a, TRUE)
  <2>1. /\ BodyStart(op[a]) \in {"mapLock", "bootLock", "onlyLock"}
        /\ BodyStart(op[a]) = "bootLock" => op[a].kind \in Bootstrap
    BY <1>3, <1>5, BodyStarts
  <2>2. {"mapLock", "bootLock", "onlyLock"} \subseteq PCs \ SeenPCs
    BY DEF PCs, BodyPCs, SeenPCs, SettlePCs, CommitPCs
  <2>3. /\ Goto(a, BodyStart(op[a])) /\ round' = [round EXCEPT ![a] = @ - 1]
        /\ tries' = [tries EXCEPT ![a] = 0] /\ Relies(a, Nil)
        /\ after' = [after EXCEPT ![a] = "none"] /\ UNCHANGED <<op, plan, history>>
    <3>1. ~(round[a] > 1)
      BY <1>5
    <3> QED BY <1>5, <3>1, Zenon DEF Recovered
  <2>4. round[a] \in 1..2
    BY <1>5
  <2>5. BodyStart(op[a]) \in PCs /\ BodyStart(op[a]) \notin SeenPCs
    BY <2>1, <2>2
  <2>6. BodyStart(op[a]) \notin {"bootLock", "bootRead", "bootWrite"} \/ op[a].kind \in Bootstrap
    BY <2>1
  <2> QED BY <1>2, <2>3, <2>4, <2>5, <2>6
<1> QED BY <1>1, <1>3, <1>4, <1>5 DEF Recovered

LEMMA RetryKeeps ==
  ASSUME LocalInv, NEW a \in Actor, pc[a] # "idle", Retry(a)
  PROVE  LocalInv'
<1>1. CASE Recovered(a) BY <1>1, RecoveredKeeps
<1>2. CASE ~Recovered(a)
  BY <1>2, BoundsAssumption
  DEF Retry, LocalInv, Shape, Goto, Relies, history, PCs, RecoverPCs, SeenPCs, SettlePCs, CommitPCs
<1> QED BY <1>1, <1>2

LEMMA SettleKeeps ==
  ASSUME LocalInv, NEW a \in Actor, pc[a] # "idle", NEW record \in Record,
         NEW reason \in Reason, Settle(a, record, reason), UNCHANGED history
  PROVE  LocalInv'
  BY DEF Settle, LocalInv, Shape, Goto, Relies, history, PCs, RecoverPCs, SeenPCs, SettlePCs, CommitPCs

LEMMA SettledKeeps ==
  ASSUME LocalInv, NEW a \in Actor, pc[a] # "idle", Settled(a), UNCHANGED history
  PROVE  LocalInv'
<1>1. CASE \E next \in Outcome : Unwind(a, next)
  BY <1>1, UnwindKeeps DEF history, LocalInv
<1>2. CASE Goto(a, "mapUnlockTopic") /\ UNCHANGED local
  BY <1>2, MoveKeeps DEF PCs, BodyPCs, SeenPCs, SettlePCs, CommitPCs, history, local
<1> QED BY <1>1, <1>2 DEF Settled, Outcome

LEMMA RollbackKeeps ==
  ASSUME LocalInv, NEW a \in Actor, pc[a] \in CommitPCs, Rollback(a), UNCHANGED history
  PROVE  LocalInv'
  BY DEF Rollback, LocalInv, Shape, Goto, history, PCs, SeenPCs, SettlePCs, CommitPCs, Reason

LEMMA TakeLockKeeps ==
  ASSUME LocalInv, SharedInv, NEW a \in Actor, NEW l \in LockName, NEW from, NEW to \in PCs,
         from # "idle", TakeLock(a, l, from, to), to \in SeenPCs => from \in SeenPCs,
         to \notin {"bootLock", "bootRead", "bootWrite"} \/ from = "bootLock"
  PROVE  LocalInv' /\ SharedInv'
<1>1. LocalInv'
  BY MoveKeeps DEF TakeLock, At, LocalInv, Shape
<1>2. lock' \in [LockName -> Actor \cup {Nil}]
  BY DEF TakeLock, SharedInv
<1> QED BY <1>1, <1>2 DEF TakeLock, SharedInv, files, budget

LEMMA DropKeeps ==
  ASSUME LocalInv, SharedInv, NEW a \in Actor, NEW l \in LockName, NEW from \in SeenPCs,
         NEW to \in {"dropMemory", "dropTopic", "claimLock"}, DropDeadLock(a, l, from, to)
  PROVE  LocalInv' /\ SharedInv'
<1>1. to \in PCs /\ pc[a] \in SeenPCs /\ pc[a] # "idle"
  BY DEF PCs, RecoverPCs, DropDeadLock, At, SeenPCs, SettlePCs, CommitPCs
<1>2. LocalInv'
  BY <1>1, MoveKeeps DEF DropDeadLock, LocalInv, Shape
<1>3. lock' \in [LockName -> Actor \cup {Nil}]
  BY DEF DropDeadLock, SharedInv
<1> QED BY <1>2, <1>3 DEF DropDeadLock, SharedInv, files, budget

-----------------------------------------------------------------------------
(* Every action keeps both halves *)

LEMMA RecoverKeeps ==
  ASSUME LocalInv, SharedInv, NEW a \in Actor, Recover(a)
  PROVE  LocalInv' /\ SharedInv'
<1> USE DEF At
<1>0. /\ RecoverPCs \subseteq PCs /\ "idle" \notin RecoverPCs
      /\ SeenPCs \subseteq PCs /\ "idle" \notin SeenPCs
      /\ {"bootLock", "bootRead", "bootWrite"} \cap (SeenPCs \cup RecoverPCs) = {}
      /\ {"wait", "claim"} \subseteq Reason /\ {"recovered", "retry", "failed"} \subseteq Outcome
  BY DEF PCs, RecoverPCs, SeenPCs, SettlePCs, CommitPCs, Reason, Outcome
<1>1. ASSUME Probe(a) PROVE LocalInv' /\ SharedInv'
  <2>1. SharedInv' BY <1>1 DEF Probe, SharedInv, files, budget
  <2>2. CASE Recovered(a) BY <1>1, <2>1, <2>2, RecoveredKeeps DEF Probe
  <2>3. CASE ~Recovered(a)
    BY <1>1, <2>1, <2>3
    DEF Probe, LocalInv, SharedInv, Shape, Goto, Relies, history, PCs, RecoverPCs
  <2> QED BY <2>2, <2>3
<1>2. ASSUME ProbeCheck(a) PROVE LocalInv' /\ SharedInv'
  <2>1. SharedInv' BY <1>2 DEF ProbeCheck, SharedInv, files, budget
  <2>2. CASE Recovered(a) BY <1>2, <2>1, <2>2, RecoveredKeeps DEF ProbeCheck
  <2>3. CASE Retry(a) BY <1>2, <2>1, <2>3, RetryKeeps DEF ProbeCheck
  <2>4. CASE ~Recovered(a) /\ ~Retry(a)
    <3>1. "ownerCheck" \in PCs BY DEF PCs, RecoverPCs
    <3>2. seen[a] \in Record BY <1>2 DEF ProbeCheck, LocalInv, Shape, SeenPCs
    <3>3. LocalInv'
      BY <1>0, <1>2, <2>4, <3>1, <3>2, MoveKeeps DEF ProbeCheck
    <3> QED BY <2>1, <3>3
  <2> QED BY <2>2, <2>3, <2>4
<1>3. ASSUME OwnerCheck(a) PROVE LocalInv' /\ SharedInv'
  <2>1. SharedInv' BY <1>3 DEF OwnerCheck, SharedInv, files, budget
  <2>2. {"waitLock", "dropJournal"} \subseteq PCs BY DEF PCs, RecoverPCs
  <2>3. seen[a] \in Record BY <1>3 DEF OwnerCheck, LocalInv, Shape, SeenPCs
  <2>4. CASE seen[a].owner \in alive
    BY <1>3, <2>1, <2>2, <2>3, <2>4, MoveKeeps DEF OwnerCheck
  <2>5. CASE seen[a].owner \notin alive
    BY <1>3, <2>1, <2>2, <2>3, <2>5, MoveKeeps DEF OwnerCheck
  <2> QED BY <2>4, <2>5
<1>4. ASSUME WaitLock(a) PROVE LocalInv' /\ SharedInv'
  BY <1>4, TakeLockKeeps
  DEF WaitLock, LockName, PCs, RecoverPCs, SeenPCs, SettlePCs, CommitPCs
<1>5. ASSUME WaitRead(a) PROVE LocalInv' /\ SharedInv'
  <2>1. SharedInv' BY <1>5 DEF WaitRead, SharedInv, files, budget
  <2>2. CASE journal = Nil
    BY <1>0, <1>5, <2>1, <2>2, UnwindKeeps DEF WaitRead, history, LocalInv
  <2>3. CASE journal # Nil
    BY <1>0, <1>5, <2>1, <2>3, SettleKeeps DEF WaitRead, SharedInv
  <2> QED BY <2>2, <2>3
<1>6. ASSUME DropJournal(a) PROVE LocalInv' /\ SharedInv'
  BY <1>6, DropKeeps DEF DropJournal, LockName, SeenPCs
<1>7. ASSUME DropMemory(a) PROVE LocalInv' /\ SharedInv'
  BY <1>7, DropKeeps DEF DropMemory, LockName, SeenPCs
<1>8. ASSUME DropTopic(a) PROVE LocalInv' /\ SharedInv'
  <2>1. pc[a] = "dropTopic" BY <1>8 DEF DropTopic, DropDeadLock
  <2>2. seen[a].topic \in LockName
    BY <2>1 DEF LocalInv, Shape, SeenPCs, Record, LockName
  <2> QED BY <1>8, <2>2, DropKeeps DEF DropTopic, SeenPCs
<1>9. ASSUME ClaimLock(a) PROVE LocalInv' /\ SharedInv'
  BY <1>9, TakeLockKeeps
  DEF ClaimLock, LockName, PCs, RecoverPCs, SeenPCs, SettlePCs, CommitPCs
<1>10. ASSUME ClaimRead(a) PROVE LocalInv' /\ SharedInv'
  <2>1. SharedInv' BY <1>10 DEF ClaimRead, SharedInv, files, budget
  <2>2. CASE journal # seen[a]
    BY <1>0, <1>10, <2>1, <2>2, UnwindKeeps DEF ClaimRead, history, LocalInv
  <2>3. CASE journal = seen[a]
    <3>1. journal \in Record BY <1>10, <2>3 DEF ClaimRead, LocalInv, Shape, SeenPCs
    <3>2. [journal EXCEPT !.owner = a] \in Record BY <3>1 DEF Record
    <3>3. LocalInv'
      BY <1>10, <2>3, <3>2
      DEF ClaimRead, LocalInv, Shape, Goto, Relies, history, PCs, RecoverPCs
    <3> QED BY <2>1, <3>3
  <2> QED BY <2>2, <2>3
<1>11. ASSUME ClaimWrite(a) PROVE LocalInv' /\ SharedInv'
  <2>1. seen[a] \in Record BY <1>11 DEF ClaimWrite, LocalInv, Shape, SeenPCs
  <2>2. SharedInv' BY <1>11, <2>1 DEF ClaimWrite, SharedInv, files, budget
  <2>3. "claimMemory" \in PCs BY DEF PCs, RecoverPCs
  <2> QED BY <1>11, <2>1, <2>2, <2>3, MoveKeeps DEF ClaimWrite
<1>12. ASSUME ClaimMemory(a) PROVE LocalInv' /\ SharedInv'
  BY <1>12, TakeLockKeeps
  DEF ClaimMemory, LockName, PCs, RecoverPCs, SeenPCs, SettlePCs, CommitPCs
<1>13. ASSUME ClaimVerify(a) PROVE LocalInv' /\ SharedInv'
  <2>1. SharedInv' BY <1>13 DEF ClaimVerify, SharedInv, files, budget
  <2>2. seen[a] \in Record BY <1>13 DEF ClaimVerify, LocalInv, Shape, SeenPCs
  <2>3. CASE journal # seen[a]
    BY <1>0, <1>13, <2>1, <2>3, UnwindKeeps DEF ClaimVerify, history, LocalInv
  <2>4. CASE journal = seen[a]
    BY <1>0, <1>13, <2>1, <2>2, <2>4, SettleKeeps DEF ClaimVerify
  <2> QED BY <2>3, <2>4
<1> QED
  BY <1>1, <1>2, <1>3, <1>4, <1>5, <1>6, <1>7, <1>8, <1>9, <1>10, <1>11, <1>12, <1>13
  DEF Recover

LEMMA SettleRecordKeeps ==
  ASSUME LocalInv, SharedInv, NEW a \in Actor, SettleRecord(a)
  PROVE  LocalInv' /\ SharedInv'
<1> USE DEF At
<1>0. /\ SettlePCs \subseteq PCs /\ "idle" \notin SettlePCs /\ SettlePCs \subseteq SeenPCs
      /\ {"bootLock", "bootRead", "bootWrite"} \cap SettlePCs = {}
  BY DEF PCs, SettlePCs, SeenPCs
<1>1. ASSUME SettleLock(a) PROVE LocalInv' /\ SharedInv'
  <2>1. pc[a] = "settleLock" BY <1>1 DEF SettleLock, TakeLock
  <2>2. seen[a].topic \in LockName
    BY <2>1 DEF LocalInv, Shape, SeenPCs, Record, LockName
  <2> QED BY <1>1, <2>2, TakeLockKeeps DEF SettleLock, PCs, SettlePCs, SeenPCs
<1>2. ASSUME RestoreTopic(a) PROVE LocalInv' /\ SharedInv'
  <2>1. seen[a] \in Record BY <1>0, <1>2 DEF RestoreTopic, LocalInv, Shape, SettlePCs
  <2>2. topics' \in [Topic -> Content]
    BY <1>2, <2>1 DEF RestoreTopic, SharedInv, Record
  <2>3. SharedInv' BY <1>2, <2>2 DEF RestoreTopic, SharedInv, files, budget
  <2>4. "restoreMemory" \in PCs BY <1>0 DEF SettlePCs
  <2> QED BY <1>2, <2>1, <2>3, <2>4, MoveKeeps DEF RestoreTopic
<1>3. ASSUME RestoreMemory(a) PROVE LocalInv' /\ SharedInv'
  <2>1. seen[a] \in Record BY <1>0, <1>3 DEF RestoreMemory, LocalInv, Shape, SettlePCs
  <2>2. memory' \in Memory BY <1>3, <2>1 DEF RestoreMemory, Record
  <2>3. SharedInv' BY <1>3, <2>2 DEF RestoreMemory, SharedInv, files, budget
  <2>4. "clearRead" \in PCs BY <1>0 DEF SettlePCs
  <2> QED BY <1>3, <2>1, <2>3, <2>4, MoveKeeps DEF RestoreMemory
<1>4. ASSUME ClearRead(a) PROVE LocalInv' /\ SharedInv'
  <2>1. SharedInv' BY <1>4 DEF ClearRead, SharedInv, files, budget
  <2>2. CASE journal = seen[a]
    <3>1. seen[a] \in Record BY <1>0, <1>4 DEF ClearRead, LocalInv, Shape, SettlePCs
    <3>2. "clearRemove" \in PCs BY <1>0 DEF SettlePCs
    <3>3. LocalInv' BY <1>4, <2>2, <3>1, <3>2, MoveKeeps DEF ClearRead
    <3> QED BY <2>1, <3>3
  <2>3. CASE journal # seen[a]
    <3>1. LocalInv' BY <1>4, <2>3, SettledKeeps DEF ClearRead
    <3> QED BY <2>1, <3>1
  <2> QED BY <2>2, <2>3
<1>5. ASSUME ClearRemove(a) PROVE LocalInv' /\ SharedInv'
  <2>1. SharedInv' BY <1>5 DEF ClearRemove, SharedInv, files, budget
  <2>2. LocalInv' BY <1>5, SettledKeeps DEF ClearRemove
  <2> QED BY <2>1, <2>2
<1> QED BY <1>1, <1>2, <1>3, <1>4, <1>5 DEF SettleRecord

LEMMA WithEntryMemory ==
  ASSUME NEW m \in Memory, NEW t \in Topic
  PROVE  Store!WithEntry(m, t) \in Memory
  BY DEF Store!WithEntry, Store!InitialMemory, Memory

LEMMA TransactKeeps ==
  ASSUME LocalInv, SharedInv, NEW a \in Actor, Transact(a)
  PROVE  LocalInv' /\ SharedInv'
<1> USE DEF At
<1>0. /\ BodyPCs \subseteq PCs /\ CommitPCs \subseteq PCs /\ SettlePCs \subseteq PCs
      /\ CommitPCs \subseteq SeenPCs /\ SeenPCs \cap BodyPCs = {}
      /\ {"ok", "failed"} \subseteq Outcome /\ {"map", "rollback", "commit"} \subseteq Reason
  BY DEF PCs, BodyPCs, RecoverPCs, SeenPCs, SettlePCs, CommitPCs, Reason, Outcome
<1>1. ASSUME MapLock(a) PROVE LocalInv' /\ SharedInv'
  BY <1>0, <1>1, TakeLockKeeps DEF MapLock, LockName, BodyPCs
<1>2. ASSUME MapSettle(a) PROVE LocalInv' /\ SharedInv'
  <2>1. SharedInv' BY <1>2 DEF MapSettle, SharedInv, files, budget
  <2>2. CASE journal = Nil
    <3>1. "readMap" \in PCs /\ "readMap" \notin SeenPCs BY <1>0 DEF BodyPCs
    <3>2. LocalInv' BY <1>2, <2>2, <3>1, MoveKeeps DEF MapSettle
    <3> QED BY <2>1, <3>2
  <2>3. CASE journal # Nil
    BY <1>0, <1>2, <2>1, <2>3, SettleKeeps DEF MapSettle, SharedInv
  <2> QED BY <2>2, <2>3
<1>3. ASSUME MapUnlockTopic(a) PROVE LocalInv' /\ SharedInv'
  <2>1. lock' \in [LockName -> Actor \cup {Nil}]
    BY <1>3 DEF MapUnlockTopic, SharedInv
  <2>2. SharedInv' BY <1>3, <2>1 DEF MapUnlockTopic, SharedInv, files, budget
  <2>3. "readMap" \in PCs /\ "readMap" \notin SeenPCs BY <1>0 DEF BodyPCs
  <2>4. LocalInv'
    BY <1>3, <2>3 DEF MapUnlockTopic, LocalInv, Shape, Goto, Relies, history
  <2> QED BY <2>2, <2>4
<1>4. ASSUME ReadMap(a) PROVE LocalInv' /\ SharedInv'
  <2>1. SharedInv' BY <1>4 DEF ReadMap, SharedInv, files, budget
  <2>2. op[a] \in Op BY <1>4 DEF ReadMap, LocalInv, Shape
  <2>3. Store!WithEntry(memory, op[a].topic) \in Memory
    BY <2>2, WithEntryMemory DEF SharedInv, Op
  <2>4. {"mapWrite", "topicLock"} \subseteq PCs \ SeenPCs BY <1>0 DEF BodyPCs
  <2>5. CASE Unwind(a, "failed")
    BY <1>0, <1>4, <2>1, <2>5, UnwindKeeps DEF ReadMap, LocalInv, history
  <2>6. CASE ~Unwind(a, "failed")
    <3>1. LocalInv'
      BY <1>4, <2>3, <2>4, <2>6 DEF ReadMap, LocalInv, Shape, Goto, Plans, history
    <3> QED BY <2>1, <3>1
  <2> QED BY <2>5, <2>6
<1>5. ASSUME MapWrite(a) PROVE LocalInv' /\ SharedInv'
  <2>1. op[a] \in Op BY <1>5 DEF MapWrite, LocalInv, Shape
  <2>2. applied' \subseteq Op BY <1>5, <2>1 DEF MapWrite, Applied, LocalInv
  <2>3. SharedInv' BY <1>5 DEF MapWrite, SharedInv, LocalInv, budget
  <2>4. LocalInv' BY <1>0, <1>5, <2>2, UnwindKeeps DEF MapWrite, Applied
  <2> QED BY <2>3, <2>4
<1>6. ASSUME TopicLock(a) PROVE LocalInv' /\ SharedInv'
  <2>1. op[a] \in Op BY <1>6 DEF TopicLock, TakeLock, LocalInv, Shape
  <2> QED BY <1>0, <1>6, <2>1, TakeLockKeeps DEF TopicLock, LockName, Op, BodyPCs
<1>7. ASSUME Begin(a) PROVE LocalInv' /\ SharedInv'
  <2>1. op[a] \in Op BY <1>7 DEF Begin, LocalInv, Shape
  <2>2. CASE Unwind(a, "failed") /\ UNCHANGED journal
    <3>1. SharedInv' BY <1>7, <2>2 DEF Begin, SharedInv, files, budget
    <3>2. LocalInv' BY <1>0, <1>7, <2>2, UnwindKeeps DEF Begin, LocalInv, history
    <3> QED BY <3>1, <3>2
  <2>3. CASE ~(Unwind(a, "failed") /\ UNCHANGED journal)
    <3>1. journal' \in Record
      BY <1>7, <2>1, <2>3 DEF Begin, SharedInv, Record, Op, Content
    <3>2. SharedInv' BY <1>7, <3>1 DEF Begin, SharedInv, files, budget
    <3>3. "writeTopic" \in PCs BY <1>0 DEF CommitPCs
    <3>4. /\ Goto(a, "writeTopic") /\ Relies(a, journal')
          /\ UNCHANGED <<op, round, tries, plan, after, history>>
      BY <1>7, <2>3 DEF Begin
    <3>5. LocalInv'
      BY <2>1, <3>1, <3>3, <3>4 DEF LocalInv, Shape, Goto, Relies, history
    <3> QED BY <3>2, <3>5
  <2> QED BY <2>2, <2>3
<1>8. ASSUME WriteTopic(a) PROVE LocalInv' /\ SharedInv'
  <2>1. op[a] \in Op BY <1>8 DEF WriteTopic, LocalInv, Shape
  <2>2. topics' \in [Topic -> Content]
    BY <1>8, <2>1 DEF WriteTopic, SharedInv, Content
  <2>3. SharedInv' BY <1>8, <2>2 DEF WriteTopic, SharedInv, files, budget
  <2>4. "commitMap" \in PCs /\ seen[a] \in Record
    BY <1>0, <1>8 DEF WriteTopic, LocalInv, Shape, CommitPCs
  <2>5. CASE Rollback(a)
    BY <1>8, <2>3, <2>5, RollbackKeeps DEF WriteTopic, CommitPCs
  <2>6. CASE ~Rollback(a)
    BY <1>8, <2>3, <2>4, <2>6, MoveKeeps DEF WriteTopic
  <2> QED BY <2>5, <2>6
<1>9. ASSUME CommitMap(a) PROVE LocalInv' /\ SharedInv'
  <2>1. SharedInv' BY <1>9 DEF CommitMap, SharedInv, LocalInv, budget
  <2>2. "markRead" \in PCs /\ seen[a] \in Record
    BY <1>0, <1>9 DEF CommitMap, LocalInv, Shape, CommitPCs
  <2> QED BY <1>9, <2>1, <2>2, MoveKeeps DEF CommitMap
<1>10. ASSUME MarkRead(a) PROVE LocalInv' /\ SharedInv'
  <2>1. SharedInv' BY <1>10 DEF MarkRead, SharedInv, files, budget
  <2>2. "markWrite" \in PCs /\ seen[a] \in Record /\ pc[a] \in CommitPCs
    BY <1>0, <1>10 DEF MarkRead, LocalInv, Shape, CommitPCs
  <2>3. CASE journal = seen[a]
    BY <1>10, <2>1, <2>2, <2>3, MoveKeeps DEF MarkRead
  <2>4. CASE journal # seen[a]
    BY <1>10, <2>1, <2>2, <2>4, RollbackKeeps DEF MarkRead
  <2> QED BY <2>3, <2>4
<1>11. ASSUME MarkWrite(a) PROVE LocalInv' /\ SharedInv'
  <2>1. op[a] \in Op /\ seen[a] \in Record
    BY <1>0, <1>11 DEF MarkWrite, LocalInv, Shape, CommitPCs
  <2>2. journal' \in Record BY <1>11, <2>1 DEF MarkWrite, Record
  <2>3. SharedInv' BY <1>11, <2>2 DEF MarkWrite, SharedInv, files, budget
  <2>4. "clearRead" \in PCs BY <1>0 DEF SettlePCs
  <2>5. LocalInv'
    BY <1>0, <1>11, <2>1, <2>2, <2>4
    DEF MarkWrite, LocalInv, Shape, Goto, Relies, Applied
  <2> QED BY <2>3, <2>5
<1> QED
  BY <1>1, <1>2, <1>3, <1>4, <1>5, <1>6, <1>7, <1>8, <1>9, <1>10, <1>11 DEF Transact

LEMMA SingleLockKeeps ==
  ASSUME LocalInv, SharedInv, NEW a \in Actor, SingleLock(a)
  PROVE  LocalInv' /\ SharedInv'
<1> USE DEF At
<1>0. /\ BodyPCs \subseteq PCs /\ SeenPCs \cap BodyPCs = {}
      /\ {"ok", "failed"} \subseteq Outcome
  BY DEF PCs, BodyPCs, RecoverPCs, SeenPCs, SettlePCs, CommitPCs, Outcome
<1>1. ASSUME BootLock(a) PROVE LocalInv' /\ SharedInv'
  BY <1>0, <1>1, TakeLockKeeps DEF BootLock, LockName, BodyPCs
<1>2. ASSUME BootRead(a) PROVE LocalInv' /\ SharedInv'
  <2>1. SharedInv' BY <1>2 DEF BootRead, SharedInv, files, budget
  <2>2. op[a] \in Op /\ op[a].kind \in Bootstrap BY <1>2 DEF BootRead, LocalInv, Shape
  <2>3. CASE \E next \in Outcome : Unwind(a, next)
    BY <1>2, <2>1, <2>3, UnwindKeeps DEF BootRead, LocalInv, history
  <2>4. CASE ~\E next \in Outcome : Unwind(a, next)
    <3>1. /\ op[a].kind = "editMemory" => memory # Absent
          /\ Plans(a, CASE op[a].kind = "writeMemory" -> [body |-> op[a], map |-> {}]
                        [] op[a].kind = "editMemory" -> [memory EXCEPT !.body = op[a]]
                        [] op[a].kind = "ensure" -> [body |-> Fresh, map |-> {}])
          /\ Goto(a, "bootWrite")
          /\ UNCHANGED <<op, round, tries, seen, after, history>>
      BY <1>0, <1>2, <2>4 DEF BootRead
    <3>2. memory \in Memory BY DEF SharedInv
    <3>3. plan'[a] \in Memory
      <4> DEFINE content == CASE op[a].kind = "writeMemory" -> [body |-> op[a], map |-> {}]
                              [] op[a].kind = "editMemory" -> [memory EXCEPT !.body = op[a]]
                              [] op[a].kind = "ensure" -> [body |-> Fresh, map |-> {}]
      <4>0. plan'[a] = content BY <3>1 DEF Plans, LocalInv
      <4>1. CASE op[a].kind = "writeMemory"
        <5>1. content = [body |-> op[a], map |-> {}] BY <4>1
        <5>2. [body |-> op[a], map |-> {}] \in Memory BY <2>2 DEF Memory
        <5> HIDE DEF content
        <5> QED BY <4>0, <5>1, <5>2
      <4>2. CASE op[a].kind = "editMemory"
        <5>1. content = [memory EXCEPT !.body = op[a]] BY <4>2
        <5>2. [memory EXCEPT !.body = op[a]] \in Memory
          BY <2>2, <3>1, <3>2, <4>2 DEF Memory
        <5> QED BY <4>0, <5>1, <5>2
      <4>3. CASE op[a].kind = "ensure"
        <5>1. content = [body |-> Fresh, map |-> {}] BY <4>3
        <5>2. [body |-> Fresh, map |-> {}] \in Memory BY DEF Memory
        <5> HIDE DEF content
        <5> QED BY <4>0, <5>1, <5>2
      <4> QED BY <2>2, <4>1, <4>2, <4>3 DEF Bootstrap
    <3>4. plan' \in [Actor -> Memory]
      BY <3>1, <3>3 DEF Plans, LocalInv
    <3>5. "bootWrite" \in PCs /\ "bootWrite" \notin SeenPCs BY <1>0 DEF BodyPCs
    <3>6. LocalInv'
      BY <2>2, <3>1, <3>4, <3>5 DEF LocalInv, Shape, Goto, history
    <3> QED BY <2>1, <3>6
  <2> QED BY <2>3, <2>4
<1>3. ASSUME BootWrite(a) PROVE LocalInv' /\ SharedInv'
  <2>1. op[a] \in Op BY <1>3 DEF BootWrite, LocalInv, Shape
  <2>2. applied' \subseteq Op BY <1>3, <2>1 DEF BootWrite, Applied, LocalInv
  <2>3. SharedInv' BY <1>3 DEF BootWrite, SharedInv, LocalInv, budget
  <2>4. LocalInv' BY <1>0, <1>3, <2>2, UnwindKeeps DEF BootWrite, Applied
  <2> QED BY <2>3, <2>4
<1>4. ASSUME OnlyLock(a) PROVE LocalInv' /\ SharedInv'
  <2>1. op[a] \in Op BY <1>4 DEF OnlyLock, TakeLock, LocalInv, Shape
  <2> QED BY <1>0, <1>4, <2>1, TakeLockKeeps DEF OnlyLock, LockName, Op, BodyPCs
<1>5. ASSUME OnlyWrite(a) PROVE LocalInv' /\ SharedInv'
  <2>1. op[a] \in Op BY <1>5 DEF OnlyWrite, LocalInv, Shape
  <2>2. applied' \subseteq Op
    BY <1>5, <2>1 DEF OnlyWrite, Applied, LocalInv, history
  <2>3. topics' \in [Topic -> Content]
    BY <1>5, <2>1 DEF OnlyWrite, SharedInv, Content
  <2>4. SharedInv' BY <1>5, <2>3 DEF OnlyWrite, SharedInv, budget
  <2>5. LocalInv' BY <1>0, <1>5, <2>2, UnwindKeeps DEF OnlyWrite, Applied, history
  <2> QED BY <2>4, <2>5
<1> QED BY <1>1, <1>2, <1>3, <1>4, <1>5 DEF SingleLock

LEMMA CallKeeps ==
  ASSUME LocalInv, SharedInv, NEW a \in Actor, Call(a)
  PROVE  LocalInv' /\ SharedInv'
<1>1. SharedInv' BY DEF Call, SharedInv, files, budget
<1>2. PICK r \in Menu :
        /\ op' = [op EXCEPT ![a] =
                    [actor |-> a, call |-> IF @ = Nil THEN 1 ELSE @.call + 1,
                     kind |-> r.kind, topic |-> r.topic]]
        /\ round' = [round EXCEPT ![a] = IF r.kind \in Compound THEN 2 ELSE 1]
  BY DEF Call
<1>3. r.kind \in Kind /\ r.topic \in Topic
  BY <1>2, MenuAssumption
<1> DEFINE number == IF op[a] = Nil THEN 1 ELSE op[a].call + 1
<1>4. number \in 1..MaxCalls
  <2>1. (IF op[a] = Nil THEN 0 ELSE op[a].call) < MaxCalls BY DEF Call
  <2>2. CASE op[a] = Nil BY <2>1, <2>2, BoundsAssumption
  <2>3. CASE op[a] # Nil
    <3>1. op[a].call \in 1..MaxCalls BY <2>3 DEF LocalInv, Op
    <3> QED BY <2>1, <2>3, <3>1, BoundsAssumption
  <2> QED BY <2>2, <2>3
<1>5. op'[a] = [actor |-> a, call |-> number, kind |-> r.kind, topic |-> r.topic]
  BY <1>2 DEF LocalInv
<1>6. op'[a] \in Op
  BY <1>3, <1>4, <1>5 DEF Op
<1>7. op' \in [Actor -> Op \cup {Nil}]
  BY <1>2, <1>6 DEF LocalInv
<1>8. round' \in [Actor -> 0..2]
  BY <1>2 DEF LocalInv
<1>9. "probe" \in PCs /\ "probe" \notin SeenPCs
  BY DEF PCs, RecoverPCs, SeenPCs, SettlePCs, CommitPCs
<1>10. \A b \in Actor \ {a} : op'[b] = op[b]
  BY <1>2 DEF LocalInv
<1>11. LocalInv'
  BY <1>6, <1>7, <1>8, <1>9, <1>10 DEF Call, LocalInv, Shape, Goto, history
<1> QED BY <1>1, <1>11

LEMMA UnlockKeeps ==
  ASSUME LocalInv, SharedInv, NEW a \in Actor, Unlock(a)
  PROVE  LocalInv' /\ SharedInv'
<1>1. lock' \in [LockName -> Actor \cup {Nil}]
  BY DEF Unlock, SharedInv
<1>2. SharedInv' BY <1>1 DEF Unlock, SharedInv, files, budget
<1>3. pc[a] # "idle" BY DEF Unlock, At
<1>4. CASE UNCHANGED <<pc, local, history>>
  BY <1>2, <1>4 DEF LocalInv, Shape, local, history
<1>5. CASE Recovered(a) BY <1>2, <1>3, <1>5, RecoveredKeeps
<1>6. CASE Retry(a) BY <1>2, <1>3, <1>6, RetryKeeps
<1>7. CASE Finish(a, after[a] = "ok") BY <1>2, <1>3, <1>7, FinishKeeps
<1> QED BY <1>4, <1>5, <1>6, <1>7 DEF Unlock

LEMMA EnvironmentKeeps ==
  ASSUME LocalInv, SharedInv, NEW a \in Actor,
         TimeOut(a) \/ Fault(a) \/ SettlementFault(a) \/ Crash(a)
  PROVE  LocalInv' /\ SharedInv'
<1>0. /\ {"ok", "failed"} \subseteq Outcome
      /\ "idle" \notin RecoverPCs \cup BodyPCs \cup CommitPCs \cup SettlePCs
  BY DEF Outcome, RecoverPCs, BodyPCs, CommitPCs, SettlePCs
<1>1. ASSUME TimeOut(a) PROVE LocalInv' /\ SharedInv'
  <2>1. pc[a] # "idle" BY <1>1 DEF TimeOut, Waiting, Awaited
  <2>2. LocalInv' BY <1>0, <1>1, <2>1, UnwindKeeps DEF TimeOut, LocalInv, history
  <2> QED BY <1>1, <2>2 DEF TimeOut, SharedInv, files, budget
<1>2. ASSUME Fault(a) PROVE LocalInv' /\ SharedInv'
  <2>1. LocalInv'
    BY <1>0, <1>2, UnwindKeeps, RollbackKeeps DEF Fault, LocalInv, history
  <2>2. faults' \in 0..MaxFaults BY <1>2, BoundsAssumption DEF Fault, SharedInv
  <2> QED BY <1>2, <2>1, <2>2 DEF Fault, SharedInv, files
<1>3. ASSUME SettlementFault(a) PROVE LocalInv' /\ SharedInv'
  <2>1. LocalInv'
    BY <1>0, <1>3, UnwindKeeps DEF SettlementFault, LocalInv, history
  <2>2. settlementFaults' \in 0..MaxSettlementFaults
    BY <1>3, BoundsAssumption DEF SettlementFault, SharedInv
  <2> QED BY <1>3, <2>1, <2>2 DEF SettlementFault, SharedInv, files
<1>4. ASSUME Crash(a) PROVE LocalInv' /\ SharedInv'
  <2>1. "idle" \in PCs /\ "idle" \notin SeenPCs
    BY DEF PCs, SeenPCs, SettlePCs, CommitPCs
  <2>2. LocalInv'
    BY <1>4, <2>1, BoundsAssumption
    DEF Crash, LocalInv, Shape, Goto, Relies, Plans, history, Memory
  <2>3. crashes' \in 0..MaxCrashes BY <1>4, BoundsAssumption DEF Crash, SharedInv
  <2> QED BY <1>4, <2>2, <2>3 DEF Crash, SharedInv, files
<1> QED BY <1>1, <1>2, <1>3, <1>4

LEMMA StepKeeps ==
  ASSUME LocalInv, SharedInv, [Next]_vars
  PROVE  LocalInv' /\ SharedInv'
<1>1. CASE UNCHANGED vars
  BY <1>1 DEF vars, files, local, history, budget, LocalInv, SharedInv, Shape
<1>2. ASSUME NEW a \in Actor,
             Call(a) \/ Step(a) \/ TimeOut(a) \/ Fault(a) \/ SettlementFault(a) \/ Crash(a)
      PROVE  LocalInv' /\ SharedInv'
  BY <1>2, CallKeeps, RecoverKeeps, SettleRecordKeeps, TransactKeeps, SingleLockKeeps,
     UnlockKeeps, EnvironmentKeeps DEF Step
<1> QED BY <1>1, <1>2 DEF Next

THEOREM Typing == Spec => [](LocalInv /\ SharedInv)
<1>1. Init => LocalInv /\ SharedInv BY InitHalves
<1>2. (LocalInv /\ SharedInv) /\ [Next]_vars => (LocalInv /\ SharedInv)'
  BY StepKeeps
<1> QED BY <1>1, <1>2, PTL DEF Spec

\* The journal, the files and every process's record of them are always of
\* their types, whatever is interrupted and recovered.
THEOREM TypeCorrect == Spec => []TypeOK
<1>1. LocalInv /\ SharedInv => TypeOK BY Halves
<1> QED BY <1>1, Typing, PTL

-----------------------------------------------------------------------------
(* Which locks a process holds where *)

\* Between taking the MEMORY.md lock and the unwinding that gives it back.
MapPCs == {"waitRead", "claimVerify", "settleLock", "mapSettle", "mapUnlockTopic", "readMap",
           "mapWrite", "topicLock", "begin", "bootRead", "bootWrite"} \cup SettlePCs \cup CommitPCs

OwnLocks(a) ==
  /\ pc[a] # "idle" => a \in alive
  /\ pc[a] \in MapPCs => lock["memory"] = a
  /\ pc[a] \in {"restoreTopic", "restoreMemory"} => lock[seen[a].topic] = a
  /\ pc[a] \in {"begin"} \cup CommitPCs => lock[op[a].topic] = a
  /\ pc[a] \in CommitPCs => seen[a].topic = op[a].topic
  /\ pc[a] = "onlyWrite" => lock[op[a].topic] = a

LockInv == \A a \in Actor : OwnLocks(a)

\* A step of a leaves the other processes, and the locks they hold, alone.
Frame(a) ==
  \A b \in Actor \ {a} :
    /\ pc'[b] = pc[b] /\ op'[b] = op[b] /\ seen'[b] = seen[b]
    /\ b \in alive => b \in alive' /\ \A l \in LockName : lock[l] = b => lock'[l] = b

LEMMA FrameKeeps ==
  ASSUME LocalInv, LockInv, NEW a \in Actor, Frame(a), OwnLocks(a)'
  PROVE  LockInv'
<1>1. ASSUME NEW b \in Actor \ {a} PROVE OwnLocks(b)'
  <2>1. /\ pc'[b] = pc[b] /\ op'[b] = op[b] /\ seen'[b] = seen[b]
        /\ b \in alive => b \in alive' /\ \A l \in LockName : lock[l] = b => lock'[l] = b
    BY DEF Frame
  <2>2. CASE pc[b] = "idle"
    BY <2>1, <2>2 DEF OwnLocks, MapPCs, SettlePCs, CommitPCs
  <2>3. CASE pc[b] # "idle"
    <3>1. b \in alive /\ OwnLocks(b) BY <2>3 DEF LockInv, OwnLocks
    <3>2. op[b].topic \in LockName /\ "memory" \in LockName
      BY <2>3 DEF LocalInv, Shape, Op, LockName
    <3>3. pc[b] \in {"restoreTopic", "restoreMemory"} => seen[b].topic \in LockName
      BY DEF LocalInv, Shape, SeenPCs, SettlePCs, Record, LockName
    <3> QED BY <2>1, <3>1, <3>2, <3>3 DEF OwnLocks
  <2> QED BY <2>2, <2>3
<1> QED BY <1>1 DEF LockInv

\* Outside these labels a process claims no lock.
Claiming == MapPCs \cup {"onlyWrite"}

LEMMA FreeMove ==
  ASSUME LocalInv, LockInv, NEW a \in Actor, a \in alive, alive' = alive,
         NEW label, label \notin Claiming, Goto(a, label),
         \A b \in Actor \ {a} : op'[b] = op[b] /\ seen'[b] = seen[b],
         \A b \in Actor \ {a} :
           b \in alive => \A l \in LockName : lock[l] = b => lock'[l] = b
  PROVE  LockInv'
<1>1. Frame(a) BY DEF Frame, Goto, LocalInv
<1>2. pc'[a] = label BY DEF Goto, LocalInv
<1>3. OwnLocks(a)' BY <1>2 DEF OwnLocks, Claiming, MapPCs, CommitPCs, SettlePCs
<1> QED BY <1>1, <1>3, FrameKeeps

LEMMA FreeEnds ==
  ASSUME LocalInv, NEW a \in Actor, pc[a] # "idle"
  PROVE  /\ \A next : Unwind(a, next) =>
              Goto(a, "unlock") /\ UNCHANGED <<op, seen>> /\ "unlock" \notin Claiming
         /\ \A success : Finish(a, success) =>
              \E label : /\ Goto(a, label) /\ label \notin Claiming
                         /\ \A b \in Actor \ {a} : op'[b] = op[b] /\ seen'[b] = seen[b]
         /\ Recovered(a) \/ Retry(a) =>
              \E label : /\ Goto(a, label) /\ label \notin Claiming
                         /\ \A b \in Actor \ {a} : op'[b] = op[b] /\ seen'[b] = seen[b]
<1>1. {"unlock", "idle", "probe", "mapLock", "bootLock", "onlyLock"} \cap Claiming = {}
  BY DEF Claiming, MapPCs, SettlePCs, CommitPCs
<1>2. ASSUME NEW success, Finish(a, success)
      PROVE  /\ Goto(a, "idle")
             /\ \A b \in Actor \ {a} : op'[b] = op[b] /\ seen'[b] = seen[b]
  BY <1>2 DEF Finish, LocalInv
<1>3. ASSUME Recovered(a), ~Finish(a, TRUE)
      PROVE  \E label : /\ Goto(a, label) /\ label \notin Claiming
                        /\ \A b \in Actor \ {a} : op'[b] = op[b] /\ seen'[b] = seen[b]
  <2>1. /\ \/ round[a] > 1
           \/ round[a] = 1 /\ op[a].kind # "read"
        /\ Goto(a, IF round[a] > 1 THEN "probe" ELSE BodyStart(op[a]))
        /\ Relies(a, Nil) /\ UNCHANGED op
    BY <1>3 DEF Recovered
  <2>2. \A b \in Actor \ {a} : op'[b] = op[b] /\ seen'[b] = seen[b]
    BY <2>1 DEF Relies, LocalInv
  <2>3. CASE round[a] > 1
    <3>1. Goto(a, "probe") BY <2>1, <2>3 DEF Goto
    <3> QED BY <1>1, <2>2, <3>1
  <2>4. CASE ~(round[a] > 1)
    <3>1. op[a] \in Op /\ op[a].kind # "read"
      BY <2>1, <2>4 DEF LocalInv, Shape
    <3>2. BodyStart(op[a]) \notin Claiming BY <1>1, <3>1, BodyStarts
    <3>3. Goto(a, BodyStart(op[a])) BY <2>1, <2>4 DEF Goto
    <3> QED BY <2>2, <3>2, <3>3
  <2> QED BY <2>3, <2>4
<1>4. ASSUME Retry(a), ~Recovered(a)
      PROVE  /\ Goto(a, "probe")
             /\ \A b \in Actor \ {a} : op'[b] = op[b] /\ seen'[b] = seen[b]
  BY <1>4 DEF Retry, Relies, LocalInv
<1>5. Recovered(a) => \E label : /\ Goto(a, label) /\ label \notin Claiming
                        /\ \A b \in Actor \ {a} : op'[b] = op[b] /\ seen'[b] = seen[b]
  BY <1>1, <1>2, <1>3
<1>6. \A next : Unwind(a, next) =>
              Goto(a, "unlock") /\ UNCHANGED <<op, seen>> /\ "unlock" \notin Claiming
  BY <1>1 DEF Unwind
<1> QED BY <1>1, <1>2, <1>4, <1>5, <1>6

\* A step of a that moves it to `label` and leaves locks, op and seen alone.
LEMMA PlainMove ==
  ASSUME LocalInv, LockInv, NEW a \in Actor, a \in alive, NEW label, Goto(a, label),
         UNCHANGED <<alive, lock, op, seen>>,
         label \in MapPCs => pc[a] \in MapPCs,
         label \in {"restoreTopic", "restoreMemory"} => pc[a] \in {"restoreTopic", "restoreMemory"},
         label \in {"begin"} \cup CommitPCs => pc[a] \in CommitPCs,
         label # "onlyWrite"
  PROVE  LockInv'
<1>1. Frame(a) BY DEF Frame, Goto, LocalInv
<1>2. pc'[a] = label BY DEF Goto, LocalInv
<1>3. OwnLocks(a) BY DEF LockInv
<1>4. OwnLocks(a)' BY <1>2, <1>3 DEF OwnLocks
<1> QED BY <1>1, <1>4, FrameKeeps

LEMMA TakeLockOwns ==
  ASSUME LocalInv, SharedInv, LockInv, NEW a \in Actor, NEW l \in LockName, NEW from, NEW to,
         TakeLock(a, l, from, to), from # "idle",
         to \in MapPCs => l = "memory" \/ from \in MapPCs,
         to \in {"restoreTopic", "restoreMemory"} => l = seen[a].topic,
         to \in {"begin"} \cup CommitPCs => to = "begin" /\ l = op[a].topic,
         to = "onlyWrite" => l = op[a].topic
  PROVE  LockInv'
<1>1. /\ pc'[a] = to /\ pc[a] = from /\ a \in alive /\ lock'[l] = a /\ lock[l] = Nil
      /\ \A k \in LockName \ {l} : lock'[k] = lock[k]
      /\ UNCHANGED <<alive, op, seen>>
  BY DEF TakeLock, At, Goto, LocalInv, SharedInv, local
<1>2. Frame(a)
  BY <1>1, SentinelAssumption DEF Frame, TakeLock, Goto, LocalInv
<1>3. OwnLocks(a) BY DEF LockInv
<1>4. "memory" \in LockName BY DEF LockName
<1>5. pc'[a] \in MapPCs => lock'["memory"] = a
  BY <1>1, <1>3, <1>4 DEF OwnLocks
<1>6. OwnLocks(a)'
  BY <1>1, <1>5 DEF OwnLocks, CommitPCs
<1> QED BY <1>2, <1>6, FrameKeeps

LEMMA DropOwns ==
  ASSUME LocalInv, SharedInv, LockInv, NEW a \in Actor, NEW l \in LockName,
         NEW from, NEW to \in {"dropMemory", "dropTopic", "claimLock"},
         DropDeadLock(a, l, from, to)
  PROVE  LockInv'
<1>1. to \notin Claiming BY DEF Claiming, MapPCs, SettlePCs, CommitPCs
<1>2. \A b \in Actor : b \in alive => \A k \in LockName : lock[k] = b => lock'[k] = b
  BY DEF DropDeadLock, SharedInv
<1> QED BY <1>1, <1>2, FreeMove DEF DropDeadLock, At, local

LEMMA RecoverOwns ==
  ASSUME LocalInv, SharedInv, LockInv, NEW a \in Actor, Recover(a)
  PROVE  LockInv'
<1> USE DEF At
<1>0. {"probeCheck", "ownerCheck", "waitLock", "dropJournal", "claimRead", "claimWrite",
       "claimMemory"} \cap Claiming = {}
  BY DEF Claiming, MapPCs, SettlePCs, CommitPCs
<1>1. ASSUME Probe(a) PROVE LockInv'
  <2>1. a \in alive /\ pc[a] # "idle" /\ UNCHANGED <<alive, lock>> BY <1>1 DEF Probe
  <2>2. CASE Recovered(a) BY <2>1, <2>2, FreeEnds, FreeMove
  <2>3. CASE ~Recovered(a)
    <3>1. Goto(a, "probeCheck") /\ \A b \in Actor \ {a} : op'[b] = op[b] /\ seen'[b] = seen[b]
      BY <1>1, <2>3 DEF Probe, Relies, LocalInv
    <3> QED BY <1>0, <2>1, <3>1, FreeMove
  <2> QED BY <2>2, <2>3
<1>2. ASSUME ProbeCheck(a) PROVE LockInv'
  <2>1. a \in alive /\ pc[a] # "idle" /\ UNCHANGED <<alive, lock>> BY <1>2 DEF ProbeCheck
  <2>2. CASE Recovered(a) \/ Retry(a) BY <2>1, <2>2, FreeEnds, FreeMove
  <2>3. CASE Goto(a, "ownerCheck") /\ UNCHANGED local
    BY <1>0, <2>1, <2>3, FreeMove DEF local
  <2> QED BY <1>2, <2>2, <2>3 DEF ProbeCheck
<1>3. ASSUME OwnerCheck(a) PROVE LockInv'
  <2>1. a \in alive /\ UNCHANGED <<alive, lock, op, seen>> BY <1>3 DEF OwnerCheck, local
  <2>2. Goto(a, "waitLock") \/ Goto(a, "dropJournal") BY <1>3 DEF OwnerCheck, Goto
  <2> QED BY <1>0, <2>1, <2>2, FreeMove
<1>4. ASSUME WaitLock(a) PROVE LockInv'
  BY <1>4, TakeLockOwns DEF WaitLock, LockName, CommitPCs
<1>5. ASSUME WaitRead(a) PROVE LockInv'
  <2>1. a \in alive /\ pc[a] = "waitRead" /\ UNCHANGED <<alive, lock>> BY <1>5 DEF WaitRead
  <2>2. CASE journal = Nil
    BY <1>5, <2>1, <2>2, FreeEnds, FreeMove DEF WaitRead
  <2>3. CASE journal # Nil
    <3>1. Settle(a, journal, "wait") BY <1>5, <2>3 DEF WaitRead
    <3>2. /\ Frame(a) /\ pc'[a] \in {"clearRead", "settleLock"}
      BY <2>1, <3>1 DEF Settle, Relies, Goto, Frame, LocalInv
    <3>3. OwnLocks(a)'
      BY <2>1, <3>2 DEF LockInv, OwnLocks, MapPCs, CommitPCs
    <3> QED BY <3>2, <3>3, FrameKeeps
  <2> QED BY <2>2, <2>3
<1>6. ASSUME DropJournal(a) PROVE LockInv'
  BY <1>6, DropOwns DEF DropJournal, LockName
<1>7. ASSUME DropMemory(a) PROVE LockInv'
  BY <1>7, DropOwns DEF DropMemory, LockName
<1>8. ASSUME DropTopic(a) PROVE LockInv'
  <2>1. pc[a] = "dropTopic" BY <1>8 DEF DropTopic, DropDeadLock
  <2>2. seen[a].topic \in LockName
    BY <2>1 DEF LocalInv, Shape, SeenPCs, Record, LockName
  <2> QED BY <1>8, <2>2, DropOwns DEF DropTopic
<1>9. ASSUME ClaimLock(a) PROVE LockInv'
  BY <1>0, <1>9, TakeLockOwns DEF ClaimLock, LockName, CommitPCs, Claiming
<1>10. ASSUME ClaimRead(a) PROVE LockInv'
  <2>1. a \in alive /\ pc[a] # "idle" /\ UNCHANGED <<alive, lock>> BY <1>10 DEF ClaimRead
  <2>2. CASE Unwind(a, "retry") BY <2>1, <2>2, FreeEnds, FreeMove
  <2>3. CASE ~Unwind(a, "retry")
    <3>1. Goto(a, "claimWrite") /\ \A b \in Actor \ {a} : op'[b] = op[b] /\ seen'[b] = seen[b]
      BY <1>10, <2>3 DEF ClaimRead, Relies, LocalInv
    <3> QED BY <1>0, <2>1, <3>1, FreeMove
  <2> QED BY <2>2, <2>3
<1>11. ASSUME ClaimWrite(a) PROVE LockInv'
  BY <1>0, <1>11, FreeMove DEF ClaimWrite, local
<1>12. ASSUME ClaimMemory(a) PROVE LockInv'
  BY <1>12, TakeLockOwns DEF ClaimMemory, LockName, CommitPCs
<1>13. ASSUME ClaimVerify(a) PROVE LockInv'
  <2>1. a \in alive /\ pc[a] = "claimVerify" /\ UNCHANGED <<alive, lock>>
    BY <1>13 DEF ClaimVerify
  <2>2. CASE journal # seen[a]
    BY <1>13, <2>1, <2>2, FreeEnds, FreeMove DEF ClaimVerify
  <2>3. CASE journal = seen[a]
    <3>1. Settle(a, journal, "claim") BY <1>13, <2>3 DEF ClaimVerify
    <3>2. /\ Frame(a) /\ pc'[a] \in {"clearRead", "settleLock"}
      BY <2>1, <3>1 DEF Settle, Relies, Goto, Frame, LocalInv
    <3>3. OwnLocks(a)'
      BY <2>1, <3>2 DEF LockInv, OwnLocks, MapPCs, CommitPCs
    <3> QED BY <3>2, <3>3, FrameKeeps
  <2> QED BY <2>2, <2>3
<1> QED
  BY <1>1, <1>2, <1>3, <1>4, <1>5, <1>6, <1>7, <1>8, <1>9, <1>10, <1>11, <1>12, <1>13
  DEF Recover

LEMMA SettledOwns ==
  ASSUME LocalInv, SharedInv, LockInv, NEW a \in Actor, a \in alive,
         pc[a] \in {"clearRead", "clearRemove"}, Settled(a), UNCHANGED <<alive, lock>>
  PROVE  LockInv'
<1>1. CASE \E next : Unwind(a, next) BY <1>1, FreeEnds, FreeMove
<1>2. CASE Goto(a, "mapUnlockTopic") /\ UNCHANGED local
  BY <1>2, PlainMove DEF MapPCs, SettlePCs, CommitPCs, local
<1> QED BY <1>1, <1>2 DEF Settled

LEMMA SettleRecordOwns ==
  ASSUME LocalInv, SharedInv, LockInv, NEW a \in Actor, SettleRecord(a)
  PROVE  LockInv'
<1> USE DEF At
<1>1. ASSUME SettleLock(a) PROVE LockInv'
  <2>1. pc[a] = "settleLock" BY <1>1 DEF SettleLock, TakeLock
  <2>2. seen[a].topic \in LockName
    BY <2>1 DEF LocalInv, Shape, SeenPCs, Record, LockName
  <2>3. TakeLock(a, seen[a].topic, "settleLock", "restoreTopic") BY <1>1 DEF SettleLock
  <2> QED BY <2>2, <2>3, TakeLockOwns DEF MapPCs, CommitPCs
<1>2. ASSUME RestoreTopic(a) PROVE LockInv'
  BY <1>2, PlainMove DEF RestoreTopic, MapPCs, SettlePCs, CommitPCs, local
<1>3. ASSUME RestoreMemory(a) PROVE LockInv'
  BY <1>3, PlainMove DEF RestoreMemory, MapPCs, SettlePCs, CommitPCs, local
<1>4. ASSUME ClearRead(a) PROVE LockInv'
  <2>1. CASE Goto(a, "clearRemove") /\ UNCHANGED local
    BY <1>4, <2>1, PlainMove DEF ClearRead, MapPCs, SettlePCs, CommitPCs, local
  <2>2. CASE Settled(a) BY <1>4, <2>2, SettledOwns DEF ClearRead
  <2> QED BY <1>4, <2>1, <2>2 DEF ClearRead
<1>5. ASSUME ClearRemove(a) PROVE LockInv'
  BY <1>5, SettledOwns DEF ClearRemove
<1> QED BY <1>1, <1>2, <1>3, <1>4, <1>5 DEF SettleRecord

LEMMA RollbackOwns ==
  ASSUME LocalInv, LockInv, NEW a \in Actor, a \in alive, pc[a] \in CommitPCs, Rollback(a),
         UNCHANGED <<alive, lock>>
  PROVE  LockInv'
<1>1. /\ Frame(a) /\ pc'[a] = "restoreTopic" /\ seen'[a] = seen[a]
  BY DEF Rollback, Goto, Frame, LocalInv
<1>2. OwnLocks(a)' BY <1>1 DEF LockInv, OwnLocks, MapPCs, SettlePCs, CommitPCs
<1> QED BY <1>1, <1>2, FrameKeeps

LEMMA TransactOwns ==
  ASSUME LocalInv, SharedInv, LockInv, NEW a \in Actor, Transact(a)
  PROVE  LockInv'
<1> USE DEF At
<1>1. ASSUME MapLock(a) PROVE LockInv'
  BY <1>1, TakeLockOwns DEF MapLock, LockName, CommitPCs
<1>2. ASSUME MapSettle(a) PROVE LockInv'
  <2>1. a \in alive /\ pc[a] = "mapSettle" /\ UNCHANGED <<alive, lock>> BY <1>2 DEF MapSettle
  <2>2. CASE journal = Nil
    BY <1>2, <2>2, PlainMove DEF MapSettle, MapPCs, CommitPCs, local
  <2>3. CASE journal # Nil
    <3>1. Settle(a, journal, "map") BY <1>2, <2>3 DEF MapSettle
    <3>2. /\ Frame(a) /\ pc'[a] \in {"clearRead", "settleLock"}
      BY <2>1, <3>1 DEF Settle, Relies, Goto, Frame, LocalInv
    <3>3. OwnLocks(a)'
      BY <2>1, <3>2 DEF LockInv, OwnLocks, MapPCs, CommitPCs
    <3> QED BY <3>2, <3>3, FrameKeeps
  <2> QED BY <2>2, <2>3
<1>3. ASSUME MapUnlockTopic(a) PROVE LockInv'
  <2>1. /\ a \in alive /\ alive' = alive /\ pc[a] = "mapUnlockTopic" /\ pc'[a] = "readMap"
        /\ \A l \in LockName : lock'[l] = IF l \in Topic /\ lock[l] = a THEN Nil ELSE lock[l]
    BY <1>3 DEF MapUnlockTopic, Goto, LocalInv
  <2>2. Frame(a) BY <1>3, <2>1 DEF MapUnlockTopic, Frame, Goto, Relies, LocalInv
  <2>3. lock'["memory"] = lock["memory"] BY <2>1, TopicAssumption DEF LockName
  <2>4. OwnLocks(a)' BY <2>1, <2>3 DEF LockInv, OwnLocks, MapPCs, CommitPCs
  <2> QED BY <2>2, <2>4, FrameKeeps
<1>4. ASSUME ReadMap(a) PROVE LockInv'
  <2>1. CASE Unwind(a, "failed") BY <1>4, <2>1, FreeEnds, FreeMove DEF ReadMap
  <2>2. CASE ~Unwind(a, "failed")
    <3>1. Goto(a, "mapWrite") \/ Goto(a, "topicLock") BY <1>4, <2>2 DEF ReadMap, Goto
    <3> QED BY <1>4, <2>2, <3>1, PlainMove DEF ReadMap, MapPCs, CommitPCs
  <2> QED BY <2>1, <2>2
<1>5. ASSUME MapWrite(a) PROVE LockInv'
  BY <1>5, FreeEnds, FreeMove DEF MapWrite
<1>6. ASSUME TopicLock(a) PROVE LockInv'
  <2>1. op[a].topic \in LockName
    BY <1>6 DEF TopicLock, TakeLock, LocalInv, Shape, Op, LockName
  <2>2. TakeLock(a, op[a].topic, "topicLock", "begin") BY <1>6 DEF TopicLock
  <2> QED BY <2>1, <2>2, TakeLockOwns DEF MapPCs, CommitPCs
<1>7. ASSUME Begin(a) PROVE LockInv'
  <2>1. a \in alive /\ pc[a] = "begin" /\ UNCHANGED <<alive, lock>> BY <1>7 DEF Begin
  <2>2. CASE Unwind(a, "failed") BY <2>1, <2>2, FreeEnds, FreeMove
  <2>3. CASE ~Unwind(a, "failed")
    <3>1. /\ Goto(a, "writeTopic") /\ Relies(a, journal') /\ UNCHANGED op
          /\ journal' = [phase |-> "pending", owner |-> a, id |-> op[a], topic |-> op[a].topic,
                         topicBefore |-> topics[op[a].topic], memoryBefore |-> memory]
      BY <1>7, <2>3 DEF Begin
    <3>2. /\ Frame(a) /\ pc'[a] = "writeTopic" /\ seen'[a].topic = op'[a].topic
      BY <2>1, <3>1 DEF Goto, Relies, Frame, LocalInv
    <3>3. OwnLocks(a)'
      BY <2>1, <3>1, <3>2 DEF LockInv, OwnLocks, MapPCs, CommitPCs
    <3> QED BY <3>2, <3>3, FrameKeeps
  <2> QED BY <2>2, <2>3
<1>8. ASSUME WriteTopic(a) PROVE LockInv'
  <2>1. CASE Goto(a, "commitMap") /\ UNCHANGED local
    BY <1>8, <2>1, PlainMove DEF WriteTopic, MapPCs, CommitPCs, local
  <2>2. CASE Rollback(a)
    <3>1. a \in alive /\ pc[a] \in CommitPCs /\ UNCHANGED <<alive, lock>>
      BY <1>8 DEF WriteTopic, CommitPCs
    <3> QED BY <2>2, <3>1, RollbackOwns
  <2> QED BY <1>8, <2>1, <2>2 DEF WriteTopic
<1>9. ASSUME CommitMap(a) PROVE LockInv'
  BY <1>9, PlainMove DEF CommitMap, MapPCs, CommitPCs, local
<1>10. ASSUME MarkRead(a) PROVE LockInv'
  <2>1. CASE Goto(a, "markWrite") /\ UNCHANGED local
    BY <1>10, <2>1, PlainMove DEF MarkRead, MapPCs, CommitPCs, local
  <2>2. CASE Rollback(a)
    <3>1. a \in alive /\ pc[a] \in CommitPCs /\ UNCHANGED <<alive, lock>>
      BY <1>10 DEF MarkRead, CommitPCs
    <3> QED BY <2>2, <3>1, RollbackOwns
  <2> QED BY <1>10, <2>1, <2>2 DEF MarkRead
<1>11. ASSUME MarkWrite(a) PROVE LockInv'
  <2>1. /\ Frame(a) /\ pc'[a] = "clearRead" /\ lock' = lock /\ alive' = alive
        /\ pc[a] \in CommitPCs
    BY <1>11 DEF MarkWrite, Goto, Relies, Frame, LocalInv, CommitPCs
  <2>2. OwnLocks(a)' BY <2>1 DEF LockInv, OwnLocks, MapPCs, SettlePCs, CommitPCs
  <2> QED BY <2>1, <2>2, FrameKeeps
<1> QED
  BY <1>1, <1>2, <1>3, <1>4, <1>5, <1>6, <1>7, <1>8, <1>9, <1>10, <1>11 DEF Transact

LEMMA SingleLockOwns ==
  ASSUME LocalInv, SharedInv, LockInv, NEW a \in Actor, SingleLock(a)
  PROVE  LockInv'
<1> USE DEF At
<1>1. ASSUME BootLock(a) PROVE LockInv'
  BY <1>1, TakeLockOwns DEF BootLock, LockName, CommitPCs
<1>2. ASSUME BootRead(a) PROVE LockInv'
  <2>1. CASE \E next : Unwind(a, next) BY <1>2, <2>1, FreeEnds, FreeMove DEF BootRead
  <2>2. CASE ~\E next : Unwind(a, next)
    <3>1. Goto(a, "bootWrite") /\ UNCHANGED <<op, seen>> BY <1>2, <2>2 DEF BootRead
    <3> QED BY <1>2, <3>1, PlainMove DEF BootRead, MapPCs, CommitPCs
  <2> QED BY <2>1, <2>2
<1>3. ASSUME BootWrite(a) PROVE LockInv'
  BY <1>3, FreeEnds, FreeMove DEF BootWrite
<1>4. ASSUME OnlyLock(a) PROVE LockInv'
  <2>1. op[a].topic \in LockName
    BY <1>4 DEF OnlyLock, TakeLock, LocalInv, Shape, Op, LockName
  <2>2. TakeLock(a, op[a].topic, "onlyLock", "onlyWrite") BY <1>4 DEF OnlyLock
  <2> QED BY <2>1, <2>2, TakeLockOwns DEF MapPCs, SettlePCs, CommitPCs
<1>5. ASSUME OnlyWrite(a) PROVE LockInv'
  BY <1>5, FreeEnds, FreeMove DEF OnlyWrite
<1> QED BY <1>1, <1>2, <1>3, <1>4, <1>5 DEF SingleLock

LEMMA CallOwns ==
  ASSUME LocalInv, SharedInv, LockInv, NEW a \in Actor, Call(a)
  PROVE  LockInv'
<1>1. /\ a \in alive /\ UNCHANGED <<alive, lock>> /\ Goto(a, "probe")
      /\ \A b \in Actor \ {a} : op'[b] = op[b] /\ seen'[b] = seen[b]
  BY DEF Call, At, LocalInv
<1>2. "probe" \notin Claiming BY DEF Claiming, MapPCs, SettlePCs, CommitPCs
<1> QED BY <1>1, <1>2, FreeMove

LEMMA UnlockOwns ==
  ASSUME LocalInv, SharedInv, LockInv, NEW a \in Actor, Unlock(a)
  PROVE  LockInv'
<1>1. /\ a \in alive /\ pc[a] = "unlock" /\ alive' = alive BY DEF Unlock, At
<1>2. Held(a) # {} => Innermost(Held(a)) \in Held(a)
  <2>1. CASE Held(a) \cap Topic # {} BY <2>1 DEF Innermost
  <2>2. CASE Held(a) \cap Topic = {} /\ Held(a) # {}
    <3>1. Held(a) \subseteq {"memory", "journal"} BY <2>2 DEF Held, LockName
    <3> QED BY <2>2, <3>1 DEF Innermost
  <2> QED BY <2>1, <2>2
<1>3. \A b \in Actor \ {a} : \A l \in LockName : lock[l] = b => lock'[l] = b
  <2>1. lock' = IF Held(a) = {} THEN lock ELSE [lock EXCEPT ![Innermost(Held(a))] = Nil]
    BY DEF Unlock
  <2>2. CASE Held(a) = {} BY <2>1, <2>2
  <2>3. CASE Held(a) # {}
    <3>1. lock[Innermost(Held(a))] = a BY <1>2, <2>3 DEF Held
    <3> QED BY <2>1, <2>3, <3>1 DEF SharedInv
  <2> QED BY <2>2, <2>3
<1>4. CASE UNCHANGED <<pc, local, history>>
  <2>1. Frame(a) BY <1>1, <1>3, <1>4 DEF Frame, local
  <2>2. OwnLocks(a)'
    BY <1>1, <1>4 DEF OwnLocks, MapPCs, SettlePCs, CommitPCs
  <2> QED BY <2>1, <2>2, FrameKeeps
<1>5. CASE \E label : /\ Goto(a, label) /\ label \notin Claiming
                      /\ \A b \in Actor \ {a} : op'[b] = op[b] /\ seen'[b] = seen[b]
  BY <1>1, <1>3, <1>5, FreeMove
<1>6. CASE Recovered(a) \/ Retry(a) \/ Finish(a, after[a] = "ok")
  BY <1>1, <1>5, <1>6, FreeEnds
<1> QED BY <1>4, <1>6 DEF Unlock

LEMMA EnvironmentOwns ==
  ASSUME LocalInv, SharedInv, LockInv, NEW a \in Actor,
         TimeOut(a) \/ Fault(a) \/ SettlementFault(a) \/ Crash(a)
  PROVE  LockInv'
<1>1. ASSUME NEW next, Unwind(a, next), UNCHANGED <<alive, lock>>, a \in alive, pc[a] # "idle"
      PROVE  LockInv'
  BY <1>1, FreeEnds, FreeMove
<1>2. ASSUME Rollback(a), UNCHANGED <<alive, lock>>, a \in alive, pc[a] \in CommitPCs
      PROVE  LockInv'
  BY <1>2, RollbackOwns
<1>3. ASSUME Crash(a) PROVE LockInv'
  <2>1. Frame(a) BY <1>3 DEF Crash, Goto, Relies, Frame, LocalInv
  <2>2. pc'[a] = "idle" BY <1>3 DEF Crash, Goto, LocalInv
  <2>3. OwnLocks(a)' BY <2>2 DEF OwnLocks, MapPCs, SettlePCs, CommitPCs
  <2> QED BY <2>1, <2>3, FrameKeeps
<1>4. CASE TimeOut(a)
  <2>1. pc[a] # "idle" BY <1>4 DEF TimeOut, Waiting, Awaited
  <2> QED BY <1>1, <1>4, <2>1 DEF TimeOut, Waiting
<1>5. CASE Fault(a)
  BY <1>1, <1>2, <1>5 DEF Fault, RecoverPCs, BodyPCs
<1>6. CASE SettlementFault(a)
  BY <1>1, <1>6 DEF SettlementFault, SettlePCs
<1> QED BY <1>3, <1>4, <1>5, <1>6

LEMMA StepOwns ==
  ASSUME LocalInv, SharedInv, LockInv, [Next]_vars
  PROVE  LockInv'
<1>1. CASE UNCHANGED vars
  BY <1>1 DEF vars, local, LockInv, OwnLocks
<1>2. ASSUME NEW a \in Actor,
             Call(a) \/ Step(a) \/ TimeOut(a) \/ Fault(a) \/ SettlementFault(a) \/ Crash(a)
      PROVE  LockInv'
  BY <1>2, CallOwns, RecoverOwns, SettleRecordOwns, TransactOwns, SingleLockOwns,
     UnlockOwns, EnvironmentOwns DEF Step
<1> QED BY <1>1, <1>2 DEF Next

\* A process that is inside the map, topic or settlement part of an operation
\* is running and holds the locks of that part.
THEOREM LocksHeld == Spec => [](LocalInv /\ SharedInv /\ LockInv)
<1>1. Init => LocalInv /\ SharedInv /\ LockInv
  <2>1. Init => LockInv
    BY DEF Init, LockInv, OwnLocks, MapPCs, SettlePCs, CommitPCs
  <2> QED BY <2>1, InitHalves
<1>2. (LocalInv /\ SharedInv /\ LockInv) /\ [Next]_vars => (LocalInv /\ SharedInv /\ LockInv)'
  BY StepKeeps, StepOwns
<1> QED BY <1>1, <1>2, PTL DEF Spec

LEMMA GuardedWrite ==
  ASSUME LocalInv, SharedInv, LockInv, NEW a \in Actor,
         Call(a) \/ Step(a) \/ TimeOut(a) \/ Fault(a) \/ SettlementFault(a) \/ Crash(a)
  PROVE  /\ memory' # memory => lock["memory"] \in alive
         /\ \A t \in Topic : topics'[t] # topics[t] => lock[t] \in alive
<1> DEFINE Guarded == /\ memory' # memory => lock["memory"] \in alive
                      /\ \A t \in Topic : topics'[t] # topics[t] => lock[t] \in alive
<1> USE DEF At
<1>0. OwnLocks(a) BY DEF LockInv
<1>1. CASE UNCHANGED files BY <1>1 DEF files
<1>2. CASE RestoreTopic(a)
  BY <1>0, <1>2 DEF RestoreTopic, OwnLocks, SharedInv
<1>3. CASE RestoreMemory(a)
  BY <1>0, <1>3 DEF RestoreMemory, OwnLocks, MapPCs, SettlePCs
<1>4. CASE MapWrite(a)
  BY <1>0, <1>4 DEF MapWrite, OwnLocks, MapPCs
<1>5. CASE WriteTopic(a)
  BY <1>0, <1>5 DEF WriteTopic, OwnLocks, CommitPCs, SharedInv
<1>6. CASE CommitMap(a)
  BY <1>0, <1>6 DEF CommitMap, OwnLocks, MapPCs, CommitPCs
<1>7. CASE BootWrite(a)
  BY <1>0, <1>7 DEF BootWrite, OwnLocks, MapPCs
<1>8. CASE OnlyWrite(a)
  BY <1>0, <1>8 DEF OnlyWrite, OwnLocks, SharedInv
<1>9. CASE Recover(a)
  <2>1. UNCHANGED files
    BY <1>9
    DEF Recover, Probe, ProbeCheck, OwnerCheck, WaitLock, WaitRead, DropJournal, DropMemory,
        DropTopic, ClaimLock, ClaimRead, ClaimWrite, ClaimMemory, ClaimVerify, TakeLock,
        DropDeadLock
  <2> QED BY <1>1, <2>1
<1>10. CASE SettleRecord(a)
  <2>1. SettleLock(a) \/ ClearRead(a) \/ ClearRemove(a) => UNCHANGED files
    BY DEF SettleLock, ClearRead, ClearRemove, TakeLock
  <2> QED BY <1>1, <1>2, <1>3, <1>10, <2>1 DEF SettleRecord
<1>11. CASE Transact(a)
  <2>1. \/ MapLock(a) \/ MapSettle(a) \/ MapUnlockTopic(a) \/ ReadMap(a) \/ TopicLock(a)
        \/ Begin(a) \/ MarkRead(a) \/ MarkWrite(a)
        => UNCHANGED files
    BY DEF MapLock, MapSettle, MapUnlockTopic, ReadMap, TopicLock, Begin, MarkRead, MarkWrite,
           TakeLock
  <2> QED BY <1>1, <1>4, <1>5, <1>6, <1>11, <2>1 DEF Transact
<1>12. CASE SingleLock(a)
  <2>1. BootLock(a) \/ BootRead(a) \/ OnlyLock(a) => UNCHANGED files
    BY DEF BootLock, BootRead, OnlyLock, TakeLock
  <2> QED BY <1>1, <1>7, <1>8, <1>12, <2>1 DEF SingleLock
<1>13. CASE Call(a) \/ Unlock(a) \/ TimeOut(a) \/ Fault(a) \/ SettlementFault(a) \/ Crash(a)
  BY <1>1, <1>13 DEF Call, Unlock, TimeOut, Fault, SettlementFault, Crash
<1> QED BY <1>9, <1>10, <1>11, <1>12, <1>13 DEF Step

\* MEMORY.md and the topic files change only under their own writer lock, held
\* by a running process: recovery reclaims no lock that is in use, and no
\* rollback or settlement writes a participant without its lock.
THEOREM WritersHoldLocks == Spec => WritesUnderLock
<1>1. (LocalInv /\ SharedInv /\ LockInv) /\ [Next]_vars =>
        [/\ memory' # memory => lock["memory"] \in alive
         /\ \A t \in Topic : topics'[t] # topics[t] => lock[t] \in alive]_vars
  <2> SUFFICES ASSUME LocalInv, SharedInv, LockInv, Next
               PROVE  /\ memory' # memory => lock["memory"] \in alive
                      /\ \A t \in Topic : topics'[t] # topics[t] => lock[t] \in alive
    OBVIOUS
  <2> QED BY GuardedWrite DEF Next
<1> QED BY <1>1, LocksHeld, PTL DEF Spec, WritesUnderLock

-----------------------------------------------------------------------------
(* The order of the locks *)

\* The locks a process may hold where it is: none before it has taken one, and all once it
\* has taken a topic's, after which it waits for no other.
BarePCs == {"idle", "probe", "probeCheck", "ownerCheck", "waitLock", "dropJournal",
            "dropMemory", "dropTopic", "claimLock", "mapLock", "bootLock", "onlyLock"}
MayHold(label) ==
  CASE label \in BarePCs -> {}
    [] label \in {"claimRead", "claimWrite", "claimMemory"} -> {"journal"}
    [] label \in {"waitRead", "mapSettle", "readMap", "mapWrite", "topicLock",
                  "bootRead", "bootWrite"} -> {"memory"}
    [] label \in {"claimVerify", "settleLock"} -> {"journal", "memory"}
    [] OTHER -> LockName

\* Settling in the middle of an operation, which does not hold the journal's lock.
UnderMapLock == {"settleLock", "mapUnlockTopic"} \cup SettlePCs

Limited(a) ==
  a \in alive =>
    /\ \A l \in LockName : lock[l] = a => l \in MayHold(pc[a])
    /\ after[a] = "map" => pc[a] \in UnderMapLock /\ lock["journal"] # a
    /\ pc[a] = "mapUnlockTopic" => after[a] = "map"

OrderInv == \A a \in Actor : Limited(a)

\* What a step of a may change of the others: nothing but a death, and no lock more.
LEMMA OrderMove ==
  ASSUME LocalInv, OrderInv, NEW a \in Actor, NEW label, Goto(a, label), alive' \subseteq alive,
         \A b \in Actor \ {a} :
           after'[b] = after[b] /\ \A l \in LockName : lock'[l] = b => lock[l] = b,
         \A l \in LockName : lock'[l] = a => l \in MayHold(label),
         after'[a] = "map" => label \in UnderMapLock /\ lock'["journal"] # a,
         label = "mapUnlockTopic" => after'[a] = "map"
  PROVE  OrderInv'
<1>1. /\ pc'[a] = label
      /\ \A b \in Actor \ {a} : pc'[b] = pc[b]
  BY DEF Goto, LocalInv
<1>2. Limited(a)'
  BY <1>1 DEF Limited, MayHold
<1>3. ASSUME NEW b \in Actor \ {a} PROVE Limited(b)'
  <2>1. Limited(b) BY DEF OrderInv
  <2>2. "journal" \in LockName BY DEF LockName
  <2> QED BY <1>1, <2>1, <2>2 DEF Limited, MayHold
<1> QED BY <1>2, <1>3 DEF OrderInv

\* The sets of labels, apart.
LEMMA Labels ==
  /\ \A label \in BarePCs : MayHold(label) = {} /\ label # "mapUnlockTopic" /\ label \notin UnderMapLock
  /\ \A label \in {"unlock", "begin", "onlyWrite", "mapUnlockTopic"} \cup SettlePCs \cup CommitPCs :
       MayHold(label) = LockName
  /\ \A label \in {"claimRead", "claimWrite", "claimMemory"} :
       MayHold(label) = {"journal"} /\ label \notin UnderMapLock
  /\ \A label \in {"waitRead", "mapSettle", "readMap", "mapWrite", "topicLock", "bootRead",
                   "bootWrite"} :
       MayHold(label) = {"memory"} /\ label \notin UnderMapLock
  /\ \A label \in {"claimVerify", "settleLock"} : MayHold(label) = {"journal", "memory"}
  BY DEF BarePCs, MayHold, UnderMapLock, SettlePCs, CommitPCs

\* A step that takes no lock and stays where it may hold as much.
LEMMA OrderKeep ==
  ASSUME LocalInv, OrderInv, NEW a \in Actor, NEW label, a \in alive, Goto(a, label),
         UNCHANGED <<alive, lock, after>>, MayHold(pc[a]) \subseteq MayHold(label),
         after[a] = "map" => label \in UnderMapLock,
         label = "mapUnlockTopic" => after[a] = "map"
  PROVE  OrderInv'
<1>1. Limited(a) BY DEF OrderInv
<1> QED BY <1>1, OrderMove DEF Limited

LEMMA OrderUnwind ==
  ASSUME LocalInv, OrderInv, NEW a \in Actor, NEW next, next # "map", Unwind(a, next),
         UNCHANGED <<alive, lock>>
  PROVE  OrderInv'
<1>1. /\ Goto(a, "unlock") /\ after'[a] = next
      /\ \A b \in Actor \ {a} : after'[b] = after[b]
  BY DEF Unwind, LocalInv
<1>2. MayHold("unlock") = LockName BY Labels
<1> QED BY <1>1, <1>2, OrderMove

\* What ends a recovery or an operation leads to a label where no lock is held.
LEMMA BareEnds ==
  ASSUME LocalInv, NEW a \in Actor, pc[a] # "idle",
         Recovered(a) \/ Retry(a) \/ \E success \in BOOLEAN : Finish(a, success)
  PROVE  \E label \in BarePCs :
           /\ Goto(a, label) /\ after'[a] = "none"
           /\ \A b \in Actor \ {a} : after'[b] = after[b]
<1>1. {"idle", "probe", "mapLock", "bootLock", "onlyLock"} \subseteq BarePCs
  BY DEF BarePCs
<1>2. ASSUME after' = [after EXCEPT ![a] = "none"]
      PROVE  after'[a] = "none" /\ \A b \in Actor \ {a} : after'[b] = after[b]
  BY <1>2 DEF LocalInv
<1>3. CASE \E success \in BOOLEAN : Finish(a, success)
  BY <1>1, <1>2, <1>3 DEF Finish
<1>4. CASE Recovered(a) /\ ~Finish(a, TRUE)
  <2>1. /\ \/ round[a] > 1
           \/ round[a] = 1 /\ op[a].kind # "read"
        /\ Goto(a, IF round[a] > 1 THEN "probe" ELSE BodyStart(op[a]))
        /\ after' = [after EXCEPT ![a] = "none"]
    BY <1>4 DEF Recovered
  <2>2. CASE round[a] > 1
    <3>1. Goto(a, "probe") BY <2>1, <2>2 DEF Goto
    <3> QED BY <1>1, <1>2, <2>1, <3>1
  <2>3. CASE ~(round[a] > 1)
    <3>1. op[a] \in Op /\ op[a].kind # "read"
      BY <2>1, <2>3 DEF LocalInv, Shape
    <3>2. BodyStart(op[a]) \in BarePCs BY <1>1, <3>1, BodyStarts
    <3>3. Goto(a, BodyStart(op[a])) BY <2>1, <2>3 DEF Goto
    <3> QED BY <1>2, <2>1, <3>2, <3>3
  <2> QED BY <2>2, <2>3
<1>5. CASE Retry(a) /\ ~Recovered(a)
  BY <1>1, <1>2, <1>5 DEF Retry
<1> QED BY <1>3, <1>4, <1>5

LEMMA OrderBare ==
  ASSUME LocalInv, OrderInv, NEW a \in Actor, pc[a] # "idle", alive' = alive,
         \A b \in Actor \ {a} : \A l \in LockName : lock'[l] = b => lock[l] = b,
         \A l \in LockName : lock'[l] # a,
         Recovered(a) \/ Retry(a) \/ \E success \in BOOLEAN : Finish(a, success)
  PROVE  OrderInv'
<1>1. PICK label \in BarePCs :
        /\ Goto(a, label) /\ after'[a] = "none"
        /\ \A b \in Actor \ {a} : after'[b] = after[b]
  BY BareEnds
<1>2. label # "mapUnlockTopic"
  BY Labels
<1> QED BY <1>1, <1>2, OrderMove

LEMMA OrderTake ==
  ASSUME LocalInv, SharedInv, OrderInv, NEW a \in Actor, NEW l \in LockName, NEW from, NEW to,
         TakeLock(a, l, from, to), MayHold(from) \subseteq MayHold(to), l \in MayHold(to),
         after[a] = "map" => to \in UnderMapLock /\ l # "journal",
         to # "mapUnlockTopic"
  PROVE  OrderInv'
<1>1. /\ a \in alive /\ pc[a] = from /\ alive' = alive /\ after' = after /\ Goto(a, to)
      /\ \A k \in LockName : lock'[k] = IF k = l THEN a ELSE lock[k]
  BY DEF TakeLock, At, SharedInv, local
<1>2. Limited(a) /\ "journal" \in LockName
  BY DEF OrderInv, LockName
<1>3. \A k \in LockName : lock'[k] = a => k \in MayHold(to)
  BY <1>1, <1>2 DEF Limited
<1>4. \A b \in Actor \ {a} :
        after'[b] = after[b] /\ \A k \in LockName : lock'[k] = b => lock[k] = b
  BY <1>1
<1>5. after'[a] = "map" => to \in UnderMapLock /\ lock'["journal"] # a
  BY <1>1, <1>2 DEF Limited
<1> QED BY <1>1, <1>3, <1>4, <1>5, OrderMove

LEMMA OrderDrop ==
  ASSUME LocalInv, SharedInv, OrderInv, NEW a \in Actor, NEW l \in LockName, NEW from \in BarePCs,
         NEW to \in BarePCs, DropDeadLock(a, l, from, to)
  PROVE  OrderInv'
<1>1. /\ a \in alive /\ pc[a] = from /\ alive' = alive /\ after' = after /\ Goto(a, to)
      /\ \A k \in LockName : lock'[k] \in {lock[k], Nil}
  BY DEF DropDeadLock, At, SharedInv, local
<1>2. Limited(a) /\ MayHold(from) = {} /\ from \notin UnderMapLock /\ to # "mapUnlockTopic"
  BY Labels DEF OrderInv
<1>3. \A k \in LockName : lock'[k] # a
  BY <1>1, <1>2, SentinelAssumption DEF Limited
<1>4. \A b \in Actor \ {a} :
        after'[b] = after[b] /\ \A k \in LockName : lock'[k] = b => lock[k] = b
  BY <1>1, SentinelAssumption
<1>5. after'[a] # "map"
  BY <1>1, <1>2 DEF Limited
<1> QED BY <1>1, <1>2, <1>3, <1>4, <1>5, OrderMove

\* Settlement begins where no topic's lock is held.
LEMMA OrderSettle ==
  ASSUME LocalInv, OrderInv, NEW a \in Actor, a \in alive, UNCHANGED <<alive, lock>>,
         NEW record, NEW reason, Settle(a, record, reason),
         MayHold(pc[a]) \subseteq {"journal", "memory"},
         reason = "map" => "journal" \notin MayHold(pc[a])
  PROVE  OrderInv'
<1>1. /\ Goto(a, "clearRead") \/ Goto(a, "settleLock")
      /\ after'[a] = reason /\ \A b \in Actor \ {a} : after'[b] = after[b]
  BY DEF Settle, Goto, LocalInv
<1>2. Limited(a) /\ "journal" \in LockName
  BY DEF OrderInv, LockName
<1>3. /\ MayHold("clearRead") = LockName /\ MayHold("settleLock") = {"journal", "memory"}
      /\ {"clearRead", "settleLock"} \subseteq UnderMapLock
  BY Labels DEF SettlePCs, UnderMapLock
<1>4. \A label \in {"clearRead", "settleLock"} :
        \A l \in LockName : lock'[l] = a => l \in MayHold(label)
  BY <1>2, <1>3 DEF Limited
<1>5. reason = "map" => lock'["journal"] # a
  BY <1>2 DEF Limited
<1> QED BY <1>1, <1>3, <1>4, <1>5, OrderMove

LEMMA RecoverOrders ==
  ASSUME LocalInv, SharedInv, OrderInv, NEW a \in Actor, Recover(a)
  PROVE  OrderInv'
<1> USE DEF At
<1>0. /\ Limited(a)
      /\ {"probe", "probeCheck", "ownerCheck", "waitLock", "dropJournal", "dropMemory",
          "dropTopic", "claimLock"} \subseteq BarePCs
  BY DEF OrderInv, BarePCs
<1>1. ASSUME pc[a] \in {"probe", "probeCheck"}, a \in alive, UNCHANGED <<alive, lock>>,
             Recovered(a) \/ Retry(a)
      PROVE  OrderInv'
  <2>1. \A l \in LockName : lock'[l] # a
    BY <1>0, <1>1, Labels DEF Limited
  <2> QED BY <1>1, <2>1, OrderBare
<1>2. ASSUME NEW label \in BarePCs, pc[a] \in BarePCs, a \in alive,
             UNCHANGED <<alive, lock, after>>, Goto(a, label)
      PROVE  OrderInv'
  <2>1. after[a] # "map" /\ label # "mapUnlockTopic" /\ MayHold(pc[a]) = {}
    BY <1>0, <1>2, Labels DEF Limited
  <2> QED BY <1>2, <2>1, OrderKeep
<1>3. ASSUME Probe(a) PROVE OrderInv'
  <2>1. pc[a] = "probe" /\ a \in alive /\ UNCHANGED <<alive, lock>> BY <1>3 DEF Probe
  <2>2. CASE Recovered(a) BY <1>1, <2>1, <2>2
  <2>3. CASE ~Recovered(a) BY <1>0, <1>2, <1>3, <2>1, <2>3 DEF Probe
  <2> QED BY <2>2, <2>3
<1>4. ASSUME ProbeCheck(a) PROVE OrderInv'
  <2>1. pc[a] = "probeCheck" /\ a \in alive /\ UNCHANGED <<alive, lock>> BY <1>4 DEF ProbeCheck
  <2>2. CASE Recovered(a) \/ Retry(a) BY <1>1, <2>1, <2>2
  <2>3. CASE Goto(a, "ownerCheck") /\ UNCHANGED local BY <1>0, <1>2, <2>1, <2>3 DEF local
  <2> QED BY <1>4, <2>2, <2>3 DEF ProbeCheck
<1>5. ASSUME OwnerCheck(a) PROVE OrderInv'
  <2>1. Goto(a, "waitLock") \/ Goto(a, "dropJournal") BY <1>5 DEF OwnerCheck, Goto
  <2> QED BY <1>0, <1>2, <1>5, <2>1 DEF OwnerCheck, local
<1>6. ASSUME WaitLock(a) PROVE OrderInv'
  <2>1. after[a] # "map" BY <1>0, <1>6, Labels DEF WaitLock, TakeLock, Limited
  <2> QED BY <1>0, <1>6, <2>1, OrderTake, Labels DEF WaitLock, LockName
<1>7. ASSUME WaitRead(a) PROVE OrderInv'
  <2>1. pc[a] = "waitRead" /\ a \in alive /\ UNCHANGED <<alive, lock>> BY <1>7 DEF WaitRead
  <2>2. CASE journal = Nil BY <1>7, <2>1, <2>2, OrderUnwind DEF WaitRead
  <2>3. CASE journal # Nil BY <1>7, <2>1, <2>3, OrderSettle, Labels DEF WaitRead
  <2> QED BY <2>2, <2>3
<1>8. ASSUME DropJournal(a) PROVE OrderInv'
  BY <1>0, <1>8, OrderDrop DEF DropJournal, LockName
<1>9. ASSUME DropMemory(a) PROVE OrderInv'
  BY <1>0, <1>9, OrderDrop DEF DropMemory, LockName
<1>10. ASSUME DropTopic(a) PROVE OrderInv'
  <2>1. seen[a].topic \in LockName
    BY <1>10 DEF DropTopic, DropDeadLock, LocalInv, Shape, SeenPCs, Record, LockName
  <2> QED BY <1>0, <1>10, <2>1, OrderDrop DEF DropTopic
<1>11. ASSUME ClaimLock(a) PROVE OrderInv'
  <2>1. after[a] # "map" BY <1>0, <1>11, Labels DEF ClaimLock, TakeLock, Limited
  <2> QED BY <1>0, <1>11, <2>1, OrderTake, Labels DEF ClaimLock, LockName
<1>12. ASSUME ClaimRead(a) PROVE OrderInv'
  <2>1. pc[a] = "claimRead" /\ a \in alive /\ UNCHANGED <<alive, lock>> BY <1>12 DEF ClaimRead
  <2>2. CASE Unwind(a, "retry") BY <2>1, <2>2, OrderUnwind
  <2>3. CASE ~Unwind(a, "retry")
    <3>1. Goto(a, "claimWrite") /\ after' = after BY <1>12, <2>3 DEF ClaimRead
    <3>2. after[a] # "map" /\ MayHold("claimWrite") = MayHold(pc[a])
      BY <1>0, <2>1, Labels DEF Limited
    <3> QED BY <2>1, <3>1, <3>2, OrderKeep
  <2> QED BY <2>2, <2>3
<1>13. ASSUME ClaimWrite(a) PROVE OrderInv'
  <2>1. pc[a] = "claimWrite" /\ a \in alive /\ UNCHANGED <<alive, lock, after>> /\ Goto(a, "claimMemory")
    BY <1>13 DEF ClaimWrite, local
  <2>2. after[a] # "map" /\ MayHold("claimMemory") = MayHold(pc[a])
    BY <1>0, <2>1, Labels DEF Limited
  <2> QED BY <2>1, <2>2, OrderKeep
<1>14. ASSUME ClaimMemory(a) PROVE OrderInv'
  <2>1. after[a] # "map" BY <1>0, <1>14, Labels DEF ClaimMemory, TakeLock, Limited
  <2> QED BY <1>14, <2>1, OrderTake, Labels DEF ClaimMemory, LockName
<1>15. ASSUME ClaimVerify(a) PROVE OrderInv'
  <2>1. pc[a] = "claimVerify" /\ a \in alive /\ UNCHANGED <<alive, lock>> BY <1>15 DEF ClaimVerify
  <2>2. CASE journal # seen[a] BY <1>15, <2>1, <2>2, OrderUnwind DEF ClaimVerify
  <2>3. CASE journal = seen[a] BY <1>15, <2>1, <2>3, OrderSettle, Labels DEF ClaimVerify
  <2> QED BY <2>2, <2>3
<1> QED
  BY <1>3, <1>4, <1>5, <1>6, <1>7, <1>8, <1>9, <1>10, <1>11, <1>12, <1>13, <1>14, <1>15
  DEF Recover

LEMMA SettleRecordOrders ==
  ASSUME LocalInv, SharedInv, OrderInv, NEW a \in Actor, SettleRecord(a)
  PROVE  OrderInv'
<1> USE DEF At
<1>0. /\ Limited(a) /\ {"journal", "memory"} \subseteq LockName
      /\ {"restoreTopic", "restoreMemory", "clearRead", "clearRemove", "mapUnlockTopic"}
           \subseteq UnderMapLock
      /\ \A label \in {"restoreTopic", "restoreMemory", "clearRead", "clearRemove", "mapUnlockTopic"} :
           MayHold(label) = LockName
  BY Labels DEF OrderInv, LockName, UnderMapLock, SettlePCs
<1>1. ASSUME NEW label \in SettlePCs, pc[a] \in SettlePCs, a \in alive,
             UNCHANGED <<alive, lock, after>>, Goto(a, label)
      PROVE  OrderInv'
  <2>1. label \in UnderMapLock /\ label # "mapUnlockTopic" /\ MayHold(label) = MayHold(pc[a])
    BY <1>1, Labels DEF UnderMapLock, SettlePCs
  <2> QED BY <1>1, <2>1, OrderKeep
<1>2. ASSUME pc[a] \in {"clearRead", "clearRemove"}, a \in alive, UNCHANGED <<alive, lock>>, Settled(a)
      PROVE  OrderInv'
  <2>1. CASE \E next \in Outcome : Unwind(a, next) BY <1>2, <2>1, OrderUnwind DEF Outcome
  <2>2. CASE after[a] = "map" /\ Goto(a, "mapUnlockTopic") /\ UNCHANGED local
    BY <1>0, <1>2, <2>2, OrderKeep DEF local
  <2> QED BY <1>2, <2>1, <2>2 DEF Settled, Outcome
<1>3. ASSUME SettleLock(a) PROVE OrderInv'
  <2>1. pc[a] = "settleLock" BY <1>3 DEF SettleLock, TakeLock
  <2>2. seen[a].topic \in LockName /\ seen[a].topic # "journal"
    BY <2>1, TopicAssumption DEF LocalInv, Shape, SeenPCs, Record, LockName
  <2> QED BY <1>0, <1>3, <2>2, OrderTake, Labels DEF SettleLock
<1>4. ASSUME RestoreTopic(a) PROVE OrderInv'
  BY <1>1, <1>4 DEF RestoreTopic, SettlePCs, local
<1>5. ASSUME RestoreMemory(a) PROVE OrderInv'
  BY <1>1, <1>5 DEF RestoreMemory, SettlePCs, local
<1>6. ASSUME ClearRead(a) PROVE OrderInv'
  <2>1. CASE Goto(a, "clearRemove") /\ UNCHANGED local
    BY <1>1, <1>6, <2>1 DEF ClearRead, SettlePCs, local
  <2>2. CASE Settled(a) BY <1>2, <1>6, <2>2 DEF ClearRead
  <2> QED BY <1>6, <2>1, <2>2 DEF ClearRead
<1>7. ASSUME ClearRemove(a) PROVE OrderInv'
  BY <1>2, <1>7 DEF ClearRemove
<1> QED BY <1>3, <1>4, <1>5, <1>6, <1>7 DEF SettleRecord

LEMMA RollbackOrders ==
  ASSUME LocalInv, OrderInv, NEW a \in Actor, a \in alive, pc[a] \in CommitPCs, Rollback(a),
         UNCHANGED <<alive, lock>>
  PROVE  OrderInv'
<1>1. /\ Goto(a, "restoreTopic") /\ after'[a] = "rollback"
      /\ \A b \in Actor \ {a} : after'[b] = after[b]
  BY DEF Rollback, LocalInv
<1>2. MayHold("restoreTopic") = LockName
  BY Labels DEF SettlePCs
<1> QED BY <1>1, <1>2, OrderMove

LEMMA TransactOrders ==
  ASSUME LocalInv, SharedInv, OrderInv, NEW a \in Actor, Transact(a)
  PROVE  OrderInv'
<1> USE DEF At
<1>0. /\ Limited(a) /\ {"journal", "memory"} \subseteq LockName
      /\ CommitPCs \cap UnderMapLock = {} /\ {"begin", "mapLock"} \cap UnderMapLock = {}
      /\ "mapUnlockTopic" \notin CommitPCs
  BY DEF OrderInv, LockName, UnderMapLock, SettlePCs, CommitPCs
<1>1. ASSUME NEW label \in CommitPCs, pc[a] \in CommitPCs, a \in alive,
             UNCHANGED <<alive, lock, after>>, Goto(a, label)
      PROVE  OrderInv'
  <2>1. after[a] # "map" /\ label # "mapUnlockTopic" /\ MayHold(label) = MayHold(pc[a])
    BY <1>0, <1>1, Labels DEF Limited
  <2> QED BY <1>1, <2>1, OrderKeep
<1>2. ASSUME MapLock(a) PROVE OrderInv'
  <2>1. after[a] # "map" /\ MayHold("mapLock") = {}
    BY <1>0, <1>2, Labels DEF MapLock, TakeLock, Limited, BarePCs
  <2> QED BY <1>0, <1>2, <2>1, OrderTake, Labels DEF MapLock
<1>3. ASSUME MapSettle(a) PROVE OrderInv'
  <2>1. a \in alive /\ pc[a] = "mapSettle" /\ UNCHANGED <<alive, lock>> BY <1>3 DEF MapSettle
  <2>2. after[a] # "map" /\ MayHold("mapSettle") = {"memory"} /\ MayHold("readMap") = {"memory"}
    BY <1>0, <2>1, Labels DEF Limited
  <2>3. CASE journal = Nil
    BY <1>3, <2>1, <2>2, <2>3, OrderKeep DEF MapSettle, local
  <2>4. CASE journal # Nil
    BY <1>3, <2>1, <2>2, <2>4, OrderSettle DEF MapSettle
  <2> QED BY <2>3, <2>4
<1>4. ASSUME MapUnlockTopic(a) PROVE OrderInv'
  <2>1. /\ a \in alive /\ alive' = alive /\ pc[a] = "mapUnlockTopic" /\ Goto(a, "readMap")
        /\ \A l \in LockName : lock'[l] = IF l \in Topic /\ lock[l] = a THEN Nil ELSE lock[l]
        /\ after'[a] = "none" /\ \A b \in Actor \ {a} : after'[b] = after[b]
    BY <1>4 DEF MapUnlockTopic, LocalInv
  <2>2. lock["journal"] # a
    BY <1>0, <2>1 DEF Limited
  <2>3. \A l \in LockName : lock'[l] = a => l \in MayHold("readMap")
    BY <2>1, <2>2, Labels, SentinelAssumption DEF LockName
  <2>4. \A b \in Actor \ {a} :
          after'[b] = after[b] /\ \A l \in LockName : lock'[l] = b => lock[l] = b
    BY <2>1, SentinelAssumption
  <2> QED BY <2>1, <2>3, <2>4, OrderMove
<1>5. ASSUME ReadMap(a) PROVE OrderInv'
  <2>1. a \in alive /\ pc[a] = "readMap" /\ UNCHANGED <<alive, lock>> BY <1>5 DEF ReadMap
  <2>2. CASE Unwind(a, "failed") BY <2>1, <2>2, OrderUnwind
  <2>3. CASE ~Unwind(a, "failed")
    <3>1. (Goto(a, "mapWrite") \/ Goto(a, "topicLock")) /\ after' = after
      BY <1>5, <2>3 DEF ReadMap, Goto
    <3>2. after[a] # "map" /\ \A label \in {"mapWrite", "topicLock"} : MayHold(label) = MayHold(pc[a])
      BY <1>0, <2>1, Labels DEF Limited
    <3> QED BY <2>1, <3>1, <3>2, OrderKeep
  <2> QED BY <2>2, <2>3
<1>6. ASSUME MapWrite(a) PROVE OrderInv'
  BY <1>6, OrderUnwind DEF MapWrite
<1>7. ASSUME TopicLock(a) PROVE OrderInv'
  <2>1. op[a].topic \in LockName
    BY <1>7 DEF TopicLock, TakeLock, LocalInv, Shape, Op, LockName
  <2>2. after[a] # "map" /\ MayHold("topicLock") = {"memory"} /\ MayHold("begin") = LockName
    BY <1>0, <1>7, Labels DEF TopicLock, TakeLock, Limited
  <2> QED BY <1>0, <1>7, <2>1, <2>2, OrderTake DEF TopicLock
<1>8. ASSUME Begin(a) PROVE OrderInv'
  <2>1. a \in alive /\ pc[a] = "begin" /\ UNCHANGED <<alive, lock>> BY <1>8 DEF Begin
  <2>2. CASE Unwind(a, "failed") BY <2>1, <2>2, OrderUnwind
  <2>3. CASE ~Unwind(a, "failed")
    <3>1. Goto(a, "writeTopic") /\ after' = after BY <1>8, <2>3 DEF Begin
    <3>2. after[a] # "map" /\ MayHold("writeTopic") = MayHold(pc[a])
      BY <1>0, <2>1, Labels DEF Limited, CommitPCs
    <3> QED BY <2>1, <3>1, <3>2, OrderKeep
  <2> QED BY <2>2, <2>3
<1>9. ASSUME WriteTopic(a) PROVE OrderInv'
  <2>1. CASE Goto(a, "commitMap") /\ UNCHANGED local
    BY <1>1, <1>9, <2>1 DEF WriteTopic, CommitPCs, local
  <2>2. CASE Rollback(a)
    BY <1>9, <2>2, RollbackOrders DEF WriteTopic, CommitPCs
  <2> QED BY <1>9, <2>1, <2>2 DEF WriteTopic
<1>10. ASSUME CommitMap(a) PROVE OrderInv'
  BY <1>1, <1>10 DEF CommitMap, CommitPCs, local
<1>11. ASSUME MarkRead(a) PROVE OrderInv'
  <2>1. CASE Goto(a, "markWrite") /\ UNCHANGED local
    BY <1>1, <1>11, <2>1 DEF MarkRead, CommitPCs, local
  <2>2. CASE Rollback(a)
    BY <1>11, <2>2, RollbackOrders DEF MarkRead, CommitPCs
  <2> QED BY <1>11, <2>1, <2>2 DEF MarkRead
<1>12. ASSUME MarkWrite(a) PROVE OrderInv'
  <2>1. /\ UNCHANGED <<alive, lock>> /\ Goto(a, "clearRead")
        /\ after'[a] = "commit" /\ \A b \in Actor \ {a} : after'[b] = after[b]
    BY <1>12 DEF MarkWrite, LocalInv
  <2>2. MayHold("clearRead") = LockName
    BY Labels DEF SettlePCs
  <2> QED BY <2>1, <2>2, OrderMove
<1> QED
  BY <1>2, <1>3, <1>4, <1>5, <1>6, <1>7, <1>8, <1>9, <1>10, <1>11, <1>12 DEF Transact

LEMMA SingleLockOrders ==
  ASSUME LocalInv, SharedInv, OrderInv, NEW a \in Actor, SingleLock(a)
  PROVE  OrderInv'
<1> USE DEF At
<1>0. /\ Limited(a) /\ "memory" \in LockName
      /\ MayHold("bootLock") = {} /\ MayHold("onlyLock") = {} /\ MayHold("onlyWrite") = LockName
      /\ {"bootLock", "onlyLock"} \cap UnderMapLock = {}
  BY Labels DEF OrderInv, LockName, BarePCs
<1>1. ASSUME BootLock(a) PROVE OrderInv'
  <2>1. after[a] # "map" BY <1>0, <1>1 DEF BootLock, TakeLock, Limited
  <2> QED BY <1>0, <1>1, <2>1, OrderTake, Labels DEF BootLock
<1>2. ASSUME BootRead(a) PROVE OrderInv'
  <2>1. a \in alive /\ pc[a] = "bootRead" /\ UNCHANGED <<alive, lock>> BY <1>2 DEF BootRead
  <2>2. CASE Unwind(a, "failed") \/ Unwind(a, "ok") BY <2>1, <2>2, OrderUnwind
  <2>3. CASE ~(Unwind(a, "failed") \/ Unwind(a, "ok"))
    <3>1. Goto(a, "bootWrite") /\ after' = after BY <1>2, <2>3 DEF BootRead
    <3>2. after[a] # "map" /\ MayHold("bootWrite") = MayHold(pc[a])
      BY <1>0, <2>1, Labels DEF Limited
    <3> QED BY <2>1, <3>1, <3>2, OrderKeep
  <2> QED BY <2>2, <2>3
<1>3. ASSUME BootWrite(a) PROVE OrderInv'
  BY <1>3, OrderUnwind DEF BootWrite
<1>4. ASSUME OnlyLock(a) PROVE OrderInv'
  <2>1. op[a].topic \in LockName
    BY <1>4 DEF OnlyLock, TakeLock, LocalInv, Shape, Op, LockName
  <2>2. after[a] # "map" BY <1>0, <1>4 DEF OnlyLock, TakeLock, Limited
  <2> QED BY <1>0, <1>4, <2>1, <2>2, OrderTake DEF OnlyLock
<1>5. ASSUME OnlyWrite(a) PROVE OrderInv'
  BY <1>5, OrderUnwind DEF OnlyWrite
<1> QED BY <1>1, <1>2, <1>3, <1>4, <1>5 DEF SingleLock

LEMMA CallOrders ==
  ASSUME LocalInv, SharedInv, OrderInv, NEW a \in Actor, Call(a)
  PROVE  OrderInv'
<1>1. a \in alive /\ pc[a] = "idle" /\ UNCHANGED <<alive, lock, after>> /\ Goto(a, "probe")
  BY DEF Call, At
<1>2. {"idle", "probe"} \subseteq BarePCs /\ Limited(a)
  BY DEF BarePCs, OrderInv
<1>3. after[a] # "map" /\ MayHold("probe") = MayHold(pc[a])
  BY <1>1, <1>2, Labels DEF Limited
<1> QED BY <1>1, <1>3, OrderKeep

LEMMA UnlockOrders ==
  ASSUME LocalInv, SharedInv, OrderInv, NEW a \in Actor, Unlock(a)
  PROVE  OrderInv'
<1>1. /\ a \in alive /\ pc[a] = "unlock" /\ alive' = alive /\ Limited(a)
  BY DEF Unlock, At, OrderInv
<1>2. /\ \A l \in LockName : lock'[l] \in {lock[l], Nil}
      /\ Held(a) \subseteq {Innermost(Held(a))} => \A l \in LockName : lock'[l] # a
  BY SentinelAssumption DEF Unlock, Held, SharedInv
<1>3. \A b \in Actor \ {a} : \A l \in LockName : lock'[l] = b => lock[l] = b
  BY <1>2, SentinelAssumption
<1>4. CASE UNCHANGED <<pc, local, history>>
  <2>1. Goto(a, "unlock") /\ after' = after
    BY <1>1, <1>4 DEF Goto, LocalInv, local
  <2>2. after[a] # "map" /\ MayHold("unlock") = LockName
    BY <1>1, Labels DEF Limited, UnderMapLock, SettlePCs
  <2> QED BY <1>1, <1>3, <2>1, <2>2, OrderMove
<1>5. CASE /\ Held(a) \subseteq {Innermost(Held(a))}
           /\ Recovered(a) \/ Retry(a) \/ Finish(a, after[a] = "ok")
  BY <1>1, <1>2, <1>3, <1>5, OrderBare
<1> QED BY <1>4, <1>5 DEF Unlock

LEMMA EnvironmentOrders ==
  ASSUME LocalInv, SharedInv, OrderInv, NEW a \in Actor,
         TimeOut(a) \/ Fault(a) \/ SettlementFault(a) \/ Crash(a)
  PROVE  OrderInv'
<1>1. CASE TimeOut(a)
  BY <1>1, OrderUnwind DEF TimeOut
<1>2. CASE Fault(a)
  BY <1>2, OrderUnwind, RollbackOrders DEF Fault
<1>3. CASE SettlementFault(a)
  BY <1>3, OrderUnwind DEF SettlementFault
<1>4. CASE Crash(a)
  <2>1. /\ a \notin alive' /\ alive' \subseteq alive /\ lock' = lock
        /\ \A b \in Actor \ {a} : pc'[b] = pc[b] /\ after'[b] = after[b]
    BY <1>4 DEF Crash, Goto, LocalInv
  <2>2. ASSUME NEW b \in Actor PROVE Limited(b)'
    BY <2>1 DEF OrderInv, Limited, MayHold
  <2> QED BY <2>2 DEF OrderInv
<1> QED BY <1>1, <1>2, <1>3, <1>4

LEMMA StepOrders ==
  ASSUME LocalInv, SharedInv, OrderInv, [Next]_vars
  PROVE  OrderInv'
<1>1. CASE UNCHANGED vars
  BY <1>1 DEF vars, local, OrderInv, Limited, MayHold
<1>2. ASSUME NEW a \in Actor,
             Call(a) \/ Step(a) \/ TimeOut(a) \/ Fault(a) \/ SettlementFault(a) \/ Crash(a)
      PROVE  OrderInv'
  BY <1>2, CallOrders, RecoverOrders, SettleRecordOrders, TransactOrders, SingleLockOrders,
     UnlockOrders, EnvironmentOrders DEF Step
<1> QED BY <1>1, <1>2 DEF Next

LEMMA Ordered == Spec => [](LocalInv /\ SharedInv /\ OrderInv)
<1>1. Init => LocalInv /\ SharedInv /\ OrderInv
  <2>1. Init => OrderInv
    BY SentinelAssumption DEF Init, OrderInv, Limited
  <2> QED BY <2>1, InitHalves
<1>2. (LocalInv /\ SharedInv /\ OrderInv) /\ [Next]_vars => (LocalInv /\ SharedInv /\ OrderInv)'
  BY StepKeeps, StepOrders
<1> QED BY <1>1, <1>2, PTL DEF Spec

\* The journal's lock comes first, then that of MEMORY.md, then those of the topics.
Rank(l) == IF l = "journal" THEN 0 ELSE IF l = "memory" THEN 1 ELSE 2
LocksInOrder == \A a \in Actor : Waiting(a) => \A l \in Held(a) : Rank(l) < Rank(Awaited(a))

\* Whoever waits for a lock holds only locks that come before it (withWriterLock as nested by
\* claimAndSettleDeadOwner, settlePendingUnderMemoryBarrier and withMemoryMapEntryTransaction).
THEOREM LocksTakenInOrder == Spec => []LocksInOrder
<1>1. ASSUME LocalInv, OrderInv PROVE LocksInOrder
  <2> SUFFICES ASSUME NEW a \in Actor, Waiting(a), NEW l \in Held(a)
               PROVE  Rank(l) < Rank(Awaited(a))
    BY DEF LocksInOrder
  <2>1. a \in alive /\ l \in MayHold(pc[a])
    BY <1>1 DEF Waiting, Held, OrderInv, Limited
  <2>2. CASE pc[a] \in {"waitLock", "mapLock", "bootLock", "onlyLock", "claimLock"}
    BY <2>1, <2>2, Labels DEF BarePCs
  <2>3. CASE pc[a] = "claimMemory"
    BY <2>1, <2>3, Labels DEF Awaited, Rank
  <2>4. CASE pc[a] = "topicLock"
    <3>1. op[a].topic \in Topic
      BY <1>1, <2>4 DEF LocalInv, Shape, Op
    <3>2. Awaited(a) \notin {"journal", "memory"}
      BY <2>4, <3>1, TopicAssumption DEF Awaited
    <3> QED BY <2>1, <2>4, <3>2, Labels DEF Rank
  <2>5. CASE pc[a] = "settleLock"
    <3>1. seen[a].topic \in Topic
      BY <1>1, <2>5 DEF LocalInv, Shape, SeenPCs, Record
    <3>2. Awaited(a) \notin {"journal", "memory"}
      BY <2>5, <3>1, TopicAssumption DEF Awaited
    <3> QED BY <2>1, <2>5, <3>2, Labels DEF Rank
  <2> QED BY <2>2, <2>3, <2>4, <2>5 DEF Waiting, Awaited
<1> QED BY <1>1, Ordered, PTL

LEMMA AwaitsLock ==
  ASSUME LocalInv, NEW a \in Actor, Waiting(a)
  PROVE  Awaited(a) \in LockName
<1>1. pc[a] \in {"waitLock", "claimMemory", "mapLock", "bootLock", "claimLock", "settleLock",
                "topicLock", "onlyLock"}
  BY DEF Waiting, Awaited
<1>2. CASE pc[a] = "settleLock"
  <2>1. seen[a].topic \in Topic BY <1>2 DEF LocalInv, Shape, SeenPCs, Record
  <2> QED BY <1>2, <2>1 DEF Awaited, LockName
<1>3. CASE pc[a] \in {"topicLock", "onlyLock"}
  <2>1. op[a].topic \in Topic BY <1>3 DEF LocalInv, Shape, Op
  <2> QED BY <1>3, <2>1 DEF Awaited, LockName
<1>4. CASE pc[a] \in {"waitLock", "claimMemory", "mapLock", "bootLock", "claimLock"}
  BY <1>4 DEF Awaited, LockName
<1> QED BY <1>1, <1>2, <1>3, <1>4

\* No processes wait for each other, however many they are: among any of them one does not
\* wait, or waits for another process.
NoCircularWait ==
  \A waiters \in SUBSET Actor :
    waiters # {} => \E a \in waiters : ~(Waiting(a) /\ lock[Awaited(a)] \in waiters)

\* A recovery, a settlement in the middle of an operation and operations of any kind never
\* block each other: some waiter waits for a process that can go on, or for a dead one's lock.
THEOREM NobodyWaitsInACircle == Spec => []NoCircularWait
<1>1. ASSUME LocksInOrder, LocalInv, SharedInv PROVE NoCircularWait
  <2> SUFFICES ASSUME NEW waiters \in SUBSET Actor, waiters # {},
                      \A a \in waiters : Waiting(a) /\ lock[Awaited(a)] \in waiters
               PROVE  FALSE
    BY DEF NoCircularWait
  <2> DEFINE Blocker(a) == lock[Awaited(a)]
  <2>1. ASSUME NEW a \in waiters PROVE Rank(Awaited(a)) < Rank(Awaited(Blocker(a)))
    <3>1. Awaited(a) \in LockName
      BY <1>1, AwaitsLock
    <3>2. Awaited(a) \in Held(Blocker(a))
      BY <3>1 DEF Held
    <3> QED BY <1>1, <2>1, <3>2 DEF LocksInOrder
  <2>2. PICK a \in waiters : TRUE
    OBVIOUS
  <2>3. \A b \in Actor : Rank(Awaited(b)) \in 0..2
    BY DEF Rank
  <2> HIDE DEF Blocker
  <2>4. Blocker(a) \in waiters /\ Blocker(Blocker(a)) \in waiters /\ Blocker(Blocker(Blocker(a))) \in waiters
    BY <2>2 DEF Blocker
  <2> QED BY <2>1, <2>2, <2>3, <2>4
<1> QED BY <1>1, LocksTakenInOrder, Typing, PTL


-----------------------------------------------------------------------------
(* Atomicity *)

\* Operations a process has called; records that differ in their owner at most; the operations
\* that go through the map lock; the last two steps of a settlement.
Calls(a) == IF op[a] = Nil THEN 0 ELSE op[a].call
Matches(r, s) ==
  /\ r.phase = s.phase /\ r.id = s.id /\ r.topic = s.topic
  /\ r.topicBefore = s.topicBefore /\ r.memoryBefore = s.memoryBefore
MapKind == Compound \cup {"mapEntry"}
ClearPCs == {"clearRead", "clearRemove"}

\* An operation has taken effect once its commit is marked or its one write is done, and
\* not before; what an operation reported is never reported again.
Reports(a) ==
  /\ op[a] # Nil => op[a].actor = a
  /\ \A o \in applied \cup acked \cup failed : o.actor = a /\ a \in alive => o.call <= Calls(a)
  /\ pc[a] # "idle" => op[a] \notin acked \cup failed
  /\ pc[a] # "idle" /\ op[a] \in applied =>
       \/ pc[a] \in ClearPCs /\ after[a] = "commit"
       \/ pc[a] = "unlock" /\ after[a] = "ok"
  /\ pc[a] \in ClearPCs /\ after[a] = "commit" => op[a] \in applied
  /\ pc[a] = "unlock" /\ after[a] = "ok" => op[a] \in applied \/ op[a].kind = "ensure"

Kinds(a) ==
  /\ pc[a] \in {"topicLock", "begin"} \cup CommitPCs => op[a].kind \in Compound
  /\ pc[a] \in {"mapLock", "mapSettle", "mapUnlockTopic", "readMap"} => op[a].kind \in MapKind
  /\ pc[a] \in {"settleLock"} \cup SettlePCs /\ after[a] = "map" => op[a].kind \in MapKind
  /\ pc[a] = "mapWrite" => op[a].kind = "mapEntry"
  /\ pc[a] \in {"onlyLock", "onlyWrite"} => op[a].kind \in TopicOnly

\* What a process is about to write to MEMORY.md follows from what is there.
Planned(a) ==
  /\ pc[a] \in {"topicLock", "begin", "mapWrite"} => plan[a] = Store!WithEntry(memory, op[a].topic)
  /\ pc[a] = "bootWrite" =>
       /\ op[a].kind = "writeMemory" => plan[a] = [body |-> op[a], map |-> {}]
       /\ op[a].kind = "editMemory" => memory # Absent /\ plan[a] = [memory EXCEPT !.body = op[a]]
       /\ op[a].kind = "ensure" => memory = Absent /\ plan[a] = [body |-> Fresh, map |-> {}]

\* A process that writes the participants has its own pending record in the journal.
Writing(a) ==
  pc[a] \in CommitPCs =>
    /\ journal # Nil /\ journal = seen[a]
    /\ journal.phase = "pending" /\ journal.id = op[a] /\ journal.topic = op[a].topic
    /\ op[a].kind = "editTopic" => journal.topicBefore # Absent
    /\ plan[a] = Store!WithEntry(journal.memoryBefore, op[a].topic)
    /\ topics[op[a].topic] = IF pc[a] = "writeTopic" THEN journal.topicBefore ELSE op[a]
    /\ memory = IF pc[a] \in {"writeTopic", "commitMap"} THEN journal.memoryBefore ELSE plan[a]

\* A process that settles a record has that record, whoever claims it, in the journal, and
\* clears a pending one only once both participants are restored.
Settling(a) ==
  /\ pc[a] \in {"settleLock"} \cup SettlePCs => journal # Nil /\ Matches(journal, seen[a])
  /\ pc[a] \in {"settleLock", "restoreTopic", "restoreMemory"} =>
       seen[a].phase = "pending" /\ after[a] # "commit"
  /\ pc[a] = "restoreMemory" => topics[seen[a].topic] = seen[a].topicBefore
  /\ pc[a] \in ClearPCs /\ seen[a].phase = "pending" =>
       /\ lock[seen[a].topic] = a
       /\ topics[seen[a].topic] = seen[a].topicBefore
       /\ memory = seen[a].memoryBefore
       /\ after[a] # "commit"
  /\ pc[a] = "claimWrite" => seen[a].id.actor \notin alive

Own(a) == Reports(a) /\ Kinds(a) /\ Planned(a) /\ Writing(a) /\ Settling(a)

\* The journal holds a record of a compound operation whose owner is its caller, or a
\* process that claimed it from a dead one; a pending one has not taken effect.
Journalled ==
  journal # Nil =>
    /\ journal.id.kind \in Compound
    /\ journal.owner = journal.id.actor \/ journal.id.actor \notin alive
    /\ journal.phase = "pending" =>
         /\ journal.id \notin applied
         /\ topics[journal.topic] \in {journal.topicBefore, journal.id}

AtomicInv == Journalled /\ \A a \in Actor : Own(a)

\* What is known of types and locks from the theorems above.
TypedInv == LocalInv /\ SharedInv /\ LockInv

\* What a step of a leaves to the others.
Beside(a) ==
  /\ alive' \subseteq alive
  /\ \A b \in Actor \ {a} :
       /\ pc'[b] = pc[b] /\ op'[b] = op[b] /\ seen'[b] = seen[b]
       /\ plan'[b] = plan[b] /\ after'[b] = after[b]
       /\ b \in alive => \A l \in LockName : lock[l] = b => lock'[l] = b
  /\ memory' # memory => lock["memory"] = a
  /\ \A t \in Topic : topics'[t] # topics[t] => lock[t] = a
  /\ journal' # journal =>
       \/ lock["memory"] = a
       \/ /\ journal # Nil /\ journal' # Nil /\ Matches(journal', journal)
          /\ journal.id.actor \notin alive
  /\ \A o \in applied' \cup acked' \cup failed' : o \in applied \cup acked \cup failed \/ o.actor = a
  /\ \A o \in acked' \cup failed' : o \in acked \cup failed \/ o.actor = a
  /\ \A o \in applied' : o \in applied \/ o.actor = a
  /\ applied \subseteq applied'

\* What a process has reported, and what it relies on, is its own.
LEMMA BesideReports ==
  ASSUME TypedInv, AtomicInv, NEW a \in Actor, Beside(a), NEW b \in Actor \ {a}
  PROVE  Reports(b)'
<1>1. Reports(b) BY DEF AtomicInv, Own
<1>2. pc'[b] = pc[b] /\ op'[b] = op[b] /\ after'[b] = after[b] BY DEF Beside
<1>3. Calls(b)' = Calls(b) BY <1>2 DEF Calls
<1>4. pc[b] # "idle" => op[b] \in Op BY DEF TypedInv, LocalInv, Shape
<1>5. pc[b] # "idle" => op[b] # Nil BY <1>4, SentinelAssumption
<1>6. pc[b] # "idle" => op[b].actor # a BY <1>5, <1>1 DEF Reports
<1>7. ASSUME NEW o \in applied' \cup acked' \cup failed', o.actor = b, b \in alive'
      PROVE  o.call <= Calls(b)'
  <2>1. o \in applied \cup acked \cup failed /\ b \in alive BY <1>7 DEF Beside
  <2> QED BY <1>1, <1>3, <1>7, <2>1 DEF Reports
<1>8. pc[b] # "idle" => op[b] \notin acked' \cup failed' /\ (op[b] \in applied' <=> op[b] \in applied)
  BY <1>1, <1>6 DEF Beside, Reports
<1> QED BY <1>1, <1>2, <1>7, <1>8 DEF Reports, ClearPCs

LEMMA BesideKinds ==
  ASSUME AtomicInv, NEW a \in Actor, Beside(a), NEW b \in Actor \ {a}
  PROVE  Kinds(b)'
  BY DEF AtomicInv, Own, Beside, Kinds

LEMMA BesideKeeps ==
  ASSUME TypedInv, AtomicInv, NEW a \in Actor, Beside(a), NEW b \in Actor \ {a}
  PROVE  Own(b)'
<1>1. /\ pc'[b] = pc[b] /\ op'[b] = op[b] /\ seen'[b] = seen[b]
      /\ plan'[b] = plan[b] /\ after'[b] = after[b]
  BY DEF Beside
<1>2. OwnLocks(b) /\ Own(b) BY DEF TypedInv, LockInv, AtomicInv
<1>3. pc[b] \in MapPCs => memory' = memory
  BY <1>2 DEF Beside, OwnLocks
<1>4. pc[b] \in MapPCs /\ journal' # journal =>
        /\ journal # Nil /\ journal' # Nil /\ Matches(journal', journal)
        /\ journal.id.actor \notin alive
  BY <1>2 DEF Beside, OwnLocks
<1>5. Planned(b)'
  BY <1>1, <1>2, <1>3 DEF Own, Planned, MapPCs
<1>6. Writing(b)'
  <2> SUFFICES ASSUME pc[b] \in CommitPCs PROVE Writing(b)'
    BY <1>1 DEF Writing
  <2>1. pc[b] \in MapPCs /\ pc[b] # "idle" BY DEF MapPCs, CommitPCs
  <2>2. op[b] \in Op /\ b \in alive BY <1>2, <2>1 DEF TypedInv, LocalInv, Shape, OwnLocks
  <2>3. op[b].actor = b BY <1>2, <2>2, SentinelAssumption DEF Own, Reports
  <2>4. journal' = journal BY <1>2, <1>4, <2>1, <2>2, <2>3 DEF Own, Writing
  <2>5. lock[op[b].topic] = b BY <1>2 DEF OwnLocks
  <2>6. op[b].topic \in Topic BY <2>2 DEF Op
  <2>7. topics'[op[b].topic] = topics[op[b].topic] BY <2>5, <2>6 DEF Beside
  <2> QED BY <1>1, <1>2, <1>3, <2>1, <2>4, <2>7 DEF Own, Writing
<1>7. Settling(b)'
  <2>1. ASSUME pc[b] \in {"settleLock"} \cup SettlePCs
        PROVE  journal' # Nil /\ Matches(journal', seen[b])
    <3>1. pc[b] \in MapPCs BY <2>1 DEF MapPCs
    <3> QED BY <1>2, <1>4, <2>1, <3>1 DEF Own, Settling, Matches
  <2>2. ASSUME pc[b] \in SettlePCs
        PROVE  seen[b].topic \in Topic /\ seen[b].topic \in LockName /\ b \in alive
    <3>1. seen[b] \in Record BY <2>2 DEF TypedInv, LocalInv, Shape, SeenPCs
    <3>2. b \in alive BY <1>2, <2>2 DEF OwnLocks, SettlePCs
    <3> QED BY <3>1, <3>2 DEF Record, LockName
  <2>3. pc[b] = "restoreMemory" => topics'[seen[b].topic] = seen[b].topicBefore
    <3>1. pc[b] = "restoreMemory" => lock[seen[b].topic] = b BY <1>2 DEF OwnLocks
    <3> QED BY <1>2, <2>2, <3>1 DEF Own, Settling, Beside, SettlePCs
  <2>4. ASSUME pc[b] \in ClearPCs, seen[b].phase = "pending"
        PROVE  /\ lock'[seen[b].topic] = b
               /\ topics'[seen[b].topic] = seen[b].topicBefore
               /\ memory' = seen[b].memoryBefore
    <3>1. pc[b] \in MapPCs /\ pc[b] \in SettlePCs BY <2>4 DEF ClearPCs, MapPCs, SettlePCs
    <3>2. lock[seen[b].topic] = b BY <1>2, <2>4 DEF Own, Settling
    <3> QED BY <1>2, <1>3, <2>2, <2>4, <3>1, <3>2 DEF Own, Settling, Beside
  <2>5. pc[b] = "claimWrite" => seen[b].id.actor \notin alive'
    BY <1>2 DEF Own, Settling, Beside
  <2> QED BY <1>1, <1>2, <2>1, <2>3, <2>4, <2>5 DEF Own, Settling
<1> QED BY <1>5, <1>6, <1>7, BesideReports, BesideKinds DEF Own

-----------------------------------------------------------------------------
(* Steps that change no file and no effect *)

\* The other processes, and the locks they hold, are left alone.
Elsewhere(a) ==
  \A b \in Actor \ {a} :
    /\ pc'[b] = pc[b] /\ op'[b] = op[b] /\ seen'[b] = seen[b]
    /\ plan'[b] = plan[b] /\ after'[b] = after[b]

OtherLocks(a) ==
  \A b \in Actor \ {a} : b \in alive => \A l \in LockName : lock[l] = b => lock'[l] = b

\* A report, if any, is the truth about what the operation did.
Truthful(a) ==
  \/ UNCHANGED <<acked, failed>>
  \/ \E success \in BOOLEAN :
       /\ Finish(a, success) /\ pc[a] # "idle"
       /\ success => op[a] \in applied \/ op[a].kind \in {"read", "ensure"}
       /\ ~success => op[a] \notin applied

\* What has to be shown of every step of a process.
Sound(a) ==
  /\ Beside(a) /\ Own(a)' /\ Journalled'
  /\ [Store!StoreNext]_(Store!storeVars)

LEMMA SameShown ==
  ASSUME UNCHANGED <<journal, files, applied, acked, failed>>
  PROVE  UNCHANGED Store!storeVars
  BY DEF Pending, Store!storeVars, files

LEMMA QuietSound ==
  ASSUME TypedInv, AtomicInv, NEW a \in Actor, Elsewhere(a), OtherLocks(a), alive' \subseteq alive,
         UNCHANGED <<journal, files, applied>>, Truthful(a), Own(a)'
  PROVE  Sound(a)
<1>1. Own(a) BY DEF AtomicInv
<1>2. ASSUME NEW success \in BOOLEAN, Finish(a, success), pc[a] # "idle"
      PROVE  /\ op[a] \in Op /\ op[a].actor = a
             /\ acked' = IF success THEN acked \cup {op[a]} ELSE acked
             /\ failed' = IF success THEN failed ELSE failed \cup {op[a]}
  <2>1. op[a] \in Op BY <1>2 DEF TypedInv, LocalInv, Shape
  <2>2. op[a].actor = a BY <1>1, <2>1, SentinelAssumption DEF Own, Reports
  <2> QED BY <1>2, <2>1, <2>2 DEF Finish
<1>3. \A o \in acked' \cup failed' : o \in acked \cup failed \/ o.actor = a
  BY <1>2 DEF Truthful
<1>4. Beside(a)
  BY <1>3 DEF Beside, Elsewhere, OtherLocks, files
<1>5. Journalled'
  <2>1. Journalled BY DEF AtomicInv
  <2>2. journal' = journal /\ topics' = topics /\ applied' = applied BY DEF files
  <2> QED BY <2>1, <2>2 DEF Journalled
<1>6. [Store!StoreNext]_(Store!storeVars)
  <2>1. CASE UNCHANGED <<acked, failed>>
    BY <2>1, SameShown
  <2>2. ASSUME NEW success \in BOOLEAN, Finish(a, success), pc[a] # "idle",
               success => op[a] \in applied \/ op[a].kind \in {"read", "ensure"},
               ~success => op[a] \notin applied
        PROVE  Store!StoreNext
    <3>1. /\ op[a] \in Op
          /\ acked' = IF success THEN acked \cup {op[a]} ELSE acked
          /\ failed' = IF success THEN failed ELSE failed \cup {op[a]}
      BY <1>2, <2>2
    <3>2. CASE success
      <4>1. Store!Succeed(op[a])
        BY <2>2, <3>1, <3>2 DEF Pending, Store!Succeed, files
      <4> QED BY <3>1, <4>1 DEF Store!StoreNext
    <3>3. CASE ~success
      <4>1. op[a] \notin applied \cup acked BY <1>1, <2>2, <3>3 DEF Own, Reports
      <4>2. Store!Fail(op[a])
        BY <3>1, <3>3, <4>1 DEF Pending, Store!Fail, files
      <4> QED BY <3>1, <4>2 DEF Store!StoreNext
    <3> QED BY <3>2, <3>3
  <2> QED BY <2>1, <2>2 DEF Truthful
<1> QED BY <1>4, <1>5, <1>6 DEF Sound

\* Outside these labels a process relies on nothing that is in a file.
Charged == {"claimWrite", "settleLock", "topicLock", "begin", "mapWrite", "bootWrite"}
           \cup SettlePCs \cup CommitPCs

LEMMA BareOwn ==
  ASSUME NEW a \in Actor, pc'[a] \notin Charged, Reports(a)', Kinds(a)'
  PROVE  Own(a)'
  BY DEF Own, Planned, Writing, Settling, Charged, ClearPCs, SettlePCs

\* The part of Reports that a step which reports nothing has to keep.
LEMMA ReportsStay ==
  ASSUME NEW a \in Actor, Reports(a), pc[a] # "idle", alive' = alive, op'[a] = op[a],
         UNCHANGED history, op[a] \notin applied,
         pc'[a] \in ClearPCs => after'[a] # "commit",
         pc'[a] = "unlock" /\ after'[a] = "ok" => op[a].kind = "ensure"
  PROVE  Reports(a)'
  BY DEF Reports, Calls, history

\* Before its clearing or unlocking an operation has had no effect.
LEMMA NotDone ==
  ASSUME NEW a \in Actor, Own(a), pc[a] \notin ClearPCs \cup {"unlock", "idle"}
  PROVE  op[a] \notin applied
  BY DEF Own, Reports

LEMMA UnwindOwn ==
  ASSUME TypedInv, AtomicInv, NEW a \in Actor, pc[a] # "idle", NEW next, Unwind(a, next),
         UNCHANGED <<alive, history>>,
         op[a] \in applied => next = "ok",
         next = "ok" => op[a] \in applied \/ op[a].kind = "ensure"
  PROVE  Elsewhere(a) /\ Own(a)'
<1>1. /\ Elsewhere(a) /\ pc'[a] = "unlock" /\ after'[a] = next
  BY DEF Unwind, Goto, Elsewhere, TypedInv, LocalInv
<1>2. Reports(a)
  BY DEF AtomicInv, Own
<1>3. Reports(a)'
  BY <1>1, <1>2 DEF Reports, Calls, history, Unwind, ClearPCs
<1>4. Kinds(a)' BY <1>1 DEF Kinds, CommitPCs, SettlePCs
<1> QED BY <1>1, <1>3, <1>4, BareOwn DEF Charged, SettlePCs, CommitPCs

LEMMA UnwindSound ==
  ASSUME TypedInv, AtomicInv, NEW a \in Actor, pc[a] # "idle", NEW next, Unwind(a, next),
         UNCHANGED <<alive, lock, journal, files, history>>,
         op[a] \in applied => next = "ok",
         next = "ok" => op[a] \in applied \/ op[a].kind = "ensure"
  PROVE  Sound(a)
<1>1. OtherLocks(a) /\ Truthful(a) BY DEF OtherLocks, Truthful, history
<1> QED BY <1>1, UnwindOwn, QuietSound DEF history

LEMMA FinishOwn ==
  ASSUME TypedInv, AtomicInv, NEW a \in Actor, pc[a] # "idle", NEW success \in BOOLEAN,
         Finish(a, success), alive' = alive
  PROVE  Elsewhere(a) /\ Own(a)'
<1>1. Elsewhere(a) /\ pc'[a] = "idle"
  BY DEF Finish, Goto, Elsewhere, TypedInv, LocalInv
<1>2. Reports(a) BY DEF AtomicInv, Own
<1>3. op[a] \in Op BY DEF TypedInv, LocalInv, Shape
<1>4. Calls(a) = op[a].call /\ Calls(a)' = Calls(a) /\ op[a].call <= op[a].call
  BY <1>3, SentinelAssumption, BoundsAssumption DEF Calls, Finish, Op
<1>5. Reports(a)'
  BY <1>1, <1>2, <1>4 DEF Reports, Finish, ClearPCs
<1>6. Kinds(a)' BY <1>1 DEF Kinds, CommitPCs, SettlePCs
<1> QED BY <1>1, <1>5, <1>6, BareOwn DEF Charged, SettlePCs, CommitPCs

LEMMA RecoveredSound ==
  ASSUME TypedInv, AtomicInv, NEW a \in Actor, pc[a] # "idle", Recovered(a),
         op[a] \notin applied, OtherLocks(a), UNCHANGED <<alive, journal, files>>
  PROVE  Sound(a)
<1>1. CASE round[a] = 1 /\ op[a].kind = "read" /\ Finish(a, TRUE)
  <2>1. Truthful(a) /\ applied' = applied BY <1>1 DEF Truthful, Finish
  <2> QED BY <1>1, <2>1, FinishOwn, QuietSound
<1>2. CASE ~(round[a] = 1 /\ op[a].kind = "read" /\ Finish(a, TRUE))
  <2>1. /\ \/ round[a] > 1
           \/ round[a] = 1 /\ op[a].kind # "read"
        /\ Goto(a, IF round[a] > 1 THEN "probe" ELSE BodyStart(op[a]))
        /\ Relies(a, Nil) /\ after' = [after EXCEPT ![a] = "none"]
        /\ UNCHANGED <<op, plan, history>>
    BY <1>2 DEF Recovered
  <2>2. op[a] \in Op BY DEF TypedInv, LocalInv, Shape
  <2>3. /\ Elsewhere(a) /\ pc'[a] \in {"probe", BodyStart(op[a])} /\ op'[a] = op[a]
        /\ pc'[a] # "probe" => op[a].kind # "read" /\ pc'[a] = BodyStart(op[a])
    BY <2>1 DEF Goto, Relies, Elsewhere, TypedInv, LocalInv
  <2>4. op[a].kind # "read" =>
          /\ BodyStart(op[a]) \in {"mapLock", "bootLock", "onlyLock"}
          /\ BodyStart(op[a]) = "mapLock" => op[a].kind \in MapKind
          /\ BodyStart(op[a]) = "onlyLock" => op[a].kind \in TopicOnly
    <3>1. op[a].kind \in Kind BY <2>2 DEF Op
    <3> QED BY <3>1 DEF BodyStart, Kind, Compound, Bootstrap, TopicOnly, MapKind
  <2>5. pc'[a] \in {"probe", "mapLock", "bootLock", "onlyLock"}
    BY <2>3, <2>4
  <2>6. Reports(a)'
    BY <2>1, <2>3, <2>5, ReportsStay DEF AtomicInv, Own, ClearPCs
  <2>7. Kinds(a)' BY <2>3, <2>4, <2>5 DEF Kinds, CommitPCs, SettlePCs
  <2>8. Own(a)' BY <2>5, <2>6, <2>7, BareOwn DEF Charged, SettlePCs, CommitPCs
  <2>9. Truthful(a) /\ applied' = applied BY <2>1 DEF Truthful, history
  <2> QED BY <2>3, <2>8, <2>9, QuietSound
<1> QED BY <1>1, <1>2

\* A step to a label that relies on nothing.
LEMMA BareMove ==
  ASSUME TypedInv, AtomicInv, NEW a \in Actor, pc[a] # "idle", op[a] \notin applied,
         Elsewhere(a), OtherLocks(a), UNCHANGED <<alive, journal, files, history>>,
         op'[a] = op[a], pc'[a] \notin Charged \cup {"unlock"}, Kinds(a)'
  PROVE  Sound(a)
<1>1. Reports(a)'
  BY ReportsStay DEF AtomicInv, Own, Charged, ClearPCs, SettlePCs
<1>2. Own(a)' BY <1>1, BareOwn
<1> QED BY <1>2, QuietSound DEF Truthful, history

LEMMA RetrySound ==
  ASSUME TypedInv, AtomicInv, NEW a \in Actor, pc[a] # "idle", Retry(a),
         op[a] \notin applied, OtherLocks(a), UNCHANGED <<alive, journal, files>>
  PROVE  Sound(a)
<1>1. CASE Recovered(a) BY <1>1, RecoveredSound
<1>2. CASE ~Recovered(a)
  <2>1. /\ Goto(a, "probe") /\ Relies(a, Nil) /\ after' = [after EXCEPT ![a] = "none"]
        /\ UNCHANGED <<op, plan, history>>
    BY <1>2 DEF Retry
  <2>2. Elsewhere(a) /\ pc'[a] = "probe" /\ op'[a] = op[a]
    BY <2>1 DEF Goto, Relies, Elsewhere, TypedInv, LocalInv
  <2>3. Kinds(a)' BY <2>2 DEF Kinds, CommitPCs, SettlePCs
  <2> QED BY <2>1, <2>2, <2>3, BareMove DEF Charged, SettlePCs, CommitPCs
<1> QED BY <1>1, <1>2

-----------------------------------------------------------------------------
(* Recovery *)

\* Taking a lock that is free, to go on where nothing of a file is relied on.
LEMMA LockMove ==
  ASSUME TypedInv, AtomicInv, NEW a \in Actor, NEW l \in LockName, NEW from, NEW to,
         TakeLock(a, l, from, to), from \notin {"idle", "unlock"} \cup ClearPCs
  PROVE  /\ Elsewhere(a) /\ OtherLocks(a) /\ pc[a] = from /\ pc'[a] = to /\ op[a] \notin applied
         /\ op'[a] = op[a] /\ UNCHANGED <<alive, journal, files, local, history>>
         /\ lock'[l] = a /\ from # "idle"
<1>1. pc[a] = from /\ lock[l] = Nil BY DEF TakeLock, At
<1>2. op[a] \notin applied BY <1>1, NotDone DEF AtomicInv
<1>3. Elsewhere(a) BY DEF TakeLock, Goto, local, Elsewhere, TypedInv, LocalInv
<1>4. OtherLocks(a)
  BY <1>1, SentinelAssumption DEF TakeLock, OtherLocks, TypedInv, SharedInv
<1>5. pc'[a] = to /\ lock'[l] = a
  BY DEF TakeLock, Goto, TypedInv, LocalInv, SharedInv
<1> QED BY <1>1, <1>2, <1>3, <1>4, <1>5 DEF TakeLock, local

LEMMA LockSound ==
  ASSUME TypedInv, AtomicInv, NEW a \in Actor, NEW l \in LockName, NEW from, NEW to,
         TakeLock(a, l, from, to), from \notin {"idle", "unlock"} \cup ClearPCs,
         to \notin Charged \cup {"unlock"},
         to = "mapSettle" => from = "mapLock", to = "onlyWrite" => from = "onlyLock",
         to \notin {"mapLock", "mapUnlockTopic", "readMap", "onlyLock"}
  PROVE  Sound(a)
<1>1. /\ Elsewhere(a) /\ OtherLocks(a) /\ pc[a] = from /\ pc'[a] = to /\ op[a] \notin applied
      /\ op'[a] = op[a] /\ UNCHANGED <<alive, journal, files, local, history>>
  BY LockMove
<1>2. Kinds(a)' BY <1>1 DEF AtomicInv, Own, Kinds, Charged, CommitPCs, SettlePCs
<1> QED BY <1>1, <1>2, BareMove

LEMMA DropSound ==
  ASSUME TypedInv, AtomicInv, NEW a \in Actor, NEW l \in LockName,
         NEW from \in {"dropJournal", "dropMemory", "dropTopic"},
         NEW to \in {"dropMemory", "dropTopic", "claimLock"},
         DropDeadLock(a, l, from, to)
  PROVE  Sound(a)
<1>1. pc[a] = from /\ op[a] \notin applied /\ pc[a] # "idle"
  BY NotDone DEF AtomicInv, DropDeadLock, At, ClearPCs
<1>2. /\ Elsewhere(a) /\ OtherLocks(a) /\ pc'[a] = to /\ op'[a] = op[a]
      /\ UNCHANGED <<alive, journal, files, history>>
  BY DEF DropDeadLock, Goto, local, Elsewhere, OtherLocks, TypedInv, LocalInv, SharedInv
<1>3. Kinds(a)' BY <1>2 DEF Kinds, CommitPCs, SettlePCs
<1> QED BY <1>1, <1>2, <1>3, BareMove DEF Charged, CommitPCs, SettlePCs

\* Reading a record and turning to settle it.
LEMMA SettleSound ==
  ASSUME TypedInv, AtomicInv, NEW a \in Actor, pc[a] \in {"waitRead", "claimVerify", "mapSettle"},
         journal # Nil, NEW reason \in {"wait", "claim", "map"}, Settle(a, journal, reason),
         reason = "map" => pc[a] = "mapSettle",
         UNCHANGED <<alive, lock, journal, files, history>>
  PROVE  Sound(a)
<1>1. /\ Elsewhere(a) /\ after'[a] = reason /\ seen'[a] = journal /\ op'[a] = op[a]
      /\ pc'[a] = IF journal.phase = "committed" THEN "clearRead" ELSE "settleLock"
  BY DEF Settle, Relies, Goto, Elsewhere, TypedInv, LocalInv
<1>2. op[a] \notin applied BY NotDone DEF AtomicInv, ClearPCs
<1>3. journal.phase \in {"pending", "committed"} BY DEF TypedInv, SharedInv, Record
<1>4. Reports(a)' BY <1>1, <1>2, ReportsStay DEF AtomicInv, Own
<1>5. Kinds(a)' BY <1>1 DEF AtomicInv, Own, Kinds, CommitPCs, SettlePCs
<1>6. Settling(a)' BY <1>1, <1>3 DEF Settling, Matches, ClearPCs, SettlePCs
<1>7. Planned(a)' /\ Writing(a)' BY <1>1 DEF Planned, Writing, CommitPCs
<1> QED
  BY <1>1, <1>4, <1>5, <1>6, <1>7, QuietSound DEF Own, Truthful, OtherLocks, history

LEMMA RecoverSound ==
  ASSUME TypedInv, AtomicInv, NEW a \in Actor, Recover(a), Unraced(a)
  PROVE  Sound(a)
<1> USE DEF At
<1>0. /\ \A label : pc[a] = label /\ label \notin ClearPCs \cup {"unlock", "idle"} =>
           op[a] \notin applied
      /\ UNCHANGED lock => OtherLocks(a)
      /\ "journal" \in LockName /\ "memory" \in LockName
  BY NotDone DEF AtomicInv, OtherLocks, LockName
<1>1. ASSUME Probe(a) PROVE Sound(a)
  <2>1. /\ pc[a] = "probe" /\ op[a] \notin applied /\ OtherLocks(a)
        /\ UNCHANGED <<alive, journal, files>>
    BY <1>0, <1>1 DEF Probe, ClearPCs
  <2>2. CASE Recovered(a) BY <2>1, <2>2, RecoveredSound
  <2>3. CASE ~Recovered(a)
    <3>1. /\ Relies(a, journal) /\ Goto(a, "probeCheck")
          /\ UNCHANGED <<op, round, tries, plan, after, history>>
      BY <1>1, <2>3 DEF Probe
    <3>2. Elsewhere(a) /\ pc'[a] = "probeCheck" /\ op'[a] = op[a]
      BY <3>1 DEF Goto, Relies, Elsewhere, TypedInv, LocalInv
    <3>3. Kinds(a)' BY <3>2 DEF Kinds, CommitPCs, SettlePCs
    <3> QED BY <2>1, <3>1, <3>2, <3>3, BareMove DEF Charged, CommitPCs, SettlePCs
  <2> QED BY <2>2, <2>3
<1>2. ASSUME ProbeCheck(a) PROVE Sound(a)
  <2>1. /\ pc[a] = "probeCheck" /\ op[a] \notin applied /\ OtherLocks(a)
        /\ UNCHANGED <<alive, journal, files>>
    BY <1>0, <1>2 DEF ProbeCheck, ClearPCs
  <2>2. CASE Recovered(a) BY <2>1, <2>2, RecoveredSound
  <2>3. CASE Retry(a) BY <2>1, <2>3, RetrySound
  <2>4. CASE Goto(a, "ownerCheck") /\ UNCHANGED <<local, history>>
    <3>1. Elsewhere(a) /\ pc'[a] = "ownerCheck" /\ op'[a] = op[a]
      BY <2>4 DEF Goto, local, Elsewhere, TypedInv, LocalInv
    <3>2. Kinds(a)' BY <3>1 DEF Kinds, CommitPCs, SettlePCs
    <3> QED BY <2>1, <2>4, <3>1, <3>2, BareMove DEF Charged, CommitPCs, SettlePCs
  <2> QED BY <1>2, <2>2, <2>3, <2>4 DEF ProbeCheck
<1>3. ASSUME OwnerCheck(a) PROVE Sound(a)
  <2>1. /\ pc[a] = "ownerCheck" /\ op[a] \notin applied /\ OtherLocks(a)
        /\ UNCHANGED <<alive, journal, files, history>>
    BY <1>0, <1>3 DEF OwnerCheck, ClearPCs
  <2>2. Elsewhere(a) /\ pc'[a] \in {"waitLock", "dropJournal"} /\ op'[a] = op[a]
    BY <1>3 DEF OwnerCheck, Goto, local, Elsewhere, TypedInv, LocalInv
  <2>3. Kinds(a)' BY <2>2 DEF Kinds, CommitPCs, SettlePCs
  <2> QED BY <2>1, <2>2, <2>3, BareMove DEF Charged, CommitPCs, SettlePCs
<1>4. ASSUME WaitLock(a) PROVE Sound(a)
  BY <1>0, <1>4, LockSound DEF WaitLock, Charged, ClearPCs, CommitPCs, SettlePCs
<1>5. ASSUME WaitRead(a) PROVE Sound(a)
  <2>1. /\ pc[a] = "waitRead" /\ op[a] \notin applied
        /\ UNCHANGED <<alive, lock, journal, files, history>>
    BY <1>0, <1>5 DEF WaitRead, ClearPCs
  <2>2. CASE journal = Nil
    BY <1>5, <2>1, <2>2, UnwindSound DEF WaitRead
  <2>3. CASE journal # Nil
    BY <1>5, <2>1, <2>3, SettleSound DEF WaitRead
  <2> QED BY <2>2, <2>3
<1>6. ASSUME DropJournal(a) PROVE Sound(a)
  BY <1>0, <1>6, DropSound DEF DropJournal
<1>7. ASSUME DropMemory(a) PROVE Sound(a)
  BY <1>0, <1>7, DropSound DEF DropMemory
<1>8. ASSUME DropTopic(a) PROVE Sound(a)
  <2>1. pc[a] = "dropTopic" BY <1>8 DEF DropTopic, DropDeadLock
  <2>2. seen[a].topic \in LockName
    BY <2>1 DEF TypedInv, LocalInv, Shape, SeenPCs, Record, LockName
  <2> QED BY <1>8, <2>2, DropSound DEF DropTopic
<1>9. ASSUME ClaimLock(a) PROVE Sound(a)
  BY <1>0, <1>9, LockSound DEF ClaimLock, Charged, ClearPCs, CommitPCs, SettlePCs
<1>10. ASSUME ClaimRead(a) PROVE Sound(a)
  <2>1. /\ pc[a] = "claimRead" /\ op[a] \notin applied /\ OtherLocks(a)
        /\ UNCHANGED <<alive, lock, journal, files, history>>
    BY <1>0, <1>10 DEF ClaimRead, ClearPCs
  <2>2. CASE Unwind(a, "retry")
    BY <2>1, <2>2, UnwindSound
  <2>3. CASE ~Unwind(a, "retry")
    <3>1. /\ journal = seen[a] /\ journal.owner \notin alive
          /\ Relies(a, [journal EXCEPT !.owner = a]) /\ Goto(a, "claimWrite")
          /\ UNCHANGED <<op, round, tries, plan, after>>
      BY <1>10, <2>3 DEF ClaimRead
    <3>2. seen[a] \in Record BY <2>1 DEF TypedInv, LocalInv, Shape, SeenPCs
    <3>3. journal # Nil /\ journal \in Record BY <3>1, <3>2, SentinelAssumption
    <3>4. journal.id.actor \notin alive BY <3>1, <3>3 DEF AtomicInv, Journalled
    <3>5. /\ Elsewhere(a) /\ pc'[a] = "claimWrite" /\ op'[a] = op[a]
          /\ seen'[a] = [journal EXCEPT !.owner = a]
      BY <3>1 DEF Relies, Goto, Elsewhere, TypedInv, LocalInv
    <3>6. seen'[a].id = journal.id BY <3>3, <3>5 DEF Record
    <3>7. Reports(a)' BY <2>1, <3>5, ReportsStay DEF AtomicInv, Own, ClearPCs
    <3>8. Kinds(a)' BY <3>5 DEF Kinds, CommitPCs, SettlePCs
    <3>9. Planned(a)' /\ Writing(a)' /\ Settling(a)'
      BY <2>1, <3>4, <3>5, <3>6 DEF Planned, Writing, Settling, ClearPCs, CommitPCs, SettlePCs
    <3> QED BY <2>1, <3>5, <3>7, <3>8, <3>9, QuietSound DEF Own, Truthful, history
  <2> QED BY <2>2, <2>3
<1>11. ASSUME ClaimWrite(a) PROVE Sound(a)
  <2>1. /\ pc[a] = "claimWrite" /\ op[a] \notin applied /\ OtherLocks(a) /\ journal' = seen[a]
        /\ UNCHANGED <<alive, lock, files, local, history>>
    BY <1>0, <1>11 DEF ClaimWrite, ClearPCs
  <2>2. /\ journal # Nil /\ journal \in Record /\ seen[a] = [journal EXCEPT !.owner = a]
        /\ seen[a] \in Record /\ seen[a] # Nil
    <3>1. seen[a] \in Record BY <2>1 DEF TypedInv, LocalInv, Shape, SeenPCs
    <3> QED BY <1>11, <3>1, SentinelAssumption DEF Unraced, TypedInv, SharedInv
  <2>3. Matches(journal', journal) BY <2>1, <2>2 DEF Matches, Record
  <2>4. journal.id.actor \notin alive
    BY <2>1, <2>2, <2>3 DEF Matches, AtomicInv, Own, Settling
  <2>5. /\ Elsewhere(a) /\ pc'[a] = "claimMemory" /\ op'[a] = op[a]
    BY <1>11 DEF ClaimWrite, Goto, local, Elsewhere, TypedInv, LocalInv
  <2>6. Beside(a)
    BY <2>1, <2>2, <2>3, <2>4, <2>5 DEF Beside, Elsewhere, OtherLocks, files, history
  <2>7. Journalled'
    BY <2>1, <2>2, <2>3, <2>4 DEF AtomicInv, Journalled, Matches, files, history
  <2>8. Own(a)'
    <3>1. Reports(a)' BY <2>1, <2>5, ReportsStay DEF AtomicInv, Own, ClearPCs
    <3>2. Kinds(a)' BY <2>5 DEF Kinds, CommitPCs, SettlePCs
    <3> QED BY <2>5, <3>1, <3>2, BareOwn DEF Charged, CommitPCs, SettlePCs
  <2>9. UNCHANGED Store!storeVars
    BY <2>1, <2>2, <2>3 DEF Pending, Store!storeVars, Matches, files, history
  <2> QED BY <2>6, <2>7, <2>8, <2>9 DEF Sound
<1>12. ASSUME ClaimMemory(a) PROVE Sound(a)
  BY <1>0, <1>12, LockSound DEF ClaimMemory, Charged, ClearPCs, CommitPCs, SettlePCs
<1>13. ASSUME ClaimVerify(a) PROVE Sound(a)
  <2>1. /\ pc[a] = "claimVerify" /\ op[a] \notin applied
        /\ UNCHANGED <<alive, lock, journal, files, history>>
    BY <1>0, <1>13 DEF ClaimVerify, ClearPCs
  <2>2. seen[a] # Nil
    BY <2>1, SentinelAssumption DEF TypedInv, LocalInv, Shape, SeenPCs
  <2>3. CASE journal = seen[a]
    BY <1>13, <2>1, <2>2, <2>3, SettleSound DEF ClaimVerify
  <2>4. CASE journal # seen[a]
    BY <1>13, <2>1, <2>4, UnwindSound DEF ClaimVerify
  <2> QED BY <2>3, <2>4
<1> QED
  BY <1>1, <1>2, <1>3, <1>4, <1>5, <1>6, <1>7, <1>8, <1>9, <1>10, <1>11, <1>12, <1>13 DEF Recover

-----------------------------------------------------------------------------
(* Settlement *)

\* The values that a pending record hides behind its before-images.
LEMMA Hidden ==
  ASSUME journal # Nil, journal.phase = "pending", journal' # Nil, journal'.phase = "pending",
         Matches(journal', journal), topics \in [Topic -> Content], topics' \in [Topic -> Content],
         \A t \in Topic \ {journal.topic} : topics'[t] = topics[t],
         UNCHANGED <<applied, acked, failed>>
  PROVE  UNCHANGED Store!storeVars
<1>1. [topics EXCEPT ![journal.topic] = journal.topicBefore]' =
      [topics EXCEPT ![journal.topic] = journal.topicBefore]
  BY DEF Matches
<1>2. journal'.memoryBefore = journal.memoryBefore BY DEF Matches
<1> QED BY <1>1, <1>2 DEF Pending, Store!storeVars

LEMMA SettledOwn ==
  ASSUME TypedInv, AtomicInv, NEW a \in Actor, pc[a] \in ClearPCs, Settled(a),
         UNCHANGED <<alive, history>>
  PROVE  Elsewhere(a) /\ Own(a)'
<1>1. Reports(a) /\ Kinds(a) BY DEF AtomicInv, Own
<1>2. pc[a] # "idle" BY DEF ClearPCs
<1>3. after[a] # "commit" => op[a] \notin applied
  BY <1>1 DEF Reports, ClearPCs
<1>4. CASE after[a] \in {"wait", "claim"} /\ Unwind(a, "recovered")
  BY <1>2, <1>3, <1>4, UnwindOwn
<1>5. CASE after[a] = "rollback" /\ Unwind(a, "failed")
  BY <1>2, <1>3, <1>5, UnwindOwn
<1>6. CASE after[a] = "commit" /\ Unwind(a, "ok")
  <2>1. op[a] \in applied BY <1>1, <1>6 DEF Reports
  <2> QED BY <1>2, <1>6, <2>1, UnwindOwn
<1>7. CASE after[a] = "map" /\ Goto(a, "mapUnlockTopic") /\ UNCHANGED local
  <2>1. Elsewhere(a) /\ pc'[a] = "mapUnlockTopic" /\ op'[a] = op[a]
    BY <1>7 DEF Goto, local, Elsewhere, TypedInv, LocalInv
  <2>2. Reports(a)' BY <1>1, <1>2, <1>3, <1>7, <2>1, ReportsStay DEF ClearPCs
  <2>3. Kinds(a)' BY <1>1, <1>7, <2>1 DEF Kinds, ClearPCs, CommitPCs, SettlePCs
  <2> QED BY <2>1, <2>2, <2>3, BareOwn DEF Charged, CommitPCs, SettlePCs
<1> QED BY <1>4, <1>5, <1>6, <1>7 DEF Settled

LEMMA SettleRecordSound ==
  ASSUME TypedInv, AtomicInv, NEW a \in Actor, SettleRecord(a), TypedInv'
  PROVE  Sound(a)
<1> USE DEF At
<1>0. /\ UNCHANGED lock => OtherLocks(a)
      /\ OwnLocks(a) /\ Own(a) /\ Journalled
      /\ topics \in [Topic -> Content] /\ topics' \in [Topic -> Content]
  BY DEF AtomicInv, TypedInv, LockInv, SharedInv, OtherLocks
<1>00. pc[a] \in {"settleLock"} \cup SettlePCs =>
         /\ seen[a] \in Record /\ seen[a].topic \in Topic /\ seen[a].topic \in LockName
         /\ journal # Nil /\ Matches(journal, seen[a])
  <2>1. pc[a] \in {"settleLock"} \cup SettlePCs => seen[a] \in Record
    BY DEF TypedInv, LocalInv, Shape, SeenPCs
  <2> QED BY <1>0, <2>1 DEF Own, Settling, Record, LockName
<1>1. ASSUME SettleLock(a) PROVE Sound(a)
  <2>0. pc[a] = "settleLock" BY <1>1 DEF SettleLock, TakeLock
  <2>1. TakeLock(a, seen[a].topic, "settleLock", "restoreTopic") BY <1>1 DEF SettleLock
  <2>2. /\ Elsewhere(a) /\ OtherLocks(a) /\ pc'[a] = "restoreTopic" /\ op[a] \notin applied
        /\ op'[a] = op[a] /\ UNCHANGED <<alive, journal, files, local, history>>
    BY <1>00, <2>0, <2>1, LockMove DEF ClearPCs
  <2>3. Reports(a)' BY <1>0, <2>0, <2>2, ReportsStay DEF Own, ClearPCs
  <2>4. Kinds(a)' BY <1>0, <2>0, <2>2 DEF Own, Kinds, local, CommitPCs, SettlePCs
  <2>5. Planned(a)' /\ Writing(a)' BY <2>2 DEF Planned, Writing, CommitPCs
  <2>6. Settling(a)'
    BY <1>0, <1>00, <2>0, <2>2 DEF Own, Settling, Matches, local, ClearPCs
  <2> QED BY <2>2, <2>3, <2>4, <2>5, <2>6, QuietSound DEF Own, Truthful, history
<1>2. ASSUME RestoreTopic(a) PROVE Sound(a)
  <2>1. /\ pc[a] = "restoreTopic" /\ pc'[a] = "restoreMemory" /\ Elsewhere(a) /\ OtherLocks(a)
        /\ topics' = [topics EXCEPT ![seen[a].topic] = seen[a].topicBefore]
        /\ UNCHANGED <<alive, lock, journal, memory, local, history>>
    BY <1>0, <1>2 DEF RestoreTopic, Goto, local, Elsewhere, TypedInv, LocalInv
  <2>2. op[a] \notin applied /\ lock[seen[a].topic] = a
    BY <1>0, <2>1, NotDone DEF ClearPCs, OwnLocks
  <2>3. /\ seen[a].topic \in Topic /\ journal # Nil /\ Matches(journal, seen[a])
        /\ seen[a].phase = "pending" /\ after[a] # "commit"
    BY <1>0, <1>00, <2>1 DEF SettlePCs, Own, Settling
  <2>4. /\ topics'[seen[a].topic] = seen[a].topicBefore
        /\ \A t \in Topic \ {seen[a].topic} : topics'[t] = topics[t]
    BY <1>0, <2>1, <2>3
  <2>5. Beside(a)
    BY <2>1, <2>2, <2>4 DEF Beside, Elsewhere, OtherLocks, history
  <2>6. Journalled'
    BY <1>0, <2>1, <2>3, <2>4 DEF Journalled, Matches, history
  <2>7. Own(a)'
    <3>1. Reports(a)' BY <1>0, <2>1, <2>2, ReportsStay DEF Own, local, ClearPCs
    <3>2. Kinds(a)' BY <1>0, <2>1 DEF Own, Kinds, local, CommitPCs, SettlePCs
    <3>3. Planned(a)' /\ Writing(a)' BY <2>1 DEF Planned, Writing, CommitPCs
    <3>4. Settling(a)' BY <2>1, <2>3, <2>4 DEF Settling, Matches, local, ClearPCs, SettlePCs
    <3> QED BY <3>1, <3>2, <3>3, <3>4 DEF Own
  <2>8. UNCHANGED Store!storeVars
    <3>1. journal.phase = "pending" /\ journal.topic = seen[a].topic /\ Matches(journal', journal)
      BY <2>1, <2>3 DEF Matches
    <3> QED BY <1>0, <2>1, <2>3, <2>4, <3>1, Hidden DEF history
  <2> QED BY <2>5, <2>6, <2>7, <2>8 DEF Sound
<1>3. ASSUME RestoreMemory(a) PROVE Sound(a)
  <2>1. /\ pc[a] = "restoreMemory" /\ pc'[a] = "clearRead" /\ Elsewhere(a) /\ OtherLocks(a)
        /\ memory' = seen[a].memoryBefore
        /\ UNCHANGED <<alive, lock, journal, topics, local, history>>
    BY <1>0, <1>3 DEF RestoreMemory, Goto, local, Elsewhere, TypedInv, LocalInv
  <2>2. op[a] \notin applied /\ lock[seen[a].topic] = a /\ lock["memory"] = a
    BY <1>0, <2>1, NotDone DEF ClearPCs, OwnLocks, MapPCs, SettlePCs
  <2>3. /\ seen[a].topic \in Topic /\ journal # Nil /\ Matches(journal, seen[a])
        /\ seen[a].phase = "pending" /\ after[a] # "commit"
        /\ topics[seen[a].topic] = seen[a].topicBefore
    BY <1>0, <1>00, <2>1 DEF SettlePCs, Own, Settling
  <2>4. Beside(a)
    BY <2>1, <2>2 DEF Beside, Elsewhere, OtherLocks, history
  <2>5. Journalled'
    BY <1>0, <2>1 DEF Journalled, history
  <2>6. Own(a)'
    <3>1. Reports(a)' BY <1>0, <2>1, <2>2, <2>3, ReportsStay DEF Own, local
    <3>2. Kinds(a)' BY <1>0, <2>1 DEF Own, Kinds, local, CommitPCs, SettlePCs
    <3>3. Planned(a)' /\ Writing(a)' BY <2>1 DEF Planned, Writing, CommitPCs
    <3>4. Settling(a)'
      BY <2>1, <2>2, <2>3 DEF Settling, Matches, local, ClearPCs, SettlePCs
    <3> QED BY <3>1, <3>2, <3>3, <3>4 DEF Own
  <2>7. UNCHANGED Store!storeVars
    <3>1. journal.phase = "pending" /\ Matches(journal', journal)
      BY <2>1, <2>3 DEF Matches
    <3> QED BY <1>0, <2>1, <2>3, <3>1, Hidden DEF history
  <2> QED BY <2>4, <2>5, <2>6, <2>7 DEF Sound
<1>4. ASSUME ClearRead(a) PROVE Sound(a)
  <2>1. /\ pc[a] = "clearRead" /\ OtherLocks(a)
        /\ UNCHANGED <<alive, lock, journal, files, history>>
    BY <1>0, <1>4 DEF ClearRead
  <2>2. CASE Goto(a, "clearRemove") /\ UNCHANGED local
    <3>1. /\ pc'[a] = "clearRemove" /\ Elsewhere(a)
          /\ UNCHANGED <<alive, lock, journal, topics, memory, applied, acked, failed>>
          /\ op'[a] = op[a] /\ seen'[a] = seen[a] /\ after'[a] = after[a]
      BY <2>1, <2>2 DEF Goto, local, Elsewhere, TypedInv, LocalInv, files, history
    <3>2. Reports(a)' BY <1>0, <2>1, <3>1 DEF Own, Reports, Calls, ClearPCs
    <3>3. Kinds(a)' BY <1>0, <2>1, <3>1 DEF Own, Kinds, CommitPCs, SettlePCs
    <3>4. Planned(a)' /\ Writing(a)' BY <3>1 DEF Planned, Writing, CommitPCs
    <3>5. Settling(a)' BY <1>0, <2>1, <3>1 DEF Own, Settling, Matches, ClearPCs, SettlePCs
    <3> QED
      BY <2>1, <3>1, <3>2, <3>3, <3>4, <3>5, QuietSound DEF Own, Truthful
  <2>3. CASE Settled(a)
    BY <2>1, <2>3, SettledOwn, QuietSound DEF Truthful, history, ClearPCs
  <2> QED BY <1>4, <2>2, <2>3 DEF ClearRead
<1>5. ASSUME ClearRemove(a) PROVE Sound(a)
  <2>1. /\ pc[a] = "clearRemove" /\ OtherLocks(a) /\ journal' = Nil /\ Settled(a)
        /\ UNCHANGED <<alive, lock, topics, memory, applied, acked, failed>>
    BY <1>0, <1>5 DEF ClearRemove, files, history
  <2>2. Elsewhere(a) /\ Own(a)' BY <2>1, SettledOwn DEF ClearPCs, history
  <2>3. lock["memory"] = a BY <1>0, <2>1 DEF OwnLocks, MapPCs, SettlePCs
  <2>4. Beside(a) BY <2>1, <2>2, <2>3 DEF Beside, Elsewhere, OtherLocks
  <2>5. Journalled' BY <2>1 DEF Journalled
  <2>6. UNCHANGED Store!storeVars
    <3>1. journal # Nil /\ Matches(journal, seen[a]) /\ seen[a].topic \in Topic
      BY <1>00, <2>1 DEF SettlePCs
    <3>2. CASE journal.phase = "pending"
      <4>1. topics[journal.topic] = journal.topicBefore /\ memory = journal.memoryBefore
        BY <1>0, <2>1, <3>1, <3>2 DEF Matches, Own, Settling, ClearPCs
      <4>2. [topics EXCEPT ![journal.topic] = journal.topicBefore] = topics
        BY <1>0, <4>1
      <4> QED BY <2>1, <4>1, <4>2 DEF Pending, Store!storeVars
    <3>3. CASE journal.phase # "pending" BY <2>1, <3>3 DEF Pending, Store!storeVars
    <3> QED BY <3>2, <3>3
  <2> QED BY <2>2, <2>4, <2>5, <2>6 DEF Sound
<1> QED BY <1>1, <1>2, <1>3, <1>4, <1>5 DEF SettleRecord

-----------------------------------------------------------------------------
(* The compound transaction *)

\* An operation that takes effect where no pending record hides it.
LEMMA OpenlyApplied ==
  ASSUME TypedInv, AtomicInv, NEW a \in Actor, pc[a] \notin ClearPCs \cup {"unlock", "idle"},
         applied' = applied \cup {op[a]}, UNCHANGED <<acked, failed>>,
         Store!Effect(op[a])
  PROVE  Store!StoreNext
<1>1. op[a] \in Op BY DEF TypedInv, LocalInv, Shape
<1>2. op[a] \notin applied \cup failed BY DEF AtomicInv, Own, Reports
<1>3. Store!Apply(op[a]) BY <1>2 DEF Store!Apply
<1> QED BY <1>1, <1>3 DEF Store!StoreNext

\* The effect and the process's own part, for the operations with a single write.
LEMMA SingleWrite ==
  ASSUME TypedInv, AtomicInv, NEW a \in Actor, pc[a] \notin ClearPCs \cup {"unlock", "idle"},
         Applied(a), Unwind(a, "ok"), UNCHANGED alive
  PROVE  /\ Elsewhere(a) /\ Own(a)'
         /\ applied' = applied \cup {op[a]} /\ UNCHANGED <<acked, failed>> /\ op[a].actor = a
<1>1. /\ Elsewhere(a) /\ pc'[a] = "unlock" /\ after'[a] = "ok" /\ op'[a] = op[a]
  BY DEF Unwind, Goto, Elsewhere, TypedInv, LocalInv
<1>2. op[a] \in Op /\ Reports(a) BY DEF TypedInv, LocalInv, Shape, AtomicInv, Own
<1>3. op[a].actor = a /\ op[a] # Nil BY <1>2, SentinelAssumption DEF Reports
<1>4. applied' = applied \cup {op[a]} /\ UNCHANGED <<acked, failed>> BY DEF Applied
<1>5. Calls(a) = op[a].call /\ Calls(a)' = Calls(a) /\ op[a].call <= op[a].call
  BY <1>1, <1>2, <1>3, BoundsAssumption DEF Calls, Op
<1>6. Reports(a)' BY <1>1, <1>2, <1>3, <1>4, <1>5 DEF Reports, ClearPCs
<1>7. Kinds(a)' BY <1>1 DEF Kinds, CommitPCs, SettlePCs
<1> QED BY <1>1, <1>3, <1>4, <1>6, <1>7, BareOwn DEF Charged, CommitPCs, SettlePCs

LEMMA RollbackSound ==
  ASSUME TypedInv, AtomicInv, NEW a \in Actor, pc[a] \in CommitPCs, Rollback(a),
         UNCHANGED <<alive, lock, journal, files, history>>
  PROVE  Sound(a)
<1>1. /\ Elsewhere(a) /\ pc'[a] = "restoreTopic" /\ after'[a] = "rollback"
      /\ op'[a] = op[a] /\ seen'[a] = seen[a]
  BY DEF Rollback, Goto, Elsewhere, TypedInv, LocalInv
<1>2. op[a] \notin applied /\ pc[a] # "idle" BY NotDone DEF AtomicInv, CommitPCs, ClearPCs
<1>3. journal # Nil /\ journal = seen[a] /\ journal.phase = "pending"
  BY DEF AtomicInv, Own, Writing
<1>4. Reports(a)' BY <1>1, <1>2, ReportsStay DEF AtomicInv, Own, ClearPCs
<1>5. Kinds(a)' BY <1>1 DEF Kinds, CommitPCs, SettlePCs
<1>6. Planned(a)' /\ Writing(a)' BY <1>1 DEF Planned, Writing, CommitPCs
<1>7. Settling(a)' BY <1>1, <1>3 DEF Settling, Matches, ClearPCs, SettlePCs
<1> QED
  BY <1>1, <1>4, <1>5, <1>6, <1>7, QuietSound DEF Own, Truthful, OtherLocks, history

LEMMA MapSteps ==
  ASSUME TypedInv, AtomicInv, NEW a \in Actor, Unraced(a),
         MapLock(a) \/ MapSettle(a) \/ MapUnlockTopic(a) \/ ReadMap(a) \/ MapWrite(a) \/ TopicLock(a)
  PROVE  Sound(a)
<1> USE DEF At
<1>0. /\ \A label : pc[a] = label /\ label \notin ClearPCs \cup {"unlock", "idle"} =>
           op[a] \notin applied
      /\ UNCHANGED lock => OtherLocks(a)
      /\ "memory" \in LockName /\ OwnLocks(a) /\ Own(a)
  BY NotDone DEF AtomicInv, OtherLocks, LockName, TypedInv, LockInv
<1>1. ASSUME MapLock(a) PROVE Sound(a)
  BY <1>0, <1>1, LockSound DEF MapLock, Charged, ClearPCs, CommitPCs, SettlePCs
<1>2. ASSUME MapSettle(a) PROVE Sound(a)
  <2>1. /\ pc[a] = "mapSettle" /\ op[a] \notin applied /\ OtherLocks(a)
        /\ UNCHANGED <<alive, lock, journal, files, history>>
    BY <1>0, <1>2 DEF MapSettle, ClearPCs
  <2>2. CASE journal = Nil
    <3>1. pc'[a] = "readMap" /\ Elsewhere(a) /\ op'[a] = op[a]
      BY <1>2, <2>2 DEF MapSettle, Goto, local, Elsewhere, TypedInv, LocalInv
    <3>2. Kinds(a)' BY <1>0, <2>1, <3>1 DEF Own, Kinds, CommitPCs, SettlePCs
    <3> QED BY <2>1, <3>1, <3>2, BareMove DEF Charged, CommitPCs, SettlePCs
  <2>3. CASE journal # Nil
    BY <1>2, <2>1, <2>3, SettleSound DEF MapSettle
  <2> QED BY <2>2, <2>3
<1>3. ASSUME MapUnlockTopic(a) PROVE Sound(a)
  <2>1. /\ pc[a] = "mapUnlockTopic" /\ op[a] \notin applied
        /\ UNCHANGED <<alive, journal, files, history>>
    BY <1>0, <1>3 DEF MapUnlockTopic, ClearPCs
  <2>2. pc'[a] = "readMap" /\ Elsewhere(a) /\ OtherLocks(a) /\ op'[a] = op[a]
    BY <1>3 DEF MapUnlockTopic, Goto, Relies, Elsewhere, OtherLocks, TypedInv, LocalInv
  <2>3. Kinds(a)' BY <1>0, <2>1, <2>2 DEF Own, Kinds, CommitPCs, SettlePCs
  <2> QED BY <2>1, <2>2, <2>3, BareMove DEF Charged, CommitPCs, SettlePCs
<1>4. ASSUME ReadMap(a) PROVE Sound(a)
  <2>1. /\ pc[a] = "readMap" /\ op[a] \notin applied /\ OtherLocks(a)
        /\ UNCHANGED <<alive, lock, journal, files, history>>
    BY <1>0, <1>4 DEF ReadMap, ClearPCs
  <2>2. CASE Unwind(a, "failed") BY <2>1, <2>2, UnwindSound
  <2>3. CASE ~Unwind(a, "failed")
    <3>1. /\ Plans(a, Store!WithEntry(memory, op[a].topic))
          /\ Goto(a, IF op[a].kind = "mapEntry" THEN "mapWrite" ELSE "topicLock")
          /\ UNCHANGED <<op, round, tries, seen, after>>
      BY <1>4, <2>3 DEF ReadMap
    <3>2. /\ Elsewhere(a) /\ op'[a] = op[a] /\ memory' = memory
          /\ plan'[a] = Store!WithEntry(memory, op[a].topic)
          /\ pc'[a] = IF op[a].kind = "mapEntry" THEN "mapWrite" ELSE "topicLock"
      BY <2>1, <3>1 DEF Plans, Goto, Elsewhere, TypedInv, LocalInv, files
    <3>3. op[a].kind \in MapKind BY <1>0, <2>1 DEF Own, Kinds
    <3>4. Reports(a)' BY <1>0, <2>1, <3>2, ReportsStay DEF Own, ClearPCs
    <3>5. Kinds(a)' BY <3>2, <3>3 DEF Kinds, MapKind, CommitPCs, SettlePCs
    <3>6. Planned(a)' BY <3>2 DEF Planned
    <3>7. Writing(a)' /\ Settling(a)'
      BY <3>2 DEF Writing, Settling, ClearPCs, CommitPCs, SettlePCs
    <3> QED
      BY <2>1, <3>2, <3>4, <3>5, <3>6, <3>7, QuietSound DEF Own, Truthful, history
  <2> QED BY <2>2, <2>3
<1>5. ASSUME MapWrite(a) PROVE Sound(a)
  <2>1. /\ pc[a] = "mapWrite" /\ OtherLocks(a) /\ memory' = plan[a] /\ Applied(a)
        /\ Unwind(a, "ok") /\ UNCHANGED <<alive, lock, journal, topics>> /\ ~Pending
    BY <1>0, <1>5 DEF MapWrite, Unraced
  <2>2. /\ Elsewhere(a) /\ Own(a)' /\ op[a].actor = a
        /\ applied' = applied \cup {op[a]} /\ UNCHANGED <<acked, failed>>
    BY <2>1, SingleWrite DEF ClearPCs
  <2>3. lock["memory"] = a BY <1>0, <2>1 DEF OwnLocks, MapPCs
  <2>4. Beside(a) BY <2>1, <2>2, <2>3 DEF Beside, Elsewhere, OtherLocks
  <2>5. Journalled' BY <2>1 DEF AtomicInv, Journalled, Pending
  <2>6. ~Pending' BY <2>1 DEF Pending
  <2>7. Store!Effect(op[a])
    BY <1>0, <2>1, <2>6 DEF Store!Effect, Own, Planned, Kinds, Pending
  <2> QED BY <2>1, <2>2, <2>4, <2>5, <2>7, OpenlyApplied DEF Sound, ClearPCs
<1>6. ASSUME TopicLock(a) PROVE Sound(a)
  <2>0. pc[a] = "topicLock" BY <1>6 DEF TopicLock, TakeLock
  <2>1. op[a].topic \in LockName
    BY <2>0 DEF TypedInv, LocalInv, Shape, Op, LockName
  <2>2. /\ Elsewhere(a) /\ OtherLocks(a) /\ pc'[a] = "begin" /\ op[a] \notin applied
        /\ op'[a] = op[a] /\ UNCHANGED <<alive, journal, files, local, history>>
    BY <1>6, <2>1, LockMove DEF TopicLock, ClearPCs
  <2>3. Reports(a)' BY <1>0, <2>0, <2>2, ReportsStay DEF Own, ClearPCs
  <2>4. Kinds(a)' BY <1>0, <2>0, <2>2 DEF Own, Kinds, CommitPCs, SettlePCs
  <2>5. Planned(a)' BY <1>0, <2>0, <2>2 DEF Own, Planned, local, files
  <2>6. Writing(a)' /\ Settling(a)'
    BY <2>2 DEF Writing, Settling, ClearPCs, CommitPCs, SettlePCs
  <2> QED BY <2>2, <2>3, <2>4, <2>5, <2>6, QuietSound DEF Own, Truthful, history
<1> QED BY <1>1, <1>2, <1>3, <1>4, <1>5, <1>6

LEMMA BeginSound ==
  ASSUME TypedInv, AtomicInv, NEW a \in Actor, Begin(a), TypedInv'
  PROVE  Sound(a)
<1>1. /\ pc[a] = "begin" /\ OtherLocks(a) /\ UNCHANGED <<alive, lock, files, history>>
      /\ OwnLocks(a) /\ Own(a) /\ op[a] \in Op
  BY DEF Begin, At, OtherLocks, TypedInv, LockInv, AtomicInv, LocalInv, Shape
<1>2. op[a] \notin applied BY <1>1, NotDone DEF ClearPCs
<1>3. CASE Unwind(a, "failed") /\ UNCHANGED journal
  BY <1>1, <1>2, <1>3, UnwindSound
<1>4. CASE ~(Unwind(a, "failed") /\ UNCHANGED journal)
  <2>1. /\ journal = Nil
        /\ op[a].kind = "editTopic" => topics[op[a].topic] # Absent
        /\ journal' = [phase |-> "pending", owner |-> a, id |-> op[a], topic |-> op[a].topic,
                       topicBefore |-> topics[op[a].topic], memoryBefore |-> memory]
        /\ Relies(a, journal') /\ Goto(a, "writeTopic")
        /\ UNCHANGED <<op, round, tries, plan, after>>
    BY <1>4 DEF Begin
  <2>2. /\ Elsewhere(a) /\ pc'[a] = "writeTopic" /\ seen'[a] = journal'
        /\ op'[a] = op[a] /\ plan'[a] = plan[a] /\ UNCHANGED <<topics, memory>>
    BY <1>1, <2>1 DEF Goto, Relies, Elsewhere, TypedInv, LocalInv, files
  <2>3. journal' # Nil
    <3>1. seen'[a] \in Record
      BY <2>2 DEF TypedInv, LocalInv, Shape, SeenPCs, CommitPCs
    <3> QED BY <2>2, <3>1, SentinelAssumption
  <2>4. /\ journal'.phase = "pending" /\ journal'.id = op[a] /\ journal'.topic = op[a].topic
        /\ journal'.topicBefore = topics[op[a].topic] /\ journal'.memoryBefore = memory
        /\ journal'.owner = a
    BY <2>1
  <2>5. lock["memory"] = a /\ op[a].actor = a
    BY <1>1, SentinelAssumption DEF OwnLocks, MapPCs, Own, Reports
  <2>6. Beside(a) BY <1>1, <2>2, <2>5 DEF Beside, Elsewhere, OtherLocks, history
  <2>7. Journalled'
    BY <1>1, <1>2, <2>2, <2>4, <2>5 DEF Journalled, Own, Kinds, history
  <2>8. Own(a)'
    <3>1. Reports(a)' BY <1>1, <1>2, <2>2, ReportsStay DEF Own, ClearPCs
    <3>2. Kinds(a)' BY <1>1, <2>2 DEF Own, Kinds, SettlePCs
    <3>3. Writing(a)' BY <1>1, <2>1, <2>2, <2>3, <2>4 DEF Own, Planned, Writing
    <3>4. Planned(a)' /\ Settling(a)'
      BY <2>2 DEF Planned, Settling, ClearPCs, SettlePCs
    <3> QED BY <3>1, <3>2, <3>3, <3>4 DEF Own
  <2>9. UNCHANGED Store!storeVars
    <3>1. op[a].topic \in Topic /\ topics \in [Topic -> Content]
      BY <1>1 DEF Op, TypedInv, SharedInv
    <3>2. [topics EXCEPT ![journal.topic] = journal.topicBefore]' = topics
      BY <2>2, <2>4, <3>1
    <3>3. journal'.memoryBefore = memory BY <2>4
    <3> QED BY <1>1, <2>1, <2>2, <2>3, <2>4, <3>2, <3>3 DEF Pending, Store!storeVars, history
  <2> QED BY <2>6, <2>7, <2>8, <2>9 DEF Sound
<1> QED BY <1>3, <1>4

LEMMA CommitSteps ==
  ASSUME TypedInv, AtomicInv, NEW a \in Actor, TypedInv',
         WriteTopic(a) \/ CommitMap(a) \/ MarkRead(a) \/ MarkWrite(a)
  PROVE  Sound(a)
<1> USE DEF At
<1>0. /\ pc[a] \in CommitPCs /\ OtherLocks(a) /\ UNCHANGED <<alive, lock>>
      /\ OwnLocks(a) /\ Own(a) /\ Journalled /\ op[a] \in Op
  BY DEF WriteTopic, CommitMap, MarkRead, MarkWrite, CommitPCs, OtherLocks, TypedInv, LockInv,
         AtomicInv, LocalInv, Shape
<1>00. /\ op[a] \notin applied /\ lock["memory"] = a /\ lock[op[a].topic] = a
       /\ op[a].topic \in Topic /\ op[a].actor = a /\ pc[a] # "idle"
       /\ topics \in [Topic -> Content] /\ topics' \in [Topic -> Content]
  BY <1>0, NotDone, SentinelAssumption
  DEF CommitPCs, ClearPCs, MapPCs, OwnLocks, Op, Own, Reports, TypedInv, SharedInv
<1>000. /\ journal # Nil /\ journal = seen[a] /\ journal \in Record
        /\ journal.phase = "pending" /\ journal.id = op[a] /\ journal.topic = op[a].topic
        /\ op[a].kind = "editTopic" => journal.topicBefore # Absent
        /\ plan[a] = Store!WithEntry(journal.memoryBefore, op[a].topic)
        /\ topics[op[a].topic] = IF pc[a] = "writeTopic" THEN journal.topicBefore ELSE op[a]
        /\ memory = IF pc[a] \in {"writeTopic", "commitMap"} THEN journal.memoryBefore ELSE plan[a]
  BY <1>0 DEF Own, Writing, TypedInv, SharedInv
<1>1. ASSUME WriteTopic(a) PROVE Sound(a)
  <2>1. CASE Rollback(a) /\ UNCHANGED topics
    BY <1>0, <1>1, <2>1, RollbackSound DEF WriteTopic, files
  <2>2. CASE ~(Rollback(a) /\ UNCHANGED topics)
    <3>1. /\ pc[a] = "writeTopic" /\ topics' = [topics EXCEPT ![op[a].topic] = op[a]]
          /\ Goto(a, "commitMap") /\ UNCHANGED <<journal, memory, local, history>>
      BY <1>1, <2>2 DEF WriteTopic
    <3>2. /\ Elsewhere(a) /\ pc'[a] = "commitMap" /\ UNCHANGED <<op, seen, plan, after>>
      BY <3>1 DEF Goto, local, Elsewhere, TypedInv, LocalInv
    <3>3. /\ topics'[op[a].topic] = op[a]
          /\ \A t \in Topic \ {op[a].topic} : topics'[t] = topics[t]
      BY <1>00, <3>1
    <3>4. Beside(a)
      BY <1>0, <1>00, <3>1, <3>2, <3>3 DEF Beside, Elsewhere, OtherLocks, history
    <3>5. Journalled'
      BY <1>0, <1>000, <3>1, <3>3 DEF Journalled, history
    <3>6. Own(a)'
      <4>1. Reports(a)' BY <1>0, <1>00, <3>1, <3>2, ReportsStay DEF Own, ClearPCs
      <4>2. Kinds(a)' BY <1>0, <3>2 DEF Own, Kinds, CommitPCs, SettlePCs
      <4>3. Writing(a)' BY <1>000, <3>1, <3>2, <3>3 DEF Writing
      <4>4. Planned(a)' /\ Settling(a)'
        BY <3>2 DEF Planned, Settling, ClearPCs, SettlePCs
      <4> QED BY <4>1, <4>2, <4>3, <4>4 DEF Own
    <3>7. UNCHANGED Store!storeVars
      BY <1>00, <1>000, <3>1, <3>3, Hidden DEF Matches, history
    <3> QED BY <3>4, <3>5, <3>6, <3>7 DEF Sound
  <2> QED BY <2>1, <2>2
<1>2. ASSUME CommitMap(a) PROVE Sound(a)
  <2>1. /\ pc[a] = "commitMap" /\ memory' = plan[a]
        /\ Goto(a, "markRead") /\ UNCHANGED <<journal, topics, local, history>>
    BY <1>2 DEF CommitMap
  <2>2. /\ Elsewhere(a) /\ pc'[a] = "markRead" /\ UNCHANGED <<op, seen, plan, after>>
    BY <2>1 DEF Goto, local, Elsewhere, TypedInv, LocalInv
  <2>3. Beside(a)
    BY <1>0, <1>00, <2>1, <2>2 DEF Beside, Elsewhere, OtherLocks, history
  <2>4. Journalled' BY <1>0, <2>1 DEF Journalled, history
  <2>5. Own(a)'
    <3>1. Reports(a)' BY <1>0, <1>00, <2>1, <2>2, ReportsStay DEF Own, ClearPCs
    <3>2. Kinds(a)' BY <1>0, <2>2 DEF Own, Kinds, CommitPCs, SettlePCs
    <3>3. Writing(a)' BY <1>000, <2>1, <2>2 DEF Writing
    <3>4. Planned(a)' /\ Settling(a)'
      BY <2>2 DEF Planned, Settling, ClearPCs, SettlePCs
    <3> QED BY <3>1, <3>2, <3>3, <3>4 DEF Own
  <2>6. UNCHANGED Store!storeVars
    BY <1>00, <1>000, <2>1, Hidden DEF Matches, history
  <2> QED BY <2>3, <2>4, <2>5, <2>6 DEF Sound
<1>3. ASSUME MarkRead(a) PROVE Sound(a)
  <2>1. /\ pc[a] = "markRead" /\ Goto(a, "markWrite") /\ UNCHANGED <<journal, files, local, history>>
    BY <1>3, <1>000 DEF MarkRead
  <2>2. /\ Elsewhere(a) /\ pc'[a] = "markWrite" /\ UNCHANGED <<op, seen, plan, after, topics, memory>>
    BY <2>1 DEF Goto, local, Elsewhere, TypedInv, LocalInv, files
  <2>3. Reports(a)' BY <1>0, <1>00, <2>1, <2>2, ReportsStay DEF Own, ClearPCs
  <2>4. Kinds(a)' BY <1>0, <2>2 DEF Own, Kinds, CommitPCs, SettlePCs
  <2>5. Writing(a)' BY <1>000, <2>1, <2>2 DEF Writing
  <2>6. Planned(a)' /\ Settling(a)'
    BY <2>2 DEF Planned, Settling, ClearPCs, SettlePCs
  <2> QED
    BY <1>0, <2>1, <2>2, <2>3, <2>4, <2>5, <2>6, QuietSound DEF Own, Truthful, history
<1>4. ASSUME MarkWrite(a) PROVE Sound(a)
  <2>1. /\ pc[a] = "markWrite" /\ journal' = [seen[a] EXCEPT !.phase = "committed"]
        /\ Relies(a, journal') /\ Applied(a) /\ after' = [after EXCEPT ![a] = "commit"]
        /\ Goto(a, "clearRead") /\ UNCHANGED <<files, op, round, tries, plan>>
    BY <1>4 DEF MarkWrite
  <2>2. /\ Elsewhere(a) /\ pc'[a] = "clearRead" /\ seen'[a] = journal' /\ after'[a] = "commit"
        /\ op'[a] = op[a] /\ UNCHANGED <<topics, memory>>
        /\ applied' = applied \cup {op[a]} /\ UNCHANGED <<acked, failed>>
    BY <2>1 DEF Goto, Relies, Applied, Elsewhere, TypedInv, LocalInv, files
  <2>3. /\ journal'.phase = "committed" /\ journal'.id = op[a] /\ journal'.owner = journal.owner
    BY <1>000, <2>1 DEF Record
  <2>4. journal' # Nil
    <3>1. seen'[a] \in Record
      BY <2>2 DEF TypedInv, LocalInv, Shape, SeenPCs, SettlePCs
    <3> QED BY <2>2, <3>1, SentinelAssumption
  <2>5. Beside(a)
    BY <1>0, <1>00, <2>2 DEF Beside, Elsewhere, OtherLocks
  <2>6. Journalled'
    BY <1>0, <1>000, <2>3 DEF Journalled
  <2>7. Own(a)'
    <3>1. Reports(a)'
      <4>1. /\ Calls(a) = op[a].call /\ Calls(a)' = Calls(a) /\ op[a].call <= op[a].call
        BY <1>0, <2>2, SentinelAssumption, BoundsAssumption DEF Calls, Op
      <4>2. Reports(a) BY <1>0 DEF Own
      <4> QED BY <1>0, <1>00, <2>2, <4>1, <4>2 DEF Reports, ClearPCs
    <3>2. Kinds(a)' BY <2>2 DEF Kinds, CommitPCs, SettlePCs
    <3>3. Planned(a)' /\ Writing(a)' BY <2>2 DEF Planned, Writing, CommitPCs
    <3>4. Settling(a)'
      BY <2>2, <2>3, <2>4 DEF Settling, Matches, ClearPCs, SettlePCs
    <3> QED BY <3>1, <3>2, <3>3, <3>4 DEF Own
  <2>8. Store!Effect(op[a])
    <3>1. op[a].kind \in {"writeTopic", "editTopic"} BY <1>0 DEF Own, Kinds, Compound
    <3>2. topics[op[a].topic] = op[a] /\ memory = plan[a]
      BY <1>000, <2>1
    <3>3. topics = [[topics EXCEPT ![journal.topic] = journal.topicBefore] EXCEPT ![op[a].topic] = op[a]]
      BY <1>00, <1>000, <3>2
    <3>4. [topics EXCEPT ![journal.topic] = journal.topicBefore][op[a].topic] = journal.topicBefore
      BY <1>00, <1>000
    <3>5. memory' = Store!WithEntry(journal.memoryBefore, op[a].topic)
      BY <1>000, <2>2, <3>2
    <3>6. ~(journal' # Nil /\ journal'.phase = "pending") BY <2>3
    <3> QED BY <1>000, <2>2, <3>1, <3>3, <3>4, <3>5, <3>6 DEF Pending, Store!Effect, Store!Present
  <2> QED
    BY <2>1, <2>2, <2>5, <2>6, <2>7, <2>8, OpenlyApplied DEF Sound, ClearPCs
<1> QED BY <1>1, <1>2, <1>3, <1>4

LEMMA TransactSound ==
  ASSUME TypedInv, AtomicInv, NEW a \in Actor, Transact(a), Unraced(a), TypedInv'
  PROVE  Sound(a)
  BY MapSteps, BeginSound, CommitSteps DEF Transact

-----------------------------------------------------------------------------
(* The operations under a single lock *)

LEMMA SingleLockSound ==
  ASSUME TypedInv, AtomicInv, NEW a \in Actor, SingleLock(a), Unraced(a)
  PROVE  Sound(a)
<1> USE DEF At
<1>0. /\ \A label : pc[a] = label /\ label \notin ClearPCs \cup {"unlock", "idle"} =>
           op[a] \notin applied
      /\ UNCHANGED lock => OtherLocks(a)
      /\ "memory" \in LockName /\ OwnLocks(a) /\ Own(a) /\ Journalled
  BY NotDone DEF AtomicInv, OtherLocks, LockName, TypedInv, LockInv
<1>1. ASSUME BootLock(a) PROVE Sound(a)
  BY <1>0, <1>1, LockSound DEF BootLock, Charged, ClearPCs, CommitPCs, SettlePCs
<1>2. ASSUME BootRead(a) PROVE Sound(a)
  <2>1. /\ pc[a] = "bootRead" /\ op[a] \notin applied /\ OtherLocks(a)
        /\ UNCHANGED <<alive, lock, journal, files, history>>
    BY <1>0, <1>2 DEF BootRead, ClearPCs
  <2>2. CASE Unwind(a, "failed") BY <2>1, <2>2, UnwindSound
  <2>3. CASE op[a].kind = "ensure" /\ Unwind(a, "ok") BY <2>1, <2>3, UnwindSound
  <2>4. CASE ~Unwind(a, "failed") /\ ~(op[a].kind = "ensure" /\ Unwind(a, "ok"))
    <3>1. /\ op[a].kind = "editMemory" => memory # Absent
          /\ op[a].kind = "ensure" => memory = Absent
          /\ Plans(a, CASE op[a].kind = "writeMemory" -> [body |-> op[a], map |-> {}]
                        [] op[a].kind = "editMemory" -> [memory EXCEPT !.body = op[a]]
                        [] op[a].kind = "ensure" -> [body |-> Fresh, map |-> {}])
          /\ Goto(a, "bootWrite") /\ UNCHANGED <<op, round, tries, seen, after>>
      BY <1>2, <2>4 DEF BootRead
    <3>2. /\ Elsewhere(a) /\ op'[a] = op[a] /\ memory' = memory /\ pc'[a] = "bootWrite"
          /\ op[a].kind = "writeMemory" => plan'[a] = [body |-> op[a], map |-> {}]
          /\ op[a].kind = "editMemory" => plan'[a] = [memory EXCEPT !.body = op[a]]
          /\ op[a].kind = "ensure" => plan'[a] = [body |-> Fresh, map |-> {}]
      BY <2>1, <3>1 DEF Plans, Goto, Elsewhere, TypedInv, LocalInv, files
    <3>3. Reports(a)' BY <1>0, <2>1, <3>2, ReportsStay DEF Own, ClearPCs
    <3>4. Kinds(a)' BY <3>2 DEF Kinds, CommitPCs, SettlePCs
    <3>5. Planned(a)' BY <3>1, <3>2 DEF Planned
    <3>6. Writing(a)' /\ Settling(a)'
      BY <3>2 DEF Writing, Settling, ClearPCs, CommitPCs, SettlePCs
    <3> QED
      BY <2>1, <3>2, <3>3, <3>4, <3>5, <3>6, QuietSound DEF Own, Truthful, history
  <2> QED BY <2>2, <2>3, <2>4
<1>3. ASSUME BootWrite(a) PROVE Sound(a)
  <2>1. /\ pc[a] = "bootWrite" /\ OtherLocks(a) /\ memory' = plan[a] /\ Applied(a)
        /\ Unwind(a, "ok") /\ UNCHANGED <<alive, lock, journal, topics>> /\ ~Pending
    BY <1>0, <1>3 DEF BootWrite, Unraced
  <2>2. /\ Elsewhere(a) /\ Own(a)' /\ op[a].actor = a
        /\ applied' = applied \cup {op[a]} /\ UNCHANGED <<acked, failed>>
    BY <2>1, SingleWrite DEF ClearPCs
  <2>3. lock["memory"] = a BY <1>0, <2>1 DEF OwnLocks, MapPCs
  <2>4. Beside(a) BY <2>1, <2>2, <2>3 DEF Beside, Elsewhere, OtherLocks
  <2>5. Journalled' BY <1>0, <2>1 DEF Journalled, Pending
  <2>6. Store!Effect(op[a])
    <3>1. op[a].kind \in Bootstrap BY <2>1 DEF TypedInv, LocalInv, Shape
    <3>2. /\ op[a].kind = "writeMemory" => memory' = [body |-> op[a], map |-> {}]
          /\ op[a].kind = "editMemory" => memory # Absent /\ memory' = [memory EXCEPT !.body = op[a]]
          /\ op[a].kind = "ensure" => memory = Absent /\ memory' = [body |-> Fresh, map |-> {}]
      BY <1>0, <2>1 DEF Own, Planned
    <3>3. ~Pending' BY <2>1 DEF Pending
    <3> QED
      BY <2>1, <3>1, <3>2, <3>3 DEF Store!Effect, Store!InitialMemory, Bootstrap, Pending
  <2> QED BY <2>1, <2>2, <2>4, <2>5, <2>6, OpenlyApplied DEF Sound, ClearPCs
<1>4. ASSUME OnlyLock(a) PROVE Sound(a)
  <2>1. op[a].topic \in LockName
    BY <1>4 DEF OnlyLock, TakeLock, TypedInv, LocalInv, Shape, Op, LockName
  <2>2. TakeLock(a, op[a].topic, "onlyLock", "onlyWrite") BY <1>4 DEF OnlyLock
  <2> QED BY <2>1, <2>2, LockSound DEF Charged, ClearPCs, CommitPCs, SettlePCs
<1>5. ASSUME OnlyWrite(a) PROVE Sound(a)
  <2>1. /\ pc[a] = "onlyWrite" /\ op[a] \notin applied /\ OtherLocks(a)
        /\ UNCHANGED <<alive, lock, journal, memory>>
        /\ ~(Pending /\ journal.topic = op[a].topic)
    BY <1>0, <1>5 DEF OnlyWrite, Unraced, ClearPCs
  <2>2. CASE Unwind(a, "failed") /\ UNCHANGED <<topics, history>>
    BY <2>1, <2>2, UnwindSound DEF files
  <2>3. CASE ~(Unwind(a, "failed") /\ UNCHANGED <<topics, history>>)
    <3>1. /\ op[a].kind = "editTopicOnly" => topics[op[a].topic] # Absent
          /\ topics' = [topics EXCEPT ![op[a].topic] = op[a]]
          /\ Applied(a) /\ Unwind(a, "ok")
      BY <1>5, <2>3 DEF OnlyWrite
    <3>2. /\ Elsewhere(a) /\ Own(a)' /\ op[a].actor = a
          /\ applied' = applied \cup {op[a]} /\ UNCHANGED <<acked, failed>>
      BY <2>1, <3>1, SingleWrite DEF ClearPCs
    <3>3. /\ lock[op[a].topic] = a /\ op[a].kind \in TopicOnly
          /\ op[a].topic \in Topic /\ topics \in [Topic -> Content]
      BY <1>0, <2>1
      DEF OwnLocks, Own, Kinds, TypedInv, LocalInv, Shape, SharedInv, Op
    <3>4. /\ topics'[op[a].topic] = op[a]
          /\ \A t \in Topic \ {op[a].topic} : topics'[t] = topics[t]
      BY <3>1, <3>3
    <3>5. Beside(a) BY <2>1, <3>2, <3>3, <3>4 DEF Beside, Elsewhere, OtherLocks
    <3>6. journal # Nil => journal.topic \in Topic BY DEF TypedInv, SharedInv, Record
    <3>7. Journalled'
      <4>1. journal # Nil => op[a] # journal.id
        BY <1>0, <3>3 DEF Journalled, Compound, TopicOnly
      <4> QED BY <1>0, <2>1, <3>2, <3>4, <3>6, <4>1 DEF Journalled, Pending
    <3>8. Store!Effect(op[a])
      <4>1. CASE Pending
        <5>1. journal.topic # op[a].topic BY <2>1, <4>1
        <5>2. [topics EXCEPT ![journal.topic] = journal.topicBefore][op[a].topic] = topics[op[a].topic]
          BY <3>3, <5>1
        <5>3. [topics' EXCEPT ![journal.topic] = journal.topicBefore] =
              [[topics EXCEPT ![journal.topic] = journal.topicBefore] EXCEPT ![op[a].topic] = op[a]]
          BY <3>1, <3>3, <5>1
        <5> QED
          BY <2>1, <3>1, <3>3, <4>1, <5>2, <5>3
          DEF Store!Effect, Store!Present, Pending, TopicOnly
      <4>2. CASE ~Pending
        BY <2>1, <3>1, <3>3, <4>2 DEF Store!Effect, Store!Present, Pending, TopicOnly
      <4> QED BY <4>1, <4>2
    <3> QED BY <2>1, <3>2, <3>5, <3>7, <3>8, OpenlyApplied DEF Sound, ClearPCs
  <2> QED BY <2>2, <2>3
<1> QED BY <1>1, <1>2, <1>3, <1>4, <1>5 DEF SingleLock

-----------------------------------------------------------------------------
(* Calls, unlocking and the environment *)

LEMMA CallSound ==
  ASSUME TypedInv, AtomicInv, NEW a \in Actor, Call(a), TypedInv'
  PROVE  Sound(a)
<1>1. /\ a \in alive /\ Goto(a, "probe")
      /\ UNCHANGED <<alive, lock, journal, files, seen, plan, after, history>>
  BY DEF Call, At
<1>2. PICK r \in Menu : op' = [op EXCEPT ![a] =
                   [actor |-> a, call |-> IF @ = Nil THEN 1 ELSE @.call + 1,
                    kind |-> r.kind, topic |-> r.topic]]
  BY DEF Call
<1>3. /\ Elsewhere(a) /\ OtherLocks(a) /\ pc'[a] = "probe"
  BY <1>1, <1>2 DEF Goto, Elsewhere, OtherLocks, TypedInv, LocalInv
<1>4. op'[a].actor = a /\ op'[a].call = IF op[a] = Nil THEN 1 ELSE op[a].call + 1
  BY <1>2 DEF TypedInv, LocalInv
<1>5. op'[a] \in Op /\ op'[a] # Nil
  BY <1>3, SentinelAssumption DEF TypedInv, LocalInv, Shape
<1>6. Calls(a)' = Calls(a) + 1 /\ Calls(a) \in Nat
  <2>1. op[a] = Nil \/ op[a] \in Op BY DEF TypedInv, LocalInv
  <2>2. op[a] # Nil => op[a].call \in Nat BY <2>1, BoundsAssumption DEF Op
  <2>3. Calls(a)' = op'[a].call BY <1>5 DEF Calls
  <2> QED BY <1>4, <2>2, <2>3 DEF Calls
<1>7. ASSUME NEW o \in applied \cup acked \cup failed, o.actor = a
      PROVE  o.call \in Nat /\ o.call <= Calls(a)
  <2>1. o \in Op BY DEF TypedInv, LocalInv
  <2>2. o.call \in Nat BY <2>1, BoundsAssumption DEF Op
  <2> QED BY <1>1, <1>7, <2>2 DEF AtomicInv, Own, Reports
<1>8. op'[a] \notin applied \cup acked \cup failed
  <2>1. op'[a].call = Calls(a) + 1 BY <1>5, <1>6 DEF Calls
  <2> QED BY <1>4, <1>6, <1>7, <2>1
<1>9. Reports(a)'
  BY <1>1, <1>3, <1>4, <1>6, <1>7, <1>8 DEF Reports, history, ClearPCs
<1>10. Kinds(a)' BY <1>3 DEF Kinds, CommitPCs, SettlePCs
<1>11. Own(a)' BY <1>3, <1>9, <1>10, BareOwn DEF Charged, CommitPCs, SettlePCs
<1> QED BY <1>1, <1>3, <1>11, QuietSound DEF Truthful, history

LEMMA UnlockKeepsOthers ==
  ASSUME SharedInv, NEW a \in Actor, Unlock(a)
  PROVE  OtherLocks(a)
<1>1. Held(a) # {} => Innermost(Held(a)) \in Held(a)
  <2>1. CASE Held(a) \cap Topic # {} BY <2>1 DEF Innermost
  <2>2. CASE Held(a) \cap Topic = {} /\ Held(a) # {}
    <3>1. Held(a) \subseteq {"memory", "journal"} BY <2>2 DEF Held, LockName
    <3> QED BY <2>2, <3>1 DEF Innermost
  <2> QED BY <2>1, <2>2
<1>2. lock' = IF Held(a) = {} THEN lock ELSE [lock EXCEPT ![Innermost(Held(a))] = Nil]
  BY DEF Unlock
<1>3. CASE Held(a) = {} BY <1>2, <1>3 DEF OtherLocks
<1>4. CASE Held(a) # {}
  <2>1. lock[Innermost(Held(a))] = a BY <1>1, <1>4 DEF Held
  <2> QED BY <1>2, <1>4, <2>1 DEF OtherLocks, SharedInv
<1> QED BY <1>3, <1>4

LEMMA UnlockSound ==
  ASSUME TypedInv, AtomicInv, NEW a \in Actor, Unlock(a)
  PROVE  Sound(a)
<1>1. /\ pc[a] = "unlock" /\ UNCHANGED <<alive, journal, files>> /\ OtherLocks(a)
      /\ Own(a)
  BY UnlockKeepsOthers DEF Unlock, At, TypedInv, AtomicInv
<1>2. /\ after[a] # "ok" => op[a] \notin applied
      /\ after[a] = "ok" => op[a] \in applied \/ op[a].kind = "ensure"
  BY <1>1 DEF Own, Reports, ClearPCs
<1>3. CASE after[a] = "recovered" /\ Recovered(a)
  BY <1>1, <1>2, <1>3, RecoveredSound
<1>4. CASE after[a] = "retry" /\ Retry(a)
  BY <1>1, <1>2, <1>4, RetrySound
<1>5. CASE after[a] \in {"ok", "failed"} /\ Finish(a, after[a] = "ok")
  <2>1. PICK success \in BOOLEAN : success = (after[a] = "ok")
    OBVIOUS
  <2>2. /\ Finish(a, success) /\ success => op[a] \in applied \/ op[a].kind = "ensure"
    BY <1>2, <1>5, <2>1
  <2>3. Finish(a, success) /\ (~success => op[a] \notin applied)
    BY <1>2, <1>5, <2>1
  <2>4. Truthful(a) BY <1>1, <1>2, <1>5, <2>1, <2>3 DEF Truthful
  <2>5. applied' = applied BY <2>3 DEF Finish
  <2>6. Elsewhere(a) /\ Own(a)' BY <1>1, <2>3, FinishOwn
  <2> QED BY <1>1, <2>4, <2>5, <2>6, QuietSound
<1>6. CASE UNCHANGED <<pc, local, history>>
  <2>1. Elsewhere(a) /\ pc'[a] = "unlock" BY <1>1, <1>6 DEF Elsewhere, local
  <2>2. Reports(a)' BY <1>1, <1>6 DEF Own, Reports, Calls, ClearPCs, local, history
  <2>3. Kinds(a)' BY <2>1 DEF Kinds, CommitPCs, SettlePCs
  <2>4. Own(a)' BY <2>1, <2>2, <2>3, BareOwn DEF Charged, CommitPCs, SettlePCs
  <2> QED BY <1>1, <1>6, <2>1, <2>4, QuietSound DEF Truthful, history
<1> QED BY <1>3, <1>4, <1>5, <1>6 DEF Unlock

LEMMA EnvironmentSound ==
  ASSUME TypedInv, AtomicInv, NEW a \in Actor,
         TimeOut(a) \/ Fault(a) \/ SettlementFault(a) \/ Crash(a)
  PROVE  Sound(a)
<1>1. ASSUME NEW label \in RecoverPCs \cup BodyPCs, pc[a] = label, Unwind(a, "failed"),
             UNCHANGED <<alive, lock, journal, files, history>>
      PROVE  Sound(a)
  <2>1. op[a] \notin applied /\ pc[a] # "idle"
    BY <1>1, NotDone DEF AtomicInv, RecoverPCs, BodyPCs, ClearPCs
  <2> QED BY <1>1, <2>1, UnwindSound
<1>2. CASE TimeOut(a)
  <2>1. pc[a] \in RecoverPCs \cup BodyPCs
    BY <1>2 DEF TimeOut, Waiting, Awaited, RecoverPCs, BodyPCs
  <2> QED BY <1>1, <1>2, <2>1 DEF TimeOut
<1>3. CASE Fault(a)
  <2>1. CASE pc[a] \in RecoverPCs \cup BodyPCs /\ Unwind(a, "failed")
    BY <1>1, <1>3, <2>1 DEF Fault
  <2>2. CASE pc[a] \in CommitPCs /\ Rollback(a)
    BY <1>3, <2>2, RollbackSound DEF Fault
  <2> QED BY <1>3, <2>1, <2>2 DEF Fault
<1>4. CASE SettlementFault(a)
  <2>1. /\ pc[a] \in SettlePCs /\ pc[a] # "idle" /\ Own(a)
        /\ UNCHANGED <<alive, lock, journal, files, history>>
    BY <1>4 DEF SettlementFault, SettlePCs, AtomicInv
  <2>2. CASE after[a] = "commit"
    <3>1. pc[a] \in ClearPCs BY <2>1, <2>2 DEF Own, Settling, SettlePCs, ClearPCs
    <3>2. op[a] \in applied BY <2>1, <2>2, <3>1 DEF Own, Reports
    <3>3. Unwind(a, "ok") BY <1>4, <2>2 DEF SettlementFault
    <3> QED BY <2>1, <3>2, <3>3, UnwindSound
  <2>3. CASE after[a] # "commit"
    <3>1. op[a] \notin applied BY <2>1, <2>3 DEF Own, Reports, SettlePCs
    <3>2. Unwind(a, "failed") BY <1>4, <2>3 DEF SettlementFault
    <3> QED BY <2>1, <3>1, <3>2, UnwindSound
  <2> QED BY <2>2, <2>3
<1>5. CASE Crash(a)
  <2>1. /\ a \in alive /\ alive' = alive \ {a} /\ Goto(a, "idle")
        /\ op' = [op EXCEPT ![a] = Nil] /\ Relies(a, Nil) /\ Plans(a, Absent)
        /\ after' = [after EXCEPT ![a] = "none"]
        /\ UNCHANGED <<lock, journal, files, history>>
    BY <1>5 DEF Crash
  <2>2. Elsewhere(a) /\ OtherLocks(a) /\ pc'[a] = "idle" /\ op'[a] = Nil /\ a \notin alive'
    BY <2>1 DEF Goto, Relies, Plans, Elsewhere, OtherLocks, TypedInv, LocalInv
  <2>3. Reports(a)' BY <2>2 DEF Reports, ClearPCs
  <2>4. Kinds(a)' BY <2>2 DEF Kinds, CommitPCs, SettlePCs
  <2>5. Own(a)' BY <2>2, <2>3, <2>4, BareOwn DEF Charged, CommitPCs, SettlePCs
  <2>6. alive' \subseteq alive BY <2>1
  <2> QED BY <2>1, <2>2, <2>5, <2>6, QuietSound DEF Truthful, history
<1> QED BY <1>2, <1>3, <1>4, <1>5

LEMMA StepSound ==
  ASSUME TypedInv, AtomicInv, [Next]_vars, TypedInv', [\A a \in Actor : Unraced(a)]_vars
  PROVE  AtomicInv' /\ [Store!StoreNext]_(Store!storeVars)
<1>1. CASE UNCHANGED vars
  <2>1. /\ UNCHANGED <<journal, files, applied, acked, failed, topics, memory, alive, lock, pc, op>>
        /\ UNCHANGED <<seen, plan, after>>
    BY <1>1 DEF vars, files, local, history
  <2>2. AtomicInv'
    <3>1. Journalled' BY <2>1 DEF AtomicInv, Journalled
    <3>2. ASSUME NEW a \in Actor PROVE Own(a)'
      <4>1. Own(a) BY DEF AtomicInv
      <4>2. Reports(a)' BY <2>1, <4>1 DEF Own, Reports, Calls
      <4>3. Kinds(a)' /\ Planned(a)' BY <2>1, <4>1 DEF Own, Kinds, Planned
      <4>4. Writing(a)' BY <2>1, <4>1 DEF Own, Writing
      <4>5. Settling(a)' BY <2>1, <4>1 DEF Own, Settling, Matches
      <4> QED BY <4>2, <4>3, <4>4, <4>5 DEF Own
    <3> QED BY <3>1, <3>2 DEF AtomicInv
  <2> QED BY <2>1, <2>2, SameShown
<1>2. ASSUME NEW a \in Actor,
             Call(a) \/ Step(a) \/ TimeOut(a) \/ Fault(a) \/ SettlementFault(a) \/ Crash(a),
             Unraced(a)
      PROVE  AtomicInv' /\ [Store!StoreNext]_(Store!storeVars)
  <2>1. Sound(a)
    BY <1>2, CallSound, RecoverSound, SettleRecordSound, TransactSound, SingleLockSound,
       UnlockSound, EnvironmentSound DEF Step
  <2>2. \A b \in Actor \ {a} : Own(b)' BY <2>1, BesideKeeps DEF Sound
  <2> QED BY <2>1, <2>2 DEF Sound, AtomicInv
<1>3. CASE Next /\ \A a \in Actor : Unraced(a) BY <1>2, <1>3 DEF Next
<1> QED BY <1>1, <1>3

LEMMA InitAtomic == Init => TypedInv /\ AtomicInv /\ Store!StoreInit
<1> SUFFICES ASSUME Init PROVE TypedInv /\ AtomicInv /\ Store!StoreInit
  OBVIOUS
<1>1. TypedInv
  BY InitHalves DEF Init, TypedInv, LockInv, OwnLocks, MapPCs, SettlePCs, CommitPCs
<1>2. ASSUME NEW a \in Actor PROVE Own(a)
  BY DEF Init, Own, Reports, Kinds, Planned, Writing, Settling, ClearPCs, CommitPCs, SettlePCs
<1>3. Journalled BY DEF Init, Journalled
<1>4. Store!StoreInit BY DEF Init, Pending, Store!StoreInit
<1> QED BY <1>1, <1>2, <1>3, <1>4 DEF AtomicInv

\* The invariant that the refinement rests on.
LEMMA Atomic == Spec /\ Undisturbed => [](TypedInv /\ AtomicInv)
<1>1. (TypedInv /\ AtomicInv) /\ [Next]_vars /\ [\A a \in Actor : Unraced(a)]_vars =>
        (TypedInv /\ AtomicInv)'
  BY StepKeeps, StepOwns, StepSound DEF TypedInv
<1>2. Init => TypedInv /\ AtomicInv BY InitAtomic
<1> QED BY <1>1, <1>2, PTL DEF Spec, Undisturbed

\* MemoryTransaction!ImplementsAtomicMemory: whatever dies, fails, is cancelled or times out,
\* every operation takes effect at one instant or not at all, is reported as it went, and
\* rollback and recovery change nothing that is stored - as long as a claim replaces the very
\* record it read and no write that journals nothing lands on a participant of a pending
\* record.  The code ensures neither with more than two processes; nothing else can go wrong.
THEOREM OperationsAreAtomic == Spec /\ Undisturbed => ImplementsAtomicMemory
<1>1. TypedInv /\ AtomicInv /\ [Next]_vars /\ [\A a \in Actor : Unraced(a)]_vars
      /\ (TypedInv /\ AtomicInv)' => [Store!StoreNext]_(Store!storeVars)
  BY StepSound
<1>2. Init => Store!StoreInit BY InitAtomic
<1> QED BY <1>1, <1>2, Atomic, PTL DEF Spec, Undisturbed, ImplementsAtomicMemory, Store!StoreSpec

\* MemoryTransaction!CommittedNeverRolledBack: under the same two conditions a restoration
\* takes no version of a topic back that an operation has committed.
THEOREM CommittedStays == Spec /\ Undisturbed => CommittedNeverRolledBack
<1>1. TypedInv /\ AtomicInv =>
        [\A a \in Actor : RestoreTopic(a) =>
           \A t \in Topic : topics[t] \in applied => topics'[t] = topics[t]]_vars
  <2> SUFFICES ASSUME TypedInv, AtomicInv, NEW a \in Actor, RestoreTopic(a), NEW t \in Topic,
                      topics[t] \in applied
               PROVE  topics'[t] = topics[t]
    OBVIOUS
  <2>1. pc[a] = "restoreTopic" /\ topics' = [topics EXCEPT ![seen[a].topic] = seen[a].topicBefore]
    BY DEF RestoreTopic, At
  <2>2. journal # Nil /\ Matches(journal, seen[a]) /\ seen[a].phase = "pending"
    BY <2>1 DEF AtomicInv, Own, Settling, SettlePCs
  <2>3. t = seen[a].topic => topics[t] = seen[a].topicBefore
    BY <2>2 DEF AtomicInv, Journalled, Matches
  <2> QED BY <2>1, <2>3 DEF TypedInv, SharedInv
<1> QED BY <1>1, Atomic, PTL DEF CommittedNeverRolledBack

-----------------------------------------------------------------------------
(* Where nobody dies and no settlement fails, nothing has to be supposed *)

ClaimPCs == {"dropJournal", "dropMemory", "dropTopic", "claimLock", "claimRead", "claimWrite",
             "claimMemory", "claimVerify"}

\* A process at work on the record in the journal, under both its locks.
Tending(a) ==
  /\ pc[a] \in {"restoreTopic", "restoreMemory"} \cup ClearPCs \cup CommitPCs
  /\ journal = seen[a]

Calm ==
  /\ alive = Actor
  /\ \A a \in Actor : pc[a] \notin ClaimPCs
  /\ Pending => \E a \in Actor : Tending(a)

LEMMA TendingHolds ==
  ASSUME TypedInv, AtomicInv, Pending, NEW w \in Actor, Tending(w)
  PROVE  lock["memory"] = w /\ lock[journal.topic] = w
<1>1. OwnLocks(w) /\ Own(w) BY DEF TypedInv, LockInv, AtomicInv
<1>2. lock["memory"] = w BY <1>1 DEF Tending, OwnLocks, MapPCs, SettlePCs, ClearPCs
<1>3. lock[seen[w].topic] = w
  BY <1>1 DEF Tending, Pending, OwnLocks, Own, Settling
<1> QED BY <1>2, <1>3 DEF Tending

LEMMA CalmUnraced ==
  ASSUME TypedInv, AtomicInv, Calm, NEW a \in Actor
  PROVE  Unraced(a)
<1>1. OwnLocks(a) BY DEF TypedInv, LockInv
<1>2. ~ClaimWrite(a) BY DEF Calm, ClaimPCs, ClaimWrite, At
<1>3. ASSUME Pending, MapWrite(a) \/ BootWrite(a) \/ (OnlyWrite(a) /\ journal.topic = op[a].topic)
      PROVE  FALSE
  <2>1. PICK w \in Actor : Tending(w) BY <1>3 DEF Calm
  <2>2. lock["memory"] = w /\ lock[journal.topic] = w BY <1>3, <2>1, TendingHolds
  <2>3. pc[a] \in {"mapWrite", "bootWrite", "onlyWrite"}
    BY <1>3 DEF MapWrite, BootWrite, OnlyWrite, At
  <2>4. lock["memory"] = a \/ lock[journal.topic] = a
    BY <1>1, <1>3, <2>3 DEF OwnLocks, MapPCs, MapWrite, BootWrite, OnlyWrite, At
  <2> QED BY <2>1, <2>2, <2>3, <2>4 DEF Tending, ClearPCs, CommitPCs
<1> QED BY <1>2, <1>3 DEF Unraced

\* Where the control operators lead.
LEMMA BareLabels ==
  ASSUME TypedInv, NEW a \in Actor, pc[a] # "idle"
  PROVE  /\ Recovered(a) => pc'[a] \in {"idle", "probe", "mapLock", "bootLock", "onlyLock"}
         /\ Retry(a) => pc'[a] \in {"idle", "probe", "mapLock", "bootLock", "onlyLock"}
         /\ \A success : Finish(a, success) => pc'[a] = "idle"
         /\ \A next : Unwind(a, next) => pc'[a] = "unlock"
<1>1. \A label : Goto(a, label) => pc'[a] = label BY DEF Goto, TypedInv, LocalInv
<1>2. ASSUME Recovered(a) PROVE pc'[a] \in {"idle", "probe", "mapLock", "bootLock", "onlyLock"}
  <2>1. CASE Finish(a, TRUE) BY <1>1, <2>1 DEF Finish
  <2>2. CASE ~Finish(a, TRUE)
    <3>1. /\ round[a] > 1 \/ (round[a] = 1 /\ op[a].kind # "read")
          /\ pc'[a] = IF round[a] > 1 THEN "probe" ELSE BodyStart(op[a])
      BY <1>1, <1>2, <2>2 DEF Recovered
    <3>2. op[a] \in Op BY DEF TypedInv, LocalInv, Shape
    <3>3. op[a].kind # "read" => BodyStart(op[a]) \in {"mapLock", "bootLock", "onlyLock"}
      BY <3>2, BodyStarts
    <3> QED BY <3>1, <3>3
  <2> QED BY <2>1, <2>2
<1> QED BY <1>1, <1>2 DEF Retry, Finish, Unwind

LEMMA CalmLabels ==
  ASSUME TypedInv, AtomicInv, Calm, NEW a \in Actor, TypedInv',
         Call(a) \/ Step(a) \/ TimeOut(a) \/ Fault(a)
  PROVE  pc'[a] \notin ClaimPCs
<1> USE DEF At
<1>1. \A label : Goto(a, label) => pc'[a] = label BY DEF Goto, TypedInv, LocalInv
<1>2. pc[a] \notin ClaimPCs BY DEF Calm
<1>3. CASE Recover(a)
  <2>1. CASE Probe(a)
    BY <1>1, <2>1, BareLabels DEF Probe, ClaimPCs
  <2>2. CASE ProbeCheck(a)
    BY <1>1, <2>2, BareLabels DEF ProbeCheck, ClaimPCs
  <2>3. CASE OwnerCheck(a)
    <3>1. seen[a].owner \in alive
      BY <2>3 DEF OwnerCheck, Calm, TypedInv, LocalInv, Shape, SeenPCs, Record
    <3> QED BY <1>1, <2>3, <3>1 DEF OwnerCheck, ClaimPCs
  <2>4. CASE WaitLock(a) BY <1>1, <2>4 DEF WaitLock, TakeLock, ClaimPCs
  <2>5. CASE WaitRead(a)
    BY <1>1, <2>5, BareLabels DEF WaitRead, Settle, ClaimPCs
  <2>6. CASE \/ DropJournal(a) \/ DropMemory(a) \/ DropTopic(a)
             \/ ClaimLock(a) \/ ClaimRead(a) \/ ClaimWrite(a) \/ ClaimMemory(a) \/ ClaimVerify(a)
    BY <1>2, <2>6
    DEF DropJournal, DropMemory, DropTopic, DropDeadLock, ClaimLock, ClaimRead, ClaimWrite,
        ClaimMemory, ClaimVerify, TakeLock, ClaimPCs
  <2> QED BY <1>3, <2>1, <2>2, <2>3, <2>4, <2>5, <2>6 DEF Recover
<1>4. CASE SettleRecord(a)
  BY <1>1, <1>4, BareLabels
  DEF SettleRecord, SettleLock, RestoreTopic, RestoreMemory, ClearRead, ClearRemove, Settled,
      TakeLock, ClaimPCs
<1>5. CASE Transact(a)
  BY <1>1, <1>5, BareLabels
  DEF Transact, MapLock, MapSettle, MapUnlockTopic, ReadMap, MapWrite, TopicLock, Begin,
      WriteTopic, CommitMap, MarkRead, MarkWrite, Rollback, Settle, TakeLock, ClaimPCs
<1>6. CASE SingleLock(a)
  BY <1>1, <1>6, BareLabels
  DEF SingleLock, BootLock, BootRead, BootWrite, OnlyLock, OnlyWrite, TakeLock, ClaimPCs
<1>7. CASE Unlock(a)
  BY <1>2, <1>7, BareLabels DEF Unlock, ClaimPCs
<1>8. CASE Call(a) \/ TimeOut(a) \/ Fault(a)
  <2>1. TimeOut(a) => pc[a] # "idle" BY DEF TimeOut, Waiting, Awaited
  <2>2. Fault(a) => pc[a] # "idle" BY DEF Fault, RecoverPCs, BodyPCs, CommitPCs
  <2> QED BY <1>1, <1>8, <2>1, <2>2, BareLabels DEF Call, TimeOut, Fault, Rollback, ClaimPCs
<1> QED BY <1>3, <1>4, <1>5, <1>6, <1>7, <1>8 DEF Step

\* The process at work on a pending record stays with it until it is settled.
LEMMA TendingStays ==
  ASSUME TypedInv, AtomicInv, NEW a \in Actor, Tending(a), Pending, Pending', TypedInv',
         Call(a) \/ Step(a) \/ TimeOut(a) \/ Fault(a)
  PROVE  Tending(a)'
<1> USE DEF At
<1>1. \A label : Goto(a, label) => pc'[a] = label BY DEF Goto, TypedInv, LocalInv
<1>2. /\ journal = seen[a] /\ Own(a)
      /\ pc[a] \in {"restoreTopic", "restoreMemory"} \cup ClearPCs \cup CommitPCs
  BY DEF Tending, AtomicInv
<1>3. CASE Rollback(a) /\ UNCHANGED journal
  BY <1>1, <1>2, <1>3 DEF Rollback, Tending
<1>4. CASE RestoreTopic(a) \/ RestoreMemory(a)
  BY <1>1, <1>2, <1>4 DEF RestoreTopic, RestoreMemory, Tending, local, ClearPCs
<1>5. CASE ClearRead(a)
  BY <1>1, <1>2, <1>5 DEF ClearRead, Tending, local, ClearPCs
<1>6. CASE ClearRemove(a) BY <1>6 DEF ClearRemove, Pending
<1>7. CASE WriteTopic(a) \/ CommitMap(a) \/ MarkRead(a)
  BY <1>1, <1>2, <1>3, <1>7 DEF WriteTopic, CommitMap, MarkRead, Tending, local, CommitPCs
<1>8. CASE MarkWrite(a)
  <2>1. seen[a] \in Record BY <1>2, SentinelAssumption DEF Pending, TypedInv, SharedInv
  <2>2. journal'.phase = "committed" BY <1>8, <2>1 DEF MarkWrite, Record
  <2> QED BY <2>2 DEF Pending
<1>9. CASE Fault(a)
  BY <1>2, <1>3, <1>9
  DEF Fault, ClearPCs, CommitPCs, RecoverPCs, BodyPCs
<1>10. CASE TimeOut(a)
  BY <1>2, <1>10 DEF TimeOut, Waiting, Awaited, ClearPCs, CommitPCs
<1>11. CASE Recover(a)
  BY <1>2, <1>11
  DEF Recover, Probe, ProbeCheck, OwnerCheck, WaitLock, WaitRead, DropJournal, DropMemory,
      DropTopic, ClaimLock, ClaimRead, ClaimWrite, ClaimMemory, ClaimVerify, TakeLock,
      DropDeadLock, ClearPCs, CommitPCs
<1>12. CASE \/ Call(a) \/ SettleLock(a) \/ MapLock(a) \/ MapSettle(a) \/ MapUnlockTopic(a)
            \/ ReadMap(a) \/ MapWrite(a) \/ TopicLock(a) \/ Begin(a) \/ SingleLock(a) \/ Unlock(a)
  BY <1>2, <1>12
  DEF Call, SettleLock, MapLock, MapSettle, MapUnlockTopic, ReadMap, MapWrite, TopicLock, Begin,
      SingleLock, BootLock, BootRead, BootWrite, OnlyLock, OnlyWrite, Unlock, TakeLock,
      ClearPCs, CommitPCs
<1> QED
  BY <1>4, <1>5, <1>6, <1>7, <1>8, <1>9, <1>10, <1>11, <1>12 DEF Step, SettleRecord, Transact

LEMMA CalmKeeps ==
  ASSUME TypedInv, AtomicInv, Calm, NEW a \in Actor, TypedInv', Beside(a),
         Call(a) \/ Step(a) \/ TimeOut(a) \/ Fault(a)
  PROVE  Calm'
<1> USE DEF At
<1>1. alive' = Actor
  BY DEF Call, Step, TimeOut, Fault, Recover, Probe, ProbeCheck, OwnerCheck, WaitLock, WaitRead,
         DropJournal, DropMemory, DropTopic, ClaimLock, ClaimRead, ClaimWrite, ClaimMemory,
         ClaimVerify, TakeLock, DropDeadLock, SettleRecord, SettleLock, RestoreTopic,
         RestoreMemory, ClearRead, ClearRemove, Transact, MapLock, MapSettle, MapUnlockTopic,
         ReadMap, MapWrite, TopicLock, Begin, WriteTopic, CommitMap, MarkRead, MarkWrite,
         SingleLock, BootLock, BootRead, BootWrite, OnlyLock, OnlyWrite, Unlock, Calm
<1>2. \A b \in Actor : pc'[b] \notin ClaimPCs
  BY CalmLabels DEF Calm, Beside
<1>3. ASSUME Pending, Pending' PROVE \E w \in Actor : Tending(w)'
  <2>1. PICK w \in Actor : Tending(w) BY <1>3 DEF Calm
  <2>2. CASE w = a BY <1>3, <2>1, <2>2, TendingStays
  <2>3. CASE w # a
    <3>1. lock["memory"] = w BY <1>3, <2>1, TendingHolds
    <3>2. /\ Own(w) /\ OwnLocks(w) /\ pc[w] # "idle"
      BY <2>1 DEF AtomicInv, TypedInv, LockInv, Tending, ClearPCs, CommitPCs
    <3>3. journal # Nil /\ journal.id \in Op
      BY <1>3 DEF Pending, TypedInv, SharedInv, Record
    <3>4. journal.id.actor \in alive BY <3>3 DEF Calm, Op
    <3>5. journal' = journal BY <2>3, <3>1, <3>4 DEF Beside
    <3> QED BY <2>1, <2>3, <3>5 DEF Tending, Beside
  <2> QED BY <2>2, <2>3
<1>4. ASSUME ~Pending, Pending' PROVE Tending(a)'
  <2>1. journal' # journal BY <1>4 DEF Pending
  <2>2. CASE Begin(a)
    <3>1. Goto(a, "writeTopic") /\ Relies(a, journal') BY <2>1, <2>2 DEF Begin
    <3> QED BY <3>1 DEF Goto, Relies, Tending, CommitPCs, TypedInv, LocalInv
  <2>3. CASE ClaimWrite(a) BY <2>3 DEF ClaimWrite, Calm, ClaimPCs
  <2>4. CASE MarkWrite(a)
    <3>1. seen[a] \in Record
      BY <2>4 DEF MarkWrite, TypedInv, LocalInv, Shape, SeenPCs, CommitPCs
    <3> QED BY <1>4, <2>4, <3>1 DEF MarkWrite, Pending, Record
  <2>5. CASE ClearRemove(a) BY <1>4, <2>5 DEF ClearRemove, Pending
  <2>6. CASE ~Begin(a) /\ ~ClaimWrite(a) /\ ~MarkWrite(a) /\ ~ClearRemove(a)
    BY <2>1, <2>6
    DEF Call, Step, TimeOut, Fault, Recover, Probe, ProbeCheck, OwnerCheck, WaitLock, WaitRead,
        DropJournal, DropMemory, DropTopic, ClaimLock, ClaimRead, ClaimMemory,
        ClaimVerify, TakeLock, DropDeadLock, SettleRecord, SettleLock, RestoreTopic,
        RestoreMemory, ClearRead, Transact, MapLock, MapSettle, MapUnlockTopic,
        ReadMap, MapWrite, TopicLock, WriteTopic, CommitMap, MarkRead,
        SingleLock, BootLock, BootRead, BootWrite, OnlyLock, OnlyWrite, Unlock
  <2> QED BY <2>2, <2>3, <2>4, <2>5, <2>6
<1> QED BY <1>1, <1>2, <1>3, <1>4 DEF Calm

LEMMA Calmly ==
  ASSUME MaxCrashes = 0, MaxSettlementFaults = 0
  PROVE  Spec => [](TypedInv /\ AtomicInv /\ Calm)
<1>1. Init => TypedInv /\ AtomicInv /\ Calm
  BY InitAtomic DEF Init, Calm, ClaimPCs, Pending
<1>2. (TypedInv /\ AtomicInv /\ Calm) /\ [Next]_vars => (TypedInv /\ AtomicInv /\ Calm)'
  <2> SUFFICES ASSUME TypedInv, AtomicInv, Calm, [Next]_vars
               PROVE  (TypedInv /\ AtomicInv /\ Calm)'
    OBVIOUS
  <2>1. TypedInv' BY StepKeeps, StepOwns DEF TypedInv
  <2>2. AtomicInv' BY <2>1, StepSound, CalmUnraced
  <2>3. CASE UNCHANGED vars
    BY <2>1, <2>2, <2>3 DEF vars, local, Calm, Pending, Tending
  <2>4. ASSUME NEW a \in Actor,
               Call(a) \/ Step(a) \/ TimeOut(a) \/ Fault(a) \/ SettlementFault(a) \/ Crash(a)
        PROVE  Calm'
    <3>1. ~SettlementFault(a) /\ ~Crash(a)
      BY DEF SettlementFault, Crash, TypedInv, SharedInv
    <3>2. Sound(a)
      BY <2>1, <2>4, <3>1, CalmUnraced, CallSound, RecoverSound, SettleRecordSound, TransactSound,
         SingleLockSound, UnlockSound, EnvironmentSound DEF Step
    <3> QED BY <2>1, <2>4, <3>1, <3>2, CalmKeeps DEF Sound
  <2> QED BY <2>1, <2>2, <2>3, <2>4 DEF Next
<1> QED BY <1>1, <1>2, PTL DEF Spec

\* MemoryTransaction!ImplementsAtomicMemory for any number of processes, with timeouts,
\* cancellations and I/O errors of ordinary work, supposing nothing: both conditions hold as
\* long as no process dies and no rollback fails.
THEOREM AtomicWhileAllLive ==
  ASSUME MaxCrashes = 0, MaxSettlementFaults = 0
  PROVE  Spec => ImplementsAtomicMemory
<1>1. TypedInv /\ AtomicInv /\ Calm => \A a \in Actor : Unraced(a) BY CalmUnraced
<1>2. Spec => Undisturbed BY <1>1, Calmly, PTL DEF Undisturbed
<1> QED BY <1>2, OperationsAreAtomic, PTL
=============================================================================
