--------------------------- MODULE JournalProofs ----------------------------
(***************************************************************************)
(* What Journal guarantees for every number of sessions, sweeps, users,    *)
(* days, revisions and faults: first whether commands run alone or         *)
(* together, then to a user who lets one command end before starting the   *)
(* next.                                                                   *)
(***************************************************************************)
EXTENDS Journal, WellFoundedInduction, TLAPS

USE LastDayAssumption, MaxRevAssumption, StartedOnAssumption,
    LocatedAssumption, SubstantiveAssumption, AutoDismissNoopAssumption,
    AloneAssumption, MaxFaultsAssumption

-----------------------------------------------------------------------------
\* A nonempty set of natural numbers has a least element.
LEMMA LeastExists ==
  ASSUME NEW S, S \subseteq Nat, S # {}
  PROVE  \E x \in S : \A y \in S : x <= y
<1>1. PICK x \in S : \A y \in S : ~ (<<y, x>> \in OpToRel(<, Nat))
  BY NatLessThanWellFounded, WFMin
<1>2. ASSUME NEW y \in S PROVE x <= y
  <2>1. ~ (y < x)
    BY <1>1, <1>2 DEF OpToRel
  <2>2. QED BY <2>1
<1>3. QED BY <1>2

\* A nonempty set of days has a latest one.
LEMMA LatestExists ==
  ASSUME NEW S, S \subseteq Days, S # {}
  PROVE  \E x \in S : \A y \in S : y <= x
<1> DEFINE T == {LastDay - d : d \in S}
<1>1. T \subseteq Nat /\ T # {}
  <2>1. ASSUME NEW d \in S PROVE LastDay - d \in Nat
    BY DEF Days
  <2>2. T \subseteq Nat
    BY <2>1
  <2>3. PICK d \in S : TRUE
    OBVIOUS
  <2>4. LastDay - d \in T
    BY <2>3
  <2>5. QED BY <2>2, <2>4
<1>2. PICK t \in T : \A u \in T : t <= u
  BY <1>1, LeastExists
<1>3. PICK x \in S : t = LastDay - x
  OBVIOUS
<1>4. ASSUME NEW y \in S PROVE y <= x
  <2>1. LastDay - x <= LastDay - y
    BY <1>2, <1>3
  <2>2. QED BY <2>1 DEF Days
<1>5. QED BY <1>4

\* A session listed in some shard is resolved to, and walked in, one of the
\* shards that list it.
LEMMA ShardsListed ==
  ASSUME NEW k \in Keys, ListedDays(k) # {}
  PROVE  /\ ResolvedDay(k) \in ListedDays(k)
         /\ WalkedDay(k) \in ListedDays(k)
         /\ ResolvedDir(k) \in Dirs
         /\ Listed(ResolvedDir(k))
         /\ <<WalkedDay(k), k>> \in Dirs
         /\ Listed(<<WalkedDay(k), k>>)
<1>1. ListedDays(k) \subseteq Days /\ ListedDays(k) \subseteq Nat
  BY DEF ListedDays, Days
<1>2. ResolvedDay(k) \in ListedDays(k)
  BY <1>1, LeastExists DEF ResolvedDay
<1>3. WalkedDay(k) \in ListedDays(k)
  BY <1>1, LatestExists DEF WalkedDay
<1>4. QED
  BY <1>2, <1>3 DEF ListedDays, ResolvedDir, Dirs

-----------------------------------------------------------------------------
(***************************************************************************)
(* The inductive invariant: what each process in the middle of its work    *)
(* may rely on.                                                            *)
(***************************************************************************)
Holding   == {"staged", "committed", "recorded", "read"}
Committed == {"committed", "recorded", "read"}

\* What a sweep remembers of the journal it walked is still there.
Remembers(s) ==
  \A k \in Keys : Recapture(s, k) =>
    /\ Prior(s, k).day \in Days
    /\ artifact[<<Prior(s, k).day, k>>] # 0

SweepInv(s) ==
  /\ \A k \in sweep[s].todo : live[k] # 0
  /\ Remembers(s)
  /\ sweep[s].pc \in Holding \cup {"backfill"} => sweep[s].dir \in Dirs
  /\ sweep[s].pc \in Holding => sweep[s].staged # 0
  /\ sweep[s].pc \in Committed => artifact[sweep[s].dir] # 0
  /\ sweep[s].pc = "backfill" =>
       /\ Recapture(s, KeyOf(s))
       /\ sweep[s].dir = <<Prior(s, KeyOf(s)).day, KeyOf(s)>>

VerbInv(u) ==
  /\ verb[u].pc # "ready" => verb[u].dir \in Dirs /\ Listed(verb[u].dir)
  /\ verb[u].pc \in {"drafted", "curating", "entered"} => verb[u].draft # 0
  /\ verb[u].pc = "entered" => entry[verb[u].dir] # 0

IInv ==
  /\ TypeOK
  /\ RecordHasCopy
  /\ CuratedHasEntry
  /\ \A s \in Sweeps : SweepInv(s)
  /\ \A u \in Users : VerbInv(u)

-----------------------------------------------------------------------------
(***************************************************************************)
(* Nothing that is there goes away, so a process another one passes by     *)
(* keeps what it relied on.                                                *)
(***************************************************************************)
Kept ==
  /\ \A k \in Keys : live[k] # 0 => live'[k] # 0
  /\ \A d \in Dirs : /\ artifact[d] # 0 => artifact'[d] # 0
                     /\ entry[d] # 0 => entry'[d] # 0
                     /\ Listed(d) => Listed(d)'

\* What a sweep relied on still holds if another process took the step.
LEMMA OtherSweep ==
  ASSUME IInv, Kept, NEW t \in Sweeps, sweep'[t] = sweep[t]
  PROVE  SweepInv(t)'
<1> DEFINE w == sweep[t]
<1>1. SweepInv(t) /\ w.todo \subseteq Keys
  BY DEF IInv, TypeOK, SweepTypeOK, SweepRecord
<1>2. ASSUME NEW k \in Keys
      PROVE  Prior(t, k)' = Prior(t, k) /\ Recapture(t, k)' = Recapture(t, k)
  BY DEF Prior, Recapture
<1>3. Remembers(t)'
  BY <1>1, <1>2 DEF SweepInv, Remembers, Kept, Dirs
<1>4. KeyOf(t)' = KeyOf(t)
  BY DEF KeyOf
<1>5. w.pc = "backfill" => KeyOf(t) \in Keys
  BY <1>1 DEF SweepInv, KeyOf, Dirs
<1>6. QED BY <1>1, <1>2, <1>3, <1>4, <1>5 DEF SweepInv, Kept, Holding, Committed

\* What a verb relied on still holds if another process took the step.
LEMMA OtherVerb ==
  ASSUME IInv, Kept, NEW u \in Users, verb'[u] = verb[u]
  PROVE  VerbInv(u)'
<1>1. VerbInv(u)
  BY DEF IInv
<1>2. QED BY <1>1 DEF VerbInv, Kept

\* A step that writes no document keeps what is true of the documents.
LEMMA StoreStands ==
  ASSUME IInv, UNCHANGED store
  PROVE  StoreTypeOK' /\ RecordHasCopy' /\ CuratedHasEntry'
<1>1. StoreTypeOK /\ RecordHasCopy /\ CuratedHasEntry
  BY DEF IInv, TypeOK
<1>2. StoreTypeOK'
  BY <1>1 DEF StoreTypeOK, store
<1>3. RecordHasCopy'
  BY <1>1 DEF RecordHasCopy, Listed, store
<1>4. CuratedHasEntry'
  BY <1>1 DEF CuratedHasEntry, State, store
<1>5. QED BY <1>2, <1>3, <1>4

\* ... and, if no transcript changes either, loses nothing.
LEMMA NothingLost ==
  ASSUME UNCHANGED <<store, sources>>
  PROVE  Kept
BY DEF Kept, Listed, store, sources

\* A step of one sweep keeps the invariant if it keeps that sweep's part of
\* it and what is true of the documents.
LEMMA SweepMoves ==
  ASSUME IInv, Kept,
         NEW s \in Sweeps, NEW w \in SweepRecord,
         sweep' = [sweep EXCEPT ![s] = w],
         StoreTypeOK', RecordHasCopy', CuratedHasEntry', SweepInv(s)',
         UNCHANGED <<sources, verb>>, faults' \in 0..MaxFaults
  PROVE  IInv'
<1>1. TypeOK'
  BY DEF IInv, TypeOK, SweepTypeOK, VerbTypeOK, sources
<1>2. ASSUME NEW t \in Sweeps PROVE SweepInv(t)'
  <2>1. CASE t # s
    <3>1. sweep'[t] = sweep[t]
      BY <2>1 DEF IInv, TypeOK, SweepTypeOK
    <3>2. QED BY <3>1, OtherSweep
  <2>2. CASE t = s
    BY <2>2
  <2>3. QED BY <2>1, <2>2
<1>3. ASSUME NEW u \in Users PROVE VerbInv(u)'
  BY OtherVerb
<1>4. QED BY <1>1, <1>2, <1>3 DEF IInv

\* The same for a step of one verb.
LEMMA VerbMoves ==
  ASSUME IInv, Kept,
         NEW u \in Users, NEW v \in VerbRecord,
         verb' = [verb EXCEPT ![u] = v],
         StoreTypeOK', RecordHasCopy', CuratedHasEntry', VerbInv(u)',
         UNCHANGED <<sources, sweep>>, faults' \in 0..MaxFaults
  PROVE  IInv'
<1>1. TypeOK'
  BY DEF IInv, TypeOK, SweepTypeOK, VerbTypeOK, sources
<1>2. ASSUME NEW t \in Sweeps PROVE SweepInv(t)'
  BY OtherSweep
<1>3. ASSUME NEW x \in Users PROVE VerbInv(x)'
  <2>1. CASE x # u
    <3>1. verb'[x] = verb[x]
      BY <2>1 DEF IInv, TypeOK, VerbTypeOK
    <3>2. QED BY <3>1, OtherVerb
  <2>2. CASE x = u
    BY <2>2
  <2>3. QED BY <2>1, <2>2
<1>4. QED BY <1>1, <1>2, <1>3 DEF IInv

\* A sweep that keeps its snapshot of the journal keeps what it says.
LEMMA StillRemembers ==
  ASSUME IInv, Kept, NEW s \in Sweeps,
         sweep'[s].existing = sweep[s].existing
  PROVE  Remembers(s)'
<1>1. Remembers(s)
  BY DEF IInv, SweepInv
<1>2. ASSUME NEW k \in Keys
      PROVE  Prior(s, k)' = Prior(s, k) /\ Recapture(s, k)' = Recapture(s, k)
  BY DEF Prior, Recapture
<1>3. QED BY <1>1, <1>2 DEF Remembers, Kept, Dirs

\* A sweep between runs holds nothing, and holds it in well-typed fields.
LEMMA IdleTyped == Idle \in SweepRecord
<1>1. NoItem \in WalkItem
  BY DEF NoItem, WalkItem, NoSession, SessionDoc, Revs
<1>2. NoCuration \in CurationDoc
  BY DEF NoCuration, CurationDoc, Revs
<1>3. QED BY <1>1, <1>2 DEF Idle, SweepRecord, Revs

\* A sweep that moves on keeps nothing but its snapshot and what is to do.
LEMMA NextItemStep ==
  ASSUME IInv, Kept,
         NEW s \in Sweeps, NEW k \in Keys, NextItem(s, k),
         StoreTypeOK', RecordHasCopy', CuratedHasEntry',
         UNCHANGED <<sources, verb>>, faults' \in 0..MaxFaults
  PROVE  IInv'
<1> DEFINE w == [Idle EXCEPT !.pc = "sweeping", !.existing = sweep[s].existing,
                             !.todo = sweep[s].todo \ {k}]
<1>1. sweep[s] \in SweepRecord /\ SweepInv(s)
  BY DEF IInv, TypeOK, SweepTypeOK
<1>2. /\ sweep[s].existing \in [Keys -> WalkItem]
      /\ sweep[s].todo \subseteq Keys
  BY <1>1 DEF SweepRecord
<1>3. w \in SweepRecord
  BY <1>2, IdleTyped DEF SweepRecord
<1>4. /\ w.pc = "sweeping"
      /\ w.existing = sweep[s].existing
      /\ w.todo = sweep[s].todo \ {k}
  BY IdleTyped DEF SweepRecord
<1>5. sweep' = [sweep EXCEPT ![s] = w]
  BY DEF NextItem
<1>6. sweep'[s] = w
  BY <1>5 DEF IInv, TypeOK, SweepTypeOK
<1>7. SweepInv(s)'
  <2>1. Remembers(s)'
    BY <1>4, <1>6, StillRemembers
  <2>2. \A j \in sweep'[s].todo : live'[j] # 0
    BY <1>1, <1>2, <1>4, <1>6 DEF SweepInv, Kept
  <2>3. sweep'[s].pc = "sweeping"
    BY <1>4, <1>6
  <2>4. QED BY <2>1, <2>2, <2>3 DEF SweepInv, Holding, Committed
<1>8. QED BY <1>3, <1>5, <1>7, SweepMoves

\* A sweep that stops, at its end or by an abort, relies on nothing.
LEMMA IdleStep ==
  ASSUME IInv, NEW s \in Sweeps, sweep' = [sweep EXCEPT ![s] = Idle],
         UNCHANGED <<store, sources, verb>>, faults' \in 0..MaxFaults
  PROVE  IInv'
<1>1. Idle \in SweepRecord
  BY IdleTyped
<1>2. sweep'[s] = Idle
  BY DEF IInv, TypeOK, SweepTypeOK
<1>3. SweepInv(s)'
  <2>1. /\ sweep'[s].pc = "idle"
        /\ sweep'[s].todo = {}
        /\ \A k \in Keys : sweep'[s].existing[k] = NoItem
    BY <1>2 DEF Idle
  <2>2. Remembers(s)'
    BY <2>1 DEF Remembers, Recapture, Prior, NoItem, NoSession
  <2>3. QED BY <2>1, <2>2 DEF SweepInv, Holding, Committed
<1>4. QED BY <1>1, <1>3, StoreStands, NothingLost, SweepMoves

-----------------------------------------------------------------------------
(***************************************************************************)
(* One lemma per step of a sweep.                                          *)
(***************************************************************************)

\* The walk's snapshot is of documents that are there.
LEMMA StartSweepStep ==
  ASSUME IInv, NEW s \in Sweeps, StartSweep(s), UNCHANGED <<verb, faults>>
  PROVE  IInv'
<1> DEFINE found == {k \in Keys : live[k] # 0}
           snapshot == [k \in Keys |-> Snapshot(k)]
           w == [Idle EXCEPT !.pc = "sweeping", !.existing = snapshot,
                             !.todo = found]
<1>1. UNCHANGED <<store, sources>>
  BY DEF StartSweep
<1>2. StoreTypeOK /\ RecordHasCopy
  BY DEF IInv, TypeOK
<1>3. ASSUME NEW k \in Keys
      PROVE  /\ Snapshot(k) \in WalkItem
             /\ Snapshot(k).session.rev # 0 =>
                  /\ Snapshot(k).day \in Days
                  /\ artifact[<<Snapshot(k).day, k>>] # 0
  <2>1. CASE ListedDays(k) = {}
    BY <2>1 DEF Snapshot, NoItem, WalkItem, NoSession, SessionDoc, Revs
  <2>2. CASE ListedDays(k) # {}
    <3>1. /\ <<WalkedDay(k), k>> \in Dirs
          /\ Listed(<<WalkedDay(k), k>>)
          /\ WalkedDay(k) \in Days
      BY <2>2, ShardsListed DEF ListedDays
    <3>2. session[<<WalkedDay(k), k>>] \in SessionDoc
      BY <1>2, <3>1 DEF StoreTypeOK
    <3>3. artifact[<<WalkedDay(k), k>>] # 0
      BY <1>2, <3>1 DEF RecordHasCopy
    <3>4. Snapshot(k) = [day |-> WalkedDay(k),
                         session |-> session[<<WalkedDay(k), k>>]]
      BY <2>2 DEF Snapshot
    <3>5. QED BY <3>1, <3>2, <3>3, <3>4 DEF WalkItem
  <2>3. QED BY <2>1, <2>2
<1>4. snapshot \in [Keys -> WalkItem] /\ found \subseteq Keys
  BY <1>3
<1>5. w \in SweepRecord
  BY <1>4, IdleTyped DEF SweepRecord
<1>6. sweep' = [sweep EXCEPT ![s] = w]
  BY DEF StartSweep
<1>7. sweep'[s] = w
  BY <1>6 DEF IInv, TypeOK, SweepTypeOK
<1>8. SweepInv(s)'
  <2>1. /\ sweep'[s].pc = "sweeping"
        /\ sweep'[s].todo = found
        /\ \A k \in Keys : sweep'[s].existing[k] = Snapshot(k)
    BY <1>7, IdleTyped DEF SweepRecord
  <2>2. Remembers(s)'
    BY <1>1, <1>3, <2>1 DEF Remembers, Recapture, Prior, store
  <2>3. \A k \in sweep'[s].todo : live'[k] # 0
    BY <1>1, <2>1 DEF sources
  <2>4. QED BY <2>1, <2>2, <2>3 DEF SweepInv, Holding, Committed
<1>9. faults' \in 0..MaxFaults
  BY DEF IInv, TypeOK
<1>10. QED BY <1>1, <1>5, <1>6, <1>8, <1>9, StoreStands, NothingLost, SweepMoves

\* What is to be done has a transcript, so what is staged is not empty.
LEMMA StageStep ==
  ASSUME IInv, NEW s \in Sweeps, NEW k \in Keys, Stage(s, k),
         UNCHANGED <<verb, faults>>
  PROVE  IInv'
<1> DEFINE w == [sweep[s] EXCEPT !.pc = "staged", !.dir = <<1, k>>,
                                 !.staged = live[k]]
<1>1. UNCHANGED <<store, sources>> /\ faults' \in 0..MaxFaults
  BY DEF Stage, IInv, TypeOK
<1>2. sweep[s] \in SweepRecord /\ SweepInv(s)
  BY DEF IInv, TypeOK, SweepTypeOK
<1>3. <<1, k>> \in Dirs /\ live[k] \in Revs
  BY DEF Dirs, Days, IInv, TypeOK, SweepTypeOK
<1>4. w \in SweepRecord
  BY <1>2, <1>3 DEF SweepRecord
<1>5. sweep' = [sweep EXCEPT ![s] = w]
  BY DEF Stage, IInv, TypeOK, SweepTypeOK
<1>6. SweepInv(s)'
  <2>1. /\ sweep'[s].pc = "staged"
        /\ sweep'[s].dir = <<1, k>>
        /\ sweep'[s].staged = live[k]
        /\ sweep'[s].existing = sweep[s].existing
        /\ sweep'[s].todo = sweep[s].todo
    BY DEF Stage, IInv, TypeOK, SweepTypeOK, SweepRecord
  <2>2. Remembers(s)'
    BY <1>1, <2>1, StillRemembers, NothingLost
  <2>3. live[k] # 0
    BY <1>2 DEF SweepInv, Stage
  <2>4. QED
    BY <1>1, <1>2, <1>3, <2>1, <2>2, <2>3
    DEF SweepInv, Holding, Committed, sources
<1>7. QED BY <1>1, <1>4, <1>5, <1>6, StoreStands, NothingLost, SweepMoves

\* Backfill's target is the walked session, whose copy the walk's record had.
LEMMA ResolveBackfillStep ==
  ASSUME IInv, NEW s \in Sweeps, NEW k \in Keys, ResolveBackfill(s, k),
         UNCHANGED <<verb, faults>>
  PROVE  IInv'
<1> DEFINE d == <<Prior(s, k).day, k>>
           w == [sweep[s] EXCEPT !.pc = "backfill", !.dir = d]
<1>1. UNCHANGED <<store, sources>> /\ faults' \in 0..MaxFaults
  BY DEF ResolveBackfill, IInv, TypeOK
<1>2. sweep[s] \in SweepRecord /\ SweepInv(s)
  BY DEF IInv, TypeOK, SweepTypeOK
<1>3. Recapture(s, k)
  <2>1. live[k] # 0
    BY <1>2 DEF ResolveBackfill, SweepInv
  <2>2. QED BY <2>1 DEF ResolveBackfill, Unchanged, Recapture
<1>4. d \in Dirs
  BY <1>2, <1>3 DEF SweepInv, Remembers, Dirs
<1>5. w \in SweepRecord
  BY <1>2, <1>4 DEF SweepRecord
<1>6. sweep' = [sweep EXCEPT ![s] = w]
  BY DEF ResolveBackfill, IInv, TypeOK, SweepTypeOK
<1>7. SweepInv(s)'
  <2>1. /\ sweep'[s].pc = "backfill"
        /\ sweep'[s].dir = d
        /\ sweep'[s].existing = sweep[s].existing
        /\ sweep'[s].todo = sweep[s].todo
    BY DEF ResolveBackfill, IInv, TypeOK, SweepTypeOK, SweepRecord
  <2>2. Remembers(s)'
    BY <1>1, <2>1, StillRemembers, NothingLost
  <2>3. KeyOf(s)' = k
    BY <2>1 DEF KeyOf
  <2>4. Prior(s, k)' = Prior(s, k) /\ Recapture(s, k)'
    BY <1>3, <2>1 DEF Prior, Recapture
  <2>5. QED
    BY <1>1, <1>2, <1>4, <2>1, <2>2, <2>3, <2>4
    DEF SweepInv, Holding, Committed, sources
<1>8. QED BY <1>1, <1>5, <1>6, <1>7, StoreStands, NothingLost, SweepMoves

\* What backfill writes back is the record it had, which has its copy.
LEMMA WriteBackfillStep ==
  ASSUME IInv, NEW s \in Sweeps, WriteBackfill(s), UNCHANGED <<verb, faults>>
  PROVE  IInv'
<1> DEFINE k == KeyOf(s)
           d == sweep[s].dir
           doc == [Prior(s, k).session EXCEPT !.project = TRUE]
<1>1. /\ UNCHANGED <<sources, artifact, curation, entry>>
      /\ session' = [session EXCEPT ![d] = doc]
      /\ faults' \in 0..MaxFaults
  BY DEF WriteBackfill, WriteSession, IInv, TypeOK
<1>2. sweep[s] \in SweepRecord /\ SweepInv(s) /\ StoreTypeOK
  BY DEF IInv, TypeOK, SweepTypeOK
<1>3. d \in Dirs /\ k \in Keys /\ Recapture(s, k) /\ d = <<Prior(s, k).day, k>>
  BY <1>2 DEF SweepInv, WriteBackfill, KeyOf, Dirs
<1>4. Prior(s, k).session \in SessionDoc
  BY <1>2, <1>3 DEF SweepRecord, Prior, WalkItem
<1>5. doc \in SessionDoc /\ doc.rev # 0
  BY <1>3, <1>4 DEF SessionDoc, Recapture
<1>6. artifact[d] # 0
  BY <1>2, <1>3 DEF SweepInv, Remembers
<1>7. StoreTypeOK'
  BY <1>1, <1>2, <1>5 DEF StoreTypeOK
<1>8. RecordHasCopy'
  BY <1>1, <1>2, <1>6 DEF RecordHasCopy, Listed, IInv, StoreTypeOK
<1>9. CuratedHasEntry'
  BY <1>1 DEF CuratedHasEntry, State, IInv
<1>10. Kept
  BY <1>1, <1>2, <1>5 DEF Kept, Listed, StoreTypeOK, sources
<1>11. NextItem(s, k)
  BY DEF WriteBackfill
<1>12. QED
  BY <1>1, <1>3, <1>7, <1>8, <1>9, <1>10, <1>11, NextItemStep

\* The stage is not empty, so the committed copy is there.
LEMMA CommitStep ==
  ASSUME IInv, NEW s \in Sweeps, Commit(s), UNCHANGED <<verb, faults>>
  PROVE  IInv'
<1> DEFINE k == KeyOf(s)
           d == <<Shard(s, k), k>>
           w == [sweep[s] EXCEPT !.pc = "committed", !.dir = d,
                                 !.project = Resolves(k)]
<1>1. /\ UNCHANGED <<sources, session, curation, entry>>
      /\ artifact' = [artifact EXCEPT ![d] = sweep[s].staged]
      /\ faults' \in 0..MaxFaults
  BY DEF Commit, CommitArtifact, IInv, TypeOK
<1>2. sweep[s] \in SweepRecord /\ SweepInv(s) /\ StoreTypeOK
  BY DEF IInv, TypeOK, SweepTypeOK
<1>3. k \in Keys /\ sweep[s].staged # 0 /\ sweep[s].staged \in Revs
  BY <1>2 DEF SweepInv, Commit, KeyOf, Dirs, Holding, SweepRecord
<1>4. d \in Dirs
  <2>1. CASE Recapture(s, k)
    BY <1>2, <1>3, <2>1 DEF Shard, SweepInv, Remembers, Dirs
  <2>2. CASE ~Recapture(s, k)
    <3>1. today \in Days /\ StartedOn[k] \in Days \cup {Undated}
      BY <1>3 DEF IInv, TypeOK, SweepTypeOK
    <3>2. Shard(s, k) \in Days
      BY <2>2, <3>1 DEF Shard
    <3>3. QED BY <1>3, <3>2 DEF Dirs
  <2>3. QED BY <2>1, <2>2
<1>5. w \in SweepRecord
  <2>1. Resolves(k) \in BOOLEAN
    BY DEF Resolves, IInv, TypeOK, SweepTypeOK
  <2>2. QED BY <1>2, <1>4, <2>1 DEF SweepRecord
<1>6. sweep' = [sweep EXCEPT ![s] = w]
  BY DEF Commit, IInv, TypeOK, SweepTypeOK
<1>7. StoreTypeOK'
  BY <1>1, <1>2, <1>3 DEF StoreTypeOK
<1>8. RecordHasCopy'
  BY <1>1, <1>2, <1>3 DEF RecordHasCopy, Listed, IInv, StoreTypeOK
<1>9. CuratedHasEntry'
  BY <1>1 DEF CuratedHasEntry, State, IInv
<1>10. Kept
  BY <1>1, <1>2, <1>3 DEF Kept, Listed, StoreTypeOK, sources
<1>11. SweepInv(s)'
  <2>1. /\ sweep'[s].pc = "committed"
        /\ sweep'[s].dir = d
        /\ sweep'[s].existing = sweep[s].existing
        /\ sweep'[s].todo = sweep[s].todo
        /\ sweep'[s].staged = sweep[s].staged
    BY DEF Commit, IInv, TypeOK, SweepTypeOK, SweepRecord
  <2>2. Remembers(s)'
    BY <1>10, <2>1, StillRemembers
  <2>3. artifact'[d] # 0
    BY <1>1, <1>2, <1>3, <1>4 DEF StoreTypeOK
  <2>4. QED
    BY <1>1, <1>2, <1>3, <1>4, <2>1, <2>2, <2>3
    DEF SweepInv, Holding, Committed, sources
<1>12. QED BY <1>1, <1>5, <1>6, <1>7, <1>8, <1>9, <1>10, <1>11, SweepMoves

\* What is recorded was committed: the copy is there before its record.
LEMMA RecordStep ==
  ASSUME IInv, NEW s \in Sweeps, Record(s), UNCHANGED <<verb, faults>>
  PROVE  IInv'
<1> DEFINE d == sweep[s].dir
           doc == [rev |-> sweep[s].staged, project |-> sweep[s].project]
           w == [sweep[s] EXCEPT !.pc = "recorded"]
<1>1. /\ UNCHANGED <<sources, artifact, curation, entry>>
      /\ session' = [session EXCEPT ![d] = doc]
      /\ faults' \in 0..MaxFaults
  BY DEF Record, WriteSession, IInv, TypeOK
<1>2. sweep[s] \in SweepRecord /\ SweepInv(s) /\ StoreTypeOK
  BY DEF IInv, TypeOK, SweepTypeOK
<1>3. d \in Dirs /\ sweep[s].staged # 0 /\ artifact[d] # 0
  BY <1>2 DEF SweepInv, Record, Holding, Committed
<1>4. doc \in SessionDoc /\ doc.rev # 0
  BY <1>2, <1>3 DEF SweepRecord, SessionDoc
<1>5. w \in SweepRecord
  BY <1>2 DEF SweepRecord
<1>6. sweep' = [sweep EXCEPT ![s] = w]
  BY DEF Record, IInv, TypeOK, SweepTypeOK
<1>7. StoreTypeOK'
  BY <1>1, <1>2, <1>4 DEF StoreTypeOK
<1>8. RecordHasCopy'
  BY <1>1, <1>2, <1>3 DEF RecordHasCopy, Listed, IInv, StoreTypeOK
<1>9. CuratedHasEntry'
  BY <1>1 DEF CuratedHasEntry, State, IInv
<1>10. Kept
  BY <1>1, <1>2, <1>4 DEF Kept, Listed, StoreTypeOK, sources
<1>11. SweepInv(s)'
  <2>1. /\ sweep'[s].pc = "recorded"
        /\ sweep'[s].dir = d
        /\ sweep'[s].existing = sweep[s].existing
        /\ sweep'[s].todo = sweep[s].todo
        /\ sweep'[s].staged = sweep[s].staged
    BY DEF Record, IInv, TypeOK, SweepTypeOK, SweepRecord
  <2>2. Remembers(s)'
    BY <1>10, <2>1, StillRemembers
  <2>3. QED
    BY <1>1, <1>2, <1>3, <2>1, <2>2 DEF SweepInv, Holding, Committed, sources
<1>12. QED BY <1>1, <1>5, <1>6, <1>7, <1>8, <1>9, <1>10, <1>11, SweepMoves

\* Reading the decision changes no document.
LEMMA ReadDecisionStep ==
  ASSUME IInv, NEW s \in Sweeps, ReadDecision(s), UNCHANGED <<verb, faults>>
  PROVE  IInv'
<1> DEFINE w == [sweep[s] EXCEPT !.pc = "read", !.read = curation[sweep[s].dir]]
<1>1. UNCHANGED <<store, sources>> /\ faults' \in 0..MaxFaults
  BY DEF ReadDecision, IInv, TypeOK
<1>2. sweep[s] \in SweepRecord /\ SweepInv(s) /\ StoreTypeOK
  BY DEF IInv, TypeOK, SweepTypeOK
<1>3. sweep[s].dir \in Dirs
  BY <1>2 DEF SweepInv, ReadDecision, Holding
<1>4. w \in SweepRecord
  <2>1. curation[sweep[s].dir] \in CurationDoc
    BY <1>2, <1>3 DEF StoreTypeOK
  <2>2. QED BY <1>2, <2>1 DEF SweepRecord
<1>5. sweep' = [sweep EXCEPT ![s] = w]
  BY DEF ReadDecision, IInv, TypeOK, SweepTypeOK
<1>6. SweepInv(s)'
  <2>1. /\ sweep'[s].pc = "read"
        /\ sweep'[s].dir = sweep[s].dir
        /\ sweep'[s].existing = sweep[s].existing
        /\ sweep'[s].todo = sweep[s].todo
        /\ sweep'[s].staged = sweep[s].staged
    BY DEF ReadDecision, IInv, TypeOK, SweepTypeOK, SweepRecord
  <2>2. Remembers(s)'
    BY <1>1, <2>1, StillRemembers, NothingLost
  <2>3. sweep[s].pc = "recorded" /\ artifact' = artifact /\ live' = live
    BY <1>1 DEF ReadDecision, store, sources
  <2>4. QED
    BY <1>2, <1>3, <2>1, <2>2, <2>3 DEF SweepInv, Holding, Committed
<1>7. QED BY <1>1, <1>4, <1>5, <1>6, StoreStands, NothingLost, SweepMoves

\* The automatic dismissal writes a decision that is not `curated`, or none.
LEMMA DecisionStep ==
  ASSUME IInv, NEW s \in Sweeps, AutoDismiss(s) \/ RetractDismissal(s),
         UNCHANGED <<verb, faults>>
  PROVE  IInv'
<1> DEFINE d == sweep[s].dir
<1>1. sweep[s] \in SweepRecord /\ SweepInv(s) /\ StoreTypeOK
  BY DEF IInv, TypeOK, SweepTypeOK
<1>2. d \in Dirs /\ KeyOf(s) \in Keys
  BY <1>1 DEF SweepInv, AutoDismiss, RetractDismissal, Holding, KeyOf, Dirs
<1>3. PICK doc \in CurationDoc :
        doc.state # "curated" /\ curation' = [curation EXCEPT ![d] = doc]
  <2>1. Dismissed(AutoNoop) \in CurationDoc /\ NoCuration \in CurationDoc
    BY DEF Dismissed, NoCuration, CurationDoc, Revs
  <2>2. /\ Dismissed(AutoNoop).state # "curated"
        /\ NoCuration.state # "curated"
    BY DEF Dismissed, NoCuration
  <2>3. QED
    BY <2>1, <2>2
    DEF AutoDismiss, RetractDismissal, WriteCuration, RemoveCuration
<1>4. /\ UNCHANGED <<sources, artifact, session, entry>>
      /\ NextItem(s, KeyOf(s))
      /\ faults' \in 0..MaxFaults
  BY DEF AutoDismiss, RetractDismissal, IInv, TypeOK
<1>5. StoreTypeOK'
  BY <1>1, <1>3, <1>4 DEF StoreTypeOK
<1>6. RecordHasCopy'
  BY <1>4 DEF RecordHasCopy, Listed, IInv
<1>7. CuratedHasEntry'
  BY <1>1, <1>3, <1>4 DEF CuratedHasEntry, State, IInv, StoreTypeOK
<1>8. Kept
  BY <1>4 DEF Kept, Listed, sources
<1>9. QED BY <1>2, <1>4, <1>5, <1>6, <1>7, <1>8, NextItemStep

\* A session passed over, or whose decision is kept, changes no document.
LEMMA PassOverStep ==
  ASSUME IInv, NEW s \in Sweeps, NEW k \in Keys, NextItem(s, k),
         UNCHANGED <<store, sources, verb>>, faults' \in 0..MaxFaults
  PROVE  IInv'
BY StoreStands, NothingLost, NextItemStep

\* Every step of a sweep keeps the invariant.
LEMMA SweepingStep ==
  ASSUME IInv, NEW s \in Sweeps, Sweeping(s)
  PROVE  IInv'
<1>1. SweepStep(s) /\ UNCHANGED <<verb, faults>>
  BY DEF Sweeping
<1>2. faults' \in 0..MaxFaults
  BY <1>1 DEF IInv, TypeOK
<1>3. CASE StartSweep(s)
  BY <1>1, <1>3, StartSweepStep
<1>4. CASE EndSweep(s)
  BY <1>1, <1>2, <1>4, IdleStep DEF EndSweep
<1>5. ASSUME NEW k \in Keys, LeaveAlone(s, k) PROVE IInv'
  BY <1>1, <1>2, <1>5, PassOverStep DEF LeaveAlone
<1>6. ASSUME NEW k \in Keys, ResolveBackfill(s, k) PROVE IInv'
  BY <1>1, <1>6, ResolveBackfillStep
<1>7. ASSUME NEW k \in Keys, Stage(s, k) PROVE IInv'
  BY <1>1, <1>7, StageStep
<1>8. CASE WriteBackfill(s)
  BY <1>1, <1>8, WriteBackfillStep
<1>9. CASE Commit(s)
  BY <1>1, <1>9, CommitStep
<1>10. CASE Record(s)
  BY <1>1, <1>10, RecordStep
<1>11. CASE ReadDecision(s)
  BY <1>1, <1>11, ReadDecisionStep
<1>12. CASE AutoDismiss(s) \/ RetractDismissal(s)
  BY <1>1, <1>12, DecisionStep
<1>13. CASE KeepDecision(s)
  <2>1. KeyOf(s) \in Keys
    BY <1>13 DEF IInv, SweepInv, KeepDecision, Holding, KeyOf, Dirs
  <2>2. QED BY <1>1, <1>2, <1>13, <2>1, PassOverStep DEF KeepDecision
<1>14. QED
  BY <1>1, <1>3, <1>4, <1>5, <1>6, <1>7, <1>8, <1>9, <1>10, <1>11, <1>12, <1>13
  DEF SweepStep

-----------------------------------------------------------------------------
(***************************************************************************)
(* One lemma per step of a state verb.                                     *)
(***************************************************************************)

\* A user between verbs relies on nothing.
LEMMA ReadyStep ==
  ASSUME IInv, Kept, NEW u \in Users, verb' = [verb EXCEPT ![u] = Ready],
         StoreTypeOK', RecordHasCopy', CuratedHasEntry',
         UNCHANGED <<sources, sweep>>, faults' \in 0..MaxFaults
  PROVE  IInv'
<1>1. Ready \in VerbRecord
  BY DEF Ready, VerbRecord, Revs
<1>2. verb'[u] = Ready
  BY DEF IInv, TypeOK, VerbTypeOK
<1>3. VerbInv(u)'
  BY <1>2 DEF VerbInv, Ready
<1>4. QED BY <1>1, <1>3, VerbMoves

\* The author read the copy of a listed session, so there is a draft.
LEMMA DraftStep ==
  ASSUME IInv, NEW u \in Users, NEW k \in Keys, Draft(u, k),
         UNCHANGED <<sources, sweep, faults>>
  PROVE  IInv'
<1> DEFINE d == ResolvedDir(k)
           v == [Ready EXCEPT !.pc = "drafted", !.dir = d, !.draft = artifact[d]]
<1>1. UNCHANGED <<store, sources>> /\ faults' \in 0..MaxFaults
  BY DEF Draft, IInv, TypeOK
<1>2. d \in Dirs /\ Listed(d)
  BY ShardsListed DEF Draft, Found
<1>3. artifact[d] # 0 /\ artifact[d] \in Revs
  BY <1>2 DEF IInv, RecordHasCopy, TypeOK, StoreTypeOK
<1>4. v \in VerbRecord
  <2>1. Ready \in VerbRecord
    BY DEF Ready, VerbRecord, Revs
  <2>2. QED BY <1>2, <1>3, <2>1 DEF VerbRecord
<1>5. verb' = [verb EXCEPT ![u] = v]
  BY DEF Draft
<1>6. VerbInv(u)'
  <2>1. verb'[u] = v
    BY <1>5 DEF IInv, TypeOK, VerbTypeOK
  <2>2. v.pc = "drafted" /\ v.dir = d /\ v.draft = artifact[d]
    BY DEF Ready
  <2>3. QED BY <1>1, <1>2, <1>3, <2>1, <2>2 DEF VerbInv, Listed, store
<1>7. QED BY <1>1, <1>4, <1>5, <1>6, StoreStands, NothingLost, VerbMoves

\* curate walks again; the session it drafted is still listed.
LEMMA BeginCurateStep ==
  ASSUME IInv, NEW u \in Users, BeginCurate(u),
         UNCHANGED <<sources, sweep, faults>>
  PROVE  IInv'
<1> DEFINE k == verb[u].dir[2]
           d == ResolvedDir(k)
           v == [verb[u] EXCEPT !.pc = "curating", !.dir = d,
                                !.rev = session[d].rev]
<1>1. UNCHANGED <<store, sources>> /\ faults' \in 0..MaxFaults
  BY DEF BeginCurate, IInv, TypeOK
<1>2. verb[u] \in VerbRecord /\ VerbInv(u)
  BY DEF IInv, TypeOK, VerbTypeOK
<1>3. k \in Keys /\ ListedDays(k) # {}
  <2>1. verb[u].dir \in Dirs /\ Listed(verb[u].dir)
    BY <1>2 DEF VerbInv, BeginCurate
  <2>2. verb[u].dir = <<verb[u].dir[1], k>> /\ verb[u].dir[1] \in Days /\ k \in Keys
    BY <2>1 DEF Dirs
  <2>3. verb[u].dir[1] \in ListedDays(k)
    BY <2>1, <2>2 DEF ListedDays
  <2>4. QED BY <2>2, <2>3
<1>4. d \in Dirs /\ Listed(d)
  BY <1>3, ShardsListed
<1>5. session[d].rev \in Revs
  BY <1>4 DEF IInv, TypeOK, StoreTypeOK, SessionDoc
<1>6. v \in VerbRecord
  BY <1>2, <1>4, <1>5 DEF VerbRecord
<1>7. verb' = [verb EXCEPT ![u] = v]
  BY DEF BeginCurate, IInv, TypeOK, VerbTypeOK
<1>8. VerbInv(u)'
  <2>1. verb'[u] = v
    BY <1>7 DEF IInv, TypeOK, VerbTypeOK
  <2>2. v.pc = "curating" /\ v.dir = d /\ v.draft = verb[u].draft
    BY <1>2 DEF VerbRecord
  <2>3. verb[u].draft # 0
    BY <1>2 DEF VerbInv, BeginCurate
  <2>4. QED BY <1>1, <1>4, <2>1, <2>2, <2>3 DEF VerbInv, Listed, store
<1>9. QED BY <1>1, <1>6, <1>7, <1>8, StoreStands, NothingLost, VerbMoves

\* entry.md is written from a draft that is there.
LEMMA EnterEntryStep ==
  ASSUME IInv, NEW u \in Users, EnterEntry(u),
         UNCHANGED <<sources, sweep, faults>>
  PROVE  IInv'
<1> DEFINE d == verb[u].dir
           v == [verb[u] EXCEPT !.pc = "entered"]
<1>1. /\ UNCHANGED <<sources, artifact, session, curation>>
      /\ entry' = [entry EXCEPT ![d] = verb[u].draft]
      /\ faults' \in 0..MaxFaults
  BY DEF EnterEntry, WriteEntry, IInv, TypeOK
<1>2. verb[u] \in VerbRecord /\ VerbInv(u) /\ StoreTypeOK
  BY DEF IInv, TypeOK, VerbTypeOK
<1>3. /\ d \in Dirs /\ Listed(d)
      /\ verb[u].draft # 0 /\ verb[u].draft \in Revs
  BY <1>2 DEF VerbInv, EnterEntry, VerbRecord
<1>4. v \in VerbRecord
  BY <1>2 DEF VerbRecord
<1>5. verb' = [verb EXCEPT ![u] = v]
  BY DEF EnterEntry, IInv, TypeOK, VerbTypeOK
<1>6. StoreTypeOK'
  BY <1>1, <1>2, <1>3 DEF StoreTypeOK
<1>7. RecordHasCopy'
  BY <1>1 DEF RecordHasCopy, Listed, IInv
<1>8. CuratedHasEntry'
  BY <1>1, <1>2, <1>3 DEF CuratedHasEntry, State, IInv, StoreTypeOK
<1>9. Kept
  BY <1>1, <1>2, <1>3 DEF Kept, Listed, StoreTypeOK, sources
<1>10. VerbInv(u)'
  <2>1. verb'[u] = v
    BY <1>5 DEF IInv, TypeOK, VerbTypeOK
  <2>2. v.pc = "entered" /\ v.dir = d /\ v.draft = verb[u].draft
    BY <1>2 DEF VerbRecord
  <2>3. entry'[d] # 0
    BY <1>1, <1>2, <1>3 DEF StoreTypeOK
  <2>4. QED BY <1>1, <1>3, <2>1, <2>2, <2>3 DEF VerbInv, Listed
<1>11. QED BY <1>1, <1>4, <1>5, <1>6, <1>7, <1>8, <1>9, <1>10, VerbMoves

\* A verb's last write puts a decision on a session, `curated` only on one
\* whose entry the verb has written.
LEMMA LastWriteStep ==
  ASSUME IInv, NEW u \in Users, EndCurate(u) \/ EndDismiss(u) \/ EndUndismiss(u),
         UNCHANGED <<sources, sweep, faults>>
  PROVE  IInv'
<1> DEFINE d == verb[u].dir
<1>1. verb[u] \in VerbRecord /\ VerbInv(u) /\ StoreTypeOK
  BY DEF IInv, TypeOK, VerbTypeOK
<1>2. /\ UNCHANGED <<artifact, session, entry>>
      /\ verb' = [verb EXCEPT ![u] = Ready]
      /\ faults' \in 0..MaxFaults
  BY DEF EndCurate, EndDismiss, EndUndismiss, IInv, TypeOK
<1>3. PICK doc \in CurationDoc : /\ curation' = [curation EXCEPT ![d] = doc]
                                 /\ doc.state = "curated" => entry[d] # 0
  <2>1. CASE EndCurate(u)
    <3>1. Curated(verb[u].rev) \in CurationDoc
      BY <1>1 DEF Curated, CurationDoc, VerbRecord
    <3>2. entry[d] # 0
      BY <1>1, <2>1 DEF VerbInv, EndCurate
    <3>3. QED BY <2>1, <3>1, <3>2 DEF EndCurate, WriteCuration
  <2>2. CASE EndDismiss(u)
    <3>1. Dismissed("manual") \in CurationDoc /\ Dismissed("manual").state # "curated"
      BY DEF Dismissed, CurationDoc, Revs
    <3>2. QED BY <2>2, <3>1 DEF EndDismiss, WriteCuration
  <2>3. CASE EndUndismiss(u)
    <3>1. NoCuration \in CurationDoc /\ NoCuration.state # "curated"
      BY DEF NoCuration, CurationDoc, Revs
    <3>2. QED BY <2>3, <3>1 DEF EndUndismiss, RemoveCuration, WriteCuration
  <2>4. QED BY <2>1, <2>2, <2>3
<1>4. StoreTypeOK'
  BY <1>1, <1>2, <1>3 DEF StoreTypeOK
<1>5. RecordHasCopy'
  BY <1>2 DEF RecordHasCopy, Listed, IInv
<1>6. CuratedHasEntry'
  BY <1>1, <1>2, <1>3 DEF CuratedHasEntry, State, IInv, StoreTypeOK
<1>7. Kept
  BY <1>2 DEF Kept, Listed, sources
<1>8. QED BY <1>2, <1>4, <1>5, <1>6, <1>7, ReadyStep

\* dismiss and undismiss begin on a session that is listed.
LEMMA BeginDecisionStep ==
  ASSUME IInv, NEW u \in Users, NEW k \in Keys,
         BeginDismiss(u, k) \/ BeginUndismiss(u, k),
         UNCHANGED <<sources, sweep, faults>>
  PROVE  IInv'
<1> DEFINE d == ResolvedDir(k)
<1>1. UNCHANGED <<store, sources>> /\ faults' \in 0..MaxFaults
  BY DEF BeginDismiss, BeginUndismiss, IInv, TypeOK
<1>2. d \in Dirs /\ Listed(d)
  BY ShardsListed DEF BeginDismiss, BeginUndismiss, Found
<1>3. Ready \in VerbRecord
  BY DEF Ready, VerbRecord, Revs
<1>4. PICK pc \in {"dismissing", "undismissing"} :
        verb' = [verb EXCEPT ![u] = [Ready EXCEPT !.pc = pc, !.dir = d]]
  BY DEF BeginDismiss, BeginUndismiss
<1> DEFINE v == [Ready EXCEPT !.pc = pc, !.dir = d]
<1>5. v \in VerbRecord
  BY <1>2, <1>3 DEF VerbRecord
<1>6. verb'[u] = v
  BY <1>4 DEF IInv, TypeOK, VerbTypeOK
<1>7. VerbInv(u)'
  <2>1. v.pc = pc /\ v.dir = d
    BY DEF Ready
  <2>2. QED BY <1>1, <1>2, <1>6, <2>1 DEF VerbInv, Listed, store
<1>8. QED BY <1>1, <1>4, <1>5, <1>7, StoreStands, NothingLost, VerbMoves

\* Every step of a verb keeps the invariant.
LEMMA VerbStep ==
  ASSUME IInv, NEW u \in Users, StartingVerb(u) \/ FinishingVerb(u)
  PROVE  IInv'
<1>1. UNCHANGED <<sources, sweep, faults>>
  BY DEF StartingVerb, FinishingVerb
<1>2. ASSUME NEW k \in Keys, Draft(u, k) PROVE IInv'
  BY <1>1, <1>2, DraftStep
<1>3. ASSUME NEW k \in Keys, BeginDismiss(u, k) \/ BeginUndismiss(u, k)
      PROVE  IInv'
  BY <1>1, <1>3, BeginDecisionStep
<1>4. CASE BeginCurate(u)
  BY <1>1, <1>4, BeginCurateStep
<1>5. CASE EnterEntry(u)
  BY <1>1, <1>5, EnterEntryStep
<1>6. CASE EndCurate(u) \/ EndDismiss(u) \/ EndUndismiss(u)
  BY <1>1, <1>6, LastWriteStep
<1>7. QED
  BY <1>2, <1>3, <1>4, <1>5, <1>6
  DEF StartingVerb, FinishingVerb, BeginVerb, FinishVerb

-----------------------------------------------------------------------------
(***************************************************************************)
(* The world and the faults.                                               *)
(***************************************************************************)

\* A transcript only grows, and what is registered or what day it is matters
\* to no process's part of the invariant.
LEMMA WorldStep ==
  ASSUME IInv, World
  PROVE  IInv'
<1>1. UNCHANGED <<store, sweep, verb, faults>>
  BY DEF World, Grow, Midnight, Register
<1>2. live \in [Keys -> Revs] /\ today \in Days /\ registered \in BOOLEAN
  BY DEF IInv, TypeOK, SweepTypeOK
<1>3. /\ live' \in [Keys -> Revs]
      /\ \A k \in Keys : live[k] # 0 => live'[k] # 0
  <2>1. CASE \E k \in Keys : Grow(k)
    BY <1>2, <2>1 DEF Grow, Revs
  <2>2. CASE Midnight \/ Register
    BY <1>2, <2>2 DEF Midnight, Register
  <2>3. QED BY <2>1, <2>2 DEF World
<1>4. today' \in Days /\ registered' \in BOOLEAN
  <2>1. CASE \E k \in Keys : Grow(k)
    BY <1>2, <2>1 DEF Grow
  <2>2. CASE Midnight
    BY <1>2, <2>2 DEF Midnight, Days
  <2>3. CASE Register
    BY <1>2, <2>3 DEF Register
  <2>4. QED BY <2>1, <2>2, <2>3 DEF World
<1>5. Kept
  BY <1>1, <1>3 DEF Kept, Listed, store
<1>6. TypeOK'
  <2>1. SweepTypeOK'
    BY <1>1, <1>3, <1>4 DEF IInv, TypeOK, SweepTypeOK
  <2>2. VerbTypeOK' /\ faults' \in 0..MaxFaults
    BY <1>1 DEF IInv, TypeOK, VerbTypeOK
  <2>3. QED BY <1>1, <2>1, <2>2, StoreStands DEF TypeOK
<1>7. ASSUME NEW s \in Sweeps PROVE SweepInv(s)'
  BY <1>1, <1>5, OtherSweep
<1>8. ASSUME NEW u \in Users PROVE VerbInv(u)'
  BY <1>1, <1>5, OtherVerb
<1>9. QED BY <1>1, <1>6, <1>7, <1>8, StoreStands DEF IInv

\* A fault changes no document and leaves its process with nothing in hand.
LEMMA FaultStep ==
  ASSUME IInv, Fault
  PROVE  IInv'
<1>1. faults' \in 0..MaxFaults
  BY DEF Fault, IInv, TypeOK
<1>2. ASSUME NEW s \in Sweeps, AbortSweep(s), UNCHANGED verb PROVE IInv'
  BY <1>1, <1>2, IdleStep DEF AbortSweep
<1>3. ASSUME NEW s \in Sweeps, NEW k \in Keys, SkipItem(s, k), UNCHANGED verb
      PROVE  IInv'
  BY <1>1, <1>3, PassOverStep DEF SkipItem
<1>4. ASSUME NEW u \in Users, AbortVerb(u), UNCHANGED <<sources, sweep>>
      PROVE  IInv'
  BY <1>1, <1>4, StoreStands, NothingLost, ReadyStep DEF AbortVerb
<1>5. QED BY <1>2, <1>3, <1>4 DEF Fault

-----------------------------------------------------------------------------
(***************************************************************************)
(* The theorems.                                                           *)
(***************************************************************************)

\* An empty journal, with no command at work, satisfies the invariant.
LEMMA InitInv == Init => IInv
<1> SUFFICES ASSUME Init PROVE IInv
  OBVIOUS
<1>1. StoreTypeOK
  BY DEF Init, StoreInit, StoreTypeOK, NoSession, SessionDoc, NoCuration,
         CurationDoc, Revs
<1>2. SweepTypeOK
  <2>1. live \in [Keys -> Revs] /\ today \in Days
    BY DEF Init, SweepInit, Days, Revs
  <2>2. registered \in BOOLEAN
    BY DEF Init, SweepInit
  <2>3. sweep \in [Sweeps -> SweepRecord]
    BY IdleTyped DEF Init, SweepInit
  <2>4. QED BY <2>1, <2>2, <2>3 DEF SweepTypeOK
<1>3. VerbTypeOK
  BY DEF Init, VerbInit, VerbTypeOK, Ready, VerbRecord, Revs
<1>4. RecordHasCopy
  BY DEF Init, StoreInit, RecordHasCopy, Listed, NoSession
<1>5. CuratedHasEntry
  BY DEF Init, StoreInit, CuratedHasEntry, State, NoCuration
<1>6. ASSUME NEW s \in Sweeps PROVE SweepInv(s)
  <2>1. /\ sweep[s].pc = "idle"
        /\ sweep[s].todo = {}
        /\ \A k \in Keys : sweep[s].existing[k] = NoItem
    BY DEF Init, SweepInit, Idle
  <2>2. Remembers(s)
    BY <2>1 DEF Remembers, Recapture, Prior, NoItem, NoSession
  <2>3. QED BY <2>1, <2>2 DEF SweepInv, Holding, Committed
<1>7. ASSUME NEW u \in Users PROVE VerbInv(u)
  BY DEF Init, VerbInit, VerbInv, Ready
<1>8. QED
  BY <1>1, <1>2, <1>3, <1>4, <1>5, <1>6, <1>7 DEF IInv, TypeOK, Init

\* Every step keeps it, and so does no step at all.
LEMMA NextInv == IInv /\ [Next]_vars => IInv'
<1> SUFFICES ASSUME IInv, [Next]_vars PROVE IInv'
  OBVIOUS
<1>1. CASE World
  BY <1>1, WorldStep
<1>2. ASSUME NEW s \in Sweeps, Sweeping(s) PROVE IInv'
  BY <1>2, SweepingStep
<1>3. ASSUME NEW u \in Users, StartingVerb(u) \/ FinishingVerb(u) PROVE IInv'
  BY <1>3, VerbStep
<1>4. CASE Fault
  BY <1>4, FaultStep
<1>5. CASE UNCHANGED vars
  <2>1. UNCHANGED <<store, sources, sweep, verb, faults>>
    BY <1>5 DEF vars
  <2>2. Kept
    BY <2>1, NothingLost
  <2>3. TypeOK'
    <3>1. SweepTypeOK' /\ VerbTypeOK' /\ faults' \in 0..MaxFaults
      BY <2>1 DEF IInv, TypeOK, SweepTypeOK, VerbTypeOK, sources
    <3>2. QED BY <2>1, <3>1, StoreStands DEF TypeOK
  <2>4. ASSUME NEW s \in Sweeps PROVE SweepInv(s)'
    BY <2>1, <2>2, OtherSweep
  <2>5. ASSUME NEW u \in Users PROVE VerbInv(u)'
    BY <2>1, <2>2, OtherVerb
  <2>6. QED BY <2>1, <2>3, <2>4, <2>5, StoreStands DEF IInv
<1>6. QED BY <1>1, <1>2, <1>3, <1>4, <1>5 DEF Next

\* The invariant holds in every reachable state, for every interleaving of
\* any number of sweeps and verbs and any number of faults.
THEOREM Invariance == Spec => []IInv
BY InitInv, NextInv, PTL DEF Spec

\* Every document and every process stays within its type.
THEOREM TypeCorrect == Spec => []TypeOK
<1>1. IInv => TypeOK
  BY DEF IInv
<1>2. QED BY <1>1, Invariance, PTL

\* A session that reads as curated has its entry.md (curate.Run writes it
\* first, and nothing removes it).
THEOREM CuratedAlwaysHasEntry == Spec => []CuratedHasEntry
<1>1. IInv => CuratedHasEntry
  BY DEF IInv
<1>2. QED BY <1>1, Invariance, PTL

\* A recorded session has its transcript copy (captureOne commits the stage
\* before it writes session.json, and backfill rewrites only a record that
\* was there).
THEOREM RecordAlwaysHasCopy == Spec => []RecordHasCopy
<1>1. IInv => RecordHasCopy
  BY DEF IInv
<1>2. QED BY <1>1, Invariance, PTL

-----------------------------------------------------------------------------
(***************************************************************************)
(* From here on commands run one at a time.  The inductive invariant for   *)
(* them, on top of the one above.                                          *)
(***************************************************************************)
\* One process at a time is at work.
AtMostOne ==
  /\ \A s, t \in Sweeps : sweep[s].pc # "idle" /\ sweep[t].pc # "idle" => s = t
  /\ \A u, v \in Users : verb[u].pc # "ready" /\ verb[v].pc # "ready" => u = v
  /\ \A s \in Sweeps, u \in Users : sweep[s].pc = "idle" \/ verb[u].pc = "ready"

\* What the documents owe one another and the transcripts.
Levels ==
  /\ \A day \in Days, k \in Keys : artifact[<<day, k>>] <= live[k]
  /\ RecordNotAhead
  /\ OneShardPerSession
  /\ \A d \in Dirs : curation[d].stamp <= session[d].rev
  /\ \A d \in Dirs : ~Listed(d) => curation[d] = NoCuration
  /\ FreshEntryCoversRecord

\* The walk's answer still holds for the sessions not yet handled, and what is
\* staged is later than all that is on record of its session.
SweepAlone(s) ==
  LET w == sweep[s] IN
  /\ w.pc \in {"sweeping", "backfill", "staged", "committed"} =>
       \A k \in w.todo : Prior(s, k) = Snapshot(k)
  /\ w.pc \in {"recorded", "read"} =>
       \A k \in w.todo \ {KeyOf(s)} : Prior(s, k) = Snapshot(k)
  /\ w.pc \in {"backfill", "staged", "committed"} => KeyOf(s) \in w.todo
  /\ w.pc = "staged" =>
       /\ w.staged <= live[KeyOf(s)]
       /\ \A day \in Days : /\ artifact[<<day, KeyOf(s)>>] <= w.staged
                            /\ session[<<day, KeyOf(s)>>].rev < w.staged
  /\ w.pc = "committed" =>
       /\ artifact[w.dir] = w.staged
       /\ session[w.dir].rev < w.staged
       /\ \A day \in ListedDays(KeyOf(s)) : day = w.dir[1]
  /\ w.pc \in {"recorded", "read"} => Listed(w.dir)
  /\ w.pc = "read" => w.read = curation[w.dir]

\* What a verb read is still so.
VerbAlone(u) ==
  LET v == verb[u] IN
  /\ v.pc \in {"drafted", "curating", "entered"} => v.draft = artifact[v.dir]
  /\ v.pc = "drafted" => v.dir = ResolvedDir(v.dir[2])
  /\ v.pc \in {"curating", "entered"} => v.rev = session[v.dir].rev
  /\ v.pc = "entered" => entry[v.dir] = v.draft
  /\ v.pc = "dismissing" => State(v.dir) # "curated"
  /\ v.pc = "undismissing" => State(v.dir) = "dismissed"

AInv ==
  /\ AtMostOne
  /\ Levels
  /\ \A s \in Sweeps : SweepAlone(s)
  /\ \A u \in Users : VerbAlone(u)

-----------------------------------------------------------------------------
(***************************************************************************)
(* The frame: who is at work, and what the others rely on.                 *)
(***************************************************************************)
LEMMA AtWorkSweep ==
  ASSUME Alone, AInv, NEW s \in Sweeps,
         sweep[s].pc = "idle" => Quiet
  PROVE  /\ \A t \in Sweeps \ {s} : sweep[t].pc = "idle"
         /\ \A u \in Users : verb[u].pc = "ready"
BY DEF AInv, AtMostOne, Quiet

LEMMA AtWorkVerb ==
  ASSUME Alone, AInv, NEW u \in Users,
         verb[u].pc = "ready" => Quiet
  PROVE  /\ \A s \in Sweeps : sweep[s].pc = "idle"
         /\ \A v \in Users \ {u} : verb[v].pc = "ready"
BY DEF AInv, AtMostOne, Quiet

\* A process at rest relies on nothing.
LEMMA AtRest ==
  /\ \A s \in Sweeps : sweep'[s].pc = "idle" => SweepAlone(s)'
  /\ \A u \in Users : verb'[u].pc = "ready" => VerbAlone(u)'
BY DEF SweepAlone, VerbAlone

LEMMA SweepOnly ==
  ASSUME AInv, NEW s \in Sweeps, UNCHANGED verb,
         \A t \in Sweeps \ {s} : sweep'[t] = sweep[t],
         \A t \in Sweeps \ {s} : sweep[t].pc = "idle",
         \A u \in Users : verb[u].pc = "ready",
         Levels', SweepAlone(s)'
  PROVE  AInv'
<1>1. AtMostOne'
  BY DEF AtMostOne
<1>2. ASSUME NEW t \in Sweeps PROVE SweepAlone(t)'
  BY AtRest
<1>3. \A u \in Users : VerbAlone(u)'
  BY AtRest
<1>4. QED BY <1>1, <1>2, <1>3 DEF AInv

LEMMA VerbOnly ==
  ASSUME AInv, NEW u \in Users, UNCHANGED sweep,
         \A x \in Users \ {u} : verb'[x] = verb[x],
         \A s \in Sweeps : sweep[s].pc = "idle",
         \A x \in Users \ {u} : verb[x].pc = "ready",
         Levels', VerbAlone(u)'
  PROVE  AInv'
<1>1. AtMostOne'
  BY DEF AtMostOne
<1>2. ASSUME NEW x \in Users PROVE VerbAlone(x)'
  BY AtRest
<1>3. \A s \in Sweeps : SweepAlone(s)'
  BY AtRest
<1>4. QED BY <1>1, <1>2, <1>3 DEF AInv

\* A step that writes no document keeps their levels.
LEMMA LevelsStand ==
  ASSUME AInv, UNCHANGED store, \A k \in Keys : live'[k] >= live[k],
         live \in [Keys -> Revs], live' \in [Keys -> Revs],
         artifact \in [Dirs -> Revs]
  PROVE  Levels'
<1>1. Levels
  BY DEF AInv
<1>2. \A day \in Days, k \in Keys : artifact'[<<day, k>>] <= live'[k]
  <2>1. SUFFICES ASSUME NEW day \in Days, NEW k \in Keys
                 PROVE  artifact[<<day, k>>] <= live'[k]
    BY DEF store
  <2>2. <<day, k>> \in Dirs
    BY DEF Dirs
  <2>3. /\ artifact[<<day, k>>] \in Nat /\ live[k] \in Nat /\ live'[k] \in Nat
        /\ artifact[<<day, k>>] <= live[k]
    BY <1>1, <2>2 DEF Levels, Revs
  <2>4. QED BY <2>3
<1>3. RecordNotAhead' /\ FreshEntryCoversRecord'
  BY <1>1 DEF Levels, RecordNotAhead, FreshEntryCoversRecord, State, Stale, store
<1>4. OneShardPerSession'
  BY <1>1 DEF Levels, OneShardPerSession, ListedDays, Listed, store
<1>5. (\A d \in Dirs : curation[d].stamp <= session[d].rev)'
      /\ (\A d \in Dirs : ~Listed(d) => curation[d] = NoCuration)'
  BY <1>1 DEF Levels, Listed, store
<1>6. QED BY <1>2, <1>3, <1>4, <1>5 DEF Levels

\* The walk's answer for a session depends on its own documents only.
LEMMA SnapshotStands ==
  ASSUME NEW k \in Keys, \A day \in Days : session'[<<day, k>>] = session[<<day, k>>]
  PROVE  Snapshot(k)' = Snapshot(k) /\ ListedDays(k)' = ListedDays(k)
<1>1. ListedDays(k)' = ListedDays(k)
  BY DEF ListedDays, Listed
<1>2. WalkedDay(k)' = WalkedDay(k)
  BY <1>1 DEF WalkedDay
<1>3. CASE ListedDays(k) = {}
  BY <1>1, <1>3 DEF Snapshot
<1>4. CASE ListedDays(k) # {}
  <2>1. WalkedDay(k) \in Days
    BY <1>4, ShardsListed DEF ListedDays
  <2>2. session'[<<WalkedDay(k), k>>] = session[<<WalkedDay(k), k>>]
    BY <2>1
  <2>3. QED BY <1>1, <1>2, <1>4, <2>2 DEF Snapshot
<1>5. QED BY <1>3, <1>4, <1>1

\* What the walk says of a session, and of all its shards.
LEMMA SnapshotFacts ==
  ASSUME IInv, AInv, NEW k \in Keys
  PROVE  /\ Snapshot(k).session.rev = 0 => ListedDays(k) = {}
         /\ Snapshot(k).session.rev # 0 =>
              /\ Snapshot(k).day \in Days
              /\ ListedDays(k) = {Snapshot(k).day}
              /\ Snapshot(k).session = session[<<Snapshot(k).day, k>>]
<1>1. CASE ListedDays(k) = {}
  BY <1>1 DEF Snapshot, NoItem, NoSession
<1>2. CASE ListedDays(k) # {}
  <2>1. /\ WalkedDay(k) \in ListedDays(k) /\ WalkedDay(k) \in Days
        /\ Listed(<<WalkedDay(k), k>>)
    BY <1>2, ShardsListed DEF ListedDays
  <2>2. /\ Snapshot(k).day = WalkedDay(k)
        /\ Snapshot(k).session = session[<<WalkedDay(k), k>>]
    BY <1>2 DEF Snapshot
  <2>3. ListedDays(k) = {WalkedDay(k)}
    BY <2>1 DEF AInv, Levels, OneShardPerSession
  <2>4. Snapshot(k).session.rev # 0
    BY <2>1, <2>2 DEF Listed
  <2>5. QED BY <2>1, <2>2, <2>3, <2>4
<1>3. QED BY <1>1, <1>2

LEMMA Types ==
  ASSUME IInv
  PROVE  /\ sweep \in [Sweeps -> SweepRecord] /\ verb \in [Users -> VerbRecord]
         /\ live \in [Keys -> Revs]
         /\ artifact \in [Dirs -> Revs] /\ session \in [Dirs -> SessionDoc]
         /\ curation \in [Dirs -> CurationDoc] /\ entry \in [Dirs -> Revs]
         /\ \A d \in Dirs : session[d].rev \in Nat /\ artifact[d] \in Nat
                            /\ entry[d] \in Nat /\ curation[d].stamp \in Nat
         /\ \A k \in Keys : live[k] \in Nat
<1>1. /\ sweep \in [Sweeps -> SweepRecord] /\ verb \in [Users -> VerbRecord]
      /\ live \in [Keys -> Revs]
      /\ artifact \in [Dirs -> Revs] /\ session \in [Dirs -> SessionDoc]
      /\ curation \in [Dirs -> CurationDoc] /\ entry \in [Dirs -> Revs]
  BY DEF IInv, TypeOK, SweepTypeOK, VerbTypeOK, StoreTypeOK
<1>2. \A d \in Dirs : session[d].rev \in Nat /\ artifact[d] \in Nat /\ entry[d] \in Nat
  BY <1>1 DEF SessionDoc, Revs
<1>3. \A x \in CurationDoc : x.stamp \in Nat
  BY DEF CurationDoc, NoCuration, Curated, Dismissed, Revs
<1>4. QED BY <1>1, <1>2, <1>3 DEF Revs

-----------------------------------------------------------------------------
(***************************************************************************)
(* What a step may do to the documents.                                    *)
(***************************************************************************)
\* A rewrite of session.json that keeps every revision keeps the levels.
LEMMA RevisionsStand ==
  ASSUME AInv, UNCHANGED <<artifact, curation, entry, live>>,
         \A d \in Dirs : session'[d].rev = session[d].rev
  PROVE  Levels'
<1>1. Levels
  BY DEF AInv
<1>2. \A d \in Dirs : Listed(d)' = Listed(d)
  BY DEF Listed
<1>3. \A k \in Keys : ListedDays(k)' = ListedDays(k)
  BY <1>2 DEF ListedDays, Dirs
<1>4. RecordNotAhead' /\ FreshEntryCoversRecord'
  BY <1>1 DEF Levels, RecordNotAhead, FreshEntryCoversRecord, State, Stale
<1>5. QED BY <1>1, <1>2, <1>3, <1>4 DEF Levels, OneShardPerSession

\* A decision written on a listed session keeps the levels if its stamp does.
LEMMA DecisionStands ==
  ASSUME IInv, AInv, NEW d \in Dirs, NEW doc \in CurationDoc, Listed(d),
         WriteCuration(d, doc), UNCHANGED <<artifact, session, entry, live>>,
         doc.stamp <= session[d].rev,
         doc.state = "curated" => entry[d] >= session[d].rev
  PROVE  Levels'
<1>1. Levels
  BY DEF AInv
<1>2. /\ curation'[d] = doc
      /\ \A x \in Dirs \ {d} : curation'[x] = curation[x]
  BY Types DEF WriteCuration
<1>3. RecordNotAhead' /\ OneShardPerSession'
  BY <1>1 DEF Levels, RecordNotAhead, OneShardPerSession, ListedDays, Listed
<1>4. FreshEntryCoversRecord'
  BY <1>1, <1>2 DEF Levels, FreshEntryCoversRecord, State, Stale
<1>5. \A x \in Dirs : curation'[x].stamp <= session'[x].rev
  BY <1>1, <1>2 DEF Levels
<1>6. \A x \in Dirs : ~Listed(x)' => curation'[x] = NoCuration
  BY <1>1, <1>2 DEF Levels, Listed
<1>7. QED BY <1>1, <1>3, <1>4, <1>5, <1>6 DEF Levels

-----------------------------------------------------------------------------
(***************************************************************************)
(* One lemma per step of a sweep.                                          *)
(***************************************************************************)
\* A sweep that moves on relies only on the walk's answer for what is left.
LEMMA MovedOn ==
  ASSUME IInv, NEW s \in Sweeps, NEW k \in Keys, NextItem(s, k),
         \A j \in sweep[s].todo \ {k} : Prior(s, j) = Snapshot(j)'
  PROVE  /\ SweepAlone(s)'
         /\ \A t \in Sweeps \ {s} : sweep'[t] = sweep[t]
<1>1. sweep \in [Sweeps -> SweepRecord]
  BY Types
<1>2. \A t \in Sweeps \ {s} : sweep'[t] = sweep[t]
  BY <1>1 DEF NextItem
<1>3. /\ sweep'[s].pc = "sweeping" /\ sweep'[s].existing = sweep[s].existing
      /\ sweep'[s].todo = sweep[s].todo \ {k}
  BY <1>1 DEF NextItem, Idle
<1>4. \A j \in sweep'[s].todo : Prior(s, j)' = Snapshot(j)'
  BY <1>3 DEF Prior
<1>5. QED BY <1>2, <1>3, <1>4 DEF SweepAlone

\* The walk's answer stands where no session.json is written.
LEMMA WalkStands ==
  ASSUME IInv, AInv, NEW s \in Sweeps, NEW k \in Keys, UNCHANGED session,
         \/ sweep[s].pc \in {"sweeping", "backfill", "staged", "committed"}
         \/ sweep[s].pc \in {"recorded", "read"} /\ k = KeyOf(s)
  PROVE  \A j \in sweep[s].todo \ {k} : Prior(s, j) = Snapshot(j)'
<1>1. sweep[s] \in SweepRecord /\ SweepAlone(s)
  BY Types DEF AInv
<1>2. ASSUME NEW j \in sweep[s].todo \ {k} PROVE Prior(s, j) = Snapshot(j)'
  <2>1. j \in Keys
    BY <1>1 DEF SweepRecord
  <2>2. Snapshot(j)' = Snapshot(j)
    BY <2>1, SnapshotStands
  <2>3. Prior(s, j) = Snapshot(j)
    BY <1>1 DEF SweepAlone
  <2>4. QED BY <2>2, <2>3
<1>3. QED BY <1>2


\* The steps that end or begin a run, or pass an item over, write nothing.
LEMMA StartAlone ==
  ASSUME IInv, IInv', AInv, NEW s \in Sweeps, StartSweep(s), UNCHANGED verb
  PROVE  SweepAlone(s)' /\ Levels'
<1>1. sweep \in [Sweeps -> SweepRecord] /\ live \in [Keys -> Revs]
  BY Types
<1>2. UNCHANGED store /\ UNCHANGED live
  BY DEF StartSweep, sources
<1>3. Levels'
  BY <1>2, Types, LevelsStand
<1>4. /\ sweep'[s].pc = "sweeping" /\ sweep'[s].todo \subseteq Keys
      /\ sweep'[s].existing = [k \in Keys |-> Snapshot(k)]
  BY <1>1 DEF StartSweep, Idle
<1>5. ASSUME NEW j \in sweep'[s].todo PROVE Prior(s, j)' = Snapshot(j)'
  <2>1. j \in Keys
    BY <1>4
  <2>2. Snapshot(j)' = Snapshot(j)
    BY <1>2, <2>1, SnapshotStands DEF store
  <2>3. QED BY <1>4, <2>1, <2>2 DEF Prior
<1>6. QED BY <1>3, <1>4, <1>5 DEF SweepAlone

LEMMA PassOverAlone ==
  ASSUME IInv, AInv, NEW s \in Sweeps, NEW k \in Keys, NextItem(s, k),
         sweep[s].pc = "sweeping" \/ (sweep[s].pc = "read" /\ k = KeyOf(s)),
         UNCHANGED <<store, sources>>
  PROVE  SweepAlone(s)' /\ Levels'
<1>1. Levels'
  BY Types, LevelsStand DEF sources
<1>2. \A j \in sweep[s].todo \ {k} : Prior(s, j) = Snapshot(j)'
  BY WalkStands DEF store
<1>3. QED BY <1>1, <1>2, MovedOn

\* What differs from the walk's record is later than everything on record.
LEMMA StageAlone ==
  ASSUME IInv, AInv, NEW s \in Sweeps, NEW k \in Keys, Stage(s, k)
  PROVE  SweepAlone(s)' /\ Levels'
<1>1. sweep \in [Sweeps -> SweepRecord] /\ live[k] \in Nat
  BY Types
<1>2. UNCHANGED <<store, live>>
  BY DEF Stage, sources
<1>3. Levels /\ Levels'
  BY <1>2, Types, LevelsStand DEF AInv
<1>4. /\ sweep'[s].pc = "staged" /\ sweep'[s].todo = sweep[s].todo
      /\ sweep'[s].existing = sweep[s].existing
      /\ sweep'[s].staged = live[k] /\ sweep'[s].dir = <<1, k>>
      /\ k \in sweep[s].todo /\ sweep[s].todo \subseteq Keys
  BY <1>1 DEF Stage, SweepRecord
<1>5. KeyOf(s)' = k
  BY <1>4 DEF KeyOf
<1>6. \A j \in sweep[s].todo : Prior(s, j) = Snapshot(j)
  BY DEF AInv, SweepAlone, Stage
<1>7. ASSUME NEW j \in sweep[s].todo PROVE Prior(s, j)' = Snapshot(j)'
  <2>1. Snapshot(j)' = Snapshot(j)
    BY <1>2, <1>4, SnapshotStands DEF store
  <2>2. QED BY <1>4, <1>6, <2>1 DEF Prior
<1>8. ASSUME NEW day \in Days
      PROVE  artifact[<<day, k>>] <= live[k] /\ session[<<day, k>>].rev < live[k]
  <2>1. <<day, k>> \in Dirs
    BY DEF Dirs
  <2>2. /\ artifact[<<day, k>>] \in Nat /\ session[<<day, k>>].rev \in Nat
        /\ artifact[<<day, k>>] <= live[k]
        /\ session[<<day, k>>].rev <= artifact[<<day, k>>]
    BY <1>3, <2>1, Types DEF Levels, RecordNotAhead
  <2>3. live[k] # 0
    BY <1>4 DEF IInv, SweepInv
  <2>4. Snapshot(k).session.rev # live[k]
    BY <1>4, <1>6 DEF Stage, Unchanged
  <2>5. CASE session[<<day, k>>].rev = 0
    BY <1>1, <2>2, <2>3, <2>5
  <2>6. CASE session[<<day, k>>].rev # 0
    <3>1. day \in ListedDays(k)
      BY <2>6 DEF ListedDays, Listed
    <3>2. /\ ListedDays(k) = {Snapshot(k).day}
          /\ Snapshot(k).session = session[<<Snapshot(k).day, k>>]
      BY <3>1, SnapshotFacts
    <3>3. session[<<day, k>>].rev # live[k]
      BY <2>4, <3>1, <3>2
    <3>4. QED BY <1>1, <2>2, <3>3
  <2>7. QED BY <2>2, <2>5, <2>6
<1>9. \A day \in Days : /\ (artifact[<<day, k>>] <= live[k])'
                        /\ (session[<<day, k>>].rev < live[k])'
  BY <1>2, <1>8 DEF store
<1>10. sweep'[s].staged <= live'[k]
  BY <1>1, <1>2, <1>4
<1>11. sweep'[s].staged = live'[k]
  BY <1>2, <1>4
<1>12. QED
  BY <1>3, <1>4, <1>5, <1>7, <1>9, <1>10, <1>11 DEF SweepAlone

LEMMA ResolveBackfillAlone ==
  ASSUME IInv, AInv, NEW s \in Sweeps, NEW k \in Keys, ResolveBackfill(s, k)
  PROVE  SweepAlone(s)' /\ Levels'
<1>1. sweep \in [Sweeps -> SweepRecord]
  BY Types
<1>2. UNCHANGED <<store, live>>
  BY DEF ResolveBackfill, sources
<1>3. Levels'
  BY <1>2, Types, LevelsStand
<1>4. /\ sweep'[s].pc = "backfill" /\ sweep'[s].todo = sweep[s].todo
      /\ sweep'[s].existing = sweep[s].existing
      /\ sweep'[s].dir = <<Prior(s, k).day, k>>
      /\ k \in sweep[s].todo /\ sweep[s].todo \subseteq Keys
  BY <1>1 DEF ResolveBackfill, SweepRecord
<1>5. KeyOf(s)' = k
  BY <1>4 DEF KeyOf
<1>6. ASSUME NEW j \in sweep[s].todo PROVE Prior(s, j)' = Snapshot(j)'
  <2>1. Snapshot(j)' = Snapshot(j)
    BY <1>2, <1>4, SnapshotStands DEF store
  <2>2. Prior(s, j) = Snapshot(j)
    BY DEF AInv, SweepAlone, ResolveBackfill
  <2>3. QED BY <1>4, <2>1, <2>2 DEF Prior
<1>7. QED BY <1>3, <1>4, <1>5, <1>6 DEF SweepAlone

\* The record written back is the walk's, which is still the one on disk.
LEMMA BackfillTarget ==
  ASSUME IInv, AInv, NEW s \in Sweeps, WriteBackfill(s)
  PROVE  /\ KeyOf(s) \in sweep[s].todo /\ KeyOf(s) \in Keys
         /\ sweep[s].dir = <<Prior(s, KeyOf(s)).day, KeyOf(s)>>
         /\ \A x \in Dirs : /\ session'[x].rev = session[x].rev
                            /\ x # sweep[s].dir => session'[x] = session[x]
<1> DEFINE k == KeyOf(s)
           d == sweep[s].dir
<1>1. /\ sweep[s] \in SweepRecord /\ session \in [Dirs -> SessionDoc]
      /\ SweepAlone(s) /\ SweepInv(s)
  BY Types DEF AInv, IInv
<1>2. /\ k \in sweep[s].todo /\ k \in Keys /\ d \in Dirs
      /\ d = <<Prior(s, k).day, k>> /\ Recapture(s, k)
      /\ Prior(s, k) = Snapshot(k)
  BY <1>1 DEF WriteBackfill, SweepAlone, SweepInv, SweepRecord
<1>3. Prior(s, k).session = session[d]
  BY <1>2, SnapshotFacts DEF Recapture
<1>4. session' = [session EXCEPT ![d] = [session[d] EXCEPT !.project = TRUE]]
  BY <1>3 DEF WriteBackfill, WriteSession
<1>5. session[d] \in SessionDoc
  BY <1>1, <1>2
<1>6. QED BY <1>1, <1>2, <1>4, <1>5 DEF SessionDoc

LEMMA WriteBackfillAlone ==
  ASSUME IInv, AInv, NEW s \in Sweeps, WriteBackfill(s)
  PROVE  SweepAlone(s)' /\ Levels'
<1> DEFINE k == KeyOf(s)
<1>1. sweep[s] \in SweepRecord /\ SweepAlone(s)
  BY Types DEF AInv
<1>2. /\ k \in sweep[s].todo /\ k \in Keys
      /\ sweep[s].dir = <<Prior(s, k).day, k>>
      /\ \A x \in Dirs : /\ session'[x].rev = session[x].rev
                         /\ x # sweep[s].dir => session'[x] = session[x]
  BY BackfillTarget
<1>3. Levels'
  BY <1>2, RevisionsStand DEF WriteBackfill, sources
<1>4. ASSUME NEW j \in sweep[s].todo \ {k} PROVE Prior(s, j) = Snapshot(j)'
  <2>1. j \in Keys /\ Prior(s, j) = Snapshot(j)
    BY <1>1 DEF SweepRecord, SweepAlone, WriteBackfill
  <2>2. \A day \in Days : session'[<<day, j>>] = session[<<day, j>>]
    BY <1>2, <2>1 DEF Dirs
  <2>3. QED BY <2>1, <2>2, SnapshotStands
<1>5. NextItem(s, k)
  BY DEF WriteBackfill
<1>6. QED BY <1>2, <1>3, <1>4, <1>5, MovedOn

\* The copy goes to the one shard that lists the session, if any does.
LEMMA CommitAlone ==
  ASSUME IInv, IInv', AInv, NEW s \in Sweeps, Commit(s)
  PROVE  SweepAlone(s)' /\ Levels'
<1> DEFINE k == KeyOf(s)
           d == <<Shard(s, k), k>>
<1>1. /\ sweep \in [Sweeps -> SweepRecord] /\ SweepAlone(s) /\ Levels
      /\ artifact \in [Dirs -> Revs] /\ live \in [Keys -> Revs]
  BY Types DEF AInv
<1>2. /\ UNCHANGED <<session, curation, entry, live>>
      /\ artifact' = [artifact EXCEPT ![d] = sweep[s].staged]
  BY DEF Commit, CommitArtifact, sources
<1>3. /\ sweep'[s].pc = "committed" /\ sweep'[s].dir = d
      /\ sweep'[s].staged = sweep[s].staged
      /\ sweep'[s].todo = sweep[s].todo
      /\ sweep'[s].existing = sweep[s].existing
  BY <1>1 DEF Commit, SweepRecord
<1>4. /\ k \in sweep[s].todo /\ k \in Keys /\ sweep[s].todo \subseteq Keys
      /\ sweep[s].staged <= live[k] /\ sweep[s].staged \in Nat
      /\ \A day \in Days : /\ artifact[<<day, k>>] <= sweep[s].staged
                           /\ session[<<day, k>>].rev < sweep[s].staged
  BY <1>1 DEF SweepAlone, Commit, SweepRecord, Revs
<1>5. d \in Dirs /\ Shard(s, k) \in Days
  <2>1. SweepInv(s)'
    BY DEF IInv
  <2>2. d \in Dirs
    BY <1>3, <2>1 DEF SweepInv, Holding
  <2>3. QED BY <2>2 DEF Dirs
<1>6. /\ artifact'[d] = sweep[s].staged
      /\ \A x \in Dirs \ {d} : artifact'[x] = artifact[x]
  BY <1>1, <1>2, <1>5
<1>7. KeyOf(s)' = k
  BY <1>3 DEF KeyOf
<1>8. \A j \in sweep[s].todo : Prior(s, j) = Snapshot(j)
  BY <1>1 DEF SweepAlone, Commit
<1>9. Levels'
  <2>1. ASSUME NEW day \in Days, NEW j \in Keys
        PROVE  artifact'[<<day, j>>] <= live'[j]
    <3>1. <<day, j>> \in Dirs
      BY DEF Dirs
    <3>2. CASE <<day, j>> = d
      BY <1>2, <1>4, <1>6, <3>2
    <3>3. CASE <<day, j>> # d
      BY <1>1, <1>2, <1>6, <3>1, <3>3 DEF Levels
    <3>4. QED BY <3>2, <3>3
  <2>2. RecordNotAhead'
    <3>1. session[d].rev <= sweep[s].staged
      BY <1>4, <1>5, Types
    <3>2. ASSUME NEW x \in Dirs PROVE session'[x].rev <= artifact'[x]
      BY <1>1, <1>2, <1>6, <3>1 DEF Levels, RecordNotAhead
    <3>3. QED BY <3>2 DEF RecordNotAhead
  <2>3. OneShardPerSession' /\ FreshEntryCoversRecord'
    BY <1>1, <1>2 DEF Levels, OneShardPerSession, ListedDays, Listed,
                      FreshEntryCoversRecord, State, Stale
  <2>4. /\ (\A x \in Dirs : curation[x].stamp <= session[x].rev)'
        /\ (\A x \in Dirs : ~Listed(x) => curation[x] = NoCuration)'
    BY <1>1, <1>2 DEF Levels, Listed
  <2>5. QED BY <2>1, <2>2, <2>3, <2>4 DEF Levels
<1>10. ASSUME NEW j \in sweep[s].todo PROVE Prior(s, j)' = Snapshot(j)'
  <2>1. Snapshot(j)' = Snapshot(j)
    BY <1>2, <1>4, SnapshotStands
  <2>2. QED BY <1>3, <1>8, <2>1 DEF Prior
<1>11. ASSUME NEW day \in ListedDays(k) PROVE day = Shard(s, k)
  <2>1. Prior(s, k) = Snapshot(k)
    BY <1>4, <1>8
  <2>2. Snapshot(k).session.rev # 0 /\ ListedDays(k) = {Snapshot(k).day}
    BY <1>4, SnapshotFacts
  <2>3. Recapture(s, k)
    BY <2>1, <2>2 DEF Recapture
  <2>4. QED BY <2>1, <2>2, <2>3 DEF Shard
<1>12. ListedDays(KeyOf(s))' = ListedDays(k)
  BY <1>2, <1>7 DEF ListedDays, Listed
<1>13. \A day \in ListedDays(KeyOf(s))' : day = sweep'[s].dir[1]
  BY <1>3, <1>11, <1>12
<1>14. session'[sweep'[s].dir].rev < sweep'[s].staged
  BY <1>2, <1>3, <1>4, <1>5
<1>15. artifact'[sweep'[s].dir] = sweep'[s].staged
  BY <1>3, <1>6
<1>16. QED
  BY <1>3, <1>4, <1>7, <1>9, <1>10, <1>13, <1>14, <1>15 DEF SweepAlone

\* The record comes level with the copy and so leaves any entry stale.
LEMMA RecordAlone ==
  ASSUME IInv, AInv, NEW s \in Sweeps, Record(s)
  PROVE  SweepAlone(s)' /\ Levels'
<1> DEFINE k == KeyOf(s)
           d == sweep[s].dir
           doc == [rev |-> sweep[s].staged, project |-> sweep[s].project]
<1>1. /\ sweep \in [Sweeps -> SweepRecord] /\ SweepAlone(s) /\ Levels
      /\ session \in [Dirs -> SessionDoc] /\ SweepInv(s)
  BY Types DEF AInv, IInv
<1>2. /\ UNCHANGED <<artifact, curation, entry, live>>
      /\ session' = [session EXCEPT ![d] = doc]
  BY DEF Record, WriteSession, sources
<1>3. /\ sweep'[s].pc = "recorded" /\ sweep'[s].dir = d
      /\ sweep'[s].todo = sweep[s].todo
      /\ sweep'[s].existing = sweep[s].existing
  BY <1>1 DEF Record, SweepRecord
<1>4. /\ d \in Dirs /\ d = <<d[1], k>> /\ d[1] \in Days /\ k \in Keys
      /\ sweep[s].staged # 0 /\ sweep[s].staged \in Nat
      /\ sweep[s].todo \subseteq Keys
  BY <1>1 DEF Record, SweepInv, Holding, Dirs, KeyOf, SweepRecord, Revs
<1>5. /\ artifact[d] = sweep[s].staged
      /\ session[d].rev < sweep[s].staged
      /\ \A day \in ListedDays(k) : day = d[1]
  BY <1>1 DEF Record, SweepAlone
<1>6. /\ session'[d].rev = sweep[s].staged
      /\ \A x \in Dirs \ {d} : session'[x] = session[x]
  BY <1>1, <1>2, <1>4
<1>7. Levels'
  <2>1. RecordNotAhead'
    BY <1>1, <1>2, <1>4, <1>5, <1>6 DEF Levels, RecordNotAhead
  <2>2. OneShardPerSession'
    <3>1. ASSUME NEW j \in Keys, NEW a \in ListedDays(j)', NEW b \in ListedDays(j)'
          PROVE  a = b
      <4>1. CASE j = k
        <5>1. ASSUME NEW day \in ListedDays(j)' PROVE day = d[1]
          <6>1. CASE <<day, k>> = d
            BY <6>1
          <6>2. CASE <<day, k>> # d
            <7>1. <<day, k>> \in Dirs /\ session'[<<day, k>>].rev # 0 /\ day \in Days
              BY <1>4, <4>1, <5>1 DEF ListedDays, Listed, Dirs
            <7>2. day \in ListedDays(k)
              BY <1>6, <6>2, <7>1 DEF ListedDays, Listed
            <7>3. QED BY <1>5, <7>2
          <6>3. QED BY <6>1, <6>2
        <5>2. QED BY <3>1, <4>1, <5>1
      <4>2. CASE j # k
        <5>1. \A day \in Days : session'[<<day, j>>] = session[<<day, j>>]
          BY <1>4, <1>6, <4>2 DEF Dirs
        <5>2. a \in ListedDays(j) /\ b \in ListedDays(j)
          BY <3>1, <5>1, SnapshotStands
        <5>3. QED BY <1>1, <5>2 DEF Levels, OneShardPerSession
      <4>3. QED BY <4>1, <4>2
    <3>2. QED BY <3>1 DEF OneShardPerSession
  <2>3. \A x \in Dirs : curation'[x].stamp <= session'[x].rev
    BY <1>1, <1>2, <1>4, <1>5, <1>6, Types DEF Levels
  <2>4. \A x \in Dirs : ~Listed(x)' => curation'[x] = NoCuration
    BY <1>1, <1>2, <1>4, <1>6 DEF Levels, Listed
  <2>5. FreshEntryCoversRecord'
    <3>1. ASSUME NEW x \in Dirs, State(x)' = "curated", ~Stale(x)'
          PROVE  entry'[x] >= session'[x].rev
      <4>1. CASE x = d
        <5>1. curation[d].stamp = sweep[s].staged
          BY <1>2, <1>6, <3>1, <4>1 DEF State, Stale
        <5>2. curation[d].stamp <= session[d].rev /\ session[d].rev \in Nat
          BY <1>1, <1>4, Types DEF Levels
        <5>3. QED BY <1>4, <1>5, <5>1, <5>2
      <4>2. CASE x # d
        <5>1. session'[x] = session[x]
          BY <1>6, <4>2
        <5>2. State(x) = "curated" /\ ~Stale(x)
          BY <1>2, <3>1, <5>1 DEF State, Stale
        <5>3. QED BY <1>1, <1>2, <5>1, <5>2 DEF Levels, FreshEntryCoversRecord
      <4>3. QED BY <4>1, <4>2
    <3>2. QED BY <3>1 DEF FreshEntryCoversRecord
  <2>6. (\A day \in Days, j \in Keys : artifact[<<day, j>>] <= live[j])'
    BY <1>1, <1>2 DEF Levels
  <2>7. QED BY <2>1, <2>2, <2>3, <2>4, <2>5, <2>6 DEF Levels
<1>8. KeyOf(s)' = k
  BY <1>3 DEF KeyOf
<1>9. ASSUME NEW j \in sweep[s].todo \ {k} PROVE Prior(s, j)' = Snapshot(j)'
  <2>1. \A day \in Days : session'[<<day, j>>] = session[<<day, j>>]
    BY <1>4, <1>6 DEF Dirs
  <2>2. Snapshot(j)' = Snapshot(j)
    BY <1>4, <2>1, SnapshotStands
  <2>3. Prior(s, j) = Snapshot(j)
    BY <1>1 DEF SweepAlone, Record
  <2>4. QED BY <1>3, <2>2, <2>3 DEF Prior
<1>10. Listed(sweep[s].dir)'
  BY <1>3, <1>4, <1>6 DEF Listed
<1>11. QED BY <1>3, <1>7, <1>8, <1>9, <1>10 DEF SweepAlone, Listed

LEMMA ReadAlone ==
  ASSUME IInv, AInv, NEW s \in Sweeps, ReadDecision(s)
  PROVE  SweepAlone(s)' /\ Levels'
<1>1. sweep \in [Sweeps -> SweepRecord] /\ SweepAlone(s)
  BY Types DEF AInv
<1>2. UNCHANGED <<store, live>>
  BY DEF ReadDecision, sources
<1>3. Levels'
  BY <1>2, Types, LevelsStand
<1>4. /\ sweep'[s].pc = "read" /\ sweep'[s].todo = sweep[s].todo
      /\ sweep'[s].existing = sweep[s].existing
      /\ sweep'[s].dir = sweep[s].dir
      /\ sweep'[s].read = curation[sweep[s].dir]
      /\ sweep[s].todo \subseteq Keys
  BY <1>1 DEF ReadDecision, SweepRecord
<1>5. KeyOf(s)' = KeyOf(s)
  BY <1>4 DEF KeyOf
<1>6. ASSUME NEW j \in sweep[s].todo \ {KeyOf(s)}
      PROVE  Prior(s, j)' = Snapshot(j)'
  <2>1. Snapshot(j)' = Snapshot(j)
    BY <1>2, <1>4, SnapshotStands DEF store
  <2>2. Prior(s, j) = Snapshot(j)
    BY <1>1 DEF SweepAlone, ReadDecision
  <2>3. QED BY <1>4, <2>1, <2>2 DEF Prior
<1>7. Listed(sweep[s].dir)' /\ curation' = curation
  BY <1>1, <1>2, <1>4 DEF SweepAlone, ReadDecision, Listed, store
<1>8. QED BY <1>3, <1>4, <1>5, <1>6, <1>7 DEF SweepAlone, Listed

\* The automatic decision is about a session on record.
LEMMA DecideAlone ==
  ASSUME IInv, AInv, NEW s \in Sweeps, AutoDismiss(s) \/ RetractDismissal(s)
  PROVE  SweepAlone(s)' /\ Levels'
<1> DEFINE k == KeyOf(s)
           d == sweep[s].dir
<1>1. sweep[s] \in SweepRecord /\ SweepAlone(s) /\ SweepInv(s) /\ sweep[s].pc = "read"
  BY Types DEF AInv, IInv, AutoDismiss, RetractDismissal
<1>2. d \in Dirs /\ k \in Keys /\ Listed(d)
  BY <1>1 DEF SweepInv, SweepAlone, Holding, Dirs, KeyOf
<1>3. /\ NextItem(s, k)
      /\ UNCHANGED <<artifact, session, entry, live>>
  BY DEF AutoDismiss, RetractDismissal, sources
<1>4. PICK doc \in {Dismissed(AutoNoop), NoCuration} : WriteCuration(d, doc)
  BY DEF AutoDismiss, RetractDismissal, RemoveCuration
<1>5. doc \in CurationDoc /\ doc.stamp = 0 /\ doc.state # "curated"
  BY DEF Dismissed, NoCuration, CurationDoc, AutoNoop
<1>6. Levels'
  BY <1>2, <1>3, <1>4, <1>5, Types, DecisionStands
<1>7. \A j \in sweep[s].todo \ {k} : Prior(s, j) = Snapshot(j)'
  BY <1>1, <1>2, <1>3, WalkStands
<1>8. QED BY <1>2, <1>3, <1>6, <1>7, MovedOn

-----------------------------------------------------------------------------
(***************************************************************************)
(* One lemma per step of a verb.                                           *)
(***************************************************************************)
\* Where a session is resolved to depends on its records only.
LEMMA ResolutionStands ==
  ASSUME UNCHANGED session, NEW k \in Keys
  PROVE  ResolvedDir(k)' = ResolvedDir(k)
BY DEF ResolvedDir, ResolvedDay, ListedDays, Listed

LEMMA DraftAlone ==
  ASSUME IInv, AInv, NEW u \in Users, NEW k \in Keys, Draft(u, k), UNCHANGED live
  PROVE  VerbAlone(u)' /\ Levels'
<1>1. verb \in [Users -> VerbRecord] /\ UNCHANGED store
  BY Types DEF Draft
<1>2. Levels'
  BY <1>1, Types, LevelsStand
<1>3. /\ verb'[u].pc = "drafted" /\ verb'[u].dir = ResolvedDir(k)
      /\ verb'[u].draft = artifact[ResolvedDir(k)]
  BY <1>1 DEF Draft, Ready
<1>4. ResolvedDir(k)[2] = k
  BY DEF ResolvedDir
<1>5. ResolvedDir(k)' = ResolvedDir(k)
  BY <1>1, ResolutionStands DEF store
<1>6. ResolvedDir(verb[u].dir[2])' = ResolvedDir(k)
  BY <1>3, <1>4, <1>5 DEF ResolvedDir, ResolvedDay, ListedDays, Listed
<1>7. QED BY <1>1, <1>2, <1>3, <1>6 DEF VerbAlone, store

\* The session curate walks to is the one its author read.
LEMMA BeginCurateAlone ==
  ASSUME IInv, AInv, NEW u \in Users, BeginCurate(u), UNCHANGED live
  PROVE  VerbAlone(u)' /\ Levels'
<1> DEFINE d == verb[u].dir
<1>1. /\ verb \in [Users -> VerbRecord] /\ UNCHANGED store
      /\ VerbAlone(u) /\ VerbInv(u)
  BY Types DEF BeginCurate, AInv, IInv
<1>2. Levels'
  BY <1>1, Types, LevelsStand
<1>3. d = ResolvedDir(d[2]) /\ verb[u].draft = artifact[d]
  BY <1>1 DEF VerbAlone, BeginCurate
<1>4. /\ verb'[u].pc = "curating" /\ verb'[u].dir = d
      /\ verb'[u].rev = session[d].rev /\ verb'[u].draft = verb[u].draft
  BY <1>1, <1>3 DEF BeginCurate, VerbRecord
<1>5. QED BY <1>1, <1>2, <1>3, <1>4 DEF VerbAlone, store

\* The entry is drafted from a copy no older than the record.
LEMMA EnterAlone ==
  ASSUME IInv, AInv, NEW u \in Users, EnterEntry(u), UNCHANGED live
  PROVE  VerbAlone(u)' /\ Levels'
<1> DEFINE d == verb[u].dir
<1>1. /\ verb \in [Users -> VerbRecord] /\ entry \in [Dirs -> Revs]
      /\ VerbAlone(u) /\ VerbInv(u) /\ Levels
  BY Types DEF AInv, IInv
<1>2. d \in Dirs
  BY <1>1 DEF VerbInv, EnterEntry
<1>3. verb[u].draft = artifact[d] /\ verb[u].rev = session[d].rev
  BY <1>1 DEF VerbAlone, EnterEntry
<1>4. /\ verb'[u].pc = "entered" /\ verb'[u].dir = d
      /\ verb'[u].rev = verb[u].rev /\ verb'[u].draft = verb[u].draft
  BY <1>1 DEF EnterEntry, VerbRecord
<1>5. /\ UNCHANGED <<artifact, session, curation>>
      /\ entry'[d] = verb[u].draft
      /\ \A x \in Dirs \ {d} : entry'[x] = entry[x]
  BY <1>1, <1>2 DEF EnterEntry, WriteEntry
<1>6. FreshEntryCoversRecord'
  BY <1>1, <1>2, <1>3, <1>5
  DEF Levels, RecordNotAhead, FreshEntryCoversRecord, State, Stale
<1>7. RecordNotAhead' /\ OneShardPerSession'
  BY <1>1, <1>5 DEF Levels, RecordNotAhead, OneShardPerSession, ListedDays, Listed
<1>8. Levels'
  BY <1>1, <1>5, <1>6, <1>7 DEF Levels, Listed
<1>9. QED BY <1>3, <1>4, <1>5, <1>8 DEF VerbAlone

LEMMA BeginDecisionAlone ==
  ASSUME IInv, AInv, NEW u \in Users, NEW k \in Keys,
         BeginDismiss(u, k) \/ BeginUndismiss(u, k), UNCHANGED live
  PROVE  VerbAlone(u)' /\ Levels'
<1> DEFINE d == ResolvedDir(k)
<1>1. verb \in [Users -> VerbRecord] /\ UNCHANGED store
  BY Types DEF BeginDismiss, BeginUndismiss
<1>2. Levels'
  BY <1>1, Types, LevelsStand
<1>3. \/ verb'[u].pc = "dismissing" /\ verb'[u].dir = d /\ State(d) # "curated"
      \/ verb'[u].pc = "undismissing" /\ verb'[u].dir = d /\ State(d) = "dismissed"
  BY <1>1 DEF BeginDismiss, BeginUndismiss, Ready
<1>4. curation' = curation
  BY <1>1 DEF store
<1>5. QED BY <1>2, <1>3, <1>4 DEF VerbAlone, State

\* A verb's decision is about a session on record; curate's stamp is level
\* with the record, and its entry no older.
LEMMA LastWriteAlone ==
  ASSUME IInv, AInv, NEW u \in Users,
         EndCurate(u) \/ EndDismiss(u) \/ EndUndismiss(u), UNCHANGED live
  PROVE  VerbAlone(u)' /\ Levels'
<1> DEFINE d == verb[u].dir
<1>1. /\ verb \in [Users -> VerbRecord] /\ VerbAlone(u) /\ VerbInv(u) /\ Levels
  BY Types DEF AInv, IInv
<1>2. d \in Dirs /\ Listed(d) /\ verb[u].rev \in Revs
  BY <1>1 DEF VerbInv, EndCurate, EndDismiss, EndUndismiss, VerbRecord
<1>3. UNCHANGED <<artifact, session, entry, live>> /\ verb'[u].pc = "ready"
  BY <1>1 DEF EndCurate, EndDismiss, EndUndismiss, Ready
<1>4. PICK doc \in CurationDoc :
        /\ WriteCuration(d, doc) /\ doc.stamp <= session[d].rev
        /\ doc.state = "curated" => entry[d] >= session[d].rev
  <2>1. session[d].rev \in Nat /\ artifact[d] \in Nat
    BY <1>2, Types
  <2>2. CASE EndCurate(u)
    <3>1. Curated(verb[u].rev) \in CurationDoc
      BY <1>2 DEF CurationDoc
    <3>2. verb[u].rev = session[d].rev /\ entry[d] = artifact[d]
      BY <1>1, <2>2 DEF VerbAlone, EndCurate
    <3>3. session[d].rev <= artifact[d]
      BY <1>1, <1>2 DEF Levels, RecordNotAhead
    <3>4. QED BY <2>1, <2>2, <3>1, <3>2, <3>3 DEF EndCurate, Curated
  <2>3. CASE EndDismiss(u)
    <3>1. Dismissed("manual") \in CurationDoc
      BY DEF CurationDoc
    <3>2. QED BY <2>1, <2>3, <3>1 DEF EndDismiss, Dismissed
  <2>4. CASE EndUndismiss(u)
    <3>1. NoCuration \in CurationDoc
      BY DEF CurationDoc
    <3>2. QED
      BY <2>1, <2>4, <3>1 DEF EndUndismiss, RemoveCuration, NoCuration
  <2>5. QED BY <2>2, <2>3, <2>4
<1>5. Levels'
  BY <1>2, <1>3, <1>4, Types, DecisionStands
<1>6. QED BY <1>3, <1>5, AtRest

-----------------------------------------------------------------------------
(***************************************************************************)
(* Every step, one command at a time.                                      *)
(***************************************************************************)
LEMMA SweepingAlone ==
  ASSUME Alone, IInv, IInv', AInv, NEW s \in Sweeps, Sweeping(s)
  PROVE  AInv'
<1>1. /\ \A t \in Sweeps \ {s} : sweep[t].pc = "idle"
      /\ \A u \in Users : verb[u].pc = "ready"
  BY AtWorkSweep DEF Sweeping
<1>2. UNCHANGED verb
  BY DEF Sweeping
<1>3. sweep \in [Sweeps -> SweepRecord]
  BY Types
<1>4. \A t \in Sweeps \ {s} : sweep'[t] = sweep[t]
  BY <1>3
  DEF Sweeping, SweepStep, StartSweep, EndSweep, LeaveAlone, ResolveBackfill,
      Stage, WriteBackfill, Commit, Record, ReadDecision, AutoDismiss,
      RetractDismissal, KeepDecision, NextItem
<1>5. SweepAlone(s)' /\ Levels'
  <2>1. CASE StartSweep(s)
    BY <1>2, <2>1, StartAlone
  <2>2. CASE EndSweep(s)
    <3>1. UNCHANGED <<store, live>> /\ sweep'[s].pc = "idle"
      BY <1>3, <2>2 DEF EndSweep, sources, Idle
    <3>2. QED BY <3>1, Types, LevelsStand, AtRest
  <2>3. ASSUME NEW k \in Keys, LeaveAlone(s, k) PROVE SweepAlone(s)' /\ Levels'
    BY <2>3, PassOverAlone DEF LeaveAlone
  <2>4. ASSUME NEW k \in Keys, ResolveBackfill(s, k)
        PROVE  SweepAlone(s)' /\ Levels'
    BY <2>4, ResolveBackfillAlone
  <2>5. ASSUME NEW k \in Keys, Stage(s, k) PROVE SweepAlone(s)' /\ Levels'
    BY <2>5, StageAlone
  <2>6. CASE WriteBackfill(s)
    BY <2>6, WriteBackfillAlone
  <2>7. CASE Commit(s)
    BY <2>7, CommitAlone
  <2>8. CASE Record(s)
    BY <2>8, RecordAlone
  <2>9. CASE ReadDecision(s)
    BY <2>9, ReadAlone
  <2>10. CASE AutoDismiss(s) \/ RetractDismissal(s)
    BY <2>10, DecideAlone
  <2>11. CASE KeepDecision(s)
    <3>1. KeyOf(s) \in Keys
      BY <2>11 DEF KeepDecision, IInv, SweepInv, Holding, Dirs, KeyOf
    <3>2. QED BY <2>11, <3>1, PassOverAlone DEF KeepDecision
  <2>12. QED
    BY <2>1, <2>2, <2>3, <2>4, <2>5, <2>6, <2>7, <2>8, <2>9, <2>10, <2>11
    DEF Sweeping, SweepStep
<1>6. QED BY <1>1, <1>2, <1>4, <1>5, SweepOnly

LEMMA VerbingAlone ==
  ASSUME Alone, IInv, AInv, NEW u \in Users, StartingVerb(u) \/ FinishingVerb(u)
  PROVE  AInv'
<1>1. /\ \A s \in Sweeps : sweep[s].pc = "idle"
      /\ \A v \in Users \ {u} : verb[v].pc = "ready"
  <2>1. verb[u].pc = "ready" => Quiet
    BY DEF StartingVerb, FinishingVerb, FinishVerb, BeginCurate, EnterEntry,
           EndCurate, EndDismiss, EndUndismiss
  <2>2. QED BY <2>1, AtWorkVerb
<1>2. UNCHANGED <<sweep, live>>
  BY DEF StartingVerb, FinishingVerb, sources
<1>3. verb \in [Users -> VerbRecord]
  BY Types
<1>4. \A x \in Users \ {u} : verb'[x] = verb[x]
  BY <1>3
  DEF StartingVerb, FinishingVerb, BeginVerb, FinishVerb, Draft, BeginDismiss,
      BeginUndismiss, BeginCurate, EnterEntry, EndCurate, EndDismiss, EndUndismiss
<1>5. VerbAlone(u)' /\ Levels'
  <2>1. ASSUME NEW k \in Keys, Draft(u, k) PROVE VerbAlone(u)' /\ Levels'
    BY <1>2, <2>1, DraftAlone
  <2>2. ASSUME NEW k \in Keys, BeginDismiss(u, k) \/ BeginUndismiss(u, k)
        PROVE  VerbAlone(u)' /\ Levels'
    BY <1>2, <2>2, BeginDecisionAlone
  <2>3. CASE BeginCurate(u)
    BY <1>2, <2>3, BeginCurateAlone
  <2>4. CASE EnterEntry(u)
    BY <1>2, <2>4, EnterAlone
  <2>5. CASE EndCurate(u) \/ EndDismiss(u) \/ EndUndismiss(u)
    BY <1>2, <2>5, LastWriteAlone
  <2>6. QED BY <2>1, <2>2, <2>3, <2>4, <2>5
            DEF StartingVerb, FinishingVerb, BeginVerb, FinishVerb
<1>6. QED BY <1>1, <1>2, <1>4, <1>5, VerbOnly

\* A transcript that grows meanwhile only moves further ahead.
LEMMA WorldAlone ==
  ASSUME IInv, IInv', AInv, World
  PROVE  AInv'
<1>1. UNCHANGED <<store, sweep, verb>>
  BY DEF World, Grow, Midnight, Register
<1>2. live \in [Keys -> Revs] /\ live' \in [Keys -> Revs]
  BY DEF IInv, TypeOK, SweepTypeOK
<1>3. \A k \in Keys : live'[k] >= live[k]
  BY <1>2 DEF World, Grow, Midnight, Register, Revs
<1>4. Levels'
  BY <1>1, <1>2, <1>3, Types, LevelsStand
<1>5. ASSUME NEW s \in Sweeps PROVE SweepAlone(s)'
  <2>1. SweepAlone(s) /\ SweepInv(s) /\ sweep[s] \in SweepRecord
    BY Types DEF AInv, IInv
  <2>2. sweep'[s] = sweep[s] /\ KeyOf(s)' = KeyOf(s)
    BY <1>1 DEF KeyOf
  <2>3. ASSUME NEW j \in sweep[s].todo
        PROVE  Snapshot(j)' = Snapshot(j) /\ Prior(s, j)' = Prior(s, j)
    BY <1>1, <2>1, <2>2, SnapshotStands DEF SweepRecord, Prior, store
  <2>4. sweep[s].pc = "staged" => sweep[s].staged <= live'[KeyOf(s)]
    <3>1. SUFFICES ASSUME sweep[s].pc = "staged"
                   PROVE  sweep[s].staged <= live'[KeyOf(s)]
      OBVIOUS
    <3>2. KeyOf(s) \in Keys /\ sweep[s].staged <= live[KeyOf(s)]
      BY <2>1, <3>1 DEF SweepAlone, SweepRecord
    <3>3. sweep[s].staged \in Nat
      BY <2>1 DEF SweepRecord, Revs
    <3>4. QED BY <1>2, <1>3, <3>2, <3>3 DEF Revs
  <2>5. ListedDays(KeyOf(s))' = ListedDays(KeyOf(s))
    BY <1>1, <2>2 DEF ListedDays, Listed, store
  <2>6. QED
    BY <1>1, <2>1, <2>2, <2>3, <2>4, <2>5 DEF SweepAlone, Listed, store
<1>6. ASSUME NEW u \in Users PROVE VerbAlone(u)'
  <2>1. VerbAlone(u)
    BY DEF AInv
  <2>2. QED BY <1>1, <2>1 DEF VerbAlone, State, ResolvedDir, ResolvedDay,
                              ListedDays, Listed, store
<1>7. AtMostOne'
  BY <1>1 DEF AInv, AtMostOne
<1>8. QED BY <1>4, <1>5, <1>6, <1>7 DEF AInv

LEMMA FaultAlone ==
  ASSUME Alone, IInv, AInv, Fault
  PROVE  AInv'
<1>1. /\ sweep \in [Sweeps -> SweepRecord] /\ verb \in [Users -> VerbRecord]
      /\ UNCHANGED <<store, live>>
  BY Types DEF Fault, AbortSweep, SkipItem, AbortVerb, sources
<1>2. Levels'
  BY <1>1, Types, LevelsStand
<1>3. ASSUME NEW s \in Sweeps, AbortSweep(s), UNCHANGED verb PROVE AInv'
  <2>1. /\ sweep'[s].pc = "idle" /\ sweep[s].pc # "idle"
        /\ \A t \in Sweeps \ {s} : sweep'[t] = sweep[t]
    BY <1>1, <1>3 DEF AbortSweep, Idle
  <2>2. SweepAlone(s)'
    BY <2>1, AtRest
  <2>3. /\ \A t \in Sweeps \ {s} : sweep[t].pc = "idle"
        /\ \A u \in Users : verb[u].pc = "ready"
    BY <2>1, AtWorkSweep
  <2>4. QED BY <1>2, <1>3, <2>1, <2>2, <2>3, SweepOnly
<1>4. ASSUME NEW s \in Sweeps, NEW k \in Keys, SkipItem(s, k), UNCHANGED verb
      PROVE  AInv'
  <2>1. SweepAlone(s)' /\ Levels'
    BY <1>4, PassOverAlone DEF SkipItem
  <2>2. \A t \in Sweeps \ {s} : sweep'[t] = sweep[t]
    BY <1>1, <1>4 DEF SkipItem, NextItem
  <2>3. /\ \A t \in Sweeps \ {s} : sweep[t].pc = "idle"
        /\ \A u \in Users : verb[u].pc = "ready"
    BY <1>4, AtWorkSweep DEF SkipItem
  <2>4. QED BY <1>4, <2>1, <2>2, <2>3, SweepOnly
<1>5. ASSUME NEW u \in Users, AbortVerb(u), UNCHANGED <<sources, sweep>>
      PROVE  AInv'
  <2>1. /\ verb'[u].pc = "ready" /\ verb[u].pc # "ready"
        /\ \A x \in Users \ {u} : verb'[x] = verb[x]
    BY <1>1, <1>5 DEF AbortVerb, Ready
  <2>2. VerbAlone(u)'
    BY <2>1, AtRest
  <2>3. /\ \A s \in Sweeps : sweep[s].pc = "idle"
        /\ \A x \in Users \ {u} : verb[x].pc = "ready"
    BY <2>1, AtWorkVerb
  <2>4. QED BY <1>2, <1>5, <2>1, <2>2, <2>3, VerbOnly
<1>6. QED BY <1>3, <1>4, <1>5 DEF Fault

\* One command at a time, every step keeps the invariant.
LEMMA AloneInvariance ==
  ASSUME Alone = TRUE
  PROVE  Spec => [](IInv /\ AInv)
<1>1. Init => AInv
  <2> SUFFICES ASSUME Init PROVE AInv
    OBVIOUS
  <2>1. AtMostOne
    BY DEF Init, SweepInit, VerbInit, Idle, Ready, AtMostOne
  <2>2. Levels
    BY DEF Init, StoreInit, SweepInit, Levels, RecordNotAhead,
           OneShardPerSession, ListedDays, Listed, FreshEntryCoversRecord,
           State, NoSession, NoCuration, Dirs
  <2>3. ASSUME NEW s \in Sweeps PROVE SweepAlone(s)
    BY DEF Init, SweepInit, Idle, SweepAlone
  <2>4. ASSUME NEW u \in Users PROVE VerbAlone(u)
    BY DEF Init, VerbInit, Ready, VerbAlone
  <2>5. QED BY <2>1, <2>2, <2>3, <2>4 DEF AInv
<1>2. IInv /\ IInv' /\ AInv /\ [Next]_vars => AInv'
  <2> SUFFICES ASSUME IInv, IInv', AInv, [Next]_vars PROVE AInv'
    OBVIOUS
  <2>1. CASE World
    BY <2>1, WorldAlone
  <2>2. ASSUME NEW s \in Sweeps, Sweeping(s) PROVE AInv'
    BY <2>2, SweepingAlone
  <2>3. ASSUME NEW u \in Users, StartingVerb(u) \/ FinishingVerb(u) PROVE AInv'
    BY <2>3, VerbingAlone
  <2>4. CASE Fault
    BY <2>4, FaultAlone
  <2>5. CASE UNCHANGED vars
    <3>1. AtMostOne'
      BY <2>5 DEF AInv, AtMostOne, vars
    <3>2. Levels'
      BY <2>5, Types, LevelsStand DEF vars, sources
    <3>3. ASSUME NEW s \in Sweeps PROVE SweepAlone(s)'
      <4>1. SweepAlone(s)
        BY DEF AInv
      <4>2. ASSUME NEW j \in sweep[s].todo
            PROVE  Snapshot(j)' = Snapshot(j) /\ Prior(s, j)' = Prior(s, j)
        BY <2>5 DEF vars, store, Snapshot, WalkedDay, ListedDays, Listed, Prior
      <4>3. KeyOf(s)' = KeyOf(s) /\ ListedDays(KeyOf(s))' = ListedDays(KeyOf(s))
        BY <2>5 DEF vars, store, KeyOf, ListedDays, Listed
      <4>4. QED
        BY <2>5, <4>1, <4>2, <4>3 DEF SweepAlone, Listed, vars, store, sources
    <3>4. ASSUME NEW u \in Users PROVE VerbAlone(u)'
      <4>1. VerbAlone(u)
        BY DEF AInv
      <4>2. QED BY <2>5, <4>1 DEF VerbAlone, State, ResolvedDir, ResolvedDay,
                                 ListedDays, Listed, vars, store
    <3>5. QED BY <3>1, <3>2, <3>3, <3>4 DEF AInv
  <2>6. QED BY <2>1, <2>2, <2>3, <2>4, <2>5 DEF Next
<1>3. Spec => []IInv
  BY Invariance
<1>4. QED BY <1>1, <1>2, <1>3, PTL DEF Spec

-----------------------------------------------------------------------------
(***************************************************************************)
(* The theorems.                                                           *)
(***************************************************************************)

\* Whatever a command died in the middle of, no session.json is ahead of the
\* copy it describes (captureOne commits before it records).
THEOREM RecordNeverAhead ==
  ASSUME Alone = TRUE
  PROVE  Spec => []RecordNotAhead
<1>1. AInv => RecordNotAhead
  BY DEF AInv, Levels
<1>2. QED BY <1>1, AloneInvariance, PTL

\* No session is listed under two shards (captureOne keeps the shard the walk
\* found it in).
THEOREM AlwaysOneShardPerSession ==
  ASSUME Alone = TRUE
  PROVE  Spec => []OneShardPerSession
<1>1. AInv => OneShardPerSession
  BY DEF AInv, Levels
<1>2. QED BY <1>1, AloneInvariance, PTL

\* A curated session that is not stale has an entry drafted from a copy at
\* least as recent as its record (curate stamps what it walked, and every
\* later recapture changes the fingerprint).
THEOREM FreshEntryAlwaysCoversRecord ==
  ASSUME Alone = TRUE
  PROVE  Spec => []FreshEntryCoversRecord
<1>1. AInv => FreshEntryCoversRecord
  BY DEF AInv, Levels
<1>2. QED BY <1>1, AloneInvariance, PTL

\* Nothing but a verb changes a decision that is not capture's own, aborts
\* included (a sweep that acts has read the decision that still stands, and
\* acts on none or on its own).
THEOREM DecisionsAlwaysOutrank ==
  ASSUME Alone = TRUE
  PROVE  Spec => DecisionsOutrank
<1> DEFINE Outrank ==
             UNCHANGED verb =>
               \A d \in Dirs : curation[d] \notin {NoCuration, Dismissed(AutoNoop)}
                               => curation'[d] = curation[d]
<1>1. IInv /\ AInv /\ [Next]_vars => Outrank
  <2> SUFFICES ASSUME IInv, AInv, [Next]_vars, UNCHANGED verb, NEW d \in Dirs,
                      curation[d] \notin {NoCuration, Dismissed(AutoNoop)}
               PROVE  curation'[d] = curation[d]
    OBVIOUS
  <2>1. /\ sweep \in [Sweeps -> SweepRecord] /\ verb \in [Users -> VerbRecord]
        /\ curation \in [Dirs -> CurationDoc]
    BY Types
  <2>2. ASSUME NEW s \in Sweeps, Sweeping(s) PROVE curation'[d] = curation[d]
    <3>1. CASE AutoDismiss(s) \/ RetractDismissal(s)
      <4>1. /\ sweep[s].pc = "read"
            /\ sweep[s].read \in {NoCuration, Dismissed(AutoNoop)}
        <5>1. sweep[s].read \in CurationDoc
          BY <2>1 DEF SweepRecord
        <5>2. sweep[s].read.state = "captured" => sweep[s].read = NoCuration
          BY <5>1 DEF CurationDoc, NoCuration, Curated, Dismissed
        <5>3. QED BY <3>1, <5>2 DEF AutoDismiss, RetractDismissal, MustDismiss,
                                    MustRetract
      <4>2. sweep[s].read = curation[sweep[s].dir]
        BY <4>1 DEF AInv, SweepAlone
      <4>3. d # sweep[s].dir
        BY <4>1, <4>2
      <4>4. QED BY <2>1, <3>1, <4>3 DEF AutoDismiss, RetractDismissal,
                                        WriteCuration, RemoveCuration
    <3>2. CASE ~(AutoDismiss(s) \/ RetractDismissal(s))
      BY <2>2, <3>2
      DEF Sweeping, SweepStep, StartSweep, EndSweep, LeaveAlone,
          ResolveBackfill, Stage, WriteBackfill, Commit, Record, ReadDecision,
          KeepDecision, store
    <3>3. QED BY <3>1, <3>2
  <2>3. ASSUME NEW u \in Users, StartingVerb(u) \/ FinishingVerb(u)
        PROVE  FALSE
    <3>1. CASE StartingVerb(u)
      <4>1. PICK k \in Keys : Draft(u, k) \/ BeginDismiss(u, k) \/ BeginUndismiss(u, k)
        BY <3>1 DEF StartingVerb, BeginVerb
      <4>2. verb[u].pc = "ready"
        BY <4>1 DEF Draft, BeginDismiss, BeginUndismiss
      <4>3. verb'[u].pc # "ready"
        <5>1. CASE Draft(u, k)
          BY <2>1, <5>1 DEF Draft, Ready
        <5>2. CASE BeginDismiss(u, k)
          BY <2>1, <5>2 DEF BeginDismiss, Ready
        <5>3. CASE BeginUndismiss(u, k)
          BY <2>1, <5>3 DEF BeginUndismiss, Ready
        <5>4. QED BY <4>1, <5>1, <5>2, <5>3
      <4>4. QED BY <4>2, <4>3
    <3>2. CASE FinishingVerb(u)
      <4>1. verb[u] \in VerbRecord
        BY <2>1
      <4>2. CASE BeginCurate(u) \/ EnterEntry(u)
        BY <2>1, <4>1, <4>2 DEF BeginCurate, EnterEntry, VerbRecord
      <4>3. CASE EndCurate(u) \/ EndDismiss(u) \/ EndUndismiss(u)
        BY <2>1, <4>3 DEF EndCurate, EndDismiss, EndUndismiss, Ready
      <4>4. QED BY <3>2, <4>2, <4>3 DEF FinishingVerb, FinishVerb
    <3>3. QED BY <2>3, <3>1, <3>2
  <2>4. CASE World \/ Fault \/ UNCHANGED vars
    BY <2>4 DEF World, Grow, Midnight, Register, Fault, AbortSweep, SkipItem,
                AbortVerb, vars, store
  <2>5. QED BY <2>2, <2>3, <2>4 DEF Next
<1>2. QED
  BY <1>1, AloneInvariance, PTL DEF Spec, DecisionsOutrank

-----------------------------------------------------------------------------
(***************************************************************************)
(* The journal implements the lifecycle: each step moves one session along *)
(* one edge, or none.                                                      *)
(***************************************************************************)
Phase(d) == IF Listed(d) THEN State(d) ELSE "absent"
Phases == [d \in Dirs |-> Phase(d)]

\* The edges of CurationLifecycle, and staying put.
MayBecome(from, to) ==
  \/ from = to
  \/ from = "absent" /\ to = "captured"
  \/ from \in {"captured", "dismissed"} /\ to = "curated"
  \/ from = "captured" /\ to = "dismissed"
  \/ from = "dismissed" /\ to = "captured"

LEMMA OneMove ==
  ASSUME NEW d \in Dirs, MayBecome(Phase(d), Phase(d)'),
         \A x \in Dirs \ {d} : Phase(x)' = Phase(x)
  PROVE  Lifecycle!Next \/ UNCHANGED Phases
<1>1. Phases' = [Phases EXCEPT ![d] = Phase(d)'] /\ Phases[d] = Phase(d)
  BY DEF Phases
<1>2. CASE Phase(d)' = Phase(d)
  BY <1>1, <1>2 DEF Phases
<1>3. CASE Phase(d)' # Phase(d)
  <2>1. \/ Lifecycle!Capture(d) \/ Lifecycle!Curate(d)
        \/ Lifecycle!Dismiss(d) \/ Lifecycle!Undismiss(d)
    BY <1>1, <1>3 DEF MayBecome, Phases, Phase, Lifecycle!Capture,
      Lifecycle!Curate, Lifecycle!Dismiss, Lifecycle!Undismiss, Lifecycle!Move
  <2>2. QED BY <2>1 DEF Lifecycle!Next
<1>4. QED BY <1>2, <1>3

\* The phases depend on the records and the decisions only.
LEMMA PhasesStand ==
  ASSUME UNCHANGED curation, \A d \in Dirs : session'[d].rev = session[d].rev
  PROVE  UNCHANGED Phases
BY DEF Phases, Phase, Listed, State

LEMMA SweepMovesOne ==
  ASSUME IInv, AInv, NEW s \in Sweeps, SweepStep(s)
  PROVE  Lifecycle!Next \/ UNCHANGED Phases
<1> DEFINE d == sweep[s].dir
<1>1. /\ sweep[s] \in SweepRecord /\ SweepAlone(s) /\ SweepInv(s) /\ Levels
      /\ session \in [Dirs -> SessionDoc] /\ curation \in [Dirs -> CurationDoc]
  BY Types DEF AInv, IInv
<1>2. CASE Record(s)
  <2>1. /\ d \in Dirs /\ sweep[s].staged # 0 /\ UNCHANGED curation
        /\ session' = [session EXCEPT ![d] = [rev |-> sweep[s].staged,
                                              project |-> sweep[s].project]]
    BY <1>1, <1>2 DEF Record, WriteSession, SweepInv, Holding
  <2>2. PICK x \in Dirs : x = d
    BY <2>1
  <2>3. Listed(x)' /\ \A y \in Dirs \ {x} : Phase(y)' = Phase(y)
    BY <1>1, <2>1, <2>2 DEF Phase, Listed, State
  <2>4. State(x)' = State(x) /\ (~Listed(x) => State(x) = "captured")
    BY <1>1, <2>1, <2>2 DEF State, Levels, NoCuration
  <2>5. MayBecome(Phase(x), Phase(x)')
    BY <2>3, <2>4 DEF MayBecome, Phase
  <2>6. QED BY <2>3, <2>5, OneMove
<1>3. CASE AutoDismiss(s) \/ RetractDismissal(s)
  <2>1. /\ d \in Dirs /\ Listed(d) /\ sweep[s].read = curation[d]
        /\ UNCHANGED session
    BY <1>1, <1>3 DEF AutoDismiss, RetractDismissal, SweepInv, SweepAlone, Holding
  <2>2. PICK x \in Dirs : x = d
    BY <2>1
  <2>3. \/ /\ State(x) = "captured"
           /\ curation' = [curation EXCEPT ![x] = Dismissed(AutoNoop)]
        \/ /\ State(x) = "dismissed"
           /\ curation' = [curation EXCEPT ![x] = NoCuration]
    BY <1>3, <2>1, <2>2 DEF AutoDismiss, RetractDismissal, MustDismiss,
      MustRetract, WriteCuration, RemoveCuration, State, Dismissed
  <2>4. /\ Listed(x) /\ Listed(x)'
        /\ \A y \in Dirs \ {x} : Phase(y)' = Phase(y)
    BY <1>1, <2>1, <2>2, <2>3 DEF Phase, Listed, State
  <2>5. MayBecome(Phase(x), Phase(x)')
    BY <1>1, <2>3, <2>4 DEF MayBecome, Phase, State, Dismissed, NoCuration
  <2>6. QED BY <2>4, <2>5, OneMove
<1>4. CASE WriteBackfill(s)
  BY <1>4, BackfillTarget, PhasesStand DEF WriteBackfill
<1>5. CASE Commit(s)
  BY <1>5, PhasesStand DEF Commit
<1>6. CASE UNCHANGED store
  BY <1>6, PhasesStand DEF store
<1>7. QED
  BY <1>2, <1>3, <1>4, <1>5, <1>6
  DEF SweepStep, StartSweep, EndSweep, LeaveAlone, ResolveBackfill, Stage,
      ReadDecision, KeepDecision

LEMMA VerbMovesOne ==
  ASSUME IInv, AInv, NEW u \in Users, StartingVerb(u) \/ FinishingVerb(u)
  PROVE  Lifecycle!Next \/ UNCHANGED Phases
<1>1. /\ VerbAlone(u) /\ VerbInv(u) /\ verb[u] \in VerbRecord
      /\ curation \in [Dirs -> CurationDoc]
  BY Types DEF AInv, IInv
<1>2. CASE EndCurate(u) \/ EndDismiss(u) \/ EndUndismiss(u)
  <2>1. /\ verb[u].dir \in Dirs /\ Listed(verb[u].dir) /\ UNCHANGED session
    BY <1>1, <1>2 DEF EndCurate, EndDismiss, EndUndismiss, VerbInv
  <2>2. PICK x \in Dirs : x = verb[u].dir
    BY <2>1
  <2>3. State(x) \in {"captured", "curated", "dismissed"}
    BY <1>1 DEF State, CurationDoc, NoCuration, Curated, Dismissed
  <2>4. PICK doc \in CurationDoc : /\ WriteCuration(x, doc)
                                   /\ MayBecome(State(x), doc.state)
    <3>1. CASE EndCurate(u)
      <4>1. Curated(verb[u].rev) \in CurationDoc
        BY <1>1 DEF CurationDoc, VerbRecord
      <4>2. MayBecome(State(x), Curated(verb[u].rev).state)
        BY <2>3 DEF Curated, MayBecome
      <4>3. QED BY <2>2, <3>1, <4>1, <4>2 DEF EndCurate
    <3>2. CASE EndDismiss(u)
      <4>1. Dismissed("manual") \in CurationDoc
        BY DEF CurationDoc
      <4>2. State(x) # "curated"
        BY <1>1, <2>2, <3>2 DEF EndDismiss, VerbAlone
      <4>3. MayBecome(State(x), Dismissed("manual").state)
        BY <2>3, <4>2 DEF Dismissed, MayBecome
      <4>4. QED BY <2>2, <3>2, <4>1, <4>3 DEF EndDismiss
    <3>3. CASE EndUndismiss(u)
      <4>1. NoCuration \in CurationDoc
        BY DEF CurationDoc
      <4>2. State(x) = "dismissed"
        BY <1>1, <2>2, <3>3 DEF EndUndismiss, VerbAlone
      <4>3. MayBecome(State(x), NoCuration.state)
        BY <4>2 DEF NoCuration, MayBecome
      <4>4. QED
        BY <2>2, <3>3, <4>1, <4>3 DEF EndUndismiss, RemoveCuration
    <3>4. QED BY <1>2, <3>1, <3>2, <3>3
  <2>5. /\ Listed(x) /\ Listed(x)' /\ State(x)' = doc.state
        /\ \A y \in Dirs \ {x} : Phase(y)' = Phase(y)
    BY <1>1, <2>1, <2>2, <2>4 DEF Phase, Listed, State, WriteCuration
  <2>6. MayBecome(Phase(x), Phase(x)')
    BY <2>4, <2>5 DEF Phase, MayBecome
  <2>7. QED BY <2>5, <2>6, OneMove
<1>3. CASE EnterEntry(u)
  BY <1>3, PhasesStand DEF EnterEntry
<1>4. CASE UNCHANGED store
  BY <1>4, PhasesStand DEF store
<1>5. QED
  BY <1>2, <1>3, <1>4
  DEF StartingVerb, FinishingVerb, BeginVerb, FinishVerb, Draft, BeginDismiss,
      BeginUndismiss, BeginCurate

\* One command at a time, with any number of them aborted, every session only
\* ever moves along the lifecycle's edges.
THEOREM JournalFollowsLifecycle ==
  ASSUME Alone = TRUE
  PROVE  Spec => FollowsLifecycle
<1>1. Init => Lifecycle!Init
  BY DEF Init, StoreInit, Lifecycle!Init, Listed, NoSession
<1>2. IInv /\ AInv /\ [Next]_vars => Lifecycle!Next \/ UNCHANGED Phases
  <2> SUFFICES ASSUME IInv, AInv, [Next]_vars
               PROVE  Lifecycle!Next \/ UNCHANGED Phases
    OBVIOUS
  <2>1. ASSUME NEW s \in Sweeps, Sweeping(s)
        PROVE  Lifecycle!Next \/ UNCHANGED Phases
    BY <2>1, SweepMovesOne DEF Sweeping
  <2>2. ASSUME NEW u \in Users, StartingVerb(u) \/ FinishingVerb(u)
        PROVE  Lifecycle!Next \/ UNCHANGED Phases
    BY <2>2, VerbMovesOne
  <2>3. CASE World \/ Fault \/ UNCHANGED vars
    <3>1. UNCHANGED store
      BY <2>3 DEF World, Grow, Midnight, Register, Fault, AbortSweep, SkipItem,
                  AbortVerb, vars
    <3>2. QED BY <3>1, PhasesStand DEF store
  <2>4. QED BY <2>1, <2>2, <2>3 DEF Next
<1>3. IInv /\ AInv /\ [Next]_vars
        => [Lifecycle!Next]_([d \in Dirs |-> IF Listed(d) THEN State(d) ELSE "absent"])
  BY <1>2 DEF Phases, Phase
<1>4. QED
  BY <1>1, <1>3, AloneInvariance, PTL DEF Spec, FollowsLifecycle, Lifecycle!Spec

-----------------------------------------------------------------------------
(***************************************************************************)
(* What commands that run to their end leave settled.  Both facts have     *)
(* their moment of untruth, between two writes of one command, and the     *)
(* invariant names who is in it.                                           *)
(***************************************************************************)
BeingEntered(d) == \E u \in Users : verb[u].pc = "entered" /\ verb[u].dir = d
BeingSettled(d) ==
  \E s \in Sweeps : sweep[s].pc \in {"recorded", "read"} /\ sweep[s].dir = d

EntriesDecided ==
  /\ \A d \in Dirs : entry[d] # 0 => State(d) = "curated" \/ BeingEntered(d)
  /\ \A u \in Users : verb[u].pc = "dismissing" => entry[verb[u].dir] = 0

GrownSettled ==
  \A d \in Dirs :
    session[d].rev \in Substantive /\ curation[d] = Dismissed(AutoNoop)
    => BeingSettled(d)

RecordedStaged ==
  \A s \in Sweeps : sweep[s].pc \in {"recorded", "read"} =>
    session[sweep[s].dir].rev = sweep[s].staged

SInv ==
  /\ RecordedStaged
  /\ faults = 0 => EntriesDecided /\ GrownSettled

\* The steps of a sweep that write no decision and change no revision.
SweepPasses(s) ==
  \/ StartSweep(s)
  \/ EndSweep(s)
  \/ \E k \in Keys : LeaveAlone(s, k) \/ ResolveBackfill(s, k) \/ Stage(s, k)
                     \/ SkipItem(s, k)
  \/ WriteBackfill(s)
  \/ Commit(s)

LEMMA PassesFrame ==
  ASSUME IInv, AInv, NEW s \in Sweeps, SweepPasses(s)
  PROVE  /\ UNCHANGED <<curation, entry>>
         /\ \A d \in Dirs : session'[d].rev = session[d].rev
         /\ sweep[s].pc \notin {"recorded", "read"}
         /\ sweep'[s].pc \notin {"recorded", "read"}
<1>1. sweep \in [Sweeps -> SweepRecord]
  BY Types
<1>2. CASE WriteBackfill(s)
  <2>1. \A d \in Dirs : session'[d].rev = session[d].rev
    BY <1>2, BackfillTarget
  <2>2. NextItem(s, KeyOf(s)) /\ sweep[s].pc = "backfill"
    BY <1>2 DEF WriteBackfill
  <2>3. sweep'[s].pc = "sweeping"
    BY <1>1, <2>2 DEF NextItem, Idle
  <2>4. UNCHANGED <<curation, entry>>
    BY <1>2 DEF WriteBackfill
  <2>5. QED BY <2>1, <2>2, <2>3, <2>4
<1>3. CASE StartSweep(s) \/ EndSweep(s)
  <2>1. UNCHANGED store /\ sweep[s].pc \in {"idle", "sweeping"}
    BY <1>3 DEF StartSweep, EndSweep
  <2>2. sweep'[s].pc \in {"idle", "sweeping"}
    <3>1. CASE StartSweep(s)
      BY <1>1, <3>1 DEF StartSweep, Idle
    <3>2. CASE EndSweep(s)
      BY <1>1, <3>2 DEF EndSweep, Idle
    <3>3. QED BY <1>3, <3>1, <3>2
  <2>3. QED BY <2>1, <2>2 DEF store
<1>4. ASSUME NEW k \in Keys,
             LeaveAlone(s, k) \/ SkipItem(s, k) \/ ResolveBackfill(s, k) \/ Stage(s, k)
      PROVE  /\ UNCHANGED <<curation, entry, session>>
             /\ sweep[s].pc \notin {"recorded", "read"}
             /\ sweep'[s].pc \notin {"recorded", "read"}
  <2>1. CASE LeaveAlone(s, k) \/ SkipItem(s, k)
    <3>1. /\ NextItem(s, k) /\ UNCHANGED <<curation, entry, session>>
          /\ sweep[s].pc = "sweeping"
      BY <2>1 DEF LeaveAlone, SkipItem, store
    <3>2. sweep'[s].pc = "sweeping"
      BY <1>1, <3>1 DEF NextItem, Idle
    <3>3. QED BY <3>1, <3>2
  <2>2. CASE ResolveBackfill(s, k) \/ Stage(s, k)
    BY <1>1, <2>2 DEF ResolveBackfill, Stage, SweepRecord, store
  <2>3. QED BY <1>4, <2>1, <2>2
<1>5. CASE Commit(s)
  BY <1>1, <1>5 DEF Commit
<1>6. QED BY <1>2, <1>3, <1>4, <1>5 DEF SweepPasses

\* While a sweep is at work no verb is: an entry is a curated session's.
LEMMA SweepingSettles ==
  ASSUME Alone, IInv, AInv, SInv, NEW s \in Sweeps,
         SweepStep(s) \/ SweepPasses(s), UNCHANGED verb,
         sweep[s].pc = "idle" => Quiet,
         \A t \in Sweeps \ {s} : sweep'[t] = sweep[t],
         faults' = 0 => faults = 0
  PROVE  SInv'
<1> DEFINE d == sweep[s].dir
<1>1. /\ sweep \in [Sweeps -> SweepRecord] /\ SweepInv(s) /\ SweepAlone(s)
      /\ session \in [Dirs -> SessionDoc] /\ curation \in [Dirs -> CurationDoc]
  BY Types DEF AInv, IInv
<1>2. /\ \A t \in Sweeps \ {s} : sweep[t].pc = "idle" /\ sweep'[t].pc = "idle"
      /\ \A u \in Users : verb[u].pc = "ready" /\ verb'[u].pc = "ready"
  BY AtWorkSweep
<1>3. ASSUME EntriesDecided, UNCHANGED entry,
             \A x \in Dirs : State(x) = "curated" => State(x)' = "curated"
      PROVE  EntriesDecided'
  BY <1>2, <1>3 DEF EntriesDecided, BeingEntered
<1>4. CASE SweepPasses(s)
  <2>1. /\ UNCHANGED <<curation, entry>>
        /\ \A x \in Dirs : session'[x].rev = session[x].rev
        /\ \A t \in Sweeps : sweep[t].pc \notin {"recorded", "read"}
        /\ \A t \in Sweeps : sweep'[t].pc \notin {"recorded", "read"}
    BY <1>2, <1>4, PassesFrame
  <2>2. RecordedStaged'
    BY <2>1 DEF RecordedStaged
  <2>3. GrownSettled => GrownSettled'
    BY <2>1 DEF GrownSettled, BeingSettled
  <2>4. EntriesDecided => EntriesDecided'
    BY <1>3, <2>1 DEF State
  <2>5. QED BY <2>2, <2>3, <2>4 DEF SInv
<1>5. CASE Record(s)
  <2>1. /\ d \in Dirs /\ UNCHANGED <<curation, entry>>
        /\ session' = [session EXCEPT ![d] = [rev |-> sweep[s].staged,
                                              project |-> sweep[s].project]]
    BY <1>1, <1>5 DEF Record, WriteSession, SweepInv, Holding
  <2>2. /\ sweep'[s].pc = "recorded" /\ sweep'[s].dir = d
        /\ sweep'[s].staged = sweep[s].staged
    BY <1>1, <1>5 DEF Record, SweepRecord
  <2>3. /\ session'[d].rev = sweep[s].staged
        /\ \A x \in Dirs \ {d} : session'[x] = session[x]
    BY <1>1, <2>1
  <2>4. RecordedStaged'
    BY <1>2, <2>2, <2>3 DEF RecordedStaged
  <2>5. ASSUME GrownSettled PROVE GrownSettled'
    <3>1. \A t \in Sweeps : sweep[t].pc \notin {"recorded", "read"}
      BY <1>2, <1>5 DEF Record
    <3>2. \A x \in Dirs : x = d => BeingSettled(x)'
      BY <2>2 DEF BeingSettled
    <3>3. ASSUME NEW x \in Dirs \ {d}, session'[x].rev \in Substantive,
                 curation'[x] = Dismissed(AutoNoop)
          PROVE  FALSE
      BY <2>1, <2>3, <2>5, <3>1, <3>3 DEF GrownSettled, BeingSettled
    <3>4. QED BY <3>2, <3>3 DEF GrownSettled
  <2>6. EntriesDecided => EntriesDecided'
    BY <1>3, <2>1 DEF State
  <2>7. QED BY <2>4, <2>5, <2>6 DEF SInv
<1>6. CASE ReadDecision(s)
  <2>1. /\ UNCHANGED <<curation, entry, session>>
        /\ sweep'[s].pc = "read" /\ sweep[s].pc = "recorded"
        /\ sweep'[s].dir = d /\ sweep'[s].staged = sweep[s].staged
    BY <1>1, <1>6 DEF ReadDecision, SweepRecord, store
  <2>2. RecordedStaged'
    BY <1>2, <2>1 DEF RecordedStaged, SInv
  <2>3. ASSUME GrownSettled PROVE GrownSettled'
    BY <1>2, <2>1, <2>3 DEF GrownSettled, BeingSettled
  <2>4. EntriesDecided => EntriesDecided'
    BY <1>3, <2>1 DEF State
  <2>5. QED BY <2>2, <2>3, <2>4 DEF SInv
<1>7. CASE AutoDismiss(s) \/ RetractDismissal(s) \/ KeepDecision(s)
  <2>1. /\ sweep[s].pc = "read" /\ d \in Dirs /\ sweep[s].read = curation[d]
        /\ session[d].rev = sweep[s].staged
        /\ UNCHANGED <<session, entry>>
        /\ sweep'[s].pc = "sweeping"
    <3>1. sweep[s].pc = "read" /\ NextItem(s, KeyOf(s)) /\ UNCHANGED <<session, entry>>
      BY <1>7 DEF AutoDismiss, RetractDismissal, KeepDecision, store
    <3>2. sweep'[s].pc = "sweeping"
      BY <1>1, <3>1 DEF NextItem, Idle
    <3>3. QED
      BY <1>1, <3>1, <3>2 DEF SweepInv, Holding, SweepAlone, SInv, RecordedStaged
  <2>2. \A x \in Dirs \ {d} : curation'[x] = curation[x]
    BY <1>1, <1>7, <2>1 DEF AutoDismiss, RetractDismissal, KeepDecision,
      WriteCuration, RemoveCuration, store
  <2>3. /\ curation[d].state = "curated" => curation'[d].state = "curated"
        /\ session[d].rev \in Substantive => curation'[d] # Dismissed(AutoNoop)
    <3>1. CASE AutoDismiss(s)
      BY <1>1, <2>1, <3>1 DEF AutoDismiss, MustDismiss, WriteCuration
    <3>2. CASE RetractDismissal(s)
      <4>1. curation'[d] = NoCuration
        BY <1>1, <2>1, <3>2 DEF RetractDismissal, RemoveCuration, WriteCuration
      <4>2. NoCuration # Dismissed(AutoNoop)
        BY DEF NoCuration, Dismissed
      <4>3. curation[d].state # "curated"
        BY <2>1, <3>2 DEF RetractDismissal, MustRetract, Dismissed
      <4>4. QED BY <4>1, <4>2, <4>3
    <3>3. CASE KeepDecision(s)
      BY <2>1, <3>3 DEF KeepDecision, MustRetract, store
    <3>4. QED BY <1>7, <3>1, <3>2, <3>3
  <2>4. RecordedStaged'
    BY <1>2, <2>1 DEF RecordedStaged
  <2>5. ASSUME GrownSettled PROVE GrownSettled'
    <3>1. ASSUME NEW x \in Dirs \ {d}, session'[x].rev \in Substantive,
                 curation'[x] = Dismissed(AutoNoop)
          PROVE  FALSE
      <4>1. BeingSettled(x)
        BY <2>1, <2>2, <2>5, <3>1 DEF GrownSettled
      <4>2. QED BY <1>2, <4>1 DEF BeingSettled
    <3>2. QED BY <2>1, <2>3, <3>1 DEF GrownSettled
  <2>6. \A x \in Dirs : State(x) = "curated" => State(x)' = "curated"
    BY <2>2, <2>3 DEF State
  <2>7. EntriesDecided => EntriesDecided'
    BY <1>3, <2>1, <2>6
  <2>8. QED BY <2>4, <2>5, <2>7 DEF SInv
<1>8. QED
  BY <1>4, <1>5, <1>6, <1>7 DEF SweepStep, SweepPasses

\* A verb at work is the only one, and no sweep is.
LEMMA VerbingSettles ==
  ASSUME Alone, IInv, AInv, SInv, NEW u \in Users,
         StartingVerb(u) \/ FinishingVerb(u)
  PROVE  SInv'
<1> DEFINE d == verb[u].dir
<1>1. /\ verb \in [Users -> VerbRecord] /\ VerbInv(u) /\ VerbAlone(u)
      /\ curation \in [Dirs -> CurationDoc] /\ entry \in [Dirs -> Revs]
  BY Types DEF AInv, IInv
<1>2. /\ \A s \in Sweeps : sweep[s].pc = "idle"
      /\ \A v \in Users \ {u} : verb[v].pc = "ready"
  <2>1. verb[u].pc = "ready" => Quiet
    BY DEF StartingVerb, FinishingVerb, FinishVerb, BeginCurate, EnterEntry,
           EndCurate, EndDismiss, EndUndismiss
  <2>2. QED BY <2>1, AtWorkVerb
<1>3. UNCHANGED <<session, sweep, faults>>
  BY DEF StartingVerb, FinishingVerb, BeginVerb, FinishVerb, Draft, BeginDismiss,
         BeginUndismiss, BeginCurate, EnterEntry, EndCurate, EndDismiss,
         EndUndismiss, store
<1>4. \A v \in Users \ {u} : verb'[v] = verb[v]
  BY <1>1
  DEF StartingVerb, FinishingVerb, BeginVerb, FinishVerb, Draft, BeginDismiss,
      BeginUndismiss, BeginCurate, EnterEntry, EndCurate, EndDismiss, EndUndismiss
<1>5. RecordedStaged'
  BY <1>2, <1>3 DEF RecordedStaged
<1>6. ASSUME GrownSettled,
             \A x \in Dirs : curation'[x] = Dismissed(AutoNoop)
                               => curation[x] = Dismissed(AutoNoop)
      PROVE  GrownSettled'
  BY <1>2, <1>3, <1>6 DEF GrownSettled, BeingSettled
<1>7. CASE BeginVerb(u) \/ BeginCurate(u)
  <2>1. /\ UNCHANGED <<curation, entry>>
        /\ verb[u].pc # "entered"
    BY <1>7 DEF BeginVerb, Draft, BeginDismiss, BeginUndismiss, BeginCurate, store
  <2>2. GrownSettled => GrownSettled'
    BY <1>6, <2>1
  <2>3. ASSUME EntriesDecided PROVE EntriesDecided'
    <3>1. \A x \in Dirs : entry'[x] # 0 => State(x)' = "curated"
      BY <1>2, <2>1, <2>3 DEF EntriesDecided, BeingEntered, State
    <3>2. verb'[u].pc = "dismissing" => entry[verb'[u].dir] = 0
      <4>1. CASE BeginCurate(u)
        BY <1>1, <4>1 DEF BeginCurate, VerbRecord
      <4>2. ASSUME NEW k \in Keys, Draft(u, k) \/ BeginUndismiss(u, k)
            PROVE  verb'[u].pc # "dismissing"
        BY <1>1, <4>2 DEF Draft, BeginUndismiss, Ready
      <4>3. ASSUME NEW k \in Keys, BeginDismiss(u, k)
            PROVE  entry[verb'[u].dir] = 0
        BY <1>1, <4>3 DEF BeginDismiss, Ready
      <4>4. QED BY <1>7, <4>1, <4>2, <4>3 DEF BeginVerb
    <3>3. verb'[u].pc = "dismissing" => entry'[verb'[u].dir] = 0
      BY <2>1, <3>2
    <3>4. QED BY <1>2, <1>4, <3>1, <3>3 DEF EntriesDecided
  <2>4. QED BY <1>3, <1>5, <2>2, <2>3 DEF SInv
<1>8. CASE EnterEntry(u)
  <2>1. /\ d \in Dirs /\ UNCHANGED curation
        /\ verb'[u].pc = "entered" /\ verb'[u].dir = d
        /\ \A x \in Dirs \ {d} : entry'[x] = entry[x]
    BY <1>1, <1>8 DEF EnterEntry, VerbInv, VerbRecord, WriteEntry
  <2>2. GrownSettled => GrownSettled'
    BY <1>6, <2>1
  <2>3. ASSUME EntriesDecided PROVE EntriesDecided'
    <3>1. \A x \in Dirs : x = d => BeingEntered(x)'
      BY <2>1 DEF BeingEntered
    <3>2. verb[u].pc # "entered"
      BY <1>8 DEF EnterEntry
    <3>3. \A x \in Dirs \ {d} : entry'[x] # 0 => State(x)' = "curated"
      BY <1>2, <2>1, <2>3, <3>2 DEF EntriesDecided, BeingEntered, State
    <3>4. QED BY <1>2, <1>4, <2>1, <3>1, <3>3 DEF EntriesDecided
  <2>4. QED BY <1>3, <1>5, <2>2, <2>3 DEF SInv
<1>9. CASE EndCurate(u) \/ EndDismiss(u) \/ EndUndismiss(u)
  <2>1. /\ d \in Dirs /\ UNCHANGED entry
        /\ verb'[u].pc = "ready"
        /\ \A x \in Dirs \ {d} : curation'[x] = curation[x]
    BY <1>1, <1>9 DEF EndCurate, EndDismiss, EndUndismiss, VerbInv, Ready,
      WriteCuration, RemoveCuration
  <2>2. curation'[d] # Dismissed(AutoNoop)
    BY <1>1, <1>9, <2>1 DEF EndCurate, EndDismiss, EndUndismiss, WriteCuration,
      RemoveCuration, NoCuration, Curated, Dismissed, AutoNoop
  <2>3. GrownSettled => GrownSettled'
    BY <1>6, <2>1, <2>2
  <2>4. ASSUME EntriesDecided PROVE EntriesDecided'
    <3>1. \A x \in Dirs \ {d} : entry'[x] # 0 => State(x)' = "curated"
      BY <1>2, <2>1, <2>4 DEF EntriesDecided, BeingEntered, State
    <3>2. entry'[d] # 0 => curation'[d].state = "curated"
      <4>1. CASE EndCurate(u)
        BY <1>1, <2>1, <4>1 DEF EndCurate, WriteCuration, Curated
      <4>2. CASE EndDismiss(u)
        BY <2>1, <2>4, <4>2 DEF EndDismiss, EntriesDecided
      <4>3. CASE EndUndismiss(u)
        <5>1. verb[u].pc = "undismissing" /\ curation[d].state = "dismissed"
          BY <1>1, <4>3 DEF EndUndismiss, VerbAlone, State
        <5>2. entry[d] = 0
          BY <1>2, <2>1, <2>4, <5>1 DEF EntriesDecided, BeingEntered, State
        <5>3. QED BY <2>1, <5>2
      <4>4. QED BY <1>9, <4>1, <4>2, <4>3
    <3>3. \A x \in Dirs : entry'[x] # 0 => State(x)' = "curated"
      BY <3>1, <3>2 DEF State
    <3>4. QED BY <1>2, <1>4, <2>1, <3>3 DEF EntriesDecided
  <2>5. QED BY <1>3, <1>5, <2>3, <2>4 DEF SInv
<1>10. QED BY <1>7, <1>8, <1>9 DEF StartingVerb, FinishingVerb, FinishVerb

\* An aborted command leaves nothing settled: only what is recorded stands.
LEMMA FaultSettles ==
  ASSUME Alone, IInv, AInv, SInv, Fault
  PROVE  SInv'
<1>1. /\ sweep \in [Sweeps -> SweepRecord] /\ UNCHANGED store
      /\ faults' = faults + 1 /\ faults \in Nat
  BY Types DEF Fault, AbortSweep, SkipItem, AbortVerb, IInv, TypeOK
<1>2. faults' # 0
  BY <1>1
<1>3. ASSUME NEW t \in Sweeps, sweep'[t].pc \in {"recorded", "read"}
      PROVE  sweep'[t] = sweep[t]
  <2>1. ASSUME NEW s \in Sweeps, AbortSweep(s) PROVE sweep'[t] = sweep[t]
    BY <1>1, <1>3, <2>1 DEF AbortSweep, Idle
  <2>2. ASSUME NEW s \in Sweeps, NEW k \in Keys, SkipItem(s, k)
        PROVE  sweep'[t] = sweep[t]
    BY <1>1, <1>3, <2>2 DEF SkipItem, NextItem, Idle
  <2>3. QED BY <2>1, <2>2 DEF Fault
<1>4. RecordedStaged'
  BY <1>1, <1>3 DEF SInv, RecordedStaged, store
<1>5. QED BY <1>2, <1>4 DEF SInv

LEMMA SettledInvariance ==
  ASSUME Alone = TRUE
  PROVE  Spec => [](IInv /\ AInv /\ SInv)
<1>1. Init => SInv
  <2> SUFFICES ASSUME Init PROVE SInv
    OBVIOUS
  <2>1. RecordedStaged
    BY DEF Init, SweepInit, Idle, RecordedStaged
  <2>2. EntriesDecided
    BY DEF Init, StoreInit, VerbInit, Ready, EntriesDecided
  <2>3. GrownSettled
    BY DEF Init, StoreInit, GrownSettled, NoCuration, Dismissed
  <2>4. QED BY <2>1, <2>2, <2>3 DEF SInv
<1>2. IInv /\ AInv /\ SInv /\ [Next]_vars => SInv'
  <2> SUFFICES ASSUME IInv, AInv, SInv, [Next]_vars PROVE SInv'
    OBVIOUS
  <2>1. CASE World \/ UNCHANGED vars
    <3>1. UNCHANGED <<store, sweep, verb, faults>>
      BY <2>1 DEF World, Grow, Midnight, Register, vars
    <3>2. UNCHANGED <<curation, entry, session, sweep, verb, faults>>
      BY <3>1 DEF store
    <3>3. QED
      BY <3>2 DEF SInv, RecordedStaged, EntriesDecided, GrownSettled,
        BeingEntered, BeingSettled, State
  <2>2. ASSUME NEW s \in Sweeps, Sweeping(s) PROVE SInv'
    <3>1. /\ SweepStep(s) /\ UNCHANGED <<verb, faults>>
          /\ sweep[s].pc = "idle" => Quiet
      BY <2>2 DEF Sweeping
    <3>2. \A t \in Sweeps \ {s} : sweep'[t] = sweep[t]
      BY <3>1, Types
      DEF SweepStep, StartSweep, EndSweep, LeaveAlone, ResolveBackfill, Stage,
          WriteBackfill, Commit, Record, ReadDecision, AutoDismiss,
          RetractDismissal, KeepDecision, NextItem
    <3>3. QED BY <3>1, <3>2, SweepingSettles
  <2>3. ASSUME NEW u \in Users, StartingVerb(u) \/ FinishingVerb(u) PROVE SInv'
    BY <2>3, VerbingSettles
  <2>4. CASE Fault
    BY <2>4, FaultSettles
  <2>5. QED BY <2>1, <2>2, <2>3, <2>4 DEF Next
<1>3. QED BY <1>1, <1>2, AloneInvariance, PTL DEF Spec

\* dismiss refuses a session with an entry.md, and the automatic dismissal only
\* takes one that is captured: of commands run one at a time and to their end,
\* none dismisses what has an entry.
THEOREM DismissalAlwaysSparesEntries ==
  ASSUME Alone = TRUE
  PROVE  Spec => DismissalSparesEntries
<1> DEFINE Spares == \A d \in Dirs :
             faults = 0 /\ State(d) # "dismissed" /\ State(d)' = "dismissed"
             => entry[d] = 0
<1>1. IInv /\ AInv /\ SInv /\ [Next]_vars => Spares
  <2> SUFFICES ASSUME IInv, AInv, SInv, [Next]_vars,
                      NEW d \in Dirs, faults = 0,
                      State(d) # "dismissed", State(d)' = "dismissed"
               PROVE  entry[d] = 0
    OBVIOUS
  <2>1. /\ sweep \in [Sweeps -> SweepRecord] /\ verb \in [Users -> VerbRecord]
        /\ curation \in [Dirs -> CurationDoc] /\ EntriesDecided
    BY Types DEF SInv
  <2>2. ASSUME NEW s \in Sweeps, Sweeping(s) PROVE entry[d] = 0
    <3>1. SweepStep(s) /\ UNCHANGED verb /\ (sweep[s].pc = "idle" => Quiet)
      BY <2>2 DEF Sweeping
    <3>2. \A u \in Users : verb[u].pc = "ready"
      BY <3>1, AtWorkSweep
    <3>3. ~ SweepPasses(s)
      BY PassesFrame DEF State
    <3>4. AutoDismiss(s) \/ RetractDismissal(s)
      <4>1. ~Record(s) /\ ~ReadDecision(s) /\ ~KeepDecision(s)
        BY DEF Record, ReadDecision, KeepDecision, State, store
      <4>2. QED BY <3>1, <3>3, <4>1 DEF SweepStep, SweepPasses
    <3>5. /\ sweep[s].pc = "read" /\ sweep[s].dir \in Dirs
          /\ sweep[s].read = curation[sweep[s].dir]
      BY <3>4 DEF AutoDismiss, RetractDismissal, AInv, SweepAlone, IInv,
        SweepInv, Holding
    <3>6. d = sweep[s].dir /\ State(d) = "captured"
      <4>1. d = sweep[s].dir
        BY <2>1, <3>4, <3>5 DEF AutoDismiss, RetractDismissal, WriteCuration,
          RemoveCuration, State
      <4>2. ~RetractDismissal(s)
        BY <2>1, <4>1 DEF RetractDismissal, RemoveCuration, WriteCuration, State,
          NoCuration
      <4>3. QED
        BY <3>4, <3>5, <4>1, <4>2 DEF AutoDismiss, MustDismiss, State
    <3>7. QED BY <2>1, <3>2, <3>6 DEF EntriesDecided, BeingEntered
  <2>3. ASSUME NEW u \in Users, StartingVerb(u) \/ FinishingVerb(u)
        PROVE  entry[d] = 0
    <3>1. EndCurate(u) \/ EndDismiss(u) \/ EndUndismiss(u)
      BY <2>3
      DEF StartingVerb, FinishingVerb, BeginVerb, FinishVerb, Draft, BeginDismiss,
          BeginUndismiss, BeginCurate, EnterEntry, State, store
    <3>2. verb[u].dir \in Dirs
      BY <3>1 DEF EndCurate, EndDismiss, EndUndismiss, IInv, VerbInv
    <3>3. d = verb[u].dir
      BY <2>1, <3>1, <3>2 DEF EndCurate, EndDismiss, EndUndismiss, WriteCuration,
        RemoveCuration, State
    <3>4. EndDismiss(u)
      BY <2>1, <3>1, <3>3 DEF EndCurate, EndUndismiss, WriteCuration,
        RemoveCuration, State, Curated, NoCuration
    <3>5. QED BY <2>1, <3>3, <3>4 DEF EndDismiss, EntriesDecided
  <2>4. CASE World \/ Fault \/ UNCHANGED vars
    <3>1. UNCHANGED curation
      BY <2>4 DEF World, Grow, Midnight, Register, Fault, AbortSweep, SkipItem,
                  AbortVerb, vars, store
    <3>2. QED BY <3>1 DEF State
  <2>5. QED BY <2>2, <2>3, <2>4 DEF Next
<1>2. QED
  BY <1>1, SettledInvariance, PTL DEF Spec, DismissalSparesEntries

\* A sweep that comes to its end leaves no dismissal of capture's own on what
\* has turned substantive (applyAutoDismissal follows every recapture).
THEOREM GrownAlwaysRetracted ==
  ASSUME Alone = TRUE
  PROVE  Spec => GrownAreRetracted
<1> DEFINE Retracted == \A s \in Sweeps : faults = 0 /\ EndsSweep(s) =>
             \A d \in Dirs : session[d].rev \in Substantive
                             => curation[d] # Dismissed(AutoNoop)
<1>1. IInv /\ AInv /\ SInv => Retracted
  <2> SUFFICES ASSUME IInv, AInv, SInv, NEW s \in Sweeps, faults = 0,
                      EndsSweep(s), NEW d \in Dirs,
                      session[d].rev \in Substantive,
                      curation[d] = Dismissed(AutoNoop)
               PROVE  FALSE
    OBVIOUS
  <2>1. PICK t \in Sweeps : sweep[t].pc \in {"recorded", "read"}
    BY DEF SInv, GrownSettled, BeingSettled
  <2>2. sweep[s].pc = "sweeping" /\ t = s
    BY <2>1 DEF EndsSweep, AInv, AtMostOne
  <2>3. QED BY <2>1, <2>2
<1>2. QED
  BY <1>1, SettledInvariance, PTL DEF Spec, GrownAreRetracted
=============================================================================
