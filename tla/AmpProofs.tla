----------------------------- MODULE AmpProofs ------------------------------
(***************************************************************************)
(* What AmpScanState guarantees for every number of threads, runs, days    *)
(* and faults and every cap: first whether runs are alone or not, then for *)
(* runs one at a time and an account no thread of which is stamped at      *)
(* exactly a midnight.                                                     *)
(***************************************************************************)
EXTENDS AmpScanState, TLAPS

USE NoRunAssumption, MaxTimeAssumption, MidnightsAssumption,
    ContinuedAssumption, PendingCapAssumption, MaxFaultsAssumption

-----------------------------------------------------------------------------
LEMMA LaterType ==
  ASSUME NEW a \in Times, NEW b \in Times
  PROVE  Later(a, b) \in Times /\ Later(a, b) >= a /\ Later(a, b) >= b
BY DEF Later, Times

\* An update of the checkpoint yields a checkpoint.
LEMMA MutatedType ==
  ASSUME NEW m \in Mutation, NEW doc \in CheckpointDoc
  PROVE  Mutated(m, doc) \in CheckpointDoc /\ Bounded(Mutated(m, doc)) \in CheckpointDoc
<1>1. NoCheckpoint \in CheckpointDoc
  BY DEF NoCheckpoint, CheckpointDoc, Times
<1>2. Merged(m, doc.pending) \in SUBSET Threads
  BY DEF Merged, Mutation, CheckpointDoc
<1>3. Later(doc.floor, m.floor) \in Times
  BY LaterType DEF Mutation, CheckpointDoc
<1>4. Mutated(m, doc) \in CheckpointDoc
  BY <1>2, <1>3 DEF Mutated, Mutation, CheckpointDoc
<1>5. QED BY <1>1, <1>4 DEF Bounded

\* No update takes the floor back, but for the reset past the cap.
LEMMA MutatedFloor ==
  ASSUME NEW m \in Mutation, NEW doc \in CheckpointDoc
  PROVE  \/ Bounded(Mutated(m, doc)) = NoCheckpoint
         \/ Bounded(Mutated(m, doc)).floor >= doc.floor
<1>1. Later(doc.floor, m.floor) >= doc.floor /\ doc.floor >= doc.floor
  BY LaterType DEF Mutation, CheckpointDoc, Times
<1>2. Mutated(m, doc).floor >= doc.floor
  BY <1>1 DEF Mutated, CheckpointDoc
<1>3. QED BY <1>2 DEF Bounded

LEMMA IdleType == Idle \in RunRecord
BY DEF Idle, RunRecord, NoCheckpoint, NoMutation, CheckpointDoc, Mutation, Times

-----------------------------------------------------------------------------
(***************************************************************************)
(* Type correctness.                                                       *)
(***************************************************************************)
\* One scan: what it finds, keeps and reaches is of its type.
LEMMA SearchType ==
  ASSUME TypeOK, NEW r \in Runs, NEW hidden \in SUBSET Threads, NEW dirty \in Times,
         NEW garbled \in SUBSET Threads, NEW retry \in SUBSET Threads,
         Search(r, hidden, dirty, garbled, retry)
  PROVE  run' \in [Runs -> RunRecord]
<1>1. ScanFloor(r, dirty) \in Times
  BY LaterType DEF TypeOK, ScanFloor, RunRecord, CheckpointDoc
<1>2. InSpan(r) \subseteq Threads
  BY DEF InSpan
<1> DEFINE base  == run[r].base.pending
           seen  == InSpan(r) \ hidden
           lane  == {t \in base \ seen : Exists(t) /\ t \notin garbled}
           gone  == {t \in base \ seen : ~Exists(t) /\ t \notin garbled}
           found == seen \cup lane
           m     == [kind |-> "scan", ids |-> found \cup retry,
                     keep |-> found \cup retry \cup (base \ gone),
                     prior |-> base, floor |-> ScanFloor(r, dirty)]
           stamp == [t \in Threads |-> IF t \in found THEN updated[t] ELSE 0]
<1>3. base \in SUBSET Threads
  BY DEF TypeOK, RunRecord, CheckpointDoc
<1>4. found \in SUBSET Threads
  BY <1>2, <1>3
<1>5. m \in Mutation
  BY <1>1, <1>3, <1>4 DEF Mutation
<1>6. stamp \in [Threads -> Times]
  BY DEF TypeOK, Times
<1>7. NoCheckpoint \in CheckpointDoc /\ 0 \in Times
  BY DEF NoCheckpoint, CheckpointDoc, Times
<1> DEFINE new == [run[r] EXCEPT !.pc = "waiting", !.base = NoCheckpoint,
                     !.start = 0, !.found = stamp, !.todo = found, !.mutation = m]
<1>8. run' = [run EXCEPT ![r] = new]
  BY DEF Search, TypeOK
<1> HIDE DEF m, stamp, found, base
<1>9. run[r] \in RunRecord
  BY DEF TypeOK
<1>10. new \in RunRecord
  BY <1>4, <1>5, <1>6, <1>7, <1>9 DEF RunRecord
<1> HIDE DEF new
<1>11. QED BY <1>8, <1>10 DEF TypeOK

LEMMA CleanSearchType ==
  ASSUME TypeOK, NEW r \in Runs, CleanSearch(r)
  PROVE  run' \in [Runs -> RunRecord]
<1>1. PICK hidden \in SUBSET {t \in InSpan(r) : updated[t] > run[r].start} :
        Search(r, hidden, 0, {}, {})
  BY DEF CleanSearch
<1>2. hidden \in SUBSET Threads
  BY DEF InSpan
<1>3. 0 \in Times /\ {} \in SUBSET Threads
  BY DEF Times
<1>4. QED BY <1>1, <1>2, <1>3, SearchType

LEMMA BrokenSearchType ==
  ASSUME TypeOK, NEW r \in Runs, BrokenSearch(r)
  PROVE  run' \in [Runs -> RunRecord]
<1>1. PICK hidden \in SUBSET InSpan(r), dirty \in Midnights \cup {0},
           garbled \in SUBSET run[r].base.pending, retry \in SUBSET Threads :
        Search(r, hidden, dirty, garbled, retry)
  BY DEF BrokenSearch
<1>2. hidden \in SUBSET Threads
  BY DEF InSpan
<1>3. dirty \in Times
  <2>1. 1..MaxTime \subseteq Times /\ 0 \in Times
    BY DEF Times
  <2>2. QED BY <2>1
<1>4. garbled \in SUBSET Threads
  BY DEF TypeOK, RunRecord, CheckpointDoc
<1>5. QED BY <1>1, <1>2, <1>3, <1>4, SearchType

\* A step of one run, the other variables aside.
LEMMA RunMoves ==
  ASSUME TypeOK, NEW r \in Runs, NEW new \in RunRecord,
         run' = [run EXCEPT ![r] = new]
  PROVE  run' \in [Runs -> RunRecord]
BY DEF TypeOK

LEMMA RunHas ==
  ASSUME TypeOK, NEW r \in Runs
  PROVE  /\ run[r] \in RunRecord
         /\ run[r].existing \in [Threads -> Times]
         /\ run[r].found \in [Threads -> Times]
         /\ run[r].staged \in Times
         /\ run[r].mutation \in Mutation
         /\ run[r].read \in CheckpointDoc
<1>1. run[r] \in RunRecord
  BY DEF TypeOK
<1>2. QED BY <1>1 DEF RunRecord

LEMMA NothingsType ==
  /\ NoCheckpoint \in CheckpointDoc
  /\ NoMutation \in Mutation
  /\ \A t \in Threads : Settle(t) \in Mutation /\ Note(t) \in Mutation
<1>1. 0 \in Times
  BY DEF Times
<1>2. NoCheckpoint \in CheckpointDoc /\ NoMutation \in Mutation
  BY <1>1 DEF NoCheckpoint, CheckpointDoc, NoMutation, Mutation
<1>3. ASSUME NEW t \in Threads PROVE Settle(t) \in Mutation /\ Note(t) \in Mutation
  BY <1>1 DEF NoMutation, Mutation, Settle, Note
<1>4. QED BY <1>2, <1>3

\* The type invariant but for the count of faults, which Next adds.
StateOK ==
  /\ now \in Times
  /\ updated \in [Threads -> Times]
  /\ deleted \subseteq Threads
  /\ recorded \in [Threads -> Times]
  /\ checkpoint \in CheckpointDoc
  /\ lock \in Runs \cup {NoRun}
  /\ run \in [Runs -> RunRecord]

\* Walking, scanning, and the ends of a run.
LEMMA ScanStepType ==
  ASSUME TypeOK, NEW r \in Runs,
         \/ Walk(r) \/ Load(r) \/ StartScan(r) \/ CleanSearch(r) \/ BrokenSearch(r)
         \/ EndRun(r) \/ AbortRun(r)
  PROVE  StateOK'
<1> USE RunHas, NothingsType
<1>1. CASE Walk(r)
  <2> DEFINE new == [Idle EXCEPT !.pc = "walked", !.existing = recorded]
  <2>1. new \in RunRecord
    BY IdleType DEF TypeOK, RunRecord
  <2> HIDE DEF new
  <2>2. run' = [run EXCEPT ![r] = new]
    BY <1>1 DEF Walk, new
  <2>3. QED BY <1>1, <2>1, <2>2, RunMoves DEF StateOK, TypeOK, Walk, world
<1>2. CASE Load(r)
  <2> DEFINE new == [run[r] EXCEPT !.pc = "loaded", !.base = checkpoint]
  <2>1. new \in RunRecord
    <3>1. run[r] \in RunRecord /\ checkpoint \in CheckpointDoc
      BY DEF TypeOK
    <3>2. QED BY <3>1 DEF RunRecord
  <2>2. run' = [run EXCEPT ![r] = new]
    BY <1>2 DEF Load
  <2> HIDE DEF new
  <2>3. QED BY <1>2, <2>1, <2>2, RunMoves DEF StateOK, TypeOK, Load, world
<1>3. CASE StartScan(r)
  <2> DEFINE new == [run[r] EXCEPT !.pc = "started", !.start = now]
  <2>1. new \in RunRecord
    <3>1. run[r] \in RunRecord /\ now \in Times
      BY DEF TypeOK
    <3>2. QED BY <3>1 DEF RunRecord
  <2>2. run' = [run EXCEPT ![r] = new]
    BY <1>3 DEF StartScan
  <2> HIDE DEF new
  <2>3. now' \in Times
    BY <1>3 DEF StartScan, TypeOK, Times
  <2>4. QED BY <1>3, <2>1, <2>2, <2>3, RunMoves DEF StateOK, TypeOK, StartScan
<1>4. CASE CleanSearch(r) \/ BrokenSearch(r)
  <2>1. run' \in [Runs -> RunRecord]
    BY <1>4, CleanSearchType, BrokenSearchType
  <2>2. UNCHANGED <<world, recorded, checkpoint, lock>>
    BY <1>4, ZenonT(30) DEF CleanSearch, BrokenSearch, Search
  <2>3. QED BY <2>1, <2>2 DEF StateOK, TypeOK, world
<1>5. CASE EndRun(r) \/ AbortRun(r)
  <2>1. run' = [run EXCEPT ![r] = Idle]
    BY <1>5 DEF EndRun, AbortRun
  <2>2. UNCHANGED <<world, recorded, checkpoint, lock>>
    BY <1>5 DEF EndRun, AbortRun
  <2>3. QED BY <2>1, <2>2, IdleType, RunMoves DEF StateOK, TypeOK, world
<1>6. QED BY <1>1, <1>2, <1>3, <1>4, <1>5

\* Updates of the checkpoint.
LEMMA UpdateStepType ==
  ASSUME TypeOK, NEW r \in Runs, Acquire(r) \/ Steal(r) \/ Save(r)
  PROVE  StateOK'
<1> USE RunHas, NothingsType
<1>1. CASE Acquire(r) \/ Steal(r)
  <2>1. ASSUME NEW pc \in {"locked", "unlocked"}
        PROVE  Reading(pc, run[r]) \in RunRecord
    <3>1. run[r] \in RunRecord /\ checkpoint \in CheckpointDoc
      BY DEF TypeOK
    <3>2. QED BY <2>1, <3>1 DEF Reading, RunRecord
  <2>2. PICK pc \in {"locked", "unlocked"} : run' = [run EXCEPT ![r] = Reading(pc, run[r])]
    BY <1>1 DEF Acquire, Steal
  <2>3. lock' \in Runs \cup {NoRun}
    BY <1>1 DEF Acquire, Steal, TypeOK
  <2>4. UNCHANGED <<world, recorded, checkpoint>>
    BY <1>1 DEF Acquire, Steal
  <2>5. QED BY <2>1, <2>2, <2>3, <2>4, RunMoves DEF StateOK, TypeOK, world
<1>2. CASE Save(r)
  <2> DEFINE new == [run[r] EXCEPT !.pc = "items", !.mutation = NoMutation,
                                   !.read = NoCheckpoint]
  <2>1. new \in RunRecord
    BY DEF RunRecord
  <2>2. run' = [run EXCEPT ![r] = new]
    BY <1>2 DEF Save
  <2> HIDE DEF new
  <2>3. checkpoint' \in CheckpointDoc
    BY <1>2, MutatedType DEF Save, TypeOK
  <2>4. lock' \in Runs \cup {NoRun}
    BY <1>2 DEF Save, TypeOK
  <2>5. UNCHANGED <<world, recorded>>
    BY <1>2 DEF Save
  <2>6. QED BY <2>1, <2>2, <2>3, <2>4, <2>5, RunMoves DEF StateOK, TypeOK, world
<1>3. QED BY <1>1, <1>2

\* What captureOne does with one found thread.
LEMMA ItemStepType ==
  ASSUME TypeOK, NEW r \in Runs, NEW t \in Threads,
         \/ SettleUnchanged(r, t) \/ SettleTerminal(r, t) \/ FailExport(r, t)
         \/ SkipItem(r, t) \/ Export(r, t) \/ ExportBehind(r, t)
  PROVE  StateOK'
<1> USE RunHas, NothingsType
<1>1. ASSUME NEW m \in Mutation, Update(r, t, m) PROVE StateOK'
  <2> DEFINE new == [run[r] EXCEPT !.pc = "waiting", !.mutation = m, !.todo = @ \ {t}]
  <2>1. new \in RunRecord
    BY <1>1 DEF RunRecord
  <2>2. run' = [run EXCEPT ![r] = new]
    BY <1>1 DEF Update
  <2> HIDE DEF new
  <2>3. QED BY <1>1, <2>1, <2>2, RunMoves DEF StateOK, TypeOK, Update, world
<1>2. ASSUME NEW rev \in Times, ExportRev(r, t, rev) PROVE StateOK'
  <2> DEFINE new == [run[r] EXCEPT !.pc = "staged", !.thread = {t},
                                   !.staged = rev, !.todo = @ \ {t}]
  <2>1. new \in RunRecord
    BY <1>2, ZenonT(30) DEF RunRecord
  <2>2. run' = [run EXCEPT ![r] = new]
    BY <1>2 DEF ExportRev
  <2> HIDE DEF new
  <2>3. QED BY <1>2, <2>1, <2>2, RunMoves DEF StateOK, TypeOK, ExportRev, world
<1>3. CASE SettleUnchanged(r, t) \/ SettleTerminal(r, t) \/ FailExport(r, t)
  BY <1>1, <1>3 DEF SettleUnchanged, SettleTerminal, FailExport
<1>4. CASE Export(r, t)
  <2>1. updated[t] \in Times
    BY DEF TypeOK
  <2>2. QED BY <1>2, <1>4, <2>1 DEF Export
<1>5. CASE ExportBehind(r, t)
  <2>1. PICK rev \in 1..(updated[t] - 1) : ExportRev(r, t, rev)
    BY <1>5 DEF ExportBehind
  <2>2. rev \in Times
    BY <2>1 DEF TypeOK, Times
  <2>3. QED BY <1>2, <2>1, <2>2
<1>6. CASE SkipItem(r, t)
  <2> DEFINE new == [run[r] EXCEPT !.todo = @ \ {t}]
  <2>1. new \in RunRecord
    BY DEF RunRecord
  <2>2. run' = [run EXCEPT ![r] = new]
    BY <1>6 DEF SkipItem
  <2> HIDE DEF new
  <2>3. QED BY <1>6, <2>1, <2>2, RunMoves DEF StateOK, TypeOK, SkipItem, world
<1>7. QED BY <1>3, <1>4, <1>5, <1>6

LEMMA CommitStepType ==
  ASSUME TypeOK, NEW r \in Runs, Record(r) \/ Refuse(r)
  PROVE  StateOK'
<1> DEFINE new == [run[r] EXCEPT !.pc = "items", !.thread = {}, !.staged = 0]
<1>1. 0 \in Times
  BY DEF Times
<1>2. new \in RunRecord
  BY <1>1, RunHas DEF RunRecord
<1>3. run' = [run EXCEPT ![r] = new]
  BY DEF Record, Refuse, PutDown
<1> HIDE DEF new
<1>4. recorded' \in [Threads -> Times]
  BY RunHas DEF Record, Refuse, TypeOK
<1>5. UNCHANGED <<world, checkpoint, lock>>
  BY DEF Record, Refuse
<1>6. QED BY <1>2, <1>3, <1>4, <1>5, RunMoves DEF StateOK, TypeOK, world

LEMMA WorldStepType ==
  ASSUME TypeOK, World
  PROVE  StateOK'
<1>1. ASSUME NEW t \in Threads, Touch(t) PROVE StateOK'
  BY <1>1 DEF Touch, TypeOK, StateOK, Times
<1>2. ASSUME NEW t \in Threads, Delete(t) PROVE StateOK'
  BY <1>2 DEF Delete, TypeOK, StateOK
<1>3. CASE Tick
  BY <1>3 DEF Tick, TypeOK, StateOK, Times
<1>4. QED BY <1>1, <1>2, <1>3 DEF World

LEMMA TypeInit == Init => TypeOK
<1>1. SUFFICES ASSUME Init PROVE TypeOK
  OBVIOUS
<1>2. now \in Times /\ 0 \in Times /\ faults \in 0..MaxFaults
  BY <1>1 DEF Init, Times
<1>3. QED BY <1>1, <1>2, IdleType, NothingsType DEF Init, TypeOK

LEMMA TypeStep == TypeOK /\ [Next]_vars => TypeOK'
<1>1. SUFFICES ASSUME TypeOK, [Next]_vars PROVE TypeOK'
  OBVIOUS
<1>2. CASE World
  <2>1. faults' = faults
    BY <1>2 DEF World
  <2>2. QED BY <1>1, <1>2, <2>1, WorldStepType DEF TypeOK, StateOK
<1>3. ASSUME NEW r \in Runs, Running(r) PROVE TypeOK'
  <2>1. faults' = faults
    BY <1>3 DEF Running
  <2>2. StateOK'
    BY <1>1, <1>3, ScanStepType, UpdateStepType, ItemStepType, CommitStepType
       DEF Running, RunStep
  <2>3. QED BY <1>1, <2>1, <2>2 DEF TypeOK, StateOK
<1>4. CASE Fault
  <2>1. faults' \in 0..MaxFaults
    BY <1>1, <1>4 DEF Fault, TypeOK
  <2>2. CASE LoseCheckpoint
    BY <1>1, <2>1, <2>2, NothingsType DEF LoseCheckpoint, TypeOK, world
  <2>3. CASE ~LoseCheckpoint
    <3>1. StateOK'
      BY <1>1, <1>4, <2>3, ScanStepType, UpdateStepType, ItemStepType DEF Fault
    <3>2. QED BY <2>1, <3>1 DEF TypeOK, StateOK
  <2>4. QED BY <2>2, <2>3
<1>5. CASE UNCHANGED vars
  BY <1>1, <1>5 DEF vars, world, TypeOK
<1>6. QED BY <1>1, <1>2, <1>3, <1>4, <1>5 DEF Next

\* The checkpoint file, the journal's records and every run's progress stay
\* within their types, through every crash and theft.
THEOREM ScanTypeCorrect == Spec => []TypeOK
<1>1. QED BY TypeInit, TypeStep, PTL DEF Spec

-----------------------------------------------------------------------------
(***************************************************************************)
(* The lock.                                                               *)
(***************************************************************************)
\* Without a fault, a run inside an update holds the lock and what it read is
\* what the file still holds.
Holds(r) == lock = r /\ run[r].read = checkpoint

Safe(r) == run[r].pc # "unlocked" /\ (run[r].pc = "locked" => Holds(r))

LockInv == TypeOK /\ (faults = 0 => \A r \in Runs : Safe(r))

Outside(pc) == pc \notin {"locked", "unlocked"}

\* A step of one run that leaves it outside an update, and the lock and the
\* file alone, disturbs no other.
LEMMA OutsideMoves ==
  ASSUME TypeOK, \A q \in Runs : Safe(q), NEW r \in Runs, NEW new,
         run' = [run EXCEPT ![r] = new], Outside(new.pc),
         UNCHANGED <<checkpoint, lock>>
  PROVE  \A q \in Runs : Safe(q)'
<1>1. ASSUME NEW q \in Runs PROVE Safe(q)'
  <2>1. CASE q = r
    BY <2>1 DEF TypeOK, Safe, Outside
  <2>2. CASE q # r
    <3>1. run'[q] = run[q]
      BY <2>2 DEF TypeOK
    <3>2. QED BY <3>1 DEF Safe, Holds
  <2>3. QED BY <2>1, <2>2
<1>2. QED BY <1>1

\* The steps of one run outside an update.
LEMMA OutsideStep ==
  ASSUME TypeOK, \A q \in Runs : Safe(q), NEW r \in Runs,
         \/ Walk(r) \/ Load(r) \/ StartScan(r) \/ CleanSearch(r)
         \/ \E t \in Threads : SettleUnchanged(r, t) \/ SettleTerminal(r, t) \/ Export(r, t)
         \/ Record(r) \/ Refuse(r) \/ EndRun(r)
  PROVE  \A q \in Runs : Safe(q)'
<1>1. run[r] \in RunRecord
  BY DEF TypeOK
<1>2. UNCHANGED <<checkpoint, lock>>
  BY DEF Walk, Load, StartScan, CleanSearch, Search, SettleUnchanged, SettleTerminal,
     Update, Export, ExportRev, Record, Refuse, EndRun
<1> DEFINE Moves(new) == run' = [run EXCEPT ![r] = new] /\ Outside(new.pc)
<1>3. CASE Walk(r)
  <2>1. Moves([Idle EXCEPT !.pc = "walked", !.existing = recorded])
    BY <1>3 DEF Walk, Outside, Idle
  <2>2. QED BY <1>2, <2>1, OutsideMoves
<1>4. CASE Load(r)
  <2>1. Moves([run[r] EXCEPT !.pc = "loaded", !.base = checkpoint])
    BY <1>1, <1>4 DEF Load, Outside, RunRecord
  <2>2. QED BY <1>2, <2>1, OutsideMoves
<1>5. CASE StartScan(r)
  <2>1. Moves([run[r] EXCEPT !.pc = "started", !.start = now])
    BY <1>1, <1>5 DEF StartScan, Outside, RunRecord
  <2>2. QED BY <1>2, <2>1, OutsideMoves
<1>6. CASE CleanSearch(r)
  <2>1. PICK hidden : Search(r, hidden, 0, {}, {})
    BY <1>6 DEF CleanSearch
  <2>2. PICK found, todo, m :
          Moves([run[r] EXCEPT !.pc = "waiting", !.base = NoCheckpoint, !.start = 0,
                               !.found = found, !.todo = todo, !.mutation = m])
    BY <1>1, <2>1 DEF Search, Outside, RunRecord
  <2>3. QED BY <1>2, <2>2, OutsideMoves
<1>7. ASSUME NEW t \in Threads, NEW m, Update(r, t, m)
      PROVE  \A q \in Runs : Safe(q)'
  <2>1. Moves([run[r] EXCEPT !.pc = "waiting", !.mutation = m, !.todo = @ \ {t}])
    BY <1>1, <1>7 DEF Update, Outside, RunRecord
  <2>2. QED BY <1>2, <2>1, OutsideMoves
<1>8. ASSUME NEW t \in Threads, Export(r, t)
      PROVE  \A q \in Runs : Safe(q)'
  <2>1. Moves([run[r] EXCEPT !.pc = "staged", !.thread = {t},
                             !.staged = updated[t], !.todo = @ \ {t}])
    BY <1>1, <1>8 DEF Export, ExportRev, Outside, RunRecord
  <2>2. QED BY <1>2, <2>1, OutsideMoves
<1>9. CASE Record(r) \/ Refuse(r)
  <2>1. Moves([run[r] EXCEPT !.pc = "items", !.thread = {}, !.staged = 0])
    BY <1>1, <1>9 DEF Record, Refuse, PutDown, Outside, RunRecord
  <2>2. QED BY <1>2, <2>1, OutsideMoves
<1>10. CASE EndRun(r)
  <2>1. Moves(Idle)
    BY <1>10 DEF EndRun, Outside, Idle
  <2>2. QED BY <1>2, <2>1, OutsideMoves
<1>11. QED
  BY <1>3, <1>4, <1>5, <1>6, <1>7, <1>8, <1>9, <1>10 DEF SettleUnchanged, SettleTerminal

\* Taking the lock: nobody else holds it, and nobody else is inside.
LEMMA AcquireStep ==
  ASSUME TypeOK, \A q \in Runs : Safe(q), NEW r \in Runs, Acquire(r)
  PROVE  \A q \in Runs : Safe(q)'
<1>1. run'[r] = Reading("locked", run[r]) /\ checkpoint' = checkpoint /\ lock' = r
  BY DEF Acquire, TypeOK
<1>2. Safe(r)'
  <2>1. run[r] \in RunRecord
    BY DEF TypeOK
  <2>2. QED BY <1>1, <2>1 DEF Reading, RunRecord, Safe, Holds
<1>3. ASSUME NEW q \in Runs, q # r PROVE Safe(q)'
  <2>1. run'[q] = run[q]
    BY <1>3 DEF Acquire, TypeOK
  <2>2. run[q].pc # "locked"
    BY DEF Acquire, Stale, Safe, Holds
  <2>3. QED BY <2>1, <2>2 DEF Safe
<1>4. QED BY <1>2, <1>3

\* Saving: the one inside is the one that holds the lock.
LEMMA SaveStep ==
  ASSUME TypeOK, \A q \in Runs : Safe(q), NEW r \in Runs, Save(r)
  PROVE  \A q \in Runs : Safe(q)'
<1>1. run[r].pc = "locked" /\ lock = r
  BY DEF Save, Safe, Holds
<1>2. Safe(r)'
  <2>1. run[r] \in RunRecord
    BY DEF TypeOK
  <2>2. run'[r].pc = "items"
    BY <2>1 DEF Save, TypeOK, RunRecord
  <2>3. QED BY <2>2 DEF Safe
<1>3. ASSUME NEW q \in Runs, q # r PROVE Safe(q)'
  <2>1. run'[q] = run[q]
    BY <1>3 DEF Save, TypeOK
  <2>2. run[q].pc # "locked"
    BY <1>1, <1>3 DEF Safe, Holds
  <2>3. QED BY <2>1, <2>2 DEF Safe
<1>4. QED BY <1>2, <1>3

LEMMA LockInit == Init => LockInv
<1>1. SUFFICES ASSUME Init PROVE LockInv
  OBVIOUS
<1>2. ASSUME NEW r \in Runs PROVE Safe(r)
  BY <1>1 DEF Init, Safe, Idle
<1>3. QED BY <1>1, <1>2, TypeInit DEF LockInv

LEMMA LockStep == LockInv /\ [Next]_vars => LockInv'
<1>1. SUFFICES ASSUME LockInv, [Next]_vars, faults' = 0 PROVE \A q \in Runs : Safe(q)'
  BY TypeStep DEF LockInv
<1>2. TypeOK
  BY <1>1 DEF LockInv
<1>3. ~Fault
  BY <1>1, <1>2 DEF Fault, TypeOK
<1>4. CASE World
  <2>1. UNCHANGED <<checkpoint, lock, run, faults>>
    BY <1>4 DEF World, Touch, Delete, Tick
  <2>2. QED BY <1>1, <2>1 DEF LockInv, Safe, Holds
<1>5. ASSUME NEW r \in Runs, Running(r) PROVE \A q \in Runs : Safe(q)'
  <2>1. \A q \in Runs : Safe(q)
    BY <1>1, <1>5 DEF Running, LockInv
  <2>2. QED
    BY <1>2, <1>5, <2>1, OutsideStep, AcquireStep, SaveStep DEF Running, RunStep
<1>6. CASE UNCHANGED vars
  BY <1>1, <1>6 DEF vars, LockInv, Safe, Holds
<1>7. QED BY <1>1, <1>3, <1>4, <1>5, <1>6 DEF Next

LEMMA LockInvariance == Spec => []LockInv
<1>1. QED BY LockInit, LockStep, PTL DEF Spec

\* As long as no lock was stolen, gone without or left behind, no two runs are
\* inside an update of the checkpoint.
THEOREM LockAlwaysExcludes == Spec => []LockExcludes
<1>1. LockInv => LockExcludes
  BY DEF LockInv, LockExcludes, Safe, Holds
<1>2. QED BY <1>1, LockInvariance, PTL

\* ... and an update never takes back a floor another run landed while this one
\* was scanning, but for the reset past the cap.
THEOREM FloorAlwaysAdvances == Spec => FloorNeverRegresses
<1> DEFINE A == faults' = 0 => \/ checkpoint'.floor >= checkpoint.floor
                              \/ checkpoint' = NoCheckpoint
<1>1. LockInv /\ [Next]_vars => [A]_vars
  <2>1. SUFFICES ASSUME LockInv, Next, faults' = 0
                 PROVE  \/ checkpoint'.floor >= checkpoint.floor
                        \/ checkpoint' = NoCheckpoint
    OBVIOUS
  <2>2. TypeOK /\ checkpoint \in CheckpointDoc
    BY <2>1 DEF LockInv, TypeOK
  <2>3. checkpoint.floor >= checkpoint.floor
    BY <2>2 DEF CheckpointDoc, Times
  <2>4. ~Fault
    BY <2>1, <2>2 DEF Fault, TypeOK
  <2>5. CASE World
    BY <2>3, <2>5 DEF World, Touch, Delete, Tick
  <2>6. ASSUME NEW r \in Runs, Running(r), ~Save(r) PROVE checkpoint' = checkpoint
    BY <2>6 DEF Running, RunStep, Walk, Load, StartScan, CleanSearch, Search, Acquire,
       SettleUnchanged, SettleTerminal, Update, Export, ExportRev, Record, Refuse, EndRun
  <2>7. ASSUME NEW r \in Runs, Running(r), Save(r)
        PROVE  \/ checkpoint'.floor >= checkpoint.floor
               \/ checkpoint' = NoCheckpoint
    <3>1. run[r].read = checkpoint
      BY <2>1, <2>7 DEF Running, LockInv, Save, Safe, Holds
    <3>2. \/ checkpoint' = checkpoint
          \/ checkpoint' = Bounded(Mutated(run[r].mutation, checkpoint))
      BY <2>7, <3>1 DEF Save
    <3>3. run[r].mutation \in Mutation
      BY <2>2, RunHas
    <3>4. QED BY <2>2, <2>3, <3>2, <3>3, MutatedFloor
  <2>8. QED BY <2>1, <2>3, <2>4, <2>5, <2>6, <2>7 DEF Next
<1>2. QED BY <1>1, LockInvariance, PTL DEF Spec, FloorNeverRegresses

-----------------------------------------------------------------------------
(***************************************************************************)
(* From here on runs are one at a time, and no stamp is at a midnight.     *)
(* The inductive invariant for them.                                       *)
(***************************************************************************)
\* What doc promises: a thread at or below its floor is on record or pending.
Covers(doc) ==
  \A t \in Threads :
    Owed(t) /\ updated[t] <= doc.floor
    => recorded[t] >= updated[t] \/ t \in doc.pending

\* t may leave the pending set of a document with floor f.
Settled(t, f) == Owed(t) /\ updated[t] <= f => recorded[t] >= updated[t]

\* A stamp given from now on is above f.
Past(f) == f < now \/ now = MaxTime

\* t was found at its present revision, or has moved above every floor since.
Fresh(r, t) ==
  \/ run[r].found[t] = updated[t]
  \/ /\ updated[t] > checkpoint.floor
     /\ updated[t] > run[r].mutation.floor
     /\ updated[t] > run[r].read.floor

Updating == {"waiting", "locked", "unlocked"}

ClockInv ==
  /\ now >= 1
  /\ Past(checkpoint.floor)
  /\ \A t \in Threads : updated[t] \notin Midnights

FloorsInv(r) ==
  /\ Past(run[r].base.floor)
  /\ Past(run[r].start)
  /\ Past(run[r].mutation.floor)
  /\ Past(run[r].read.floor)

\* The threads a run has yet to handle are on record as its walk read them.
ItemsInv(r) ==
  /\ run[r].pc \in {"walked", "loaded", "started"} => run[r].existing = recorded
  /\ \A t \in run[r].todo \cup run[r].thread :
       run[r].existing[t] = recorded[t] /\ Fresh(r, t)
  /\ run[r].thread \cap run[r].todo = {}
  /\ run[r].pc # "staged" => run[r].thread = {}

\* A scan started from the file as it is, and what it will merge is covered.
ScanInv(r) ==
  /\ run[r].pc \in {"loaded", "started"} => run[r].base = checkpoint
  /\ run[r].mutation.kind = "scan" =>
       /\ run[r].mutation.prior = checkpoint.pending
       /\ run[r].mutation.floor >= checkpoint.floor
       /\ Covers([floor |-> run[r].mutation.floor, pending |-> run[r].mutation.keep])
       /\ run[r].pc # "waiting" => run[r].read = checkpoint

\* Whatever an update read was covered, and what it settles is.
UpdateInv(r) ==
  /\ run[r].pc \notin Updating => run[r].mutation = NoMutation
  /\ run[r].pc \notin {"locked", "unlocked"} => run[r].read = NoCheckpoint
  /\ run[r].mutation.kind = "settle" =>
       \A t \in run[r].mutation.ids :
         Settled(t, checkpoint.floor) /\ Settled(t, run[r].read.floor)
  /\ Covers(run[r].read)

RunInv(r) == FloorsInv(r) /\ ItemsInv(r) /\ ScanInv(r) /\ UpdateInv(r)

IInv ==
  /\ TypeOK
  /\ ClockInv
  /\ Covers(checkpoint)
  /\ \A r \in Runs : run[r].pc # "idle" => RunInv(r)
  /\ \A q, r \in Runs : run[q].pc # "idle" /\ run[r].pc # "idle" => q = r

-----------------------------------------------------------------------------
(***************************************************************************)
(* Only one run moves.                                                     *)
(***************************************************************************)
\* The step of a run at work: the others are idle and stay so.
LEMMA OneMoves ==
  ASSUME IInv, TypeOK', NEW r \in Runs, NEW w, run' = [run EXCEPT ![r] = w],
         \A q \in Runs : q # r => run[q].pc = "idle",
         ClockInv', Covers(checkpoint)', w.pc # "idle" => RunInv(r)'
  PROVE  IInv'
<1>1. run'[r] = w /\ \A q \in Runs : q # r => run'[q] = run[q]
  BY DEF IInv, TypeOK
<1>2. QED BY <1>1 DEF IInv

LEMMA OthersIdle ==
  ASSUME IInv, NEW r \in Runs, run[r].pc # "idle"
  PROVE  RunInv(r) /\ \A q \in Runs : q # r => run[q].pc = "idle"
BY DEF IInv

\* What the type invariant says of one run.
LEMMA RunFields ==
  ASSUME TypeOK, NEW r \in Runs
  PROVE  /\ run[r] \in RunRecord
         /\ run[r].existing \in [Threads -> Times]
         /\ run[r].base \in CheckpointDoc
         /\ run[r].start \in Times
         /\ run[r].found \in [Threads -> Times]
         /\ run[r].todo \in SUBSET Threads
         /\ run[r].thread \in SUBSET Threads
         /\ run[r].staged \in Times
         /\ run[r].mutation \in Mutation
         /\ run[r].read \in CheckpointDoc
<1>1. run[r] \in RunRecord
  BY DEF TypeOK
<1>2. QED BY <1>1 DEF RunRecord

\* A document without a floor promises nothing.
LEMMA NothingCovered ==
  ASSUME TypeOK
  PROVE  Covers(NoCheckpoint) /\ NoCheckpoint.floor = 0 /\ NoMutation.floor = 0
         /\ NoMutation.kind = "none"
<1>1. NoCheckpoint.floor = 0 /\ NoMutation.floor = 0 /\ NoMutation.kind = "none"
  BY DEF NoCheckpoint, NoMutation
<1>2. ASSUME NEW t \in Threads, Owed(t) PROVE ~(updated[t] <= 0)
  BY <1>2 DEF Owed, Exists, TypeOK, Times
<1>3. QED BY <1>1, <1>2 DEF Covers

-----------------------------------------------------------------------------
(***************************************************************************)
(* The world: threads are written to and deleted, the cache file is lost.  *)
(***************************************************************************)
\* A thread written to is above every floor a document or a run has.
LEMMA TouchCovers ==
  ASSUME TypeOK, NEW t \in Threads, Touch(t), NEW doc \in CheckpointDoc,
         Covers(doc), Past(doc.floor)
  PROVE  \A s \in Threads :
           Owed(s)' /\ updated'[s] <= doc.floor
           => recorded[s] >= updated'[s] \/ s \in doc.pending
<1>1. SUFFICES ASSUME NEW s \in Threads, Owed(s)', updated'[s] <= doc.floor
               PROVE  recorded[s] >= updated'[s] \/ s \in doc.pending
  OBVIOUS
<1>2. s # t
  BY <1>1 DEF Touch, TypeOK, Past, CheckpointDoc, Times
<1>3. updated'[s] = updated[s] /\ Owed(s)
  BY <1>1, <1>2 DEF Touch, TypeOK, Owed, Exists
<1>4. QED BY <1>1, <1>3 DEF Covers

LEMMA TouchFresh ==
  ASSUME TypeOK, NEW t \in Threads, Touch(t), NEW r \in Runs, NEW s \in Threads,
         Fresh(r, s), Past(checkpoint.floor), FloorsInv(r)
  PROVE  Fresh(r, s)'
<1>1. UNCHANGED <<now, checkpoint, run>>
  BY DEF Touch
<1>2. CASE s = t
  <2>1. updated'[s] = now /\ now < MaxTime /\ now # MaxTime
    BY <1>2 DEF Touch, TypeOK, Times
  <2>2. checkpoint.floor < now /\ run[r].mutation.floor < now /\ run[r].read.floor < now
    BY <2>1 DEF Past, FloorsInv
  <2>3. QED BY <1>1, <2>1, <2>2 DEF Fresh
<1>3. CASE s # t
  BY <1>1, <1>3 DEF Fresh, Touch
<1>4. QED BY <1>2, <1>3

LEMMA TouchSettled ==
  ASSUME TypeOK, NEW t \in Threads, Touch(t), NEW s \in Threads, NEW f \in Times,
         Settled(s, f), Past(f)
  PROVE  Owed(s)' /\ updated'[s] <= f => recorded[s] >= updated'[s]
<1>1. CASE s = t
  BY <1>1 DEF Touch, TypeOK, Past, Times
<1>2. CASE s # t
  <2>1. updated'[s] = updated[s] /\ (Owed(s)' => Owed(s))
    BY <1>2 DEF Touch, TypeOK, Owed, Exists
  <2>2. QED BY <2>1 DEF Settled
<1>3. QED BY <1>1, <1>2

LEMMA TouchKeeps ==
  ASSUME IInv, TypeOK', MidnightStamps = FALSE, NEW t \in Threads, Touch(t)
  PROVE  IInv'
<1>1. UNCHANGED <<now, deleted, recorded, checkpoint, run>>
  BY DEF Touch
<1>2. ClockInv'
  BY <1>1 DEF IInv, TypeOK, ClockInv, Touch, Past
<1>3. Covers(checkpoint)'
  BY <1>1, TouchCovers DEF IInv, TypeOK, ClockInv, Covers
<1>4. ASSUME NEW r \in Runs, run[r].pc # "idle" PROVE RunInv(r)'
  <2>1. RunInv(r) /\ TypeOK
    BY <1>4 DEF IInv
  <2>2. FloorsInv(r)'
    BY <1>1, <2>1 DEF RunInv, FloorsInv, Past
  <2>3. ItemsInv(r)'
    <3>1. ASSUME NEW s \in run[r].todo \cup run[r].thread PROVE Fresh(r, s)'
      <4>1. s \in Threads
        BY <2>1, RunFields
      <4>2. QED BY <2>1, <4>1, TouchFresh DEF RunInv, ItemsInv, IInv, ClockInv
    <3>2. QED BY <1>1, <2>1, <3>1 DEF RunInv, ItemsInv
  <2>4. ScanInv(r)'
    <3>1. CASE run[r].mutation.kind = "scan"
      <4> DEFINE doc == [floor |-> run[r].mutation.floor, pending |-> run[r].mutation.keep]
      <4>1. doc \in CheckpointDoc /\ Covers(doc) /\ Past(doc.floor)
        BY <2>1, <3>1, RunFields DEF RunInv, ScanInv, FloorsInv, Mutation, CheckpointDoc
      <4>2. \A s \in Threads : Owed(s)' /\ updated'[s] <= doc.floor
                               => recorded[s] >= updated'[s] \/ s \in doc.pending
        BY <2>1, <4>1, TouchCovers
      <4>3. Covers(doc)'
        BY <1>1, <4>2 DEF Covers
      <4>4. QED BY <1>1, <2>1, <4>3 DEF RunInv, ScanInv
    <3>2. CASE run[r].mutation.kind # "scan"
      BY <1>1, <2>1, <3>2 DEF RunInv, ScanInv
    <3>3. QED BY <3>1, <3>2
  <2>5. UpdateInv(r)'
    <3>1. Covers(run[r].read)'
      BY <1>1, <2>1, RunFields, TouchCovers DEF RunInv, UpdateInv, FloorsInv, Covers
    <3>2. ASSUME run[r].mutation.kind = "settle", NEW s \in run[r].mutation.ids
          PROVE  Settled(s, checkpoint.floor)' /\ Settled(s, run[r].read.floor)'
      <4>1. s \in Threads /\ checkpoint.floor \in Times /\ run[r].read.floor \in Times
        BY <2>1, RunFields DEF Mutation, CheckpointDoc, TypeOK
      <4>2. Settled(s, checkpoint.floor) /\ Settled(s, run[r].read.floor)
        BY <2>1, <3>2 DEF RunInv, UpdateInv
      <4>3. Past(checkpoint.floor) /\ Past(run[r].read.floor)
        BY <2>1 DEF RunInv, FloorsInv, IInv, ClockInv
      <4>4. QED BY <1>1, <2>1, <4>1, <4>2, <4>3, TouchSettled DEF Settled
    <3>3. QED BY <1>1, <2>1, <3>1, <3>2 DEF RunInv, UpdateInv
  <2>6. QED BY <2>2, <2>3, <2>4, <2>5 DEF RunInv
<1>5. QED BY <1>1, <1>2, <1>3, <1>4 DEF IInv

\* The clock goes on, or a thread is gone: fewer threads are owed.
LEMMA FewerOwed ==
  ASSUME IInv, TypeOK', UNCHANGED <<updated, recorded, checkpoint, run>>,
         deleted \subseteq deleted', now' >= now, now' <= MaxTime
  PROVE  IInv'
<1>1. \A f \in Times : Past(f) => Past(f)'
  BY DEF Past, IInv, TypeOK, Times
<1>2. ASSUME NEW s \in Threads, Owed(s)' PROVE Owed(s)
  BY <1>2 DEF Owed, Exists
<1>3. TypeOK /\ checkpoint.floor \in Times
  BY DEF IInv, TypeOK, CheckpointDoc
<1>4. ClockInv'
  BY <1>1, <1>3 DEF IInv, ClockInv, TypeOK, Times, Past
<1>5. Covers(checkpoint)'
  BY <1>2 DEF IInv, Covers
<1>6. ASSUME NEW r \in Runs, run[r].pc # "idle" PROVE RunInv(r)'
  <2>1. RunInv(r)
    BY <1>6 DEF IInv
  <2>2. FloorsInv(r)'
    <3>1. /\ run[r].base.floor \in Times /\ run[r].start \in Times
          /\ run[r].mutation.floor \in Times /\ run[r].read.floor \in Times
      BY <1>3, RunFields DEF CheckpointDoc, Mutation
    <3>2. QED BY <1>1, <2>1, <3>1 DEF RunInv, FloorsInv, Past
  <2>3. ItemsInv(r)'
    BY <2>1 DEF RunInv, ItemsInv, Fresh
  <2>4. ScanInv(r)'
    BY <1>2, <2>1 DEF RunInv, ScanInv, Covers
  <2>5. UpdateInv(r)'
    <3>1. Covers(run[r].read)'
      BY <1>2, <2>1 DEF RunInv, UpdateInv, Covers
    <3>2. ASSUME run[r].mutation.kind = "settle", NEW s \in run[r].mutation.ids
          PROVE  Settled(s, checkpoint.floor)' /\ Settled(s, run[r].read.floor)'
      <4>1. s \in Threads
        BY <1>3, RunFields DEF Mutation
      <4>2. QED BY <1>2, <2>1, <3>2, <4>1 DEF RunInv, UpdateInv, Settled
    <3>3. QED BY <2>1, <3>1, <3>2 DEF RunInv, UpdateInv
  <2>6. QED BY <2>2, <2>3, <2>4, <2>5 DEF RunInv
<1>7. QED BY <1>4, <1>5, <1>6 DEF IInv

LEMMA WorldKeeps ==
  ASSUME IInv, TypeOK', MidnightStamps = FALSE, World
  PROVE  IInv'
<1>1. ASSUME NEW t \in Threads, Delete(t) PROVE IInv'
  <2>1. now' >= now /\ now' <= MaxTime
    BY <1>1 DEF Delete, IInv, TypeOK, Times
  <2>2. QED BY <1>1, <2>1, FewerOwed DEF Delete
<1>2. CASE Tick
  <2>1. now' >= now /\ now' <= MaxTime
    BY <1>2 DEF Tick, IInv, TypeOK, Times
  <2>2. QED BY <1>2, <2>1, FewerOwed DEF Tick
<1>3. QED BY <1>1, <1>2, TouchKeeps DEF World

\* Without the file nothing is promised; no scan is under way.
LEMMA LoseKeeps ==
  ASSUME IInv, TypeOK', LoseCheckpoint
  PROVE  IInv'
<1>1. /\ checkpoint' = NoCheckpoint
      /\ UNCHANGED <<now, updated, deleted, recorded, lock, run>>
  BY DEF LoseCheckpoint, world
<1>2. TypeOK /\ Covers(NoCheckpoint) /\ NoCheckpoint.floor = 0
  BY NothingCovered DEF IInv
<1>3. ClockInv'
  BY <1>1, <1>2 DEF IInv, ClockInv, Past, TypeOK, Times
<1>4. Covers(checkpoint)'
  BY <1>1, <1>2 DEF Covers, Owed, Exists
<1>5. ASSUME NEW r \in Runs, run[r].pc # "idle" PROVE RunInv(r)'
  <2>1. RunInv(r) /\ run[r].pc \notin {"loaded", "started"} /\ run[r].mutation.kind # "scan"
    BY <1>5 DEF IInv, LoseCheckpoint, Scanning
  <2>2. FloorsInv(r)'
    BY <1>1, <2>1 DEF RunInv, FloorsInv, Past
  <2>3. ASSUME NEW s \in run[r].todo \cup run[r].thread, Fresh(r, s) PROVE Fresh(r, s)'
    <3>1. /\ updated[s] \in Times /\ checkpoint.floor \in Times
      BY <1>2, RunFields DEF TypeOK, CheckpointDoc
    <3>2. updated[s] > checkpoint.floor => updated[s] > 0
      BY <3>1 DEF Times
    <3>3. QED BY <1>1, <1>2, <2>3, <3>2 DEF Fresh
  <2>4. ItemsInv(r)'
    BY <1>1, <2>1, <2>3 DEF RunInv, ItemsInv
  <2>5. ScanInv(r)'
    BY <1>1, <2>1 DEF ScanInv
  <2>6. UpdateInv(r)'
    <3>1. Covers(run[r].read)'
      BY <1>1, <2>1 DEF RunInv, UpdateInv, Covers, Owed, Exists
    <3>2. ASSUME run[r].mutation.kind = "settle", NEW s \in run[r].mutation.ids
          PROVE  Settled(s, checkpoint.floor)' /\ Settled(s, run[r].read.floor)'
      <4>1. s \in Threads
        BY <1>2, RunFields DEF Mutation
      <4>2. Owed(s) => ~(updated[s] <= 0)
        BY <1>2, <4>1 DEF Owed, Exists, TypeOK, Times
      <4>3. QED BY <1>1, <1>2, <2>1, <3>2, <4>2 DEF RunInv, UpdateInv, Settled, Owed, Exists
    <3>3. QED BY <1>1, <2>1, <3>1, <3>2 DEF RunInv, UpdateInv
  <2>7. QED BY <2>2, <2>4, <2>5, <2>6 DEF RunInv
<1>6. QED BY <1>1, <1>3, <1>4, <1>5 DEF IInv

-----------------------------------------------------------------------------
(***************************************************************************)
(* The scan.                                                               *)
(***************************************************************************)
\* What a step of a run that leaves the world, the records and the file alone
\* does not disturb.
LEMMA Undisturbed ==
  ASSUME IInv, TypeOK', UNCHANGED <<updated, deleted, recorded, checkpoint>>,
         now' >= now
  PROVE  ClockInv' /\ Covers(checkpoint)'
<1>1. Covers(checkpoint)'
  BY DEF IInv, Covers, Owed, Exists
<1>2. ClockInv'
  BY DEF IInv, ClockInv, TypeOK, CheckpointDoc, Times, Past
<1>3. QED BY <1>1, <1>2

LEMMA WalkKeeps ==
  ASSUME IInv, TypeOK', NEW r \in Runs, Walk(r), \A q \in Runs : run[q].pc = "idle"
  PROVE  IInv'
<1> DEFINE new == [Idle EXCEPT !.pc = "walked", !.existing = recorded]
<1>1. /\ new.pc = "walked" /\ new.existing = recorded /\ new.todo = {} /\ new.thread = {}
      /\ new.mutation = NoMutation /\ new.start = 0
      /\ new.read = NoCheckpoint /\ new.base = NoCheckpoint
  BY DEF Idle
<1>2. /\ run' = [run EXCEPT ![r] = new] /\ run'[r] = new
      /\ UNCHANGED <<now, updated, deleted, recorded, checkpoint>>
  BY DEF Walk, world, IInv, TypeOK
<1> HIDE DEF new
<1>3. now' >= now /\ now >= 1
  BY <1>2 DEF IInv, ClockInv, TypeOK, Times
<1>4. TypeOK
  BY DEF IInv
<1>5. FloorsInv(r)'
  BY <1>1, <1>2, <1>3, <1>4, NothingCovered DEF FloorsInv, Past, TypeOK, Times
<1>6. ItemsInv(r)'
  BY <1>1, <1>2 DEF ItemsInv
<1>7. ScanInv(r)'
  BY <1>1, <1>2, <1>4, NothingCovered DEF ScanInv
<1>8. UpdateInv(r)'
  BY <1>1, <1>2, <1>4, NothingCovered DEF UpdateInv, Covers, Owed, Exists
<1>9. RunInv(r)'
  BY <1>5, <1>6, <1>7, <1>8 DEF RunInv
<1>10. QED BY <1>2, <1>3, <1>9, Undisturbed, OneMoves

LEMMA LoadKeeps ==
  ASSUME IInv, TypeOK', NEW r \in Runs, Load(r)
  PROVE  IInv'
<1> DEFINE new == [run[r] EXCEPT !.pc = "loaded", !.base = checkpoint]
<1>1. TypeOK /\ run[r] \in RunRecord /\ run[r].pc = "walked"
  BY RunFields DEF IInv, Load
<1>2. /\ new.pc = "loaded" /\ new.base = checkpoint /\ new.existing = run[r].existing
      /\ new.todo = run[r].todo /\ new.thread = run[r].thread /\ new.found = run[r].found
      /\ new.mutation = run[r].mutation /\ new.start = run[r].start
      /\ new.read = run[r].read
  BY <1>1 DEF RunRecord
<1>3. /\ run' = [run EXCEPT ![r] = new] /\ run'[r] = new
      /\ UNCHANGED <<now, updated, deleted, recorded, checkpoint>>
  BY <1>1 DEF Load, world, TypeOK
<1> HIDE DEF new
<1>4. RunInv(r) /\ \A q \in Runs : q # r => run[q].pc = "idle"
  BY <1>1, OthersIdle
<1>5. now' >= now
  BY <1>1, <1>3 DEF TypeOK, Times
<1>6. FloorsInv(r)'
  BY <1>2, <1>3, <1>4 DEF RunInv, FloorsInv, Past, IInv, ClockInv
<1>7. ItemsInv(r)'
  BY <1>1, <1>2, <1>3, <1>4 DEF RunInv, ItemsInv, Fresh
<1>8. run[r].mutation = NoMutation /\ run'[r].mutation = NoMutation
  BY <1>1, <1>2, <1>3, <1>4 DEF RunInv, UpdateInv, Updating
<1>9. ScanInv(r)'
  BY <1>1, <1>2, <1>3, <1>8, NothingCovered DEF ScanInv
<1>10. UpdateInv(r)'
  BY <1>1, <1>2, <1>3, <1>4, <1>8, NothingCovered
     DEF RunInv, UpdateInv, Covers, Owed, Exists
<1>11. RunInv(r)'
  BY <1>6, <1>7, <1>9, <1>10 DEF RunInv
<1>12. QED BY <1>3, <1>4, <1>5, <1>11, Undisturbed, OneMoves

LEMMA StartScanKeeps ==
  ASSUME IInv, TypeOK', NEW r \in Runs, StartScan(r)
  PROVE  IInv'
<1> DEFINE new == [run[r] EXCEPT !.pc = "started", !.start = now]
<1>1. TypeOK /\ run[r] \in RunRecord /\ run[r].pc = "loaded"
  BY RunFields DEF IInv, StartScan
<1>2. /\ new.pc = "started" /\ new.base = run[r].base /\ new.existing = run[r].existing
      /\ new.todo = run[r].todo /\ new.thread = run[r].thread /\ new.found = run[r].found
      /\ new.mutation = run[r].mutation /\ new.start = now
      /\ new.read = run[r].read
  BY <1>1 DEF RunRecord
<1>3. /\ run' = [run EXCEPT ![r] = new] /\ run'[r] = new
      /\ UNCHANGED <<updated, deleted, recorded, checkpoint>>
  BY <1>1 DEF StartScan, TypeOK
<1> HIDE DEF new
<1>4. RunInv(r) /\ \A q \in Runs : q # r => run[q].pc = "idle"
  BY <1>1, OthersIdle
<1>5. now' >= now /\ (now < now' \/ now' = MaxTime)
  BY <1>1 DEF StartScan, TypeOK, Times
<1>6. FloorsInv(r)'
  <2>1. \A f \in Times : Past(f) => Past(f)'
    BY <1>1, <1>5 DEF StartScan, Past, TypeOK, Times
  <2>2. /\ run[r].base.floor \in Times /\ run[r].mutation.floor \in Times
        /\ run[r].read.floor \in Times
    BY <1>1, RunFields DEF CheckpointDoc, Mutation
  <2>3. QED BY <1>2, <1>3, <1>4, <1>5, <2>1, <2>2 DEF RunInv, FloorsInv, Past
<1>7. ItemsInv(r)'
  BY <1>1, <1>2, <1>3, <1>4 DEF RunInv, ItemsInv, Fresh
<1>8. run[r].mutation = NoMutation /\ run'[r].mutation = NoMutation
  BY <1>1, <1>2, <1>3, <1>4 DEF RunInv, UpdateInv, Updating
<1>9. ScanInv(r)'
  BY <1>1, <1>2, <1>3, <1>4, <1>8, NothingCovered DEF RunInv, ScanInv
<1>10. UpdateInv(r)'
  BY <1>1, <1>2, <1>3, <1>4, <1>8, NothingCovered
     DEF RunInv, UpdateInv, Covers, Owed, Exists
<1>11. RunInv(r)'
  BY <1>6, <1>7, <1>9, <1>10 DEF RunInv
<1>12. QED BY <1>3, <1>4, <1>5, <1>11, Undisturbed, OneMoves

\* How far the floor of a scan may go: not past the base floor and the start,
\* nor, beyond the base floor, past a broken window.
LEMMA FloorBounds ==
  ASSUME TypeOK, NEW r \in Runs, NEW dirty \in Times
  PROVE  /\ ScanFloor(r, dirty) >= run[r].base.floor
         /\ ScanFloor(r, dirty) \in {run[r].base.floor, run[r].start, dirty}
         /\ \A u \in Times : u > run[r].start /\ u > run[r].base.floor
                             => u > ScanFloor(r, dirty)
         /\ \A u \in Times : dirty # 0 /\ u > dirty /\ u > run[r].base.floor
                             => u > ScanFloor(r, dirty)
<1>1. run[r].base.floor \in Times /\ run[r].start \in Times
  BY RunFields DEF CheckpointDoc
<1>2. QED BY <1>1 DEF ScanFloor, Later, Times

\* What a scan hands to the merge is covered up to the floor it reached: an
\* owed thread below it was found, queued, still pending, or was covered by the
\* file the scan started from.
LEMMA SearchCovers ==
  ASSUME TypeOK, ClockInv, NEW r \in Runs, Covers(run[r].base),
         NEW hidden \in SUBSET InSpan(r), NEW dirty \in Midnights \cup {0},
         NEW garbled, NEW retry, NEW keep, NEW t \in Threads,
         updated[t] > run[r].start \/ (dirty # 0 /\ dirty <= updated[t])
           \/ t \in retry \cup run[r].base.pending \/ t \notin hidden,
         retry \subseteq keep, InSpan(r) \ hidden \subseteq keep,
         {s \in run[r].base.pending : Exists(s)} \subseteq keep,
         Owed(t), updated[t] <= ScanFloor(r, dirty)
  PROVE  recorded[t] >= updated[t] \/ t \in keep
<1>1. dirty \in Times /\ (dirty # 0 => dirty \in Midnights)
  <2>1. 1..MaxTime \subseteq Times /\ 0 \in Times /\ 0 \notin Midnights
    BY DEF Times
  <2>2. QED BY <2>1
<1>2. updated[t] \in Times /\ run[r].start \in Times /\ run[r].base.floor \in Times
  BY RunFields DEF TypeOK, CheckpointDoc
<1>3. Exists(t)
  BY DEF Owed
<1>4. CASE t \in run[r].base.pending
  BY <1>3, <1>4
<1>5. CASE t \in InSpan(r) \ hidden \/ t \in retry
  BY <1>5
<1>6. CASE t \in hidden /\ t \notin retry \cup run[r].base.pending
  <2>1. updated[t] > run[r].base.floor
    BY <1>6 DEF InSpan
  <2>2. CASE updated[t] > run[r].start
    <3>1. updated[t] > ScanFloor(r, dirty)
      BY <1>1, <1>2, <2>1, <2>2, FloorBounds
    <3>2. ScanFloor(r, dirty) \in Times
      BY <1>1, <1>2, FloorBounds
    <3>3. QED BY <1>2, <3>1, <3>2 DEF Times
  <2>3. CASE dirty # 0 /\ dirty <= updated[t]
    <3>1. updated[t] # dirty
      BY <1>1, <2>3 DEF ClockInv
    <3>2. updated[t] > dirty
      BY <1>1, <1>2, <2>3, <3>1 DEF Times
    <3>3. updated[t] > ScanFloor(r, dirty)
      BY <1>1, <1>2, <2>1, <2>3, <3>2, FloorBounds
    <3>4. ScanFloor(r, dirty) \in Times
      BY <1>1, <1>2, FloorBounds
    <3>5. QED BY <1>2, <3>3, <3>4 DEF Times
  <2>4. QED BY <1>6, <2>2, <2>3
<1>7. CASE t \notin InSpan(r) /\ t \notin run[r].base.pending
  <2>1. updated[t] <= run[r].base.floor
    BY <1>2, <1>3, <1>7 DEF InSpan, Times
  <2>2. QED BY <1>7, <2>1 DEF Covers
<1>8. QED BY <1>4, <1>5, <1>6, <1>7

LEMMA SearchKeeps ==
  ASSUME IInv, TypeOK', NEW r \in Runs,
         NEW hidden \in SUBSET InSpan(r), NEW dirty \in Midnights \cup {0},
         NEW garbled, NEW retry \in SUBSET Threads,
         \A t \in hidden : updated[t] > run[r].start \/ (dirty # 0 /\ dirty <= updated[t])
                           \/ t \in retry \cup run[r].base.pending,
         Search(r, hidden, dirty, garbled, retry)
  PROVE  IInv'
<1> DEFINE base  == run[r].base.pending
           seen  == InSpan(r) \ hidden
           lane  == {t \in base \ seen : Exists(t) /\ t \notin garbled}
           gone  == {t \in base \ seen : ~Exists(t) /\ t \notin garbled}
           found == seen \cup lane
           keep  == found \cup retry \cup (base \ gone)
           m     == [kind |-> "scan", ids |-> found \cup retry, keep |-> keep,
                     prior |-> base, floor |-> ScanFloor(r, dirty)]
           stamp == [t \in Threads |-> IF t \in found THEN updated[t] ELSE 0]
           new   == [run[r] EXCEPT !.pc = "waiting", !.base = NoCheckpoint,
                     !.start = 0, !.found = stamp, !.todo = found, !.mutation = m]
<1>1. TypeOK /\ ClockInv /\ run[r] \in RunRecord /\ run[r].pc = "started"
  BY RunFields DEF IInv, Search
<1>2. RunInv(r) /\ \A q \in Runs : q # r => run[q].pc = "idle"
  BY <1>1, OthersIdle
<1>3. /\ run' = [run EXCEPT ![r] = new]
      /\ UNCHANGED <<now, updated, deleted, recorded, checkpoint>>
  BY DEF Search, world
<1>4. found \in SUBSET Threads /\ retry \subseteq keep /\ seen \subseteq keep
      /\ {s \in base : Exists(s)} \subseteq keep
  BY <1>1, RunFields DEF InSpan, CheckpointDoc
<1>5. \A t \in found : stamp[t] = updated[t]
  BY <1>4
<1>6. /\ m.kind = "scan" /\ m.keep = keep /\ m.prior = base
      /\ m.floor = ScanFloor(r, dirty)
  OBVIOUS
<1> HIDE DEF base, seen, keep, found, stamp, m
<1>7. /\ new.pc = "waiting" /\ new.base = NoCheckpoint /\ new.start = 0
      /\ new.found = stamp /\ new.todo = found /\ new.mutation = m
      /\ new.existing = run[r].existing /\ new.thread = run[r].thread
      /\ new.read = run[r].read
  BY <1>1 DEF RunRecord
<1>8. run'[r] = new
  BY <1>1, <1>3 DEF TypeOK
<1> HIDE DEF new
<1>9. dirty \in Times
  <2>1. 1..MaxTime \subseteq Times /\ 0 \in Times
    BY DEF Times
  <2>2. QED BY <2>1
<1>10. run[r].base = checkpoint /\ run[r].read = run[r].read /\ run[r].thread = {}
       /\ run[r].existing = recorded
  BY <1>1, <1>2 DEF RunInv, ScanInv, ItemsInv
<1>11. FloorsInv(r)'
  <2>1. Past(m.floor)
    <3>1. run[r].base.floor \in Times /\ run[r].start \in Times
      BY <1>1, RunFields DEF CheckpointDoc
    <3>2. Past(run[r].base.floor) /\ Past(run[r].start)
      BY <1>2 DEF RunInv, FloorsInv
    <3>3. ScanFloor(r, dirty) \in {run[r].base.floor, run[r].start}
          \/ ScanFloor(r, dirty) < run[r].start
      BY <1>9, <3>1 DEF ScanFloor, Later, Times
    <3>4. ScanFloor(r, dirty) \in Times
      BY <1>1, <1>9, <3>1, FloorBounds
    <3>5. QED BY <1>1, <1>6, <3>1, <3>2, <3>3, <3>4 DEF Past, Times, TypeOK
  <2>2. Past(0) /\ Past(NoCheckpoint.floor)
    BY <1>1, NothingCovered DEF Past, ClockInv, TypeOK, Times
  <2>3. Past(run[r].read.floor)
    BY <1>2 DEF RunInv, FloorsInv
  <2>4. QED BY <1>3, <1>7, <1>8, <2>1, <2>2, <2>3 DEF FloorsInv, Past
<1>12. ItemsInv(r)'
  <2>1. ASSUME NEW t \in found PROVE Fresh(r, t)'
    BY <1>3, <1>5, <1>7, <1>8, <2>1 DEF Fresh
  <2>2. QED BY <1>3, <1>4, <1>7, <1>8, <1>10, <2>1 DEF ItemsInv
<1>13. ScanInv(r)'
  <2>1. ASSUME NEW t \in Threads, Owed(t), updated[t] <= ScanFloor(r, dirty)
        PROVE  recorded[t] >= updated[t] \/ t \in keep
    <3>1. Covers(run[r].base)
      BY <1>10 DEF IInv
    <3>2. QED BY <1>1, <1>4, <2>1, <3>1, SearchCovers DEF seen, base
  <2>2. \A t \in Threads : Owed(t)' /\ updated'[t] <= m.floor
                           => recorded'[t] >= updated'[t] \/ t \in m.keep
    BY <1>3, <1>6, <2>1 DEF Owed, Exists
  <2>3. m.floor >= checkpoint.floor
    BY <1>1, <1>6, <1>9, <1>10, FloorBounds
  <2>4. Covers([floor |-> run[r].mutation.floor, pending |-> run[r].mutation.keep])'
    BY <1>7, <1>8, <2>2 DEF Covers
  <2>5. QED BY <1>3, <1>6, <1>7, <1>8, <1>10, <2>3, <2>4 DEF ScanInv, base
<1>14. UpdateInv(r)'
  BY <1>1, <1>2, <1>3, <1>6, <1>7, <1>8
     DEF RunInv, UpdateInv, Updating, Covers, Owed, Exists
<1>15. now' >= now
  BY <1>1, <1>3 DEF TypeOK, Times
<1>16. RunInv(r)'
  BY <1>11, <1>12, <1>13, <1>14 DEF RunInv
<1>17. QED BY <1>2, <1>3, <1>15, <1>16, Undisturbed, OneMoves

LEMMA SearchesKeep ==
  ASSUME IInv, TypeOK', NEW r \in Runs, CleanSearch(r) \/ BrokenSearch(r)
  PROVE  IInv'
<1>1. CASE CleanSearch(r)
  BY <1>1, SearchKeeps DEF CleanSearch
<1>2. CASE BrokenSearch(r)
  BY <1>2, SearchKeeps DEF BrokenSearch
<1>3. QED BY <1>1, <1>2

-----------------------------------------------------------------------------
(***************************************************************************)
(* Updates of the checkpoint.                                              *)
(***************************************************************************)
LEMMA LockingKeeps ==
  ASSUME IInv, TypeOK', NEW r \in Runs, Acquire(r) \/ Steal(r)
  PROVE  IInv'
<1>1. TypeOK /\ run[r] \in RunRecord /\ run[r].pc = "waiting"
  BY RunFields DEF IInv, Acquire, Steal
<1>2. RunInv(r) /\ \A q \in Runs : q # r => run[q].pc = "idle"
  BY <1>1, OthersIdle
<1>3. PICK pc \in {"locked", "unlocked"} : run' = [run EXCEPT ![r] = Reading(pc, run[r])]
  BY DEF Acquire, Steal
<1> DEFINE new == Reading(pc, run[r])
<1>4. UNCHANGED <<now, updated, deleted, recorded, checkpoint>>
  BY DEF Acquire, Steal, world
<1>5. /\ new.pc = pc /\ new.read = checkpoint
      /\ new.base = run[r].base /\ new.start = run[r].start
      /\ new.found = run[r].found /\ new.todo = run[r].todo
      /\ new.mutation = run[r].mutation /\ new.thread = run[r].thread
      /\ new.existing = run[r].existing
  BY <1>1 DEF Reading, RunRecord
<1>6. run'[r] = new /\ run' = [run EXCEPT ![r] = new]
  BY <1>1, <1>3 DEF TypeOK
<1> HIDE DEF new
<1>7. FloorsInv(r)'
  BY <1>2, <1>4, <1>5, <1>6 DEF RunInv, FloorsInv, IInv, ClockInv, Past
<1>8. ItemsInv(r)'
  BY <1>1, <1>2, <1>4, <1>5, <1>6 DEF RunInv, ItemsInv, Fresh
<1>9. ScanInv(r)'
  BY <1>2, <1>4, <1>5, <1>6 DEF RunInv, ScanInv, Covers, Owed, Exists
<1>10. UpdateInv(r)'
  <2>1. Covers(run[r].read)'
    BY <1>4, <1>5, <1>6 DEF IInv, Covers, Owed, Exists
  <2>2. QED
    BY <1>1, <1>2, <1>4, <1>5, <1>6, <2>1
       DEF RunInv, UpdateInv, Updating, Settled, Owed, Exists
<1>11. now' >= now
  BY <1>1, <1>4 DEF TypeOK, Times
<1>12. RunInv(r)'
  BY <1>7, <1>8, <1>9, <1>10 DEF RunInv
<1>13. QED BY <1>2, <1>4, <1>6, <1>11, <1>12, Undisturbed, OneMoves

\* With nothing else at work on the file, the merge keeps what the scan kept.
LEMMA SavedCovers ==
  ASSUME TypeOK, NEW r \in Runs, RunInv(r), Covers(checkpoint), Save(r)
  PROVE  /\ checkpoint'.floor \in
              {0, checkpoint.floor, run[r].read.floor, run[r].mutation.floor}
         /\ \A t \in Threads :
              Owed(t) /\ updated[t] <= checkpoint'.floor
              => recorded[t] >= updated[t] \/ t \in checkpoint'.pending
<1> DEFINE m   == run[r].mutation
           new == Mutated(m, run[r].read)
           Good(doc) ==
             /\ doc.floor \in {0, checkpoint.floor, run[r].read.floor, m.floor}
             /\ Covers(doc)
<1>1. m \in Mutation /\ run[r].read \in CheckpointDoc /\ checkpoint \in CheckpointDoc
  BY RunFields DEF TypeOK
<1>2. Good(NoCheckpoint) /\ Good(checkpoint)
  BY NothingCovered
<1>3. Covers(run[r].read) /\ run[r].pc # "waiting"
  BY DEF RunInv, UpdateInv, Save
<1>4. Good(new)
  <2>1. CASE m.kind = "settle"
    <3>1. new.floor = run[r].read.floor /\ new.pending = run[r].read.pending \ m.ids
      BY <1>1, <2>1 DEF Mutated, CheckpointDoc
    <3>2. \A t \in m.ids : Settled(t, run[r].read.floor)
      BY <2>1 DEF RunInv, UpdateInv
    <3>3. QED BY <1>3, <3>1, <3>2 DEF Covers, Settled
  <2>2. CASE m.kind = "note"
    <3>1. new.floor = run[r].read.floor /\ new.pending = run[r].read.pending \cup m.ids
      BY <1>1, <2>2 DEF Mutated, CheckpointDoc
    <3>2. QED BY <1>3, <3>1 DEF Covers
  <2>3. CASE m.kind = "scan"
    <3>1. /\ run[r].read = checkpoint /\ m.prior = checkpoint.pending
          /\ m.floor >= checkpoint.floor
          /\ Covers([floor |-> m.floor, pending |-> m.keep])
      BY <1>3, <2>3 DEF RunInv, ScanInv
    <3>2. Merged(m, checkpoint.pending) = m.keep
      BY <3>1 DEF Merged
    <3>3. Later(checkpoint.floor, m.floor) = m.floor
      BY <1>1, <3>1 DEF Later, Mutation, CheckpointDoc, Times
    <3>4. new = [floor |-> m.floor, pending |-> m.keep]
      BY <2>3, <3>1, <3>2, <3>3 DEF Mutated
    <3>5. QED BY <3>1, <3>4
  <2>4. CASE m.kind = "none"
    <3>1. new = run[r].read
      BY <2>4 DEF Mutated
    <3>2. QED BY <1>3, <3>1
  <2>5. QED BY <1>1, <2>1, <2>2, <2>3, <2>4 DEF Mutation
<1>5. \/ checkpoint' = checkpoint
      \/ checkpoint' = new
      \/ checkpoint' = NoCheckpoint
  BY DEF Save, Bounded
<1> HIDE DEF new
<1>6. QED
  <2>1. CASE checkpoint' = checkpoint
    BY <1>2, <2>1 DEF Covers
  <2>2. CASE checkpoint' = new
    BY <1>4, <2>2 DEF Covers
  <2>3. CASE checkpoint' = NoCheckpoint
    BY <1>2, <2>3 DEF Covers
  <2>4. QED BY <1>5, <2>1, <2>2, <2>3

LEMMA SaveKeeps ==
  ASSUME IInv, TypeOK', NEW r \in Runs, Save(r)
  PROVE  IInv'
<1> DEFINE new == [run[r] EXCEPT !.pc = "items", !.mutation = NoMutation,
                                 !.read = NoCheckpoint]
<1>1. TypeOK /\ run[r] \in RunRecord /\ run[r].pc \in {"locked", "unlocked"}
  BY RunFields DEF IInv, Save
<1>2. RunInv(r) /\ \A q \in Runs : q # r => run[q].pc = "idle"
  BY <1>1, OthersIdle
<1>3. /\ run' = [run EXCEPT ![r] = new] /\ run'[r] = new
      /\ UNCHANGED <<now, updated, deleted, recorded>>
  BY <1>1 DEF Save, world, TypeOK
<1>4. /\ new.pc = "items" /\ new.read = NoCheckpoint /\ new.mutation = NoMutation
      /\ new.base = run[r].base /\ new.start = run[r].start
      /\ new.found = run[r].found /\ new.todo = run[r].todo
      /\ new.thread = run[r].thread /\ new.existing = run[r].existing
  BY <1>1 DEF RunRecord
<1> HIDE DEF new
<1>5. /\ checkpoint'.floor \in
           {0, checkpoint.floor, run[r].read.floor, run[r].mutation.floor}
      /\ \A t \in Threads : Owed(t) /\ updated[t] <= checkpoint'.floor
                            => recorded[t] >= updated[t] \/ t \in checkpoint'.pending
  BY <1>1, <1>2, SavedCovers DEF IInv
<1>6. Past(0) /\ Past(checkpoint.floor)
  BY <1>1 DEF IInv, ClockInv, Past, TypeOK, Times
<1>7. ClockInv'
  BY <1>2, <1>3, <1>5, <1>6 DEF IInv, ClockInv, RunInv, FloorsInv, Past
<1>8. Covers(checkpoint)'
  BY <1>3, <1>5 DEF Covers, Owed, Exists
<1>9. FloorsInv(r)'
  BY <1>1, <1>2, <1>3, <1>4, <1>6, NothingCovered DEF RunInv, FloorsInv, Past
<1>10. ItemsInv(r)'
  <2>1. ASSUME NEW t \in run[r].todo \cup run[r].thread, Fresh(r, t)
        PROVE  Fresh(r, t)'
    <3>1. /\ updated[t] \in Times /\ checkpoint.floor \in Times
          /\ run[r].read.floor \in Times /\ run[r].mutation.floor \in Times
      BY <1>1, RunFields DEF TypeOK, CheckpointDoc, Mutation
    <3>2. CASE run[r].found[t] = updated[t]
      BY <1>3, <1>4, <3>2 DEF Fresh
    <3>3. CASE run[r].found[t] # updated[t]
      <4>1. updated[t] > checkpoint'.floor /\ updated[t] > 0
        BY <1>5, <2>1, <3>1, <3>3 DEF Fresh, Times
      <4>2. QED BY <1>1, <1>3, <1>4, <4>1, NothingCovered DEF Fresh
    <3>4. QED BY <3>2, <3>3
  <2>2. QED BY <1>1, <1>2, <1>3, <1>4, <2>1 DEF RunInv, ItemsInv
<1>11. ScanInv(r)'
  BY <1>1, <1>3, <1>4, NothingCovered DEF ScanInv
<1>12. UpdateInv(r)'
  BY <1>1, <1>3, <1>4, NothingCovered DEF UpdateInv, Covers, Owed, Exists
<1>13. RunInv(r)'
  BY <1>9, <1>10, <1>11, <1>12 DEF RunInv
<1>14. QED BY <1>2, <1>3, <1>7, <1>8, <1>13, OneMoves

-----------------------------------------------------------------------------
(***************************************************************************)
(* The found threads.                                                      *)
(***************************************************************************)
\* An update for a thread in hand may begin if what it settles is settled.
LEMMA UpdateKeeps ==
  ASSUME IInv, TypeOK', NEW r \in Runs, run[r].pc = "items", NEW t \in run[r].todo,
         NEW m \in {Settle(t), Note(t)}, Update(r, t, m),
         m = Settle(t) => Settled(t, checkpoint.floor)
  PROVE  IInv'
<1> DEFINE new == [run[r] EXCEPT !.pc = "waiting", !.mutation = m, !.todo = @ \ {t}]
<1>1. TypeOK /\ run[r] \in RunRecord
  BY RunFields DEF IInv
<1>2. RunInv(r) /\ \A q \in Runs : q # r => run[q].pc = "idle"
  BY OthersIdle
<1>3. /\ run' = [run EXCEPT ![r] = new] /\ run'[r] = new
      /\ UNCHANGED <<now, updated, deleted, recorded, checkpoint>>
  BY <1>1 DEF Update, world, TypeOK
<1>4. /\ new.pc = "waiting" /\ new.mutation = m /\ new.todo = run[r].todo \ {t}
      /\ new.read = run[r].read /\ new.base = run[r].base /\ new.start = run[r].start
      /\ new.found = run[r].found /\ new.thread = run[r].thread
      /\ new.existing = run[r].existing
  BY <1>1 DEF RunRecord
<1> HIDE DEF new
<1>5. /\ m.floor = 0 /\ m.kind \in {"settle", "note"} /\ m.ids = {t}
      /\ m.kind = "settle" => m = Settle(t)
  BY DEF Settle, Note, NoMutation
<1>6. t \in Threads /\ Past(0)
  BY <1>1, RunFields DEF IInv, ClockInv, Past, TypeOK, Times
<1>7. FloorsInv(r)'
  BY <1>2, <1>3, <1>4, <1>5, <1>6 DEF RunInv, FloorsInv, Past
<1>8. ItemsInv(r)'
  <2>1. ASSUME NEW s \in run[r].todo \cup run[r].thread, Fresh(r, s)
        PROVE  Fresh(r, s)'
    <3>1. updated[s] \in Times /\ checkpoint.floor \in Times
      BY <1>1, RunFields DEF TypeOK, CheckpointDoc
    <3>2. updated[s] > checkpoint.floor => updated[s] > 0
      BY <3>1 DEF Times
    <3>3. QED BY <1>3, <1>4, <1>5, <2>1, <3>2 DEF Fresh
  <2>2. QED BY <1>2, <1>3, <1>4, <2>1 DEF RunInv, ItemsInv
<1>9. ScanInv(r)'
  BY <1>3, <1>4, <1>5 DEF ScanInv
<1>10. UpdateInv(r)'
  <2>1. Covers(run[r].read)'
    BY <1>2, <1>3, <1>4 DEF RunInv, UpdateInv, Covers, Owed, Exists
  <2>2. ASSUME m.kind = "settle"
        PROVE  Settled(t, checkpoint.floor)' /\ Settled(t, run[r].read.floor)'
    <3>1. Settled(t, checkpoint.floor)'
      BY <1>3, <1>5, <2>2 DEF Settled, Owed, Exists
    <3>2. Settled(t, run[r].read.floor)'
      <4>1. run[r].read = NoCheckpoint
        BY <1>2 DEF RunInv, UpdateInv
      <4>2. Owed(t) => ~(updated[t] <= 0)
        BY <1>1, <1>6 DEF Owed, Exists, TypeOK, Times
      <4>3. QED BY <1>1, <1>3, <1>4, <4>1, <4>2, NothingCovered DEF Settled, Owed, Exists
    <3>3. QED BY <3>1, <3>2
  <2>3. QED BY <1>2, <1>3, <1>4, <1>5, <2>1, <2>2 DEF RunInv, UpdateInv, Updating
<1>11. now' >= now
  BY <1>1, <1>3 DEF TypeOK, Times
<1>12. RunInv(r)'
  BY <1>7, <1>8, <1>9, <1>10 DEF RunInv
<1>13. QED BY <1>2, <1>3, <1>11, <1>12, Undisturbed, OneMoves

LEMMA SettlesKeep ==
  ASSUME IInv, TypeOK', NEW r \in Runs, NEW t \in Threads,
         SettleUnchanged(r, t) \/ SettleTerminal(r, t) \/ FailExport(r, t)
  PROVE  IInv'
<1>1. TypeOK /\ run[r].pc = "items" /\ t \in run[r].todo
  BY DEF IInv, SettleUnchanged, SettleTerminal, FailExport, Taking
<1>2. RunInv(r)
  BY <1>1, OthersIdle
<1>3. CASE SettleUnchanged(r, t)
  <2>1. run[r].existing[t] = recorded[t] /\ Fresh(r, t) /\ run[r].found[t] <= recorded[t]
    BY <1>1, <1>2, <1>3 DEF RunInv, ItemsInv, SettleUnchanged, Unchanged
  <2>2. updated[t] \in Times /\ checkpoint.floor \in Times
    BY <1>1 DEF TypeOK, CheckpointDoc
  <2>3. Settled(t, checkpoint.floor)
    BY <2>1, <2>2 DEF Fresh, Settled, Times
  <2>4. QED BY <1>1, <1>3, <2>3, UpdateKeeps DEF SettleUnchanged
<1>4. CASE SettleTerminal(r, t)
  <2>1. Settled(t, checkpoint.floor)
    BY <1>4 DEF SettleTerminal, Settled, Owed, Exists
  <2>2. QED BY <1>1, <1>4, <2>1, UpdateKeeps DEF SettleTerminal
<1>5. CASE FailExport(r, t)
  <2>1. Note(t) # Settle(t)
    BY DEF Note, Settle, NoMutation
  <2>2. QED BY <1>1, <1>5, <2>1, UpdateKeeps DEF FailExport
<1>6. QED BY <1>3, <1>4, <1>5

\* Taking a thread up or dropping it.
LEMMA ItemKeeps ==
  ASSUME IInv, TypeOK', NEW r \in Runs, NEW t \in Threads,
         NEW rev, SkipItem(r, t) \/ ExportRev(r, t, rev)
  PROVE  IInv'
<1> DEFINE skip == [run[r] EXCEPT !.todo = @ \ {t}]
           take == [run[r] EXCEPT !.pc = "staged", !.thread = {t},
                                  !.staged = rev, !.todo = @ \ {t}]
           new  == IF SkipItem(r, t) THEN skip ELSE take
<1>1. TypeOK /\ run[r] \in RunRecord /\ run[r].pc = "items" /\ t \in run[r].todo
  BY RunFields DEF IInv, SkipItem, ExportRev, Taking
<1>2. RunInv(r) /\ \A q \in Runs : q # r => run[q].pc = "idle"
  BY <1>1, OthersIdle
<1>3. /\ run' = [run EXCEPT ![r] = new] /\ run'[r] = new
      /\ UNCHANGED <<now, updated, deleted, recorded, checkpoint>>
  BY <1>1 DEF SkipItem, ExportRev, world, TypeOK
<1>4. /\ skip.pc = "items" /\ skip.thread = run[r].thread /\ skip.todo = run[r].todo \ {t}
      /\ skip.mutation = run[r].mutation /\ skip.read = run[r].read
      /\ skip.base = run[r].base /\ skip.start = run[r].start
      /\ skip.found = run[r].found /\ skip.existing = run[r].existing
  BY <1>1 DEF RunRecord
<1>5. /\ take.pc = "staged" /\ take.thread = {t} /\ take.todo = run[r].todo \ {t}
      /\ take.mutation = run[r].mutation /\ take.read = run[r].read
      /\ take.base = run[r].base /\ take.start = run[r].start
      /\ take.found = run[r].found /\ take.existing = run[r].existing
  BY <1>1 DEF RunRecord
<1> HIDE DEF skip, take
<1>6. /\ \/ new.pc = "items" /\ new.thread = run[r].thread
         \/ new.pc = "staged" /\ new.thread = {t}
      /\ new.todo = run[r].todo \ {t}
      /\ new.mutation = run[r].mutation /\ new.read = run[r].read
      /\ new.base = run[r].base /\ new.start = run[r].start
      /\ new.found = run[r].found /\ new.existing = run[r].existing
  BY <1>4, <1>5
<1> HIDE DEF new
<1>7. FloorsInv(r)'
  BY <1>2, <1>3, <1>6 DEF RunInv, FloorsInv, Past
<1>8. ItemsInv(r)'
  BY <1>1, <1>2, <1>3, <1>6 DEF RunInv, ItemsInv, Fresh
<1>9. run[r].mutation = NoMutation
  BY <1>1, <1>2 DEF RunInv, UpdateInv, Updating
<1>10. ScanInv(r)'
  BY <1>1, <1>3, <1>6, <1>9, NothingCovered DEF ScanInv
<1>11. UpdateInv(r)'
  BY <1>1, <1>2, <1>3, <1>6, <1>9, NothingCovered
     DEF RunInv, UpdateInv, Covers, Owed, Exists
<1>12. now' >= now
  BY <1>1, <1>3 DEF TypeOK, Times
<1>13. RunInv(r)'
  BY <1>7, <1>8, <1>10, <1>11 DEF RunInv
<1>14. QED BY <1>2, <1>3, <1>12, <1>13, Undisturbed, OneMoves

\* A record only moves forward, so what it covered it still covers.
LEMMA CommitKeeps ==
  ASSUME IInv, TypeOK', NEW r \in Runs, Record(r) \/ Refuse(r)
  PROVE  IInv'
<1> DEFINE new == [run[r] EXCEPT !.pc = "items", !.thread = {}, !.staged = 0]
<1>1. TypeOK /\ run[r] \in RunRecord /\ run[r].pc = "staged"
  BY RunFields DEF IInv, Record, Refuse
<1>2. RunInv(r) /\ \A q \in Runs : q # r => run[q].pc = "idle"
  BY <1>1, OthersIdle
<1>3. /\ run' = [run EXCEPT ![r] = new] /\ run'[r] = new
      /\ UNCHANGED <<now, updated, deleted, checkpoint>>
  BY <1>1 DEF Record, Refuse, PutDown, world, TypeOK
<1>4. /\ new.pc = "items" /\ new.thread = {} /\ new.todo = run[r].todo
      /\ new.mutation = run[r].mutation /\ new.read = run[r].read
      /\ new.base = run[r].base /\ new.start = run[r].start
      /\ new.found = run[r].found /\ new.existing = run[r].existing
  BY <1>1 DEF RunRecord
<1> HIDE DEF new
<1>5. ASSUME NEW t \in Threads
      PROVE  /\ recorded'[t] = recorded[t] \/ t \in run[r].thread
             /\ Owed(t) /\ recorded[t] >= updated[t] => recorded'[t] >= updated[t]
  <2>1. CASE recorded' = recorded
    BY <2>1
  <2>2. CASE Record(r)
    <3>1. PICK s \in run[r].thread :
            Supersedes(r, s) /\ recorded' = [recorded EXCEPT ![s] = run[r].staged]
      BY <2>2 DEF Record
    <3>2. run[r].existing[s] = recorded[s] /\ s \in Threads
      BY <1>1, <1>2, RunFields DEF RunInv, ItemsInv
    <3>3. CASE t # s
      BY <1>1, <3>1, <3>3 DEF TypeOK
    <3>4. CASE t = s
      <4>1. recorded'[t] = run[r].staged
        BY <1>1, <3>1, <3>4 DEF TypeOK
      <4>2. /\ recorded[t] \in Times /\ updated[t] \in Times /\ run[r].staged \in Times
            /\ Owed(t) => updated[t] # 0
        BY <1>1, RunFields DEF TypeOK, Owed, Exists
      <4>3. recorded[t] # 0 => run[r].staged > recorded[t]
        BY <3>1, <3>2, <3>4 DEF Supersedes
      <4>4. QED BY <3>1, <3>4, <4>1, <4>2, <4>3 DEF Times
    <3>5. QED BY <3>3, <3>4
  <2>3. QED BY <2>1, <2>2 DEF Refuse
<1>6. ClockInv'
  BY <1>3 DEF IInv, ClockInv, Past
<1>7. Covers(checkpoint)'
  BY <1>3, <1>5 DEF IInv, Covers, Owed, Exists
<1>8. FloorsInv(r)'
  BY <1>2, <1>3, <1>4 DEF RunInv, FloorsInv, Past
<1>9. ItemsInv(r)'
  <2>1. \A t \in run[r].todo : recorded'[t] = recorded[t]
    BY <1>1, <1>2, <1>5, RunFields DEF RunInv, ItemsInv
  <2>2. QED BY <1>1, <1>2, <1>3, <1>4, <2>1 DEF RunInv, ItemsInv, Fresh
<1>10. run[r].mutation = NoMutation
  BY <1>1, <1>2 DEF RunInv, UpdateInv, Updating
<1>11. ScanInv(r)'
  BY <1>1, <1>3, <1>4, <1>10, NothingCovered DEF ScanInv
<1>12. UpdateInv(r)'
  <2>1. Covers(run[r].read)'
    BY <1>2, <1>3, <1>4, <1>5 DEF RunInv, UpdateInv, Covers, Owed, Exists
  <2>2. QED BY <1>1, <1>2, <1>3, <1>4, <1>10, <2>1, NothingCovered DEF RunInv, UpdateInv
<1>13. RunInv(r)'
  BY <1>8, <1>9, <1>11, <1>12 DEF RunInv
<1>14. QED BY <1>2, <1>3, <1>6, <1>7, <1>13, OneMoves

LEMMA EndKeeps ==
  ASSUME IInv, TypeOK', NEW r \in Runs, EndRun(r) \/ AbortRun(r)
  PROVE  IInv'
<1>1. /\ run' = [run EXCEPT ![r] = Idle] /\ run[r].pc # "idle"
      /\ UNCHANGED <<now, updated, deleted, recorded, checkpoint>>
  BY DEF EndRun, AbortRun, world
<1>2. Idle.pc = "idle"
  BY DEF Idle
<1>3. now' >= now
  BY <1>1 DEF IInv, TypeOK, Times
<1>4. QED BY <1>1, <1>2, <1>3, OthersIdle, Undisturbed, OneMoves

-----------------------------------------------------------------------------
(***************************************************************************)
(* The theorems.                                                           *)
(***************************************************************************)
LEMMA FloorInit == Init => IInv
<1>1. SUFFICES ASSUME Init PROVE IInv
  OBVIOUS
<1>2. TypeOK
  BY <1>1, TypeInit
<1>3. \A r \in Runs : run[r].pc = "idle"
  BY <1>1 DEF Init, Idle
<1>4. ClockInv
  <2>1. checkpoint.floor = 0 /\ now = 1
    BY <1>1 DEF Init, NoCheckpoint
  <2>2. \A t \in Threads : updated[t] = 0
    BY <1>1 DEF Init
  <2>3. 0 \notin Midnights
    OBVIOUS
  <2>4. QED BY <2>1, <2>2, <2>3 DEF ClockInv, Past
<1>5. Covers(checkpoint)
  BY <1>1, <1>2, NothingCovered DEF Init
<1>6. QED BY <1>2, <1>3, <1>4, <1>5 DEF IInv

LEMMA FloorStep ==
  ASSUME Alone = TRUE, MidnightStamps = FALSE, IInv, [Next]_vars
  PROVE  IInv'
<1>1. TypeOK'
  BY TypeStep DEF IInv
<1>2. CASE World
  BY <1>1, <1>2, WorldKeeps
<1>3. ASSUME NEW r \in Runs, Running(r) PROVE IInv'
  <2>1. CASE Walk(r) /\ (Alone => \A q \in Runs : run[q].pc = "idle")
    BY <1>1, <2>1, WalkKeeps
  <2>2. CASE Load(r) \/ StartScan(r) \/ CleanSearch(r)
    BY <1>1, <2>2, LoadKeeps, StartScanKeeps, SearchesKeep
  <2>3. CASE Acquire(r) \/ Save(r)
    BY <1>1, <2>3, LockingKeeps, SaveKeeps
  <2>4. ASSUME NEW t \in Threads,
               SettleUnchanged(r, t) \/ SettleTerminal(r, t) \/ Export(r, t)
        PROVE  IInv'
    BY <1>1, <2>4, SettlesKeep, ItemKeeps DEF Export
  <2>5. CASE Record(r) \/ Refuse(r) \/ EndRun(r)
    BY <1>1, <2>5, CommitKeeps, EndKeeps
  <2>6. QED BY <1>3, <2>1, <2>2, <2>3, <2>4, <2>5 DEF Running, RunStep
<1>4. CASE Fault
  <2>1. CASE LoseCheckpoint
    BY <1>1, <2>1, LoseKeeps
  <2>2. ASSUME NEW r \in Runs, BrokenSearch(r) \/ Steal(r) \/ AbortRun(r) PROVE IInv'
    BY <1>1, <2>2, SearchesKeep, LockingKeeps, EndKeeps
  <2>3. ASSUME NEW r \in Runs, NEW t \in Threads,
               FailExport(r, t) \/ SkipItem(r, t) \/ ExportBehind(r, t)
        PROVE  IInv'
    BY <1>1, <2>3, SettlesKeep, ItemKeeps DEF ExportBehind
  <2>4. QED BY <1>4, <2>1, <2>2, <2>3 DEF Fault
<1>5. CASE UNCHANGED vars
  <2>1. /\ UNCHANGED <<now, updated, deleted, recorded, checkpoint, run>>
        /\ now' >= now /\ now' <= MaxTime
    BY <1>5 DEF vars, world, IInv, TypeOK, Times
  <2>2. QED BY <1>1, <2>1, FewerOwed
<1>6. QED BY <1>2, <1>3, <1>4, <1>5 DEF Next

\* Sweeps run one at a time, killed or failing wherever they may: every thread
\* at or below the floor is on record at its present revision, or is pending and
\* will be looked up again, unless it is stamped at exactly a midnight.
THEOREM NothingForgottenAlone ==
  ASSUME Alone = TRUE, MidnightStamps = FALSE
  PROVE  Spec => []NothingForgotten
<1>1. IInv => NothingForgotten
  BY DEF IInv, Covers, NothingForgotten
<1>2. IInv /\ [Next]_vars => IInv'
  BY FloorStep
<1>3. QED BY <1>1, <1>2, FloorInit, PTL DEF Spec

\* ... and a recapture never takes a record back to an earlier revision, however
\* far the export lags behind the search.
THEOREM NeverWorsenedAlone ==
  ASSUME Alone = TRUE, MidnightStamps = FALSE
  PROVE  Spec => NeverWorsened
<1> DEFINE Forward == \A t \in Threads : recorded'[t] >= recorded[t]
<1>1. IInv /\ [Next]_vars => [Forward]_vars
  <2>1. SUFFICES ASSUME IInv, Next PROVE Forward
    OBVIOUS
  <2>2. \A t \in Threads : recorded[t] \in Times /\ recorded[t] >= recorded[t]
    BY <2>1 DEF IInv, TypeOK, Times
  <2>3. ASSUME NEW r \in Runs, Record(r) PROVE Forward
    <3>1. TypeOK /\ run[r].pc = "staged"
      BY <2>1, <2>3 DEF IInv, Record
    <3>2. RunInv(r)
      BY <2>1, <3>1, OthersIdle
    <3>3. PICK s \in run[r].thread :
            Supersedes(r, s) /\ recorded' = [recorded EXCEPT ![s] = run[r].staged]
      BY <2>3 DEF Record
    <3>4. run[r].existing[s] = recorded[s] /\ s \in Threads /\ run[r].staged \in Times
      BY <3>1, <3>2, RunFields DEF RunInv, ItemsInv
    <3>5. run[r].staged >= recorded[s]
      BY <2>2, <3>3, <3>4 DEF Supersedes, Times
    <3>6. QED BY <2>2, <3>1, <3>3, <3>4, <3>5 DEF TypeOK
  <2>4. CASE \A r \in Runs : ~Record(r)
    <3>1. CASE World
      BY <2>2, <3>1 DEF World, Touch, Delete, Tick
    <3>2. ASSUME NEW r \in Runs, Running(r) PROVE recorded' = recorded
      BY <2>4, <3>2 DEF Running, RunStep, Walk, Load, StartScan, CleanSearch, Search,
         Acquire, Save, SettleUnchanged, SettleTerminal, Update, Export, ExportRev,
         Refuse, EndRun
    <3>3. CASE Fault
      <4>1. CASE LoseCheckpoint
        BY <2>2, <4>1 DEF LoseCheckpoint
      <4>2. ASSUME NEW r \in Runs, BrokenSearch(r) \/ Steal(r) \/ AbortRun(r)
            PROVE  recorded' = recorded
        BY <4>2, ZenonT(30) DEF BrokenSearch, Search, Steal, AbortRun
      <4>3. ASSUME NEW r \in Runs, NEW t \in Threads,
                   FailExport(r, t) \/ SkipItem(r, t) \/ ExportBehind(r, t)
            PROVE  recorded' = recorded
        BY <4>3 DEF FailExport, Update, SkipItem, ExportBehind, ExportRev
      <4>4. QED BY <2>2, <3>3, <4>1, <4>2, <4>3 DEF Fault
    <3>4. QED BY <2>1, <2>2, <3>1, <3>2, <3>3 DEF Next
  <2>5. QED BY <2>3, <2>4
<1>2. IInv /\ [Next]_vars => IInv'
  BY FloorStep
<1>3. QED BY <1>1, <1>2, FloorInit, PTL DEF Spec, NeverWorsened
=============================================================================
