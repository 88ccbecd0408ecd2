---------------------------- MODULE AmpScanState ----------------------------
(***************************************************************************)
(* What lets an amp sweep look only at the tail of an account's history    *)
(* (internal/source/amp: scanstate.go, discover.go): a checkpoint file     *)
(* with a floor, below which scans do not look again, and the pending ids, *)
(* which every scan looks up whatever their age.  Several sweeps may merge *)
(* into one file; a lock file orders their updates, but a lock may be      *)
(* stolen and an update may go ahead without it.                           *)
(*                                                                         *)
(* Simplifications.  A thread's revision is the time of its last update,   *)
(* which is what amp's Unchanged compares; the server's clock and this     *)
(* machine's agree, and an update and a scan's start do not share an       *)
(* instant.  One scope, whose account is known.  The windows of a scan are *)
(* one step: a thread updated after the scan's start may be seen or not.   *)
(* The caches that ride in the file (correlation verdicts, quarantine)     *)
(* change neither floor nor pending ids and are left out; an id whose      *)
(* export is over the byte budget is a member of Oversized.                *)
(***************************************************************************)
EXTENDS Naturals, FiniteSets

CONSTANTS
  Threads,         \* the account's thread ids
  Runs,            \* capture processes
  NoRun,           \* no lock file
  MaxTime,         \* bounds the clock: updates stop at MaxTime
  Midnights,       \* starts of days, where search windows start
  MidnightStamps,  \* whether a thread may be stamped at exactly a midnight
  Continued,       \* threads that may be updated after they were created
  PendingCap,      \* pendingCap
  Oversized,       \* threads whose export is over the byte budget
  Alone,           \* one run at a time
  MaxFaults        \* bounds crashes, failed calls, thefts and lost files

ASSUME NoRunAssumption == NoRun \notin Runs
ASSUME MaxTimeAssumption == MaxTime \in Nat \ {0}
ASSUME MidnightsAssumption == Midnights \subseteq 1..MaxTime
ASSUME FlagsAssumption == MidnightStamps \in BOOLEAN /\ Alone \in BOOLEAN
ASSUME ContinuedAssumption == Continued \subseteq Threads
ASSUME PendingCapAssumption == PendingCap \in Nat
ASSUME MaxFaultsAssumption == MaxFaults \in Nat

Times == 0..MaxTime   \* 0: never, or no floor

VARIABLES
  now,         \* the clock
  updated,     \* updatedAt of each thread, at the server
  deleted,     \* threads that left the account's universe
  recorded,    \* last_active_at of each thread's session.json
  checkpoint,  \* the scan-state file
  lock,        \* the run that created the lock file, or NoRun
  run,         \* each run's progress
  faults

world == <<now, updated, deleted>>
vars  == <<world, recorded, checkpoint, lock, run, faults>>

-----------------------------------------------------------------------------
(***************************************************************************)
(* The file and its mutations.                                             *)
(***************************************************************************)
CheckpointDoc == [floor : Times, pending : SUBSET Threads]
NoCheckpoint  == [floor |-> 0, pending |-> {}]

\* settlePending, notePending and recordScan as data: the ids settled, noted
\* or emitted; what a scan keeps pending, the pending set it started from and
\* the floor it reached.
Mutation ==
  [kind : {"none", "settle", "note", "scan"}, ids : SUBSET Threads,
   keep : SUBSET Threads, prior : SUBSET Threads, floor : Times]
NoMutation == [kind |-> "none", ids |-> {}, keep |-> {}, prior |-> {}, floor |-> 0]
Settle(t) == [NoMutation EXCEPT !.kind = "settle", !.ids = {t}]
Note(t)   == [NoMutation EXCEPT !.kind = "note", !.ids = {t}]

Later(a, b) == IF a < b THEN b ELSE a

\* Mutant of Merged: what another run added meanwhile is overwritten.
MergedOverwriting(m, pending) == m.keep

\* What another run added since this scan's read stays; what another run
\* drained goes, unless this scan saw it again.
Merged(m, pending) ==
  (m.keep \cup (pending \ m.prior)) \ ((m.prior \ pending) \ m.ids)

\* Mutant of Mutated: the file's own floor is not consulted.
MutatedFloorReplaced(m, doc) ==
  CASE m.kind = "settle" -> [doc EXCEPT !.pending = @ \ m.ids]
    [] m.kind = "note"   -> [doc EXCEPT !.pending = @ \cup m.ids]
    [] m.kind = "scan"   -> [floor |-> m.floor, pending |-> Merged(m, doc.pending)]
    [] OTHER             -> doc

Mutated(m, doc) ==
  CASE m.kind = "settle" -> [doc EXCEPT !.pending = @ \ m.ids]
    [] m.kind = "note"   -> [doc EXCEPT !.pending = @ \cup m.ids]
    [] m.kind = "scan"   -> [floor   |-> Later(doc.floor, m.floor),
                             pending |-> Merged(m, doc.pending)]
    [] OTHER             -> doc

\* Past the cap the file is reset, which makes the next scan a full one.
Bounded(doc) == IF Cardinality(doc.pending) > PendingCap THEN NoCheckpoint ELSE doc

-----------------------------------------------------------------------------
Idle ==
  [pc |-> "idle", existing |-> [t \in Threads |-> 0], base |-> NoCheckpoint,
   start |-> 0, found |-> [t \in Threads |-> 0], todo |-> {},
   thread |-> {}, staged |-> 0, mutation |-> NoMutation, read |-> NoCheckpoint]

RunRecord ==
  [pc : {"idle", "walked", "loaded", "started", "items", "staged", "waiting",
         "locked", "unlocked"},
   existing : [Threads -> Times],  \* the journal's walk
   base : CheckpointDoc,           \* the checkpoint the scan started from
   start : Times,                  \* scanStart
   found : [Threads -> Times],     \* ModTime of each thread emitted; 0: none
   todo : SUBSET Threads,          \* emitted and not yet handled
   thread : SUBSET Threads,        \* the one in hand, if any
   staged : Times,                 \* the revision its export carries
   mutation : Mutation,            \* the update under way
   read : CheckpointDoc]           \* the file as that update read it

TypeOK ==
  /\ now \in Times
  /\ updated \in [Threads -> Times]
  /\ deleted \subseteq Threads
  /\ recorded \in [Threads -> Times]
  /\ checkpoint \in CheckpointDoc
  /\ lock \in Runs \cup {NoRun}
  /\ run \in [Runs -> RunRecord]
  /\ faults \in 0..MaxFaults

Init ==
  /\ now = 1
  /\ updated = [t \in Threads |-> 0]
  /\ deleted = {}
  /\ recorded = [t \in Threads |-> 0]
  /\ checkpoint = NoCheckpoint
  /\ lock = NoRun
  /\ run = [r \in Runs |-> Idle]
  /\ faults = 0

-----------------------------------------------------------------------------
(***************************************************************************)
(* The world: threads are written to and deleted, the cache file is lost.  *)
(***************************************************************************)
Touch(t) ==
  /\ now < MaxTime
  /\ t \notin deleted
  /\ t \in Continued \/ updated[t] = 0
  /\ now \in Midnights => MidnightStamps
  /\ updated[t] # now
  /\ updated' = [updated EXCEPT ![t] = now]
  /\ UNCHANGED <<now, deleted, recorded, checkpoint, lock, run>>

Tick ==
  /\ now < MaxTime
  /\ now' = now + 1
  /\ UNCHANGED <<updated, deleted, recorded, checkpoint, lock, run>>

Delete(t) ==
  /\ updated[t] # 0
  /\ t \notin deleted
  /\ deleted' = deleted \cup {t}
  /\ UNCHANGED <<now, updated, recorded, checkpoint, lock, run>>

\* A scan that has loaded the file takes ids it misses for drained, so the
\* model loses the file only between scans.
Scanning(r) == run[r].pc \in {"loaded", "started"} \/ run[r].mutation.kind = "scan"

LoseCheckpoint ==
  /\ \A r \in Runs : ~Scanning(r)
  /\ checkpoint' = NoCheckpoint
  /\ UNCHANGED <<world, recorded, lock, run>>

-----------------------------------------------------------------------------
(***************************************************************************)
(* Discover: load the checkpoint, note the time, scan, merge the outcome.  *)
(***************************************************************************)
Walk(r) ==
  /\ run[r].pc = "idle"
  /\ run' = [run EXCEPT ![r] = [Idle EXCEPT !.pc = "walked", !.existing = recorded]]
  /\ UNCHANGED <<world, recorded, checkpoint, lock>>

Load(r) ==
  /\ run[r].pc = "walked"
  /\ run' = [run EXCEPT ![r] = [run[r] EXCEPT !.pc = "loaded", !.base = checkpoint]]
  /\ UNCHANGED <<world, recorded, checkpoint, lock>>

\* What is stamped from now on is stamped later than the start.
StartScan(r) ==
  /\ run[r].pc = "loaded"
  /\ run' = [run EXCEPT ![r] = [run[r] EXCEPT !.pc = "started", !.start = now]]
  /\ now' = IF now < MaxTime THEN now + 1 ELSE now
  /\ UNCHANGED <<updated, deleted, recorded, checkpoint, lock>>

Exists(t) == updated[t] # 0 /\ t \notin deleted

\* The rows of the windows that clear MinTime; without a floor, all.
InSpan(r) == {t \in Threads : Exists(t) /\ updated[t] > run[r].base.floor}

\* Mutant of ScanFloor: dirty windows are crossed.
ScanFloorCrossing(r, dirty) == Later(run[r].start, run[r].base.floor)

\* The floor stops at the earliest window whose coverage was not clean, and
\* never goes back.
ScanFloor(r, dirty) ==
  Later(IF dirty # 0 /\ dirty < run[r].start THEN dirty ELSE run[r].start,
        run[r].base.floor)

\* What the list endpoint may show and enumeration missed: in the span by its
\* own stamp or, never recorded, whatever its age.
Corroborable(r, seen) ==
  {t \in Threads \ seen :
     Exists(t) /\ (updated[t] > run[r].base.floor \/ recorded[t] = 0)}

\* One enumeration: hidden rows were not seen by any window, undiagnosed ids
\* of the pending lane come back clean, retry is what corroboration queues.
Search(r, hidden, dirty, garbled, retry) ==
  LET base  == run[r].base.pending
      seen  == InSpan(r) \ hidden
      lane  == {t \in base \ seen : Exists(t) /\ t \notin garbled}
      gone  == {t \in base \ seen : ~Exists(t) /\ t \notin garbled}
      found == seen \cup lane
      m     == [kind |-> "scan", ids |-> found \cup retry,
                keep |-> found \cup retry \cup (base \ gone),
                prior |-> base, floor |-> ScanFloor(r, dirty)]
  IN /\ run[r].pc = "started"
     /\ retry \subseteq Corroborable(r, found)
     /\ run' = [run EXCEPT ![r] = [run[r] EXCEPT
          !.pc = "waiting",
          !.base = NoCheckpoint,
          !.start = 0,
          !.found = [t \in Threads |-> IF t \in found THEN updated[t] ELSE 0],
          !.todo = found,
          !.mutation = m]]
     /\ UNCHANGED <<world, recorded, checkpoint, lock>>

\* Every window answered in full: what is hidden moved while it ran.
CleanSearch(r) ==
  \E hidden \in SUBSET {t \in InSpan(r) : updated[t] > run[r].start} :
    Search(r, hidden, 0, {}, {})

\* Pages at the row cap, rows that do not parse, rows the search surface does
\* not hold: the window is dirty, or the list shows what was missed.
BrokenSearch(r) ==
  \E hidden \in SUBSET InSpan(r), dirty \in Midnights \cup {0},
     garbled \in SUBSET run[r].base.pending, retry \in SUBSET Threads :
    /\ \A t \in hidden : \/ updated[t] > run[r].start
                         \/ dirty # 0 /\ dirty <= updated[t]
                         \/ t \in retry \cup run[r].base.pending
    /\ Search(r, hidden, dirty, garbled, retry)

-----------------------------------------------------------------------------
(***************************************************************************)
(* updateScanState: take the lock, read the file, write it, drop the lock. *)
(***************************************************************************)
\* Inside an update: what the file holds has been read.
Reading(pc, w) == [w EXCEPT !.pc = pc, !.read = checkpoint]

Stale(q) == q # NoRun => run[q].pc # "locked"

\* O_EXCL create; a file older than any live holder is removed first.
Acquire(r) ==
  /\ run[r].pc = "waiting"
  /\ Stale(lock)
  /\ lock' = r
  /\ run' = [run EXCEPT ![r] = Reading("locked", run[r])]
  /\ UNCHANGED <<world, recorded, checkpoint>>

\* The wait ran out on a slow holder: steal, or go ahead without.
Steal(r) ==
  /\ run[r].pc = "waiting"
  /\ ~Stale(lock)
  /\ \/ lock' = r /\ run' = [run EXCEPT ![r] = Reading("locked", run[r])]
     \/ lock' = lock /\ run' = [run EXCEPT ![r] = Reading("unlocked", run[r])]
  /\ UNCHANGED <<world, recorded, checkpoint>>

\* settle and note write nothing when they change nothing; a release removes
\* whatever lock file there is.
Save(r) ==
  LET m   == run[r].mutation
      new == Mutated(m, run[r].read) IN
  /\ run[r].pc \in {"locked", "unlocked"}
  /\ checkpoint' = IF m.kind = "scan" \/ new # run[r].read THEN Bounded(new)
                   ELSE checkpoint
  /\ lock' = IF run[r].pc = "locked" THEN NoRun ELSE lock
  /\ run' = [run EXCEPT ![r] = [run[r] EXCEPT !.pc = "items", !.mutation = NoMutation,
                                              !.read = NoCheckpoint]]
  /\ UNCHANGED <<world, recorded>>

-----------------------------------------------------------------------------
(***************************************************************************)
(* The found threads, as captureOne handles each.                          *)
(***************************************************************************)
Taking(r, t) ==
  /\ run[r].pc = "items"
  /\ t \in run[r].todo

\* The next step for t is an update of the checkpoint.
Update(r, t, m) ==
  /\ run' = [run EXCEPT ![r] = [run[r] EXCEPT !.pc = "waiting", !.mutation = m,
                                              !.todo = @ \ {t}]]
  /\ UNCHANGED <<world, recorded, checkpoint, lock>>

\* Mutant of Unchanged: any recorded revision will do.
UnchangedOnceRecorded(r, t) == run[r].existing[t] # 0

Unchanged(r, t) == run[r].existing[t] # 0 /\ run[r].found[t] <= run[r].existing[t]

\* The journal already holds this revision: the strongest witness.
SettleUnchanged(r, t) ==
  /\ Taking(r, t)
  /\ Unchanged(r, t)
  /\ Update(r, t, Settle(t))

\* The export does not exist, or is over the budget and only grows.
SettleTerminal(r, t) ==
  /\ Taking(r, t)
  /\ ~Unchanged(r, t)
  /\ t \in deleted \cup Oversized
  /\ Update(r, t, Settle(t))

\* Transport, timeout or malformed document: the id is owed again.
FailExport(r, t) ==
  /\ Taking(r, t)
  /\ ~Unchanged(r, t)
  /\ t \notin deleted \cup Oversized
  /\ Update(r, t, Note(t))

\* Correlate or the comparison failed: a diagnostic, and nothing is noted.
SkipItem(r, t) ==
  /\ Taking(r, t)
  /\ run' = [run EXCEPT ![r] = [run[r] EXCEPT !.todo = @ \ {t}]]
  /\ UNCHANGED <<world, recorded, checkpoint, lock>>

ExportRev(r, t, rev) ==
  /\ Taking(r, t)
  /\ ~Unchanged(r, t)
  /\ t \notin deleted \cup Oversized
  /\ run' = [run EXCEPT ![r] = [run[r] EXCEPT !.pc = "staged", !.thread = {t},
                                              !.staged = rev, !.todo = @ \ {t}]]
  /\ UNCHANGED <<world, recorded, checkpoint, lock>>

Export(r, t) == ExportRev(r, t, updated[t])

\* A server view behind the search surface: an earlier revision, if any.
ExportBehind(r, t) ==
  t \in Continued /\ \E rev \in 1..(updated[t] - 1) : ExportRev(r, t, rev)

\* Mutant of Supersedes: whatever was exported replaces the record.
SupersedesAlways(r, t) == TRUE

Supersedes(r, t) == run[r].existing[t] # 0 => run[r].staged > run[r].existing[t]

PutDown(r) ==
  run' = [run EXCEPT ![r] = [run[r] EXCEPT !.pc = "items", !.thread = {}, !.staged = 0]]

Record(r) ==
  /\ run[r].pc = "staged"
  /\ \E t \in run[r].thread :
       /\ Supersedes(r, t)
       /\ recorded' = [recorded EXCEPT ![t] = run[r].staged]
  /\ PutDown(r)
  /\ UNCHANGED <<world, checkpoint, lock>>

Refuse(r) ==
  /\ run[r].pc = "staged"
  /\ \E t \in run[r].thread : ~Supersedes(r, t)
  /\ PutDown(r)
  /\ UNCHANGED <<world, recorded, checkpoint, lock>>

EndRun(r) ==
  /\ run[r].pc = "items"
  /\ run[r].todo = {}
  /\ run' = [run EXCEPT ![r] = Idle]
  /\ UNCHANGED <<world, recorded, checkpoint, lock>>

\* Killed, canceled, or unable to enumerate: a lock it holds stays behind.
AbortRun(r) ==
  /\ run[r].pc # "idle"
  /\ run' = [run EXCEPT ![r] = Idle]
  /\ UNCHANGED <<world, recorded, checkpoint, lock>>

-----------------------------------------------------------------------------
World ==
  /\ (\E t \in Threads : Touch(t) \/ Delete(t)) \/ Tick
  /\ UNCHANGED faults

RunStep(r) ==
  \/ Walk(r) /\ (Alone => \A q \in Runs : run[q].pc = "idle")
  \/ Load(r) \/ StartScan(r) \/ CleanSearch(r)
  \/ Acquire(r) \/ Save(r)
  \/ \E t \in Threads : SettleUnchanged(r, t) \/ SettleTerminal(r, t) \/ Export(r, t)
  \/ Record(r) \/ Refuse(r) \/ EndRun(r)

Running(r) == RunStep(r) /\ UNCHANGED faults

Fault ==
  /\ faults < MaxFaults
  /\ faults' = faults + 1
  /\ \/ LoseCheckpoint
     \/ \E r \in Runs :
          \/ BrokenSearch(r) \/ Steal(r) \/ AbortRun(r)
          \/ \E t \in Threads : FailExport(r, t) \/ SkipItem(r, t) \/ ExportBehind(r, t)

Next == World \/ (\E r \in Runs : Running(r)) \/ Fault

\* A run goes on unless it is killed, the hook or cron starts another, and the
\* wait for the lock is bounded: contention cannot keep a run out for good.
Fairness ==
  \A r \in Runs :
    WF_vars(Running(r)) /\ SF_vars(Acquire(r) /\ UNCHANGED faults)

Spec == Init /\ [][Next]_vars /\ Fairness

-----------------------------------------------------------------------------
Owed(t) == Exists(t) /\ t \notin Oversized

\* The floor only covers what is recorded or pending: a thread at or below it
\* that the journal lacks will be looked up again.
NothingForgotten ==
  \A t \in Threads :
    Owed(t) /\ updated[t] <= checkpoint.floor
    => recorded[t] >= updated[t] \/ t \in checkpoint.pending

\* Between a read of the checkpoint and the write that follows no other run
\* reads it, as long as nobody was kept waiting past the limits.
LockExcludes ==
  faults = 0 =>
    \A q, r \in Runs : run[q].pc = "locked" /\ run[r].pc = "locked" => q = r

\* ... and then the floor never goes back, whatever floor another run landed
\* while this one scanned.
FloorNeverRegresses ==
  [][faults' = 0 => \/ checkpoint'.floor >= checkpoint.floor
                    \/ checkpoint' = NoCheckpoint]_vars

\* A recapture never takes a record back to an earlier revision.
NeverWorsened == [][\A t \in Threads : recorded'[t] >= recorded[t]]_vars

\* Once a thread is left alone, its last revision gets on record.
ThreadsCatchUp ==
  \A t \in Threads : <>[](Owed(t) => recorded[t] = updated[t])
=============================================================================
