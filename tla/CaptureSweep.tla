---------------------------- MODULE CaptureSweep ----------------------------
(***************************************************************************)
(* `clast plumbing capture` (internal/verbs/capture): one sweep walks the  *)
(* journal once, enumerates the live transcripts, and for each one that is *)
(* new or grown copies it, records it and applies the automatic dismissal. *)
(* The SessionStart hook runs sweeps in the background, so several may be  *)
(* at work at once; each action below is one write (or the read whose      *)
(* answer a later write uses), and any other process may act in between.   *)
(*                                                                         *)
(* Reads merged into the step after or before them, and why nothing is     *)
(* lost: Walk with Discover (only a live file's existence is read there);  *)
(* the recapture check with Capture's own read (a revision seen as changed *)
(* never changes back); clone resolution with Commit (nothing else reads   *)
(* the artifact and the registry together).                                *)
(***************************************************************************)
EXTENDS JournalStore

CONSTANTS
  Sweeps,           \* capture processes
  StartedOn,        \* StartedOn[k]: day of k's first timestamp; Undated: none
  Located,          \* sessions whose transcript names a working directory
  Substantive,      \* revisions in which the agent answered
  AutoDismissNoop   \* config capture.auto_dismiss_noop

Undated == 0
ASSUME StartedOnAssumption == StartedOn \in [Keys -> Days \cup {Undated}]
ASSUME LocatedAssumption == Located \subseteq Keys
ASSUME SubstantiveAssumption == Substantive \subseteq Revs
ASSUME AutoDismissNoopAssumption == AutoDismissNoop \in BOOLEAN

VARIABLES
  live,        \* the harness's own transcript of each session; 0: none yet
  today,       \* the day shard of the clock
  registered,  \* the sessions' clone is in the registry (`clast init`)
  sweep        \* each sweep's progress

sources == <<live, today, registered>>

NoItem == [day |-> 0, session |-> NoSession]
WalkItem == [day : Days \cup {0}, session : SessionDoc]
Idle == [pc |-> "idle", existing |-> [k \in Keys |-> NoItem], todo |-> {},
         dir |-> <<>>, staged |-> 0, project |-> FALSE, read |-> NoCuration]

SweepRecord ==
  [pc : {"idle", "sweeping", "backfill", "staged", "committed", "recorded",
         "read"},
   existing : [Keys -> WalkItem],  \* the walk's snapshot
   todo : SUBSET Keys,             \* found and not yet handled
   dir : Dirs \cup {<<>>},         \* the session in hand
   staged : Revs,                  \* the revision copied to the stage
   project : BOOLEAN,              \* whether its clone resolved
   read : CurationDoc]             \* curation.json as applyAutoDismissal read it

SweepTypeOK ==
  /\ live \in [Keys -> Revs]
  /\ today \in Days
  /\ registered \in BOOLEAN
  /\ sweep \in [Sweeps -> SweepRecord]

SweepInit ==
  /\ live = [k \in Keys |-> 0]
  /\ today = 1
  /\ registered = FALSE
  /\ sweep = [s \in Sweeps |-> Idle]

(***************************************************************************)
(* The world a sweep looks at: an agent starts or continues a session,     *)
(* midnight passes, the user registers the clone.                          *)
(***************************************************************************)
Grow(k) ==
  /\ live[k] < MaxRev
  /\ StartedOn[k] <= today
  /\ live' = [live EXCEPT ![k] = @ + 1]
  /\ UNCHANGED <<today, registered, sweep, store>>

Midnight ==
  /\ today < LastDay
  /\ today' = today + 1
  /\ UNCHANGED <<live, registered, sweep, store>>

Register ==
  /\ ~registered
  /\ registered' = TRUE
  /\ UNCHANGED <<live, today, sweep, store>>

(***************************************************************************)
(* run: the walk's snapshot, then the found sessions one at a time.        *)
(***************************************************************************)
Snapshot(k) ==
  IF ListedDays(k) = {} THEN NoItem
  ELSE [day |-> WalkedDay(k), session |-> session[<<WalkedDay(k), k>>]]

StartSweep(s) ==
  /\ sweep[s].pc = "idle"
  /\ sweep' = [sweep EXCEPT ![s] =
       [Idle EXCEPT !.pc = "sweeping",
                    !.existing = [k \in Keys |-> Snapshot(k)],
                    !.todo = {k \in Keys : live[k] # 0}]]
  /\ UNCHANGED <<sources, store>>

EndSweep(s) ==
  /\ sweep[s].pc = "sweeping"
  /\ sweep[s].todo = {}
  /\ sweep' = [sweep EXCEPT ![s] = Idle]
  /\ UNCHANGED <<sources, store>>

Prior(s, k)     == sweep[s].existing[k]
Recapture(s, k) == Prior(s, k).session.rev # 0
Unchanged(s, k) == Prior(s, k).session.rev = live[k]
Resolves(k)     == registered /\ k \in Located
KeyOf(s)        == sweep[s].dir[2]

\* The session is done with, one way or another: the sweep moves on.
NextItem(s, k) ==
  sweep' = [sweep EXCEPT ![s] =
    [Idle EXCEPT !.pc = "sweeping", !.existing = sweep[s].existing,
                 !.todo = sweep[s].todo \ {k}]]

\* An unreadable session (fingerprint, correlation or copy) is a diagnostic.
SkipItem(s, k) ==
  /\ sweep[s].pc = "sweeping"
  /\ k \in sweep[s].todo
  /\ NextItem(s, k)
  /\ UNCHANGED <<sources, store>>

\* Mutant: an unchanged session is left alone whether or not it has a project.
LeaveAloneRegardless(s, k) ==
  /\ sweep[s].pc = "sweeping"
  /\ k \in sweep[s].todo
  /\ Unchanged(s, k)
  /\ NextItem(s, k)
  /\ UNCHANGED <<sources, store>>

LeaveAlone(s, k) ==
  /\ sweep[s].pc = "sweeping"
  /\ k \in sweep[s].todo
  /\ Unchanged(s, k)
  /\ Prior(s, k).session.project \/ ~Resolves(k)
  /\ NextItem(s, k)
  /\ UNCHANGED <<sources, store>>

(***************************************************************************)
(* backfillProject: the recorded document is written back whole, with the  *)
(* project it lacked.                                                      *)
(***************************************************************************)
ResolveBackfill(s, k) ==
  /\ sweep[s].pc = "sweeping"
  /\ k \in sweep[s].todo
  /\ Unchanged(s, k)
  /\ ~Prior(s, k).session.project
  /\ Resolves(k)
  /\ sweep' = [sweep EXCEPT ![s].pc = "backfill",
                            ![s].dir = <<Prior(s, k).day, k>>]
  /\ UNCHANGED <<sources, store>>

WriteBackfill(s) ==
  /\ sweep[s].pc = "backfill"
  /\ WriteSession(sweep[s].dir,
       [Prior(s, KeyOf(s)).session EXCEPT !.project = TRUE])
  /\ NextItem(s, KeyOf(s))
  /\ UNCHANGED <<sources, artifact, curation, entry>>

(***************************************************************************)
(* captureOne: copy to the stage, commit, record, settle the dismissal.    *)
(***************************************************************************)
Stage(s, k) ==
  /\ sweep[s].pc = "sweeping"
  /\ k \in sweep[s].todo
  /\ ~Unchanged(s, k)
  /\ sweep' = [sweep EXCEPT ![s].pc = "staged",
                            ![s].dir = <<1, k>>,
                            ![s].staged = live[k]]
  /\ UNCHANGED <<sources, store>>

\* Mutant of Shard: a recapture is sharded anew.
ShardAnew(s, k) == IF StartedOn[k] = Undated THEN today ELSE StartedOn[k]

\* A recapture keeps its shard; a first capture takes the session's day, or
\* the clock's when the transcript carries no timestamp.
Shard(s, k) ==
  IF Recapture(s, k) THEN Prior(s, k).day
  ELSE IF StartedOn[k] = Undated THEN today ELSE StartedOn[k]

\* Mutants of Commit: the stage is dropped; it never replaces a copy.
CommitOf(s, replaced) ==
  /\ sweep[s].pc = "staged"
  /\ LET k == KeyOf(s)
         d == <<Shard(s, k), k>> IN
       /\ CommitArtifact(d, IF artifact[d] \in replaced THEN sweep[s].staged
                            ELSE artifact[d])
       /\ sweep' = [sweep EXCEPT ![s].pc = "committed",
                                 ![s].dir = d,
                                 ![s].project = Resolves(k)]
  /\ UNCHANGED <<sources, session, curation, entry>>
CommitNothing(s)       == CommitOf(s, {})
CommitFirstCopyOnly(s) == CommitOf(s, {0})

Commit(s) ==
  /\ sweep[s].pc = "staged"
  /\ LET k == KeyOf(s)
         d == <<Shard(s, k), k>> IN
       /\ CommitArtifact(d, sweep[s].staged)
       /\ sweep' = [sweep EXCEPT ![s].pc = "committed",
                                 ![s].dir = d,
                                 ![s].project = Resolves(k)]
  /\ UNCHANGED <<sources, session, curation, entry>>

Record(s) ==
  /\ sweep[s].pc = "committed"
  /\ WriteSession(sweep[s].dir,
       [rev |-> sweep[s].staged, project |-> sweep[s].project])
  /\ sweep' = [sweep EXCEPT ![s].pc = "recorded"]
  /\ UNCHANGED <<sources, artifact, curation, entry>>

(***************************************************************************)
(* applyAutoDismissal: read curation.json, then act on what was read.      *)
(***************************************************************************)
ReadDecision(s) ==
  /\ sweep[s].pc = "recorded"
  /\ sweep' = [sweep EXCEPT ![s].pc = "read",
                            ![s].read = curation[sweep[s].dir]]
  /\ UNCHANGED <<sources, store>>

MustDismiss(s) ==
  /\ sweep[s].staged \notin Substantive
  /\ AutoDismissNoop
  /\ sweep[s].read.state = "captured"

\* Mutants of MustRetract: a dismissal with any reason; only of what stayed a
\* no-op.
MustRetractAny(s) ==
  /\ sweep[s].staged \in Substantive
  /\ sweep[s].read.state = "dismissed"
MustRetractNoop(s) ==
  /\ sweep[s].staged \notin Substantive
  /\ sweep[s].read = Dismissed(AutoNoop)

MustRetract(s) ==
  /\ sweep[s].staged \in Substantive
  /\ sweep[s].read = Dismissed(AutoNoop)

AutoDismiss(s) ==
  /\ sweep[s].pc = "read"
  /\ MustDismiss(s)
  /\ WriteCuration(sweep[s].dir, Dismissed(AutoNoop))
  /\ NextItem(s, KeyOf(s))
  /\ UNCHANGED <<sources, artifact, session, entry>>

RetractDismissal(s) ==
  /\ sweep[s].pc = "read"
  /\ MustRetract(s)
  /\ RemoveCuration(sweep[s].dir)
  /\ NextItem(s, KeyOf(s))
  /\ UNCHANGED <<sources, artifact, session, entry>>

KeepDecision(s) ==
  /\ sweep[s].pc = "read"
  /\ ~MustDismiss(s)
  /\ ~MustRetract(s)
  /\ NextItem(s, KeyOf(s))
  /\ UNCHANGED <<sources, store>>

\* A killed process, a canceled context or a failed store write: the sweep
\* ends where it stands.  What it staged is never read by a walk.
AbortSweep(s) ==
  /\ sweep[s].pc # "idle"
  /\ sweep' = [sweep EXCEPT ![s] = Idle]
  /\ UNCHANGED <<sources, store>>

SweepStep(s) ==
  \/ StartSweep(s)
  \/ EndSweep(s)
  \/ \E k \in Keys : LeaveAlone(s, k) \/ ResolveBackfill(s, k) \/ Stage(s, k)
  \/ WriteBackfill(s)
  \/ Commit(s)
  \/ Record(s)
  \/ ReadDecision(s)
  \/ AutoDismiss(s)
  \/ RetractDismissal(s)
  \/ KeepDecision(s)
=============================================================================
