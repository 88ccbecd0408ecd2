------------------------------ MODULE Journal ------------------------------
(***************************************************************************)
(* Capture sweeps and state verbs at work on one journal.  Nothing locks:  *)
(* what keeps the documents consistent is the order of writes and what     *)
(* each verb checks before it writes.  Alone = TRUE is the journal of a    *)
(* user who lets one command end before starting the next; Alone = FALSE   *)
(* is the one the background SessionStart hook makes.                      *)
(***************************************************************************)
EXTENDS CaptureSweep, StateVerbs

CONSTANTS
  Alone,      \* commands run one at a time
  MaxFaults   \* aborted commands and unreadable sessions a behaviour may see

ASSUME AloneAssumption == Alone \in BOOLEAN
ASSUME MaxFaultsAssumption == MaxFaults \in Nat

VARIABLE faults

vars == <<store, sources, sweep, verb, faults>>

Init ==
  /\ StoreInit
  /\ SweepInit
  /\ VerbInit
  /\ faults = 0

TypeOK ==
  /\ StoreTypeOK
  /\ SweepTypeOK
  /\ VerbTypeOK
  /\ faults \in 0..MaxFaults

Quiet ==
  /\ \A s \in Sweeps : sweep[s].pc = "idle"
  /\ \A u \in Users : verb[u].pc = "ready"

World ==
  /\ (\E k \in Keys : Grow(k)) \/ Midnight \/ Register
  /\ UNCHANGED <<verb, faults>>

Sweeping(s) ==
  /\ Alone /\ sweep[s].pc = "idle" => Quiet
  /\ SweepStep(s)
  /\ UNCHANGED <<verb, faults>>

StartingVerb(u) ==
  /\ Alone => Quiet
  /\ BeginVerb(u)
  /\ UNCHANGED <<sources, sweep, faults>>

FinishingVerb(u) ==
  /\ FinishVerb(u)
  /\ UNCHANGED <<sources, sweep, faults>>

Fault ==
  /\ faults < MaxFaults
  /\ faults' = faults + 1
  /\ \/ /\ \E s \in Sweeps : AbortSweep(s) \/ \E k \in Keys : SkipItem(s, k)
        /\ UNCHANGED verb
     \/ /\ \E u \in Users : AbortVerb(u)
        /\ UNCHANGED <<sources, sweep>>

Next ==
  \/ World
  \/ \E s \in Sweeps : Sweeping(s)
  \/ \E u \in Users : StartingVerb(u) \/ FinishingVerb(u)
  \/ Fault

\* A sweep goes on unless it is aborted, and the hook starts one at every
\* session start.  Nobody has to grow a session, register a clone or finish a
\* verb.
Fairness == \A s \in Sweeps : WF_vars(Sweeping(s))

Spec == Init /\ [][Next]_vars /\ Fairness

-----------------------------------------------------------------------------
(***************************************************************************)
(* Safety, whatever runs together.                                         *)
(***************************************************************************)

\* A session read back as curated has its entry.md on disk, through any crash
\* of curate and any interleaving of verbs and sweeps (curate.Run's write
\* order).
CuratedHasEntry == \A d \in Dirs : State(d) = "curated" => entry[d] # 0

\* A session.json never stands without the transcript copy it describes
\* (captureOne commits the stage before WriteSession).
RecordHasCopy == \A d \in Dirs : Listed(d) => artifact[d] # 0

(***************************************************************************)
(* Safety of commands run one at a time, faults included.                  *)
(***************************************************************************)

\* An aborted capture leaves session.json behind its copy or level with it,
\* never ahead: the next recapture check then sees a difference and copies.
RecordNotAhead == \A d \in Dirs : session[d].rev <= artifact[d]

\* A session is listed under one shard, even when its transcript has no
\* timestamp and a sweep died between committing and recording it.
OneShardPerSession ==
  \A k \in Keys : \A a, b \in ListedDays(k) : a = b

\* An entry that is not stale was drafted from a copy at least as recent as
\* the session's record (curate's stamp is read after the draft).
FreshEntryCoversRecord ==
  \A d \in Dirs : State(d) = "curated" /\ ~Stale(d) => entry[d] >= session[d].rev

\* Only a verb takes back what a verb decided: whatever sweeps and transcripts
\* do, through recaptures, retries and aborts, a session curated, or dismissed
\* with any reason but capture's reserved one, keeps that very decision, though
\* its transcript turn substantive or not (applyAutoDismissal: "a user's
\* dismissal or entry outranks the automatic call").  It asks that commands do
\* not overlap: a verb's decision made between a sweep's read and its write is
\* lost.
DecisionsOutrank ==
  [][UNCHANGED verb =>
       \A d \in Dirs : curation[d] \notin {NoCuration, Dismissed(AutoNoop)}
                       => curation'[d] = curation[d]]_vars

\* Each session moves only along the lifecycle's edges: in particular nothing
\* takes a curated session out of its state.
Lifecycle ==
  INSTANCE CurationLifecycle WITH
    Sessions <- Dirs,
    state <- [d \in Dirs |-> IF Listed(d) THEN State(d) ELSE "absent"]
FollowsLifecycle == Lifecycle!Spec

(***************************************************************************)
(* Safety of commands run one at a time, as long as none was aborted.      *)
(***************************************************************************)

\* A session that has an entry.md is never turned from not dismissed to
\* dismissed (dismiss refuses it, and an entry outranks the automatic call).
DismissalSparesEntries ==
  [][\A d \in Dirs :
       faults = 0 /\ State(d) # "dismissed" /\ State(d)' = "dismissed"
       => entry[d] = 0]_vars

\* A sweep that ends has settled the automatic dismissal of every session on
\* record: what turned substantive is not left dismissed by capture.
EndsSweep(s) == sweep[s].pc = "sweeping" /\ sweep'[s].pc = "idle"
GrownAreRetracted ==
  [][\A s \in Sweeps : faults = 0 /\ EndsSweep(s) =>
       \A d \in Dirs : session[d].rev \in Substantive
                       => curation[d] # Dismissed(AutoNoop)]_vars

(***************************************************************************)
(* Liveness.                                                               *)
(***************************************************************************)

\* Once a transcript stops growing, sweeps bring its record level with it, the
\* copy level with the record and, once its clone is registered, the project
\* into it, though the transcript never changes again; and all of it stays so
\* (captureOne's recapture check and backfillProject).
CatchUp ==
  \A k \in Keys :
    <>[](live[k] # 0 =>
           /\ Found(k)
           /\ Snapshot(k).session.rev = live[k]
           /\ artifact[<<WalkedDay(k), k>>] = live[k]
           /\ registered /\ k \in Located => Snapshot(k).session.project)
=============================================================================
