---------------------------- MODULE SourceSweep ----------------------------
(***************************************************************************)
(* One `clast capture --harness h` after another over a store its harness *)
(* keeps writing: the loop of verbs/capture/capture.go as far as a source *)
(* takes part in it.  What the commit does on disk, project resolution and *)
(* auto-dismissal are in CaptureSweep; here a commit is one step.          *)
(***************************************************************************)
EXTENDS Chains

CONSTANT MaxWrites \* bound on what the harness writes
ASSUME WritesAssumption == MaxWrites \in Nat

VARIABLES
  journal, \* the sessions captured: id -> [copy, facts]
  sweep,   \* the sweep under way
  writes,  \* what the harness wrote so far
  calm,    \* nothing was written since the sweep started
  settled  \* a calm sweep ended, and no evidence changed since

sweepVars == <<journal, sweep, writes, calm, settled>>

Idle == [pc |-> "idle", left |-> {}, stamp |-> 0, found |-> <<>>, staged |-> {}]

SweepInit ==
  /\ journal = <<>>
  /\ sweep = Idle
  /\ writes = 0
  /\ calm = FALSE
  /\ settled = FALSE

\* The session the sweep is at.
Item == Head(sweep.found)

Captured == Item.id \in DOMAIN journal

\* The loop over what Discover found; behind the last one the sweep is over.
Visit(found) ==
  sweep' = IF found = <<>> THEN Idle ELSE [Idle EXCEPT !.pc = "verdict", !.found = found]

Ended == settled' = (settled \/ (sweep'.pc = "idle" /\ calm))

To(pc) == sweep' = [sweep EXCEPT !.pc = pc]

\* The item is done with, whatever became of it.
Leave == Visit(Tail(sweep.found)) /\ Ended /\ UNCHANGED <<journal, writes, calm>>

\* Unchanged, and there is a record: nothing to do.  A verdict that failed
\* ends the item as well.
Verdict(unchanged, failed) ==
  /\ sweep.pc = "verdict"
  /\ IF Captured /\ (unchanged \/ failed)
     THEN Leave
     ELSE To("correlate") /\ UNCHANGED <<journal, writes, calm, settled>>

Correlate(gone) ==
  /\ sweep.pc = "correlate"
  /\ IF gone
     THEN Leave
     ELSE To("capture") /\ UNCHANGED <<journal, writes, calm, settled>>

\* The staged copy and the facts of it become the record.
Commit(copy, facts) ==
  /\ sweep.pc = "commit"
  /\ journal' = [id \in DOMAIN journal \union {Item.id} |->
                   IF id = Item.id THEN [copy |-> copy, facts |-> facts] ELSE journal[id]]
  /\ Visit(Tail(sweep.found))
  /\ Ended
  /\ UNCHANGED <<writes, calm>>

\* The harness writes; `same` says that a settled store still is: the evidence
\* of every session stands.
Wrote(same) ==
  /\ writes < MaxWrites
  /\ writes' = writes + 1
  /\ calm' = FALSE
  /\ settled' = (settled /\ same)
  /\ UNCHANGED <<journal, sweep>>
=============================================================================
