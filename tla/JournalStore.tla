---------------------------- MODULE JournalStore ----------------------------
(***************************************************************************)
(* The journal's truth layer (internal/journal): the documents of each     *)
(* session directory and the primitives every verb writes them with.  A    *)
(* session directory is sessions/<day>/<harness>-<id>/ and holds the       *)
(* transcript copy, session.json, curation.json and entry.md; there is no  *)
(* index, so what a verb knows is what Walk reads from these documents.    *)
(*                                                                         *)
(* Simplifications.  A transcript revision is a number: the bytes, their   *)
(* line count and their sha256 stand or fall together, and a file only     *)
(* moves to later revisions.  Every write is temp-file-and-rename, so a    *)
(* document is replaced in one step.  session.json keeps the two facts the *)
(* properties tell apart, the revision and whether a project resolved.     *)
(***************************************************************************)
EXTENDS Naturals

CONSTANTS
  Keys,     \* session identities, <harness>-<native id>
  LastDay,  \* days a run may see; shards are 1..LastDay
  MaxRev    \* revisions a transcript may reach; bounds its growth

ASSUME LastDayAssumption == LastDay \in Nat \ {0}
ASSUME MaxRevAssumption == MaxRev \in Nat \ {0}

Days == 1..LastDay
Dirs == Days \X Keys
Revs == 0..MaxRev          \* 0: no such document

VARIABLES
  artifact,  \* the committed transcript copy, as the revision it copies
  session,   \* session.json
  curation,  \* curation.json; its absence means captured
  entry      \* entry.md, as the revision it was drafted from; 0: absent

store == <<artifact, session, curation, entry>>

(***************************************************************************)
(* Documents.                                                              *)
(***************************************************************************)
SessionDoc == [rev : Revs, project : BOOLEAN]
NoSession  == [rev |-> 0, project |-> FALSE]

AutoNoop == "auto:no-op"
NoCuration        == [state |-> "captured",  reason |-> "none", stamp |-> 0]
Curated(rev)      == [state |-> "curated",   reason |-> "none", stamp |-> rev]
Dismissed(reason) == [state |-> "dismissed", reason |-> reason, stamp |-> 0]
CurationDoc == {NoCuration} \cup {Curated(rev) : rev \in Revs}
                 \cup {Dismissed(reason) : reason \in {"manual", AutoNoop}}

StoreTypeOK ==
  /\ artifact \in [Dirs -> Revs]
  /\ session  \in [Dirs -> SessionDoc]
  /\ curation \in [Dirs -> CurationDoc]
  /\ entry    \in [Dirs -> Revs]

StoreInit ==
  /\ artifact = [d \in Dirs |-> 0]
  /\ session  = [d \in Dirs |-> NoSession]
  /\ curation = [d \in Dirs |-> NoCuration]
  /\ entry    = [d \in Dirs |-> 0]

(***************************************************************************)
(* Reads.  Walk drops a directory without a session.json, so only listed   *)
(* directories exist for a verb.  Shards are walked in ascending order:    *)
(* Resolve stops at the first exact match, and a map filled from the walk  *)
(* keeps the last.                                                         *)
(***************************************************************************)
Listed(d)      == session[d].rev # 0
ListedDays(k)  == {day \in Days : Listed(<<day, k>>)}
ResolvedDay(k) == CHOOSE day \in ListedDays(k) :
                    \A other \in ListedDays(k) : day <= other
ResolvedDir(k) == <<ResolvedDay(k), k>>
WalkedDay(k)   == CHOOSE day \in ListedDays(k) :
                    \A other \in ListedDays(k) : other <= day

State(d) == curation[d].state
Stale(d) == State(d) = "curated" /\ session[d].rev # curation[d].stamp

(***************************************************************************)
(* Writes.                                                                 *)
(***************************************************************************)
CommitArtifact(d, rev)   == artifact' = [artifact EXCEPT ![d] = rev]
WriteSession(d, doc)     == session'  = [session  EXCEPT ![d] = doc]
WriteCuration(d, doc)    == curation' = [curation EXCEPT ![d] = doc]
RemoveCuration(d)        == WriteCuration(d, NoCuration)
WriteEntry(d, rev)       == entry'    = [entry    EXCEPT ![d] = rev]
=============================================================================
