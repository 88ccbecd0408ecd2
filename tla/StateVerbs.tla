----------------------------- MODULE StateVerbs -----------------------------
(***************************************************************************)
(* `clast plumbing curate`, `dismiss` and `undismiss` (internal/verbs):    *)
(* each walks the journal, resolves its session, refuses or accepts on     *)
(* what the walk read, and then writes.                                    *)
(*                                                                         *)
(* The walk is one step.  A verb uses one document's content from it:      *)
(* curate session.json, undismiss curation.json, dismiss curation.json and *)
(* whether entry.md exists; a curate landing between those last two reads  *)
(* makes dismiss refuse, which reading both after it also does.            *)
(***************************************************************************)
EXTENDS JournalStore

CONSTANT Users   \* processes that run state verbs: a person, an agent, wake

VARIABLE verb    \* each user's progress through its verb

Ready == [pc |-> "ready", dir |-> <<>>, rev |-> 0, draft |-> 0]

VerbRecord ==
  [pc : {"ready", "drafted", "curating", "entered", "dismissing",
         "undismissing"},
   dir : Dirs \cup {<<>>},  \* the session the locator resolved to
   rev : Revs,              \* its recorded revision when curate walked
   draft : Revs]            \* the revision its author read

VerbTypeOK == verb \in [Users -> VerbRecord]

VerbInit == verb = [u \in Users |-> Ready]

Found(k) == ListedDays(k) # {}

\* The author (a skill, or wake's own summary call) reads the transcript copy
\* and writes the entry's text before curate is called.
Draft(u, k) ==
  /\ verb[u].pc = "ready"
  /\ Found(k)
  /\ verb' = [verb EXCEPT ![u] =
       [Ready EXCEPT !.pc = "drafted", !.dir = ResolvedDir(k),
                     !.draft = artifact[ResolvedDir(k)]]]
  /\ UNCHANGED store

\* curate accepts every state; its stamp is the fingerprint the walk read.
BeginCurate(u) ==
  /\ verb[u].pc = "drafted"
  /\ LET d == ResolvedDir(verb[u].dir[2]) IN
       verb' = [verb EXCEPT ![u].pc = "curating", ![u].dir = d,
                            ![u].rev = session[d].rev]
  /\ UNCHANGED store

\* Mutants of EnterEntry: curation.json first; a standing entry is kept.
EnterDecisionFirst(u) ==
  /\ verb[u].pc = "curating"
  /\ WriteCuration(verb[u].dir, Curated(verb[u].rev))
  /\ verb' = [verb EXCEPT ![u].pc = "entered"]
  /\ UNCHANGED <<artifact, session, entry>>
EnterNewEntry(u) ==
  /\ verb[u].pc = "curating"
  /\ WriteEntry(verb[u].dir, IF entry[verb[u].dir] = 0 THEN verb[u].draft
                             ELSE entry[verb[u].dir])
  /\ verb' = [verb EXCEPT ![u].pc = "entered"]
  /\ UNCHANGED <<artifact, session, curation>>

\* entry.md first, curation.json second: a crash between leaves the prior
\* state standing.
EnterEntry(u) ==
  /\ verb[u].pc = "curating"
  /\ WriteEntry(verb[u].dir, verb[u].draft)
  /\ verb' = [verb EXCEPT ![u].pc = "entered"]
  /\ UNCHANGED <<artifact, session, curation>>

EndCurate(u) ==
  /\ verb[u].pc = "entered"
  /\ WriteCuration(verb[u].dir, Curated(verb[u].rev))
  /\ verb' = [verb EXCEPT ![u] = Ready]
  /\ UNCHANGED <<artifact, session, entry>>

\* Mutant of BeginDismiss: neither refusal.
BeginDismissAny(u, k) ==
  /\ verb[u].pc = "ready"
  /\ Found(k)
  /\ verb' = [verb EXCEPT ![u] =
       [Ready EXCEPT !.pc = "dismissing", !.dir = ResolvedDir(k)]]
  /\ UNCHANGED store

\* dismiss refuses a curated session, and one whose entry.md already exists.
BeginDismiss(u, k) ==
  /\ verb[u].pc = "ready"
  /\ Found(k)
  /\ LET d == ResolvedDir(k) IN
       /\ State(d) # "curated"
       /\ entry[d] = 0
       /\ verb' = [verb EXCEPT ![u] =
            [Ready EXCEPT !.pc = "dismissing", !.dir = d]]
  /\ UNCHANGED store

EndDismiss(u) ==
  /\ verb[u].pc = "dismissing"
  /\ WriteCuration(verb[u].dir, Dismissed("manual"))
  /\ verb' = [verb EXCEPT ![u] = Ready]
  /\ UNCHANGED <<artifact, session, entry>>

\* Mutant of BeginUndismiss: of any session.
BeginUndismissAny(u, k) ==
  /\ verb[u].pc = "ready"
  /\ Found(k)
  /\ verb' = [verb EXCEPT ![u] =
       [Ready EXCEPT !.pc = "undismissing", !.dir = ResolvedDir(k)]]
  /\ UNCHANGED store

\* undismiss accepts any dismissal, capture's own included.
BeginUndismiss(u, k) ==
  /\ verb[u].pc = "ready"
  /\ Found(k)
  /\ LET d == ResolvedDir(k) IN
       /\ State(d) = "dismissed"
       /\ verb' = [verb EXCEPT ![u] =
            [Ready EXCEPT !.pc = "undismissing", !.dir = d]]
  /\ UNCHANGED store

EndUndismiss(u) ==
  /\ verb[u].pc = "undismissing"
  /\ RemoveCuration(verb[u].dir)
  /\ verb' = [verb EXCEPT ![u] = Ready]
  /\ UNCHANGED <<artifact, session, entry>>

\* The process is killed, or the author gives up: what is written stands.
AbortVerb(u) ==
  /\ verb[u].pc # "ready"
  /\ verb' = [verb EXCEPT ![u] = Ready]
  /\ UNCHANGED store

BeginVerb(u) ==
  \E k \in Keys : Draft(u, k) \/ BeginDismiss(u, k) \/ BeginUndismiss(u, k)

FinishVerb(u) ==
  \/ BeginCurate(u)
  \/ EnterEntry(u)
  \/ EndCurate(u)
  \/ EndDismiss(u)
  \/ EndUndismiss(u)
=============================================================================
