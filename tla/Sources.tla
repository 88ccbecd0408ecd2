------------------------------ MODULE Sources ------------------------------
(***************************************************************************)
(* Three sources under the capture loop.  A sweep is of one source, as   *)
(* `capture --harness` asks for; sweeps of one source follow each other.   *)
(***************************************************************************)
EXTENDS ClaudeSource, PiSource, DevinSource

CONSTANT Harnesses \* those that are swept
ASSUME HarnessesAssumption == Harnesses \subseteq {"claude", "pi", "devin"}

VARIABLE harness

vars == <<sweepVars, claudeVars, files, store, harness>>

Init ==
  /\ harness \in Harnesses
  /\ SweepInit
  /\ ClaudeInit
  /\ PiInit
  /\ DevinInit

Next ==
  \/ harness = "claude" /\ (ClaudeSweep \/ ClaudeWrite) /\ UNCHANGED <<files, store, harness>>
  \/ harness = "pi" /\ (PiSweep \/ PiWrite) /\ UNCHANGED <<claudeVars, store, harness>>
  \/ harness = "devin" /\ (DevinSweep \/ DevinWrite) /\ UNCHANGED <<claudeVars, files, harness>>

Spec == Init /\ [][Next]_vars

-----------------------------------------------------------------------------
(* What the reader of a copy finds in it. *)

ClaudeReads(r) ==
  LET turns == ClaudeTurns(r.copy.main)
      kinds == Kind(Deduped(Records(r.copy.main)))
  IN /\ r.facts.user = Count(turns, "prompt")
     /\ r.facts.assistant = Count(turns, "reply") + Count(kinds, "call")
     /\ r.facts.print = Fingerprint(r.copy.main)

PiReads(id, r) ==
  LET turns == PiTurns(r.copy)
      roles == ActiveRoles(r.copy)
  IN /\ id \in HeaderIds(r.copy)
     /\ r.facts.user = Count(turns, "user")
     /\ r.facts.assistant =
          Count(turns, "reply") + Count(roles, "call") + Count(roles, "failed")
     /\ r.facts.print = FingerprintFile(r.copy)

DevinReads(r) ==
  /\ r.facts.user = Count(Turns(r.copy), "prompt")
  /\ r.facts.assistant = Count(Turns(r.copy), "reply") + Count(ChainKinds(r.copy), "call")
  /\ r.facts.print.sha = HashConversation(r.copy)
  /\ r.facts.incomplete <=>
       /\ r.copy.head # NoNode
       /\ \/ ActiveChain(r.copy) = <<>>
          \/ r.copy.nodes[Head(ActiveChain(r.copy))].parent # NoNode

\* A record says of its session what the copy beside it holds, by capture's
\* own way of counting and over the conversation the offline readers take:
\* its prompts are those they show, but for claude's in blocks, which only
\* the reader takes for prompts; its replies are those they show and those
\* without a text, which they leave out.  The fingerprint is the copy's, the
\* chain incomplete if the readers cannot reach a root, and the copy is of the
\* session it is filed under, whatever became of the file between discovery
\* and copy (claude/capture.go and pi/capture.go: the facts are of exactly
\* the bytes the copy wrote; devin/capture.go: one read-only transaction;
\* pi/scan.go walkLeaf and devin/read.go: capture and readers derive one
\* conversation).
FactsMatchCopy ==
  \A id \in DOMAIN journal :
    CASE harness = "claude" -> ClaudeReads(journal[id])
      [] harness = "pi" -> PiReads(id, journal[id])
      [] harness = "devin" -> DevinReads(journal[id])

\* Once a sweep ran through undisturbed, every session in the store has a
\* record of its present evidence, and keeps it while the evidence stands and
\* nobody moves files under a walk: the newest file of a session wins, and no
\* change passes as none (pi/discover.go resolveDuplicates, devin/unchanged.go).
SettledCurrent ==
  settled =>
    /\ harness = "claude" =>
         \A id \in DOMAIN projects :
           id \in DOMAIN journal /\ journal[id].copy.main = ClaudeEvidence[id]
    /\ harness = "pi" =>
         \A id \in DOMAIN PiEvidence :
           id \in DOMAIN journal /\ journal[id].copy = PiEvidence[id]
    /\ harness = "devin" =>
         \A s \in store :
           /\ Session \in DOMAIN journal
           /\ HashConversation(journal[Session].copy) = HashConversation(s)

\* And then no sweep stages a copy again until the evidence changes: a
\* title, an activity time, a touched file or one more copy of it is no
\* reason to call a curated session stale (devin/fingerprint.go,
\* verbs/capture/capture.go unchangedVerdict).
SettledQuiet == settled => sweep.pc \notin {"sidecars", "analyze", "commit"}

\* A copy that holds a subagent's result holds the subagent's transcript to
\* its end, unless the sidecar could not be read: the sidecars are copied
\* behind the transcript, though no fingerprint covers them
\* (claude/capture.go Capture, captureSidecars).
AgentsComplete ==
  harness = "claude" =>
    \A id \in DOMAIN journal :
      LET copy == journal[id].copy
      IN Count(Kind(Records(copy.main)), "result") > 0 => copy.missed \/ copy.agent = AgentDone

\* A reader of a copy sees every tool call with the result that answers it,
\* and every result once, though calls repeat an id, results come twice and
\* devin keeps a verdict beside the chain (ReadTranscript of claude, devin).
ResultsPaired ==
  \A id \in DOMAIN journal :
    LET copy == journal[id].copy
    IN /\ harness = "claude" => Paired(Stream(copy.main), Shown(copy.main))
       /\ harness = "devin" => Paired(DevinStream(copy), Events(DevinStream(copy)))
=============================================================================
