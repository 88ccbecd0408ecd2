---------------------------- MODULE ClaudeSource ----------------------------
(***************************************************************************)
(* The claude source (internal/source/claude): a transcript per session,   *)
(* which claude appends to, and beside it the transcripts of the subagents *)
(* the session spawned.  The copy takes the transcript first and the       *)
(* sidecars behind it; only the transcript is fingerprinted.               *)
(*                                                                         *)
(* One sidecar stands for a session's: 0 while there is none, AgentDone    *)
(* once the subagent has ended, which is when its call gets its result.    *)
(***************************************************************************)
EXTENDS SourceSweep, ToolCalls

CONSTANTS
  Transcripts, \* the session ids, the files' names
  KindOf,      \* the record a uuid stands for; a person's prompt is a plain
               \* string or comes in blocks, as with an image
  MaxRecords,  \* bound on the records of a transcript
  AgentDone,   \* the length of a subagent's whole transcript
  ClaudeStarts \* what there is at first

\* A transcript with its sidecar; a line that does not parse is NoNode.
ClaudeFile ==
  [lines : Seq(DOMAIN KindOf \union {NoNode}), tail : {"ended", "partial", "bare"},
   agent : 0 .. AgentDone]

HasResult(lines) ==
  \E i \in DOMAIN lines : lines[i] # NoNode /\ KindOf[lines[i]] = "result"

ASSUME ClaudeAssumption ==
  /\ IsFiniteSet(Transcripts)
  /\ \A start \in ClaudeStarts :
       /\ DOMAIN start \subseteq Transcripts
       /\ start \in [DOMAIN start -> ClaudeFile]
       /\ \A id \in DOMAIN start : HasResult(start[id].lines) => start[id].agent = AgentDone
  /\ NoNode \notin DOMAIN KindOf
  /\ \A u \in DOMAIN KindOf : KindOf[u] \in {"prompt", "blocks", "reply", "call", "result", "note"}
  /\ AgentDone \in Nat \ {0}

VARIABLES
  projects, \* session id -> [lines, tail, agent], of those there are
  started   \* the ids claude drew so far; it draws none again

claudeVars == <<projects, started>>

\* A record by its uuid; a line that does not parse by none.
Records(c) ==
  Without(IF c.tail = "partial" THEN Front(c.lines) ELSE c.lines, {NoNode})

\* Of records with one uuid (a fork's copied history) the first counts.
Deduped(us) ==
  LET kept[n \in 0 .. Len(us)] ==
        IF n = 0 THEN <<>>
        ELSE IF us[n] \in ToSet(kept[n - 1]) THEN kept[n - 1] ELSE Append(kept[n - 1], us[n])
  IN kept[Len(us)]

Kind(us) == [i \in DOMAIN us |-> KindOf[us[i]]]

Transcript(f) == [lines |-> f.lines, tail |-> f.tail]

Fingerprint(c) == [lines |-> Len(c.lines), sha |-> c]

\* scanLine: a prompt or a reply counts unless its uuid was seen.  isHumanPrompt
\* takes every block array for a tool's result, and counts no prompt in blocks.
ScanLine(out, u) ==
  IF KindOf[u] \notin {"prompt", "reply", "call"} \/ u \in out.seen THEN out
  ELSE IF KindOf[u] = "prompt"
       THEN [out EXCEPT !.seen = @ \union {u}, !.user = @ + 1]
       ELSE [out EXCEPT !.seen = @ \union {u}, !.assistant = @ + 1]

Scanned(us) ==
  LET out[n \in 0 .. Len(us)] ==
        IF n = 0 THEN [seen |-> {}, user |-> 0, assistant |-> 0] ELSE ScanLine(out[n - 1], us[n])
  IN out[Len(us)]

CaptureScan(c) ==
  LET out == Scanned(Records(c))
  IN [user |-> out.user, assistant |-> out.assistant,
      substantive |-> out.assistant >= 1, incomplete |-> FALSE,
      print |-> Fingerprint(c)]

\* ReadTranscript: the prompts it shows, of either form, and the prose.
ClaudeTurns(c) == Only(Kind(Deduped(Records(c))), {"prompt", "blocks", "reply"})

\* What it shows of the tool calls.
Stream(c) ==
  LET us == Only(Deduped(Records(c)), {u \in DOMAIN KindOf : KindOf[u] \in {"call", "result"}})
  IN [i \in DOMAIN us |-> IF KindOf[us[i]] = "call" THEN Call("tool") ELSE Result("tool")]

Shown(c) == Events(Stream(c))

-----------------------------------------------------------------------------
(* The sweep. *)

\* Discovery only lists names: the id is the file's.
ClaudeStart ==
  /\ sweep.pc = "idle"
  /\ Visit([i \in 1 .. Cardinality(DOMAIN projects) |->
              [id |-> SetToSeq(DOMAIN projects)[i]]])
  /\ calm' = (projects # <<>>)
  /\ UNCHANGED <<claudeVars, journal, writes, settled>>

NoTranscript == Item.id \notin DOMAIN projects

ClaudeVerdict ==
  /\ sweep.pc = "verdict"
  /\ Verdict(/\ Captured
             /\ ~NoTranscript
             /\ Fingerprint(Transcript(projects[Item.id])) = journal[Item.id].facts.print,
             NoTranscript)
  /\ UNCHANGED claudeVars

ClaudeCorrelate == sweep.pc = "correlate" /\ Correlate(NoTranscript) /\ UNCHANGED claudeVars

\* Mutant: the sidecar is copied first, as it was some time before.
CopyTranscriptLast ==
  /\ sweep.pc = "capture"
  /\ IF NoTranscript
     THEN Leave
     ELSE \E agent \in 0 .. projects[Item.id].agent :
          /\ sweep' = [sweep EXCEPT !.pc = "commit",
                         !.staged = {[main |-> Transcript(projects[Item.id]), agent |-> agent,
                                      missed |-> FALSE]}]
          /\ UNCHANGED <<journal, writes, calm, settled>>
  /\ UNCHANGED claudeVars

\* The transcript is copied and scanned; the sidecar is not yet.
CopyTranscript ==
  /\ sweep.pc = "capture"
  /\ IF NoTranscript
     THEN Leave
     ELSE /\ sweep' = [sweep EXCEPT !.pc = "sidecars",
                         !.staged = {[main |-> Transcript(projects[Item.id]), agent |-> 0,
                                      missed |-> FALSE]}]
          /\ UNCHANGED <<journal, writes, calm, settled>>
  /\ UNCHANGED claudeVars

\* A sidecar the commit does not bring leaves the one committed before.
Earlier == IF Captured THEN journal[Item.id].copy.agent ELSE 0

\* captureSidecars: one that is not there or cannot be read is none, and the
\* capture goes on without it.
CopySidecars ==
  /\ sweep.pc = "sidecars"
  /\ \E s \in sweep.staged, missed \in BOOLEAN :
       LET there == ~NoTranscript /\ projects[Item.id].agent > 0
       IN /\ missed => there
          /\ sweep' = [sweep EXCEPT !.pc = "commit",
               !.staged = {[s EXCEPT !.missed = missed \/ NoTranscript,
                  !.agent = IF there /\ ~missed THEN projects[Item.id].agent ELSE Earlier]}]
  /\ UNCHANGED <<claudeVars, journal, writes, calm, settled>>

ClaudeCommit ==
  /\ sweep.pc = "commit"
  /\ \E s \in sweep.staged : Commit(s, CaptureScan(s.main))
  /\ UNCHANGED claudeVars

-----------------------------------------------------------------------------
(* claude. *)

ClaudeEvidence == [id \in DOMAIN projects |-> Transcript(projects[id])]

ClaudeWrote == Wrote(ClaudeEvidence' = ClaudeEvidence)

StartTranscript(id) ==
  /\ id \notin started
  /\ started' = started \union {id}
  /\ projects' = [k \in DOMAIN projects \union {id} |->
                    IF k = id THEN [lines |-> <<>>, tail |-> "ended", agent |-> 0]
                    ELSE projects[k]]
  /\ ClaudeWrote

\* A record is appended, perhaps not yet to its end.  The first result comes
\* once the subagent has ended.
AppendRecord(id, u, tail) ==
  /\ projects[id].tail = "ended"
  /\ Len(projects[id].lines) < MaxRecords
  /\ u # NoNode /\ KindOf[u] = "result" => projects[id].agent = AgentDone
  /\ projects' = [projects EXCEPT ![id] =
                    [projects[id] EXCEPT !.lines = Append(@, u), !.tail = tail]]
  /\ UNCHANGED started
  /\ ClaudeWrote

FinishRecord(id) ==
  /\ projects[id].tail # "ended"
  /\ projects' = [projects EXCEPT ![id] = [projects[id] EXCEPT !.tail = "ended"]]
  /\ UNCHANGED started
  /\ ClaudeWrote

\* The subagent writes to its own file.
AgentWrites(id) ==
  /\ projects[id].agent < AgentDone
  /\ projects' = [projects EXCEPT ![id] = [projects[id] EXCEPT !.agent = @ + 1]]
  /\ UNCHANGED started
  /\ ClaudeWrote

\* claude's clean-up of old sessions takes the sidecars along.
Expire(id) ==
  /\ projects' = [k \in DOMAIN projects \ {id} |-> projects[k]]
  /\ UNCHANGED started
  /\ ClaudeWrote

ClaudeWrite ==
  \/ \E id \in Transcripts : StartTranscript(id)
  \/ \E id \in DOMAIN projects :
       \/ \E u \in DOMAIN KindOf \union {NoNode}, tail \in {"ended", "partial", "bare"} :
            AppendRecord(id, u, tail)
       \/ FinishRecord(id)
       \/ AgentWrites(id)
       \/ Expire(id)

ClaudeInit == projects \in ClaudeStarts /\ started = DOMAIN projects

ClaudeSweep ==
  \/ ClaudeStart \/ ClaudeVerdict \/ ClaudeCorrelate
  \/ CopyTranscript \/ CopySidecars \/ ClaudeCommit
=============================================================================
