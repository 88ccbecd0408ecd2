---------------------------- MODULE DevinSource ----------------------------
(***************************************************************************)
(* The devin source (internal/source/devin): one SQLite store.  A session *)
(* is a row, a forest of message nodes and the states of its tool calls;   *)
(* main_chain_id names the node its conversation ends at.  Every operation *)
(* reads one snapshot of the store; devin writes between them, and in the  *)
(* middle of a capture too.                                                *)
(***************************************************************************)
EXTENDS SourceSweep, ToolCalls

CONSTANTS
  Nodes, \* node ids
  Dirs,  \* working directories
  Titles, \* titles, standing for what no fingerprint covers
  DevinStarts \* the rows there are at first

\* A node's message: a person's prompt, a reply in prose, a reply without any,
\* which calls the tool, or what counts as neither: the tool's answer.
Kinds == {"prompt", "reply", "call", "answer"}

Node == [parent : Nodes \union {NoNode}, kind : Kinds]

\* A row with the nodes of its session.
Row == [head : Nodes \union {NoNode}, dir : Dirs, title : Titles,
        nodes : UNION {[N -> Node] : N \in SUBSET Nodes}, calls : {"open", "answered"}]

ASSUME DevinAssumption ==
  /\ NoNode \notin Nodes
  /\ Titles # {}
  /\ \A start \in DevinStarts :
       /\ \A s, t \in start : s = t
       /\ \A s \in start : s \in Row /\ IsFiniteSet(DOMAIN s.nodes)

VARIABLE store \* the session, if its row is there: {} or one record

Session == "session"

EmptyRow(dir) ==
  [head |-> NoNode, dir |-> dir, title |-> CHOOSE t \in Titles : TRUE,
   nodes |-> <<>>, calls |-> "open"]

\* What the fingerprint hashes: the head, the directory, every node, every
\* tool call.
HashConversation(s) ==
  [head |-> s.head, dir |-> s.dir, nodes |-> s.nodes, calls |-> s.calls]

ParentIds(s) == [n \in DOMAIN s.nodes |-> s.nodes[n].parent]

\* analyzeChain: a missing node or a cycle ends the walk, and what was
\* walked is counted, every reply of it, with a text or without.
AnalyzeChain(s) ==
  LET walk == WalkLeaf(ParentIds(s), s.head)
      kinds == [i \in DOMAIN walk.path |-> s.nodes[walk.path[i]].kind]
  IN [user |-> Count(kinds, "prompt"), assistant |-> Count(kinds, "reply") + Count(kinds, "call"),
      incomplete |-> walk.broken]

Facts(chain, s) ==
  [user |-> chain.user, assistant |-> chain.assistant,
   substantive |-> chain.assistant >= 1, incomplete |-> chain.incomplete,
   print |-> [lines |-> Cardinality(DOMAIN s.nodes), sha |-> HashConversation(s)]]

\* The readers' conversation, from the export alone, in its order.
ActiveChain(s) == Reverse(WalkLeaf(ParentIds(s), s.head).path)

ChainKinds(s) ==
  LET chain == ActiveChain(s) IN [i \in DOMAIN chain |-> s.nodes[chain[i]].kind]

\* ReadTranscript: the chain's calls and answers, and the verdict the tool's
\* state holds if no answer on the chain told it.
DevinStream(s) ==
  LET told == Only(ChainKinds(s), {"call", "answer"})
  IN [i \in DOMAIN told |-> IF told[i] = "call" THEN Call("tool") ELSE Result("tool")]
     \o (IF s.calls = "answered" /\ Count(told, "answer") = 0 THEN <<Result("tool")>> ELSE <<>>)

\* The prompts and the prose both readers show: a reply without a text is no
\* turn to RenderTranscript, and a tool call alone to ReadTranscript.
Turns(s) == Only(ChainKinds(s), {"prompt", "reply"})

-----------------------------------------------------------------------------
(* The sweep. *)

DevinStart ==
  /\ sweep.pc = "idle"
  /\ Visit([i \in 1 .. Cardinality(store) |-> [id |-> Session]])
  /\ calm' = (store # {})
  /\ UNCHANGED <<store, journal, writes, settled>>

\* The number of nodes may tell a change early; only the hash can deny one.
Unchanged(s, print) ==
  /\ Cardinality(DOMAIN s.nodes) = print.lines
  /\ HashConversation(s) = print.sha

DevinVerdict ==
  /\ Verdict(Captured /\ \E s \in store : Unchanged(s, journal[Item.id].facts.print), FALSE)
  /\ UNCHANGED store

DevinCorrelate == Correlate(store = {}) /\ UNCHANGED store

\* The transaction of the capture begins: from here on it reads `staged`.
Snapshot ==
  /\ sweep.pc = "capture"
  /\ IF store = {}
     THEN Leave
     ELSE /\ sweep' = [sweep EXCEPT !.pc = "analyze", !.staged = store]
          /\ UNCHANGED <<journal, writes, calm, settled>>
  /\ UNCHANGED store

\* Mutant: the chain is read outside the transaction.
AnalyzeLive ==
  /\ sweep.pc = "analyze"
  /\ \E s \in sweep.staged :
       sweep' = [sweep EXCEPT !.pc = "commit",
                   !.staged = {[chain |-> AnalyzeChain(IF store = {} THEN s
                                             ELSE CHOOSE t \in store : TRUE),
                                row |-> s]}]
  /\ UNCHANGED <<store, journal, writes, calm, settled>>

\* The first pass over the snapshot.
Analyze ==
  /\ sweep.pc = "analyze"
  /\ \E s \in sweep.staged :
       sweep' = [sweep EXCEPT !.pc = "commit", !.staged = {[chain |-> AnalyzeChain(s), row |-> s]}]
  /\ UNCHANGED <<store, journal, writes, calm, settled>>

\* The second one exports the rows and hashes them as they go out.
Export ==
  /\ sweep.pc = "commit"
  /\ \E p \in sweep.staged : Commit(p.row, Facts(p.chain, p.row))
  /\ UNCHANGED store

-----------------------------------------------------------------------------
(* devin. *)

DevinEvidence == {HashConversation(s) : s \in store}

DevinWrote == Wrote(DevinEvidence' = DevinEvidence)

\* A message: a new node below the head, which moves to it.
Say(n, kind) ==
  /\ \E s \in store :
       /\ n \notin DOMAIN s.nodes
       /\ store' = {[s EXCEPT !.nodes = [m \in DOMAIN @ \union {n} |->
                                          IF m = n THEN [parent |-> s.head, kind |-> kind]
                                          ELSE @[m]],
                              !.head = n]}
  /\ DevinWrote

\* A rewind, or a switch to another branch.
MoveHead(n) ==
  /\ \E s \in store : n # s.head /\ store' = {[s EXCEPT !.head = n]}
  /\ DevinWrote

\* A node is rewritten in place.
EditNode(n, kind, parent) ==
  /\ \E s \in store :
       /\ n \in DOMAIN s.nodes
       /\ s.nodes[n] # [parent |-> parent, kind |-> kind]
       /\ store' = {[s EXCEPT !.nodes[n] = [parent |-> parent, kind |-> kind]]}
  /\ DevinWrote

DropNode(n) ==
  /\ \E s \in store :
       /\ n \in DOMAIN s.nodes
       /\ store' = {[s EXCEPT !.nodes = [m \in DOMAIN @ \ {n} |-> @[m]]]}
  /\ DevinWrote

\* A tool call gets its verdict.
Answer ==
  /\ \E s \in store : s.calls = "open" /\ store' = {[s EXCEPT !.calls = "answered"]}
  /\ DevinWrote

\* Bookkeeping: a title, a model, an activity time.
Retitle(t) ==
  /\ \E s \in store : t # s.title /\ store' = {[s EXCEPT !.title = t]}
  /\ DevinWrote

MoveDir(d) ==
  /\ \E s \in store : d # s.dir /\ store' = {[s EXCEPT !.dir = d]}
  /\ DevinWrote

OpenSession(d) == store = {} /\ store' = {EmptyRow(d)} /\ DevinWrote

RemoveSession == store # {} /\ store' = {} /\ DevinWrote

DevinWrite ==
  \/ \E n \in Nodes, kind \in Kinds :
       \/ Say(n, kind)
       \/ \E p \in Nodes \union {NoNode} : EditNode(n, kind, p)
  \/ \E n \in Nodes : MoveHead(n) \/ DropNode(n)
  \/ \E t \in Titles : Retitle(t)
  \/ \E d \in Dirs : MoveDir(d) \/ OpenSession(d)
  \/ Answer \/ RemoveSession

DevinInit == store \in DevinStarts

DevinSweep ==
  DevinStart \/ DevinVerdict \/ DevinCorrelate \/ Snapshot \/ Analyze \/ Export
=============================================================================
