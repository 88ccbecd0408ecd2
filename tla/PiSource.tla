------------------------------ MODULE PiSource ------------------------------
(***************************************************************************)
(* The pi source (internal/source/pi): one JSON-lines file per session, a *)
(* header line and then entries that pi appends while clast reads.  The    *)
(* same session may lie in two files, a file may be replaced, and the last *)
(* line may be torn.                                                       *)
(*                                                                         *)
(* A file is read to its end after it was opened: since pi only appends,   *)
(* and a rename leaves an open file alone, the bytes read are those the    *)
(* file had at one moment.                                                 *)
(***************************************************************************)
EXTENDS Integers, SourceSweep

CONSTANTS
  Sessions,  \* the ids headers carry
  Paths,     \* the *.jsonl files of the roots, numbered in walk order
  RoleOf,    \* the message an entry id stands for: an assistant's is a reply
             \* in prose, a tool call alone, or one that failed before either
  MaxLines,  \* bound on the lines of a file
  PiStarts   \* the files there are at first

VARIABLE files \* path -> [lines, tail, mtime], of the files that exist

Entries == DOMAIN RoleOf

Ids == Sessions \union Entries \union {NoNode}
Line == [kind : {"header", "entry", "bad"}, id : Ids, parent : Entries \union {NoNode}]

Header(id) == [kind |-> "header", id |-> id, parent |-> NoNode]
Entry(id, parent) == [kind |-> "entry", id |-> id, parent |-> parent]
\* An unparseable, blank or id-less line, or a header that is not line 1.
Bad == [kind |-> "bad", id |-> NoNode, parent |-> NoNode]

\* "partial": the last line is cut off; "bare": it only lacks its newline.
Tails == {"ended", "partial", "bare"}

File == [lines : Seq(Line), tail : Tails, mtime : Int]

\* The files there are at first are no newer than the sweeps.
ASSUME PiAssumption ==
  /\ Paths \subseteq Nat
  /\ \A e \in DOMAIN RoleOf : RoleOf[e] \in {"user", "reply", "call", "failed", "note"}
  /\ \A start \in PiStarts :
       /\ DOMAIN start \subseteq Paths
       /\ start \in [DOMAIN start -> File]
       /\ \A p \in DOMAIN start : start[p].mtime <= 0

\* The bytes of a file.
Content(f) == [lines |-> f.lines, tail |-> f.tail]

\* The lines that parse: a torn tail is passed over.
Whole(c) == IF c.tail = "partial" THEN Front(c.lines) ELSE c.lines

\* readHeader: the id of line 1; none while it is being written.
HeaderIds(c) ==
  IF Whole(c) # <<>> /\ Head(Whole(c)).kind = "header" THEN {Head(Whole(c)).id} ELSE {}

\* Lines by newline bytes, and one for what follows the last of them.
FingerprintFile(c) == [lines |-> Len(c.lines), sha |-> c]

-----------------------------------------------------------------------------
(* The scan of the copy that is being written, and the readers of it. *)

EntryLines(c) == Only(Tail(Whole(c)), {l \in Line : l.kind = "entry"})

\* Of two entries with one id the later one counts.
Latest(es, id) == es[CHOOSE i \in DOMAIN es :
                       es[i].id = id /\ \A j \in DOMAIN es : es[j].id = id => j <= i]

ParentOf(es) == [id \in {es[i].id : i \in DOMAIN es} |-> Latest(es, id).parent]

\* Mutant: the line without a newline is not counted.
ScanLinesEnded(c) == IF c.tail = "ended" THEN Len(c.lines) ELSE Len(c.lines) - 1

ScanLines(c) == Len(c.lines)

\* The counts are those of the leaf's branch, or of the whole file if the
\* branch is broken: every assistant message, with a text or without.
Scan(c) ==
  LET es == EntryLines(c)
      walk == WalkLeaf(ParentOf(es), Last(es).id)
      ids == IF es = <<>> THEN <<>>
             ELSE IF walk.broken THEN [i \in DOMAIN es |-> es[i].id]
             ELSE walk.path
      roles == [i \in DOMAIN ids |-> RoleOf[ids[i]]]
  IN [user |-> Count(roles, "user"),
      assistant |-> Count(roles, "reply") + Count(roles, "call") + Count(roles, "failed"),
      substantive |-> Count(roles, "reply") + Count(roles, "call") > 0,
      incomplete |-> FALSE,
      print |-> [lines |-> ScanLines(c), sha |-> c]]

\* What the offline readers take for the conversation, root first.
ActiveEntries(c) ==
  LET es == EntryLines(c)
      walk == WalkLeaf(ParentOf(es), Last(es).id)
  IN IF es = <<>> \/ walk.broken THEN es
     ELSE Reverse([i \in DOMAIN walk.path |-> Latest(es, walk.path[i])])

ActiveRoles(c) == LET es == ActiveEntries(c) IN [i \in DOMAIN es |-> RoleOf[es[i].id]]

\* The prompts and the prose they show: of the assistant's messages those with
\* a text.
PiTurns(c) == Only(ActiveRoles(c), {"user", "reply"})

-----------------------------------------------------------------------------
(* The sweep. *)

PiStart ==
  /\ sweep.pc = "idle"
  /\ sweep' = IF DOMAIN files = {} THEN Idle ELSE [Idle EXCEPT !.pc = "stat", !.left = DOMAIN files]
  /\ calm' = (DOMAIN files # {})
  /\ UNCHANGED <<files, journal, writes, settled>>

\* The file the walk is at: filepath.WalkDir goes by name.
Here == Min(sweep.left)

\* The session a file that is there is of.
SessionAt(p) == IF p \in DOMAIN files THEN HeaderIds(Content(files[p])) ELSE {}

\* walker.file takes the mtime first and reads the header then.
Stat ==
  /\ sweep.pc = "stat"
  /\ Here \in DOMAIN files
  /\ sweep' = [sweep EXCEPT !.pc = "header", !.stamp = files[Here].mtime]
  /\ UNCHANGED <<files, journal, writes, calm, settled>>

\* Mutant: the oldest file of a session is taken.
BeatsOlder(c, w) == c.mtime < w.mtime \/ (c.mtime = w.mtime /\ c.path < w.path)

\* Newest mtime, then smallest path.
Beats(c, w) == c.mtime > w.mtime \/ (c.mtime = w.mtime /\ c.path < w.path)

Duplicate(c, w) == c.id = w.id /\ Beats(c, w)

\* One file per id, in the order of the walk.
ResolveDuplicates(cands) ==
  Without(cands, {c \in ToSet(cands) : \E i \in DOMAIN cands : Duplicate(cands[i], c)})

\* The candidate is kept; behind the last file Discover has its answer.
Walked(cands) ==
  IF sweep.left # {Here}
  THEN /\ sweep' = [sweep EXCEPT !.pc = "stat", !.left = @ \ {Here}, !.stamp = 0, !.found = cands]
       /\ UNCHANGED <<journal, writes, calm, settled>>
  ELSE /\ Visit(ResolveDuplicates(cands))
       /\ Ended
       /\ UNCHANGED <<journal, writes, calm>>

\* A file that is gone, or whose header is not whole or not one, is skipped.
NoCandidate ==
  /\ \/ sweep.pc = "stat" /\ Here \notin DOMAIN files
     \/ sweep.pc = "header" /\ SessionAt(Here) = {}
  /\ Walked(sweep.found)
  /\ UNCHANGED files

Candidate ==
  /\ sweep.pc = "header"
  /\ \E id \in SessionAt(Here) :
       Walked(Append(sweep.found,
                     [id |-> id, path |-> Here, mtime |-> sweep.stamp]))
  /\ UNCHANGED files

Gone == Item.path \notin DOMAIN files

\* The default verdict: the file's fingerprint is the recorded one.
PiVerdict ==
  /\ sweep.pc = "verdict"
  /\ Verdict(/\ Captured
             /\ ~Gone
             /\ FingerprintFile(Content(files[Item.path])) = journal[Item.id].facts.print,
             Gone)
  /\ UNCHANGED files

PiCorrelate == sweep.pc = "correlate" /\ Correlate(Gone) /\ UNCHANGED files

\* The header of the streamed bytes must be the one discovered.
PiCopy ==
  /\ sweep.pc = "capture"
  /\ IF ~Gone /\ Item.id \in SessionAt(Item.path)
     THEN /\ sweep' = [sweep EXCEPT !.pc = "commit", !.staged = {Content(files[Item.path])}]
          /\ UNCHANGED <<journal, writes, calm, settled>>
     ELSE Leave
  /\ UNCHANGED files

PiCommit ==
  /\ sweep.pc = "commit"
  /\ \E c \in sweep.staged : Commit(c, Scan(c))
  /\ UNCHANGED files

-----------------------------------------------------------------------------
(* pi, and the person who keeps its files. *)

\* The file that holds a session: the newest, at the smallest path.
HolderOf(id) ==
  CHOOSE p \in DOMAIN files :
    /\ id \in SessionAt(p)
    /\ \A q \in DOMAIN files \ {p} :
         id \in SessionAt(q) =>
           \/ files[p].mtime > files[q].mtime
           \/ files[p].mtime = files[q].mtime /\ p < q

PiEvidence ==
  [id \in UNION {SessionAt(p) : p \in DOMAIN files} |->
     Content(files[HolderOf(id)])]

\* A sweep sees one file after another: one that is moved behind its back may
\* leave it with an older copy for the newest.
Stands ==
  /\ \A p \in DOMAIN files : p \in DOMAIN files' /\ files'[p] = files[p]
  /\ \A id \in DOMAIN PiEvidence : HolderOf(id)' = HolderOf(id)

PiWrote == Wrote(PiEvidence' = PiEvidence /\ (sweep.pc # "idle" => Stands))

Put(p, f) == files' = [q \in DOMAIN files \union {p} |-> IF q = p THEN f ELSE files[q]]

\* A new session in a new file, or in place of the one that was there.
NewFile(p, id, tail) ==
  /\ Put(p, [lines |-> <<Header(id)>>, tail |-> tail, mtime |-> writes + 1])
  /\ PiWrote

\* A line is appended, perhaps not yet to its end.
AppendLine(p, l, tail) ==
  /\ files[p].tail = "ended"
  /\ Len(files[p].lines) < MaxLines
  /\ Put(p, [lines |-> Append(files[p].lines, l), tail |-> tail, mtime |-> writes + 1])
  /\ PiWrote

\* The rest of it follows.
FinishLine(p) ==
  /\ files[p].tail # "ended"
  /\ Put(p, [files[p] EXCEPT !.tail = "ended", !.mtime = writes + 1])
  /\ PiWrote

\* The file is copied to another place, with its time or a new one.
CopyFile(p, q) ==
  /\ q \notin DOMAIN files
  /\ \E t \in {files[p].mtime, writes + 1} : Put(q, [files[p] EXCEPT !.mtime = t])
  /\ PiWrote

RemoveFile(p) ==
  /\ files' = [q \in DOMAIN files \ {p} |-> files[q]]
  /\ PiWrote

PiWrite ==
  \/ \E p \in Paths, id \in Sessions, tail \in {"ended", "partial"} : NewFile(p, id, tail)
  \/ \E p \in DOMAIN files, e \in Entries, q \in Entries \union {NoNode}, tail \in Tails :
       q # e /\ AppendLine(p, Entry(e, q), tail)
  \/ \E p \in DOMAIN files : AppendLine(p, Bad, "ended") \/ FinishLine(p) \/ RemoveFile(p)
  \/ \E p \in DOMAIN files, q \in Paths : CopyFile(p, q)

PiInit == files \in PiStarts

PiSweep ==
  PiStart \/ Stat \/ NoCandidate \/ Candidate \/ PiVerdict \/ PiCorrelate \/ PiCopy \/ PiCommit
=============================================================================
