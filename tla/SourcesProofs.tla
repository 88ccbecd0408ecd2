--------------------------- MODULE SourcesProofs ---------------------------
(***************************************************************************)
(* What the sources guarantee for every number of sessions, files, lines   *)
(* and writes, and whatever the store holds at first.                      *)
(***************************************************************************)
EXTENDS Sources, ListLemmas, FiniteSetTheorems, TLAPS

-----------------------------------------------------------------------------
(***************************************************************************)
(* The inductive invariant.                                                *)
(***************************************************************************)
Staging == {"correlate", "capture", "sidecars", "analyze", "commit"}
Work == {"verdict"} \union Staging

\* The sessions the sweep has yet to do.
IdsOf(found) == {found[i].id : i \in DOMAIN found}
Due(sw) == IdsOf(sw.found)

\* Of the sessions `ids` there is evidence of, those in `current` have a
\* record of it.  A store that is settled has all of them on record, and no
\* sweep is about to do one again; a sweep nothing disturbed has done those
\* it has not before it.
Steady(ids, current, sw, cl, st) ==
  /\ st => ids \subseteq current /\ sw.pc \notin Staging
  /\ st \/ cl => (sw.pc \in Work => Due(sw) \subseteq ids)
  /\ cl => (sw.pc \in Work => ids \subseteq current \union Due(sw))

\* The fields of a sweep, and what is in hand while one is at work.
Sweeping(items) ==
  /\ DOMAIN sweep = {"pc", "left", "stamp", "found", "staged"}
  /\ sweep.found \in Seq(items)
  /\ sweep.pc \in Work => sweep.found # <<>>
  /\ settled \in BOOLEAN /\ calm \in BOOLEAN
  /\ writes \in Nat

-----------------------------------------------------------------------------
ClaudeCopy == [lines : Seq(DOMAIN KindOf \union {NoNode}), tail : {"ended", "partial", "bare"}]

\* A result in a transcript came after the whole of its sidecar.
ProjectsInv ==
  /\ DOMAIN projects \subseteq Transcripts \intersect started
  /\ projects \in [DOMAIN projects -> ClaudeFile]
  /\ \A id \in DOMAIN projects : HasResult(projects[id].lines) => projects[id].agent = AgentDone

\* ... and so it is in a copy, and the fingerprint is the copy's.
Complete(copy) == HasResult(copy.main.lines) => copy.missed \/ copy.agent = AgentDone

ClaudeRecords ==
  \A id \in DOMAIN journal :
    /\ journal[id].copy.main \in ClaudeCopy
    /\ Complete(journal[id].copy)
    /\ journal[id].facts.print = Fingerprint(journal[id].copy.main)

\* A transcript that was copied with a result in it has a whole sidecar until
\* it expires, after which none takes its place.
ClaudeStaged ==
  \A s \in sweep.staged :
    /\ DOMAIN s = {"main", "agent", "missed"}
    /\ s.main \in ClaudeCopy
    /\ sweep.pc = "sidecars" /\ HasResult(s.main.lines)
         => NoTranscript \/ projects[Item.id].agent = AgentDone
    /\ sweep.pc = "commit" => Complete(s)
    /\ calm => s.main = Transcript(projects[Item.id])

ClaudeCurrent ==
  {id \in DOMAIN projects :
     id \in DOMAIN journal /\ journal[id].copy.main = Transcript(projects[id])}

ClaudeInv ==
  /\ ProjectsInv
  /\ ClaudeRecords
  /\ Sweeping([id : Transcripts])
  /\ sweep.pc \in {"idle", "verdict", "correlate", "capture", "sidecars", "commit"}
  /\ Due(sweep) \subseteq started
  /\ sweep.pc \in {"sidecars", "commit"} => ClaudeStaged
  /\ Steady(DOMAIN projects, ClaudeCurrent, sweep, calm, settled)

-----------------------------------------------------------------------------
FilesInv ==
  /\ DOMAIN files \subseteq Paths
  /\ files \in [DOMAIN files -> File]
  /\ \A p \in DOMAIN files : files[p].mtime <= writes

PiRecords ==
  \A id \in DOMAIN journal : journal[id].facts.print = FingerprintFile(journal[id].copy)

Held == UNION {SessionAt(p) : p \in DOMAIN files}

PiCurrent ==
  {id \in Held : id \in DOMAIN journal /\ journal[id].copy = Content(files[HolderOf(id)])}

\* The candidates of a walk nothing was moved under are as they were found,
\* and the newest file of each session is one or still to come.
WalkInv ==
  /\ sweep.left # {} /\ sweep.left \subseteq Paths
  /\ settled \/ calm =>
       /\ \A i \in DOMAIN sweep.found :
            LET c == sweep.found[i]
            IN c.path \in DOMAIN files /\ c.id \in SessionAt(c.path) /\ c.mtime = files[c.path].mtime
       /\ \A id \in Held :
            \/ HolderOf(id) \in sweep.left
            \/ \E i \in DOMAIN sweep.found : sweep.found[i].path = HolderOf(id)
       /\ sweep.pc = "header" => Here \in DOMAIN files /\ sweep.stamp = files[Here].mtime

\* ... and behind it only those are left.
ChosenInv ==
  settled \/ calm =>
    \A i \in DOMAIN sweep.found : sweep.found[i].path = HolderOf(sweep.found[i].id)

PiInv ==
  /\ FilesInv
  /\ PiRecords
  /\ Sweeping([id : Ids, path : Paths, mtime : Int])
  /\ sweep.pc \in {"idle", "stat", "header", "verdict", "correlate", "capture", "commit"}
  /\ sweep.stamp \in Int
  /\ sweep.pc \in {"stat", "header"} => WalkInv
  /\ sweep.pc \in Work => ChosenInv
  /\ sweep.pc = "commit" /\ calm => \A c \in sweep.staged : c = Content(files[Item.path])
  /\ Steady(Held, PiCurrent, sweep, calm, settled)

-----------------------------------------------------------------------------
DevinRecords ==
  \A id \in DOMAIN journal :
    journal[id].facts.print =
      [lines |-> Cardinality(DOMAIN journal[id].copy.nodes), sha |-> HashConversation(journal[id].copy)]

DevinIds == {Session : s \in store}

DevinCurrent ==
  {id \in {Session} :
     id \in DOMAIN journal /\ \A s \in store : HashConversation(journal[id].copy) = HashConversation(s)}

DevinInv ==
  /\ \A s, t \in store : s = t
  /\ DevinRecords
  /\ Sweeping([id : {Session}])
  /\ sweep.pc \in {"idle", "verdict", "correlate", "capture", "analyze", "commit"}
  /\ sweep.pc = "analyze" /\ calm => sweep.staged = store
  /\ sweep.pc = "commit" /\ calm => \A p \in sweep.staged : p.row \in store
  /\ Steady(DevinIds, DevinCurrent, sweep, calm, settled)

IInv ==
  /\ harness \in {"claude", "pi", "devin"}
  /\ harness = "claude" => ClaudeInv
  /\ harness = "pi" => PiInv
  /\ harness = "devin" => DevinInv

-----------------------------------------------------------------------------
(* What every source's steps do to the sweep. *)

\* The sessions due are the one in hand and those behind it.
LEMMA DueTail ==
  ASSUME NEW items, NEW found \in Seq(items), found # <<>>
  PROVE  IdsOf(found) = {Head(found).id} \union IdsOf(Tail(found))
<1>1. /\ Len(found) \in Nat /\ Len(found) # 0 /\ DOMAIN found = 1 .. Len(found)
      /\ Head(found) = found[1]
  OBVIOUS
<1>2. /\ DOMAIN Tail(found) = 1 .. (Len(found) - 1)
      /\ \A i \in 1 .. (Len(found) - 1) : Tail(found)[i] = found[i + 1]
  OBVIOUS
<1>3. \A x : x \in IdsOf(found) <=> \E i \in 1 .. Len(found) : x = found[i].id
  BY <1>1 DEF IdsOf
<1>4. \A x : x \in IdsOf(Tail(found)) <=> \E i \in 1 .. (Len(found) - 1) : x = Tail(found)[i].id
  BY <1>2 DEF IdsOf
<1>5. ASSUME NEW x \in IdsOf(found) PROVE x = Head(found).id \/ x \in IdsOf(Tail(found))
  <2>1. PICK i \in 1 .. Len(found) : x = found[i].id
    BY <1>3
  <2>2. CASE i = 1
    BY <1>1, <2>1, <2>2
  <2>3. CASE i # 1
    <3>1. i - 1 \in 1 .. (Len(found) - 1) /\ (i - 1) + 1 = i
      BY <1>1, <2>3
    <3>2. QED BY <1>2, <1>4, <2>1, <3>1
  <2>4. QED BY <2>2, <2>3
<1>6. ASSUME NEW x \in IdsOf(Tail(found)) PROVE x \in IdsOf(found)
  <2>1. PICK i \in 1 .. (Len(found) - 1) : x = Tail(found)[i].id
    BY <1>4
  <2>2. i + 1 \in 1 .. Len(found)
    BY <1>1
  <2>3. QED BY <1>2, <1>3, <2>1, <2>2
<1>7. Head(found).id \in IdsOf(found)
  <2>1. 1 \in 1 .. Len(found)
    BY <1>1
  <2>2. QED BY <1>1, <1>3, <2>1
<1>8. QED BY <1>5, <1>6, <1>7

\* A sweep that goes on with `found`.
LEMMA Visiting ==
  ASSUME NEW items, NEW found \in Seq(items), Visit(found)
  PROVE  /\ DOMAIN sweep' = {"pc", "left", "stamp", "found", "staged"}
         /\ sweep'.found = found /\ sweep'.stamp = 0
         /\ sweep'.pc = IF found = <<>> THEN "idle" ELSE "verdict"
BY DEF Visit, Idle

\* The item is done with: skipped, or its record is written.
LEMMA Passing ==
  ASSUME NEW items, Sweeping(items), sweep.pc \in Work,
         Visit(Tail(sweep.found)), Ended, UNCHANGED <<writes, calm>>
  PROVE  /\ Sweeping(items)'
         /\ sweep'.pc \in {"idle", "verdict"} /\ sweep'.stamp = 0
         /\ sweep'.found = Tail(sweep.found)
         /\ Due(sweep') \subseteq Due(sweep)
         /\ \A ids, current :
              (settled \/ calm => /\ Steady(ids, current, sweep, calm, settled)
                                 /\ Item.id \in current)
              => Steady(ids, current, sweep', calm', settled')
<1>1. sweep.found \in Seq(items) /\ sweep.found # <<>> /\ Tail(sweep.found) \in Seq(items)
  BY DEF Sweeping
<1>2. /\ DOMAIN sweep' = {"pc", "left", "stamp", "found", "staged"}
      /\ sweep'.found = Tail(sweep.found) /\ sweep'.stamp = 0
      /\ sweep'.pc = IF Tail(sweep.found) = <<>> THEN "idle" ELSE "verdict"
  BY <1>1, Visiting
<1>3. Due(sweep) = {Item.id} \union Due(sweep')
  BY <1>1, <1>2, DueTail DEF Due, Item
<1>4. settled' = (settled \/ (sweep'.pc = "idle" /\ calm)) /\ calm' = calm /\ writes' = writes
  BY DEF Ended
<1>5. Sweeping(items)'
  BY <1>1, <1>2, <1>4 DEF Sweeping, Work, Staging
<1>6. ASSUME NEW ids, NEW current,
             settled \/ calm => /\ Steady(ids, current, sweep, calm, settled)
                               /\ Item.id \in current
      PROVE  Steady(ids, current, sweep', calm', settled')
  <2>1. sweep'.pc \in {"idle", "verdict"} /\ sweep'.pc \notin Staging
    BY <1>2 DEF Staging
  <2>2. CASE ~(settled \/ calm)
    <3>1. settled = FALSE /\ calm = FALSE
      BY <2>2 DEF Sweeping
    <3>2. settled' = FALSE /\ calm' = FALSE
      BY <1>4, <3>1, Zenon
    <3>3. QED BY <3>2, Zenon DEF Steady
  <2>3. CASE settled \/ calm
    <3>1. Steady(ids, current, sweep, calm, settled) /\ Item.id \in current
      BY <1>6, <2>3
    <3>2. Due(sweep) \subseteq ids
      BY <2>3, <3>1 DEF Steady
    <3>3. calm => ids \subseteq current \union Due(sweep')
      BY <1>3, <3>1 DEF Steady
    <3>4. sweep'.pc = "idle" => Due(sweep') = {}
      BY <1>2 DEF Due, IdsOf
    <3>5. settled' => ids \subseteq current
      BY <1>4, <3>1, <3>3, <3>4 DEF Steady
    <3>6. QED BY <1>3, <1>4, <2>1, <3>2, <3>3, <3>5 DEF Steady
  <2>4. QED BY <2>2, <2>3
<1>7. QED BY <1>2, <1>3, <1>5, <1>6

\* The sweep goes on to another step of the item.
LEMMA Moving ==
  ASSUME NEW items, Sweeping(items), sweep.pc \in Work, ~settled,
         DOMAIN sweep' = DOMAIN sweep, sweep'.found = sweep.found, sweep'.pc \in Staging,
         UNCHANGED <<writes, calm, settled>>
  PROVE  /\ Sweeping(items)'
         /\ Item' = Item /\ Due(sweep') = Due(sweep)
         /\ \A ids, current :
              Steady(ids, current, sweep, calm, settled)
              => Steady(ids, current, sweep', calm', settled')
<1>1. Item' = Item /\ Due(sweep') = Due(sweep)
  BY DEF Item, Due
<1>2. Sweeping(items)'
  BY DEF Sweeping, Work
<1>3. QED BY <1>1, <1>2 DEF Steady, Work

\* Between two writes of the harness that leave the evidence alone, nothing
\* becomes due.
LEMMA Writing ==
  ASSUME NEW items, Sweeping(items), writes' = writes + 1, calm' = FALSE,
         settled' \in BOOLEAN, settled' => settled, sweep' = sweep
  PROVE  /\ Sweeping(items)'
         /\ Item' = Item
         /\ \A ids, current :
              (settled' => Steady(ids, current, sweep, calm, settled))
              => Steady(ids, current, sweep', calm', settled')
<1>1. Item' = Item
  BY DEF Item
<1>2. Sweeping(items)'
  <2>1. writes' \in Nat
    BY DEF Sweeping
  <2>2. QED BY <2>1, Zenon DEF Sweeping
<1>3. QED BY <1>1, <1>2 DEF Steady

\* The item in hand is one of those found.
LEMMA ItemIs ==
  ASSUME NEW items, Sweeping(items), sweep.pc \in Work
  PROVE  Item \in items /\ Item.id \in Due(sweep)
<1>1. sweep.found \in Seq(items) /\ sweep.found # <<>>
  BY DEF Sweeping
<1>2. Item.id \in IdsOf(sweep.found)
  BY <1>1, DueTail DEF Item
<1>3. QED BY <1>1, <1>2 DEF Due, Item

-----------------------------------------------------------------------------
(***************************************************************************)
(* claude.                                                                 *)
(***************************************************************************)
ClaudePlaces == {"idle", "verdict", "correlate", "capture", "sidecars", "commit"}
ClaudeItems == [id : Transcripts]

\* SetToSeq lists every element of a finite set.
LEMMA SetListed ==
  ASSUME NEW S, IsFiniteSet(S)
  PROVE  /\ Cardinality(S) \in Nat
         /\ SetToSeq(S) \in [1 .. Cardinality(S) -> S]
         /\ \A x \in S : \E i \in 1 .. Cardinality(S) : SetToSeq(S)[i] = x
<1> DEFINE n == Cardinality(S)
<1>1. n \in Nat /\ ExistsBijection(1 .. n, S)
  BY FS_CardinalityType
<1>2. PICK f \in Bijection(1 .. n, S) : TRUE
  BY <1>1 DEF ExistsBijection
<1>3. f \in [1 .. n -> S] /\ IsInjective(f)
  BY <1>2 DEF Bijection, Injection, IsInjective
<1>4. SetToSeq(S) \in [1 .. n -> S] /\ IsInjective(SetToSeq(S))
  BY <1>3, Zenon DEF SetToSeq
<1>5. SetToSeq(S) \in Injection(1 .. n, S)
  BY <1>4 DEF Injection, IsInjective
<1>6. IsFiniteSet(1 .. n) /\ Cardinality(1 .. n) = n
  <2>1. 1 \in Int /\ n \in Int
    BY <1>1
  <2>2. /\ IsFiniteSet(1 .. n)
        /\ Cardinality(1 .. n) = IF 1 > n THEN 0 ELSE n - 1 + 1
    BY <2>1, FS_Interval
  <2>3. QED BY <1>1, <2>2
<1>7. SetToSeq(S) \in Surjection(1 .. n, S)
  BY <1>5, <1>6, FS_Injection
<1>8. QED BY <1>1, <1>4, <1>7 DEF Surjection

LEMMA IdsAre ==
  ASSUME NEW S, NEW found,
         \A i \in DOMAIN found : found[i].id \in S,
         \A x \in S : \E i \in DOMAIN found : found[i].id = x
  PROVE  IdsOf(found) = S
BY DEF IdsOf

\* Discovery finds the transcripts there are.
LEMMA TranscriptsListed ==
  ASSUME ProjectsInv
  PROVE  LET found == [i \in 1 .. Cardinality(DOMAIN projects) |->
                         [id |-> SetToSeq(DOMAIN projects)[i]]]
         IN found \in Seq(ClaudeItems) /\ IdsOf(found) = DOMAIN projects
<1> DEFINE S == DOMAIN projects
           n == Cardinality(S)
           order == SetToSeq(S)
           found == [i \in 1 .. n |-> [id |-> order[i]]]
<1>1. IsFiniteSet(S) /\ S \subseteq Transcripts
  BY ClaudeAssumption, FS_Subset DEF ProjectsInv
<1>2. n \in Nat /\ order \in [1 .. n -> S] /\ \A x \in S : \E i \in 1 .. n : order[i] = x
  BY <1>1, SetListed
<1> HIDE DEF S, n, order
<1>3. DOMAIN found = 1 .. n /\ \A i \in 1 .. n : found[i].id = order[i]
  OBVIOUS
<1>4. \A i \in 1 .. n : order[i] \in S /\ [id |-> order[i]] \in ClaudeItems
  BY <1>1, <1>2 DEF ClaudeItems
<1>5. found \in [1 .. n -> ClaudeItems]
  BY <1>4
<1> HIDE DEF found
<1>6. found \in Seq(ClaudeItems)
  BY <1>2, <1>5
<1>7. IdsOf(found) = S
  <2>1. /\ \A i \in DOMAIN found : found[i].id \in S
        /\ \A x \in S : \E i \in DOMAIN found : found[i].id = x
    BY <1>2, <1>3, <1>4
  <2>2. QED BY <2>1, IdsAre
<1>8. QED BY <1>6, <1>7, Zenon DEF S, n, order, found

\* While neither a transcript nor a record changes.
LEMMA ClaudeRests ==
  ASSUME ProjectsInv, ClaudeRecords, UNCHANGED <<claudeVars, journal>>
  PROVE  ProjectsInv' /\ ClaudeRecords' /\ ClaudeCurrent' = ClaudeCurrent
         /\ DOMAIN projects' = DOMAIN projects
BY DEF ProjectsInv, ClaudeRecords, ClaudeCurrent, claudeVars

LEMMA ClaudeStartKeeps ==
  ASSUME ClaudeInv, ClaudeStart
  PROVE  ClaudeInv'
<1> DEFINE found == [i \in 1 .. Cardinality(DOMAIN projects) |->
                       [id |-> SetToSeq(DOMAIN projects)[i]]]
<1>1. /\ Visit(found) /\ calm' = (projects # <<>>)
      /\ UNCHANGED <<claudeVars, journal, writes, settled>>
  BY DEF ClaudeStart
<1>2. ProjectsInv /\ ClaudeRecords
  BY DEF ClaudeInv
<1>3. found \in Seq(ClaudeItems) /\ IdsOf(found) = DOMAIN projects
  BY <1>2, TranscriptsListed
<1> HIDE DEF found
<1>4. /\ DOMAIN sweep' = {"pc", "left", "stamp", "found", "staged"}
      /\ sweep'.found = found
      /\ sweep'.pc = IF found = <<>> THEN "idle" ELSE "verdict"
  BY <1>1, <1>3, Visiting
<1>5. ProjectsInv' /\ ClaudeRecords' /\ ClaudeCurrent' = ClaudeCurrent
      /\ DOMAIN projects' = DOMAIN projects
  BY <1>1, <1>2, ClaudeRests
<1>6. Sweeping(ClaudeItems)'
  BY <1>1, <1>3, <1>4 DEF ClaudeInv, Sweeping, Work, Staging, ClaudeItems
<1>7. Due(sweep') = DOMAIN projects /\ sweep'.pc \in {"idle", "verdict"}
  BY <1>3, <1>4 DEF Due
<1>8. Steady(DOMAIN projects, ClaudeCurrent, sweep', calm', settled')
  BY <1>1, <1>7 DEF ClaudeInv, Steady, Staging
<1>9. QED BY <1>1, <1>5, <1>6, <1>7, <1>8 DEF ClaudeInv, ProjectsInv, ClaudeItems, claudeVars

\* The item is left as it is.
LEMMA ClaudeLeaves ==
  ASSUME ClaudeInv, sweep.pc \in Work, Leave, UNCHANGED claudeVars,
         settled \/ calm => Item.id \in ClaudeCurrent
  PROVE  ClaudeInv'
<1>1. ProjectsInv' /\ ClaudeRecords' /\ ClaudeCurrent' = ClaudeCurrent
      /\ DOMAIN projects' = DOMAIN projects
  BY ClaudeRests DEF ClaudeInv, Leave
<1>2. /\ Sweeping(ClaudeItems)'
      /\ sweep'.pc \in {"idle", "verdict"}
      /\ Due(sweep') \subseteq Due(sweep)
      /\ Steady(DOMAIN projects, ClaudeCurrent, sweep', calm', settled')
  <2>1. Sweeping(ClaudeItems) /\ Steady(DOMAIN projects, ClaudeCurrent, sweep, calm, settled)
    BY DEF ClaudeInv, ClaudeItems
  <2>2. Visit(Tail(sweep.found)) /\ Ended /\ UNCHANGED <<writes, calm>>
    BY DEF Leave
  <2>3. QED BY <2>1, <2>2, Passing
<1>3. QED BY <1>1, <1>2 DEF ClaudeInv, ClaudeItems, claudeVars

\* The evidence of an item in hand, while the sweep is steady.
LEMMA ClaudeItem ==
  ASSUME ClaudeInv, sweep.pc \in Work
  PROVE  /\ Item.id \in Transcripts /\ Item.id \in started
         /\ settled \/ calm => Item.id \in DOMAIN projects
         /\ settled => sweep.pc = "verdict" /\ Item.id \in ClaudeCurrent
<1>1. Item \in ClaudeItems /\ Item.id \in Due(sweep)
  <2>1. Sweeping(ClaudeItems)
    BY DEF ClaudeInv, ClaudeItems
  <2>2. QED BY <2>1, ItemIs
<1>2. QED BY <1>1 DEF ClaudeInv, Steady, ClaudeItems, Work

\* The sweep goes on with the item.
LEMMA ClaudeGoes ==
  ASSUME ClaudeInv, sweep.pc \in Work, ~settled,
         DOMAIN sweep' = DOMAIN sweep, sweep'.found = sweep.found,
         sweep'.pc \in {"correlate", "capture", "sidecars", "commit"},
         UNCHANGED <<claudeVars, journal, writes, calm, settled>>,
         sweep'.pc \in {"sidecars", "commit"} => ClaudeStaged'
  PROVE  ClaudeInv'
<1>1. ProjectsInv' /\ ClaudeRecords' /\ ClaudeCurrent' = ClaudeCurrent
      /\ DOMAIN projects' = DOMAIN projects
  BY ClaudeRests DEF ClaudeInv
<1>2. /\ Sweeping(ClaudeItems)'
      /\ Due(sweep') = Due(sweep)
      /\ Steady(DOMAIN projects, ClaudeCurrent, sweep', calm', settled')
  <2>1. Sweeping(ClaudeItems) /\ Steady(DOMAIN projects, ClaudeCurrent, sweep, calm, settled)
    BY DEF ClaudeInv, ClaudeItems
  <2>2. sweep'.pc \in Staging
    BY DEF Staging
  <2>3. UNCHANGED <<writes, calm, settled>>
    OBVIOUS
  <2>4. QED BY <2>1, <2>2, <2>3, Moving
<1>3. QED BY <1>1, <1>2 DEF ClaudeInv, ClaudeItems, claudeVars

LEMMA ClaudeVerdictKeeps ==
  ASSUME ClaudeInv, ClaudeVerdict
  PROVE  ClaudeInv'
<1> DEFINE same == /\ Captured
                   /\ ~NoTranscript
                   /\ Fingerprint(Transcript(projects[Item.id])) = journal[Item.id].facts.print
<1>1. /\ sweep.pc = "verdict" /\ UNCHANGED claudeVars
      /\ IF Captured /\ (same \/ NoTranscript)
         THEN Leave
         ELSE To("correlate") /\ UNCHANGED <<journal, writes, calm, settled>>
  BY DEF ClaudeVerdict, Verdict
<1>2. sweep.pc \in Work
  BY <1>1 DEF Work
<1>3. settled \/ calm => ~NoTranscript
  BY <1>2, ClaudeItem DEF NoTranscript
<1>4. ASSUME ~NoTranscript PROVE same <=> Item.id \in ClaudeCurrent
  <2>1. Item.id \in DOMAIN projects
    BY <1>4 DEF NoTranscript
  <2>2. Captured => journal[Item.id].facts.print = Fingerprint(journal[Item.id].copy.main)
    BY DEF ClaudeInv, ClaudeRecords, Captured
  <2>3. Captured => (same <=> journal[Item.id].copy.main = Transcript(projects[Item.id]))
    BY <1>4, <2>2 DEF Fingerprint
  <2>4. QED BY <2>1, <2>3 DEF ClaudeCurrent, Captured
<1>5. CASE Captured /\ (same \/ NoTranscript)
  <2>1. settled \/ calm => Item.id \in ClaudeCurrent
    BY <1>3, <1>4, <1>5
  <2>2. Leave /\ UNCHANGED claudeVars
    BY <1>1, <1>5
  <2>3. QED BY <1>2, <2>1, <2>2, ClaudeLeaves
<1>6. CASE ~(Captured /\ (same \/ NoTranscript))
  <2>1. To("correlate") /\ UNCHANGED <<journal, writes, calm, settled>>
    BY <1>1, <1>6
  <2>2. ~settled
    <3>1. SUFFICES ASSUME settled PROVE FALSE
      OBVIOUS
    <3>2. Item.id \in ClaudeCurrent
      BY <1>2, <3>1, ClaudeItem
    <3>3. QED BY <1>3, <1>4, <1>6, <3>1, <3>2
  <2> HIDE DEF same
  <2>3. QED BY <1>1, <1>2, <2>1, <2>2, ClaudeGoes DEF To, ClaudeInv, Sweeping
<1>7. QED BY <1>5, <1>6

LEMMA ClaudeCorrelateKeeps ==
  ASSUME ClaudeInv, ClaudeCorrelate
  PROVE  ClaudeInv'
<1>1. /\ sweep.pc = "correlate" /\ UNCHANGED claudeVars
      /\ IF NoTranscript THEN Leave
         ELSE To("capture") /\ UNCHANGED <<journal, writes, calm, settled>>
  BY DEF ClaudeCorrelate, Correlate
<1>2. sweep.pc \in Work
  BY <1>1 DEF Work, Staging
<1>3. ~settled /\ (calm => ~NoTranscript)
  BY <1>1, <1>2, ClaudeItem DEF NoTranscript
<1>4. CASE NoTranscript
  BY <1>1, <1>2, <1>3, <1>4, ClaudeLeaves
<1>5. CASE ~NoTranscript
  BY <1>1, <1>2, <1>3, <1>5, ClaudeGoes DEF To, ClaudeInv, Sweeping
<1>6. QED BY <1>4, <1>5

LEMMA CopyTranscriptKeeps ==
  ASSUME ClaudeInv, CopyTranscript
  PROVE  ClaudeInv'
<1>1. sweep.pc = "capture" /\ UNCHANGED claudeVars
  BY DEF CopyTranscript
<1>2. sweep.pc \in Work
  BY <1>1 DEF Work, Staging
<1>3. ~settled /\ (calm => ~NoTranscript)
  BY <1>1, <1>2, ClaudeItem DEF NoTranscript
<1>4. CASE NoTranscript
  <2>1. Leave
    BY <1>4 DEF CopyTranscript
  <2>2. QED BY <1>1, <1>2, <1>3, <1>4, <2>1, ClaudeLeaves
<1>5. CASE ~NoTranscript
  <2> DEFINE copy == [main |-> Transcript(projects[Item.id]), agent |-> 0, missed |-> FALSE]
  <2>1. /\ sweep' = [sweep EXCEPT !.pc = "sidecars", !.staged = {copy}]
        /\ UNCHANGED <<journal, writes, calm, settled>>
    BY <1>5 DEF CopyTranscript
  <2>2. DOMAIN sweep = {"pc", "left", "stamp", "found", "staged"}
    BY DEF ClaudeInv, Sweeping
  <2> HIDE DEF copy
  <2>3. /\ DOMAIN sweep' = DOMAIN sweep /\ sweep'.found = sweep.found
        /\ sweep'.pc = "sidecars" /\ sweep'.staged = {copy}
    BY <2>1, <2>2
  <2>4. Item' = Item /\ projects' = projects
    BY <1>1, <2>3 DEF Item, claudeVars
  <2>5. Item.id \in DOMAIN projects
    BY <1>5 DEF NoTranscript
  <2>6. /\ projects[Item.id] \in ClaudeFile
        /\ HasResult(projects[Item.id].lines) => projects[Item.id].agent = AgentDone
    BY <2>5 DEF ClaudeInv, ProjectsInv
  <2>7. /\ DOMAIN copy = {"main", "agent", "missed"}
        /\ copy.main = Transcript(projects[Item.id])
        /\ copy.main.lines = projects[Item.id].lines
        /\ copy.main \in ClaudeCopy
    BY <2>6 DEF copy, Transcript, ClaudeCopy, ClaudeFile
  <2>8. ClaudeStaged'
    BY <2>3, <2>4, <2>6, <2>7 DEF ClaudeStaged, NoTranscript
  <2>9. QED BY <1>1, <1>2, <1>3, <2>1, <2>3, <2>8, ClaudeGoes
<1>6. QED BY <1>4, <1>5

LEMMA CopySidecarsKeeps ==
  ASSUME ClaudeInv, CopySidecars
  PROVE  ClaudeInv'
<1>1. sweep.pc = "sidecars" /\ UNCHANGED <<claudeVars, journal, writes, calm, settled>>
  BY DEF CopySidecars
<1>2. sweep.pc \in Work
  BY <1>1 DEF Work, Staging
<1>3. ~settled
  BY <1>1, <1>2, ClaudeItem
<1> DEFINE there == ~NoTranscript /\ projects[Item.id].agent > 0
           copied(s, missed) ==
             [s EXCEPT !.missed = missed \/ NoTranscript,
                       !.agent = IF there /\ ~missed THEN projects[Item.id].agent ELSE Earlier]
<1>4. PICK s \in sweep.staged, missed \in BOOLEAN :
        /\ missed => there
        /\ sweep' = [sweep EXCEPT !.pc = "commit", !.staged = {copied(s, missed)}]
  BY DEF CopySidecars
<1> DEFINE copy == copied(s, missed)
<1>5. /\ DOMAIN s = {"main", "agent", "missed"}
      /\ s.main \in ClaudeCopy
      /\ HasResult(s.main.lines) => NoTranscript \/ projects[Item.id].agent = AgentDone
      /\ calm => s.main = Transcript(projects[Item.id])
  BY <1>1 DEF ClaudeInv, ClaudeStaged
<1>6. /\ DOMAIN copy = {"main", "agent", "missed"} /\ copy.main = s.main
      /\ copy.missed = (missed \/ NoTranscript)
      /\ copy.agent = IF there /\ ~missed THEN projects[Item.id].agent ELSE Earlier
  BY <1>5
<1>7. Complete(copy)
  <2>1. AgentDone > 0
    BY ClaudeAssumption
  <2> HIDE DEF copy
  <2>2. QED BY <1>5, <1>6, <2>1 DEF Complete
<1>8. sweep' = [sweep EXCEPT !.pc = "commit", !.staged = {copy}]
  BY <1>4
<1> HIDE DEF copy, copied
<1>9. /\ DOMAIN sweep' = DOMAIN sweep /\ sweep'.found = sweep.found
      /\ sweep'.pc = "commit" /\ sweep'.staged = {copy}
  BY <1>8 DEF ClaudeInv, Sweeping
<1>10. Item' = Item /\ projects' = projects /\ calm' = calm
  BY <1>1, <1>9 DEF Item, claudeVars
<1>11. ClaudeStaged'
  BY <1>5, <1>6, <1>7, <1>9, <1>10 DEF ClaudeStaged
<1>12. QED BY <1>1, <1>2, <1>3, <1>9, <1>11, ClaudeGoes

LEMMA ScanPrint ==
  ASSUME NEW c
  PROVE  CaptureScan(c).print = Fingerprint(c)
BY DEF CaptureScan

LEMMA ClaudeCommitKeeps ==
  ASSUME ClaudeInv, ClaudeCommit
  PROVE  ClaudeInv'
<1>1. sweep.pc = "commit" /\ UNCHANGED claudeVars
  BY DEF ClaudeCommit
<1>2. PICK s \in sweep.staged : Commit(s, CaptureScan(s.main))
  BY DEF ClaudeCommit
<1>3. sweep.pc \in Work
  BY <1>1 DEF Work, Staging
<1>4. ~settled /\ (calm => Item.id \in DOMAIN projects)
  BY <1>1, <1>3, ClaudeItem
<1>5. /\ s.main \in ClaudeCopy /\ Complete(s)
      /\ calm => s.main = Transcript(projects[Item.id])
  BY <1>1 DEF ClaudeInv, ClaudeStaged
<1> DEFINE record == [copy |-> s, facts |-> CaptureScan(s.main)]
<1>6. /\ record.copy = s /\ record.facts.print = Fingerprint(s.main)
  BY ScanPrint
<1>7. journal' = [id \in DOMAIN journal \union {Item.id} |->
                    IF id = Item.id THEN record ELSE journal[id]]
  BY <1>2 DEF Commit
<1>8. Visit(Tail(sweep.found)) /\ Ended /\ UNCHANGED <<writes, calm>>
  BY <1>2 DEF Commit
<1> HIDE DEF record
<1>9. ClaudeRecords'
  BY <1>5, <1>6, <1>7 DEF ClaudeInv, ClaudeRecords
<1>10. ProjectsInv' /\ projects' = projects
  BY <1>1 DEF ClaudeInv, ProjectsInv, claudeVars
<1>11. ClaudeCurrent \ {Item.id} \subseteq ClaudeCurrent' /\ (calm => Item.id \in ClaudeCurrent')
  BY <1>4, <1>5, <1>6, <1>7, <1>10 DEF ClaudeCurrent
<1>12. settled \/ calm => /\ Steady(DOMAIN projects, ClaudeCurrent', sweep, calm, settled)
                          /\ Item.id \in ClaudeCurrent'
  <2>1. SUFFICES ASSUME calm
                 PROVE  Steady(DOMAIN projects, ClaudeCurrent', sweep, calm, settled)
    BY <1>4, <1>11
  <2>2. ClaudeCurrent \subseteq ClaudeCurrent'
    BY <1>11, <2>1
  <2>3. Steady(DOMAIN projects, ClaudeCurrent, sweep, calm, settled)
    BY DEF ClaudeInv
  <2>4. QED BY <1>4, <2>2, <2>3 DEF Steady
<1>13. /\ Sweeping(ClaudeItems)'
       /\ sweep'.pc \in {"idle", "verdict"}
       /\ Due(sweep') \subseteq Due(sweep)
       /\ Steady(DOMAIN projects, ClaudeCurrent', sweep', calm', settled')
  <2>1. Sweeping(ClaudeItems)
    BY DEF ClaudeInv, ClaudeItems
  <2>2. QED BY <1>3, <1>8, <1>12, <2>1, Passing
<1>14. QED BY <1>1, <1>9, <1>10, <1>13 DEF ClaudeInv, ClaudeItems, claudeVars

\* Whatever claude writes: what a copy under way relies on stands, and if the
\* store stays settled every transcript is as it was.
LEMMA ClaudeWrites ==
  ASSUME ClaudeInv, ClaudeWrote, ProjectsInv', started \subseteq started',
         \A id \in started :
           id \in DOMAIN projects' =>
             /\ id \in DOMAIN projects
             /\ projects[id].agent = AgentDone => projects'[id].agent = AgentDone
  PROVE  ClaudeInv'
<1>1. /\ writes' = writes + 1 /\ calm' = FALSE
      /\ settled' = (settled /\ ClaudeEvidence' = ClaudeEvidence)
      /\ journal' = journal /\ sweep' = sweep
  BY DEF ClaudeWrote, Wrote
<1>2. settled' \in BOOLEAN /\ (settled' => settled /\ ClaudeEvidence' = ClaudeEvidence)
  BY <1>1
<1>3. settled' => DOMAIN projects' = DOMAIN projects /\ ClaudeCurrent' = ClaudeCurrent
  <2>1. SUFFICES ASSUME ClaudeEvidence' = ClaudeEvidence
                 PROVE  DOMAIN projects' = DOMAIN projects /\ ClaudeCurrent' = ClaudeCurrent
    BY <1>2
  <2>2. DOMAIN projects' = DOMAIN projects
    BY <2>1 DEF ClaudeEvidence
  <2>3. \A id \in DOMAIN projects : Transcript(projects'[id]) = Transcript(projects[id])
    BY <2>1, <2>2 DEF ClaudeEvidence
  <2>4. QED BY <1>1, <2>2, <2>3 DEF ClaudeCurrent
<1>4. /\ Sweeping(ClaudeItems)' /\ Item' = Item
      /\ Steady(DOMAIN projects', ClaudeCurrent', sweep', calm', settled')
  <2>1. Sweeping(ClaudeItems) /\ Steady(DOMAIN projects, ClaudeCurrent, sweep, calm, settled)
    BY DEF ClaudeInv, ClaudeItems
  <2>2. settled' => Steady(DOMAIN projects', ClaudeCurrent', sweep, calm, settled)
    BY <1>3, <2>1
  <2>3. QED BY <1>1, <1>2, <2>1, <2>2, Writing
<1>5. ClaudeRecords' /\ Due(sweep') \subseteq started'
  BY <1>1 DEF ClaudeInv, ClaudeRecords
<1>6. sweep'.pc \in {"sidecars", "commit"} => ClaudeStaged'
  <2>1. SUFFICES ASSUME sweep.pc \in {"sidecars", "commit"} PROVE ClaudeStaged'
    BY <1>1
  <2>2. Item.id \in started
    BY <2>1, ClaudeItem DEF Work, Staging
  <2>3. NoTranscript \/ projects[Item.id].agent = AgentDone
        => NoTranscript' \/ projects'[Item'.id].agent = AgentDone
    BY <1>4, <2>2 DEF NoTranscript
  <2>4. ClaudeStaged
    BY <2>1 DEF ClaudeInv
  <2>5. QED BY <1>1, <2>3, <2>4 DEF ClaudeStaged
<1>7. sweep'.pc \in ClaudePlaces
  BY <1>1 DEF ClaudeInv, ClaudePlaces
<1>8. QED BY <1>4, <1>5, <1>6, <1>7 DEF ClaudeInv, ClaudeItems, ClaudePlaces

\* One transcript is written to, and its sidecar is no shorter for it.
LEMMA ProjectChanged ==
  ASSUME ClaudeInv, ClaudeWrote, UNCHANGED started,
         NEW id \in DOMAIN projects, NEW f \in ClaudeFile,
         projects' = [projects EXCEPT ![id] = f],
         projects[id].agent = AgentDone => f.agent = AgentDone,
         HasResult(f.lines) => f.agent = AgentDone
  PROVE  ClaudeInv'
<1>1. ProjectsInv
  BY DEF ClaudeInv
<1>2. /\ DOMAIN projects' = DOMAIN projects
      /\ \A k \in DOMAIN projects : projects'[k] = IF k = id THEN f ELSE projects[k]
  BY <1>1 DEF ProjectsInv
<1>3. ProjectsInv'
  BY <1>1, <1>2 DEF ProjectsInv
<1>4. QED BY <1>2, <1>3, ClaudeWrites

LEMMA StartTranscriptKeeps ==
  ASSUME ClaudeInv, NEW id \in Transcripts, StartTranscript(id)
  PROVE  ClaudeInv'
<1> DEFINE empty == [lines |-> <<>>, tail |-> "ended", agent |-> 0]
<1>1. /\ id \notin started /\ started' = started \union {id} /\ ClaudeWrote
      /\ projects' = [k \in DOMAIN projects \union {id} |-> IF k = id THEN empty ELSE projects[k]]
  BY DEF StartTranscript
<1>2. empty \in ClaudeFile /\ ~HasResult(empty.lines)
  BY ClaudeAssumption DEF ClaudeFile, HasResult
<1> HIDE DEF empty
<1>3. ProjectsInv
  BY DEF ClaudeInv
<1>4. /\ DOMAIN projects' = DOMAIN projects \union {id}
      /\ \A k \in DOMAIN projects' : projects'[k] = IF k = id THEN empty ELSE projects[k]
  BY <1>1
<1>5. ProjectsInv'
  <2>1. DOMAIN projects' \subseteq Transcripts \intersect started'
    BY <1>1, <1>3, <1>4 DEF ProjectsInv
  <2>2. projects' \in [DOMAIN projects' -> ClaudeFile]
    BY <1>1, <1>2, <1>3, <1>4 DEF ProjectsInv
  <2>3. QED BY <1>2, <1>3, <1>4, <2>1, <2>2 DEF ProjectsInv
<1>6. QED BY <1>1, <1>4, <1>5, ClaudeWrites

LEMMA AppendRecordKeeps ==
  ASSUME ClaudeInv, NEW id \in DOMAIN projects, NEW u \in DOMAIN KindOf \union {NoNode},
         NEW tail \in {"ended", "partial", "bare"}, AppendRecord(id, u, tail)
  PROVE  ClaudeInv'
<1> DEFINE f == projects[id]
           g == [f EXCEPT !.lines = Append(@, u), !.tail = tail]
<1>1. /\ u # NoNode /\ KindOf[u] = "result" => f.agent = AgentDone
      /\ projects' = [projects EXCEPT ![id] = g] /\ UNCHANGED started /\ ClaudeWrote
  BY DEF AppendRecord
<1>2. f \in ClaudeFile /\ (HasResult(f.lines) => f.agent = AgentDone)
  BY DEF ClaudeInv, ProjectsInv
<1>3. f.lines \in Seq(DOMAIN KindOf \union {NoNode})
  BY <1>2 DEF ClaudeFile
<1>4. g \in ClaudeFile /\ g.agent = f.agent /\ g.lines = Append(f.lines, u)
  <2> DEFINE lines == Append(f.lines, u)
  <2>1. lines \in Seq(DOMAIN KindOf \union {NoNode})
    BY <1>3
  <2>2. g = [f EXCEPT !.lines = lines, !.tail = tail]
    BY <1>2 DEF ClaudeFile
  <2> HIDE DEF lines, f, g
  <2>3. g \in ClaudeFile /\ g.agent = f.agent /\ g.lines = lines
    BY <1>2, <2>1, <2>2 DEF ClaudeFile
  <2>4. QED BY <2>3 DEF lines
<1> HIDE DEF f, g
<1>5. ASSUME HasResult(g.lines) PROVE f.agent = AgentDone
  <2>1. PICK i \in DOMAIN g.lines : g.lines[i] # NoNode /\ KindOf[g.lines[i]] = "result"
    BY <1>5 DEF HasResult
  <2>2. CASE i \in DOMAIN f.lines
    <3>1. g.lines[i] = f.lines[i]
      BY <1>3, <1>4, <2>2
    <3>2. QED BY <1>2, <2>1, <2>2, <3>1 DEF HasResult
  <2>3. CASE i \notin DOMAIN f.lines
    <3>1. g.lines[i] = u
      BY <1>3, <1>4, <2>1, <2>3
    <3>2. QED BY <1>1, <2>1, <3>1
  <2>4. QED BY <2>2, <2>3
<1>6. QED BY <1>1, <1>4, <1>5, ProjectChanged DEF f

LEMMA ClaudeWriteKeeps ==
  ASSUME ClaudeInv, ClaudeWrite
  PROVE  ClaudeInv'
<1>1. ASSUME NEW id \in Transcripts, StartTranscript(id) PROVE ClaudeInv'
  BY <1>1, StartTranscriptKeeps
<1>2. ASSUME NEW id \in DOMAIN projects, NEW u \in DOMAIN KindOf \union {NoNode},
             NEW tail \in {"ended", "partial", "bare"}, AppendRecord(id, u, tail)
      PROVE  ClaudeInv'
  BY <1>2, AppendRecordKeeps
<1>3. ASSUME NEW id \in DOMAIN projects, FinishRecord(id) PROVE ClaudeInv'
  <2> DEFINE f == projects[id]
             g == [f EXCEPT !.tail = "ended"]
  <2>1. f \in ClaudeFile /\ (HasResult(f.lines) => f.agent = AgentDone)
    BY DEF ClaudeInv, ProjectsInv
  <2>2. g \in ClaudeFile /\ g.agent = f.agent /\ g.lines = f.lines
    BY <2>1 DEF ClaudeFile
  <2>3. projects' = [projects EXCEPT ![id] = g] /\ UNCHANGED started /\ ClaudeWrote
    BY <1>3 DEF FinishRecord
  <2> HIDE DEF g
  <2>4. QED BY <2>1, <2>2, <2>3, ProjectChanged
<1>4. ASSUME NEW id \in DOMAIN projects, AgentWrites(id) PROVE ClaudeInv'
  <2> DEFINE f == projects[id]
             g == [f EXCEPT !.agent = @ + 1]
  <2>1. f \in ClaudeFile /\ (HasResult(f.lines) => f.agent = AgentDone)
    BY DEF ClaudeInv, ProjectsInv
  <2>2. f.agent < AgentDone /\ f.agent \in 0 .. AgentDone /\ AgentDone \in Nat
    BY <1>4, <2>1, ClaudeAssumption DEF AgentWrites, ClaudeFile
  <2>3. f.agent # AgentDone /\ f.agent + 1 \in 0 .. AgentDone
    BY <2>2
  <2>4. g \in ClaudeFile /\ g.agent = f.agent + 1 /\ g.lines = f.lines
    BY <2>1, <2>3 DEF ClaudeFile
  <2>5. projects' = [projects EXCEPT ![id] = g] /\ UNCHANGED started /\ ClaudeWrote
    BY <1>4 DEF AgentWrites
  <2> HIDE DEF g
  <2>6. QED BY <2>1, <2>3, <2>4, <2>5, ProjectChanged
<1>5. ASSUME NEW id \in DOMAIN projects, Expire(id) PROVE ClaudeInv'
  <2>1. projects' = [k \in DOMAIN projects \ {id} |-> projects[k]] /\ UNCHANGED started /\ ClaudeWrote
    BY <1>5 DEF Expire
  <2>2. DOMAIN projects' \subseteq DOMAIN projects
        /\ \A k \in DOMAIN projects' : projects'[k] = projects[k]
    BY <2>1
  <2>3. ProjectsInv
    BY DEF ClaudeInv
  <2>4. ProjectsInv'
    <3>1. projects' \in [DOMAIN projects' -> ClaudeFile]
      BY <2>1, <2>3 DEF ProjectsInv
    <3>2. QED BY <2>1, <2>2, <2>3, <3>1 DEF ProjectsInv
  <2>5. QED BY <2>1, <2>2, <2>4, ClaudeWrites
<1>6. QED BY <1>1, <1>2, <1>3, <1>4, <1>5 DEF ClaudeWrite

-----------------------------------------------------------------------------
(***************************************************************************)
(* devin.                                                                  *)
(***************************************************************************)
DevinItems == [id : {Session}]

LEMMA DevinItem ==
  ASSUME DevinInv, sweep.pc \in Work
  PROVE  /\ Item.id = Session
         /\ settled \/ calm => store # {}
         /\ settled => sweep.pc = "verdict" /\ Item.id \in DevinCurrent
<1>1. Item \in DevinItems /\ Item.id \in Due(sweep)
  <2>1. Sweeping(DevinItems)
    BY DEF DevinInv, DevinItems
  <2>2. QED BY <2>1, ItemIs
<1>2. QED BY <1>1 DEF DevinInv, Steady, DevinItems, DevinIds, Work

\* While neither the store nor a record changes.
LEMMA DevinRests ==
  ASSUME DevinInv, UNCHANGED <<store, journal>>
  PROVE  /\ (\A s, t \in store : s = t)' /\ DevinRecords'
         /\ DevinCurrent' = DevinCurrent /\ DevinIds' = DevinIds
BY DEF DevinInv, DevinRecords, DevinCurrent, DevinIds

LEMMA DevinLeaves ==
  ASSUME DevinInv, sweep.pc \in Work, Leave, UNCHANGED store,
         settled \/ calm => Item.id \in DevinCurrent
  PROVE  DevinInv'
<1>1. /\ (\A s, t \in store : s = t)' /\ DevinRecords'
      /\ DevinCurrent' = DevinCurrent /\ DevinIds' = DevinIds
  BY DevinRests DEF Leave
<1>2. /\ Sweeping(DevinItems)'
      /\ sweep'.pc \in {"idle", "verdict"}
      /\ Steady(DevinIds, DevinCurrent, sweep', calm', settled')
  <2>1. Sweeping(DevinItems) /\ Steady(DevinIds, DevinCurrent, sweep, calm, settled)
    BY DEF DevinInv, DevinItems
  <2>2. Visit(Tail(sweep.found)) /\ Ended /\ UNCHANGED <<writes, calm>>
    BY DEF Leave
  <2>3. QED BY <2>1, <2>2, Passing
<1>3. QED BY <1>1, <1>2 DEF DevinInv, DevinItems

\* The sweep goes on with the session.
LEMMA DevinGoes ==
  ASSUME DevinInv, sweep.pc \in Work, ~settled,
         DOMAIN sweep' = DOMAIN sweep, sweep'.found = sweep.found,
         sweep'.pc \in {"correlate", "capture", "analyze", "commit"},
         UNCHANGED <<store, journal, writes, calm, settled>>,
         sweep'.pc = "analyze" /\ calm => sweep'.staged = store,
         sweep'.pc = "commit" /\ calm => \A p \in sweep'.staged : p.row \in store
  PROVE  DevinInv'
<1>1. /\ (\A s, t \in store : s = t)' /\ DevinRecords'
      /\ DevinCurrent' = DevinCurrent /\ DevinIds' = DevinIds
  BY DevinRests
<1>2. /\ Sweeping(DevinItems)'
      /\ Steady(DevinIds, DevinCurrent, sweep', calm', settled')
  <2>1. Sweeping(DevinItems) /\ Steady(DevinIds, DevinCurrent, sweep, calm, settled)
    BY DEF DevinInv, DevinItems
  <2>2. sweep'.pc \in Staging /\ UNCHANGED <<writes, calm, settled>>
    BY DEF Staging
  <2>3. QED BY <2>1, <2>2, Moving
<1>3. QED BY <1>1, <1>2 DEF DevinInv, DevinItems

LEMMA DevinStartKeeps ==
  ASSUME DevinInv, DevinStart
  PROVE  DevinInv'
<1> DEFINE n == Cardinality(store)
           found == [i \in 1 .. n |-> [id |-> Session]]
<1>1. /\ Visit(found) /\ calm' = (store # {})
      /\ UNCHANGED <<store, journal, writes, settled>>
  BY DEF DevinStart
<1>2. n \in {0, 1} /\ (n = 0 <=> store = {})
  <2>1. CASE store = {}
    BY <2>1, FS_EmptySet
  <2>2. CASE store # {}
    <3>1. PICK s \in store : TRUE
      BY <2>2
    <3>2. store = {s}
      BY <3>1 DEF DevinInv
    <3>3. Cardinality({s}) = 1
      BY FS_Singleton
    <3>4. n = 1
      BY <3>2, <3>3
    <3> HIDE DEF n, found
    <3>5. QED BY <2>2, <3>4
  <2>3. QED BY <2>1, <2>2, Zenon
<1> HIDE DEF n
<1>3. /\ DOMAIN found = 1 .. n
      /\ \A i \in 1 .. n : found[i] \in DevinItems /\ found[i].id = Session
  BY DEF DevinItems
<1>4. found \in [1 .. n -> DevinItems]
  BY <1>3
<1> HIDE DEF found
<1>5. found \in Seq(DevinItems)
  BY <1>2, <1>4
<1>6. IdsOf(found) = DevinIds
  <2>1. CASE store = {}
    <3>1. DOMAIN found = {} /\ DevinIds = {}
      BY <1>2, <1>3, <2>1 DEF DevinIds
    <3>2. QED BY <3>1 DEF IdsOf
  <2>2. CASE store # {}
    <3>1. DOMAIN found = {1} /\ found[1].id = Session
      BY <1>2, <1>3, <2>2
    <3>2. DevinIds = {Session}
      BY <2>2 DEF DevinIds
    <3>3. QED BY <3>1, <3>2, IdsAre
  <2>3. QED BY <2>1, <2>2
<1>7. /\ DOMAIN sweep' = {"pc", "left", "stamp", "found", "staged"}
      /\ sweep'.found = found
      /\ sweep'.pc = IF found = <<>> THEN "idle" ELSE "verdict"
  BY <1>1, <1>5, Visiting
<1>8. /\ (\A s, t \in store : s = t)' /\ DevinRecords'
      /\ DevinCurrent' = DevinCurrent /\ DevinIds' = DevinIds
  BY <1>1, DevinRests
<1>9. Sweeping(DevinItems)'
  BY <1>1, <1>5, <1>7 DEF DevinInv, Sweeping, Work, Staging
<1>10. Due(sweep') = DevinIds /\ sweep'.pc \in {"idle", "verdict"}
  BY <1>6, <1>7 DEF Due
<1>11. Steady(DevinIds, DevinCurrent, sweep', calm', settled')
  BY <1>1, <1>10 DEF DevinInv, Steady, Staging
<1>12. QED BY <1>8, <1>9, <1>10, <1>11 DEF DevinInv, DevinItems

LEMMA DevinVerdictKeeps ==
  ASSUME DevinInv, DevinVerdict
  PROVE  DevinInv'
<1> DEFINE same == Captured /\ \E s \in store : Unchanged(s, journal[Item.id].facts.print)
<1>1. /\ sweep.pc = "verdict" /\ UNCHANGED store
      /\ IF Captured /\ same THEN Leave
         ELSE To("correlate") /\ UNCHANGED <<journal, writes, calm, settled>>
  BY DEF DevinVerdict, Verdict
<1>2. sweep.pc \in Work
  BY <1>1 DEF Work
<1>3. store # {} => (same <=> Item.id \in DevinCurrent)
  <2>1. Item.id = Session
    BY <1>2, DevinItem
  <2>2. ASSUME Captured, NEW s \in store
        PROVE  Unchanged(s, journal[Item.id].facts.print)
                 <=> HashConversation(journal[Item.id].copy) = HashConversation(s)
    <3>1. journal[Item.id].facts.print =
            [lines |-> Cardinality(DOMAIN journal[Item.id].copy.nodes),
             sha |-> HashConversation(journal[Item.id].copy)]
      BY <2>2 DEF DevinInv, DevinRecords, Captured
    <3>2. HashConversation(journal[Item.id].copy) = HashConversation(s)
          => journal[Item.id].copy.nodes = s.nodes
      BY DEF HashConversation
    <3>3. QED BY <3>1, <3>2 DEF Unchanged
  <2>3. QED BY <2>1, <2>2 DEF DevinCurrent, Captured, DevinInv
<1>4. settled \/ calm => store # {}
  BY <1>2, DevinItem
<1>5. CASE same
  <2>1. Leave
    BY <1>1, <1>5
  <2>2. settled \/ calm => Item.id \in DevinCurrent
    BY <1>3, <1>4, <1>5
  <2>3. QED BY <1>1, <1>2, <2>1, <2>2, DevinLeaves
<1>6. CASE ~same
  <2>1. To("correlate") /\ UNCHANGED <<journal, writes, calm, settled>>
    BY <1>1, <1>6
  <2>2. ~settled
    BY <1>2, <1>3, <1>4, <1>6, DevinItem
  <2> HIDE DEF same
  <2>3. QED BY <1>1, <1>2, <2>1, <2>2, DevinGoes DEF To, DevinInv, Sweeping
<1>7. QED BY <1>5, <1>6

LEMMA DevinCorrelateKeeps ==
  ASSUME DevinInv, DevinCorrelate
  PROVE  DevinInv'
<1>1. /\ sweep.pc = "correlate" /\ UNCHANGED store
      /\ IF store = {} THEN Leave
         ELSE To("capture") /\ UNCHANGED <<journal, writes, calm, settled>>
  BY DEF DevinCorrelate, Correlate
<1>2. sweep.pc \in Work
  BY <1>1 DEF Work, Staging
<1>3. ~settled /\ (calm => store # {})
  BY <1>1, <1>2, DevinItem
<1>4. CASE store = {}
  BY <1>1, <1>2, <1>3, <1>4, DevinLeaves
<1>5. CASE store # {}
  BY <1>1, <1>2, <1>3, <1>5, DevinGoes DEF To, DevinInv, Sweeping
<1>6. QED BY <1>4, <1>5

LEMMA SnapshotKeeps ==
  ASSUME DevinInv, Snapshot
  PROVE  DevinInv'
<1>1. /\ sweep.pc = "capture" /\ UNCHANGED store
      /\ IF store = {} THEN Leave
         ELSE /\ sweep' = [sweep EXCEPT !.pc = "analyze", !.staged = store]
              /\ UNCHANGED <<journal, writes, calm, settled>>
  BY DEF Snapshot
<1>2. sweep.pc \in Work
  BY <1>1 DEF Work, Staging
<1>3. ~settled /\ (calm => store # {})
  BY <1>1, <1>2, DevinItem
<1>4. CASE store = {}
  BY <1>1, <1>2, <1>3, <1>4, DevinLeaves
<1>5. CASE store # {}
  <2>1. DOMAIN sweep' = DOMAIN sweep /\ sweep'.found = sweep.found
        /\ sweep'.pc = "analyze" /\ sweep'.staged = store
    BY <1>1, <1>5 DEF DevinInv, Sweeping
  <2>2. QED BY <1>1, <1>2, <1>3, <1>5, <2>1, DevinGoes
<1>6. QED BY <1>4, <1>5

LEMMA AnalyzeKeeps ==
  ASSUME DevinInv, Analyze
  PROVE  DevinInv'
<1>1. sweep.pc = "analyze" /\ UNCHANGED <<store, journal, writes, calm, settled>>
  BY DEF Analyze
<1>2. PICK s \in sweep.staged :
        sweep' = [sweep EXCEPT !.pc = "commit", !.staged = {[chain |-> AnalyzeChain(s), row |-> s]}]
  BY DEF Analyze
<1>3. sweep.pc \in Work
  BY <1>1 DEF Work, Staging
<1>4. ~settled /\ (calm => s \in store)
  BY <1>1, <1>3, DevinItem DEF DevinInv
<1> DEFINE p == [chain |-> AnalyzeChain(s), row |-> s]
<1>5. p.row = s
  OBVIOUS
<1>6. sweep' = [sweep EXCEPT !.pc = "commit", !.staged = {p}]
  BY <1>2
<1> HIDE DEF p
<1>7. DOMAIN sweep' = DOMAIN sweep /\ sweep'.found = sweep.found
      /\ sweep'.pc = "commit" /\ sweep'.staged = {p}
  BY <1>6 DEF DevinInv, Sweeping
<1>8. QED BY <1>1, <1>3, <1>4, <1>5, <1>7, DevinGoes

LEMMA ExportKeeps ==
  ASSUME DevinInv, Export
  PROVE  DevinInv'
<1>1. sweep.pc = "commit" /\ UNCHANGED store
  BY DEF Export
<1>2. PICK p \in sweep.staged : Commit(p.row, Facts(p.chain, p.row))
  BY DEF Export
<1>3. sweep.pc \in Work
  BY <1>1 DEF Work, Staging
<1>4. ~settled /\ Item.id = Session /\ (calm => p.row \in store)
  BY <1>1, <1>3, DevinItem DEF DevinInv
<1> DEFINE record == [copy |-> p.row, facts |-> Facts(p.chain, p.row)]
<1>5. /\ record.copy = p.row
      /\ record.facts.print = [lines |-> Cardinality(DOMAIN p.row.nodes), sha |-> HashConversation(p.row)]
  BY DEF Facts
<1>6. journal' = [id \in DOMAIN journal \union {Item.id} |->
                    IF id = Item.id THEN record ELSE journal[id]]
  BY <1>2 DEF Commit
<1>7. Visit(Tail(sweep.found)) /\ Ended /\ UNCHANGED <<writes, calm>>
  BY <1>2 DEF Commit
<1> HIDE DEF record
<1>8. DevinRecords'
  BY <1>5, <1>6 DEF DevinInv, DevinRecords
<1>9. calm => Session \in DevinCurrent'
  <2>1. SUFFICES ASSUME calm PROVE Session \in DevinCurrent'
    OBVIOUS
  <2>2. \A s \in store' : p.row = s
    BY <1>1, <1>4, <2>1 DEF DevinInv
  <2>3. Session \in DOMAIN journal' /\ journal'[Session].copy = p.row
    BY <1>4, <1>5, <1>6
  <2>4. QED BY <2>2, <2>3 DEF DevinCurrent
<1>10. settled \/ calm => /\ Steady(DevinIds, DevinCurrent', sweep, calm, settled)
                          /\ Item.id \in DevinCurrent'
  <2>1. DevinIds \subseteq {Session}
    BY DEF DevinIds
  <2>2. Steady(DevinIds, DevinCurrent, sweep, calm, settled)
    BY DEF DevinInv
  <2>3. QED BY <1>4, <1>9, <2>1, <2>2 DEF Steady
<1>11. /\ Sweeping(DevinItems)'
       /\ sweep'.pc \in {"idle", "verdict"}
       /\ Steady(DevinIds, DevinCurrent', sweep', calm', settled')
  <2>1. Sweeping(DevinItems)
    BY DEF DevinInv, DevinItems
  <2>2. QED BY <1>3, <1>7, <1>10, <2>1, Passing
<1>12. DevinIds' = DevinIds /\ (\A s, t \in store : s = t)'
  BY <1>1 DEF DevinIds, DevinInv
<1>13. QED BY <1>8, <1>11, <1>12 DEF DevinInv, DevinItems

\* Whatever devin writes: the row is replaced, and if the store stays settled
\* its evidence is what it was.
LEMMA DevinWrites ==
  ASSUME DevinInv, DevinWrote, \A s, t \in store' : s = t
  PROVE  DevinInv'
<1>1. /\ writes' = writes + 1 /\ calm' = FALSE
      /\ settled' = (settled /\ DevinEvidence' = DevinEvidence)
      /\ journal' = journal /\ sweep' = sweep
  BY DEF DevinWrote, Wrote
<1>2. settled' \in BOOLEAN /\ (settled' => settled /\ DevinEvidence' = DevinEvidence)
  BY <1>1
<1>3. settled' => DevinIds' = DevinIds /\ DevinCurrent' = DevinCurrent
  <2>1. SUFFICES ASSUME DevinEvidence' = DevinEvidence
                 PROVE  DevinIds' = DevinIds /\ DevinCurrent' = DevinCurrent
    BY <1>2
  <2>2. (\A s \in store : HashConversation(s) \in DevinEvidence)
        /\ (\A s \in store' : HashConversation(s) \in DevinEvidence')
    BY DEF DevinEvidence
  <2>3. (\A s \in store : \E t \in store' : HashConversation(s) = HashConversation(t))
        /\ (\A s \in store' : \E t \in store : HashConversation(s) = HashConversation(t))
    BY <2>1 DEF DevinEvidence
  <2>4. DevinIds' = DevinIds
    BY <2>3 DEF DevinIds
  <2>5. \A x : (\A s \in store' : x = HashConversation(s)) <=> (\A s \in store : x = HashConversation(s))
    BY <2>3
  <2>6. QED BY <1>1, <2>4, <2>5 DEF DevinCurrent
<1>4. /\ Sweeping(DevinItems)'
      /\ Steady(DevinIds', DevinCurrent', sweep', calm', settled')
  <2>1. Sweeping(DevinItems) /\ Steady(DevinIds, DevinCurrent, sweep, calm, settled)
    BY DEF DevinInv, DevinItems
  <2>2. settled' => Steady(DevinIds', DevinCurrent', sweep, calm, settled)
    BY <1>3, <2>1
  <2>3. QED BY <1>1, <1>2, <2>1, <2>2, Writing
<1>5. DevinRecords'
  BY <1>1 DEF DevinInv, DevinRecords
<1>6. QED BY <1>1, <1>4, <1>5 DEF DevinInv, DevinItems

LEMMA DevinWriteKeeps ==
  ASSUME DevinInv, DevinWrite
  PROVE  DevinInv'
<1>1. DevinWrote
  BY DEF DevinWrite, Say, MoveHead, EditNode, DropNode, Answer, Retitle, MoveDir,
         OpenSession, RemoveSession
<1>2. \A s, t \in store' : s = t
  <2>1. store' = {} \/ \E s : store' = {s}
    BY DEF DevinWrite, Say, MoveHead, EditNode, DropNode, Answer, Retitle, MoveDir,
           OpenSession, RemoveSession
  <2>2. QED BY <2>1
<1>3. QED BY <1>1, <1>2, DevinWrites

-----------------------------------------------------------------------------
(***************************************************************************)
(* pi.                                                                     *)
(***************************************************************************)
PiItems == [id : Ids, path : Paths, mtime : Int]

\* f at p comes before g at q, of two files of one session.
Ahead(f, p, g, q) == f.mtime > g.mtime \/ (f.mtime = g.mtime /\ p < q)

\* A line 1 names one session at most.
LEMMA SessionIs ==
  ASSUME NEW p, NEW a \in SessionAt(p), NEW b \in SessionAt(p)
  PROVE  a = b /\ p \in DOMAIN files
BY DEF SessionAt, HeaderIds

\* Of the files of a session one is the newest, at the smallest path.
LEMMA HolderIs ==
  ASSUME FilesInv, writes \in Nat, NEW id \in Held
  PROVE  /\ HolderOf(id) \in DOMAIN files /\ id \in SessionAt(HolderOf(id))
         /\ \A q \in DOMAIN files \ {HolderOf(id)} :
              id \in SessionAt(q) => Ahead(files[HolderOf(id)], HolderOf(id), files[q], q)
<1> DEFINE T == {p \in DOMAIN files : id \in SessionAt(p)}
           Ages == {writes - files[p].mtime : p \in T}
<1>1. T # {} /\ T \subseteq Nat
  BY PiAssumption DEF Held, FilesInv
<1>2. \A p \in T : files[p].mtime \in Int /\ writes - files[p].mtime \in Nat
  BY DEF FilesInv, File
<1>3. PICK a \in Ages : \A b \in Ages : a <= b
  <2>1. Ages # {} /\ Ages \subseteq Nat
    BY <1>1, <1>2
  <2> HIDE DEF Ages
  <2>2. QED BY <2>1, LeastOf
<1> DEFINE U == {p \in T : writes - files[p].mtime = a}
<1>4. U # {} /\ U \subseteq Nat
  BY <1>1, <1>3
<1>5. PICK p \in U : \A q \in U : p <= q
  <2> HIDE DEF U
  <2>1. QED BY <1>4, LeastOf
<1>6. ASSUME NEW q \in DOMAIN files \ {p}, id \in SessionAt(q)
      PROVE  Ahead(files[p], p, files[q], q)
  <2>1. q \in T /\ p \in T /\ p \in Nat /\ q \in Nat
    BY <1>1, <1>4, <1>5, <1>6
  <2>2. writes - files[p].mtime <= writes - files[q].mtime
    BY <1>3, <2>1
  <2>3. writes - files[q].mtime = writes - files[p].mtime => p <= q
    BY <1>3, <1>5, <2>1
  <2>4. files[p].mtime \in Int /\ files[q].mtime \in Int
    BY <1>2, <2>1
  <2>5. QED BY <1>6, <2>1, <2>2, <2>3, <2>4 DEF Ahead
<1> DEFINE Holds(h) ==
      /\ id \in SessionAt(h)
      /\ \A q \in DOMAIN files \ {h} :
           id \in SessionAt(q) =>
             \/ files[h].mtime > files[q].mtime
             \/ files[h].mtime = files[q].mtime /\ h < q
<1>7. p \in DOMAIN files /\ Holds(p)
  BY <1>5, <1>6 DEF Ahead
<1>8. HolderOf(id) = CHOOSE h \in DOMAIN files : Holds(h)
  BY DEF HolderOf
<1> HIDE DEF Holds
<1>9. HolderOf(id) \in DOMAIN files /\ Holds(HolderOf(id))
  BY <1>7, <1>8, Zenon
<1>10. QED BY <1>9 DEF Holds, Ahead

\* While neither a file nor a record changes.
LEMMA PiRests ==
  ASSUME PiInv, UNCHANGED <<files, journal>>
  PROVE  /\ PiRecords' /\ PiCurrent' = PiCurrent /\ Held' = Held
         /\ writes' = writes => FilesInv'
         /\ \A p : SessionAt(p)' = SessionAt(p)
         /\ \A id : HolderOf(id)' = HolderOf(id)
<1>1. \A p : SessionAt(p)' = SessionAt(p)
  BY DEF SessionAt
<1>2. \A id : HolderOf(id)' = HolderOf(id)
  BY DEF HolderOf, SessionAt
<1>3. Held' = Held
  BY <1>1 DEF Held
<1>4. PiCurrent' = PiCurrent
  BY <1>2, <1>3 DEF PiCurrent
<1>5. PiRecords' /\ (writes' = writes => FilesInv')
  BY DEF PiInv, PiRecords, FilesInv
<1>6. QED BY <1>1, <1>2, <1>3, <1>4, <1>5

LEMMA PiItem ==
  ASSUME PiInv, sweep.pc \in Work
  PROVE  /\ Item \in PiItems
         /\ settled \/ calm => /\ Item.id \in Held
                               /\ Item.path = HolderOf(Item.id)
                               /\ ~Gone
                               /\ Item.id \in SessionAt(Item.path)
         /\ settled => sweep.pc = "verdict" /\ Item.id \in PiCurrent
<1>1. Item \in PiItems /\ Item.id \in Due(sweep)
  <2>1. Sweeping(PiItems)
    BY DEF PiInv, PiItems
  <2>2. QED BY <2>1, ItemIs
<1>2. settled => sweep.pc = "verdict" /\ Item.id \in PiCurrent
  BY <1>1 DEF PiInv, Steady, Work
<1>3. ASSUME settled \/ calm
      PROVE  /\ Item.id \in Held /\ Item.path = HolderOf(Item.id) /\ ~Gone
             /\ Item.id \in SessionAt(Item.path)
  <2>1. Item.id \in Held
    BY <1>1, <1>3 DEF PiInv, Steady
  <2>2. Item = sweep.found[1] /\ 1 \in DOMAIN sweep.found
    BY DEF PiInv, Sweeping, Item
  <2>3. Item.path = HolderOf(Item.id)
    BY <1>3, <2>2 DEF PiInv, ChosenInv
  <2>4. HolderOf(Item.id) \in DOMAIN files /\ Item.id \in SessionAt(HolderOf(Item.id))
    BY <2>1, HolderIs DEF PiInv, Sweeping
  <2>5. QED BY <2>1, <2>3, <2>4 DEF Gone
<1>4. QED BY <1>1, <1>2, <1>3

\* The items behind the one in hand are chosen as it was.
LEMMA PiChosenRest ==
  ASSUME PiInv, sweep.pc \in Work, UNCHANGED files,
         sweep'.found = Tail(sweep.found), settled' \/ calm' => settled \/ calm
  PROVE  ChosenInv'
<1>1. sweep.found \in Seq(PiItems) /\ sweep.found # <<>>
  BY DEF PiInv, Sweeping, PiItems
<1>2. \A i \in DOMAIN Tail(sweep.found) :
        i + 1 \in DOMAIN sweep.found /\ Tail(sweep.found)[i] = sweep.found[i + 1]
  BY <1>1
<1>3. \A id : HolderOf(id)' = HolderOf(id)
  BY DEF HolderOf, SessionAt
<1>4. QED BY <1>2, <1>3 DEF PiInv, ChosenInv

\* The item is left as it is.
LEMMA PiLeaves ==
  ASSUME PiInv, sweep.pc \in Work, Leave, UNCHANGED files,
         settled \/ calm => Item.id \in PiCurrent
  PROVE  PiInv'
<1>1. /\ PiRecords' /\ PiCurrent' = PiCurrent /\ Held' = Held /\ FilesInv'
      /\ \A id : HolderOf(id)' = HolderOf(id)
  BY PiRests DEF Leave
<1>2. /\ Sweeping(PiItems)'
      /\ sweep'.pc \in {"idle", "verdict"} /\ sweep'.stamp = 0
      /\ sweep'.found = Tail(sweep.found)
      /\ Steady(Held, PiCurrent, sweep', calm', settled')
  <2>1. Sweeping(PiItems) /\ Steady(Held, PiCurrent, sweep, calm, settled)
    BY DEF PiInv, PiItems
  <2>2. Visit(Tail(sweep.found)) /\ Ended /\ UNCHANGED <<writes, calm>>
    BY DEF Leave
  <2>3. QED BY <2>1, <2>2, Passing
<1>3. sweep'.pc \in Work => ChosenInv'
  <2>1. settled' \/ calm' => settled \/ calm
    BY DEF Leave, Ended
  <2>2. QED BY <1>2, <2>1, PiChosenRest
<1>4. QED BY <1>1, <1>2, <1>3 DEF PiInv, PiItems

\* The sweep goes on with the item.
LEMMA PiGoes ==
  ASSUME PiInv, sweep.pc \in Work, ~settled,
         DOMAIN sweep' = DOMAIN sweep, sweep'.found = sweep.found, sweep'.stamp = sweep.stamp,
         sweep'.pc \in {"correlate", "capture", "commit"},
         UNCHANGED <<files, journal, writes, calm, settled>>,
         sweep'.pc = "commit" /\ calm => \A c \in sweep'.staged : c = Content(files[Item.path])
  PROVE  PiInv'
<1>1. /\ PiRecords' /\ PiCurrent' = PiCurrent /\ Held' = Held /\ FilesInv'
      /\ \A id : HolderOf(id)' = HolderOf(id)
  BY PiRests
<1>2. /\ Sweeping(PiItems)' /\ Item' = Item
      /\ Steady(Held, PiCurrent, sweep', calm', settled')
  <2>1. Sweeping(PiItems) /\ Steady(Held, PiCurrent, sweep, calm, settled)
    BY DEF PiInv, PiItems
  <2>2. sweep'.pc \in Staging /\ UNCHANGED <<writes, calm, settled>>
    BY DEF Staging
  <2>3. QED BY <2>1, <2>2, Moving
<1>3. ChosenInv'
  BY <1>1 DEF PiInv, ChosenInv
<1>4. QED BY <1>1, <1>2, <1>3 DEF PiInv, PiItems

LEMMA PiVerdictKeeps ==
  ASSUME PiInv, PiVerdict
  PROVE  PiInv'
<1> DEFINE same == /\ Captured
                   /\ ~Gone
                   /\ FingerprintFile(Content(files[Item.path])) = journal[Item.id].facts.print
<1>1. /\ sweep.pc = "verdict" /\ UNCHANGED files
      /\ IF Captured /\ (same \/ Gone)
         THEN Leave
         ELSE To("correlate") /\ UNCHANGED <<journal, writes, calm, settled>>
  BY DEF PiVerdict, Verdict
<1>2. sweep.pc \in Work
  BY <1>1 DEF Work
<1>3. settled \/ calm => ~Gone
  BY <1>2, PiItem
<1>4. ASSUME settled \/ calm PROVE same <=> Item.id \in PiCurrent
  <2>1. Item.id \in Held /\ Item.path = HolderOf(Item.id)
    BY <1>2, <1>4, PiItem
  <2>2. Captured => journal[Item.id].facts.print = FingerprintFile(journal[Item.id].copy)
    BY DEF PiInv, PiRecords, Captured
  <2>3. Captured => (same <=> journal[Item.id].copy = Content(files[Item.path]))
    BY <1>3, <1>4, <2>2 DEF FingerprintFile
  <2>4. QED BY <2>1, <2>3 DEF PiCurrent, Captured
<1>5. CASE Captured /\ (same \/ Gone)
  <2>1. settled \/ calm => Item.id \in PiCurrent
    BY <1>3, <1>4, <1>5
  <2>2. Leave /\ UNCHANGED files
    BY <1>1, <1>5
  <2>3. QED BY <1>2, <2>1, <2>2, PiLeaves
<1>6. CASE ~(Captured /\ (same \/ Gone))
  <2>1. To("correlate") /\ UNCHANGED <<journal, writes, calm, settled>>
    BY <1>1, <1>6
  <2>2. ~settled
    <3>1. SUFFICES ASSUME settled PROVE FALSE
      OBVIOUS
    <3>2. Item.id \in PiCurrent
      BY <1>2, <3>1, PiItem
    <3>3. QED BY <1>4, <1>6, <3>1, <3>2
  <2> HIDE DEF same
  <2>3. QED BY <1>1, <1>2, <2>1, <2>2, PiGoes DEF To, PiInv, Sweeping
<1>7. QED BY <1>5, <1>6

LEMMA PiCorrelateKeeps ==
  ASSUME PiInv, PiCorrelate
  PROVE  PiInv'
<1>1. /\ sweep.pc = "correlate" /\ UNCHANGED files
      /\ IF Gone THEN Leave
         ELSE To("capture") /\ UNCHANGED <<journal, writes, calm, settled>>
  BY DEF PiCorrelate, Correlate
<1>2. sweep.pc \in Work
  BY <1>1 DEF Work, Staging
<1>3. ~settled /\ (calm => ~Gone)
  BY <1>1, <1>2, PiItem
<1>4. CASE Gone
  BY <1>1, <1>2, <1>3, <1>4, PiLeaves
<1>5. CASE ~Gone
  BY <1>1, <1>2, <1>3, <1>5, PiGoes DEF To, PiInv, Sweeping
<1>6. QED BY <1>4, <1>5

LEMMA PiCopyKeeps ==
  ASSUME PiInv, PiCopy
  PROVE  PiInv'
<1> DEFINE copy == Content(files[Item.path])
<1>1. /\ sweep.pc = "capture" /\ UNCHANGED files
      /\ IF ~Gone /\ Item.id \in SessionAt(Item.path)
         THEN /\ sweep' = [sweep EXCEPT !.pc = "commit", !.staged = {copy}]
              /\ UNCHANGED <<journal, writes, calm, settled>>
         ELSE Leave
  BY DEF PiCopy
<1>2. sweep.pc \in Work
  BY <1>1 DEF Work, Staging
<1>3. ~settled /\ (calm => ~Gone /\ Item.id \in SessionAt(Item.path))
  BY <1>1, <1>2, PiItem
<1>4. CASE ~(~Gone /\ Item.id \in SessionAt(Item.path))
  BY <1>1, <1>2, <1>3, <1>4, PiLeaves
<1>5. CASE ~Gone /\ Item.id \in SessionAt(Item.path)
  <2>1. \A c \in {copy} : c = Content(files[Item.path])
    OBVIOUS
  <2> HIDE DEF copy
  <2>2. /\ DOMAIN sweep' = DOMAIN sweep /\ sweep'.found = sweep.found
        /\ sweep'.stamp = sweep.stamp
        /\ sweep'.pc = "commit" /\ sweep'.staged = {copy}
    BY <1>1, <1>5 DEF PiInv, Sweeping
  <2>3. QED BY <1>1, <1>2, <1>3, <1>5, <2>1, <2>2, PiGoes
<1>6. QED BY <1>4, <1>5

LEMMA PiScanPrint ==
  ASSUME NEW c
  PROVE  Scan(c).print = FingerprintFile(c)
BY DEF Scan, ScanLines, FingerprintFile

LEMMA PiCommitKeeps ==
  ASSUME PiInv, PiCommit
  PROVE  PiInv'
<1>1. sweep.pc = "commit" /\ UNCHANGED files
  BY DEF PiCommit
<1>2. PICK c \in sweep.staged : Commit(c, Scan(c))
  BY DEF PiCommit
<1>3. sweep.pc \in Work
  BY <1>1 DEF Work, Staging
<1>4. ~settled /\ (calm => Item.id \in Held /\ Item.path = HolderOf(Item.id))
  BY <1>1, <1>3, PiItem
<1>5. calm => c = Content(files[Item.path])
  BY <1>1 DEF PiInv
<1> DEFINE record == [copy |-> c, facts |-> Scan(c)]
<1>6. record.copy = c /\ record.facts.print = FingerprintFile(c)
  BY PiScanPrint
<1>7. journal' = [id \in DOMAIN journal \union {Item.id} |->
                    IF id = Item.id THEN record ELSE journal[id]]
  BY <1>2 DEF Commit
<1>8. Visit(Tail(sweep.found)) /\ Ended /\ UNCHANGED <<writes, calm>>
  BY <1>2 DEF Commit
<1> HIDE DEF record
<1>9. PiRecords'
  BY <1>6, <1>7 DEF PiInv, PiRecords
<1>10. Held' = Held /\ FilesInv' /\ \A id : HolderOf(id)' = HolderOf(id)
  <2>1. \A p : SessionAt(p)' = SessionAt(p)
    BY <1>1 DEF SessionAt
  <2>2. \A id : HolderOf(id)' = HolderOf(id)
    BY <1>1 DEF HolderOf, SessionAt
  <2>3. QED BY <1>1, <1>8, <2>1, <2>2 DEF Held, PiInv, FilesInv
<1>11. PiCurrent \ {Item.id} \subseteq PiCurrent' /\ (calm => Item.id \in PiCurrent')
  BY <1>1, <1>4, <1>5, <1>6, <1>7, <1>10 DEF PiCurrent
<1>12. settled \/ calm => /\ Steady(Held, PiCurrent', sweep, calm, settled)
                          /\ Item.id \in PiCurrent'
  <2>1. SUFFICES ASSUME calm
                 PROVE  Steady(Held, PiCurrent', sweep, calm, settled)
    BY <1>4, <1>11
  <2>2. PiCurrent \subseteq PiCurrent'
    BY <1>11, <2>1
  <2>3. Steady(Held, PiCurrent, sweep, calm, settled)
    BY DEF PiInv
  <2>4. QED BY <1>4, <2>2, <2>3 DEF Steady
<1>13. /\ Sweeping(PiItems)'
       /\ sweep'.pc \in {"idle", "verdict"} /\ sweep'.stamp = 0
       /\ sweep'.found = Tail(sweep.found)
       /\ Steady(Held, PiCurrent', sweep', calm', settled')
  <2>1. Sweeping(PiItems)
    BY DEF PiInv, PiItems
  <2>2. QED BY <1>3, <1>8, <1>12, <2>1, Passing
<1>14. ChosenInv'
  <2>1. settled' \/ calm' => settled \/ calm
    BY <1>8 DEF Ended
  <2>2. QED BY <1>1, <1>3, <1>13, <2>1, PiChosenRest
<1>15. QED BY <1>9, <1>10, <1>13, <1>14 DEF PiInv, PiItems

\* The walk: pi/discover.go.
LEMMA PiStartKeeps ==
  ASSUME PiInv, PiStart
  PROVE  PiInv'
<1>1. /\ sweep.pc = "idle" /\ UNCHANGED <<files, journal, writes, settled>>
      /\ calm' = (DOMAIN files # {})
      /\ sweep' = IF DOMAIN files = {} THEN Idle ELSE [Idle EXCEPT !.pc = "stat", !.left = DOMAIN files]
  BY DEF PiStart
<1>2. /\ DOMAIN sweep' = {"pc", "left", "stamp", "found", "staged"}
      /\ sweep'.found = <<>> /\ sweep'.stamp = 0
      /\ sweep'.pc = IF DOMAIN files = {} THEN "idle" ELSE "stat"
      /\ sweep'.left = DOMAIN files
  BY <1>1 DEF Idle
<1>3. /\ PiRecords' /\ PiCurrent' = PiCurrent /\ Held' = Held /\ FilesInv'
      /\ \A id : HolderOf(id)' = HolderOf(id)
  BY <1>1, PiRests
<1>4. Sweeping(PiItems)'
  <2>1. calm' \in BOOLEAN /\ settled' \in BOOLEAN /\ writes' \in Nat
    BY <1>1 DEF PiInv, Sweeping
  <2>2. sweep'.pc \notin Work /\ <<>> \in Seq(PiItems)
    BY <1>2 DEF Work, Staging
  <2>3. QED BY <1>2, <2>1, <2>2, Zenon DEF Sweeping
<1>5. sweep'.pc = "stat" => WalkInv'
  <2>1. \A id \in Held : HolderOf(id) \in DOMAIN files
    BY HolderIs DEF PiInv, Sweeping
  <2>2. QED BY <1>1, <1>2, <1>3, <2>1 DEF WalkInv, PiInv, FilesInv
<1>6. Steady(Held, PiCurrent, sweep', calm', settled')
  BY <1>1, <1>2 DEF PiInv, Steady, Staging, Work
<1>7. QED BY <1>1, <1>2, <1>3, <1>4, <1>5, <1>6 DEF PiInv, PiItems, Work, Staging

LEMMA StatKeeps ==
  ASSUME PiInv, Stat
  PROVE  PiInv'
<1>1. /\ sweep.pc = "stat" /\ Here \in DOMAIN files
      /\ sweep' = [sweep EXCEPT !.pc = "header", !.stamp = files[Here].mtime]
      /\ UNCHANGED <<files, journal, writes, calm, settled>>
  BY DEF Stat
<1>2. /\ DOMAIN sweep' = DOMAIN sweep /\ sweep'.pc = "header"
      /\ sweep'.stamp = files[Here].mtime /\ sweep'.found = sweep.found /\ sweep'.left = sweep.left
  BY <1>1 DEF PiInv, Sweeping
<1>3. /\ PiRecords' /\ PiCurrent' = PiCurrent /\ Held' = Held /\ FilesInv'
      /\ \A p : SessionAt(p)' = SessionAt(p)
      /\ \A id : HolderOf(id)' = HolderOf(id)
  BY <1>1, PiRests
<1>4. Sweeping(PiItems)'
  BY <1>1, <1>2 DEF PiInv, Sweeping, Work, Staging, PiItems
<1>5. files[Here].mtime \in Int /\ Here' = Here
  BY <1>1, <1>2 DEF PiInv, FilesInv, File, Here
<1>6. WalkInv'
  BY <1>1, <1>2, <1>3, <1>5 DEF WalkInv, PiInv
<1>7. Steady(Held, PiCurrent, sweep', calm', settled')
  BY <1>1, <1>2 DEF PiInv, Steady, Staging, Work
<1>8. QED BY <1>1, <1>2, <1>3, <1>4, <1>5, <1>6, <1>7 DEF PiInv, PiItems, Work, Staging

\* Candidates a walk may stand behind: as they are in the files, and with the
\* newest file of every session that is not in `left`.
Candidates(cands, left) ==
  /\ \A i \in DOMAIN cands :
       LET c == cands[i]
       IN c.path \in DOMAIN files /\ c.id \in SessionAt(c.path) /\ c.mtime = files[c.path].mtime
  /\ \A id \in Held :
       HolderOf(id) \in left \/ \E i \in DOMAIN cands : cands[i].path = HolderOf(id)

\* What duplicates are resolved to: each session, at its newest file.
LEMMA Resolved ==
  ASSUME FilesInv, writes \in Nat, NEW cands \in Seq(PiItems)
  PROVE  /\ ResolveDuplicates(cands) \in Seq(PiItems)
         /\ Candidates(cands, {}) =>
              /\ IdsOf(ResolveDuplicates(cands)) = Held
              /\ \A i \in DOMAIN ResolveDuplicates(cands) :
                   ResolveDuplicates(cands)[i].path = HolderOf(ResolveDuplicates(cands)[i].id)
<1> DEFINE Beaten == {c \in ToSet(cands) : \E i \in DOMAIN cands : Duplicate(cands[i], c)}
           chosen == ResolveDuplicates(cands)
<1>1. chosen \in Seq(PiItems) /\ ToSet(chosen) = ToSet(cands) \ Beaten
  <2>1. chosen = Without(cands, Beaten)
    BY DEF ResolveDuplicates
  <2> HIDE DEF chosen, Beaten
  <2>2. QED BY <2>1, WithoutElements
<1> HIDE DEF chosen
<1>2. ASSUME Candidates(cands, {})
      PROVE  IdsOf(chosen) = Held /\ \A i \in DOMAIN chosen : chosen[i].path = HolderOf(chosen[i].id)
  <2>1. ASSUME NEW i \in DOMAIN chosen
        PROVE  chosen[i].path = HolderOf(chosen[i].id) /\ chosen[i].id \in Held
    <3> DEFINE c == chosen[i]
               h == HolderOf(c.id)
    <3>1. c \in ToSet(cands) /\ c \notin Beaten
      BY <1>1 DEF ToSet
    <3>2. PICK j \in DOMAIN cands : c = cands[j]
      BY <3>1 DEF ToSet
    <3>3. c.path \in DOMAIN files /\ c.id \in SessionAt(c.path) /\ c.mtime = files[c.path].mtime
      BY <1>2, <3>2 DEF Candidates
    <3>4. c.id \in Held
      BY <3>3 DEF Held
    <3>5. /\ h \in DOMAIN files /\ c.id \in SessionAt(h)
          /\ c.path # h => Ahead(files[h], h, files[c.path], c.path)
      BY <3>3, <3>4, HolderIs
    <3>6. PICK k \in DOMAIN cands : cands[k].path = h
      BY <1>2, <3>4 DEF Candidates
    <3>7. cands[k].id \in SessionAt(h) /\ cands[k].mtime = files[h].mtime
      BY <1>2, <3>6 DEF Candidates
    <3>8. cands[k].id = c.id
      BY <3>5, <3>7, SessionIs
    <3>9. ~Duplicate(cands[k], c)
      BY <3>1
    <3> HIDE DEF c, h, Beaten
    <3>10. c.path = h
      BY <3>3, <3>5, <3>6, <3>7, <3>8, <3>9 DEF Duplicate, Beats, Ahead
    <3>11. QED BY <3>4, <3>10 DEF c, h
  <2>2. ASSUME NEW id \in Held
        PROVE  \E i \in DOMAIN chosen : chosen[i].id = id
    <3> DEFINE h == HolderOf(id)
    <3>1. /\ h \in DOMAIN files /\ id \in SessionAt(h)
          /\ \A q \in DOMAIN files \ {h} : id \in SessionAt(q) => Ahead(files[h], h, files[q], q)
      BY HolderIs
    <3>2. PICK k \in DOMAIN cands : cands[k].path = h
      BY <1>2 DEF Candidates
    <3>3. cands[k].id \in SessionAt(h) /\ cands[k].mtime = files[h].mtime
      BY <1>2, <3>2 DEF Candidates
    <3>4. cands[k].id = id
      BY <3>1, <3>3, SessionIs
    <3>5. ASSUME NEW j \in DOMAIN cands, Duplicate(cands[j], cands[k]) PROVE FALSE
      <4> DEFINE q == cands[j].path
      <4>1. /\ q \in DOMAIN files /\ id \in SessionAt(q) /\ cands[j].mtime = files[q].mtime
        BY <1>2, <3>4, <3>5 DEF Candidates, Duplicate
      <4>2. Beats(cands[j], cands[k])
        BY <3>5 DEF Duplicate
      <4>3. files[q].mtime \in Int /\ files[h].mtime \in Int /\ q \in Nat /\ h \in Nat
        BY <3>1, <4>1, PiAssumption DEF FilesInv, File
      <4>4. Ahead(files[q], q, files[h], h)
        BY <3>2, <3>3, <4>1, <4>2 DEF Beats, Ahead
      <4> HIDE DEF q, h
      <4>5. q # h
        BY <4>3, <4>4 DEF Ahead
      <4>6. Ahead(files[h], h, files[q], q)
        BY <3>1, <4>1, <4>5
      <4>7. QED BY <4>3, <4>4, <4>6 DEF Ahead
    <3>6. cands[k] \in ToSet(chosen)
      BY <1>1, <3>5 DEF ToSet
    <3>7. QED BY <3>4, <3>6 DEF ToSet
  <2>3. IdsOf(chosen) = Held
    BY <2>1, <2>2, IdsAre
  <2>4. QED BY <2>1, <2>3
<1>3. QED BY <1>1, <1>2 DEF chosen

\* The walk goes past a file with these candidates behind it.
LEMMA WalkedKeeps ==
  ASSUME PiInv, sweep.pc \in {"stat", "header"}, UNCHANGED files,
         NEW cands \in Seq(PiItems), Walked(cands),
         settled \/ calm => Candidates(cands, sweep.left \ {Here})
  PROVE  PiInv'
<1>1. CASE sweep.left # {Here}
  <2>1. /\ sweep' = [sweep EXCEPT !.pc = "stat", !.left = @ \ {Here}, !.stamp = 0, !.found = cands]
        /\ UNCHANGED <<journal, writes, calm, settled>>
    BY <1>1 DEF Walked
  <2>2. /\ DOMAIN sweep' = DOMAIN sweep /\ sweep'.pc = "stat"
        /\ sweep'.stamp = 0 /\ sweep'.found = cands /\ sweep'.left = sweep.left \ {Here}
    BY <2>1 DEF PiInv, Sweeping
  <2>3. /\ PiRecords' /\ PiCurrent' = PiCurrent /\ Held' = Held /\ FilesInv'
        /\ \A p : SessionAt(p)' = SessionAt(p)
        /\ \A id : HolderOf(id)' = HolderOf(id)
    BY <2>1, PiRests
  <2>4. Sweeping(PiItems)'
    BY <2>1, <2>2 DEF PiInv, Sweeping, Work, Staging, PiItems
  <2>5. WalkInv'
    <3>1. sweep.left # {} /\ sweep.left \subseteq Paths
      BY DEF PiInv, WalkInv
    <3>2. QED BY <1>1, <2>1, <2>2, <2>3, <3>1 DEF WalkInv, Candidates
  <2>6. Steady(Held, PiCurrent, sweep', calm', settled')
    BY <2>1, <2>2 DEF PiInv, Steady, Staging, Work
  <2>7. QED BY <2>1, <2>2, <2>3, <2>4, <2>5, <2>6 DEF PiInv, PiItems, Work, Staging
<1>2. CASE sweep.left = {Here}
  <2> DEFINE chosen == ResolveDuplicates(cands)
  <2>1. Visit(chosen) /\ Ended /\ UNCHANGED <<journal, writes, calm>>
    BY <1>2 DEF Walked
  <2>2. /\ chosen \in Seq(PiItems)
        /\ settled \/ calm => /\ IdsOf(chosen) = Held
                             /\ \A i \in DOMAIN chosen : chosen[i].path = HolderOf(chosen[i].id)
    <3>1. settled \/ calm => Candidates(cands, {})
      BY <1>2
    <3>2. QED BY <3>1, Resolved DEF PiInv, Sweeping
  <2> HIDE DEF chosen
  <2>3. /\ DOMAIN sweep' = {"pc", "left", "stamp", "found", "staged"}
        /\ sweep'.found = chosen /\ sweep'.stamp = 0
        /\ sweep'.pc = IF chosen = <<>> THEN "idle" ELSE "verdict"
    BY <2>1, <2>2, Visiting
  <2>4. /\ PiRecords' /\ PiCurrent' = PiCurrent /\ Held' = Held /\ FilesInv'
        /\ \A id : HolderOf(id)' = HolderOf(id)
    BY <2>1, PiRests
  <2>5. settled' = (settled \/ (sweep'.pc = "idle" /\ calm)) /\ calm' = calm /\ writes' = writes
    BY <2>1 DEF Ended
  <2>6. Sweeping(PiItems)'
    <3>1. settled' \in BOOLEAN /\ calm' \in BOOLEAN /\ writes' \in Nat
      BY <2>5 DEF PiInv, Sweeping
    <3>2. sweep'.pc \in Work => chosen # <<>>
      BY <2>3 DEF Work, Staging
    <3>3. QED BY <2>2, <2>3, <3>1, <3>2, Zenon DEF Sweeping
  <2>7. ChosenInv'
    BY <2>2, <2>3, <2>4, <2>5 DEF ChosenInv
  <2>8. Steady(Held, PiCurrent, sweep', calm', settled')
    <3>1. CASE ~(settled \/ calm)
      <4>1. settled = FALSE /\ calm = FALSE
        BY <3>1 DEF PiInv, Sweeping
      <4>2. settled' = FALSE /\ calm' = FALSE
        BY <2>5, <4>1, Zenon
      <4>3. QED BY <4>2, Zenon DEF Steady
    <3>2. CASE settled \/ calm
      <4>1. Due(sweep') = Held /\ (sweep'.pc = "idle" => Held = {})
        BY <2>2, <2>3, <3>2 DEF Due, IdsOf
      <4>2. settled => Held \subseteq PiCurrent
        BY DEF PiInv, Steady
      <4>3. settled' => Held \subseteq PiCurrent
        BY <2>5, <4>1, <4>2
      <4>4. sweep'.pc \notin Staging
        BY <2>3 DEF Staging
      <4>5. QED BY <4>1, <4>3, <4>4 DEF Steady
    <3>3. QED BY <3>1, <3>2
  <2>9. QED BY <2>1, <2>3, <2>4, <2>6, <2>7, <2>8 DEF PiInv, PiItems
<1>3. QED BY <1>1, <1>2

\* A header is a line, and its id one of those there are.
LEMMA SessionTyped ==
  ASSUME FilesInv, NEW p, NEW id \in SessionAt(p)
  PROVE  p \in DOMAIN files /\ id \in Ids
<1> DEFINE c == Content(files[p])
<1>1. p \in DOMAIN files /\ id \in HeaderIds(c)
  BY DEF SessionAt
<1>2. files[p].lines \in Seq(Line)
  BY <1>1 DEF FilesInv, File
<1>3. c.lines \in Seq(Line)
  BY <1>2 DEF Content
<1> HIDE DEF c
<1>4. Whole(c) \in Seq(Line)
  BY <1>3 DEF Whole, Front
<1>5. Whole(c) # <<>> /\ id = Head(Whole(c)).id
  BY <1>1 DEF HeaderIds
<1>6. Head(Whole(c)) \in Line
  BY <1>4, <1>5
<1>7. QED BY <1>1, <1>5, <1>6 DEF Line

\* The file the walk is at is the first of those to come.
LEMMA HereIs ==
  ASSUME PiInv, sweep.pc \in {"stat", "header"}
  PROVE  Here \in sweep.left /\ Here \in Paths
<1>1. sweep.left # {} /\ sweep.left \subseteq Paths
  BY DEF PiInv, WalkInv
<1>2. sweep.left \subseteq Nat
  BY <1>1, PiAssumption
<1>3. QED BY <1>1, <1>2, LeastOf DEF Here

LEMMA NoCandidateKeeps ==
  ASSUME PiInv, NoCandidate
  PROVE  PiInv'
<1>1. /\ sweep.pc \in {"stat", "header"} /\ UNCHANGED files
      /\ \/ sweep.pc = "stat" /\ Here \notin DOMAIN files
         \/ sweep.pc = "header" /\ SessionAt(Here) = {}
      /\ Walked(sweep.found)
  BY DEF NoCandidate
<1>2. sweep.found \in Seq(PiItems) /\ WalkInv
  BY <1>1 DEF PiInv, Sweeping, PiItems
<1>3. \A id \in Held : HolderOf(id) # Here
  <2>1. \A id \in Held : HolderOf(id) \in DOMAIN files /\ id \in SessionAt(HolderOf(id))
    BY HolderIs DEF PiInv, Sweeping
  <2>2. QED BY <1>1, <2>1
<1>4. settled \/ calm => Candidates(sweep.found, sweep.left \ {Here})
  BY <1>2, <1>3 DEF WalkInv, Candidates
<1>5. QED BY <1>1, <1>2, <1>4, WalkedKeeps

LEMMA CandidateKeeps ==
  ASSUME PiInv, Candidate
  PROVE  PiInv'
<1>1. sweep.pc = "header" /\ UNCHANGED files
  BY DEF Candidate
<1>2. PICK id \in SessionAt(Here) :
        Walked(Append(sweep.found, [id |-> id, path |-> Here, mtime |-> sweep.stamp]))
  BY DEF Candidate
<1> DEFINE c == [id |-> id, path |-> Here, mtime |-> sweep.stamp]
           found == sweep.found
           cands == Append(found, c)
<1>3. found \in Seq(PiItems) /\ WalkInv /\ FilesInv /\ sweep.stamp \in Int
  BY <1>1 DEF PiInv, Sweeping, PiItems
<1>4. Here \in DOMAIN files /\ id \in Ids /\ Here \in Paths
  BY <1>1, <1>3, SessionTyped, HereIs
<1>5. c \in PiItems /\ c.id = id /\ c.path = Here /\ c.mtime = sweep.stamp
  BY <1>3, <1>4 DEF PiItems
<1> HIDE DEF c, found
<1>6. /\ cands \in Seq(PiItems)
      /\ DOMAIN cands = DOMAIN found \union {Len(found) + 1}
      /\ \A i \in DOMAIN found : cands[i] = found[i]
      /\ cands[Len(found) + 1] = c
  BY <1>3, <1>5
<1> HIDE DEF cands
<1>7. ASSUME settled \/ calm
      PROVE  Candidates(cands, sweep.left \ {Here})
  <2>1. /\ \A i \in DOMAIN found :
             /\ found[i].path \in DOMAIN files /\ found[i].id \in SessionAt(found[i].path)
             /\ found[i].mtime = files[found[i].path].mtime
        /\ \A k \in Held :
             HolderOf(k) \in sweep.left \/ \E i \in DOMAIN found : found[i].path = HolderOf(k)
        /\ sweep.stamp = files[Here].mtime
    BY <1>1, <1>3, <1>7 DEF WalkInv, found
  <2>2. \A i \in DOMAIN cands :
           /\ cands[i].path \in DOMAIN files /\ cands[i].id \in SessionAt(cands[i].path)
           /\ cands[i].mtime = files[cands[i].path].mtime
    BY <1>4, <1>5, <1>6, <2>1
  <2>3. ASSUME NEW k \in Held
        PROVE  HolderOf(k) \in sweep.left \ {Here} \/ \E i \in DOMAIN cands : cands[i].path = HolderOf(k)
    BY <1>5, <1>6, <2>1
  <2>4. QED BY <2>2, <2>3 DEF Candidates
<1>8. Walked(cands)
  BY <1>2 DEF cands, c, found
<1>9. QED BY <1>1, <1>6, <1>7, <1>8, WalkedKeeps

\* Whatever pi writes: if the store stays settled, its evidence is what it was,
\* and no file was moved under a sweep.
LEMMA PiWrites ==
  ASSUME PiInv, PiWrote, FilesInv'
  PROVE  PiInv'
<1> DEFINE kept == PiEvidence' = PiEvidence /\ (sweep.pc # "idle" => Stands)
<1>1. /\ writes' = writes + 1 /\ calm' = FALSE
      /\ settled' = (settled /\ kept)
      /\ journal' = journal /\ sweep' = sweep
  BY DEF PiWrote, Wrote
<1>2. settled' \in BOOLEAN /\ (settled' => settled /\ kept)
  BY <1>1
<1>3. DOMAIN PiEvidence = Held /\ (DOMAIN PiEvidence)' = Held'
  BY DEF PiEvidence, Held
<1>4. settled' => Held' = Held /\ PiCurrent' = PiCurrent
  <2>1. SUFFICES ASSUME PiEvidence' = PiEvidence
                 PROVE  Held' = Held /\ PiCurrent' = PiCurrent
    BY <1>2
  <2>2. Held' = Held
    BY <1>3, <2>1
  <2>3. /\ \A id \in Held : PiEvidence[id] = Content(files[HolderOf(id)])
        /\ \A id \in Held' : PiEvidence'[id] = Content(files'[HolderOf(id)'])
    BY DEF PiEvidence, Held
  <2>4. \A id \in Held : Content(files'[HolderOf(id)']) = Content(files[HolderOf(id)])
    BY <2>1, <2>2, <2>3
  <2>5. QED BY <1>1, <2>2, <2>4 DEF PiCurrent
<1>5. settled' /\ sweep.pc # "idle" =>
        /\ settled
        /\ \A p \in DOMAIN files : p \in DOMAIN files' /\ files'[p] = files[p] /\ SessionAt(p)' = SessionAt(p)
        /\ \A id \in Held : HolderOf(id)' = HolderOf(id)
  <2>1. SUFFICES ASSUME settled, Stands
                 PROVE  /\ \A p \in DOMAIN files :
                             p \in DOMAIN files' /\ files'[p] = files[p] /\ SessionAt(p)' = SessionAt(p)
                        /\ \A id \in Held : HolderOf(id)' = HolderOf(id)
    BY <1>2
  <2>2. \A p \in DOMAIN files : p \in DOMAIN files' /\ files'[p] = files[p]
    BY <2>1 DEF Stands
  <2>3. \A p \in DOMAIN files : SessionAt(p)' = SessionAt(p)
    BY <2>2 DEF SessionAt
  <2>4. \A id \in Held : HolderOf(id)' = HolderOf(id)
    BY <1>3, <2>1 DEF Stands
  <2>5. QED BY <2>2, <2>3, <2>4
<1> HIDE DEF kept
<1>6. /\ Sweeping(PiItems)' /\ Item' = Item
      /\ Steady(Held', PiCurrent', sweep', calm', settled')
  <2>1. Sweeping(PiItems) /\ Steady(Held, PiCurrent, sweep, calm, settled)
    BY DEF PiInv, PiItems
  <2>2. settled' => Steady(Held', PiCurrent', sweep, calm, settled)
    BY <1>4, <2>1
  <2>3. settled' => settled
    BY <1>2
  <2>4. QED BY <1>1, <1>2, <2>1, <2>2, <2>3, Writing
<1>7. PiRecords'
  BY <1>1 DEF PiInv, PiRecords
<1>8. sweep'.pc \in {"stat", "header"} => WalkInv'
  <2>1. SUFFICES ASSUME sweep.pc \in {"stat", "header"} PROVE WalkInv'
    BY <1>1
  <2>2. WalkInv /\ sweep'.pc = sweep.pc /\ sweep'.left = sweep.left /\ Here' = Here
        /\ sweep'.found = sweep.found /\ sweep'.stamp = sweep.stamp
    BY <1>1, <2>1 DEF PiInv, Here
  <2>3. CASE ~settled'
    BY <1>1, <2>2, <2>3 DEF WalkInv
  <2>4. CASE settled'
    <3>1. /\ \A p \in DOMAIN files :
               p \in DOMAIN files' /\ files'[p] = files[p] /\ SessionAt(p)' = SessionAt(p)
          /\ \A id \in Held : HolderOf(id)' = HolderOf(id)
          /\ settled /\ Held' = Held
      BY <1>4, <1>5, <2>1, <2>4
    <3>2. QED BY <1>1, <2>2, <3>1 DEF WalkInv
  <2>5. QED BY <2>3, <2>4
<1>9. sweep'.pc \in Work => ChosenInv'
  <2>1. SUFFICES ASSUME sweep.pc \in Work, settled' PROVE ChosenInv'
    BY <1>1 DEF ChosenInv
  <2>2. settled /\ \A id \in Held : HolderOf(id)' = HolderOf(id)
    BY <1>5, <2>1 DEF Work, Staging
  <2>3. Due(sweep) \subseteq Held
    BY <2>1, <2>2 DEF PiInv, Steady
  <2>4. \A i \in DOMAIN sweep.found : sweep.found[i].id \in Held
    BY <2>3 DEF Due, IdsOf
  <2>5. QED BY <1>1, <2>1, <2>2, <2>4 DEF PiInv, ChosenInv
<1>10. sweep'.stamp = sweep.stamp /\ sweep'.pc = sweep.pc
  BY <1>1
<1>11. QED BY <1>1, <1>6, <1>7, <1>8, <1>9, <1>10 DEF PiInv, PiItems

LEMMA PutKeeps ==
  ASSUME PiInv, PiWrote, NEW p \in Paths, NEW f \in File, f.mtime <= writes + 1, Put(p, f)
  PROVE  PiInv'
<1>1. FilesInv /\ writes \in Nat /\ writes' = writes + 1
  BY DEF PiInv, Sweeping, PiWrote, Wrote
<1>2. /\ DOMAIN files' = DOMAIN files \union {p}
      /\ \A q \in DOMAIN files' : files'[q] = IF q = p THEN f ELSE files[q]
      /\ files' \in [DOMAIN files' -> {files'[q] : q \in DOMAIN files'}]
  BY DEF Put
<1>3. \A q \in DOMAIN files : files[q] \in File /\ files[q].mtime \in Int /\ files[q].mtime <= writes
  BY <1>1 DEF FilesInv, File
<1>4. \A q \in DOMAIN files' : files'[q] \in File /\ files'[q].mtime <= writes'
  BY <1>1, <1>2, <1>3
<1>5. DOMAIN files' \subseteq Paths /\ files' \in [DOMAIN files' -> File]
  BY <1>1, <1>2, <1>4 DEF FilesInv
<1>6. FilesInv'
  BY <1>4, <1>5 DEF FilesInv
<1>7. QED BY <1>6, PiWrites

LEMMA Finished ==
  ASSUME NEW f \in File, NEW tail \in Tails, NEW mtime \in Int
  PROVE  LET g == [f EXCEPT !.tail = tail, !.mtime = mtime]
         IN g \in File /\ g.mtime = mtime
<1> DEFINE g == [f EXCEPT !.tail = tail, !.mtime = mtime]
<1>1. g \in File
  BY DEF File
<1>2. g.mtime = mtime
  BY DEF File
<1>3. QED BY <1>1, <1>2

LEMMA PiWriteKeeps ==
  ASSUME PiInv, PiWrite
  PROVE  PiInv'
<1>1. FilesInv /\ writes \in Nat
  BY DEF PiInv, Sweeping
<1>2. \A p \in DOMAIN files : /\ p \in Paths /\ files[p] \in File /\ files[p].lines \in Seq(Line)
                              /\ files[p].mtime \in Int /\ files[p].mtime <= writes
  BY <1>1 DEF FilesInv, File
<1>3. ASSUME NEW p \in Paths, NEW id \in Sessions, NEW tail \in {"ended", "partial"}, NewFile(p, id, tail)
      PROVE  PiInv'
  <2> DEFINE lines == <<Header(id)>>
             f == [lines |-> lines, tail |-> tail, mtime |-> writes + 1]
  <2>1. Header(id) \in Line
    BY DEF Header, Line, Ids
  <2>2. lines \in Seq(Line) /\ tail \in Tails /\ writes + 1 \in Int
    BY <1>1, <2>1 DEF Tails
  <2>3. Put(p, f) /\ PiWrote
    BY <1>3 DEF NewFile
  <2> HIDE DEF lines
  <2>4. f \in File /\ f.mtime <= writes + 1
    BY <1>1, <2>2 DEF File
  <2> HIDE DEF f
  <2>5. QED BY <2>3, <2>4, PutKeeps
<1>4. ASSUME NEW p \in DOMAIN files, NEW l \in Line, NEW tail \in Tails, AppendLine(p, l, tail)
      PROVE  PiInv'
  <2> DEFINE lines == Append(files[p].lines, l)
             f == [lines |-> lines, tail |-> tail, mtime |-> writes + 1]
  <2>1. lines \in Seq(Line)
    BY <1>2
  <2>2. Put(p, f) /\ PiWrote
    BY <1>4 DEF AppendLine
  <2> HIDE DEF lines
  <2>3. f \in File /\ f.mtime <= writes + 1
    BY <1>1, <2>1 DEF File
  <2> HIDE DEF f
  <2>4. QED BY <1>2, <2>2, <2>3, PutKeeps
<1>5. ASSUME NEW p \in DOMAIN files, FinishLine(p)
      PROVE  PiInv'
  <2> DEFINE f == [files[p] EXCEPT !.tail = "ended", !.mtime = writes + 1]
  <2>1. Put(p, f) /\ PiWrote
    BY <1>5 DEF FinishLine
  <2>2. "ended" \in Tails /\ writes + 1 \in Int /\ files[p] \in File
    BY <1>1, <1>2 DEF Tails
  <2>3. f \in File /\ f.mtime = writes + 1
    BY <2>2, Finished
  <2> HIDE DEF f
  <2>4. f \in File /\ f.mtime <= writes + 1
    BY <1>1, <2>3
  <2>5. QED BY <1>2, <2>1, <2>4, PutKeeps
<1>6. ASSUME NEW p \in DOMAIN files, NEW q \in Paths, CopyFile(p, q)
      PROVE  PiInv'
  <2>1. PICK t \in {files[p].mtime, writes + 1} : Put(q, [files[p] EXCEPT !.mtime = t]) /\ PiWrote
    BY <1>6 DEF CopyFile
  <2> DEFINE f == [files[p] EXCEPT !.mtime = t]
  <2>2. files[p] \in File /\ t \in Int /\ t <= writes + 1
    BY <1>1, <1>2
  <2>3. f \in File /\ f.mtime <= writes + 1
    BY <2>2 DEF File
  <2>4. Put(q, f) /\ PiWrote
    BY <2>1
  <2> HIDE DEF f
  <2>5. QED BY <2>3, <2>4, PutKeeps
<1>7. ASSUME NEW p \in DOMAIN files, RemoveFile(p)
      PROVE  PiInv'
  <2>1. files' = [q \in DOMAIN files \ {p} |-> files[q]] /\ PiWrote
    BY <1>7 DEF RemoveFile
  <2>2. writes' = writes + 1
    BY <2>1 DEF PiWrote, Wrote
  <2>3. \A q \in DOMAIN files' : q \in DOMAIN files /\ files'[q] = files[q]
    BY <2>1
  <2>4. FilesInv'
    <3>1. DOMAIN files' \subseteq Paths /\ files' \in [DOMAIN files' -> File]
      BY <1>2, <2>1
    <3>2. \A q \in DOMAIN files' : files'[q].mtime <= writes'
      BY <1>1, <1>2, <2>2, <2>3
    <3>3. QED BY <3>1, <3>2 DEF FilesInv
  <2>5. QED BY <2>1, <2>4, PiWrites
<1>8. "ended" \in Tails /\ Bad \in Line
      /\ \A e \in Entries, q \in Entries \union {NoNode} : Entry(e, q) \in Line
  BY DEF Tails, Bad, Entry, Line, Ids
<1>9. QED BY <1>3, <1>4, <1>5, <1>6, <1>7, <1>8 DEF PiWrite

-----------------------------------------------------------------------------
(***************************************************************************)
(* The invariant holds, and what follows from it.                          *)
(***************************************************************************)
LEMMA InitInv ==
  ASSUME Init
  PROVE  IInv
<1>1. /\ sweep = Idle /\ journal = <<>> /\ writes = 0 /\ calm = FALSE /\ settled = FALSE
      /\ harness \in {"claude", "pi", "devin"}
  BY HarnessesAssumption DEF Init, SweepInit
<1>2. /\ DOMAIN sweep = {"pc", "left", "stamp", "found", "staged"}
      /\ sweep.pc = "idle" /\ sweep.found = <<>> /\ sweep.stamp = 0 /\ DOMAIN journal = {}
  BY <1>1 DEF Idle
<1>3. ASSUME NEW items PROVE Sweeping(items)
  <2>1. sweep.pc \notin Work /\ <<>> \in Seq(items) /\ 0 \in Nat
    BY <1>2 DEF Work, Staging
  <2>2. QED BY <1>1, <1>2, <2>1, Zenon DEF Sweeping
<1>4. \A ids, current : Steady(ids, current, sweep, calm, settled)
  BY <1>1, Zenon DEF Steady
<1>5. Due(sweep) = {}
  BY <1>2 DEF Due, IdsOf
<1>6. ClaudeInv
  <2>1. ProjectsInv
    BY ClaudeAssumption DEF Init, ClaudeInit, ProjectsInv
  <2>2. ClaudeRecords
    BY <1>2 DEF ClaudeRecords
  <2>3. QED BY <1>2, <1>3, <1>4, <1>5, <2>1, <2>2, Zenon DEF ClaudeInv
<1>7. PiInv
  <2>1. FilesInv
    BY <1>1, PiAssumption DEF Init, PiInit, FilesInv
  <2>2. PiRecords
    BY <1>2 DEF PiRecords
  <2>3. 0 \in Int
    OBVIOUS
  <2>4. sweep.pc \notin {"stat", "header", "commit"} /\ sweep.pc \notin Work
    BY <1>2 DEF Work, Staging
  <2>5. QED BY <1>2, <1>3, <1>4, <2>1, <2>2, <2>3, <2>4 DEF PiInv
<1>8. DevinInv
  <2>1. \A s, t \in store : s = t
    BY DevinAssumption DEF Init, DevinInit
  <2>2. DevinRecords
    BY <1>2 DEF DevinRecords
  <2>3. QED BY <1>2, <1>3, <1>4, <2>1, <2>2 DEF DevinInv
<1>9. QED BY <1>1, <1>6, <1>7, <1>8 DEF IInv

LEMMA Invariance ==
  ASSUME IInv, [Next]_vars
  PROVE  IInv'
<1>1. CASE harness = "claude" /\ (ClaudeSweep \/ ClaudeWrite) /\ UNCHANGED harness
  <2>1. ClaudeInv
    BY <1>1 DEF IInv
  <2>2. ClaudeInv'
    BY <1>1, <2>1, ClaudeStartKeeps, ClaudeVerdictKeeps, ClaudeCorrelateKeeps,
       CopyTranscriptKeeps, CopySidecarsKeeps, ClaudeCommitKeeps, ClaudeWriteKeeps, Zenon
    DEF ClaudeSweep
  <2>3. QED BY <1>1, <2>2 DEF IInv
<1>2. CASE harness = "pi" /\ (PiSweep \/ PiWrite) /\ UNCHANGED harness
  <2>1. PiInv
    BY <1>2 DEF IInv
  <2>2. PiInv'
    BY <1>2, <2>1, PiStartKeeps, StatKeeps, NoCandidateKeeps, CandidateKeeps, PiVerdictKeeps,
       PiCorrelateKeeps, PiCopyKeeps, PiCommitKeeps, PiWriteKeeps, Zenon
    DEF PiSweep
  <2>3. QED BY <1>2, <2>2 DEF IInv
<1>3. CASE harness = "devin" /\ (DevinSweep \/ DevinWrite) /\ UNCHANGED harness
  <2>1. DevinInv
    BY <1>3 DEF IInv
  <2>2. DevinInv'
    BY <1>3, <2>1, DevinStartKeeps, DevinVerdictKeeps, DevinCorrelateKeeps, SnapshotKeeps,
       AnalyzeKeeps, ExportKeeps, DevinWriteKeeps, Zenon
    DEF DevinSweep
  <2>3. QED BY <1>3, <2>2 DEF IInv
<1>4. CASE UNCHANGED vars
  <2>1. UNCHANGED <<journal, sweep, writes, calm, settled, projects, started, files, store, harness>>
    BY <1>4 DEF vars, sweepVars, claudeVars
  <2>2. Due(sweep') = Due(sweep) /\ Item' = Item
    BY <2>1 DEF Due, Item
  <2>3. ClaudeInv => ClaudeInv'
    <3>1. \A items : Sweeping(items) => Sweeping(items)'
      BY <2>1 DEF Sweeping
    <3>2. ClaudeInv => ProjectsInv' /\ ClaudeRecords' /\ ClaudeCurrent' = ClaudeCurrent
      BY <2>1, ClaudeRests DEF ClaudeInv, claudeVars
    <3>3. ClaudeStaged => ClaudeStaged'
      BY <2>1, <2>2 DEF ClaudeStaged, NoTranscript
    <3>4. QED BY <2>1, <2>2, <3>1, <3>2, <3>3 DEF ClaudeInv
  <2>4. PiInv => PiInv'
    <3>1. Sweeping(PiItems) => Sweeping(PiItems)'
      BY <2>1 DEF Sweeping
    <3>2. PiInv => /\ PiRecords' /\ PiCurrent' = PiCurrent /\ Held' = Held /\ FilesInv'
                   /\ \A p : SessionAt(p)' = SessionAt(p)
                   /\ \A id : HolderOf(id)' = HolderOf(id)
      BY <2>1, PiRests
    <3>3. PiInv /\ WalkInv => WalkInv'
      BY <2>1, <3>2 DEF WalkInv, Here
    <3>4. PiInv /\ ChosenInv => ChosenInv'
      BY <2>1, <3>2 DEF ChosenInv
    <3>5. QED BY <2>1, <2>2, <3>1, <3>2, <3>3, <3>4 DEF PiInv, PiItems
  <2>5. DevinInv => DevinInv'
    <3>1. \A items : Sweeping(items) => Sweeping(items)'
      BY <2>1 DEF Sweeping
    <3>2. QED BY <2>1, <3>1 DEF DevinInv, DevinRecords, DevinIds, DevinCurrent
  <2>6. QED BY <2>1, <2>3, <2>4, <2>5 DEF IInv
<1>5. QED BY <1>1, <1>2, <1>3, <1>4 DEF Next

\* What a sweep keeps of each source's evidence, while the harness writes.
THEOREM SourcesInvariant == Spec => []IInv
<1>1. Init => IInv
  BY InitInv
<1>2. IInv /\ [Next]_vars => IInv'
  BY Invariance
<1>3. QED BY <1>1, <1>2, PTL DEF Spec

\* Once a sweep ran through undisturbed, every session in the store has a
\* record of its present evidence, and keeps it while the evidence stands and
\* nobody moves files under a walk: however many files hold one session, and
\* whatever is written between two steps of a sweep (pi/discover.go
\* resolveDuplicates, devin/unchanged.go, verbs/capture/capture.go
\* unchangedVerdict).
THEOREM SettledIsCurrent == Spec => []SettledCurrent
<1>1. IInv => SettledCurrent
  <2>1. SUFFICES ASSUME IInv, settled PROVE SettledCurrent
    BY DEF SettledCurrent
  <2>2. ASSUME harness = "claude", NEW id \in DOMAIN projects
        PROVE  id \in DOMAIN journal /\ journal[id].copy.main = ClaudeEvidence[id]
    BY <2>1, <2>2 DEF IInv, ClaudeInv, Steady, ClaudeCurrent, ClaudeEvidence
  <2>3. ASSUME harness = "pi", NEW id \in DOMAIN PiEvidence
        PROVE  id \in DOMAIN journal /\ journal[id].copy = PiEvidence[id]
    <3>1. id \in Held /\ PiEvidence[id] = Content(files[HolderOf(id)])
      BY DEF PiEvidence, Held
    <3>2. QED BY <2>1, <2>3, <3>1 DEF IInv, PiInv, Steady, PiCurrent
  <2>4. ASSUME harness = "devin", NEW s \in store
        PROVE  /\ Session \in DOMAIN journal
               /\ HashConversation(journal[Session].copy) = HashConversation(s)
    BY <2>1, <2>4 DEF IInv, DevinInv, Steady, DevinIds, DevinCurrent
  <2>5. QED BY <2>2, <2>3, <2>4 DEF SettledCurrent
<1>2. QED BY <1>1, SourcesInvariant, PTL

\* And then no sweep stages a copy again until the evidence changes: no title,
\* activity time, touched file or copy of it makes a session stale
\* (devin/fingerprint.go, verbs/capture/capture.go unchangedVerdict).
THEOREM SettledIsQuiet == Spec => []SettledQuiet
<1>1. IInv => SettledQuiet
  <2>1. SUFFICES ASSUME IInv, settled PROVE sweep.pc \notin Staging
    BY DEF SettledQuiet, Staging
  <2>2. QED BY <2>1 DEF IInv, ClaudeInv, PiInv, DevinInv, Steady
<1>2. QED BY <1>1, SourcesInvariant, PTL

\* A result that a transcript's records count is on a line of it.
LEMMA ResultsLie ==
  ASSUME NEW c \in ClaudeCopy, Count(Kind(Records(c)), "result") > 0
  PROVE  HasResult(c.lines)
<1> DEFINE T == DOMAIN KindOf \union {NoNode}
           lines == IF c.tail = "partial" THEN Front(c.lines) ELSE c.lines
           kinds == Kind(Records(c))
<1>1. c.lines \in Seq(T) /\ lines \in Seq(T)
  BY DEF ClaudeCopy, Front
<1>2. ToSet(lines) \subseteq ToSet(c.lines)
  BY <1>1 DEF Front, ToSet
<1>3. ToSet(Records(c)) = ToSet(lines) \ {NoNode}
  <2>1. Records(c) = Without(lines, {NoNode})
    BY DEF Records
  <2> HIDE DEF lines, T
  <2>2. QED BY <1>1, <2>1, WithoutElements
<1>4. PICK i \in DOMAIN kinds : kinds[i] = "result"
  <2>1. Cardinality({i \in DOMAIN kinds : kinds[i] = "result"}) > 0
    BY DEF Count
  <2>2. {i \in DOMAIN kinds : kinds[i] = "result"} # {}
    BY <2>1, FS_EmptySet
  <2>3. QED BY <2>2
<1>5. i \in DOMAIN Records(c) /\ KindOf[Records(c)[i]] = "result"
  BY <1>4 DEF Kind
<1>6. Records(c)[i] \in ToSet(c.lines) /\ Records(c)[i] # NoNode
  BY <1>2, <1>3, <1>5 DEF ToSet
<1>7. QED BY <1>5, <1>6 DEF HasResult, ToSet

\* A copy that holds a subagent's result holds the subagent's transcript to
\* its end, unless the sidecar could not be read, whatever claude appends,
\* finishes or lets expire between the two copies (claude/capture.go Capture,
\* captureSidecars).
THEOREM AgentsAreComplete == Spec => []AgentsComplete
<1>1. IInv => AgentsComplete
  <2>1. SUFFICES ASSUME IInv, harness = "claude", NEW id \in DOMAIN journal,
                        Count(Kind(Records(journal[id].copy.main)), "result") > 0
                 PROVE  journal[id].copy.missed \/ journal[id].copy.agent = AgentDone
    BY DEF AgentsComplete
  <2>2. journal[id].copy.main \in ClaudeCopy /\ Complete(journal[id].copy)
    BY <2>1 DEF IInv, ClaudeInv, ClaudeRecords
  <2>3. HasResult(journal[id].copy.main.lines)
    BY <2>1, <2>2, ResultsLie
  <2>4. QED BY <2>2, <2>3 DEF Complete
<1>2. QED BY <1>1, SourcesInvariant, PTL

-----------------------------------------------------------------------------
(***************************************************************************)
(* The readers: what becomes of a stream of calls and results.             *)
(***************************************************************************)
Token(I) == [what : {"call", "result"}, id : I]
Event(I) == [what : {"call", "result"}, id : I, at : Nat, result : Nat]

LEMMA ToldTyped ==
  ASSUME NEW I, NEW ev \in Seq(Event(I)), NEW e \in Token(I), NEW n \in Nat
  PROVE  Told(ev, e, n) \in Seq(Event(I))
<1> DEFINE calls == Answered(ev, e.id, n)
           made == [what |-> "call", id |-> e.id, at |-> n, result |-> 0]
           alone == [what |-> "result", id |-> e.id, at |-> n, result |-> n]
           put == [i \in DOMAIN ev |-> IF i \in calls THEN [ev[i] EXCEPT !.result = n] ELSE ev[i]]
<1>1. made \in Event(I) /\ alone \in Event(I)
  BY DEF Event, Token
<1>2. \A i \in 1..Len(ev) : ev[i] \in Event(I) /\ [ev[i] EXCEPT !.result = n] \in Event(I)
  <2>1. ASSUME NEW x \in Event(I) PROVE [x EXCEPT !.result = n] \in Event(I)
    BY DEF Event
  <2>2. QED BY <2>1
<1>3. put \in Seq(Event(I))
  <2>1. DOMAIN ev = 1..Len(ev) /\ Len(ev) \in Nat
    OBVIOUS
  <2> HIDE DEF calls
  <2>2. put \in [1..Len(ev) -> Event(I)]
    BY <1>2, <2>1
  <2>3. QED BY <2>1, <2>2
<1>4. Append(ev, made) \in Seq(Event(I)) /\ Append(ev, alone) \in Seq(Event(I))
  BY <1>1
<1> HIDE DEF made, alone, put, calls
<1>5. Told(ev, e, n) = IF e.what = "call" THEN Append(ev, made)
                       ELSE IF calls = {} THEN Append(ev, alone) ELSE put
  BY Zenon DEF Told, made, alone, put, calls
<1>6. QED BY <1>3, <1>4, <1>5

LEMMA EventsAre ==
  ASSUME NEW I, NEW stream \in Seq(Token(I))
  PROVE  \E f \in [0..Len(stream) -> Seq(Event(I))] :
           /\ f[0] = <<>>
           /\ \A m \in 1..Len(stream) : f[m] = Told(f[m - 1], stream[m], m)
           /\ Events(stream) = f[Len(stream)]
<1> DEFINE n == Len(stream)
           S == Seq(Event(I))
           G == [m \in 1..n |-> [ev \in S |-> Told(ev, stream[m], m)]]
           Intact(f) == f = [m \in 0..n |-> IF m = 0 THEN <<>> ELSE Told(f[m - 1], stream[m], m)]
           f0 == CHOOSE f : Intact(f)
<1>1. n \in Nat /\ <<>> \in S /\ \A m \in 1..n : stream[m] \in Token(I) /\ m \in Nat
  OBVIOUS
<1> HIDE DEF S, n
<1>2. G \in [1..n -> [S -> S]]
  BY <1>1, ToldTyped DEF S
<1>3. PICK f \in [0..n -> S] : f[0] = <<>> /\ \A m \in 1..n : f[m] = G[m][f[m - 1]]
  <2> HIDE DEF G
  <2>1. QED BY <1>1, <1>2, Folding
<1>4. \A m \in 0..n : m # 0 => m \in 1..n /\ m - 1 \in 0..n
  BY <1>1
<1>5. ASSUME NEW m \in 1..n PROVE f[m] = Told(f[m - 1], stream[m], m)
  <2>1. m \in 0..n /\ m # 0 /\ m - 1 \in 0..n
    BY <1>1
  <2>2. f[m - 1] \in S /\ f[m] = G[m][f[m - 1]]
    BY <1>3, <2>1
  <2>3. G[m] = [ev \in S |-> Told(ev, stream[m], m)]
    OBVIOUS
  <2> HIDE DEF G
  <2>4. QED BY <2>2, <2>3
<1>6. Intact(f)
  BY <1>3, <1>4, <1>5
<1>7. Intact(f0)
  <2> HIDE DEF Intact
  <2>1. QED BY <1>6
<1>8. Events(stream) = f0[n]
  BY Zenon DEF Events, n
<1> HIDE DEF f0
\* The function the definition chooses is this one.
<1>9. f0[0] = <<>> /\ \A m \in 1..n : f0[m] = Told(f0[m - 1], stream[m], m)
  BY <1>1, <1>7
<1>10. f0 \in [0..n -> S]
  <2> DEFINE J == {k \in Nat : k <= n => f0[k] \in S}
  <2>1. 0 \in J
    BY <1>1, <1>9
  <2>2. ASSUME NEW k \in J PROVE k + 1 \in J
    <3>1. SUFFICES ASSUME k + 1 <= n PROVE f0[k + 1] \in S
      OBVIOUS
    <3>2. k + 1 \in 1..n /\ (k + 1) - 1 = k /\ k <= n
      BY <1>1, <3>1
    <3>3. f0[k] \in S /\ f0[k + 1] = Told(f0[k], stream[k + 1], k + 1)
      BY <1>9, <3>2
    <3>4. QED BY <1>1, <3>2, <3>3, ToldTyped DEF S
  <2>3. Nat \subseteq J
    <3> HIDE DEF J
    <3>1. J \in SUBSET Nat
      BY DEF J
    <3>2. QED BY <2>1, <2>2, <3>1, FromZero
  <2>4. \A k \in 0..n : f0[k] \in S
    BY <1>1, <2>3
  <2>5. QED BY <1>7, <2>4
<1>11. QED BY <1>8, <1>9, <1>10 DEF n, S

\* What the events of a stream's first n places are: each place's own, in
\* their order, a call with the result that answers it, if it has come.
Telling(stream, ev, n) ==
  /\ \A k \in 1..Len(ev) : /\ ev[k].at \in 1..n
                           /\ ev[k].what = stream[ev[k].at].what
                           /\ ev[k].id = stream[ev[k].at].id
  /\ \A k, l \in 1..Len(ev) : k < l => ev[k].at < ev[l].at
  /\ \A k \in 1..Len(ev) : ev[k].what = "result" => ev[k].result = ev[k].at
  /\ \A k \in 1..Len(ev) : ev[k].what = "call" =>
       /\ ev[k].result \in 0..n
       /\ \A j \in 1..n : ev[k].result = j <=> Answers(stream, j, ev[k].at)
  /\ \A i \in 1..n : \E k \in 1..Len(ev) : ev[k].at = i \/ ev[k].result = i
  /\ \A k, l \in 1..Len(ev) :
       ev[k].what = "result" /\ ev[l].what = "call" => ev[l].result # ev[k].at

\* A call's place has an event of its own.
LEMMA CallsTold ==
  ASSUME NEW I, NEW stream \in Seq(Token(I)), NEW n \in 0..Len(stream),
         NEW ev \in Seq(Event(I)), Telling(stream, ev, n),
         NEW i \in 1..n, stream[i].what = "call"
  PROVE  \E k \in 1..Len(ev) : ev[k].at = i /\ ev[k].what = "call"
<1>1. PICK k \in 1..Len(ev) : ev[k].at = i \/ ev[k].result = i
  BY DEF Telling
<1>2. ev[k].what \in {"call", "result"}
  <2>1. ev[k] \in Event(I)
    OBVIOUS
  <2>2. QED BY <2>1 DEF Event
<1>3. ev[k].what = stream[ev[k].at].what
  BY DEF Telling
<1>4. CASE ev[k].what = "result"
  <2>1. ev[k].at = i
    BY <1>1, <1>4 DEF Telling
  <2>2. QED BY <1>3, <1>4, <2>1
<1>5. CASE ev[k].what = "call"
  <2>1. ev[k].at # i => Answers(stream, i, ev[k].at)
    BY <1>1, <1>5 DEF Telling
  <2>2. ~Answers(stream, i, ev[k].at)
    BY DEF Answers
  <2>3. QED BY <1>5, <2>1, <2>2
<1>6. QED BY <1>2, <1>4, <1>5

\* The call a result is put to is the one it answers.
LEMMA AnsweredIs ==
  ASSUME NEW I, NEW stream \in Seq(Token(I)), NEW n \in Nat, n < Len(stream),
         NEW ev \in Seq(Event(I)), Telling(stream, ev, n),
         stream[n + 1].what = "result",
         NEW k \in 1..Len(ev), ev[k].what = "call"
  PROVE  k \in Answered(ev, stream[n + 1].id, n + 1) <=> Answers(stream, n + 1, ev[k].at)
<1> DEFINE x == stream[n + 1].id
           p == ev[k].at
<1>1. /\ p \in 1..n /\ ev[k].id = stream[p].id /\ stream[p].what = "call"
      /\ n \in 0..Len(stream) /\ DOMAIN ev = 1..Len(ev) /\ Len(ev) \in Nat
  BY DEF Telling
<1>2. ASSUME NEW l \in 1..Len(ev) PROVE ev[l].at \in 1..n /\ ev[l].id = stream[ev[l].at].id
  BY DEF Telling
<1>3. ASSUME NEW l \in 1..Len(ev), NEW h \in 1..Len(ev)
      PROVE  (l < h => ev[l].at < ev[h].at) /\ (l <= h => ev[l].at <= ev[h].at)
  <2>1. ev[l].at \in Int /\ ev[h].at \in Int /\ (l < h => ev[l].at < ev[h].at)
    BY <1>2 DEF Telling
  <2>2. QED BY <2>1
<1>4. /\ ev[k].result \in 0..n
      /\ \A j \in 1..n : ev[k].result = j <=> Answers(stream, j, p)
  BY DEF Telling
<1>5. k \in Answered(ev, x, n + 1) <=>
        /\ ev[k].id = x /\ ev[k].result = 0
        /\ \A l \in 1..Len(ev) : ev[l].what = "call" /\ ev[l].id = x => l <= k
  BY <1>1 DEF Answered, LatestCall
<1>6. Answers(stream, n + 1, p) <=>
        stream[p].id = x /\ \A m \in p + 1 .. n : stream[m].id # x
  BY <1>1 DEF Answers
<1> HIDE DEF p, x
<1>7. ASSUME Answers(stream, n + 1, p) PROVE k \in Answered(ev, x, n + 1)
  <2>1. stream[p].id = x /\ \A m \in p + 1 .. n : stream[m].id # x
    BY <1>6, <1>7
  <2>2. ev[k].id = x
    BY <1>1, <2>1
  <2>3. ASSUME NEW l \in 1..Len(ev), ev[l].what = "call", ev[l].id = x PROVE l <= k
    <3>1. SUFFICES ASSUME k < l PROVE FALSE
      OBVIOUS
    <3>2. p < ev[l].at /\ ev[l].at \in 1..n /\ stream[ev[l].at].id = x
      BY <1>2, <1>3, <2>3, <3>1 DEF p
    <3>3. QED BY <1>1, <2>1, <3>2
  <2>4. ev[k].result = 0
    <3>1. SUFFICES ASSUME ev[k].result # 0 PROVE FALSE
      OBVIOUS
    <3> DEFINE j == ev[k].result
    <3>2. j \in 1..n /\ Answers(stream, j, p)
      BY <1>4, <3>1
    <3>3. p < j /\ stream[j].id = x
      BY <2>1, <3>2 DEF Answers
    <3>4. QED BY <1>1, <2>1, <3>2, <3>3
  <2>5. QED BY <1>5, <2>2, <2>3, <2>4
<1>8. ASSUME k \in Answered(ev, x, n + 1) PROVE Answers(stream, n + 1, p)
  <2>1. /\ stream[p].id = x /\ ev[k].result = 0
        /\ \A l \in 1..Len(ev) : ev[l].what = "call" /\ ev[l].id = x => l <= k
    BY <1>1, <1>5, <1>8
  <2> DEFINE M == {m \in p + 1 .. n : stream[m].id = x}
  <2>2. SUFFICES ASSUME M # {} PROVE FALSE
    BY <1>6, <2>1
  <2> DEFINE m == Min(M)
  <2>3. M \subseteq Nat
    BY <1>1
  <2>4. m \in M /\ \A h \in M : m <= h
    <3> HIDE DEF M
    <3>1. QED BY <2>2, <2>3, LeastOf
  <2> HIDE DEF m
  <2>5. m \in 1..n /\ p < m /\ stream[m].id = x
    BY <1>1, <2>4
  <2>6. \A h \in p + 1 .. m - 1 : stream[h].id # x
    BY <1>1, <2>4
  <2>7. stream[m].what # "call"
    <3>1. SUFFICES ASSUME stream[m].what = "call" PROVE FALSE
      OBVIOUS
    <3>2. PICK l \in 1..Len(ev) : ev[l].at = m /\ ev[l].what = "call"
      BY <1>1, <2>5, <3>1, CallsTold
    <3>3. ev[l].id = x
      BY <1>2, <2>5, <3>2
    <3>4. l <= k
      BY <2>1, <3>2, <3>3
    <3>5. m <= p
      BY <1>3, <3>2, <3>4 DEF p
    <3>6. QED BY <1>1, <2>5, <3>5
  <2>8. stream[m].what = "result"
    <3>1. stream[m] \in Token(I)
      BY <1>1, <2>5
    <3>2. QED BY <2>7, <3>1 DEF Token
  <2>9. Answers(stream, m, p)
    BY <1>1, <2>1, <2>5, <2>6, <2>8 DEF Answers
  <2>10. ev[k].result = m
    BY <1>4, <2>5, <2>9
  <2>11. QED BY <2>1, <2>5, <2>10
<1>9. QED BY <1>7, <1>8 DEF p, x

\* One more place told keeps it so.
LEMMA TellingStep ==
  ASSUME NEW I, NEW stream \in Seq(Token(I)), NEW n \in Nat, n < Len(stream),
         NEW ev \in Seq(Event(I)), Telling(stream, ev, n)
  PROVE  Telling(stream, Told(ev, stream[n + 1], n + 1), n + 1)
<1> DEFINE e == stream[n + 1]
           N == n + 1
           calls == Answered(ev, e.id, N)
<1>1. /\ e \in Token(I) /\ N \in 1..Len(stream) /\ N \in Nat /\ Len(ev) \in Nat /\ Len(stream) \in Nat
      /\ \A m \in 1..Len(stream) : stream[m].what \in {"call", "result"}
  <2>1. \A m \in 1..Len(stream) : stream[m] \in Token(I)
    OBVIOUS
  <2>2. QED BY <2>1 DEF Token
<1>2. \A k \in 1..Len(ev) : ev[k] \in Event(I)
  OBVIOUS
<1>3. \A k \in 1..Len(ev) : /\ ev[k].what \in {"call", "result"} /\ ev[k].at \in Nat /\ ev[k].result \in Nat
  BY <1>2 DEF Event
<1>4. \A k \in 1..Len(ev) : ev[k].at \in 1..n /\ ev[k].what = stream[ev[k].at].what /\ ev[k].id = stream[ev[k].at].id
  BY DEF Telling
<1>5. \A k, l \in 1..Len(ev) : k < l => ev[k].at < ev[l].at
  BY DEF Telling
<1>6. \A k \in 1..Len(ev) : ev[k].what = "result" => ev[k].result = ev[k].at
  BY DEF Telling
<1>7. \A k \in 1..Len(ev) : ev[k].what = "call" =>
         ev[k].result \in 0..n /\ \A j \in 1..n : ev[k].result = j <=> Answers(stream, j, ev[k].at)
  BY DEF Telling
<1>8. \A i \in 1..n : \E k \in 1..Len(ev) : ev[k].at = i \/ ev[k].result = i
  BY DEF Telling
<1>9. \A k, l \in 1..Len(ev) : ev[k].what = "result" /\ ev[l].what = "call" => ev[l].result # ev[k].at
  BY DEF Telling
<1>10. \A k \in 1..Len(ev) : ev[k].result \in 0..n
  BY <1>3, <1>4, <1>6, <1>7
<1>11. \A i \in 1..N : i \in 1..n \/ i = N
  BY <1>1
\* What is appended is the place itself.
<1>12. ASSUME NEW x \in Event(I), x.what = e.what, x.id = e.id, x.at = N,
              x.what = "result" => x.result = N,
              x.what = "call" => x.result = 0,
              \A k \in 1..Len(ev) : ev[k].what = "call" => ~Answers(stream, N, ev[k].at)
       PROVE  Telling(stream, Append(ev, x), N)
  <2> DEFINE w == Append(ev, x)
  <2>1. /\ Len(w) = Len(ev) + 1 /\ w[Len(ev) + 1] = x
        /\ \A k \in 1..Len(ev) : w[k] = ev[k]
        /\ \A k \in 1..Len(w) : k \in 1..Len(ev) \/ k = Len(ev) + 1
    BY <1>1
  <2> HIDE DEF w, e, N, calls
  <2>2. x.what \in {"call", "result"}
    BY <1>12 DEF Event
  <2>3. \A k \in 1..Len(w) : w[k].at \in 1..N /\ w[k].what = stream[w[k].at].what /\ w[k].id = stream[w[k].at].id
    BY <1>1, <1>4, <1>12, <2>1 DEF e, N
  <2>4. \A k, l \in 1..Len(w) : k < l => w[k].at < w[l].at
    <3>1. SUFFICES ASSUME NEW k \in 1..Len(w), NEW l \in 1..Len(w), k < l PROVE w[k].at < w[l].at
      OBVIOUS
    <3>2. k \in 1..Len(ev)
      BY <1>1, <2>1, <3>1
    <3>3. QED BY <1>1, <1>4, <1>5, <1>12, <2>1, <3>1, <3>2 DEF N
  <2>5. \A k \in 1..Len(w) : w[k].what = "result" => w[k].result = w[k].at
    BY <1>6, <1>12, <2>1
  <2>6. ASSUME NEW k \in 1..Len(w), w[k].what = "call"
        PROVE  w[k].result \in 0..N /\ \A j \in 1..N : w[k].result = j <=> Answers(stream, j, w[k].at)
    <3>1. CASE k \in 1..Len(ev)
      <4>1. w[k] = ev[k] /\ ev[k].result \in 0..n /\ ~Answers(stream, N, ev[k].at)
            /\ \A j \in 1..n : ev[k].result = j <=> Answers(stream, j, ev[k].at)
        BY <1>7, <1>12, <2>1, <2>6, <3>1
      <4>2. 0..n \subseteq 0..N /\ N \notin 0..n
        BY DEF N
      <4>3. QED BY <1>11, <4>1, <4>2
    <3>2. CASE k = Len(ev) + 1
      <4>1. w[k].result = 0 /\ w[k].at = N
        BY <1>12, <2>1, <2>6, <3>2
      <4>2. \A j \in 1..N : ~Answers(stream, j, N)
        BY <1>1 DEF Answers
      <4>3. QED BY <1>1, <4>1, <4>2
    <3>3. QED BY <2>1, <3>1, <3>2
  <2>7. \A i \in 1..N : \E k \in 1..Len(w) : w[k].at = i \/ w[k].result = i
    <3>1. SUFFICES ASSUME NEW i \in 1..N PROVE \E k \in 1..Len(w) : w[k].at = i \/ w[k].result = i
      OBVIOUS
    <3>2. CASE i = N
      <4>1. Len(ev) + 1 \in 1..Len(w)
        BY <1>1, <2>1
      <4>2. QED BY <1>12, <2>1, <3>2, <4>1
    <3>3. CASE i \in 1..n
      <4>1. PICK k \in 1..Len(ev) : ev[k].at = i \/ ev[k].result = i
        BY <1>8, <3>3
      <4>2. k \in 1..Len(w) /\ w[k] = ev[k]
        BY <1>1, <2>1
      <4>3. QED BY <4>1, <4>2
    <3>4. QED BY <1>11, <3>2, <3>3
  <2>8. \A k, l \in 1..Len(w) : w[k].what = "result" /\ w[l].what = "call" => w[l].result # w[k].at
    <3>1. SUFFICES ASSUME NEW k \in 1..Len(w), NEW l \in 1..Len(w), w[k].what = "result", w[l].what = "call"
                   PROVE  w[l].result # w[k].at
      OBVIOUS
    <3>2. CASE k \in 1..Len(ev) /\ l \in 1..Len(ev)
      BY <1>9, <2>1, <3>1, <3>2
    <3>3. CASE k = Len(ev) + 1
      <4>1. w[k].at = N /\ l \in 1..Len(ev) /\ w[l] = ev[l]
        BY <1>12, <2>1, <3>1, <3>3
      <4>2. N \notin 0..n
        BY DEF N
      <4>3. QED BY <1>10, <4>1, <4>2
    <3>4. CASE l = Len(ev) + 1
      <4>1. w[l].result = 0 /\ w[k].at \in 1..N
        BY <1>12, <2>1, <2>3, <3>1, <3>4
      <4>2. QED BY <1>1, <4>1
    <3>5. QED BY <2>1, <3>2, <3>3, <3>4
  <2>9. QED BY <2>3, <2>4, <2>5, <2>6, <2>7, <2>8 DEF Telling, w
<1>13. CASE e.what = "call"
  <2> DEFINE x == [what |-> "call", id |-> e.id, at |-> N, result |-> 0]
  <2>1. x \in Event(I)
    BY <1>1 DEF Event, Token
  <2>2. \A k \in 1..Len(ev) : ~Answers(stream, N, ev[k].at)
    BY <1>13 DEF Answers
  <2>3. x.what = e.what /\ x.id = e.id /\ x.at = N /\ x.what # "result" /\ x.result = 0
    BY <1>13
  <2>4. Told(ev, e, N) = Append(ev, x)
    BY <1>13 DEF Told
  <2> HIDE DEF x, e, N
  <2>5. Telling(stream, Append(ev, x), N)
    BY <1>12, <2>1, <2>2, <2>3
  <2>6. QED BY <2>4, <2>5 DEF e, N
<1>14. CASE e.what = "result" /\ calls = {}
  <2> DEFINE x == [what |-> "result", id |-> e.id, at |-> N, result |-> N]
  <2>1. x \in Event(I)
    BY <1>1 DEF Event, Token
  <2>2. \A k \in 1..Len(ev) : ev[k].what = "call" => ~Answers(stream, N, ev[k].at)
    BY <1>14, AnsweredIs
  <2>3. x.what = e.what /\ x.id = e.id /\ x.at = N /\ x.result = N /\ x.what # "call"
    BY <1>14
  <2>4. Told(ev, e, N) = Append(ev, x)
    BY <1>14 DEF Told
  <2> HIDE DEF x, e, N, calls
  <2>5. Telling(stream, Append(ev, x), N)
    BY <1>12, <2>1, <2>2, <2>3
  <2>6. QED BY <2>4, <2>5 DEF e, N
<1>15. CASE e.what = "result" /\ calls # {}
  <2> DEFINE w == [i \in DOMAIN ev |-> IF i \in calls THEN [ev[i] EXCEPT !.result = N] ELSE ev[i]]
  <2>1. Told(ev, e, N) = w
    BY <1>15 DEF Told
  <2>2. DOMAIN ev = 1..Len(ev)
    OBVIOUS
  <2>3. DOMAIN w = 1..Len(ev) /\ Len(w) = Len(ev)
    <3>1. w = [i \in 1..Len(ev) |-> IF i \in calls THEN [ev[i] EXCEPT !.result = N] ELSE ev[i]]
      BY <2>2
    <3> HIDE DEF calls, N
    <3>2. QED BY <1>1, <3>1
  <2>4. ASSUME NEW k \in 1..Len(ev)
        PROVE  /\ w[k].what = ev[k].what /\ w[k].id = ev[k].id /\ w[k].at = ev[k].at
               /\ w[k].result = IF k \in calls THEN N ELSE ev[k].result
    <3>1. w[k] = IF k \in calls THEN [ev[k] EXCEPT !.result = N] ELSE ev[k]
      BY <2>2
    <3>2. ev[k] \in Event(I)
      BY <1>2
    <3> HIDE DEF w, calls, N
    <3>3. ASSUME NEW x \in Event(I)
          PROVE  /\ [x EXCEPT !.result = N].what = x.what /\ [x EXCEPT !.result = N].id = x.id
                 /\ [x EXCEPT !.result = N].at = x.at /\ [x EXCEPT !.result = N].result = N
      BY DEF Event
    <3>4. QED BY <3>1, <3>2, <3>3
  <2>5. \A k \in 1..Len(ev) : ev[k].what = "call" => (k \in calls <=> Answers(stream, N, ev[k].at))
    BY <1>15, AnsweredIs
  <2>6. \A k \in calls : k \in 1..Len(ev) /\ ev[k].what = "call" /\ ev[k].result = 0
    BY <2>2 DEF Answered, LatestCall
  <2> HIDE DEF w, e, N, calls
  <2>7. \A k \in 1..Len(w) : w[k].at \in 1..N /\ w[k].what = stream[w[k].at].what /\ w[k].id = stream[w[k].at].id
    <3>1. 1..n \subseteq 1..N
      BY DEF N
    <3>2. QED BY <1>4, <2>3, <2>4, <3>1
  <2>8. \A k, l \in 1..Len(w) : k < l => w[k].at < w[l].at
    BY <1>5, <2>3, <2>4
  <2>9. \A k \in 1..Len(w) : w[k].what = "result" => w[k].result = w[k].at
    <3>1. SUFFICES ASSUME NEW k \in 1..Len(w), w[k].what = "result" PROVE w[k].result = w[k].at
      OBVIOUS
    <3>2. k \in 1..Len(ev) /\ ev[k].what = "result" /\ k \notin calls
      BY <2>3, <2>4, <2>6, <3>1
    <3>3. QED BY <1>6, <2>4, <3>2
  <2>10. ASSUME NEW k \in 1..Len(w), w[k].what = "call"
         PROVE  w[k].result \in 0..N /\ \A j \in 1..N : w[k].result = j <=> Answers(stream, j, w[k].at)
    <3>1. /\ k \in 1..Len(ev) /\ ev[k].what = "call" /\ w[k].at = ev[k].at
          /\ ev[k].result \in 0..n
          /\ \A j \in 1..n : ev[k].result = j <=> Answers(stream, j, w[k].at)
          /\ k \in calls <=> Answers(stream, N, w[k].at)
      BY <1>7, <2>3, <2>4, <2>5, <2>10
    <3>2. 0..n \subseteq 0..N /\ N \notin 0..n /\ N \in 0..N /\ 1..n \subseteq 0..n /\ 0 \notin 1..n
      BY DEF N
    <3>3. CASE k \in calls
      <4>1. w[k].result = N /\ ev[k].result = 0
        BY <2>4, <2>6, <3>1, <3>3
      <4>2. QED BY <1>11, <3>1, <3>2, <3>3, <4>1
    <3>4. CASE k \notin calls
      <4>1. w[k].result = ev[k].result
        BY <2>4, <3>1, <3>4
      <4>2. QED BY <1>11, <3>1, <3>2, <3>4, <4>1
    <3>5. QED BY <3>3, <3>4
  <2>11. \A i \in 1..N : \E k \in 1..Len(w) : w[k].at = i \/ w[k].result = i
    <3>1. SUFFICES ASSUME NEW i \in 1..N PROVE \E k \in 1..Len(w) : w[k].at = i \/ w[k].result = i
      OBVIOUS
    <3>2. CASE i = N
      <4>1. PICK k \in calls : TRUE
        BY <1>15
      <4>2. k \in 1..Len(w) /\ w[k].result = N
        BY <2>3, <2>4, <2>6
      <4>3. QED BY <3>2, <4>2
    <3>3. CASE i \in 1..n
      <4>1. PICK k \in 1..Len(ev) : ev[k].at = i \/ ev[k].result = i
        BY <1>8, <3>3
      <4>2. i # 0
        BY <3>3
      <4>3. w[k].at = i \/ w[k].result = i
        BY <2>4, <2>6, <4>1, <4>2
      <4>4. QED BY <2>3, <4>3
    <3>4. QED BY <1>11, <3>2, <3>3
  <2>12. \A k, l \in 1..Len(w) : w[k].what = "result" /\ w[l].what = "call" => w[l].result # w[k].at
    <3>1. SUFFICES ASSUME NEW k \in 1..Len(w), NEW l \in 1..Len(w), w[k].what = "result", w[l].what = "call"
                   PROVE  w[l].result # w[k].at
      OBVIOUS
    <3>2. /\ k \in 1..Len(ev) /\ l \in 1..Len(ev) /\ ev[k].what = "result" /\ ev[l].what = "call"
          /\ w[k].at = ev[k].at /\ ev[k].at \in 1..n /\ ev[l].result # ev[k].at
      BY <1>4, <1>9, <2>3, <2>4, <3>1
    <3>3. N \notin 1..n
      BY DEF N
    <3>4. w[l].result = N \/ w[l].result = ev[l].result
      BY <2>4, <3>2
    <3>5. QED BY <3>2, <3>3, <3>4
  <2>13. QED BY <2>1, <2>7, <2>8, <2>9, <2>10, <2>11, <2>12 DEF Telling, e, N
<1>16. e.what \in {"call", "result"}
  BY <1>1
<1>17. QED BY <1>13, <1>14, <1>15, <1>16

\* Whatever the stream: every call once with the result that answers it, every
\* other result once.
LEMMA AlwaysPaired ==
  ASSUME NEW I, NEW stream \in Seq(Token(I))
  PROVE  Paired(stream, Events(stream))
<1> DEFINE n == Len(stream)
<1>1. PICK f \in [0..n -> Seq(Event(I))] :
           /\ f[0] = <<>>
           /\ \A m \in 1..n : f[m] = Told(f[m - 1], stream[m], m)
           /\ Events(stream) = f[n]
  BY EventsAre
<1>2. n \in Nat /\ DOMAIN stream = 1..n
  OBVIOUS
<1> HIDE DEF n
<1> DEFINE J == {k \in Nat : k <= n => Telling(stream, f[k], k)}
<1>3. 0 \in J
  BY <1>1, <1>2 DEF Telling
<1>4. ASSUME NEW k \in J PROVE k + 1 \in J
  <2>1. SUFFICES ASSUME k + 1 <= n PROVE Telling(stream, f[k + 1], k + 1)
    OBVIOUS
  <2>2. k \in Nat /\ k + 1 \in 1..n /\ (k + 1) - 1 = k /\ k < n /\ k \in 0..n
    BY <1>2, <2>1
  <2>3. Telling(stream, f[k], k) /\ f[k] \in Seq(Event(I)) /\ f[k + 1] = Told(f[k], stream[k + 1], k + 1)
    BY <1>1, <2>2
  <2> HIDE DEF J
  <2>4. QED BY <2>2, <2>3, TellingStep DEF n
<1>5. Nat \subseteq J
  <2> HIDE DEF J
  <2>1. J \in SUBSET Nat
    BY DEF J
  <2>2. QED BY <1>3, <1>4, <2>1, FromZero
<1> DEFINE ev == f[n]
<1>6. Telling(stream, ev, n) /\ ev \in Seq(Event(I)) /\ Events(stream) = ev
  BY <1>1, <1>2, <1>5
<1> HIDE DEF ev, J
<1>7. DOMAIN ev = 1..Len(ev) /\ Len(ev) \in Nat /\ \A k \in 1..Len(ev) : ev[k] \in Event(I)
  BY <1>6
<1>8. \A k \in 1..Len(ev) : ev[k].what \in {"call", "result"} /\ ev[k].at \in Nat
  BY <1>7 DEF Event
\* A place is in one event only.
<1>9. ASSUME NEW i \in 1..n, NEW k \in 1..Len(ev), NEW l \in 1..Len(ev),
             ev[k].at = i \/ ev[k].result = i, ev[l].at = i \/ ev[l].result = i
      PROVE  k = l
  <2>1. /\ \A g, h \in 1..Len(ev) : ev[g].at = ev[h].at => g = h
    <3>1. SUFFICES ASSUME NEW g \in 1..Len(ev), NEW h \in 1..Len(ev), ev[g].at = ev[h].at PROVE g = h
      OBVIOUS
    <3>2. ~(g < h) /\ ~(h < g)
      BY <1>6, <1>8, <3>1 DEF Telling
    <3>3. QED BY <1>7, <3>2
  <2>2. ASSUME NEW g \in 1..Len(ev), ev[g].what = "call", ev[g].result = i PROVE Answers(stream, i, ev[g].at)
    BY <1>6, <2>2 DEF Telling
  <2>3. \A g \in 1..Len(ev) : ev[g].what = "result" => ev[g].result = ev[g].at
    BY <1>6 DEF Telling
  <2>4. CASE ev[k].at = i /\ ev[l].at = i
    BY <2>1, <2>4
  <2>5. \A g, h \in 1..Len(ev) : ev[g].at = i /\ ev[h].what = "call" /\ ev[h].result = i => FALSE
    <3>1. SUFFICES ASSUME NEW g \in 1..Len(ev), NEW h \in 1..Len(ev),
                          ev[g].at = i, ev[h].what = "call", ev[h].result = i
                   PROVE  FALSE
      OBVIOUS
    <3>2. stream[i].what = "result"
      BY <2>2, <3>1 DEF Answers
    <3>3. ev[g].what = "result"
      BY <1>6, <3>1, <3>2 DEF Telling
    <3>4. QED BY <1>6, <3>1, <3>3 DEF Telling
  <2>6. CASE ev[k].what = "call" /\ ev[k].result = i /\ ev[l].what = "call" /\ ev[l].result = i
    <3> DEFINE p == ev[k].at
               q == ev[l].at
    <3>1. Answers(stream, i, p) /\ Answers(stream, i, q) /\ p \in Nat /\ q \in Nat
      BY <1>8, <2>2, <2>6
    <3>2. p \in 1..n /\ q \in 1..n
      BY <1>6 DEF Telling
    <3> HIDE DEF p, q
    <3>3. ~(p < q) /\ ~(q < p)
      BY <1>2, <3>1, <3>2 DEF Answers
    <3>4. p = q
      BY <3>1, <3>3
    <3>5. QED BY <2>1, <3>4 DEF p, q
  <2>7. QED BY <1>8, <1>9, <2>3, <2>4, <2>5, <2>6
<1>10. ASSUME NEW i \in 1..n
       PROVE  Cardinality({k \in 1..Len(ev) : ev[k].at = i \/ ev[k].result = i}) = 1
  <2>1. PICK k \in 1..Len(ev) : ev[k].at = i \/ ev[k].result = i
    BY <1>6 DEF Telling
  <2>2. {h \in 1..Len(ev) : ev[h].at = i \/ ev[h].result = i} = {k}
    BY <1>9, <2>1
  <2>3. Cardinality({k}) = 1
    BY FS_Singleton
  <2>4. QED BY <2>2, <2>3
<1>11. ASSUME NEW k \in 1..Len(ev), ev[k].what = "call", NEW j \in 1..n
       PROVE  ev[k].result = j <=> Answers(stream, j, ev[k].at)
  BY <1>6, <1>11 DEF Telling
<1>12. Paired(stream, ev)
  BY <1>2, <1>7, <1>10, <1>11 DEF Paired
<1>13. QED BY <1>6, <1>12

-----------------------------------------------------------------------------
(***************************************************************************)
(* The walk up a chain of parents.                                         *)
(***************************************************************************)
Walk(parent, leaf) ==
  [at : {leaf, NoNode} \union {parent[d] : d \in DOMAIN parent}, path : Seq(DOMAIN parent), broken : BOOLEAN]

\* Where a walk stands after n steps.
Walking(parent, leaf, n, w) ==
  /\ w \in Walk(parent, leaf)
  /\ w.at = IF Len(w.path) = 0 THEN leaf ELSE parent[w.path[Len(w.path)]]
  /\ \A i, j \in 1..Len(w.path) : w.path[i] = w.path[j] => i = j
  /\ w.broken => w.at # NoNode
  /\ Len(w.path) # 0 => leaf # NoNode
  /\ ~w.broken /\ w.at # NoNode => Len(w.path) = n

LEMMA WalkingStep ==
  ASSUME NEW parent, NEW leaf, NEW n \in Nat, NEW w, Walking(parent, leaf, n, w)
  PROVE  Walking(parent, leaf, n + 1, StepUp(parent, w))
<1> DEFINE D == DOMAIN parent
           A == {leaf, NoNode} \union {parent[d] : d \in DOMAIN parent}
           v == StepUp(parent, w)
<1>1. /\ w \in [at : A, path : Seq(D), broken : BOOLEAN]
      /\ w.at \in A /\ w.path \in Seq(D) /\ w.broken \in BOOLEAN
      /\ w.at = IF Len(w.path) = 0 THEN leaf ELSE parent[w.path[Len(w.path)]]
      /\ \A i, j \in 1..Len(w.path) : w.path[i] = w.path[j] => i = j
      /\ w.broken => w.at # NoNode
      /\ Len(w.path) # 0 => leaf # NoNode
      /\ ~w.broken /\ w.at # NoNode => Len(w.path) = n
  BY DEF Walking, Walk
<1>2. CASE w.at = NoNode \/ w.broken
  BY <1>1, <1>2 DEF StepUp, Walking, Walk
<1>3. CASE ~(w.at = NoNode \/ w.broken) /\ (w.at \notin D \/ w.at \in ToSet(w.path))
  <2>1. v = [w EXCEPT !.broken = TRUE]
    BY <1>3 DEF StepUp
  <2> HIDE DEF A, D
  <2>2. /\ [w EXCEPT !.broken = TRUE] \in [at : A, path : Seq(D), broken : BOOLEAN]
        /\ [w EXCEPT !.broken = TRUE].at = w.at /\ [w EXCEPT !.broken = TRUE].path = w.path
        /\ [w EXCEPT !.broken = TRUE].broken = TRUE
    BY <1>1
  <2>3. v \in Walk(parent, leaf) /\ v.at = w.at /\ v.path = w.path /\ v.broken
    BY <2>1, <2>2 DEF Walk, A, D
  <2> HIDE DEF v
  <2>4. QED BY <1>1, <1>3, <2>3 DEF Walking, v
<1>4. CASE ~(w.at = NoNode \/ w.broken) /\ ~(w.at \notin D \/ w.at \in ToSet(w.path))
  <2> DEFINE q == Append(w.path, w.at)
  <2>1. v = [w EXCEPT !.path = q, !.at = parent[w.at]]
    BY <1>4 DEF StepUp
  <2>2. w.at \in D /\ parent[w.at] \in A /\ q \in Seq(D)
    BY <1>1, <1>4
  <2>3. /\ Len(q) = Len(w.path) + 1 /\ q[Len(q)] = w.at
        /\ \A i \in 1..Len(w.path) : q[i] = w.path[i]
        /\ \A i \in 1..Len(q) : i \in 1..Len(w.path) \/ i = Len(q)
        /\ Len(w.path) \in Nat
    <3>1. w.path \in Seq(D) /\ w.at \in D
      BY <1>1, <2>2
    <3> HIDE DEF D
    <3>2. QED BY <3>1
  <2>4. \A i \in 1..Len(w.path) : w.path[i] # w.at
    <3>1. ToSet(w.path) = {w.path[i] : i \in 1..Len(w.path)}
      BY <1>1 DEF ToSet
    <3>2. QED BY <1>4, <3>1
  <2> HIDE DEF A, D, q
  <2>5. ASSUME NEW x, x = [w EXCEPT !.path = q, !.at = parent[w.at]]
        PROVE  /\ x \in [at : A, path : Seq(D), broken : BOOLEAN]
               /\ x.at = parent[w.at] /\ x.path = q /\ x.broken = w.broken
    BY <1>1, <2>2, <2>5
  <2>6. v \in Walk(parent, leaf) /\ v.at = parent[w.at] /\ v.path = q /\ v.broken = w.broken
    BY <2>1, <2>5 DEF Walk, A, D
  <2>7. \A i, j \in 1..Len(q) : q[i] = q[j] => i = j
    BY <1>1, <2>3, <2>4
  <2>8. leaf # NoNode
    BY <1>1, <1>4
  <2> HIDE DEF v
  <2>9. Len(q) # 0 /\ Len(q) = n + 1 /\ ~v.broken
    BY <1>1, <1>4, <2>3, <2>6
  <2>10. QED BY <2>3, <2>6, <2>7, <2>8, <2>9 DEF Walking, v
<1>5. QED BY <1>2, <1>3, <1>4

\* A path without repetition is no longer than there are entries.
LEMMA PathFits ==
  ASSUME NEW D, IsFiniteSet(D), NEW q \in Seq(D), \A i, j \in 1..Len(q) : q[i] = q[j] => i = j
  PROVE  Len(q) <= Cardinality(D)
<1> DEFINE L == Len(q)
           B == {q[i] : i \in 1..L}
<1>1. L \in Nat /\ B \subseteq D /\ q \in [1..L -> B]
  OBVIOUS
<1>2. IsFiniteSet(1..L) /\ Cardinality(1..L) = L
  <2> HIDE DEF L
  <2>1. 1 \in Int /\ L \in Int
    BY <1>1
  <2>2. IsFiniteSet(1..L) /\ Cardinality(1..L) = IF 1 > L THEN 0 ELSE L - 1 + 1
    BY Zenon, <2>1, FS_Interval
  <2>3. QED BY <1>1, <2>2
<1>3. Cardinality(B) = L
  <2>1. \A b \in B : \E i \in 1..L : q[i] = b
    OBVIOUS
  <2> HIDE DEF B, L
  <2>2. \A i, j \in 1..L : q[i] = q[j] => i = j
    BY DEF L
  <2>3. QED BY <1>1, <1>2, <2>1, <2>2, SameSize
<1>4. Cardinality(B) <= Cardinality(D)
  BY <1>1, FS_Subset
<1>5. QED BY <1>3, <1>4

\* A walk is a path of entries; it is broken if what it ends at has a parent,
\* or it could not begin.
LEMMA WalkIs ==
  ASSUME NEW parent, NEW leaf, IsFiniteSet(DOMAIN parent)
  PROVE  /\ WalkLeaf(parent, leaf).path \in Seq(DOMAIN parent)
         /\ WalkLeaf(parent, leaf).broken \in BOOLEAN
         /\ WalkLeaf(parent, leaf).broken <=>
              /\ leaf # NoNode
              /\ \/ Len(WalkLeaf(parent, leaf).path) = 0
                 \/ parent[WalkLeaf(parent, leaf).path[Len(WalkLeaf(parent, leaf).path)]] # NoNode
<1> DEFINE N == Cardinality(DOMAIN parent) + 1
           S == Walk(parent, leaf)
           base == [at |-> leaf, path |-> <<>>, broken |-> FALSE]
           G == [m \in 1..N |-> [w \in S |-> IF \E k \in Nat : Walking(parent, leaf, k, w) THEN StepUp(parent, w) ELSE w]]
           Intact(f) == f = [m \in 0..N |-> IF m = 0 THEN base ELSE StepUp(parent, f[m - 1])]
           f0 == CHOOSE f : Intact(f)
<1>1. N \in Nat /\ Cardinality(DOMAIN parent) \in Nat /\ N # 0
  BY FS_CardinalityType
<1>2. base \in S /\ Walking(parent, leaf, 0, base)
  <2>1. <<>> \in Seq(DOMAIN parent)
    OBVIOUS
  <2>2. base \in S
    BY <2>1 DEF Walk
  <2>3. QED BY <2>2 DEF Walking
<1>3. G \in [1..N -> [S -> S]]
  <2>1. ASSUME NEW w \in S, NEW k \in Nat, Walking(parent, leaf, k, w) PROVE StepUp(parent, w) \in S
    <3>1. Walking(parent, leaf, k + 1, StepUp(parent, w))
      BY <2>1, WalkingStep
    <3>2. QED BY <3>1 DEF Walking
  <2> HIDE DEF S, N
  <2>2. QED BY <2>1
<1>4. PICK f \in [0..N -> S] : f[0] = base /\ \A m \in 1..N : f[m] = G[m][f[m - 1]]
  <2> HIDE DEF G, S, N, base, Intact, f0
  <2>1. N \in Nat /\ base \in S
    BY <1>1, <1>2
  <2>2. QED BY <1>3, <2>1, Folding
<1> HIDE DEF S, N, base
<1>5. \A m \in 1..N : f[m] = IF \E k \in Nat : Walking(parent, leaf, k, f[m - 1]) THEN StepUp(parent, f[m - 1]) ELSE f[m - 1]
  <2>1. SUFFICES ASSUME NEW m \in 1..N
                 PROVE  f[m] = IF \E k \in Nat : Walking(parent, leaf, k, f[m - 1]) THEN StepUp(parent, f[m - 1]) ELSE f[m - 1]
    OBVIOUS
  <2>2. m - 1 \in 0..N /\ f[m - 1] \in S /\ f[m] = G[m][f[m - 1]]
    BY <1>1, <1>4
  <2>3. QED BY <2>2
<1> HIDE DEF G
<1>6. \A m \in 0..N : Walking(parent, leaf, m, f[m])
  <2> DEFINE J == {k \in Nat : k <= N => Walking(parent, leaf, k, f[k])}
  <2>1. 0 \in J
    BY <1>2, <1>4
  <2>2. ASSUME NEW k \in J PROVE k + 1 \in J
    <3>1. SUFFICES ASSUME k + 1 <= N PROVE Walking(parent, leaf, k + 1, f[k + 1])
      OBVIOUS
    <3>2. k \in Nat /\ k + 1 \in 1..N /\ (k + 1) - 1 = k /\ Walking(parent, leaf, k, f[k])
      BY <1>1, <3>1
    <3>3. f[k + 1] = StepUp(parent, f[k])
      BY <1>5, <3>2
    <3>4. QED BY <3>2, <3>3, WalkingStep
  <2>3. Nat \subseteq J
    <3> HIDE DEF J
    <3>1. J \in SUBSET Nat
      BY DEF J
    <3>2. QED BY <2>1, <2>2, <3>1, FromZero
  <2>4. QED BY <1>1, <2>3
<1>7. Intact(f)
  <2>1. \A m \in 0..N : m # 0 => m \in 1..N /\ m - 1 \in 0..N
    BY <1>1
  <2>2. \A m \in 0..N : m - 1 \in 0..N => m - 1 \in Nat
    BY <1>1
  <2>3. \A m \in 1..N : f[m] = StepUp(parent, f[m - 1])
    <3>1. \A m \in 1..N : m - 1 \in 0..N /\ m - 1 \in Nat /\ m \in 0..N /\ m # 0
      BY <1>1
    <3>2. QED BY <1>5, <1>6, <3>1
  <2>4. QED BY <1>4, <2>1, <2>3
<1>8. Intact(f0)
  <2> HIDE DEF Intact
  <2>1. QED BY <1>7
<1>9. /\ WalkLeaf(parent, leaf).path = f0[N].path
      /\ WalkLeaf(parent, leaf).broken = f0[N].broken
  BY Zenon DEF WalkLeaf, N, base
<1> HIDE DEF f0
<1>10. \A m \in 0..N : Walking(parent, leaf, m, f0[m])
  <2>1. f0[0] = base /\ \A m \in 1..N : f0[m] = StepUp(parent, f0[m - 1])
    BY <1>1, <1>8
  <2> HIDE DEF Intact
  <2> DEFINE J == {k \in Nat : k <= N => Walking(parent, leaf, k, f0[k])}
  <2>2. 0 \in J
    BY <1>2, <2>1
  <2>3. ASSUME NEW k \in J PROVE k + 1 \in J
    <3>1. SUFFICES ASSUME k + 1 <= N PROVE Walking(parent, leaf, k + 1, f0[k + 1])
      OBVIOUS
    <3>2. k \in Nat /\ k + 1 \in 1..N /\ (k + 1) - 1 = k /\ Walking(parent, leaf, k, f0[k])
      BY <1>1, <3>1
    <3>3. f0[k + 1] = StepUp(parent, f0[k])
      BY <2>1, <3>2
    <3>4. QED BY <3>2, <3>3, WalkingStep
  <2>4. Nat \subseteq J
    <3> HIDE DEF J
    <3>1. J \in SUBSET Nat
      BY DEF J
    <3>2. QED BY <2>2, <2>3, <3>1, FromZero
  <2>5. QED BY <1>1, <2>4
<1> HIDE DEF Intact
<1> DEFINE w == f0[N]
<1>11. Walking(parent, leaf, N, w)
  BY <1>1, <1>10
<1> HIDE DEF w
<1>12. w.path \in Seq(DOMAIN parent) /\ w.broken \in BOOLEAN
  BY <1>11 DEF Walking, Walk
\* It came to an end within the entries there are.
<1>13. w.broken \/ w.at = NoNode
  <2>1. SUFFICES ASSUME ~w.broken, w.at # NoNode PROVE FALSE
    OBVIOUS
  <2>2. Len(w.path) = N /\ \A i, j \in 1..Len(w.path) : w.path[i] = w.path[j] => i = j
    BY <1>11, <2>1 DEF Walking
  <2>3. Len(w.path) <= Cardinality(DOMAIN parent)
    BY <1>12, <2>2, PathFits
  <2>4. QED BY <1>1, <2>2, <2>3 DEF N
<1>14. w.broken <=> /\ leaf # NoNode
                    /\ Len(w.path) = 0 \/ parent[w.path[Len(w.path)]] # NoNode
  BY <1>11, <1>12, <1>13 DEF Walking
<1>15. QED BY <1>9, <1>12, <1>14 DEF w

-----------------------------------------------------------------------------
(***************************************************************************)
(* What a capture counts, beside what the readers of the copy show.        *)
(***************************************************************************)
\* What claude's capture counted of a prefix, and what its readers kept of it.
Counting(out, kept) ==
  /\ out.seen = {u \in ToSet(kept) : KindOf[u] \in {"prompt", "reply", "call"}}
  /\ out.user = Count(Kind(kept), "prompt")
  /\ out.assistant = Count(Kind(kept), "reply") + Count(Kind(kept), "call")

Tally == [seen : SUBSET DOMAIN KindOf, user : Nat, assistant : Nat]

Deduping(kept, u) == IF u \in ToSet(kept) THEN kept ELSE Append(kept, u)

LEMMA ScanTyped ==
  ASSUME NEW out \in Tally, NEW u \in DOMAIN KindOf
  PROVE  ScanLine(out, u) \in Tally
<1>1. out.seen \union {u} \in SUBSET DOMAIN KindOf /\ out.user + 1 \in Nat /\ out.assistant + 1 \in Nat
  BY DEF Tally
<1>2. ASSUME NEW S \in SUBSET DOMAIN KindOf, NEW k \in Nat
      PROVE  /\ [out EXCEPT !.seen = S, !.user = k] \in Tally
             /\ [out EXCEPT !.seen = S, !.assistant = k] \in Tally
  BY DEF Tally
<1>3. QED BY <1>1, <1>2 DEF ScanLine

LEMMA CountingStep ==
  ASSUME NEW out \in Tally, NEW kept \in Seq(DOMAIN KindOf), NEW u \in DOMAIN KindOf, Counting(out, kept)
  PROVE  Counting(ScanLine(out, u), Deduping(kept, u))
<1> DEFINE D == DOMAIN KindOf
           q == Append(kept, u)
           K == {"prompt", "reply", "call"}
           R == {"prompt", "blocks", "reply", "call", "result", "note"}
<1>1. KindOf[u] \in R /\ Kind(kept) \in Seq(R)
  BY ClaudeAssumption DEF Kind
<1>2. q \in Seq(D) /\ ToSet(q) = ToSet(kept) \union {u}
  BY Appending
<1>3. Kind(q) = Append(Kind(kept), KindOf[u])
  BY <1>2 DEF Kind
<1>4. \A r : Count(Kind(kept), r) \in Nat
  BY <1>1, CountIs
<1>5. \A r : Count(Kind(q), r) = Count(Kind(kept), r) + (IF KindOf[u] = r THEN 1 ELSE 0)
  <2> HIDE DEF R, q
  <2>1. QED BY <1>1, <1>3, CountAppended
<1>6. /\ out.seen = {v \in ToSet(kept) : KindOf[v] \in K}
      /\ out.user = Count(Kind(kept), "prompt")
      /\ out.assistant = Count(Kind(kept), "reply") + Count(Kind(kept), "call")
  BY DEF Counting
<1>7. CASE KindOf[u] \notin K
  <2>1. ScanLine(out, u) = out
    BY <1>7 DEF ScanLine
  <2>2. {v \in ToSet(q) : KindOf[v] \in K} = {v \in ToSet(kept) : KindOf[v] \in K}
    BY <1>2, <1>7
  <2>3. Count(Kind(q), "prompt") = Count(Kind(kept), "prompt")
        /\ Count(Kind(q), "reply") = Count(Kind(kept), "reply")
        /\ Count(Kind(q), "call") = Count(Kind(kept), "call")
    BY <1>4, <1>5, <1>7
  <2> HIDE DEF q
  <2>4. Counting(out, q)
    BY <1>6, <2>2, <2>3 DEF Counting
  <2>5. QED BY <2>1, <2>4 DEF Deduping, q
<1>8. CASE KindOf[u] \in K /\ u \in ToSet(kept)
  <2>1. u \in out.seen
    BY <1>6, <1>8
  <2>2. ScanLine(out, u) = out /\ Deduping(kept, u) = kept
    BY <1>8, <2>1 DEF ScanLine, Deduping
  <2>3. QED BY <2>2
<1>9. CASE KindOf[u] \in K /\ u \notin ToSet(kept)
  <2>1. u \notin out.seen
    BY <1>6, <1>9
  <2> DEFINE next == ScanLine(out, u)
  <2>2. /\ next.seen = out.seen \union {u}
        /\ KindOf[u] = "prompt" => next.user = out.user + 1 /\ next.assistant = out.assistant
        /\ KindOf[u] # "prompt" => next.user = out.user /\ next.assistant = out.assistant + 1
    BY <1>9, <2>1 DEF ScanLine, Tally
  <2>3. next.seen = {v \in ToSet(q) : KindOf[v] \in K}
    BY <1>2, <1>6, <1>9, <2>2
  <2>4. next.user = Count(Kind(q), "prompt")
    BY <1>4, <1>5, <1>6, <1>9, <2>2
  <2>5. next.assistant = Count(Kind(q), "reply") + Count(Kind(q), "call")
    BY <1>4, <1>5, <1>6, <1>9, <2>2
  <2> HIDE DEF next, q
  <2>6. Counting(next, q)
    BY <2>3, <2>4, <2>5 DEF Counting
  <2>7. Deduping(kept, u) = q
    BY <1>9 DEF Deduping, q
  <2>8. QED BY <2>6, <2>7 DEF next
<1>10. QED BY <1>7, <1>8, <1>9

LEMMA DedupedAre ==
  ASSUME NEW D, NEW us \in Seq(D)
  PROVE  \E f \in [0..Len(us) -> Seq(D)] :
           /\ f[0] = <<>>
           /\ \A m \in 1..Len(us) : f[m] = Deduping(f[m - 1], us[m])
           /\ Deduped(us) = f[Len(us)]
<1> DEFINE n == Len(us)
           S == Seq(D)
           G == [m \in 1..n |-> [kept \in S |-> Deduping(kept, us[m])]]
           Rule(f) == f = [m \in 0..n |-> IF m = 0 THEN <<>>
                                            ELSE IF us[m] \in ToSet(f[m - 1]) THEN f[m - 1]
                                            ELSE Append(f[m - 1], us[m])]
           f0 == CHOOSE f : Rule(f)
<1>1. n \in Nat /\ <<>> \in S /\ \A m \in 1..n : us[m] \in D
  OBVIOUS
<1>2. \A kept \in S : \A u \in D : Deduping(kept, u) \in S
  <2>1. ASSUME NEW kept \in Seq(D), NEW u \in D
        PROVE  Deduping(kept, u) \in Seq(D)
    <3>1. Append(kept, u) \in Seq(D)
      OBVIOUS
    <3>2. QED BY <3>1 DEF Deduping
  <2>2. QED BY <2>1
<1> HIDE DEF S, n
<1>3. G \in [1..n -> [S -> S]]
  BY <1>1, <1>2
<1>4. PICK f \in [0..n -> S] : f[0] = <<>> /\ \A m \in 1..n : f[m] = G[m][f[m - 1]]
  <2> DEFINE base == <<>>
  <2>1. n \in Nat /\ base \in S
    BY <1>1
  <2> HIDE DEF G, Rule, f0, base
  <2>2. \E f \in [0..n -> S] : f[0] = base /\ \A m \in 1..n : f[m] = G[m][f[m - 1]]
    BY ONLY <1>3, <2>1, Folding
  <2>3. QED BY <2>2 DEF base
<1>5. \A m \in 0..n : m # 0 => m \in 1..n /\ m - 1 \in 0..n
  BY <1>1
<1>6. ASSUME NEW m \in 1..n PROVE f[m] = Deduping(f[m - 1], us[m])
  <2>1. m - 1 \in 0..n
    BY <1>1
  <2>2. f[m - 1] \in S /\ f[m] = G[m][f[m - 1]]
    BY <1>4, <2>1
  <2>3. G[m] = [kept \in S |-> Deduping(kept, us[m])]
    OBVIOUS
  <2> HIDE DEF G
  <2>4. QED BY <2>2, <2>3
<1>7. Rule(f)
  BY <1>4, <1>5, <1>6 DEF Deduping
<1>8. Rule(f0)
  <2> HIDE DEF Rule
  <2>1. QED BY <1>7
<1>9. Deduped(us) = f0[n]
  BY Zenon DEF Deduped, n
<1> HIDE DEF f0
\* The function the definition chooses is this one.
<1>10. f0[0] = <<>> /\ \A m \in 1..n : f0[m] = Deduping(f0[m - 1], us[m])
  <2>1. 0 \in 0..n /\ \A m \in 1..n : m \in 0..n /\ m # 0
    BY <1>1
  <2>2. f0[0] = <<>>
    BY <1>8, <2>1
  <2>3. ASSUME NEW m \in 1..n PROVE f0[m] = Deduping(f0[m - 1], us[m])
    BY <1>8, <2>1 DEF Deduping
  <2>4. QED BY <2>2, <2>3
<1>11. f0 \in [0..n -> S]
  <2> DEFINE J == {k \in Nat : k <= n => f0[k] \in S}
  <2>1. 0 \in J
    BY <1>1, <1>10
  <2>2. ASSUME NEW k \in J PROVE k + 1 \in J
    <3>1. SUFFICES ASSUME k + 1 <= n PROVE f0[k + 1] \in S
      OBVIOUS
    <3>2. k + 1 \in 1..n /\ (k + 1) - 1 = k /\ k <= n
      BY <1>1, <3>1
    <3>3. f0[k] \in S /\ f0[k + 1] = Deduping(f0[k], us[k + 1])
      BY <1>10, <3>2
    <3>4. QED BY <1>1, <1>2, <3>2, <3>3
  <2>3. Nat \subseteq J
    <3> HIDE DEF J
    <3>1. J \in SUBSET Nat
      BY DEF J
    <3>2. QED BY <2>1, <2>2, <3>1, FromZero
  <2>4. \A k \in 0..n : f0[k] \in S
    BY <1>1, <2>3
  <2>5. QED BY <1>8, <2>4
<1>12. QED BY <1>9, <1>10, <1>11 DEF n, S

\* The capture counts what the readers find: each uuid once.
LEMMA ScanCounts ==
  ASSUME NEW D, D = DOMAIN KindOf, NEW us \in Seq(D)
  PROVE  /\ Deduped(us) \in Seq(D)
         /\ Scanned(us).user = Count(Kind(Deduped(us)), "prompt")
         /\ Scanned(us).assistant = Count(Kind(Deduped(us)), "reply") + Count(Kind(Deduped(us)), "call")
<1> DEFINE n == Len(us)
           base == [seen |-> {}, user |-> 0, assistant |-> 0]
           G == [m \in 1..n |-> [out \in Tally |-> ScanLine(out, us[m])]]
           Rule(g) == g = [m \in 0..n |-> IF m = 0 THEN base ELSE ScanLine(g[m - 1], us[m])]
           g0 == CHOOSE g : Rule(g)
<1>1. n \in Nat /\ base \in Tally /\ \A m \in 1..n : us[m] \in D
  BY DEF Tally
<1>2. Counting(base, <<>>)
  <2>1. ToSet(<<>>) = {}
    BY DEF ToSet
  <2>2. Kind(<<>>) = <<>>
    BY DEF Kind
  <2>3. Count(Kind(<<>>), "prompt") = 0 /\ Count(Kind(<<>>), "reply") = 0 /\ Count(Kind(<<>>), "call") = 0
    BY <2>2, CountNone
  <2>4. QED BY <2>1, <2>3 DEF Counting
<1> HIDE DEF n, base
<1>3. G \in [1..n -> [Tally -> Tally]]
  BY <1>1, ScanTyped
<1>4. PICK g \in [0..n -> Tally] : g[0] = base /\ \A m \in 1..n : g[m] = G[m][g[m - 1]]
  <2> HIDE DEF G, Rule, g0
  <2>1. n \in Nat /\ base \in Tally
    BY <1>1
  <2>2. QED BY ONLY <1>3, <2>1, Folding
<1>5. PICK f \in [0..n -> Seq(D)] :
        /\ f[0] = <<>>
        /\ \A m \in 1..n : f[m] = Deduping(f[m - 1], us[m])
        /\ Deduped(us) = f[n]
  BY DedupedAre DEF n
<1>6. \A m \in 0..n : m # 0 => m \in 1..n /\ m - 1 \in 0..n
  BY <1>1
<1>7. ASSUME NEW m \in 1..n PROVE g[m] = ScanLine(g[m - 1], us[m])
  <2>1. m - 1 \in 0..n
    BY <1>1
  <2>2. g[m - 1] \in Tally /\ g[m] = G[m][g[m - 1]]
    BY <1>4, <2>1
  <2>3. G[m] = [out \in Tally |-> ScanLine(out, us[m])]
    OBVIOUS
  <2> HIDE DEF G
  <2>4. QED BY <2>2, <2>3
<1>8. Rule(g)
  BY <1>4, <1>6, <1>7
<1>9. Rule(g0)
  <2> HIDE DEF Rule
  <2>1. QED BY <1>8
<1>10. Scanned(us) = g0[n]
  BY Zenon DEF Scanned, n, base
<1> HIDE DEF g0
<1>11. g0[0] = base /\ \A m \in 1..n : g0[m] = ScanLine(g0[m - 1], us[m])
  <2>1. 0 \in 0..n /\ \A m \in 1..n : m \in 0..n /\ m # 0
    BY <1>1
  <2>2. g0[0] = base
    BY <1>9, <2>1
  <2>3. ASSUME NEW m \in 1..n PROVE g0[m] = ScanLine(g0[m - 1], us[m])
    BY <1>9, <2>1
  <2>4. QED BY <2>2, <2>3
<1> DEFINE J == {k \in Nat : k <= n => g0[k] \in Tally /\ Counting(g0[k], f[k])}
<1>12. 0 \in J
  BY <1>1, <1>5, <1>2, <1>11
<1>13. ASSUME NEW k \in J PROVE k + 1 \in J
  <2>1. SUFFICES ASSUME k + 1 <= n PROVE g0[k + 1] \in Tally /\ Counting(g0[k + 1], f[k + 1])
    OBVIOUS
  <2>2. k + 1 \in 1..n /\ (k + 1) - 1 = k /\ k <= n /\ k \in 0..n
    BY <1>1, <2>1
  <2>3. /\ g0[k] \in Tally /\ Counting(g0[k], f[k]) /\ f[k] \in Seq(D)
        /\ us[k + 1] \in DOMAIN KindOf
        /\ g0[k + 1] = ScanLine(g0[k], us[k + 1]) /\ f[k + 1] = Deduping(f[k], us[k + 1])
    BY <1>1, <1>5, <1>11, <2>2
  <2> HIDE DEF J, Rule
  <2>4. QED BY <2>3, ScanTyped, CountingStep
<1>14. Nat \subseteq J
  <2> HIDE DEF J
  <2>1. J \in SUBSET Nat
    BY DEF J
  <2>2. QED BY <1>12, <1>13, <2>1, FromZero
<1>15. Counting(g0[n], f[n]) /\ f[n] \in Seq(D)
  BY <1>1, <1>5, <1>14
<1>16. QED BY <1>5, <1>10, <1>15 DEF Counting

\* The records of a copy are records.
LEMMA RecordsTyped ==
  ASSUME NEW c \in ClaudeCopy
  PROVE  Records(c) \in Seq(DOMAIN KindOf)
<1> DEFINE T == DOMAIN KindOf \union {NoNode}
           lines == IF c.tail = "partial" THEN Front(c.lines) ELSE c.lines
<1>1. c.lines \in Seq(T) /\ lines \in Seq(T)
  BY DEF ClaudeCopy, Front
<1>2. Records(c) = Without(lines, {NoNode})
  BY DEF Records
<1> HIDE DEF lines, T
<1>3. Records(c) \in Seq(T) /\ ToSet(Records(c)) = ToSet(lines) \ {NoNode}
  BY <1>1, <1>2, WithoutElements
<1>4. \A i \in 1..Len(Records(c)) : Records(c)[i] \in T /\ Records(c)[i] # NoNode
  BY <1>3 DEF ToSet
<1>5. QED BY <1>3, <1>4 DEF T

\* So the facts are those of the copy, by what its readers show.
LEMMA ClaudeReadsIt ==
  ASSUME NEW r, r.copy.main \in ClaudeCopy, r.facts = CaptureScan(r.copy.main)
  PROVE  ClaudeReads(r)
<1> DEFINE us == Records(r.copy.main)
<1>1. us \in Seq(DOMAIN KindOf)
  BY RecordsTyped
<1>2. /\ r.facts.user = Scanned(us).user /\ r.facts.assistant = Scanned(us).assistant
      /\ r.facts.print = Fingerprint(r.copy.main)
  BY DEF CaptureScan
<1> DEFINE kinds == Kind(Deduped(us))
           S == {"prompt", "blocks", "reply"}
<1>3. /\ Deduped(us) \in Seq(DOMAIN KindOf)
      /\ r.facts.user = Count(kinds, "prompt")
      /\ r.facts.assistant = Count(kinds, "reply") + Count(kinds, "call")
  BY <1>1, <1>2, ScanCounts
<1>4. kinds \in Seq({KindOf[u] : u \in DOMAIN KindOf})
  <2> DEFINE ds == Deduped(us)
             R == {KindOf[u] : u \in DOMAIN KindOf}
  <2>1. Len(ds) \in Nat /\ DOMAIN ds = 1..Len(ds) /\ \A i \in 1..Len(ds) : ds[i] \in DOMAIN KindOf
    BY <1>3
  <2>2. kinds = [i \in 1..Len(ds) |-> KindOf[ds[i]]]
    BY <2>1 DEF Kind
  <2>3. \A i \in 1..Len(ds) : KindOf[ds[i]] \in R
    BY <2>1
  <2> HIDE DEF ds, kinds, R
  <2>4. QED BY <2>1, <2>2, <2>3
<1>5. ClaudeTurns(r.copy.main) = Only(kinds, S)
  BY DEF ClaudeTurns
<1>6. \A x \in S : Count(Only(kinds, S), x) = Count(kinds, x)
  <2> HIDE DEF S, kinds
  <2>1. QED BY <1>4, OnlyCounts
<1>7. "prompt" \in S /\ "reply" \in S
  OBVIOUS
<1>8. Kind(Deduped(Records(r.copy.main))) = kinds
  OBVIOUS
<1> HIDE DEF S, kinds
<1>9. QED BY <1>2, <1>3, <1>5, <1>6, <1>7, <1>8 DEF ClaudeReads

\* A claude transcript's stream is one of calls and results.
LEMMA StreamTyped ==
  ASSUME NEW c \in ClaudeCopy
  PROVE  Stream(c) \in Seq(Token({"tool"}))
<1> DEFINE S == {u \in DOMAIN KindOf : KindOf[u] \in {"call", "result"}}
           us == Only(Deduped(Records(c)), S)
<1>1. us \in Seq(DOMAIN KindOf)
  <2>1. Deduped(Records(c)) \in Seq(DOMAIN KindOf)
    BY RecordsTyped, ScanCounts
  <2>2. QED BY <2>1, OnlyEmbeds
<1>2. Stream(c) = [i \in DOMAIN us |-> IF KindOf[us[i]] = "call" THEN Call("tool") ELSE Result("tool")]
  BY DEF Stream
<1>3. Call("tool") \in Token({"tool"}) /\ Result("tool") \in Token({"tool"})
  BY DEF Call, Result, Token
<1> HIDE DEF us
<1>4. QED BY <1>1, <1>2, <1>3

\* What is known of a row: how many nodes it has, however they hang together.
IsRow(s) == s \in Row /\ IsFiniteSet(DOMAIN s.nodes)

\* What devin's capture counted, and the readers find, on a row's chain.
LEMMA ChainIs ==
  ASSUME NEW s, IsRow(s)
  PROVE  /\ ChainKinds(s) \in Seq(Kinds)
         /\ AnalyzeChain(s).user = Count(ChainKinds(s), "prompt")
         /\ AnalyzeChain(s).assistant = Count(ChainKinds(s), "reply") + Count(ChainKinds(s), "call")
         /\ AnalyzeChain(s).incomplete <=>
              /\ s.head # NoNode
              /\ ActiveChain(s) = <<>> \/ s.nodes[Head(ActiveChain(s))].parent # NoNode
<1> DEFINE D == DOMAIN s.nodes
           P == ParentIds(s)
           walk == WalkLeaf(P, s.head)
           path == walk.path
           n == Len(path)
           kinds == [i \in DOMAIN path |-> s.nodes[path[i]].kind]
<1>1. IsFiniteSet(D) /\ \A d \in D : s.nodes[d] \in Node
  <2>1. s.nodes \in UNION {[N -> Node] : N \in SUBSET Nodes}
    BY DEF IsRow, Row
  <2>2. PICK N \in SUBSET Nodes : s.nodes \in [N -> Node]
    BY <2>1
  <2>3. QED BY <2>2 DEF IsRow
<1>2. DOMAIN P = D /\ \A d \in D : P[d] = s.nodes[d].parent
  BY DEF ParentIds
<1> HIDE DEF P
<1>3. /\ path \in Seq(D) /\ walk.broken \in BOOLEAN
      /\ walk.broken <=> /\ s.head # NoNode
                         /\ n = 0 \/ P[path[n]] # NoNode
  BY <1>1, <1>2, WalkIs
<1>4. /\ AnalyzeChain(s).user = Count(kinds, "prompt")
      /\ AnalyzeChain(s).assistant = Count(kinds, "reply") + Count(kinds, "call")
      /\ AnalyzeChain(s).incomplete = walk.broken
  BY DEF AnalyzeChain, P
<1>5. ActiveChain(s) = Reverse(path)
  BY DEF ActiveChain, P
<1> HIDE DEF walk
<1>6. n \in Nat /\ DOMAIN path = 1..n /\ \A i \in 1..n : path[i] \in D
  BY <1>3
<1>7. kinds \in Seq(Kinds) /\ Len(kinds) = n
  <2>1. \A i \in 1..n : s.nodes[path[i]].kind \in Kinds
    BY <1>1, <1>6 DEF Node
  <2>2. kinds = [i \in 1..n |-> s.nodes[path[i]].kind]
    BY <1>6
  <2> HIDE DEF n
  <2>3. QED BY <1>6, <2>1, <2>2
<1>8. /\ Reverse(path) \in Seq(D) /\ Len(Reverse(path)) = n
      /\ \A i \in 1..n : Reverse(path)[i] = path[n - i + 1]
  BY <1>3, Reversing
<1>9. /\ Reverse(kinds) \in Seq(Kinds) /\ Len(Reverse(kinds)) = n
      /\ \A i \in 1..n : Reverse(kinds)[i] = kinds[n - i + 1]
      /\ \A r : Count(Reverse(kinds), r) = Count(kinds, r)
  <2> HIDE DEF kinds, n
  <2>1. QED BY <1>7, Reversing
<1>10. ChainKinds(s) = Reverse(kinds)
  <2>1. DOMAIN Reverse(path) = 1..n /\ DOMAIN Reverse(kinds) = 1..n
    BY <1>8, <1>9
  <2>2. Reverse(kinds) = [i \in 1..n |-> Reverse(kinds)[i]]
    BY <1>9
  <2>3. ChainKinds(s) = [i \in 1..n |-> s.nodes[Reverse(path)[i]].kind]
    BY <1>5, <2>1 DEF ChainKinds
  <2>4. ASSUME NEW i \in 1..n PROVE Reverse(kinds)[i] = s.nodes[Reverse(path)[i]].kind
    <3>1. n - i + 1 \in 1..n
      BY <1>6
    <3>2. kinds[n - i + 1] = s.nodes[path[n - i + 1]].kind
      BY <1>6, <3>1
    <3>3. QED BY <1>8, <1>9, <3>2
  <2> HIDE DEF kinds, n
  <2>5. QED BY <2>2, <2>3, <2>4
<1>11. s.head # NoNode /\ (n = 0 \/ P[path[n]] # NoNode)
         <=> /\ s.head # NoNode
             /\ ActiveChain(s) = <<>> \/ s.nodes[Head(ActiveChain(s))].parent # NoNode
  <2>1. CASE n = 0
    BY <1>5, <1>8, <2>1
  <2>2. CASE n # 0
    <3>1. 1 \in 1..n /\ n - 1 + 1 = n /\ n \in 1..n
      BY <1>6, <2>2
    <3>2. ActiveChain(s) # <<>> /\ Head(ActiveChain(s)) = path[n]
      BY <1>5, <1>8, <2>2, <3>1
    <3>3. P[path[n]] = s.nodes[path[n]].parent
      BY <1>2, <1>6, <3>1
    <3>4. QED BY <2>2, <3>2, <3>3
  <2>3. QED BY <2>1, <2>2
<1> HIDE DEF kinds, n, path
<1>12. QED BY <1>3, <1>4, <1>9, <1>10, <1>11

\* So the facts are those of the row, by what its readers show.
LEMMA DevinReadsIt ==
  ASSUME NEW r, IsRow(r.copy), r.facts = Facts(AnalyzeChain(r.copy), r.copy)
  PROVE  DevinReads(r)
<1> DEFINE s == r.copy
<1>1. Turns(s) = Only(ChainKinds(s), {"prompt", "reply"})
  BY DEF Turns
<1>2. /\ Count(Turns(s), "prompt") = Count(ChainKinds(s), "prompt")
      /\ Count(Turns(s), "reply") = Count(ChainKinds(s), "reply")
  <2>1. ChainKinds(s) \in Seq(Kinds)
    BY ChainIs
  <2> DEFINE S == {"prompt", "reply"}
             kinds == ChainKinds(s)
  <2> HIDE DEF S, kinds
  <2>2. \A x \in S : Count(Only(kinds, S), x) = Count(kinds, x)
    BY <2>1, OnlyCounts DEF kinds
  <2>3. "prompt" \in S /\ "reply" \in S /\ Turns(s) = Only(kinds, S)
    BY <1>1 DEF S, kinds
  <2>4. QED BY <2>2, <2>3 DEF kinds
<1>3. /\ r.facts.user = AnalyzeChain(s).user
      /\ r.facts.assistant = AnalyzeChain(s).assistant
      /\ r.facts.incomplete = AnalyzeChain(s).incomplete
      /\ r.facts.print.sha = HashConversation(s)
  BY DEF Facts
<1>4. /\ AnalyzeChain(s).user = Count(ChainKinds(s), "prompt")
      /\ AnalyzeChain(s).assistant = Count(ChainKinds(s), "reply") + Count(ChainKinds(s), "call")
      /\ AnalyzeChain(s).incomplete <=>
           /\ s.head # NoNode
           /\ ActiveChain(s) = <<>> \/ s.nodes[Head(ActiveChain(s))].parent # NoNode
  BY ChainIs
<1>5. QED BY <1>2, <1>3, <1>4 DEF DevinReads

\* A row's stream is one of calls and results.
LEMMA DevinStreamTyped ==
  ASSUME NEW s, IsRow(s)
  PROVE  DevinStream(s) \in Seq(Token({"tool"}))
<1> DEFINE told == Only(ChainKinds(s), {"call", "answer"})
           shown == [i \in DOMAIN told |-> IF told[i] = "call" THEN Call("tool") ELSE Result("tool")]
           rest == IF s.calls = "answered" /\ Count(told, "answer") = 0 THEN <<Result("tool")>> ELSE <<>>
<1>1. Call("tool") \in Token({"tool"}) /\ Result("tool") \in Token({"tool"})
  BY DEF Call, Result, Token
<1>2. told \in Seq(Kinds)
  <2>1. ChainKinds(s) \in Seq(Kinds)
    BY ChainIs
  <2>2. QED BY <2>1, OnlyEmbeds
<1>3. DevinStream(s) = shown \o rest
  BY DEF DevinStream
<1> HIDE DEF told
<1>4. shown \in Seq(Token({"tool"}))
  BY <1>1, <1>2
<1>5. rest \in Seq(Token({"tool"}))
  <2>1. ASSUME NEW T, NEW x \in T PROVE <<x>> \in Seq(T) /\ <<>> \in Seq(T)
    OBVIOUS
  <2> HIDE DEF told
  <2>2. <<Result("tool")>> \in Seq(Token({"tool"})) /\ <<>> \in Seq(Token({"tool"}))
    BY <1>1, <2>1
  <2>3. QED BY <2>2
<1> HIDE DEF shown, rest
<1>6. QED BY <1>3, <1>4, <1>5

RolesOf(es) == [i \in DOMAIN es |-> RoleOf[es[i].id]]

\* The ids of a file's entries are finitely many, each one's latest entry one
\* of them.
LEMMA EntriesAre ==
  ASSUME NEW es \in Seq(Line)
  PROVE  /\ IsFiniteSet(DOMAIN ParentOf(es))
         /\ \A id \in DOMAIN ParentOf(es) : Latest(es, id) \in Line /\ Latest(es, id).id = id
<1> DEFINE n == Len(es)
           ids == {es[i].id : i \in 1..n}
<1>1. n \in Nat /\ DOMAIN es = 1..n /\ \A i \in 1..n : es[i] \in Line
  OBVIOUS
<1>2. DOMAIN ParentOf(es) = ids
  BY <1>1 DEF ParentOf
<1> HIDE DEF n
<1>3. IsFiniteSet(ids)
  <2> DEFINE f == [i \in 1..n |-> es[i].id]
  <2>1. IsFiniteSet(1..n)
    BY <1>1, FS_Interval
  <2>2. f \in Surjection(1..n, ids)
    BY DEF Surjection
  <2> HIDE DEF f, ids
  <2>3. QED BY <2>1, <2>2, FS_Surjection
<1>4. ASSUME NEW id \in ids PROVE Latest(es, id) \in Line /\ Latest(es, id).id = id
  <2> DEFINE I == {n - i : i \in {j \in 1..n : es[j].id = id}}
             Is(i) == i \in 1..n /\ es[i].id = id /\ \A j \in 1..n : es[j].id = id => j <= i
             m == Min(I)
  <2>1. I \subseteq Nat /\ I # {}
    BY <1>1
  <2>2. m \in I /\ \A h \in I : m <= h
    <3> HIDE DEF I
    <3>1. QED BY <2>1, LeastOf
  <2> HIDE DEF m
  <2>3. PICK i \in 1..n : es[i].id = id /\ m = n - i
    BY <2>2
  <2>4. ASSUME NEW j \in 1..n, es[j].id = id PROVE j <= i
    <3>1. n - j \in I
      BY <2>4
    <3>2. n - i <= n - j
      BY <2>2, <2>3, <3>1
    <3>3. QED BY <1>1, <3>2
  <2>5. Is(i)
    BY <2>3, <2>4
  <2> DEFINE i0 == CHOOSE k \in 1..n : es[k].id = id /\ \A j \in 1..n : es[j].id = id => j <= k
  <2>6. i0 \in 1..n /\ es[i0].id = id
    BY <2>5
  <2>7. Latest(es, id) = es[i0]
    BY <1>1 DEF Latest
  <2> HIDE DEF i0
  <2>8. QED BY <1>1, <2>6, <2>7
<1>5. QED BY <1>2, <1>3, <1>4

\* The roles the capture counts are those of what the readers show.
LEMMA RolesCounted ==
  ASSUME NEW c, EntryLines(c) \in Seq(Line)
  PROVE  /\ ActiveEntries(c) \in Seq(Line)
         /\ Scan(c).user = Count(RolesOf(ActiveEntries(c)), "user")
         /\ Scan(c).assistant = Count(RolesOf(ActiveEntries(c)), "reply")
                                + Count(RolesOf(ActiveEntries(c)), "call")
                                + Count(RolesOf(ActiveEntries(c)), "failed")
<1> DEFINE es == EntryLines(c)
           walk == WalkLeaf(ParentOf(es), Last(es).id)
           path == walk.path
           ids == IF es = <<>> THEN <<>>
                  ELSE IF walk.broken THEN [i \in DOMAIN es |-> es[i].id]
                  ELSE path
           roles == [i \in DOMAIN ids |-> RoleOf[ids[i]]]
           ae == ActiveEntries(c)
<1>1. /\ Scan(c).user = Count(roles, "user")
      /\ Scan(c).assistant = Count(roles, "reply") + Count(roles, "call") + Count(roles, "failed")
  BY DEF Scan
<1>2. ae = IF es = <<>> \/ walk.broken THEN es
           ELSE Reverse([i \in DOMAIN path |-> Latest(es, path[i])])
  BY DEF ActiveEntries
<1>3. path \in Seq(DOMAIN ParentOf(es))
  BY EntriesAre, WalkIs
<1>4. \A id \in DOMAIN ParentOf(es) : Latest(es, id) \in Line /\ Latest(es, id).id = id
  BY EntriesAre
<1> HIDE DEF walk, es, ae
<1>5. CASE es = <<>> \/ walk.broken
  <2>1. ae = es
    BY <1>2, <1>5
  <2>2. DOMAIN ids = DOMAIN es /\ \A i \in DOMAIN es : ids[i] = es[i].id
    BY <1>5
  <2> HIDE DEF ids
  <2>3. RolesOf(ae) = roles
    BY <2>1, <2>2 DEF RolesOf
  <2>4. es \in Seq(Line)
    BY DEF es
  <2> HIDE DEF roles
  <2>5. QED BY <1>1, <2>1, <2>3, <2>4 DEF ae
<1>6. CASE ~(es = <<>> \/ walk.broken)
  <2> DEFINE n == Len(path)
             ls == [i \in 1..n |-> Latest(es, path[i])]
             T == {RoleOf[e.id] : e \in Line}
  <2>1. n \in Nat /\ DOMAIN path = 1..n /\ \A i \in 1..n : path[i] \in DOMAIN ParentOf(es)
    BY <1>3
  <2>2. ids = path
    BY <1>6
  <2> HIDE DEF ids, path, n
  <2>3. ls \in Seq(Line) /\ Len(ls) = n /\ \A i \in 1..n : ls[i].id = path[i] /\ ls[i] \in Line
    BY <1>4, <2>1
  <2>4. roles = [i \in 1..n |-> RoleOf[ls[i].id]]
    BY <2>1, <2>2, <2>3
  <2>5. ae = Reverse(ls)
    BY <1>2, <1>6, <2>1
  <2>6. roles \in Seq(T) /\ Len(roles) = n
    <3>1. \A i \in 1..n : RoleOf[ls[i].id] \in T
      BY <2>3
    <3> HIDE DEF T, ls, roles
    <3>2. QED BY <2>1, <2>4, <3>1
  <2> HIDE DEF ls, roles, T
  <2>7. /\ ae \in Seq(Line) /\ Len(ae) = n /\ \A i \in 1..n : ae[i] = ls[n - i + 1]
    BY <2>3, <2>5, Reversing
  <2>8. /\ Reverse(roles) \in Seq(T) /\ Len(Reverse(roles)) = n
        /\ \A i \in 1..n : Reverse(roles)[i] = roles[n - i + 1]
        /\ \A r : Count(Reverse(roles), r) = Count(roles, r)
    BY <2>6, Reversing
  <2>9. RolesOf(ae) = Reverse(roles)
    <3>1. \A i \in 1..n : n - i + 1 \in 1..n
      BY <2>1
    <3>2. \A i \in 1..n : Reverse(roles)[i] = RoleOf[ae[i].id]
      BY <2>4, <2>7, <2>8, <3>1
    <3>3. DOMAIN ae = 1..n
      BY <2>7
    <3>4. RolesOf(ae) = [i \in 1..n |-> RoleOf[ae[i].id]]
      BY <3>3 DEF RolesOf
    <3>5. Reverse(roles) = [i \in 1..n |-> Reverse(roles)[i]]
      BY <2>8
    <3>6. QED BY <3>2, <3>4, <3>5
  <2>10. QED BY <1>1, <2>7, <2>8, <2>9 DEF ae
<1>7. QED BY <1>5, <1>6

\* So the facts are those of the copy, by what its readers show.
LEMMA PiReadsIt ==
  ASSUME NEW r, NEW id, r.copy.lines \in Seq(Line), id \in HeaderIds(r.copy), r.facts = Scan(r.copy)
  PROVE  PiReads(id, r)
<1> DEFINE c == r.copy
<1>1. Whole(c) \in Seq(Line) /\ Whole(c) # <<>>
  BY DEF Whole, Front, HeaderIds
<1>2. EntryLines(c) \in Seq(Line)
  <2>1. Tail(Whole(c)) \in Seq(Line)
    BY <1>1
  <2> DEFINE E == {l \in Line : l.kind = "entry"}
             t == Tail(Whole(c))
  <2>2. EntryLines(c) = Only(t, E)
    BY DEF EntryLines
  <2> HIDE DEF t, E
  <2>3. QED BY <2>1, <2>2, OnlyEmbeds DEF t
<1> DEFINE roles == RolesOf(ActiveEntries(c))
           S == {"user", "reply"}
<1>3. /\ ActiveEntries(c) \in Seq(Line)
      /\ r.facts.user = Count(roles, "user")
      /\ r.facts.assistant = Count(roles, "reply") + Count(roles, "call") + Count(roles, "failed")
  BY <1>2, RolesCounted
<1>4. ActiveRoles(c) = roles /\ PiTurns(c) = Only(roles, S)
  BY DEF ActiveRoles, PiTurns, RolesOf
<1>5. roles \in Seq({RoleOf[e.id] : e \in Line})
  <2> DEFINE es == ActiveEntries(c)
             R == {RoleOf[e.id] : e \in Line}
  <2>1. Len(es) \in Nat /\ DOMAIN es = 1..Len(es) /\ \A i \in 1..Len(es) : es[i] \in Line
    BY <1>3
  <2>2. roles = [i \in 1..Len(es) |-> RoleOf[es[i].id]]
    BY <2>1 DEF RolesOf
  <2>3. \A i \in 1..Len(es) : RoleOf[es[i].id] \in R
    BY <2>1
  <2> HIDE DEF es, roles, R
  <2>4. QED BY <2>1, <2>2, <2>3
<1>6. \A x \in S : Count(Only(roles, S), x) = Count(roles, x)
  <2> HIDE DEF S, roles
  <2>1. QED BY <1>5, OnlyCounts
<1>7. "user" \in S /\ "reply" \in S
  OBVIOUS
<1>8. r.facts.print = FingerprintFile(c)
  BY PiScanPrint
<1> HIDE DEF S, roles
<1>9. QED BY <1>3, <1>4, <1>6, <1>7, <1>8 DEF PiReads

-----------------------------------------------------------------------------
(***************************************************************************)
(* The facts of a copy.                                                    *)
(***************************************************************************)
\* What the copies are, and the facts of them.
ClaudeFacts ==
  \A id \in DOMAIN journal : journal[id].facts = CaptureScan(journal[id].copy.main)

PiFacts ==
  /\ \A id \in DOMAIN journal :
       /\ journal[id].copy.lines \in Seq(Line)
       /\ id \in HeaderIds(journal[id].copy)
       /\ journal[id].facts = Scan(journal[id].copy)
  /\ sweep.pc = "commit" =>
       \A c \in sweep.staged : c.lines \in Seq(Line) /\ Item.id \in HeaderIds(c)

DevinFacts ==
  /\ \A s \in store : IsRow(s)
  /\ \A id \in DOMAIN journal :
       LET r == journal[id] IN IsRow(r.copy) /\ r.facts = Facts(AnalyzeChain(r.copy), r.copy)
  /\ sweep.pc = "analyze" => \A s \in sweep.staged : IsRow(s)
  /\ sweep.pc = "commit" =>
       \A p \in sweep.staged : IsRow(p.row) /\ p.chain = AnalyzeChain(p.row)

CopiesInv ==
  /\ harness = "claude" => ClaudeFacts
  /\ harness = "pi" => PiFacts
  /\ harness = "devin" => DevinFacts

\* A step that neither stages a copy nor commits one.
Resting == UNCHANGED journal /\ sweep'.pc \notin {"analyze", "commit"}

LEMMA VisitRests ==
  ASSUME NEW found, Visit(found), UNCHANGED journal
  PROVE  Resting
<1>1. Idle.pc = "idle" /\ [Idle EXCEPT !.pc = "verdict", !.found = found].pc = "verdict"
  BY DEF Idle
<1>2. QED BY <1>1 DEF Visit, Resting

LEMMA LeaveRests ==
  ASSUME Leave
  PROVE  Resting
<1>1. Visit(Tail(sweep.found)) /\ UNCHANGED journal
  BY DEF Leave
<1>2. QED BY <1>1, VisitRests

LEMMA LoopRests ==
  ASSUME "pc" \in DOMAIN sweep
  PROVE  /\ \A unchanged, failed \in BOOLEAN : Verdict(unchanged, failed) => Resting
         /\ \A gone \in BOOLEAN : Correlate(gone) => Resting
<1>1. /\ To("correlate") => sweep'.pc = "correlate"
      /\ To("capture") => sweep'.pc = "capture"
  BY DEF To
<1>2. ASSUME NEW unchanged \in BOOLEAN, NEW failed \in BOOLEAN, Verdict(unchanged, failed) PROVE Resting
  <2>1. Leave \/ (To("correlate") /\ UNCHANGED journal)
    BY <1>2 DEF Verdict
  <2>2. QED BY <1>1, <2>1, LeaveRests DEF Resting
<1>3. ASSUME NEW gone \in BOOLEAN, Correlate(gone) PROVE Resting
  <2>1. Leave \/ (To("capture") /\ UNCHANGED journal)
    BY <1>3 DEF Correlate
  <2>2. QED BY <1>1, <2>1, LeaveRests DEF Resting
<1>4. QED BY <1>2, <1>3

\* What is on record is not touched, what is committed has its facts.
LEMMA ClaudeFactsKeep ==
  ASSUME ClaudeInv, ClaudeFacts, ClaudeSweep \/ ClaudeWrite \/ UNCHANGED journal
  PROVE  ClaudeFacts'
<1>1. "pc" \in DOMAIN sweep
  BY DEF ClaudeInv, Sweeping
<1>2. CASE UNCHANGED journal
  BY <1>2 DEF ClaudeFacts
<1>3. CASE ClaudeStart
  BY <1>2, <1>3 DEF ClaudeStart
<1>4. CASE ClaudeVerdict
  BY <1>2, <1>4 DEF ClaudeVerdict, Verdict, Leave
<1>5. CASE ClaudeCorrelate
  BY <1>2, <1>5 DEF ClaudeCorrelate, Correlate, Leave
<1>6. CASE CopyTranscript
  BY <1>2, <1>6 DEF CopyTranscript, Leave
<1>7. CASE CopySidecars
  BY <1>2, <1>7 DEF CopySidecars
<1>8. CASE ClaudeCommit
  <2>1. PICK s \in sweep.staged : Commit(s, CaptureScan(s.main))
    BY <1>8 DEF ClaudeCommit
  <2> DEFINE record == [copy |-> s, facts |-> CaptureScan(s.main)]
  <2>2. record.copy = s /\ record.facts = CaptureScan(s.main)
    OBVIOUS
  <2>3. journal' = [id \in DOMAIN journal \union {Item.id} |->
                      IF id = Item.id THEN record ELSE journal[id]]
    BY <2>1 DEF Commit
  <2> HIDE DEF record
  <2>4. QED BY <2>2, <2>3 DEF ClaudeFacts
<1>9. CASE ClaudeWrite
  <2>1. UNCHANGED journal
    BY <1>9 DEF ClaudeWrite, StartTranscript, AppendRecord, FinishRecord, AgentWrites, Expire,
       ClaudeWrote, Wrote
  <2>2. QED BY <1>2, <2>1
<1>10. QED BY <1>2, <1>3, <1>4, <1>5, <1>6, <1>7, <1>8, <1>9 DEF ClaudeSweep

\* A file's content is staged once its header was found to be the one looked
\* for, and the record is of what was staged.
LEMMA PiFactsKeep ==
  ASSUME PiInv, PiFacts, PiSweep \/ PiWrite \/ UNCHANGED <<journal, sweep>>
  PROVE  PiFacts'
<1>1. /\ DOMAIN sweep = {"pc", "left", "stamp", "found", "staged"}
      /\ FilesInv
  BY DEF PiInv, Sweeping
<1>2. CASE UNCHANGED <<journal, sweep>>
  BY <1>2 DEF PiFacts, Item
<1>3. CASE Resting
  BY <1>3 DEF PiFacts, Resting
<1>4. CASE PiStart
  <2>1. Idle.pc = "idle" /\ [Idle EXCEPT !.pc = "stat", !.left = DOMAIN files].pc = "stat"
    BY DEF Idle
  <2>2. Resting
    BY <1>4, <2>1 DEF PiStart, Resting
  <2>3. QED BY <1>3, <2>2
<1>5. CASE Stat
  <2>1. sweep'.pc = "header" /\ UNCHANGED journal
    BY <1>1, <1>5 DEF Stat
  <2>2. QED BY <1>3, <2>1 DEF Resting
<1>6. ASSUME NEW cands, Walked(cands) PROVE Resting
  <2>1. CASE sweep.left # {Here}
    <3>1. sweep' = [sweep EXCEPT !.pc = "stat", !.left = @ \ {Here}, !.stamp = 0, !.found = cands]
          /\ UNCHANGED journal
      BY <1>6, <2>1 DEF Walked
    <3>2. sweep'.pc = "stat"
      BY <1>1, <3>1
    <3>3. QED BY <3>1, <3>2 DEF Resting
  <2>2. CASE sweep.left = {Here}
    <3>1. Visit(ResolveDuplicates(cands)) /\ UNCHANGED journal
      BY <1>6, <2>2 DEF Walked
    <3>2. QED BY <3>1, VisitRests
  <2>3. QED BY <2>1, <2>2
<1>7. CASE NoCandidate
  BY <1>3, <1>6, <1>7 DEF NoCandidate
<1>8. CASE Candidate
  BY <1>3, <1>6, <1>8 DEF Candidate
<1>9. CASE PiVerdict
  <2>1. Resting
    BY <1>1, <1>9, LoopRests DEF PiVerdict, Gone
  <2>2. QED BY <1>3, <2>1
<1>10. CASE PiCorrelate
  <2>1. Resting
    BY <1>1, <1>10, LoopRests DEF PiCorrelate, Gone
  <2>2. QED BY <1>3, <2>1
<1>11. CASE PiCopy
  <2>1. CASE ~Gone /\ Item.id \in SessionAt(Item.path)
    <3> DEFINE c == Content(files[Item.path])
    <3>1. sweep' = [sweep EXCEPT !.pc = "commit", !.staged = {c}] /\ UNCHANGED journal
      BY <1>11, <2>1 DEF PiCopy
    <3>2. Item.path \in DOMAIN files /\ Item.id \in HeaderIds(c)
      BY <2>1 DEF Gone, SessionAt
    <3>3. files[Item.path] \in File
      BY <1>1, <3>2 DEF FilesInv
    <3>4. c.lines \in Seq(Line)
      BY <3>3 DEF File, Content
    <3> HIDE DEF c
    <3>5. sweep'.pc = "commit" /\ sweep'.staged = {c} /\ sweep'.found = sweep.found
      BY <1>1, <3>1
    <3>6. Item' = Item
      BY <3>5 DEF Item
    <3>7. QED BY <3>1, <3>2, <3>4, <3>5, <3>6 DEF PiFacts
  <2>2. CASE ~(~Gone /\ Item.id \in SessionAt(Item.path))
    <3>1. Leave
      BY <1>11, <2>2 DEF PiCopy
    <3>2. QED BY <1>3, <3>1, LeaveRests
  <2>3. QED BY <2>1, <2>2
<1>12. CASE PiCommit
  <2>1. PICK c \in sweep.staged : Commit(c, Scan(c))
    BY <1>12 DEF PiCommit
  <2>2. c.lines \in Seq(Line) /\ Item.id \in HeaderIds(c)
    BY <1>12 DEF PiCommit, PiFacts
  <2> DEFINE record == [copy |-> c, facts |-> Scan(c)]
  <2>3. record.copy = c /\ record.facts = Scan(c)
    OBVIOUS
  <2>4. journal' = [id \in DOMAIN journal \union {Item.id} |->
                      IF id = Item.id THEN record ELSE journal[id]]
    BY <2>1 DEF Commit
  <2>5. sweep'.pc # "commit"
    <3>1. Idle.pc = "idle"
          /\ [Idle EXCEPT !.pc = "verdict", !.found = Tail(sweep.found)].pc = "verdict"
      BY DEF Idle
    <3>2. QED BY <2>1, <3>1 DEF Commit, Visit
  <2> HIDE DEF record
  <2>6. QED BY <2>2, <2>3, <2>4, <2>5 DEF PiFacts
<1>13. CASE PiWrite
  <2>1. UNCHANGED <<journal, sweep>>
    BY <1>13 DEF PiWrite, NewFile, AppendLine, FinishLine, CopyFile, RemoveFile, PiWrote, Wrote
  <2>2. QED BY <1>2, <2>1
<1>14. QED BY <1>2, <1>4, <1>5, <1>7, <1>8, <1>9, <1>10, <1>11, <1>12, <1>13 DEF PiSweep

\* What devin does to a row leaves one.
LEMMA RowsKept ==
  ASSUME \A s \in store : IsRow(s), DevinWrite
  PROVE  \A s \in store' : IsRow(s)
<1> DEFINE Forests == UNION {[N -> Node] : N \in SUBSET Nodes}
<1>1. ASSUME NEW s \in store
      PROVE  /\ s \in Row /\ IsFiniteSet(DOMAIN s.nodes) /\ s.nodes \in Forests
             /\ s.nodes \in [DOMAIN s.nodes -> Node] /\ DOMAIN s.nodes \subseteq Nodes
             /\ s.head \in Nodes \union {NoNode}
  <2>1. s \in Row /\ IsFiniteSet(DOMAIN s.nodes)
    BY DEF IsRow
  <2>2. s.nodes \in Forests /\ s.head \in Nodes \union {NoNode}
    BY <2>1 DEF Row
  <2>3. PICK N \in SUBSET Nodes : s.nodes \in [N -> Node]
    BY <2>2
  <2>4. QED BY <2>1, <2>2, <2>3
<1> HIDE DEF Forests
<1>2. ASSUME NEW s \in Row, NEW F \in Forests, NEW h \in Nodes \union {NoNode}, NEW x
      PROVE  /\ [s EXCEPT !.nodes = F, !.head = h] \in Row /\ [s EXCEPT !.nodes = F, !.head = h].nodes = F
             /\ [s EXCEPT !.nodes = F] \in Row /\ [s EXCEPT !.nodes = F].nodes = F
             /\ [s EXCEPT !.head = h] \in Row /\ [s EXCEPT !.head = h].nodes = s.nodes
             /\ x \in Titles => [s EXCEPT !.title = x] \in Row /\ [s EXCEPT !.title = x].nodes = s.nodes
             /\ x \in Dirs => [s EXCEPT !.dir = x] \in Row /\ [s EXCEPT !.dir = x].nodes = s.nodes
             /\ [s EXCEPT !.calls = "answered"] \in Row /\ [s EXCEPT !.calls = "answered"].nodes = s.nodes
  BY DEF Row, Forests
<1>3. ASSUME NEW s, s \in Row, IsFiniteSet(DOMAIN s.nodes), store' = {s} PROVE \A t \in store' : IsRow(t)
  BY <1>3 DEF IsRow
<1>4. ASSUME NEW N \in SUBSET Nodes, NEW F \in [N -> Node] PROVE F \in Forests
  BY DEF Forests
<1>5. ASSUME NEW n \in Nodes, NEW kind \in Kinds, Say(n, kind) PROVE \A t \in store' : IsRow(t)
  <2>1. PICK s \in store :
          store' = {[s EXCEPT !.nodes = [m \in DOMAIN s.nodes \union {n} |->
                                           IF m = n THEN [parent |-> s.head, kind |-> kind]
                                           ELSE s.nodes[m]],
                              !.head = n]}
    BY <1>5 DEF Say
  <2> DEFINE N == DOMAIN s.nodes \union {n}
             F == [m \in N |-> IF m = n THEN [parent |-> s.head, kind |-> kind] ELSE s.nodes[m]]
  <2>2. N \in SUBSET Nodes /\ IsFiniteSet(N)
    BY <1>1, FS_AddElement
  <2>3. F \in [N -> Node]
    <3>1. [parent |-> s.head, kind |-> kind] \in Node
      BY <1>1 DEF Node
    <3>2. QED BY <1>1, <3>1
  <2>4. F \in Forests /\ DOMAIN F = N
    BY <1>4, <2>2, <2>3
  <2> HIDE DEF N
  <2>5. store' = {[s EXCEPT !.nodes = F, !.head = n]}
    BY <2>1 DEF N
  <2> HIDE DEF F
  <2> DEFINE t == [s EXCEPT !.nodes = F, !.head = n]
  <2>6. t \in Row /\ t.nodes = F
    <3>1. s \in Row /\ F \in Forests /\ n \in Nodes \union {NoNode}
      BY <1>1, <2>4
    <3>2. QED BY <3>1 DEF Row, Forests
  <2> HIDE DEF t
  <2>7. QED BY <1>3, <2>2, <2>4, <2>5, <2>6 DEF t
<1>6. ASSUME NEW n \in Nodes, MoveHead(n) PROVE \A t \in store' : IsRow(t)
  <2>1. PICK s \in store : store' = {[s EXCEPT !.head = n]}
    BY <1>6 DEF MoveHead
  <2> DEFINE t == [s EXCEPT !.head = n]
  <2>2. t \in Row /\ t.nodes = s.nodes
    BY <1>1, <1>2
  <2> HIDE DEF t
  <2>3. QED BY <1>1, <1>3, <2>1, <2>2 DEF t
<1>7. ASSUME NEW n \in Nodes, NEW kind \in Kinds, NEW parent \in Nodes \union {NoNode}, EditNode(n, kind, parent)
      PROVE  \A t \in store' : IsRow(t)
  <2> DEFINE node == [parent |-> parent, kind |-> kind]
  <2>1. PICK s \in store : n \in DOMAIN s.nodes /\ store' = {[s EXCEPT !.nodes[n] = node]}
    BY <1>7 DEF EditNode
  <2> DEFINE F == [s.nodes EXCEPT ![n] = node]
             t == [s EXCEPT !.nodes = F]
  <2>2. node \in Node
    BY DEF Node
  <2> HIDE DEF node
  <2>3. F \in [DOMAIN s.nodes -> Node]
    BY <1>1, <2>2
  <2>4. F \in Forests /\ DOMAIN F = DOMAIN s.nodes
    BY <1>1, <1>4, <2>3
  <2>5. store' = {t}
    BY <2>1
  <2> HIDE DEF F
  <2>6. t \in Row /\ t.nodes = F
    BY <1>1, <1>2, <2>4
  <2> HIDE DEF t
  <2>7. QED BY <1>1, <1>3, <2>4, <2>5, <2>6
<1>8. ASSUME NEW n \in Nodes, DropNode(n) PROVE \A t \in store' : IsRow(t)
  <2>1. PICK s \in store : store' = {[s EXCEPT !.nodes = [m \in DOMAIN s.nodes \ {n} |-> s.nodes[m]]]}
    BY <1>8 DEF DropNode
  <2> DEFINE N == DOMAIN s.nodes \ {n}
             F == [m \in N |-> s.nodes[m]]
             t == [s EXCEPT !.nodes = F]
  <2>2. N \in SUBSET Nodes /\ IsFiniteSet(N)
    BY <1>1, FS_RemoveElement
  <2>3. F \in [N -> Node]
    BY <1>1
  <2>4. F \in Forests /\ DOMAIN F = N
    BY <1>4, <2>2, <2>3
  <2>5. store' = {t}
    BY <2>1
  <2> HIDE DEF F, N
  <2>6. t \in Row /\ t.nodes = F
    BY <1>1, <1>2, <2>4
  <2> HIDE DEF t
  <2>7. QED BY <1>3, <2>2, <2>4, <2>5, <2>6
<1>9. ASSUME Answer PROVE \A t \in store' : IsRow(t)
  <2>1. PICK s \in store : store' = {[s EXCEPT !.calls = "answered"]}
    BY <1>9 DEF Answer
  <2> DEFINE t == [s EXCEPT !.calls = "answered"]
  <2>2. t \in Row /\ t.nodes = s.nodes
    BY <1>1, <1>2
  <2> HIDE DEF t
  <2>3. QED BY <1>1, <1>3, <2>1, <2>2 DEF t
<1>10. ASSUME NEW x \in Titles, Retitle(x) PROVE \A t \in store' : IsRow(t)
  <2>1. PICK s \in store : store' = {[s EXCEPT !.title = x]}
    BY <1>10 DEF Retitle
  <2> DEFINE t == [s EXCEPT !.title = x]
  <2>2. t \in Row /\ t.nodes = s.nodes
    BY <1>1, <1>2
  <2> HIDE DEF t
  <2>3. QED BY <1>1, <1>3, <2>1, <2>2 DEF t
<1>11. ASSUME NEW x \in Dirs, MoveDir(x) PROVE \A t \in store' : IsRow(t)
  <2>1. PICK s \in store : store' = {[s EXCEPT !.dir = x]}
    BY <1>11 DEF MoveDir
  <2> DEFINE t == [s EXCEPT !.dir = x]
  <2>2. t \in Row /\ t.nodes = s.nodes
    BY <1>1, <1>2
  <2> HIDE DEF t
  <2>3. QED BY <1>1, <1>3, <2>1, <2>2 DEF t
<1>12. ASSUME NEW d \in Dirs, OpenSession(d) PROVE \A t \in store' : IsRow(t)
  <2>1. store' = {EmptyRow(d)}
    BY <1>12 DEF OpenSession
  <2>2. (CHOOSE t \in Titles : TRUE) \in Titles
    BY DevinAssumption
  <2>3. <<>> \in Forests /\ IsFiniteSet(DOMAIN <<>>)
    <3>1. <<>> \in [{} -> Node] /\ DOMAIN <<>> = {}
      OBVIOUS
    <3>2. <<>> \in Forests
      BY <3>1, <1>4
    <3>3. QED BY <3>1, <3>2, FS_EmptySet
  <2> DEFINE title == CHOOSE t \in Titles : TRUE
  <2> HIDE DEF title
  <2>4. EmptyRow(d) = [head |-> NoNode, dir |-> d, title |-> title, nodes |-> <<>>, calls |-> "open"]
    BY DEF EmptyRow, title
  <2>5. EmptyRow(d) \in Row /\ EmptyRow(d).nodes = <<>>
    BY <2>2, <2>3, <2>4 DEF Row, Forests, title
  <2>6. QED BY <1>3, <2>1, <2>3, <2>5
<1>13. ASSUME RemoveSession PROVE \A t \in store' : IsRow(t)
  BY <1>13 DEF RemoveSession
<1>14. QED
  BY <1>5, <1>6, <1>7, <1>8, <1>9, <1>10, <1>11, <1>12, <1>13 DEF DevinWrite

\* A row is staged as it is, and its chain is that of the same row.
LEMMA DevinFactsKeep ==
  ASSUME DevinInv, DevinFacts, DevinSweep \/ DevinWrite \/ UNCHANGED <<journal, sweep, store>>
  PROVE  DevinFacts'
<1>1. "pc" \in DOMAIN sweep /\ "staged" \in DOMAIN sweep
  BY DEF DevinInv, Sweeping
<1>2. CASE UNCHANGED <<journal, sweep>> /\ \A s \in store' : IsRow(s)
  BY <1>2 DEF DevinFacts
<1>3. CASE Resting /\ UNCHANGED store
  BY <1>3 DEF DevinFacts, Resting
<1>4. CASE DevinStart
  BY <1>3, <1>4, VisitRests DEF DevinStart
<1>5. CASE DevinVerdict
  <2>1. Resting /\ UNCHANGED store
    BY <1>1, <1>5, LoopRests DEF DevinVerdict
  <2>2. QED BY <1>3, <2>1
<1>6. CASE DevinCorrelate
  <2>1. Resting /\ UNCHANGED store
    BY <1>1, <1>6, LoopRests DEF DevinCorrelate
  <2>2. QED BY <1>3, <2>1
<1>7. CASE Snapshot
  <2>1. CASE store = {}
    BY <1>3, <1>7, <2>1, LeaveRests DEF Snapshot
  <2>2. CASE store # {}
    <3>1. sweep' = [sweep EXCEPT !.pc = "analyze", !.staged = store] /\ UNCHANGED <<journal, store>>
      BY <1>7, <2>2 DEF Snapshot
    <3>2. sweep'.pc = "analyze" /\ sweep'.staged = store
      BY <1>1, <3>1
    <3>3. QED BY <3>1, <3>2 DEF DevinFacts
  <2>3. QED BY <2>1, <2>2
<1>8. CASE Analyze
  <2>1. PICK s \in sweep.staged :
          sweep' = [sweep EXCEPT !.pc = "commit", !.staged = {[chain |-> AnalyzeChain(s), row |-> s]}]
    BY <1>8 DEF Analyze
  <2>2. UNCHANGED <<journal, store>> /\ IsRow(s)
    BY <1>8 DEF Analyze, DevinFacts
  <2> DEFINE p == [chain |-> AnalyzeChain(s), row |-> s]
  <2>3. p.chain = AnalyzeChain(s) /\ p.row = s
    OBVIOUS
  <2> HIDE DEF p
  <2>4. sweep'.pc = "commit" /\ sweep'.staged = {p}
    BY <1>1, <2>1 DEF p
  <2>5. QED BY <2>2, <2>3, <2>4 DEF DevinFacts
<1>9. CASE Export
  <2>1. PICK p \in sweep.staged : Commit(p.row, Facts(p.chain, p.row))
    BY <1>9 DEF Export
  <2>2. IsRow(p.row) /\ p.chain = AnalyzeChain(p.row) /\ UNCHANGED store
    BY <1>9 DEF Export, DevinFacts
  <2> DEFINE record == [copy |-> p.row, facts |-> Facts(p.chain, p.row)]
  <2>3. record.copy = p.row /\ record.facts = Facts(AnalyzeChain(p.row), p.row)
    BY <2>2
  <2>4. journal' = [id \in DOMAIN journal \union {Item.id} |->
                      IF id = Item.id THEN record ELSE journal[id]]
    BY <2>1 DEF Commit
  <2>5. sweep'.pc \notin {"analyze", "commit"}
    <3>1. Idle.pc = "idle"
          /\ [Idle EXCEPT !.pc = "verdict", !.found = Tail(sweep.found)].pc = "verdict"
      BY DEF Idle
    <3>2. QED BY <2>1, <3>1 DEF Commit, Visit
  <2> HIDE DEF record
  <2>6. QED BY <2>2, <2>3, <2>4, <2>5 DEF DevinFacts
<1>10. CASE DevinWrite
  <2>1. UNCHANGED <<journal, sweep>>
    BY <1>10 DEF DevinWrite, Say, MoveHead, EditNode, DropNode, Answer, Retitle, MoveDir,
       OpenSession, RemoveSession, DevinWrote, Wrote
  <2>2. \A s \in store' : IsRow(s)
    BY <1>10, RowsKept DEF DevinFacts
  <2>3. QED BY <1>2, <2>1, <2>2
<1>11. CASE UNCHANGED <<journal, sweep, store>>
  BY <1>11 DEF DevinFacts
<1>12. QED BY <1>4, <1>5, <1>6, <1>7, <1>8, <1>9, <1>10, <1>11 DEF DevinSweep

\* Whatever step is taken, what is on record stays what a copy was found to be.
LEMMA CopiesKeep ==
  ASSUME IInv, CopiesInv, [Next]_vars
  PROVE  CopiesInv'
<1>1. \/ harness = "claude" /\ (ClaudeSweep \/ ClaudeWrite) /\ UNCHANGED harness
      \/ harness = "pi" /\ (PiSweep \/ PiWrite) /\ UNCHANGED harness
      \/ harness = "devin" /\ (DevinSweep \/ DevinWrite) /\ UNCHANGED harness
      \/ UNCHANGED <<journal, sweep, store, harness>>
  BY DEF Next, vars, sweepVars
<1>2. ASSUME harness' = "claude" PROVE ClaudeFacts'
  <2>1. harness = "claude" /\ (ClaudeSweep \/ ClaudeWrite \/ UNCHANGED journal)
    BY <1>1, <1>2
  <2>2. ClaudeInv /\ ClaudeFacts
    BY <2>1 DEF IInv, CopiesInv
  <2>3. QED BY <2>1, <2>2, ClaudeFactsKeep
<1>3. ASSUME harness' = "pi" PROVE PiFacts'
  <2>1. harness = "pi" /\ (PiSweep \/ PiWrite \/ UNCHANGED <<journal, sweep>>)
    BY <1>1, <1>3
  <2>2. PiInv /\ PiFacts
    BY <2>1 DEF IInv, CopiesInv
  <2>3. QED BY <2>1, <2>2, PiFactsKeep
<1>4. ASSUME harness' = "devin" PROVE DevinFacts'
  <2>1. harness = "devin" /\ (DevinSweep \/ DevinWrite \/ UNCHANGED <<journal, sweep, store>>)
    BY <1>1, <1>4
  <2>2. DevinInv /\ DevinFacts
    BY <2>1 DEF IInv, CopiesInv
  <2>3. QED BY <2>1, <2>2, DevinFactsKeep
<1>5. QED BY <1>2, <1>3, <1>4 DEF CopiesInv

\* ... and so it is at all times.
LEMMA CopiesStand == Spec => [](IInv /\ CopiesInv)
<1>1. Init => CopiesInv
  <2>1. SUFFICES ASSUME Init PROVE CopiesInv
    OBVIOUS
  <2>2. sweep.pc = "idle" /\ DOMAIN journal = {}
    BY <2>1 DEF Init, SweepInit, Idle
  <2>3. \A s \in store : IsRow(s)
    BY <2>1, DevinAssumption DEF Init, DevinInit, IsRow
  <2>4. QED BY <2>2, <2>3 DEF CopiesInv, ClaudeFacts, PiFacts, DevinFacts
<1>2. IInv /\ CopiesInv /\ [Next]_vars => CopiesInv'
  BY CopiesKeep
<1>3. QED BY <1>1, <1>2, SourcesInvariant, PTL DEF Spec

\* A record says of its session what the copy beside it holds: the prompts the
\* readers show, but for claude's in blocks; the replies they show and those
\* without a text; the copy's fingerprint; a broken chain if the readers
\* cannot reach a root; and the copy is of the session it is filed under: for
\* every transcript with whatever forks, cycles, torn lines and missing
\* parents, written while it is copied (claude/capture.go and pi/capture.go:
\* the facts are of exactly the bytes the copy wrote; devin/capture.go: one
\* read-only transaction).
THEOREM FactsAlwaysMatch == Spec => []FactsMatchCopy
<1>1. IInv /\ CopiesInv => FactsMatchCopy
  <2>1. SUFFICES ASSUME IInv, CopiesInv, NEW id \in DOMAIN journal
                 PROVE  /\ harness = "claude" => ClaudeReads(journal[id])
                        /\ harness = "pi" => PiReads(id, journal[id])
                        /\ harness = "devin" => DevinReads(journal[id])
    BY DEF FactsMatchCopy, IInv
  <2>2. harness = "claude" => ClaudeReads(journal[id])
    BY <2>1, ClaudeReadsIt DEF IInv, ClaudeInv, ClaudeRecords, CopiesInv, ClaudeFacts
  <2>3. harness = "pi" => PiReads(id, journal[id])
    BY <2>1, PiReadsIt DEF CopiesInv, PiFacts
  <2>4. harness = "devin" => DevinReads(journal[id])
    BY <2>1, DevinReadsIt DEF CopiesInv, DevinFacts
  <2>5. QED BY <2>2, <2>3, <2>4
<1>2. QED BY <1>1, CopiesStand, PTL

\* A reader of a copy sees every tool call with the result that answers it, and
\* every result once, though calls repeat an id, results come twice and devin
\* keeps a verdict beside the chain (ReadTranscript of claude, devin).
THEOREM ResultsAlwaysPaired == Spec => []ResultsPaired
<1>1. IInv /\ CopiesInv => ResultsPaired
  <2>1. SUFFICES ASSUME IInv, CopiesInv, NEW id \in DOMAIN journal
                 PROVE  LET copy == journal[id].copy
                        IN /\ harness = "claude" => Paired(Stream(copy.main), Shown(copy.main))
                           /\ harness = "devin" => Paired(DevinStream(copy), Events(DevinStream(copy)))
    BY DEF ResultsPaired
  <2> DEFINE copy == journal[id].copy
  <2>2. ASSUME harness = "claude" PROVE Paired(Stream(copy.main), Shown(copy.main))
    <3>1. copy.main \in ClaudeCopy
      BY <2>1, <2>2 DEF IInv, ClaudeInv, ClaudeRecords
    <3>2. Stream(copy.main) \in Seq(Token({"tool"}))
      BY <3>1, StreamTyped
    <3>3. Paired(Stream(copy.main), Events(Stream(copy.main)))
      BY <3>2, AlwaysPaired
    <3>4. QED BY <3>3 DEF Shown
  <2>3. ASSUME harness = "devin" PROVE Paired(DevinStream(copy), Events(DevinStream(copy)))
    <3>1. IsRow(copy)
      BY <2>1, <2>3 DEF CopiesInv, DevinFacts
    <3>2. DevinStream(copy) \in Seq(Token({"tool"}))
      BY <3>1, DevinStreamTyped
    <3>3. QED BY <3>2, AlwaysPaired
  <2>4. QED BY <2>2, <2>3
<1>2. QED BY <1>1, CopiesStand, PTL
=============================================================================
