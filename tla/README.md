# A TLA+ model of clast

clast keeps a journal of coding-agent sessions. A *capture sweep* copies the
transcripts of the agents on this machine (Claude Code, amp, pi, devin) into the
journal; *state verbs* turn a captured session into a curated one (with an
`entry.md`) or a dismissed one; query verbs, briefs and retros read what is
there. Nothing is a daemon: every command is a short process, and the only
thing that starts commands unasked is the Claude Code hook, which runs
`clast plumbing capture` in the background at every session start. So several
processes may be at work on one journal, and none of them takes a lock on it.

This directory holds the specifications, their TLC instances and the proofs.

| modules | what they are |
| --- | --- |
| `JournalStore`, `CaptureSweep`, `StateVerbs` | the documents of the journal; the sweep and the state verbs, write by write |
| `Journal` | sweeps and verbs together, with faults; the properties |
| `CurationLifecycle` | the abstract specification of one session's state, which `Journal` implements |
| `JournalProofs` | theorems about `Journal`: under every interleaving, and for commands run one at a time |
| `MCJournal`, `JournalRace.cfg`, `JournalAlone.cfg`, `JournalProgress.cfg` | its instances |
| `AmpScanState` | the amp source's scan checkpoint, its lock, and the sweep that drives them |
| `AmpProofs` | theorems about it: under every interleaving, and for sweeps run one at a time |
| `MCAmpScanState`, `AmpAlone.cfg`, `AmpRace.cfg`, `AmpMidnight.cfg` | its instances |
| `Registry` | projects and clones, and the verbs that rewrite them |
| `RegistryProofs` | theorems about it |
| `MCRegistry`, `Registry.cfg` | its instance |
| `Progress`, `LlmCall` | the status line and its goroutine; calls of the LLM client |
| `RetroPool`, `WakeLoop` | retro's workers and their summary cache; wake's loop, interactive and `--auto` |
| `Flows` | wake, brief and retro as processes made of those four; the properties |
| `FlowsProofs` | theorems about it |
| `MCFlows`, `Flows.cfg` | its instance |
| `Projection`, `Harness` | what an install leaves on disk and how it is read; install, uninstall and doctor, write by write |
| `HarnessProofs` | theorems about `Harness` |
| `MCHarness`, `Harness.cfg` | its instance |
| `WorkDays`, `Views` | stamps, work days, breadcrumb files and sessions as time passes; what the query verbs make of them |
| `ViewsProofs` | theorems about both |
| `MCViews`, `Views.cfg`, `WorkDays.cfg` | their instances |
| `SourceSweep`, `Chains`, `ToolCalls` | the capture loop as a source takes part in it; branching conversations; putting results to calls |
| `ClaudeSource`, `PiSource`, `DevinSource` | a source each, with the harness that writes its store |
| `Sources` | the three under one loop; the properties |
| `SourcesProofs` | theorems about it |
| `MCSources`, `Sources.cfg` | its instance |
| `Lists`, `ListLemmas` | what several of these do with a list; lemmas about it that several proofs cite |

`tlc -config <run>.cfg MC<module>` checks a run (`WorkDays.cfg` goes with
`MCViews`) and `tlapm <module>Proofs.tla` a module of proofs (`ListLemmas.tla` has its own).

## Inventory

Each part with its state (S), operations (O), what is hard about it (H) and
what makes it correct (C). Sources are under `src/internal/`.

**Journal store** (`journal/`). S: `sessions/<day>/<key>/` with `artifact/`,
`session.json`, `curation.json`, `entry.md`; `projects/<slug>/` with
`project.json`, `clones.<machine>.json`; `breadcrumbs/`; the root marker. O:
`Walk` (the only index there is), `Resolve`, `StageSession`/`Commit`, one
write per document, each temp-file-and-rename. H: a session is four documents
written one after another; a crash falls between any two of them; readers see
whatever stands. C: no document stands without what it refers to; a state read
back is one a verb decided.

**Capture sweep** (`verbs/capture/`). S: the walk's snapshot (`existing`), the
sessions found, the one in hand. O: discover, recapture check, stage, commit,
record, backfill the project, automatic dismissal and its retraction. H:
background sweeps overlap each other and the verbs; what a sweep acts on was
read at its start; it may be killed, or a session may be unreadable. C: records
and copies catch up with live transcripts, a session has one shard, a person's
decision outranks the automatic one.

**State verbs** (`verbs/curate`, `dismiss`, `undismiss`). S: none of their
own. O: walk, resolve, refuse or accept, write. H: the check is made on a walk
and the write comes later; curate writes two documents; the entry's text was
drafted earlier still. C: curated sessions have entries; dismissing never
orphans one; the lifecycle's edges; the staleness stamp says what it claims.

**Claude source** (`source/claude/`). S: none. O: enumerate transcripts,
capture copy and fingerprint in one read, copy sidecars, read turns. H: the
file grows while it is copied; sidecars are outside the fingerprint. C: the
fingerprint is of the bytes copied; a copy that shows a subagent's result holds
the subagent's transcript.

**Amp source** (`source/amp/`). S: per-scope checkpoint file (clean-through
floor, pending ids, quarantined exports, correlation verdicts) and its lock
file. O: discover by search windows that subdivide at the 100-row cap, a
pending lane by id, corroboration by listing; export with retries; settle or
note a pending id; merge and save the checkpoint. H: several sweeps merge into
one checkpoint whose lock can be stolen; a floor that moves past an unrecorded
thread loses it; an export may be older than one seen before. C: every thread
below the floor is on record or pending.

**Devin source** (`source/devin/`). S: none (a read-only SQLite database). O:
enumerate, fingerprint, two passes of a capture in one transaction, read the
export. H: devin writes between the passes; an edit in place leaves the number
of nodes as it was; chains that break. C: counts, copy and fingerprint are of
one state.

**Pi source** (`source/pi/`). S: none (JSON-lines files). O: walk the roots,
read headers, resolve duplicates, stream and scan, read the copy's branch. H:
two files of one session; a file replaced between discovery and copy; a torn
last line. C: the copy is of the session discovered; the newest file wins.

**Registry** (`registry/`, `verbs/initverb`, `verbs/registryacts`). S:
`project.json` and `clones.<machine>.json`. O: init, label, adopt, relink, each
a read-modify-write. H: no lock; init writes two documents; git may change
meanwhile. C: one project per remote, a directory and, on one machine, a label
name one clone, no clone lost.

**Identifiers** (`registry/ulid.go`). S: last millisecond and entropy. O: next.
H: the increment within a millisecond can wrap. C: ids strictly increase.

**Wake, brief, retro** (`verbs/wakeverb`, `briefverb`, `retroverb`, `retro/`,
`retrocache/`). S: wake's tally; retro's worker pool and summary cache. O:
draft, accept, dismiss, skip; summarise spans concurrently, cached by
fingerprint. H: accounting through errors and quits; stale cache keys; bounded
workers. C: considered = accepted + dismissed + skipped; the failure reported
is the one that happened; no summary of another text or model.

**LLM client and progress line** (`llm/`, `progress/`). S: stream phase; the
line's text under one mutex. O: complete, under three time limits; observe,
tick, stop. H: a tick after stop; a stream cut short taken for a reply. C:
nothing is written after stop; every verb returns.

**Query verbs, breadcrumbs, day arithmetic** (`verbs/sessions`, `stats`,
`breadcrumb`, `breadcrumbs`, `query/`, `journal/day.go`, ...). S: appended
lines, in a file per date and machine. O: append; filter, sort, group. H: the
cutoff hour puts a work day into two files; an append cut short. C: a window is
a partition of time; a torn line costs one breadcrumb.

**Harness projection** (`harness/`, `harness/claudecode`, `verbs/install`,
`uninstall`, `checks`). S: a stamped tree per skill, the user's settings file
and its backup. O: install, uninstall, doctor. H: writes truncate first; two
processes; a person edits the same files. C: install and uninstall do what they
say and touch nothing else; doctor says when they did not.

**Analyze server, command chassis** (`verbs/analyzeverb`, `cli`, `config`,
`manifest`, ...). Rendering, flags, configuration; no state of their own beyond
a listener's shutdown.

How they interact: all through files. A sweep calls one source at a time and
then writes the journal; a state verb or query walks the journal; the registry
is read by capture (which clone a session's directory belongs to) and by
queries; wake writes through curate and dismiss. A source's checkpoint is the
only file with a lock.

## Plan

What was planned first is done: the journal with its lifecycle, the amp
checkpoint, the registry, the flows that call the endpoint, the harness
projection, work days and views, the three file sources, and proofs for the
journal, the checkpoint, the registry, the flows, the harness, the breadcrumb
files and the sources. What is left,
in order of importance:

1. `AmpCapture`: export attempts, completeness and the same-revision repair of
   `Supersedes`, composed with `AmpScanState`; the subdivision of a search
   window as an operator checked against the set of rows it must return.
2. Proofs: `NothingForgotten` for concurrent amp runs over a thread written
   once; `FactsMatchCopy` and `ResultsPaired` once the readers' folds are written
   as recursive functions; the views.
3. `CatchUp` for the journal and the sources composed: `SourceSweep` as a
   refinement of `CaptureSweep`'s loop for one session.

## Journal: state and actions

`store` (in `JournalStore`) is four functions on session directories:
`artifact` (the committed copy), `session` (session.json), `curation`
(curation.json) and `entry` (entry.md). A transcript revision is a number, 0
for a missing document: fingerprint, line count and bytes agree with each other
because one read computes all three (`source/claude/capture.go`; `FactsMatchCopy`
of `Sources` checks it), and a transcript is only appended to. `session.json`
keeps the two facts the properties tell apart: the revision and whether a
project resolved. A directory without `session.json` is not listed, as `Walk`
skips it. `Resolve` takes the first shard of an exact match, a sweep's
`existing` map keeps the last; both are modelled, because they differ when a
session sits in two shards.

`CaptureSweep` has one action per write of `captureOne`, `backfillProject` and
`applyAutoDismissal`, or per read whose answer a later write uses:

| action | code (`verbs/capture/capture.go`) |
| --- | --- |
| `StartSweep` | the walk's map, then `Discover` |
| `LeaveAlone` | the unchanged return, nothing to backfill |
| `ResolveBackfill`, `WriteBackfill` | `backfillProject`: decide; write the walk's document back with the project |
| `Stage` | recapture check and `Capture` into staging |
| `Commit` | shard, `stage.Commit`, clone resolution |
| `Record` | `WriteSession` |
| `ReadDecision` | `ReadCuration` in `applyAutoDismissal` |
| `AutoDismiss`, `RetractDismissal`, `KeepDecision` | its three ends |
| `SkipItem` | an unreadable session: a diagnostic |
| `AbortSweep` | a kill, a canceled context, a failed write |
| `Grow`, `Midnight`, `Register` | the agent's transcript, the clock's day, `clast init` |

`StateVerbs` has a walk-and-check step and one step per write for each verb;
`Draft` is the author reading the transcript copy before `curate` is called
(`wakeverb.draft`, or the person's skill). `AbortVerb` kills a verb between
any two steps.

Reads merged into a neighbouring step are listed, with the reason, in the
headers of `CaptureSweep` and `StateVerbs`. The one that needs an argument is
`dismiss`'s walk, which reads curation.json and then stats entry.md: a curate
between those reads makes dismiss refuse, which reading both after it does too,
so one atomic walk has the same outcomes.

`Journal` composes them. `Alone = FALSE` lets any step follow any other: the
journal with background sweeps. `Alone = TRUE` starts a command only when none
is running (a draft counts as part of its curate, as `wake` does both in one
process): the journal of a user who waits. `MaxFaults` bounds aborts and
unreadable sessions.

## AmpScanState: state and actions

`checkpoint` is the scan-state file: the floor (`CleanThrough`) and the pending
ids. `recorded[t]` is the `last_active_at` of the thread's `session.json`,
`updated[t]` its `updatedAt` at the server; both are instants of one clock, and
0 is never. Each sweep (`run[r]`) holds its walk of the journal, the checkpoint
its scan started from, the threads it found with the stamps it found them at,
the one in hand, and the update of the checkpoint under way.

| action | code (`source/amp/`) |
| --- | --- |
| `Walk` | the sweep's `journal.Walk` (`verbs/capture/capture.go`) |
| `Load`, `StartScan` | `Discover`: `loadScanState`, then `scanStart` |
| `CleanSearch`, `BrokenSearch` | `enumerate`: the windows, the pending lane by id, `corroborate`; what `recordScan` computes before it takes the lock |
| `Acquire` | `acquireScanLock` creates the lock file, removing one of a dead holder; `updateScanState` reads the file |
| `Steal` | the lock wait ran out: remove a live holder's lock, or go on without one |
| `Save` | the mutation, the pending cap, the write, the release, which removes whatever lock file is there |
| `SettleUnchanged` | `Unchanged` says yes and settles the id |
| `SettleTerminal`, `FailExport` | the two failures of `Capture`: gone or over budget settles, anything else notes the id |
| `Export`, `ExportBehind` | `acquireExport`, of the present revision or of an older view |
| `Record`, `Refuse` | `Supersedes` on the walk's record, then `WriteSession`, or the staged bytes discarded |
| `SkipItem` | a failed `Correlate`: a diagnostic |
| `AbortRun` | a kill, a canceled context, a `Discover` error; a lock held stays behind |
| `LoseCheckpoint` | the cache file removed or unreadable |
| `Touch`, `Delete`, `Tick` | the account and the clock (external) |

A scan keeps in the pending set what it emits, what it queued from the list,
and what its by-id lookups did not prove gone; `Merged` combines that with the
file as re-read (`recordScan`), and `ScanFloor` is the floor it may move to. A
hidden row is one a search did not return: a thread that moved during a clean
scan, or anything in a window with diagnostics. A row silently dropped by a
clean window, which the list does not show either, is what the comment in
`corroborate` names the accepted trade, and is not modelled.

Simplifications, each of which makes a case not happen:

- the server's clock and this machine's agree, and a thread is not updated at
  the very instant a scan starts. With a local clock ahead of the server's the
  floor passes updates still to come; no line of the code bounds the skew;
- the file is not lost while a scan is under way. If it is, and a by-id lookup
  comes back unreadable in the same scan, the merge takes the id for drained by
  another run and the floor still advances;
- one scope with known account evidence, so a floor is kept;
- projects are left out, and with them `backfillProject`, whose write of the
  walk's record is in `CaptureSweep`;
- message counts are left out: an export with a later stamp has at least as
  many messages (what `Supersedes`'s comment calls append-only evidence).

## Registry: state and actions

`projects[s]` is `project.json` and `clones[s][m]` the clones in
`clones.<m>.json`; a directory stands for a git common-dir, `git[m][d]` for
what git answers there: no repository, one without remotes, one without the
identity's remote, or the normalized remote. A verb loads the registry and
git's facts and decides in one step, which leaves a *plan* in `proc[p]`; what
follows are its reads and writes, as the plan says whatever changed meanwhile:

| action | code |
| --- | --- |
| `JoinProject`, `CreateProject` | `initverb.Run` to its first write: an unregistered directory joins the project of its remote, or starts one at a free slug; `DefaultLabels`, `Suggested` are the label ladder |
| `BeginLabel`, `BeginAdopt`, `BeginRelink` | `registryacts`: the checks of each verb |
| `WriteProject` | `WriteProject` (init's new project, adopt's remote) |
| `ReadClones`, `WriteClones` | `ReadClones` and the rewrite of the whole file, an append or an edit of the rows with the clone's id |
| `Abort` | a kill or a failed write between any two |
| `Move`, `AddRemote` | a repository moves, or gains its remote (external) |

`raced` is a history variable: the machines two verbs of which overlapped, and
"journal" when any two did. The properties say exactly which overlap voids
them: `ClonesKept` only one on the same machine, `ClonesHaveProject` none. Ids
are numbers in the order of minting; that two processes draw different random
halves of a ULID is assumed.

## Flows: state and actions

One process that runs wake, wake `--auto`, brief or retro, composed of four
modules on shared variables:

- `Progress`: `line` is the reporter and the terminal line it draws on. Each
  operator is one critical section of `progress.go` (`Status`, `Clear`, `Stop`);
  `Tick` and `Quit` are the drawing goroutine, `Say` any text the verb writes
  itself. `smeared` remembers text written over a status line.
- `LlmCall`: `call[c]`, at most one per caller, from dial to verdict.
  `Headers`, `Read`, `Finish` are the server's side; `Stall` and `Expire` the
  idle and the total limit; `Fail` a read or dial on a context that is done,
  classified by `Verdict` (`classify`); `Refuse` the first-byte limit, a bad
  status or a bad body. A stream that ends cleanly without `[DONE]` counts as
  whole, as the client takes it.
- `RetroPool`: `pool` (dispatcher, results, first error), `worker[c]`, and
  `cache`, its files by key. `Dispatch` hands over the unbuffered channel, also
  after a cancellation, where the select may still choose the job; `Lookup`,
  `Answer`, `Tally`, `Leave` are `summarizeEntry` and the tally under the lock;
  `CloseQueue`, `EndPool` the end. A store in the cache may fail.
- `WakeLoop`: `wake` (which row, which prompt), `tally` (`Summary`), and what
  the loop writes to the journal. One action per answer at the menu, per end of
  input (`EndMenu`, `EndFeedback`), for drafts that fail, and for `--auto`'s
  length guard (`Measure`). A write that fails, `AbortWake`, ends the run. Other
  processes' verbs come in between (`OtherVerb`).

`Flows` adds brief's one call and the process: `EndBrief`, `EndRetro`,
`EndWake`, then `PrintOut`, `StopLine` (the deferred `Stop`) and `Exit`, which
waits for the goroutine. Time is abstract: a limit may strike whenever it runs.

## Harness: state and actions

`tree[i]` is a skill's directory: its generated file, the stamp beside it and
whether other files are there. `settings` is `settings.json`, reduced to
`hooks.SessionStart` (groups, each a sequence of commands), the two containers
and whether `hooks` has other events. A checksum is the content itself. No
write here is a rename, so each `os.WriteFile` is two steps, `Truncate…` and
`Write…`, and a crash in between leaves the file torn. `CheckTarget` is the
loop of `installHarness` over `Status`; `Remove_` is `os.RemoveAll`, a file at
a time; `ReadSettings` to `WriteSettings` are `Splice` and `Unsplice` with
`writeBakOnce`. `TargetFindings` and `SpliceFindings` are what doctor reports
(`checks.go`). `EditTree`, `EditSettings`, `Upgrade` happen between verbs: the
person, and a binary that generates other contents. `last` is the verb that
ended well, undisturbed, since which nothing happened.

## WorkDays and Views: state and actions

`WorkDays` keeps the breadcrumb files (by the date and machine of the append),
the breadcrumbs whose verb reported success, and the sessions on record.
A stamp is an instant and an offset; `DayOf`, `AddDays`, `ParseDay` and
`ParseDuration` are `day.go`'s. `Appended` and `CutShort` are `appendLine`
whole and cut off: a torn line swallows the next. `Capture` puts a session on
record with the stamp its harness wrote, in UTC, and the shard of the machine's
own date, and in a state the verbs can have brought it to (`Standings`).

`Views` has no actions: each query is a function of the state, translated from
the filter (`Match`, `Apply`), `ReadBreadcrumbsForDay`, `sessions`, `stats`,
retro's gathering (`Retro`), wake's working set (`Wake`, `groupByProject`) and
brief's groups with their caps (`Brief`, `Hoist`, `Emit`). They select with
`Picked` and order with `Sorted` (`sort.SliceStable`), of `Lists`. Its
properties ask every reader, cutoff and window in every state.

## Sources: state and actions

`SourceSweep` is the capture loop as a source takes part in it: discover,
verdict, correlate, capture, commit, a session at a time, sweep after sweep.
`settled` remembers that a sweep ran through with nothing written and that no
session's evidence changed since (nor, for pi, a file was moved under a later
walk: `Stands`). Each source module adds its own store, its
side of those steps and the harness that writes between any two of them:

| module | store | steps (`source/…`) | harness |
| --- | --- | --- | --- |
| `ClaudeSource` | transcripts as sequences of uuids with a torn or bare tail, one subagent beside each | `ClaudeVerdict`, `CopyTranscript` (one pass copies, hashes, counts), `CopySidecars` behind it | appends, torn appends, the subagent's writes, the clean-up |
| `PiSource` | files of a header and entries with parents, each with an mtime | `Stat`, `Candidate`/`NoCandidate`, `ResolveDuplicates`, `PiCopy` with its header check | appends, torn lines, replacement, copies, removal |
| `DevinSource` | a row, its message nodes, tool states | `DevinVerdict` (count, then hash), `Snapshot`, `Analyze`, `Export` in one transaction | new nodes, edits in place, moved heads, dropped nodes, answers, retitles |

`Chains.WalkLeaf` is the walk from leaf to root that pi and devin make when
they capture and again when they read; `ToolCalls.Events` is how the structured
readers put results to calls, and `Paired` the reference it is checked against.
The readers (`Shown`, `ActiveEntries`, `ActiveChain`, `DevinStream`) read the
copy, and `FactsMatchCopy` compares them with the record. The two sides classify
a line each in its own way: claude's scan takes only a string for a prompt where
the reader takes blocks too (`ScanLine`, `ClaudeTurns`), and a capture counts
replies without a text that the readers leave out (`Turns`, `PiTurns`); the
property says which kinds make the difference.

## Runs

| run | instance | what it shows |
| --- | --- | --- |
| `journal_race` | 2 sweeps, 1 user, 1 session, 2 revisions, 1 fault, interleaved; sweeps symmetric | `CuratedHasEntry`, `RecordHasCopy` |
| `journal_alone` | 1 sweep, 1 user, an undated session, 2 days, 3 revisions, 2 faults, one command at a time | `RecordNotAhead`, `OneShardPerSession`, `FreshEntryCoversRecord`, `DecisionsOutrank`; `DismissalSparesEntries` and `GrownAreRetracted` as long as nothing was aborted; the refinement `FollowsLifecycle` |
| `journal_progress` | 1 sweep repeated, 2 sessions, 2 days, 2 revisions, 1 fault, no verbs | `CatchUp` |
| `amp_alone` | 1 sweep repeated, 2 threads (one continued), clock to 5, two midnights, room for 1 pending id, 2 faults | `NothingForgotten`, `NeverWorsened`, `ThreadsCatchUp` |
| `amp_race` | 2 sweeps interleaved, 1 thread written once, clock to 4, 2 faults; sweeps symmetric | `NothingForgotten`, `FloorNeverRegresses` |
| `registry` | 2 processes, 2 machines, 2 repositories both called app, 2 slugs, 1 remote, 4 ids, 3 verbs, 1 move or new remote, 1 fault | `OneProjectPerRemote`, `LocatorsAnswerOnce`, `ClonesHaveProject`, `ClonesKept`, `IdentitiesStand` |
| `flows` | 2 callers, 3 retro entries over 2 possible caches, 2 wake sessions, 1 promotion, 1 verb of another process | `CleanScreen`, `TallyTrue`, `CauseReported`, `SummariesCurrent`, `CacheWhole`, `Returns` |
| `harness` | 2 processes, 2 skills, 2 builds, 3 settings files, 3 verbs, 1 edit, 1 crash, 1 upgrade | `SettingsKept`, `OneShim`, `PromiseKept`, `DoctorTells`, `EditsKept` |
| `views` | 2-hour days, machines an hour west and east of UTC, 3 homes, 3 sessions or breadcrumbs, 1 torn append, caps of 1 per group and 2 in all | `DaysTile`, `TearsCostOne`, `WakeInOrder`, `BriefLeads` |
| `sources` | one harness at a time, 3 writes of it; a claude transcript of up to 5 records, a prompt in blocks among them, 2 pi sessions on 2 paths, a reply and a bare tool call, 2 devin nodes | `FactsMatchCopy`, `SettledCurrent`, `SettledQuiet`, `AgentsComplete`, `ResultsPaired` |

**Why the bounds are enough to see the interesting cases.** *Journal.*
Sessions do not share documents, so one suffices for races on a session's
documents, and two for a sweep that handles one while another waits. Two sweeps
suffice for crossed commits and records, since each write depends on at most
one other sweep's. Of three revisions only the last is substantive: a session
then grows once within being a no-op and once out of it. Two days let a sweep
that died before midnight be repeated after it. Two faults let a recovery be
interrupted as well. *Amp.* Two threads let one be found while the other is
hidden, and overflow a cap of one pending id (the code's cap is a constant;
only reaching it matters). Five instants leave room for a creation, a scan, an
update below the next day's start and two more scans. In `amp_race` the thread
is written once, because with continued threads two sweeps can lose it without
any fault (see the disagreements); two faults cover a theft followed by the
thief's or the victim's crash. *Registry.* Every check of a verb compares with
at most one other row, so two repositories that want the same slug, label and
remote collide in each of them; three verbs are a race and what comes after it.
*Flows.* Two workers and three entries make one worker take a second entry, and
let one fail while the other waits for its answer; two sessions let wake go on
after a failure. *Harness.* Two skills tell "some" from "all"; three verbs with
a crash are an interrupted one, its repetition and an uninstall. *Views.* With
days of two hours every cutoff, both sides of it and every zone are instants of
the model; three items overflow each of the two caps, one entry per group and two in all. *Sources.* Three writes are one
before the discovery, one between verdict and copy, one after; two paths are
the smallest duplicate, two nodes the smallest chain, cycle and broken link.

`CHECK_DEADLOCK FALSE` stands only where the instance runs out of the things it
counts (verbs, edits, items): `registry`, `harness`, `views`, `work_days`. In
the others a command can always start again, or the ended process stutters.

**Fairness.** Weak fairness of each sweep's own steps, `Sweeping(s)`: a started
process goes on until it ends or is aborted, and the SessionStart hook
(`harness/claudecode/shim.go`) or a cron line (the repository's README) starts
another. For amp it is the same of `Running(r)`, and strong fairness of
`Acquire(r)`: the wait for the lock ends after two seconds whoever else comes
and goes, so contention cannot keep a sweep out for ever; `Steal` is a fault
and is never assumed. For the flows it is weak fairness of the process's own
goroutines (`Main_`, `Loop`, `RetroStep`, `Quit`), of the total limit
(`Expire`: `llm.go` always sets one) and of the error a call on a done context
returns (`Fail`). The endpoint need never answer, and nobody obliges a session
to grow, a clone to be registered, or a person to answer a menu: `Returns`
allows a wake that is waiting at one.

### Disagreements found

Two are runs TLC finds violated, on a property that states what a comment or a
document of the repository says:

| run | property | what happens |
| --- | --- | --- |
| `amp_midnight` | `NothingForgotten` | the floor stops at the start of a broken window, the next scan keeps only rows strictly after the floor: a thread stamped at that very instant and not shown by the broken window is never looked at again |
| `work_days` | `WorkDaysAgree` | `started_at` keeps the harness's UTC stamp while the shard beside it is local, and `DayOf` goes by the date the stamp shows: away from UTC, sessions near the cutoff fall on a neighbouring work day |

The others (quoted under `findings` in `PROJECT.json`) have no run of their
own; the properties state what holds in spite of them, and say so in their
comments:

- a sweep resets amp's checkpoint at the cap of pending ids while another, which
  loaded it before, scans: the other's merge takes its own pending id for
  drained and its floor covers the thread (`AmpRace` with two threads and a
  clock to 3 shows it; with room for both ids there is no violation);
- two overlapping sweeps cross commit and record, and the copy stays older than
  the record (`CatchUp` holds for one sweep at a time);
- an undismissed no-op is not dismissed again, as `undismiss.go` says it is,
  until it grows;
- a sweep reads `curation.json` and acts on it without a lock, so a decision a
  verb makes in between is lost, though capture.go says a user's dismissal or
  entry is never touched (`DecisionsOutrank` holds of commands that do not
  overlap; in the instance of `journal_race` it is violated);
- claude's scan counts a person's prompt only if it is a plain string, the
  reader shows those in blocks too (`FactsMatchCopy` leaves them out by name);
- an entry left by an interrupted curate does not stop the automatic dismissal,
  though it stops the `dismiss` verb; a sweep aborted before the retraction
  leaves a grown session dismissed (the two properties ask for no faults);
- two overlapping amp sweeps settle an id on an old record;
- `install --force` keeps files a person added to a skill, so the tree stays
  modified; doctor's advice for a tampered hook leads to two hooks; the comment
  on the orphaned hook says no verb reaches it, and one does (`PromiseKept` names
  the extra file; `DoctorTells` is about a verb that was alone and got past its
  first write, and asks for the pinned hook, not for the absence of another);
- pi's scan and pi's readers differ on an entry whose message is not an object
  (the harness does not write one, and the model has none).

Behaviour worth knowing that contradicts no text: a stream that ends cleanly
without `[DONE]` counts as whole; a torn `.bak` is never remade and `Unsplice`
makes none; a breadcrumb line above 64 KB fails the read of its whole file; a
transcript line above 16 MB is a bad line to the capture, is passed over by pi's
readers and ends claude's with an error; the counts of a record include replies
without a text, as a bare tool call, which `RenderTranscript` leaves out; claude's `RenderTranscript` does not drop repeated uuids
while its other readers do; two machines may give one label to two clones of a
project, as `resolve.go` says, since none sees the other's when it registers
one; a label of a ULID's shape is refused by init only
after project.json is written; the slug of a keyless init that was killed stays
taken.

## Theorems

Each module of proofs is for any values of the constants under the named
assumptions of the modules that declare them (ranges nonempty, functions well
typed; sets of sessions, processes, machines are arbitrary, the machines of
`WorkDays` finitely many, as a view counts what they wrote).

`JournalProofs` proves, whether or not commands run alone:

- `Invariance`: `Spec => []IInv`;
- `TypeCorrect`, `CuratedAlwaysHasEntry`, `RecordAlwaysHasCopy`.

The invariants are not inductive by themselves: that a written
`curation.json` finds an entry depends on what the curate that writes it did
two steps ago. `IInv` adds what every process in the middle of its work relies
on: a sweep past its commit has a copy in its directory (`Committed`), what it
remembers of the walk is still there (`Remembers`), it works on a real
directory and a real revision (`SweepInv`); a verb's session is listed, a
curate has a draft, and one past its first write an entry (`VerbInv`). The
proof rests on `Kept`: no step takes a copy, a record, an entry or a live
transcript away, so whatever a process that does not move relied on stands
(`OtherSweep`, `OtherVerb`); `SweepMoves` and `VerbMoves` reduce an action to
what it does for the one process that moves, and each action has its lemma.
`LeastExists` and `LatestExists` give the shard that `Resolve` and the walk
choose.

Its second part assumes `Alone` and proves `RecordNeverAhead`,
`AlwaysOneShardPerSession`, `FreshEntryAlwaysCoversRecord`,
`DecisionsAlwaysOutrank` and `JournalFollowsLifecycle`: the journal implements `CurationLifecycle`, with any
number of aborts. `AInv` adds to `IInv` that at most one process is at work
(`AtMostOne`), that no copy is ahead of its transcript, no record of its copy
and no curation stamp of its record (`Levels`), and that what the one process
read still stands (`SweepAlone`, `VerbAlone`). For the refinement (`Phases` is
the abstract state of every session directory) each action either leaves it
alone (`PhasesStand`) or moves one directory along one edge (`OneMove`).
`DismissalAlwaysSparesEntries` and `GrownAlwaysRetracted` hold as long as no
command was aborted, so `SInv` puts the number of faults into the invariant: a
session with an entry is decided, or a curate is at work on it
(`EntriesDecided`, `BeingEntered`), and capture's own dismissal of a session
that has grown substantive is about to be retracted by the sweep in hand
(`GrownSettled`, `BeingSettled`). It needs no case for an abort but that
`faults` grows (`FaultSettles`).

`AmpProofs` proves about `AmpScanState` `ScanTypeCorrect`,
`LockAlwaysExcludes` (`LockExcludes`) and `FloorAlwaysAdvances`
(`FloorNeverRegresses`). The last two rest on `LockInv`: while there is no
fault, a run inside an update holds the lock, and what it read is still what
the file holds. The invariant is needed because nothing in `Save` looks at the
lock or the file again: that the merge sees the newest floor is a fact about
every other run's place.

Its second part assumes `Alone` and no stamp at a midnight (`MidnightStamps =
FALSE`; `amp_midnight` shows the assumption is needed) and proves, for any
number of faults, `NothingForgottenAlone` and `NeverWorsenedAlone`.
`NothingForgotten` alone is not inductive: that a saved checkpoint covers what
it claims was decided when the scan was made, the threads it found may have
moved since, and a settle rests on the walk. `IInv` therefore says, of the run
at work, what each phase relies on: what it walked is still on record for the
threads it has yet to handle, and each was found at its present revision or has
since moved above every floor (`ItemsInv`, `Fresh`); a scan started from the
file as it is, and what it keeps covers the floor it reached (`ScanInv`); what
an update read was covered and what it settles is on record (`UpdateInv`); a
stamp given from now on is above every floor (`FloorsInv`, `ClockInv`).
`SearchCovers` is the argument for the floor itself: an owed thread below it
was found, queued, still pending, or covered by the checkpoint the scan started
from; `SavedCovers` that the merge then keeps what the scan kept; `OneMoves`
reduces each action to the one run that moves.

`RegistryProofs` proves `RegistryTypeCorrect`, `ClonesAlwaysHaveProject`,
`RemotesStayUnique`, `ClonesAlwaysKept` and `IdentitiesAlwaysStand`. Its `IInv`
says of each process that its plan still fits the registry - the project it
writes to is there, and unless verbs overlapped the remote and the slug it takes
are still free - (`PlanFits`), that the clones file it read is still the one on
disk unless verbs of its machine overlapped (`FileFits`), and that without an
overlap one process is at work (`OneAtWork`).
A second invariant adds `LocatorsAlwaysAnswerOnce`, whose `OInv` needs that
every id in use was minted (`Minted`), that a machine's rows differ in id and
directory (`LinesOnce`) and those it has in one project in label (`LabelsOnce`), and that
no plan under way takes a directory or label that is in use (`PlanOnce`).

`ViewsProofs` proves `TearsAlwaysCostOne`, for any numbers of breadcrumbs,
machines and tears, by strengthening it to a count: breadcrumbs lost, and files
whose last line is torn, together never exceed the appends that were cut short
(`WInv`). `DayInTwoFiles` is the arithmetic behind `ReadBreadcrumbsForDay`: a
breadcrumb of a work day is in the file of that date or of the next.

Its other theorems are of what the verbs answer: `DaysAlwaysTile`,
`WakeAlwaysInOrder` and `BriefAlwaysLeads`, for every cutoff, zone, caps and
journal. `VInv` adds to `WInv` what makes "exactly once" true: no two sessions
are alike, and no line stands twice in the files, as no two breadcrumbs are
written alike and a line that can be read is one a verb reported, or was cut
short and is the last of its file (`Singly`).
A view is then followed from the walk to the answer by one notion: `Listing` of
a sequence and a set says that it has each element of the set once and nothing
else. `ListLemmas` shows that picking, stable sorting, concatenation and
flattening keep it, and `Ascending` that they keep or establish an order; each
view's lemma names the set (`WindowListed`, `WakeIs`, `GatherIs`). The sets of a
window's days are disjoint, which is why nothing is repeated; that those of two
file dates hold a work day is `DayListed`. For wake, `GroupedIs` orders the
projects by their latest session. For brief, `CappedIs` carries through the
loop what the caps have given so far (`Spent`): as many entries as counted,
of each workspace the first few of its newest-first rows, and fewer than there
are only at a cap.

`FlowsProofs` proves all of the flows' invariants, for any numbers of callers,
jobs, rows, promotions and earlier summaries: `FlowsTypeOK`, `FlowsCleanScreen`,
`FlowsTallyTrue`, `FlowsCauseReported`, `FlowsSummariesCurrent` and
`FlowsCacheWhole`. `IInv` has a conjunct for each part and each rests on those
before it: a verdict of "ok" came with the whole reply, and no call is cancelled
before the failure it is cancelled for is the pool's error (`CallsTrue`); so
what is cached is whole (`CacheTrue`); the line is drawn and cleared under the
mutex, and nobody who writes beside it has left it up (`LineTrue`); every job
handed out is with one worker, tallied, or lost to a failure that cancelled the
rest (`PoolTrue`: why a retro that succeeds has them all); the rows behind
wake's loop are each accepted, dismissed or skipped and none from the current
one on was written (`RowsTallied`). `Place` ties the parts to the verb.

`HarnessProofs` proves `HarnessOneShim`, `HarnessPromiseKept`,
`HarnessDoctorTells`, `HarnessEditsKept` and `HarnessSettingsKept`, for any
numbers of skills, builds, processes, edits, upgrades and crashes. It assumes that no file clast has never
touched holds clast's hook (`SettingsAssumption`) and that content names differ
from the marks for no content (`VersionsAssumption`). `PromiseKept` is about
the moment a verb ends, but each write of it relied on what it had read: `IInv`
says of a verb at work that the tree in hand still holds nobody's changes
(`Gentle`, why `EditsKept` holds several writes after the check), that the
settings file it read had or lacked the hook as its edit takes for granted
(`Read`), and that a verb alone so far has done every target it has passed and is where
it should be in the one in hand (`Ahead`, which is also why doctor cannot be
silent on what such a verb leaves behind: the first tree tells). Two verbs at once need no more than `OthersKept`: what a verb writes
to a tree is no person's change. The lemmas before it are about the edits
themselves, for files of any shape: Splice adds the hook where there is none,
Unsplice takes the only one, and no edit by hand adds one (`SpliceAdds`,
`UnspliceTakes`, `ByHandOnce`); they need the least index of a set
(`LeastOf`), as `findShimEntry` takes the first.

`SettingsKept` needs an invariant beside `IInv`, `KInv`: the person's part of
the file is what they made it both in the file and in what each verb at the
file has read (so a verb that writes back an old reading loses nothing of
theirs, as they edit only between verbs); a torn file is one a verb is about to
write, until a crash makes one of the two files an orphan, and only a second
crash both (`OneWhole`). That an edit leaves the person's part alone is
`SpliceOwn` and `UnspliceOwn`, for files of any length: `Own` is written with a
recursive function (`Without`) for this, whose existence and whose indifference
to an element that is dropped anyway (`WithoutOne`) are in `ListLemmas`.

`SourcesProofs` proves `SettledIsCurrent`, `SettledIsQuiet`,
`AgentsAreComplete`, `FactsAlwaysMatch` and `ResultsAlwaysPaired`, for any
numbers of sessions, files, lines, nodes and writes. "A sweep ran through undisturbed" is a fact about a whole sweep, so the
invariant says of each moment of one what it has done so far. `Steady` is the
same for the three sources: a settled store has every session on record and no
sweep of it is about to copy one; an undisturbed sweep has those it has not
recorded still before it. `Visiting`, `Passing`, `Moving` and `Writing` are what
the four kinds of step do to it, once for all sources; each source then shows
that its verdict says "unchanged" exactly of the sessions on record
(`ClaudeCurrent`, `PiCurrent`, `DevinCurrent`).

For claude `ProjectsInv` says that a result in a transcript came behind the
whole of the subagent's, and `ClaudeStaged` keeps that from the copy of the
transcript to the copy of the sidecar: until it expires it stays whole, and none
takes its place (`started`). `AgentsComplete` follows because the records of a
copy are lines of it (`ResultsLie`, by `WithoutElements`). For pi the walk sees
one file after another. `WalkInv`: the newest file of each session is among the
candidates or still to come; `Resolved`: so the duplicates are resolved to it,
and each session is found once, at its newest file (`HolderIs` finds it: the
least age, then the least path). `settled` needs `Stands` for it: with three
files, a person who moves a session's newest file from
where the walk has yet to come to where it has been hides it from the walk, and
an older copy is recorded in its place until the next sweep.

The last two speak of what two passes over the same bytes compute: the capture,
which counts a line at a time while it copies, and the readers, which build
events from the copy. Their invariant is `CopiesInv`: of each copy in the
journal the record beside it says, in capture's way of counting, what is in the
conversation a reader would take there (`ClaudeFacts`, `PiFacts`, `DevinFacts`), and so does a capture that has staged its copy and not
committed yet, whatever the agent has written to the original since
(`CopiesStand`). What an agreement of two passes needs is an induction over the
prefixes. `ScanCounts` carries the set of identities both passes have met, so a
record that a fork repeated is dropped by both. `WalkIs` shows that the walk up
the parents ends, at a root or where the chain breaks, within one step more than
there are entries, as no entry is met twice (`PathFits`); `ChainIs` that counting
the walk leaf first and reading it root first find the same. `AlwaysPaired`
carries through `Events` what a stream told so far owes its results (`Telling`,
kept by `TellingStep`): each place is told once, and the result a call shows is
the first of its id behind it with no call of that id between.

`ListLemmas` has the facts about lists that several of these proofs cite: the
edits of a sequence, the least of a set of numbers (`LeastOf`), the existence of
a fold over the prefixes (`Folding`), and by induction over them (`FromZero`)
which elements a list keeps and how often (`WithoutElements`, `OnlyEmbeds`,
`OnlyCounts`, `CountAppended`, `Reversing`). `Ranking` is behind the sorts: in
any strict order of a finite set, the number of elements up to one is its place,
the first has 1, the last all, and no two the same.

**Only model-checked.** Liveness (`CatchUp`, `ThreadsCatchUp`, `Returns`),
which the proof system cannot do; and amp's `NothingForgotten` for concurrent
runs. The last is not true of every value of
the constants: it needs threads that are written once (see the disagreements)
and room for all of them, which is what `amp_race` has.

A definition that a theorem needs to compute with is written with a recursive
function rather than with `SelectSeq` or `FoldLeft` (`Only`, `Scanned`,
`Deduped`, `Events`, `WalkLeaf`, `Capped`) or through the places of the elements
(`Picked`, `Sorted`), as the provers cannot instantiate an operator
that takes an operator.

## Not modelled

`PROJECT.json` lists every part with its status. The analyze server renders
pages from one walk; the command chassis (flags, configuration, error classes,
the manifest of verbs) keeps no state. Of the amp source, the subdivision of
search windows, the correlation and quarantine caches that ride in the
checkpoint, the export's retries and the same-revision repair of `Supersedes`
are left. Also left out: the root marker and its `created_at`, the resolution of
pi's session roots from its settings, the normalization of remote URLs, `show`,
`whereami` and all formats and wording, doctor's probes other than the
harness's, and the minting of a ULID (`Registry` assumes ids that increase and
differ). clast installs no signal handler, so a signal is a kill. Copying a
journal between machines while verbs run is outside the program; `Registry` has
two machines that share one.
