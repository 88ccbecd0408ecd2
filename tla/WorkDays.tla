------------------------------ MODULE WorkDays ------------------------------
(***************************************************************************)
(* Work days (journal/day.go), the breadcrumb files                        *)
(* (journal/breadcrumbs.go, verbs/breadcrumb) and the sessions the query   *)
(* verbs walk, as time passes.                                             *)
(*                                                                         *)
(* An instant is counted in hours; a stamp is an instant and the offset of *)
(* the zone it was written in, as an RFC 3339 timestamp carries both.  A   *)
(* breadcrumb is stamped with its machine's clock, in the machine's zone;  *)
(* a session's start is the stamp its harness wrote, and every harness     *)
(* clast reads writes UTC (a trailing Z, or unix seconds that clast turns  *)
(* into UTC).                                                              *)
(***************************************************************************)
EXTENDS Integers, Lists

CONSTANTS
  DayLength,   \* hours in a day (24)
  MaxTime,     \* bound: the last instant
  Machines,    \* machine names
  ZoneOf,      \* their zones' offsets from UTC, in hours
  Homes,       \* where one works: a machine, a project and its clone's label,
               \* or a directory of no project
  NoProject,   \* the nil project, and the slug of a global breadcrumb
  MaxItems,    \* bound: sessions and appends together
  MaxTorn      \* bound: appends cut short

ASSUME WorkDaysAssumption ==
  /\ DayLength \in Nat \ {0}
  /\ MaxTime \in Nat
  /\ ZoneOf \in [Machines -> (1 - DayLength)..(DayLength - 1)]
  /\ \A h \in Homes : h.machine \in Machines
  /\ "none" \notin Machines /\ IsFiniteSet(Machines)

VARIABLES
  now,       \* the instant
  files,     \* breadcrumbs/<date>.<machine>.jsonl, by date and machine
  noted,     \* the breadcrumbs whose verb reported success
  tornEver,  \* how many appends were cut short
  sessions   \* the sessions on record, in the order of their directories' names

vars == <<now, files, noted, tornEver, sessions>>

-----------------------------------------------------------------------------
(* Stamps and days. *)

Stamp(t, zone) == [at |-> t, zone |-> zone]

\* The wall clock and calendar date a stamp shows, in its own zone.
Clock(s) == (s.at + s.zone) % DayLength
Date(s) == (s.at + s.zone) \div DayLength

Cutoffs == 0..(DayLength - 1)

\* The work day of a stamp: before the cutoff it is still yesterday's.
DayOf(s, cutoff) == IF Clock(s) < cutoff THEN Date(s) - 1 ELSE Date(s)

AddDays(day, n) == day + n

\* "today" is 0, "yesterday" 1 and "-Nd" N days before the reader's work day.
ParseDay(back, reader, cutoff) ==
  AddDays(DayOf(Stamp(now, ZoneOf[reader]), cutoff), -back)

\* "-Nw" is seven days a week, "-Nd" a day a day.
ParseDuration(n, unit) == IF unit = "w" THEN 7 * n ELSE n

-----------------------------------------------------------------------------
(* Breadcrumb files. *)

Dates == -1..((MaxTime + DayLength) \div DayLength + 1)

Garbage == [at |-> Stamp(0, 0), slug |-> NoProject, machine |-> "none"]

EmptyFile == [lines |-> <<>>, open |-> FALSE]

\* Mutant: the line that was swallowed leaves the file as cut short as before.
AppendedOpen(file, line) ==
  IF file.open
  THEN [lines |-> [file.lines EXCEPT ![Len(file.lines)] = Garbage], open |-> TRUE]
  ELSE [lines |-> Append(file.lines, line), open |-> FALSE]

\* One append: onto a line of its own, unless the file ends in one that was
\* cut short, which swallows it.
Appended(file, line) ==
  IF file.open
  THEN [lines |-> [file.lines EXCEPT ![Len(file.lines)] = Garbage], open |-> FALSE]
  ELSE [lines |-> Append(file.lines, line), open |-> FALSE]

\* ... or cut short itself: some of its bytes are there, or all but the newline.
CutShort(file, line) ==
  IF file.open
  THEN {[Appended(file, line) EXCEPT !.open = TRUE]}
  ELSE {[Appended(file, l) EXCEPT !.open = TRUE] : l \in {line, Garbage}}

\* A reader skips the lines that do not parse.  (A line above 64 KB, which the
\* model has none of, makes it fail the whole file.)
ReadBreadcrumbFile(date, m) ==
  LET lines == files[<<date, m>>].lines
  IN Picked(lines, {i \in DOMAIN lines : lines[i] # Garbage})

-----------------------------------------------------------------------------
Items == Cardinality(noted) + tornEver + Len(sessions)

Init ==
  /\ now = 0
  /\ files = [f \in Dates \X Machines |-> EmptyFile]
  /\ noted = {}
  /\ tornEver = 0
  /\ sessions = <<>>

Tick ==
  /\ now < MaxTime
  /\ now' = now + 1
  /\ UNCHANGED <<files, noted, tornEver, sessions>>

Crumb(m, slug) ==
  [at |-> Stamp(now, ZoneOf[m]), slug |-> slug, machine |-> m]

\* --global notes from anywhere; without it the directory must be a clone.
Crumbs(h) ==
  {Crumb(h.machine, slug) : slug \in {NoProject, h.project}}

\* The file is the one of the stamp's own calendar date, and no clock is read
\* again.
FileOf(c) == <<Date(c.at), c.machine>>

\* No two breadcrumbs are alike (their texts, which are left out, differ).
Breadcrumb(h) ==
  /\ Items < MaxItems
  /\ \E c \in Crumbs(h) \ noted :
       /\ files' = [files EXCEPT ![FileOf(c)] = Appended(@, c)]
       /\ noted' = noted \cup {c}
  /\ UNCHANGED <<now, tornEver, sessions>>

\* The disk is full, or the process dies, in the middle of the line.
TornBreadcrumb(h) ==
  /\ tornEver < MaxTorn /\ Items < MaxItems
  /\ \E c \in Crumbs(h) \ noted : \E f \in CutShort(files[FileOf(c)], c) :
       files' = [files EXCEPT ![FileOf(c)] = f]
  /\ tornEver' = tornEver + 1
  /\ UNCHANGED <<now, noted, sessions>>

\* Where the state verbs have brought a session by now: a curated one may have
\* grown since, and its entry may be torn.
Standings ==
  [state : {"captured", "dismissed"}, stale : {FALSE}, entry : {"none"}]
  \cup ([state : {"curated"}, stale : BOOLEAN, entry : {"whole", "torn"}]
        \ {[state |-> "curated", stale |-> TRUE, entry |-> "torn"]})

\* A session on record: the start its harness stamped in UTC, the machine that
\* captured it, its frozen project and label.  Only the shard is of the
\* machine's own date.
Session(h, standing) ==
  [key |-> Len(sessions) + 1, started |-> Stamp(now, 0), machine |-> h.machine,
   shard |-> Date(Stamp(now, ZoneOf[h.machine])), project |-> h.project, label |-> h.label,
   state |-> standing.state, stale |-> standing.stale, entry |-> standing.entry]

Capture(h, standing) ==
  /\ Items < MaxItems
  /\ sessions' = Append(sessions, Session(h, standing))
  /\ UNCHANGED <<now, files, noted, tornEver>>

Next ==
  \/ Tick
  \/ \E h \in Homes :
       \/ Breadcrumb(h)
       \/ TornBreadcrumb(h)
       \/ \E standing \in Standings : Capture(h, standing)

Spec == Init /\ [][Next]_vars

-----------------------------------------------------------------------------
(* Properties. *)

\* The breadcrumbs that can be read back.
Survivors ==
  (UNION {{files[f].lines[i] : i \in DOMAIN files[f].lines} : f \in DOMAIN files})
  \ {Garbage}

\* Appends cut short cost at most one breadcrumb each: of those whose verb
\* reported success, no more than the number of torn appends cannot be read
\* back, because the line that follows one is swallowed by it and the next one
\* is not (AppendBreadcrumbAs writes no newline before its line).
TearsCostOne == Cardinality(noted \ Survivors) <= tornEver
=============================================================================
