------------------------------- MODULE Views -------------------------------
(***************************************************************************)
(* What the query verbs answer at any moment: `sessions`, `breadcrumbs`,   *)
(* `stats` and the gathered material of `wake`, `brief` and `retro`        *)
(* (query/filter.go and their packages).  A view is a function of the     *)
(* state; it reads the clock once, at its start.                           *)
(***************************************************************************)
EXTENDS WorkDays, SequencesExt

CONSTANTS
  PerGroupCap, \* entries a brief shows of one workspace (3)
  TotalCap     \* and altogether (8)

ASSUME CapsAssumption == PerGroupCap \in Nat \ {0} /\ TotalCap \in Nat \ {0}

-----------------------------------------------------------------------------
(* The walk and its filter. *)

\* By shard, and within a shard by directory name, as `sessions` are.
Walk == Sorted(sessions, [i \in DOMAIN sessions |-> sessions[i].shard])

\* No restriction: an empty set of states, projects, machines, days, bounds.
NoFilter == [states |-> {}, stale |-> FALSE, project |-> {}, machine |-> {},
        day |-> {}, since |-> {}]

Stale(s) == s.state = "curated" /\ s.stale

Match(s, f, cutoff) ==
  /\ f.states # {} => s.state \in f.states
  /\ f.stale => Stale(s)
  /\ \A p \in f.project : s.project # NoProject /\ s.project = p
  /\ \A m \in f.machine : s.machine = m
  /\ \A d \in f.day : DayOf(s.started, cutoff) = d
  /\ \A d \in f.since : DayOf(s.started, cutoff) >= d

Apply(items, f, cutoff) == Picked(items, {i \in DOMAIN items : Match(items[i], f, cutoff)})

\* "all" is no bound.
ResolveSince(window, reader, cutoff) ==
  {AddDays(DayOf(Stamp(now, ZoneOf[reader]), cutoff), -ParseDuration(w.n, w.unit)) : w \in window}

NewestFirst(rows) == Sorted(rows, [i \in DOMAIN rows |-> -rows[i].started.at])
OldestFirst(rows) == Sorted(rows, [i \in DOMAIN rows |-> rows[i].started.at])
EarliestFirst(crumbs) == Sorted(crumbs, [i \in DOMAIN crumbs |-> crumbs[i].at.at])

\* `clast plumbing sessions`.
Sessions(f, cutoff) == NewestFirst(Apply(Walk, f, cutoff))

-----------------------------------------------------------------------------
(* Breadcrumbs. *)

MachineOrder == SetToSeq(Machines)

\* Every machine's file of one date, in the order of their names.
ReadBreadcrumbs(date) ==
  IF date \in Dates
  THEN FlattenSeq([i \in DOMAIN MachineOrder |-> ReadBreadcrumbFile(date, MachineOrder[i])])
  ELSE <<>>

OfDay(crumbs, day, cutoff) ==
  Picked(crumbs, {i \in DOMAIN crumbs : DayOf(crumbs[i].at, cutoff) = day})

\* Mutant: only the files of the day's own date are read.
ReadOwnDate(day, cutoff) == OfDay(ReadBreadcrumbs(day), day, cutoff)

\* A day's breadcrumbs lie in its own files and, before the cutoff, in those
\* of the date after it.
ReadBreadcrumbsForDay(day, cutoff) ==
  OfDay(ReadBreadcrumbs(day) \o ReadBreadcrumbs(AddDays(day, 1)), day, cutoff)

\* `clast plumbing breadcrumbs`, of a project, global, or all of them.
OfSlugs(crumbs, slugs) == Picked(crumbs, {i \in DOMAIN crumbs : crumbs[i].slug \in slugs})

Breadcrumbs(day, cutoff, slugs) ==
  EarliestFirst(OfSlugs(ReadBreadcrumbsForDay(day, cutoff), slugs))

-----------------------------------------------------------------------------
(* retro: a window of days that ends at one day. *)

\* --since widens the day backwards.
ResolveWindowStart(day, window) ==
  IF window = {} THEN day
  ELSE CHOOSE d \in {AddDays(day, -ParseDuration(w.n, w.unit)) : w \in window} : TRUE

WindowSessions(first, day, cutoff) ==
  LET rows == Apply(Walk, [NoFilter EXCEPT !.since = {first}], cutoff)
  IN Picked(rows, {i \in DOMAIN rows : DayOf(rows[i].started, cutoff) <= day})

GatherBreadcrumbs(first, day, cutoff) ==
  FlattenSeq([i \in 1..(day - first + 1) |-> ReadBreadcrumbsForDay(AddDays(first, i - 1), cutoff)])

OfProject(rows, p) == Picked(rows, {i \in DOMAIN rows : rows[i].project = p})

Readable(s) == s.state = "curated" /\ s.entry = "whole"

\* A group for every project with a session or a breadcrumb; sessions without
\* a project share one, breadcrumbs without a project belong to none.
Retro(first, day, cutoff) ==
  LET windowed == OldestFirst(WindowSessions(first, day, cutoff))
      crumbs == EarliestFirst(GatherBreadcrumbs(first, day, cutoff))
      named == {s.project : s \in ToSet(windowed)}
               \cup ({c.slug : c \in ToSet(crumbs)} \ {NoProject})
  IN [groups |->
        [p \in named |->
           [sessions |-> OfProject(windowed, p),
            entries |-> Picked(windowed, {i \in DOMAIN windowed :
                          windowed[i].project = p /\ Readable(windowed[i])}),
            breadcrumbs |-> OfSlugs(crumbs, {p} \ {NoProject})]],
      global |-> OfSlugs(crumbs, {NoProject})]

-----------------------------------------------------------------------------
(* wake: what is left to curate, project by project. *)

\* Mutant: a curated session that grew is not looked at again.
CapturedOnly(s) == s.state = "captured"

InWorkingSet(s) == s.state = "captured" \/ Stale(s)

\* The project worked on last comes first (of two, by their keys: slugs has
\* them in an order of its own), and its sessions oldest first.
GroupByProject(items) ==
  LET group(p) == OldestFirst(OfProject(items, p))
      latest(p) == Last(group(p)).started.at
      slugs == SetToSeq({s.project : s \in ToSet(items)})
      order == Sorted(slugs, [i \in DOMAIN slugs |-> -latest(slugs[i])])
  IN FlattenSeq([i \in DOMAIN order |-> group(order[i])])

Wake(since, cutoff) ==
  LET rows == Apply(Walk, [NoFilter EXCEPT !.since = since], cutoff)
  IN GroupByProject(Picked(rows, {i \in DOMAIN rows : InWorkingSet(rows[i])}))

-----------------------------------------------------------------------------
(* brief: a project's recent entries by workspace, and its day. *)

OfBrief(slug, since) ==
  [NoFilter EXCEPT !.states = {"curated"}, !.project = {slug}, !.since = since]

WithEntry(rows) == Picked(rows, {i \in DOMAIN rows : rows[i].entry = "whole"})

\* Mutant: the entries stay in the order of the walk.
GatherWalked(slug, since, cutoff) == WithEntry(Apply(Walk, OfBrief(slug, since), cutoff))

GatherEntries(slug, since, cutoff) ==
  WithEntry(NewestFirst(Apply(Walk, OfBrief(slug, since), cutoff)))

FirstAppearances(rows) ==
  LET seen[n \in 0..Len(rows)] ==
        IF n = 0 THEN <<>>
        ELSE IF rows[n].label \in ToSet(seen[n - 1]) THEN seen[n - 1]
        ELSE Append(seen[n - 1], rows[n].label)
  IN seen[Len(rows)]

Hoist(order, current) ==
  IF current \in ToSet(order) THEN <<current>> \o Without(order, {current}) ELSE order

Fewest(a, b) == IF a < b THEN a ELSE b

\* The entries shown of one workspace; the caps are spent in the order of the
\* groups.
Emit(done, rows, key) ==
  LET group == Picked(rows, {i \in DOMAIN rows : rows[i].label = key})
      room == Fewest(PerGroupCap, TotalCap - done.emitted)
      shown == SubSeq(group, 1, Fewest(room, Len(group)))
  IN IF done.emitted >= TotalCap THEN done
     ELSE [emitted |-> done.emitted + Len(shown),
           groups |-> Append(done.groups, [workspace |-> key, entries |-> shown])]

Capped(rows, order) ==
  LET done[n \in 0..Len(order)] ==
        IF n = 0 THEN [emitted |-> 0, groups |-> <<>>]
        ELSE Emit(done[n - 1], rows, order[n])
  IN done[Len(order)].groups

\* current is the label of the clone the reader stands in, if it is one of
\* this project.
GroupEntries(rows, current) == Capped(rows, Hoist(FirstAppearances(rows), current))

Brief(slug, current, since, today, cutoff) ==
  LET groups == GroupEntries(GatherEntries(slug, since, cutoff), current)
      crumbs == Breadcrumbs(today, cutoff, {slug})
      rows == Sessions([NoFilter EXCEPT !.project = {slug}, !.day = {today}], cutoff)
  IN [groups |-> groups, breadcrumbs |-> crumbs, sessions |-> rows,
      empty |-> Len(groups) = 0 /\ Len(crumbs) = 0 /\ Len(rows) = 0]

-----------------------------------------------------------------------------
(* stats: counts by state, project and day. *)

Stats(since, cutoff) ==
  LET matched == Apply(Walk, [NoFilter EXCEPT !.since = since], cutoff)
      states == [i \in DOMAIN matched |-> matched[i].state]
      projects == [i \in DOMAIN matched |-> matched[i].project]
      days == [i \in DOMAIN matched |-> DayOf(matched[i].started, cutoff)]
  IN [total |-> Len(matched),
      byState |-> [st \in ToSet(states) |-> Count(states, st)],
      byProject |-> [p \in ToSet(projects) |-> Count(projects, p)],
      byDay |-> [d \in ToSet(days) |-> Count(days, d)]]

-----------------------------------------------------------------------------
(* Properties. *)

Slugs == {h.project : h \in Homes} \ {NoProject}

\* Of the days there are stamps of, one before and one after.
Days == -2..((MaxTime + 1) \div DayLength + 1)

\* No --since, and a day and a week back.
Windows == {{}} \cup {{[n |-> 1, unit |-> u]} : u \in {"d", "w"}}

\* In how many of the lists x is, once, or more than once and counted twice.
InLists(x, lists) ==
  Cardinality({p \in DOMAIN lists : Count(lists[p], x) = 1})
  + 2 * Cardinality({p \in DOMAIN lists : Count(lists[p], x) > 1})

\* Work days tile the journal: whatever the cutoff is today, the retro of a
\* window holds every session and every whole breadcrumb line, of any machine,
\* exactly once when its work day lies in the window and not at all otherwise;
\* and `stats` counts for a day what the day's own retro lists
\* (ReadBreadcrumbsForDay's two file dates, windowSessions' two bounds, the
\* day loop of gatherBreadcrumbs).
DaysTile ==
  \A cutoff \in Cutoffs, day \in Days, window \in {{}, {[n |-> 1, unit |-> "d"]}} :
    LET first == ResolveWindowStart(day, window)
        doc == Retro(first, day, cutoff)
        due(stamp) == IF DayOf(stamp, cutoff) \in first..day THEN 1 ELSE 0
        byDay == Stats({}, cutoff).byDay
        rows == [p \in DOMAIN doc.groups |-> doc.groups[p].sessions]
        crumbs == [p \in DOMAIN doc.groups |-> doc.groups[p].breadcrumbs]
        listed == UNION {ToSet(rows[p]) : p \in DOMAIN rows}
    IN /\ \A k \in DOMAIN sessions :
            InLists(sessions[k], rows) = due(sessions[k].started)
       /\ \A c \in Survivors :
            InLists(c, crumbs) + Count(doc.global, c) = due(c.at)
       /\ first = day => IF day \in DOMAIN byDay THEN byDay[day] = Cardinality(listed)
                                               ELSE listed = {}

\* wake lists the whole working set of its window, each session once, a
\* project's sessions together and oldest first, and the project of the
\* session that started last before the others (inWorkingSet, groupByProject).
WakeInOrder ==
  \A cutoff \in Cutoffs, reader \in Machines, window \in Windows :
    LET since == ResolveSince(window, reader, cutoff)
        rows == Wake(since, cutoff)
        at(i) == rows[i].started.at
        latest(p) == Max({at(i) : i \in {j \in DOMAIN rows : rows[j].project = p}})
    IN /\ ToSet(rows) = {s \in ToSet(Sessions([NoFilter EXCEPT !.since = since], cutoff)) :
                           s.state # "dismissed" /\ (s.state = "curated" => s.stale)}
       /\ IsInjective(rows)
       /\ \A i, j \in DOMAIN rows :
            i < j => IF rows[i].project = rows[j].project
                     THEN at(i) <= at(j) /\ \A h \in i..j : rows[h].project = rows[i].project
                     ELSE latest(rows[i].project) >= latest(rows[j].project)

Leads(groups, current, due) ==
  LET shown == UNION {ToSet(groups[g].entries) : g \in DOMAIN groups}
      of(label) == {s \in shown : s.label = label}
  IN /\ shown \subseteq due /\ Cardinality(shown) <= TotalCap
     /\ \A g \in DOMAIN groups :
          LET group == groups[g].entries
          IN /\ IsInjective(group) /\ ToSet(group) = of(groups[g].workspace)
             /\ Len(group) \in 1..PerGroupCap
             /\ \A i, j \in DOMAIN group : i < j => group[i].started.at >= group[j].started.at
     /\ \A s \in due \ shown :
          /\ \A t \in of(s.label) : t.started.at >= s.started.at
          /\ Cardinality(shown) = TotalCap \/ Cardinality(of(s.label)) = PerGroupCap
     /\ (\E s \in due : s.label = current) => groups[1].workspace = current

\* A brief leads with what is recent: the workspace one stands in first when it
\* has an entry; of each workspace its newest readable entries, and entries
\* left out only when the caps are spent on others, never an entry newer than
\* one of its workspace that is shown; and it is empty exactly when there is
\* neither an entry, nor a breadcrumb, nor a session of that day to tell of
\* (gatherEntries, groupEntries, hoist).
BriefLeads ==
  \A cutoff \in Cutoffs, reader \in Machines, window \in Windows, slug \in Slugs :
    LET since == ResolveSince(window, reader, cutoff)
        today == ParseDay(0, reader, cutoff)
        rows == GatherEntries(slug, since, cutoff)
        due == {s \in ToSet(sessions) :
                  /\ s.project = slug /\ s.state = "curated" /\ s.entry = "whole"
                  /\ \A d \in since : DayOf(s.started, cutoff) >= d}
    IN /\ \A current \in {h.label : h \in Homes} : Leads(GroupEntries(rows, current), current, due)
       /\ Brief(slug, "", since, today, cutoff).empty
            <=> /\ due = {}
                /\ \A c \in Survivors : c.slug = slug => DayOf(c.at, cutoff) # today
                /\ \A k \in DOMAIN sessions :
                     sessions[k].project = slug => DayOf(sessions[k].started, cutoff) # today

\* "A session's started_at or a crumb's at already carries the offset that
\* mattered when it was written": a session that starts now is one of today's
\* on the machine it runs on (DayOf, and `sessions --day today`).
WorkDaysAgree ==
  \A k \in DOMAIN sessions, cutoff \in Cutoffs :
    sessions[k].started.at = now
      => LET today == ParseDay(0, sessions[k].machine, cutoff)
         IN sessions[k] \in ToSet(Sessions([NoFilter EXCEPT !.day = {today}], cutoff))
=============================================================================
