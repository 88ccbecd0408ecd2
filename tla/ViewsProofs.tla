---------------------------- MODULE ViewsProofs ----------------------------
(***************************************************************************)
(* What the breadcrumb files and the query verbs guarantee for days of any *)
(* length, any zones, cutoffs and caps, and any number of machines,        *)
(* sessions, breadcrumbs and torn appends.                                 *)
(***************************************************************************)
EXTENDS Views, ListLemmas, TLAPS

USE WorkDaysAssumption

\* What a line of a breadcrumb file holds, and what a breadcrumb is.
Places == {h.project : h \in Homes} \cup {NoProject}
Moments == [at : Nat, zone : Int]
Line == [at : Moments, slug : Places, machine : Machines \cup {"none"}]
Note == [at : Moments, slug : Places, machine : Machines]
File == [lines : Seq(Line), open : BOOLEAN]

Lost == noted \ Survivors
OpenFiles == {f \in Dates \X Machines : files[f].open}

WInv ==
  /\ now \in 0..MaxTime /\ tornEver \in Nat
  /\ files \in [Dates \X Machines -> File]
  /\ noted \subseteq Note
  /\ IsFiniteSet(Lost) /\ IsFiniteSet(OpenFiles)
  \* A line that was cut short is the last of its file, and no verb that
  \* reported success wrote it.
  /\ \A f \in OpenFiles :
       files[f].lines # <<>> /\ files[f].lines[Len(files[f].lines)] \notin noted
  /\ \A f \in Dates \X Machines : \A i \in 1..Len(files[f].lines) :
       files[f].lines[i] = Garbage \/ FileOf(files[f].lines[i]) = f
  /\ Cardinality(Lost) + Cardinality(OpenFiles) <= tornEver

-----------------------------------------------------------------------------
(* The file of a breadcrumb. *)

LEMMA DivFacts ==
  ASSUME NEW x \in Int, NEW d \in Nat \ {0}
  PROVE  /\ x \div d \in Int /\ x % d \in 0..(d - 1)
         /\ x = d * (x \div d) + (x % d)
OBVIOUS

LEMMA ProductOrder ==
  ASSUME NEW a \in Int, NEW b \in Int, NEW d \in Nat \ {0}, a * d < b * d
  PROVE  a < b
OBVIOUS

LEMMA DatesSpan ==
  ASSUME NEW t \in 0..MaxTime, NEW m \in Machines
  PROVE  Date(Stamp(t, ZoneOf[m])) \in Dates
<1> DEFINE x == t + ZoneOf[m]
           top == MaxTime + DayLength
<1>1. /\ x \in Int /\ top \in Int /\ DayLength \in Nat \ {0}
      /\ x >= 1 - DayLength /\ x < top
  OBVIOUS
<1> DEFINE q == x \div DayLength
           e == top \div DayLength
<1>2. /\ q \in Int /\ e \in Int
      /\ \E r \in 0..(DayLength - 1) : x = DayLength * q + r
      /\ \E r \in 0..(DayLength - 1) : top = DayLength * e + r
  BY <1>1, DivFacts
<1> HIDE DEF x, top, q, e
<1>3. (-2) * DayLength < q * DayLength
  BY <1>1, <1>2
<1>4. -2 < q
  BY <1>1, <1>2, <1>3, ProductOrder
<1>5. q * DayLength < (e + 1) * DayLength
  <2>1. q * DayLength <= x
    BY <1>1, <1>2
  <2>2. top < (e + 1) * DayLength
    BY <1>1, <1>2
  <2>3. QED BY <1>1, <1>2, <2>1, <2>2
<1>6. q < e + 1
  BY <1>1, <1>2, <1>5, ProductOrder
<1>7. q \in -1..(e + 1)
  BY <1>2, <1>4, <1>6
<1>8. QED BY <1>7 DEF Dates, Date, Stamp, x, q, e, top

LEMMA CrumbFacts ==
  ASSUME now \in 0..MaxTime, NEW h \in Homes, NEW c \in Crumbs(h)
  PROVE  /\ c \in Note /\ c \in Line /\ c # Garbage
         /\ FileOf(c) \in Dates \X Machines
<1>1. PICK slug \in {NoProject, h.project} :
        c = [at |-> Stamp(now, ZoneOf[h.machine]), slug |-> slug, machine |-> h.machine]
  BY DEF Crumbs, Crumb
<1>2. h.machine \in Machines /\ slug \in Places /\ Stamp(now, ZoneOf[h.machine]) \in Moments
  BY DEF Places, Stamp, Moments
<1>3. c \in Note /\ c \in Line /\ c.machine # "none"
  BY <1>1, <1>2 DEF Note, Line
<1>4. FileOf(c) = <<Date(Stamp(now, ZoneOf[h.machine])), h.machine>>
  BY <1>1 DEF FileOf
<1>5. QED BY <1>2, <1>3, <1>4, DatesSpan DEF Garbage

LEMMA GarbageLine == Garbage \in Line /\ Garbage \notin Note
BY DEF Garbage, Line, Note, Stamp, Moments, Places

\* What an append makes of a file: it replaces the line that was cut short, or
\* adds one.
LEMMA AppendedFacts ==
  ASSUME NEW file \in File, NEW l \in Line,
         file.open => file.lines # <<>>
  PROVE  LET new == Appended(file, l).lines
             n == Len(file.lines)
         IN /\ Appended(file, l) \in File
            /\ Appended(file, l).open = FALSE
            /\ file.open => /\ Len(new) = n /\ n > 0 /\ new[n] = Garbage
                            /\ \A i \in 1..(n - 1) : new[i] = file.lines[i]
            /\ ~file.open => /\ Len(new) = n + 1 /\ new[n + 1] = l
                             /\ \A i \in 1..n : new[i] = file.lines[i]
<1>1. file.lines \in Seq(Line) /\ file.open \in BOOLEAN
  BY DEF File
<1>2. CASE file.open
  BY <1>1, <1>2, GarbageLine DEF Appended, File
<1>3. CASE ~file.open
  BY <1>1, <1>3 DEF Appended, File
<1>4. QED BY <1>2, <1>3

LEMMA SurvivorFacts ==
  ASSUME WInv, NEW c
  PROVE  c \in Survivors <=>
           /\ c # Garbage
           /\ \E f \in Dates \X Machines : \E i \in 1..Len(files[f].lines) :
                c = files[f].lines[i]
<1>1. DOMAIN files = Dates \X Machines
  BY DEF WInv
<1>2. \A f \in Dates \X Machines : DOMAIN files[f].lines = 1..Len(files[f].lines)
  BY DEF WInv, File
<1>3. c \in Survivors <=>
        c # Garbage /\ \E f \in DOMAIN files : \E i \in DOMAIN files[f].lines :
                          c = files[f].lines[i]
  BY DEF Survivors
<1>4. QED BY <1>1, <1>2, <1>3

\* The same of the next state, whose files have the same shape.
LEMMA SurvivorFactsNext ==
  ASSUME files' \in [Dates \X Machines -> File], NEW c
  PROVE  c \in Survivors' <=>
           /\ c # Garbage
           /\ \E f \in Dates \X Machines : \E i \in 1..Len(files'[f].lines) :
                c = files'[f].lines[i]
<1>1. DOMAIN files' = Dates \X Machines
  OBVIOUS
<1>2. \A f \in Dates \X Machines : DOMAIN files'[f].lines = 1..Len(files'[f].lines)
  BY DEF File
<1>3. c \in Survivors' <=>
        c # Garbage /\ \E f \in DOMAIN files' : \E i \in DOMAIN files'[f].lines :
                          c = files'[f].lines[i]
  BY DEF Survivors
<1>4. QED BY <1>1, <1>2, <1>3

\* A step that leaves every file but f alone, and of f loses at most the line
\* that was cut short, loses no breadcrumb.
LEMMA NothingElseLost ==
  ASSUME WInv, NEW f \in Dates \X Machines,
         files' \in [Dates \X Machines -> File],
         \A g \in (Dates \X Machines) \ {f} : files'[g] = files[g],
         files[f].open =>
           /\ Len(files'[f].lines) = Len(files[f].lines)
           /\ \A i \in 1..(Len(files[f].lines) - 1) : files'[f].lines[i] = files[f].lines[i],
         ~files[f].open =>
           /\ Len(files'[f].lines) = Len(files[f].lines) + 1
           /\ \A i \in 1..Len(files[f].lines) : files'[f].lines[i] = files[f].lines[i]
  PROVE  \A c \in noted : c \in Survivors => c \in Survivors'
<1> SUFFICES ASSUME NEW c \in noted, c \in Survivors PROVE c \in Survivors'
  OBVIOUS
<1>0. PICK g \in Dates \X Machines : \E i \in 1..Len(files[g].lines) : c = files[g].lines[i]
  BY SurvivorFacts
<1>1. PICK i \in 1..Len(files[g].lines) : c = files[g].lines[i]
  BY <1>0
<1>2. c # Garbage
  BY SurvivorFacts
<1>3. \A h \in Dates \X Machines : Len(files[h].lines) \in Nat
  BY DEF WInv, File
<1>4. g = f /\ files[f].open => i # Len(files[f].lines)
  BY <1>1 DEF WInv, OpenFiles
<1>5. i \in 1..Len(files'[g].lines) /\ files'[g].lines[i] = c
  <2>1. CASE g # f
    BY <1>1, <2>1
  <2>2. CASE g = f /\ files[f].open
    BY <1>1, <1>3, <1>4, <2>2
  <2>3. CASE g = f /\ ~files[f].open
    BY <1>1, <1>3, <2>3
  <2>4. QED BY <2>1, <2>2, <2>3
<1>6. QED BY <1>2, <1>5, SurvivorFactsNext

-----------------------------------------------------------------------------
(* The steps. *)

LEMMA BreadcrumbKeeps ==
  ASSUME WInv, NEW h \in Homes, Breadcrumb(h)
  PROVE  WInv'
<1>1. PICK c \in Crumbs(h) \ noted :
        /\ files' = [files EXCEPT ![FileOf(c)] = Appended(files[FileOf(c)], c)]
        /\ noted' = noted \cup {c}
  BY DEF Breadcrumb
<1> DEFINE f == FileOf(c)
<1>2. /\ c \in Note /\ c \in Line /\ c # Garbage /\ f \in Dates \X Machines
      /\ UNCHANGED <<now, tornEver>>
      /\ files \in [Dates \X Machines -> File]
  BY CrumbFacts DEF WInv, Breadcrumb
<1>3. /\ files[f] \in File /\ files[f].open \in BOOLEAN /\ Len(files[f].lines) \in Nat
      /\ files[f].open => /\ files[f].lines # <<>>
                          /\ files[f].lines[Len(files[f].lines)] \notin noted
  BY <1>2 DEF WInv, OpenFiles, File
<1> HIDE DEF f
<1> DEFINE new == Appended(files[f], c)
           n == Len(files[f].lines)
<1>4. /\ new \in File /\ new.open = FALSE
      /\ files[f].open => /\ Len(new.lines) = n /\ n > 0 /\ new.lines[n] = Garbage
                          /\ \A i \in 1..(n - 1) : new.lines[i] = files[f].lines[i]
      /\ ~files[f].open => /\ Len(new.lines) = n + 1 /\ new.lines[n + 1] = c
                           /\ \A i \in 1..n : new.lines[i] = files[f].lines[i]
  <2>1. files[f] \in File /\ c \in Line /\ (files[f].open => files[f].lines # <<>>)
    BY <1>2, <1>3
  <2>2. QED BY <2>1, AppendedFacts, ZenonT(30)
<1> HIDE DEF new
<1>5. /\ files' \in [Dates \X Machines -> File]
      /\ files'[f] = new
      /\ \A g \in (Dates \X Machines) \ {f} : files'[g] = files[g]
  <2>1. files' = [files EXCEPT ![f] = new]
    BY <1>1 DEF new, f
  <2>2. QED BY <1>2, <1>4, <2>1
<1>6. \A d \in noted : d \in Survivors => d \in Survivors'
  BY <1>2, <1>4, <1>5, NothingElseLost
<1>7. noted' \subseteq Note
  BY <1>1, <1>2 DEF WInv
<1>8. \A g \in OpenFiles' :
        files'[g].lines # <<>> /\ files'[g].lines[Len(files'[g].lines)] \notin noted'
  <2>1. SUFFICES ASSUME NEW g \in OpenFiles'
                 PROVE  /\ files'[g].lines # <<>>
                        /\ files'[g].lines[Len(files'[g].lines)] \notin noted'
    OBVIOUS
  <2>2. g \in Dates \X Machines /\ g # f /\ g \in OpenFiles /\ files'[g] = files[g]
    BY <1>4, <1>5, <2>1 DEF OpenFiles
  <2> DEFINE last == Len(files[g].lines)
  <2>3. /\ files[g].lines # <<>> /\ files[g].lines[last] \notin noted
        /\ last \in 1..last
        /\ files[g].lines[last] = Garbage \/ FileOf(files[g].lines[last]) = g
    <3>1. files[g].lines \in Seq(Line)
      BY <2>2 DEF WInv, File
    <3>2. files[g].lines # <<>> /\ files[g].lines[last] \notin noted
      BY <2>2 DEF WInv
    <3>3. last \in 1..last
      BY <3>1, <3>2
    <3>4. QED BY <2>2, <3>2, <3>3 DEF WInv
  <2>4. files[g].lines[last] # c
    BY <1>2, <2>2, <2>3 DEF f
  <2>5. QED BY <1>1, <2>2, <2>3, <2>4
<1>9. \A g \in Dates \X Machines : \A i \in 1..Len(files'[g].lines) :
        files'[g].lines[i] = Garbage \/ FileOf(files'[g].lines[i]) = g
  <2>1. SUFFICES ASSUME NEW g \in Dates \X Machines, NEW i \in 1..Len(files'[g].lines)
                 PROVE  files'[g].lines[i] = Garbage \/ FileOf(files'[g].lines[i]) = g
    OBVIOUS
  <2>2. CASE g # f
    <3>1. files'[g] = files[g]
      BY <1>5, <2>2
    <3>2. QED BY <2>1, <3>1 DEF WInv
  <2>3. CASE g = f
    <3>1. \A j \in 1..n : files[f].lines[j] = Garbage \/ FileOf(files[f].lines[j]) = f
      BY <2>3 DEF WInv
    <3>2. i \in 1..Len(new.lines) /\ files'[g].lines[i] = new.lines[i]
      BY <1>5, <2>3
    <3>3. new.lines[i] = Garbage \/ new.lines[i] = c
          \/ (i \in 1..n /\ new.lines[i] = files[f].lines[i])
      BY <1>3, <1>4, <3>2, SMTT(20)
    <3>4. QED BY <2>3, <3>1, <3>2, <3>3 DEF f
  <2>4. QED BY <2>2, <2>3
<1>10. /\ IsFiniteSet(Lost') /\ IsFiniteSet(OpenFiles')
       /\ Cardinality(Lost') + Cardinality(OpenFiles') <= tornEver'
  <2>1. /\ IsFiniteSet(Lost) /\ IsFiniteSet(OpenFiles) /\ tornEver \in Nat
        /\ Cardinality(Lost) + Cardinality(OpenFiles) <= tornEver
        /\ Cardinality(Lost) \in Nat /\ Cardinality(OpenFiles) \in Nat
    BY FS_CardinalityType DEF WInv
  <2>2. CASE files[f].open
    <3>1. OpenFiles' = OpenFiles \ {f} /\ f \in OpenFiles
      BY <1>2, <1>4, <1>5, <2>2 DEF OpenFiles, f
    <3>2. IsFiniteSet(OpenFiles') /\ Cardinality(OpenFiles') = Cardinality(OpenFiles) - 1
      BY <2>1, <3>1, FS_RemoveElement
    <3>3. Lost' \subseteq Lost \cup {c}
      BY <1>1, <1>6 DEF Lost
    <3>4. /\ IsFiniteSet(Lost \cup {c})
          /\ Cardinality(Lost \cup {c}) <= Cardinality(Lost) + 1
      <4>1. /\ IsFiniteSet(Lost \cup {c})
            /\ \/ Cardinality(Lost \cup {c}) = Cardinality(Lost)
               \/ Cardinality(Lost \cup {c}) = Cardinality(Lost) + 1
        BY <2>1, FS_AddElement
      <4>2. QED BY <2>1, <4>1
    <3>5. IsFiniteSet(Lost') /\ Cardinality(Lost') <= Cardinality(Lost \cup {c})
      BY <3>3, <3>4, FS_Subset
    <3>6. Cardinality(Lost') \in Nat /\ Cardinality(Lost \cup {c}) \in Nat
      BY <3>4, <3>5, FS_CardinalityType
    <3>7. QED BY <1>2, <2>1, <3>2, <3>4, <3>5, <3>6
  <2>3. CASE ~files[f].open
    <3>1. OpenFiles' = OpenFiles
      BY <1>4, <1>5, <2>3 DEF OpenFiles
    <3>2. c \in Survivors'
      <4>1. n + 1 \in 1..Len(files'[f].lines) /\ files'[f].lines[n + 1] = c
        BY <1>3, <1>4, <1>5, <2>3
      <4>2. f \in Dates \X Machines
        BY <1>2 DEF f
      <4>3. QED BY <1>2, <1>5, <4>1, <4>2, SurvivorFactsNext
    <3>3. Lost' \subseteq Lost
      BY <1>1, <1>6, <3>2 DEF Lost
    <3>4. IsFiniteSet(Lost') /\ Cardinality(Lost') <= Cardinality(Lost)
      BY <2>1, <3>3, FS_Subset
    <3>5. Cardinality(Lost') \in Nat
      BY <3>4, FS_CardinalityType
    <3>6. QED BY <1>2, <2>1, <3>1, <3>4, <3>5
  <2>4. QED BY <2>2, <2>3
<1>11. QED BY <1>2, <1>5, <1>7, <1>8, <1>9, <1>10 DEF WInv

\* What an append that is cut short makes of a file.
IsCutShort(file, l, new) ==
  /\ new \in File /\ new.open
  /\ file.open => /\ Len(new.lines) = Len(file.lines) /\ Len(file.lines) > 0
                  /\ new.lines[Len(file.lines)] = Garbage
                  /\ \A i \in 1..(Len(file.lines) - 1) : new.lines[i] = file.lines[i]
  /\ ~file.open => /\ Len(new.lines) = Len(file.lines) + 1
                   /\ new.lines[Len(file.lines) + 1] \in {l, Garbage}
                   /\ \A i \in 1..Len(file.lines) : new.lines[i] = file.lines[i]

LEMMA CutShortFacts ==
  ASSUME NEW file \in File, NEW l \in Line, file.open => file.lines # <<>>,
         NEW new \in CutShort(file, l)
  PROVE  IsCutShort(file, l, new)
<1>1. PICK k \in {l, Garbage} : /\ new = [Appended(file, k) EXCEPT !.open = TRUE]
                                /\ file.open => k = l
  BY DEF CutShort
<1>2. k \in Line
  BY GarbageLine
<1> DEFINE done == Appended(file, k)
<1>3. /\ done \in File
      /\ file.open => /\ Len(done.lines) = Len(file.lines) /\ Len(file.lines) > 0
                      /\ done.lines[Len(file.lines)] = Garbage
                      /\ \A i \in 1..(Len(file.lines) - 1) : done.lines[i] = file.lines[i]
      /\ ~file.open => /\ Len(done.lines) = Len(file.lines) + 1
                       /\ done.lines[Len(file.lines) + 1] = k
                       /\ \A i \in 1..Len(file.lines) : done.lines[i] = file.lines[i]
  BY <1>2, AppendedFacts, Zenon
<1> HIDE DEF done
<1>4. new = [done EXCEPT !.open = TRUE]
  BY <1>1 DEF done
<1>5. new \in File /\ new.open = TRUE /\ new.lines = done.lines
  BY <1>3, <1>4 DEF File
<1>6. QED BY <1>3, <1>5 DEF IsCutShort

LEMMA TornBreadcrumbKeeps ==
  ASSUME WInv, NEW h \in Homes, TornBreadcrumb(h)
  PROVE  WInv'
<1>1. PICK c \in Crumbs(h) \ noted : \E new \in CutShort(files[FileOf(c)], c) :
        files' = [files EXCEPT ![FileOf(c)] = new]
  BY DEF TornBreadcrumb
<1> DEFINE f == FileOf(c)
<1>2. /\ c \in Note /\ c \in Line /\ c # Garbage /\ f \in Dates \X Machines
      /\ UNCHANGED <<now, noted>> /\ tornEver' = tornEver + 1
      /\ files \in [Dates \X Machines -> File]
  BY CrumbFacts DEF WInv, TornBreadcrumb
<1>3. /\ files[f] \in File /\ files[f].open \in BOOLEAN /\ Len(files[f].lines) \in Nat
      /\ files[f].open => /\ files[f].lines # <<>>
                          /\ files[f].lines[Len(files[f].lines)] \notin noted
  BY <1>2 DEF WInv, OpenFiles, File
<1>4. PICK new \in CutShort(files[f], c) : files' = [files EXCEPT ![f] = new]
  BY <1>1
<1> HIDE DEF f
<1> DEFINE n == Len(files[f].lines)
<1>5. /\ new \in File /\ new.open = TRUE
      /\ files[f].open => /\ Len(new.lines) = n /\ n > 0 /\ new.lines[n] = Garbage
                          /\ \A i \in 1..(n - 1) : new.lines[i] = files[f].lines[i]
      /\ ~files[f].open => /\ Len(new.lines) = n + 1 /\ new.lines[n + 1] \in {c, Garbage}
                           /\ \A i \in 1..n : new.lines[i] = files[f].lines[i]
  <2>1. files[f] \in File /\ c \in Line /\ (files[f].open => files[f].lines # <<>>)
    BY <1>2, <1>3
  <2>2. new \in CutShort(files[f], c)
    BY <1>4
  <2>3. IsCutShort(files[f], c, new)
    BY <2>1, <2>2, CutShortFacts
  <2>4. QED BY <2>3 DEF IsCutShort
<1>6. /\ files' \in [Dates \X Machines -> File]
      /\ files'[f] = new
      /\ \A g \in (Dates \X Machines) \ {f} : files'[g] = files[g]
  BY <1>2, <1>4, <1>5
<1>7. \A d \in noted : d \in Survivors => d \in Survivors'
  BY <1>2, <1>5, <1>6, NothingElseLost
<1>8. \A g \in OpenFiles' :
        files'[g].lines # <<>> /\ files'[g].lines[Len(files'[g].lines)] \notin noted'
  <2>1. SUFFICES ASSUME NEW g \in OpenFiles'
                 PROVE  /\ files'[g].lines # <<>>
                        /\ files'[g].lines[Len(files'[g].lines)] \notin noted'
    OBVIOUS
  <2>2. CASE g # f
    <3>1. g \in OpenFiles /\ files'[g] = files[g]
      BY <1>6, <2>1, <2>2 DEF OpenFiles
    <3>2. QED BY <1>2, <3>1 DEF WInv
  <2>3. CASE g = f
    <3>1. new.lines \in Seq(Line)
      BY <1>5 DEF File
    <3>2. Len(new.lines) > 0 /\ new.lines[Len(new.lines)] \in {c, Garbage}
      BY <1>3, <1>5
    <3>3. c \notin noted /\ Garbage \notin noted
      BY <1>1, GarbageLine DEF WInv
    <3>4. QED BY <1>2, <1>6, <2>3, <3>1, <3>2, <3>3
  <2>4. QED BY <2>2, <2>3
<1>9. \A g \in Dates \X Machines : \A i \in 1..Len(files'[g].lines) :
        files'[g].lines[i] = Garbage \/ FileOf(files'[g].lines[i]) = g
  <2>1. SUFFICES ASSUME NEW g \in Dates \X Machines, NEW i \in 1..Len(files'[g].lines)
                 PROVE  files'[g].lines[i] = Garbage \/ FileOf(files'[g].lines[i]) = g
    OBVIOUS
  <2>2. CASE g # f
    <3>1. files'[g] = files[g]
      BY <1>6, <2>2
    <3>2. QED BY <2>1, <3>1 DEF WInv
  <2>3. CASE g = f
    <3>1. \A j \in 1..n : files[f].lines[j] = Garbage \/ FileOf(files[f].lines[j]) = f
      BY <2>3 DEF WInv
    <3>2. i \in 1..Len(new.lines) /\ files'[g].lines[i] = new.lines[i]
      BY <1>6, <2>3
    <3>3. new.lines[i] \in {c, Garbage}
          \/ (i \in 1..n /\ new.lines[i] = files[f].lines[i])
      <4>1. CASE files[f].open
        <5>1. i = n \/ i \in 1..(n - 1)
          BY <1>3, <1>5, <3>2, <4>1
        <5>2. QED BY <1>3, <1>5, <4>1, <5>1
      <4>2. CASE ~files[f].open
        <5>1. i = n + 1 \/ i \in 1..n
          BY <1>3, <1>5, <3>2, <4>2
        <5>2. QED BY <1>5, <4>2, <5>1
      <4>3. QED BY <4>1, <4>2
    <3>4. QED BY <2>3, <3>1, <3>2, <3>3 DEF f
  <2>4. QED BY <2>2, <2>3
<1>10. /\ IsFiniteSet(Lost') /\ IsFiniteSet(OpenFiles')
       /\ Cardinality(Lost') + Cardinality(OpenFiles') <= tornEver'
  <2>1. /\ IsFiniteSet(Lost) /\ IsFiniteSet(OpenFiles) /\ tornEver \in Nat
        /\ Cardinality(Lost) + Cardinality(OpenFiles) <= tornEver
        /\ Cardinality(Lost) \in Nat /\ Cardinality(OpenFiles) \in Nat
    BY FS_CardinalityType DEF WInv
  <2>2. OpenFiles' = OpenFiles \cup {f}
    BY <1>2, <1>5, <1>6 DEF OpenFiles, f
  <2>3. /\ IsFiniteSet(OpenFiles')
        /\ \/ Cardinality(OpenFiles') = Cardinality(OpenFiles)
           \/ Cardinality(OpenFiles') = Cardinality(OpenFiles) + 1
    BY <2>1, <2>2, FS_AddElement
  <2>4. Lost' \subseteq Lost
    BY <1>2, <1>7 DEF Lost
  <2>5. IsFiniteSet(Lost') /\ Cardinality(Lost') <= Cardinality(Lost)
    BY <2>1, <2>4, FS_Subset
  <2>6. Cardinality(Lost') \in Nat
    BY <2>5, FS_CardinalityType
  <2>7. QED BY <1>2, <2>1, <2>3, <2>5, <2>6
<1>11. noted' \subseteq Note /\ tornEver' \in Nat /\ now' \in 0..MaxTime
  BY <1>2 DEF WInv
<1>12. QED BY <1>6, <1>8, <1>9, <1>10, <1>11 DEF WInv

LEMMA OtherStepKeeps ==
  ASSUME WInv, UNCHANGED <<files, noted, tornEver>>, now' \in 0..MaxTime
  PROVE  WInv'
<1>1. Lost' = Lost /\ OpenFiles' = OpenFiles
  BY DEF Lost, OpenFiles, Survivors
<1>2. QED BY <1>1 DEF WInv

LEMMA InitKeeps == Init => WInv
<1> SUFFICES ASSUME Init PROVE WInv
  OBVIOUS
<1>1. now \in 0..MaxTime /\ tornEver = 0 /\ noted = {}
      /\ files = [f \in Dates \X Machines |-> EmptyFile]
  BY DEF Init
<1>2. EmptyFile \in File /\ EmptyFile.open = FALSE /\ Len(EmptyFile.lines) = 0
  BY DEF EmptyFile, File
<1>3. files \in [Dates \X Machines -> File]
  BY <1>1, <1>2
<1>4. OpenFiles = {} /\ Lost = {}
  BY <1>1, <1>2 DEF OpenFiles, Lost
<1>5. \A f \in Dates \X Machines : \A i \in 1..Len(files[f].lines) :
        files[f].lines[i] = Garbage \/ FileOf(files[f].lines[i]) = f
  BY <1>1, <1>2
<1>6. IsFiniteSet({}) /\ Cardinality({}) = 0
  BY FS_EmptySet
<1>7. QED BY <1>1, <1>3, <1>4, <1>5, <1>6 DEF WInv

LEMMA SpecWInv == Spec => []WInv
<1>1. WInv /\ [Next]_vars => WInv'
  <2>1. SUFFICES ASSUME WInv, [Next]_vars PROVE WInv'
    OBVIOUS
  <2>2. CASE Tick
    <3>1. now' \in 0..MaxTime
      BY <2>1, <2>2 DEF Tick, WInv
    <3>2. QED BY <2>1, <2>2, <3>1, OtherStepKeeps DEF Tick
  <2>3. ASSUME NEW h \in Homes, Breadcrumb(h) PROVE WInv'
    BY <2>1, <2>3, BreadcrumbKeeps
  <2>4. ASSUME NEW h \in Homes, TornBreadcrumb(h) PROVE WInv'
    BY <2>1, <2>4, TornBreadcrumbKeeps
  <2>5. ASSUME NEW h \in Homes, NEW standing \in Standings, Capture(h, standing)
        PROVE  WInv'
    BY <2>1, <2>5, OtherStepKeeps DEF Capture, WInv
  <2>6. CASE UNCHANGED vars
    BY <2>1, <2>6, OtherStepKeeps DEF vars, WInv
  <2>7. QED BY <2>1, <2>2, <2>3, <2>4, <2>5, <2>6 DEF Next
<1>2. QED BY <1>1, InitKeeps, PTL DEF Spec

-----------------------------------------------------------------------------
\* However many appends are cut short, in whatever files, each costs at most
\* one breadcrumb of those whose verb reported success.
THEOREM TearsAlwaysCostOne == Spec => []TearsCostOne
<1>1. WInv => TearsCostOne
  <2>1. SUFFICES ASSUME WInv PROVE TearsCostOne
    OBVIOUS
  <2>2. Cardinality(Lost) \in Nat /\ Cardinality(OpenFiles) \in Nat /\ tornEver \in Nat
        /\ Cardinality(Lost) + Cardinality(OpenFiles) <= tornEver
    BY <2>1, FS_CardinalityType DEF WInv
  <2>3. Cardinality(Lost) <= tornEver
    BY <2>2
  <2>4. QED BY <2>3 DEF TearsCostOne, Lost
<1>2. QED BY <1>1, SpecWInv, PTL

\* A breadcrumb lies in the file of its work day or in that of the date after
\* it, for every cutoff: the two files ReadBreadcrumbsForDay reads are enough,
\* whatever zones the journal's machines are in.
InTheTwoFiles ==
  \A f \in Dates \X Machines, cutoff \in Cutoffs :
    \A i \in 1..Len(files[f].lines) :
      LET line == files[f].lines[i]
      IN line # Garbage => f[1] \in {DayOf(line.at, cutoff), AddDays(DayOf(line.at, cutoff), 1)}

\* The two dates of a work day hold all of it.
THEOREM DayInTwoFiles == Spec => []InTheTwoFiles
<1>1. WInv => InTheTwoFiles
  <2>1. SUFFICES ASSUME WInv, NEW f \in Dates \X Machines, NEW cutoff \in Cutoffs,
                        NEW i \in 1..Len(files[f].lines), files[f].lines[i] # Garbage
                 PROVE  f[1] \in {DayOf(files[f].lines[i].at, cutoff),
                                  AddDays(DayOf(files[f].lines[i].at, cutoff), 1)}
    BY DEF InTheTwoFiles
  <2> DEFINE line == files[f].lines[i]
  <2>2. FileOf(line) = f
    BY <2>1 DEF WInv
  <2>3. f[1] = Date(line.at)
    BY <2>2 DEF FileOf
  <2>4. line \in Line
    BY <2>1 DEF WInv, File
  <2>5. Date(line.at) \in Int
    <3>1. line.at.at \in Nat /\ line.at.zone \in Int
      BY <2>4 DEF Line, Moments
    <3>2. line.at.at + line.at.zone \in Int
      BY <3>1, SMTT(20)
    <3>3. QED BY <3>2, DivFacts DEF Date
  <2>6. QED BY <2>3, <2>5 DEF DayOf, AddDays
<1>2. QED BY <1>1, SpecWInv, PTL

-----------------------------------------------------------------------------
(* The rows and the lines of breadcrumbs are each of a kind. *)

Labels == {h.label : h \in Homes}

Row == [key : Nat, started : Moments, machine : Machines, shard : Int, project : Places,
        label : Labels, state : {"captured", "curated", "dismissed"}, stale : BOOLEAN,
        entry : {"none", "whole", "torn"}]

\* No two rows are alike: their keys are their places.
SInv ==
  /\ sessions \in Seq(Row)
  /\ \A k \in 1..Len(sessions) : sessions[k].key = k

\* A line that can be read is one whose verb reported success, or it was cut
\* short and nothing follows it; and it is in its file once.
Singly(file, told) ==
  /\ \A i \in 1..Len(file.lines) :
       \/ file.lines[i] = Garbage
       \/ file.lines[i] \in told
       \/ file.open /\ i = Len(file.lines)
  /\ \A i, j \in 1..Len(file.lines) :
       file.lines[i] = file.lines[j] => i = j \/ file.lines[i] = Garbage

LInv == \A f \in Dates \X Machines : Singly(files[f], noted)

VInv == WInv /\ SInv /\ LInv

LEMMA SinglyKept ==
  ASSUME NEW old \in File, NEW new \in File, NEW c, NEW told, NEW told2,
         Singly(old, told), c \notin told, c # Garbage, told \subseteq told2,
         old.open => /\ Len(new.lines) = Len(old.lines) /\ Len(old.lines) > 0
                     /\ new.lines[Len(old.lines)] = Garbage
                     /\ \A i \in 1..(Len(old.lines) - 1) : new.lines[i] = old.lines[i],
         ~old.open => /\ Len(new.lines) = Len(old.lines) + 1
                      /\ new.lines[Len(old.lines) + 1] \in {c, Garbage}
                      /\ \A i \in 1..Len(old.lines) : new.lines[i] = old.lines[i],
         new.open \/ c \in told2
  PROVE  Singly(new, told2)
<1> DEFINE n == Len(old.lines)
           m == Len(new.lines)
           p == old.lines
           q == new.lines
<1>1. n \in Nat /\ m \in Nat
  BY DEF File
<1>2. /\ \A i \in 1..n : p[i] = Garbage \/ p[i] \in told \/ (old.open /\ i = n)
      /\ \A i, j \in 1..n : p[i] = p[j] => i = j \/ p[i] = Garbage
  BY DEF Singly
<1>3. /\ old.open => /\ m = n /\ n > 0 /\ q[n] = Garbage
                     /\ \A i \in 1..(n - 1) : q[i] = p[i]
      /\ ~old.open => /\ m = n + 1 /\ q[n + 1] \in {c, Garbage}
                      /\ \A i \in 1..n : q[i] = p[i]
  OBVIOUS
<1> HIDE DEF n, m, p, q
\* A line of the new file is garbage, one of the old that a verb reported, or
\* the new one at its end.
<1>4. ASSUME NEW i \in 1..m
      PROVE  \/ q[i] = Garbage
             \/ i \in 1..n /\ q[i] = p[i] /\ p[i] \in told
             \/ i = m /\ q[i] = c
  <2>1. CASE old.open
    <3>1. i = n \/ i \in 1..(n - 1)
      BY <1>1, <1>3, <2>1
    <3>2. CASE i = n
      BY <1>3, <2>1, <3>2
    <3>3. CASE i \in 1..(n - 1)
      <4>1. i \in 1..n /\ i # n /\ q[i] = p[i]
        BY <1>1, <1>3, <2>1, <3>3
      <4>2. QED BY <1>2, <4>1
    <3>4. QED BY <3>1, <3>2, <3>3
  <2>2. CASE ~old.open
    <3>1. i = n + 1 \/ i \in 1..n
      BY <1>1, <1>3, <2>2
    <3>2. QED BY <1>2, <1>3, <2>2, <3>1
  <2>3. QED BY <2>1, <2>2
<1>5. ASSUME NEW i \in 1..m PROVE q[i] = Garbage \/ q[i] \in told2 \/ (new.open /\ i = m)
  BY <1>4
<1>6. ASSUME NEW i \in 1..m, NEW j \in 1..m, q[i] = q[j] PROVE i = j \/ q[i] = Garbage
  BY <1>2, <1>4, <1>6
<1>7. QED BY <1>5, <1>6 DEF Singly, m, q

LEMMA LinesKept ==
  ASSUME VInv, NEW h \in Homes, Breadcrumb(h) \/ TornBreadcrumb(h)
  PROVE  LInv'
<1>1. PICK c \in Crumbs(h) \ noted :
        \/ /\ files' = [files EXCEPT ![FileOf(c)] = Appended(files[FileOf(c)], c)]
           /\ noted' = noted \cup {c}
        \/ /\ \E new \in CutShort(files[FileOf(c)], c) : files' = [files EXCEPT ![FileOf(c)] = new]
           /\ noted' = noted
  BY DEF Breadcrumb, TornBreadcrumb
<1> DEFINE f == FileOf(c)
<1>2. /\ c \in Note /\ c \in Line /\ c # Garbage /\ f \in Dates \X Machines
      /\ files \in [Dates \X Machines -> File]
  BY CrumbFacts DEF VInv, WInv
<1>3. /\ files[f] \in File
      /\ files[f].open => files[f].lines # <<>>
  BY <1>2 DEF VInv, WInv, OpenFiles, File
<1>4. PICK new : /\ files' = [files EXCEPT ![f] = new]
                 /\ \/ new = Appended(files[f], c) /\ noted' = noted \cup {c}
                    \/ new \in CutShort(files[f], c) /\ noted' = noted
  BY <1>1
<1> HIDE DEF f
<1> DEFINE old == files[f]
           n == Len(old.lines)
<1>5. /\ new \in File /\ (new.open \/ c \in noted')
      /\ old.open => /\ Len(new.lines) = n /\ n > 0 /\ new.lines[n] = Garbage
                     /\ \A i \in 1..(n - 1) : new.lines[i] = old.lines[i]
      /\ ~old.open => /\ Len(new.lines) = n + 1 /\ new.lines[n + 1] \in {c, Garbage}
                      /\ \A i \in 1..n : new.lines[i] = old.lines[i]
  <2>1. CASE new = Appended(files[f], c) /\ noted' = noted \cup {c}
    <3>1. /\ Appended(files[f], c) \in File
          /\ old.open => /\ Len(Appended(files[f], c).lines) = n /\ n > 0
                         /\ Appended(files[f], c).lines[n] = Garbage
                         /\ \A i \in 1..(n - 1) : Appended(files[f], c).lines[i] = old.lines[i]
          /\ ~old.open => /\ Len(Appended(files[f], c).lines) = n + 1
                          /\ Appended(files[f], c).lines[n + 1] = c
                          /\ \A i \in 1..n : Appended(files[f], c).lines[i] = old.lines[i]
      <4>1. files[f] \in File /\ c \in Line /\ (files[f].open => files[f].lines # <<>>)
        BY <1>2, <1>3
      <4>2. QED BY <4>1, AppendedFacts, ZenonT(30)
    <3>2. QED BY <2>1, <3>1
  <2>2. CASE new \in CutShort(files[f], c) /\ noted' = noted
    <3>1. IsCutShort(files[f], c, new)
      BY <1>2, <1>3, <2>2, CutShortFacts
    <3>2. QED BY <3>1 DEF IsCutShort
  <2>3. QED BY <1>4, <2>1, <2>2
<1>6. Singly(old, noted) /\ noted \subseteq noted' /\ c \notin noted
  BY <1>1, <1>2 DEF VInv, LInv, f
<1>7. old \in File
  BY <1>3
<1> HIDE DEF old
<1>8. Singly(new, noted')
  <2> DEFINE told2 == noted'
  <2>1. noted \subseteq told2 /\ (new.open \/ c \in told2)
    BY <1>5, <1>6
  <2> HIDE DEF told2
  <2>2. Singly(new, told2)
    BY <1>2, <1>5, <1>6, <1>7, <2>1, SinglyKept, ZenonT(30)
  <2>3. QED BY <2>2 DEF told2
<1>9. ASSUME NEW g \in Dates \X Machines PROVE Singly(files'[g], noted')
  <2>1. CASE g = f
    <3>1. files'[g] = new
      BY <1>2, <1>4, <2>1
    <3>2. QED BY <1>8, <3>1
  <2>2. CASE g # f
    <3>1. files'[g] = files[g]
      BY <1>2, <1>4, <2>2
    <3>2. Singly(files[g], noted)
      BY DEF VInv, LInv
    <3>3. QED BY <1>6, <3>1, <3>2 DEF Singly
  <2>3. QED BY <2>1, <2>2
<1>10. QED BY <1>9 DEF LInv

LEMMA RowsKept ==
  ASSUME VInv, NEW h \in Homes, NEW standing \in Standings, Capture(h, standing)
  PROVE  SInv'
<1> DEFINE row == Session(h, standing)
           n == Len(sessions)
<1>1. sessions \in Seq(Row) /\ n \in Nat /\ sessions' = Append(sessions, row)
  BY DEF VInv, SInv, Capture
<1>2. h.machine \in Machines /\ h.project \in Places /\ h.label \in Labels
  BY DEF Places, Labels
<1>3. now \in Nat /\ ZoneOf[h.machine] \in Int
  BY <1>2 DEF VInv, WInv
<1>4. /\ standing.state \in {"captured", "curated", "dismissed"} /\ standing.stale \in BOOLEAN
      /\ standing.entry \in {"none", "whole", "torn"}
  BY DEF Standings
<1>5. Stamp(now, 0) \in Moments
  BY <1>3 DEF Stamp, Moments
<1>6. Date(Stamp(now, ZoneOf[h.machine])) \in Int
  <2>1. now + ZoneOf[h.machine] \in Int
    BY <1>3
  <2>2. QED BY <2>1, DivFacts DEF Date, Stamp
<1>7. row \in Row /\ row.key = n + 1
  BY <1>1, <1>2, <1>4, <1>5, <1>6 DEF Session, Row
<1> HIDE DEF row
<1>8. sessions' \in Seq(Row) /\ Len(sessions') = n + 1 /\ sessions'[n + 1] = row
      /\ \A k \in 1..n : sessions'[k] = sessions[k]
  BY <1>1, <1>7
<1>9. ASSUME NEW k \in 1..(n + 1) PROVE sessions'[k].key = k
  <2>1. \A i \in 1..n : sessions[i].key = i
    BY DEF VInv, SInv
  <2> HIDE DEF n
  <2>2. k = n + 1 \/ k \in 1..n
    BY <1>1
  <2>3. QED BY <1>7, <1>8, <2>1, <2>2
<1>10. QED BY <1>8, <1>9 DEF SInv

LEMMA SpecVInv == Spec => []VInv
<1>1. Init => SInv /\ LInv
  <2>1. SUFFICES ASSUME Init PROVE SInv /\ LInv
    OBVIOUS
  <2>2. \A f \in Dates \X Machines : files[f] = EmptyFile
    BY <2>1 DEF Init
  <2>3. Singly(EmptyFile, noted)
    BY DEF Singly, EmptyFile
  <2>4. sessions = <<>>
    BY <2>1 DEF Init
  <2>5. QED BY <2>2, <2>3, <2>4 DEF SInv, LInv
<1>2. VInv /\ [Next]_vars => SInv' /\ LInv'
  <2>1. SUFFICES ASSUME VInv, [Next]_vars PROVE SInv' /\ LInv'
    OBVIOUS
  <2>2. sessions' = sessions => SInv'
    BY <2>1 DEF VInv, SInv
  <2>3. UNCHANGED <<files, noted>> => LInv'
    BY <2>1 DEF VInv, LInv
  <2>4. CASE Tick
    BY <2>2, <2>3, <2>4 DEF Tick
  <2>5. ASSUME NEW h \in Homes, Breadcrumb(h) \/ TornBreadcrumb(h) PROVE SInv' /\ LInv'
    <3>1. LInv'
      BY <2>1, <2>5, LinesKept
    <3>2. sessions' = sessions
      BY <2>5 DEF Breadcrumb, TornBreadcrumb
    <3>3. QED BY <2>2, <3>1, <3>2
  <2>6. ASSUME NEW h \in Homes, NEW standing \in Standings, Capture(h, standing)
        PROVE  SInv' /\ LInv'
    <3>1. SInv'
      BY <2>1, <2>6, RowsKept
    <3>2. UNCHANGED <<files, noted>>
      BY <2>6 DEF Capture
    <3>3. QED BY <2>3, <3>1, <3>2
  <2>7. CASE UNCHANGED vars
    BY <2>2, <2>3, <2>7 DEF vars
  <2>8. QED BY <2>1, <2>4, <2>5, <2>6, <2>7 DEF Next
<1>3. WInv /\ SInv /\ LInv <=> VInv
  BY DEF VInv
<1>4. QED BY <1>1, <1>2, <1>3, SpecWInv, PTL DEF Spec

-----------------------------------------------------------------------------
(* What the walk and the files list. *)

LEMMA SessionsListed ==
  ASSUME VInv
  PROVE  Listing(sessions, Row, ToSet(sessions))
<1>1. sessions \in Seq(Row) /\ \A k \in 1..Len(sessions) : sessions[k].key = k
  BY DEF VInv, SInv
<1>2. DOMAIN sessions = 1..Len(sessions)
  BY <1>1
<1>3. IsInjective(sessions)
  BY <1>1, <1>2 DEF IsInjective
<1>4. QED BY <1>1, <1>3, CountOnce, Zenon DEF Listing

\* The breadcrumbs of a file that can be read.
LEMMA FileListed ==
  ASSUME VInv, NEW date \in Dates, NEW m \in Machines
  PROVE  Listing(ReadBreadcrumbFile(date, m), Line, {c \in Survivors : FileOf(c) = <<date, m>>})
<1> DEFINE f == <<date, m>>
           lines == files[f].lines
           I == {i \in DOMAIN lines : lines[i] # Garbage}
           w == Picked(lines, I)
           K == {c \in Survivors : FileOf(c) = f}
<1>1. f \in Dates \X Machines
  OBVIOUS
<1>2. lines \in Seq(Line)
  BY <1>1 DEF VInv, WInv, File
<1>3. /\ \A i, j \in 1..Len(lines) : lines[i] = lines[j] => i = j \/ lines[i] = Garbage
      /\ \A i \in 1..Len(lines) : lines[i] = Garbage \/ FileOf(lines[i]) = f
  BY <1>1, Zenon DEF VInv, WInv, LInv, Singly
<1>4. DOMAIN lines = 1..Len(lines) /\ Len(lines) \in Nat
  BY <1>2
<1>5. K = {lines[i] : i \in I}
  <2>1. ASSUME NEW c \in K PROVE c \in {lines[i] : i \in I}
    <3>1. c # Garbage /\ FileOf(c) = f
      BY SurvivorFacts DEF VInv
    <3>2. PICK g \in Dates \X Machines : \E i \in 1..Len(files[g].lines) : c = files[g].lines[i]
      BY SurvivorFacts DEF VInv
    <3>3. PICK i \in 1..Len(files[g].lines) : c = files[g].lines[i]
      BY <3>2
    <3>4. FileOf(c) = g
      BY <3>1, <3>3 DEF VInv, WInv
    <3>5. i \in I /\ lines[i] = c
      BY <1>4, <3>1, <3>3, <3>4
    <3> HIDE DEF I, lines
    <3>6. QED BY <3>5
  <2>2. ASSUME NEW i \in I PROVE lines[i] \in K
    <3>1. i \in 1..Len(lines) /\ lines[i] # Garbage /\ FileOf(lines[i]) = f
      BY <1>3, <1>4
    <3>2. lines[i] \in Survivors
      BY <1>1, <3>1, SurvivorFacts DEF VInv
    <3> HIDE DEF lines, f
    <3>3. QED BY <3>1, <3>2
  <2> HIDE DEF I, K, lines
  <2>3. QED BY <2>1, <2>2
<1>6. I \in SUBSET (1..Len(lines)) /\ \A i : i \in I <=> i \in 1..Len(lines) /\ lines[i] # Garbage
  BY <1>4
<1> HIDE DEF I, lines
<1>7. PICK e : Moves(e, w, lines, I)
  BY <1>2, <1>6, PickedIs
<1>8. w \in Seq(Line) /\ ToSet(w) = {lines[i] : i \in I}
  BY <1>2, <1>6, PickedKeeps
<1> HIDE DEF w
<1>9. IsInjective(w)
  <2>1. DOMAIN w = 1..Len(w)
    BY <1>8
  <2>2. /\ \A i \in 1..Len(w) : e[i] \in I /\ w[i] = lines[e[i]]
        /\ \A i, j \in 1..Len(w) : e[i] = e[j] => i = j
    BY <1>7, Zenon DEF Moves
  <2>3. QED BY <1>3, <1>6, <2>1, <2>2 DEF IsInjective
<1>10. Listing(w, Line, K)
  BY <1>5, <1>8, <1>9, CountOnce, Zenon DEF Listing
<1>11. QED BY <1>10 DEF ReadBreadcrumbFile, w, I, lines

-----------------------------------------------------------------------------
(* What the views list. *)

\* The items a condition picks.
LEMMA ListingThose ==
  ASSUME NEW T, NEW w, NEW K, Listing(w, T, K), NEW M \in SUBSET K, NEW I \in SUBSET (DOMAIN w),
         \A i \in DOMAIN w : w[i] \in K => (i \in I <=> w[i] \in M)
  PROVE  Listing(Picked(w, I), T, M)
<1>1. \A i \in DOMAIN w : w[i] \in K
  <2>1. ToSet(w) = K
    BY DEF Listing
  <2>2. QED BY <2>1, Zenon DEF ToSet
<1>2. I = {i \in DOMAIN w : w[i] \in M}
  BY <1>1
<1>3. K \cap M = M
  OBVIOUS
<1>4. Listing(Picked(w, {i \in DOMAIN w : w[i] \in M}), T, K \cap M)
  BY ListingPicked
<1>5. QED BY <1>2, <1>3, <1>4

LEMMA DayInt ==
  ASSUME NEW s \in Moments, NEW cutoff
  PROVE  Date(s) \in Int /\ DayOf(s, cutoff) \in {Date(s), Date(s) - 1}
<1>1. s.at + s.zone \in Int
  <2>1. s.at \in Int /\ s.zone \in Int
    BY DEF Moments
  <2>2. QED BY <2>1
<1>2. Date(s) \in Int
  BY <1>1, DivFacts DEF Date
<1>3. QED BY <1>2 DEF DayOf

LEMMA WalkListed ==
  ASSUME VInv
  PROVE  Listing(Walk, Row, ToSet(sessions))
<1> DEFINE shards == [s \in Row |-> s.shard]
           rank == [i \in DOMAIN sessions |-> sessions[i].shard]
<1>1. Listing(sessions, Row, ToSet(sessions))
  BY SessionsListed
<1>2. shards \in [Row -> Int]
  BY DEF Row
<1>3. rank = [i \in DOMAIN sessions |-> shards[sessions[i]]]
  <2>1. \A i \in DOMAIN sessions : sessions[i] \in Row
    BY DEF VInv, SInv
  <2>2. QED BY <2>1
<1> HIDE DEF shards, rank
<1>4. Listing(Sorted(sessions, rank), Row, ToSet(sessions))
  BY <1>1, <1>2, <1>3, ListingSorted
<1>5. QED BY <1>4 DEF Walk, rank

LEMMA ApplyListed ==
  ASSUME NEW w, NEW K, Listing(w, Row, K), NEW f, NEW cutoff
  PROVE  Listing(Apply(w, f, cutoff), Row, {s \in K : Match(s, f, cutoff)})
<1> DEFINE M == {s \in K : Match(s, f, cutoff)}
           I == {i \in DOMAIN w : Match(w[i], f, cutoff)}
<1>1. M \in SUBSET K /\ I \in SUBSET (DOMAIN w)
  OBVIOUS
<1>2. \A i \in DOMAIN w : w[i] \in K => (i \in I <=> w[i] \in M)
  OBVIOUS
<1> HIDE DEF M, I
<1>3. Listing(Picked(w, I), Row, M)
  BY <1>1, <1>2, ListingThose
<1>4. QED BY <1>3 DEF Apply, M, I

\* Each order of rows keeps them, in that order.
Started == [s \in Row |-> s.started.at]
NotStarted == [s \in Row |-> -s.started.at]

LEMMA StartedInt ==
  /\ Started \in [Row -> Int] /\ NotStarted \in [Row -> Int]
  /\ \A s \in Row : s.started.at \in Int /\ Started[s] = s.started.at /\ NotStarted[s] = -s.started.at
<1>1. \A s \in Row : s.started.at \in Int
  BY DEF Row, Moments
<1>2. QED BY <1>1 DEF Started, NotStarted

LEMMA OldestListed ==
  ASSUME NEW w, NEW K, Listing(w, Row, K)
  PROVE  Listing(OldestFirst(w), Row, K) /\ Ascending(OldestFirst(w), Started)
<1> DEFINE rank == [i \in DOMAIN w |-> w[i].started.at]
<1>1. \A i \in DOMAIN w : w[i] \in Row
  BY DEF Listing
<1>2. rank = [i \in DOMAIN w |-> Started[w[i]]]
  BY <1>1, StartedInt
<1> HIDE DEF rank
<1>3. Started \in [Row -> Int]
  BY StartedInt
<1>4. Listing(Sorted(w, rank), Row, K) /\ Ascending(Sorted(w, rank), Started)
  BY <1>2, <1>3, ListingSorted
<1>5. QED BY <1>4 DEF OldestFirst, rank

LEMMA NewestListed ==
  ASSUME NEW w, NEW K, Listing(w, Row, K)
  PROVE  Listing(NewestFirst(w), Row, K) /\ Ascending(NewestFirst(w), NotStarted)
<1> DEFINE rank == [i \in DOMAIN w |-> -w[i].started.at]
<1>1. \A i \in DOMAIN w : w[i] \in Row
  BY DEF Listing
<1>2. rank = [i \in DOMAIN w |-> NotStarted[w[i]]]
  BY <1>1, StartedInt
<1> HIDE DEF rank
<1>3. NotStarted \in [Row -> Int]
  BY StartedInt
<1>4. Listing(Sorted(w, rank), Row, K) /\ Ascending(Sorted(w, rank), NotStarted)
  BY <1>2, <1>3, ListingSorted
<1>5. QED BY <1>4 DEF NewestFirst, rank

LEMMA EarliestListed ==
  ASSUME NEW w, NEW K, Listing(w, Line, K)
  PROVE  Listing(EarliestFirst(w), Line, K)
<1> DEFINE rank == [i \in DOMAIN w |-> w[i].at.at]
           key == [c \in Line |-> c.at.at]
<1>1. \A i \in DOMAIN w : w[i] \in Line
  BY DEF Listing
<1>2. key \in [Line -> Int]
  BY DEF Line, Moments
<1>3. rank = [i \in DOMAIN w |-> key[w[i]]]
  BY <1>1
<1> HIDE DEF rank, key
<1>4. Listing(Sorted(w, rank), Line, K)
  BY <1>2, <1>3, ListingSorted
<1>5. QED BY <1>4 DEF EarliestFirst, rank

LEMMA OfProjectListed ==
  ASSUME NEW w, NEW K, Listing(w, Row, K), NEW p
  PROVE  Listing(OfProject(w, p), Row, {s \in K : s.project = p})
<1> DEFINE M == {s \in K : s.project = p}
           I == {i \in DOMAIN w : w[i].project = p}
<1>1. M \in SUBSET K /\ I \in SUBSET (DOMAIN w)
  OBVIOUS
<1>2. \A i \in DOMAIN w : w[i] \in K => (i \in I <=> w[i] \in M)
  OBVIOUS
<1> HIDE DEF M, I
<1>3. Listing(Picked(w, I), Row, M)
  BY <1>1, <1>2, ListingThose
<1>4. QED BY <1>3 DEF OfProject, M, I

LEMMA OfSlugsListed ==
  ASSUME NEW w, NEW K, Listing(w, Line, K), NEW slugs
  PROVE  Listing(OfSlugs(w, slugs), Line, {c \in K : c.slug \in slugs})
<1> DEFINE M == {c \in K : c.slug \in slugs}
           I == {i \in DOMAIN w : w[i].slug \in slugs}
<1>1. M \in SUBSET K /\ I \in SUBSET (DOMAIN w)
  OBVIOUS
<1>2. \A i \in DOMAIN w : w[i] \in K => (i \in I <=> w[i] \in M)
  OBVIOUS
<1> HIDE DEF M, I
<1>3. Listing(Picked(w, I), Line, M)
  BY <1>1, <1>2, ListingThose
<1>4. QED BY <1>3 DEF OfSlugs, M, I

LEMMA OfDayListed ==
  ASSUME NEW w, NEW K, Listing(w, Line, K), NEW day, NEW cutoff
  PROVE  Listing(OfDay(w, day, cutoff), Line, {c \in K : DayOf(c.at, cutoff) = day})
<1> DEFINE M == {c \in K : DayOf(c.at, cutoff) = day}
           I == {i \in DOMAIN w : DayOf(w[i].at, cutoff) = day}
<1>1. M \in SUBSET K /\ I \in SUBSET (DOMAIN w)
  OBVIOUS
<1>2. \A i \in DOMAIN w : w[i] \in K => (i \in I <=> w[i] \in M)
  OBVIOUS
<1> HIDE DEF M, I
<1>3. Listing(Picked(w, I), Line, M)
  BY <1>1, <1>2, ListingThose
<1>4. QED BY <1>3 DEF OfDay, M, I

-----------------------------------------------------------------------------
(* The breadcrumbs of a date, of a day and of a window. *)

LEMMA SurvivorLine ==
  ASSUME VInv, NEW c \in Survivors
  PROVE  /\ c \in Line /\ c.machine \in Machines /\ Date(c.at) \in Dates
         /\ FileOf(c) = <<Date(c.at), c.machine>> /\ c.at \in Moments
<1>1. PICK f \in Dates \X Machines : \E i \in 1..Len(files[f].lines) : c = files[f].lines[i]
  BY SurvivorFacts DEF VInv
<1>2. PICK i \in 1..Len(files[f].lines) : c = files[f].lines[i]
  BY <1>1
<1>3. c # Garbage
  BY SurvivorFacts DEF VInv
<1>4. FileOf(c) = f /\ c \in Line
  BY <1>2, <1>3 DEF VInv, WInv, File
<1>5. c.at \in Moments
  BY <1>4 DEF Line
<1>6. QED BY <1>4, <1>5 DEF FileOf

LEMMA DateListed ==
  ASSUME VInv, NEW date
  PROVE  Listing(ReadBreadcrumbs(date), Line, {c \in Survivors : Date(c.at) = date})
<1> DEFINE K == {c \in Survivors : Date(c.at) = date}
<1>1. CASE date \notin Dates
  <2>1. K = {}
    BY <1>1, SurvivorLine
  <2>2. ReadBreadcrumbs(date) = <<>>
    BY <1>1 DEF ReadBreadcrumbs
  <2>3. QED BY <2>1, <2>2, ListingEmpty
<1>2. CASE date \in Dates
  <2> DEFINE o == MachineOrder
             n == Len(o)
             ss == [i \in DOMAIN o |-> ReadBreadcrumbFile(date, o[i])]
             Ks == [i \in DOMAIN o |-> {c \in Survivors : FileOf(c) = <<date, o[i]>>}]
  <2>1. o \in Seq(Machines) /\ IsInjective(o) /\ ToSet(o) = Machines
    BY SetToSeqIs DEF MachineOrder
  <2> HIDE DEF o
  <2>2. DOMAIN o = 1..n /\ n \in Nat /\ \A i \in 1..n : o[i] \in Machines
    BY <2>1
  <2>3. \A m \in Machines : \E i \in 1..n : o[i] = m
    BY <2>1, <2>2 DEF ToSet
  <2>4. ASSUME NEW g \in 1..n PROVE Listing(ss[g], Line, Ks[g])
    BY <1>2, <2>2, FileListed
  <2>5. ASSUME NEW g \in 1..n, NEW h \in 1..n, g # h PROVE Ks[g] \cap Ks[h] = {}
    <3>1. o[g] # o[h]
      BY <2>1, <2>2, <2>5 DEF IsInjective
    <3>2. \A c \in Ks[g] : FileOf(c) = <<date, o[g]>>
      BY <2>2
    <3>3. \A c \in Ks[h] : FileOf(c) = <<date, o[h]>>
      BY <2>2
    <3> HIDE DEF Ks
    <3>4. QED BY <3>1, <3>2, <3>3
  <2>6. \A c : (\E g \in 1..n : c \in Ks[g]) <=> c \in K
    <3>1. ASSUME NEW c, NEW g \in 1..n, c \in Ks[g] PROVE c \in K
      <4>1. c \in Survivors /\ FileOf(c) = <<date, o[g]>>
        BY <2>2, <3>1
      <4>2. QED BY <4>1, SurvivorLine
    <3>2. ASSUME NEW c \in K PROVE \E g \in 1..n : c \in Ks[g]
      <4>1. c \in Survivors /\ c.machine \in Machines /\ FileOf(c) = <<date, c.machine>>
        BY SurvivorLine
      <4>2. PICK g \in 1..n : o[g] = c.machine
        BY <2>3, <4>1
      <4>3. c \in Ks[g]
        BY <2>2, <4>1, <4>2
      <4>4. QED BY <4>3
    <3> HIDE DEF K, Ks
    <3>3. QED BY <3>1, <3>2
  <2>7. ss \in Seq(Seq(Line)) /\ Len(ss) = n
    <3>1. \A g \in 1..n : ss[g] \in Seq(Line)
      BY <2>4 DEF Listing
    <3>2. ss = [g \in 1..n |-> ss[g]]
      BY <2>2
    <3> HIDE DEF ss
    <3>3. QED BY <2>2, <3>1, <3>2
  <2>8. FlattenSeq(ss) = ReadBreadcrumbs(date)
    BY <1>2 DEF ReadBreadcrumbs, o
  <2> HIDE DEF ss, Ks, K, n
  <2>9. Listing(FlattenSeq(ss), Line, K)
    <3>1. n \in Nat
      BY <2>2
    <3>2. \A g \in 1..n : Listing(ss[g], Line, Ks[g])
      BY <2>4
    <3>3. \A g, h \in 1..n : g # h => Ks[g] \cap Ks[h] = {}
      BY <2>5
    <3>4. \A c : c \in K <=> \E g \in 1..n : c \in Ks[g]
      BY <2>6
    <3>5. QED BY ONLY <2>7, <3>1, <3>2, <3>3, <3>4, ListingFlatten
  <2>10. QED BY <2>8, <2>9 DEF K
<1>3. QED BY <1>1, <1>2

\* A work day's breadcrumbs, whatever files they lie in.
LEMMA DayListed ==
  ASSUME VInv, NEW day \in Int, NEW cutoff
  PROVE  Listing(ReadBreadcrumbsForDay(day, cutoff), Line,
                 {c \in Survivors : DayOf(c.at, cutoff) = day})
<1> DEFINE A == {c \in Survivors : Date(c.at) = day}
           B == {c \in Survivors : Date(c.at) = day + 1}
           a == ReadBreadcrumbs(day)
           b == ReadBreadcrumbs(day + 1)
           D == {c \in Survivors : DayOf(c.at, cutoff) = day}
<1>1. Listing(a, Line, A) /\ Listing(b, Line, B)
  BY DateListed
<1>2. A \cap B = {}
  OBVIOUS
<1>3. {c \in A \cup B : DayOf(c.at, cutoff) = day} = D
  <2>1. ASSUME NEW c \in Survivors, DayOf(c.at, cutoff) = day PROVE c \in A \cup B
    <3>1. Date(c.at) \in Int /\ DayOf(c.at, cutoff) \in {Date(c.at), Date(c.at) - 1}
      BY SurvivorLine, DayInt
    <3>2. Date(c.at) = day \/ Date(c.at) = day + 1
      BY <2>1, <3>1
    <3>3. QED BY <3>2
  <2>2. A \cup B \subseteq Survivors
    OBVIOUS
  <2> HIDE DEF A, B
  <2>3. QED BY <2>1, <2>2
<1> HIDE DEF A, B, a, b, D
<1>4. Listing(a \o b, Line, A \cup B)
  BY <1>1, <1>2, ListingBoth
<1>5. Listing(OfDay(a \o b, day, cutoff), Line, {c \in A \cup B : DayOf(c.at, cutoff) = day})
  BY <1>4, OfDayListed
<1>6. QED BY <1>3, <1>5 DEF ReadBreadcrumbsForDay, AddDays, a, b, D

LEMMA WindowListed ==
  ASSUME VInv, NEW first \in Int, NEW day \in Int, first <= day, NEW cutoff
  PROVE  Listing(GatherBreadcrumbs(first, day, cutoff), Line,
                 {c \in Survivors : DayOf(c.at, cutoff) \in first..day})
<1> DEFINE n == day - first + 1
           ss == [i \in 1..n |-> ReadBreadcrumbsForDay(AddDays(first, i - 1), cutoff)]
           Ks == [i \in 1..n |-> {c \in Survivors : DayOf(c.at, cutoff) = first + (i - 1)}]
           K == {c \in Survivors : DayOf(c.at, cutoff) \in first..day}
<1>1. n \in Nat
  OBVIOUS
<1>2. ASSUME NEW g \in 1..n PROVE Listing(ss[g], Line, Ks[g])
  <2>1. first + (g - 1) \in Int
    OBVIOUS
  <2>2. Listing(ReadBreadcrumbsForDay(first + (g - 1), cutoff), Line,
                {c \in Survivors : DayOf(c.at, cutoff) = first + (g - 1)})
    BY <2>1, DayListed
  <2>3. ss[g] = ReadBreadcrumbsForDay(first + (g - 1), cutoff)
    BY DEF AddDays
  <2>4. Ks[g] = {c \in Survivors : DayOf(c.at, cutoff) = first + (g - 1)}
    OBVIOUS
  <2> HIDE DEF ss, Ks
  <2>5. QED BY <2>2, <2>3, <2>4
<1>3. ASSUME NEW g \in 1..n, NEW h \in 1..n, g # h PROVE Ks[g] \cap Ks[h] = {}
  <2>1. first + (g - 1) # first + (h - 1)
    BY <1>1, <1>3
  <2>2. \A c \in Ks[g] : DayOf(c.at, cutoff) = first + (g - 1)
    OBVIOUS
  <2>3. \A c \in Ks[h] : DayOf(c.at, cutoff) = first + (h - 1)
    OBVIOUS
  <2> HIDE DEF Ks
  <2>4. QED BY <2>1, <2>2, <2>3
<1>4. \A c : (\E g \in 1..n : c \in Ks[g]) <=> c \in K
  <2>1. ASSUME NEW c, NEW g \in 1..n, c \in Ks[g] PROVE c \in K
    <3>1. c \in Survivors /\ DayOf(c.at, cutoff) = first + (g - 1)
      BY <2>1
    <3>2. first + (g - 1) \in first..day
      BY <1>1
    <3>3. QED BY <3>1, <3>2
  <2>2. ASSUME NEW c \in K PROVE \E g \in 1..n : c \in Ks[g]
    <3>1. c \in Survivors /\ DayOf(c.at, cutoff) \in first..day
      OBVIOUS
    <3> DEFINE g == DayOf(c.at, cutoff) - first + 1
    <3>2. g \in 1..n /\ first + (g - 1) = DayOf(c.at, cutoff)
      BY <1>1, <3>1
    <3>3. c \in Ks[g]
      BY <3>1, <3>2
    <3>4. QED BY <3>2, <3>3
  <2> HIDE DEF K, Ks
  <2>3. QED BY <2>1, <2>2
<1>5. ss \in Seq(Seq(Line)) /\ Len(ss) = n
  <2>1. \A g \in 1..n : ss[g] \in Seq(Line)
    BY <1>2 DEF Listing
  <2>2. ss = [g \in 1..n |-> ss[g]]
    OBVIOUS
  <2> DEFINE S == Seq(Line)
  <2> HIDE DEF ss, n, S
  <2>3. ss \in [1..n -> S]
    BY <2>1, <2>2 DEF S
  <2>4. ss \in Seq(S) /\ Len(ss) = n
    BY <1>1, <2>3
  <2>5. QED BY <2>4 DEF S
<1>6. FlattenSeq(ss) = GatherBreadcrumbs(first, day, cutoff)
  BY DEF GatherBreadcrumbs
<1> HIDE DEF ss, Ks, K, n
<1>7. Listing(FlattenSeq(ss), Line, K)
  <2>1. \A g \in 1..n : Listing(ss[g], Line, Ks[g])
    BY <1>2
  <2>2. \A g, h \in 1..n : g # h => Ks[g] \cap Ks[h] = {}
    BY <1>3
  <2>3. \A c : c \in K <=> \E g \in 1..n : c \in Ks[g]
    BY <1>4
  <2>4. QED BY ONLY <1>1, <1>5, <2>1, <2>2, <2>3, ListingFlatten
<1>8. QED BY <1>6, <1>7 DEF K

-----------------------------------------------------------------------------
(* retro and stats. *)

LEMMA SinceMatches ==
  ASSUME NEW s, NEW since, NEW cutoff
  PROVE  Match(s, [NoFilter EXCEPT !.since = since], cutoff)
           <=> \A d \in since : DayOf(s.started, cutoff) >= d
BY DEF Match, NoFilter

InWindow(first, day, cutoff) ==
  {s \in ToSet(sessions) : DayOf(s.started, cutoff) \in first..day}

NotedInWindow(first, day, cutoff) ==
  {c \in Survivors : DayOf(c.at, cutoff) \in first..day}

LEMMA RowDay ==
  ASSUME VInv, NEW s \in ToSet(sessions), NEW cutoff
  PROVE  s \in Row /\ DayOf(s.started, cutoff) \in Int
<1>1. s \in Row
  BY SessionsListed DEF VInv, SInv, ToSet
<1>2. s.started \in Moments
  BY <1>1 DEF Row
<1>3. QED BY <1>1, <1>2, DayInt

LEMMA WindowSessionsListed ==
  ASSUME VInv, NEW first \in Int, NEW day \in Int, NEW cutoff
  PROVE  Listing(WindowSessions(first, day, cutoff), Row, InWindow(first, day, cutoff))
<1> DEFINE f == [NoFilter EXCEPT !.since = {first}]
           w == Apply(Walk, f, cutoff)
           K == {s \in ToSet(sessions) : Match(s, f, cutoff)}
           M == InWindow(first, day, cutoff)
           I == {i \in DOMAIN w : DayOf(w[i].started, cutoff) <= day}
<1>1. Listing(w, Row, K)
  BY WalkListed, ApplyListed
<1>2. \A s : Match(s, f, cutoff) <=> DayOf(s.started, cutoff) >= first
  BY SinceMatches
<1>3. M \in SUBSET K
  <2>1. ASSUME NEW s \in M PROVE s \in K
    <3>1. s \in ToSet(sessions) /\ DayOf(s.started, cutoff) \in first..day
      BY DEF InWindow
    <3>2. DayOf(s.started, cutoff) >= first
      BY <3>1
    <3> HIDE DEF f
    <3>3. QED BY <1>2, <3>1, <3>2
  <2> HIDE DEF M, K
  <2>2. QED BY <2>1
<1>4. \A i \in DOMAIN w : w[i] \in K => (i \in I <=> w[i] \in M)
  <2>1. ASSUME NEW i \in DOMAIN w, w[i] \in K PROVE i \in I <=> w[i] \in M
    <3> DEFINE s == w[i]
    <3>1. s \in ToSet(sessions) /\ DayOf(s.started, cutoff) >= first /\ DayOf(s.started, cutoff) \in Int
      BY <1>2, <2>1, RowDay
    <3>2. i \in I <=> DayOf(s.started, cutoff) <= day
      OBVIOUS
    <3> HIDE DEF s, I, w
    <3>3. s \in M <=> DayOf(s.started, cutoff) <= day
      BY <3>1 DEF InWindow
    <3>4. QED BY <3>2, <3>3 DEF s
  <2>2. QED BY <2>1
<1>5. I \in SUBSET (DOMAIN w)
  OBVIOUS
<1>6. WindowSessions(first, day, cutoff) = Picked(w, I)
  BY DEF WindowSessions
<1> HIDE DEF w, K, M, I, f
<1>7. Listing(Picked(w, I), Row, M)
  BY <1>1, <1>3, <1>4, <1>5, ListingThose
<1>8. QED BY <1>6, <1>7 DEF M

\* What a retro holds, project by project.
RetroHolds(doc, W, C) ==
  /\ DOMAIN doc.groups = {s.project : s \in W} \cup ({c.slug : c \in C} \ {NoProject})
  /\ \A p \in DOMAIN doc.groups :
       /\ Listing(doc.groups[p].sessions, Row, {s \in W : s.project = p})
       /\ Listing(doc.groups[p].breadcrumbs, Line, {c \in C : c.slug \in {p} \ {NoProject}})
  /\ Listing(doc.global, Line, {c \in C : c.slug \in {NoProject}})

LEMMA RetroIs ==
  ASSUME VInv, NEW first \in Int, NEW day \in Int, first <= day, NEW cutoff
  PROVE  RetroHolds(Retro(first, day, cutoff), InWindow(first, day, cutoff),
                    NotedInWindow(first, day, cutoff))
<1> DEFINE windowed == OldestFirst(WindowSessions(first, day, cutoff))
           crumbs == EarliestFirst(GatherBreadcrumbs(first, day, cutoff))
           W == InWindow(first, day, cutoff)
           C == NotedInWindow(first, day, cutoff)
           named == {s.project : s \in W} \cup ({c.slug : c \in C} \ {NoProject})
           entries(p) == Picked(windowed, {i \in DOMAIN windowed :
                           windowed[i].project = p /\ Readable(windowed[i])})
           doc == Retro(first, day, cutoff)
<1>1. Listing(windowed, Row, W)
  BY WindowSessionsListed, OldestListed
<1>2. Listing(crumbs, Line, C)
  BY WindowListed, EarliestListed DEF NotedInWindow
<1>3. ToSet(windowed) = W /\ ToSet(crumbs) = C
  BY <1>1, <1>2 DEF Listing
<1>4. doc = [groups |-> [p \in named |-> [sessions |-> OfProject(windowed, p),
                                          entries |-> entries(p),
                                          breadcrumbs |-> OfSlugs(crumbs, {p} \ {NoProject})]],
             global |-> OfSlugs(crumbs, {NoProject})]
  BY <1>3, Zenon DEF Retro
<1> HIDE DEF windowed, crumbs, doc, W, C, named
<1>5. /\ DOMAIN doc.groups = named
      /\ doc.global = OfSlugs(crumbs, {NoProject})
      /\ \A p \in named : /\ doc.groups[p].sessions = OfProject(windowed, p)
                          /\ doc.groups[p].breadcrumbs = OfSlugs(crumbs, {p} \ {NoProject})
  BY <1>4
<1>6. ASSUME NEW p \in named
      PROVE  /\ Listing(doc.groups[p].sessions, Row, {s \in W : s.project = p})
             /\ Listing(doc.groups[p].breadcrumbs, Line, {c \in C : c.slug \in {p} \ {NoProject}})
  <2>1. Listing(OfProject(windowed, p), Row, {s \in W : s.project = p})
    BY <1>1, OfProjectListed
  <2>2. Listing(OfSlugs(crumbs, {p} \ {NoProject}), Line, {c \in C : c.slug \in {p} \ {NoProject}})
    BY <1>2, OfSlugsListed
  <2>3. QED BY <1>5, <2>1, <2>2
<1>7. Listing(doc.global, Line, {c \in C : c.slug \in {NoProject}})
  BY <1>2, <1>5, OfSlugsListed
<1>8. RetroHolds(doc, W, C)
  BY <1>5, <1>6, <1>7, Zenon DEF RetroHolds, named
<1>9. QED BY <1>8 DEF doc, W, C

\* In how many lists something is that each of the lists H holds once.
LEMMA InListsIs ==
  ASSUME NEW lists, NEW x, NEW H \in SUBSET (DOMAIN lists), IsFiniteSet(H),
         \A p \in DOMAIN lists : Count(lists[p], x) = IF p \in H THEN 1 ELSE 0
  PROVE  InLists(x, lists) = Cardinality(H)
<1>1. {p \in DOMAIN lists : Count(lists[p], x) = 1} = H
  OBVIOUS
<1>2. {p \in DOMAIN lists : Count(lists[p], x) > 1} = {}
  OBVIOUS
<1>3. Cardinality({}) = 0 /\ Cardinality(H) \in Nat
  BY FS_EmptySet, FS_CardinalityType
<1>4. InLists(x, lists) = Cardinality(H) + 2 * Cardinality({})
  BY <1>1, <1>2, Zenon DEF InLists
<1>5. QED BY <1>3, <1>4

\* stats counts the sessions of a day.
LEMMA StatsCounts ==
  ASSUME VInv, NEW cutoff, NEW day
  PROVE  LET byDay == Stats({}, cutoff).byDay
             D == {s \in ToSet(sessions) : DayOf(s.started, cutoff) = day}
         IN /\ day \in DOMAIN byDay <=> D # {}
            /\ day \in DOMAIN byDay => byDay[day] = Cardinality(D)
<1> DEFINE f == [NoFilter EXCEPT !.since = {}]
           w == Apply(Walk, f, cutoff)
           days == [i \in DOMAIN w |-> DayOf(w[i].started, cutoff)]
           byDay == Stats({}, cutoff).byDay
           D == {s \in ToSet(sessions) : DayOf(s.started, cutoff) = day}
           A == {i \in DOMAIN days : days[i] = day}
           g == [i \in A |-> w[i]]
<1>1. byDay = [d \in ToSet(days) |-> Count(days, d)]
  BY DEF Stats
<1>2. \A s : Match(s, f, cutoff)
  BY SinceMatches
<1>3. {s \in ToSet(sessions) : Match(s, f, cutoff)} = ToSet(sessions)
  BY <1>2
<1>4. Listing(w, Row, ToSet(sessions))
  BY <1>3, WalkListed, ApplyListed
<1> HIDE DEF w, byDay, f
<1>5. w \in Seq(Row) /\ IsInjective(w) /\ ToSet(w) = ToSet(sessions)
  BY <1>4, ListingIs
<1>6. DOMAIN days = DOMAIN w /\ DOMAIN w = 1..Len(w) /\ Len(w) \in Nat
  BY <1>5
<1>7. \A i \in DOMAIN w : days[i] = DayOf(w[i].started, cutoff) /\ w[i] \in ToSet(sessions)
  <2>1. \A i \in DOMAIN w : w[i] \in ToSet(w)
    BY Zenon DEF ToSet
  <2>2. QED BY <1>5, <2>1
<1>8. \A s \in ToSet(sessions) : \E i \in DOMAIN w : w[i] = s
  <2>1. \A s \in ToSet(w) : \E i \in DOMAIN w : w[i] = s
    BY Zenon DEF ToSet
  <2>2. QED BY <1>5, <2>1
<1> HIDE DEF days
<1>9. IsFiniteSet(A)
  BY <1>6, SomePlaces
<1>10. g \in [A -> D]
  BY <1>6, <1>7
<1>11. \A a, b \in A : g[a] = g[b] => a = b
  BY <1>5, <1>6 DEF IsInjective
<1>12. ASSUME NEW s \in D PROVE \E a \in A : g[a] = s
  <2>1. PICK i \in DOMAIN w : w[i] = s
    BY <1>8
  <2>2. i \in A
    BY <1>6, <1>7, <2>1
  <2>3. QED BY <2>1, <2>2
<1>13. day \in ToSet(days) <=> A # {}
  BY Zenon DEF ToSet
<1>14. A # {} <=> D # {}
  BY <1>10, <1>12
<1> HIDE DEF A, D, g
<1>15. Cardinality(D) = Cardinality(A)
  BY <1>9, <1>10, <1>11, <1>12, SameSize
<1>16. Count(days, day) = Cardinality(A)
  BY DEF Count, A
<1>17. QED BY <1>1, <1>13, <1>14, <1>15, <1>16 DEF byDay, D

-----------------------------------------------------------------------------
\* The work days tile the journal, for days of any length and any cutoff: what
\* ReadBreadcrumbsForDay and windowSessions give retro for one window after
\* another leaves nothing out and repeats nothing, and `stats` counts by day
\* what each day's retro lists.
THEOREM DaysAlwaysTile == Spec => []DaysTile
<1>1. VInv => DaysTile
  <2>1. SUFFICES ASSUME VInv, NEW cutoff \in Cutoffs, NEW day \in Days,
                        NEW window \in {{}, {[n |-> 1, unit |-> "d"]}}
                 PROVE  LET first == ResolveWindowStart(day, window)
                            doc == Retro(first, day, cutoff)
                            due(stamp) == IF DayOf(stamp, cutoff) \in first..day THEN 1 ELSE 0
                            byDay == Stats({}, cutoff).byDay
                            rows == [p \in DOMAIN doc.groups |-> doc.groups[p].sessions]
                            crumbs == [p \in DOMAIN doc.groups |-> doc.groups[p].breadcrumbs]
                            listed == UNION {ToSet(rows[p]) : p \in DOMAIN rows}
                        IN /\ \A k \in DOMAIN sessions :
                                InLists(sessions[k], rows) = due(sessions[k].started)
                           /\ \A c \in Survivors :
                                InLists(c, crumbs) + Count(doc.global, c) = due(c.at)
                           /\ first = day => IF day \in DOMAIN byDay
                                             THEN byDay[day] = Cardinality(listed)
                                             ELSE listed = {}
    BY Zenon DEF DaysTile
  <2> DEFINE first == ResolveWindowStart(day, window)
             doc == Retro(first, day, cutoff)
             due(stamp) == IF DayOf(stamp, cutoff) \in first..day THEN 1 ELSE 0
             byDay == Stats({}, cutoff).byDay
             rows == [p \in DOMAIN doc.groups |-> doc.groups[p].sessions]
             crumbs == [p \in DOMAIN doc.groups |-> doc.groups[p].breadcrumbs]
             listed == UNION {ToSet(rows[p]) : p \in DOMAIN rows}
             W == InWindow(first, day, cutoff)
             C == NotedInWindow(first, day, cutoff)
  <2>2. day \in Int
    BY DEF Days
  <2>3. first \in Int /\ first <= day
    <3>1. CASE window = {}
      BY <2>2, <3>1 DEF ResolveWindowStart
    <3>2. CASE window = {[n |-> 1, unit |-> "d"]}
      <4>1. {AddDays(day, -ParseDuration(w.n, w.unit)) : w \in window} = {day - 1}
        BY <2>2, <3>2 DEF AddDays, ParseDuration
      <4>2. window # {}
        BY <3>2
      <4>3. first = CHOOSE d \in {day - 1} : TRUE
        BY <4>1, <4>2 DEF ResolveWindowStart
      <4>4. first = day - 1
        BY <4>3
      <4>5. QED BY <2>2, <4>4
    <3>3. QED BY <3>1, <3>2
  <2> HIDE DEF first
  <2>4. RetroHolds(doc, W, C)
    BY <2>1, <2>2, <2>3, RetroIs
  <2> HIDE DEF doc
  <2>5. /\ DOMAIN doc.groups = {s.project : s \in W} \cup ({c.slug : c \in C} \ {NoProject})
        /\ \A p \in DOMAIN doc.groups :
             /\ Listing(doc.groups[p].sessions, Row, {s \in W : s.project = p})
             /\ Listing(doc.groups[p].breadcrumbs, Line, {c \in C : c.slug \in {p} \ {NoProject}})
        /\ Listing(doc.global, Line, {c \in C : c.slug \in {NoProject}})
    BY <2>4, Zenon DEF RetroHolds
  <2>6. \A s : s \in W <=> s \in ToSet(sessions) /\ DayOf(s.started, cutoff) \in first..day
    BY DEF InWindow
  <2>7. \A c : c \in C <=> c \in Survivors /\ DayOf(c.at, cutoff) \in first..day
    BY DEF NotedInWindow
  <2>8. /\ DOMAIN rows = DOMAIN doc.groups /\ DOMAIN crumbs = DOMAIN doc.groups
        /\ \A p \in DOMAIN doc.groups :
             rows[p] = doc.groups[p].sessions /\ crumbs[p] = doc.groups[p].breadcrumbs
    OBVIOUS
  <2> HIDE DEF W, C, rows, crumbs, byDay
  <2>9. ASSUME NEW k \in DOMAIN sessions
        PROVE  InLists(sessions[k], rows) = due(sessions[k].started)
    <3> DEFINE s == sessions[k]
               H == {p \in DOMAIN rows : s \in W /\ s.project = p}
    <3>1. s \in ToSet(sessions)
      BY Zenon DEF ToSet
    <3>2. H = IF s \in W THEN {s.project} ELSE {}
      BY <2>5, <2>8
    <3>3. ASSUME NEW p \in DOMAIN rows PROVE Count(rows[p], s) = IF p \in H THEN 1 ELSE 0
      <4>1. Listing(rows[p], Row, {x \in W : x.project = p})
        BY <2>5, <2>8
      <4>2. Count(rows[p], s) = IF s \in {x \in W : x.project = p} THEN 1 ELSE 0
        BY <4>1, ListingIs
      <4>3. QED BY <4>2
    <3>4. H \in SUBSET (DOMAIN rows)
      OBVIOUS
    <3> HIDE DEF H, s
    <3>5. IsFiniteSet(H) /\ Cardinality(H) = IF s \in W THEN 1 ELSE 0
      BY <3>2, FS_EmptySet, FS_Singleton
    <3>6. InLists(s, rows) = Cardinality(H)
      BY <3>3, <3>4, <3>5, InListsIs
    <3>7. s \in W <=> DayOf(s.started, cutoff) \in first..day
      BY <2>6, <3>1
    <3>8. InLists(s, rows) = due(s.started)
      BY <3>5, <3>6, <3>7
    <3>9. QED BY <3>8 DEF s
  <2>10. ASSUME NEW c \in Survivors
         PROVE  InLists(c, crumbs) + Count(doc.global, c) = due(c.at)
    <3> DEFINE H == {p \in DOMAIN crumbs : c \in C /\ c.slug = p /\ p # NoProject}
    <3>1. H = IF c \in C /\ c.slug # NoProject THEN {c.slug} ELSE {}
      BY <2>5, <2>8
    <3>2. ASSUME NEW p \in DOMAIN crumbs PROVE Count(crumbs[p], c) = IF p \in H THEN 1 ELSE 0
      <4>1. Listing(crumbs[p], Line, {x \in C : x.slug \in {p} \ {NoProject}})
        BY <2>5, <2>8
      <4>2. Count(crumbs[p], c) = IF c \in {x \in C : x.slug \in {p} \ {NoProject}} THEN 1 ELSE 0
        BY <4>1, ListingIs
      <4>3. QED BY <4>2
    <3>3. H \in SUBSET (DOMAIN crumbs)
      OBVIOUS
    <3> HIDE DEF H
    <3>4. IsFiniteSet(H) /\ Cardinality(H) = IF c \in C /\ c.slug # NoProject THEN 1 ELSE 0
      BY <3>1, FS_EmptySet, FS_Singleton
    <3>5. InLists(c, crumbs) = Cardinality(H)
      BY <3>2, <3>3, <3>4, InListsIs
    <3>6. Count(doc.global, c) = IF c \in {x \in C : x.slug \in {NoProject}} THEN 1 ELSE 0
      BY <2>5, ListingIs
    <3>7. c \in C <=> DayOf(c.at, cutoff) \in first..day
      BY <2>7
    <3>8. QED BY <3>4, <3>5, <3>6, <3>7
  <2>11. ASSUME first = day
         PROVE  IF day \in DOMAIN byDay THEN byDay[day] = Cardinality(listed) ELSE listed = {}
    <3> DEFINE D == {s \in ToSet(sessions) : DayOf(s.started, cutoff) = day}
    <3>1. /\ day \in DOMAIN byDay <=> D # {}
          /\ day \in DOMAIN byDay => byDay[day] = Cardinality(D)
      BY <2>1, StatsCounts, Zenon DEF byDay
    <3>2. \A d : d \in first..day <=> d = day
      BY <2>2, <2>11
    <3>3. W = D
      BY <2>6, <3>2
    <3>4. listed = W
      <4>1. \A p \in DOMAIN rows : ToSet(rows[p]) = {s \in W : s.project = p}
        BY <2>5, <2>8 DEF Listing
      <4>2. \A s \in W : s.project \in DOMAIN rows
        BY <2>5, <2>8
      <4>3. QED BY <4>1, <4>2
    <3> HIDE DEF D, listed
    <3>5. QED BY <3>1, <3>3, <3>4
  <2>12. QED BY <2>9, <2>10, <2>11, Zenon DEF first, doc, rows, crumbs, byDay
<1>2. QED BY <1>1, SpecVInv, PTL

-----------------------------------------------------------------------------
(* wake. *)

\* The projects of listed rows are finitely many.
LEMMA ProjectsFinite ==
  ASSUME NEW w, NEW W, Listing(w, Row, W)
  PROVE  IsFiniteSet({s.project : s \in W})
<1> DEFINE P == {s.project : s \in W}
           f == [s \in W |-> s.project]
<1>1. IsFiniteSet(W)
  BY ListingIs
<1>2. f \in [W -> P] /\ \A p \in P : \E s \in W : f[s] = p
  OBVIOUS
<1> HIDE DEF f, P
<1>3. f \in Surjection(W, P)
  BY <1>2, Zenon DEF Surjection
<1>4. IsFiniteSet(P)
  BY <1>1, <1>3, FS_Surjection
<1>5. QED BY <1>4 DEF P

\* One project's rows, oldest first.
GroupOf(items, p) == OldestFirst(OfProject(items, p))
LatestOf(items, p) == Last(GroupOf(items, p)).started.at

LEMMA GroupIs ==
  ASSUME NEW items, NEW W, Listing(items, Row, W), NEW p
  PROVE  /\ Listing(GroupOf(items, p), Row, {s \in W : s.project = p})
         /\ Ascending(GroupOf(items, p), Started)
         /\ p \in {s.project : s \in W} =>
              /\ LatestOf(items, p) \in Int
              /\ Max({s.started.at : s \in {r \in W : r.project = p}}) = LatestOf(items, p)
<1> DEFINE K == {s \in W : s.project = p}
           g == GroupOf(items, p)
           n == Len(g)
           S == {s.started.at : s \in K}
<1>1. Listing(g, Row, K) /\ Ascending(g, Started)
  BY OfProjectListed, OldestListed DEF GroupOf
<1> HIDE DEF g
<1>2. g \in Seq(Row) /\ ToSet(g) = K
  BY <1>1 DEF Listing
<1>3. DOMAIN g = 1..n /\ n \in Nat /\ \A i \in 1..n : g[i] \in Row /\ g[i] \in K
  BY <1>2 DEF ToSet
<1>4. ASSUME p \in {s.project : s \in W}
      PROVE  LatestOf(items, p) \in Int /\ Max(S) = LatestOf(items, p)
  <2> DEFINE m == g[n].started.at
  <2>1. PICK s \in K : TRUE
    BY <1>4
  <2>2. PICK i \in 1..n : g[i] = s
    BY <1>2, <1>3 DEF ToSet
  <2>3. n \in 1..n
    BY <1>3, <2>2
  <2>4. m \in Int /\ m \in S
    BY <1>3, <2>3, StartedInt
  <2>5. ASSUME NEW x \in S PROVE x \in Int /\ m >= x
    <3>1. PICK r \in K : x = r.started.at
      BY <2>5
    <3>2. PICK j \in 1..n : g[j] = r
      BY <1>2, <1>3 DEF ToSet
    <3>3. j < n => Started[g[j]] <= Started[g[n]]
      BY <1>1, <2>3, <3>2, Zenon DEF Ascending
    <3>4. Started[g[j]] = x /\ Started[g[n]] = m /\ x \in Int
      BY <1>3, <2>3, <3>1, <3>2, StartedInt
    <3>5. j = n \/ j < n
      <4>1. n \in Nat
        BY <1>3
      <4> HIDE DEF n
      <4>2. QED BY <4>1
    <3>6. QED BY <2>4, <3>3, <3>4, <3>5
  <2>6. m = LatestOf(items, p)
    BY DEF LatestOf, Last, g
  <2> HIDE DEF m, S
  <2>7. Max(S) = m
    <3>1. m \in S /\ \A y \in S : m >= y
      BY <2>4, <2>5
    <3>2. Max(S) \in S /\ \A y \in S : Max(S) >= y
      BY <3>1, Zenon DEF Max
    <3>3. Max(S) >= m /\ m >= Max(S) /\ Max(S) \in Int
      BY <2>5, <3>1, <3>2
    <3>4. QED BY <2>4, <3>3
  <2>8. QED BY <2>4, <2>6, <2>7
<1>5. QED BY <1>1, <1>4 DEF g

\* Its sessions one by one, a project's together, the last worked on first.
InProjectOrder(rows, latest) ==
  \A i, j \in DOMAIN rows :
    i < j => IF rows[i].project = rows[j].project
             THEN /\ rows[i].started.at <= rows[j].started.at
                  /\ \A h \in i..j : rows[h].project = rows[i].project
             ELSE latest[rows[i].project] >= latest[rows[j].project]

LEMMA GroupedIs ==
  ASSUME NEW items, NEW W, Listing(items, Row, W)
  PROVE  /\ Listing(GroupByProject(items), Row, W)
         /\ InProjectOrder(GroupByProject(items),
              [p \in {s.project : s \in W} |-> LatestOf(items, p)])
<1> DEFINE P == {s.project : s \in W}
           latest == [p \in P |-> LatestOf(items, p)]
           key == [p \in P |-> -LatestOf(items, p)]
           slugs == SetToSeq(P)
           rank == [i \in DOMAIN slugs |-> -LatestOf(items, slugs[i])]
           o == Sorted(slugs, rank)
           k == Len(o)
           ss == [i \in DOMAIN o |-> GroupOf(items, o[i])]
           Ks == [i \in DOMAIN o |-> {s \in W : s.project = o[i]}]
           rows == FlattenSeq(ss)
<1>1. IsFiniteSet(P)
  BY ProjectsFinite
<1>2. ToSet(items) = W /\ W \in SUBSET Row
  BY ListingIs
<1>3. GroupByProject(items) = rows
  BY <1>2, Zenon DEF GroupByProject, GroupOf, LatestOf
<1>4. \A p \in P : LatestOf(items, p) \in Int
  BY GroupIs
<1>5. \A s \in W : s.project \in P
  OBVIOUS
<1> HIDE DEF P
<1>6. Listing(slugs, P, P)
  BY <1>1, SetToSeqIs, CountOnce, Zenon DEF Listing
<1> HIDE DEF slugs
<1>7. /\ key \in [P -> Int] /\ latest \in [P -> Int]
      /\ \A p \in P : key[p] = -latest[p]
  BY <1>4
<1>8. rank = [i \in DOMAIN slugs |-> key[slugs[i]]]
  <2>1. \A i \in DOMAIN slugs : slugs[i] \in P
    BY <1>6 DEF Listing
  <2>2. QED BY <2>1
<1> HIDE DEF key, latest, rank
<1>9. Listing(o, P, P) /\ Ascending(o, key)
  BY <1>6, <1>7, <1>8, ListingSorted
<1> HIDE DEF o
<1>10. /\ o \in Seq(P) /\ IsInjective(o) /\ ToSet(o) = P
  BY <1>9, ListingIs
<1>11. DOMAIN o = 1..k /\ k \in Nat /\ \A g \in 1..k : o[g] \in P
  BY <1>10
<1>12. \A p \in P : \E g \in 1..k : o[g] = p
  BY <1>10, <1>11 DEF ToSet
<1>13. \A g, h \in 1..k : g # h => o[g] # o[h]
  BY <1>10, <1>11 DEF IsInjective
<1>14. ASSUME NEW g \in 1..k PROVE Listing(ss[g], Row, Ks[g]) /\ Ascending(ss[g], Started)
  <2>1. ss[g] = GroupOf(items, o[g]) /\ Ks[g] = {s \in W : s.project = o[g]}
    BY <1>11
  <2>2. /\ Listing(GroupOf(items, o[g]), Row, {s \in W : s.project = o[g]})
        /\ Ascending(GroupOf(items, o[g]), Started)
    <3> DEFINE p == o[g]
    <3> HIDE DEF p
    <3>1. Listing(GroupOf(items, p), Row, {s \in W : s.project = p})
      <4> DEFINE K == {s \in W : s.project = p}
      <4>1. Listing(OfProject(items, p), Row, K)
        BY OfProjectListed
      <4> HIDE DEF K
      <4>2. Listing(OldestFirst(OfProject(items, p)), Row, K)
        BY <4>1, OldestListed
      <4>3. QED BY <4>2 DEF GroupOf, K
    <3>2. Ascending(GroupOf(items, p), Started)
      BY GroupIs
    <3>3. QED BY <3>1, <3>2 DEF p
  <2>3. QED BY <2>1, <2>2
<1>15. \A g \in 1..k : \A s : s \in Ks[g] <=> s \in W /\ s.project = o[g]
  BY <1>11
<1>16. ss \in Seq(Seq(Row)) /\ Len(ss) = k
  <2>1. \A g \in 1..k : ss[g] \in Seq(Row)
    BY <1>14 DEF Listing
  <2>2. ss = [g \in 1..k |-> ss[g]]
    BY <1>11
  <2> DEFINE S == Seq(Row)
  <2> HIDE DEF ss, k, S
  <2>3. ss \in [1..k -> S]
    BY <2>1, <2>2 DEF S
  <2>4. ss \in Seq(S) /\ Len(ss) = k
    BY <1>11, <2>3
  <2>5. QED BY <2>4 DEF S
<1> HIDE DEF ss, Ks, k
<1>17. Listing(FlattenSeq(ss), Row, W)
  <2>1. \A g \in 1..k : Listing(ss[g], Row, Ks[g])
    BY <1>14
  <2>2. \A g, h \in 1..k : g # h => Ks[g] \cap Ks[h] = {}
    BY <1>13, <1>15
  <2>3. k \in Nat
    BY <1>11
  <2>4. ASSUME NEW s PROVE s \in W <=> \E g \in 1..k : s \in Ks[g]
    <3>1. ASSUME NEW g \in 1..k, s \in Ks[g] PROVE s \in W
      BY <1>15, <3>1
    <3>2. ASSUME s \in W PROVE \E g \in 1..k : s \in Ks[g]
      <4>1. s.project \in P
        BY <1>5, <3>2
      <4>2. PICK g \in 1..k : o[g] = s.project
        BY <1>12, <4>1
      <4>3. s \in Ks[g]
        BY <1>15, <3>2, <4>2
      <4>4. QED BY <4>3
    <3>3. QED BY <3>1, <3>2
  <2>5. \A s : s \in W <=> \E g \in 1..k : s \in Ks[g]
    BY <2>4
  <2>6. QED BY ONLY <1>16, <2>1, <2>2, <2>3, <2>5, ListingFlatten
<1>18. rows \in Seq(Row) /\ \E a, b : Strings(a, b, rows, ss, k)
  BY ONLY <1>16, FlattenStrings
<1> HIDE DEF rows
<1>19. PICK a, b : Strings(a, b, rows, ss, k)
  BY <1>18
<1> DEFINE L == Len(rows)
<1>20. DOMAIN rows = 1..L /\ L \in Nat
  BY <1>18
<1>21. /\ \A n \in 1..L : a[n] \in 1..k /\ b[n] \in 1..Len(ss[a[n]]) /\ rows[n] = ss[a[n]][b[n]]
       /\ \A m, n \in 1..L : m < n => a[m] < a[n] \/ (a[m] = a[n] /\ b[m] < b[n])
  BY <1>19, Zenon DEF Strings
<1> HIDE DEF L
<1>22. ASSUME NEW n \in 1..L PROVE rows[n] \in Row /\ rows[n].project = o[a[n]]
  <2>1. ToSet(ss[a[n]]) = Ks[a[n]] /\ ss[a[n]] \in Seq(Row)
    BY <1>14, <1>21 DEF Listing
  <2>2. b[n] \in DOMAIN ss[a[n]]
    BY <1>21, <2>1
  <2>3. rows[n] \in Ks[a[n]]
    BY <1>21, <2>1, <2>2, Zenon DEF ToSet
  <2>4. QED BY <1>2, <1>15, <1>21, <2>3
<1>23. ASSUME NEW g \in 1..k, NEW h \in 1..k, g <= h PROVE latest[o[g]] >= latest[o[h]]
  <2>1. g = h \/ g < h
    BY <1>23
  <2>2. g < h => key[o[g]] <= key[o[h]]
    BY <1>9, Zenon DEF Ascending, k
  <2>3. o[g] \in P /\ o[h] \in P
    BY <1>11
  <2>4. latest[o[g]] \in Int /\ latest[o[h]] \in Int /\ key[o[g]] = -latest[o[g]]
        /\ key[o[h]] = -latest[o[h]]
    BY <1>7, <2>3
  <2>5. QED BY <2>1, <2>2, <2>4
<1>24. ASSUME NEW i \in 1..L, NEW j \in 1..L, i < j
       PROVE  IF rows[i].project = rows[j].project
              THEN /\ rows[i].started.at <= rows[j].started.at
                   /\ \A h \in i..j : rows[h].project = rows[i].project
              ELSE latest[rows[i].project] >= latest[rows[j].project]
  <2>0. \A m, n \in 1..L : m < n => a[m] <= a[n]
    <3>1. SUFFICES ASSUME NEW m \in 1..L, NEW n \in 1..L, m < n PROVE a[m] <= a[n]
      OBVIOUS
    <3>2. a[m] \in 1..k /\ a[n] \in 1..k
      BY <1>21
    <3>3. a[m] < a[n] \/ a[m] = a[n]
      BY <1>21, <3>1
    <3> HIDE DEF k
    <3>4. QED BY ONLY <3>2, <3>3
  <2>1. a[i] \in 1..k /\ a[j] \in 1..k /\ a[i] <= a[j]
    BY <1>21, <1>24, <2>0
  <2>2. CASE a[i] = a[j]
    <3>1. rows[i].project = rows[j].project
      BY <1>22, <2>2
    <3>2. b[i] < b[j] /\ b[i] \in 1..Len(ss[a[i]]) /\ b[j] \in 1..Len(ss[a[i]])
      BY <1>21, <1>24, <2>1, <2>2
    <3>3. Started[ss[a[i]][b[i]]] <= Started[ss[a[i]][b[j]]]
      BY <1>14, <2>1, <3>2, Zenon DEF Ascending
    <3>4. Started[rows[i]] <= Started[rows[j]]
      BY <1>21, <2>2, <3>3
    <3>5. rows[i].started.at <= rows[j].started.at
      BY <1>22, <3>4, StartedInt
    <3>6. ASSUME NEW h \in i..j PROVE rows[h].project = rows[i].project
      <4>1. h \in 1..L
        BY <1>20
      <4>2. a[h] \in 1..k
        BY <1>21, <4>1
      <4>3. h = i \/ i < h
        OBVIOUS
      <4>4. h = j \/ h < j
        OBVIOUS
      <4>5. (h = i \/ a[i] <= a[h]) /\ (h = j \/ a[h] <= a[j])
        BY <2>0, <4>1, <4>3, <4>4, Zenon
      <4>6. a[h] = a[i]
        BY <2>1, <2>2, <4>2, <4>5
      <4>7. QED BY <1>22, <4>1, <4>6
    <3>7. QED BY <3>1, <3>5, <3>6
  <2>3. CASE a[i] # a[j]
    <3>1. rows[i].project # rows[j].project
      BY <1>13, <1>22, <2>1, <2>3
    <3>2. latest[o[a[i]]] >= latest[o[a[j]]]
      BY <1>23, <2>1
    <3>3. QED BY <1>22, <3>1, <3>2
  <2>4. QED BY <2>2, <2>3
<1>25. InProjectOrder(rows, latest)
  BY <1>20, <1>24 DEF InProjectOrder
<1>26. QED BY <1>3, <1>17, <1>25 DEF latest, P, rows

LEMMA WakeIs ==
  ASSUME VInv, NEW since, NEW cutoff
  PROVE  \E items :
           LET W == {s \in ToSet(sessions) :
                      (\A d \in since : DayOf(s.started, cutoff) >= d) /\ InWorkingSet(s)}
           IN Listing(items, Row, W) /\ Wake(since, cutoff) = GroupByProject(items)
<1> DEFINE f == [NoFilter EXCEPT !.since = since]
           w == Apply(Walk, f, cutoff)
           K == {s \in ToSet(sessions) : Match(s, f, cutoff)}
           W == {s \in ToSet(sessions) :
                  (\A d \in since : DayOf(s.started, cutoff) >= d) /\ InWorkingSet(s)}
           I == {i \in DOMAIN w : InWorkingSet(w[i])}
<1>1. Listing(w, Row, K)
  BY WalkListed, ApplyListed
<1>2. \A s : Match(s, f, cutoff) <=> \A d \in since : DayOf(s.started, cutoff) >= d
  BY SinceMatches
<1>3. Wake(since, cutoff) = GroupByProject(Picked(w, I))
  BY DEF Wake
<1> HIDE DEF f, w
<1>4. W = {s \in K : InWorkingSet(s)}
  BY <1>2
<1>5. W \in SUBSET K /\ I \in SUBSET (DOMAIN w)
  BY <1>4
<1>6. \A i \in DOMAIN w : w[i] \in K => (i \in I <=> w[i] \in W)
  BY <1>4
<1> HIDE DEF W, I, K
<1>7. Listing(Picked(w, I), Row, W)
  BY <1>1, <1>5, <1>6, ListingThose
<1>8. QED BY <1>3, <1>7 DEF W

\* wake lists every session left to curate of its window once, a project's
\* together and oldest first, the project of the latest session before the
\* others (inWorkingSet and groupByProject).
THEOREM WakeAlwaysInOrder == Spec => []WakeInOrder
<1>1. VInv => WakeInOrder
  <2>1. SUFFICES ASSUME VInv, NEW cutoff \in Cutoffs, NEW reader \in Machines, NEW window \in Windows
                 PROVE  LET since == ResolveSince(window, reader, cutoff)
                            rows == Wake(since, cutoff)
                            at(i) == rows[i].started.at
                            latest(p) == Max({at(i) : i \in {j \in DOMAIN rows : rows[j].project = p}})
                        IN /\ ToSet(rows) = {s \in ToSet(Sessions([NoFilter EXCEPT !.since = since], cutoff)) :
                                               s.state # "dismissed" /\ (s.state = "curated" => s.stale)}
                           /\ IsInjective(rows)
                           /\ \A i, j \in DOMAIN rows :
                                i < j => IF rows[i].project = rows[j].project
                                         THEN at(i) <= at(j) /\ \A h \in i..j : rows[h].project = rows[i].project
                                         ELSE latest(rows[i].project) >= latest(rows[j].project)
    BY Zenon DEF WakeInOrder
  <2> DEFINE since == ResolveSince(window, reader, cutoff)
             rows == Wake(since, cutoff)
             f == [NoFilter EXCEPT !.since = since]
             W == {s \in ToSet(sessions) :
                    (\A d \in since : DayOf(s.started, cutoff) >= d) /\ InWorkingSet(s)}
             P == {s.project : s \in W}
             at(i) == rows[i].started.at
             latest(p) == Max({at(i) : i \in {j \in DOMAIN rows : rows[j].project = p}})
  <2> HIDE DEF since
  <2>2. PICK items : Listing(items, Row, W) /\ rows = GroupByProject(items)
    BY <2>1, WakeIs
  <2> HIDE DEF rows, W, P
  <2>3. Listing(rows, Row, W)
        /\ InProjectOrder(rows, [p \in P |-> LatestOf(items, p)])
    BY <2>2, GroupedIs DEF P
  <2>4. rows \in Seq(Row) /\ IsInjective(rows) /\ ToSet(rows) = W
    BY <2>3, ListingIs
  <2>5. ToSet(Sessions(f, cutoff)) = {s \in ToSet(sessions) : Match(s, f, cutoff)}
    <3>1. Listing(Apply(Walk, f, cutoff), Row, {s \in ToSet(sessions) : Match(s, f, cutoff)})
      BY <2>1, WalkListed, ApplyListed
    <3>2. QED BY <3>1, NewestListed DEF Sessions, Listing
  <2>6. ToSet(rows) = {s \in ToSet(Sessions(f, cutoff)) :
                         s.state # "dismissed" /\ (s.state = "curated" => s.stale)}
    <3>1. \A s : Match(s, f, cutoff) <=> \A d \in since : DayOf(s.started, cutoff) >= d
      BY SinceMatches
    <3>2. \A s \in ToSet(sessions) :
            InWorkingSet(s) <=> s.state # "dismissed" /\ (s.state = "curated" => s.stale)
      <4>1. \A s \in ToSet(sessions) : s.state \in {"captured", "curated", "dismissed"}
        BY <2>1, RowDay DEF Row
      <4>2. QED BY <4>1 DEF InWorkingSet, Stale
    <3>3. \A s : s \in W <=> s \in ToSet(sessions) /\ InWorkingSet(s)
                             /\ \A d \in since : DayOf(s.started, cutoff) >= d
      BY DEF W
    <3> HIDE DEF f
    <3>4. QED BY <2>4, <2>5, <3>1, <3>2, <3>3
  <2>7. ASSUME NEW p \in P PROVE latest(p) = LatestOf(items, p)
    <3>1. {at(i) : i \in {j \in DOMAIN rows : rows[j].project = p}}
            = {s.started.at : s \in {r \in W : r.project = p}}
      <4>1. \A i \in DOMAIN rows : rows[i] \in W
        BY <2>4, Zenon DEF ToSet
      <4>2. \A s \in W : \E i \in DOMAIN rows : rows[i] = s
        BY <2>4, Zenon DEF ToSet
      <4>3. QED BY <4>1, <4>2
    <3>2. Max({s.started.at : s \in {r \in W : r.project = p}}) = LatestOf(items, p)
      BY <2>2, GroupIs DEF P
    <3>3. QED BY <3>1, <3>2
  <2>8. \A i \in DOMAIN rows : rows[i].project \in P
    <3>1. \A i \in DOMAIN rows : rows[i] \in W
      BY <2>4, Zenon DEF ToSet
    <3>2. QED BY <3>1 DEF P
  <2> HIDE DEF latest
  <2>9. ASSUME NEW i \in DOMAIN rows, NEW j \in DOMAIN rows, i < j
        PROVE  IF rows[i].project = rows[j].project
               THEN at(i) <= at(j) /\ \A h \in i..j : rows[h].project = rows[i].project
               ELSE latest(rows[i].project) >= latest(rows[j].project)
    <3>1. IF rows[i].project = rows[j].project
          THEN /\ rows[i].started.at <= rows[j].started.at
               /\ \A h \in i..j : rows[h].project = rows[i].project
          ELSE LatestOf(items, rows[i].project) >= LatestOf(items, rows[j].project)
      BY <2>3, <2>8, <2>9 DEF InProjectOrder
    <3>2. QED BY <2>7, <2>8, <3>1
  <2>10. QED BY <2>4, <2>6, <2>9, Zenon DEF latest, rows, since
<1>2. QED BY <1>1, SpecVInv, PTL

-----------------------------------------------------------------------------
(* brief: the workspaces in the order of their first entries. *)

USE CapsAssumption

SeenWith(q, label) == IF label \in ToSet(q) THEN q ELSE Append(q, label)

LEMMA SeenWithIs ==
  ASSUME NEW q \in Seq(Labels), NEW label \in Labels
  PROVE  /\ SeenWith(q, label) \in Seq(Labels)
         /\ ToSet(SeenWith(q, label)) = ToSet(q) \cup {label}
         /\ IsInjective(q) => IsInjective(SeenWith(q, label))
<1> DEFINE w == Append(q, label)
           n == Len(q)
<1>1. w \in Seq(Labels) /\ ToSet(w) = ToSet(q) \cup {label}
  BY Appending
<1>2. /\ n \in Nat /\ DOMAIN q = 1..n /\ DOMAIN w = 1..(n + 1)
      /\ w[n + 1] = label /\ \A i \in 1..n : w[i] = q[i]
  OBVIOUS
<1> HIDE DEF w, n
<1>3. ASSUME label \notin ToSet(q), IsInjective(q) PROVE IsInjective(w)
  <2>1. \A i \in 1..n : q[i] # label
    BY <1>2, <1>3 DEF ToSet
  <2>2. \A i \in 1..(n + 1) : i \in 1..n \/ i = n + 1
    BY <1>2
  <2>3. \A i, j \in 1..n : q[i] = q[j] => i = j
    BY <1>2, <1>3, Zenon DEF IsInjective
  <2>4. \A i, j \in 1..(n + 1) : w[i] = w[j] => i = j
    BY <1>2, <2>1, <2>2, <2>3
  <2>5. QED BY <1>2, <2>4, Zenon DEF IsInjective
<1>4. CASE label \in ToSet(q)
  BY <1>4 DEF SeenWith
<1>5. CASE label \notin ToSet(q)
  BY <1>1, <1>3, <1>5 DEF SeenWith, w
<1>6. QED BY <1>4, <1>5

LEMMA FirstAppearancesIs ==
  ASSUME NEW rows, rows \in Seq(Row)
  PROVE  Listing(FirstAppearances(rows), Labels, {s.label : s \in ToSet(rows)})
<1> DEFINE n == Len(rows)
           S == Seq(Labels)
           G == [m \in 1..n |-> [q \in S |-> SeenWith(q, rows[m].label)]]
           Seen(f) == f = [m \in 0..n |->
                        IF m = 0 THEN <<>>
                        ELSE IF rows[m].label \in ToSet(f[m - 1]) THEN f[m - 1]
                        ELSE Append(f[m - 1], rows[m].label)]
           f0 == CHOOSE f : Seen(f)
<1>1. n \in Nat /\ <<>> \in S /\ \A m \in 1..n : rows[m] \in Row /\ rows[m].label \in Labels
  <2>1. \A m \in 1..n : rows[m] \in Row
    OBVIOUS
  <2>2. QED BY <2>1 DEF Row
<1>0. n \in Nat /\ <<>> \in S /\ DOMAIN rows = 1..n
  OBVIOUS
<1> HIDE DEF S, n
<1>2. G \in [1..n -> [S -> S]]
  BY <1>1, SeenWithIs DEF S
<1>3. PICK f \in [0..n -> S] : f[0] = <<>> /\ \A m \in 1..n : f[m] = G[m][f[m - 1]]
  <2> HIDE DEF G, Seen, f0
  <2>1. n \in Nat
    BY <1>0
  <2>2. <<>> \in S
    BY <1>0
  <2> DEFINE base == <<>>
  <2>3. base \in S
    BY <2>2
  <2> HIDE DEF base
  <2>4. \E f \in [0..n -> S] : f[0] = base /\ \A m \in 1..n : f[m] = G[m][f[m - 1]]
    BY ONLY <2>1, <2>3, <1>2, Folding
  <2>5. QED BY <2>4 DEF base
<1>4. \A m \in 0..n : m # 0 => m \in 1..n /\ m - 1 \in 0..n
  BY <1>1
<1>5. ASSUME NEW m \in 1..n
      PROVE  f[m] = IF rows[m].label \in ToSet(f[m - 1]) THEN f[m - 1]
                    ELSE Append(f[m - 1], rows[m].label)
  <2>1. m \in 0..n /\ m # 0 /\ m - 1 \in 0..n
    BY <1>1
  <2>2. f[m - 1] \in S /\ f[m] = G[m][f[m - 1]]
    BY <1>3, <2>1
  <2>3. G[m] = [q \in S |-> SeenWith(q, rows[m].label)]
    OBVIOUS
  <2> HIDE DEF G
  <2>4. QED BY <2>2, <2>3 DEF SeenWith
<1>6. Seen(f)
  BY <1>3, <1>4, <1>5
<1>7. Seen(f0)
  <2> HIDE DEF Seen
  <2>1. QED BY <1>6
<1>8. FirstAppearances(rows) = f0[n]
  BY Zenon DEF FirstAppearances, n
<1> HIDE DEF f0
<1>9. f0[0] = <<>> /\ \A m \in 1..n : f0[m] = SeenWith(f0[m - 1], rows[m].label)
  <2>1. 0 \in 0..n /\ \A m \in 1..n : m \in 0..n /\ m # 0
    BY <1>0
  <2>2. \A m \in 0..n : f0[m] = IF m = 0 THEN <<>>
                        ELSE IF rows[m].label \in ToSet(f0[m - 1]) THEN f0[m - 1]
                        ELSE Append(f0[m - 1], rows[m].label)
    BY <1>7
  <2>3. \A m \in 1..n : f0[m] = SeenWith(f0[m - 1], rows[m].label)
    BY <2>1, <2>2 DEF SeenWith
  <2>4. QED BY <2>1, <2>2, <2>3
<1> HIDE DEF Seen
<1> DEFINE Upto(k) == {rows[i].label : i \in 1..k}
           J == {k \in Nat : k <= n => /\ f0[k] \in Seq(Labels) /\ IsInjective(f0[k])
                                       /\ ToSet(f0[k]) = Upto(k)}
<1>10. 0 \in J
  <2>1. <<>> \in Seq(Labels) /\ IsInjective(<<>>) /\ ToSet(<<>>) = {}
    BY DEF IsInjective, ToSet
  <2>2. Upto(0) = {}
    OBVIOUS
  <2> HIDE DEF Upto
  <2>3. QED BY <1>9, <2>1, <2>2
<1>11. ASSUME NEW k \in J PROVE k + 1 \in J
  <2>1. k \in Nat /\ k + 1 \in Nat
    OBVIOUS
  <2>2. SUFFICES ASSUME k + 1 <= n
                 PROVE  /\ f0[k + 1] \in Seq(Labels) /\ IsInjective(f0[k + 1])
                        /\ ToSet(f0[k + 1]) = Upto(k + 1)
    BY <2>1
  <2>3. k <= n /\ k + 1 \in 1..n /\ (k + 1) - 1 = k
    BY <1>1, <2>1, <2>2
  <2>4. f0[k] \in Seq(Labels) /\ IsInjective(f0[k]) /\ ToSet(f0[k]) = Upto(k)
    BY <2>3
  <2>5. f0[k + 1] = SeenWith(f0[k], rows[k + 1].label)
    BY <1>9, <2>3
  <2>6. Upto(k + 1) = Upto(k) \cup {rows[k + 1].label}
    <3>1. \A i : i \in 1..(k + 1) <=> i \in 1..k \/ i = k + 1
      BY <2>1
    <3>2. QED BY <3>1, Zenon
  <2>7. rows[k + 1].label \in Labels
    BY <1>1, <2>3
  <2> HIDE DEF Upto
  <2> DEFINE q == f0[k]
             label == rows[k + 1].label
  <2>8. q \in Seq(Labels) /\ label \in Labels /\ IsInjective(q)
    BY <2>4, <2>7
  <2> HIDE DEF q, label
  <2>9. /\ SeenWith(q, label) \in Seq(Labels)
        /\ ToSet(SeenWith(q, label)) = ToSet(q) \cup {label}
        /\ IsInjective(SeenWith(q, label))
    BY <2>8, SeenWithIs
  <2>10. QED BY <2>4, <2>5, <2>6, <2>9 DEF q, label
<1>12. n \in J
  <2> HIDE DEF J
  <2>1. J \in SUBSET Nat
    BY DEF J
  <2>2. QED BY <1>0, <1>10, <1>11, <2>1, FromZero
<1>13. f0[n] \in Seq(Labels) /\ IsInjective(f0[n]) /\ ToSet(f0[n]) = Upto(n)
  BY <1>1, <1>12
<1>14. Upto(n) = {s.label : s \in ToSet(rows)}
  BY <1>0 DEF ToSet
<1> HIDE DEF Upto, J
<1>15. QED BY <1>8, <1>13, <1>14, CountOnce, Zenon DEF Listing

LEMMA FrontOf ==
  ASSUME NEW T, NEW a \in Seq(T), NEW b \in Seq(T)
  PROVE  \A i \in 1..Len(a) : (a \o b)[i] = a[i]
OBVIOUS

LEMMA HoistIs ==
  ASSUME NEW order, NEW K, Listing(order, Labels, K), NEW current
  PROVE  /\ Listing(Hoist(order, current), Labels, K)
         /\ current \in K => Hoist(order, current)[1] = current
<1>1. order \in Seq(Labels) /\ ToSet(order) = K /\ IsInjective(order) /\ K \in SUBSET Labels
  BY ListingIs
<1>2. CASE current \notin K
  BY <1>1, <1>2 DEF Hoist
<1>3. CASE current \in K
  <2> DEFINE w == Without(order, {current})
             I == {i \in 1..Len(order) : order[i] \notin {current}}
  <2>1. w \in Seq(Labels) /\ ToSet(w) = K \ {current}
    BY <1>1, WithoutElements
  <2>2. w \in Seq(Labels) /\ \E e : Embeds(e, w, order, I)
    BY <1>1, WithoutEmbeds
  <2> HIDE DEF w
  <2>3. PICK e : Embeds(e, w, order, I)
    BY <2>2
  <2>4. /\ e \in [1..Len(w) -> I]
        /\ \A i, j \in 1..Len(w) : i < j => e[i] < e[j]
        /\ \A i \in 1..Len(w) : w[i] = order[e[i]]
    BY <2>3, Zenon DEF Embeds
  <2>5. IsInjective(w)
    <3>1. SUFFICES ASSUME NEW i \in 1..Len(w), NEW j \in 1..Len(w), w[i] = w[j], i # j PROVE FALSE
      <4>1. DOMAIN w = 1..Len(w)
        BY <2>1
      <4>2. QED BY <3>1, <4>1 DEF IsInjective
    <3>2. e[i] \in 1..Len(order) /\ e[j] \in 1..Len(order)
      BY <2>4
    <3>3. e[i] < e[j] \/ e[j] < e[i]
      <4>1. i < j \/ j < i
        BY <2>1, <3>1
      <4>2. QED BY <2>4, <4>1
    <3>4. e[i] = e[j]
      <4>1. DOMAIN order = 1..Len(order)
        BY <1>1
      <4>2. order[e[i]] = order[e[j]]
        BY <2>4, <3>1
      <4>3. QED BY <1>1, <3>2, <4>1, <4>2, Zenon DEF IsInjective
    <3>5. QED BY <3>2, <3>3, <3>4
  <2>6. Listing(w, Labels, K \ {current})
    BY <2>1, <2>5, CountOnce, Zenon DEF Listing
  <2> DEFINE a == <<current>>
  <2>7. /\ a \in Seq(Labels) /\ Len(a) = 1 /\ a[1] = current /\ DOMAIN a = {1}
    BY <1>1, <1>3
  <2> HIDE DEF a
  <2>8. ToSet(a) = {current} /\ IsInjective(a)
    BY <2>7 DEF ToSet, IsInjective
  <2>9. Listing(a, Labels, {current})
    BY <2>7, <2>8, CountOnce, Zenon DEF Listing
  <2>10. Listing(a \o w, Labels, {current} \cup (K \ {current}))
    <3>1. {current} \cap (K \ {current}) = {}
      OBVIOUS
    <3>2. QED BY <2>6, <2>9, <3>1, ListingBoth
  <2>11. {current} \cup (K \ {current}) = K
    BY <1>3
  <2>12. (a \o w)[1] = current
    <3>1. a \in Seq(Labels) /\ w \in Seq(Labels) /\ Len(a) = 1
      BY <2>1, <2>7
    <3>2. \A i \in 1..Len(a) : (a \o w)[i] = a[i]
      BY <3>1, FrontOf
    <3>3. 1 \in 1..Len(a)
      BY <3>1
    <3>4. QED BY <2>7, <3>2, <3>3
  <2>13. Hoist(order, current) = a \o w
    BY <1>1, <1>3 DEF Hoist, a, w
  <2>14. QED BY <2>10, <2>11, <2>12, <2>13
<1>4. QED BY <1>2, <1>3

-----------------------------------------------------------------------------
(* brief: the caps are spent on the workspaces in their order. *)

Group == [workspace : Labels, entries : Seq(Row)]
Tally == [emitted : Nat, groups : Seq(Group)]
OfLabel(rows, key) == Picked(rows, {i \in DOMAIN rows : rows[i].label = key})

LEMMA OfLabelIs ==
  ASSUME NEW rows, NEW K, Listing(rows, Row, K), Ascending(rows, NotStarted), NEW key
  PROVE  /\ Listing(OfLabel(rows, key), Row, {s \in K : s.label = key})
         /\ Ascending(OfLabel(rows, key), NotStarted)
<1> DEFINE M == {s \in K : s.label = key}
           I == {i \in DOMAIN rows : rows[i].label = key}
<1>1. M \in SUBSET K /\ I \in SUBSET (DOMAIN rows)
  OBVIOUS
<1>2. \A i \in DOMAIN rows : rows[i] \in K => (i \in I <=> rows[i] \in M)
  OBVIOUS
<1>3. rows \in Seq(Row)
  BY DEF Listing
<1>4. I \in SUBSET (1..Len(rows))
  BY <1>3
<1> HIDE DEF M, I
<1>5. Listing(Picked(rows, I), Row, M)
  BY <1>1, <1>2, ListingThose
<1>6. NotStarted \in [Row -> Int]
  BY StartedInt
<1>7. Ascending(Picked(rows, I), NotStarted)
  BY <1>3, <1>4, <1>6, PickedAscending
<1>8. QED BY <1>5, <1>7 DEF OfLabel, M, I

LEMMA FirstFew ==
  ASSUME NEW T, NEW w \in Seq(T), NEW c \in Nat, c <= Len(w)
  PROVE  /\ SubSeq(w, 1, c) \in Seq(T) /\ Len(SubSeq(w, 1, c)) = c
         /\ \A i \in 1..c : SubSeq(w, 1, c)[i] = w[i] /\ i \in 1..Len(w)
OBVIOUS

\* What one workspace is given of the caps.
LEMMA EmitIs ==
  ASSUME NEW rows, rows \in Seq(Row), NEW d \in Tally, NEW key \in Labels
  PROVE  /\ Emit(d, rows, key) \in Tally
         /\ d.emitted >= TotalCap => Emit(d, rows, key) = d
         /\ d.emitted < TotalCap =>
              \E c \in Nat :
                /\ c <= Len(OfLabel(rows, key)) /\ c <= PerGroupCap /\ d.emitted + c <= TotalCap
                /\ c = PerGroupCap \/ c = Len(OfLabel(rows, key)) \/ d.emitted + c = TotalCap
                /\ Emit(d, rows, key)
                     = [emitted |-> d.emitted + c,
                        groups |-> Append(d.groups,
                          [workspace |-> key, entries |-> SubSeq(OfLabel(rows, key), 1, c)])]
<1> DEFINE group == OfLabel(rows, key)
           n == Len(group)
           room == Fewest(PerGroupCap, TotalCap - d.emitted)
           c == Fewest(room, n)
           shown == SubSeq(group, 1, c)
<1>1. group \in Seq(Row)
  <2> DEFINE I == {i \in DOMAIN rows : rows[i].label = key}
  <2>1. I \in SUBSET (1..Len(rows))
    OBVIOUS
  <2> HIDE DEF I
  <2>2. Picked(rows, I) \in Seq(Row)
    BY <2>1, PickedKeeps
  <2>3. QED BY <2>2 DEF OfLabel, I
<1>2. n \in Nat /\ d.emitted \in Nat /\ d.groups \in Seq(Group)
  BY <1>1 DEF Tally
<1>3. Emit(d, rows, key) = IF d.emitted >= TotalCap THEN d
                           ELSE [emitted |-> d.emitted + Len(shown),
                                 groups |-> Append(d.groups, [workspace |-> key, entries |-> shown])]
  BY Zenon DEF Emit, OfLabel
<1>4. CASE d.emitted >= TotalCap
  <2>1. ~(d.emitted < TotalCap)
    BY <1>2, <1>4
  <2>2. QED BY <1>3, <1>4, <2>1
<1>5. CASE d.emitted < TotalCap
  <2> HIDE DEF group, n
  <2>1. room \in Nat /\ room <= PerGroupCap /\ d.emitted + room <= TotalCap
        /\ (room = PerGroupCap \/ d.emitted + room = TotalCap)
    BY <1>2, <1>5 DEF Fewest
  <2> HIDE DEF room
  <2>2. /\ c \in Nat /\ c <= n /\ c <= PerGroupCap /\ d.emitted + c <= TotalCap
        /\ c = PerGroupCap \/ c = n \/ d.emitted + c = TotalCap
    BY <1>2, <2>1 DEF Fewest
  <2> HIDE DEF c
  <2>3. shown \in Seq(Row) /\ Len(shown) = c
    BY <1>1, <2>2, FirstFew DEF n
  <2> HIDE DEF shown
  <2>4. Emit(d, rows, key) = [emitted |-> d.emitted + c,
          groups |-> Append(d.groups, [workspace |-> key, entries |-> shown])]
    BY <1>2, <1>3, <1>5, <2>3
  <2>5. [workspace |-> key, entries |-> shown] \in Group
    BY <2>3 DEF Group
  <2>6. Append(d.groups, [workspace |-> key, entries |-> shown]) \in Seq(Group)
    BY <1>2, <2>5
  <2>7. d.emitted + c \in Nat
    BY <1>2, <2>2
  <2>8. Emit(d, rows, key) \in Tally
    BY <2>4, <2>6, <2>7 DEF Tally
  <2>9. ~(d.emitted >= TotalCap)
    BY <1>2, <1>5
  <2>10. /\ c \in Nat /\ c <= Len(OfLabel(rows, key)) /\ c <= PerGroupCap
         /\ d.emitted + c <= TotalCap
         /\ c = PerGroupCap \/ c = Len(OfLabel(rows, key)) \/ d.emitted + c = TotalCap
         /\ Emit(d, rows, key)
              = [emitted |-> d.emitted + c,
                 groups |-> Append(d.groups,
                   [workspace |-> key, entries |-> SubSeq(OfLabel(rows, key), 1, c)])]
    BY <2>2, <2>4, Zenon DEF shown, n, group
  <2>11. \E x \in Nat :
           /\ x <= Len(OfLabel(rows, key)) /\ x <= PerGroupCap /\ d.emitted + x <= TotalCap
           /\ x = PerGroupCap \/ x = Len(OfLabel(rows, key)) \/ d.emitted + x = TotalCap
           /\ Emit(d, rows, key)
                = [emitted |-> d.emitted + x,
                   groups |-> Append(d.groups,
                     [workspace |-> key, entries |-> SubSeq(OfLabel(rows, key), 1, x)])]
    BY ONLY <2>10, Zenon
  <2>12. d.emitted >= TotalCap => Emit(d, rows, key) = d
    BY <2>9
  <2>13. QED BY ONLY <1>5, <2>8, <2>11, <2>12
<1>6. d.emitted >= TotalCap \/ d.emitted < TotalCap
  BY <1>2
<1> HIDE DEF group, n, room, c, shown
<1>7. QED BY ONLY <1>4, <1>5, <1>6

LEMMA CappedGoes ==
  ASSUME NEW rows, rows \in Seq(Row), NEW order, order \in Seq(Labels)
  PROVE  \E f : /\ f[0] = [emitted |-> 0, groups |-> <<>>]
                /\ \A m \in 1..Len(order) : f[m] = Emit(f[m - 1], rows, order[m])
                /\ \A m \in 0..Len(order) : f[m] \in Tally
                /\ Capped(rows, order) = f[Len(order)].groups
<1> DEFINE n == Len(order)
           none == [emitted |-> 0, groups |-> <<>>]
           G == [m \in 1..n |-> [d \in Tally |-> Emit(d, rows, order[m])]]
           Done(f) == f = [m \in 0..n |-> IF m = 0 THEN none ELSE Emit(f[m - 1], rows, order[m])]
           f0 == CHOOSE f : Done(f)
<1>1. n \in Nat /\ \A m \in 1..n : order[m] \in Labels
  OBVIOUS
<1>2. none \in Tally
  BY DEF Tally
<1>3. Capped(rows, order) = f0[n].groups
  BY Zenon DEF Capped, n, none
<1> HIDE DEF n, none
<1>4. G \in [1..n -> [Tally -> Tally]]
  <2>1. \A m \in 1..n : \A d \in Tally : Emit(d, rows, order[m]) \in Tally
    BY <1>1, EmitIs
  <2>2. QED BY <2>1
<1>5. PICK f \in [0..n -> Tally] : f[0] = none /\ \A m \in 1..n : f[m] = G[m][f[m - 1]]
  <2> HIDE DEF G, Done, f0
  <2>1. n \in Nat
    BY <1>1
  <2>2. QED BY ONLY <2>1, <1>2, <1>4, Folding
<1>6. \A m \in 0..n : m # 0 => m \in 1..n /\ m - 1 \in 0..n
  BY <1>1
<1>7. ASSUME NEW m \in 1..n PROVE f[m] = Emit(f[m - 1], rows, order[m])
  <2>1. m - 1 \in 0..n
    BY <1>1
  <2>2. f[m - 1] \in Tally /\ f[m] = G[m][f[m - 1]]
    BY <1>5, <2>1
  <2>3. G[m] = [d \in Tally |-> Emit(d, rows, order[m])]
    OBVIOUS
  <2> HIDE DEF G
  <2>4. QED BY <2>2, <2>3
<1>8. Done(f)
  BY <1>5, <1>6, <1>7
<1>9. Done(f0)
  <2> HIDE DEF Done
  <2>1. QED BY <1>8
<1> HIDE DEF f0
<1>10. f0[0] = none /\ \A m \in 1..n : f0[m] = Emit(f0[m - 1], rows, order[m])
  <2>1. 0 \in 0..n /\ \A m \in 1..n : m \in 0..n /\ m # 0
    BY <1>1
  <2>2. \A m \in 0..n : f0[m] = IF m = 0 THEN none ELSE Emit(f0[m - 1], rows, order[m])
    BY <1>9
  <2>3. QED BY <2>1, <2>2
<1> HIDE DEF Done
<1> DEFINE J == {k \in Nat : k <= n => f0[k] \in Tally}
<1>11. 0 \in J
  BY <1>2, <1>10
<1>12. ASSUME NEW k \in J PROVE k + 1 \in J
  <2>1. SUFFICES ASSUME k + 1 <= n PROVE f0[k + 1] \in Tally
    OBVIOUS
  <2>2. k + 1 \in 1..n /\ (k + 1) - 1 = k /\ k <= n
    BY <1>1, <2>1
  <2>3. f0[k] \in Tally /\ f0[k + 1] = Emit(f0[k], rows, order[k + 1])
    BY <1>10, <2>2
  <2>4. order[k + 1] \in Labels
    BY <1>1, <2>2
  <2>5. QED BY <2>3, <2>4, EmitIs
<1>13. Nat \subseteq J
  <2> HIDE DEF J
  <2>1. J \in SUBSET Nat
    BY DEF J
  <2>2. QED BY <1>11, <1>12, <2>1, FromZero
<1>14. \A m \in 0..n : f0[m] \in Tally
  BY <1>1, <1>13
<1>15. QED BY <1>3, <1>10, <1>14 DEF n, none

-----------------------------------------------------------------------------
(* brief: what the caps leave of a workspace. *)

\* What is shown of one workspace's rows, when so many are emitted in all.
Given(entries, whole, emitted) ==
  /\ entries \in Seq(Row) /\ Len(entries) \in 1..PerGroupCap /\ Len(entries) <= Len(whole)
  /\ \A i \in 1..Len(entries) : entries[i] = whole[i]
  /\ Len(entries) = PerGroupCap \/ Len(entries) = Len(whole) \/ emitted = TotalCap

LEMMA GivenIs ==
  ASSUME NEW entries, NEW whole, NEW emitted, NEW M, Given(entries, whole, emitted),
         Listing(whole, Row, M), Ascending(whole, NotStarted)
  PROVE  /\ Listing(entries, Row, ToSet(entries))
         /\ ToSet(entries) \subseteq M
         /\ Ascending(entries, NotStarted)
         /\ \A s \in M \ ToSet(entries) : \A t \in ToSet(entries) : t.started.at >= s.started.at
         /\ M \subseteq ToSet(entries) \/ Len(entries) = PerGroupCap \/ emitted = TotalCap
<1> DEFINE c == Len(entries)
           n == Len(whole)
<1>1. /\ whole \in Seq(Row) /\ ToSet(whole) = M /\ IsInjective(whole) /\ M \in SUBSET Row
  BY ListingIs
<1>2. entries \in Seq(Row)
  BY DEF Given
<1>3. c \in Nat /\ n \in Nat /\ DOMAIN entries = 1..c /\ DOMAIN whole = 1..n
  BY <1>1, <1>2
<1>4. c <= n /\ \A i \in 1..c : entries[i] = whole[i]
  BY DEF Given
<1>5. c = PerGroupCap \/ c = n \/ emitted = TotalCap
  BY DEF Given
<1> HIDE DEF c, n
<1>6. \A i \in 1..c : i \in 1..n
  BY <1>3, <1>4
<1>7. \A i \in 1..n : whole[i] \in Row /\ whole[i] \in M
  BY <1>1, <1>3 DEF ToSet
<1>8. ToSet(entries) = {entries[i] : i \in 1..c}
  BY <1>3 DEF ToSet
<1>9. IsInjective(entries)
  BY <1>1, <1>3, <1>4, <1>6 DEF IsInjective
<1>10. Listing(entries, Row, ToSet(entries))
  BY <1>2, <1>9, CountOnce, Zenon DEF Listing
<1>11. ToSet(entries) \subseteq M
  BY <1>4, <1>6, <1>7, <1>8
<1>12. \A i, j \in 1..n : i < j => NotStarted[whole[i]] <= NotStarted[whole[j]]
  BY Zenon DEF Ascending, n
<1>13. Ascending(entries, NotStarted)
  BY <1>4, <1>6, <1>12 DEF Ascending, c
<1>14. ASSUME NEW s \in M \ ToSet(entries), NEW t \in ToSet(entries)
       PROVE  t.started.at >= s.started.at
  <2>1. PICK i \in 1..c : t = whole[i]
    BY <1>4, <1>8
  <2>2. PICK j \in 1..n : s = whole[j]
    BY <1>1, <1>3 DEF ToSet
  <2>3. ~(j <= c)
    <3>1. ASSUME j <= c PROVE FALSE
      <4>1. j \in 1..c
        BY <1>3, <3>1
      <4>2. s = entries[j]
        BY <1>4, <2>2, <4>1
      <4>3. QED BY <1>8, <4>1, <4>2
    <3>2. QED BY <3>1
  <2>4. i < j
    BY <1>3, <2>3
  <2>5. NotStarted[t] <= NotStarted[s]
    BY <1>6, <1>12, <2>1, <2>2, <2>4
  <2>6. s \in Row /\ t \in Row
    BY <1>6, <1>7, <2>1, <2>2
  <2>7. QED BY <2>5, <2>6, StartedInt
<1>15. c = n => M \subseteq ToSet(entries)
  BY <1>1, <1>3, <1>4, <1>8 DEF ToSet
<1>16. QED BY <1>5, <1>10, <1>11, <1>13, <1>14, <1>15 DEF c

-----------------------------------------------------------------------------
(* brief: the caps so far. *)

Shown(groups) == UNION {ToSet(groups[g].entries) : g \in DOMAIN groups}

\* The caps spent on the first k workspaces.
Spent(d, rows, order, k) ==
  /\ d \in Tally /\ d.emitted <= TotalCap
  /\ Len(d.groups) <= k /\ (Len(d.groups) = k \/ d.emitted = TotalCap)
  /\ \A g \in 1..Len(d.groups) :
       /\ d.groups[g].workspace = order[g]
       /\ Given(d.groups[g].entries, OfLabel(rows, order[g]), d.emitted)
  /\ IsFiniteSet(Shown(d.groups)) /\ Cardinality(Shown(d.groups)) = d.emitted

\* The rows of a workspace that has some.
LEMMA WorkspaceIs ==
  ASSUME NEW rows, NEW K, Listing(rows, Row, K), Ascending(rows, NotStarted),
         NEW key, NEW M, M = {s \in K : s.label = key}, M # {}
  PROVE  /\ Listing(OfLabel(rows, key), Row, M)
         /\ Ascending(OfLabel(rows, key), NotStarted)
         /\ Len(OfLabel(rows, key)) \in Nat \ {0}
<1> DEFINE w == OfLabel(rows, key)
<1>1. Listing(w, Row, M) /\ Ascending(w, NotStarted)
  BY OfLabelIs
<1> HIDE DEF w
<1>2. w \in Seq(Row) /\ Len(w) # 0
  BY <1>1, ListingEmpty DEF Listing
<1>3. Len(w) \in Nat \ {0}
  BY <1>2
<1>4. QED BY <1>1, <1>3 DEF w

LEMMA ShownAppended ==
  ASSUME NEW groups \in Seq(Group), NEW x \in Group
  PROVE  Shown(Append(groups, x)) = Shown(groups) \cup ToSet(x.entries)
<1> DEFINE n == Len(groups)
           w == Append(groups, x)
<1>1. /\ n \in Nat /\ DOMAIN groups = 1..n /\ DOMAIN w = 1..(n + 1)
      /\ w[n + 1] = x /\ \A g \in 1..n : w[g] = groups[g]
  OBVIOUS
<1> HIDE DEF n, w
<1>2. \A g : g \in 1..(n + 1) <=> g \in 1..n \/ g = n + 1
  BY <1>1
<1>3. Shown(w) = UNION {ToSet(w[g].entries) : g \in 1..(n + 1)}
  BY <1>1 DEF Shown
<1>4. Shown(groups) = UNION {ToSet(groups[g].entries) : g \in 1..n}
  BY <1>1 DEF Shown
<1>5. ASSUME NEW s PROVE s \in Shown(w) <=> s \in Shown(groups) \/ s \in ToSet(x.entries)
  <2>1. s \in Shown(w) <=> \E g \in 1..(n + 1) : s \in ToSet(w[g].entries)
    BY <1>3
  <2>2. s \in Shown(groups) <=> \E g \in 1..n : s \in ToSet(groups[g].entries)
    BY <1>4
  <2>3. QED BY <1>1, <1>2, <2>1, <2>2
<1>6. QED BY <1>5 DEF w

LEMMA SpentNone ==
  ASSUME NEW rows, NEW order
  PROVE  Spent([emitted |-> 0, groups |-> <<>>], rows, order, 0)
<1> DEFINE none == [emitted |-> 0, groups |-> <<>>]
<1>1. none \in Tally
  BY DEF Tally
<1>2. none.emitted = 0 /\ none.groups = <<>> /\ Len(none.groups) = 0
  OBVIOUS
<1>3. Shown(none.groups) = {}
  BY DEF Shown
<1> HIDE DEF none
<1>4. IsFiniteSet({}) /\ Cardinality({}) = 0
  BY FS_EmptySet
<1>5. none.emitted <= TotalCap /\ Len(none.groups) <= 0 /\ Len(none.groups) = 0
  BY <1>2
<1>6. 1..Len(none.groups) = {}
  BY <1>2
<1>7. \A g \in 1..Len(none.groups) :
        /\ none.groups[g].workspace = order[g]
        /\ Given(none.groups[g].entries, OfLabel(rows, order[g]), none.emitted)
  BY <1>6
<1>8. IsFiniteSet(Shown(none.groups)) /\ Cardinality(Shown(none.groups)) = none.emitted
  BY <1>2, <1>3, <1>4
<1>9. Spent(none, rows, order, 0)
  BY <1>1, <1>5, <1>7, <1>8, Zenon DEF Spent
<1>10. QED BY <1>9 DEF none

LEMMA Disjoined ==
  ASSUME NEW A, NEW B, IsFiniteSet(A), IsFiniteSet(B), A \cap B = {}
  PROVE  IsFiniteSet(A \cup B) /\ Cardinality(A \cup B) = Cardinality(A) + Cardinality(B)
<1>1. /\ Cardinality(A) \in Nat /\ Cardinality(B) \in Nat /\ Cardinality({}) = 0
  BY FS_CardinalityType, FS_EmptySet
<1>2. IsFiniteSet(A \cup B)
  BY FS_Union
<1>3. Cardinality(A \cup B) = Cardinality(A) + Cardinality(B) - Cardinality(A \cap B)
  BY FS_Union
<1>4. Cardinality(A \cap B) = 0
  BY <1>1
<1> DEFINE a == Cardinality(A)
           b == Cardinality(B)
           c == Cardinality(A \cup B)
<1>5. a \in Nat /\ b \in Nat /\ c = a + b - 0
  BY <1>1, <1>3, <1>4
<1> HIDE DEF a, b, c
<1>6. c = a + b
  BY <1>5
<1>7. QED BY <1>2, <1>6 DEF a, b, c

\* One workspace more.
LEMMA SpentOn ==
  ASSUME NEW rows, NEW K, Listing(rows, Row, K), Ascending(rows, NotStarted),
         NEW L, L = {s.label : s \in K}, NEW order, Listing(order, Labels, L),
         NEW k \in Nat, k + 1 \in 1..Len(order), NEW d, Spent(d, rows, order, k)
  PROVE  Spent(Emit(d, rows, order[k + 1]), rows, order, k + 1)
<1> DEFINE key == order[k + 1]
           n == Len(d.groups)
           whole == OfLabel(rows, key)
<1>1. /\ d \in Tally /\ d.emitted \in Nat /\ d.groups \in Seq(Group) /\ n \in Nat
      /\ d.emitted <= TotalCap /\ n <= k /\ (n = k \/ d.emitted = TotalCap)
  BY DEF Spent, Tally
<1>2. rows \in Seq(Row)
  BY DEF Listing
<1>0. /\ order \in Seq(Labels) /\ DOMAIN order = 1..Len(order) /\ IsInjective(order)
      /\ \A g \in 1..Len(order) : order[g] \in Labels /\ {s \in K : s.label = order[g]} # {}
  <2>1. order \in Seq(Labels) /\ IsInjective(order) /\ ToSet(order) = L
    BY ListingIs
  <2>2. DOMAIN order = 1..Len(order) /\ \A g \in 1..Len(order) : order[g] \in Labels
    BY <2>1
  <2>3. \A g \in 1..Len(order) : order[g] \in L
    BY <2>1, <2>2, Zenon DEF ToSet
  <2>4. QED BY <2>1, <2>2, <2>3
<1>3. /\ key \in Labels /\ Listing(whole, Row, {s \in K : s.label = key})
      /\ Ascending(whole, NotStarted) /\ Len(whole) \in Nat \ {0}
  <2> DEFINE M == {s \in K : s.label = key}
  <2>1. key \in Labels /\ M # {}
    BY <1>0
  <2> HIDE DEF key
  <2>2. M = {s \in K : s.label = key}
    OBVIOUS
  <2> HIDE DEF M
  <2>3. /\ Listing(OfLabel(rows, key), Row, M) /\ Ascending(OfLabel(rows, key), NotStarted)
        /\ Len(OfLabel(rows, key)) \in Nat \ {0}
    BY <2>1, <2>2, WorkspaceIs
  <2>4. QED BY <2>1, <2>3 DEF M
<1>4. CASE d.emitted >= TotalCap
  <2>1. Emit(d, rows, key) = d
    BY <1>1, <1>2, <1>3, <1>4, EmitIs
  <2>2. d.emitted = TotalCap /\ n <= k + 1
    BY <1>1, <1>4
  <2>3. Spent(d, rows, order, k + 1)
    BY <2>2 DEF Spent
  <2>4. QED BY <2>1, <2>3
<1>5. CASE d.emitted < TotalCap
  <2> HIDE DEF key, whole
  <2>1. PICK c \in Nat :
          /\ c <= Len(whole) /\ c <= PerGroupCap /\ d.emitted + c <= TotalCap
          /\ c = PerGroupCap \/ c = Len(whole) \/ d.emitted + c = TotalCap
          /\ Emit(d, rows, key)
               = [emitted |-> d.emitted + c,
                  groups |-> Append(d.groups, [workspace |-> key, entries |-> SubSeq(whole, 1, c)])]
    <3>1. key \in Labels
      BY <1>3
    <3>2. \E c \in Nat :
          /\ c <= Len(OfLabel(rows, key)) /\ c <= PerGroupCap /\ d.emitted + c <= TotalCap
          /\ c = PerGroupCap \/ c = Len(OfLabel(rows, key)) \/ d.emitted + c = TotalCap
          /\ Emit(d, rows, key)
               = [emitted |-> d.emitted + c,
                  groups |-> Append(d.groups,
                    [workspace |-> key, entries |-> SubSeq(OfLabel(rows, key), 1, c)])]
      BY ONLY <1>1, <1>2, <1>5, <3>1, EmitIs
    <3>3. QED BY <3>2 DEF whole
  <2> DEFINE given == SubSeq(whole, 1, c)
             x == [workspace |-> key, entries |-> given]
             gs == Append(d.groups, x)
             e == Emit(d, rows, key)
  <2>2. whole \in Seq(Row)
    BY <1>3 DEF Listing
  <2>3. /\ given \in Seq(Row) /\ Len(given) = c
        /\ \A i \in 1..c : given[i] = whole[i]
    BY <2>1, <2>2, FirstFew
  <2> HIDE DEF given
  <2>4. c \in 1..PerGroupCap
    BY <1>1, <1>3, <1>5, <2>1
  <2>5. e = [emitted |-> d.emitted + c, groups |-> gs]
    BY <2>1 DEF given
  <2>6. x \in Group
    BY <1>3, <2>3 DEF Group
  <2>7. x.workspace = key /\ x.entries = given
    OBVIOUS
  <2>8. n = k
    BY <1>1, <1>5
  <2> HIDE DEF x
  <2>9. /\ gs \in Seq(Group) /\ Len(gs) = k + 1 /\ gs[k + 1] = x
        /\ \A g \in 1..k : gs[g] = d.groups[g]
    BY <1>1, <2>6, <2>8
  <2>10. Shown(gs) = Shown(d.groups) \cup ToSet(given)
    BY <1>1, <2>6, <2>7, ShownAppended
  <2> HIDE DEF gs, e
  <2>11. e \in Tally /\ e.emitted = d.emitted + c /\ e.groups = gs /\ e.emitted <= TotalCap
    <3>1. d.emitted + c \in Nat
      BY <1>1
    <3>2. QED BY <2>1, <2>5, <2>9, <3>1 DEF Tally
  <2>12. Given(given, whole, e.emitted)
    BY <2>1, <2>3, <2>4, <2>11 DEF Given
  <2>13. ASSUME NEW g \in 1..k
         PROVE  /\ gs[g].workspace = order[g]
                /\ Given(gs[g].entries, OfLabel(rows, order[g]), e.emitted)
    <3>1. /\ d.groups[g].workspace = order[g]
          /\ Given(d.groups[g].entries, OfLabel(rows, order[g]), d.emitted)
      BY <2>8 DEF Spent
    <3>2. d.emitted # TotalCap
      BY <1>1, <1>5
    <3>3. gs[g] = d.groups[g]
      BY <2>9
    <3>4. Given(d.groups[g].entries, OfLabel(rows, order[g]), e.emitted)
      BY <3>1, <3>2 DEF Given
    <3>5. QED BY <3>1, <3>3, <3>4
  <2>14. \A g \in 1..(k + 1) :
           /\ gs[g].workspace = order[g]
           /\ Given(gs[g].entries, OfLabel(rows, order[g]), e.emitted)
    <3>1. \A g \in 1..(k + 1) : g \in 1..k \/ g = k + 1
      OBVIOUS
    <3>2. gs[k + 1].workspace = order[k + 1]
      BY <2>7, <2>9 DEF key
    <3>3. Given(gs[k + 1].entries, OfLabel(rows, order[k + 1]), e.emitted)
      BY <2>7, <2>9, <2>12 DEF key, whole
    <3>4. QED BY <2>13, <3>1, <3>2, <3>3
  <2>15. Shown(d.groups) \cap ToSet(given) = {}
    <3>1. SUFFICES ASSUME NEW s \in Shown(d.groups), s \in ToSet(given) PROVE FALSE
      OBVIOUS
    <3>2. DOMAIN d.groups = 1..k
      BY <1>1, <2>8
    <3>3. PICK g \in 1..k : s \in ToSet(d.groups[g].entries)
      BY <3>1, <3>2 DEF Shown
    <3>4. g \in 1..Len(order) /\ Given(d.groups[g].entries, OfLabel(rows, order[g]), d.emitted)
      <4>1. g \in 1..Len(order)
        BY <3>3
      <4>2. QED BY <4>1, <2>8 DEF Spent
    <3> DEFINE M == {r \in K : r.label = order[g]}
               N == {r \in K : r.label = key}
               v == OfLabel(rows, order[g])
    <3>5. Listing(v, Row, M) /\ Ascending(v, NotStarted)
      BY OfLabelIs
    <3> HIDE DEF M, v
    <3>6. ToSet(d.groups[g].entries) \subseteq M
      BY <3>4, <3>5, GivenIs DEF v
    <3>7. Listing(whole, Row, N) /\ Ascending(whole, NotStarted)
      BY <1>3
    <3> HIDE DEF N
    <3>8. ToSet(given) \subseteq N
      BY <2>12, <3>7, GivenIs
    <3>9. s.label = order[g] /\ s.label = order[k + 1]
      BY <3>1, <3>3, <3>6, <3>8 DEF M, N, key
    <3>11. g = k + 1
      BY <1>0, <3>4, <3>9, Zenon DEF IsInjective
    <3>12. QED BY <3>11
  <2>16. IsFiniteSet(ToSet(given)) /\ Cardinality(ToSet(given)) = c
    <3> DEFINE N == {r \in K : r.label = key}
    <3>1. Listing(whole, Row, N) /\ Ascending(whole, NotStarted)
      BY <1>3
    <3> HIDE DEF N
    <3>2. Listing(given, Row, ToSet(given))
      BY <2>12, <3>1, GivenIs
    <3> DEFINE S == ToSet(given)
    <3> HIDE DEF S
    <3>3. Listing(given, Row, S)
      BY <3>2 DEF S
    <3>4. IsFiniteSet(S) /\ Cardinality(S) = Len(given)
      BY <3>3, ListingIs
    <3>5. QED BY <2>3, <3>4 DEF S
  <2>17. IsFiniteSet(Shown(gs)) /\ Cardinality(Shown(gs)) = d.emitted + c
    <3>1. IsFiniteSet(Shown(d.groups)) /\ Cardinality(Shown(d.groups)) = d.emitted
      BY DEF Spent
    <3> DEFINE A == Shown(d.groups)
               B == ToSet(given)
    <3> HIDE DEF A, B
    <3>2. IsFiniteSet(A \cup B) /\ Cardinality(A \cup B) = Cardinality(A) + Cardinality(B)
      BY <3>1, <2>15, <2>16, Disjoined DEF A, B
    <3>3. QED BY <2>10, <2>16, <3>1, <3>2 DEF A, B
  <2>18. Spent(e, rows, order, k + 1)
    BY <2>9, <2>11, <2>14, <2>17 DEF Spent
  <2>19. QED BY <2>18 DEF e, key
<1>6. d.emitted >= TotalCap \/ d.emitted < TotalCap
  BY <1>1
<1>7. QED BY ONLY <1>4, <1>5, <1>6

\* ... and all of them.
LEMMA CappedIs ==
  ASSUME NEW rows, NEW K, Listing(rows, Row, K), Ascending(rows, NotStarted),
         NEW L, L = {s.label : s \in K}, NEW order, Listing(order, Labels, L)
  PROVE  \E d : Spent(d, rows, order, Len(order)) /\ Capped(rows, order) = d.groups
<1> DEFINE n == Len(order)
           none == [emitted |-> 0, groups |-> <<>>]
<1>1. order \in Seq(Labels) /\ rows \in Seq(Row)
  BY DEF Listing
<1>2. n \in Nat
  BY <1>1
<1>3. PICK f : /\ f[0] = none
               /\ \A m \in 1..n : f[m] = Emit(f[m - 1], rows, order[m])
               /\ Capped(rows, order) = f[n].groups
  BY ONLY <1>1, CappedGoes
<1> DEFINE J == {k \in Nat : k <= n => Spent(f[k], rows, order, k)}
<1>4. 0 \in J
  BY <1>3, SpentNone
<1> HIDE DEF n
<1>5. ASSUME NEW k \in J PROVE k + 1 \in J
  <2>1. k \in Nat /\ k + 1 \in Nat
    OBVIOUS
  <2>2. SUFFICES ASSUME k + 1 <= n PROVE Spent(f[k + 1], rows, order, k + 1)
    BY <2>1
  <2>3. k + 1 \in 1..n /\ (k + 1) - 1 = k /\ k <= n
    BY <1>2, <2>1, <2>2
  <2>4. Spent(f[k], rows, order, k) /\ f[k + 1] = Emit(f[k], rows, order[k + 1])
    BY <1>3, <2>3
  <2>5. k + 1 \in 1..Len(order)
    BY <2>3 DEF n
  <2> DEFINE d == f[k]
  <2> HIDE DEF d
  <2>6. Spent(d, rows, order, k)
    BY <2>4 DEF d
  <2>7. Spent(Emit(d, rows, order[k + 1]), rows, order, k + 1)
    BY <2>1, <2>5, <2>6, SpentOn
  <2>8. QED BY <2>4, <2>7 DEF d
<1>6. n \in J
  <2> HIDE DEF J
  <2>1. J \in SUBSET Nat
    BY DEF J
  <2>2. QED BY <1>2, <1>4, <1>5, <2>1, FromZero
<1>7. Spent(f[n], rows, order, n)
  BY <1>2, <1>6
<1>8. QED BY <1>3, <1>7 DEF n

LEMMA LeadsIs ==
  ASSUME NEW rows, NEW K, Listing(rows, Row, K), Ascending(rows, NotStarted),
         NEW L, L = {s.label : s \in K}, NEW order, Listing(order, Labels, L),
         NEW current, current \in L => order[1] = current
  PROVE  /\ Leads(Capped(rows, order), current, K)
         /\ Len(Capped(rows, order)) \in Nat
         /\ Len(Capped(rows, order)) = 0 <=> K = {}
<1> DEFINE groups == Capped(rows, order)
           shown == Shown(groups)
           Of(label) == {s \in shown : s.label = label}
           entries(g) == groups[g].entries
           M(g) == {s \in K : s.label = order[g]}
           p == Len(groups)
           n == Len(order)
<1>1. PICK d : Spent(d, rows, order, n) /\ groups = d.groups
  BY CappedIs
<1> HIDE DEF groups
<1>2. /\ d.emitted \in Nat /\ groups \in Seq(Group) /\ d.emitted <= TotalCap
      /\ p <= n /\ (p = n \/ d.emitted = TotalCap)
      /\ IsFiniteSet(shown) /\ Cardinality(shown) = d.emitted
  BY <1>1 DEF Spent, Tally
<1>3. p \in Nat /\ DOMAIN groups = 1..p
  BY <1>2
<1>4. /\ order \in Seq(Labels) /\ IsInjective(order) /\ ToSet(order) = L
      /\ n \in Nat /\ DOMAIN order = 1..n
  <2>1. order \in Seq(Labels) /\ IsInjective(order) /\ ToSet(order) = L
    BY ListingIs
  <2>2. QED BY <2>1
<1>5. ASSUME NEW g \in 1..p
      PROVE  /\ groups[g].workspace = order[g]
             /\ Given(entries(g), OfLabel(rows, order[g]), d.emitted)
             /\ g \in 1..n /\ order[g] \in L
  <2>1. g \in 1..n
    <3> HIDE DEF p, n
    <3>1. QED BY <1>2, <1>3, <1>4
  <2>2. order[g] \in L
    BY <1>4, <2>1, Zenon DEF ToSet
  <2>3. QED BY <1>1, <2>1, <2>2 DEF Spent
\* One workspace's entries.
<1>6. ASSUME NEW g \in 1..p
      PROVE  /\ Listing(entries(g), Row, ToSet(entries(g)))
             /\ ToSet(entries(g)) \subseteq M(g)
             /\ Ascending(entries(g), NotStarted)
             /\ \A s \in M(g) \ ToSet(entries(g)) :
                  \A t \in ToSet(entries(g)) : t.started.at >= s.started.at
             /\ M(g) \subseteq ToSet(entries(g)) \/ Len(entries(g)) = PerGroupCap
                                                 \/ d.emitted = TotalCap
             /\ entries(g) \in Seq(Row) /\ Len(entries(g)) \in 1..PerGroupCap
  <2> DEFINE w == OfLabel(rows, order[g])
             m == M(g)
             v == entries(g)
  <2>1. Listing(w, Row, m) /\ Ascending(w, NotStarted)
    BY OfLabelIs
  <2>2. Given(v, w, d.emitted)
    BY <1>5
  <2> HIDE DEF w, m, v
  <2>3. /\ Listing(v, Row, ToSet(v)) /\ ToSet(v) \subseteq m /\ Ascending(v, NotStarted)
        /\ \A s \in m \ ToSet(v) : \A t \in ToSet(v) : t.started.at >= s.started.at
        /\ m \subseteq ToSet(v) \/ Len(v) = PerGroupCap \/ d.emitted = TotalCap
    BY <2>1, <2>2, GivenIs
  <2>4. v \in Seq(Row) /\ Len(v) \in 1..PerGroupCap
    BY <2>2 DEF Given
  <2>5. QED BY <2>3, <2>4 DEF m, v
<1>7. \A s : s \in shown <=> \E g \in 1..p : s \in ToSet(entries(g))
  BY <1>3 DEF Shown
<1> HIDE DEF shown
<1>8. ASSUME NEW s, NEW g \in 1..p, s \in ToSet(entries(g))
      PROVE  s \in K /\ s.label = order[g] /\ s \in shown
  <2>1. s \in M(g)
    BY <1>6, <1>8
  <2>2. QED BY <1>7, <1>8, <2>1
<1> HIDE DEF entries
<1>9. ASSUME NEW g \in 1..p PROVE ToSet(entries(g)) = Of(order[g])
  <2>1. ASSUME NEW s \in ToSet(entries(g)) PROVE s \in Of(order[g])
    BY <1>8, <2>1
  <2>2. ASSUME NEW s \in Of(order[g]) PROVE s \in ToSet(entries(g))
    <3>1. s \in shown /\ s.label = order[g]
      OBVIOUS
    <3>2. PICK h \in 1..p : s \in ToSet(entries(h))
      BY <1>7, <3>1
    <3>3. order[h] = order[g]
      BY <1>8, <3>1, <3>2
    <3>4. h = g
      BY <1>4, <1>5, <3>3, Zenon DEF IsInjective
    <3>5. QED BY <3>2, <3>4
  <2> HIDE DEF Of
  <2>3. QED BY <2>1, <2>2
<1>10. shown \subseteq K
  BY <1>7, <1>8
<1>11. ASSUME NEW g \in DOMAIN groups
       PROVE  /\ IsInjective(entries(g)) /\ ToSet(entries(g)) = Of(groups[g].workspace)
              /\ Len(entries(g)) \in 1..PerGroupCap
              /\ \A i, j \in DOMAIN entries(g) :
                   i < j => entries(g)[i].started.at >= entries(g)[j].started.at
  <2>1. g \in 1..p
    BY <1>3
  <2> DEFINE v == entries(g)
  <2>2. /\ Listing(v, Row, ToSet(v)) /\ Ascending(v, NotStarted) /\ v \in Seq(Row)
        /\ Len(v) \in 1..PerGroupCap
    BY <1>6, <2>1
  <2>3. ToSet(v) = Of(groups[g].workspace)
    BY <1>5, <1>9, <2>1
  <2> HIDE DEF v, Of
  <2>4. IsInjective(v)
    BY <2>2, CountOnce, Zenon DEF Listing
  <2>5. \A i, j \in DOMAIN v : i < j => v[i].started.at >= v[j].started.at
    <3>1. DOMAIN v = 1..Len(v) /\ \A i \in 1..Len(v) : v[i] \in Row
      BY <2>2
    <3>2. SUFFICES ASSUME NEW i \in 1..Len(v), NEW j \in 1..Len(v), i < j
                   PROVE  v[i].started.at >= v[j].started.at
      BY <3>1
    <3>3. NotStarted[v[i]] <= NotStarted[v[j]]
      BY <2>2, <3>2, Zenon DEF Ascending
    <3>4. QED BY <3>1, <3>3, StartedInt
  <2>6. QED BY <2>2, <2>3, <2>4, <2>5 DEF v
<1>12. ASSUME NEW s \in K \ shown
       PROVE  /\ \A t \in Of(s.label) : t.started.at >= s.started.at
              /\ Cardinality(shown) = TotalCap \/ Cardinality(Of(s.label)) = PerGroupCap
  <2>1. PICK h \in 1..n : order[h] = s.label
    <3>1. s.label \in L
      OBVIOUS
    <3>2. QED BY <1>4, <3>1 DEF ToSet
  <2>2. CASE h \in 1..p
    <3> DEFINE v == entries(h)
               m == M(h)
    <3>1. s \in m /\ s \notin ToSet(v)
      BY <1>7, <2>1, <2>2
    <3>2. ToSet(v) = Of(s.label)
      BY <1>9, <2>1, <2>2
    <3>3. /\ Listing(v, Row, ToSet(v))
          /\ \A x \in m \ ToSet(v) : \A t \in ToSet(v) : t.started.at >= x.started.at
          /\ m \subseteq ToSet(v) \/ Len(v) = PerGroupCap \/ d.emitted = TotalCap
      BY <1>6, <2>2
    <3> DEFINE S == ToSet(v)
    <3> HIDE DEF v, m, Of, S
    <3>4. Listing(v, Row, S)
      BY <3>3 DEF S
    <3>5. Cardinality(S) = Len(v)
      BY <3>4, ListingIs
    <3>6. \A t \in S : t.started.at >= s.started.at
      BY <3>1, <3>3 DEF S
    <3>7. Len(v) = PerGroupCap \/ d.emitted = TotalCap
      BY <3>1, <3>3
    <3>8. S = Of(s.label)
      BY <3>2 DEF S
    <3>9. QED BY <1>2, <3>5, <3>6, <3>7, <3>8
  <2>3. CASE h \notin 1..p
    <3>1. d.emitted = TotalCap
      <4>1. p # n
        BY <2>3
      <4>2. QED BY <1>2, <4>1
    <3>2. ASSUME NEW t \in Of(s.label) PROVE FALSE
      <4>1. t \in shown /\ t.label = order[h]
        BY <2>1
      <4>2. PICK g \in 1..p : t \in ToSet(entries(g))
        BY <1>7, <4>1
      <4>3. order[g] = order[h] /\ g \in 1..n
        BY <1>5, <1>8, <4>1, <4>2
      <4>4. g = h
        BY <1>4, <4>3, Zenon DEF IsInjective
      <4>5. QED BY <2>3, <4>4
    <3> HIDE DEF Of
    <3>3. QED BY <1>2, <3>1, <3>2
  <2>4. QED BY <2>2, <2>3
<1>13. K # {} => p > 0
  <2>1. SUFFICES ASSUME K # {}, p = 0 PROVE FALSE
    BY <1>3
  <2>2. shown = {}
    BY <1>3, <1>7, <2>1
  <2>3. d.emitted = 0
    BY <1>2, <2>2, FS_EmptySet
  <2>4. n = 0
    BY <1>2, <2>1, <2>3
  <2>5. L = {}
    BY <1>4, <2>4 DEF ToSet
  <2>6. PICK s \in K : TRUE
    BY <2>1
  <2>7. s.label \in L
    OBVIOUS
  <2>8. QED BY <2>5, <2>7
<1>14. K = {} => p = 0
  <2>1. SUFFICES ASSUME K = {}, 1 \in 1..p PROVE FALSE
    BY <1>3
  <2>2. order[1] \in L
    BY <1>5, <2>1
  <2>3. QED BY <2>1, <2>2
<1>15. (\E s \in K : s.label = current) => groups[1].workspace = current
  <2>1. SUFFICES ASSUME NEW s \in K, s.label = current PROVE groups[1].workspace = current
    OBVIOUS
  <2>2. order[1] = current
    BY <2>1
  <2>3. 1 \in 1..p
    BY <1>3, <1>13, <2>1
  <2>4. QED BY <1>5, <2>2, <2>3
<1>16. Leads(groups, current, K)
  <2>1. shown = UNION {ToSet(groups[g].entries) : g \in DOMAIN groups}
    BY DEF shown, Shown
  <2>2. \A g \in DOMAIN groups : entries(g) = groups[g].entries
    BY DEF entries
  <2>3. Cardinality(shown) <= TotalCap
    BY <1>2
  <2> HIDE DEF M
  <2>4. \A g \in DOMAIN groups :
           /\ IsInjective(groups[g].entries)
           /\ ToSet(groups[g].entries) = {s \in shown : s.label = groups[g].workspace}
           /\ Len(groups[g].entries) \in 1..PerGroupCap
           /\ \A i, j \in DOMAIN groups[g].entries :
                i < j => groups[g].entries[i].started.at >= groups[g].entries[j].started.at
    BY <1>11, <2>2, Zenon
  <2>5. \A s \in K \ shown :
           /\ \A t \in {x \in shown : x.label = s.label} : t.started.at >= s.started.at
           /\ Cardinality(shown) = TotalCap
                \/ Cardinality({x \in shown : x.label = s.label}) = PerGroupCap
    BY <1>12, Zenon
  <2>6. QED BY <1>10, <1>15, <2>1, <2>3, <2>4, <2>5, Zenon DEF Leads
<1>17. QED BY <1>3, <1>13, <1>14, <1>16 DEF groups

-----------------------------------------------------------------------------
(* brief: its entries, and when it is empty. *)

\* What a brief may show.
Due(slug, since, cutoff) ==
  {s \in ToSet(sessions) :
     /\ s.project = slug /\ s.state = "curated" /\ s.entry = "whole"
     /\ \A d \in since : DayOf(s.started, cutoff) >= d}

LEMMA BriefMatches ==
  ASSUME NEW s, NEW slug, slug # NoProject, NEW since, NEW cutoff
  PROVE  Match(s, OfBrief(slug, since), cutoff)
           <=> /\ s.state = "curated" /\ s.project = slug
               /\ \A d \in since : DayOf(s.started, cutoff) >= d
BY DEF Match, OfBrief, NoFilter

LEMMA GatherIs ==
  ASSUME VInv, NEW slug, slug # NoProject, NEW since, NEW cutoff
  PROVE  /\ Listing(GatherEntries(slug, since, cutoff), Row, Due(slug, since, cutoff))
         /\ Ascending(GatherEntries(slug, since, cutoff), NotStarted)
<1> DEFINE f == OfBrief(slug, since)
           K == {s \in ToSet(sessions) : Match(s, f, cutoff)}
           w == NewestFirst(Apply(Walk, f, cutoff))
           I == {i \in DOMAIN w : w[i].entry = "whole"}
           M == {s \in K : s.entry = "whole"}
<1>1. Listing(Apply(Walk, f, cutoff), Row, K)
  BY WalkListed, ApplyListed
<1>2. Listing(w, Row, K) /\ Ascending(w, NotStarted)
  <2> DEFINE v == Apply(Walk, f, cutoff)
  <2>1. Listing(v, Row, K)
    BY <1>1
  <2> HIDE DEF v, K
  <2>2. QED BY <2>1, NewestListed DEF v
<1>3. M = Due(slug, since, cutoff)
  <2>1. \A s : Match(s, f, cutoff)
                 <=> /\ s.state = "curated" /\ s.project = slug
                     /\ \A d \in since : DayOf(s.started, cutoff) >= d
    BY BriefMatches
  <2> HIDE DEF f
  <2>2. \A s : s \in M <=> s \in Due(slug, since, cutoff)
    BY <2>1 DEF Due
  <2> HIDE DEF M
  <2>3. QED BY <2>2
<1>4. M \in SUBSET K /\ I \in SUBSET (DOMAIN w)
      /\ \A i \in DOMAIN w : w[i] \in K => (i \in I <=> w[i] \in M)
  OBVIOUS
<1> HIDE DEF K
<1>5. w \in Seq(Row)
  BY <1>2 DEF Listing
<1>6. I \in SUBSET (1..Len(w))
  <2> HIDE DEF w
  <2>1. QED BY <1>5
<1> HIDE DEF w, I, M
<1>7. Listing(Picked(w, I), Row, M)
  BY <1>2, <1>4, ListingThose
<1>8. NotStarted \in [Row -> Int]
  BY StartedInt
<1>9. Ascending(Picked(w, I), NotStarted)
  BY <1>2, <1>5, <1>6, <1>8, PickedAscending
<1>10. GatherEntries(slug, since, cutoff) = Picked(w, I)
  BY Zenon DEF GatherEntries, WithEntry, w, I, f
<1>11. QED BY <1>3, <1>7, <1>9, <1>10

LEMMA GroupEntriesIs ==
  ASSUME NEW rows, NEW K, Listing(rows, Row, K), Ascending(rows, NotStarted), NEW current
  PROVE  /\ Leads(GroupEntries(rows, current), current, K)
         /\ Len(GroupEntries(rows, current)) = 0 <=> K = {}
<1> DEFINE L == {s.label : s \in K}
           first == FirstAppearances(rows)
           order == Hoist(first, current)
<1>1. rows \in Seq(Row) /\ ToSet(rows) = K
  BY DEF Listing
<1>2. Listing(first, Labels, {s.label : s \in ToSet(rows)})
  BY ONLY <1>1, FirstAppearancesIs
<1>3. Listing(first, Labels, L)
  BY <1>1, <1>2
<1>4. L = {s.label : s \in K}
  OBVIOUS
<1> HIDE DEF L, first
<1>5. Listing(order, Labels, L)
  BY <1>3, HoistIs
<1>6. current \in L => order[1] = current
  BY <1>3, HoistIs
<1>7. GroupEntries(rows, current) = Capped(rows, order)
  BY DEF GroupEntries, first
<1> HIDE DEF order
<1>0. Listing(rows, Row, K) /\ Ascending(rows, NotStarted)
  OBVIOUS
<1>8. /\ Leads(Capped(rows, order), current, K)
      /\ Len(Capped(rows, order)) \in Nat
      /\ Len(Capped(rows, order)) = 0 <=> K = {}
  BY ONLY <1>0, <1>4, <1>5, <1>6, LeadsIs
<1>9. QED BY <1>7, <1>8

LEMMA TodayListed ==
  ASSUME VInv, NEW slug, slug # NoProject, NEW day \in Int, NEW cutoff
  PROVE  /\ Len(Breadcrumbs(day, cutoff, {slug})) = 0
              <=> \A c \in Survivors : c.slug = slug => DayOf(c.at, cutoff) # day
         /\ Len(Sessions([NoFilter EXCEPT !.project = {slug}, !.day = {day}], cutoff)) = 0
              <=> \A k \in DOMAIN sessions :
                    sessions[k].project = slug => DayOf(sessions[k].started, cutoff) # day
<1> DEFINE C == {c \in Survivors : DayOf(c.at, cutoff) = day}
           D == {c \in C : c.slug \in {slug}}
           crumbs == Breadcrumbs(day, cutoff, {slug})
           f == [NoFilter EXCEPT !.project = {slug}, !.day = {day}]
           S == {s \in ToSet(sessions) : Match(s, f, cutoff)}
           rows == Sessions(f, cutoff)
<1>1. Listing(crumbs, Line, D)
  <2> DEFINE v == ReadBreadcrumbsForDay(day, cutoff)
             w == OfSlugs(v, {slug})
  <2>1. Listing(v, Line, C)
    BY DayListed
  <2> HIDE DEF v, C
  <2>2. Listing(w, Line, D)
    BY <2>1, OfSlugsListed
  <2>3. crumbs = EarliestFirst(w)
    BY DEF Breadcrumbs, v
  <2> HIDE DEF w, D, crumbs
  <2>4. QED BY <2>2, <2>3, EarliestListed
<1>2. Listing(rows, Row, S)
  <2> DEFINE v == Apply(Walk, f, cutoff)
  <2>1. Listing(v, Row, S)
    BY WalkListed, ApplyListed
  <2>2. rows = NewestFirst(v)
    BY DEF Sessions
  <2> HIDE DEF v, S, rows
  <2>3. QED BY <2>1, <2>2, NewestListed
<1>3. Len(crumbs) = 0 <=> D = {}
  <2> HIDE DEF crumbs, D
  <2>1. QED BY <1>1, ListingEmpty
<1>4. Len(rows) = 0 <=> S = {}
  <2> HIDE DEF rows, S
  <2>1. QED BY <1>2, ListingEmpty
<1>5. D = {} <=> \A c \in Survivors : c.slug = slug => DayOf(c.at, cutoff) # day
  OBVIOUS
<1>6. S = {} <=> \A k \in DOMAIN sessions :
                   sessions[k].project = slug => DayOf(sessions[k].started, cutoff) # day
  <2>1. \A s : Match(s, f, cutoff) <=> s.project = slug /\ DayOf(s.started, cutoff) = day
    BY DEF Match, NoFilter
  <2> HIDE DEF f
  <2>2. S = {} <=> \A s \in ToSet(sessions) : ~(s.project = slug /\ DayOf(s.started, cutoff) = day)
    BY <2>1
  <2>3. ToSet(sessions) = {sessions[k] : k \in DOMAIN sessions}
    BY DEF ToSet
  <2> HIDE DEF S
  <2>4. QED BY <2>2, <2>3
<1> HIDE DEF D, S, crumbs, rows
<1>7. QED BY <1>3, <1>4, <1>5, <1>6 DEF crumbs, rows, f

\* What a brief promises of one reader, window and project.
Led(cutoff, reader, window, slug) ==
  LET since == ResolveSince(window, reader, cutoff)
      today == ParseDay(0, reader, cutoff)
      rows == GatherEntries(slug, since, cutoff)
      due == {s \in ToSet(sessions) :
                /\ s.project = slug /\ s.state = "curated" /\ s.entry = "whole"
                /\ \A d \in since : DayOf(s.started, cutoff) >= d}
  IN /\ \A current \in {h.label : h \in Homes} : Leads(GroupEntries(rows, current), current, due)
     /\ Brief(slug, "", since, today, cutoff).empty
          <=> /\ due = {}
              /\ \A c \in Survivors : c.slug = slug => DayOf(c.at, cutoff) # today
              /\ \A k \in DOMAIN sessions :
                   sessions[k].project = slug => DayOf(sessions[k].started, cutoff) # today

\* A brief leads with what is recent, and says it is empty when it is: the
\* workspace one stands in comes first, each workspace shows its newest readable
\* entries, and one is left out only when the caps are spent (gatherEntries,
\* groupEntries, hoist, and Empty of brief's document).
THEOREM BriefAlwaysLeads == Spec => []BriefLeads
<1>1. ASSUME VInv, NEW cutoff \in Cutoffs, NEW reader \in Machines,
             NEW window \in Windows, NEW slug \in Slugs
      PROVE  Led(cutoff, reader, window, slug)
  <2> DEFINE since == ResolveSince(window, reader, cutoff)
             today == ParseDay(0, reader, cutoff)
             rows == GatherEntries(slug, since, cutoff)
             due == Due(slug, since, cutoff)
             groups == GroupEntries(rows, "")
             crumbs == Breadcrumbs(today, cutoff, {slug})
             own == Sessions([NoFilter EXCEPT !.project = {slug}, !.day = {today}], cutoff)
  <2>2. slug # NoProject
    BY DEF Slugs
  <2>3. today \in Int
    <3> DEFINE s == Stamp(now, ZoneOf[reader])
    <3>1. s \in Moments
      BY <1>1 DEF VInv, WInv, Moments, Stamp
    <3>2. today = DayOf(s, cutoff)
      BY <3>1, DayInt DEF ParseDay, AddDays
    <3> HIDE DEF s
    <3>3. Date(s) \in Int /\ DayOf(s, cutoff) \in {Date(s), Date(s) - 1}
      BY <3>1, DayInt
    <3>4. QED BY <3>2, <3>3
  <2> HIDE DEF since, today
  <2>4. Listing(rows, Row, due) /\ Ascending(rows, NotStarted)
    BY <1>1, <2>2, GatherIs
  <2> HIDE DEF rows, due
  <2>5. \A current : Leads(GroupEntries(rows, current), current, due)
    BY <2>4, GroupEntriesIs
  <2>6. Len(groups) = 0 <=> due = {}
    BY <2>4, GroupEntriesIs
  <2>7. Len(crumbs) = 0
          <=> \A c \in Survivors : c.slug = slug => DayOf(c.at, cutoff) # today
    BY <1>1, <2>2, <2>3, TodayListed
  <2>8. Len(own) = 0
          <=> \A k \in DOMAIN sessions :
                sessions[k].project = slug => DayOf(sessions[k].started, cutoff) # today
    BY <1>1, <2>2, <2>3, TodayListed
  <2>9. Brief(slug, "", since, today, cutoff).empty
          <=> Len(groups) = 0 /\ Len(crumbs) = 0 /\ Len(own) = 0
    BY Zenon DEF Brief, rows
  <2> HIDE DEF groups, crumbs, own
  <2>10. due = {s \in ToSet(sessions) :
                  /\ s.project = slug /\ s.state = "curated" /\ s.entry = "whole"
                  /\ \A d \in since : DayOf(s.started, cutoff) >= d}
    BY Zenon DEF due, Due
  <2>11. QED BY <2>5, <2>6, <2>7, <2>8, <2>9, <2>10, Zenon DEF Led, rows, since, today
<1>2. VInv => BriefLeads
  <2>1. VInv => \A cutoff \in Cutoffs, reader \in Machines, window \in Windows, slug \in Slugs :
                  Led(cutoff, reader, window, slug)
    BY <1>1
  <2>2. QED BY <2>1, Zenon DEF BriefLeads, Led
<1>3. QED BY <1>2, SpecVInv, PTL
=============================================================================
