--------------------------- MODULE RegistryProofs ---------------------------
(***************************************************************************)
(* What the registry guarantees for every number of machines, directories, *)
(* projects, processes, verbs, moves and faults.                           *)
(***************************************************************************)
EXTENDS Registry, FiniteSetTheorems, TLAPS

USE NamesAssumption, RepositoriesAssumption, BoundsAssumption

-----------------------------------------------------------------------------
(* Types. *)

\* What a verb plans to write is of the right type.
LEMMA LabelTypes ==
    ASSUME NEW d \in Dirs, NEW taken
    PROVE  NewLabels(d, taken) \subseteq Labels
BY DEF NewLabels, DefaultLabels, Suggested, Joined, Labels, Shaped

LEMMA LocatedTypes ==
    ASSUME TypeOK, NEW m \in Machines, NEW r \in Registered(m)
    PROVE  /\ r.slug \in Known /\ r.slug \in Slugs
           /\ r.clone \in Clone /\ r.clone \in clones[r.slug][m]
<1>1. PICK s \in Known : \E c \in clones[s][m] : r = [slug |-> s, clone |-> c]
    BY DEF Registered
<1>2. PICK c \in clones[s][m] : r = [slug |-> s, clone |-> c]
    BY <1>1
<1>3. s \in Slugs /\ clones[s][m] \subseteq Clone
    BY DEF Known, TypeOK
<1>4. r.slug = s /\ r.clone = c
    BY <1>2
<1>5. QED BY <1>3, <1>4

LEMMA ProjectIsOne == ASSUME NEW x \in Project PROVE x # NoProject
BY DEF Project, NoProject, Ids

LEMMA KnownType ==
    ASSUME TypeOK, NEW s \in Known PROVE s \in Slugs /\ projects[s] \in Project
BY DEF Known, TypeOK

\* The step with which a verb starts.
LEMMA StartType ==
    ASSUME TypeOK, NEW p \in Procs, NEW m \in Machines, NEW plan \in Plan,
           NEW at \in {"project", "load"}, Start(p, m, at, plan),
           lastId' \in 0..MaxId
    PROVE  TypeOK'
<1>1. [at |-> at, machine |-> m, plan |-> plan] \in Proc
    BY DEF Proc
<1>2. proc' \in [Procs -> Proc]
    BY <1>1 DEF Start, TypeOK
<1>3. verbs' \in 0..MaxVerbs
    BY DEF Start, TypeOK
<1>4. raced' \subseteq Machines \cup {"journal"}
    BY DEF Start, Overlaps, TypeOK
<1>5. QED BY <1>2, <1>3, <1>4 DEF Start, TypeOK

-----------------------------------------------------------------------------
(* The inductive invariant. *)

\* A plan that is not yet carried out still fits the registry.
PlanFits(p) ==
    /\ proc[p].at \in {"load", "clones"} => proc[p].plan.slug \in Known
    /\ proc[p].at = "project" => proc[p].plan.project \in Project
    /\ proc[p].at = "project" /\ "journal" \notin raced =>
         LET new == proc[p].plan.project
             s == proc[p].plan.slug
         IN /\ new.remote \in Remotes => Claiming(new.remote) = {}
            /\ \/ s \notin Known
               \/ projects[s].remote = Local /\ new.id = projects[s].id

\* A clones file that was read is the one to be written.
FileFits(p) ==
    proc[p].at = "clones" /\ proc[p].machine \notin raced =>
        proc[p].file = clones[proc[p].plan.slug][proc[p].machine]

\* Where nothing overlapped, at most one verb is at work.
OneAtWork ==
    \A p, q \in Procs :
        /\ proc[p] # Idle /\ proc[q] # Idle
        /\ "journal" \notin raced \/ (proc[p].machine = proc[q].machine
                                      /\ proc[p].machine \notin raced)
        => p = q

RemotesOnce ==
    "journal" \notin raced =>
        \A r \in Remotes : \A s, t \in Claiming(r) : s = t

IInv ==
    /\ TypeOK
    /\ \A p \in Procs : PlanFits(p) /\ FileFits(p)
    /\ OneAtWork
    /\ RemotesOnce
    /\ ClonesHaveProject

\* What a plan that is made must be.
Sound(plan, at) ==
    /\ at = "load" => plan.slug \in Known
    /\ at = "project" => plan.project \in Project
    /\ at = "project" =>
         /\ plan.project.remote \in Remotes => Claiming(plan.project.remote) = {}
         /\ \/ plan.slug \notin Known
            \/ /\ projects[plan.slug].remote = Local
               /\ plan.project.id = projects[plan.slug].id

LEMMA StartKeeps ==
    ASSUME IInv, NEW p \in Procs, NEW m \in Machines, NEW plan \in Plan,
           NEW at \in {"project", "load"}, Start(p, m, at, plan),
           lastId' \in 0..MaxId, Sound(plan, at)
    PROVE  IInv'
<1>1. TypeOK'
    BY StartType DEF IInv
<1>2. /\ proc[p] = Idle /\ raced \subseteq raced' /\ raced' = Overlaps(p, m)
      /\ UNCHANGED <<projects, clones>>
      /\ proc' = [proc EXCEPT ![p] = [at |-> at, machine |-> m, plan |-> plan]]
      /\ proc \in [Procs -> Proc]
    BY DEF Start, Overlaps, IInv, TypeOK
<1>3. /\ proc'[p] = [at |-> at, machine |-> m, plan |-> plan]
      /\ \A q \in Procs \ {p} : proc'[q] = proc[q]
    BY <1>2
<1>4. Known' = Known /\ \A r : Claiming(r)' = Claiming(r)
    BY <1>2 DEF Known, Claiming
<1>5. ASSUME NEW q \in Procs PROVE PlanFits(q)' /\ FileFits(q)'
    <2>1. CASE q = p
        BY <1>2, <1>3, <1>4, <2>1 DEF PlanFits, FileFits, Sound
    <2>2. CASE q # p
        <3>1. PlanFits(q) /\ FileFits(q)
            BY DEF IInv
        <3>2. QED BY <1>2, <1>3, <1>4, <2>2, <3>1 DEF PlanFits, FileFits
    <2>3. QED BY <2>1, <2>2
<1>6. OneAtWork'
    <2>1. ASSUME NEW a \in Procs, NEW b \in Procs,
                 proc'[a] # Idle, proc'[b] # Idle,
                 \/ "journal" \notin raced'
                 \/ proc'[a].machine = proc'[b].machine /\ proc'[a].machine \notin raced'
          PROVE  a = b
        <3>2. ASSUME NEW q \in Procs \ {p}, proc'[q] # Idle
              PROVE  "journal" \in raced' /\ (proc'[q].machine = m => m \in raced')
            BY <1>2, <1>3, <3>2 DEF Overlaps
        <3>3. proc'[p].machine = m
            BY <1>3
        <3>4. CASE a = p \/ b = p
            BY <2>1, <3>2, <3>3, <3>4
        <3>5. CASE a # p /\ b # p
            BY <1>2, <1>3, <2>1, <3>5 DEF IInv, OneAtWork
        <3>6. QED BY <3>4, <3>5
    <2>2. QED BY <2>1 DEF OneAtWork
<1>7. RemotesOnce' /\ ClonesHaveProject'
    BY <1>2, <1>4 DEF IInv, RemotesOnce, ClonesHaveProject
<1>8. QED BY <1>1, <1>5, <1>6, <1>7 DEF IInv

-----------------------------------------------------------------------------
(* The verbs' first halves. *)

LEMMA JoinKeeps ==
    ASSUME IInv, NEW p \in Procs, NEW m \in Machines, NEW d \in Dirs,
           NEW s \in Slugs, JoinProject(p, m, d, s)
    PROVE  IInv'
<1>1. PICK label \in NewLabels(d, Taken(s)) :
         Start(p, m, "load",
               [slug |-> s, project |-> NoProject, edit |-> "add",
                clone |-> [id |-> lastId + 1, dir |-> d, label |-> label]])
    BY DEF JoinProject
<1> DEFINE clone == [id |-> lastId + 1, dir |-> d, label |-> label]
           plan == [slug |-> s, project |-> NoProject, edit |-> "add", clone |-> clone]
<1>2. lastId' = lastId + 1 /\ lastId + 1 \in Ids /\ s \in Known
    BY DEF JoinProject, Claiming
<1>3. clone \in Clone
    BY <1>2, LabelTypes DEF Clone
<1>4. plan \in Plan
    BY <1>3 DEF Plan
<1>5. Sound(plan, "load") /\ lastId' \in 0..MaxId
    BY <1>2 DEF Sound, Ids
<1>6. QED BY <1>1, <1>4, <1>5, StartKeeps

LEMMA CreateKeeps ==
    ASSUME IInv, NEW p \in Procs, NEW m \in Machines, NEW d \in Dirs,
           NEW s \in Slugs, CreateProject(p, m, d, s)
    PROVE  IInv'
<1> DEFINE project == [id |-> lastId + 1, remote |-> git[m][d]]
<1>1. PICK label \in NewLabels(d, {}) :
         Start(p, m, "project",
               [slug |-> s, project |-> project, edit |-> "add",
                clone |-> [id |-> lastId + 2, dir |-> d, label |-> label]])
    BY DEF CreateProject, PlanProject
<1> DEFINE clone == [id |-> lastId + 2, dir |-> d, label |-> label]
           plan == [slug |-> s, project |-> project, edit |-> "add", clone |-> clone]
<1>2. /\ lastId' = lastId + 2 /\ lastId + 2 \in Ids /\ lastId \in Nat
      /\ s \notin Known
      /\ git[m][d] \in Remotes \cup {Local}
      /\ git[m][d] # Local => Claiming(git[m][d]) = {}
    BY DEF CreateProject, PlanProject, IInv, TypeOK
<1>3. lastId + 1 \in Ids
    BY <1>2 DEF Ids
<1>4. project \in Project
    BY <1>2, <1>3 DEF Project
<1>5. clone \in Clone
    BY <1>2, LabelTypes DEF Clone
<1>6. plan \in Plan
    BY <1>4, <1>5 DEF Plan
<1>7. Local \notin Remotes
    OBVIOUS
<1>8. Sound(plan, "project") /\ lastId' \in 0..MaxId
    BY <1>2, <1>4, <1>7 DEF Sound, Ids
<1>9. QED BY <1>1, <1>6, <1>8, StartKeeps

LEMMA LabelKeeps ==
    ASSUME IInv, NEW p \in Procs, NEW m \in Machines, NEW d \in Dirs,
           NEW l \in Flags \ {Shaped}, BeginLabel(p, m, d, l)
    PROVE  IInv'
<1>1. PICK r \in Located(m, d) :
         Start(p, m, "load",
               [slug |-> r.slug, project |-> NoProject, edit |-> "label",
                clone |-> [r.clone EXCEPT !.label = l]])
    BY DEF BeginLabel
<1> DEFINE clone == [r.clone EXCEPT !.label = l]
           plan == [slug |-> r.slug, project |-> NoProject, edit |-> "label",
                    clone |-> clone]
<1>2. r \in Registered(m) /\ l \in Labels
    BY DEF Located, Labels
<1>3. r.slug \in Known /\ r.slug \in Slugs /\ r.clone \in Clone
    BY <1>2, LocatedTypes DEF IInv
<1>4. clone \in Clone
    BY <1>2, <1>3 DEF Clone
<1>5. plan \in Plan
    BY <1>3, <1>4 DEF Plan
<1>6. Sound(plan, "load") /\ lastId' \in 0..MaxId
    BY <1>3 DEF Sound, BeginLabel, IInv, TypeOK
<1>7. QED BY <1>1, <1>5, <1>6, StartKeeps

LEMMA AdoptKeeps ==
    ASSUME IInv, NEW p \in Procs, NEW m \in Machines, NEW d \in Dirs,
           BeginAdopt(p, m, d)
    PROVE  IInv'
<1>1. PICK r \in Located(m, d) :
         /\ projects[r.slug].remote = Local
         /\ Start(p, m, "project",
                  [slug |-> r.slug,
                   project |-> [projects[r.slug] EXCEPT !.remote = git[m][d]],
                   edit |-> "none", clone |-> r.clone])
    BY DEF BeginAdopt, PlanAdopt
<1> DEFINE project == [projects[r.slug] EXCEPT !.remote = git[m][d]]
           plan == [slug |-> r.slug, project |-> project, edit |-> "none",
                    clone |-> r.clone]
<1>2. /\ git[m][d] \in Remotes /\ Claiming(git[m][d]) = {}
      /\ lastId' \in 0..MaxId
      /\ r \in Registered(m)
    BY DEF BeginAdopt, PlanAdopt, IInv, TypeOK, Located
<1>3. r.slug \in Known /\ r.slug \in Slugs /\ r.clone \in Clone
    BY <1>2, LocatedTypes DEF IInv
<1>4. projects[r.slug] \in Project
    BY <1>3, KnownType DEF IInv
<1>5. project \in Project /\ project.id = projects[r.slug].id
      /\ project.remote = git[m][d]
    BY <1>2, <1>4 DEF Project
<1>6. plan \in Plan
    BY <1>3, <1>5 DEF Plan
<1>7. Sound(plan, "project")
    BY <1>1, <1>2, <1>5 DEF Sound
<1>8. QED BY <1>1, <1>2, <1>6, <1>7, StartKeeps

LEMMA RelinkKeeps ==
    ASSUME IInv, NEW p \in Procs, NEW m \in Machines, NEW d \in Dirs,
           BeginRelink(p, m, d)
    PROVE  IInv'
<1>1. PICK found \in Locators(m, d) : PlanRelink(p, m, d, found)
    BY DEF BeginRelink
<1>2. found \subseteq Registered(m)
    BY DEF Locators, WithId, Named
<1>3. PICK r \in found :
         Start(p, m, "load",
               [slug |-> r.slug, project |-> NoProject, edit |-> "relink",
                clone |-> [r.clone EXCEPT !.dir = d]])
    BY <1>1 DEF PlanRelink
<1> DEFINE clone == [r.clone EXCEPT !.dir = d]
           plan == [slug |-> r.slug, project |-> NoProject, edit |-> "relink",
                    clone |-> clone]
<1>4. r.slug \in Known /\ r.slug \in Slugs /\ r.clone \in Clone
    BY <1>2, LocatedTypes DEF IInv
<1>5. clone \in Clone
    BY <1>4 DEF Clone
<1>6. plan \in Plan
    BY <1>4, <1>5 DEF Plan
<1>7. Sound(plan, "load") /\ lastId' \in 0..MaxId
    BY <1>1, <1>4 DEF Sound, PlanRelink, IInv, TypeOK
<1>8. QED BY <1>3, <1>6, <1>7, StartKeeps

-----------------------------------------------------------------------------
(* The verbs' writes, and what ends them. *)

\* What a step does to the invariant when every verb goes on as it was or
\* stops, but p, which stays on its machine.
LEMMA OneAtWorkStays ==
    ASSUME OneAtWork, NEW p \in Procs, UNCHANGED raced, proc[p] # Idle,
           \A q \in Procs \ {p} : proc'[q] = proc[q],
           proc'[p] = Idle \/ proc'[p].machine = proc[p].machine
    PROVE  OneAtWork'
BY DEF OneAtWork

LEMMA WriteProjectKeeps ==
    ASSUME IInv, NEW p \in Procs, WriteProject(p)
    PROVE  IInv'
<1> DEFINE plan == proc[p].plan
           m == proc[p].machine
           after == [at |-> "load", machine |-> m, plan |-> plan]
<1>1. /\ proc[p].at = "project" /\ proc[p] # Idle
      /\ proc[p] \in Proc /\ m \in Machines /\ plan \in Plan
    BY DEF WriteProject, IInv, TypeOK, Proc, Idle
<1>2. plan.project \in Project /\ plan.slug \in Slugs
    BY <1>1 DEF IInv, PlanFits, Plan
<1>3. /\ projects' = [projects EXCEPT ![plan.slug] = plan.project]
      /\ proc'[p] \in {Idle, after}
      /\ \A q \in Procs \ {p} : proc'[q] = proc[q]
      /\ proc' \in [Procs -> Proc]
      /\ UNCHANGED <<git, clones, lastId, verbs, moves, faults, raced>>
    <2>1. after \in Proc /\ Idle \in Proc
        BY <1>1 DEF Proc
    <2>2. QED BY <2>1 DEF WriteProject, IInv, TypeOK
<1>4. projects' \in [Slugs -> Project \cup {NoProject}]
    BY <1>2, <1>3 DEF IInv, TypeOK
<1>5. TypeOK'
    BY <1>3, <1>4 DEF IInv, TypeOK
<1>6. /\ \A t \in Slugs : projects'[t] = IF t = plan.slug THEN plan.project ELSE projects[t]
      /\ Known' = Known \cup {plan.slug}
    <2>1. \A t \in Slugs : projects'[t] = IF t = plan.slug THEN plan.project ELSE projects[t]
        BY <1>3 DEF IInv, TypeOK
    <2>2. QED BY <2>1, <1>2, ProjectIsOne DEF Known
<1>7. ASSUME NEW q \in Procs PROVE PlanFits(q)' /\ FileFits(q)'
    <2>0. PlanFits(q) /\ FileFits(q)
        BY DEF IInv
    <2>1. CASE q = p
        <3>1. proc'[p] = Idle \/ (proc'[p].at = "load" /\ proc'[p].plan = plan)
            BY <1>3
        <3>2. CASE proc'[p] = Idle
            BY <2>1, <3>2 DEF PlanFits, FileFits, Idle
        <3>3. CASE proc'[p].at = "load" /\ proc'[p].plan = plan
            BY <1>6, <2>1, <3>3 DEF PlanFits, FileFits
        <3>4. QED BY <3>1, <3>2, <3>3
    <2>2. CASE q # p
        <3>1. FileFits(q)'
            BY <1>3, <2>0, <2>2 DEF FileFits
        <3>2. proc[q].at = "project" => proc[q] # Idle
            BY DEF Idle
        <3>3. proc[q].at = "project" => "journal" \in raced
            BY <1>1, <2>2, <3>2 DEF IInv, OneAtWork
        <3>4. PlanFits(q)'
            BY <1>3, <1>6, <2>0, <2>2, <3>3 DEF PlanFits
        <3>5. QED BY <3>1, <3>4
    <2>3. QED BY <2>1, <2>2
<1>8. OneAtWork'
    BY <1>1, <1>3, OneAtWorkStays DEF IInv
<1>9. RemotesOnce'
    <2>1. SUFFICES ASSUME "journal" \notin raced, NEW r \in Remotes,
                          NEW s \in Claiming(r)', NEW t \in Claiming(r)'
                   PROVE  s = t
        BY <1>3 DEF RemotesOnce
    <2>2. \A u \in Claiming(r)' : u = plan.slug \/ u \in Claiming(r)
        BY <1>6 DEF Claiming, Known
    <2>3. CASE plan.project.remote = r
        <3>1. Claiming(r) = {}
            BY <1>1, <2>1, <2>3 DEF IInv, PlanFits
        <3>2. QED BY <2>2, <3>1
    <2>4. CASE plan.project.remote # r
        <3>1. plan.slug \notin Claiming(r)'
            BY <1>2, <1>6, <2>4 DEF Claiming
        <3>2. s \in Claiming(r) /\ t \in Claiming(r)
            BY <2>2, <3>1
        <3>3. QED BY <2>1, <3>2 DEF IInv, RemotesOnce
    <2>5. QED BY <2>3, <2>4
<1>10. ClonesHaveProject'
    BY <1>3, <1>6 DEF IInv, ClonesHaveProject
<1>11. QED BY <1>5, <1>7, <1>8, <1>9, <1>10 DEF IInv

LEMMA ReadKeeps ==
    ASSUME IInv, NEW p \in Procs, ReadClones(p)
    PROVE  IInv'
<1> DEFINE plan == proc[p].plan
           m == proc[p].machine
           after == [at |-> "clones", machine |-> m, plan |-> plan,
                     file |-> clones[plan.slug][m]]
<1>1. /\ proc[p].at = "load" /\ proc[p] # Idle
      /\ proc[p] \in Proc /\ m \in Machines /\ plan \in Plan
    BY DEF ReadClones, IInv, TypeOK, Proc, Idle
<1>2. plan.slug \in Slugs /\ plan.slug \in Known /\ clones[plan.slug][m] \subseteq Clone
    BY <1>1 DEF IInv, TypeOK, PlanFits, Plan
<1>3. /\ proc'[p] = after
      /\ \A q \in Procs \ {p} : proc'[q] = proc[q]
      /\ proc' \in [Procs -> Proc]
      /\ UNCHANGED <<git, projects, clones, lastId, verbs, moves, faults, raced>>
    <2>1. after \in Proc
        BY <1>1, <1>2 DEF Proc
    <2>2. QED BY <2>1 DEF ReadClones, IInv, TypeOK
<1>4. TypeOK'
    BY <1>3 DEF IInv, TypeOK
<1>5. Known' = Known /\ \A r : Claiming(r)' = Claiming(r)
    BY <1>3 DEF Known, Claiming
<1>6. ASSUME NEW q \in Procs PROVE PlanFits(q)' /\ FileFits(q)'
    <2>1. CASE q = p
        BY <1>2, <1>3, <1>5, <2>1 DEF PlanFits, FileFits
    <2>2. CASE q # p
        BY <1>3, <1>5, <2>2 DEF IInv, PlanFits, FileFits
    <2>3. QED BY <2>1, <2>2
<1>7. OneAtWork'
    BY <1>1, <1>3, OneAtWorkStays DEF IInv
<1>8. RemotesOnce' /\ ClonesHaveProject'
    BY <1>3, <1>5 DEF IInv, RemotesOnce, ClonesHaveProject
<1>9. QED BY <1>4, <1>6, <1>7, <1>8 DEF IInv

\* An edit of a clones file keeps the type of its lines and loses no id.
LEMMA EditedKeeps ==
    ASSUME NEW plan \in Plan, NEW file \in SUBSET Clone
    PROVE  /\ Edited(plan, file) \subseteq Clone
           /\ {c.id : c \in file} \subseteq {c.id : c \in Edited(plan, file)}
<1> DEFINE new == plan.clone
           labelled(c) == IF c.id = new.id THEN [c EXCEPT !.label = new.label] ELSE c
           moved(c) == IF c.id = new.id THEN [c EXCEPT !.dir = new.dir] ELSE c
<1>1. new \in Clone
    BY DEF Plan
<1>2. \A c \in file : /\ labelled(c) \in Clone /\ labelled(c).id = c.id
                      /\ moved(c) \in Clone /\ moved(c).id = c.id
    BY <1>1 DEF Clone
<1>3. CASE plan.edit = "add"
    BY <1>1, <1>3 DEF Edited
<1>4. CASE plan.edit = "label"
    <2>1. Edited(plan, file) = {labelled(c) : c \in file}
        BY <1>4 DEF Edited
    <2>2. \A c \in file : labelled(c) \in Edited(plan, file)
        BY <2>1
    <2> HIDE DEF labelled
    <2>3. Edited(plan, file) \subseteq Clone
        BY <1>2, <2>1, ZenonT(30)
    <2>4. ASSUME NEW c \in file PROVE \E e \in Edited(plan, file) : e.id = c.id
        BY <1>2, <2>2
    <2>5. QED BY <2>3, <2>4
<1>5. CASE plan.edit \notin {"add", "label"}
    <2>1. Edited(plan, file) = {moved(c) : c \in file}
        BY <1>5 DEF Edited
    <2>2. \A c \in file : moved(c) \in Edited(plan, file)
        BY <2>1
    <2> HIDE DEF moved
    <2>3. Edited(plan, file) \subseteq Clone
        BY <1>2, <2>1, ZenonT(30)
    <2>4. ASSUME NEW c \in file PROVE \E e \in Edited(plan, file) : e.id = c.id
        BY <1>2, <2>2
    <2>5. QED BY <2>3, <2>4
<1>6. QED BY <1>3, <1>4, <1>5

\* What WriteClones does, spelled out.
LEMMA WriteClonesStep ==
    ASSUME IInv, NEW p \in Procs, WriteClones(p)
    PROVE  LET plan == proc[p].plan
               m == proc[p].machine
           IN /\ proc[p].at = "clones" /\ proc[p] # Idle
              /\ m \in Machines /\ plan \in Plan /\ proc[p].file \in SUBSET Clone
              /\ plan.slug \in Slugs /\ plan.slug \in Known
              /\ \A s \in Slugs, n \in Machines :
                   clones'[s][n] = IF s = plan.slug /\ n = m
                                   THEN Edited(plan, proc[p].file) ELSE clones[s][n]
              /\ clones' \in [Slugs -> [Machines -> SUBSET Clone]]
              /\ proc'[p] = Idle
              /\ \A q \in Procs \ {p} : proc'[q] = proc[q]
              /\ proc' \in [Procs -> Proc]
<1> DEFINE plan == proc[p].plan
           m == proc[p].machine
           new == Edited(plan, proc[p].file)
<1>0. proc[p].at = "clones" /\ proc[p] \in Proc
    BY DEF WriteClones, IInv, TypeOK
<1>1. /\ proc[p].at = "clones" /\ proc[p] # Idle
      /\ m \in Machines /\ plan \in Plan /\ proc[p].file \in SUBSET Clone
    <2>1. proc[p] \in [at : {"clones"}, machine : Machines, plan : Plan,
                       file : SUBSET Clone]
        BY <1>0 DEF Proc, Idle
    <2>2. QED BY <1>0, <2>1 DEF Idle
<1>2. plan.slug \in Slugs /\ plan.slug \in Known
    BY <1>1 DEF IInv, PlanFits, Plan
<1>3. new \in SUBSET Clone
    BY <1>1, EditedKeeps
<1>4. /\ clones \in [Slugs -> [Machines -> SUBSET Clone]]
      /\ clones' = [clones EXCEPT ![plan.slug] = [clones[plan.slug] EXCEPT ![m] = new]]
    BY DEF WriteClones, IInv, TypeOK
<1> HIDE DEF new
<1>5. clones' \in [Slugs -> [Machines -> SUBSET Clone]]
    BY <1>1, <1>2, <1>3, <1>4
<1>6. \A s \in Slugs, n \in Machines :
         clones'[s][n] = IF s = plan.slug /\ n = m THEN new ELSE clones[s][n]
    BY <1>1, <1>2, <1>4
<1>7. /\ proc'[p] = Idle /\ \A q \in Procs \ {p} : proc'[q] = proc[q]
      /\ proc' \in [Procs -> Proc]
    BY DEF WriteClones, IInv, TypeOK, Proc
<1>8. QED BY <1>1, <1>2, <1>5, <1>6, <1>7 DEF new

LEMMA WriteClonesKeeps ==
    ASSUME IInv, NEW p \in Procs, WriteClones(p)
    PROVE  IInv'
<1> DEFINE plan == proc[p].plan
           m == proc[p].machine
<1>1. UNCHANGED <<git, projects, lastId, verbs, moves, faults, raced>>
    BY DEF WriteClones
<1>2. /\ proc[p].at = "clones" /\ proc[p] # Idle
      /\ plan.slug \in Slugs /\ plan.slug \in Known
      /\ \A s \in Slugs, n \in Machines :
            s # plan.slug \/ n # m => clones'[s][n] = clones[s][n]
      /\ clones' \in [Slugs -> [Machines -> SUBSET Clone]]
      /\ proc'[p] = Idle
      /\ \A q \in Procs \ {p} : proc'[q] = proc[q]
      /\ proc' \in [Procs -> Proc]
    BY WriteClonesStep
<1>3. TypeOK'
    BY <1>1, <1>2 DEF IInv, TypeOK
<1>4. Known' = Known /\ \A r : Claiming(r)' = Claiming(r)
    BY <1>1 DEF Known, Claiming
<1>5. ASSUME NEW q \in Procs PROVE PlanFits(q)' /\ FileFits(q)'
    <2>0. PlanFits(q) /\ FileFits(q)
        BY DEF IInv
    <2>1. CASE q = p
        BY <1>2, <2>1 DEF PlanFits, FileFits, Idle
    <2>2. CASE q # p
        <3>1. PlanFits(q)'
            BY <1>1, <1>2, <1>4, <2>0, <2>2 DEF PlanFits
        <3>2. ASSUME proc[q].at = "clones", proc[q].machine \notin raced
              PROVE  proc[q].file = clones'[proc[q].plan.slug][proc[q].machine]
            <4>1. proc[q] # Idle /\ proc[q].machine \in Machines
                  /\ proc[q].plan.slug \in Slugs
                BY <3>2 DEF IInv, TypeOK, Proc, Idle, Plan
            <4>2. proc[q].machine # m
                BY <1>2, <2>2, <3>2, <4>1 DEF IInv, OneAtWork
            <4>3. QED BY <1>2, <2>0, <3>2, <4>1, <4>2 DEF FileFits
        <3>3. FileFits(q)'
            BY <1>1, <1>2, <2>2, <3>2 DEF FileFits
        <3>4. QED BY <3>1, <3>3
    <2>3. QED BY <2>1, <2>2
<1>6. OneAtWork'
    BY <1>1, <1>2, OneAtWorkStays DEF IInv
<1>7. RemotesOnce'
    BY <1>1, <1>4 DEF IInv, RemotesOnce
<1>8. ClonesHaveProject'
    <2>1. SUFFICES ASSUME NEW s \in Slugs, NEW n \in Machines, clones'[s][n] # {}
                   PROVE  s \in Known
        BY <1>4 DEF ClonesHaveProject
    <2>2. QED BY <1>2, <2>1 DEF IInv, ClonesHaveProject
<1>9. QED BY <1>3, <1>5, <1>6, <1>7, <1>8 DEF IInv

LEMMA AbortKeeps ==
    ASSUME IInv, NEW p \in Procs, Abort(p)
    PROVE  IInv'
<1>1. /\ proc[p] # Idle /\ proc'[p] = Idle
      /\ \A q \in Procs \ {p} : proc'[q] = proc[q]
      /\ proc' \in [Procs -> Proc] /\ faults' \in 0..MaxFaults
      /\ UNCHANGED <<git, projects, clones, lastId, verbs, moves, raced>>
    BY DEF Abort, IInv, TypeOK, Proc
<1>2. TypeOK'
    BY <1>1 DEF IInv, TypeOK
<1>3. Known' = Known /\ \A r : Claiming(r)' = Claiming(r)
    BY <1>1 DEF Known, Claiming
<1>4. ASSUME NEW q \in Procs PROVE PlanFits(q)' /\ FileFits(q)'
    <2>1. CASE q = p
        BY <1>1, <2>1 DEF PlanFits, FileFits, Idle
    <2>2. CASE q # p
        BY <1>1, <1>3, <2>2, ZenonT(30) DEF IInv, PlanFits, FileFits
    <2>3. QED BY <2>1, <2>2
<1>5. OneAtWork'
    BY <1>1, OneAtWorkStays DEF IInv
<1>6. RemotesOnce' /\ ClonesHaveProject'
    BY <1>1, <1>3 DEF IInv, RemotesOnce, ClonesHaveProject
<1>7. QED BY <1>2, <1>4, <1>5, <1>6 DEF IInv

\* The steps of the repositories, and the steps that change nothing.
LEMMA OutsideKeeps ==
    ASSUME IInv, UNCHANGED <<projects, clones, proc, lastId, verbs, faults, raced>>,
           git' \in [Machines -> [Dirs -> Remotes \cup {NoRepo, Local, Unnamed}]],
           moves' \in 0..MaxMoves
    PROVE  IInv'
<1>1. TypeOK'
    BY DEF IInv, TypeOK
<1>2. Known' = Known /\ \A r : Claiming(r)' = Claiming(r)
    BY DEF Known, Claiming
<1>3. \A q \in Procs : PlanFits(q)' /\ FileFits(q)'
    BY <1>2 DEF IInv, PlanFits, FileFits
<1>4. OneAtWork' /\ RemotesOnce' /\ ClonesHaveProject'
    BY <1>2 DEF IInv, OneAtWork, RemotesOnce, ClonesHaveProject
<1>5. QED BY <1>1, <1>3, <1>4 DEF IInv

LEMMA InitInv == Init => IInv
<1> SUFFICES ASSUME Init PROVE IInv
    OBVIOUS
<1>2. /\ \A s \in Slugs : projects[s] = NoProject
      /\ \A s \in Slugs, m \in Machines : clones[s][m] = {}
      /\ \A p \in Procs : proc[p] = Idle
    BY DEF Init
<1>3. TypeOK
    <2>1. git \in [Machines -> [Dirs -> Remotes \cup {NoRepo, Local, Unnamed}]]
        BY DEF Init
    <2>2. proc \in [Procs -> Proc]
        BY DEF Init, Proc
    <2>3. projects \in [Slugs -> Project \cup {NoProject}]
          /\ clones \in [Slugs -> [Machines -> SUBSET Clone]]
        BY DEF Init
    <2>4. QED BY <2>1, <2>2, <2>3 DEF Init, TypeOK
<1>4. Known = {}
    BY <1>2 DEF Known
<1>5. \A p \in Procs : PlanFits(p) /\ FileFits(p)
    BY <1>2 DEF PlanFits, FileFits, Idle
<1>6. OneAtWork /\ RemotesOnce /\ ClonesHaveProject
    BY <1>2, <1>4 DEF OneAtWork, RemotesOnce, ClonesHaveProject, Claiming
<1>7. QED BY <1>3, <1>5, <1>6 DEF IInv

LEMMA NextKeeps == IInv /\ [Next]_vars => IInv'
<1>1. SUFFICES ASSUME IInv, [Next]_vars PROVE IInv'
    OBVIOUS
<1>2. ASSUME NEW p \in Procs, NEW m \in Machines, NEW d \in Dirs,
             \/ \E s \in Slugs : JoinProject(p, m, d, s) \/ CreateProject(p, m, d, s)
             \/ \E l \in Flags \ {Shaped} : BeginLabel(p, m, d, l)
             \/ BeginAdopt(p, m, d)
             \/ BeginRelink(p, m, d)
      PROVE  IInv'
    BY <1>1, <1>2, JoinKeeps, CreateKeeps, LabelKeeps, AdoptKeeps, RelinkKeeps
<1>3. ASSUME NEW p \in Procs, WriteProject(p) \/ ReadClones(p) \/ WriteClones(p) \/ Abort(p)
      PROVE  IInv'
    BY <1>1, <1>3, WriteProjectKeeps, ReadKeeps, WriteClonesKeeps, AbortKeeps
<1>4. ASSUME NEW m \in Machines, NEW d \in Dirs, NEW e \in Dirs, Move(m, d, e)
      PROVE  IInv'
    <2>1. git' = [git EXCEPT ![m] = [git[m] EXCEPT ![d] = NoRepo, ![e] = git[m][d]]]
        BY <1>4 DEF Move
    <2>2. git' \in [Machines -> [Dirs -> Remotes \cup {NoRepo, Local, Unnamed}]]
        BY <1>1, <2>1 DEF IInv, TypeOK
    <2>3. moves' \in 0..MaxMoves
        BY <1>1, <1>4 DEF Move, IInv, TypeOK
    <2>4. QED BY <1>1, <1>4, <2>2, <2>3, OutsideKeeps DEF Move
<1>5. ASSUME NEW m \in Machines, NEW d \in Dirs, NEW r \in Remotes, AddRemote(m, d, r)
      PROVE  IInv'
    <2>1. git' = [git EXCEPT ![m] = [git[m] EXCEPT ![d] = r]]
        BY <1>5 DEF AddRemote
    <2>2. git' \in [Machines -> [Dirs -> Remotes \cup {NoRepo, Local, Unnamed}]]
        BY <1>1, <2>1 DEF IInv, TypeOK
    <2>3. moves' \in 0..MaxMoves
        BY <1>1, <1>5 DEF AddRemote, IInv, TypeOK
    <2>4. QED BY <1>1, <1>5, <2>2, <2>3, OutsideKeeps DEF AddRemote
<1>6. CASE UNCHANGED vars
    BY <1>1, <1>6, OutsideKeeps DEF vars, IInv, TypeOK
<1>7. QED BY <1>1, <1>2, <1>3, <1>4, <1>5, <1>6 DEF Next

LEMMA SpecIInv == Spec => []IInv
BY InitInv, NextKeeps, PTL DEF Spec

-----------------------------------------------------------------------------
(* The registry's guarantees. *)

\* The variables keep their types: no verb mints an id or writes a document
\* that registry.go could not read back.
THEOREM RegistryTypeCorrect == Spec => []TypeOK
<1>1. IInv => TypeOK
    BY DEF IInv
<1>2. QED BY <1>1, SpecIInv, PTL

\* No clones file stands without its project.json, wherever a verb was cut
\* off and whatever verbs overlapped: init writes project.json first.
THEOREM ClonesAlwaysHaveProject == Spec => []ClonesHaveProject
<1>1. IInv => ClonesHaveProject
    BY DEF IInv
<1>2. QED BY <1>1, SpecIInv, PTL

\* init's and adopt's look for the projects of a remote keeps a remote to one
\* project, for as long as no verb starts while another is at work.
THEOREM RemotesStayUnique == Spec => []OneProjectPerRemote
<1>1. IInv => OneProjectPerRemote
    <2>1. SUFFICES ASSUME IInv, "journal" \notin raced, NEW r \in Remotes
                   PROVE  Cardinality(Claiming(r)) <= 1
        BY DEF OneProjectPerRemote
    <2>2. CASE Claiming(r) = {}
        BY <2>2, FS_EmptySet
    <2>3. CASE Claiming(r) # {}
        <3>0. PICK s : s \in Claiming(r)
            BY <2>3
        <3>1. Claiming(r) = {s}
            BY <2>1, <3>0 DEF IInv, RemotesOnce
        <3>2. Cardinality(Claiming(r)) = 1
            BY <3>1, FS_Singleton
        <3>3. QED BY <3>2
    <2>4. QED BY <2>2, <2>3
<1>2. QED BY <1>1, SpecIInv, PTL

\* The rewrite of a clones file keeps the clones of every verb that ended
\* before it read the file: the overlaps of other machines do no harm.
THEOREM ClonesAlwaysKept == Spec => ClonesKept
<1> DEFINE Kept == \A s \in Slugs : \A m \in Machines \ raced' :
                     {c.id : c \in clones[s][m]} \subseteq {c.id : c \in clones'[s][m]}
<1>1. IInv /\ [Next]_vars => [Kept]_vars
    <2>1. SUFFICES ASSUME IInv, Next PROVE Kept
        OBVIOUS
    <2>2. CASE UNCHANGED clones
        BY <2>2
    <2>3. ASSUME NEW p \in Procs, WriteClones(p) PROVE Kept
        <3>1. TAKE s \in Slugs
        <3>2. TAKE m \in Machines \ raced'
        <3>3. raced' = raced
            BY <2>3 DEF WriteClones
        <3>4. /\ proc[p].at = "clones" /\ proc[p].plan \in Plan
              /\ proc[p].file \in SUBSET Clone
              /\ clones'[s][m] = IF s = proc[p].plan.slug /\ m = proc[p].machine
                                 THEN Edited(proc[p].plan, proc[p].file)
                                 ELSE clones[s][m]
            BY <2>1, <2>3, WriteClonesStep
        <3>5. CASE s = proc[p].plan.slug /\ m = proc[p].machine
            <4>1. proc[p].file = clones[s][m]
                BY <2>1, <3>3, <3>4, <3>5 DEF IInv, FileFits
            <4>2. QED BY <3>4, <3>5, <4>1, EditedKeeps
        <3>6. QED BY <3>4, <3>5
    <2>4. UNCHANGED clones \/ \E p \in Procs : WriteClones(p)
        <3>1. ASSUME NEW p \in Procs, NEW m \in Machines, NEW d \in Dirs,
                     \/ \E s \in Slugs : JoinProject(p, m, d, s) \/ CreateProject(p, m, d, s)
                     \/ \E l \in Flags \ {Shaped} : BeginLabel(p, m, d, l)
                     \/ BeginAdopt(p, m, d) \/ BeginRelink(p, m, d)
              PROVE  UNCHANGED clones
            BY <3>1 DEF Start, JoinProject, CreateProject, PlanProject, BeginLabel,
                        BeginAdopt, PlanAdopt, BeginRelink, PlanRelink
        <3>2. ASSUME NEW p \in Procs, WriteProject(p) \/ ReadClones(p) \/ Abort(p)
              PROVE  UNCHANGED clones
            BY <3>2 DEF WriteProject, ReadClones, Abort
        <3>3. ASSUME NEW m \in Machines, NEW d \in Dirs, NEW e \in Dirs, Move(m, d, e)
              PROVE  UNCHANGED clones
            BY <3>3 DEF Move
        <3>4. ASSUME NEW m \in Machines, NEW d \in Dirs, NEW r \in Remotes, AddRemote(m, d, r)
              PROVE  UNCHANGED clones
            BY <3>4 DEF AddRemote
        <3>5. QED BY <2>1, <3>1, <3>2, <3>3, <3>4 DEF Next
    <2>5. QED BY <2>2, <2>3, <2>4
<1>2. QED BY <1>1, SpecIInv, PTL DEF Spec, ClonesKept

\* A project never changes its id or the remote it has: adopt gives one to a
\* project without, and init never writes over one.
THEOREM IdentitiesAlwaysStand == Spec => IdentitiesStand
<1> DEFINE Stand ==
      "journal" \notin raced' =>
        \A s \in Known :
          /\ projects'[s].id = projects[s].id
          /\ projects[s].remote # Local => projects'[s].remote = projects[s].remote
<1>1. IInv /\ [Next]_vars => [Stand]_vars
    <2>1. SUFFICES ASSUME IInv, Next PROVE Stand
        OBVIOUS
    <2>2. CASE UNCHANGED projects
        BY <2>2
    <2>3. ASSUME NEW p \in Procs, WriteProject(p), "journal" \notin raced',
                 NEW s \in Known
          PROVE  /\ projects'[s].id = projects[s].id
                 /\ projects[s].remote # Local => projects'[s].remote = projects[s].remote
        <3>1. /\ proc[p].at = "project" /\ raced' = raced /\ s \in Slugs
              /\ projects' = [projects EXCEPT ![proc[p].plan.slug] = proc[p].plan.project]
              /\ projects \in [Slugs -> Project \cup {NoProject}]
            BY <2>1, <2>3 DEF WriteProject, Known, IInv, TypeOK
        <3>2. CASE s # proc[p].plan.slug
            BY <3>1, <3>2
        <3>3. CASE s = proc[p].plan.slug
            <4>1. projects[s].remote = Local /\ proc[p].plan.project.id = projects[s].id
                BY <2>1, <2>3, <3>1, <3>3 DEF IInv, PlanFits
            <4>2. QED BY <3>1, <3>3, <4>1
        <3>4. QED BY <3>2, <3>3
    <2>4. UNCHANGED projects \/ \E p \in Procs : WriteProject(p)
        <3>1. ASSUME NEW p \in Procs, NEW m \in Machines, NEW d \in Dirs,
                     \/ \E s \in Slugs : JoinProject(p, m, d, s) \/ CreateProject(p, m, d, s)
                     \/ \E l \in Flags \ {Shaped} : BeginLabel(p, m, d, l)
                     \/ BeginAdopt(p, m, d) \/ BeginRelink(p, m, d)
              PROVE  UNCHANGED projects
            BY <3>1 DEF Start, JoinProject, CreateProject, PlanProject, BeginLabel,
                        BeginAdopt, PlanAdopt, BeginRelink, PlanRelink
        <3>2. ASSUME NEW p \in Procs, WriteClones(p) \/ ReadClones(p) \/ Abort(p)
              PROVE  UNCHANGED projects
            BY <3>2 DEF WriteClones, ReadClones, Abort
        <3>3. ASSUME NEW m \in Machines, NEW d \in Dirs, NEW e \in Dirs, Move(m, d, e)
              PROVE  UNCHANGED projects
            BY <3>3 DEF Move
        <3>4. ASSUME NEW m \in Machines, NEW d \in Dirs, NEW r \in Remotes, AddRemote(m, d, r)
              PROVE  UNCHANGED projects
            BY <3>4 DEF AddRemote
        <3>5. QED BY <2>1, <3>1, <3>2, <3>3, <3>4 DEF Next
    <2>5. QED BY <2>2, <2>3, <2>4
<1>2. QED BY <1>1, SpecIInv, PTL DEF Spec, IdentitiesStand

-----------------------------------------------------------------------------
(***************************************************************************)
(* What names a clone names one: a directory of a machine is registered    *)
(* once, and a label of a project stands for one of its clones there.      *)
(***************************************************************************)

\* Every id on file, read or planned has been minted.
Minted ==
    /\ \A s \in Slugs, m \in Machines : \A c \in clones[s][m] : c.id <= lastId
    /\ \A p \in Procs : proc[p] # Idle => proc[p].plan.clone.id <= lastId
    /\ \A p \in Procs : proc[p].at = "clones" => \A c \in proc[p].file : c.id <= lastId

\* Two lines of a machine's files are of two clones in two directories.
LinesOnce ==
    \A m \in Machines \ raced : \A s, t \in Slugs :
      \A a \in clones[s][m], b \in clones[t][m] :
        a.id = b.id \/ a.dir = b.dir => s = t /\ a = b

\* Two lines of a machine's file are of two clones with two labels.
LabelsOnce ==
    \A m \in Machines \ raced, s \in Slugs : \A a, b \in clones[s][m] :
        a.id = b.id \/ a.label = b.label => a = b

\* A plan's clone gets in nobody's way: no line of its machine has the directory,
\* and none of its project there the label, that it is about to take.
ClearHere(plan, m) ==
    \A s \in Slugs : \A c \in clones[s][m] :
        /\ plan.edit = "add" => c.dir # plan.clone.dir /\ c.id # plan.clone.id
        /\ plan.edit = "relink" /\ c.dir = plan.clone.dir => c.id = plan.clone.id
ClearInProject(plan, m) ==
    \A c \in clones[plan.slug][m] :
        /\ plan.edit = "add" => c.label # plan.clone.label /\ c.id # plan.clone.id
        /\ plan.edit = "label" /\ c.label = plan.clone.label => c.id = plan.clone.id
PlanOnce(p) ==
    proc[p] # Idle =>
        /\ proc[p].at # "project" => proc[p].plan.edit # "none"
        /\ proc[p].machine \notin raced =>
             /\ ClearHere(proc[p].plan, proc[p].machine)
             /\ ClearInProject(proc[p].plan, proc[p].machine)

OInv ==
    /\ Minted
    /\ LinesOnce
    /\ LabelsOnce
    /\ \A p \in Procs : PlanOnce(p)
-----------------------------------------------------------------------------
(* The verbs' first halves. *)

LEMMA StartOnce ==
    ASSUME IInv, OInv, NEW p \in Procs, NEW m \in Machines, NEW plan \in Plan,
           NEW at \in {"project", "load"}, Start(p, m, at, plan),
           lastId' \in Nat, lastId <= lastId', plan.clone.id <= lastId',
           ClearHere(plan, m), ClearInProject(plan, m),
           at = "load" => plan.edit # "none"
    PROVE  OInv'
<1> DEFINE after == [at |-> at, machine |-> m, plan |-> plan]
<1>1. /\ proc[p] = Idle /\ raced \subseteq raced' /\ raced' = Overlaps(p, m)
      /\ UNCHANGED <<projects, clones>>
      /\ proc'[p] = after
      /\ \A q \in Procs \ {p} : proc'[q] = proc[q]
    BY DEF Start, Overlaps, IInv, TypeOK
<1>2. Minted'
    <2>1. ASSUME NEW x \in Ids, x <= lastId PROVE x <= lastId'
        BY <2>1 DEF IInv, TypeOK, Ids
    <2>2. \A s \in Slugs, n \in Machines : \A c \in clones'[s][n] : c.id <= lastId'
        BY <1>1, <2>1 DEF OInv, Minted, IInv, TypeOK, Clone
    <2>3. ASSUME NEW q \in Procs, proc'[q] # Idle
          PROVE  proc'[q].plan.clone.id <= lastId'
        <3>1. CASE q = p
            BY <1>1, <3>1
        <3>2. CASE q # p
            <4>1. proc[q].plan.clone.id \in Ids
                BY <1>1, <2>3, <3>2 DEF IInv, TypeOK, Proc, Plan, Clone
            <4>2. QED BY <1>1, <2>1, <2>3, <3>2, <4>1 DEF OInv, Minted
        <3>3. QED BY <3>1, <3>2
    <2>4. ASSUME NEW q \in Procs, proc'[q].at = "clones", NEW c \in proc'[q].file
          PROVE  c.id <= lastId'
        <3>1. q # p
            BY <1>1, <2>4
        <3>2. proc[q].file \subseteq Clone
            <4>1. proc[q] \in Proc /\ proc[q].at = "clones"
                BY <1>1, <2>4, <3>1 DEF IInv, TypeOK
            <4>2. proc[q] \in [at : {"clones"}, machine : Machines, plan : Plan,
                               file : SUBSET Clone]
                BY <4>1 DEF Proc, Idle
            <4>3. QED BY <4>2
        <3>3. c.id \in Ids
            BY <1>1, <2>4, <3>1, <3>2 DEF Clone
        <3>4. QED BY <1>1, <2>1, <2>4, <3>1, <3>3 DEF OInv, Minted
    <2>5. QED BY <2>2, <2>3, <2>4 DEF Minted
<1>3. LinesOnce' /\ LabelsOnce'
    BY <1>1 DEF OInv, LinesOnce, LabelsOnce
<1>5. ASSUME NEW q \in Procs PROVE PlanOnce(q)'
    <2>1. CASE q = p
        BY <1>1, <2>1 DEF PlanOnce, ClearHere, ClearInProject
    <2>2. CASE q # p
        BY <1>1, <2>2 DEF OInv, PlanOnce, ClearHere, ClearInProject
    <2>3. QED BY <2>1, <2>2
<1>6. QED BY <1>2, <1>3, <1>5 DEF OInv

\* Where nothing is registered at a directory, no line is at it.
LEMMA NotLocated ==
    ASSUME IInv, NEW m \in Machines, NEW d,
           NEW s \in Slugs, NEW c \in clones[s][m], c.dir = d
    PROVE  [slug |-> s, clone |-> c] \in Located(m, d)
<1>1. s \in Known
    BY DEF IInv, ClonesHaveProject
<1>2. [slug |-> s, clone |-> c] \in Registered(m)
    BY <1>1 DEF Registered
<1>3. QED BY <1>2 DEF Located

\* The label of a new clone is one that was not taken.
LEMMA NewLabelsFree ==
    ASSUME NEW d \in Dirs, NEW taken, NEW l \in NewLabels(d, taken)
    PROVE  l \notin taken
BY DEF NewLabels, DefaultLabels, Suggested

LEMMA IdsMinted ==
    ASSUME IInv, OInv, NEW s \in Slugs, NEW m \in Machines, NEW c \in clones[s][m]
    PROVE  /\ c \in Clone /\ c.id \in Ids /\ lastId \in Nat /\ c.id <= lastId
           /\ \A x \in Nat : lastId < x => c.id # x
BY DEF IInv, OInv, Minted, TypeOK, Clone, Ids

LEMMA TakenLabels ==
    ASSUME NEW s \in Slugs, NEW m \in Machines, NEW c \in clones[s][m]
    PROVE  /\ [clone |-> c, machine |-> m] \in Rows(s)
           /\ c.label \in Taken(s)
<1>1. [clone |-> c, machine |-> m] \in Rows(s)
    BY DEF Rows
<1>2. QED BY <1>1 DEF Taken

LEMMA JoinOnce ==
    ASSUME IInv, OInv, NEW p \in Procs, NEW m \in Machines, NEW d \in Dirs,
           NEW s \in Slugs, JoinProject(p, m, d, s)
    PROVE  OInv'
<1>1. PICK label \in NewLabels(d, Taken(s)) :
         Start(p, m, "load",
               [slug |-> s, project |-> NoProject, edit |-> "add",
                clone |-> [id |-> lastId + 1, dir |-> d, label |-> label]])
    BY DEF JoinProject
<1> DEFINE clone == [id |-> lastId + 1, dir |-> d, label |-> label]
           plan == [slug |-> s, project |-> NoProject, edit |-> "add", clone |-> clone]
<1>2. /\ lastId' = lastId + 1 /\ lastId + 1 \in Ids /\ lastId \in Nat
      /\ Located(m, d) = {}
    BY DEF JoinProject, IInv, TypeOK
<1>3. plan \in Plan
    BY <1>2, LabelTypes DEF Clone, Plan
<1>4. ClearHere(plan, m)
    <2>1. SUFFICES ASSUME NEW t \in Slugs, NEW c \in clones[t][m]
                   PROVE  c.dir # clone.dir /\ c.id # clone.id
        BY DEF ClearHere
    <2>2. c.dir # d
        BY <1>2, NotLocated
    <2>3. QED BY <1>2, <2>2, IdsMinted
<1>5. ClearInProject(plan, m)
    <2>1. SUFFICES ASSUME NEW c \in clones[s][m]
                   PROVE  c.label # clone.label /\ c.id # clone.id
        BY DEF ClearInProject
    <2>2. c.label # label
        <3>1. label \notin Taken(s)
            BY NewLabelsFree
        <3>2. c.label \in Taken(s)
            BY TakenLabels
        <3>3. QED BY <3>1, <3>2
    <2>3. QED BY <1>2, <2>2, IdsMinted
<1>6. QED BY <1>1, <1>2, <1>3, <1>4, <1>5, StartOnce

LEMMA CreateOnce ==
    ASSUME IInv, OInv, NEW p \in Procs, NEW m \in Machines, NEW d \in Dirs,
           NEW s \in Slugs, CreateProject(p, m, d, s)
    PROVE  OInv'
<1> DEFINE project == [id |-> lastId + 1, remote |-> git[m][d]]
<1>1. PICK label \in NewLabels(d, {}) :
         Start(p, m, "project",
               [slug |-> s, project |-> project, edit |-> "add",
                clone |-> [id |-> lastId + 2, dir |-> d, label |-> label]])
    BY DEF CreateProject, PlanProject
<1> DEFINE clone == [id |-> lastId + 2, dir |-> d, label |-> label]
           plan == [slug |-> s, project |-> project, edit |-> "add", clone |-> clone]
<1>2. /\ lastId' = lastId + 2 /\ lastId + 2 \in Ids /\ lastId \in Nat
      /\ s \notin Known /\ Located(m, d) = {}
      /\ git[m][d] \in Remotes \cup {Local}
    BY DEF CreateProject, PlanProject, IInv, TypeOK
<1>3. lastId + 1 \in Ids
    BY <1>2 DEF Ids
<1>4. plan \in Plan
    BY <1>2, <1>3, LabelTypes DEF Clone, Plan, Project
<1>5. ClearHere(plan, m)
    <2>1. SUFFICES ASSUME NEW t \in Slugs, NEW c \in clones[t][m]
                   PROVE  c.dir # clone.dir /\ c.id # clone.id
        BY DEF ClearHere
    <2>2. c.dir # d
        BY <1>2, NotLocated
    <2>3. QED BY <1>2, <2>2, IdsMinted
<1>6. ClearInProject(plan, m)
    BY <1>2 DEF ClearInProject, IInv, ClonesHaveProject
<1>7. QED BY <1>1, <1>2, <1>4, <1>5, <1>6, StartOnce

LEMMA LabelOnce ==
    ASSUME IInv, OInv, NEW p \in Procs, NEW m \in Machines, NEW d \in Dirs,
           NEW l \in Flags \ {Shaped}, BeginLabel(p, m, d, l)
    PROVE  OInv'
<1>1. PICK r \in Located(m, d) :
         /\ \A other \in ByLabel(r.slug, l) : other.clone.id = r.clone.id
         /\ Start(p, m, "load",
                  [slug |-> r.slug, project |-> NoProject, edit |-> "label",
                   clone |-> [r.clone EXCEPT !.label = l]])
    BY DEF BeginLabel
<1> DEFINE clone == [r.clone EXCEPT !.label = l]
           plan == [slug |-> r.slug, project |-> NoProject, edit |-> "label",
                    clone |-> clone]
<1>2. r \in Registered(m) /\ l \in Labels /\ lastId' = lastId
    BY DEF Located, Labels, BeginLabel
<1>3. /\ r.slug \in Slugs /\ r.clone \in Clone /\ r.clone \in clones[r.slug][m]
    BY <1>2, LocatedTypes DEF IInv
<1>4. clone \in Clone /\ clone.id = r.clone.id /\ clone.label = l
    BY <1>2, <1>3 DEF Clone
<1>5. plan \in Plan
    BY <1>3, <1>4 DEF Plan
<1>6. clone.id <= lastId' /\ lastId' \in Nat /\ lastId <= lastId'
    BY <1>2, <1>3, <1>4, IdsMinted
<1>7. ClearHere(plan, m)
    BY DEF ClearHere
<1>8. ClearInProject(plan, m)
    <2>1. SUFFICES ASSUME NEW c \in clones[r.slug][m], c.label = l
                   PROVE  c.id = clone.id
        BY <1>4 DEF ClearInProject
    <2>2. [clone |-> c, machine |-> m] \in ByLabel(r.slug, l)
        BY <1>3, <2>1, TakenLabels DEF ByLabel
    <2>3. QED BY <1>1, <1>4, <2>2
<1>9. QED BY <1>1, <1>5, <1>6, <1>7, <1>8, StartOnce

LEMMA AdoptOnce ==
    ASSUME IInv, OInv, NEW p \in Procs, NEW m \in Machines, NEW d \in Dirs,
           BeginAdopt(p, m, d)
    PROVE  OInv'
<1>1. PICK r \in Located(m, d) :
         Start(p, m, "project",
               [slug |-> r.slug,
                project |-> [projects[r.slug] EXCEPT !.remote = git[m][d]],
                edit |-> "none", clone |-> r.clone])
    BY DEF BeginAdopt, PlanAdopt
<1> DEFINE project == [projects[r.slug] EXCEPT !.remote = git[m][d]]
           plan == [slug |-> r.slug, project |-> project, edit |-> "none",
                    clone |-> r.clone]
<1>2. /\ git[m][d] \in Remotes /\ lastId' = lastId
      /\ r \in Registered(m)
    BY DEF BeginAdopt, PlanAdopt, Located
<1>3. /\ r.slug \in Known /\ r.slug \in Slugs
      /\ r.clone \in Clone /\ r.clone \in clones[r.slug][m]
    BY <1>2, LocatedTypes DEF IInv
<1>4. project \in Project
    <2>1. projects[r.slug] \in Project
        BY <1>3, KnownType DEF IInv
    <2>2. QED BY <1>2, <2>1 DEF Project
<1>5. plan \in Plan
    BY <1>3, <1>4 DEF Plan
<1>6. plan.clone.id <= lastId' /\ lastId' \in Nat /\ lastId <= lastId'
    BY <1>2, <1>3, IdsMinted
<1>7. ClearHere(plan, m) /\ ClearInProject(plan, m)
    BY DEF ClearHere, ClearInProject
<1>8. QED BY <1>1, <1>5, <1>6, <1>7, StartOnce

LEMMA RelinkOnce ==
    ASSUME IInv, OInv, NEW p \in Procs, NEW m \in Machines, NEW d \in Dirs,
           BeginRelink(p, m, d)
    PROVE  OInv'
<1>1. PICK found \in Locators(m, d) :
         /\ \A other \in Located(m, d), r \in found : other.clone.id = r.clone.id
         /\ PlanRelink(p, m, d, found)
    BY DEF BeginRelink
<1>2. found \subseteq Registered(m)
    BY DEF Locators, WithId, Named
<1>3. PICK r \in found :
         Start(p, m, "load",
               [slug |-> r.slug, project |-> NoProject, edit |-> "relink",
                clone |-> [r.clone EXCEPT !.dir = d]])
    BY <1>1 DEF PlanRelink
<1> DEFINE clone == [r.clone EXCEPT !.dir = d]
           plan == [slug |-> r.slug, project |-> NoProject, edit |-> "relink",
                    clone |-> clone]
<1>4. r.slug \in Slugs /\ r.clone \in Clone /\ r.clone \in clones[r.slug][m]
    BY <1>2, LocatedTypes DEF IInv
<1>5. clone \in Clone /\ clone.id = r.clone.id /\ clone.dir = d
    BY <1>4 DEF Clone
<1>6. plan \in Plan
    BY <1>4, <1>5 DEF Plan
<1>7. clone.id <= lastId' /\ lastId' \in Nat /\ lastId <= lastId'
    BY <1>1, <1>4, <1>5, IdsMinted DEF PlanRelink
<1>8. ClearHere(plan, m)
    <2>1. SUFFICES ASSUME NEW s \in Slugs, NEW c \in clones[s][m], c.dir = d
                   PROVE  c.id = clone.id
        BY <1>5 DEF ClearHere
    <2>2. [slug |-> s, clone |-> c] \in Located(m, d)
        BY <2>1, NotLocated
    <2>3. QED BY <1>1, <1>5, <2>2
<1>9. ClearInProject(plan, m)
    BY DEF ClearInProject
<1>10. QED BY <1>3, <1>6, <1>7, <1>8, <1>9, StartOnce

-----------------------------------------------------------------------------
(* The verbs' writes, and what ends them. *)

\* A step that leaves the clones files, and every verb's plan, as they were.
LEMMA SameLinesOnce ==
    ASSUME IInv, OInv, NEW p \in Procs, UNCHANGED <<clones, lastId, raced>>,
           \A q \in Procs \ {p} : proc'[q] = proc[q], proc[p] # Idle,
           \/ proc'[p] = Idle
           \/ /\ proc'[p].plan = proc[p].plan /\ proc'[p].machine = proc[p].machine
              /\ proc'[p].at = "clones" =>
                   \A c \in proc'[p].file : c.id <= lastId
              /\ proc[p].plan.edit # "none"
    PROVE  OInv'
<1>1. Minted'
    BY DEF OInv, Minted, Idle
<1>2. LinesOnce' /\ LabelsOnce'
    BY DEF OInv, LinesOnce, LabelsOnce
<1>3. ASSUME NEW q \in Procs PROVE PlanOnce(q)'
    <2>1. CASE q = p
        BY <2>1 DEF OInv, PlanOnce, ClearHere, ClearInProject
    <2>2. CASE q # p
        BY <2>2 DEF OInv, PlanOnce, ClearHere, ClearInProject
    <2>3. QED BY <2>1, <2>2
<1>4. QED BY <1>1, <1>2, <1>3 DEF OInv

LEMMA WriteProjectOnce ==
    ASSUME IInv, OInv, NEW p \in Procs, WriteProject(p)
    PROVE  OInv'
<1>1. /\ proc[p].at = "project" /\ proc[p] # Idle
      /\ UNCHANGED <<clones, lastId, raced>>
      /\ \A q \in Procs \ {p} : proc'[q] = proc[q]
    BY DEF WriteProject, IInv, TypeOK, Idle
<1>2. \/ proc'[p] = Idle
      \/ /\ proc'[p] = [at |-> "load", machine |-> proc[p].machine, plan |-> proc[p].plan]
         /\ proc[p].plan.edit # "none"
    BY DEF WriteProject, IInv, TypeOK
<1>3. QED BY <1>1, <1>2, SameLinesOnce

LEMMA ReadOnce ==
    ASSUME IInv, OInv, NEW p \in Procs, ReadClones(p)
    PROVE  OInv'
<1>1. /\ proc[p].at = "load" /\ proc[p] # Idle /\ proc[p] \in Proc
      /\ UNCHANGED <<clones, lastId, raced>>
      /\ \A q \in Procs \ {p} : proc'[q] = proc[q]
      /\ proc'[p] = [at |-> "clones", machine |-> proc[p].machine, plan |-> proc[p].plan,
                     file |-> clones[proc[p].plan.slug][proc[p].machine]]
    BY DEF ReadClones, IInv, TypeOK, Idle
<1>2. proc[p].machine \in Machines /\ proc[p].plan.slug \in Slugs
    BY <1>1 DEF Proc, Plan, Idle
<1>3. \A c \in clones[proc[p].plan.slug][proc[p].machine] : c.id <= lastId
    BY <1>2 DEF OInv, Minted
<1>4. proc[p].plan.edit # "none"
    BY <1>1 DEF OInv, PlanOnce
<1>5. QED BY <1>1, <1>3, <1>4, SameLinesOnce

LEMMA AbortOnce ==
    ASSUME IInv, OInv, NEW p \in Procs, Abort(p)
    PROVE  OInv'
<1>1. /\ proc[p] # Idle /\ proc'[p] = Idle
      /\ UNCHANGED <<clones, lastId, raced>>
      /\ \A q \in Procs \ {p} : proc'[q] = proc[q]
    BY DEF Abort, IInv, TypeOK
<1>2. QED BY <1>1, SameLinesOnce

\* A line of the written file: the added one, or one the file had, which only
\* the edit's own field may tell from what it was.
Relabelled(c, new) == IF c.id = new.id THEN [c EXCEPT !.label = new.label] ELSE c
Relinked(c, new) == IF c.id = new.id THEN [c EXCEPT !.dir = new.dir] ELSE c

LEMMA EditedLines ==
    ASSUME NEW plan \in Plan, NEW file \in SUBSET Clone
    PROVE  LET new == plan.clone IN
           /\ plan.edit = "add" => Edited(plan, file) = file \cup {new}
           /\ plan.edit = "label" =>
                Edited(plan, file) = {Relabelled(c, new) : c \in file}
           /\ plan.edit \notin {"add", "label"} =>
                Edited(plan, file) = {Relinked(c, new) : c \in file}
BY DEF Edited, Relabelled, Relinked

LEMMA EditedFields ==
    ASSUME NEW c \in Clone, NEW new \in Clone
    PROVE  /\ Relabelled(c, new).id = c.id /\ Relabelled(c, new).dir = c.dir
           /\ Relabelled(c, new).label = IF c.id = new.id THEN new.label ELSE c.label
           /\ Relinked(c, new).id = c.id /\ Relinked(c, new).label = c.label
           /\ Relinked(c, new).dir = IF c.id = new.id THEN new.dir ELSE c.dir
BY DEF Relabelled, Relinked, Clone

\* The machine's lines stay apart.
LEMMA WriteLinesOnce ==
    ASSUME IInv, OInv, NEW p \in Procs, WriteClones(p)
    PROVE  LinesOnce'
<1> DEFINE plan == proc[p].plan
           new == plan.clone
           n == proc[p].machine
<1>0. UNCHANGED raced
    BY DEF WriteClones
<1> SUFFICES ASSUME NEW m \in Machines, m \notin raced, NEW s \in Slugs, NEW t \in Slugs,
                    NEW a \in clones'[s][m], NEW b \in clones'[t][m],
                    a.id = b.id \/ a.dir = b.dir
             PROVE  s = t /\ a = b
    BY <1>0 DEF LinesOnce
<1>1. /\ proc[p].at = "clones" /\ proc[p] # Idle
      /\ plan \in Plan /\ proc[p].file \in SUBSET Clone /\ plan.slug \in Slugs
      /\ \A u \in Slugs : clones'[u][m] = IF u = plan.slug /\ m = n
                                          THEN Edited(plan, proc[p].file) ELSE clones[u][m]
    BY WriteClonesStep
<1>2. /\ \A u \in Slugs : clones[u][m] \subseteq Clone
      /\ new \in Clone
    BY <1>1 DEF IInv, TypeOK, Plan
<1>3. \A u, v \in Slugs : \A c \in clones[u][m], e \in clones[v][m] :
         c.id = e.id \/ c.dir = e.dir => u = v /\ c = e
    BY DEF OInv, LinesOnce
<1>4. CASE m # n
    BY <1>1, <1>3, <1>4
<1>5. CASE m = n
    <2> DEFINE file == clones[plan.slug][m]
    <2>1. proc[p].file = file
        BY <1>1, <1>5 DEF IInv, FileFits
    <2>2. \A u \in Slugs : \A c \in clones[u][m] :
             /\ plan.edit = "add" => c.dir # new.dir /\ c.id # new.id
             /\ plan.edit = "relink" /\ c.dir = new.dir => c.id = new.id
        BY <1>1, <1>5 DEF OInv, PlanOnce, ClearHere
    <2>3. \A u \in Slugs : clones'[u][m] = IF u = plan.slug THEN Edited(plan, file)
                                           ELSE clones[u][m]
        BY <1>1, <1>5, <2>1
    <2>4. CASE plan.edit = "add"
        <3>1. Edited(plan, file) = file \cup {new}
            BY <1>1, <1>2, <2>4, EditedLines
        <3>2. \A u \in Slugs : \A c \in clones'[u][m] :
                 c \in clones[u][m] \/ (u = plan.slug /\ c = new)
            BY <2>3, <3>1
        <3>3. QED BY <1>3, <2>2, <2>4, <3>2
    <2>5. CASE plan.edit = "label"
        <3>1. Edited(plan, file) = {Relabelled(c, new) : c \in file}
            BY <1>1, <1>2, <2>5, EditedLines
        <3>2. ASSUME NEW u \in Slugs, NEW c \in clones'[u][m]
              PROVE  \E e \in clones[u][m] :
                       /\ e.id = c.id /\ e.dir = c.dir
                       /\ c = IF u = plan.slug THEN Relabelled(e, new) ELSE e
            <4>1. CASE u = plan.slug
                <5>0. c \in {Relabelled(e, new) : e \in file}
                    BY <2>3, <3>1, <4>1
                <5>1. PICK e \in file : c = Relabelled(e, new)
                    BY <5>0
                <5>2. e \in Clone
                    BY <1>1, <1>2
                <5>3. QED BY <1>2, <4>1, <5>1, <5>2, EditedFields
            <4>2. CASE u # plan.slug
                BY <2>3, <3>2, <4>2
            <4>3. QED BY <4>1, <4>2
        <3>3. QED BY <1>3, <3>2
    <2>6. CASE plan.edit \notin {"add", "label"}
        <3>1. Edited(plan, file) = {Relinked(c, new) : c \in file}
            BY <1>1, <1>2, <2>6, EditedLines
        <3>2. ASSUME NEW u \in Slugs, NEW c \in clones'[u][m]
              PROVE  \E e \in clones[u][m] :
                       /\ e.id = c.id
                       /\ c.dir = IF u = plan.slug /\ e.id = new.id THEN new.dir ELSE e.dir
                       /\ c = IF u = plan.slug THEN Relinked(e, new) ELSE e
            <4>1. CASE u = plan.slug
                <5>0. c \in {Relinked(e, new) : e \in file}
                    BY <2>3, <3>1, <4>1
                <5>1. PICK e \in file : c = Relinked(e, new)
                    BY <5>0
                <5>2. e \in Clone
                    BY <1>1, <1>2
                <5>3. QED BY <1>2, <4>1, <5>1, <5>2, EditedFields
            <4>2. CASE u # plan.slug
                BY <2>3, <3>2, <4>2
            <4>3. QED BY <4>1, <4>2
        <3>3. PICK c \in clones[s][m] :
                 /\ c.id = a.id
                 /\ a.dir = IF s = plan.slug /\ c.id = new.id THEN new.dir ELSE c.dir
                 /\ a = IF s = plan.slug THEN Relinked(c, new) ELSE c
            BY <3>2
        <3>4. PICK e \in clones[t][m] :
                 /\ e.id = b.id
                 /\ b.dir = IF t = plan.slug /\ e.id = new.id THEN new.dir ELSE e.dir
                 /\ b = IF t = plan.slug THEN Relinked(e, new) ELSE e
            BY <3>2
        <3>5. plan.edit = "relink"
            BY <1>1, <2>6 DEF Plan, OInv, PlanOnce
        <3>6. CASE c.id = e.id
            BY <1>3, <3>3, <3>4, <3>6
        <3>7. CASE c.id # e.id
            BY <1>3, <2>2, <3>3, <3>4, <3>5, <3>7
        <3>8. QED BY <3>6, <3>7
    <2>7. QED BY <2>4, <2>5, <2>6
<1>6. QED BY <1>4, <1>5

\* The project's lines stay apart.
LEMMA WriteLabelsOnce ==
    ASSUME IInv, OInv, NEW p \in Procs, WriteClones(p)
    PROVE  LabelsOnce'
<1> DEFINE plan == proc[p].plan
           new == plan.clone
           n == proc[p].machine
<1>0. UNCHANGED raced
    BY DEF WriteClones
<1> SUFFICES ASSUME NEW m \in Machines, m \notin raced, NEW s \in Slugs,
                    NEW a \in clones'[s][m], NEW b \in clones'[s][m],
                    a.id = b.id \/ a.label = b.label
             PROVE  a = b
    BY <1>0 DEF LabelsOnce
<1> DEFINE file == clones[s][m]
<1>1. /\ proc[p].at = "clones" /\ proc[p] # Idle
      /\ plan \in Plan /\ proc[p].file \in SUBSET Clone /\ plan.slug \in Slugs
      /\ n \in Machines
      /\ clones'[s][m] = IF s = plan.slug /\ m = n
                         THEN Edited(plan, proc[p].file) ELSE file
    BY WriteClonesStep
<1>2. file \subseteq Clone /\ new \in Clone
    BY <1>1 DEF IInv, TypeOK, Plan
<1>3. \A c, e \in file : c.id = e.id \/ c.label = e.label => c = e
    BY DEF OInv, LabelsOnce
<1>4. CASE ~(s = plan.slug /\ m = n)
    BY <1>1, <1>3, <1>4
<1>5. CASE s = plan.slug /\ m = n
    <2>1. proc[p].file = file
        BY <1>1, <1>5 DEF IInv, FileFits
    <2>2. \A c \in file :
             /\ plan.edit = "add" => c.label # new.label /\ c.id # new.id
             /\ plan.edit = "label" /\ c.label = new.label => c.id = new.id
        BY <1>1, <1>5 DEF OInv, PlanOnce, ClearInProject
    <2>3. clones'[s][m] = Edited(plan, file)
        BY <1>1, <1>5, <2>1
    <2>4. CASE plan.edit = "add"
        <3>1. Edited(plan, file) = file \cup {new}
            BY <1>1, <1>2, <2>4, EditedLines
        <3>2. \A c \in clones'[s][m] : c \in file \/ c = new
            BY <2>3, <3>1
        <3>3. QED BY <1>3, <2>2, <2>4, <3>2
    <2>5. CASE plan.edit = "label"
        <3>1. clones'[s][m] = {Relabelled(c, new) : c \in file}
            BY <1>1, <1>2, <2>3, <2>5, EditedLines
        <3>2. ASSUME NEW c \in clones'[s][m]
              PROVE  \E e \in file :
                       /\ c.id = e.id /\ c = Relabelled(e, new)
                       /\ c.label = IF e.id = new.id THEN new.label ELSE e.label
            <4>1. PICK e \in file : c = Relabelled(e, new)
                BY <3>1
            <4>2. e \in Clone
                BY <1>2
            <4>3. QED BY <1>2, <4>1, <4>2, EditedFields
        <3>3. PICK c \in file :
                 /\ a.id = c.id /\ a = Relabelled(c, new)
                 /\ a.label = IF c.id = new.id THEN new.label ELSE c.label
            BY <3>2
        <3>4. PICK e \in file :
                 /\ b.id = e.id /\ b = Relabelled(e, new)
                 /\ b.label = IF e.id = new.id THEN new.label ELSE e.label
            BY <3>2
        <3>5. CASE c.id = e.id
            BY <1>3, <3>3, <3>4, <3>5
        <3>6. CASE c.id # e.id
            BY <1>3, <2>2, <2>5, <3>3, <3>4, <3>6
        <3>7. QED BY <3>5, <3>6
    <2>6. CASE plan.edit \notin {"add", "label"}
        <3>1. clones'[s][m] = {Relinked(c, new) : c \in file}
            BY <1>1, <1>2, <2>3, <2>6, EditedLines
        <3>2. ASSUME NEW c \in clones'[s][m]
              PROVE  \E e \in file : /\ c.id = e.id /\ c.label = e.label
                                     /\ c = Relinked(e, new)
            <4>1. PICK e \in file : c = Relinked(e, new)
                BY <3>1
            <4>2. e \in Clone
                BY <1>2
            <4>3. QED BY <1>2, <4>1, <4>2, EditedFields
        <3>3. QED BY <1>3, <3>2
    <2>7. QED BY <2>4, <2>5, <2>6
<1>6. QED BY <1>4, <1>5

LEMMA WriteClonesOnce ==
    ASSUME IInv, OInv, NEW p \in Procs, WriteClones(p)
    PROVE  OInv'
<1> DEFINE plan == proc[p].plan
           new == plan.clone
           n == proc[p].machine
<1>1. /\ proc[p].at = "clones" /\ proc[p] # Idle /\ n \in Machines
      /\ plan \in Plan /\ proc[p].file \in SUBSET Clone /\ plan.slug \in Slugs
      /\ \A s \in Slugs, m \in Machines :
           clones'[s][m] = IF s = plan.slug /\ m = n
                           THEN Edited(plan, proc[p].file) ELSE clones[s][m]
      /\ proc'[p] = Idle
      /\ \A q \in Procs \ {p} : proc'[q] = proc[q]
      /\ UNCHANGED <<lastId, raced>>
    BY WriteClonesStep DEF WriteClones
<1>2. Minted'
    <2>1. \A c \in Edited(plan, proc[p].file) : c.id <= lastId
        <3>1. new \in Clone /\ new.id <= lastId /\ \A c \in proc[p].file : c.id <= lastId
            BY <1>1 DEF OInv, Minted, Plan
        <3>2. ASSUME NEW c \in Edited(plan, proc[p].file) PROVE c.id <= lastId
            <4>1. CASE plan.edit = "add"
                BY <1>1, <3>1, <4>1, EditedLines
            <4>2. CASE plan.edit = "label"
                <5>1. c \in {Relabelled(e, new) : e \in proc[p].file}
                    BY <1>1, <4>2, EditedLines
                <5>2. PICK e \in proc[p].file : c = Relabelled(e, new)
                    BY <5>1
                <5>3. QED BY <1>1, <3>1, <5>2, EditedFields
            <4>3. CASE plan.edit \notin {"add", "label"}
                <5>1. c \in {Relinked(e, new) : e \in proc[p].file}
                    BY <1>1, <4>3, EditedLines
                <5>2. PICK e \in proc[p].file : c = Relinked(e, new)
                    BY <5>1
                <5>3. QED BY <1>1, <3>1, <5>2, EditedFields
            <4>4. QED BY <4>1, <4>2, <4>3
        <3>3. QED BY <3>2
    <2>2. \A s \in Slugs, m \in Machines : \A c \in clones'[s][m] : c.id <= lastId'
        BY <1>1, <2>1 DEF OInv, Minted
    <2>3. QED BY <1>1, <2>2 DEF OInv, Minted, Idle
<1>4. ASSUME NEW q \in Procs PROVE PlanOnce(q)'
    <2>1. CASE q = p
        BY <1>1, <2>1 DEF PlanOnce
    <2>2. CASE q # p /\ proc[q] # Idle
        <3>1. proc[q].machine \in Machines /\ PlanOnce(q) /\ proc'[q] = proc[q]
            BY <1>1, <2>2 DEF OInv, IInv, TypeOK, Proc
        <3>2. proc[q].machine \notin raced => proc[q].machine # n
            BY <1>1, <2>2 DEF IInv, OneAtWork
        <3>3. ASSUME proc[q].machine \notin raced
              PROVE  /\ ClearHere(proc[q].plan, proc[q].machine)'
                     /\ ClearInProject(proc[q].plan, proc[q].machine)'
            <4>1. \A s \in Slugs :
                    clones'[s][proc[q].machine] = clones[s][proc[q].machine]
                BY <1>1, <3>1, <3>2, <3>3
            <4>2. proc[q].plan.slug \in Slugs
                BY <2>2 DEF IInv, TypeOK, Proc, Plan
            <4>3. QED BY <2>2, <3>1, <3>3, <4>1, <4>2
                      DEF PlanOnce, ClearHere, ClearInProject
        <3>4. QED BY <1>1, <2>2, <3>1, <3>3 DEF PlanOnce
    <2>3. CASE q # p /\ proc[q] = Idle
        BY <1>1, <2>3 DEF PlanOnce
    <2>4. QED BY <2>1, <2>2, <2>3
<1>5. QED BY <1>2, <1>4, WriteLinesOnce, WriteLabelsOnce DEF OInv

LEMMA SameOnce ==
    ASSUME OInv, UNCHANGED <<clones, proc, lastId, raced>>
    PROVE  OInv'
BY DEF OInv, Minted, LinesOnce, LabelsOnce, PlanOnce, ClearHere,
       ClearInProject

LEMMA InitOnce == Init => OInv
<1> SUFFICES ASSUME Init PROVE OInv
    OBVIOUS
<1>1. /\ \A s \in Slugs, m \in Machines : clones[s][m] = {}
      /\ \A p \in Procs : proc[p] = Idle
      /\ raced = {}
    BY DEF Init
<1>2. QED BY <1>1 DEF OInv, Minted, LinesOnce, LabelsOnce, PlanOnce, Idle

LEMMA NextOnce == IInv /\ OInv /\ [Next]_vars => OInv'
<1>1. SUFFICES ASSUME IInv, OInv, [Next]_vars PROVE OInv'
    OBVIOUS
<1>2. ASSUME NEW p \in Procs, NEW m \in Machines, NEW d \in Dirs,
             \/ \E s \in Slugs : JoinProject(p, m, d, s) \/ CreateProject(p, m, d, s)
             \/ \E l \in Flags \ {Shaped} : BeginLabel(p, m, d, l)
             \/ BeginAdopt(p, m, d)
             \/ BeginRelink(p, m, d)
      PROVE  OInv'
    BY <1>1, <1>2, JoinOnce, CreateOnce, LabelOnce, AdoptOnce, RelinkOnce
<1>3. ASSUME NEW p \in Procs, WriteProject(p) \/ ReadClones(p) \/ WriteClones(p) \/ Abort(p)
      PROVE  OInv'
    BY <1>1, <1>3, WriteProjectOnce, ReadOnce, WriteClonesOnce, AbortOnce
<1>4. ASSUME NEW m \in Machines, NEW d \in Dirs, NEW e \in Dirs, Move(m, d, e)
      PROVE  OInv'
    BY <1>1, <1>4, SameOnce DEF Move
<1>5. ASSUME NEW m \in Machines, NEW d \in Dirs, NEW r \in Remotes, AddRemote(m, d, r)
      PROVE  OInv'
    BY <1>1, <1>5, SameOnce DEF AddRemote
<1>6. CASE UNCHANGED vars
    BY <1>1, <1>6, SameOnce DEF vars
<1>7. QED BY <1>1, <1>2, <1>3, <1>4, <1>5, <1>6 DEF Next

-----------------------------------------------------------------------------
\* Whatever `clones` marks as current at a directory is in the registry there.
LEMMA CurrentOnce ==
    ASSUME IInv, OInv, NEW m \in Machines, m \notin raced, NEW d \in Dirs,
           NEW a \in Current(m, d), NEW b \in Current(m, d)
    PROVE  a = b
<1>1. ASSUME NEW r \in Current(m, d)
      PROVE  /\ \E s \in Slugs : r.clone \in clones[s][m]
             /\ r.clone.dir = d
             /\ r = [clone |-> r.clone, machine |-> m]
    <2>1. r \in Listing(m, d) /\ r.machine = m /\ r.clone.dir = d
        BY <1>1 DEF Current
    <2>2. \A t \in Located(m, d) : t.slug \in Known
        BY LocatedTypes DEF IInv, Located
    <2>3. PICK s \in Known : r \in Rows(s)
        BY <2>1, <2>2 DEF Listing
    <2>4. PICK o \in Machines : \E c \in clones[s][o] : r = [clone |-> c, machine |-> o]
        BY <2>3 DEF Rows
    <2>5. s \in Slugs
        BY DEF Known
    <2>6. QED BY <2>1, <2>4, <2>5
<1>2. a.clone = b.clone
    BY <1>1 DEF OInv, LinesOnce
<1>3. QED BY <1>1, <1>2

\* A directory is one clone's, and a label one clone's of those its machine has
\* in a project, for as long as no two verbs of that machine overlap, whatever
\* verbs of other machines do meanwhile.
THEOREM LocatorsAlwaysAnswerOnce == Spec => []LocatorsAnswerOnce
<1>1. IInv /\ OInv => LocatorsAnswerOnce
    <2> SUFFICES ASSUME IInv, OInv PROVE LocatorsAnswerOnce
        OBVIOUS
    <2>1. ASSUME NEW m \in Machines \ raced, NEW d \in Dirs
          PROVE  Cardinality(Current(m, d)) <= 1
        <3>1. CASE Current(m, d) = {}
            BY <3>1, FS_EmptySet
        <3>2. CASE Current(m, d) # {}
            <4>1. PICK r : r \in Current(m, d)
                BY <3>2
            <4>2. Current(m, d) = {r}
                BY <4>1, CurrentOnce
            <4>3. QED BY <4>2, FS_Singleton
        <3>3. QED BY <3>1, <3>2
    <2>2. ASSUME NEW m \in Machines \ raced, NEW s \in Slugs,
                 NEW a \in clones[s][m], NEW b \in clones[s][m], a.label = b.label
          PROVE  a = b
        BY <2>2 DEF OInv, LabelsOnce
    <2>3. QED BY <2>1, <2>2 DEF LocatorsAnswerOnce
<1>2. QED BY <1>1, InitInv, NextKeeps, InitOnce, NextOnce, PTL DEF Spec
=============================================================================
