------------------------------ MODULE Registry ------------------------------
(***************************************************************************)
(* The project and clone registry: projects/<slug>/project.json, shared by *)
(* every machine, and projects/<slug>/clones.<machine>.json, written by    *)
(* that machine only; and the verbs that read, decide and rewrite them     *)
(* with no lock: init (verbs/initverb), label, adopt and relink            *)
(* (verbs/registryacts).                                                   *)
(*                                                                         *)
(* A verb loads the registry and git's facts, decides, and only then       *)
(* writes: first the project document where it writes one, then the clones *)
(* file, which it reads again. What it decided is its plan. Loading is one *)
(* step: each document it reads was written by one rename, and no verb     *)
(* deletes one. A clones file is a set of clones: its order only decides   *)
(* which of several clones of one directory counts.                        *)
(*                                                                         *)
(* A directory stands for a git common-dir; its base and parent are the    *)
(* names of the clone's directory and of the one above. A label is a tuple *)
(* of names (the ladder's last form joins two). An id is its place in the  *)
(* order of minting (registry/ulid.go).                                    *)
(***************************************************************************)
EXTENDS Integers, FiniteSets

CONSTANTS Machines,   \* machine names (journal.Hostname)
          Dirs,       \* git common-dirs
          Base,       \* Base[d]: the name of the clone's directory
          Parent,     \* Parent[d]: the name of the directory above it
          Slugs,      \* names a project may be given
          Remotes,    \* normalized identity remotes
          Flags,      \* labels a person gives: --label, or label's argument
          Procs,      \* clast processes
          Repositories, \* bound: what git may be at the start
          MaxId,      \* bound: ids minted
          MaxVerbs,   \* bound: verbs started
          MaxMoves,   \* bound: changes to the repositories
          MaxFaults   \* bound: verbs cut off

NoRepo == "no repository"      \* nothing at this directory
Local == "no remote"           \* a repository without remotes: keyless
Unnamed == "no origin"         \* remotes, and none has the identity's name
Shaped == <<"ULID">>           \* a label of an identity's shape

ASSUME NamesAssumption ==
    /\ Base \in [Dirs -> Slugs]
    /\ Parent \in [Dirs -> Slugs]
    /\ {NoRepo, Local, Unnamed} \cap Remotes = {}
    /\ "ULID" \notin Slugs
    /\ Flags \subseteq {<<n>> : n \in Slugs} \cup (Slugs \X Slugs) \cup {Shaped}
ASSUME RepositoriesAssumption ==
    Repositories \subseteq [Machines -> [Dirs -> Remotes \cup {NoRepo, Local, Unnamed}]]
ASSUME BoundsAssumption == {MaxId, MaxVerbs, MaxMoves, MaxFaults} \subseteq Nat

VARIABLES
    git,        \* git[m][d]: the origin remote of the repository at d on m
    projects,   \* projects[s]: project.json, NoProject where there is none
    clones,     \* clones[s][m]: the clones in clones.<m>.json
    proc,       \* proc[p]: the verb p runs, its machine, its plan
    lastId,     \* the last id minted
    verbs, moves, faults,   \* counted for their bounds
    raced       \* history: machines two verbs of which overlapped, and
                \* "journal" when two verbs of any machines did

vars == <<git, projects, clones, proc, lastId, verbs, moves, faults, raced>>

Ids == 1..MaxId
Labels == {<<n>> : n \in Slugs} \cup (Slugs \X Slugs) \cup {Shaped}
Project == [id : Ids, remote : Remotes \cup {Local}]
NoProject == [id |-> 0, remote |-> Local]
Clone == [id : Ids, dir : Dirs, label : Labels]

\* What a verb has decided: the project document to write, if any, and the
\* edit of the clones file: add the clone, or give the clone of that id its
\* new label or directory.
Plan == [slug : Slugs, project : Project \cup {NoProject},
         edit : {"add", "label", "relink", "none"}, clone : Clone]
Idle == [at |-> "idle"]
Proc == {Idle} \cup
        [at : {"project", "load"}, machine : Machines, plan : Plan] \cup
        [at : {"clones"}, machine : Machines, plan : Plan, file : SUBSET Clone]

Init ==
    /\ git \in Repositories
    /\ projects = [s \in Slugs |-> NoProject]
    /\ clones = [s \in Slugs |-> [m \in Machines |-> {}]]
    /\ proc = [p \in Procs |-> Idle]
    /\ lastId = 0 /\ verbs = 0 /\ moves = 0 /\ faults = 0
    /\ raced = {}
-----------------------------------------------------------------------------
(* The view a verb loads, and what it looks up there.                       *)

Known == {s \in Slugs : projects[s] # NoProject}

\* ListClones over every machine's file, each clone with its machine.
Rows(s) == UNION {{[clone |-> c, machine |-> m] : c \in clones[s][m]} :
                    m \in Machines}
Taken(s) == {r.clone.label : r \in Rows(s)}

\* The registered clones of this machine at a directory, with their project.
Registered(m) ==
    UNION {{[slug |-> s, clone |-> c] : c \in clones[s][m]} : s \in Known}
Located(m, d) == {r \in Registered(m) : r.clone.dir = d}

\* What `clones` lists at a directory, and the rows it marks as current there.
Listing(m, d) ==
    LET here == {r.slug : r \in Located(m, d)}
    IN UNION {Rows(s) : s \in IF here # {} THEN here ELSE Known}
Current(m, d) == {r \in Listing(m, d) : r.machine = m /\ r.clone.dir = d}

Claiming(r) == {s \in Known : projects[s].remote = r}

\* registry.ResolveClone: by id, or by label among every machine's clones.
ByLabel(s, l) == {r \in Rows(s) : r.clone.label = l}

\* The label ladder: the directory's name, its parent's, both joined.
Joined(d) == <<Base[d], Parent[d]>>
Suggested(d, taken) ==
    IF Parent[d] # Base[d] /\ <<Parent[d]>> \notin taken THEN {<<Parent[d]>>}
    ELSE {Joined(d)} \ taken
DefaultLabels(d, taken) ==
    IF <<Base[d]>> \notin taken THEN {<<Base[d]>>} ELSE Suggested(d, taken)
NewLabels(d, taken) == DefaultLabels(d, taken) \cup (Flags \ taken)

\* Two verbs overlap when one starts while another is between its load and
\* its last write.
Overlaps(p, m) ==
    LET busy == {q \in Procs \ {p} : proc[q] # Idle}
    IN raced \cup (IF busy # {} THEN {"journal"} ELSE {})
             \cup (IF \E q \in busy : proc[q].machine = m THEN {m} ELSE {})

Start(p, m, at, plan) ==
    /\ proc[p] = Idle
    /\ verbs < MaxVerbs
    /\ verbs' = verbs + 1
    /\ proc' = [proc EXCEPT ![p] = [at |-> at, machine |-> m, plan |-> plan]]
    /\ raced' = Overlaps(p, m)
    /\ UNCHANGED <<git, projects, clones, moves, faults>>
-----------------------------------------------------------------------------
(* init: this directory is not registered on this machine. The project of  *)
(* its remote is joined; otherwise one is created, at a slug no project    *)
(* holds.                                                                  *)

JoinProject(p, m, d, s) ==
    /\ git[m][d] \in Remotes
    /\ Located(m, d) = {}
    /\ s \in Claiming(git[m][d])
    /\ lastId + 1 \in Ids
    /\ \E label \in NewLabels(d, Taken(s)) \ {Shaped} :
         Start(p, m, "load",
               [slug |-> s, project |-> NoProject, edit |-> "add",
                clone |-> [id |-> lastId + 1, dir |-> d, label |-> label]])
    /\ lastId' = lastId + 1

PlanProject(p, m, d, s, first) ==
    /\ Located(m, d) = {}
    /\ lastId + 2 \in Ids
    /\ \E label \in NewLabels(d, {}) :
         Start(p, m, first,
               [slug |-> s,
                project |-> [id |-> lastId + 1, remote |-> git[m][d]],
                edit |-> "add",
                clone |-> [id |-> lastId + 2, dir |-> d, label |-> label]])
    /\ lastId' = lastId + 2

\* Mutants: the slug may be held; the clone is registered first.
CreateOver(p, m, d, s) ==
    /\ git[m][d] \in Remotes \cup {Local}
    /\ git[m][d] # Local => Claiming(git[m][d]) = {}
    /\ PlanProject(p, m, d, s, "project")
CreateCloneFirst(p, m, d, s) ==
    /\ git[m][d] \in Remotes \cup {Local} /\ s \notin Known
    /\ git[m][d] # Local => Claiming(git[m][d]) = {}
    /\ PlanProject(p, m, d, s, "load")

CreateProject(p, m, d, s) ==
    /\ git[m][d] \in Remotes \cup {Local}
    /\ git[m][d] # Local => Claiming(git[m][d]) = {}
    /\ s \notin Known
    /\ PlanProject(p, m, d, s, "project")

(* label: the one registered clone here takes a label no other clone of    *)
(* its project has, whatever its machine.                                  *)
\* Mutant: whoever has the label.
BeginLabelAny(p, m, d, label) ==
    /\ Cardinality(Located(m, d)) = 1
    /\ \E r \in Located(m, d) :
         /\ r.clone.label # label
         /\ Start(p, m, "load",
                  [slug |-> r.slug, project |-> NoProject, edit |-> "label",
                   clone |-> [r.clone EXCEPT !.label = label]])
    /\ UNCHANGED lastId

BeginLabel(p, m, d, label) ==
    /\ Cardinality(Located(m, d)) = 1
    /\ \E r \in Located(m, d) :
         /\ r.clone.label # label
         /\ \A other \in ByLabel(r.slug, label) : other.clone.id = r.clone.id
         /\ Start(p, m, "load",
                  [slug |-> r.slug, project |-> NoProject, edit |-> "label",
                   clone |-> [r.clone EXCEPT !.label = label]])
    /\ UNCHANGED lastId

(* adopt: the keyless project of the clone here takes the remote the       *)
(* repository has by now, which no other project may claim.                *)
PlanAdopt(p, m, d) ==
    /\ git[m][d] \in Remotes
    /\ Cardinality(Located(m, d)) = 1
    /\ \E r \in Located(m, d) :
         /\ projects[r.slug].remote = Local
         /\ Start(p, m, "project",
                  [slug |-> r.slug,
                   project |-> [projects[r.slug] EXCEPT !.remote = git[m][d]],
                   edit |-> "none", clone |-> r.clone])
    /\ UNCHANGED lastId

BeginAdopt(p, m, d) ==
    /\ Claiming(git[m][d]) = {}
    /\ PlanAdopt(p, m, d)

(* relink: the one clone of this machine named by its id, or by its label  *)
(* in the projects of this repository's remote, is now at this directory,  *)
(* which no other clone of this machine may be at.                         *)
Named(m, d, label) ==
    {r \in Registered(m) :
        /\ r.clone.label = label
        /\ git[m][d] \in Remotes
        /\ projects[r.slug].remote = git[m][d]}
WithId(m, id) == {r \in Registered(m) : r.clone.id = id}

PlanRelink(p, m, d, found) ==
    /\ git[m][d] # NoRepo
    /\ Cardinality(found) = 1
    /\ \E r \in found :
         Start(p, m, "load",
               [slug |-> r.slug, project |-> NoProject, edit |-> "relink",
                clone |-> [r.clone EXCEPT !.dir = d]])
    /\ UNCHANGED lastId
Locators(m, d) ==
    {WithId(m, id) : id \in 1..lastId}
    \cup {Named(m, d, l) : l \in {r.clone.label : r \in Registered(m)}}

BeginRelink(p, m, d) ==
    \E found \in Locators(m, d) :
      /\ \A other \in Located(m, d), r \in found : other.clone.id = r.clone.id
      /\ PlanRelink(p, m, d, found)
-----------------------------------------------------------------------------
(* The writes. A new project's clone whose --label has an identity's shape  *)
(* is refused only once project.json is written.                            *)

WriteProject(p) ==
    LET plan == proc[p].plan IN
    /\ proc[p].at = "project"
    /\ projects' = [projects EXCEPT ![plan.slug] = plan.project]
    /\ proc' = [proc EXCEPT ![p] =
                  IF plan.edit = "none" \/ plan.clone.label = Shaped THEN Idle
                  ELSE [at |-> "load", machine |-> proc[p].machine, plan |-> plan]]
    /\ UNCHANGED <<git, clones, lastId, verbs, moves, faults, raced>>

ReadClones(p) ==
    LET plan == proc[p].plan IN
    /\ proc[p].at = "load"
    /\ proc' = [proc EXCEPT ![p] =
                  [at |-> "clones", machine |-> proc[p].machine, plan |-> plan,
                   file |-> clones[plan.slug][proc[p].machine]]]
    /\ UNCHANGED <<git, projects, clones, lastId, verbs, moves, faults, raced>>

\* Mutant: the file holds what was planned and nothing else.
EditedAlone(plan, file) == {plan.clone}

\* Adding appends; the other edits rewrite the rows with the clone's id.
Edited(plan, file) ==
    LET new == plan.clone IN
    CASE plan.edit = "add" -> file \cup {new}
      [] plan.edit = "label" ->
           {IF c.id = new.id THEN [c EXCEPT !.label = new.label] ELSE c : c \in file}
      [] OTHER ->
           {IF c.id = new.id THEN [c EXCEPT !.dir = new.dir] ELSE c : c \in file}

WriteClones(p) ==
    LET plan == proc[p].plan IN
    /\ proc[p].at = "clones"
    /\ clones' = [clones EXCEPT ![plan.slug][proc[p].machine] =
                    Edited(plan, proc[p].file)]
    /\ proc' = [proc EXCEPT ![p] = Idle]
    /\ UNCHANGED <<git, projects, lastId, verbs, moves, faults, raced>>

\* A kill or a failed write, between any two steps.
Abort(p) ==
    /\ proc[p] # Idle
    /\ faults < MaxFaults
    /\ faults' = faults + 1
    /\ proc' = [proc EXCEPT ![p] = Idle]
    /\ UNCHANGED <<git, projects, clones, lastId, verbs, moves, raced>>
-----------------------------------------------------------------------------
(* The repositories, which clast only asks about.                           *)

Move(m, d, e) ==
    /\ git[m][d] # NoRepo /\ git[m][e] = NoRepo
    /\ moves < MaxMoves
    /\ moves' = moves + 1
    /\ git' = [git EXCEPT ![m] = [@ EXCEPT ![d] = NoRepo, ![e] = git[m][d]]]
    /\ UNCHANGED <<projects, clones, proc, lastId, verbs, faults, raced>>

AddRemote(m, d, r) ==
    /\ git[m][d] \in {Local, Unnamed}
    /\ moves < MaxMoves
    /\ moves' = moves + 1
    /\ git' = [git EXCEPT ![m] = [@ EXCEPT ![d] = r]]
    /\ UNCHANGED <<projects, clones, proc, lastId, verbs, faults, raced>>

Next ==
    \/ \E p \in Procs, m \in Machines, d \in Dirs :
         \/ \E s \in Slugs : JoinProject(p, m, d, s) \/ CreateProject(p, m, d, s)
         \/ \E l \in Flags \ {Shaped} : BeginLabel(p, m, d, l)
         \/ BeginAdopt(p, m, d)
         \/ BeginRelink(p, m, d)
    \/ \E p \in Procs : WriteProject(p) \/ ReadClones(p) \/ WriteClones(p) \/ Abort(p)
    \/ \E m \in Machines, d, e \in Dirs : Move(m, d, e)
    \/ \E m \in Machines, d \in Dirs, r \in Remotes : AddRemote(m, d, r)

Spec == Init /\ [][Next]_vars
-----------------------------------------------------------------------------
TypeOK ==
    /\ git \in [Machines -> [Dirs -> Remotes \cup {NoRepo, Local, Unnamed}]]
    /\ projects \in [Slugs -> Project \cup {NoProject}]
    /\ clones \in [Slugs -> [Machines -> SUBSET Clone]]
    /\ proc \in [Procs -> Proc]
    /\ lastId \in 0..MaxId /\ verbs \in 0..MaxVerbs
    /\ moves \in 0..MaxMoves /\ faults \in 0..MaxFaults
    /\ raced \subseteq Machines \cup {"journal"}

\* No remote is the identity of two projects, whatever was cut off before,
\* unless two verbs overlapped: init's second half and adopt both rely on a
\* registry loaded earlier.
OneProjectPerRemote ==
    "journal" \notin raced =>
        \A r \in Remotes : Cardinality(Claiming(r)) <= 1

\* What names a clone names one: a directory of a machine is registered once,
\* in one project, so ResolveCurrentClone, and with it every capture, has one
\* answer; and of the clones a machine has in a project no two have one label,
\* through joins, relabellings and moves, and whatever other machines do
\* meanwhile, unless verbs of that machine overlapped.  Two machines may give
\* one label each: ResolveClone then refuses it and asks for the id.
LocatorsAnswerOnce ==
    \A m \in Machines \ raced :
        /\ \A d \in Dirs : Cardinality(Current(m, d)) <= 1
        /\ \A s \in Slugs : \A a, b \in clones[s][m] : a.label = b.label => a = b

\* A clone once registered stays registered, with its id and in its project:
\* the file is rewritten whole, and the rewrite loses nobody else's line
\* unless verbs of the same machine overlapped. Those of other machines may.
ClonesKept ==
    [][\A s \in Slugs : \A m \in Machines \ raced' :
         {c.id : c \in clones[s][m]} \subseteq {c.id : c \in clones'[s][m]}]_vars

\* A project keeps its id, which session records name, and the remote it has.
IdentitiesStand ==
    [][ "journal" \notin raced' =>
          \A s \in Known :
            /\ projects'[s].id = projects[s].id
            /\ projects[s].remote # Local => projects'[s].remote = projects[s].remote]_vars

\* No clones file stands without its project.json, after any crash and under
\* any overlap: init writes the project first.
ClonesHaveProject ==
    \A s \in Slugs : (\E m \in Machines : clones[s][m] # {}) => s \in Known
=============================================================================
