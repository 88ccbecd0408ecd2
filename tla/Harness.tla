------------------------------ MODULE Harness ------------------------------
(***************************************************************************)
(* clast install, uninstall and doctor for one harness (verbs/install,     *)
(* verbs/uninstall, internal/checks) over the projection on disk. Each     *)
(* os.WriteFile is two steps, the truncation and the bytes: none of these  *)
(* files is written by a rename. A verb may be cut off between any two     *)
(* steps, and two may run at once. A person, another program or an upgrade *)
(* changes the files only between verbs. Findings is what doctor reports.  *)
(***************************************************************************)
EXTENDS Projection

CONSTANTS Skills,       \* the skills, in the order the verbs walk them
          Procs,        \* clast processes
          Settings0,    \* bound: settings files there may be at first
          MaxVerbs,     \* bound: verbs started
          MaxEdits,     \* bound: a person's changes
          MaxCrashes,   \* bound: verbs cut off
          MaxUpgrades   \* bound: binaries with other contents installed

ASSUME SkillsAssumption ==
    Skills # <<>> /\ Skills \in Seq({Skills[i] : i \in DOMAIN Skills})
\* clast has never been installed: its hook is in none of them.
ASSUME SettingsAssumption ==
    \A f \in Settings0 :
        /\ f = Absent \/ (f.hooks \in Hooks /\ f = Whole(f.hooks))
        /\ ~Has(f.hooks, "shim")

VARIABLES tree,      \* tree[i]: the tree of Skills[i]
          settings,  \* settings.json
          bak,       \* settings.json.bak
          generated, \* what the binary generates
          proc,      \* proc[p]: the verb p runs, and where it is
          verbs, edits, crashes, upgrades,   \* counted for their bounds
          users,     \* history: the person's part of settings.json
          last       \* history: the verb that ended well, alone, and since
                     \* which nothing happened

vars == <<tree, settings, bak, generated, proc, verbs, edits, crashes,
          upgrades, users, last>>

Verbs == {"install", "force", "uninstall"}
Idle == [verb |-> "none", at |-> "idle", next |-> 1, file |-> Absent, alone |-> TRUE]
Running == {p \in Procs : proc[p].at # "idle"}
AtTarget(p, at) == proc[p].at = at /\ proc[p].next <= Len(Skills)
AtSplice(p) == proc[p].at = "target" /\ proc[p].next > Len(Skills)
Go(p, at) == proc' = [proc EXCEPT ![p].at = at]
NextTarget(p) == proc' = [proc EXCEPT ![p].at = "target", ![p].next = @ + 1]
Target(p) == tree[proc[p].next]
Put(p, t) == tree' = [tree EXCEPT ![proc[p].next] = t]
Rest == <<generated, verbs, edits, crashes, upgrades, users>>
Others == <<settings, bak, Rest, last>>
OtherFiles == <<tree, Rest, last>>

Init ==
    /\ tree = [i \in DOMAIN Skills |-> NoTree]
    /\ settings \in Settings0 /\ bak = Absent
    /\ generated \in Versions
    /\ proc = [p \in Procs |-> Idle]
    /\ verbs = 0 /\ edits = 0 /\ crashes = 0 /\ upgrades = 0
    /\ users = Own(settings.hooks)
    /\ last = "none"

Start(p, verb) ==
    /\ p \notin Running /\ verbs < MaxVerbs
    /\ verbs' = verbs + 1
    /\ last' = "none"
    /\ proc' = [q \in Procs |->
                  IF q = p THEN [Idle EXCEPT !.verb = verb, !.at = "target",
                                             !.alone = Running = {}]
                  ELSE [proc[q] EXCEPT !.alone = @ /\ q \notin Running]]
    /\ UNCHANGED <<tree, settings, bak, generated, edits, crashes, upgrades, users>>

\* A verb that ends: well, or refused, with what it did so far left in place.
End(p) == proc' = [proc EXCEPT ![p] = Idle]
EndWell(p) == End(p) /\ last' = IF proc[p].alone THEN proc[p].verb ELSE "none"
-----------------------------------------------------------------------------
(* The trees: installHarness' loop, InstallSkill, UninstallSkill.           *)

Refuses(p) ==
    CASE proc[p].verb = "force" -> FALSE
      [] proc[p].verb = "install" -> Status(Target(p), generated) \in Refused
      [] OTHER -> Status(Target(p), "any") \in Refused \cup {"missing"}

\* Mutant: what a binary generates is not asked.
UpToDateOnce(p) ==
    proc[p].verb = "install" /\ Status(Target(p), "any") = "current"

UpToDate(p) ==
    proc[p].verb = "install" /\ Status(Target(p), generated) = "current"

CheckTarget(p) ==
    /\ AtTarget(p, "target")
    /\ IF Refuses(p) THEN End(p)
       ELSE IF UpToDate(p) THEN NextTarget(p)
       ELSE Go(p, IF proc[p].verb = "uninstall" THEN "remove" ELSE "skill")
    /\ UNCHANGED <<tree, Others>>

TruncateSkill(p) ==
    /\ AtTarget(p, "skill")
    /\ Put(p, [Target(p) EXCEPT !.skill = "torn"])
    /\ Go(p, "skill bytes")
    /\ UNCHANGED Others

WriteSkill(p) ==
    /\ AtTarget(p, "skill bytes")
    /\ Put(p, [Target(p) EXCEPT !.skill = generated])
    /\ Go(p, "stamp")
    /\ UNCHANGED Others

TruncateStamp(p) ==
    /\ AtTarget(p, "stamp")
    /\ Put(p, [Target(p) EXCEPT !.stamp = "torn"])
    /\ Go(p, "stamp bytes")
    /\ UNCHANGED Others

WriteStamp(p) ==
    /\ AtTarget(p, "stamp bytes")
    /\ Put(p, [Target(p) EXCEPT !.stamp = generated])
    /\ NextTarget(p)
    /\ UNCHANGED Others

\* os.RemoveAll takes the files one by one, in the directory's order, and
\* what another process puts there meanwhile too.
Remove_(p) ==
    /\ AtTarget(p, "remove")
    /\ IF Target(p) = NoTree THEN NextTarget(p) /\ UNCHANGED tree
       ELSE /\ \/ Put(p, [Target(p) EXCEPT !.skill = "none"])
               \/ Put(p, [Target(p) EXCEPT !.stamp = "none"])
               \/ Put(p, [Target(p) EXCEPT !.extra = FALSE])
            /\ tree' # tree
            /\ UNCHANGED proc
    /\ UNCHANGED Others
-----------------------------------------------------------------------------
(* The settings file: Splice and Unsplice.                                  *)

\* Nothing to do, or a file that is not JSON; else the edit of what was read.
ReadSettings(p) ==
    LET installing == proc[p].verb # "uninstall"
        done == IF installing THEN Has(settings.hooks, "shim")
                ELSE ~Has(settings.hooks, "shim")
    IN /\ AtSplice(p)
       /\ IF settings.at = "torn" THEN End(p) /\ UNCHANGED last
          ELSE IF done THEN EndWell(p)
          ELSE /\ proc' = [proc EXCEPT ![p].file = settings,
                             ![p].at = IF installing /\ settings.at = "whole"
                                       THEN "backup" ELSE "settings"]
               /\ UNCHANGED last
       /\ UNCHANGED <<tree, settings, bak, Rest>>

\* writeBakOnce: only where there is none.
StatBackup(p) ==
    /\ proc[p].at = "backup"
    /\ Go(p, IF bak.at = "absent" THEN "backup open" ELSE "settings")
    /\ UNCHANGED <<settings, bak, OtherFiles>>

TruncateBackup(p) ==
    /\ proc[p].at = "backup open"
    /\ bak' = Torn
    /\ Go(p, "backup bytes")
    /\ UNCHANGED <<settings, OtherFiles>>

WriteBackup(p) ==
    /\ proc[p].at = "backup bytes"
    /\ bak' = proc[p].file
    /\ Go(p, "settings")
    /\ UNCHANGED <<settings, OtherFiles>>

TruncateSettings(p) ==
    /\ proc[p].at = "settings"
    /\ settings' = Torn
    /\ Go(p, "settings bytes")
    /\ UNCHANGED <<bak, OtherFiles>>

WriteSettings(p) ==
    LET h == proc[p].file.hooks IN
    /\ proc[p].at = "settings bytes"
    /\ settings' = Whole(IF proc[p].verb = "uninstall" THEN Unspliced(h) ELSE Spliced(h))
    /\ EndWell(p)
    /\ UNCHANGED <<tree, bak, Rest>>

Crash(p) ==
    /\ p \in Running /\ crashes < MaxCrashes
    /\ crashes' = crashes + 1
    /\ End(p)
    /\ UNCHANGED <<tree, settings, bak, generated, verbs, edits, upgrades, users, last>>
-----------------------------------------------------------------------------
(* Between verbs: the person and the binary.                                *)

EditTree(i) ==
    /\ Running = {} /\ edits < MaxEdits
    /\ edits' = edits + 1
    /\ \E t \in {[tree[i] EXCEPT !.skill = "edited"], [tree[i] EXCEPT !.extra = TRUE],
                 [tree[i] EXCEPT !.stamp = "none"], NoTree} \ {tree[i]} :
         tree' = [tree EXCEPT ![i] = t]
    /\ last' = "none"
    /\ UNCHANGED <<settings, bak, generated, proc, verbs, crashes, upgrades, users>>

\* A hook beside those of a group, a change to clast's own, its removal, or a
\* group of their own.
Changed(g) ==
    {Append(g, "user"), Cons("user", g), ReplaceAll(g, "shim", "tampered")}
    \cup {RemoveAt(g, i) : i \in {j \in DOMAIN g : g[j] # "user"}}
ByHand(h) ==
    {[h EXCEPT !.hooks = TRUE, !.start = TRUE, !.groups = Append(@, <<"user">>)]}
    \cup UNION {{[h EXCEPT !.groups[i] = g] : g \in Changed(h.groups[i])}
                 : i \in DOMAIN h.groups}

EditSettings ==
    /\ Running = {} /\ edits < MaxEdits
    /\ edits' = edits + 1
    /\ \E h \in IF settings.at = "torn" THEN {NoHooks, bak.hooks}
                ELSE ByHand(settings.hooks) :
         settings' = Whole(h) /\ users' = Own(h)
    /\ last' = "none"
    /\ UNCHANGED <<tree, bak, generated, proc, verbs, crashes, upgrades>>

Upgrade ==
    /\ Running = {} /\ upgrades < MaxUpgrades
    /\ upgrades' = upgrades + 1
    /\ generated' \in Versions \ {generated}
    /\ last' = "none"
    /\ UNCHANGED <<tree, settings, bak, proc, verbs, edits, crashes, users>>

Next ==
    \/ \E p \in Procs :
         \/ \E verb \in Verbs : Start(p, verb)
         \/ CheckTarget(p) \/ TruncateSkill(p) \/ WriteSkill(p)
         \/ TruncateStamp(p) \/ WriteStamp(p) \/ Remove_(p)
         \/ ReadSettings(p) \/ StatBackup(p) \/ TruncateBackup(p) \/ WriteBackup(p)
         \/ TruncateSettings(p) \/ WriteSettings(p) \/ Crash(p)
    \/ \E i \in DOMAIN Skills : EditTree(i)
    \/ EditSettings \/ Upgrade

Spec == Init /\ [][Next]_vars
-----------------------------------------------------------------------------
(* What doctor reports: each target's state, and what is missing or wrong   *)
(* of the projection as a whole.                                            *)

State(i) == Status(tree[i], generated)
AllMissing == \A i \in DOMAIN Skills : State(i) = "missing"

\* Mutant: an up to date skill is no evidence of an install.
EvidenceOfChange ==
    \E i \in DOMAIN Skills : State(i) \in {"stale", "modified", "incompatible"}

Evidence ==
    \E i \in DOMAIN Skills :
        State(i) \in {"current", "stale", "modified", "incompatible"}

TargetFindings ==
    {<<State(i), i>> : i \in {j \in DOMAIN Skills : State(j) \notin {"current", "missing"}}}
    \cup {<<"missing", i>> : i \in {j \in DOMAIN Skills : State(j) = "missing" /\ Evidence}}

SpliceFindings ==
    CASE SpliceStatus(settings) = "malformed" -> {"malformed hook"}
      [] SpliceStatus(settings) = "tampered" -> {"tampered hook"}
      [] SpliceStatus(settings) = "absent" -> IF Evidence THEN {"missing hook"} ELSE {}
      [] OTHER -> IF Evidence THEN {} ELSE {"orphaned hook"}

Healthy == TargetFindings = {} /\ SpliceFindings = {}
InPlace ==
    /\ \A i \in DOMAIN Skills : State(i) = "current"
    /\ Has(settings.hooks, "shim")
-----------------------------------------------------------------------------
\* The shim stands in one place of a file at most.
ShimOnce(h) ==
    \A i, j \in DOMAIN h.groups :
      \A a \in DOMAIN h.groups[i], b \in DOMAIN h.groups[j] :
        h.groups[i][a] = "shim" /\ h.groups[j][b] = "shim" => i = j /\ a = b

TypeOK ==
    /\ tree \in [DOMAIN Skills -> Tree]
    /\ {settings, bak} \subseteq {Absent, Torn} \cup {Whole(h) : h \in {settings.hooks, bak.hooks}}
    /\ {settings.hooks, bak.hooks} \subseteq Hooks
    /\ generated \in Versions
    /\ last \in Verbs \cup {"none"}

\* No verb, cut off or not, racing another or not, changes a hook or a group
\* a person put into settings.json; uninstall leaves no litter of its own. A
\* crash that tears the file leaves its backup whole, where there is one; a
\* second crash may have torn the backup before, which is never made again.
SettingsKept ==
    /\ settings.at = "whole" => Own(settings.hooks) = users
    /\ Running = {} /\ crashes = 1 => "torn" \notin {settings.at} \cap {bak.at}

\* The pinned hook is never there twice: neither by a second install nor by two
\* at a time.  (A hook somebody changed is not the pinned one: doctor tells of it
\* only where the pinned one is missing, and both fire where an install adds it.)
OneShim == ShimOnce(settings.hooks)

\* What a person changed or put into a skill's tree is neither overwritten nor
\* removed unless --force was given.
EditsKept ==
    [][\A i \in DOMAIN Skills :
         \/ /\ tree[i].skill = "edited" => tree'[i].skill = "edited"
            /\ tree[i].extra => tree'[i].extra
         \/ Running = {}
         \/ \E p \in Running : proc[p].verb = "force"]_vars

\* An install that ended well has everything in place, whatever an earlier
\* verb left half done, and an uninstall nothing of clast's. What --force does
\* not remove is a file clast never generates.
PromiseKept ==
    /\ last = "install" => InPlace /\ Healthy
    /\ last = "force" => InPlace \/ \E i \in DOMAIN Skills : tree[i].extra
    /\ last = "uninstall" => AllMissing /\ ~Has(settings.hooks, "shim")

\* A verb alone that comes to an end past its first write, well, refused or cut
\* off, has done what it set out to do or doctor tells of what is left: nothing
\* it leaves between the first tree and the hook passes for an install, nor for
\* none.
DoctorTells ==
    [][\A p \in Running :
         /\ proc[p].alone /\ p \notin Running'
         /\ proc[p].next > 1 \/ proc[p].at \notin {"target", "skill", "remove"}
         /\ Healthy'
         => IF proc[p].verb = "uninstall"
            THEN AllMissing' /\ ~Has(settings.hooks, "shim")' ELSE InPlace']_vars
=============================================================================
