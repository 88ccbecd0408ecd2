----------------------------- MODULE Projection -----------------------------
(***************************************************************************)
(* What an install leaves on disk for one harness, and how clast reads it  *)
(* (internal/harness, harness/claudecode, internal/manifest): a stamped    *)
(* tree per skill, and a hook spliced into the user's settings.json.       *)
(*                                                                         *)
(* A tree is its one generated file, the stamp beside it and whether other *)
(* files are there; a checksum is the content itself. A settings file is   *)
(* its hooks: the groups of hooks.SessionStart, each a sequence of         *)
(* commands, whether hooks has other events, and whether the two container *)
(* keys are there. All the rest of the file is edited around.              *)
(***************************************************************************)
EXTENDS Integers, Lists, SequencesExt

CONSTANT Versions   \* the skill contents that binaries generate

ASSUME VersionsAssumption == {"none", "torn", "edited", "any"} \cap Versions = {}

Tree == [skill : {"none", "torn", "edited"} \cup Versions,
         stamp : {"none", "torn"} \cup Versions,  \* the content it vouches for
         extra : BOOLEAN]
NoTree == [skill |-> "none", stamp |-> "none", extra |-> FALSE]

\* The stamp's files differ from those there, or those the binary generates.
Drifted(t) == t.skill # t.stamp \/ t.extra

\* Mutant: staleness is looked at before the edits.
StatusStaleFirst(t, generated) ==
    IF t.stamp = "torn" THEN "incompatible"
    ELSE IF t.stamp = "none"
         THEN IF t = NoTree THEN "missing" ELSE "unowned_conflict"
    ELSE IF generated \notin {"any", t.stamp} THEN "stale"
    ELSE IF Drifted(t) THEN "modified" ELSE "current"

\* "any" for the generated content is uninstall's: it has none to compare.
Status(t, generated) ==
    IF t.stamp = "torn" THEN "incompatible"
    ELSE IF t.stamp = "none"
         THEN IF t = NoTree THEN "missing" ELSE "unowned_conflict"
    ELSE IF Drifted(t) THEN "modified"
    ELSE IF generated \notin {"any", t.stamp} THEN "stale" ELSE "current"

Refused == {"unowned_conflict", "modified", "incompatible"}
-----------------------------------------------------------------------------
Commands == {"shim", "tampered", "user"}   \* tampered: has the shim's marker
Hooks == [hooks : BOOLEAN, start : BOOLEAN, other : BOOLEAN,
          groups : Seq(Seq(Commands))]
NoHooks == [hooks |-> FALSE, start |-> FALSE, other |-> FALSE, groups |-> <<>>]

\* A file is absent, whole, or torn: cut off after it was truncated.
Absent == [at |-> "absent", hooks |-> NoHooks]
Torn == [at |-> "torn", hooks |-> NoHooks]
Whole(h) == [at |-> "whole", hooks |-> h]

\* Mutant: only the first hook of each group is looked at.
HasFirst(h, command) ==
    \E i \in DOMAIN h.groups : h.groups[i] # <<>> /\ Head(h.groups[i]) = command

Has(h, command) == \E i \in DOMAIN h.groups : Contains(h.groups[i], command)

\* Mutant: the hook is appended without a group around it.
SplicedBare(h) ==
    [h EXCEPT !.hooks = TRUE, !.start = TRUE, !.groups = Append(@, "shim")]

Spliced(h) ==
    [h EXCEPT !.hooks = TRUE, !.start = TRUE, !.groups = Append(@, <<"shim">>)]

\* findShimEntry and removeShimEntry: the first exact entry goes, and each
\* container that is empty for it.
ShimGroup(h) == SelectInSeq(h.groups, LAMBDA g : Contains(g, "shim"))

\* Mutant: the group goes with the hook.
UnsplicedGroup(h) ==
    LET groups == RemoveAt(h.groups, ShimGroup(h))
    IN [h EXCEPT !.groups = groups, !.start = groups # <<>>,
                 !.hooks = groups # <<>> \/ h.other]

Unspliced(h) ==
    LET i == ShimGroup(h)
        left == RemoveFirst(h.groups[i], "shim")
        groups == IF left = <<>> THEN RemoveAt(h.groups, i)
                  ELSE [h.groups EXCEPT ![i] = left]
    IN [h EXCEPT !.groups = groups, !.start = groups # <<>>,
                 !.hooks = groups # <<>> \/ h.other]

SpliceStatus(file) ==
    IF file.at = "torn" THEN "malformed"
    ELSE IF Has(file.hooks, "shim") THEN "current"
    ELSE IF Has(file.hooks, "tampered") THEN "tampered" ELSE "absent"

\* The person's part of a file: without the pinned hook and its own group,
\* and without empty containers, which uninstall may take with it.
OwnGroup(g) == [clasts |-> g = <<"shim">>, hooks |-> Without(g, {"shim"})]
Own(h) ==
    [other |-> h.other,
     groups |-> Without([i \in DOMAIN h.groups |-> OwnGroup(h.groups[i])],
                        {OwnGroup(<<"shim">>)})]
=============================================================================
