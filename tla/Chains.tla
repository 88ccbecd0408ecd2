------------------------------- MODULE Chains -------------------------------
(***************************************************************************)
(* The conversation of a transcript that branches: its entries name their *)
(* parents, and the conversation is the way from a leaf to a root.  pi and *)
(* devin walk it when they capture and again when they read the copy.      *)
(***************************************************************************)
EXTENDS Lists, SequencesExt

NoNode == "none"

\* One step of a walk, from the entry it is at to that one's parent.  An entry
\* that is missing or met again breaks it.
StepUp(parent, w) ==
  IF w.at = NoNode \/ w.broken THEN w
  ELSE IF w.at \notin DOMAIN parent \/ w.at \in ToSet(w.path)
       THEN [w EXCEPT !.broken = TRUE]
       ELSE [w EXCEPT !.path = Append(@, w.at), !.at = parent[w.at]]

\* The walk from `leaf`, leaf first, to its end.  `parent` is a function over
\* the entries that exist.
WalkLeaf(parent, leaf) ==
  LET walk[n \in 0 .. Cardinality(DOMAIN parent) + 1] ==
        IF n = 0 THEN [at |-> leaf, path |-> <<>>, broken |-> FALSE]
        ELSE StepUp(parent, walk[n - 1])
      end == walk[Cardinality(DOMAIN parent) + 1]
  IN [path |-> end.path, broken |-> end.broken]
=============================================================================
