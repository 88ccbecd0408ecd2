------------------------------- MODULE Lists -------------------------------
(***************************************************************************)
(* What several parts of clast do with a list.                             *)
(***************************************************************************)
EXTENDS Naturals, Sequences, FiniteSets

\* A sequence without the elements of S (SelectSeq, as a function of its own
\* that can be reasoned about).
Without(s, S) ==
    LET kept[n \in 0..Len(s)] ==
          IF n = 0 THEN <<>>
          ELSE IF s[n] \in S THEN kept[n - 1] ELSE Append(kept[n - 1], s[n])
    IN kept[Len(s)]

\* ... and of those alone.
Only(s, S) == Without(s, {s[i] : i \in DOMAIN s} \ S)

\* The items at the places I, in their order.  (SubSeq has TLC work them out
\* once, here and below.)
Picked(s, I) ==
  LET nth(n) == CHOOSE i \in I : Cardinality({j \in I : j <= i}) = n
  IN SubSeq([n \in 1..Cardinality(I) |-> s[nth(n)]], 1, Cardinality(I))

\* sort.SliceStable by the ranks of the items: the place of an item is behind
\* those of a lower rank and, of its own rank, those before it.
Sorted(s, rank) ==
  LET place == [i \in DOMAIN s |->
        Cardinality({j \in DOMAIN s : rank[j] < rank[i] \/ (rank[j] = rank[i] /\ j <= i)})]
  IN SubSeq([n \in DOMAIN s |-> s[CHOOSE i \in DOMAIN s : place[i] = n]], 1, Len(s))

Count(roles, role) == Cardinality({i \in DOMAIN roles : roles[i] = role})
=============================================================================
