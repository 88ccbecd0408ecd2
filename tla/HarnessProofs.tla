--------------------------- MODULE HarnessProofs ---------------------------
(***************************************************************************)
(* What install, uninstall and doctor guarantee for every number of        *)
(* skills, binaries, processes, edits, upgrades and crashes, and for every *)
(* settings file.                                                          *)
(***************************************************************************)
EXTENDS Harness, ListLemmas, TLAPS

USE VersionsAssumption, SkillsAssumption

-----------------------------------------------------------------------------
(* Where the hook is found. *)

LEMMA Selecting ==
    ASSUME NEW S, NEW g \in Seq(S), NEW x \in S, Contains(g, x)
    PROVE  /\ SelectInSeq(g, LAMBDA v : v = x) \in DOMAIN g
           /\ g[SelectInSeq(g, LAMBDA v : v = x)] = x
<1> DEFINE I == {i \in 1..Len(g) : g[i] = x}
<1>1. I # {} /\ I \subseteq Nat
    BY DEF Contains
<1>2. SelectInSeq(g, LAMBDA v : v = x) = Min(I)
    BY <1>1 DEF SelectInSeq
<1>3. Min(I) \in I
    BY <1>1, LeastOf
<1>4. QED BY <1>2, <1>3

\* The group that findShimEntry finds is one that has the shim.
LEMMA ShimFound ==
    ASSUME NEW h \in Hooks, Has(h, "shim")
    PROVE  ShimGroup(h) \in DOMAIN h.groups /\ Contains(h.groups[ShimGroup(h)], "shim")
<1> DEFINE I == {i \in 1..Len(h.groups) : Contains(h.groups[i], "shim")}
<1>1. I # {} /\ I \subseteq Nat
    <2>1. h.groups \in Seq(Seq(Commands))
        BY DEF Hooks
    <2>2. \E i \in DOMAIN h.groups : Contains(h.groups[i], "shim")
        BY DEF Has
    <2>3. DOMAIN h.groups = 1..Len(h.groups) /\ Len(h.groups) \in Nat
        BY <2>1
    <2>4. QED BY <2>2, <2>3
<1>2. ShimGroup(h) = Min(I)
    BY <1>1 DEF ShimGroup, SelectInSeq
<1>3. Min(I) \in I
    BY <1>1, LeastOf
<1>4. QED BY <1>2, <1>3 DEF Hooks

-----------------------------------------------------------------------------
(* The shim in a settings file: once, or not at all. *)

\* A group of hooks has it once at most.
Single(g) == \A a, b \in DOMAIN g : g[a] = "shim" /\ g[b] = "shim" => a = b

LEMMA GroupTypes ==
    ASSUME NEW h \in Hooks
    PROVE  /\ h.groups \in Seq(Seq(Commands))
           /\ DOMAIN h.groups = 1..Len(h.groups) /\ Len(h.groups) \in Nat
           /\ \A i \in DOMAIN h.groups :
                /\ h.groups[i] \in Seq(Commands)
                /\ DOMAIN h.groups[i] = 1..Len(h.groups[i])
                /\ Contains(h.groups[i], "shim")
                     <=> \E a \in DOMAIN h.groups[i] : h.groups[i][a] = "shim"
<1>1. h.groups \in Seq(Seq(Commands))
    BY DEF Hooks
<1>2. ASSUME NEW i \in DOMAIN h.groups PROVE h.groups[i] \in Seq(Commands)
    BY <1>1
<1>3. DOMAIN h.groups = 1..Len(h.groups) /\ Len(h.groups) \in Nat
    BY <1>1
<1>4. ASSUME NEW g \in Seq(Commands)
      PROVE  /\ DOMAIN g = 1..Len(g)
             /\ Contains(g, "shim") <=> \E a \in DOMAIN g : g[a] = "shim"
    BY DEF Contains
<1>5. QED BY <1>1, <1>2, <1>3, <1>4

\* A file without the shim, and one whose groups each have it once at most
\* and of which one at most has it.
LEMMA OnceByGroup ==
    ASSUME NEW h \in Hooks
    PROVE  /\ ~Has(h, "shim") => ShimOnce(h)
           /\ ShimOnce(h) <=>
                /\ \A i \in DOMAIN h.groups : Single(h.groups[i])
                /\ \A i, j \in DOMAIN h.groups :
                     Contains(h.groups[i], "shim") /\ Contains(h.groups[j], "shim") => i = j
<1> DEFINE At(i, a) == a \in DOMAIN h.groups[i] /\ h.groups[i][a] = "shim"
<1>1. \A i \in DOMAIN h.groups : Contains(h.groups[i], "shim") <=> \E a : At(i, a)
    BY GroupTypes
<1>2. \A i \in DOMAIN h.groups :
        Single(h.groups[i]) <=> \A a, b : At(i, a) /\ At(i, b) => a = b
    BY DEF Single
<1>3. ShimOnce(h) <=> \A i, j \in DOMAIN h.groups : \A a, b :
                        At(i, a) /\ At(j, b) => i = j /\ a = b
    BY DEF ShimOnce
<1>4. Has(h, "shim") <=> \E i \in DOMAIN h.groups : \E a : At(i, a)
    BY <1>1 DEF Has
<1> HIDE DEF At
<1>5. QED BY <1>1, <1>2, <1>3, <1>4

\* Splice adds the shim where there is none.
LEMMA SpliceAdds ==
    ASSUME NEW h \in Hooks, ~Has(h, "shim")
    PROVE  /\ Spliced(h) \in Hooks /\ Spliced(h).groups = Append(h.groups, <<"shim">>)
           /\ Has(Spliced(h), "shim") /\ ShimOnce(Spliced(h))
<1> DEFINE x == Spliced(h)
           n == Len(h.groups)
<1>1. h.groups \in Seq(Seq(Commands)) /\ <<"shim">> \in Seq(Commands)
    BY GroupTypes DEF Commands
<1>2. x.groups = Append(h.groups, <<"shim">>) /\ x \in Hooks
    <2>1. Append(h.groups, <<"shim">>) \in Seq(Seq(Commands))
        BY <1>1
    <2>2. x = [h EXCEPT !.hooks = TRUE, !.start = TRUE,
                        !.groups = Append(h.groups, <<"shim">>)]
        BY DEF Spliced, Hooks
    <2> HIDE DEF x
    <2>3. QED BY <2>1, <2>2 DEF Hooks
<1>3. /\ DOMAIN x.groups = 1..(n + 1) /\ n \in Nat
      /\ x.groups[n + 1] = <<"shim">>
      /\ \A i \in 1..n : x.groups[i] = h.groups[i]
    BY <1>1, <1>2
<1>4. \A i \in 1..n : ~Contains(x.groups[i], "shim")
    BY <1>1, <1>3 DEF Has
<1>5. Contains(x.groups[n + 1], "shim") /\ Single(x.groups[n + 1])
    BY <1>3 DEF Contains, Single
<1>6. \A i \in 1..n : Single(x.groups[i])
    BY <1>2, <1>3, <1>4, GroupTypes DEF Single
<1>7. \A i \in DOMAIN x.groups : i \in 1..n \/ i = n + 1
    BY <1>3
<1>8. n + 1 \in DOMAIN x.groups
    BY <1>3
<1> HIDE DEF x, n
<1>9. /\ \A i \in DOMAIN x.groups : Single(x.groups[i])
      /\ \A i, j \in DOMAIN x.groups :
           Contains(x.groups[i], "shim") /\ Contains(x.groups[j], "shim") => i = j
    BY <1>4, <1>5, <1>6, <1>7
<1>10. ShimOnce(x) /\ Has(x, "shim")
    BY <1>2, <1>5, <1>8, <1>9, OnceByGroup DEF Has
<1>11. QED BY <1>2, <1>10 DEF x

\* One group changed: what it takes for the shim to stay where it was.
LEMMA GroupChanged ==
    ASSUME NEW h \in Hooks, ShimOnce(h), NEW i \in DOMAIN h.groups,
           NEW g \in Seq(Commands), Single(g),
           Contains(g, "shim") => Contains(h.groups[i], "shim"),
           NEW x \in Hooks, x.groups = [h.groups EXCEPT ![i] = g]
    PROVE  ShimOnce(x)
<1>1. /\ DOMAIN x.groups = DOMAIN h.groups /\ x.groups[i] = g
      /\ \A j \in DOMAIN h.groups \ {i} : x.groups[j] = h.groups[j]
    BY GroupTypes
<1>2. QED BY <1>1, OnceByGroup

\* Unsplice takes the shim, the group it leaves empty, and nothing else.
LEMMA UnspliceTakes ==
    ASSUME NEW h \in Hooks, ShimOnce(h), Has(h, "shim")
    PROVE  Unspliced(h) \in Hooks /\ ~Has(Unspliced(h), "shim")
<1> DEFINE i == ShimGroup(h)
           a == SelectInSeq(h.groups[i], LAMBDA v : v = "shim")
           left == RemoveFirst(h.groups[i], "shim")
           groups == IF left = <<>> THEN RemoveAt(h.groups, i)
                     ELSE [h.groups EXCEPT ![i] = left]
           x == Unspliced(h)
<1>1. /\ h.groups \in Seq(Seq(Commands)) /\ i \in DOMAIN h.groups
      /\ h.groups[i] \in Seq(Commands) /\ Contains(h.groups[i], "shim")
    BY GroupTypes, ShimFound
<1>2. a \in DOMAIN h.groups[i] /\ h.groups[i][a] = "shim"
    <2>1. "shim" \in Commands
        BY DEF Commands
    <2>2. QED BY <1>1, <2>1, Selecting
<1>3. left = RemoveAt(h.groups[i], a)
    BY <1>1 DEF RemoveFirst, Contains
<1> HIDE DEF a, i
<1>4. /\ left \in Seq(Commands)
      /\ DOMAIN left = 1..(Len(h.groups[i]) - 1)
      /\ \A j \in DOMAIN left :
           left[j] = IF j < a THEN h.groups[i][j] ELSE h.groups[i][j + 1]
    <2> DEFINE g == h.groups[i]
    <2>1. g \in Seq(Commands) /\ a \in DOMAIN g
        BY <1>1, <1>2
    <2> HIDE DEF g
    <2>2. /\ RemoveAt(g, a) \in Seq(Commands)
          /\ DOMAIN RemoveAt(g, a) = 1..(Len(g) - 1)
          /\ \A j \in 1..(Len(g) - 1) :
               RemoveAt(g, a)[j] = IF j < a THEN g[j] ELSE g[j + 1]
        BY <2>1, Removing
    <2>3. QED BY <1>3, <2>2 DEF g
<1>5. ~Contains(left, "shim")
    <2>1. SUFFICES ASSUME NEW j \in DOMAIN left, left[j] = "shim" PROVE FALSE
        BY <1>4 DEF Contains
    <2>2. PICK b \in DOMAIN h.groups[i] : b # a /\ h.groups[i][b] = "shim"
        <3>1. j \in 1..(Len(h.groups[i]) - 1) /\ a \in 1..Len(h.groups[i])
            BY <1>1, <1>2, <1>4, SMTT(20)
        <3>2. Len(h.groups[i]) \in Nat /\ DOMAIN h.groups[i] = 1..Len(h.groups[i])
            BY <1>1
        <3> HIDE DEF a, i, left
        <3>3. CASE j < a
            <4>1. j \in DOMAIN h.groups[i] /\ j # a /\ h.groups[i][j] = "shim"
                BY <1>4, <2>1, <3>1, <3>2, <3>3
            <4>2. QED BY <4>1
        <3>4. CASE ~ j < a
            <4>1. j + 1 \in DOMAIN h.groups[i] /\ j + 1 # a
                BY <3>1, <3>2, <3>4
            <4>2. h.groups[i][j + 1] = "shim"
                BY <1>4, <2>1, <3>4
            <4>3. QED BY <4>1, <4>2
        <3>5. QED BY <3>3, <3>4
    <2>3. QED BY <1>1, <1>2, <2>2 DEF ShimOnce
<1>6. /\ groups \in Seq(Seq(Commands))
      /\ \A k \in DOMAIN groups : ~Contains(groups[k], "shim")
    <2>1. \A k \in DOMAIN h.groups \ {i} : ~Contains(h.groups[k], "shim")
        BY <1>1, OnceByGroup
    <2>2. CASE left = <<>>
        <3>1. /\ RemoveAt(h.groups, i) \in Seq(Seq(Commands))
              /\ DOMAIN RemoveAt(h.groups, i) = 1..(Len(h.groups) - 1)
              /\ \A k \in 1..(Len(h.groups) - 1) :
                   RemoveAt(h.groups, i)[k] =
                     IF k < i THEN h.groups[k] ELSE h.groups[k + 1]
            BY <1>1, Removing
        <3>2. ASSUME NEW k \in DOMAIN RemoveAt(h.groups, i)
              PROVE  ~Contains(RemoveAt(h.groups, i)[k], "shim")
            <4>1. /\ k \in 1..(Len(h.groups) - 1) /\ i \in 1..Len(h.groups)
                  /\ Len(h.groups) \in Nat /\ DOMAIN h.groups = 1..Len(h.groups)
                <5>1. Len(h.groups) \in Nat /\ DOMAIN h.groups = 1..Len(h.groups)
                    BY GroupTypes
                <5>2. k \in 1..(Len(h.groups) - 1)
                    BY <3>1
                <5>3. QED BY <1>1, <5>1, <5>2
            <4> HIDE DEF i
            <4>2. CASE k < i
                <5>1. k \in DOMAIN h.groups \ {i}
                    BY <4>1, <4>2
                <5>2. QED BY <2>1, <3>1, <4>2, <5>1
            <4>3. CASE ~ k < i
                <5>1. k + 1 \in DOMAIN h.groups \ {i}
                    BY <4>1, <4>3
                <5>2. QED BY <2>1, <3>1, <4>3, <5>1
            <4>4. QED BY <4>2, <4>3
        <3>3. groups = RemoveAt(h.groups, i)
            BY <2>2
        <3> HIDE DEF groups
        <3>4. QED BY <3>1, <3>2, <3>3
    <2>3. CASE left # <<>>
        <3>1. groups = [h.groups EXCEPT ![i] = left]
            BY <2>3
        <3> HIDE DEF groups, left, i
        <3>2. groups \in Seq(Seq(Commands)) /\ DOMAIN groups = DOMAIN h.groups
            BY <1>1, <1>4, <3>1
        <3>3. QED BY <1>1, <1>5, <2>1, <3>1, <3>2
    <2>4. QED BY <2>2, <2>3
<1>7. x = [h EXCEPT !.groups = groups, !.start = groups # <<>>,
                    !.hooks = groups # <<>> \/ h.other]
    BY DEF Unspliced, i
<1> HIDE DEF x, groups
<1>8. x \in Hooks /\ x.groups = groups
    <2> DEFINE start == groups # <<>>
               hooks == groups # <<>> \/ h.other
    <2>1. start \in BOOLEAN /\ hooks \in BOOLEAN
        OBVIOUS
    <2>2. x = [h EXCEPT !.groups = groups, !.start = start, !.hooks = hooks]
        BY <1>7
    <2> HIDE DEF start, hooks
    <2>3. QED BY <1>6, <2>1, <2>2 DEF Hooks
<1>9. QED BY <1>6, <1>8 DEF Has, x

\* What a person may do to a group adds no shim to it.
LEMMA ChangedSingle ==
    ASSUME NEW g \in Seq(Commands), Single(g), NEW x \in Changed(g)
    PROVE  /\ x \in Seq(Commands) /\ Single(x)
           /\ Contains(x, "shim") => Contains(g, "shim")
<1>1. DOMAIN g = 1..Len(g) /\ Len(g) \in Nat /\ Commands = {"shim", "tampered", "user"}
    BY DEF Commands
<1>2. CASE x = Append(g, "user")
    BY <1>1, <1>2 DEF Single, Contains
<1>3. CASE x = Cons("user", g)
    <2>1. /\ x \in Seq(Commands) /\ DOMAIN x = 1..(Len(g) + 1)
          /\ \A j \in DOMAIN x : x[j] = IF j = 1 THEN "user" ELSE g[j - 1]
        <3>1. "user" \in Commands
            BY <1>1
        <3>2. /\ Cons("user", g) \in Seq(Commands)
              /\ DOMAIN Cons("user", g) = 1..(Len(g) + 1)
              /\ \A j \in 1..(Len(g) + 1) :
                   Cons("user", g)[j] = IF j = 1 THEN "user" ELSE g[j - 1]
            BY <3>1, Putting
        <3>3. QED BY <1>3, <3>2
    <2>2. ASSUME NEW j \in DOMAIN x, x[j] = "shim"
          PROVE  j - 1 \in DOMAIN g /\ g[j - 1] = "shim" /\ j \in Nat
        BY <1>1, <2>1, <2>2
    <2>3. DOMAIN x = 1..Len(x)
        BY <2>1
    <2>4. Single(x)
        <3>1. ASSUME NEW a \in DOMAIN x, NEW b \in DOMAIN x, x[a] = "shim", x[b] = "shim"
              PROVE  a = b
            <4>1. a - 1 = b - 1 /\ a \in Nat /\ b \in Nat
                BY <2>2, <3>1 DEF Single
            <4>2. QED BY <4>1
        <3>2. QED BY <3>1 DEF Single
    <2>5. QED BY <1>1, <2>1, <2>2, <2>3, <2>4 DEF Contains
<1>4. CASE x = ReplaceAll(g, "shim", "tampered")
    <2>1. /\ x \in Seq(Commands) /\ DOMAIN x = DOMAIN g
          /\ \A j \in DOMAIN g : x[j] = IF g[j] = "shim" THEN "tampered" ELSE g[j]
        <3>1. "shim" \in Commands /\ "tampered" \in Commands
            BY <1>1
        <3>2. QED BY <1>4, <3>1, Replacing
    <2>2. \A j \in DOMAIN x : x[j] # "shim"
        BY <2>1
    <2>3. Single(x)
        BY <2>2 DEF Single
    <2>4. DOMAIN x = 1..Len(x)
        BY <2>1
    <2>5. ~Contains(x, "shim")
        BY <2>2, <2>4 DEF Contains
    <2>6. QED BY <2>1, <2>3, <2>5
<1>5. ASSUME NEW i \in DOMAIN g, x = RemoveAt(g, i)
      PROVE  /\ x \in Seq(Commands) /\ Single(x)
             /\ Contains(x, "shim") => Contains(g, "shim")
    <2>1. /\ x \in Seq(Commands) /\ DOMAIN x = 1..(Len(g) - 1)
          /\ \A j \in DOMAIN x : x[j] = IF j < i THEN g[j] ELSE g[j + 1]
        BY <1>5, Removing
    <2>2. DOMAIN x = 1..(Len(g) - 1)
        BY <2>1
    <2>3. ASSUME NEW j \in DOMAIN x, x[j] = "shim"
          PROVE  \E b \in DOMAIN g : g[b] = "shim" /\ b = IF j < i THEN j ELSE j + 1
        BY <1>1, <2>1, <2>2, <2>3
    <2>4. Single(x)
        <3>1. ASSUME NEW a \in DOMAIN x, NEW b \in DOMAIN x, x[a] = "shim", x[b] = "shim"
              PROVE  a = b
            <4>1. (IF a < i THEN a ELSE a + 1) = (IF b < i THEN b ELSE b + 1)
                BY <2>3, <3>1 DEF Single
            <4>2. a \in Nat /\ b \in Nat /\ i \in Nat
                BY <1>1, <2>2
            <4>3. QED BY <4>1, <4>2
        <3>2. QED BY <3>1 DEF Single
    <2>5. DOMAIN x = 1..Len(x)
        BY <2>1
    <2>6. QED BY <1>1, <2>1, <2>3, <2>4, <2>5 DEF Contains
<1>6. QED BY <1>2, <1>3, <1>4, <1>5 DEF Changed

LEMMA ByHandOnce ==
    ASSUME NEW h \in Hooks, ShimOnce(h), NEW x \in ByHand(h)
    PROVE  x \in Hooks /\ ShimOnce(x)
<1>1. CASE x = [h EXCEPT !.hooks = TRUE, !.start = TRUE, !.groups = Append(@, <<"user">>)]
    <2>1. h.groups \in Seq(Seq(Commands)) /\ <<"user">> \in Seq(Commands)
        BY GroupTypes DEF Commands
    <2>2. Append(h.groups, <<"user">>) \in Seq(Seq(Commands))
        BY <2>1
    <2>3. x \in Hooks /\ x.groups = Append(h.groups, <<"user">>)
        BY <1>1, <2>2 DEF Hooks
    <2>4. /\ DOMAIN x.groups = 1..(Len(h.groups) + 1)
          /\ x.groups[Len(h.groups) + 1] = <<"user">>
          /\ \A j \in 1..Len(h.groups) : x.groups[j] = h.groups[j]
        BY <2>1, <2>3
    <2>5. Single(<<"user">>) /\ ~Contains(<<"user">>, "shim")
        BY DEF Single, Contains
    <2>6. \A j \in DOMAIN x.groups : j \in 1..Len(h.groups) \/ j = Len(h.groups) + 1
        BY <2>1, <2>4
    <2>7. /\ \A j \in 1..Len(h.groups) : Single(h.groups[j])
          /\ \A j, k \in 1..Len(h.groups) :
               Contains(h.groups[j], "shim") /\ Contains(h.groups[k], "shim") => j = k
        <3>1. DOMAIN h.groups = 1..Len(h.groups)
            BY GroupTypes
        <3>2. QED BY <3>1, OnceByGroup
    <2>8. /\ \A j \in DOMAIN x.groups : Single(x.groups[j])
          /\ \A j, k \in DOMAIN x.groups :
               Contains(x.groups[j], "shim") /\ Contains(x.groups[k], "shim") => j = k
        BY <2>4, <2>5, <2>6, <2>7
    <2>9. QED BY <2>3, <2>8, OnceByGroup
<1>2. ASSUME NEW i \in DOMAIN h.groups, NEW g \in Changed(h.groups[i]),
             x = [h EXCEPT !.groups[i] = g]
      PROVE  x \in Hooks /\ ShimOnce(x)
    <2>1. h.groups[i] \in Seq(Commands) /\ Single(h.groups[i])
        BY GroupTypes, OnceByGroup
    <2>2. /\ g \in Seq(Commands) /\ Single(g)
          /\ Contains(g, "shim") => Contains(h.groups[i], "shim")
        BY <2>1, ChangedSingle
    <2>3. [h.groups EXCEPT ![i] = g] \in Seq(Seq(Commands))
        BY <2>2, GroupTypes
    <2>4. x \in Hooks /\ x.groups = [h.groups EXCEPT ![i] = g]
        BY <1>2, <2>3 DEF Hooks
    <2>5. QED BY <2>2, <2>4, GroupChanged
<1>3. QED BY <1>1, <1>2 DEF ByHand

-----------------------------------------------------------------------------
(* The person's part of a settings file, which clast's edits leave alone. *)

Mapped(groups) == [i \in DOMAIN groups |-> OwnGroup(groups[i])]
Marks == {OwnGroup(g) : g \in Seq(Commands)}

LEMMA OwnIs ==
    ASSUME NEW h
    PROVE  Own(h) = [other |-> h.other,
                     groups |-> Without(Mapped(h.groups), {OwnGroup(<<"shim">>)})]
BY DEF Own, Mapped

LEMMA MappedIs ==
    ASSUME NEW s \in Seq(Seq(Commands))
    PROVE  /\ Mapped(s) \in Seq(Marks) /\ Len(Mapped(s)) = Len(s)
           /\ DOMAIN Mapped(s) = DOMAIN s
           /\ \A i \in DOMAIN s : Mapped(s)[i] = OwnGroup(s[i])
<1>1. \A i \in DOMAIN s : s[i] \in Seq(Commands)
    OBVIOUS
<1>2. \A i \in DOMAIN s : OwnGroup(s[i]) \in Marks
    BY <1>1 DEF Marks
<1>3. DOMAIN s = 1..Len(s) /\ Len(s) \in Nat
    OBVIOUS
<1>4. Mapped(s) \in [1..Len(s) -> Marks]
    BY <1>2, <1>3 DEF Mapped
<1>5. QED BY <1>3, <1>4 DEF Mapped

LEMMA MappedLess ==
    ASSUME NEW s \in Seq(Seq(Commands)), NEW i \in DOMAIN s
    PROVE  RemoveAt(Mapped(s), i) = Mapped(RemoveAt(s, i))
<1> DEFINE t == Mapped(s)
           u == RemoveAt(s, i)
<1>1. /\ t \in Seq(Marks) /\ Len(t) = Len(s) /\ i \in DOMAIN t
      /\ \A j \in DOMAIN s : t[j] = OwnGroup(s[j])
    BY MappedIs
<1>2. /\ u \in Seq(Seq(Commands)) /\ DOMAIN u = 1..(Len(s) - 1)
      /\ \A j \in 1..(Len(s) - 1) : u[j] = IF j < i THEN s[j] ELSE s[j + 1]
    BY Removing
<1> HIDE DEF t
<1>3. /\ RemoveAt(t, i) \in Seq(Marks) /\ DOMAIN RemoveAt(t, i) = 1..(Len(s) - 1)
      /\ \A j \in 1..(Len(s) - 1) : RemoveAt(t, i)[j] = IF j < i THEN t[j] ELSE t[j + 1]
    BY <1>1, Removing
<1> HIDE DEF u
<1>4. /\ Mapped(u) \in Seq(Marks) /\ DOMAIN Mapped(u) = 1..(Len(s) - 1)
      /\ \A j \in 1..(Len(s) - 1) : Mapped(u)[j] = OwnGroup(u[j])
    BY <1>2, MappedIs
<1>5. ASSUME NEW j \in 1..(Len(s) - 1) PROVE RemoveAt(t, i)[j] = Mapped(u)[j]
    <2>1. j \in DOMAIN s /\ j + 1 \in DOMAIN s
        OBVIOUS
    <2>2. QED BY <1>1, <1>2, <1>3, <1>4, <2>1
<1>6. RemoveAt(t, i) = Mapped(u)
    <2> DEFINE v == Mapped(u)
               w == RemoveAt(t, i)
    <2>1. /\ v \in Seq(Marks) /\ w \in Seq(Marks) /\ DOMAIN v = DOMAIN w
          /\ \A j \in DOMAIN v : v[j] = w[j]
        BY <1>3, <1>4, <1>5
    <2> HIDE DEF v, w
    <2>2. v = w
        BY <2>1
    <2>3. QED BY <2>2 DEF v, w
<1>7. QED BY <1>6 DEF t, u

LEMMA LastOff ==
    ASSUME NEW S, NEW s \in Seq(S), NEW x \in S
    PROVE  /\ Len(s) + 1 \in DOMAIN Append(s, x)
           /\ Append(s, x)[Len(s) + 1] = x
           /\ RemoveAt(Append(s, x), Len(s) + 1) = s
<1> DEFINE t == Append(s, x)
           n == Len(s) + 1
<1>1. /\ t \in Seq(S) /\ Len(t) = n /\ n \in DOMAIN t /\ t[n] = x
      /\ \A j \in 1..(n - 1) : t[j] = s[j]
    OBVIOUS
<1>2. Len(s) \in Nat /\ n - 1 = Len(s) /\ n \in Nat
    OBVIOUS
<1> HIDE DEF t, n
<1>3. /\ RemoveAt(t, n) \in Seq(S) /\ DOMAIN RemoveAt(t, n) = 1..(n - 1)
      /\ \A j \in 1..(n - 1) : RemoveAt(t, n)[j] = IF j < n THEN t[j] ELSE t[j + 1]
    BY <1>1, Removing
<1>4. \A j \in 1..(n - 1) : RemoveAt(t, n)[j] = s[j]
    BY <1>1, <1>2, <1>3
<1>5. RemoveAt(t, n) = s
    BY <1>2, <1>3, <1>4
<1>6. QED BY <1>1, <1>5 DEF t, n

\* Splice adds no more than clast's own group.
LEMMA SpliceOwn ==
    ASSUME NEW h \in Hooks, ~Has(h, "shim")
    PROVE  Own(Spliced(h)) = Own(h)
<1> DEFINE s == h.groups
           t == Append(s, <<"shim">>)
           n == Len(s) + 1
           mine == {OwnGroup(<<"shim">>)}
<1>1. s \in Seq(Seq(Commands)) /\ <<"shim">> \in Seq(Commands)
    BY GroupTypes DEF Commands
<1>2. Spliced(h).groups = t /\ Spliced(h).other = h.other
    <2>1. Spliced(h).groups = t
        BY SpliceAdds
    <2>2. QED BY <2>1 DEF Spliced, Hooks
<1>3. t \in Seq(Seq(Commands)) /\ n \in DOMAIN t /\ t[n] = <<"shim">>
      /\ RemoveAt(t, n) = s
    <2> HIDE DEF s
    <2> DEFINE x == <<"shim">>
    <2>1. x \in Seq(Commands)
        BY <1>1
    <2> HIDE DEF x
    <2>2. t \in Seq(Seq(Commands)) /\ t = Append(s, x)
        BY <1>1, <2>1 DEF x
    <2>3. /\ n \in DOMAIN Append(s, x) /\ Append(s, x)[n] = x
          /\ RemoveAt(Append(s, x), n) = s
        BY <1>1, <2>1, LastOff
    <2>4. QED BY <2>2, <2>3 DEF x
<1> HIDE DEF s, t, n
<1>4. Mapped(s) = RemoveAt(Mapped(t), n)
    BY <1>3, MappedLess
<1>5. /\ Mapped(t) \in Seq(Marks) /\ n \in DOMAIN Mapped(t)
      /\ Mapped(t)[n] \in mine
    BY <1>3, MappedIs
<1> HIDE DEF mine
<1>6. Without(Mapped(s), mine) = Without(Mapped(t), mine)
    BY <1>4, <1>5, WithoutOne
<1>7. QED BY <1>2, <1>6, OwnIs DEF s, mine

\* Unsplice takes no more than the hook, and the group if it was clast's own.
LEMMA UnspliceOwn ==
    ASSUME NEW h \in Hooks, ShimOnce(h), Has(h, "shim")
    PROVE  Own(Unspliced(h)) = Own(h)
<1> DEFINE s == h.groups
           i == ShimGroup(h)
           g == s[i]
           a == SelectInSeq(g, LAMBDA v : v = "shim")
           left == RemoveFirst(g, "shim")
           groups == IF left = <<>> THEN RemoveAt(s, i) ELSE [s EXCEPT ![i] = left]
           mine == {OwnGroup(<<"shim">>)}
<1>1. /\ s \in Seq(Seq(Commands)) /\ i \in DOMAIN s
      /\ g \in Seq(Commands) /\ Contains(g, "shim") /\ Single(g)
    BY GroupTypes, ShimFound, OnceByGroup
<1>2. a \in DOMAIN g /\ g[a] = "shim"
    <2>1. "shim" \in Commands
        BY DEF Commands
    <2>2. QED BY <1>1, <2>1, Selecting
<1>3. left = RemoveAt(g, a)
    BY <1>1 DEF RemoveFirst, Contains
<1>4. Unspliced(h).groups = groups /\ Unspliced(h).other = h.other
    BY DEF Unspliced, Hooks
<1> HIDE DEF a, s, i, g, left, groups, mine
<1>5. /\ left \in Seq(Commands) /\ Len(left) = Len(g) - 1
      /\ \A j \in 1..(Len(g) - 1) : left[j] = IF j < a THEN g[j] ELSE g[j + 1]
    <2>1. /\ left \in Seq(Commands) /\ DOMAIN left = 1..(Len(g) - 1)
          /\ \A j \in 1..(Len(g) - 1) : left[j] = IF j < a THEN g[j] ELSE g[j + 1]
        BY <1>1, <1>2, <1>3, Removing
    <2>2. Len(g) - 1 \in Nat
        BY <1>1, <1>2
    <2>3. QED BY <2>1, <2>2
<1>6. CASE left = <<>>
    <2>1. g = <<"shim">>
        <3>1. Len(g) = 1 /\ a = 1
            BY <1>1, <1>2, <1>5, <1>6
        <3>2. QED BY <1>1, <1>2, <3>1
    <2>2. groups = RemoveAt(s, i)
        BY <1>6 DEF groups
    <2>3. Mapped(groups) = RemoveAt(Mapped(s), i)
        BY <1>1, <2>2, MappedLess
    <2>4. /\ Mapped(s) \in Seq(Marks) /\ i \in DOMAIN Mapped(s)
          /\ Mapped(s)[i] \in mine
        BY <1>1, <2>1, MappedIs DEF g, mine
    <2>5. Without(Mapped(groups), mine) = Without(Mapped(s), mine)
        BY <2>3, <2>4, WithoutOne
    <2>6. QED BY <1>4, <2>5, OwnIs DEF s, mine
<1>7. CASE left # <<>>
    <2>1. groups = [s EXCEPT ![i] = left]
        BY <1>7 DEF groups
    <2>2. OwnGroup(left) = OwnGroup(g)
        <3>1. Without(left, {"shim"}) = Without(g, {"shim"})
            BY <1>1, <1>2, <1>3, WithoutOne
        <3>2. g # <<"shim">>
            BY <1>5, <1>7, SMTT(20)
        <3>3. left # <<"shim">>
            <4>1. SUFFICES ASSUME left = <<"shim">> PROVE FALSE
                OBVIOUS
            <4>2. Len(g) = 2 /\ a \in 1..2 /\ left[1] = "shim"
                BY <1>1, <1>2, <1>5, <4>1
            <4>3. 1 \in DOMAIN g /\ 2 \in DOMAIN g
                BY <1>1, <4>2
            <4>4. (IF 1 < a THEN g[1] ELSE g[2]) = "shim"
                BY <1>5, <4>2
            <4>5. g[1] = "shim" /\ g[2] = "shim"
                BY <1>2, <4>2, <4>4
            <4>6. QED BY <1>1, <4>3, <4>5 DEF Single
        <3>4. QED BY <3>1, <3>2, <3>3 DEF OwnGroup
    <2>3. groups \in Seq(Seq(Commands)) /\ DOMAIN groups = DOMAIN s
        BY <1>1, <1>5, <2>1
    <2>4. \A j \in DOMAIN s : OwnGroup(groups[j]) = OwnGroup(s[j])
        BY <1>1, <2>1, <2>2 DEF g
    <2>5. Mapped(groups) = Mapped(s)
        BY <2>3, <2>4 DEF Mapped
    <2>6. QED BY <1>4, <2>5, OwnIs DEF s
<1>8. QED BY <1>6, <1>7

-----------------------------------------------------------------------------
(***************************************************************************)
(* The inductive invariant.                                                *)
(***************************************************************************)
OnTree == {"skill", "skill bytes", "stamp", "stamp bytes", "remove"}
OnFile == {"backup", "backup open", "backup bytes", "settings", "settings bytes"}
Files == {Absent, Torn} \cup {Whole(h) : h \in Hooks}
Verb == [verb : Verbs \cup {"none"}, at : {"idle", "target"} \cup OnTree \cup OnFile,
         next : 1..(Len(Skills) + 1), file : Files \ {Torn}, alone : BOOLEAN]

\* What a verb at work on a tree or on the settings file is at work on.
Placed(p) ==
    /\ proc[p].at \in OnTree =>
         /\ proc[p].next <= Len(Skills)
         /\ proc[p].at = "remove" <=> proc[p].verb = "uninstall"
    /\ proc[p].at \in OnFile => proc[p].next > Len(Skills)
    /\ p \in Running => proc[p].verb \in Verbs

Shape ==
    /\ tree \in [DOMAIN Skills -> Tree]
    /\ settings \in Files /\ bak \in Files
    /\ generated \in Versions
    /\ proc \in [Procs -> Verb]
    /\ last \in Verbs \cup {"none"}
    /\ \A p \in Procs : Placed(p)

\* A verb that was not forced is at work on a tree only if nobody's changes
\* are in it.
Gentle(p) ==
    proc[p].at \in OnTree /\ proc[p].verb # "force" =>
      tree[proc[p].next].skill # "edited" /\ ~tree[proc[p].next].extra

\* What a verb read of the settings file, and why it goes on.
Read(p) ==
    /\ ShimOnce(proc[p].file.hooks)
    /\ proc[p].at \in OnFile =>
         (Has(proc[p].file.hooks, "shim") <=> proc[p].verb = "uninstall")

\* A verb that is alone so far is the only one, and has done the targets it
\* has passed.
Done(verb, i) ==
    IF verb = "uninstall" THEN tree[i] = NoTree
    ELSE /\ tree[i].skill = generated /\ tree[i].stamp = generated
         /\ verb = "install" => ~tree[i].extra
Ahead(p) ==
    p \in Running /\ proc[p].alone =>
      /\ Running = {p}
      /\ \A i \in DOMAIN Skills : i < proc[p].next => Done(proc[p].verb, i)
      /\ proc[p].at = "skill bytes" => tree[proc[p].next].skill = "torn"
      /\ proc[p].at \in {"stamp", "stamp bytes"} => tree[proc[p].next].skill = generated

ProcInv(p) == Gentle(p) /\ Read(p) /\ Ahead(p)

IInv ==
    /\ Shape
    /\ ShimOnce(settings.hooks) /\ ShimOnce(bak.hooks)
    /\ Running # {} => last = "none"
    /\ \A p \in Procs : ProcInv(p)
    /\ PromiseKept

LEMMA SkillsFinite ==
    /\ Len(Skills) \in Nat /\ Len(Skills) # 0
    /\ DOMAIN Skills = 1..Len(Skills)
    /\ \A i, n \in DOMAIN Skills : i < n => i # n
OBVIOUS

LEMMA NoHooksPlain ==
    /\ NoHooks \in Hooks /\ ShimOnce(NoHooks) /\ ~Has(NoHooks, "shim")
<1>1. NoHooks \in Hooks
    BY DEF NoHooks, Hooks
<1>2. ~Has(NoHooks, "shim")
    BY DEF NoHooks, Has
<1>3. QED BY <1>1, <1>2, OnceByGroup

LEMMA FileTypes ==
    /\ \A f \in Files : f.hooks \in Hooks
    /\ Absent \in Files /\ Torn \in Files /\ Absent # Torn
    /\ \A h \in Hooks : Whole(h) \in Files \ {Torn} /\ Whole(h).hooks = h
                        /\ Whole(h).at = "whole"
    /\ \A f \in Files : f.at # "torn" => f # Torn
    /\ \A f \in Files : f.at = "torn" => f = Torn
<1>1. /\ Absent.hooks = NoHooks /\ Torn.hooks = NoHooks
      /\ Absent.at = "absent" /\ Torn.at = "torn"
    BY DEF Absent, Torn
<1>2. \A h : Whole(h).hooks = h /\ Whole(h).at = "whole"
    BY DEF Whole
<1>3. ASSUME NEW f \in Files
      PROVE  f = Absent \/ f = Torn \/ \E h \in Hooks : f = Whole(h)
    BY DEF Files
<1>4. /\ Absent \in Files /\ Torn \in Files
      /\ \A h \in Hooks : Whole(h) \in Files
    BY DEF Files
<1>5. QED BY <1>1, <1>2, <1>3, <1>4, NoHooksPlain

LEMMA IdleType == Idle \in Verb
BY SkillsFinite, FileTypes DEF Idle, Verb

\* A process at rest relies on nothing.
LEMMA AtRest ==
    ASSUME NEW p \in Procs, proc'[p] = Idle
    PROVE  Placed(p)' /\ ProcInv(p)' /\ p \notin Running'
<1>1. /\ proc'[p].at = "idle" /\ proc'[p].file.hooks = NoHooks
    BY DEF Idle, Absent
<1>2. p \notin Running'
    BY <1>1 DEF Running
<1>3. Placed(p)'
    BY <1>1, <1>2 DEF Placed, OnTree, OnFile
<1>4. Gentle(p)'
    BY <1>1 DEF Gentle, OnTree
<1>5. Read(p)'
    <2>1. ShimOnce(proc[p].file.hooks)' <=> ShimOnce(NoHooks)
        BY <1>1 DEF ShimOnce
    <2>2. QED BY <1>1, <2>1, NoHooksPlain DEF Read, OnFile
<1>6. Ahead(p)'
    BY <1>2 DEF Ahead
<1>7. QED BY <1>2, <1>3, <1>4, <1>5, <1>6 DEF ProcInv

LEMMA InitInv == Init => IInv
<1> SUFFICES ASSUME Init PROVE IInv
    OBVIOUS
<1>1. \A p \in Procs : proc[p] = Idle
    BY DEF Init
<1>2. \A p \in Procs : proc[p].at = "idle" /\ proc[p].file.hooks = NoHooks
    BY <1>1 DEF Idle, Absent
<1>3. Running = {}
    BY <1>2 DEF Running
<1>4. \A p \in Procs : Placed(p) /\ ProcInv(p)
    BY <1>2, <1>3, NoHooksPlain
    DEF Placed, ProcInv, Gentle, Read, Ahead, OnTree, OnFile
<1>5. settings \in Files /\ ~Has(settings.hooks, "shim")
    <2>1. ~Has(settings.hooks, "shim") /\
          (settings = Absent \/ (settings.hooks \in Hooks /\ settings = Whole(settings.hooks)))
        BY SettingsAssumption DEF Init
    <2>2. QED BY <2>1, FileTypes
<1>6. ShimOnce(settings.hooks) /\ ShimOnce(bak.hooks) /\ bak \in Files
    <2>1. ShimOnce(settings.hooks)
        BY <1>5, FileTypes, OnceByGroup
    <2>2. bak = Absent /\ bak.hooks = NoHooks
        BY DEF Init, Absent
    <2>3. QED BY <2>1, <2>2, NoHooksPlain, FileTypes
<1>7. Shape
    <2>1. NoTree \in Tree
        BY DEF NoTree, Tree
    <2>2. QED BY <1>4, <1>5, <1>6, <2>1, IdleType DEF Init, Shape
<1>8. QED BY <1>3, <1>4, <1>6, <1>7 DEF IInv, PromiseKept, Init, Verbs

-----------------------------------------------------------------------------
(***************************************************************************)
(* The frame of a step.                                                    *)
(***************************************************************************)
\* A verb's step puts nobody's changes into a tree.
Tame ==
    \A i \in DOMAIN Skills :
        /\ tree'[i].skill = "edited" => tree[i].skill = "edited"
        /\ tree'[i].extra => tree[i].extra

\* What the others at work rely on, when p takes a step.
LEMMA OthersKept ==
    ASSUME IInv, NEW p \in Running, NEW q \in Procs, q # p, proc'[q] = proc[q],
           generated' = generated, Tame, p \in Running' \/ proc'[p] = Idle
    PROVE  Placed(q)' /\ ProcInv(q)'
<1>1. Placed(q) /\ ProcInv(q) /\ p \in Procs
    BY DEF IInv, Shape, Running
<1>2. q \in Running' <=> q \in Running
    BY DEF Running
<1>3. Placed(q)'
    BY <1>1, <1>2 DEF Placed
<1>4. Gentle(q)'
    <2>1. SUFFICES ASSUME proc[q].at \in OnTree, proc[q].verb # "force"
                   PROVE  tree'[proc[q].next].skill # "edited" /\ ~tree'[proc[q].next].extra
        BY DEF Gentle
    <2>2. proc[q].next \in DOMAIN Skills
        BY <1>1, <2>1, SkillsFinite DEF Placed, IInv, Shape, Verb
    <2>3. QED BY <1>1, <2>1, <2>2 DEF Tame, ProcInv, Gentle
<1>5. Read(q)'
    BY <1>1 DEF ProcInv, Read, ShimOnce, Has
<1>6. Ahead(q)'
    <2>1. ~ (q \in Running /\ proc[q].alone)
        BY <1>1 DEF ProcInv, Ahead
    <2>2. QED BY <1>2, <2>1 DEF Ahead
<1>7. QED BY <1>3, <1>4, <1>5, <1>6 DEF ProcInv

\* A step of a verb that goes on, or ends without a word.
LEMMA GoesOn ==
    ASSUME IInv, NEW p \in Running,
           \A q \in Procs \ {p} : proc'[q] = proc[q],
           generated' = generated, last' = last, Tame,
           tree' \in [DOMAIN Skills -> Tree],
           settings' \in Files, bak' \in Files,
           ShimOnce(settings'.hooks), ShimOnce(bak'.hooks),
           proc' \in [Procs -> Verb], Placed(p)', ProcInv(p)',
           p \in Running' \/ proc'[p] = Idle
    PROVE  IInv'
<1>1. last = "none" /\ p \in Procs
    BY DEF IInv, Running
<1>2. \A q \in Procs : Placed(q)' /\ ProcInv(q)'
    BY OthersKept
<1>3. Shape'
    BY <1>1, <1>2 DEF IInv, Shape
<1>4. PromiseKept'
    BY <1>1 DEF PromiseKept
<1>5. ShimOnce(settings.hooks)' /\ ShimOnce(bak.hooks)'
    BY DEF ShimOnce
<1>6. QED BY <1>1, <1>2, <1>3, <1>4, <1>5 DEF IInv

-----------------------------------------------------------------------------
(***************************************************************************)
(* The steps of a verb on the trees.                                       *)
(***************************************************************************)
\* What Status says of a tree.
LEMMA CurrentIs ==
    ASSUME NEW t \in Tree, NEW g \in Versions
    PROVE  Status(t, g) = "current" <=> t.skill = g /\ t.stamp = g /\ ~t.extra
BY DEF Status, Drifted, Tree

LEMMA MissingIs ==
    ASSUME NEW t \in Tree, NEW g
    PROVE  Status(t, g) = "missing" <=> t = NoTree
BY DEF Status, NoTree, Tree

LEMMA NotRefusedIs ==
    ASSUME NEW t \in Tree, NEW g, Status(t, g) \notin Refused
    PROVE  ~t.extra /\ t.skill # "edited"
<1>1. t.extra \in BOOLEAN /\ t.stamp \in {"none", "torn"} \cup Versions
    BY DEF Tree
<1>2. t = NoTree \/ (~Drifted(t) /\ t.stamp # "none" /\ t.stamp # "torn")
    BY DEF Status, Refused
<1>3. QED BY <1>1, <1>2 DEF Drifted, NoTree

\* A step that leaves the trees alone tames nothing; a step on one tree, that
\* one.
LEMMA TreesRest == ASSUME tree' = tree PROVE Tame
BY DEF Tame

LEMMA PutOne ==
    ASSUME IInv, NEW p \in Procs, proc[p].next \in DOMAIN Skills, NEW t \in Tree,
           Put(p, t), t.skill # "edited" \/ Target(p).skill = "edited",
           t.extra => Target(p).extra
    PROVE  /\ Tame /\ tree' \in [DOMAIN Skills -> Tree]
           /\ tree'[proc[p].next] = t
           /\ \A i \in DOMAIN Skills \ {proc[p].next} : tree'[i] = tree[i]
<1>1. tree \in [DOMAIN Skills -> Tree]
    BY DEF IInv, Shape
<1>2. QED BY <1>1 DEF Put, Target, Tame

LEMMA GoKeeps ==
    ASSUME IInv, NEW p \in Procs, NEW at, Go(p, at),
           at \in {"target"} \cup OnTree \cup OnFile
    PROVE  /\ proc' \in [Procs -> Verb]
           /\ \A q \in Procs \ {p} : proc'[q] = proc[q]
           /\ proc'[p].at = at /\ proc'[p].next = proc[p].next
           /\ proc'[p].verb = proc[p].verb /\ proc'[p].file = proc[p].file
           /\ proc'[p].alone = proc[p].alone
           /\ p \in Running'
<1>1. proc \in [Procs -> Verb] /\ proc[p] \in Verb
    BY DEF IInv, Shape
<1>2. proc' = [proc EXCEPT ![p].at = at]
    BY DEF Go
<1>3. /\ proc'[p] = [proc[p] EXCEPT !.at = at]
      /\ \A q \in Procs \ {p} : proc'[q] = proc[q]
    BY <1>1, <1>2
<1>4. [proc[p] EXCEPT !.at = at] \in Verb
    BY <1>1 DEF Verb
<1>5. at # "idle"
    BY DEF OnTree, OnFile
<1>6. QED BY <1>1, <1>2, <1>3, <1>4, <1>5 DEF Running, Verb

LEMMA NextKeeps ==
    ASSUME IInv, NEW p \in Procs, NextTarget(p), proc[p].next \in DOMAIN Skills
    PROVE  /\ proc' \in [Procs -> Verb]
           /\ \A q \in Procs \ {p} : proc'[q] = proc[q]
           /\ proc'[p].at = "target" /\ proc'[p].next = proc[p].next + 1
           /\ proc'[p].verb = proc[p].verb /\ proc'[p].file = proc[p].file
           /\ proc'[p].alone = proc[p].alone
           /\ p \in Running'
<1>1. proc \in [Procs -> Verb] /\ proc[p] \in Verb
    BY DEF IInv, Shape
<1>2. proc' = [proc EXCEPT ![p].at = "target", ![p].next = proc[p].next + 1]
    BY <1>1 DEF NextTarget, Verb
<1>3. /\ proc'[p] = [proc[p] EXCEPT !.at = "target", !.next = proc[p].next + 1]
      /\ \A q \in Procs \ {p} : proc'[q] = proc[q]
    BY <1>1, <1>2
<1>4. proc[p].next + 1 \in 1..(Len(Skills) + 1)
    BY SkillsFinite
<1>5. [proc[p] EXCEPT !.at = "target", !.next = proc[p].next + 1] \in Verb
    BY <1>1, <1>4 DEF Verb
<1>6. QED BY <1>1, <1>2, <1>3, <1>5 DEF Running, Verb

LEMMA EndKeeps ==
    ASSUME IInv, NEW p \in Procs, End(p)
    PROVE  /\ proc' \in [Procs -> Verb]
           /\ \A q \in Procs \ {p} : proc'[q] = proc[q]
           /\ proc'[p] = Idle /\ Placed(p)' /\ ProcInv(p)'
           /\ Running' = Running \ {p}
<1>1. proc \in [Procs -> Verb]
    BY DEF IInv, Shape
<1>2. /\ proc' \in [Procs -> Verb] /\ proc'[p] = Idle
      /\ \A q \in Procs \ {p} : proc'[q] = proc[q]
    BY <1>1, IdleType DEF End
<1>3. QED BY <1>2, AtRest DEF Running

LEMMA ReadStands ==
    ASSUME IInv, NEW p \in Procs, proc'[p].file = proc[p].file,
           proc'[p].verb = proc[p].verb, proc'[p].at \notin OnFile
    PROVE  Read(p)'
<1>1. ShimOnce(proc[p].file.hooks)
    BY DEF IInv, ProcInv, Read
<1>2. ShimOnce(proc[p].file.hooks)'
    BY <1>1 DEF ShimOnce
<1>3. QED BY <1>2 DEF Read

LEMMA WorkingOn ==
    ASSUME IInv, NEW p \in Procs, NEW at \in {"target"} \cup OnTree, AtTarget(p, at)
    PROVE  /\ p \in Running /\ proc[p].verb \in Verbs
           /\ proc[p].next \in DOMAIN Skills /\ Target(p) \in Tree
           /\ Target(p) = tree[proc[p].next]
           /\ at = "remove" => proc[p].verb = "uninstall"
           /\ at \in OnTree \ {"remove"} => proc[p].verb # "uninstall"
           /\ at \in OnTree /\ proc[p].verb # "force" =>
                Target(p).skill # "edited" /\ ~Target(p).extra
<1>1. /\ proc[p] \in Verb /\ Placed(p) /\ Gentle(p)
      /\ tree \in [DOMAIN Skills -> Tree] /\ proc[p].at = at
      /\ proc[p].next <= Len(Skills)
    BY DEF IInv, Shape, ProcInv, AtTarget
<1>2. p \in Running
    BY <1>1 DEF Running, OnTree
<1>3. proc[p].next \in DOMAIN Skills
    BY <1>1, SkillsFinite DEF Verb
<1>4. QED BY <1>1, <1>2, <1>3 DEF Placed, Gentle, Target

LEMMA CheckTargetKeeps ==
    ASSUME IInv, NEW p \in Procs, CheckTarget(p)
    PROVE  IInv'
<1> DEFINE t == Target(p)
           n == proc[p].next
<1>1. /\ p \in Running /\ proc[p].verb \in Verbs /\ n \in DOMAIN Skills
      /\ t \in Tree /\ t = tree[n] /\ n \in Nat
    BY WorkingOn, SkillsFinite DEF CheckTarget
<1>2. /\ UNCHANGED <<tree, settings, bak, generated, last>> /\ Tame
      /\ AtTarget(p, "target")
    BY TreesRest DEF CheckTarget, Others, Rest
<1>3. /\ tree' \in [DOMAIN Skills -> Tree] /\ settings' \in Files /\ bak' \in Files
      /\ ShimOnce(settings'.hooks) /\ ShimOnce(bak'.hooks)
      /\ Ahead(p) /\ generated \in Versions
    BY <1>2 DEF IInv, Shape, ProcInv
<1>4. CASE Refuses(p)
    <2>1. End(p)
        BY <1>4 DEF CheckTarget
    <2>2. QED BY <1>1, <1>2, <1>3, <2>1, EndKeeps, GoesOn
<1>5. CASE ~Refuses(p) /\ UpToDate(p)
    <2>1. NextTarget(p)
        BY <1>5 DEF CheckTarget
    <2>2. /\ proc' \in [Procs -> Verb]
          /\ \A q \in Procs \ {p} : proc'[q] = proc[q]
          /\ proc'[p].at = "target" /\ proc'[p].next = n + 1
          /\ proc'[p].verb = proc[p].verb /\ proc'[p].file = proc[p].file
          /\ proc'[p].alone = proc[p].alone
          /\ p \in Running'
        BY <1>1, <2>1, NextKeeps
    <2>3. Placed(p)'
        BY <1>1, <2>2 DEF Placed, OnTree, OnFile
    <2>4. Gentle(p)' /\ Read(p)'
        BY <2>2, ReadStands DEF Gentle, OnTree, OnFile
    <2>5. Ahead(p)'
        <3>1. proc[p].verb = "install" /\ t.skill = generated /\ t.stamp = generated /\ ~t.extra
            BY <1>1, <1>3, <1>5, CurrentIs DEF UpToDate
        <3>2. Done(proc[p].verb, n)
            BY <1>1, <3>1 DEF Done
        <3>3. Running' = Running
            BY <1>1, <2>2 DEF Running
        <3>4. ASSUME NEW i \in DOMAIN Skills, i < n + 1, p \in Running, proc[p].alone
              PROVE  Done(proc[p].verb, i)
            <4>1. i < n \/ i = n
                BY <1>1, <3>4, SkillsFinite
            <4>2. QED BY <1>3, <3>2, <3>4, <4>1 DEF Ahead
        <3>5. \A i \in DOMAIN Skills : Done(proc[p].verb, i) => Done(proc[p].verb, i)'
            BY <1>2, <2>2 DEF Done
        <3>6. QED BY <1>1, <1>3, <2>2, <3>3, <3>4, <3>5 DEF Ahead, Done
    <2>6. QED BY <1>1, <1>2, <1>3, <2>2, <2>3, <2>4, <2>5, GoesOn DEF ProcInv
<1>6. CASE ~Refuses(p) /\ ~UpToDate(p)
    <2> DEFINE at == IF proc[p].verb = "uninstall" THEN "remove" ELSE "skill"
    <2>1. Go(p, at) /\ at \in {"target"} \cup OnTree \cup OnFile
        BY <1>6 DEF CheckTarget, OnTree
    <2>2. /\ proc' \in [Procs -> Verb]
          /\ \A q \in Procs \ {p} : proc'[q] = proc[q]
          /\ proc'[p].at = at /\ proc'[p].next = n
          /\ proc'[p].verb = proc[p].verb /\ proc'[p].file = proc[p].file
          /\ proc'[p].alone = proc[p].alone
          /\ p \in Running'
        BY <1>1, <2>1, GoKeeps
    <2>3. Placed(p)'
        BY <1>1, <2>2, SkillsFinite DEF Placed, OnTree, OnFile
    <2>4. Gentle(p)'
        <3>1. proc[p].verb # "force" => ~t.extra /\ t.skill # "edited"
            BY <1>1, <1>6, NotRefusedIs DEF Refuses, Verbs
        <3>2. QED BY <1>1, <1>2, <2>2, <3>1 DEF Gentle
    <2>5. Read(p)'
        BY <2>2, ReadStands DEF OnFile
    <2>6. Ahead(p)'
        <3>1. Running' = Running
            BY <1>1, <2>2 DEF Running
        <3>2. QED BY <1>1, <1>2, <1>3, <2>2, <3>1 DEF Ahead, Done
    <2>7. QED BY <1>1, <1>2, <1>3, <2>2, <2>3, <2>4, <2>5, <2>6, GoesOn DEF ProcInv
<1>7. QED BY <1>4, <1>5, <1>6

\* A step that writes the tree in hand and goes to the next write of it.
LEMMA WriteKeeps ==
    ASSUME IInv, NEW p \in Procs, NEW from \in OnTree \ {"remove"}, AtTarget(p, from),
           NEW at \in OnTree \ {"remove"}, Go(p, at),
           NEW t \in Tree, Put(p, t), t.skill # "edited" \/ t.skill = Target(p).skill,
           t.extra = Target(p).extra,
           at = "skill bytes" => t.skill = "torn",
           at \in {"stamp", "stamp bytes"} /\ proc[p].alone => t.skill = generated,
           UNCHANGED Others
    PROVE  IInv'
<1> DEFINE n == proc[p].next
<1>1. /\ p \in Running /\ n \in DOMAIN Skills /\ proc[p].verb \in Verbs
      /\ proc[p].verb # "uninstall" /\ n <= Len(Skills)
      /\ proc[p].verb # "force" => Target(p).skill # "edited" /\ ~Target(p).extra
    <2>1. from \in {"target"} \cup OnTree /\ from \in OnTree \ {"remove"} /\ from # "remove"
        OBVIOUS
    <2>2. n <= Len(Skills)
        BY DEF AtTarget
    <2>3. QED BY <2>1, <2>2, WorkingOn
<1>2. /\ UNCHANGED <<settings, bak, generated, last>>
      /\ settings' \in Files /\ bak' \in Files
      /\ ShimOnce(settings'.hooks) /\ ShimOnce(bak'.hooks)
    BY DEF Others, Rest, IInv, Shape
<1>3. /\ Tame /\ tree' \in [DOMAIN Skills -> Tree] /\ tree'[n] = t
      /\ \A i \in DOMAIN Skills \ {n} : tree'[i] = tree[i]
    BY <1>1, PutOne
<1>4. /\ proc' \in [Procs -> Verb]
      /\ \A q \in Procs \ {p} : proc'[q] = proc[q]
      /\ proc'[p].at = at /\ proc'[p].next = n
      /\ proc'[p].verb = proc[p].verb /\ proc'[p].file = proc[p].file
      /\ proc'[p].alone = proc[p].alone
      /\ p \in Running'
    BY <1>1, GoKeeps
<1>5. Placed(p)'
    BY <1>1, <1>4 DEF Placed, OnTree, OnFile
<1>6. Gentle(p)' /\ Read(p)'
    BY <1>1, <1>3, <1>4, ReadStands DEF Gentle, OnTree, OnFile
<1>7. Ahead(p)'
    <2>1. Running' = Running
        BY <1>1, <1>4 DEF Running
    <2>2. Ahead(p)
        BY DEF IInv, ProcInv
    <2>3. ASSUME p \in Running, proc[p].alone, NEW i \in DOMAIN Skills, i < n
          PROVE  /\ Done(proc[p].verb, i)
                 /\ tree'[i] = tree[i]
        <3>1. i # n
            BY <1>1, <2>3, SkillsFinite
        <3>2. QED BY <1>3, <2>2, <2>3, <3>1 DEF Ahead
    <2>4. ASSUME p \in Running', proc'[p].alone, NEW i \in DOMAIN Skills, i < proc'[p].next
          PROVE  Done(proc[p].verb, i)'
        BY <1>1, <1>2, <1>4, <2>3, <2>4, ZenonT(30) DEF Done
    <2>5. /\ at = "skill bytes" => tree'[n].skill = "torn"
          /\ at \in {"stamp", "stamp bytes"} /\ proc[p].alone
               => tree'[n].skill = generated'
        BY <1>2, <1>3
    <2>6. p \in Running' /\ proc'[p].alone => Running' = {p}
        BY <1>1, <1>4, <2>1, <2>2 DEF Ahead
    <2>7. QED BY <1>4, <2>4, <2>5, <2>6 DEF Ahead
<1>8. QED BY <1>1, <1>2, <1>3, <1>4, <1>5, <1>6, <1>7, GoesOn DEF ProcInv

LEMMA WritesKeep ==
    ASSUME IInv, NEW p \in Procs,
           TruncateSkill(p) \/ WriteSkill(p) \/ TruncateStamp(p)
    PROVE  IInv'
<1>1. generated \in Versions /\ generated # "edited"
    BY DEF IInv, Shape
<1>2. CASE TruncateSkill(p)
    <2> DEFINE t == [Target(p) EXCEPT !.skill = "torn"]
    <2>1. Target(p) \in Tree
        BY <1>2, WorkingOn DEF TruncateSkill, OnTree
    <2>2. t \in Tree /\ t.skill = "torn" /\ t.extra = Target(p).extra
        BY <2>1 DEF Tree
    <2>3. AtTarget(p, "skill") /\ Go(p, "skill bytes") /\ Put(p, t) /\ UNCHANGED Others
        BY <1>2 DEF TruncateSkill
    <2> HIDE DEF t
    <2>4. /\ "skill" \in OnTree \ {"remove"} /\ "skill bytes" \in OnTree \ {"remove"}
          /\ "skill bytes" \notin {"stamp", "stamp bytes"} /\ t.skill # "edited"
          /\ t \in Tree /\ t.skill = "torn" /\ t.extra = Target(p).extra
        BY <2>2 DEF OnTree
    <2>5. QED BY <2>3, <2>4, WriteKeeps
<1>3. CASE WriteSkill(p)
    <2> DEFINE t == [Target(p) EXCEPT !.skill = generated]
    <2>1. Target(p) \in Tree
        BY <1>3, WorkingOn DEF WriteSkill, OnTree
    <2>2. t \in Tree /\ t.skill = generated /\ t.extra = Target(p).extra
        BY <1>1, <2>1 DEF Tree
    <2>3. AtTarget(p, "skill bytes") /\ Go(p, "stamp") /\ Put(p, t) /\ UNCHANGED Others
        BY <1>3 DEF WriteSkill
    <2> HIDE DEF t
    <2>4. /\ "skill bytes" \in OnTree \ {"remove"} /\ "stamp" \in OnTree \ {"remove"}
          /\ "stamp" # "skill bytes"
        BY DEF OnTree
    <2>5. t \in Tree /\ t.skill # "edited" /\ t.extra = Target(p).extra
        BY <1>1, <2>2
    <2>6. QED BY <2>2, <2>3, <2>4, <2>5, WriteKeeps
<1>4. CASE TruncateStamp(p)
    <2> DEFINE t == [Target(p) EXCEPT !.stamp = "torn"]
    <2>1. /\ Target(p) \in Tree /\ AtTarget(p, "stamp") /\ Go(p, "stamp bytes")
          /\ Put(p, t) /\ UNCHANGED Others /\ p \in Running
        BY <1>4, WorkingOn DEF TruncateStamp, OnTree
    <2>2. t \in Tree /\ t.skill = Target(p).skill /\ t.extra = Target(p).extra
        BY <2>1 DEF Tree
    <2>3. proc[p].alone => Target(p).skill = generated
        BY <2>1 DEF IInv, ProcInv, Ahead, AtTarget, Target
    <2> HIDE DEF t
    <2>4. /\ "stamp" \in OnTree \ {"remove"} /\ "stamp bytes" \in OnTree \ {"remove"}
          /\ "stamp bytes" # "skill bytes"
        BY DEF OnTree
    <2>5. /\ t.skill # "edited" \/ t.skill = Target(p).skill
          /\ proc[p].alone => t.skill = generated
        BY <2>2, <2>3
    <2>6. QED BY <2>1, <2>2, <2>4, <2>5, WriteKeeps
<1>5. QED BY <1>2, <1>3, <1>4

\* The last write to a target: it is done.
LEMMA PassesOn ==
    ASSUME IInv, NEW p \in Procs, NEW from \in OnTree, AtTarget(p, from),
           NextTarget(p), UNCHANGED Others, Tame,
           tree' \in [DOMAIN Skills -> Tree],
           \A i \in DOMAIN Skills \ {proc[p].next} : tree'[i] = tree[i],
           \A i \in {proc[p].next} : proc[p].alone => Done(proc[p].verb, i)'
    PROVE  IInv'
<1> DEFINE n == proc[p].next
           verb == proc[p].verb
<1>1. p \in Running /\ n \in DOMAIN Skills /\ verb \in Verbs
    BY WorkingOn
<1>2. /\ UNCHANGED <<settings, bak, generated, last>>
      /\ settings' \in Files /\ bak' \in Files
      /\ ShimOnce(settings'.hooks) /\ ShimOnce(bak'.hooks)
    BY DEF Others, Rest, IInv, Shape
<1>3. /\ proc' \in [Procs -> Verb]
      /\ \A q \in Procs \ {p} : proc'[q] = proc[q]
      /\ proc'[p].at = "target" /\ proc'[p].next = n + 1
      /\ proc'[p].verb = verb /\ proc'[p].file = proc[p].file
      /\ proc'[p].alone = proc[p].alone
      /\ p \in Running'
    BY <1>1, NextKeeps
<1>4. Placed(p)' /\ Gentle(p)' /\ Read(p)'
    BY <1>1, <1>3, ReadStands DEF Placed, Gentle, OnTree, OnFile
<1>5. Ahead(p)'
    <2>1. Running' = Running
        BY <1>1, <1>3 DEF Running
    <2>2. Ahead(p)
        BY DEF IInv, ProcInv
    <2>3. ASSUME p \in Running', proc'[p].alone, NEW i \in DOMAIN Skills, i < n + 1
          PROVE  Done(verb, i)'
        <3>1. CASE i = n
            BY <1>3, <2>3, <3>1 DEF Done
        <3>2. CASE i # n
            <4>1. i < n
                BY <1>1, <2>3, <3>2, SkillsFinite
            <4>2. Done(verb, i) /\ tree'[i] = tree[i]
                BY <1>1, <1>3, <2>2, <2>3, <3>2, <4>1 DEF Ahead
            <4>3. QED BY <1>2, <1>3, <4>2 DEF Done
        <3>3. QED BY <3>1, <3>2
    <2>4. p \in Running' /\ proc'[p].alone => Running' = {p}
        BY <1>1, <1>3, <2>1, <2>2 DEF Ahead
    <2>5. QED BY <1>3, <2>3, <2>4 DEF Ahead
<1>6. QED BY <1>1, <1>2, <1>3, <1>4, <1>5, GoesOn DEF ProcInv

LEMMA WriteStampKeeps ==
    ASSUME IInv, NEW p \in Procs, WriteStamp(p)
    PROVE  IInv'
<1> DEFINE n == proc[p].next
           t == [Target(p) EXCEPT !.stamp = generated]
<1>1. /\ Target(p) \in Tree /\ AtTarget(p, "stamp bytes") /\ NextTarget(p)
      /\ Put(p, t) /\ UNCHANGED Others /\ p \in Running /\ n \in DOMAIN Skills
      /\ proc[p].verb # "uninstall" /\ proc[p].verb \in Verbs
      /\ proc[p].verb # "force" => ~Target(p).extra
    <2>1. /\ AtTarget(p, "stamp bytes") /\ NextTarget(p) /\ Put(p, t)
          /\ UNCHANGED Others
        BY DEF WriteStamp
    <2>2. /\ "stamp bytes" \in {"target"} \cup OnTree
          /\ "stamp bytes" \in OnTree /\ "stamp bytes" # "remove"
        BY DEF OnTree
    <2>3. /\ p \in Running /\ proc[p].verb \in Verbs /\ n \in DOMAIN Skills
          /\ Target(p) \in Tree /\ proc[p].verb # "uninstall"
          /\ proc[p].verb # "force" => ~Target(p).extra
        BY <2>1, <2>2, WorkingOn
    <2>4. QED BY <2>1, <2>3
<1>2. generated \in Versions /\ generated' = generated
    BY <1>1 DEF IInv, Shape, Others, Rest
<1>3. /\ t \in Tree /\ t.skill = Target(p).skill /\ t.extra = Target(p).extra
      /\ t.stamp = generated
    BY <1>1, <1>2 DEF Tree
<1> HIDE DEF t
<1>4. /\ Tame /\ tree' \in [DOMAIN Skills -> Tree] /\ tree'[n] = t
      /\ \A i \in DOMAIN Skills \ {n} : tree'[i] = tree[i]
    BY <1>1, <1>3, PutOne
<1>5. proc[p].alone => Target(p).skill = generated
    BY <1>1 DEF IInv, ProcInv, Ahead, AtTarget, Target
<1>6. ASSUME NEW i \in {n}, proc[p].alone PROVE Done(proc[p].verb, i)'
    <2>1. /\ tree'[i].skill = generated' /\ tree'[i].stamp = generated'
          /\ proc[p].verb = "install" => ~tree'[i].extra
        BY <1>1, <1>2, <1>3, <1>4, <1>5, <1>6
    <2>2. proc'[p].verb = proc[p].verb
        BY <1>1, NextKeeps
    <2>3. QED BY <1>1, <2>1, <2>2 DEF Done
<1>7. "stamp bytes" \in OnTree
    BY DEF OnTree
<1>8. QED BY <1>1, <1>4, <1>6, <1>7, PassesOn

LEMMA RemoveKeeps ==
    ASSUME IInv, NEW p \in Procs, Remove_(p)
    PROVE  IInv'
<1> DEFINE n == proc[p].next
<1>1. /\ Target(p) \in Tree /\ AtTarget(p, "remove") /\ UNCHANGED Others
      /\ p \in Running /\ n \in DOMAIN Skills
      /\ proc[p].verb = "uninstall" /\ Target(p) = tree[n]
      /\ Target(p).skill # "edited" /\ ~Target(p).extra
    BY WorkingOn DEF Remove_, OnTree
<1>2. tree \in [DOMAIN Skills -> Tree]
    BY DEF IInv, Shape
<1>3. CASE Target(p) = NoTree
    <2>1. NextTarget(p) /\ UNCHANGED tree
        BY <1>3 DEF Remove_
    <2>2. proc'[p].verb = proc[p].verb
        BY <1>1, <2>1, NextKeeps
    <2>3. ASSUME NEW i \in {n} PROVE Done(proc[p].verb, i)'
        BY <1>1, <1>3, <2>1, <2>2 DEF Done
    <2>4. "remove" \in OnTree
        BY DEF OnTree
    <2>5. Tame /\ tree' \in [DOMAIN Skills -> Tree] /\ \A i \in DOMAIN Skills : tree'[i] = tree[i]
        BY <1>2, <2>1, TreesRest
    <2>6. QED BY <1>1, <2>1, <2>3, <2>4, <2>5, PassesOn
<1>4. CASE Target(p) # NoTree
    <2>1. PICK t \in {[Target(p) EXCEPT !.skill = "none"], [Target(p) EXCEPT !.stamp = "none"],
                      [Target(p) EXCEPT !.extra = FALSE]} : Put(p, t) /\ UNCHANGED proc
        BY <1>4 DEF Remove_
    <2>2. t \in Tree /\ t.skill # "edited" /\ ~t.extra
        BY <1>1 DEF Tree
    <2>3. /\ Tame /\ tree' \in [DOMAIN Skills -> Tree] /\ tree'[n] = t
          /\ \A i \in DOMAIN Skills \ {n} : tree'[i] = tree[i]
        BY <1>1, <2>1, <2>2, PutOne
    <2>4. /\ UNCHANGED <<settings, bak, generated, last>>
          /\ settings' \in Files /\ bak' \in Files
          /\ ShimOnce(settings'.hooks) /\ ShimOnce(bak'.hooks)
          /\ proc' \in [Procs -> Verb] /\ Placed(p) /\ ProcInv(p)
        BY <1>1, <2>1 DEF Others, Rest, IInv, Shape
    <2>5. Running' = Running
        BY <2>1 DEF Running
    <2>6. Placed(p)' /\ Gentle(p)' /\ Read(p)'
        <3>1. Placed(p)'
            BY <2>1, <2>4, <2>5 DEF Placed
        <3>2. Gentle(p)'
            BY <2>1, <2>2, <2>3 DEF Gentle
        <3>3. Read(p)'
            BY <2>1, <2>4 DEF ProcInv, Read, ShimOnce, Has
        <3>4. QED BY <3>1, <3>2, <3>3
    <2>7. Ahead(p)'
        <3>1. ASSUME p \in Running, proc[p].alone, NEW i \in DOMAIN Skills, i < n
              PROVE  Done(proc[p].verb, i)'
            <4>1. i # n
                BY <1>1, <3>1, SkillsFinite
            <4>2. Done(proc[p].verb, i) /\ tree'[i] = tree[i]
                BY <2>3, <2>4, <3>1, <4>1 DEF ProcInv, Ahead
            <4>3. QED BY <2>1, <2>4, <4>2 DEF Done
        <3>2. proc[p].at = "remove"
            BY <1>1 DEF AtTarget
        <3>3. QED BY <2>1, <2>4, <2>5, <3>1, <3>2 DEF ProcInv, Ahead
    <2>8. QED BY <1>1, <2>1, <2>3, <2>4, <2>5, <2>6, <2>7, GoesOn DEF ProcInv
<1>5. QED BY <1>3, <1>4

-----------------------------------------------------------------------------
(***************************************************************************)
(* The steps of a verb on the settings file.                               *)
(***************************************************************************)
\* From one step on the files to the next.
LEMMA FileStepKeeps ==
    ASSUME IInv, NEW p \in Procs, proc[p].at \in OnFile, NEW at \in OnFile, Go(p, at),
           UNCHANGED OtherFiles, settings' \in Files, bak' \in Files,
           ShimOnce(settings'.hooks), ShimOnce(bak'.hooks)
    PROVE  IInv'
<1>1. /\ Placed(p) /\ ProcInv(p) /\ p \in Running
      /\ proc[p].at \notin {"idle"} \cup OnTree /\ at \notin {"idle"} \cup OnTree
      /\ at \in {"target"} \cup OnTree \cup OnFile
    BY DEF IInv, Shape, Running, OnFile, OnTree
<1>2. /\ UNCHANGED <<tree, generated, last>> /\ Tame
      /\ tree' \in [DOMAIN Skills -> Tree]
    BY TreesRest DEF OtherFiles, Rest, IInv, Shape
<1>3. /\ proc' \in [Procs -> Verb]
      /\ \A q \in Procs \ {p} : proc'[q] = proc[q]
      /\ proc'[p].at = at /\ proc'[p].next = proc[p].next
      /\ proc'[p].verb = proc[p].verb /\ proc'[p].file = proc[p].file
      /\ proc'[p].alone = proc[p].alone
      /\ p \in Running'
    BY <1>1, GoKeeps
<1>4. Placed(p)' /\ Gentle(p)'
    BY <1>1, <1>3 DEF Placed, Gentle
<1>5. Read(p)'
    <2>1. Read(p) /\ proc[p].at \in OnFile
        BY <1>1 DEF ProcInv
    <2> DEFINE h == proc[p].file.hooks
    <2>2. h' = h
        BY <1>3
    <2>3. ShimOnce(h) /\ (Has(h, "shim") <=> proc[p].verb = "uninstall")
        BY <2>1 DEF Read
    <2> HIDE DEF h
    <2>4. ShimOnce(h)' /\ (Has(h, "shim")' <=> Has(h, "shim"))
        BY <2>2, <2>3 DEF ShimOnce, Has
    <2>5. QED BY <1>3, <2>3, <2>4 DEF Read, h
<1>6. Ahead(p)'
    <2>1. Running' = Running
        BY <1>1, <1>3 DEF Running
    <2>2. at \notin {"skill bytes", "stamp", "stamp bytes"}
        BY DEF OnFile
    <2>3. \A i \in DOMAIN Skills : Done(proc[p].verb, i) => Done(proc[p].verb, i)'
        BY <1>2, <1>3 DEF Done
    <2>4. QED BY <1>1, <1>2, <1>3, <2>1, <2>2, <2>3 DEF ProcInv, Ahead, Done
<1>7. QED BY <1>1, <1>2, <1>3, <1>4, <1>5, <1>6, GoesOn DEF ProcInv

\* The end of a verb that has passed all its targets and has the settings
\* file as it wants it.
LEMMA EndsWell ==
    ASSUME IInv, NEW p \in Running, EndWell(p), proc[p].next > Len(Skills),
           UNCHANGED <<tree, generated, bak>>,
           settings' \in Files, ShimOnce(settings'.hooks), settings'.at # "torn",
           Has(settings'.hooks, "shim") <=> proc[p].verb # "uninstall"
    PROVE  IInv'
<1> DEFINE verb == proc[p].verb
<1>1. /\ p \in Procs /\ verb \in Verbs /\ Ahead(p) /\ proc[p] \in Verb
      /\ tree \in [DOMAIN Skills -> Tree] /\ generated \in Versions
    BY DEF IInv, Shape, Placed, ProcInv, Running
<1>2. /\ proc' \in [Procs -> Verb] /\ proc'[p] = Idle
      /\ \A q \in Procs \ {p} : proc'[q] = proc[q]
      /\ Placed(p)' /\ ProcInv(p)' /\ Running' = Running \ {p}
      /\ last' = IF proc[p].alone THEN verb ELSE "none"
    BY <1>1, EndKeeps DEF EndWell
<1>3. \A q \in Procs : Placed(q)' /\ ProcInv(q)'
    BY <1>2, TreesRest, OthersKept
<1>4. Running' # {} => last' = "none"
    BY <1>2, <1>1 DEF Ahead
<1>5. PromiseKept'
    <2>1. SUFFICES ASSUME proc[p].alone PROVE PromiseKept'
        BY <1>2 DEF PromiseKept
    <2>2. last' = verb
        BY <1>2, <2>1
    <2>3. \A i \in DOMAIN Skills : Done(verb, i)
        <3>1. \A i \in DOMAIN Skills : i < proc[p].next
            BY <1>1, SkillsFinite DEF Verb
        <3>2. QED BY <1>1, <2>1, <3>1 DEF Ahead
    <2>4. \A i \in DOMAIN Skills : State(i)' = Status(tree[i], generated)
        BY DEF State
    <2>5. CASE verb = "uninstall"
        <3>1. AllMissing'
            BY <1>1, <2>3, <2>4, <2>5, MissingIs DEF Done, AllMissing
        <3>2. ~Has(settings.hooks, "shim")'
            BY <2>5 DEF Has
        <3>3. QED BY <2>2, <2>5, <3>1, <3>2 DEF PromiseKept
    <2>6. ASSUME verb # "uninstall", \A i \in DOMAIN Skills : ~tree[i].extra
          PROVE  InPlace' /\ Healthy'
        <3>1. \A i \in DOMAIN Skills : State(i)' = "current"
            BY <1>1, <2>3, <2>4, <2>6, CurrentIs DEF Done
        <3>2. Has(settings.hooks, "shim")'
            BY <2>6 DEF Has
        <3>3. TargetFindings' = {}
            BY <3>1 DEF TargetFindings
        <3>4. Evidence'
            BY <3>1, SkillsFinite DEF Evidence
        <3>5. SpliceStatus(settings)' = "current"
            BY <3>2 DEF SpliceStatus
        <3>6. SpliceFindings' = {}
            BY <3>4, <3>5 DEF SpliceFindings
        <3>7. QED BY <3>1, <3>2, <3>3, <3>6 DEF InPlace, Healthy
    <2>7. CASE verb = "install"
        <3>1. \A i \in DOMAIN Skills : ~tree[i].extra
            BY <2>3, <2>7 DEF Done
        <3>2. QED BY <2>2, <2>6, <2>7, <3>1 DEF PromiseKept
    <2>8. CASE verb = "force"
        <3>1. InPlace' \/ \E i \in DOMAIN Skills : tree'[i].extra
            BY <2>6, <2>8
        <3>2. QED BY <2>2, <2>8, <3>1 DEF PromiseKept
    <2>9. QED BY <1>1, <2>5, <2>7, <2>8 DEF Verbs
<1>6. Shape'
    <2>1. last' \in Verbs \cup {"none"}
        BY <1>1, <1>2
    <2>2. QED BY <1>1, <1>2, <1>3, <2>1 DEF IInv, Shape
<1>7. ShimOnce(settings.hooks)' /\ ShimOnce(bak.hooks)'
    BY DEF IInv, ShimOnce
<1>8. QED BY <1>3, <1>4, <1>5, <1>6, <1>7 DEF IInv

LEMMA ReadSettingsKeeps ==
    ASSUME IInv, NEW p \in Procs, ReadSettings(p)
    PROVE  IInv'
<1> DEFINE installing == proc[p].verb # "uninstall"
           done == IF installing THEN Has(settings.hooks, "shim")
                   ELSE ~Has(settings.hooks, "shim")
           at == IF installing /\ settings.at = "whole" THEN "backup" ELSE "settings"
<1>1. /\ p \in Running /\ proc[p].next > Len(Skills) /\ proc[p].verb \in Verbs
      /\ Placed(p) /\ ProcInv(p) /\ proc \in [Procs -> Verb] /\ proc[p] \in Verb
    BY DEF ReadSettings, AtSplice, Running, IInv, Shape, Placed
<1>2. /\ UNCHANGED <<tree, settings, bak, generated>> /\ Tame
      /\ tree' \in [DOMAIN Skills -> Tree] /\ settings' \in Files /\ bak' \in Files
      /\ ShimOnce(settings'.hooks) /\ ShimOnce(bak'.hooks)
    BY TreesRest DEF ReadSettings, Rest, IInv, Shape
<1>3. CASE settings.at = "torn"
    <2>1. End(p) /\ last' = last
        BY <1>3 DEF ReadSettings
    <2>2. QED BY <1>1, <1>2, <2>1, EndKeeps, GoesOn
<1>4. CASE settings.at # "torn" /\ done
    <2>1. EndWell(p)
        BY <1>4 DEF ReadSettings
    <2>2. Has(settings'.hooks, "shim") <=> proc[p].verb # "uninstall"
        BY <1>2, <1>4
    <2>3. QED BY <1>1, <1>2, <1>4, <2>1, <2>2, EndsWell
<1>5. CASE settings.at # "torn" /\ ~done
    <2>1. proc' = [proc EXCEPT ![p].file = settings, ![p].at = at] /\ last' = last
        BY <1>5 DEF ReadSettings
    <2>2. settings \in Files \ {Torn}
        BY <1>2, <1>5, FileTypes
    <2>3. at \in OnFile /\ at \notin OnTree \cup {"idle", "skill bytes", "stamp", "stamp bytes"}
        BY DEF OnFile, OnTree
    <2> HIDE DEF at
    <2>4. /\ proc'[p] = [proc[p] EXCEPT !.file = settings, !.at = at]
          /\ \A q \in Procs \ {p} : proc'[q] = proc[q]
        BY <1>1, <2>1
    <2>5. [proc[p] EXCEPT !.file = settings, !.at = at] \in Verb
        BY <1>1, <2>2, <2>3 DEF Verb
    <2>6. /\ proc'[p].at = at /\ proc'[p].file = settings
          /\ proc'[p].next = proc[p].next /\ proc'[p].verb = proc[p].verb
          /\ proc'[p].alone = proc[p].alone
        BY <1>1, <2>4 DEF Verb
    <2>7. proc' \in [Procs -> Verb]
        BY <1>1, <2>1, <2>4, <2>5
    <2>8. p \in Running' /\ Running' = Running
        <3>1. proc[p].at # "idle" /\ proc'[p].at # "idle"
            BY <1>1, <2>3, <2>6 DEF Running
        <3>2. \A q \in Procs : proc'[q].at # "idle" <=> proc[q].at # "idle"
            BY <2>4, <3>1
        <3>3. QED BY <3>1, <3>2 DEF Running
    <2>9. Placed(p)' /\ Gentle(p)'
        BY <1>1, <2>3, <2>6 DEF Placed, Gentle
    <2>10. Read(p)'
        BY <1>2, <1>5, <2>6 DEF Read, ShimOnce, Has
    <2>11. Ahead(p)'
        <3>1. \A i \in DOMAIN Skills : Done(proc[p].verb, i) => Done(proc[p].verb, i)'
            BY <1>2, <2>6 DEF Done
        <3>2. QED BY <1>1, <1>2, <2>3, <2>6, <2>8, <3>1 DEF ProcInv, Ahead, Done
    <2>12. QED BY <1>1, <1>2, <2>1, <2>4, <2>7, <2>8, <2>9, <2>10, <2>11, GoesOn DEF ProcInv
<1>6. QED BY <1>3, <1>4, <1>5

LEMMA FilesKeep ==
    ASSUME IInv, NEW p \in Procs,
           StatBackup(p) \/ TruncateBackup(p) \/ WriteBackup(p) \/ TruncateSettings(p)
    PROVE  IInv'
<1>1. /\ proc[p] \in Verb /\ Read(p) /\ settings \in Files /\ bak \in Files
      /\ ShimOnce(settings.hooks) /\ ShimOnce(bak.hooks)
    BY DEF IInv, Shape, ProcInv
<1>2. /\ proc[p].file \in Files /\ ShimOnce(proc[p].file.hooks)
      /\ Torn \in Files /\ ShimOnce(Torn.hooks)
    BY <1>1, FileTypes, NoHooksPlain DEF Verb, Read, Torn
<1>3. {"backup", "backup open", "backup bytes", "settings", "settings bytes"} = OnFile
    BY DEF OnFile
<1>4. CASE StatBackup(p)
    <2> DEFINE at == IF bak.at = "absent" THEN "backup open" ELSE "settings"
    <2>1. /\ Go(p, at) /\ at \in OnFile /\ proc[p].at \in OnFile
          /\ UNCHANGED <<settings, bak, OtherFiles>>
        BY <1>3, <1>4 DEF StatBackup
    <2> HIDE DEF at
    <2>2. QED BY <1>1, <2>1, FileStepKeeps
<1>5. CASE TruncateBackup(p)
    <2>1. /\ Go(p, "backup bytes") /\ "backup bytes" \in OnFile /\ proc[p].at \in OnFile
          /\ UNCHANGED <<settings, OtherFiles>> /\ bak' = Torn
        BY <1>3, <1>5 DEF TruncateBackup
    <2>2. QED BY <1>1, <1>2, <2>1, FileStepKeeps
<1>6. CASE WriteBackup(p)
    <2>1. /\ Go(p, "settings") /\ "settings" \in OnFile /\ proc[p].at \in OnFile
          /\ UNCHANGED <<settings, OtherFiles>> /\ bak' = proc[p].file
        BY <1>3, <1>6 DEF WriteBackup
    <2>2. QED BY <1>1, <1>2, <2>1, FileStepKeeps
<1>7. CASE TruncateSettings(p)
    <2>1. /\ Go(p, "settings bytes") /\ "settings bytes" \in OnFile /\ proc[p].at \in OnFile
          /\ UNCHANGED <<bak, OtherFiles>> /\ settings' = Torn
        BY <1>3, <1>7 DEF TruncateSettings
    <2>2. QED BY <1>1, <1>2, <2>1, FileStepKeeps
<1>8. QED BY <1>4, <1>5, <1>6, <1>7

LEMMA WriteSettingsKeeps ==
    ASSUME IInv, NEW p \in Procs, WriteSettings(p)
    PROVE  IInv'
<1> DEFINE h == proc[p].file.hooks
           x == IF proc[p].verb = "uninstall" THEN Unspliced(h) ELSE Spliced(h)
<1>1. /\ proc[p].at = "settings bytes" /\ settings' = Whole(x) /\ EndWell(p)
      /\ UNCHANGED <<tree, generated, bak>>
    BY DEF WriteSettings, Rest
<1>2. /\ proc[p].at \in OnFile /\ proc[p].at # "idle"
      /\ proc[p] \in Verb /\ Placed(p) /\ Read(p)
    BY <1>1 DEF OnFile, IInv, Shape, ProcInv
<1>3. /\ p \in Running /\ proc[p].next > Len(Skills) /\ h \in Hooks /\ ShimOnce(h)
      /\ Has(h, "shim") <=> proc[p].verb = "uninstall"
    BY <1>2, FileTypes DEF Running, Placed, Verb, Read
<1> HIDE DEF h
<1>4. /\ x \in Hooks /\ ShimOnce(x)
      /\ Has(x, "shim") <=> proc[p].verb # "uninstall"
    <2>1. CASE proc[p].verb = "uninstall"
        BY <1>3, <2>1, UnspliceTakes, OnceByGroup
    <2>2. CASE proc[p].verb # "uninstall"
        BY <1>3, <2>2, SpliceAdds
    <2>3. QED BY <2>1, <2>2
<1> HIDE DEF x
<1>5. /\ settings' \in Files /\ settings'.at # "torn" /\ settings'.hooks = x
    BY <1>1, <1>4, FileTypes
<1>6. QED BY <1>1, <1>3, <1>4, <1>5, EndsWell

LEMMA CrashKeeps ==
    ASSUME IInv, NEW p \in Procs, Crash(p)
    PROVE  IInv'
<1>1. /\ p \in Running /\ End(p) /\ UNCHANGED <<tree, settings, bak, generated, last>>
    BY DEF Crash
<1>2. /\ Tame /\ tree' \in [DOMAIN Skills -> Tree] /\ settings' \in Files /\ bak' \in Files
      /\ ShimOnce(settings'.hooks) /\ ShimOnce(bak'.hooks)
    BY <1>1, TreesRest DEF IInv, Shape
<1>3. QED BY <1>1, <1>2, EndKeeps, GoesOn

-----------------------------------------------------------------------------
(* A verb started, and what happens between verbs.                         *)

LEMMA StartKeeps ==
    ASSUME IInv, NEW p \in Procs, NEW verb \in Verbs, Start(p, verb)
    PROVE  IInv'
<1> DEFINE first == Running = {}
           mine == [Idle EXCEPT !.verb = verb, !.at = "target", !.alone = first]
           still(q) == proc[q].alone /\ q \notin Running
           theirs(q) == [proc[q] EXCEPT !.alone = still(q)]
<1>1. /\ UNCHANGED <<tree, settings, bak, generated>> /\ last' = "none"
      /\ proc' = [q \in Procs |-> IF q = p THEN mine ELSE theirs(q)]
      /\ p \notin Running
    BY DEF Start
<1>2. /\ proc \in [Procs -> Verb] /\ \A q \in Procs : Placed(q) /\ ProcInv(q)
      /\ \A q \in Procs : proc[q] \in Verb
    BY DEF IInv, Shape
<1>3. first \in BOOLEAN /\ (first <=> Running = {}) /\ \A q \in Procs : still(q) \in BOOLEAN
    BY <1>2 DEF Verb
<1>4. \A q \in Procs : still(q) => q \notin Running
    OBVIOUS
<1> HIDE DEF first, still
<1>5. /\ mine \in Verb /\ mine.verb = verb /\ mine.at = "target" /\ mine.next = 1
      /\ mine.file = Absent /\ mine.alone = first
    <2>1. Idle.next = 1 /\ Idle.file = Absent
        BY DEF Idle
    <2>2. QED BY <1>3, <2>1, IdleType DEF Verb
<1>6. ASSUME NEW q \in Procs
      PROVE  /\ theirs(q) \in Verb /\ theirs(q).verb = proc[q].verb
             /\ theirs(q).at = proc[q].at /\ theirs(q).next = proc[q].next
             /\ theirs(q).file = proc[q].file /\ theirs(q).alone = still(q)
    BY <1>2, <1>3 DEF Verb
<1> HIDE DEF mine, theirs
<1>7. /\ proc' \in [Procs -> Verb] /\ proc'[p] = mine
      /\ \A q \in Procs \ {p} : proc'[q] = theirs(q)
    BY <1>1, <1>5, <1>6
<1>8. Placed(p)' /\ ProcInv(p)'
    <2>1. Placed(p)' /\ Gentle(p)'
        BY <1>5, <1>7 DEF Placed, Gentle, OnTree, OnFile
    <2>2. Read(p)'
        <3>1. proc'[p].file.hooks = NoHooks /\ proc'[p].at \notin OnFile
            <4>1. proc'[p].file = Absent /\ proc'[p].at = "target"
                BY <1>5, <1>7
            <4>2. Absent.hooks = NoHooks /\ "target" \notin OnFile
                BY DEF Absent, OnFile
            <4>3. QED BY <4>1, <4>2
        <3>2. ShimOnce(proc[p].file.hooks)' <=> ShimOnce(NoHooks)
            BY <3>1 DEF ShimOnce
        <3>3. QED BY <3>1, <3>2, NoHooksPlain DEF Read
    <2>3. Ahead(p)'
        <3>1. first => \A q \in Procs \ {p} : proc'[q].at = "idle"
            BY <1>3, <1>6, <1>7 DEF Running
        <3>2. first => Running' = {p}
            BY <1>5, <1>7, <3>1 DEF Running
        <3>3. \A i \in DOMAIN Skills : ~ i < 1
            BY SkillsFinite
        <3>4. QED BY <1>5, <1>7, <3>2, <3>3 DEF Ahead
    <2>4. QED BY <2>1, <2>2, <2>3 DEF ProcInv
<1>9. ASSUME NEW q \in Procs \ {p} PROVE Placed(q)' /\ ProcInv(q)'
    <2>1. /\ proc'[q].verb = proc[q].verb /\ proc'[q].at = proc[q].at
          /\ proc'[q].next = proc[q].next /\ proc'[q].file = proc[q].file
          /\ proc'[q].alone = still(q)
        BY <1>6, <1>7
    <2>2. q \in Running' <=> q \in Running
        BY <2>1 DEF Running
    <2>3. Placed(q)' /\ Gentle(q)'
        BY <1>1, <1>2, <2>1, <2>2 DEF Placed, ProcInv, Gentle
    <2>4. Read(q)'
        BY <1>2, <2>1 DEF ProcInv, Read, ShimOnce, Has
    <2>5. Ahead(q)'
        BY <1>4, <2>1, <2>2 DEF Ahead
    <2>6. QED BY <2>3, <2>4, <2>5 DEF ProcInv
<1>10. Shape' /\ PromiseKept'
    BY <1>1, <1>7, <1>8, <1>9 DEF IInv, Shape, PromiseKept
<1>11. ShimOnce(settings.hooks)' /\ ShimOnce(bak.hooks)'
    BY <1>1 DEF IInv, ShimOnce
<1>12. QED BY <1>1, <1>8, <1>9, <1>10, <1>11 DEF IInv

\* With no verb running, nothing relies on the files.
LEMMA BetweenVerbs ==
    ASSUME IInv, Running = {}, UNCHANGED proc,
           tree' \in [DOMAIN Skills -> Tree], settings' \in Files, bak' = bak,
           ShimOnce(settings'.hooks), generated' \in Versions, last' = "none"
    PROVE  IInv'
<1>1. \A p \in Procs : proc[p].at = "idle"
    BY DEF Running
<1>2. Running' = {}
    BY <1>1 DEF Running
<1>3. \A p \in Procs : Placed(p)' /\ Gentle(p)'
    BY <1>1, <1>2 DEF Placed, Gentle, OnTree, OnFile
<1>4. \A p \in Procs : Read(p)'
    <2>1. \A p \in Procs : ShimOnce(proc[p].file.hooks)
        BY DEF IInv, ProcInv, Read
    <2>2. \A p \in Procs : ShimOnce(proc[p].file.hooks)'
        BY <2>1 DEF ShimOnce
    <2>3. QED BY <1>1, <2>2 DEF Read, OnFile
<1>5. \A p \in Procs : Ahead(p)'
    BY <1>2 DEF Ahead
<1>6. Shape' /\ PromiseKept'
    BY <1>3 DEF IInv, Shape, PromiseKept
<1>7. ShimOnce(settings.hooks)' /\ ShimOnce(bak.hooks)'
    BY DEF IInv, ShimOnce
<1>8. QED BY <1>2, <1>3, <1>4, <1>5, <1>6, <1>7 DEF IInv, ProcInv

LEMMA EditTreeKeeps ==
    ASSUME IInv, NEW i \in DOMAIN Skills, EditTree(i)
    PROVE  IInv'
<1>1. /\ tree \in [DOMAIN Skills -> Tree] /\ settings \in Files /\ generated \in Versions
      /\ ShimOnce(settings.hooks)
    BY DEF IInv, Shape
<1>2. ASSUME NEW u \in Tree
      PROVE  {[u EXCEPT !.skill = "edited"], [u EXCEPT !.extra = TRUE],
              [u EXCEPT !.stamp = "none"], NoTree} \subseteq Tree
    <2>1. [u EXCEPT !.skill = "edited"] \in Tree
        BY DEF Tree
    <2>2. [u EXCEPT !.extra = TRUE] \in Tree
        BY DEF Tree
    <2>3. [u EXCEPT !.stamp = "none"] \in Tree
        BY DEF Tree
    <2>4. NoTree \in Tree
        BY DEF Tree, NoTree
    <2>5. QED BY <2>1, <2>2, <2>3, <2>4
<1>3. PICK t \in Tree : tree' = [tree EXCEPT ![i] = t]
    <2>1. tree[i] \in Tree
        BY <1>1
    <2>2. QED BY <1>2, <2>1 DEF EditTree
<1>4. tree' \in [DOMAIN Skills -> Tree]
    BY <1>1, <1>3
<1>5. /\ Running = {} /\ UNCHANGED <<settings, bak, generated, proc>> /\ last' = "none"
    BY DEF EditTree
<1>6. QED BY <1>1, <1>4, <1>5, BetweenVerbs

LEMMA EditSettingsKeeps ==
    ASSUME IInv, EditSettings
    PROVE  IInv'
<1>1. /\ tree \in [DOMAIN Skills -> Tree] /\ settings \in Files /\ bak \in Files
      /\ generated \in Versions /\ ShimOnce(settings.hooks) /\ ShimOnce(bak.hooks)
    BY DEF IInv, Shape
<1>2. PICK h \in IF settings.at = "torn" THEN {NoHooks, bak.hooks}
                 ELSE ByHand(settings.hooks) : settings' = Whole(h)
    BY DEF EditSettings
<1>3. h \in Hooks /\ ShimOnce(h)
    <2>1. CASE settings.at = "torn"
        BY <1>1, <1>2, <2>1, NoHooksPlain, FileTypes
    <2>2. CASE settings.at # "torn"
        BY <1>1, <1>2, <2>2, ByHandOnce, FileTypes
    <2>3. QED BY <2>1, <2>2
<1>4. settings' \in Files /\ ShimOnce(settings'.hooks)
    BY <1>2, <1>3, FileTypes
<1>5. /\ Running = {} /\ UNCHANGED <<tree, bak, generated, proc>> /\ last' = "none"
    BY DEF EditSettings
<1>6. QED BY <1>1, <1>4, <1>5, BetweenVerbs

LEMMA UpgradeKeeps ==
    ASSUME IInv, Upgrade
    PROVE  IInv'
<1>1. /\ tree \in [DOMAIN Skills -> Tree] /\ settings \in Files
      /\ ShimOnce(settings.hooks)
    BY DEF IInv, Shape
<1>2. /\ Running = {} /\ UNCHANGED <<tree, settings, bak, proc>> /\ last' = "none"
      /\ generated' \in Versions
    BY DEF Upgrade
<1>3. QED BY <1>1, <1>2, BetweenVerbs

LEMMA NothingKeeps ==
    ASSUME IInv, UNCHANGED vars
    PROVE  IInv'
<1>1. UNCHANGED <<tree, settings, bak, generated, proc, last>>
    BY DEF vars
<1>2. Running' = Running
    BY <1>1 DEF Running
<1>3. ASSUME NEW p \in Procs PROVE Placed(p)' /\ ProcInv(p)'
    <2>1. Placed(p) /\ Gentle(p) /\ Read(p) /\ Ahead(p)
        BY DEF IInv, Shape, ProcInv
    <2>2. Placed(p)' /\ Gentle(p)'
        BY <1>1, <1>2, <2>1 DEF Placed, Gentle
    <2>3. Read(p)'
        BY <1>1, <2>1 DEF Read, ShimOnce, Has
    <2>4. Ahead(p)'
        BY <1>1, <1>2, <2>1 DEF Ahead, Done
    <2>5. QED BY <2>2, <2>3, <2>4 DEF ProcInv
<1>4. PromiseKept'
    <2>1. \A i : State(i)' = State(i)
        BY <1>1 DEF State
    <2>2. Evidence' = Evidence
        BY <2>1 DEF Evidence
    <2>3. TargetFindings' = TargetFindings
        BY <2>1, <2>2 DEF TargetFindings
    <2>4. SpliceStatus(settings)' = SpliceStatus(settings)
        BY <1>1 DEF SpliceStatus, Has
    <2>5. SpliceFindings' = SpliceFindings
        BY <2>2, <2>4 DEF SpliceFindings
    <2>6. Has(settings.hooks, "shim")' = Has(settings.hooks, "shim")
        BY <1>1 DEF Has
    <2>7. PromiseKept
        BY DEF IInv
    <2>8. (InPlace' = InPlace) /\ (AllMissing' = AllMissing)
        BY <2>1, <2>6 DEF InPlace, AllMissing
    <2>9. Healthy' = Healthy
        BY <2>3, <2>5 DEF Healthy
    <2>10. QED BY <1>1, <2>6, <2>7, <2>8, <2>9 DEF PromiseKept
<1>5. ShimOnce(settings.hooks)' /\ ShimOnce(bak.hooks)'
    BY <1>1 DEF IInv, ShimOnce
<1>6. Shape' /\ (Running' # {} => last' = "none")
    BY <1>1, <1>2, <1>3 DEF IInv, Shape
<1>7. QED BY <1>3, <1>4, <1>5, <1>6 DEF IInv

LEMMA Invariance == IInv /\ [Next]_vars => IInv'
<1> SUFFICES ASSUME IInv, [Next]_vars PROVE IInv'
    OBVIOUS
<1>1. CASE UNCHANGED vars
    BY <1>1, NothingKeeps
<1>2. ASSUME NEW p \in Procs, NEW verb \in Verbs, Start(p, verb) PROVE IInv'
    BY <1>2, StartKeeps
<1>3. ASSUME NEW p \in Procs,
             \/ CheckTarget(p) \/ TruncateSkill(p) \/ WriteSkill(p)
             \/ TruncateStamp(p) \/ WriteStamp(p) \/ Remove_(p)
      PROVE  IInv'
    BY <1>3, CheckTargetKeeps, WritesKeep, WriteStampKeeps, RemoveKeeps
<1>4. ASSUME NEW p \in Procs,
             \/ ReadSettings(p) \/ StatBackup(p) \/ TruncateBackup(p) \/ WriteBackup(p)
             \/ TruncateSettings(p) \/ WriteSettings(p) \/ Crash(p)
      PROVE  IInv'
    BY <1>4, ReadSettingsKeeps, FilesKeep, WriteSettingsKeeps, CrashKeeps
<1>5. ASSUME NEW i \in DOMAIN Skills, EditTree(i) PROVE IInv'
    BY <1>5, EditTreeKeeps
<1>6. CASE EditSettings
    BY <1>6, EditSettingsKeeps
<1>7. CASE Upgrade
    BY <1>7, UpgradeKeeps
<1>8. QED BY <1>1, <1>2, <1>3, <1>4, <1>5, <1>6, <1>7 DEF Next

\* Whatever two verbs do to the files at a time, and wherever one is cut off:
\* each relies on what it was told of a tree, and on the settings file it read.
THEOREM HarnessInvariant == Spec => []IInv
<1>1. QED BY InitInv, Invariance, PTL DEF Spec

\* Splice and Unsplice, on any file a person or another verb leaves, never put
\* the pinned hook there twice.
THEOREM HarnessOneShim == Spec => []OneShim
<1>1. IInv => OneShim
    BY DEF IInv, OneShim
<1>2. QED BY <1>1, HarnessInvariant, PTL

\* A verb that reports success, with no other verb beside it, leaves what it
\* promises, whatever crashes, edits and upgrades came before it.
THEOREM HarnessPromiseKept == Spec => []PromiseKept
<1>1. IInv => PromiseKept
    BY DEF IInv
<1>2. QED BY <1>1, HarnessInvariant, PTL

\* Where doctor is silent on a verb that came to its end alone, past its first
\* write, the verb has done what it set out to do: by then the tree it began with
\* is one that an install has and an uninstall has not, or one doctor tells of.
THEOREM HarnessDoctorTells == Spec => DoctorTells
<1> DEFINE Tells(p) ==
        /\ proc[p].alone /\ p \notin Running'
        /\ proc[p].next > 1 \/ proc[p].at \notin {"target", "skill", "remove"}
        /\ Healthy'
        => IF proc[p].verb = "uninstall"
           THEN AllMissing' /\ ~Has(settings.hooks, "shim")' ELSE InPlace'
<1>1. ASSUME Healthy'
      PROVE  InPlace' \/ (AllMissing' /\ (SpliceStatus(settings) = "absent")')
    <2>1. \A i \in DOMAIN Skills : State(i)' \in {"current", "missing"}
        BY <1>1 DEF Healthy, TargetFindings
    <2>2. CASE Evidence'
        <3>1. \A i \in DOMAIN Skills : State(i)' = "current"
            BY <1>1, <2>1, <2>2 DEF Healthy, TargetFindings
        <3>2. SpliceStatus(settings)' \notin {"malformed", "tampered", "absent"}
            BY <1>1, <2>2 DEF Healthy, SpliceFindings
        <3>3. Has(settings.hooks, "shim")'
            BY <3>2 DEF SpliceStatus
        <3>4. QED BY <3>1, <3>3 DEF InPlace
    <2>3. CASE ~Evidence'
        <3>1. AllMissing'
            BY <2>1, <2>3 DEF Evidence, AllMissing
        <3>2. (SpliceStatus(settings) = "absent")'
            BY <1>1, <2>3 DEF Healthy, SpliceFindings, SpliceStatus
        <3>3. QED BY <3>1, <3>2
    <2>4. QED BY <2>2, <2>3
<1>2. ASSUME IInv, [Next]_vars, NEW p \in Running, p \notin Running', proc[p].alone
      PROVE  UNCHANGED <<tree, generated>>
    <2>1. Running = {p} /\ Ahead(p)
        BY <1>2 DEF IInv, ProcInv, Ahead, Running
    <2>2. ASSUME NEW q \in Procs,
                 \/ CheckTarget(q) \/ ReadSettings(q) \/ StatBackup(q)
                 \/ TruncateBackup(q) \/ WriteBackup(q) \/ TruncateSettings(q)
                 \/ WriteSettings(q) \/ Crash(q) \/ (\E v \in Verbs : Start(q, v))
          PROVE  UNCHANGED <<tree, generated>>
        BY <2>2 DEF CheckTarget, ReadSettings, StatBackup, TruncateBackup,
                    WriteBackup, TruncateSettings, WriteSettings, Crash, Start,
                    Others, OtherFiles, Rest
    <2>3. ASSUME NEW q \in Procs,
                 TruncateSkill(q) \/ WriteSkill(q) \/ TruncateStamp(q)
                 \/ WriteStamp(q) \/ Remove_(q)
          PROVE  FALSE
        <3>1. q = p
            <4>1. \E at \in OnTree : AtTarget(q, at)
                BY <2>3 DEF TruncateSkill, WriteSkill, TruncateStamp, WriteStamp,
                            Remove_, OnTree
            <4>2. proc[q].at # "idle"
                BY <4>1 DEF AtTarget, OnTree
            <4>3. QED BY <2>1, <2>3, <4>2 DEF Running
        <3>2. /\ proc \in [Procs -> Verb] /\ p \in Procs /\ proc[p].at # "idle"
              /\ proc'[p].at = "idle"
            BY <1>2 DEF IInv, Shape, Running
        <3>3. \/ UNCHANGED proc \/ Go(p, "skill bytes") \/ Go(p, "stamp")
              \/ Go(p, "stamp bytes") \/ NextTarget(p)
            BY <2>3, <3>1 DEF TruncateSkill, WriteSkill, TruncateStamp, WriteStamp,
                              Remove_
        <3>4. QED BY <3>2, <3>3 DEF Go, NextTarget, Verb
    <2>4. ASSUME \/ \E i \in DOMAIN Skills : EditTree(i)
                 \/ EditSettings \/ Upgrade
          PROVE  FALSE
        BY <2>1, <2>4 DEF EditTree, EditSettings, Upgrade
    <2>5. CASE UNCHANGED vars
        BY <2>5 DEF vars
    <2>6. QED BY <1>2, <2>2, <2>3, <2>4, <2>5 DEF Next
<1>3. ASSUME IInv, [Next]_vars, NEW p \in Running PROVE Tells(p)
    <2> SUFFICES ASSUME proc[p].alone, p \notin Running',
                        \/ proc[p].next > 1
                        \/ proc[p].at \notin {"target", "skill", "remove"},
                        Healthy'
                 PROVE  IF proc[p].verb = "uninstall"
                        THEN AllMissing' /\ ~Has(settings.hooks, "shim")' ELSE InPlace'
        OBVIOUS
    <2>1. UNCHANGED <<tree, generated>>
        BY <1>2, <1>3
    <2>2. /\ 1 \in DOMAIN Skills /\ tree[1] \in Tree
          /\ generated \in Versions /\ generated \notin {"none", "torn"}
          /\ p \in Procs /\ proc[p] \in Verb /\ Placed(p) /\ Ahead(p)
        BY <1>3, SkillsFinite, VersionsAssumption
        DEF IInv, Shape, ProcInv, Running
    <2>3. proc[p].next \in Nat /\ proc[p].next >= 1
        BY <2>2, SkillsFinite DEF Verb
    <2>4. State(1)' = Status(tree[1], generated)
        BY <2>1 DEF State
    <2>5. /\ proc[p].at \in {"target", "skill", "remove"}
                 \cup {"skill bytes", "stamp", "stamp bytes"} \cup OnFile
          /\ proc[p].at \in {"skill bytes", "stamp", "stamp bytes"} => proc[p].at \in OnTree
        BY <1>3, <2>2 DEF Verb, Running, OnTree
    <2>6. proc[p].at \in OnFile => proc[p].next > 1
        BY <2>2, <2>3, SkillsFinite DEF Placed
    <2>7. proc[p].next > 1 => Done(proc[p].verb, 1)
        BY <1>3, <2>2, <2>3 DEF Ahead
    <2>8. CASE proc[p].verb = "uninstall"
        <3>1. proc[p].next > 1
            <4>1. proc[p].at \notin {"skill bytes", "stamp", "stamp bytes"}
                BY <2>2, <2>8, <2>5 DEF Placed
            <4>2. QED BY <2>5, <2>6, <4>1
        <3>2. tree[1] = NoTree
            BY <2>8, <2>7, <3>1 DEF Done
        <3>3. State(1)' = "missing"
            BY <2>4, <3>2 DEF Status, NoTree
        <3>4. AllMissing' /\ (SpliceStatus(settings) = "absent")'
            BY <1>1, <2>2, <3>3 DEF InPlace
        <3>5. ~Has(settings.hooks, "shim")'
            BY <3>4 DEF SpliceStatus
        <3>6. QED BY <2>8, <3>4, <3>5
    <2>9. CASE proc[p].verb # "uninstall"
        <3>1. tree[1] # NoTree
            <4>1. CASE proc[p].next > 1
                <5>1. tree[1].skill = generated
                    BY <2>9, <2>7, <4>1 DEF Done
                <5>2. QED BY <2>2, <5>1 DEF NoTree
            <4>2. CASE proc[p].next = 1
                <5>1. proc[p].at \in {"skill bytes", "stamp", "stamp bytes"}
                    <6>1. ~(proc[p].next > 1)
                        BY <4>2
                    <6>2. proc[p].at \notin {"target", "skill", "remove"}
                        BY <6>1
                    <6>3. QED BY <2>5, <2>6, <6>1, <6>2
                <5>2. tree[1].skill \in {"torn", generated}
                    BY <1>3, <2>2, <4>2, <5>1 DEF Ahead
                <5>3. QED BY <2>2, <5>2 DEF NoTree
            <4>3. QED BY <2>3, <4>1, <4>2
        <3>2. State(1)' # "missing"
            BY <2>4, <3>1 DEF Status
        <3>3. QED BY <1>1, <2>2, <2>9, <3>2 DEF AllMissing
    <2>10. QED BY <2>8, <2>9
<1>4. IInv /\ [Next]_vars => \A p \in Running : Tells(p)
    BY <1>3
<1>5. QED
    BY <1>4, HarnessInvariant, PTL DEF Spec, DoctorTells

\* No step of a verb that was not forced touches what a person changed or put
\* into a skill's tree, though the verb looked at the tree some steps before.
THEOREM HarnessEditsKept == Spec => EditsKept
<1> DEFINE Kept ==
        \A i \in DOMAIN Skills :
          \/ /\ tree[i].skill = "edited" => tree'[i].skill = "edited"
             /\ tree[i].extra => tree'[i].extra
          \/ Running = {}
          \/ \E p \in Running : proc[p].verb = "force"
<1>1. IInv /\ [Next]_vars => Kept
    <2> SUFFICES ASSUME IInv, [Next]_vars PROVE Kept
        OBVIOUS
    <2>1. CASE UNCHANGED tree
        BY <2>1
    <2>2. ASSUME NEW p \in Procs, NEW at \in OnTree, AtTarget(p, at), NEW t, Put(p, t)
          PROVE  Kept
        <3>1. /\ p \in Running /\ proc[p].next \in DOMAIN Skills
              /\ proc[p].verb # "force" => tree[proc[p].next].skill # "edited"
                                           /\ ~tree[proc[p].next].extra
            BY <2>2, WorkingOn
        <3>2. tree \in [DOMAIN Skills -> Tree]
            BY DEF IInv, Shape
        <3>3. \A i \in DOMAIN Skills \ {proc[p].next} : tree'[i] = tree[i]
            BY <2>2, <3>2 DEF Put
        <3>4. QED BY <3>1, <3>3
    <2>3. CASE Running = {}
        BY <2>3
    <2>4. OnTree = {"skill", "skill bytes", "stamp", "stamp bytes", "remove"}
        BY DEF OnTree
    <2> HIDE DEF Kept
    <2>5. ASSUME NEW p \in Procs,
                 TruncateSkill(p) \/ WriteSkill(p) \/ TruncateStamp(p) \/ WriteStamp(p)
          PROVE  Kept
        BY <2>2, <2>4, <2>5 DEF TruncateSkill, WriteSkill, TruncateStamp, WriteStamp
    <2>6. ASSUME NEW p \in Procs, Remove_(p) PROVE Kept
        BY <2>1, <2>2, <2>4, <2>6 DEF Remove_
    <2>7. ASSUME NEW p \in Procs, NEW verb \in Verbs, Start(p, verb) PROVE UNCHANGED tree
        BY <2>7 DEF Start
    <2>8. ASSUME NEW p \in Procs,
                 \/ CheckTarget(p)
                 \/ ReadSettings(p) \/ StatBackup(p) \/ TruncateBackup(p) \/ WriteBackup(p)
                 \/ TruncateSettings(p) \/ WriteSettings(p) \/ Crash(p)
          PROVE  UNCHANGED tree
        BY <2>8 DEF CheckTarget, ReadSettings, StatBackup, TruncateBackup, WriteBackup,
                    TruncateSettings, WriteSettings, Crash, OtherFiles
    <2>9. ASSUME NEW i \in DOMAIN Skills, EditTree(i) PROVE Running = {}
        BY <2>9 DEF EditTree
    <2>10. EditSettings \/ Upgrade => Running = {}
        BY DEF EditSettings, Upgrade
    <2>11. CASE UNCHANGED vars
        BY <2>1, <2>11 DEF vars
    <2>12. QED BY <2>1, <2>3, <2>5, <2>6, <2>7, <2>8, <2>9, <2>10, <2>11 DEF Next
<1>2. QED BY <1>1, HarnessInvariant, PTL DEF Spec, EditsKept

-----------------------------------------------------------------------------
(***************************************************************************)
(* The settings file: what is the person's in it, and its backup.          *)
(***************************************************************************)
\* The person's part of the file is what it was, in the file and in what a
\* verb read of it.
OwnKept ==
    /\ settings.at # "torn" => Own(settings.hooks) = users
    /\ \A p \in Procs : proc[p].at \in OnFile => Own(proc[p].file.hooks) = users

\* A torn file is one that a verb is about to write; a crash makes it one that
\* nobody will, of the two files the first crash only one.
Mended == settings.at = "torn" => \E p \in Procs : proc[p].at = "settings bytes"
Backed == bak.at = "torn" => \E p \in Procs : proc[p].at = "backup bytes"
OneWhole ==
    /\ crashes \in Nat
    /\ crashes = 0 => Mended /\ Backed
    /\ crashes = 1 => Mended \/ Backed

KInv == OwnKept /\ OneWhole

LEMMA OwnInit == Init => KInv
<1> SUFFICES ASSUME Init PROVE KInv
    OBVIOUS
<1>1. settings.at # "torn"
    BY SettingsAssumption DEF Init, Absent, Whole
<1>2. bak.at # "torn" /\ crashes = 0 /\ users = Own(settings.hooks)
    BY DEF Init, Absent
<1>3. \A p \in Procs : proc[p].at = "idle"
    BY DEF Init, Idle
<1>4. QED BY <1>1, <1>2, <1>3 DEF KInv, OwnKept, OneWhole, Mended, Backed, OnFile

\* A step that leaves the two files alone, and those who are writing them.
LEMMA FilesRest ==
    ASSUME KInv, UNCHANGED <<settings, bak, users, crashes>>,
           \A q \in Procs :
             /\ proc'[q].at \in OnFile =>
                  proc[q].at \in OnFile /\ proc'[q].file = proc[q].file
             /\ proc[q].at \in {"settings bytes", "backup bytes"} =>
                  proc'[q].at = proc[q].at
    PROVE  KInv'
<1>1. OwnKept'
    BY DEF KInv, OwnKept
<1>2. (Mended => Mended') /\ (Backed => Backed')
    BY DEF Mended, Backed
<1>3. QED BY <1>1, <1>2 DEF KInv, OneWhole

LEMMA ProcTypes ==
    ASSUME IInv
    PROVE  /\ proc \in [Procs -> Verb]
           /\ \A p \in Procs : proc[p].at \in OnFile =>
                /\ proc[p].file.at # "torn" /\ proc[p].file.hooks \in Hooks
                /\ ShimOnce(proc[p].file.hooks)
                /\ Has(proc[p].file.hooks, "shim") <=> proc[p].verb = "uninstall"
<1>1. proc \in [Procs -> Verb]
    BY DEF IInv, Shape
<1>2. ASSUME NEW p \in Procs, proc[p].at \in OnFile
      PROVE  /\ proc[p].file.at # "torn" /\ proc[p].file.hooks \in Hooks
             /\ ShimOnce(proc[p].file.hooks)
             /\ Has(proc[p].file.hooks, "shim") <=> proc[p].verb = "uninstall"
    <2>1. Read(p)
        BY DEF IInv, ProcInv
    <2>2. proc[p].file \in Files \ {Torn}
        BY <1>1 DEF Verb
    <2>3. proc[p].file.at # "torn" /\ proc[p].file.hooks \in Hooks
        BY <2>2, FileTypes
    <2>4. QED BY <1>2, <2>1, <2>3 DEF Read
<1>3. QED BY <1>1, <1>2

LEMMA TreeStepOwn ==
    ASSUME IInv, KInv, NEW p \in Procs,
           \/ CheckTarget(p) \/ TruncateSkill(p) \/ WriteSkill(p)
           \/ TruncateStamp(p) \/ WriteStamp(p) \/ Remove_(p) \/ StatBackup(p)
    PROVE  KInv'
<1>1. proc \in [Procs -> Verb]
    BY ProcTypes
<1>2. UNCHANGED <<settings, bak, users, crashes>>
    BY DEF CheckTarget, TruncateSkill, WriteSkill, TruncateStamp, WriteStamp, Remove_,
           StatBackup, Others, OtherFiles, Rest
<1>3. ASSUME NEW q \in Procs, q # p PROVE proc'[q] = proc[q]
    BY <1>1, <1>3 DEF CheckTarget, TruncateSkill, WriteSkill, TruncateStamp, WriteStamp,
           Remove_, StatBackup, End, Go, NextTarget
<1>4. /\ proc'[p].at \in OnFile => proc[p].at \in OnFile /\ proc'[p].file = proc[p].file
      /\ proc[p].at \notin {"settings bytes", "backup bytes"}
    <2>1. CASE StatBackup(p)
        BY <1>1, <2>1 DEF StatBackup, Go, OnFile, Verb
    <2>2. CASE ~StatBackup(p)
        <3>1. /\ proc[p].at \in {"target"} \cup OnTree
              /\ \/ proc' = proc \/ End(p) \/ NextTarget(p)
                 \/ \E at \in OnTree : Go(p, at)
            BY <2>2 DEF CheckTarget, TruncateSkill, WriteSkill, TruncateStamp,
                        WriteStamp, Remove_, AtTarget, OnTree
        <3>2. proc'[p].at \in {"idle", "target"} \cup OnTree
            BY <1>1, <3>1 DEF End, Idle, NextTarget, Go, Verb
        <3>3. QED BY <3>1, <3>2 DEF OnTree, OnFile
    <2>3. QED BY <2>1, <2>2
<1>5. QED BY <1>2, <1>3, <1>4, FilesRest

LEMMA ReadOwn ==
    ASSUME IInv, KInv, NEW p \in Procs, ReadSettings(p)
    PROVE  KInv'
<1>1. proc \in [Procs -> Verb] /\ proc[p].at = "target"
    BY ProcTypes DEF ReadSettings, AtSplice
<1>2. UNCHANGED <<settings, bak, users, crashes>>
    BY DEF ReadSettings, Rest
<1>3. \/ proc' = [proc EXCEPT ![p] = Idle]
      \/ /\ settings.at # "torn"
         /\ \E at \in OnFile : proc' = [proc EXCEPT ![p].file = settings, ![p].at = at]
    BY DEF ReadSettings, EndWell, End, OnFile
<1>4. /\ \A q \in Procs \ {p} : proc'[q] = proc[q]
      /\ \/ proc'[p].at = "idle"
         \/ settings.at # "torn" /\ proc'[p].file = settings
    BY <1>1, <1>3 DEF Idle, Verb
<1>5. OwnKept'
    BY <1>2, <1>4 DEF KInv, OwnKept, OnFile
<1>6. (Mended => Mended') /\ (Backed => Backed')
    BY <1>1, <1>2, <1>4 DEF Mended, Backed
<1>7. QED BY <1>2, <1>5, <1>6 DEF KInv, OneWhole

LEMMA BackupOwn ==
    ASSUME IInv, KInv, NEW p \in Procs, TruncateBackup(p) \/ WriteBackup(p)
    PROVE  KInv'
<1>1. /\ proc \in [Procs -> Verb] /\ proc[p].at \in OnFile
      /\ UNCHANGED <<settings, users, crashes>>
    BY ProcTypes DEF TruncateBackup, WriteBackup, OtherFiles, Rest, OnFile
<1>2. /\ \A q \in Procs \ {p} : proc'[q] = proc[q]
      /\ proc'[p].file = proc[p].file /\ proc'[p].at \in OnFile
      /\ proc[p].at # "settings bytes"
    BY <1>1 DEF TruncateBackup, WriteBackup, Go, OnFile, Verb
<1>3. OwnKept'
    BY <1>1, <1>2 DEF KInv, OwnKept
<1>4. Mended => Mended'
    <2>1. ASSUME NEW q \in Procs, proc[q].at = "settings bytes"
          PROVE  proc'[q].at = "settings bytes"
        <3>1. q # p
            BY <1>2, <2>1
        <3>2. QED BY <1>2, <2>1, <3>1
    <2>2. QED BY <1>1, <2>1 DEF Mended
<1>5. Backed'
    <2>1. CASE TruncateBackup(p)
        <3>1. proc'[p].at = "backup bytes"
            BY <1>1, <2>1 DEF TruncateBackup, Go, Verb
        <3>2. QED BY <3>1 DEF Backed
    <2>2. CASE WriteBackup(p)
        <3>1. bak'.at # "torn"
            BY <1>1, <2>2, ProcTypes DEF WriteBackup
        <3>2. QED BY <3>1 DEF Backed
    <2>3. QED BY <2>1, <2>2
<1>6. QED BY <1>1, <1>3, <1>4, <1>5 DEF KInv, OneWhole

LEMMA SettingsOwn ==
    ASSUME IInv, KInv, NEW p \in Procs, TruncateSettings(p) \/ WriteSettings(p)
    PROVE  KInv'
<1>1. /\ proc \in [Procs -> Verb] /\ proc[p].at \in OnFile
      /\ proc[p].at \notin {"backup", "backup open", "backup bytes"}
      /\ UNCHANGED <<bak, users, crashes>>
    BY ProcTypes DEF TruncateSettings, WriteSettings, OtherFiles, Rest, OnFile
<1>2. /\ \A q \in Procs \ {p} : proc'[q] = proc[q]
      /\ \/ TruncateSettings(p) /\ proc'[p].file = proc[p].file
                                /\ proc'[p].at = "settings bytes"
         \/ WriteSettings(p) /\ proc'[p].at = "idle"
    <2>1. CASE TruncateSettings(p)
        <3>1. proc' = [proc EXCEPT ![p].at = "settings bytes"]
            BY <2>1 DEF TruncateSettings, Go
        <3>2. QED BY <1>1, <2>1, <3>1 DEF Verb
    <2>2. CASE WriteSettings(p)
        <3>1. proc' = [proc EXCEPT ![p] = Idle] /\ Idle.at = "idle"
            BY <2>2 DEF WriteSettings, EndWell, End, Idle
        <3>2. QED BY <1>1, <2>2, <3>1
    <2>3. QED BY <2>1, <2>2
<1>3. Backed => Backed'
    <2>1. ASSUME NEW q \in Procs, proc[q].at = "backup bytes"
          PROVE  proc'[q].at = "backup bytes"
        <3>1. q # p
            BY <1>1, <2>1
        <3>2. QED BY <1>2, <2>1, <3>1
    <2>2. QED BY <1>1, <2>1 DEF Backed
<1>4. Mended' /\ (settings'.at # "torn" => Own(settings'.hooks) = users)
    <2>1. CASE TruncateSettings(p)
        <3>1. settings'.at = "torn" /\ proc'[p].at = "settings bytes"
            BY <1>2, <2>1 DEF TruncateSettings, WriteSettings, Torn
        <3>2. QED BY <3>1 DEF Mended
    <2>2. CASE WriteSettings(p)
        <3> DEFINE h == proc[p].file.hooks
        <3>1. /\ h \in Hooks /\ ShimOnce(h) /\ Own(h) = users
              /\ Has(h, "shim") <=> proc[p].verb = "uninstall"
            BY <1>1, ProcTypes DEF KInv, OwnKept
        <3>2. settings' = Whole(IF proc[p].verb = "uninstall" THEN Unspliced(h) ELSE Spliced(h))
            BY <2>2 DEF WriteSettings
        <3> HIDE DEF h
        <3>3. Own(IF proc[p].verb = "uninstall" THEN Unspliced(h) ELSE Spliced(h)) = users
            BY <3>1, SpliceOwn, UnspliceOwn
        <3>4. QED BY <3>2, <3>3 DEF Whole, Mended
    <2>3. QED BY <2>1, <2>2
<1>5. OwnKept'
    BY <1>1, <1>2, <1>4 DEF KInv, OwnKept, OnFile
<1>6. QED BY <1>1, <1>3, <1>4, <1>5 DEF KInv, OneWhole

LEMMA CrashOwn ==
    ASSUME IInv, KInv, NEW p \in Procs, Crash(p)
    PROVE  KInv'
<1>1. /\ proc \in [Procs -> Verb] /\ UNCHANGED <<settings, bak, users>>
      /\ crashes' = crashes + 1
    BY ProcTypes DEF Crash
<1>2. \A q \in Procs \ {p} : proc'[q] = proc[q]
    BY <1>1 DEF Crash, End
<1>3. proc'[p].at = "idle"
    BY <1>1 DEF Crash, End, Idle
<1>4. OwnKept'
    BY <1>1, <1>2, <1>3 DEF KInv, OwnKept, OnFile
<1>5. (Mended /\ Backed) => (Mended' \/ Backed')
    <2>1. CASE proc[p].at = "settings bytes"
        BY <1>1, <1>2, <2>1 DEF Backed
    <2>2. CASE proc[p].at # "settings bytes"
        BY <1>1, <1>2, <2>2 DEF Mended
    <2>3. QED BY <2>1, <2>2
<1>6. QED BY <1>1, <1>4, <1>5 DEF KInv, OneWhole

LEMMA BetweenOwn ==
    ASSUME KInv, EditSettings
    PROVE  KInv'
<1>1. /\ Running = {} /\ UNCHANGED <<bak, proc, crashes>>
      /\ \E h : settings' = Whole(h) /\ users' = Own(h)
    BY DEF EditSettings
<1>2. settings'.at = "whole" /\ Own(settings'.hooks) = users'
    BY <1>1 DEF Whole
<1>3. \A p \in Procs : proc'[p].at = "idle"
    BY <1>1 DEF Running
<1>4. OwnKept'
    BY <1>2, <1>3 DEF OwnKept, OnFile
<1>5. Mended' /\ (Backed => Backed')
    BY <1>1, <1>2 DEF Mended, Backed
<1>6. QED BY <1>1, <1>4, <1>5 DEF KInv, OneWhole

LEMMA OwnInvariance == IInv /\ KInv /\ [Next]_vars => KInv'
<1> SUFFICES ASSUME IInv, KInv, [Next]_vars PROVE KInv'
    OBVIOUS
<1>1. ASSUME UNCHANGED <<settings, bak, users, crashes, proc>> PROVE KInv'
    BY <1>1, FilesRest
<1>2. CASE UNCHANGED vars
    BY <1>1, <1>2 DEF vars, Rest
<1>3. ASSUME NEW p \in Procs, NEW verb \in Verbs, Start(p, verb) PROVE KInv'
    <2>1. /\ UNCHANGED <<settings, bak, users, crashes>>
          /\ proc \in [Procs -> Verb] /\ proc[p].at = "idle"
        BY <1>3, ProcTypes DEF Start, Running
    <2>2. proc'[p].at = "target"
        BY <1>3 DEF Start, Idle
    <2>3. ASSUME NEW q \in Procs, q # p
          PROVE  proc'[q].at = proc[q].at /\ proc'[q].file = proc[q].file
        BY <1>3, <2>1, <2>3 DEF Start, Verb
    <2>4. QED BY <2>1, <2>2, <2>3, FilesRest DEF OnFile
<1>4. ASSUME NEW p \in Procs,
             \/ CheckTarget(p) \/ TruncateSkill(p) \/ WriteSkill(p)
             \/ TruncateStamp(p) \/ WriteStamp(p) \/ Remove_(p) \/ StatBackup(p)
      PROVE  KInv'
    BY <1>4, TreeStepOwn
<1>5. ASSUME NEW p \in Procs,
             \/ ReadSettings(p) \/ TruncateBackup(p) \/ WriteBackup(p)
             \/ TruncateSettings(p) \/ WriteSettings(p) \/ Crash(p)
      PROVE  KInv'
    BY <1>5, ReadOwn, BackupOwn, SettingsOwn, CrashOwn
<1>6. ASSUME NEW i \in DOMAIN Skills, EditTree(i) PROVE KInv'
    BY <1>1, <1>6 DEF EditTree
<1>7. CASE EditSettings
    BY <1>7, BetweenOwn
<1>8. CASE Upgrade
    BY <1>1, <1>8 DEF Upgrade
<1>9. QED BY <1>2, <1>3, <1>4, <1>5, <1>6, <1>7, <1>8 DEF Next

\* Whatever verbs race or are cut off, and however the person edits the file
\* between them: their hooks and groups come through every rewrite of
\* settings.json, and one crash never leaves the file and its backup both torn.
THEOREM HarnessSettingsKept == Spec => []SettingsKept
<1>1. Spec => []KInv
    BY OwnInit, OwnInvariance, HarnessInvariant, PTL DEF Spec
<1>2. KInv => SettingsKept
    <2>1. Running = {} => \A p \in Procs : proc[p].at = "idle"
        BY DEF Running
    <2>2. QED BY <2>1 DEF KInv, OwnKept, OneWhole, Mended, Backed, SettingsKept
<1>3. QED BY <1>1, <1>2, PTL

=============================================================================
