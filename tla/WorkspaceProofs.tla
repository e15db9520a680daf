-------------------------- MODULE WorkspaceProofs --------------------------
(***************************************************************************)
(* Lemmas about the operators of Workspace, for every home, every tree and *)
(* every path of any length: where a path leads, and what a write does to  *)
(* the tree.  The theorems that rest on them are in FileToolsProofs and    *)
(* AgentLoopProofs.                                                        *)
(***************************************************************************)
EXTENDS Workspace, SequenceTheorems, WellFoundedInduction, TLAPS

-----------------------------------------------------------------------------
(* Induction over the naturals, by the least counterexample *)

LEMMA Least == ASSUME NEW T \in SUBSET Nat, T # {} PROVE \E n \in T : \A m \in T : n <= m
<1> DEFINE R == OpToRel(<, Nat)
<1>1. IsWellFoundedOn(R, Nat)
  BY NatLessThanWellFounded
<1>2. \A x, y \in Nat : <<x, y>> \in R <=> x < y
  BY DEF OpToRel
<1> HIDE DEF R
<1>3. PICK x \in T : \A y \in T : ~ (<<y, x>> \in R)
  BY <1>1, WFMin
<1>4. \A y \in T : ~(y < x)
  BY <1>2, <1>3
<1>5. \A y \in T : x <= y
  BY <1>4
<1> QED BY <1>5

\* A set of naturals that has 0 and, below n, the successor of each of its members.
LEMMA UpTo ==
  ASSUME NEW T, 0 \in T, NEW n \in Nat, \A m \in 0 .. n - 1 : m \in T => m + 1 \in T
  PROVE  n \in T
<1> DEFINE C == {m \in 0 .. n : m \notin T}
<1>1. SUFFICES ASSUME C # {} PROVE FALSE
  OBVIOUS
<1>2. PICK c \in C : \A m \in C : c <= m
  <2>1. C \in SUBSET Nat
    OBVIOUS
  <2> HIDE DEF C
  <2> QED BY <1>1, <2>1, Least
<1>3. c # 0 /\ c - 1 \in 0 .. n - 1
  BY <1>2
<1>4. c - 1 \in T
  BY <1>2, <1>3
<1> QED BY <1>2, <1>3, <1>4

LEMMA MaxOfPositions ==
  ASSUME NEW n \in Nat, NEW S \in SUBSET (1 .. n), S # {}
  PROVE  Max(S) \in S /\ \A i \in S : i <= Max(S)
<1> DEFINE B == {k \in Nat : \A i \in S : i <= k}
<1>1. n \in B /\ B \in SUBSET Nat
  OBVIOUS
<1>2. PICK m \in B : \A k \in B : m <= k
  <2> HIDE DEF B
  <2> QED BY <1>1, Least
<1>3. m \in S
  <2>1. SUFFICES ASSUME m \notin S PROVE FALSE
    OBVIOUS
  <2>2. PICK j \in S : TRUE
    OBVIOUS
  <2>3. m \in Nat /\ j <= m /\ j \in 1 .. n
    BY <1>2
  <2>4. \A i \in S : i <= m - 1
    BY <1>2, <2>1
  <2>5. m - 1 \in B
    BY <2>3, <2>4
  <2> QED BY <1>2, <2>3, <2>5
<1>4. \A i \in S : m >= i
  BY <1>2
<1>5. \E x \in S : \A y \in S : x >= y
  BY <1>3, <1>4
<1>6. Max(S) \in S /\ \A y \in S : Max(S) >= y
  BY <1>5 DEF Max
<1> QED BY <1>6

LEMMA MaxOfNext ==
  ASSUME NEW n \in Nat, NEW S \in SUBSET (1 .. n + 1), S # {}
  PROVE  /\ Max(S) \in S
         /\ S \ {Max(S)} \in SUBSET (1 .. n)
         /\ n + 1 \in S => Max(S) = n + 1
<1>1. n + 1 \in Nat
  OBVIOUS
<1>2. Max(S) \in S /\ \A i \in S : i <= Max(S)
  BY <1>1, MaxOfPositions
<1>3. PICK m \in S : m = Max(S) /\ \A i \in S : i <= m
  BY <1>2
<1>4. ASSUME NEW i \in S, i # m PROVE i \in 1 .. n
  <2>1. i <= m /\ m \in 1 .. n + 1 /\ i \in 1 .. n + 1
    BY <1>3
  <2> QED BY <1>4, <2>1
<1>5. n + 1 \in S => m = n + 1
  BY <1>3
<1> QED BY <1>2, <1>3, <1>4, <1>5

LEMMA Appending == ASSUME NEW S, NEW q \in Seq(S), NEW x \in S PROVE Append(q, x) \in Seq(S)
OBVIOUS

-----------------------------------------------------------------------------
(* Locations *)

LEMMA PrefixMeans ==
  ASSUME NEW s \in Location, NEW t \in Location
  PROVE  IsPrefix(s, t) <=> Len(s) <= Len(t) /\ \A i \in 1 .. Len(s) : s[i] = t[i]
<1>1. ASSUME Len(s) <= Len(t)
      PROVE  /\ SubSeq(s, 1, Len(s)) = s
             /\ SubSeq(t, 1, Len(s)) \in Seq(STRING)
             /\ Len(SubSeq(t, 1, Len(s))) = Len(s)
             /\ \A i \in 1 .. Len(s) : SubSeq(t, 1, Len(s))[i] = t[i]
  BY <1>1 DEF Location
<1>2. ASSUME Len(s) <= Len(t), \A i \in 1 .. Len(s) : s[i] = t[i]
      PROVE  s = SubSeq(t, 1, Len(s))
  BY <1>1, <1>2, SeqEqual DEF Location
<1> QED BY <1>1, <1>2 DEF IsPrefix, Location

\* The ancestors of a location are shorter locations, whose ancestors are its own.
LEMMA AncestorsMean ==
  ASSUME NEW loc \in Location, NEW a \in Ancestors(loc)
  PROVE  /\ a \in Location /\ Len(a) < Len(loc) /\ a # loc
         /\ \A i \in 1 .. Len(a) : a[i] = loc[i]
         /\ a = SubSeq(loc, 1, Len(a))
<1>1. PICK n \in 0 .. Len(loc) - 1 : a = SubSeq(loc, 1, n)
  BY DEF Ancestors
<1> QED BY <1>1 DEF Location

LEMMA AncestorsOfAncestors ==
  ASSUME NEW loc \in Location, NEW a \in Ancestors(loc)
  PROVE  Ancestors(a) \subseteq Ancestors(loc)
<1> SUFFICES ASSUME NEW b \in Ancestors(a) PROVE b \in Ancestors(loc)
  OBVIOUS
<1>1. /\ a \in Location /\ b \in Location /\ Len(b) < Len(a) /\ Len(a) < Len(loc)
      /\ \A i \in 1 .. Len(b) : b[i] = loc[i]
  BY AncestorsMean DEF Location
<1>2. b = SubSeq(loc, 1, Len(b))
  BY <1>1, SeqEqual DEF Location
<1>3. Len(b) \in 0 .. Len(loc) - 1
  BY <1>1 DEF Location
<1> QED BY <1>2, <1>3 DEF Ancestors

\* What is above a location of the workspace is in the workspace or above it.
LEMMA AboveHome ==
  ASSUME NEW loc \in Location, IsPrefix(Home, loc), NEW a \in Ancestors(loc)
  PROVE  IsPrefix(Home, a) \/ a \in Ancestors(Home)
<1>1. Home \in Location
  BY HomeAssumption DEF Location
<1>2. /\ a \in Location /\ Len(a) < Len(loc) /\ \A i \in 1 .. Len(a) : a[i] = loc[i]
  BY AncestorsMean
<1>3. Len(Home) <= Len(loc) /\ \A i \in 1 .. Len(Home) : Home[i] = loc[i]
  BY <1>1, PrefixMeans
<1>4. CASE Len(Home) <= Len(a)
  BY <1>1, <1>2, <1>3, <1>4, PrefixMeans DEF Location
<1>5. CASE Len(a) < Len(Home)
  <2>1. a = SubSeq(Home, 1, Len(a))
    BY <1>1, <1>2, <1>3, <1>5, SeqEqual DEF Location
  <2>2. Len(a) \in 0 .. Len(Home) - 1
    BY <1>1, <1>2, <1>5 DEF Location
  <2> QED BY <2>1, <2>2 DEF Ancestors
<1> QED BY <1>1, <1>2, <1>4, <1>5 DEF Location

-----------------------------------------------------------------------------
(* Where a path leads *)

\* Resolving a path of any length steps from location to location.
LEMMA ResolveLeadsToLocation == ASSUME NEW p \in Path PROVE Resolve(p) \in Location
<1> DEFINE b == IF p.abs THEN <<>> ELSE Home
           s == p.parts
           It(g, S) == IF S = {} THEN b ELSE Walk(g[S \ {Max(S)}], s[Max(S)])
<1>1. b \in Location /\ s \in Seq(STRING)
  <2>1. p.parts \in Seq(STRING)
    BY DEF Path
  <2>2. <<>> \in Location /\ Home \in Location
    BY HomeAssumption DEF Location
  <2> QED BY <2>1, <2>2
<1>2. Resolve(p) = (CHOOSE g : g = [S \in SUBSET DOMAIN s |-> It(g, S)])[DOMAIN s]
  BY DEF Resolve, FoldLeft, MapThenFoldSet
<1>3. \A loc \in Location, name \in STRING : Walk(loc, name) \in Location
  <2> SUFFICES ASSUME NEW loc \in Location, NEW name \in STRING PROVE Walk(loc, name) \in Location
    OBVIOUS
  <2>1. Append(loc, name) \in Location
    BY Appending DEF Location
  <2>2. loc # <<>> => Front(loc) \in Location
    BY DEF Location, Front
  <2> QED BY <2>1, <2>2 DEF Walk
<1> HIDE DEF b, s
<1>4. s \in Seq(STRING) /\ Len(s) \in Nat /\ DOMAIN s = 1 .. Len(s)
  BY <1>1
\* The fold is defined: what is defined on the first n positions is on n + 1.
<1> DEFINE D == {n \in Nat : \E g : g = [S \in SUBSET (1 .. n) |-> It(g, S)]}
<1>5. 0 \in D
  <2> DEFINE h == [S \in SUBSET (1 .. 0) |-> b]
  <2>1. \A S \in SUBSET (1 .. 0) : It(h, S) = b
    OBVIOUS
  <2>2. h = [S \in SUBSET (1 .. 0) |-> It(h, S)]
    BY <2>1
  <2>3. \E g : g = [S \in SUBSET (1 .. 0) |-> It(g, S)]
    <3> HIDE DEF h, It
    <3> QED BY <2>2
  <2> QED BY <2>3
<1>6. \A n \in 0 .. Len(s) - 1 : n \in D => n + 1 \in D
  <2> SUFFICES ASSUME NEW n \in 0 .. Len(s) - 1, n \in D PROVE n + 1 \in D
    OBVIOUS
  <2>1. PICK g : g = [S \in SUBSET (1 .. n) |-> It(g, S)]
    OBVIOUS
  <2> DEFINE h == [S \in SUBSET (1 .. n + 1) |->
                     IF n + 1 \in S THEN Walk(g[S \ {n + 1}], s[n + 1]) ELSE g[S]]
  <2>2. ASSUME NEW S \in SUBSET (1 .. n + 1) PROVE h[S] = It(h, S)
    <3>1. CASE S = {}
      <4>1. h[S] = g[{}] /\ g[{}] = b
        BY <2>1, <3>1
      <4> QED BY <3>1, <4>1
    <3>2. CASE S # {}
      <4>1. n \in Nat
        OBVIOUS
      <4>2. /\ Max(S) \in S /\ S \ {Max(S)} \in SUBSET (1 .. n)
            /\ n + 1 \in S => Max(S) = n + 1
        <5> HIDE DEF h, D
        <5> QED BY <3>2, <4>1, MaxOfNext
      <4>3. S \ {Max(S)} \in SUBSET (1 .. n + 1) /\ n + 1 \notin S \ {Max(S)}
        BY <4>2
      <4>4. h[S \ {Max(S)}] = g[S \ {Max(S)}]
        BY <4>2, <4>3
      <4>5. It(h, S) = Walk(g[S \ {Max(S)}], s[Max(S)])
        BY <3>2, <4>4
      <4>6. CASE n + 1 \in S
        BY <4>2, <4>5, <4>6
      <4>7. CASE n + 1 \notin S
        <5>1. S \in SUBSET (1 .. n)
          BY <4>7
        <5>2. g[S] = Walk(g[S \ {Max(S)}], s[Max(S)])
          BY <2>1, <3>2, <5>1
        <5> QED BY <4>5, <4>7, <5>2
      <4> QED BY <4>6, <4>7
    <3> QED BY <3>1, <3>2
  <2>3. h = [S \in SUBSET (1 .. n + 1) |-> It(h, S)]
    <3>1. h = [S \in SUBSET (1 .. n + 1) |-> h[S]]
      OBVIOUS
    <3> HIDE DEF h, It
    <3> QED BY <2>2, <3>1
  <2>4. \E f : f = [S \in SUBSET (1 .. n + 1) |-> It(f, S)]
    <3> HIDE DEF h, It
    <3> QED BY <2>3
  <2>5. n + 1 \in Nat
    OBVIOUS
  <2> HIDE DEF It
  <2> QED BY <2>4, <2>5
<1>7. PICK g : g = [S \in SUBSET DOMAIN s |-> It(g, S)] /\ Resolve(p) = g[DOMAIN s]
  <2>1. Len(s) \in D
    <3> HIDE DEF D
    <3> QED BY <1>4, <1>5, <1>6, UpTo
  <2>2. \E g : g = [S \in SUBSET DOMAIN s |-> It(g, S)]
    BY <1>4, <2>1
  <2> QED BY <1>2, <2>2
<1> DEFINE T == {n \in Nat : \A S \in SUBSET (1 .. n) : S \subseteq DOMAIN s => g[S] \in Location}
<1>8. 0 \in T
  <2>1. g[{}] = b
    BY <1>7
  <2>2. \A S \in SUBSET (1 .. 0) : S = {}
    OBVIOUS
  <2> QED BY <1>1, <2>1, <2>2
<1>9. \A n \in 0 .. Len(s) - 1 : n \in T => n + 1 \in T
  <2> SUFFICES ASSUME NEW n \in 0 .. Len(s) - 1, n \in T,
                      NEW S \in SUBSET (1 .. n + 1), S \subseteq DOMAIN s, S # {}
               PROVE  g[S] \in Location
    <3>1. g[{}] = b
      BY <1>7
    <3>2. \A n \in 0 .. Len(s) - 1 : n + 1 \in Nat
      BY <1>4
    <3> HIDE DEF It
    <3> QED BY <1>1, <3>1, <3>2
  <2>1. n \in Nat
    BY <1>4
  <2>2. Max(S) \in S /\ S \ {Max(S)} \in SUBSET (1 .. n)
    <3> HIDE DEF T
    <3> QED BY <2>1, MaxOfNext
  <2>3. g[S \ {Max(S)}] \in Location
    BY <2>2
  <2>4. s[Max(S)] \in STRING
    BY <1>4, <2>2
  <2>5. g[S] = Walk(g[S \ {Max(S)}], s[Max(S)])
    BY <1>7
  <2> QED BY <1>3, <2>3, <2>4, <2>5
<1>10. Len(s) \in T
  <2> HIDE DEF T
  <2> QED BY <1>4, <1>8, <1>9, UpTo
<1> QED BY <1>4, <1>7, <1>10

-----------------------------------------------------------------------------
(* What a write does to the tree *)

\* Nothing below the workspace apart, and nothing that exists changes its kind.
Alike(t, u) ==
  /\ DOMAIN t \subseteq DOMAIN u
  /\ \A loc \in DOMAIN u : IsPrefix(Home, loc) \/ (loc \in DOMAIN t /\ u[loc] = t[loc])
  /\ \A loc \in DOMAIN t : t[loc] = Dir <=> u[loc] = Dir

\* mkdir and write_text keep the tree a tree, and touch the workspace only.
LEMMA PutKeeps ==
  ASSUME Tidy(tree), Rooted(tree), NEW loc \in Location, IsPrefix(Home, loc), Writable(loc),
         NEW lines, lines # Dir
  PROVE  Tidy(Put(loc, lines)) /\ Rooted(Put(loc, lines)) /\ Alike(tree, Put(loc, lines))
<1> DEFINE new == Put(loc, lines)
<1>1. /\ DOMAIN new = DOMAIN tree \cup Ancestors(loc) \cup {loc}
      /\ new = [a \in DOMAIN new |-> new[a]]
      /\ new[loc] = lines
      /\ \A a \in Ancestors(loc) : a # loc => new[a] = Dir
      /\ \A a \in DOMAIN tree : a \notin Ancestors(loc) \cup {loc} => new[a] = tree[a]
  BY DEF Put
<1> HIDE DEF new
<1>2. /\ DOMAIN tree \subseteq Location
      /\ \A l \in DOMAIN tree : \A a \in Ancestors(l) : a \in DOMAIN tree /\ tree[a] = Dir
      /\ Home \in DOMAIN tree /\ tree[Home] = Dir
  BY DEF Tidy, Rooted
<1>3. \A a \in Ancestors(loc) : a \in Location /\ a # loc /\ (a \in DOMAIN tree => tree[a] = Dir)
  BY AncestorsMean DEF Writable, IsFile, Exists
<1>4. loc \in DOMAIN tree => tree[loc] # Dir
  BY DEF Writable, IsDir, Exists
\* A directory stays one.
<1>5. \A a \in DOMAIN tree : tree[a] = Dir <=> new[a] = Dir
  BY <1>1, <1>3, <1>4
<1>6. \A a \in Ancestors(loc) : IsPrefix(Home, a) \/ (a \in DOMAIN tree /\ tree[a] = Dir)
  BY <1>2, AboveHome
<1>7. Tidy(new)
  <2>1. ASSUME NEW l \in DOMAIN new, NEW a \in Ancestors(l) PROVE a \in DOMAIN new /\ new[a] = Dir
    <3>1. CASE l \in DOMAIN tree
      BY <1>1, <1>2, <1>5, <3>1
    <3>2. CASE l = loc
      BY <1>1, <1>3, <3>2
    <3>3. CASE l \in Ancestors(loc)
      <4>1. a \in Ancestors(loc)
        BY <3>3, AncestorsOfAncestors
      <4> QED BY <1>1, <1>3, <4>1
    <3> QED BY <1>1, <3>1, <3>2, <3>3
  <2>2. DOMAIN new \subseteq Location
    BY <1>1, <1>2, <1>3
  <2> QED BY <1>1, <2>1, <2>2 DEF Tidy
<1>8. Rooted(new)
  BY <1>1, <1>2, <1>5 DEF Rooted
<1>9. Alike(tree, new)
  <2>1. ASSUME NEW l \in DOMAIN new PROVE IsPrefix(Home, l) \/ (l \in DOMAIN tree /\ new[l] = tree[l])
    BY <1>1, <1>3, <1>6
  <2> QED BY <1>1, <1>5, <2>1 DEF Alike
<1> QED BY <1>7, <1>8, <1>9 DEF new

LEMMA WriteKeeps ==
  ASSUME Tidy(tree), Rooted(tree), NEW p \in Path, NEW lines, lines # Dir
  PROVE  LET new == Written(p, lines) IN Tidy(new) /\ Rooted(new) /\ Alike(tree, new)
<1>1. Resolve(p) \in Location
  BY ResolveLeadsToLocation
<1>2. CASE Within(p) /\ ~WriteRaises(p)
  <2>1. IsPrefix(Home, Resolve(p)) /\ Writable(Resolve(p))
    BY <1>2 DEF Within, WriteRaises
  <2> QED BY <1>1, <1>2, <2>1, PutKeeps DEF Written
<1>3. CASE ~(Within(p) /\ ~WriteRaises(p))
  BY <1>3 DEF Written, Alike
<1> QED BY <1>2, <1>3

=============================================================================
