-------------------------- MODULE FileToolsProofs --------------------------
(***************************************************************************)
(* Theorems about FileTools, for every workspace and every file system     *)
(* around it, every set of paths, of any length, and every text.           *)
(***************************************************************************)
EXTENDS FileTools, WorkspaceProofs

Inv == Tidy(tree) /\ Rooted(tree)

LEMMA WriteStep ==
  ASSUME Inv, Next
  PROVE  Inv' /\ Alike(tree, tree')
<1>1. PICK p \in Paths, c \in Texts : tree' = Written(p, <<c>>)
  BY DEF Next, FilesystemWrite
<1>2. p \in Path /\ <<c>> # Dir
  BY ToolsAssumption
<1> QED BY <1>1, <1>2, WriteKeeps DEF Inv, Tidy, Rooted

LEMMA InvHolds == Spec => []Inv
<1>1. Init => Inv
  BY ToolsAssumption DEF Init, Inv
<1>2. Inv /\ [Next]_tree => Inv'
  BY WriteStep DEF Inv, Tidy, Rooted
<1> QED BY <1>1, <1>2, PTL DEF Spec

\* mkdir and write_text never put an entry below a file, however the writes are
\* ordered: the tree stays a tree.
THEOREM TreeStaysATree == Spec => []TreeWellFormed
<1>1. Inv => TreeWellFormed
  BY DEF Inv, Tidy, TreeWellFormed, IsDir, Exists
<1> QED BY <1>1, InvHolds, PTL

\* The sandbox holds for every path that can be written down: no write changes, makes
\* or removes anything outside the workspace.
THEOREM SandboxHolds == Spec => OutsideUntouched
<1>1. Inv /\ [Next]_tree =>
        [\A loc \in DOMAIN tree \cup DOMAIN tree' :
           \/ IsPrefix(Home, loc)
           \/ /\ loc \in DOMAIN tree \cap DOMAIN tree'
              /\ tree'[loc] = tree[loc]]_tree
  BY WriteStep DEF Alike
<1> QED BY <1>1, InvHolds, PTL DEF Spec, OutsideUntouched

\* No write removes a file or a directory, or makes one into the other.
THEOREM NothingIsLost == Spec => NothingVanishes
<1>1. Inv /\ [Next]_tree =>
        [\A loc \in DOMAIN tree :
           loc \in DOMAIN tree' /\ (tree'[loc] = Dir <=> tree[loc] = Dir)]_tree
  BY WriteStep DEF Alike
<1> QED BY <1>1, InvHolds, PTL DEF Spec, NothingVanishes

\* Reading and listing tell nothing of what lies outside the workspace.
THEOREM ReadsOnlyItsOwn == Spec => []SeesOnlyItsOwn
<1>1. ASSUME Inv, NEW p \in Paths
      PROVE  /\ FilesystemRead(p) = Alone!FilesystemRead(p)
             /\ FilesystemList(p) = Alone!FilesystemList(p)
  <2> DEFINE r == Resolve(p)
  <2>1. Alone!Resolve(p) = Resolve(p)
    BY DEF Alone!Resolve, Resolve, Alone!Walk, Walk, Alone!Up, Up, Alone!Front, Front,
      Alone!FoldLeft, FoldLeft, Alone!MapThenFoldSet, MapThenFoldSet, Alone!Max, Max
  <2>2. r \in Location /\ DOMAIN tree \subseteq Location
    BY <1>1, ToolsAssumption, ResolveLeadsToLocation DEF Inv, Tidy
  <2>3. Alone!Within(p) <=> Within(p)
    BY <2>1 DEF Alone!Within, Within, Alone!IsPrefix, IsPrefix
  <2>4. /\ \A loc \in DOMAIN tree : IsPrefix(Home, loc) => loc \in DOMAIN Bare
        /\ \A loc \in DOMAIN Bare : loc \in DOMAIN tree /\ Bare[loc] = tree[loc]
    BY DEF Bare
  <2> HIDE DEF r
  <2>5. CASE ~Within(p)
    BY <2>3, <2>5 DEF FilesystemRead, Alone!FilesystemRead, FilesystemList, Alone!FilesystemList
  <2>6. CASE Within(p)
    <3>1. IsPrefix(Home, r)
      BY <2>6 DEF Within, r
    <3>2. Alone!Exists(r) <=> Exists(r)
      BY <2>4, <3>1 DEF Alone!Exists, Exists
    <3>3. (Alone!IsFile(r) <=> IsFile(r)) /\ (Alone!IsDir(r) <=> IsDir(r))
      BY <2>4, <3>2 DEF Alone!IsFile, IsFile, Alone!IsDir, IsDir, Alone!Exists, Exists
    <3>4. IsFile(r) => Bare[r] = tree[r]
      BY <2>4, <3>1 DEF IsFile, Exists
    <3>5. FilesystemRead(p) = Alone!FilesystemRead(p)
      BY <2>1, <2>3, <2>6, <3>2, <3>3, <3>4 DEF FilesystemRead, Alone!FilesystemRead, r
    <3>6. ASSUME NEW loc \in DOMAIN tree, loc # <<>>, Front(loc) = r PROVE loc \in DOMAIN Bare
      <4>1. Home \in Location /\ loc \in Location /\ r \in Location
        BY <2>2, HomeAssumption DEF Location
      <4>2. Len(loc) = Len(r) + 1 /\ \A i \in 1 .. Len(r) : r[i] = loc[i]
        BY <3>6, <4>1 DEF Front, Location
      <4>3. Len(Home) <= Len(r) /\ \A i \in 1 .. Len(Home) : Home[i] = r[i]
        BY <3>1, <4>1, PrefixMeans
      <4>4. Len(Home) <= Len(loc) /\ \A i \in 1 .. Len(Home) : Home[i] = loc[i]
        BY <4>1, <4>2, <4>3 DEF Location
      <4>5. IsPrefix(Home, loc)
        BY <4>1, <4>4, PrefixMeans
      <4> QED BY <2>4, <4>5
    <3>7. {loc \in DOMAIN tree : loc # <<>> /\ Front(loc) = r}
            = {loc \in DOMAIN Bare : loc # <<>> /\ Front(loc) = r}
      BY <2>4, <3>6
    <3>8. \A loc : Alone!Front(loc) = Front(loc)
      BY DEF Alone!Front, Front
    <3>9. FilesystemList(p) = Alone!FilesystemList(p)
      BY <2>1, <2>3, <2>6, <3>2, <3>3, <3>7, <3>8
        DEF FilesystemList, Alone!FilesystemList, r
    <3> QED BY <3>5, <3>9
  <2> QED BY <2>5, <2>6
<1>2. Inv => SeesOnlyItsOwn
  BY <1>1 DEF SeesOnlyItsOwn
<1> QED BY <1>2, InvHolds, PTL

=============================================================================
