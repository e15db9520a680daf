----------------------------- MODULE Workspace -----------------------------
(***************************************************************************)
(* The filesystem tools of the agent (tools/filesystem.py) over a file     *)
(* tree.  A location is the sequence of names from the root of the file    *)
(* system; the tree maps the locations that exist to Dir or to the         *)
(* file's lines.  A path is what the model wrote: absolute or not, and its *)
(* components (pathlib drops "." and empty ones).  The tools make no       *)
(* symbolic link, so resolving is a matter of names.                       *)
(***************************************************************************)
EXTENDS Integers, SequencesExt

CONSTANTS
  Home,         \* Task.workspace, resolved
  Dir           \* marks a directory

ASSUME HomeAssumption == Home \in Seq(STRING) /\ Home # <<>>

VARIABLE tree          \* the file system: existing location -> Dir or lines

Up == ".."

\* A location, and a path as the model wrote it.
Location == Seq(STRING)
Path == [abs : BOOLEAN, parts : Seq(STRING)]

\* Path.resolve: ".." steps out of a location, anything else into it.
Walk(loc, name) ==
  IF name # Up THEN Append(loc, name)
  ELSE IF loc = <<>> THEN loc ELSE Front(loc)

Resolve(p) == FoldLeft(Walk, IF p.abs THEN <<>> ELSE Home, p.parts)

\* Seeded fault: the path is inspected as written, and only its first component.
AsWritten(p) == ~p.abs /\ ~IsPrefix(<<Up>>, p.parts)

\* _resolve_within_workspace does not return None.
Within(p) == IsPrefix(Home, Resolve(p))

Exists(loc) == loc \in DOMAIN tree
IsDir(loc)  == Exists(loc) /\ tree[loc] = Dir
IsFile(loc) == Exists(loc) /\ tree[loc] # Dir

Ancestors(loc) == {SubSeq(loc, 1, n) : n \in 0 .. Len(loc) - 1}

\* A file system: its entries are locations below directories of it.
Tidy(t) ==
  /\ t = [loc \in DOMAIN t |-> t[loc]] /\ DOMAIN t \subseteq Location
  /\ \A loc \in DOMAIN t : \A a \in Ancestors(loc) : a \in DOMAIN t /\ t[a] = Dir

\* It has the workspace, as a directory.
Rooted(t) == Home \in DOMAIN t /\ t[Home] = Dir

\* Seeded fault: a directory in the way is not noticed.
BlindWritable(loc) == \A a \in Ancestors(loc) : ~IsFile(a)

\* mkdir of the parents meets no file, and no directory has the file's name.
Writable(loc) == (\A a \in Ancestors(loc) : ~IsFile(a)) /\ ~IsDir(loc)

\* Seeded fault: mkdir(parents=True) is missing.
PutBare(loc, lines) ==
  [l \in DOMAIN tree \cup {loc} |-> IF l = loc THEN lines ELSE tree[l]]

\* parent.mkdir(parents=True, exist_ok=True) and write_text.
Put(loc, lines) ==
  [l \in DOMAIN tree \cup Ancestors(loc) \cup {loc} |->
     IF l = loc THEN lines ELSE IF l \in Ancestors(loc) THEN Dir ELSE tree[l]]

\* filesystem_write raises; a path outside it refuses with a string.
WriteRaises(p) == Within(p) /\ ~Writable(Resolve(p))

\* The tree when filesystem_write has come back.
Written(p, lines) ==
  IF Within(p) /\ ~WriteRaises(p) THEN Put(Resolve(p), lines) ELSE tree

FilesystemWrite(p, lines) == tree' = Written(p, lines)

\* filesystem_read: what it returns.
FilesystemRead(p) ==
  IF ~Within(p) THEN <<"refused">>
  ELSE IF ~Exists(Resolve(p)) THEN <<"not found">>
  ELSE IF ~IsFile(Resolve(p)) THEN <<"not a file">>
  ELSE tree[Resolve(p)]

\* filesystem_list: the entries of a directory.
FilesystemList(p) ==
  IF ~Within(p) THEN <<"refused">>
  ELSE IF ~Exists(Resolve(p)) THEN <<"not found">>
  ELSE IF ~IsDir(Resolve(p)) THEN <<"not a directory">>
  ELSE {loc \in DOMAIN tree : loc # <<>> /\ Front(loc) = Resolve(p)}

-----------------------------------------------------------------------------
(* Properties *)

\* Parents are directories: no file has entries, no entry lacks its directory,
\* however the writes to a name and to paths below it are ordered.
TreeWellFormed == \A loc \in DOMAIN tree : \A a \in Ancestors(loc) : IsDir(a)

\* "The agent cannot read, write, or list anything outside": a step leaves every
\* location that is not below the workspace as it was.
OutsideUntouched ==
  [][\A loc \in DOMAIN tree \cup DOMAIN tree' :
       \/ IsPrefix(Home, loc)
       \/ /\ loc \in DOMAIN tree \cap DOMAIN tree'
          /\ tree'[loc] = tree[loc]]_tree

\* No tool deletes: what exists goes on to exist, a directory as a directory.
NothingVanishes ==
  [][\A loc \in DOMAIN tree :
       loc \in DOMAIN tree' /\ (tree'[loc] = Dir <=> tree[loc] = Dir)]_tree

=============================================================================
