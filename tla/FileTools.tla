----------------------------- MODULE FileTools -----------------------------
(***************************************************************************)
(* The filesystem tools alone, called at will: any path, any text, any     *)
(* number of times, in any world that has the workspace in it.             *)
(***************************************************************************)
EXTENDS Workspace

CONSTANTS
  Paths,       \* the paths the model may use
  Texts,       \* what it may write
  Worlds       \* the file systems it may find

ASSUME ToolsAssumption ==
  /\ Paths \subseteq Path
  /\ \A c \in Texts : <<c>> # Dir
  /\ \A t \in Worlds : Tidy(t) /\ Rooted(t)

Init == tree \in Worlds

Next == \E p \in Paths, c \in Texts : FilesystemWrite(p, <<c>>)

Spec == Init /\ [][Next]_tree

-----------------------------------------------------------------------------
(* Properties *)

\* The same workspace beside nothing at all.
Bare ==
  [loc \in {l \in DOMAIN tree : IsPrefix(l, Home) \/ IsPrefix(Home, l)} |-> tree[loc]]

Alone == INSTANCE Workspace WITH tree <- Bare

\* What filesystem_read and filesystem_list show never depends on anything that
\* lies outside the workspace: in the same workspace beside nothing at all they
\* answer the same.
SeesOnlyItsOwn ==
  \A p \in Paths : /\ FilesystemRead(p) = Alone!FilesystemRead(p)
                   /\ FilesystemList(p) = Alone!FilesystemList(p)

=============================================================================
