---------------------------- MODULE MCWorkspace ----------------------------
(***************************************************************************)
(* The filesystem tools for TLC: called with relative paths that go in, up *)
(* and in again and absolute ones into, past and through the workspace,    *)
(* beside the workspace of another task whose name begins with this one's. *)
(***************************************************************************)
EXTENDS FileTools, TLC

CONSTANTS
  Names,       \* the names a path may use
  MaxUps,      \* bound: how often a path steps up in a row
  MaxParts     \* bound: components after that

HomeDef == <<"tasks", "t1">>

PathsDef ==
  [abs : {FALSE}, parts : {a \o u \o b : a \in BoundedSeq(Names, 1),
                                        u \in BoundedSeq({Up}, MaxUps),
                                        b \in BoundedSeq(Names, MaxParts)}]
    \cup [abs : {TRUE}, parts : {a \o b : a \in {<<"tasks">>, HomeDef, Append(HomeDef, Up)},
                                        b \in BoundedSeq(Names, MaxParts)}]

WorldsDef ==
  {(<<>> :> Dir) @@ (<<"tasks">> :> Dir)
     @@ (HomeDef :> Dir) @@ (HomeDef \o <<"trace.jsonl">> :> <<>>)
     @@ (<<"tasks", "t10">> :> Dir)
     @@ (<<"tasks", "t10", "result.md">> :> <<"theirs">>)}

=============================================================================
