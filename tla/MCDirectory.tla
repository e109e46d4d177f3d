---------------------------- MODULE MCDirectory ----------------------------
(***************************************************************************)
(* A volume for module Directory: in the root directory the file A, an     *)
(* entry whose name is "A B", which is A as well once it is cut at the     *)
(* space, and the directory D of two clusters; in the second of these, a   *)
(* file A.X and the directory E, which has two clusters as well, an unused *)
(* entry, whose name is of spaces, and another file A.                     *)
(***************************************************************************)
EXTENDS Directory, TLC

CONSTANTS p1, s1, s2, s3

MCWord == {"", " ", ".", "..", "A", "A B", "D", "E", "X"}
MCUpToSpace == [w \in MCWord |-> CASE w = " " -> "" [] w = "A B" -> "A" [] OTHER -> w]

File(name, ext, c) == [filename |-> name, extension |-> ext, Directory |-> FALSE, cluster |-> c]
Folder(name, c) == [filename |-> name, extension |-> " ", Directory |-> TRUE, cluster |-> c]
Unused == [filename |-> " ", extension |-> " ", Directory |-> FALSE, cluster |-> ROOT]

Contents == 0 :> << File("A B", " ", 6), File("A", " ", 0), Folder("D", 2) >>
         @@ 2 :> << Folder(".", 2), Folder("..", 0) >>
         @@ 3 :> << File("A", "X", 6), Folder("E", 4) >>
         @@ 4 :> << Folder(".", 4), Folder("..", 2) >>
         @@ 5 :> << Unused, File("A", " ", 6) >>
         @@ 6 :> << >>

MCfat == 2 :> 3 @@ 3 :> EOC @@ 4 :> 5 @@ 5 :> EOC @@ 6 :> EOC

MCName == {<<"A">>, <<"A", "X">>, <<"D">>, <<"E">>, <<"..">>, <<".">>}
MCProgram == {p1}
MCPiece == {s1, s2, s3}
Pieces == Permutations(MCPiece)
=============================================================================
