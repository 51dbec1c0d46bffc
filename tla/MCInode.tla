------------------------------ MODULE MCInode ------------------------------
(***************************************************************************)
(* Instances of Inode for TLC.                                             *)
(***************************************************************************)
EXTENDS Inode, TLC

None == [type |-> "none", nlink |-> 0, ents |-> NoDir]
Dir(self, parent, n, links) ==
  [type |-> "DIR", nlink |-> n, ents |-> links @@ (".." :> parent) @@ ("." :> self)
                                        @@ NoDir]

\* The root directory and a subdirectory d with a device f.
ImageDir ==
  [i \in Inums |-> CASE i = 1 -> Dir(1, 1, 2, "d" :> 2)
                     [] i = 2 -> Dir(2, 1, 1, "f" :> 3)
                     [] i = 3 -> [None EXCEPT !.type = "DEVICE", !.nlink = 1]
                     [] OTHER -> None]

C(op, path, new) == [op |-> op, path |-> path, new |-> new]

\* Files are created, linked, opened and unlinked in two directories; a
\* directory is made, entered and removed; an unlink is refused for its name.
\* Left out: creating or linking a name in a directory that another call may have
\* removed (only the root and d get new names, and they stay), and walking
\* through ".." of such a directory.  The code guards against neither.
SomeCalls ==
  {C("create", <<"/", "f">>, <<>>), C("open", <<"d", "f">>, <<>>),
   C("link", <<"f">>, <<"d", "f">>),
   C("unlink", <<"f">>, <<>>), C("unlink", <<"d", "f">>, <<>>),
   C("unlink", <<"f", "..">>, <<>>),
   C("mkdir", <<"/", "f">>, <<>>), C("chdir", <<"f">>, <<>>)}

Symmetry == Permutations(Procs)
=============================================================================
