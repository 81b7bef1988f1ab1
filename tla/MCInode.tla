------------------------------ MODULE MCInode ------------------------------
(* Instances of Inode: paths, and what is symmetric. *)
EXTENDS Inode, TLC

CONSTANTS a, b, p1, p2

At0(elems) == [abs |-> TRUE, elems |-> elems]
FromCwd(elems) == [abs |-> FALSE, elems |-> elems]

PathA == At0(<<a>>)
PathB == At0(<<b>>)
PathAB == At0(<<a, b>>)
Here == FromCwd(<<".">>)
Above == FromCwd(<<"..">>)

TwoLevels == {PathA, PathB, PathAB}
Dots == TwoLevels \cup {Here, Above}

One(call, paths) == [call : {call}, path : paths, path2 : {NoPath}]
Two(call, f, g) == [call |-> call, path |-> f, path2 |-> g]
Pairs(call, paths) == {Two(call, f, g) : f \in paths, g \in paths} \ {Two(call, f, f) : f \in paths}

\* One process works on files, the other on directories.
FilesAndDirs ==
    p1 :> (One("creat", {PathAB}) \cup One("unlink", {PathB, PathAB})
           \cup {Two("link", PathAB, PathB)})
    @@ p2 :> (One("mkdir", {PathA, PathB, PathAB}) \cup One("chdir", {PathA}) \cup One("open", {PathB})
           \cup One("unlink", {PathA, PathB, PathAB})
           \cup {Two("rename_alone", PathB, PathAB), Two("rename_alone", PathAB, PathB), Two("rename_alone", PathA, PathAB), Two("rename_alone", PathA, PathB)})

\* Two processes that create and remove files, and two of which one renames.
Files == [p \in {p1, p2} |-> One("creat", {PathA}) \cup One("unlink", {PathA})]
RenameAtAnyTime == [Files EXCEPT ![p2] = @ \cup {Two("rename", PathA, PathB)}]

\* A process that goes where its directory used to be.
Removed == p1 :> (One("mkdir", {PathA, PathAB}) \cup One("chdir", {PathAB, Above}) \cup One("unlink", {PathA, PathAB}))

\* One process that does everything.
Everything == p1 :> (Pairs("link", TwoLevels) \cup Pairs("rename", TwoLevels)
    \cup UNION {One(call, TwoLevels) : call \in {"creat", "mkdir", "open", "chdir", "unlink"}})
=============================================================================
