--------------------------- MODULE ContainerPath ---------------------------
(***************************************************************************)
(* Paths in a container's root file system (internal/util/containerfs).    *)
(* A path is the sequence of its names, <<>> is the root of the container. *)
(* A file tree is a function from the paths that exist to nodes; a node    *)
(* has a kind, a link also a target [abs, path], whose path may hold "..". *)
(***************************************************************************)
EXTENDS Integers, Sequences, SequencesExt

Path == Seq(STRING)

\* path.Clean of a rooted path, lexically: ".." at the root stays there.
Clean(p) ==
    LET done[n \in 0..Len(p)] ==
          IF n = 0 THEN <<>>
          ELSE IF p[n] # ".." THEN Append(done[n - 1], p[n])
          ELSE IF done[n - 1] = <<>> THEN <<>>
          ELSE Front(done[n - 1])
    IN  done[Len(p)]

\* Where a link in the directory base leads: an absolute target is anchored
\* at the container's root.
TargetPath(base, to) == Clean((IF to.abs THEN <<>> ELSE base) \o to.path)

\* os.Lstat: the kind of the node, "absent" (ENOENT), or "notdir" (ENOTDIR)
\* when the path goes through something that is not a directory.
Lstat(tree, p) ==
    IF p = <<>> THEN "dir"
    ELSE IF p \in DOMAIN tree THEN tree[p].kind
    ELSE IF \E i \in 1..(Len(p) - 1) :
              LET q == SubSeq(p, 1, i)
              IN  q \in DOMAIN tree /\ tree[q].kind \notin {"dir", "link"}
         THEN "notdir" ELSE "absent"

\* The proper ancestors of p but the root.
Parents(p) == {SubSeq(p, 1, i) : i \in 1..(Len(p) - 1)}

=============================================================================
