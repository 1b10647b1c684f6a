----------------------------- MODULE PathSegments -----------------------------
(* Paths as the sequences of their segments: what lies between two slashes. *)
EXTENDS Naturals, Sequences

(* path is root or lies below it: os.path.commonpath of the two is root, or *)
(* path starts with root and a slash.                                       *)
Within(path, root) ==
  /\ Len(root) <= Len(path)
  /\ \A i \in 1 .. Len(root) : path[i] = root[i]
=============================================================================
