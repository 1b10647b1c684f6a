------------------------------ MODULE VaultPath ------------------------------
(***************************************************************************)
(* Paths that notes name, as VaultPath.parse and the patterns of           *)
(* common.schema.json accept them, and the scopes that permissions grant.  *)
(* A path ends in the segment "/" when it is written with a slash at its   *)
(* end, and in "**" when it grants all that is below a directory.          *)
(***************************************************************************)
EXTENDS PathSegments

CONSTANTS
  Names,     \* segments a path may have
  Fold       \* NFC and casefold of a segment; casefold of a host

ASSUME NamesAreSegments == "/" \notin Names /\ "**" \notin Names

Zones == {"ReadWrite", "ReadOnly"}

HasGlob(path) == Len(path) > 1 /\ path[Len(path)] = "**"

(* rstrip("/")                                                             *)
Stripped(path) ==
  SubSeq(path, 1, CHOOSE n \in 0 .. Len(path) :
                    /\ n = 0 \/ path[n] # "/"
                    /\ \A i \in n + 1 .. Len(path) : path[i] = "/")

(* Dot segments, Private, .git, control characters and other wildcards are *)
(* no Names; an absolute path starts with "/".                             *)
Parses(path, allowGlob) ==
  /\ Len(Stripped(path)) > 1 /\ Len(path) <= Len(Stripped(path)) + 1
  /\ path[1] \in Zones
  /\ \A i \in 2 .. Len(Stripped(path)) :
       \/ path[i] \in Names
       \/ allowGlob /\ i = Len(path) /\ path[i] = "**"

(* Mutant of Grants: a grant of one path grants what is below it.          *)
GrantsBelow(grant, path) ==
  LET root == IF HasGlob(grant) THEN SubSeq(grant, 1, Len(grant) - 1) ELSE grant
  IN  Within(Stripped(path), Stripped(root))

(* _scope_allows, for one grant                                            *)
Grants(grant, path) ==
  IF HasGlob(grant)
    THEN Within(Stripped(path), Stripped(SubSeq(grant, 1, Len(grant) - 1)))
    ELSE Stripped(path) = Stripped(grant)

(* find_case_unicode_collisions is not empty                               *)
Collide(paths) ==
  \E p, q \in paths : p # q /\ [i \in DOMAIN p |-> Fold[p[i]]] = [i \in DOMAIN q |-> Fold[q[i]]]
=============================================================================
