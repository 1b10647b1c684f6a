---------------------------- MODULE ResourceRules ----------------------------
(***************************************************************************)
(* What load_resource makes of a note: the rules that relate its fields to *)
(* each other, and the hash of its specification.  A note is "broken" when *)
(* its bytes, its frontmatter, its schema or the form of one field by      *)
(* itself is refused.                                                      *)
(***************************************************************************)
EXTENDS VaultPath

CONSTANT NoPort  \* of a URL or a destination that names none

PathsAccepted(concrete, scopes) ==
  /\ \A p \in concrete : Parses(p, FALSE)
  /\ \A p \in scopes : Parses(p, TRUE)
  /\ ~Collide(concrete \cup scopes)

ScopeAllows(path, grants) == \E g \in grants : Grants(g, path)

DefaultPort(url) == IF url.scheme = "https" THEN 443 ELSE 80

PortOf(url) == IF url.port = NoPort THEN DefaultPort(url) ELSE url.port

Allowlisted(url, destinations) ==
  \E d \in destinations :
    /\ Fold[d.host] = Fold[url.host]
    /\ PortOf(url) = IF d.port = NoPort THEN DefaultPort(url) ELSE d.port

(* inputs is a sequence: a URL may be given twice, and is retrieved twice. *)
NetworkAccepted(t) ==
  \/ /\ t.operation = "brief.generate"
     /\ t.mode = "deny" /\ t.max_network_requests = 0 /\ Len(t.inputs) = 0
  \/ /\ t.operation = "source.ingest"
     /\ t.mode = "allowlist" /\ Len(t.inputs) \in 1 .. t.max_network_requests
     /\ \A i \in 1 .. Len(t.inputs) : Allowlisted(t.inputs[i], t.destinations)

TaskAccepted(t) ==
  /\ ~t.broken
  /\ PathsAccepted(t.context_roots \cup {t.output}, t.read \cup t.write)
  /\ \A p \in t.write \cup {t.output} : p[1] = "ReadWrite"
  /\ \A p \in t.context_roots : ScopeAllows(p, t.read)
  /\ ScopeAllows(t.output, t.write)
  /\ NetworkAccepted(t)

RoutineAccepted(r) ==
  /\ ~r.broken
  /\ PathsAccepted({}, r.read \cup r.write)
  /\ \A p \in r.write : p[1] = "ReadWrite"

NoteAccepted(n) ==
  IF n.schema = "hermes.task/v2" THEN TaskAccepted(n) ELSE RoutineAccepted(n)

(* exclude_paths of the hash contracts                                     *)
Excluded(schema) ==
  IF schema = "hermes.routine/v2"
    THEN {"approval_id", "approved_spec_hash", "observed"}
    ELSE {"observed"}

(* Mutant of SpecificationHash: the approval is part of what it approves.  *)
HashWithApproval(n) == [f \in DOMAIN n \ {"observed", "body"} |-> n[f]]

(* Two notes have one hash exactly if these are equal.                     *)
SpecificationHash(n) == [f \in DOMAIN n \ (Excluded(n.schema) \cup {"body"}) |-> n[f]]
=============================================================================
