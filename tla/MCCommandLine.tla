---------------------------- MODULE MCCommandLine ----------------------------
(* Model-checking instances of CommandLine.                                 *)
EXTENDS CommandLine, FiniteSets

(* Paths of the configuration and where they lead: "link" is a directory   *)
(* beside the zones, then a link into one of them.                         *)
Straight ==
  [state |-> <<"state">>, database |-> <<"state", "db">>, linked |-> <<"state", "x", "db">>,
   rw |-> <<"vault", "rw">>, ro |-> <<"vault", "ro">>, mask |-> <<"mask">>,
   below |-> <<"vault", "rw", "ro">>]

Linked ==
  [Straight EXCEPT !.state = <<"vault", "rw">>, !.linked = <<"vault", "rw", "db">>,
                   !.below = <<"other">>]

TwoLayouts == {Straight, Linked}

Places == {<<"state", "db">>, <<"state", "x", "db">>, <<"vault", "rw", "db">>}

Plain ==
  [broken |-> {}, state_directory |-> "state", database_path |-> "database",
   read_write_root |-> "rw", read_only_root |-> "ro", private_mask_root |-> "mask",
   validation_only |-> TRUE, dispatch_enabled |-> FALSE, reconcile_interval_seconds |-> 600,
   permitted_models |-> {"model"}, network_enforcement |-> "allowlist-proxy",
   port |-> 1, max_items_per_collection |-> 2000, max_response_bytes |-> 4096]

Dispatching == [Plain EXCEPT !.validation_only = FALSE, !.dispatch_enabled = TRUE]

SomeConfigs ==
  {Plain, Dispatching,
   [Plain EXCEPT !.database_path = "linked"], [Plain EXCEPT !.read_only_root = "below"],
   [Plain EXCEPT !.read_only_root = "rw"],
   [Plain EXCEPT !.dispatch_enabled = TRUE], [Plain EXCEPT !.validation_only = FALSE],
   [Dispatching EXCEPT !.permitted_models = {}],
   [Dispatching EXCEPT !.network_enforcement = "unconfigured"],
   [Plain EXCEPT !.reconcile_interval_seconds = 601], [Plain EXCEPT !.port = 65536],
   [Plain EXCEPT !.max_items_per_collection = 2001],
   [Plain EXCEPT !.max_response_bytes = 4095], [Plain EXCEPT !.broken = {"security"}]}

SomeNames == {"a", "A", "b"}

Folded ==
  [s \in SomeNames \cup Zones \cup {"Private", "/", "**", "h", "H"} |->
     CASE s = "A" -> "a" [] s = "H" -> "h" [] OTHER -> s]

Read(rest) == <<"ReadOnly">> \o rest

Write(rest) == <<"ReadWrite">> \o rest

Task(root, read, write, output) ==
  [schema |-> "hermes.task/v2", broken |-> FALSE, observed |-> "pending", body |-> "text",
   context_roots |-> {root}, read |-> read, write |-> write, output |-> output,
   operation |-> "brief.generate", mode |-> "deny", inputs |-> <<>>, destinations |-> {},
   max_network_requests |-> 0]

Scoped ==
  {Task(root, {grant}, {Write(<<"b", "**">>)}, Write(<<"b", "a">>)) :
     root \in {Read(<<"a">>), Read(<<"a", "/">>), Read(<<"a", "b">>), Read(<<"A">>),
               Write(<<"a">>), Read(<<"Private">>), Read(<<>>)},
     grant \in {Read(<<"a">>), Read(<<"a", "/">>), Read(<<"a", "**">>), Read(<<"a", "b", "**">>),
                Read(<<"**">>), Write(<<"a">>), Read(<<"**", "a">>)}}
  \cup
  {Task(Read(<<"a">>), {Read(<<"**">>)}, {grant}, output) :
     grant \in {Write(<<"b">>), Write(<<"b", "**">>), Write(<<"**">>), Read(<<"b">>),
                Write(<<"B">>)},
     output \in {Write(<<"b">>), Write(<<"b", "a">>), Write(<<"b", "/">>), Read(<<"b">>)}}

OneTask == Task(Read(<<"a">>), {Read(<<"a", "**">>)}, {Write(<<"**">>)}, Write(<<"a">>))

Url(host, port) == [scheme |-> "https", host |-> host, port |-> port]

Ingesting ==
  {[OneTask EXCEPT !.operation = "source.ingest", !.mode = mode, !.inputs = inputs,
                   !.destinations = {[host |-> "h", port |-> port]}, !.max_network_requests = 1] :
     mode \in {"deny", "allowlist"},
     inputs \in {<<>>, <<Url("h", NoPort)>>, <<Url("H", 443)>>, <<Url("h", 8443)>>,
                 <<Url("a", NoPort)>>, <<Url("h", NoPort), Url("h", NoPort)>>},
     port \in {NoPort, 443, 8443}}

Routines ==
  {[schema |-> "hermes.routine/v2", broken |-> FALSE, revision |-> 1,
    specification |-> specification, read |-> read, write |-> {Write(<<"**">>)},
    approval_id |-> None, approved_spec_hash |-> None, observed |-> observed, body |-> body] :
     specification \in {"daily", "hourly"},
     read \in {{Read(<<"a", "**">>)}, {Read(<<"a">>), Read(<<"A">>)}},
     observed \in {"pending", "in_sync"}, body \in {"text", "other"}}

SomeNotes == Scoped \cup Ingesting \cup Routines \cup {OneTask, [OneTask EXCEPT !.broken = TRUE]}

(* The note meets the process in one command only, which looks at nothing  *)
(* else: either the configuration and the databases vary or the note does. *)
Scope ==
  \/ note = OneTask /\ hash = None
  \/ /\ config = Plain /\ layout = Straight /\ stores = [l \in Locations |-> None]
     /\ command \in {None, "validate resource"}
=============================================================================
