--------------------------- MODULE DeploymentConfig ---------------------------
(***************************************************************************)
(* What load_config makes of a configuration.  A configuration is a record *)
(* of the fields the checks relate to each other; "broken" are the tables  *)
(* with a field that is unknown, missing, of the wrong type or not of the  *)
(* form it must have.  The paths in it are names: what they lead to is     *)
(* known to the file system only, and "layout" is what resolve() answers   *)
(* when it is asked.                                                       *)
(***************************************************************************)
EXTENDS PathSegments

Roots == {"read_write_root", "read_only_root", "private_mask_root"}

DocumentAccepted(c) == "document" \notin c.broken

BridgeAccepted(c) ==
  /\ "bridge" \notin c.broken
  /\ c.reconcile_interval_seconds \in 1 .. 600
  /\ ~(c.validation_only /\ c.dispatch_enabled)

HermesAccepted(c) == "hermes" \notin c.broken

(* Mutant of VaultAccepted: paths are compared as they are written.        *)
VaultAcceptedAsWritten(c, layout) ==
  /\ \A z, y \in Roots : z # y => c[z] # c[y]
  /\ \A z \in Roots : c.database_path # c[z]

VaultAccepted(c, layout) ==
  /\ "vault" \notin c.broken
  /\ \A z, y \in Roots :
       z # y => layout[c[z]] # layout[c[y]] /\ ~Within(layout[c[z]], layout[c[y]])
  /\ \A z \in Roots : ~Within(layout[c.database_path], layout[c[z]])
  /\ Within(layout[c.database_path], layout[c.state_directory])

WorkerAccepted(c) == "worker" \notin c.broken

LimitsAccepted(c) == "limits" \notin c.broken

CapabilitiesAccepted(c) ==
  "capabilities" \notin c.broken /\ (c.dispatch_enabled => c.permitted_models # {})

SecurityAccepted(c) ==
  /\ "security" \notin c.broken
  /\ c.network_enforcement \in {"unconfigured", "allowlist-proxy"}
  /\ c.dispatch_enabled => c.network_enforcement # "unconfigured"

ControlRoomAccepted(c) ==
  /\ "control_room" \notin c.broken
  /\ c.port \in 1 .. 65535
  /\ c.max_items_per_collection \in 1 .. 2000
  /\ c.max_response_bytes \in 4096 .. 8388608

Accepted(c, layout) ==
  /\ DocumentAccepted(c) /\ BridgeAccepted(c) /\ HermesAccepted(c)
  /\ VaultAccepted(c, layout)
  /\ WorkerAccepted(c) /\ LimitsAccepted(c) /\ CapabilitiesAccepted(c)
  /\ SecurityAccepted(c) /\ ControlRoomAccepted(c)
=============================================================================
