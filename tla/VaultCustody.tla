----------------------------- MODULE VaultCustody -----------------------------
(***************************************************************************)
(* What the lifecycle tool promises about the files of a vault.  A note is *)
(* provided only where there is none, and is never taken away.  A plugin   *)
(* file may be replaced or removed, but what its user put into it is saved *)
(* before it is replaced and is not removed at all, and what was saved is  *)
(* thrown away only once no plugin file is left.  A file that its user     *)
(* touches while the tool is at work is not in its custody.                *)
(***************************************************************************)
CONSTANTS Artifacts, Notes, Shipped, Personal, Nothing

VARIABLES disk, saved, touched, busy

vars == <<disk, saved, touched, busy>>

Files == Artifacts \cup Notes

(* The user changes a file in any way.                                     *)
UserChanges ==
  /\ \E f \in Files :
       /\ \A g \in Files \ {f} : disk'[g] = disk[g]
       /\ touched' = IF busy THEN touched \cup {f} ELSE touched
  /\ saved' = saved /\ busy' = busy

Provide(f, c) ==
  /\ f \notin touched =>
       /\ f \in Notes => disk[f] = Nothing
       /\ disk[f] \in Personal => <<f, disk[f]>> \in saved
  /\ disk' = [disk EXCEPT ![f] = c]
  /\ saved' = saved

Withdraw(a) ==
  /\ a \notin touched => disk[a] \in Shipped
  /\ disk' = [disk EXCEPT ![a] = Nothing]
  /\ saved' = saved

Save ==
  /\ saved \subseteq saved'
  /\ disk' = disk

Discard ==
  /\ \A a \in Artifacts \ touched : disk[a] = Nothing
  /\ saved' \subseteq saved
  /\ disk' = disk

ToolWorks ==
  /\ busy
  /\ touched' = IF busy' THEN touched ELSE {}
  /\ \/ \E f \in Files, c \in Shipped : Provide(f, c)
     \/ \E a \in Artifacts : Withdraw(a)
     \/ Save
     \/ Discard

ToolStarts == ~busy /\ busy' /\ UNCHANGED <<disk, saved, touched>>

Init == saved = {} /\ touched = {} /\ busy = FALSE

Next == UserChanges \/ ToolStarts \/ ToolWorks

Spec == Init /\ [][Next]_vars
=============================================================================
