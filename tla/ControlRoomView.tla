--------------------------- MODULE ControlRoomView ---------------------------
(***************************************************************************)
(* The Obsidian plugin: its settings, its refresh timer and one control-   *)
(* room view.  A refresh reads the vault, asks the bridge and waits; while *)
(* it waits the timer ticks, the user changes settings, presses Refresh,   *)
(* closes and opens the view or disables the plugin, and notes come and    *)
(* go.  The plugin starts where onload has returned.                       *)
(*                                                                         *)
(* A view that is closed is a dead object: the request it waits for can no *)
(* longer be seen, and the next view starts afresh.                        *)
(***************************************************************************)
EXTENDS Naturals, Sequences, FiniteSets

CONSTANTS
  Urls,        \* bridge addresses normalizeLoopbackBaseUrl accepts
  InvalidUrl,  \* what a hand-edited data.json may hold instead
  Answers,     \* what a bridge may answer, see AnswerKinds
  MaxSaves,    \* bound on the settings changes of one behaviour
  NoTimer, Blank

(* "failure": the request is refused, the status is not 2xx, the body is   *)
(* too long or decodeSnapshot rejects it.  "unrenderable": decodeSnapshot  *)
(* accepts it and render throws, as for a last_commit that has no sha.     *)
AnswerKinds == {"snapshot", "failure", "unrenderable"}

ASSUME ViewConstants ==
  /\ Urls # {} /\ InvalidUrl \notin Urls
  /\ Answers \subseteq AnswerKinds
  /\ MaxSaves \in Nat
  /\ NoTimer \notin Nat

VARIABLES
  loaded,        \* the plugin is enabled
  layoutPending, \* onLayoutReady has not called back yet
  settings,
  saved,         \* bound: settings changes so far
  saving,        \* saveSettings calls that await saveData
  timers,        \* intervals that are running
  refreshTimer,
  vaultEmpty,    \* no task or routine notes
  open,          \* the view exists
  refreshing, source, mode,
  requests,      \* refreshes that await an answer, oldest first
  shown,         \* what the view displays
  leaked         \* auxiliary: a callback came after the plugin was disabled

plugin == <<loaded, layoutPending, settings, saved, saving, timers, refreshTimer, leaked>>

view == <<open, refreshing, source, mode, requests, shown>>

vars == <<plugin, vaultEmpty, view>>

Modes == {"live", "vault", "reference-preview"}

Requests == [url: Urls, vaultEmpty: BOOLEAN]

Displays == [mode: Modes, source: Modes, url: Urls \cup {InvalidUrl}]

TypeOK ==
  /\ loaded \in BOOLEAN /\ layoutPending \in BOOLEAN /\ leaked \in BOOLEAN
  /\ settings \in [url: Urls \cup {InvalidUrl}, preview: BOOLEAN]
  /\ saved \in 0..MaxSaves /\ saving \in 0..saved
  /\ timers \subseteq 1..MaxSaves + 1
  /\ refreshTimer \in {NoTimer} \cup 1..MaxSaves + 1
  /\ vaultEmpty \in BOOLEAN
  /\ open \in BOOLEAN /\ refreshing \in BOOLEAN
  /\ source \in Modes \cup {Blank} /\ mode \in Modes
  /\ requests \in Seq(Requests)
  /\ shown \in Displays \cup {Blank}

Init ==
  /\ loaded = TRUE /\ layoutPending = TRUE /\ leaked = FALSE
  /\ settings \in [url: Urls \cup {InvalidUrl}, preview: BOOLEAN]
  /\ saved = 0 /\ saving = 0
  /\ timers = {} /\ refreshTimer = NoTimer
  /\ vaultEmpty \in BOOLEAN
  /\ open = FALSE /\ refreshing = FALSE
  /\ source = Blank /\ mode = "vault" /\ requests = <<>> /\ shown = Blank

-----------------------------------------------------------------------------
(* ControlRoomView.refresh                                                 *)

(* render, from the mode and the snapshot the refresh leaves behind, and   *)
(* the end of the finally block.  The address is remembered for the        *)
(* properties.                                                             *)
Finish(newMode, newSource, url) ==
  /\ mode' = newMode /\ source' = newSource
  /\ shown' = [mode |-> newMode, source |-> newSource, url |-> url]
  /\ refreshing' = FALSE

(* Mutant of GiveUp: nothing takes back the mode of the refresh before.    *)
GiveUpKeepingMode(wasEmpty, url) ==
  IF wasEmpty /\ settings.preview
    THEN Finish("reference-preview", "reference-preview", url)
    ELSE Finish(mode, "vault", url)

(* The catch block: the vault as it was read, or the reference preview     *)
(* when that was empty and the setting, as it is now, asks for it.         *)
GiveUp(wasEmpty, url) ==
  IF wasEmpty /\ settings.preview
    THEN Finish("reference-preview", "reference-preview", url)
    ELSE Finish("vault", "vault", url)

(* Mutant of MayRefresh: no guard against overlapping refreshes.           *)
RefreshAtWill == Len(requests) < 2

MayRefresh == ~refreshing

(* The part before the await.  An address that is not loopback throws, and *)
(* the catch and finally blocks run at once.                               *)
StartRefresh ==
  IF settings.url = InvalidUrl
    THEN GiveUp(vaultEmpty, InvalidUrl) /\ UNCHANGED requests
    ELSE /\ refreshing' = TRUE /\ mode' = "vault" /\ source' = "vault"
         /\ requests' = Append(requests, [url |-> settings.url, vaultEmpty |-> vaultEmpty])
         /\ UNCHANGED shown

(* A caller that does not know whether a refresh is under way.             *)
Refresh ==
  IF open /\ MayRefresh THEN StartRefresh /\ UNCHANGED open ELSE UNCHANGED view

(* The bridge's answer to the k-th request, or the failure to get one.     *)
Answer(k, a) ==
  /\ requests' = SubSeq(requests, 1, k - 1) \o SubSeq(requests, k + 1, Len(requests))
  /\ CASE a = "snapshot" -> Finish("live", "live", requests[k].url)
       [] a = "unrenderable" ->
            (* out of the finally block, with the view half drawn          *)
            /\ mode' = "live" /\ source' = "live" /\ shown' = Blank
            /\ UNCHANGED refreshing
       [] OTHER -> GiveUp(requests[k].vaultEmpty, requests[k].url)
  /\ UNCHANGED <<plugin, vaultEmpty, open>>

BridgeAnswers == \E k \in 1..Len(requests), a \in Answers : Answer(k, a)

-----------------------------------------------------------------------------
(* The view                                                                *)

Open ==
  /\ loaded /\ ~open
  /\ open' = TRUE
  /\ StartRefresh
  /\ UNCHANGED <<plugin, vaultEmpty>>

Discard ==
  /\ open' = FALSE /\ refreshing' = FALSE
  /\ source' = Blank /\ mode' = "vault" /\ requests' = <<>> /\ shown' = Blank

Close ==
  /\ open
  /\ Discard
  /\ UNCHANGED <<plugin, vaultEmpty>>

PressRefresh ==
  /\ open /\ shown # Blank
  /\ UNCHANGED <<plugin, vaultEmpty>>
  /\ Refresh

-----------------------------------------------------------------------------
(* The plugin                                                              *)

(* Mutant of ClearTimer: the running interval is forgotten, not cleared.   *)
ForgetTimer == timers

ClearTimer == timers \ {refreshTimer}


(* setInterval answers with an id that is not in use.                      *)
FreshTimer == CHOOSE t \in 1..MaxSaves + 1 : t \notin ClearTimer

(* Mutant of StartTimer: an interval that was cleared is not set again.    *)
StartFirstTimer ==
  /\ timers' = IF refreshTimer = NoTimer THEN {FreshTimer} ELSE ClearTimer
  /\ refreshTimer' = IF refreshTimer = NoTimer THEN FreshTimer ELSE refreshTimer

StartTimer == timers' = ClearTimer \cup {FreshTimer} /\ refreshTimer' = FreshTimer

LayoutReady ==
  /\ layoutPending
  /\ layoutPending' = FALSE
  /\ StartTimer
  /\ leaked' = (leaked \/ ~loaded)
  /\ UNCHANGED <<loaded, settings, saved, saving, vaultEmpty, view>>

Tick ==
  /\ timers # {}
  /\ UNCHANGED <<plugin, vaultEmpty>>
  /\ Refresh

(* A setting is changed in memory, then saved.                             *)
ChangeSettings(s) ==
  /\ loaded /\ saved < MaxSaves
  /\ settings' = s
  /\ saved' = saved + 1 /\ saving' = saving + 1
  /\ UNCHANGED <<loaded, layoutPending, timers, refreshTimer, leaked, vaultEmpty, view>>

SaveDone ==
  /\ saving > 0
  /\ saving' = saving - 1
  /\ StartTimer
  /\ leaked' = (leaked \/ ~loaded)
  /\ UNCHANGED <<loaded, layoutPending, settings, saved, vaultEmpty>>
  /\ Refresh

(* Mutant of SaveFails: a save that has ended is counted out again.        *)
SaveFailsTwice ==
  /\ saved > 0
  /\ saving' = saving - 1
  /\ UNCHANGED <<loaded, layoutPending, settings, saved, timers, refreshTimer, leaked,
                 vaultEmpty, view>>

(* saveData rejects: neither the timer nor the view learns of the change.  *)
SaveFails ==
  /\ saving > 0
  /\ saving' = saving - 1
  /\ UNCHANGED <<loaded, layoutPending, settings, saved, timers, refreshTimer, leaked,
                 vaultEmpty, view>>

Disable ==
  /\ loaded
  /\ loaded' = FALSE
  /\ timers' = ClearTimer
  /\ Discard
  /\ UNCHANGED <<layoutPending, settings, saved, saving, refreshTimer, leaked, vaultEmpty>>

NotesChange ==
  /\ vaultEmpty' = ~vaultEmpty
  /\ UNCHANGED <<plugin, view>>

Next ==
  \/ Open \/ Close \/ PressRefresh \/ BridgeAnswers
  \/ LayoutReady \/ Tick \/ SaveDone \/ SaveFails \/ Disable
  \/ \E u \in Urls, p \in BOOLEAN : ChangeSettings([url |-> u, preview |-> p])
  \/ NotesChange

(* The event loop runs what is due: intervals tick, Obsidian calls back    *)
(* when its layout is ready, and a save ends one way or the other.         *)
LoopFairness ==
  WF_vars(Tick) /\ WF_vars(LayoutReady) /\ WF_vars(SaveDone \/ SaveFails)

(* A bridge that is up, or whose port is closed: every request ends.       *)
Spec == Init /\ [][Next]_vars /\ LoopFairness /\ WF_vars(BridgeAnswers)

-----------------------------------------------------------------------------
(* Properties                                                              *)

(* "Three clearly separated data modes": whatever came before, the banner  *)
(* names the source of the data it stands above.                           *)
LabelMatchesSource == shown # Blank => shown.mode = shown.source

(* The refreshing flag and the request that is waited for go together: no  *)
(* two refreshes overlap, so that no late answer replaces a newer one, and *)
(* no refresh ends with the flag up.                                       *)
OneRefreshAtATime ==
  /\ Len(requests) <= 1
  /\ refreshing <=> requests # <<>>

(* At most the interval that refreshTimer names is running, through any    *)
(* overlapping saves; and none is once the plugin is disabled, unless a    *)
(* save or the layout callback came after that.                            *)
TimersAreTracked ==
  /\ timers \subseteq {refreshTimer}
  /\ ~loaded /\ ~leaked => timers = {}

(* A changed address or preview setting reaches an open view, although the *)
(* refresh that a save asks for is dropped while another is under way, and *)
(* although the save may fail.                                             *)
ViewFollowsSettings ==
  /\ shown # Blank
  /\ shown.url = settings.url
  /\ shown.mode = "reference-preview" => settings.preview

SettingsReachTheView == <>[](loaded /\ open) => <>[]ViewFollowsSettings

(* A refresh ends: api.ts:83 calls decodeSnapshot the "Defensive boundary  *)
(* for the explicit, read-only control-room v1 contract".                  *)
RefreshEnds == refreshing ~> ~refreshing
=============================================================================
