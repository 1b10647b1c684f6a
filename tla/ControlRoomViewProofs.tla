------------------------ MODULE ControlRoomViewProofs ------------------------
(* Theorems about ControlRoomView, for any addresses, any number of settings *)
(* changes and any overlap of saves, ticks, presses and answers.             *)
EXTENDS ControlRoomView, SequenceTheorems, TLAPS

USE ViewConstants

(* After its timer is cleared the plugin has none running.                 *)
LEMMA NothingRuns ==
  ASSUME TimersAreTracked
  PROVE  ClearTimer = {}
  BY DEF TimersAreTracked, ClearTimer

(* So setInterval's answer is one of the ids.                              *)
LEMMA TimerType ==
  ASSUME TimersAreTracked
  PROVE  FreshTimer \in 1..MaxSaves + 1
<1>1. 1 \in 1..MaxSaves + 1 /\ 1 \notin ClearTimer
  BY NothingRuns
<1>2. QED
  BY <1>1 DEF FreshTimer

-----------------------------------------------------------------------------
(* The timer                                                               *)

(* Through overlapping and failing saves, late callbacks and a disabled    *)
(* plugin: the interval that refreshTimer names is the only one, and none  *)
(* runs once the plugin is disabled, unless a callback came after that.    *)
THEOREM TimersTracked == Spec => []TimersAreTracked
<1>1. Init => TimersAreTracked
  BY DEF Init, TimersAreTracked
<1>2. TimersAreTracked /\ [Next]_vars => TimersAreTracked'
  <2> SUFFICES ASSUME TimersAreTracked, [Next]_vars
               PROVE  TimersAreTracked'
    OBVIOUS
  <2>1. ClearTimer = {}
    BY NothingRuns
  <2>2. CASE LayoutReady \/ SaveDone
    <3>1. timers' \subseteq {refreshTimer'}
      BY <2>1, <2>2 DEF LayoutReady, SaveDone, StartTimer
    <3>2. loaded' = loaded /\ leaked' = (leaked \/ ~loaded)
      BY <2>2, Zenon DEF LayoutReady, SaveDone
    <3>3. ~(~loaded' /\ ~leaked')
      BY <3>2, Zenon
    <3>4. QED
      BY <3>1, <3>3, Zenon DEF TimersAreTracked
  <2>3. CASE Disable
    BY <2>1, <2>3 DEF Disable, TimersAreTracked
  <2>4. CASE \E u \in Urls, p \in BOOLEAN : ChangeSettings([url |-> u, preview |-> p])
    BY <2>4 DEF ChangeSettings, TimersAreTracked
  <2>5. CASE SaveFails
    BY <2>5 DEF SaveFails, TimersAreTracked
  <2>6. CASE UNCHANGED plugin
    BY <2>6 DEF plugin, TimersAreTracked
  <2>7. QED
    BY <2>2, <2>3, <2>4, <2>5, <2>6
    DEF Next, vars, Open, Close, PressRefresh, BridgeAnswers, Answer, Tick, NotesChange
<1>3. QED
  BY <1>1, <1>2, PTL DEF Spec

-----------------------------------------------------------------------------
(* What the view displays                                                  *)

LEMMA RefreshLabels ==
  ASSUME LabelMatchesSource, StartRefresh \/ Refresh
  PROVE  LabelMatchesSource'
<1>1. CASE StartRefresh
  BY <1>1 DEF StartRefresh, GiveUp, Finish, LabelMatchesSource
<1>2. QED
  BY <1>1 DEF Refresh, view, LabelMatchesSource

(* The banner names the source of what is displayed, whatever refreshes,   *)
(* failures and changes of the settings came before.                       *)
THEOREM LabelsMatch == Spec => []LabelMatchesSource
<1>1. Init => LabelMatchesSource
  BY DEF Init, LabelMatchesSource
<1>2. LabelMatchesSource /\ [Next]_vars => LabelMatchesSource'
  <2> SUFFICES ASSUME LabelMatchesSource, [Next]_vars
               PROVE  LabelMatchesSource'
    OBVIOUS
  <2>1. CASE Open \/ PressRefresh \/ Tick \/ SaveDone
    BY <2>1, RefreshLabels DEF Open, PressRefresh, Tick, SaveDone
  <2>2. CASE BridgeAnswers
    BY <2>2 DEF BridgeAnswers, Answer, GiveUp, Finish, LabelMatchesSource
  <2>3. CASE Close \/ Disable
    BY <2>3 DEF Close, Disable, Discard, LabelMatchesSource
  <2>4. CASE UNCHANGED view
    BY <2>4 DEF view, LabelMatchesSource
  <2>5. CASE LayoutReady \/ SaveFails
             \/ \E u \in Urls, p \in BOOLEAN : ChangeSettings([url |-> u, preview |-> p])
    BY <2>5 DEF LayoutReady, SaveFails, ChangeSettings, view, LabelMatchesSource
  <2>6. QED
    BY <2>1, <2>2, <2>3, <2>4, <2>5 DEF Next, vars, NotesChange
<1>3. QED
  BY <1>1, <1>2, PTL DEF Spec

-----------------------------------------------------------------------------
(* Refreshes                                                               *)

(* The flag and the request go together, also over closing and opening.    *)
WaitInv ==
  /\ requests = <<>> \/ \E r \in Requests : requests = <<r>>
  /\ refreshing \in BOOLEAN /\ (refreshing <=> requests # <<>>)
  /\ ~open => ~refreshing

(* The part of the type that a request is made of.                         *)
SettingsType ==
  /\ settings \in [url: Urls \cup {InvalidUrl}, preview: BOOLEAN]
  /\ vaultEmpty \in BOOLEAN

LEMMA SettingsTyped == Spec => []SettingsType
<1>1. Init => SettingsType
  BY DEF Init, SettingsType
<1>2. SettingsType /\ [Next]_vars => SettingsType'
  <2> SUFFICES ASSUME SettingsType, [Next]_vars
               PROVE  SettingsType'
    OBVIOUS
  <2>1. CASE UNCHANGED <<settings, vaultEmpty>>
    BY <2>1 DEF SettingsType
  <2>2. CASE NotesChange
    BY <2>2 DEF NotesChange, plugin, SettingsType
  <2>3. CASE \E u \in Urls, p \in BOOLEAN : ChangeSettings([url |-> u, preview |-> p])
    BY <2>3 DEF ChangeSettings, SettingsType
  <2>4. QED
    BY <2>1, <2>2, <2>3
    DEF Next, vars, plugin, Open, Close, PressRefresh, BridgeAnswers, Answer, Tick,
        LayoutReady, SaveDone, SaveFails, Disable
<1>3. QED
  BY <1>1, <1>2, PTL DEF Spec

LEMMA StartKeepsWait ==
  ASSUME SettingsType, requests = <<>>, StartRefresh, open'
  PROVE  WaitInv'
<1>1. CASE settings.url = InvalidUrl
  <2>1. requests' = <<>> /\ refreshing' = FALSE
    BY <1>1 DEF StartRefresh, GiveUp, Finish
  <2>2. QED
    BY <2>1 DEF WaitInv
<1>2. CASE settings.url # InvalidUrl
  <2> DEFINE r == [url |-> settings.url, vaultEmpty |-> vaultEmpty]
  <2>1. r \in Requests
    BY <1>2 DEF SettingsType, Requests
  <2>2. requests' = Append(requests, r) /\ refreshing' = TRUE
    BY <1>2 DEF StartRefresh
  <2>3. requests' = <<r>>
    BY <2>2
  <2>4. <<r>> # <<>>
    OBVIOUS
  <2> HIDE DEF r
  <2>5. QED
    BY <2>1, <2>2, <2>3, <2>4 DEF WaitInv
<1>3. QED
  BY <1>1, <1>2

LEMMA RefreshKeepsWait ==
  ASSUME SettingsType, WaitInv, Refresh
  PROVE  WaitInv'
<1>1. CASE open /\ MayRefresh
  <2>1. StartRefresh /\ open' = open
    BY <1>1 DEF Refresh
  <2>2. requests = <<>>
    BY <1>1 DEF WaitInv, MayRefresh
  <2>3. QED
    BY <1>1, <2>1, <2>2, StartKeepsWait
<1>2. CASE ~(open /\ MayRefresh)
  BY <1>2 DEF Refresh, view, WaitInv
<1>3. QED
  BY <1>1, <1>2

(* The only request there is, is taken off.                                *)
LEMMA AnswerEndsWait ==
  ASSUME "unrenderable" \notin Answers, WaitInv, BridgeAnswers
  PROVE  WaitInv'
<1>1. PICK k \in 1..Len(requests), a \in Answers : Answer(k, a)
  BY DEF BridgeAnswers
<1>2. PICK r \in Requests : requests = <<r>>
  BY <1>1 DEF WaitInv
<1>3. k = 1 /\ Len(requests) = 1
  BY <1>1, <1>2
<1>4. requests' = SubSeq(requests, 1, 0) \o SubSeq(requests, 2, 1)
  BY <1>1, <1>3 DEF Answer
<1>5. requests' = <<>>
  BY <1>2, <1>4
<1>6. refreshing' = FALSE
  BY <1>1 DEF Answer, GiveUp, Finish
<1>7. QED
  BY <1>5, <1>6 DEF WaitInv

(* As long as every answer can be drawn, no two refreshes overlap and none *)
(* ends with the flag up.                                                  *)
THEOREM OneRefresh ==
  ASSUME "unrenderable" \notin Answers
  PROVE  Spec => []OneRefreshAtATime
<1>1. Init => WaitInv
  BY DEF Init, WaitInv
<1>2. SettingsType /\ WaitInv /\ [Next]_vars => WaitInv'
  <2> SUFFICES ASSUME SettingsType, WaitInv, [Next]_vars
               PROVE  WaitInv'
    OBVIOUS
  <2>1. CASE PressRefresh \/ Tick \/ SaveDone
    BY <2>1, RefreshKeepsWait DEF PressRefresh, Tick, SaveDone
  <2>2. CASE Open
    <3>1. requests = <<>>
      BY <2>2 DEF Open, WaitInv
    <3>2. QED
      BY <2>2, <3>1, StartKeepsWait DEF Open
  <2>3. CASE BridgeAnswers
    BY <2>3, AnswerEndsWait
  <2>4. CASE Close \/ Disable
    BY <2>4 DEF Close, Disable, Discard, WaitInv
  <2>5. CASE UNCHANGED view
    BY <2>5 DEF view, WaitInv
  <2>6. CASE LayoutReady \/ SaveFails
             \/ \E u \in Urls, p \in BOOLEAN : ChangeSettings([url |-> u, preview |-> p])
    BY <2>6 DEF LayoutReady, SaveFails, ChangeSettings, view, WaitInv
  <2>7. QED
    BY <2>1, <2>2, <2>3, <2>4, <2>5, <2>6 DEF Next, vars, NotesChange
<1>3. WaitInv => OneRefreshAtATime
  <2> SUFFICES ASSUME WaitInv
               PROVE  OneRefreshAtATime
    OBVIOUS
  <2>1. Len(requests) <= 1
    <3>1. CASE requests = <<>>
      BY <3>1
    <3>2. CASE \E r \in Requests : requests = <<r>>
      <4>1. PICK r \in Requests : requests = <<r>>
        BY <3>2
      <4>2. Len(<<r>>) = 1
        OBVIOUS
      <4>3. Len(requests) = 1
        BY <4>1, <4>2, Zenon
      <4>4. QED
        BY <4>3
    <3>3. QED
      BY <3>1, <3>2 DEF WaitInv
  <2>2. refreshing <=> requests # <<>>
    BY DEF WaitInv
  <2>3. QED
    BY <2>1, <2>2, Zenon DEF OneRefreshAtATime
<1>4. QED
  BY <1>1, <1>2, <1>3, SettingsTyped, PTL DEF Spec

-----------------------------------------------------------------------------
(* Types                                                                   *)

PluginType ==
  /\ loaded \in BOOLEAN /\ layoutPending \in BOOLEAN /\ leaked \in BOOLEAN
  /\ saved \in 0..MaxSaves /\ saving \in 0..saved
  /\ timers \subseteq 1..MaxSaves + 1
  /\ refreshTimer \in {NoTimer} \cup 1..MaxSaves + 1

ViewType ==
  /\ open \in BOOLEAN /\ refreshing \in BOOLEAN
  /\ source \in Modes \cup {Blank} /\ mode \in Modes
  /\ requests \in Seq(Requests)
  /\ shown \in Displays \cup {Blank}

LEMMA FinishType ==
  ASSUME NEW m \in Modes, NEW src \in Modes, NEW u \in Urls \cup {InvalidUrl},
         Finish(m, src, u)
  PROVE  /\ refreshing' \in BOOLEAN /\ source' \in Modes \cup {Blank} /\ mode' \in Modes
         /\ shown' \in Displays \cup {Blank}
BY DEF Finish, Displays

LEMMA GiveUpType ==
  ASSUME NEW e, NEW u \in Urls \cup {InvalidUrl}, GiveUp(e, u)
  PROVE  /\ refreshing' \in BOOLEAN /\ source' \in Modes \cup {Blank} /\ mode' \in Modes
         /\ shown' \in Displays \cup {Blank}
<1>1. "vault" \in Modes /\ "reference-preview" \in Modes
  BY DEF Modes
<1>2. QED
  BY <1>1, FinishType DEF GiveUp

LEMMA StartType ==
  ASSUME SettingsType, ViewType, StartRefresh, open' \in BOOLEAN
  PROVE  ViewType'
<1>1. CASE settings.url = InvalidUrl
  <2>1. GiveUp(vaultEmpty, InvalidUrl) /\ requests' = requests
    BY <1>1 DEF StartRefresh
  <2>2. QED
    BY <2>1, GiveUpType DEF ViewType
<1>2. CASE settings.url # InvalidUrl
  <2> DEFINE r == [url |-> settings.url, vaultEmpty |-> vaultEmpty]
  <2>1. r \in Requests
    BY <1>2 DEF SettingsType, Requests
  <2>2. /\ refreshing' = TRUE /\ mode' = "vault" /\ source' = "vault"
        /\ requests' = Append(requests, r) /\ shown' = shown
    BY <1>2 DEF StartRefresh
  <2> HIDE DEF r
  <2>3. Append(requests, r) \in Seq(Requests)
    BY <2>1, AppendProperties DEF ViewType
  <2>4. QED
    BY <2>2, <2>3 DEF ViewType, Modes
<1>3. QED
  BY <1>1, <1>2

LEMMA RefreshType ==
  ASSUME SettingsType, ViewType, Refresh
  PROVE  ViewType'
<1>1. CASE open /\ MayRefresh
  BY <1>1, StartType DEF Refresh, ViewType
<1>2. CASE ~(open /\ MayRefresh)
  BY <1>2 DEF Refresh, view, ViewType
<1>3. QED
  BY <1>1, <1>2

LEMMA AnswerType ==
  ASSUME ViewType, BridgeAnswers
  PROVE  ViewType'
<1>1. PICK k \in 1..Len(requests), a \in Answers : Answer(k, a)
  BY DEF BridgeAnswers
<1>2. requests \in Seq(Requests)
  BY DEF ViewType
<1>3. /\ SubSeq(requests, 1, k - 1) \in Seq(Requests)
      /\ SubSeq(requests, k + 1, Len(requests)) \in Seq(Requests)
  BY <1>2, SubSeqProperties
<1>4. SubSeq(requests, 1, k - 1) \o SubSeq(requests, k + 1, Len(requests)) \in Seq(Requests)
  BY <1>3, ConcatProperties
<1>5. requests' \in Seq(Requests) /\ open' = open
  BY <1>1, <1>4 DEF Answer
<1>6. requests[k].url \in Urls
  <2>1. requests[k] \in Requests
    BY <1>2, ElementOfSeq
  <2>2. QED
    BY <2>1 DEF Requests
<1>7. CASE a = "snapshot"
  <2>1. Finish("live", "live", requests[k].url)
    BY <1>1, <1>7 DEF Answer
  <2>2. "live" \in Modes
    BY DEF Modes
  <2>3. QED
    BY <1>5, <1>6, <2>1, <2>2, FinishType DEF ViewType
<1>8. CASE a = "unrenderable"
  <2>1. /\ mode' = "live" /\ source' = "live" /\ shown' = Blank
        /\ refreshing' = refreshing
    BY <1>1, <1>8 DEF Answer
  <2>2. QED
    BY <1>5, <2>1 DEF ViewType, Modes
<1>9. CASE a \notin {"snapshot", "unrenderable"}
  <2>1. GiveUp(requests[k].vaultEmpty, requests[k].url)
    BY <1>1, <1>9 DEF Answer
  <2>2. QED
    BY <1>5, <1>6, <2>1, GiveUpType DEF ViewType
<1>10. QED
  BY <1>7, <1>8, <1>9

(* The plugin, its timers and the view keep their types, with any answer.  *)
THEOREM TypeCorrect == Spec => []TypeOK
<1>0. <<>> \in Seq(Requests)
  OBVIOUS
<1>1. Init => PluginType /\ ViewType
  <2>1. Init => PluginType
    <3> SUFFICES ASSUME Init
                 PROVE  PluginType
      OBVIOUS
    <3>1. saved \in 0..MaxSaves /\ saving \in 0..saved
      BY DEF Init
    <3>2. timers \subseteq 1..MaxSaves + 1 /\ refreshTimer \in {NoTimer} \cup 1..MaxSaves + 1
      BY DEF Init
    <3>3. QED
      BY <3>1, <3>2 DEF Init, PluginType
  <2>2. Init => ViewType
    BY <1>0 DEF Init, ViewType, Modes
  <2>3. QED
    BY <2>1, <2>2
<1>2. TimersAreTracked /\ PluginType /\ [Next]_vars => PluginType'
  <2> SUFFICES ASSUME TimersAreTracked, PluginType, [Next]_vars
               PROVE  PluginType'
    OBVIOUS
  <2>1. CASE UNCHANGED plugin
    BY <2>1 DEF plugin, PluginType
  <2>2. ClearTimer = {} /\ FreshTimer \in 1..MaxSaves + 1
    BY NothingRuns, TimerType
  <2>3. CASE LayoutReady
    BY <2>2, <2>3 DEF LayoutReady, StartTimer, PluginType
  <2>4. CASE SaveDone
    BY <2>2, <2>4 DEF SaveDone, StartTimer, PluginType
  <2>5. CASE SaveFails
    BY <2>5 DEF SaveFails, PluginType
  <2>6. CASE Disable
    BY <2>2, <2>6 DEF Disable, PluginType
  <2>7. CASE \E u \in Urls, p \in BOOLEAN : ChangeSettings([url |-> u, preview |-> p])
    BY <2>7 DEF ChangeSettings, PluginType
  <2>8. QED
    BY <2>1, <2>3, <2>4, <2>5, <2>6, <2>7
    DEF Next, vars, Open, Close, PressRefresh, BridgeAnswers, Answer, Tick, NotesChange
<1>3. SettingsType /\ ViewType /\ [Next]_vars => ViewType'
  <2> SUFFICES ASSUME SettingsType, ViewType, [Next]_vars
               PROVE  ViewType'
    OBVIOUS
  <2>1. CASE PressRefresh \/ Tick \/ SaveDone
    BY <2>1, RefreshType DEF PressRefresh, Tick, SaveDone
  <2>2. CASE Open
    BY <2>2, StartType DEF Open
  <2>3. CASE BridgeAnswers
    BY <2>3, AnswerType
  <2>4. CASE Close \/ Disable
    BY <1>0, <2>4 DEF Close, Disable, Discard, ViewType, Modes
  <2>5. CASE UNCHANGED view
    BY <2>5 DEF view, ViewType
  <2>6. CASE LayoutReady \/ SaveFails
             \/ \E u \in Urls, p \in BOOLEAN : ChangeSettings([url |-> u, preview |-> p])
    BY <2>6 DEF LayoutReady, SaveFails, ChangeSettings, view, ViewType
  <2>7. QED
    BY <2>1, <2>2, <2>3, <2>4, <2>5, <2>6 DEF Next, vars, NotesChange
<1>4. PluginType /\ ViewType /\ SettingsType => TypeOK
  BY DEF PluginType, ViewType, SettingsType, TypeOK
<1>5. QED
  BY <1>1, <1>2, <1>3, <1>4, TimersTracked, SettingsTyped, PTL DEF Spec
=============================================================================
