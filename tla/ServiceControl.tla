---------------------------- MODULE ServiceControl ----------------------------
(***************************************************************************)
(* Who starts and stops the service, and who follows its log: the main     *)
(* screen (MainActivity, MainFragment, ServiceViewModel), the quick        *)
(* settings tile, start and stop by intent, and start on boot.             *)
(*                                                                         *)
(* All of them ask isRunning() and then send a request; the main looper    *)
(* calls the service some time later.  Pollers are tasks of one executor   *)
(* thread that every view model of the process shares, and each looks at   *)
(* the cancelRequested flag of its own view model.  The service itself     *)
(* (SshdService.tla) is reduced to what isRunning() answers.               *)
(***************************************************************************)
EXTENDS Naturals, Sequences, SequencesExt

CONSTANTS VM, NoVM,     \* view models; one serves an activity until it finishes
          MaxRequests,  \* bound: requests the looper has not handled
          MaxTasks      \* bound: pollers of the executor

ASSUME VMAssumption == NoVM \notin VM
ASSUME QueueAssumption == MaxRequests \in Nat /\ MaxTasks \in Nat

Outcome == {"started", "refused", "threw"}     \* refused: no ComponentName

VARIABLES prefs,            \* runOnAppStart, keepRunningOnAppExit
          startMode,        \* "ByUser", "ByIntent", "OnBoot" or "none"
          requests,         \* start and stop calls not yet delivered
          running,          \* isRunning()
          watchdogBusy,     \* it cleared sshdPid and has not acted yet
          screen,           \* of the activity: "none", "launched" (onCreate() is
                            \* next), "created" (onResume() is next), "resumed",
                            \* "paused", "settings" (in front), "relaunched"
                            \* (as launched, below the settings), "finishing"
          intent,           \* that launched it: "MAIN", "START", "STOP"
          fragment,         \* MainFragment.vm is set
          vm,
          cancelRequested, tasks,
          others,           \* history: somebody else than the user started it
          overwritten,      \* history: and a start by the user came on top of that
          elsewhere,        \* history: no start of the view model since the screen
                            \* came to the front, or one without it
          sticky,           \* history: Android re-created the service
          strayed           \* history: view models whose last poller an intent
                            \* started, and no main screen came after it

svcVars == <<running, watchdogBusy>>
uiVars == <<screen, intent, fragment, vm>>
pollVars == <<cancelRequested, tasks>>
histVars == <<others, overwritten, sticky>>
vars == <<prefs, startMode, requests, svcVars, uiVars, pollVars,
          histVars, elsewhere, strayed>>

Init ==
  /\ prefs \in [runOnAppStart : BOOLEAN, keepRunning : BOOLEAN]
  /\ startMode = "none"
  /\ requests = <<>>
  /\ running = FALSE /\ watchdogBusy = FALSE
  /\ screen = "none" /\ intent = "MAIN" /\ fragment = FALSE /\ vm = NoVM
  /\ cancelRequested = [v \in VM |-> FALSE]
  /\ tasks = <<>>
  /\ others = FALSE /\ overwritten = FALSE /\ sticky = FALSE
  /\ elsewhere = TRUE /\ strayed = {}

-----------------------------------------------------------------------------
(* Requests.                                                               *)

(* SshdService.startService(): the mode is noted before the call. *)
startService(mode, out) ==
  /\ Len(requests) < MaxRequests
  /\ startMode' = mode
  /\ requests' = IF out = "started" THEN Append(requests, "start") ELSE requests
  /\ others' = (others \/ (mode # "ByUser" /\ out = "started"))
  /\ overwritten' = (overwritten \/ (mode = "ByUser" /\ others))
  /\ sticky' = FALSE

stopService ==
  /\ Len(requests) < MaxRequests
  /\ requests' = Append(requests, "stop")
  /\ startMode' = "none"
  /\ others' = FALSE /\ overwritten' = FALSE
  /\ UNCHANGED sticky

NoRequest == UNCHANGED <<startMode, requests, histVars>>

(* Mutant of startUpdateThread: forgets to clear the flag. *)
startUpdateThread_Keep(queue) ==
  /\ Len(tasks) < MaxTasks
  /\ cancelRequested' = cancelRequested
  /\ tasks' = Append(queue, vm)
  /\ elsewhere' = FALSE

(* ServiceViewModel.startUpdateThread(). *)
startUpdateThread(queue) ==
  /\ Len(tasks) < MaxTasks
  /\ cancelRequested' = [cancelRequested EXCEPT ![vm] = FALSE]
  /\ tasks' = Append(queue, vm)
  /\ elsewhere' = FALSE

cancelUpdateThread == cancelRequested' = [cancelRequested EXCEPT ![vm] = TRUE]

(***************************************************************************)
(* ServiceViewModel.startService(): cancels, starts, and un-cancels; the   *)
(* executor may have dropped any pollers at its head in between, or none.  *)
(***************************************************************************)
vmStartService(mode, out) ==
  /\ startService(mode, out)
  /\ \/ /\ out = "threw"
        /\ cancelUpdateThread
        /\ elsewhere' = TRUE
        /\ UNCHANGED tasks
     \/ /\ out # "threw"
        /\ \E k \in 0 .. Len(tasks) :
             /\ \A i \in 1 .. k : tasks[i] = vm \/ cancelRequested[tasks[i]]
             /\ startUpdateThread(SubSeq(tasks, k + 1, Len(tasks)))

(* ServiceViewModel.stopService(). *)
vmStopService == cancelUpdateThread /\ stopService

-----------------------------------------------------------------------------
(* The activity.                                                           *)

(***************************************************************************)
(* handeIntentAction(): a start that fails, and a stop that has nothing to *)
(* stop or may stop, finish the activity; otherwise it goes on.            *)
(***************************************************************************)
handeIntentAction(i, next) ==
  \/ /\ i = "MAIN" \/ (i = "START" /\ running)
        \/ (i = "STOP" /\ running /\ startMode # "ByIntent")
     /\ screen' = next
     /\ NoRequest
     /\ UNCHANGED <<pollVars, elsewhere, strayed>>
  \/ /\ i = "START" /\ ~running
     /\ \E out \in Outcome :
          /\ vmStartService("ByIntent", out)
          /\ screen' = IF out = "started" THEN next ELSE "finishing"
          /\ strayed' = IF out = "threw" THEN strayed ELSE strayed \cup {vm}
  \/ /\ i = "STOP" /\ ~running
     /\ screen' = "finishing"
     /\ NoRequest
     /\ UNCHANGED <<pollVars, elsewhere, strayed>>
  \/ /\ i = "STOP" /\ running /\ startMode = "ByIntent"
     /\ vmStopService
     /\ screen' = "finishing"
     /\ UNCHANGED <<tasks, elsewhere, strayed>>

(* A new activity gets a new view model, whose flag is false. *)
Launch(i) ==
  /\ screen = "none"
  /\ \E v \in VM \ (ToSet(tasks) \cup strayed) : vm' = v
  /\ cancelRequested' = [cancelRequested EXCEPT ![vm'] = FALSE]
  /\ screen' = "launched"
  /\ intent' = i
  /\ fragment' = FALSE
  /\ UNCHANGED <<prefs, startMode, requests, svcVars, tasks,
                 histVars, elsewhere, strayed>>

(* MainActivity.onCreate(), also of a rotated activity: the same intent. *)
onCreate ==
  /\ \/ screen = "launched" /\ handeIntentAction(intent, "created")
     \/ screen = "relaunched" /\ handeIntentAction(intent, "settings")
  /\ UNCHANGED <<prefs, svcVars, intent, fragment, vm>>

(* The screen is brought to the front again, or is the settings screen. *)
onNewIntent(i) ==
  /\ i # "MAIN"
  /\ \/ screen = "paused" /\ handeIntentAction(i, "created")
     \/ screen = "settings" /\ handeIntentAction(i, "settings")
  /\ UNCHANGED <<prefs, svcVars, intent, fragment, vm>>

(* MainFragment.onResume(). *)
onResume ==
  /\ screen \in {"created", "paused", "settings"}
  /\ screen' = "resumed"
  /\ fragment' = TRUE
  /\ \/ running /\ startUpdateThread(tasks) /\ NoRequest
     \/ ~running /\ prefs.runOnAppStart /\ \E out \in Outcome : vmStartService("ByUser", out)
     \/ /\ ~running /\ ~prefs.runOnAppStart /\ NoRequest
        /\ elsewhere' = TRUE
        /\ UNCHANGED pollVars
  /\ strayed' = strayed \ {vm}
  /\ UNCHANGED <<prefs, svcVars, intent, vm>>

(* MainFragment.onPause(): another app, or the settings, in front. *)
onPause ==
  /\ screen = "resumed"
  /\ screen' \in {"paused", "settings"}
  /\ cancelUpdateThread
  /\ strayed' = strayed \ {vm}
  /\ NoRequest
  /\ elsewhere' = TRUE
  /\ UNCHANGED <<prefs, svcVars, intent, fragment, vm, tasks>>

(* Mutant of StopsOnDestroy: whoever started it. *)
StopsOnDestroy_Any == fragment /\ ~prefs.keepRunning

(* MainFragment.onDestroy(): stop what the user started. *)
StopsOnDestroy == fragment /\ startMode = "ByUser" /\ ~prefs.keepRunning

(* The activity with its view and its view model. *)
Gone ==
  /\ screen' = "none" /\ intent' = "MAIN" /\ fragment' = FALSE /\ vm' = NoVM
  /\ elsewhere' = TRUE

onDestroy ==
  /\ screen \in {"paused", "settings", "finishing"}
  /\ \/ StopsOnDestroy /\ vmStopService
     \/ ~StopsOnDestroy /\ NoRequest /\ UNCHANGED cancelRequested
  /\ Gone
  /\ UNCHANGED <<prefs, svcVars, tasks, strayed>>

(***************************************************************************)
(* A rotation: onPause() if the screen was in front, and onDestroy(); the  *)
(* view model stays.  Below the settings the new fragment has no view, and *)
(* so no vm, until they are closed.                                        *)
(***************************************************************************)
Rotate ==
  /\ screen \in {"resumed", "paused", "settings"}
  /\ screen' = IF screen = "settings" THEN "relaunched" ELSE "launched"
  /\ fragment' = FALSE
  /\ \/ StopsOnDestroy /\ vmStopService
     \/ /\ ~StopsOnDestroy /\ NoRequest
        /\ \/ screen = "resumed" /\ cancelUpdateThread
           \/ screen # "resumed" /\ UNCHANGED cancelRequested
  /\ strayed' = IF screen = "resumed" THEN strayed \ {vm} ELSE strayed
  /\ elsewhere' = TRUE
  /\ UNCHANGED <<prefs, svcVars, intent, vm, tasks>>

(* MainFragment.onMenu(): the start button. *)
onMenu ==
  /\ screen = "resumed"
  /\ \/ running /\ vmStopService /\ UNCHANGED <<tasks, elsewhere>>
     \/ ~running /\ \E out \in Outcome : vmStartService("ByUser", out)
  /\ UNCHANGED <<prefs, svcVars, uiVars, strayed>>

-----------------------------------------------------------------------------
(* Without the view model.                                                 *)

Elsewhere == UNCHANGED <<prefs, svcVars, uiVars, pollVars, strayed>>

(* SshdTileService.onClick(). *)
onClick ==
  /\ \/ running /\ stopService /\ UNCHANGED elsewhere
     \/ /\ ~running /\ elsewhere' = TRUE
        /\ \E out \in Outcome : startService("ByUser", out)
  /\ Elsewhere

(* The process ends; START_STICKY re-creates a service that ran. *)
ProcessGone ==
  /\ running' = FALSE /\ watchdogBusy' = FALSE
  /\ requests' \in IF running /\ ~Contains(requests, "stop")
                   THEN {<<"start">>} ELSE {<<>>, <<"start">>}
  /\ startMode' = "none" /\ sticky' = TRUE
  /\ Gone
  /\ tasks' = <<>> /\ cancelRequested' = [v \in VM |-> FALSE] /\ strayed' = {}
  /\ UNCHANGED <<prefs, others, overwritten>>

(***************************************************************************)
(* BootReceiver.onReceive(): after a boot, or an update of the app.        *)
(* Nothing catches what startForegroundService() throws.                   *)
(***************************************************************************)
onReceive ==
  \/ /\ \E out \in Outcome \ {"threw"} : startService("OnBoot", out)
     /\ elsewhere' = TRUE
     /\ Elsewhere
  \/ ProcessGone

-----------------------------------------------------------------------------
(* The service, the watchdog, the executor.                                *)

(* Mutant of HandleRequest: the mode is cleared when the service ends. *)
HandleRequest_Clears ==
  /\ requests # <<>>
  /\ screen \notin {"launched", "relaunched", "created"}
  /\ requests' = Tail(requests)
  /\ \/ Head(requests) = "start" /\ running' \in BOOLEAN /\ UNCHANGED startMode
     \/ Head(requests) = "stop" /\ running' = FALSE /\ startMode' = "none"
  /\ watchdogBusy' = FALSE
  /\ UNCHANGED <<prefs, uiVars, pollVars, histVars, elsewhere, strayed>>

(* The looper calls the service, not in the middle of a launch. *)
HandleRequest ==
  /\ requests # <<>>
  /\ screen \notin {"launched", "relaunched", "created"}
  /\ requests' = Tail(requests)
  /\ \/ Head(requests) = "start" /\ running' \in BOOLEAN
     \/ Head(requests) = "stop" /\ running' = FALSE
  /\ watchdogBusy' = FALSE
  /\ UNCHANGED <<prefs, startMode, uiVars, pollVars, histVars, elsewhere, strayed>>

(* dropbear ends by itself; the watchdog clears sshdPid ... *)
SshdDies ==
  /\ running
  /\ running' = FALSE
  /\ watchdogBusy' = TRUE
  /\ NoRequest
  /\ UNCHANGED <<prefs, uiVars, pollVars, elsewhere, strayed>>

(* ... and starts another, or gives up. *)
WatchdogActs ==
  /\ watchdogBusy
  /\ watchdogBusy' = FALSE
  /\ running' \in BOOLEAN
  /\ NoRequest
  /\ UNCHANGED <<prefs, uiVars, pollVars, elsewhere, strayed>>

(* Mutant of PollerEnds: one flag for all view models. *)
PollerEnds_Shared ==
  /\ tasks # <<>>
  /\ vm # NoVM /\ cancelRequested[vm]
  /\ tasks' = Tail(tasks)
  /\ NoRequest
  /\ UNCHANGED <<prefs, svcVars, uiVars, cancelRequested, elsewhere, strayed>>

(* The loop of the task at the head of the executor ends. *)
PollerEnds ==
  /\ tasks # <<>>
  /\ cancelRequested[Head(tasks)]
  /\ tasks' = Tail(tasks)
  /\ NoRequest
  /\ UNCHANGED <<prefs, svcVars, uiVars, cancelRequested, elsewhere, strayed>>

(* Android kills the process. *)
Kill == running /\ ProcessGone

Next ==
  \/ \E i \in {"MAIN", "START", "STOP"} : Launch(i) \/ onNewIntent(i)
  \/ onCreate
  \/ onResume
  \/ onPause
  \/ onDestroy
  \/ Rotate
  \/ onMenu
  \/ onClick
  \/ onReceive
  \/ HandleRequest
  \/ SshdDies
  \/ WatchdogActs
  \/ PollerEnds
  \/ Kill

Spec == Init /\ [][Next]_vars

(* The executor's thread goes on. *)
FairSpec == Spec /\ WF_vars(PollerEnds)

-----------------------------------------------------------------------------
(* Properties *)

(* While the main screen shows a running service its log is followed,      *)
(* whatever the view model cancelled and restarted before, unless the      *)
(* service was started without it: by the tile, on boot, by the watchdog   *)
(* or by Android.                                                          *)
LogFollowed ==
  screen = "resumed" /\ running /\ requests = <<>> /\ ~elsewhere =>
    vm \in ToSet(tasks) /\ ~cancelRequested[vm]

(* The shared executor gets to the poller of the screen in front, however  *)
(* many cancelled ones are queued before it.                               *)
PollerRuns ==
  (screen = "resumed" /\ vm \in ToSet(tasks) /\ ~cancelRequested[vm] /\ strayed = {})
    ~> (\/ screen # "resumed" \/ cancelRequested[vm]
        \/ tasks # <<>> /\ Head(tasks) = vm)

(* "What is the current mode. Only valid when we're actually running": a   *)
(* running service has a mode, unless Android re-created it in a process   *)
(* that did not start it.                                                  *)
ModeKnown ==
  running /\ requests = <<>> /\ ~sticky => startMode # "none"

(* MainFragment.onDestroy(): "NEVER STOP the service if started ByIntent   *)
(* [or] OnBoot".  What the code keeps of it: closing or rotating the       *)
(* screen stops nothing another caller asked for, unless a start by the    *)
(* user came while isRunning() was still false.                            *)
DestroyKeepsOthers ==
  [][(onDestroy \/ Rotate) /\ requests' # requests =>
       ~others \/ overwritten]_vars
=============================================================================
