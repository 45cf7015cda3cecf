------------------------- MODULE ServiceControlProofs -------------------------
(* Theorems about ServiceControl, for any number of view models, requests *)
(* and pollers.                                                           *)
EXTENDS ServiceControl, TLAPS

-----------------------------------------------------------------------------
(* The inductive invariant, in parts. *)

(* The requests are starts and stops. *)
RequestsOK == requests \in Seq({"start", "stop"})

StopIsLast == requests # <<>> /\ requests[Len(requests)] = "stop"

Idle == requests = <<>> /\ ~running /\ ~watchdogBusy

(* No mode is known only before the first start, and after a stop for as   *)
(* long as no start has followed it.                                       *)
ModeOK == ~sticky => startMode # "none" \/ StopIsLast \/ Idle

(* A service the user is taken to have started is nobody else's, unless    *)
(* the user's start came on top of another.                                *)
OwnerOK == startMode = "ByUser" => ~others \/ overwritten

IndInv == RequestsOK /\ ModeOK /\ OwnerOK

-----------------------------------------------------------------------------
(* What a request does to the invariant. *)

(* Appending to the queue, and the last request of it. *)
LEMMA AppendRequest ==
  ASSUME NEW q \in Seq({"start", "stop"}), NEW x \in {"start", "stop"}
  PROVE  /\ Append(q, x) \in Seq({"start", "stop"})
         /\ Append(q, x) # <<>>
         /\ Append(q, x)[Len(Append(q, x))] = x
<1>1. /\ Append(q, x) \in Seq({"start", "stop"})
      /\ Len(Append(q, x)) = Len(q) + 1
      /\ Len(q) \in Nat
      /\ Append(q, x)[Len(q) + 1] = x
  OBVIOUS
<1>2. Len(<<>>) = 0
  OBVIOUS
<1>3. Len(Append(q, x)) # 0
  BY <1>1
<1>. QED
  BY <1>1, <1>2, <1>3

(* Delivering a request leaves the last one where it is, if there is       *)
(* another.                                                                *)
LEMMA TailRequest ==
  ASSUME NEW q \in Seq({"start", "stop"}), q # <<>>
  PROVE  /\ Tail(q) \in Seq({"start", "stop"})
         /\ Tail(q) # <<>> => Tail(q)[Len(Tail(q))] = q[Len(q)]
         /\ Tail(q) = <<>> => Head(q) = q[Len(q)]
<1>1. Len(q) \in Nat /\ Len(q) # 0
  OBVIOUS
<1>2. Tail(q) \in Seq({"start", "stop"}) /\ Len(Tail(q)) = Len(q) - 1
  BY <1>1
<1>3. ASSUME Tail(q) # <<>> PROVE Tail(q)[Len(Tail(q))] = q[Len(q)]
  <2>1. Len(Tail(q)) # 0
    BY <1>2, <1>3
  <2>2. Len(q) - 1 \in 1 .. Len(q) - 1
    BY <1>1, <1>2, <2>1
  <2>3. Tail(q)[Len(q) - 1] = q[Len(q) - 1 + 1]
    BY <1>1, <2>2
  <2>4. Len(q) - 1 + 1 = Len(q) /\ Len(Tail(q)) = Len(q) - 1
    BY <1>1, <1>2
  <2>5. Tail(q)[Len(Tail(q))] = Tail(q)[Len(q) - 1] /\ q[Len(q) - 1 + 1] = q[Len(q)]
    BY <2>4, Zenon
  <2>. QED
    BY <2>3, <2>5, Zenon
<1>4. ASSUME Tail(q) = <<>> PROVE Head(q) = q[Len(q)]
  <2>1. Len(q) = 1
    BY <1>1, <1>2, <1>4
  <2>. QED
    BY <2>1
<1>. QED
  BY <1>2, <1>3, <1>4

(* A start notes its mode before it asks for the service. *)
LEMMA StartKeeps ==
  ASSUME IndInv, NEW mode \in {"ByUser", "ByIntent", "OnBoot"}, NEW out,
         startService(mode, out)
  PROVE  IndInv'
<1>1. Append(requests, "start") \in Seq({"start", "stop"})
  BY AppendRequest DEF IndInv, RequestsOK
<1>2. RequestsOK'
  BY <1>1 DEF IndInv, RequestsOK, startService
<1>3. ModeOK'
  BY DEF ModeOK, startService
<1>4. OwnerOK'
  BY DEF OwnerOK, startService
<1>. QED
  BY <1>2, <1>3, <1>4 DEF IndInv

(* A stop forgets the mode and is the last request from then on. *)
LEMMA StopKeeps ==
  ASSUME IndInv, stopService
  PROVE  IndInv'
<1>1. /\ requests' = Append(requests, "stop")
      /\ requests' \in Seq({"start", "stop"})
      /\ requests' # <<>>
      /\ requests'[Len(requests')] = "stop"
  BY AppendRequest DEF IndInv, RequestsOK, stopService
<1>2. ModeOK'
  BY <1>1 DEF ModeOK, StopIsLast
<1>3. OwnerOK'
  BY DEF OwnerOK, stopService
<1>. QED
  BY <1>1, <1>2, <1>3 DEF IndInv, RequestsOK

(* Without a request, and without a service that comes up from nothing. *)
LEMMA NoRequestKeeps ==
  ASSUME IndInv, NoRequest, ~running /\ ~watchdogBusy => ~running' /\ ~watchdogBusy'
  PROVE  IndInv'
<1>1. UNCHANGED <<startMode, requests, others, overwritten, sticky>>
  BY DEF NoRequest, histVars
<1>2. ModeOK'
  BY <1>1 DEF IndInv, ModeOK, StopIsLast, Idle
<1>. QED
  BY <1>1, <1>2 DEF IndInv, RequestsOK, OwnerOK

-----------------------------------------------------------------------------
(* The steps. *)

LEMMA InitInv == Init => IndInv
BY DEF Init, IndInv, RequestsOK, ModeOK, OwnerOK, Idle

(* Intents start ByIntent, stop, or do neither. *)
LEMMA IntentKeeps ==
  ASSUME IndInv, NEW i, NEW next, handeIntentAction(i, next), UNCHANGED svcVars
  PROVE  IndInv'
<1>1. CASE NoRequest
  BY <1>1, NoRequestKeeps DEF svcVars
<1>2. CASE \E out \in Outcome : startService("ByIntent", out)
  BY <1>2, StartKeeps
<1>3. CASE stopService
  BY <1>3, StopKeeps
<1>. QED
  BY <1>1, <1>2, <1>3 DEF handeIntentAction, vmStartService, vmStopService

(* The looper delivers a request. *)
LEMMA HandleKeeps ==
  ASSUME IndInv, HandleRequest
  PROVE  IndInv'
<1>1. requests \in Seq({"start", "stop"}) /\ requests # <<>>
  BY DEF IndInv, RequestsOK, HandleRequest
<1>2. /\ requests' = Tail(requests)
      /\ UNCHANGED <<startMode, others, overwritten, sticky>>
      /\ watchdogBusy' = FALSE
      /\ Head(requests) = "stop" => running' = FALSE
  BY DEF HandleRequest, histVars
<1>3. /\ requests' \in Seq({"start", "stop"})
      /\ requests' # <<>> => requests'[Len(requests')] = requests[Len(requests)]
      /\ requests' = <<>> => Head(requests) = requests[Len(requests)]
  BY <1>1, <1>2, TailRequest
<1>4. ModeOK'
  <2>. SUFFICES ASSUME ~sticky, startMode = "none"
                PROVE  StopIsLast' \/ Idle'
    BY <1>2 DEF ModeOK
  <2>1. requests[Len(requests)] = "stop"
    BY <1>1 DEF IndInv, ModeOK, StopIsLast, Idle
  <2>2. CASE requests' = <<>>
    BY <1>2, <1>3, <2>1, <2>2 DEF Idle
  <2>3. CASE requests' # <<>>
    BY <1>3, <2>1, <2>3 DEF StopIsLast
  <2>. QED
    BY <2>2, <2>3
<1>5. OwnerOK'
  BY <1>2 DEF IndInv, OwnerOK
<1>. QED
  BY <1>3, <1>4, <1>5 DEF IndInv, RequestsOK

(* The end of the process forgets the mode, and says so in sticky. *)
LEMMA GoneKeeps ==
  ASSUME IndInv, ProcessGone
  PROVE  IndInv'
<1>1. requests' = <<>> \/ requests' = <<"start">>
  BY DEF ProcessGone
<1>2. <<>> \in Seq({"start", "stop"}) /\ <<"start">> \in Seq({"start", "stop"})
  OBVIOUS
<1>3. RequestsOK'
  BY <1>1, <1>2, Zenon DEF RequestsOK
<1>. QED
  BY <1>3 DEF IndInv, ModeOK, OwnerOK, ProcessGone

LEMMA NextInv == IndInv /\ [Next]_vars => IndInv'
<1>. SUFFICES ASSUME IndInv, [Next]_vars PROVE IndInv'
  OBVIOUS
<1>1. ASSUME NEW i \in {"MAIN", "START", "STOP"}, Launch(i) PROVE IndInv'
  BY <1>1, NoRequestKeeps DEF Launch, NoRequest, svcVars
<1>2. ASSUME NEW i \in {"MAIN", "START", "STOP"}, onNewIntent(i) PROVE IndInv'
  <2>1. UNCHANGED svcVars
    BY <1>2 DEF onNewIntent
  <2>2. handeIntentAction(i, "created") \/ handeIntentAction(i, "settings")
    BY <1>2 DEF onNewIntent
  <2>. QED
    BY <2>1, <2>2, IntentKeeps
<1>3. CASE onCreate
  <2>1. UNCHANGED svcVars
    BY <1>3 DEF onCreate
  <2>2. handeIntentAction(intent, "created") \/ handeIntentAction(intent, "settings")
    BY <1>3 DEF onCreate
  <2>. QED
    BY <2>1, <2>2, IntentKeeps
<1>4. CASE onResume
  <2>1. CASE NoRequest
    BY <1>4, <2>1, NoRequestKeeps DEF onResume, svcVars
  <2>2. CASE \E out \in Outcome : startService("ByUser", out)
    BY <2>2, StartKeeps
  <2>. QED
    BY <1>4, <2>1, <2>2 DEF onResume, vmStartService
<1>5. CASE onPause
  BY <1>5, NoRequestKeeps DEF onPause, svcVars
<1>6. CASE onDestroy
  <2>1. CASE NoRequest
    BY <1>6, <2>1, NoRequestKeeps DEF onDestroy, svcVars
  <2>2. CASE stopService
    BY <2>2, StopKeeps
  <2>. QED
    BY <1>6, <2>1, <2>2 DEF onDestroy, vmStopService
<1>7. CASE Rotate
  <2>1. CASE NoRequest
    BY <1>7, <2>1, NoRequestKeeps DEF Rotate, svcVars
  <2>2. CASE stopService
    BY <2>2, StopKeeps
  <2>. QED
    BY <1>7, <2>1, <2>2 DEF Rotate, vmStopService
<1>8. CASE onMenu
  <2>1. CASE stopService
    BY <2>1, StopKeeps
  <2>2. CASE \E out \in Outcome : startService("ByUser", out)
    BY <2>2, StartKeeps
  <2>. QED
    BY <1>8, <2>1, <2>2 DEF onMenu, vmStartService, vmStopService
<1>9. CASE onClick
  <2>1. CASE stopService
    BY <2>1, StopKeeps
  <2>2. CASE \E out \in Outcome : startService("ByUser", out)
    BY <2>2, StartKeeps
  <2>. QED
    BY <1>9, <2>1, <2>2 DEF onClick
<1>10. CASE onReceive
  <2>1. CASE \E out \in Outcome : startService("OnBoot", out)
    BY <2>1, StartKeeps
  <2>2. CASE ProcessGone
    BY <2>2, GoneKeeps
  <2>. QED
    BY <1>10, <2>1, <2>2 DEF onReceive
<1>11. CASE HandleRequest
  BY <1>11, HandleKeeps
<1>12. CASE SshdDies
  BY <1>12, NoRequestKeeps DEF SshdDies
<1>13. CASE WatchdogActs
  BY <1>13, NoRequestKeeps DEF WatchdogActs
<1>14. CASE PollerEnds
  BY <1>14, NoRequestKeeps DEF PollerEnds, svcVars
<1>15. CASE Kill
  BY <1>15, GoneKeeps DEF Kill
<1>16. CASE UNCHANGED vars
  BY <1>16, NoRequestKeeps DEF vars, NoRequest, svcVars
<1>. QED
  BY <1>1, <1>2, <1>3, <1>4, <1>5, <1>6, <1>7, <1>8, <1>9, <1>10, <1>11, <1>12,
     <1>13, <1>14, <1>15, <1>16 DEF Next

-----------------------------------------------------------------------------
(* Theorems. *)

(* A running service whose requests are all delivered has a start mode,    *)
(* unless Android re-created it: stopService() clears the static field     *)
(* only together with a stop that ends the service, however many starts    *)
(* and stops of the screen, the tile and the intents are queued around it. *)
THEOREM ModeIsKnown == Spec => []ModeKnown
<1>1. IndInv => ModeKnown
  BY DEF IndInv, ModeOK, StopIsLast, Idle, ModeKnown
<1>. QED
  BY InitInv, NextInv, <1>1, PTL DEF Spec

(* MainFragment.onDestroy(), also of a rotation, never stops a service     *)
(* that an intent or the boot receiver asked for, unless a start by the    *)
(* user came on top.                                                       *)
THEOREM DestroyKeeps == Spec => DestroyKeepsOthers
<1>1. IndInv /\ [Next]_vars
      => [(onDestroy \/ Rotate) /\ requests' # requests => ~others \/ overwritten]_vars
  <2>. SUFFICES ASSUME IndInv, onDestroy \/ Rotate, requests' # requests
                PROVE  ~others \/ overwritten
    BY DEF vars
  <2>1. StopsOnDestroy
    BY DEF onDestroy, Rotate, NoRequest
  <2>. QED
    BY <2>1 DEF StopsOnDestroy, IndInv, OwnerOK
<1>. QED
  BY InitInv, NextInv, <1>1, PTL DEF Spec, DestroyKeepsOthers
-----------------------------------------------------------------------------
(* The log of the screen in front. *)

PollTypes ==
  /\ tasks \in Seq(VM)
  /\ cancelRequested \in [VM -> BOOLEAN]
  /\ screen # "none" => vm \in VM

(* The view model has a poller in the executor, and has not cancelled it. *)
Followed ==
  /\ \E i \in 1 .. Len(tasks) : tasks[i] = vm
  /\ ~cancelRequested[vm]

(* A screen in front whose view model started the service follows its log, *)
(* or the user stopped it there and nothing has started since: a stop      *)
(* cancels the poller long before the service ends.                        *)
FollowOK == screen = "resumed" /\ ~elsewhere => Followed \/ StopIsLast \/ Idle

PollInv == PollTypes /\ FollowOK

(* A poller that ends is a cancelled one, so a followed view model keeps   *)
(* its own.                                                                *)
LEMMA PollerKeeps ==
  ASSUME PollTypes, PollerEnds
  PROVE  PollTypes' /\ (Followed => Followed')
<1>1. /\ tasks \in Seq(VM) /\ tasks # <<>> /\ tasks' = Tail(tasks)
      /\ UNCHANGED <<screen, vm, cancelRequested>>
      /\ cancelRequested[Head(tasks)]
  BY DEF PollTypes, PollerEnds, uiVars
<1>2. PollTypes'
  BY <1>1 DEF PollTypes
<1>3. ASSUME Followed PROVE Followed'
  <2>1. PICK i \in 1 .. Len(tasks) : tasks[i] = vm
    BY <1>3 DEF Followed
  <2>2. Len(tasks) \in Nat /\ Head(tasks) = tasks[1]
    BY <1>1
  <2>3. i # 1
    BY <1>1, <1>3, <2>1, <2>2 DEF Followed
  <2>4. i - 1 \in 1 .. Len(tasks) - 1 /\ (i - 1) + 1 = i
    BY <2>1, <2>2, <2>3
  <2>5. Len(tasks') = Len(tasks) - 1 /\ tasks'[i - 1] = tasks[(i - 1) + 1]
    BY <1>1, <2>2, <2>4
  <2>6. i - 1 \in 1 .. Len(tasks') /\ tasks'[i - 1] = vm
    BY <2>1, <2>4, <2>5
  <2>. QED
    BY <1>1, <1>3, <2>6 DEF Followed
<1>. QED
  BY <1>2, <1>3

(* startUpdateThread() leaves its view model followed, whatever was        *)
(* cancelled and dropped from the executor before it.                      *)
LEMMA PollerStarts ==
  ASSUME PollTypes, vm \in VM, UNCHANGED vm, NEW queue \in Seq(VM),
         startUpdateThread(queue)
  PROVE  PollTypes' /\ Followed'
<1>1. /\ tasks' = Append(queue, vm)
      /\ cancelRequested' = [cancelRequested EXCEPT ![vm] = FALSE]
  BY DEF startUpdateThread
<1>2. /\ tasks' \in Seq(VM)
      /\ Len(tasks') = Len(queue) + 1 /\ Len(queue) \in Nat
      /\ tasks'[Len(queue) + 1] = vm
  BY <1>1
<1>3. cancelRequested' \in [VM -> BOOLEAN] /\ ~cancelRequested'[vm]
  BY <1>1 DEF PollTypes
<1>4. Len(queue) + 1 \in 1 .. Len(tasks')
  BY <1>2
<1>. QED
  BY <1>2, <1>3, <1>4 DEF PollTypes, Followed

(* A start by the view model follows the log, or is told not to by the     *)
(* exception.                                                              *)
LEMMA ViewModelStarts ==
  ASSUME PollTypes, vm \in VM, UNCHANGED vm, NEW mode, NEW out,
         vmStartService(mode, out)
  PROVE  PollTypes' /\ (Followed' \/ elsewhere')
<1>1. CASE cancelUpdateThread /\ elsewhere' = TRUE /\ UNCHANGED tasks
  BY <1>1 DEF PollTypes, cancelUpdateThread
<1>2. CASE \E k \in 0 .. Len(tasks) :
             startUpdateThread(SubSeq(tasks, k + 1, Len(tasks)))
  <2>1. PICK k \in 0 .. Len(tasks) :
             startUpdateThread(SubSeq(tasks, k + 1, Len(tasks)))
    BY <1>2
  <2>2. tasks \in Seq(VM) /\ Len(tasks) \in Nat
    BY DEF PollTypes
  <2>3. SubSeq(tasks, k + 1, Len(tasks)) \in Seq(VM)
    BY <2>1, <2>2
  <2>. QED
    BY <2>1, <2>3, PollerStarts
<1>. QED
  BY <1>1, <1>2 DEF vmStartService

(* cancelUpdateThread() keeps the types. *)
LEMMA CancelKeeps ==
  ASSUME PollTypes, vm \in VM, cancelUpdateThread, UNCHANGED tasks,
         screen' # "none" => vm' \in VM
  PROVE  PollTypes'
BY DEF PollTypes, cancelUpdateThread

(* A stop of the service is the last request. *)
LEMMA StopLast ==
  ASSUME RequestsOK, stopService
  PROVE  StopIsLast'
BY AppendRequest DEF RequestsOK, stopService, StopIsLast

(* An intent is handled while the screen is not in front, and leaves it    *)
(* there.                                                                  *)
LEMMA IntentPolls ==
  ASSUME PollTypes, vm \in VM, UNCHANGED vm, NEW i,
         NEW next \in {"created", "settings"}, handeIntentAction(i, next)
  PROVE  PollTypes' /\ screen' # "resumed"
<1>1. screen' # "resumed"
  BY DEF handeIntentAction
<1>2. CASE UNCHANGED <<cancelRequested, tasks>>
  BY <1>1, <1>2 DEF PollTypes
<1>3. CASE \E out \in Outcome : vmStartService("ByIntent", out)
  BY <1>1, <1>3, ViewModelStarts
<1>4. CASE cancelUpdateThread /\ UNCHANGED tasks
  BY <1>1, <1>4, CancelKeeps
<1>. QED
  BY <1>1, <1>2, <1>3, <1>4 DEF handeIntentAction, pollVars, vmStopService

(* A step that leaves the screen and the pollers alone, and brings no      *)
(* stopped service up.                                                     *)
LEMMA QuietStep ==
  ASSUME PollInv, UNCHANGED <<screen, vm, cancelRequested, tasks, elsewhere>>,
         StopIsLast \/ Idle => StopIsLast' \/ Idle'
  PROVE  PollInv'
<1>1. PollTypes'
  BY DEF PollInv, PollTypes
<1>2. Followed => Followed'
  BY DEF Followed
<1>. QED
  BY <1>1, <1>2 DEF PollInv, FollowOK

(* Delivering a request keeps a stop the last one, or leaves the service   *)
(* down.                                                                   *)
LEMMA HandlePolls ==
  ASSUME RequestsOK, PollInv, HandleRequest
  PROVE  PollInv'
<1>1. requests \in Seq({"start", "stop"}) /\ requests # <<>>
  BY DEF RequestsOK, HandleRequest
<1>2. /\ requests' = Tail(requests)
      /\ UNCHANGED <<screen, vm, cancelRequested, tasks, elsewhere>>
      /\ watchdogBusy' = FALSE
      /\ Head(requests) = "stop" => running' = FALSE
  BY DEF HandleRequest, uiVars, pollVars
<1>3. /\ requests' # <<>> => requests'[Len(requests')] = requests[Len(requests)]
      /\ requests' = <<>> => Head(requests) = requests[Len(requests)]
  BY <1>1, <1>2, TailRequest
<1>4. ASSUME StopIsLast PROVE StopIsLast' \/ Idle'
  BY <1>2, <1>3, <1>4 DEF StopIsLast, Idle
<1>5. ~Idle
  BY <1>1 DEF Idle
<1>. QED
  BY <1>2, <1>4, <1>5, QuietStep

(* With the process all pollers are gone, and so is the screen. *)
LEMMA GonePolls ==
  ASSUME ProcessGone
  PROVE  PollInv'
<1>1. PollTypes'
  BY DEF ProcessGone, Gone, PollTypes
<1>. QED
  BY <1>1 DEF ProcessGone, Gone, PollInv, FollowOK

LEMMA PollNext == IndInv /\ PollInv /\ [Next]_vars => PollInv'
<1>. SUFFICES ASSUME IndInv, PollInv, [Next]_vars PROVE PollInv'
  OBVIOUS
<1>. USE DEF PollInv
<1>1. ASSUME NEW i \in {"MAIN", "START", "STOP"}, Launch(i) PROVE PollInv'
  <2>1. PollTypes'
    BY <1>1 DEF Launch, PollTypes
  <2>. QED
    BY <1>1, <2>1 DEF Launch, FollowOK
<1>2. ASSUME NEW i \in {"MAIN", "START", "STOP"}, onNewIntent(i) PROVE PollInv'
  <2>1. vm \in VM /\ UNCHANGED vm
    BY <1>2 DEF onNewIntent, PollTypes
  <2>2. handeIntentAction(i, "created") \/ handeIntentAction(i, "settings")
    BY <1>2 DEF onNewIntent
  <2>3. PollTypes' /\ screen' # "resumed"
    BY <2>1, <2>2, IntentPolls
  <2>. QED
    BY <2>3 DEF FollowOK
<1>3. CASE onCreate
  <2>1. vm \in VM /\ UNCHANGED vm
    BY <1>3 DEF onCreate, PollTypes
  <2>2. handeIntentAction(intent, "created") \/ handeIntentAction(intent, "settings")
    BY <1>3 DEF onCreate
  <2>3. PollTypes' /\ screen' # "resumed"
    BY <2>1, <2>2, IntentPolls
  <2>. QED
    BY <2>3 DEF FollowOK
<1>4. CASE onResume
  <2>1. vm \in VM /\ UNCHANGED vm /\ tasks \in Seq(VM)
    BY <1>4 DEF onResume, PollTypes
  <2>2. CASE startUpdateThread(tasks)
    BY <2>1, <2>2, PollerStarts DEF FollowOK
  <2>3. CASE \E out \in Outcome : vmStartService("ByUser", out)
    BY <2>1, <2>3, ViewModelStarts DEF FollowOK
  <2>4. CASE elsewhere' = TRUE /\ UNCHANGED pollVars
    BY <2>1, <2>4 DEF PollTypes, FollowOK, pollVars
  <2>. QED
    BY <1>4, <2>2, <2>3, <2>4 DEF onResume
<1>5. CASE onPause
  <2>1. PollTypes'
    BY <1>5, CancelKeeps DEF onPause, PollTypes
  <2>. QED
    BY <1>5, <2>1 DEF onPause, FollowOK
<1>6. CASE onDestroy
  <2>1. vm \in VM /\ screen' = "none" /\ UNCHANGED tasks
    BY <1>6 DEF onDestroy, Gone, PollTypes
  <2>2. cancelUpdateThread \/ UNCHANGED cancelRequested
    BY <1>6 DEF onDestroy, vmStopService
  <2>3. PollTypes'
    BY <2>1, <2>2, CancelKeeps DEF PollTypes
  <2>. QED
    BY <2>1, <2>3 DEF FollowOK
<1>7. CASE Rotate
  <2>1. vm \in VM /\ UNCHANGED <<vm, tasks>>
        /\ screen' \in {"launched", "relaunched"}
    BY <1>7 DEF Rotate, PollTypes
  <2>2. cancelUpdateThread \/ UNCHANGED cancelRequested
    BY <1>7 DEF Rotate, vmStopService
  <2>3. PollTypes'
    BY <2>1, <2>2, CancelKeeps DEF PollTypes
  <2>. QED
    BY <2>1, <2>3 DEF FollowOK
<1>8. CASE onMenu
  <2>1. vm \in VM /\ UNCHANGED <<vm, screen>>
    BY <1>8 DEF onMenu, PollTypes, uiVars
  <2>2. CASE vmStopService /\ UNCHANGED tasks
    <3>1. PollTypes'
      BY <2>1, <2>2, CancelKeeps DEF vmStopService
    <3>2. StopIsLast'
      BY <2>2, StopLast DEF vmStopService, IndInv
    <3>. QED
      BY <3>1, <3>2 DEF FollowOK
  <2>3. CASE \E out \in Outcome : vmStartService("ByUser", out)
    BY <2>1, <2>3, ViewModelStarts DEF FollowOK
  <2>. QED
    BY <1>8, <2>2, <2>3 DEF onMenu
<1>9. CASE onClick
  <2>1. UNCHANGED <<screen, vm, cancelRequested, tasks>>
    BY <1>9 DEF onClick, Elsewhere, uiVars, pollVars
  <2>2. CASE stopService /\ UNCHANGED elsewhere
    <3>1. StopIsLast'
      BY <2>2, StopLast DEF IndInv
    <3>. QED
      BY <2>1, <2>2, <3>1, QuietStep
  <2>3. CASE elsewhere' = TRUE
    BY <2>1, <2>3 DEF FollowOK, PollTypes
  <2>. QED
    BY <1>9, <2>2, <2>3 DEF onClick
<1>10. CASE onReceive
  <2>1. CASE elsewhere' = TRUE /\ Elsewhere
    BY <2>1 DEF Elsewhere, uiVars, pollVars, FollowOK, PollTypes
  <2>2. CASE ProcessGone
    BY <2>2, GonePolls
  <2>. QED
    BY <1>10, <2>1, <2>2 DEF onReceive
<1>11. CASE HandleRequest
  BY <1>11, HandlePolls DEF IndInv
<1>12. CASE SshdDies
  <2>1. StopIsLast \/ Idle => StopIsLast' \/ Idle'
    BY <1>12 DEF SshdDies, NoRequest, StopIsLast, Idle
  <2>. QED
    BY <1>12, <2>1, QuietStep DEF SshdDies, uiVars, pollVars
<1>13. CASE WatchdogActs
  <2>1. StopIsLast \/ Idle => StopIsLast' \/ Idle'
    BY <1>13 DEF WatchdogActs, NoRequest, StopIsLast, Idle
  <2>. QED
    BY <1>13, <2>1, QuietStep DEF WatchdogActs, uiVars, pollVars
<1>14. CASE PollerEnds
  <2>1. PollTypes' /\ (Followed => Followed')
    BY <1>14, PollerKeeps
  <2>2. StopIsLast \/ Idle => StopIsLast' \/ Idle'
    BY <1>14 DEF PollerEnds, NoRequest, svcVars, StopIsLast, Idle
  <2>. QED
    BY <1>14, <2>1, <2>2 DEF PollerEnds, FollowOK, uiVars
<1>15. CASE Kill
  BY <1>15, GonePolls DEF Kill
<1>16. CASE UNCHANGED vars
  <2>1. StopIsLast \/ Idle => StopIsLast' \/ Idle'
    BY <1>16 DEF vars, svcVars, StopIsLast, Idle
  <2>. QED
    BY <1>16, <2>1, QuietStep DEF vars, uiVars, pollVars
<1>. QED
  BY <1>1, <1>2, <1>3, <1>4, <1>5, <1>6, <1>7, <1>8, <1>9, <1>10, <1>11, <1>12,
     <1>13, <1>14, <1>15, <1>16 DEF Next

(* While the main screen shows a running service that its view model       *)
(* started, startUpdateThread()'s poller is in the shared executor and is  *)
(* not cancelled, however the cancel flag was set and cleared before and   *)
(* whatever the executor dropped in between.                               *)
THEOREM ScreenFollowsLog == Spec => []LogFollowed
<1>1. Init => PollInv
  BY DEF Init, PollInv, PollTypes, FollowOK
<1>2. PollInv => LogFollowed
  <2>. SUFFICES ASSUME PollInv, screen = "resumed", running, requests = <<>>,
                       ~elsewhere
                PROVE  vm \in ToSet(tasks) /\ ~cancelRequested[vm]
    BY DEF LogFollowed
  <2>1. Followed
    BY DEF PollInv, FollowOK, StopIsLast, Idle
  <2>2. DOMAIN tasks = 1 .. Len(tasks)
    BY DEF PollInv, PollTypes
  <2>. QED
    BY <2>1, <2>2 DEF Followed, ToSet
<1>. QED
  BY InitInv, NextInv, PollNext, <1>1, <1>2, PTL DEF Spec
=============================================================================
