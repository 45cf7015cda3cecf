-------------------------- MODULE SshdServiceProofs --------------------------
(* Theorems about SshdService, for any number of processes and objects. *)
EXTENDS SshdService, TLAPS

-----------------------------------------------------------------------------
(* The inductive invariant, in parts. *)

(* Callbacks alternate: create, any starts, destroy. *)
LooperOK ==
  /\ \A k \in 1..Len(looper) :
       looper[k] = "create" <=> IF k = 1 THEN sInstance = NoInst
                                         ELSE looper[k-1] = "destroy"
  /\ looper # <<>> => (amStarted <=> looper[Len(looper)] # "destroy")
  /\ looper = <<>> /\ sInstance # NoInst => amStarted

(* A thread inside startSshd() or a watchdog task knows its object, and    *)
(* its process once there is one.                                          *)
ThreadOK ==
  \A t \in Thread :
    /\ pc[t] = "idle" => tinst[t] = NoInst
    /\ pc[t] # "idle" => tinst[t] \in Inst
    /\ pc[t] \in {"enqueue", "waiting", "woken"} => tpid[t] \in Pid

(* Signals and orphans are about live processes, one process holds the     *)
(* port, and the watchdog's process is gone when waitpid() has returned.   *)
ProcOK ==
  /\ \A p \in sigkill \cup orphan : Live(p)
  /\ \A p, q \in Pid : proc[p] \in PortState /\ proc[q] \in PortState => p = q
  /\ pc["watchdog"] = "woken" => proc[tpid["watchdog"]] = "free"

(* Without an overlap, at most one thread is between its stopSshd() and    *)
(* the store of the new pid, and only the current object is in use.        *)
NoOverlapOK ==
  ~raced =>
    /\ \A t \in Thread : pc[t] \in {"stop", "fork", "publish"} => tinst[t] = sInstance
    /\ ~(MidStart("main") /\ MidStart("watchdog"))
    /\ \A i \in Inst : sshdPid[i] # NoPid => i = sInstance /\ \A t \in Thread : ~MidStart(t)

IndInv ==
  /\ TypeOK
  /\ LooperOK
  /\ ThreadOK
  /\ ProcOK
  /\ NoOverlapOK
  /\ OwnedUnlessRaced
  /\ PidFileNamesServer
  /\ ChildIsWatched
  /\ RecordedIsWatched

-----------------------------------------------------------------------------
(* Sequences used as queues. *)

(* What SMT knows about the head and the tail of a sequence. *)
LEMMA HeadTail ==
  ASSUME NEW S, NEW s \in Seq(S), s # <<>>
  PROVE  /\ Head(s) = s[1] /\ Head(s) \in S
         /\ Tail(s) \in Seq(S)
         /\ Len(s) \in Nat \ {0} /\ Len(Tail(s)) = Len(s) - 1
         /\ \A k \in 1..Len(s) - 1 : Tail(s)[k] = s[k + 1]
OBVIOUS

(* Only the empty sequence has length 0. *)
LEMMA EmptyLen ==
  ASSUME NEW S, NEW s \in Seq(S)
  PROVE  s = <<>> <=> Len(s) = 0
OBVIOUS

(* Appending a task adds exactly that task to the queued ones. *)
LEMMA QueuedAppend ==
  ASSUME queue \in Seq(Task), NEW task \in Task, queue' = Append(queue, task)
  PROVE  /\ queue' \in Seq(Task)
         /\ QueuedTasks' = QueuedTasks \cup {task}
BY DEF QueuedTasks

(* Taking the head of the queue removes at most that task. *)
LEMMA QueuedTail ==
  ASSUME queue \in Seq(Task), queue # <<>>, queue' = Tail(queue)
  PROVE  /\ queue' \in Seq(Task)
         /\ Head(queue) \in Task
         /\ QueuedTasks \subseteq QueuedTasks' \cup {Head(queue)}
<1>1. /\ queue' \in Seq(Task) /\ Head(queue) \in Task /\ Head(queue) = queue[1]
      /\ Len(queue) \in Nat /\ Len(queue') = Len(queue) - 1
      /\ \A k \in 1..Len(queue) - 1 : queue'[k] = queue[k + 1]
  BY HeadTail
<1>2. ASSUME NEW k \in 1..Len(queue), k # 1
      PROVE  queue[k] \in QueuedTasks'
  <2>1. k - 1 \in 1..Len(queue') /\ queue'[k - 1] = queue[k]
    BY <1>1, <1>2
  <2> QED BY <2>1 DEF QueuedTasks
<1> QED BY <1>1, <1>2 DEF QueuedTasks

-----------------------------------------------------------------------------
(* When the app process goes away nothing it held in memory is left, so    *)
(* the invariant only has to be checked of the processes that survive.     *)
LEMMA GoneInv ==
  ASSUME IndInv,
         NEW survivors \in SUBSET {p \in Pid : Live(p)},
         ProcessGone(survivors)
  PROVE  IndInv'
<1>1. TypeOK'
  <2>1. JavaTypeOK' /\ ThreadTypeOK'
    BY DEF JavaTypeOK, ThreadTypeOK, ProcessGone, Thread, PC
  <2>2. AndroidTypeOK' /\ FlagTypeOK'
    <3>1. AndroidTypeOK'
      BY DEF AndroidTypeOK, ProcessGone
    <3>2. FlagTypeOK'
      BY DEF IndInv, TypeOK, FlagTypeOK, ProcessGone
    <3> QED BY <3>1, <3>2
  <2>3. ProcTypeOK'
    BY DEF IndInv, TypeOK, ProcTypeOK, ProcessGone, ProcState
  <2> QED BY <2>1, <2>2, <2>3 DEF TypeOK
<1>2. LooperOK'
  BY DEF IndInv, LooperOK, ProcessGone
<1>3. ThreadOK'
  BY DEF ThreadOK, ProcessGone, Thread
<1>4. ProcOK'
  <2>1. \A p \in survivors : proc'[p] = proc[p] /\ Live(p)'
    BY DEF ProcessGone, Live
  <2>2. \A p \in Pid : proc'[p] \in PortState => proc'[p] = proc[p]
    BY DEF ProcessGone, PortState
  <2> QED BY <2>1, <2>2, <1>1 DEF IndInv, ProcOK, ProcessGone, Thread
<1>5. NoOverlapOK' /\ RecordedIsWatched'
  BY DEF NoOverlapOK, RecordedIsWatched, ProcessGone, MidStart, Thread
<1>6. OwnedUnlessRaced'
  BY DEF OwnedUnlessRaced, OurLive, Live, LiveState, ProcessGone
<1>7. PidFileNamesServer'
  BY DEF IndInv, PidFileNamesServer, ProcessGone
<1>8. ChildIsWatched'
  BY DEF ChildIsWatched, ProcessGone
<1> QED BY <1>1, <1>2, <1>3, <1>4, <1>5, <1>6, <1>7, <1>8 DEF IndInv

(* The invariant holds before anything has been started. *)
LEMMA InitInv == Init => IndInv
<1> SUFFICES ASSUME Init PROVE IndInv
  OBVIOUS
<1>1. TypeOK
  <2>1. JavaTypeOK /\ ThreadTypeOK
    BY DEF Init, JavaTypeOK, ThreadTypeOK, Thread, PC
  <2>2. AndroidTypeOK /\ ProcTypeOK
    BY DEF Init, AndroidTypeOK, ProcTypeOK, ProcState
  <2>3. FlagTypeOK
    BY DEF Init, FlagTypeOK
  <2> QED BY <2>1, <2>2, <2>3 DEF TypeOK
<1>2. LooperOK /\ ThreadOK
  BY DEF Init, LooperOK, ThreadOK, Thread
<1>3. ProcOK /\ OwnedUnlessRaced /\ PidFileNamesServer /\ ChildIsWatched
  BY DEF Init, ProcOK, OwnedUnlessRaced, PidFileNamesServer, ChildIsWatched,
         OurLive, Live, LiveState, PortState, Thread
<1>4. NoOverlapOK /\ RecordedIsWatched
  BY DEF Init, NoOverlapOK, RecordedIsWatched, MidStart, Thread
<1> QED BY <1>1, <1>2, <1>3, <1>4 DEF IndInv

-----------------------------------------------------------------------------
(* Requests change only what is queued on the looper. *)

(* Requests queue callbacks in the order create, destroy, create. *)
LEMMA RequestLooper ==
  ASSUME IndInv, startService \/ stopService \/ StickyRecreate
  PROVE  AndroidTypeOK' /\ FlagTypeOK' /\ LooperOK'
<1> USE DEF IndInv, TypeOK
<1>0. UNCHANGED <<javaVars, queue, ui, raced>>
  BY DEF startService, stopService, StickyRecreate
<1> DEFINE Alternates(s) ==
      \A k \in 1..Len(s) : s[k] = "create" <=> IF k = 1 THEN sInstance = NoInst
                                                       ELSE s[k-1] = "destroy"
<1>1. CASE startService /\ BroughtUp
  <2>1. looper' = looper \o <<"start">> /\ amStarted' = TRUE /\ amStarted
    BY <1>1 DEF startService, BroughtUp
  <2>2. /\ looper' \in Seq(Callback) /\ Len(looper') = Len(looper) + 1 /\ Len(looper) \in Nat
        /\ (\A k \in 1..Len(looper) : looper'[k] = looper[k])
        /\ looper'[Len(looper')] = "start"
    BY <2>1 DEF AndroidTypeOK, Callback
  <2>3. Alternates(looper')
    BY <1>1, <2>1, <2>2 DEF AndroidTypeOK, LooperOK, BroughtUp
  <2>4. FlagTypeOK'
    BY <2>1, <1>0 DEF FlagTypeOK
  <2> QED BY <1>0, <2>1, <2>2, <2>3, <2>4 DEF AndroidTypeOK, LooperOK, javaVars
<1>2. CASE startService /\ ~BroughtUp
  <2>1. looper' = looper \o <<"create", "start">> /\ amStarted' = TRUE
    BY <1>2 DEF startService
  <2>2. /\ looper' \in Seq(Callback) /\ Len(looper') = Len(looper) + 2 /\ Len(looper) \in Nat
        /\ (\A k \in 1..Len(looper) : looper'[k] = looper[k])
        /\ looper'[Len(looper) + 1] = "create" /\ looper'[Len(looper')] = "start"
    BY <2>1 DEF AndroidTypeOK, Callback
  <2>3. IF looper = <<>> THEN sInstance = NoInst ELSE looper[Len(looper)] = "destroy"
    BY <1>2 DEF LooperOK, BroughtUp
  <2>4. looper = <<>> <=> Len(looper) = 0
    BY DEF AndroidTypeOK
  <2>5. Alternates(looper')
    BY <2>2, <2>3, <2>4 DEF LooperOK
  <2>6. FlagTypeOK'
    BY <2>1, <1>0 DEF FlagTypeOK
  <2> QED BY <1>0, <2>1, <2>2, <2>5, <2>6 DEF AndroidTypeOK, LooperOK, javaVars
<1>3. CASE stopService /\ BroughtUp
  <2>1. looper' = looper \o <<"destroy">> /\ amStarted' = FALSE /\ amStarted
    BY <1>3 DEF stopService, BroughtUp
  <2>2. /\ looper' \in Seq(Callback) /\ Len(looper') = Len(looper) + 1 /\ Len(looper) \in Nat
        /\ (\A k \in 1..Len(looper) : looper'[k] = looper[k])
        /\ looper'[Len(looper')] = "destroy"
    BY <2>1 DEF AndroidTypeOK, Callback
  <2>3. Alternates(looper')
    BY <1>3, <2>1, <2>2 DEF AndroidTypeOK, LooperOK, BroughtUp
  <2>4. FlagTypeOK'
    BY <2>1, <1>0 DEF FlagTypeOK
  <2> QED BY <1>0, <2>1, <2>2, <2>3, <2>4 DEF AndroidTypeOK, LooperOK, javaVars
<1>4. CASE stopService /\ ~BroughtUp
  <2>1. looper = <<>> /\ looper' = <<>> \o <<>> /\ amStarted' = FALSE /\ sInstance = NoInst
    BY <1>4 DEF stopService, BroughtUp
  <2>2. looper' = <<>>
    BY <2>1
  <2>3. FlagTypeOK'
    BY <2>1, <1>0 DEF FlagTypeOK
  <2> QED BY <1>0, <2>1, <2>2, <2>3 DEF AndroidTypeOK, LooperOK, javaVars
<1>5. CASE StickyRecreate
  <2>1. looper' = <<"create", "start">> /\ amStarted' = TRUE /\ sInstance = NoInst
    BY <1>5 DEF StickyRecreate, BroughtUp, FlagTypeOK
  <2>2. FlagTypeOK'
    BY <2>1, <1>0 DEF FlagTypeOK
  <2> QED BY <1>0, <2>1, <2>2 DEF AndroidTypeOK, LooperOK, javaVars, Callback
<1> QED BY <1>1, <1>2, <1>3, <1>4, <1>5

(* A step that leaves threads, objects, queue and processes alone.         *)
LEMMA UntouchedInv ==
  ASSUME IndInv, UNCHANGED <<javaVars, threadVars, queue, procVars, raced>>,
         AndroidTypeOK', FlagTypeOK', LooperOK'
  PROVE  IndInv'
<1> USE DEF IndInv, TypeOK, javaVars, threadVars, procVars
<1>1. TypeOK'
  BY DEF JavaTypeOK, ThreadTypeOK, ProcTypeOK
<1>2. ThreadOK' /\ ProcOK' /\ NoOverlapOK'
  BY DEF ThreadOK, ProcOK, NoOverlapOK, Live, MidStart
<1>3. OwnedUnlessRaced' /\ PidFileNamesServer'
  BY DEF OwnedUnlessRaced, OurLive, PidFileNamesServer, Live
<1>4. ChildIsWatched' /\ RecordedIsWatched'
  BY DEF ChildIsWatched, RecordedIsWatched, TaskFor, QueuedTasks
<1> QED BY <1>1, <1>2, <1>3, <1>4

(* Asking Android to start, stop or re-create the service preserves it. *)
LEMMA RequestInv ==
  ASSUME IndInv, startService \/ stopService \/ StickyRecreate
  PROVE  IndInv'
BY RequestLooper, UntouchedInv DEF startService, stopService, StickyRecreate

(* A refresh of the main screen preserves it. *)
LEMMA UIRequestInv ==
  ASSUME IndInv, ServiceUIRequest
  PROVE  IndInv'
<1>1. AndroidTypeOK'
  BY DEF IndInv, TypeOK, AndroidTypeOK, ServiceUIRequest, androidVars
<1>2. FlagTypeOK'
  BY DEF IndInv, TypeOK, FlagTypeOK, ServiceUIRequest, androidVars
<1>3. LooperOK'
  BY DEF IndInv, LooperOK, ServiceUIRequest, androidVars, javaVars
<1> QED BY <1>1, <1>2, <1>3, UntouchedInv DEF ServiceUIRequest

(* The death of the app process preserves it. *)
LEMMA AppKilledInv ==
  ASSUME IndInv, AppKilled
  PROVE  IndInv'
BY GoneInv DEF AppKilled

-----------------------------------------------------------------------------
(* Callbacks take the head of the looper; what is left still alternates,   *)
(* and "start" and "destroy" find an object.                               *)

(* A delivered callback finds a service object unless it is onCreate(). *)
LEMMA DeliverLooper ==
  ASSUME IndInv, NEW c \in Callback, Deliver(c), looper' = Tail(looper),
         UNCHANGED amStarted,
         IF c = "destroy" THEN sInstance' = NoInst ELSE sInstance' # NoInst
  PROVE  /\ looper' \in Seq(Callback)
         /\ LooperOK'
         /\ c # "create" <=> sInstance # NoInst
<1> USE DEF IndInv, TypeOK
<1>1. /\ looper' \in Seq(Callback) /\ looper[1] = c
      /\ Len(looper) \in Nat \ {0} /\ Len(looper') = Len(looper) - 1
      /\ \A k \in 1..Len(looper) - 1 : looper'[k] = looper[k + 1]
  BY HeadTail DEF Deliver, AndroidTypeOK
<1>2. c # "create" <=> sInstance # NoInst
  BY <1>1 DEF LooperOK
<1>3. \A k \in 1..Len(looper') :
        looper'[k] = "create" <=> IF k = 1 THEN sInstance' = NoInst
                                           ELSE looper'[k-1] = "destroy"
  <2> SUFFICES ASSUME NEW k \in 1..Len(looper')
               PROVE  looper'[k] = "create" <=> IF k = 1 THEN sInstance' = NoInst
                                                         ELSE looper'[k-1] = "destroy"
    OBVIOUS
  <2>1. k + 1 \in 1..Len(looper) /\ k + 1 # 1 /\ (k + 1) - 1 = k /\ looper'[k] = looper[k + 1]
    BY <1>1
  <2>2. looper[k + 1] = "create" <=> looper[k] = "destroy"
    BY <2>1 DEF LooperOK
  <2>3. CASE k = 1
    BY <2>1, <2>2, <2>3, <1>1
  <2>4. CASE k # 1
    <3>1. looper'[k - 1] = looper[k]
      BY <2>4, <1>1
    <3> QED BY <2>1, <2>2, <2>4, <3>1
  <2> QED BY <2>3, <2>4
<1>4. looper' # <<>> => (amStarted' <=> looper'[Len(looper')] # "destroy")
  <2>1. looper # <<>>
    BY DEF Deliver
  <2>2. ASSUME looper' # <<>> PROVE Len(looper) - 1 \in 1..(Len(looper) - 1)
    BY <1>1, <2>2
  <2>3. ASSUME looper' # <<>> PROVE looper'[Len(looper')] = looper[Len(looper)]
    BY <1>1, <2>2, <2>3
  <2> QED BY <2>1, <2>3 DEF LooperOK
<1>5. looper' = <<>> /\ sInstance' # NoInst => amStarted'
  <2>1. ASSUME looper' = <<>> PROVE Len(looper) = 1
    <3>1. Len(looper') = 0
      BY <1>1, <2>1, EmptyLen
    <3> QED BY <1>1, <3>1
  <2> QED BY <1>1, <2>1 DEF LooperOK, Deliver
<1> QED BY <1>1, <1>2, <1>3, <1>4, <1>5 DEF LooperOK

(* onCreate() preserves it, also when an empty pid file ends the app. *)
LEMMA CreateInv ==
  ASSUME IndInv, onCreate
  PROVE  IndInv'
<1> USE DEF IndInv, TypeOK
<1>1. CASE pidFile = EmptyFile
  BY <1>1, GoneInv DEF onCreate
<1>2. CASE pidFile # EmptyFile
  <2>1. PICK i \in Inst \ Referenced :
          /\ sInstance' = i
          /\ sshdPid' = [sshdPid EXCEPT ![i] = NoPid]
          /\ sshdStarted' = [sshdStarted EXCEPT ![i] = FALSE]
          /\ sshdDuration' = [sshdDuration EXCEPT ![i] = 0]
    BY <1>2 DEF onCreate
  <2>2. /\ sigkill' = sigkill \cup Killed(pidFile)
        /\ ui' = IF pidFile # NoPid THEN "pending" ELSE ui
        /\ looper' = Tail(looper)
        /\ pc["main"] = "idle"
        /\ Deliver("create")
        /\ UNCHANGED <<threadVars, queue, amStarted, proc, orphan, pidFile, raced>>
    BY <1>2 DEF onCreate, Deliver
  <2>3. sInstance' # NoInst
    BY <2>1, InstAssumption
  <2>4. looper' \in Seq(Callback) /\ LooperOK' /\ sInstance = NoInst
    BY <2>2, <2>3, DeliverLooper DEF Callback
  <2>5. TypeOK'
    <3>1. JavaTypeOK'
      BY <2>1 DEF JavaTypeOK
    <3>2. ThreadTypeOK' /\ AndroidTypeOK'
      BY <2>2, <2>4 DEF ThreadTypeOK, AndroidTypeOK, threadVars
    <3>3. FlagTypeOK'
      BY <2>2 DEF FlagTypeOK
    <3>4. ProcTypeOK'
      BY <2>2 DEF ProcTypeOK, Killed
    <3> QED BY <3>1, <3>2, <3>3, <3>4
  <2>6. ThreadOK' /\ ProcOK'
    BY <2>2 DEF ThreadOK, ProcOK, Live, Killed, threadVars
  <2>7. ~raced => /\ \A t \in Thread : pc[t] \notin {"stop", "fork", "publish"}
                  /\ \A j \in Inst : sshdPid[j] = NoPid
    BY <2>4, InstAssumption DEF NoOverlapOK, ThreadOK
  <2>8. NoOverlapOK'
    BY <2>1, <2>2, <2>7 DEF NoOverlapOK, MidStart, threadVars, JavaTypeOK
  <2>9. OwnedUnlessRaced' /\ PidFileNamesServer'
    <3>1. ~raced => OurLive = {}
      BY <2>4, <2>7 DEF OwnedUnlessRaced
    <3>2. OurLive' \subseteq OurLive /\ raced' = raced
      BY <2>2 DEF OurLive, Live
    <3> QED BY <2>2, <3>1, <3>2 DEF OwnedUnlessRaced, PidFileNamesServer
  <2>10. ChildIsWatched' /\ RecordedIsWatched'
    BY <2>1, <2>2 DEF ChildIsWatched, RecordedIsWatched, TaskFor, QueuedTasks, threadVars,
                      JavaTypeOK
  <2> QED BY <2>4, <2>5, <2>6, <2>8, <2>9, <2>10
<1> QED BY <1>1, <1>2

(* stopSshd() on the current object: what is left alive and not killed is  *)
(* owned by a thread that is about to store its pid.                       *)
LEMMA StopSshdOwned ==
  ASSUME IndInv, ~raced, stopSshd(sInstance), sInstance \in Inst,
         UNCHANGED <<proc, orphan>>
  PROVE  \A p \in OurLive' : \E t \in Thread : pc[t] = "publish" /\ tpid[t] = p
<1> SUFFICES ASSUME NEW p \in OurLive'
             PROVE  \E t \in Thread : pc[t] = "publish" /\ tpid[t] = p
  OBVIOUS
<1>1. p \in OurLive /\ p # sshdPid[sInstance]
  BY DEF OurLive, Live, Killed, stopSshd
<1> QED BY <1>1 DEF IndInv, OwnedUnlessRaced

(* onStartCommand() up to its stopSshd() preserves it. *)
LEMMA StartCommandInv ==
  ASSUME IndInv, onStartCommand
  PROVE  IndInv'
<1> USE DEF IndInv, TypeOK
<1>1. /\ stopSshd(sInstance) /\ Deliver("start") /\ looper' = Tail(looper)
      /\ sshdPid' = [sshdPid EXCEPT ![sInstance] = NoPid]
      /\ sigkill' = sigkill \cup Killed(sshdPid[sInstance])
      /\ ui' = "pending"
      /\ pc["main"] = "idle"
      /\ pc' = [pc EXCEPT !["main"] = "fork"]
      /\ tinst' = [tinst EXCEPT !["main"] = sInstance]
      /\ raced' = (raced \/ MidStart("watchdog"))
      /\ UNCHANGED <<sInstance, sshdStarted, sshdDuration, tpid, runTime, queue,
                     amStarted, proc, orphan, pidFile>>
  BY DEF onStartCommand, startSshd, stopSshd, Deliver
<1>2. looper' \in Seq(Callback) /\ LooperOK' /\ sInstance \in Inst
  <2>1. sInstance # NoInst
    BY <1>1, HeadTail DEF Deliver, LooperOK, AndroidTypeOK
  <2> QED BY <1>1, <2>1, DeliverLooper DEF Callback, JavaTypeOK
<1>3. TypeOK'
  <2>1. JavaTypeOK'
    BY <1>1 DEF JavaTypeOK
  <2>2. ThreadTypeOK'
    BY <1>1, <1>2 DEF ThreadTypeOK, Thread, PC
  <2>3. AndroidTypeOK'
    BY <1>1, <1>2 DEF AndroidTypeOK
  <2>4. FlagTypeOK'
    BY <1>1 DEF FlagTypeOK
  <2>5. ProcTypeOK'
    BY <1>1 DEF ProcTypeOK, Killed
  <2> QED BY <2>1, <2>2, <2>3, <2>4, <2>5
<1>4. ThreadOK' /\ ProcOK'
  BY <1>1, <1>2 DEF ThreadOK, ProcOK, Live, Killed, Thread, ThreadTypeOK
<1>5. NoOverlapOK'
  BY <1>1, <1>2 DEF NoOverlapOK, MidStart, Thread, ThreadTypeOK, JavaTypeOK
<1>6. OwnedUnlessRaced'
  <2> SUFFICES ASSUME ~raced' PROVE OurLive' = {}
    BY DEF OwnedUnlessRaced
  <2>1. ~raced /\ pc["main"] # "publish" /\ pc["watchdog"] # "publish"
    BY <1>1 DEF MidStart
  <2> QED BY <1>1, <1>2, <2>1, StopSshdOwned DEF Thread
<1>7. PidFileNamesServer'
  BY <1>1 DEF PidFileNamesServer
<1>8. ChildIsWatched' /\ RecordedIsWatched'
  BY <1>1, <1>2 DEF ChildIsWatched, RecordedIsWatched, TaskFor, QueuedTasks, Thread,
                    ThreadTypeOK, JavaTypeOK
<1> QED BY <1>2, <1>3, <1>4, <1>5, <1>6, <1>7, <1>8

(* onDestroy() preserves it; raced when a restart is under way. *)
LEMMA DestroyInv ==
  ASSUME IndInv, onDestroy
  PROVE  IndInv'
<1> USE DEF IndInv, TypeOK
<1>1. /\ stopSshd(sInstance) /\ Deliver("destroy") /\ looper' = Tail(looper)
      /\ sshdPid' = [sshdPid EXCEPT ![sInstance] = NoPid]
      /\ sigkill' = sigkill \cup Killed(sshdPid[sInstance])
      /\ ui' = "pending"
      /\ pc["main"] = "idle"
      /\ sInstance' = NoInst
      /\ raced' = (raced \/ pc["watchdog"] = "stop" \/ MidStart("watchdog"))
      /\ UNCHANGED <<sshdStarted, sshdDuration, threadVars, queue, amStarted,
                     proc, orphan, pidFile>>
  BY DEF onDestroy, stopSshd, Deliver
<1>2. looper' \in Seq(Callback) /\ LooperOK' /\ sInstance \in Inst
  BY <1>1, DeliverLooper DEF Callback, JavaTypeOK
<1>3. TypeOK'
  <2>1. JavaTypeOK'
    BY <1>1 DEF JavaTypeOK
  <2>2. ThreadTypeOK' /\ AndroidTypeOK'
    BY <1>1, <1>2 DEF ThreadTypeOK, AndroidTypeOK, threadVars
  <2>3. FlagTypeOK'
    BY <1>1 DEF FlagTypeOK
  <2>4. ProcTypeOK'
    BY <1>1 DEF ProcTypeOK, Killed
  <2> QED BY <2>1, <2>2, <2>3, <2>4
<1>4. ThreadOK' /\ ProcOK'
  BY <1>1 DEF ThreadOK, ProcOK, Live, Killed, threadVars
<1>5. ~raced' => ~raced /\ \A t \in Thread : pc[t] \notin {"stop", "fork", "publish"}
  BY <1>1 DEF MidStart, Thread
<1>6. NoOverlapOK'
  BY <1>1, <1>2, <1>5 DEF NoOverlapOK, MidStart, threadVars, JavaTypeOK
<1>7. OwnedUnlessRaced'
  BY <1>1, <1>2, <1>5, StopSshdOwned DEF OwnedUnlessRaced
<1>8. PidFileNamesServer'
  BY <1>1 DEF PidFileNamesServer
<1>9. ChildIsWatched' /\ RecordedIsWatched'
  BY <1>1, <1>2 DEF ChildIsWatched, RecordedIsWatched, TaskFor, QueuedTasks, threadVars,
                    JavaTypeOK
<1> QED BY <1>2, <1>3, <1>4, <1>6, <1>7, <1>8, <1>9

-----------------------------------------------------------------------------
(* The blocks of startSshd() *)

(* start_sshd() preserves it: the child's pid was free, no task names it. *)
LEMMA ForkInv ==
  ASSUME IndInv, NEW t \in Thread, Fork(t)
  PROVE  IndInv'
<1> USE DEF IndInv, TypeOK
<1>1. PICK p \in Pid \cup {NoPid} :
        /\ p # NoPid => /\ proc[p] = "free"
                        /\ ~(pc["watchdog"] = "woken" /\ tpid["watchdog"] = p)
        /\ tpid' = [tpid EXCEPT ![t] = p]
        /\ proc' = [q \in Pid |-> IF q = p THEN "starting" ELSE proc[q]]
  BY DEF Fork
<1>2. /\ pc[t] = "fork"
      /\ pc' = [pc EXCEPT ![t] = "publish"]
      /\ UNCHANGED <<javaVars, tinst, runTime, queue, androidVars, ui, sigkill,
                     orphan, pidFile, raced>>
  BY DEF Fork
<1>3. TypeOK'
  <2>1. JavaTypeOK' /\ AndroidTypeOK'
    BY <1>2 DEF JavaTypeOK, AndroidTypeOK, javaVars, androidVars
  <2>2. ThreadTypeOK'
    BY <1>1, <1>2 DEF ThreadTypeOK, Thread, PC
  <2>3. FlagTypeOK'
    BY <1>2 DEF FlagTypeOK, androidVars
  <2>4. ProcTypeOK'
    BY <1>1, <1>2 DEF ProcTypeOK, ProcState
  <2> QED BY <2>1, <2>2, <2>3, <2>4
<1>4. LooperOK' /\ ThreadOK'
  BY <1>1, <1>2 DEF LooperOK, ThreadOK, androidVars, javaVars, ThreadTypeOK
<1>5. \A q \in Pid : /\ q # p => proc'[q] = proc[q]
                     /\ q = p => proc[q] = "free" /\ proc'[q] = "starting"
  BY <1>1, PidAssumption
<1>6. ProcOK'
  <2>1. \A q \in sigkill' \cup orphan' : Live(q)'
    BY <1>2, <1>5 DEF ProcOK, Live, LiveState, ProcTypeOK
  <2>2. \A q \in Pid : proc'[q] \in PortState => proc[q] \in PortState
    BY <1>5 DEF PortState
  <2>3. ASSUME pc'["watchdog"] = "woken" PROVE proc'[tpid'["watchdog"]] = "free"
    <3>1. t # "watchdog" /\ pc["watchdog"] = "woken" /\ tpid'["watchdog"] = tpid["watchdog"]
      BY <1>1, <1>2, <2>3 DEF ThreadTypeOK, Thread
    <3>2. tpid["watchdog"] \in Pid /\ tpid["watchdog"] # p
      BY <1>1, <3>1, PidAssumption DEF ThreadOK, Thread
    <3> QED BY <1>5, <3>1, <3>2 DEF ProcOK
  <2> QED BY <2>1, <2>2, <2>3 DEF ProcOK
<1>7. NoOverlapOK'
  BY <1>2 DEF NoOverlapOK, MidStart, Thread, ThreadTypeOK, javaVars
<1>8. OwnedUnlessRaced'
  <2>1. tpid'[t] = p /\ pc'[t] = "publish"
    BY <1>1, <1>2 DEF ThreadTypeOK
  <2>2. \A q \in OurLive' : q = p \/ q \in OurLive
    BY <1>2, <1>5 DEF OurLive, Live
  <2>3. \A u \in Thread : pc[u] = "publish" => pc'[u] = pc[u] /\ tpid'[u] = tpid[u]
    BY <1>1, <1>2 DEF ThreadTypeOK
  <2> QED BY <1>2, <2>1, <2>2, <2>3 DEF OwnedUnlessRaced, javaVars
<1>9. PidFileNamesServer'
  BY <1>2, <1>5 DEF PidFileNamesServer
<1>10. ChildIsWatched' /\ RecordedIsWatched'
  <2>1. tpid'[t] = p /\ pc'[t] = "publish" /\ tinst'[t] \in Inst
    BY <1>1, <1>2 DEF ThreadTypeOK, ThreadOK
  <2>2. \A u \in Thread : pc[u] # "fork" => pc'[u] = pc[u] /\ tpid'[u] = tpid[u]
    BY <1>1, <1>2 DEF ThreadTypeOK
  <2>3. QueuedTasks' = QueuedTasks /\ tinst' = tinst /\ sshdPid' = sshdPid /\ orphan' = orphan
    BY <1>2 DEF QueuedTasks, javaVars
  <2> QED BY <1>5, <2>1, <2>2, <2>3 DEF ChildIsWatched, RecordedIsWatched, TaskFor
<1> QED BY <1>3, <1>4, <1>6, <1>7, <1>8, <1>9, <1>10

(* Storing sshdPid preserves it: its task is about to be queued. *)
LEMMA PublishInv ==
  ASSUME IndInv, NEW t \in Thread, Publish(t)
  PROVE  IndInv'
<1> USE DEF IndInv, TypeOK
<1>1. /\ pc[t] = "publish"
      /\ sshdPid' = [sshdPid EXCEPT ![tinst[t]] = tpid[t]]
      /\ UNCHANGED <<sInstance, sshdStarted, sshdDuration, tpid, runTime, queue,
                     androidVars, procVars, raced>>
  BY DEF Publish
<1>2. \/ /\ tpid[t] # NoPid
         /\ pc' = [pc EXCEPT ![t] = "enqueue"]
         /\ UNCHANGED <<tinst, ui>>
      \/ /\ tpid[t] = NoPid
         /\ pc' = [pc EXCEPT ![t] = "idle"]
         /\ tinst' = [tinst EXCEPT ![t] = NoInst]
         /\ ui' = "pending"
  BY DEF Publish
<1>3. TypeOK'
  <2>1. JavaTypeOK'
    BY <1>1 DEF JavaTypeOK, ThreadTypeOK
  <2>2. ThreadTypeOK'
    BY <1>1, <1>2 DEF ThreadTypeOK, Thread, PC
  <2>3. AndroidTypeOK'
    BY <1>1, <1>2 DEF AndroidTypeOK, androidVars
  <2>4. FlagTypeOK'
    BY <1>1 DEF FlagTypeOK, androidVars
  <2>5. ProcTypeOK'
    BY <1>1 DEF ProcTypeOK, procVars
  <2> QED BY <2>1, <2>2, <2>3, <2>4, <2>5
<1>4. LooperOK' /\ ThreadOK'
  BY <1>1, <1>2 DEF LooperOK, ThreadOK, androidVars, ThreadTypeOK
<1>5. \A u \in Thread : pc[u] # "publish" \/ u # t => pc'[u] = pc[u] /\ tinst'[u] = tinst[u]
  BY <1>1, <1>2 DEF ThreadTypeOK
<1>6. pc'[t] \in {"idle", "enqueue"} /\ tinst[t] \in Inst
  BY <1>1, <1>2 DEF ThreadTypeOK, ThreadOK
<1>7. ProcOK' /\ PidFileNamesServer'
  BY <1>1, <1>5, <1>6 DEF ProcOK, PidFileNamesServer, Live, Thread, procVars
<1>8. ASSUME ~raced
      PROVE  /\ tinst[t] = sInstance /\ sshdPid[sInstance] = NoPid
             /\ \A u \in Thread : MidStart(u) => u = t
  BY <1>1, <1>6, <1>8 DEF NoOverlapOK, MidStart, Thread
<1>9. NoOverlapOK'
  BY <1>1, <1>5, <1>6, <1>8 DEF NoOverlapOK, MidStart, Thread, JavaTypeOK
<1>10. OwnedUnlessRaced'
  <2>1. OurLive' = OurLive /\ raced' = raced /\ sInstance' = sInstance
    BY <1>1 DEF OurLive, Live, procVars
  <2> SUFFICES ASSUME ~raced, NEW p \in OurLive
               PROVE  sInstance # NoInst /\ sshdPid'[sInstance] = p
    BY <2>1 DEF OwnedUnlessRaced
  <2>2. p # NoPid
    BY PidAssumption DEF OurLive
  <2>3. tpid[t] = p
    BY <1>8, <2>2 DEF OwnedUnlessRaced, MidStart
  <2> QED BY <1>1, <1>6, <1>8, <2>3, InstAssumption DEF JavaTypeOK
<1>11. ChildIsWatched'
  <2>1. \A p \in Pid, i \in Inst : TaskFor(i, p, {"publish", "enqueue", "waiting"})
          => TaskFor(i, p, {"publish", "enqueue", "waiting"})'
    <3> SUFFICES ASSUME NEW p \in Pid, NEW i \in Inst, NEW u \in Thread,
                        pc[u] \in {"publish", "enqueue", "waiting"}, tinst[u] = i, tpid[u] = p
                 PROVE  pc'[u] \in {"publish", "enqueue", "waiting"} /\ tinst'[u] = i /\ tpid'[u] = p
      BY <1>1 DEF TaskFor, QueuedTasks
    <3> QED BY <1>1, <1>2, <1>5, PidAssumption DEF ThreadTypeOK
  <2> QED BY <1>1, <2>1 DEF ChildIsWatched, procVars
<1>12. RecordedIsWatched'
  <2> SUFFICES ASSUME NEW i \in Inst, sshdPid'[i] # NoPid
               PROVE  TaskFor(i, sshdPid[i], {"enqueue", "waiting", "woken"})'
    BY DEF RecordedIsWatched
  <2>1. CASE i = tinst[t]
    BY <1>1, <1>2, <2>1 DEF TaskFor, ThreadTypeOK, JavaTypeOK
  <2>2. CASE i # tinst[t]
    <3>1. sshdPid'[i] = sshdPid[i]
      BY <1>1, <2>2 DEF JavaTypeOK
    <3>2. TaskFor(i, sshdPid[i], {"enqueue", "waiting", "woken"})
      BY <3>1 DEF RecordedIsWatched
    <3> QED BY <1>1, <1>5, <3>1, <3>2 DEF TaskFor, QueuedTasks
  <2> QED BY <2>1, <2>2
<1> QED BY <1>3, <1>4, <1>7, <1>9, <1>10, <1>11, <1>12

(* Queueing the watchdog task preserves it. *)
LEMMA EnqueueInv ==
  ASSUME IndInv, NEW t \in Thread, Enqueue(t)
  PROVE  IndInv'
<1> USE DEF IndInv, TypeOK
<1> DEFINE task == [inst |-> tinst[t], pid |-> tpid[t]]
<1>1. /\ pc[t] = "enqueue"
      /\ queue' = Append(queue, task)
      /\ pc' = [pc EXCEPT ![t] = "idle"]
      /\ tinst' = [tinst EXCEPT ![t] = NoInst]
      /\ tpid' = [tpid EXCEPT ![t] = NoPid]
      /\ ui' = "pending"
      /\ UNCHANGED <<javaVars, runTime, androidVars, procVars, raced>>
  BY DEF Enqueue
<1>2. task \in Task /\ task.inst = tinst[t] /\ task.pid = tpid[t]
  BY <1>1 DEF ThreadOK, Task
<1>3. queue' \in Seq(Task) /\ QueuedTasks' = QueuedTasks \cup {task}
  <2> HIDE DEF task
  <2> QED BY <1>1, <1>2, QueuedAppend DEF AndroidTypeOK
<1>4. TypeOK'
  <2>1. JavaTypeOK' /\ ProcTypeOK'
    BY <1>1 DEF JavaTypeOK, ProcTypeOK, javaVars, procVars
  <2>2. ThreadTypeOK'
    BY <1>1 DEF ThreadTypeOK, Thread, PC
  <2>3. AndroidTypeOK'
    BY <1>1, <1>3 DEF AndroidTypeOK, androidVars
  <2>4. FlagTypeOK'
    BY <1>1 DEF FlagTypeOK, androidVars
  <2> QED BY <2>1, <2>2, <2>3, <2>4
<1>5. LooperOK' /\ ThreadOK'
  BY <1>1 DEF LooperOK, ThreadOK, androidVars, javaVars, ThreadTypeOK
<1>6. \A u \in Thread : IF u = t THEN pc'[u] = "idle"
                                 ELSE pc'[u] = pc[u] /\ tinst'[u] = tinst[u] /\ tpid'[u] = tpid[u]
  BY <1>1 DEF ThreadTypeOK
<1>7. ProcOK' /\ PidFileNamesServer'
  BY <1>1, <1>6 DEF ProcOK, PidFileNamesServer, Live, Thread, procVars
<1>8. NoOverlapOK'
  BY <1>1, <1>6 DEF NoOverlapOK, MidStart, Thread, javaVars
<1>9. OwnedUnlessRaced'
  BY <1>1, <1>6 DEF OwnedUnlessRaced, OurLive, Live, javaVars, procVars
<1>10. ASSUME NEW i, NEW p, NEW here, TaskFor(i, p, here)
       PROVE  TaskFor(i, p, here)'
  <2> HIDE DEF task
  <2> QED BY <1>2, <1>3, <1>6, <1>10 DEF TaskFor
<1>11. ChildIsWatched' /\ RecordedIsWatched'
  BY <1>1, <1>10 DEF ChildIsWatched, RecordedIsWatched, javaVars, procVars
<1> QED BY <1>4, <1>5, <1>7, <1>8, <1>9, <1>11

-----------------------------------------------------------------------------
(* The watchdog task *)

(* The start of a watchdog task preserves it. *)
LEMMA WatchdogBeginInv ==
  ASSUME IndInv, WatchdogBegin
  PROVE  IndInv'
<1> USE DEF IndInv, TypeOK
<1> DEFINE i == Head(queue).inst
           p == Head(queue).pid
<1>1. /\ pc["watchdog"] = "idle"
      /\ queue # <<>>
      /\ sshdStarted' = [sshdStarted EXCEPT ![i] = TRUE]
      /\ tinst' = [tinst EXCEPT !["watchdog"] = i]
      /\ tpid' = [tpid EXCEPT !["watchdog"] = p]
      /\ pc' = [pc EXCEPT !["watchdog"] = "waiting"]
      /\ queue' = Tail(queue)
      /\ UNCHANGED <<sInstance, sshdPid, runTime, androidVars, ui, procVars, raced>>
  BY DEF WatchdogBegin
<1>2. PICK d \in Elapsed :
        sshdDuration' = [sshdDuration EXCEPT ![i] = IF sshdStarted[i] THEN d ELSE 0]
  BY DEF WatchdogBegin
<1>3. /\ queue' \in Seq(Task) /\ Head(queue) \in Task
      /\ QueuedTasks \subseteq QueuedTasks' \cup {Head(queue)}
  BY <1>1, QueuedTail DEF AndroidTypeOK
<1>4. i \in Inst /\ p \in Pid
  BY <1>3 DEF Task
<1> HIDE DEF i, p
<1>5. TypeOK'
  <2>1. JavaTypeOK'
    BY <1>1, <1>2 DEF JavaTypeOK
  <2>2. ThreadTypeOK'
    BY <1>1, <1>4 DEF ThreadTypeOK, Thread, PC
  <2>3. AndroidTypeOK'
    BY <1>1, <1>3 DEF AndroidTypeOK, androidVars
  <2>4. FlagTypeOK'
    BY <1>1 DEF FlagTypeOK, androidVars
  <2>5. ProcTypeOK'
    BY <1>1 DEF ProcTypeOK, procVars
  <2> QED BY <2>1, <2>2, <2>3, <2>4, <2>5
<1>6. LooperOK' /\ ThreadOK'
  BY <1>1, <1>4, InstAssumption DEF LooperOK, ThreadOK, androidVars, ThreadTypeOK, Thread
<1>7. \A u \in Thread : pc[u] # "idle"
        => pc'[u] = pc[u] /\ tinst'[u] = tinst[u] /\ tpid'[u] = tpid[u]
  BY <1>1 DEF ThreadTypeOK, Thread
<1>8. pc'["main"] = pc["main"] /\ pc'["watchdog"] = "waiting"
      /\ tinst'["main"] = tinst["main"] /\ tinst'["watchdog"] = i /\ tpid'["watchdog"] = p
  BY <1>1 DEF ThreadTypeOK, Thread
<1>9. ProcOK' /\ PidFileNamesServer'
  BY <1>1, <1>8 DEF ProcOK, PidFileNamesServer, Live, procVars
<1>10. NoOverlapOK'
  BY <1>1, <1>8 DEF NoOverlapOK, MidStart, Thread
<1>11. OwnedUnlessRaced'
  BY <1>1, <1>7 DEF OwnedUnlessRaced, OurLive, Live, procVars
<1>12. ASSUME NEW j, NEW q, NEW here, TaskFor(j, q, here), "waiting" \in here, "idle" \notin here
       PROVE  TaskFor(j, q, here)'
  BY <1>3, <1>7, <1>8, <1>12 DEF TaskFor, Thread, i, p
<1>13. ChildIsWatched' /\ RecordedIsWatched'
  BY <1>1, <1>12 DEF ChildIsWatched, RecordedIsWatched, procVars
<1> QED BY <1>5, <1>6, <1>9, <1>10, <1>11, <1>13

(* The return of waitpid() preserves it: the zombie's pid is free. *)
LEMMA WatchdogWaitpidInv ==
  ASSUME IndInv, WatchdogWaitpid
  PROVE  IndInv'
<1> USE DEF IndInv, TypeOK
<1> DEFINE p == tpid["watchdog"]
<1>1. /\ pc["watchdog"] = "waiting"
      /\ proc[p] = "zombie"
      /\ proc' = [proc EXCEPT ![p] = "free"]
      /\ pc' = [pc EXCEPT !["watchdog"] = "woken"]
      /\ runTime' \in Elapsed
      /\ UNCHANGED <<javaVars, tinst, tpid, queue, androidVars, ui, sigkill, orphan,
                     pidFile, raced>>
  BY DEF WatchdogWaitpid
<1>2. p \in Pid
  BY <1>1 DEF ThreadOK, Thread
<1>3. TypeOK'
  <2>1. JavaTypeOK' /\ AndroidTypeOK'
    BY <1>1 DEF JavaTypeOK, AndroidTypeOK, javaVars, androidVars
  <2>2. ThreadTypeOK'
    BY <1>1 DEF ThreadTypeOK, Thread, PC
  <2>3. FlagTypeOK'
    BY <1>1 DEF FlagTypeOK, androidVars
  <2>4. ProcTypeOK'
    BY <1>1 DEF ProcTypeOK, ProcState
  <2> QED BY <2>1, <2>2, <2>3, <2>4
<1>4. LooperOK' /\ ThreadOK'
  BY <1>1, <1>2 DEF LooperOK, ThreadOK, androidVars, javaVars, ThreadTypeOK, Thread
<1>5. \A q \in Pid : IF q = p THEN proc'[q] = "free" ELSE proc'[q] = proc[q]
  BY <1>1 DEF ProcTypeOK
<1>6. ProcOK' /\ PidFileNamesServer'
  <2>1. \A q \in sigkill \cup orphan : q # p /\ q \in Pid
    BY <1>1 DEF ProcOK, Live, LiveState, ProcTypeOK
  <2> QED BY <1>1, <1>2, <1>5, <2>1 DEF ProcOK, PidFileNamesServer, Live, PortState
<1>7. NoOverlapOK'
  BY <1>1 DEF NoOverlapOK, MidStart, Thread, javaVars, ThreadTypeOK
<1>8. OwnedUnlessRaced'
  <2>1. OurLive' \subseteq OurLive
    BY <1>1, <1>5 DEF OurLive, Live, LiveState
  <2>2. \A u \in Thread : pc[u] = "publish" => pc'[u] = pc[u]
    BY <1>1 DEF ThreadTypeOK
  <2> QED BY <1>1, <2>1, <2>2 DEF OwnedUnlessRaced, javaVars
<1>9. ChildIsWatched'
  <2> SUFFICES ASSUME NEW q \in Pid, proc'[q] # "free", q \notin orphan
               PROVE  \E i \in Inst : TaskFor(i, q, {"publish", "enqueue", "waiting"})'
    BY <1>1 DEF ChildIsWatched
  <2>1. q # p /\ proc[q] # "free"
    BY <1>5
  <2>2. PICK i \in Inst : TaskFor(i, q, {"publish", "enqueue", "waiting"})
    BY <2>1 DEF ChildIsWatched
  <2>3. \A u \in Thread : tpid[u] = q => pc'[u] = pc[u]
    BY <1>1, <2>1 DEF ThreadTypeOK
  <2> QED BY <1>1, <2>2, <2>3 DEF TaskFor, QueuedTasks
<1>10. RecordedIsWatched'
  BY <1>1 DEF RecordedIsWatched, TaskFor, QueuedTasks, ThreadTypeOK, Thread, javaVars
<1> QED BY <1>3, <1>4, <1>6, <1>7, <1>8, <1>9, <1>10

(* The decision to restart or not preserves it: sshdPid is cleared. *)
LEMMA WatchdogDecideInv ==
  ASSUME IndInv, WatchdogDecide
  PROVE  IndInv'
<1> USE DEF IndInv, TypeOK
<1> DEFINE i == tinst["watchdog"]
           p == tpid["watchdog"]
<1>1. /\ pc["watchdog"] = "woken"
      /\ tpid' = [tpid EXCEPT !["watchdog"] = NoPid]
      /\ runTime' = 0
      /\ UNCHANGED <<sInstance, sshdStarted, sshdDuration, queue, androidVars,
                     procVars, raced>>
  BY DEF WatchdogDecide
<1>2. \/ /\ sshdPid[i] = p
         /\ sshdPid' = [sshdPid EXCEPT ![i] = NoPid]
         /\ pc' = [pc EXCEPT !["watchdog"] = "stop"]
         /\ UNCHANGED <<tinst, ui>>
      \/ /\ sshdPid[i] = p
         /\ sshdPid' = [sshdPid EXCEPT ![i] = NoPid]
         /\ pc' = [pc EXCEPT !["watchdog"] = "idle"]
         /\ tinst' = [tinst EXCEPT !["watchdog"] = NoInst]
         /\ ui' = "pending"
      \/ /\ sshdPid[i] # p
         /\ pc' = [pc EXCEPT !["watchdog"] = "idle"]
         /\ tinst' = [tinst EXCEPT !["watchdog"] = NoInst]
         /\ UNCHANGED <<sshdPid, ui>>
  BY DEF WatchdogDecide
<1>3. i \in Inst /\ p \in Pid /\ proc[p] = "free"
  BY <1>1 DEF ThreadOK, ProcOK, Thread
<1>4. TypeOK'
  <2>1. JavaTypeOK'
    BY <1>1, <1>2 DEF JavaTypeOK
  <2>2. ThreadTypeOK'
    BY <1>1, <1>2 DEF ThreadTypeOK, Thread, PC
  <2>3. AndroidTypeOK'
    BY <1>1, <1>2 DEF AndroidTypeOK, androidVars
  <2>4. FlagTypeOK'
    BY <1>1 DEF FlagTypeOK, androidVars
  <2>5. ProcTypeOK'
    BY <1>1 DEF ProcTypeOK, procVars
  <2> QED BY <2>1, <2>2, <2>3, <2>4, <2>5
<1>5. LooperOK' /\ ThreadOK'
  BY <1>1, <1>2, <1>3 DEF LooperOK, ThreadOK, androidVars, ThreadTypeOK, Thread
<1>6. /\ pc'["main"] = pc["main"] /\ tinst'["main"] = tinst["main"] /\ tpid'["main"] = tpid["main"]
      /\ pc'["watchdog"] \in {"stop", "idle"}
  BY <1>1, <1>2 DEF ThreadTypeOK, Thread
<1>7. ProcOK' /\ PidFileNamesServer'
  BY <1>1, <1>6 DEF ProcOK, PidFileNamesServer, Live, procVars
<1>8. \A j \in Inst : sshdPid'[j] = sshdPid[j] \/ (sshdPid[j] = p /\ sshdPid'[j] = NoPid)
  BY <1>2 DEF JavaTypeOK
<1>9. pc'["watchdog"] = "stop" => sshdPid[i] = p /\ tinst'["watchdog"] = i
  BY <1>2 DEF ThreadTypeOK, Thread
<1>10. NoOverlapOK'
  <2> SUFFICES ASSUME ~raced PROVE NoOverlapOK'
    BY <1>1 DEF NoOverlapOK
  <2>1. sshdPid[i] = p => i = sInstance
    BY <1>3, PidAssumption DEF NoOverlapOK
  <2> QED BY <1>1, <1>3, <1>6, <1>8, <1>9, <2>1 DEF NoOverlapOK, MidStart, Thread
<1>11. OwnedUnlessRaced'
  <2>1. OurLive' = OurLive /\ raced' = raced /\ sInstance' = sInstance
    BY <1>1 DEF OurLive, Live, procVars
  <2>2. p \notin OurLive
    BY <1>3 DEF OurLive, Live, LiveState
  <2>3. \A q \in OurLive : sInstance # NoInst /\ sshdPid[sInstance] = q => sshdPid'[sInstance] = q
    BY <1>8, <2>2 DEF JavaTypeOK
  <2>4. \A u \in Thread : pc[u] = "publish" => pc'[u] = pc[u] /\ tpid'[u] = tpid[u]
    BY <1>1, <1>6 DEF Thread
  <2> QED BY <2>1, <2>3, <2>4 DEF OwnedUnlessRaced
<1>12. ChildIsWatched'
  BY <1>1, <1>6 DEF ChildIsWatched, TaskFor, QueuedTasks, Thread, procVars
<1>13. RecordedIsWatched'
  <2> SUFFICES ASSUME NEW j \in Inst, sshdPid'[j] # NoPid
               PROVE  TaskFor(j, sshdPid[j], {"enqueue", "waiting", "woken"})'
    BY DEF RecordedIsWatched
  <2>1. sshdPid'[j] = sshdPid[j] /\ ~(j = i /\ sshdPid[j] = p)
    BY <1>2, <1>8, PidAssumption DEF JavaTypeOK
  <2>2. TaskFor(j, sshdPid[j], {"enqueue", "waiting", "woken"})
    BY <2>1 DEF RecordedIsWatched
  <2> QED BY <1>1, <1>6, <2>1, <2>2 DEF TaskFor, QueuedTasks, Thread
<1> QED BY <1>4, <1>5, <1>7, <1>10, <1>11, <1>12, <1>13

(* The watchdog's call of startSshd() preserves it. *)
LEMMA WatchdogRestartInv ==
  ASSUME IndInv, WatchdogRestart
  PROVE  IndInv'
<1> USE DEF IndInv, TypeOK
<1> DEFINE i == tinst["watchdog"]
<1>1. /\ pc["watchdog"] = "stop"
      /\ stopSshd(i)
      /\ sshdPid' = [sshdPid EXCEPT ![i] = NoPid]
      /\ sigkill' = sigkill \cup Killed(sshdPid[i])
      /\ ui' = "pending"
      /\ pc' = [pc EXCEPT !["watchdog"] = "fork"]
      /\ tinst' = [tinst EXCEPT !["watchdog"] = i]
      /\ raced' = (raced \/ MidStart("main"))
      /\ UNCHANGED <<sInstance, sshdStarted, sshdDuration, tpid, runTime, queue,
                     androidVars, proc, orphan, pidFile>>
  BY DEF WatchdogRestart, startSshd, stopSshd
<1>2. i \in Inst /\ tinst' = tinst
  BY <1>1 DEF ThreadOK, Thread, ThreadTypeOK
<1>3. TypeOK'
  <2>1. JavaTypeOK'
    BY <1>1 DEF JavaTypeOK
  <2>2. ThreadTypeOK'
    BY <1>1, <1>2 DEF ThreadTypeOK, Thread, PC
  <2>3. AndroidTypeOK'
    BY <1>1 DEF AndroidTypeOK, androidVars
  <2>4. FlagTypeOK'
    BY <1>1 DEF FlagTypeOK, androidVars
  <2>5. ProcTypeOK'
    BY <1>1 DEF ProcTypeOK, Killed
  <2> QED BY <2>1, <2>2, <2>3, <2>4, <2>5
<1>4. LooperOK' /\ ThreadOK'
  BY <1>1, <1>2 DEF LooperOK, ThreadOK, androidVars, ThreadTypeOK, Thread
<1>5. ProcOK' /\ PidFileNamesServer'
  BY <1>1 DEF ProcOK, PidFileNamesServer, Live, Killed, Thread, ThreadTypeOK
<1>6. NoOverlapOK'
  BY <1>1, <1>2 DEF NoOverlapOK, MidStart, Thread, ThreadTypeOK, JavaTypeOK
<1>7. OwnedUnlessRaced'
  <2> SUFFICES ASSUME ~raced' PROVE OurLive' = {}
    BY DEF OwnedUnlessRaced
  <2>1. ~raced /\ pc["main"] # "publish" /\ pc["watchdog"] # "publish"
    BY <1>1 DEF MidStart
  <2>2. i = sInstance
    BY <1>1, <2>1 DEF NoOverlapOK, Thread
  <2> QED BY <1>1, <1>2, <2>1, <2>2, StopSshdOwned DEF Thread
<1>8. ChildIsWatched' /\ RecordedIsWatched'
  BY <1>1, <1>2 DEF ChildIsWatched, RecordedIsWatched, TaskFor, QueuedTasks, Thread,
                    ThreadTypeOK, JavaTypeOK
<1> QED BY <1>3, <1>4, <1>5, <1>6, <1>7, <1>8

-----------------------------------------------------------------------------
(* Steps of a dropbear process touch only the process table and the pid    *)
(* file.  Either the process moves on to another live state, or it ends.   *)

(* Process steps that add no child and no live dropbear preserve it. *)
LEMMA ProcTableInv ==
  ASSUME IndInv, procStep, ProcTypeOK', ProcOK', PidFileNamesServer',
         OurLive' \subseteq OurLive,
         \A q \in Pid : proc'[q] # "free" /\ q \notin orphan'
                          => proc[q] # "free" /\ q \notin orphan
  PROVE  IndInv'
<1> USE DEF IndInv, TypeOK, procStep, javaVars, threadVars, androidVars
<1>1. JavaTypeOK' /\ ThreadTypeOK' /\ AndroidTypeOK'
  BY DEF JavaTypeOK, ThreadTypeOK, AndroidTypeOK
<1>2. FlagTypeOK'
  BY DEF FlagTypeOK
<1>3. LooperOK' /\ ThreadOK' /\ NoOverlapOK'
  BY DEF LooperOK, ThreadOK, NoOverlapOK, MidStart
<1>4. OwnedUnlessRaced'
  BY DEF OwnedUnlessRaced
<1>5. ChildIsWatched' /\ RecordedIsWatched'
  BY DEF ChildIsWatched, RecordedIsWatched, TaskFor, QueuedTasks
<1> QED BY <1>1, <1>2, <1>3, <1>4, <1>5

(* The end of a process preserves it. *)
LEMMA ExitInv ==
  ASSUME IndInv, NEW p \in Pid, Live(p), Exit(p), procStep,
         \/ pidFile' = pidFile
         \/ proc[p] = "serving" /\ pidFile' = NoPid
  PROVE  IndInv'
<1> USE DEF IndInv, TypeOK, ProcTypeOK
<1>1. /\ proc'[p] \in {"free", "zombie"} /\ (p \notin orphan => proc'[p] = "zombie")
      /\ p \in orphan => proc'[p] = "free"
      /\ \A q \in Pid : q # p => proc'[q] = proc[q]
      /\ sigkill' = sigkill \ {p} /\ orphan' = orphan \ {p}
  BY DEF Exit
<1>2. ProcTypeOK'
  BY DEF Exit, ProcState
<1>3. pc' = pc /\ tpid' = tpid
  BY DEF procStep, threadVars
<1>4. proc[p] # "free"
  BY DEF Live, LiveState
<1>5. ProcOK'
  BY <1>1, <1>3, <1>4 DEF ProcOK, Live, PortState, ThreadOK, Thread
<1>6. PidFileNamesServer'
  BY <1>1 DEF PidFileNamesServer, ProcOK, PortState
<1>7. OurLive' \subseteq OurLive
  BY <1>1 DEF OurLive, Live, LiveState
<1> QED BY <1>1, <1>2, <1>4, <1>5, <1>6, <1>7, ProcTableInv

(* The start-up of dropbear preserves it: it binds before it writes. *)
LEMMA StartupInv ==
  ASSUME IndInv, NEW p \in Pid, Startup(p)
  PROVE  IndInv'
<1> USE DEF IndInv, TypeOK, ProcTypeOK
<1>1. CASE Listen(p) /\ \E q \in Pid : proc[q] \in PortState
  BY <1>1, ExitInv DEF Listen, Live, LiveState
<1>2. ASSUME NEW new \in PortState,
             Live(p), proc' = [proc EXCEPT ![p] = new], UNCHANGED <<sigkill, orphan>>, procStep,
             \A q \in Pid : q # p => proc[q] \notin PortState,
             pidFile' \in Pid \cup {NoPid, EmptyFile},
             new = "serving" => pidFile' = p
      PROVE  IndInv'
  <2>1. proc'[p] = new /\ \A q \in Pid : q # p => proc'[q] = proc[q]
    BY <1>2
  <2>2. ProcTypeOK'
    BY <1>2 DEF ProcState, PortState
  <2>3. pc' = pc /\ tpid' = tpid
    BY <1>2 DEF procStep, threadVars
  <2>4. ProcOK'
    BY <1>2, <2>1, <2>3 DEF ProcOK, Live, PortState, LiveState, ThreadOK, Thread
  <2>5. PidFileNamesServer'
    BY <1>2, <2>1 DEF PidFileNamesServer, PortState
  <2>6. OurLive' \subseteq OurLive
    BY <1>2, <2>1 DEF OurLive, Live, LiveState, PortState
  <2> QED BY <1>2, <2>1, <2>2, <2>4, <2>5, <2>6, ProcTableInv DEF Live, LiveState
<1>3. CASE Listen(p) /\ \A q \in Pid : proc[q] \notin PortState
  BY <1>2, <1>3 DEF Listen, Live, LiveState, PortState
<1>4. CASE OpenPidFile(p)
  BY <1>2, <1>4 DEF OpenPidFile, Live, LiveState, PortState, ProcOK
<1>5. CASE WritePidFile(p)
  BY <1>2, <1>5 DEF WritePidFile, Live, LiveState, PortState, ProcOK
<1> QED BY <1>1, <1>3, <1>4, <1>5 DEF Startup

(* A signal, a fault and SIGKILL all end a process in that way. *)
LEMMA EndInv ==
  ASSUME IndInv, NEW p \in Pid, Terminated(p) \/ Crash(p) \/ KillTaken(p)
  PROVE  IndInv'
BY ExitInv DEF Terminated, Crash, KillTaken, Live, LiveState

-----------------------------------------------------------------------------
(* The invariant is inductive. *)

(* Steps that change nothing preserve it. *)
LEMMA StutterInv ==
  ASSUME IndInv, UNCHANGED vars
  PROVE  IndInv'
<1>1. AndroidTypeOK' /\ LooperOK'
  BY DEF IndInv, TypeOK, AndroidTypeOK, LooperOK, vars, androidVars, javaVars
<1>2. FlagTypeOK'
  BY DEF IndInv, TypeOK, FlagTypeOK, vars, androidVars
<1> QED BY <1>1, <1>2, UntouchedInv DEF vars

(* Every step of the specification preserves the invariant. *)
LEMMA NextInv == IndInv /\ [Next]_vars => IndInv'
<1> SUFFICES ASSUME IndInv, [Next]_vars PROVE IndInv'
  OBVIOUS
<1>1. CASE startService \/ stopService \/ StickyRecreate
  BY <1>1, RequestInv
<1>2. CASE AppKilled
  BY <1>2, AppKilledInv
<1>3. CASE MainLooper
  BY <1>3, CreateInv, StartCommandInv, DestroyInv DEF MainLooper
<1>4. CASE ServiceUIRequest
  BY <1>4, UIRequestInv
<1>5. CASE \E t \in Thread : StartSteps(t)
  BY <1>5, ForkInv, PublishInv, EnqueueInv DEF StartSteps
<1>6. CASE WatchdogTask
  BY <1>6, WatchdogBeginInv, WatchdogWaitpidInv, WatchdogDecideInv, WatchdogRestartInv
     DEF WatchdogTask
<1>7. CASE \E p \in Pid : Startup(p) \/ Terminated(p) \/ Crash(p) \/ KillTaken(p)
  BY <1>7, StartupInv, EndInv
<1>8. CASE UNCHANGED vars
  BY <1>8, StutterInv
<1> QED BY <1>1, <1>2, <1>3, <1>4, <1>5, <1>6, <1>7, <1>8 DEF Next

(* The invariant holds in every reachable state. *)
LEMMA Invariance == Spec => []IndInv
BY InitInv, NextInv, PTL DEF Spec

-----------------------------------------------------------------------------
(* The variables of the service, its threads and its processes always hold *)
(* values of their types: for one, sshdPid never holds the content of an   *)
(* empty pid file, and the main looper is never inside waitpid().          *)
THEOREM TypeCorrect == Spec => []TypeOK
<1>1. IndInv => TypeOK
  BY DEF IndInv
<1> QED BY <1>1, Invariance, PTL

(* Every dropbear the app forked has a watchdog task waiting for it,       *)
(* however many start commands, restarts and app deaths interleave.        *)
THEOREM EveryChildWatched == Spec => []ChildIsWatched
<1>1. IndInv => ChildIsWatched
  BY DEF IndInv
<1> QED BY <1>1, Invariance, PTL

(* Every pid in sshdPid, which isRunning() and stopSshd() go by, has a     *)
(* watchdog task of the same object that will compare and clear it.        *)
THEOREM EveryRecordWatched == Spec => []RecordedIsWatched
<1>1. IndInv => RecordedIsWatched
  BY DEF IndInv
<1> QED BY <1>1, Invariance, PTL

(* The dropbear that serves is the one named by dropbear.pid. *)
THEOREM ServerInPidFile == Spec => []PidFileNamesServer
<1>1. IndInv => PidFileNamesServer
  BY DEF IndInv
<1> QED BY <1>1, Invariance, PTL

(* A dropbear that stopSshd() cannot reach exists only after a watchdog    *)
(* restart overlapped a service callback.                                  *)
THEOREM OrphansNeedOverlap == Spec => []OwnedUnlessRaced
<1>1. IndInv => OwnedUnlessRaced
  BY DEF IndInv
<1> QED BY <1>1, Invariance, PTL

(* onCreate() kills the serving dropbear, whoever started it. *)
THEOREM CreateKills == Spec => CreateKillsServer
<1>1. IndInv /\ [Next]_vars =>
        [sInstance = NoInst /\ sInstance' # NoInst
           => \A p \in Pid : proc[p] = "serving" => p \in sigkill']_vars
  <2> SUFFICES ASSUME IndInv, Next, sInstance = NoInst, sInstance' # NoInst,
                      NEW p \in Pid, proc[p] = "serving"
               PROVE  p \in sigkill'
    OBVIOUS
  <2>1. pidFile = p
    BY DEF IndInv, PidFileNamesServer
  <2>2. onCreate
    BY DEF Next, startService, stopService, StickyRecreate, AppKilled, ProcessGone,
           MainLooper, onStartCommand, onDestroy, ServiceUIRequest, StartSteps, Fork,
           Publish, Enqueue, WatchdogTask, WatchdogBegin, WatchdogWaitpid,
           WatchdogDecide, WatchdogRestart, Startup, Listen, OpenPidFile, WritePidFile,
           Terminated, Crash, KillTaken, procStep, javaVars
  <2>3. sigkill' = sigkill \cup Killed(pidFile)
    BY <2>1, <2>2, PidAssumption DEF onCreate
  <2> QED BY <2>1, <2>3 DEF Killed, Live, LiveState
<1> QED BY <1>1, Invariance, PTL DEF Spec, CreateKillsServer
-----------------------------------------------------------------------------
(* What the screen shows.  The property is inductive with the invariant:   *)
(* onCreate() needs LooperOK, that a new object never replaces another.    *)

(* The steps of the looper and of the screen. *)
LEMMA LooperUi ==
  ASSUME IndInv, UiShowsIsRunning, MainLooper \/ ServiceUIRequest
  PROVE  UiShowsIsRunning'
<1>1. CASE onCreate
  <2>1. CASE ProcessGone({p \in Pid : Live(p)})
    BY <2>1 DEF ProcessGone, UiShowsIsRunning, isRunning
  <2>2. CASE pidFile # EmptyFile
    <3>1. sInstance = NoInst
      <4>1. looper \in Seq(Callback) /\ looper # <<>> /\ Head(looper) = "create"
        BY <1>1 DEF onCreate, Deliver, IndInv, TypeOK, AndroidTypeOK
      <4>2. 1 \in 1 .. Len(looper) /\ looper[1] = "create"
        BY <4>1, HeadTail
      <4> QED BY <4>2 DEF IndInv, LooperOK
    <3>2. ~isRunning'
      BY <1>1, <2>2 DEF onCreate, isRunning, ProcessGone, IndInv, TypeOK, JavaTypeOK
    <3>3. ui' = "pending" \/ ui' = ui
      BY <1>1, <2>2 DEF onCreate
    <3>4. pc' = pc
      BY <1>1, <2>2 DEF onCreate, threadVars
    <3> QED BY <3>1, <3>2, <3>3, <3>4 DEF UiShowsIsRunning, isRunning
  <2> QED BY <1>1, <2>1, <2>2 DEF onCreate
<1>2. CASE onStartCommand \/ onDestroy
  BY <1>2 DEF onStartCommand, onDestroy, startSshd, stopSshd, UiShowsIsRunning
<1>3. CASE ServiceUIRequest
  BY <1>3 DEF ServiceUIRequest, UiShowsIsRunning, isRunning, javaVars, threadVars
<1> QED BY <1>1, <1>2, <1>3 DEF MainLooper

(* The blocks of startSshd(): the last one asks for an update. *)
LEMMA StartUi ==
  ASSUME IndInv, UiShowsIsRunning, NEW t \in Thread, StartSteps(t)
  PROVE  UiShowsIsRunning'
<1>1. pc \in [Thread -> PC]
  BY DEF IndInv, TypeOK, ThreadTypeOK
<1>2. t \in {"main", "watchdog"}
  BY DEF Thread
<1>3. CASE Fork(t)
  BY <1>1, <1>2, <1>3 DEF Fork, UiShowsIsRunning, Thread
<1>4. CASE Publish(t)
  BY <1>1, <1>2, <1>4 DEF Publish, UiShowsIsRunning, Thread
<1>5. CASE Enqueue(t)
  BY <1>5 DEF Enqueue, UiShowsIsRunning
<1> QED BY <1>3, <1>4, <1>5 DEF StartSteps

(* The watchdog: a restart ends in startSshd(), giving up asks for an      *)
(* update, and otherwise sshdPid stays.                                    *)
LEMMA WatchdogUi ==
  ASSUME IndInv, UiShowsIsRunning, WatchdogTask
  PROVE  UiShowsIsRunning'
<1>1. pc \in [Thread -> PC]
  BY DEF IndInv, TypeOK, ThreadTypeOK
<1>2. CASE WatchdogBegin \/ WatchdogWaitpid
  BY <1>1, <1>2 DEF WatchdogBegin, WatchdogWaitpid, UiShowsIsRunning, isRunning, Thread, javaVars
<1>3. CASE WatchdogDecide
  BY <1>1, <1>3 DEF WatchdogDecide, UiShowsIsRunning, isRunning, Thread
<1>4. CASE WatchdogRestart
  BY <1>4 DEF WatchdogRestart, startSshd, stopSshd, UiShowsIsRunning
<1> QED BY <1>2, <1>3, <1>4 DEF WatchdogTask

(* Once no start is in progress and no broadcast is waiting, the main      *)
(* screen shows what isRunning() answers, whichever of the two threads     *)
(* last changed sshdPid.                                                   *)
THEOREM ScreenAgrees == Spec => []UiShowsIsRunning
<1>1. Init => UiShowsIsRunning
  BY DEF Init, UiShowsIsRunning, isRunning
<1>2. IndInv /\ UiShowsIsRunning /\ [Next]_vars => UiShowsIsRunning'
  <2> SUFFICES ASSUME IndInv, UiShowsIsRunning, [Next]_vars PROVE UiShowsIsRunning'
    OBVIOUS
  <2>1. CASE startService \/ stopService \/ StickyRecreate
    BY <2>1 DEF startService, stopService, StickyRecreate, javaVars, threadVars,
                UiShowsIsRunning, isRunning
  <2>2. CASE AppKilled
    BY <2>2 DEF AppKilled, ProcessGone, UiShowsIsRunning, isRunning
  <2>3. CASE \E p \in Pid : Startup(p) \/ Terminated(p) \/ Crash(p) \/ KillTaken(p)
    BY <2>3 DEF Startup, Listen, OpenPidFile, WritePidFile, Terminated, Crash, KillTaken,
                procStep, javaVars, threadVars, UiShowsIsRunning, isRunning
  <2>4. CASE UNCHANGED vars
    BY <2>4 DEF vars, javaVars, threadVars, UiShowsIsRunning, isRunning
  <2> QED BY <2>1, <2>2, <2>3, <2>4, LooperUi, StartUi, WatchdogUi DEF Next
<1> QED BY <1>1, <1>2, Invariance, PTL DEF Spec
=============================================================================
