----------------------------- MODULE SshdService -----------------------------
(***************************************************************************)
(* The Android service that owns the native dropbear process               *)
(* (SshdService.java), the JNI calls it makes (jni-dropbear.c) and the     *)
(* part of dropbear's start-up that it depends on (svr-main.c: bind, then  *)
(* write the pid file).                                                    *)
(*                                                                         *)
(* Two threads run Java code: the main looper, which delivers onCreate,    *)
(* onStartCommand and onDestroy, and the single thread of                  *)
(* EXECUTOR_SERVICE, which runs one watchdog task at a time and calls      *)
(* startSshd() itself when it restarts a dropbear that died.  Every block  *)
(* synchronized on "lock" is one atomic step; startSshd() is not           *)
(* synchronized as a whole, so the two threads interleave between its      *)
(* blocks.                                                                 *)
(***************************************************************************)
EXTENDS Naturals, Sequences, FiniteSets

CONSTANTS Pid,        \* the process ids the kernel may hand out
          NoPid,      \* 0: no process; also an absent pid file
          EmptyFile,  \* a pid file that was truncated and not yet written
          Inst,       \* SshdService objects
          NoInst,     \* null
          Elapsed,    \* the classes of times that pass, see below
          MaxLooper   \* bound: callbacks waiting on the main looper

ASSUME PidAssumption == /\ NoPid \notin Pid
                        /\ EmptyFile \notin Pid
                        /\ EmptyFile # NoPid
ASSUME InstAssumption == NoInst \notin Inst
ASSUME LooperAssumption == MaxLooper \in Nat
ASSUME ElapsedAssumption == Elapsed # {} /\ Elapsed \subseteq 1..3

Thread == {"main", "watchdog"}

(***************************************************************************)
(* Where a thread is.  "stop", "fork", "publish" and "enqueue" are the     *)
(* points of startSshd() before stopSshd(), before start_sshd(), before    *)
(* the block that stores sshdPid, and before EXECUTOR_SERVICE.execute().   *)
(* "waiting" and "woken" are the watchdog inside and just after waitpid(). *)
(***************************************************************************)
PC == {"idle", "stop", "fork", "publish", "enqueue", "waiting", "woken"}

Callback == {"create", "start", "destroy"}

Task == [inst : Inst, pid : Pid]

(***************************************************************************)
(* The life of a process: forked, listening ("bound", then with the pid    *)
(* file opened for writing, then "serving"), dead but not waited for.      *)
(***************************************************************************)
ProcState == {"free", "starting", "bound", "truncated", "serving", "zombie"}
LiveState == {"starting", "bound", "truncated", "serving"}
PortState == {"bound", "truncated", "serving"}

(***************************************************************************)
(* Times are classes: 1 is less than 10 000 ns, 2 at least 10 000 ns but   *)
(* less than 10 s, 3 at least 10 s.  A sshdDuration of 0 marks the 'first' *)
(* start.                                                                  *)
(***************************************************************************)
TenSeconds == 3

VARIABLES sInstance,      \* static SshdService.sInstance
          sshdPid,        \* the field of every SshdService object
          sshdStarted,    \* sshdStartTime # 0
          sshdDuration,
          pc, tinst, tpid,\* per thread: position, "this", local pid
          runTime,        \* how long the process the watchdog reaped had run
          queue,          \* tasks waiting in EXECUTOR_SERVICE
          looper,         \* service callbacks waiting on the main looper
          amStarted,      \* ActivityManager: the service is started
          ui,             \* main screen: "pending" broadcast, "on" or "off"
          proc, sigkill,  \* process table and the SIGKILLs not yet taken
          orphan,         \* processes forked by an app process since gone
          pidFile,        \* dropbear.pid
          raced           \* history: a restart overlapped a callback

javaVars == <<sInstance, sshdPid, sshdStarted, sshdDuration>>
threadVars == <<pc, tinst, tpid, runTime>>
androidVars == <<looper, amStarted>>
procVars == <<proc, sigkill, orphan, pidFile>>
vars == <<javaVars, threadVars, queue, androidVars, ui, procVars, raced>>

-----------------------------------------------------------------------------
(* Helpers *)

Live(p) == proc[p] \in LiveState

(* A dropbear of this app process that nothing has killed yet. *)
OurLive == {p \in Pid : Live(p) /\ p \notin orphan /\ p \notin sigkill}

QueuedTasks == {queue[k] : k \in 1..Len(queue)}

(* What kill(pid, SIGKILL) adds: nothing for 0, a zombie or an unused pid. *)
Killed(p) == {q \in Pid : q = p /\ Live(q)}

(* Between its stopSshd() and the block that stores the new pid. *)
MidStart(t) == pc[t] \in {"fork", "publish"}

isRunning == sInstance # NoInst /\ sshdPid[sInstance] # NoPid

(* Objects that a watchdog task or the watchdog thread still refers to. *)
Referenced == {task.inst : task \in QueuedTasks} \cup {tinst[t] : t \in Thread}

-----------------------------------------------------------------------------
JavaTypeOK ==
  /\ sInstance \in Inst \cup {NoInst}
  /\ sshdPid \in [Inst -> Pid \cup {NoPid}]
  /\ sshdStarted \in [Inst -> BOOLEAN]
  /\ sshdDuration \in [Inst -> Elapsed \cup {0}]

ThreadTypeOK ==
  /\ pc \in [Thread -> PC]
  /\ pc["main"] \in {"idle", "fork", "publish", "enqueue"}
  /\ tinst \in [Thread -> Inst \cup {NoInst}]
  /\ tpid \in [Thread -> Pid \cup {NoPid}]
  /\ runTime \in Elapsed \cup {0}

AndroidTypeOK ==
  /\ queue \in Seq(Task)
  /\ looper \in Seq(Callback)
  /\ ui \in {"pending", "on", "off"}

FlagTypeOK == amStarted \in BOOLEAN /\ raced \in BOOLEAN

ProcTypeOK ==
  /\ proc \in [Pid -> ProcState]
  /\ sigkill \in SUBSET Pid
  /\ orphan \in SUBSET Pid
  /\ pidFile \in Pid \cup {NoPid, EmptyFile}

(* Every variable holds a value of its kind; in particular the main thread *)
(* is never inside a watchdog task, and sshdPid never holds what an empty  *)
(* pid file would have been read as.                                       *)
TypeOK ==
  JavaTypeOK /\ ThreadTypeOK /\ AndroidTypeOK /\ FlagTypeOK /\ ProcTypeOK

Init ==
  /\ sInstance = NoInst
  /\ sshdPid = [i \in Inst |-> NoPid]
  /\ sshdStarted = [i \in Inst |-> FALSE]
  /\ sshdDuration = [i \in Inst |-> 0]
  /\ pc = [t \in Thread |-> "idle"]
  /\ tinst = [t \in Thread |-> NoInst]
  /\ tpid = [t \in Thread |-> NoPid]
  /\ runTime = 0
  /\ queue = <<>>
  /\ looper = <<>>
  /\ amStarted = FALSE
  /\ ui = "off"
  /\ proc = [p \in Pid |-> "free"]
  /\ sigkill = {}
  /\ orphan = {}
  /\ pidFile = NoPid
  /\ raced = FALSE

-----------------------------------------------------------------------------
(* Requests to Android: startService() and stopService().                  *)

(* Android holds a service object, or has queued the callbacks for one. *)
BroughtUp == amStarted /\ (sInstance # NoInst \/ looper # <<>>)

startService ==
  /\ looper' = looper \o (IF BroughtUp THEN <<"start">> ELSE <<"create", "start">>)
  /\ Len(looper') <= MaxLooper
  /\ amStarted' = TRUE
  /\ UNCHANGED <<javaVars, threadVars, queue, ui, procVars, raced>>

stopService ==
  /\ amStarted
  /\ looper' = looper \o (IF BroughtUp THEN <<"destroy">> ELSE <<>>)
  /\ Len(looper') <= MaxLooper
  /\ amStarted' = FALSE
  /\ UNCHANGED <<javaVars, threadVars, queue, ui, procVars, raced>>

(* START_STICKY: Android creates a service again whose process went away. *)
StickyRecreate ==
  /\ amStarted
  /\ ~BroughtUp
  /\ looper' = <<"create", "start">>
  /\ UNCHANGED <<javaVars, threadVars, queue, amStarted, ui, procVars, raced>>

(***************************************************************************)
(* The app process goes away: everything it held in memory is lost, its    *)
(* zombies go to init, its dropbears become orphans or die with it.        *)
(***************************************************************************)
ProcessGone(survivors) ==
  /\ sInstance' = NoInst
  /\ sshdPid' = [i \in Inst |-> NoPid]
  /\ sshdStarted' = [i \in Inst |-> FALSE]
  /\ sshdDuration' = [i \in Inst |-> 0]
  /\ pc' = [t \in Thread |-> "idle"]
  /\ tinst' = [t \in Thread |-> NoInst]
  /\ tpid' = [t \in Thread |-> NoPid]
  /\ runTime' = 0
  /\ queue' = <<>>
  /\ looper' = <<>>
  /\ ui' = "off"
  /\ proc' = [p \in Pid |-> IF p \in survivors THEN proc[p] ELSE "free"]
  /\ sigkill' = sigkill \cap survivors
  /\ orphan' = survivors
  /\ raced' = FALSE
  /\ UNCHANGED <<amStarted, pidFile>>

AppKilled ==
  \E died \in SUBSET {p \in Pid : Live(p) /\ p \notin orphan} :
    ProcessGone({p \in Pid : Live(p)} \ died)

-----------------------------------------------------------------------------
(* The blocks of startSshd() and stopSshd().                               *)

(* Mutant of stopSshd: forgets the pid without killing the process. *)
stopSshd_NoKill(i) ==
  /\ sshdPid' = [sshdPid EXCEPT ![i] = NoPid]
  /\ sigkill' = sigkill
  /\ ui' = "pending"

(* Mutant of stopSshd: does not tell the UI. *)
stopSshd_NoUpdateUI(i) ==
  /\ sshdPid' = [sshdPid EXCEPT ![i] = NoPid]
  /\ sigkill' = sigkill \cup Killed(sshdPid[i])
  /\ UNCHANGED ui

(* stopSshd(): forget the pid and send SIGKILL to it; updateUI(). *)
stopSshd(i) ==
  /\ sshdPid' = [sshdPid EXCEPT ![i] = NoPid]
  /\ sigkill' = sigkill \cup Killed(sshdPid[i])
  /\ ui' = "pending"

(* startSshd() up to and including its call of stopSshd(). *)
startSshd(t, i) ==
  /\ stopSshd(i)
  /\ pc' = [pc EXCEPT ![t] = "fork"]
  /\ tinst' = [tinst EXCEPT ![t] = i]

(***************************************************************************)
(* start_sshd(): fork.  The child is listed with a pid that is not in use. *)
(* A pid is not handed out again while the watchdog is between waitpid()   *)
(* and its next synchronized block (pids are allocated cyclically).        *)
(***************************************************************************)
Fork(t) ==
  /\ pc[t] = "fork"
  /\ \E p \in Pid \cup {NoPid} :
       /\ p # NoPid => /\ proc[p] = "free"
                       /\ ~(pc["watchdog"] = "woken" /\ tpid["watchdog"] = p)
       /\ tpid' = [tpid EXCEPT ![t] = p]
       /\ proc' = [q \in Pid |-> IF q = p THEN "starting" ELSE proc[q]]
  /\ pc' = [pc EXCEPT ![t] = "publish"]
  /\ UNCHANGED <<javaVars, tinst, runTime, queue, androidVars, ui, sigkill,
                 orphan, pidFile, raced>>

(* Mutant of Publish: returns without a watchdog task. *)
Publish_NoWatchdog(t) ==
  /\ pc[t] = "publish"
  /\ sshdPid' = [sshdPid EXCEPT ![tinst[t]] = tpid[t]]
  /\ pc' = [pc EXCEPT ![t] = "idle"]
  /\ tinst' = [tinst EXCEPT ![t] = NoInst]
  /\ tpid' = [tpid EXCEPT ![t] = NoPid]
  /\ ui' = "pending"
  /\ UNCHANGED <<sInstance, sshdStarted, sshdDuration, runTime, queue,
                 androidVars, procVars, raced>>

(* sshdPid = pid, or 0 and no watchdog when fork() failed. *)
Publish(t) ==
  /\ pc[t] = "publish"
  /\ sshdPid' = [sshdPid EXCEPT ![tinst[t]] = tpid[t]]
  /\ \/ /\ tpid[t] # NoPid
        /\ pc' = [pc EXCEPT ![t] = "enqueue"]
        /\ UNCHANGED <<tinst, ui>>
     \/ /\ tpid[t] = NoPid
        /\ pc' = [pc EXCEPT ![t] = "idle"]
        /\ tinst' = [tinst EXCEPT ![t] = NoInst]
        /\ ui' = "pending"
  /\ UNCHANGED <<sInstance, sshdStarted, sshdDuration, tpid, runTime, queue,
                 androidVars, procVars, raced>>

(* EXECUTOR_SERVICE.execute(watchdog task); updateUI(); return. *)
Enqueue(t) ==
  /\ pc[t] = "enqueue"
  /\ queue' = Append(queue, [inst |-> tinst[t], pid |-> tpid[t]])
  /\ pc' = [pc EXCEPT ![t] = "idle"]
  /\ tinst' = [tinst EXCEPT ![t] = NoInst]
  /\ tpid' = [tpid EXCEPT ![t] = NoPid]
  /\ ui' = "pending"
  /\ UNCHANGED <<javaVars, runTime, androidVars, procVars, raced>>

-----------------------------------------------------------------------------
(* Service callbacks, on the main looper.                                  *)

Deliver(callback) ==
  /\ pc["main"] = "idle"
  /\ looper # <<>>
  /\ Head(looper) = callback

(* Mutant of onCreate: stores what it read, and kills nothing. *)
onCreate_NoKill ==
  /\ Deliver("create")
  /\ \E i \in Inst \ Referenced :
       /\ sInstance' = i
       /\ sshdPid' = [sshdPid EXCEPT ![i] = pidFile]
       /\ sshdStarted' = [sshdStarted EXCEPT ![i] = FALSE]
       /\ sshdDuration' = [sshdDuration EXCEPT ![i] = 0]
  /\ looper' = Tail(looper)
  /\ UNCHANGED <<threadVars, queue, amStarted, ui, proc, sigkill, orphan, pidFile, raced>>

(***************************************************************************)
(* onCreate(): kill the process the pid file names.  An empty pid file     *)
(* makes Integer.parseInt(null) throw, which nothing catches.              *)
(***************************************************************************)
onCreate ==
  /\ Deliver("create")
  /\ \/ /\ pidFile = EmptyFile
        /\ ProcessGone({p \in Pid : Live(p)})
     \/ /\ pidFile # EmptyFile
        /\ \E i \in Inst \ Referenced :
             /\ sInstance' = i
             /\ sshdPid' = [sshdPid EXCEPT ![i] = NoPid]
             /\ sshdStarted' = [sshdStarted EXCEPT ![i] = FALSE]
             /\ sshdDuration' = [sshdDuration EXCEPT ![i] = 0]
        /\ sigkill' = sigkill \cup Killed(pidFile)
        /\ ui' = IF pidFile # NoPid THEN "pending" ELSE ui
        /\ looper' = Tail(looper)
        /\ UNCHANGED <<threadVars, queue, amStarted, proc, orphan, pidFile, raced>>

onStartCommand ==
  /\ Deliver("start")
  /\ startSshd("main", sInstance)
  /\ looper' = Tail(looper)
  /\ raced' = (raced \/ MidStart("watchdog"))
  /\ UNCHANGED <<sInstance, sshdStarted, sshdDuration, tpid, runTime, queue,
                 amStarted, proc, orphan, pidFile>>

(* Mutant of onDestroy: leaves the process to the watchdog. *)
onDestroy_NoStop ==
  /\ Deliver("destroy")
  /\ sInstance' = NoInst
  /\ looper' = Tail(looper)
  /\ UNCHANGED <<sshdPid, sshdStarted, sshdDuration, threadVars, queue, amStarted,
                 ui, procVars, raced>>

onDestroy ==
  /\ Deliver("destroy")
  /\ stopSshd(sInstance)
  /\ sInstance' = NoInst
  /\ looper' = Tail(looper)
  /\ raced' = (raced \/ pc["watchdog"] = "stop" \/ MidStart("watchdog"))
  /\ UNCHANGED <<sshdStarted, sshdDuration, threadVars, queue, amStarted, proc,
                 orphan, pidFile>>

(* MainFragment's receiver of the updateUI() broadcast reads isRunning(). *)
ServiceUIRequest ==
  /\ pc["main"] = "idle"
  /\ ui = "pending"
  /\ ui' = IF isRunning THEN "on" ELSE "off"
  /\ UNCHANGED <<javaVars, threadVars, queue, androidVars, procVars, raced>>

-----------------------------------------------------------------------------
(* The watchdog task.                                                      *)

(* First synchronized block: remember how long since the last start. *)
WatchdogBegin ==
  /\ pc["watchdog"] = "idle"
  /\ queue # <<>>
  /\ LET i == Head(queue).inst
     IN  /\ \E d \in Elapsed :
              sshdDuration' = [sshdDuration EXCEPT ![i] = IF sshdStarted[i] THEN d ELSE 0]
         /\ sshdStarted' = [sshdStarted EXCEPT ![i] = TRUE]
         /\ tinst' = [tinst EXCEPT !["watchdog"] = i]
  /\ tpid' = [tpid EXCEPT !["watchdog"] = Head(queue).pid]
  /\ pc' = [pc EXCEPT !["watchdog"] = "waiting"]
  /\ queue' = Tail(queue)
  /\ UNCHANGED <<sInstance, sshdPid, runTime, androidVars, ui, procVars, raced>>

(* waitpid() returns: the child is dead and its pid is free again. *)
WatchdogWaitpid ==
  /\ pc["watchdog"] = "waiting"
  /\ proc[tpid["watchdog"]] = "zombie"
  /\ proc' = [proc EXCEPT ![tpid["watchdog"]] = "free"]
  /\ pc' = [pc EXCEPT !["watchdog"] = "woken"]
  /\ runTime' \in Elapsed
  /\ UNCHANGED <<javaVars, tinst, tpid, queue, androidVars, ui, sigkill, orphan,
                 pidFile, raced>>

(***************************************************************************)
(* The values "restart" may get.  sshdDuration counts nanoseconds and is   *)
(* compared with the number 10 000; the third disjunct of the code         *)
(* subtracts a nanoTime() from a currentTimeMillis(), two unrelated        *)
(* clocks, and may come out either way.                                    *)
(***************************************************************************)
MIN_DURATION == 2

Restart(duration) ==
  IF duration = 0 \/ duration >= MIN_DURATION THEN {TRUE} ELSE BOOLEAN

(* Mutant of WatchdogDecide: keeps sshdPid when it gives up. *)
WatchdogDecide_NoReset ==
  LET i == tinst["watchdog"]
      failed == sshdPid[i] = tpid["watchdog"]
  IN  /\ pc["watchdog"] = "woken"
      /\ \/ /\ failed
            /\ TRUE \in Restart(sshdDuration[i])
            /\ sshdPid' = [sshdPid EXCEPT ![i] = NoPid]
            /\ pc' = [pc EXCEPT !["watchdog"] = "stop"]
            /\ UNCHANGED <<tinst, ui>>
         \/ /\ failed => FALSE \in Restart(sshdDuration[i])
            /\ pc' = [pc EXCEPT !["watchdog"] = "idle"]
            /\ tinst' = [tinst EXCEPT !["watchdog"] = NoInst]
            /\ ui' = IF failed THEN "pending" ELSE ui
            /\ UNCHANGED sshdPid
      /\ tpid' = [tpid EXCEPT !["watchdog"] = NoPid]
      /\ runTime' = 0
      /\ UNCHANGED <<sInstance, sshdStarted, sshdDuration, queue, androidVars,
                     procVars, raced>>

(* Second synchronized block: did our process fail, and do we restart it? *)
WatchdogDecide ==
  LET i == tinst["watchdog"]
      failed == sshdPid[i] = tpid["watchdog"]
  IN  /\ pc["watchdog"] = "woken"
      /\ \/ /\ failed
            /\ sshdPid' = [sshdPid EXCEPT ![i] = NoPid]
            /\ TRUE \in Restart(sshdDuration[i])
            /\ pc' = [pc EXCEPT !["watchdog"] = "stop"]
            /\ UNCHANGED <<tinst, ui>>
         \/ /\ failed
            /\ sshdPid' = [sshdPid EXCEPT ![i] = NoPid]
            /\ FALSE \in Restart(sshdDuration[i])
            /\ pc' = [pc EXCEPT !["watchdog"] = "idle"]
            /\ tinst' = [tinst EXCEPT !["watchdog"] = NoInst]
            /\ ui' = "pending"
         \/ /\ ~failed
            /\ pc' = [pc EXCEPT !["watchdog"] = "idle"]
            /\ tinst' = [tinst EXCEPT !["watchdog"] = NoInst]
            /\ UNCHANGED <<sshdPid, ui>>
      /\ tpid' = [tpid EXCEPT !["watchdog"] = NoPid]
      /\ runTime' = 0
      /\ UNCHANGED <<sInstance, sshdStarted, sshdDuration, queue, androidVars,
                     procVars, raced>>

(* The watchdog calls startSshd(), outside the lock. *)
WatchdogRestart ==
  /\ pc["watchdog"] = "stop"
  /\ startSshd("watchdog", tinst["watchdog"])
  /\ raced' = (raced \/ MidStart("main"))
  /\ UNCHANGED <<sInstance, sshdStarted, sshdDuration, tpid, runTime, queue,
                 androidVars, proc, orphan, pidFile>>

-----------------------------------------------------------------------------
(* The dropbear process: main_noinetd().                                   *)

(* The end of a process: init reaps an orphan, the app has to wait for its *)
(* own children.                                                           *)
Exit(p) ==
  /\ proc' = [proc EXCEPT ![p] = IF p \in orphan THEN "free" ELSE "zombie"]
  /\ sigkill' = sigkill \ {p}
  /\ orphan' = orphan \ {p}

procStep == UNCHANGED <<javaVars, threadVars, queue, androidVars, ui, raced>>

(* Mutant of Listen: a start that finds the port taken removes the pid file. *)
Listen_Unlink(p) ==
  /\ proc[p] = "starting"
  /\ p \notin sigkill
  /\ \/ /\ \E q \in Pid : proc[q] \in PortState
        /\ Exit(p)
        /\ pidFile' = NoPid
     \/ /\ \A q \in Pid : proc[q] \notin PortState
        /\ proc' = [proc EXCEPT ![p] = "bound"]
        /\ UNCHANGED <<sigkill, orphan, pidFile>>
  /\ procStep

(* listensockets(): exit when the port is taken. *)
Listen(p) ==
  /\ proc[p] = "starting"
  /\ p \notin sigkill
  /\ \/ /\ \E q \in Pid : proc[q] \in PortState
        /\ Exit(p)
     \/ /\ \A q \in Pid : proc[q] \notin PortState
        /\ proc' = [proc EXCEPT ![p] = "bound"]
        /\ UNCHANGED <<sigkill, orphan>>
  /\ UNCHANGED pidFile
  /\ procStep

(* fopen(svr_opts.pidfile, "w") *)
OpenPidFile(p) ==
  /\ proc[p] = "bound"
  /\ p \notin sigkill
  /\ proc' = [proc EXCEPT ![p] = "truncated"]
  /\ pidFile' = EmptyFile
  /\ UNCHANGED <<sigkill, orphan>>
  /\ procStep

(* fprintf() and fclose() *)
WritePidFile(p) ==
  /\ proc[p] = "truncated"
  /\ p \notin sigkill
  /\ proc' = [proc EXCEPT ![p] = "serving"]
  /\ pidFile' = p
  /\ UNCHANGED <<sigkill, orphan>>
  /\ procStep

(* SIGINT or SIGTERM, seen in the select loop: unlink the pid file, exit. *)
Terminated(p) ==
  /\ proc[p] = "serving"
  /\ p \notin sigkill
  /\ Exit(p)
  /\ pidFile' = NoPid
  /\ procStep

(* dropbear_exit(), a fault, or a SIGKILL that the app did not send. *)
Crash(p) ==
  /\ Live(p)
  /\ p \notin sigkill
  /\ Exit(p)
  /\ UNCHANGED pidFile
  /\ procStep

(* The app's SIGKILL takes effect. *)
KillTaken(p) ==
  /\ Live(p)
  /\ p \in sigkill
  /\ Exit(p)
  /\ UNCHANGED pidFile
  /\ procStep

-----------------------------------------------------------------------------
Startup(p) == Listen(p) \/ OpenPidFile(p) \/ WritePidFile(p)

StartSteps(t) == Fork(t) \/ Publish(t) \/ Enqueue(t)

WatchdogTask ==
  WatchdogBegin \/ WatchdogWaitpid \/ WatchdogDecide \/ WatchdogRestart

MainLooper == onCreate \/ onStartCommand \/ onDestroy

Next ==
  \/ startService
  \/ stopService
  \/ StickyRecreate
  \/ AppKilled
  \/ MainLooper
  \/ ServiceUIRequest
  \/ \E t \in Thread : StartSteps(t)
  \/ WatchdogTask
  \/ \E p \in Pid : Startup(p) \/ Terminated(p) \/ Crash(p) \/ KillTaken(p)

Spec == Init /\ [][Next]_vars

(***************************************************************************)
(* Threads, the looper and the processes that are started keep running;    *)
(* nobody has to press a button and no dropbear has to crash.              *)
(***************************************************************************)
Fairness ==
  /\ WF_vars(MainLooper)
  /\ WF_vars(StickyRecreate)
  /\ WF_vars(ServiceUIRequest)
  /\ WF_vars(WatchdogTask)
  /\ \A t \in Thread : WF_vars(StartSteps(t))
  /\ \A p \in Pid : WF_vars(Startup(p)) /\ WF_vars(KillTaken(p))

FairSpec == Spec /\ Fairness

(* As FairSpec, and Android does not kill the app before every callback. *)
PatientSpec == FairSpec /\ SF_vars(MainLooper)

-----------------------------------------------------------------------------
(* Properties *)

(* A watchdog task for process p of object i exists: queued, running, or   *)
(* about to be handed to EXECUTOR_SERVICE by the thread that forked p.     *)
TaskFor(i, p, here) ==
  \/ \E task \in QueuedTasks : task.inst = i /\ task.pid = p
  \/ \E t \in Thread : pc[t] \in here /\ tinst[t] = i /\ tpid[t] = p

(* No dropbear the app forked is ever left without a watchdog task that    *)
(* waits for it: startSshd() never loses a child, so none stays a zombie   *)
(* behind the app's back, whatever callbacks and restarts interleave.      *)
ChildIsWatched ==
  \A p \in Pid : proc[p] # "free" /\ p \notin orphan =>
    \E i \in Inst : TaskFor(i, p, {"publish", "enqueue", "waiting"})

(* The pid stored in sshdPid always has a task of the same object that     *)
(* will compare it and clear it: isRunning() cannot stay true for a        *)
(* process nobody watches, and stopSshd() never aims at a pid the watchdog *)
(* is done with.                                                           *)
RecordedIsWatched ==
  \A i \in Inst : sshdPid[i] # NoPid =>
    TaskFor(i, sshdPid[i], {"enqueue", "waiting", "woken"})

(* The dropbear that serves is the one dropbear.pid names, also across     *)
(* failed starts and app restarts: dropbear binds before it writes.        *)
PidFileNamesServer == \A p \in Pid : proc[p] = "serving" => pidFile = p

(* Unless a restart by the watchdog overlapped a callback of the main      *)
(* looper, every dropbear that is alive and not killed is the one sshdPid  *)
(* of the current service object records (or is about to): stopping the    *)
(* service reaches all of them.                                            *)
OwnedUnlessRaced ==
  ~raced => \A p \in OurLive :
    \/ sInstance # NoInst /\ sshdPid[sInstance] = p
    \/ \E t \in Thread : pc[t] = "publish" /\ tpid[t] = p

(* Once no start is in progress and no updateUI() broadcast is waiting,    *)
(* the main screen shows what isRunning() answers.                         *)
UiShowsIsRunning ==
  /\ pc["main"] = "idle"
  /\ pc["watchdog"] \in {"idle", "waiting", "woken"}
  /\ ui # "pending"
  => (ui = "on") = isRunning

(* onCreate() kills whatever dropbear serves, also one left behind by an   *)
(* app process that was killed.                                            *)
CreateKillsServer ==
  [][sInstance = NoInst /\ sInstance' # NoInst
       => \A p \in Pid : proc[p] = "serving" => p \in sigkill']_vars

(* Without such an overlap, stopService() ends every dropbear of this app  *)
(* process unless the service is started again.                            *)
StopStops == []~raced => (~amStarted ~> (amStarted \/ OurLive = {}))

(* Without such an overlap, the watchdog notices the death of the process  *)
(* sshdPid records, and isRunning() stops naming it.                       *)
WatchdogNotices ==
  []~raced => \A p \in Pid :
    (isRunning /\ sshdPid[sInstance] = p /\ proc[p] = "zombie")
      ~> ~(isRunning /\ sshdPid[sInstance] = p /\ proc[p] = "zombie")

-----------------------------------------------------------------------------
(* What comments in SshdService.java say and the code does not do.         *)

(* "If restarting sshd twice within 10 seconds, give up": no restart when  *)
(* the previous and the current process both lasted less than that.        *)
GiveUpWhenTooFast ==
  [][pc["watchdog"] = "woken" /\ pc'["watchdog"] = "stop"
       => LET i == tinst["watchdog"]
          IN  sshdDuration[i] \in {0, TenSeconds} \/ runTime = TenSeconds]_vars

(* isRunning(): "Check if the native process is running": once no start is *)
(* in progress, a dropbear that serves means the answer is true.           *)
ServingIsRunning ==
  (\A t \in Thread : pc[t] \in {"idle", "waiting"})
    => ((\E p \in OurLive : proc[p] = "serving") => isRunning)

(* "If we get killed, after returning from here, restart": a started       *)
(* service without an object gets one, or is stopped.                      *)
StickyRestart ==
  (amStarted /\ sInstance = NoInst) ~> (~amStarted \/ sInstance # NoInst)
=============================================================================
