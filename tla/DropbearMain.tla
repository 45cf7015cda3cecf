----------------------------- MODULE DropbearMain -----------------------------
(***************************************************************************)
(* The select loop of the listening dropbear process (svr-main.c,          *)
(* main_noinetd) and the session processes it forks, as far as the loop    *)
(* can see them: a session keeps the write end of a pipe open until it has *)
(* authenticated or is gone, and the loop keeps the read end in a slot of  *)
(* childpipes[] with the client's address in preauth_addrs[].              *)
(***************************************************************************)
EXTENDS Naturals, Sequences, FiniteSets

CONSTANTS MAX_UNAUTH_CLIENTS, MAX_UNAUTH_PER_IP,
          Addr, NoAddr,
          Session, NoSession,   \* forked processes
          Sockets,              \* how many sockets listen
          MaxBacklog            \* bound: connections waiting on a socket

ASSUME LimitAssumption == MAX_UNAUTH_CLIENTS \in Nat /\ MAX_UNAUTH_PER_IP \in Nat
ASSUME AddrAssumption == NoAddr \notin Addr
ASSUME SessionAssumption == NoSession \notin Session
ASSUME SocketAssumption == Sockets \in Nat /\ MaxBacklog \in Nat

Slot == 0 .. MAX_UNAUTH_CLIENTS - 1
Listener == 1 .. Sockets

VARIABLES childpipes, preauth_addrs,  \* arrays of main_noinetd
          pc,        \* "top" of the loop, in "select", "accept", "exited"
          fds,       \* listening sockets select() reported, not yet handled
          exitflag,  \* ses.exitflag
          eintr,     \* a signal arrived while select() was blocked
          backlog,   \* connections the kernel holds for accept()
          sess,      \* "none", "preauth" or "authed"
          addr,      \* peer address of a session
          pipe       \* sessions that hold the write end of their pipe

loopVars == <<childpipes, preauth_addrs, pc, fds>>
sessVars == <<sess, addr, pipe>>
vars == <<loopVars, exitflag, eintr, backlog, sessVars>>

(* Every variable holds a value of its kind, and a slot has an address     *)
(* exactly when it has a pipe: strcmp(remote_host, preauth_addrs[j]) never *)
(* meets a null pointer.                                                   *)
TypeOK ==
  /\ childpipes \in [Slot -> Session \cup {NoSession}]
  /\ preauth_addrs \in [Slot -> Addr \cup {NoAddr}]
  /\ \A i \in Slot : childpipes[i] = NoSession <=> preauth_addrs[i] = NoAddr
  /\ pc \in {"top", "select", "accept", "exited"}
  /\ fds \in SUBSET Listener
  /\ exitflag \in BOOLEAN
  /\ eintr \in BOOLEAN
  /\ backlog \in [Listener -> Seq(Addr)]
  /\ sess \in [Session -> {"none", "preauth", "authed"}]
  /\ addr \in [Session -> Addr \cup {NoAddr}]
  /\ pipe \in SUBSET Session

Init ==
  /\ childpipes = [i \in Slot |-> NoSession]
  /\ preauth_addrs = [i \in Slot |-> NoAddr]
  /\ pc = "top"
  /\ fds = {}
  /\ exitflag = FALSE
  /\ eintr = FALSE
  /\ backlog = [l \in Listener |-> <<>>]
  /\ sess = [s \in Session |-> "none"]
  /\ addr = [s \in Session |-> NoAddr]
  /\ pipe = {}

-----------------------------------------------------------------------------
(* The outside: clients connect, somebody sends SIGINT or SIGTERM.         *)

Connect(l, a) ==
  /\ pc # "exited"
  /\ Len(backlog[l]) < MaxBacklog
  /\ backlog' = [backlog EXCEPT ![l] = Append(@, a)]
  /\ UNCHANGED <<loopVars, exitflag, eintr, sessVars>>

(* sigintterm_handler(): only an already blocked select() is interrupted. *)
sigintterm_handler ==
  /\ pc # "exited"
  /\ ~exitflag
  /\ exitflag' = TRUE
  /\ eintr' = (eintr \/ pc = "select")
  /\ UNCHANGED <<loopVars, backlog, sessVars>>

-----------------------------------------------------------------------------
(* The session processes.                                                  *)

(* Mutant of send_msg_userauth_success: keeps the pipe open. *)
send_msg_userauth_success_KeepPipe(s) ==
  /\ sess[s] = "preauth"
  /\ sess' = [sess EXCEPT ![s] = "authed"]
  /\ UNCHANGED <<loopVars, exitflag, eintr, backlog, addr, pipe>>

(* send_msg_userauth_success(): m_close(svr_ses.childpipe). *)
send_msg_userauth_success(s) ==
  /\ sess[s] = "preauth"
  /\ sess' = [sess EXCEPT ![s] = "authed"]
  /\ pipe' = pipe \ {s}
  /\ UNCHANGED <<loopVars, exitflag, eintr, backlog, addr>>

(***************************************************************************)
(* A session exits: AUTH_TIMEOUT, too many failures, disconnect, end of    *)
(* the login, crash.  The kernel closes its pipe and SIGCHLD interrupts a  *)
(* blocked select(); sigchld_handler() reaps it.                           *)
(***************************************************************************)
SessionExit(s) ==
  /\ sess[s] # "none"
  /\ sess' = [sess EXCEPT ![s] = "none"]
  /\ addr' = [addr EXCEPT ![s] = NoAddr]
  /\ pipe' = pipe \ {s}
  /\ eintr' = (eintr \/ pc = "select")
  /\ UNCHANGED <<loopVars, exitflag, backlog>>

-----------------------------------------------------------------------------
(* The loop.                                                               *)

(* Slots whose pipe has no writer left: select() reports them readable. *)
HungUp == {i \in Slot : childpipes[i] # NoSession /\ childpipes[i] \notin pipe}

Waiting == {l \in Listener : backlog[l] # <<>>}

EnterSelect ==
  /\ pc = "top"
  /\ pc' = "select"
  /\ eintr' = FALSE
  /\ UNCHANGED <<childpipes, preauth_addrs, fds, exitflag, backlog, sessVars>>

(* select() returns and ses.exitflag is set: dropbear_close(). *)
TerminatedBySignal ==
  /\ pc = "select"
  /\ eintr \/ HungUp # {} \/ Waiting # {}
  /\ exitflag
  /\ pc' = "exited"
  /\ UNCHANGED <<childpipes, preauth_addrs, fds, exitflag, eintr, backlog, sessVars>>

(* select() returns EINTR without an exitflag: continue. *)
Interrupted ==
  /\ pc = "select"
  /\ eintr
  /\ ~exitflag
  /\ pc' = "top"
  /\ UNCHANGED <<childpipes, preauth_addrs, fds, exitflag, eintr, backlog, sessVars>>

(* Mutant of SelectReturns: does not look at ses.exitflag. *)
SelectReturns_NoExit ==
  /\ pc = "select"
  /\ HungUp \cup Waiting # {}
  /\ childpipes' = [i \in Slot |-> IF i \in HungUp THEN NoSession ELSE childpipes[i]]
  /\ preauth_addrs' = [i \in Slot |-> IF i \in HungUp THEN NoAddr ELSE preauth_addrs[i]]
  /\ fds' = Waiting
  /\ pc' = IF Waiting = {} THEN "top" ELSE "accept"
  /\ UNCHANGED <<exitflag, eintr, backlog, sessVars>>

(* Mutant of SelectReturns: forgets the address but not the pipe. *)
SelectReturns_NoReset ==
  /\ pc = "select"
  /\ HungUp \cup Waiting # {}
  /\ ~exitflag
  /\ preauth_addrs' = [i \in Slot |-> IF i \in HungUp THEN NoAddr ELSE preauth_addrs[i]]
  /\ fds' = Waiting
  /\ pc' = IF Waiting = {} THEN "top" ELSE "accept"
  /\ UNCHANGED <<childpipes, exitflag, eintr, backlog, sessVars>>

(* select() returns descriptors: free the slots of sessions that           *)
(* authenticated or are gone, then look at the listening sockets.          *)
SelectReturns ==
  /\ pc = "select"
  /\ HungUp \cup Waiting # {}
  /\ ~exitflag
  /\ childpipes' = [i \in Slot |-> IF i \in HungUp THEN NoSession ELSE childpipes[i]]
  /\ preauth_addrs' = [i \in Slot |-> IF i \in HungUp THEN NoAddr ELSE preauth_addrs[i]]
  /\ fds' = Waiting
  /\ pc' = IF Waiting = {} THEN "top" ELSE "accept"
  /\ UNCHANGED <<exitflag, eintr, backlog, sessVars>>

Occupied == {i \in Slot : childpipes[i] # NoSession}
OccupiedBy(a) == {i \in Occupied : preauth_addrs[i] = a}

(* conn_idx: the last free slot, 0 when there is none. *)
conn_idx ==
  IF Occupied = Slot THEN 0
  ELSE CHOOSE j \in Slot \ Occupied : \A k \in Slot \ Occupied : k <= j

(* Mutant of TooMany: looks at the limit per address only. *)
TooMany_PerAddr(a) == Cardinality(OccupiedBy(a)) >= MAX_UNAUTH_PER_IP

(* Mutant of TooMany: off by one in the limit per address. *)
TooMany_OffByOne(a) ==
  \/ Cardinality(Occupied) >= MAX_UNAUTH_CLIENTS
  \/ Cardinality(OccupiedBy(a)) > MAX_UNAUTH_PER_IP

TooMany(a) ==
  \/ Cardinality(Occupied) >= MAX_UNAUTH_CLIENTS
  \/ Cardinality(OccupiedBy(a)) >= MAX_UNAUTH_PER_IP

(* The iteration of the for loop for listening socket l. *)
Handle(l) ==
  /\ pc = "accept"
  /\ l \in fds
  /\ \A k \in fds : l <= k
  /\ fds' = fds \ {l}
  /\ pc' = IF fds = {l} THEN "top" ELSE "accept"

(* accept() fails: interrupted, or no descriptor left. *)
AcceptFails(l) ==
  /\ Handle(l)
  /\ UNCHANGED <<childpipes, preauth_addrs, exitflag, eintr, backlog, sessVars>>

(* goto out: over a limit, or pipe() or fork() failed. *)
Refuse(l) ==
  /\ Handle(l)
  /\ backlog' = [backlog EXCEPT ![l] = Tail(@)]
  /\ UNCHANGED <<childpipes, preauth_addrs, exitflag, eintr, sessVars>>

(***************************************************************************)
(* pipe() and fork() succeed.  A session that a slot still refers to is    *)
(* another pipe than the new one, so its name is not used again.           *)
(***************************************************************************)
Serve(l) ==
  LET a == Head(backlog[l])
  IN  /\ Handle(l)
      /\ ~TooMany(a)
      /\ backlog' = [backlog EXCEPT ![l] = Tail(@)]
      /\ \E s \in {t \in Session : sess[t] = "none"} \ {childpipes[i] : i \in Slot} :
           /\ childpipes' = [childpipes EXCEPT ![conn_idx] = s]
           /\ preauth_addrs' = [preauth_addrs EXCEPT ![conn_idx] = a]
           /\ sess' = [sess EXCEPT ![s] = "preauth"]
           /\ addr' = [addr EXCEPT ![s] = a]
           /\ pipe' = pipe \cup {s}
      /\ UNCHANGED <<exitflag, eintr>>

SelectStep == EnterSelect \/ TerminatedBySignal \/ Interrupted \/ SelectReturns

AcceptStep == \E l \in Listener : AcceptFails(l) \/ Refuse(l) \/ Serve(l)

SessionStep(s) == send_msg_userauth_success(s) \/ SessionExit(s)

Next ==
  \/ \E l \in Listener, a \in Addr : Connect(l, a)
  \/ sigintterm_handler
  \/ SelectStep
  \/ AcceptStep
  \/ \E s \in Session : SessionStep(s)

Spec == Init /\ [][Next]_vars

(***************************************************************************)
(* The loop keeps running, and AUTH_TIMEOUT ends every session that does   *)
(* not authenticate.                                                       *)
(***************************************************************************)
Fairness ==
  /\ WF_vars(SelectStep \/ AcceptStep)
  /\ \A s \in Session : WF_vars(sess[s] = "preauth" /\ SessionStep(s))

FairSpec == Spec /\ Fairness

-----------------------------------------------------------------------------
(* Properties *)

(* Every session that has not authenticated has one slot, with its own     *)
(* address: the counts of the loop miss nobody, although slots are freed   *)
(* and reused while sessions come and go.                                  *)
SlotPerSession ==
  \A s \in Session : sess[s] = "preauth" =>
    \E i \in Slot : /\ childpipes[i] = s
                    /\ preauth_addrs[i] = addr[s]
                    /\ \A j \in Slot : childpipes[j] = s => j = i

Preauth == {s \in Session : sess[s] = "preauth"}

(* default_options.h: never more than MAX_UNAUTH_CLIENTS clients that are  *)
(* connected and not authenticated, and MAX_UNAUTH_PER_IP of one address.  *)
UnauthLimits ==
  /\ Cardinality(Preauth) <= MAX_UNAUTH_CLIENTS
  /\ \A a \in Addr : Cardinality({s \in Preauth : addr[s] = a}) <= MAX_UNAUTH_PER_IP

AbstractUnauth == [s \in Session |-> IF sess[s] = "preauth" THEN addr[s] ELSE NoAddr]

Abstract == INSTANCE Admission WITH unauth <- AbstractUnauth

(* The loop implements the admission rule although it counts slots, which  *)
(* lag behind the sessions.                                                *)
ImplementsAdmission == Abstract!Spec

(* No connection slot leaks ("a nasty situation", svr-auth.c): the slot a  *)
(* session got is given back once it authenticates or times out.           *)
SlotsReleased ==
  \A i \in Slot : \A s \in Session :
    childpipes[i] = s ~> (childpipes[i] # s \/ pc = "exited")

(* SIGTERM is not lost: the loop ends, also when the signal interrupts an  *)
(* idle select(), unless the signal came just before select(), which then  *)
(* blocks with nothing to report.                                          *)
TermNotLost ==
  exitflag ~> \/ pc = "exited"
              \/ pc = "select" /\ HungUp \cup Waiting = {} /\ ~eintr
=============================================================================
