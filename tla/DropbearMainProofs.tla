-------------------------- MODULE DropbearMainProofs --------------------------
(* Theorems about DropbearMain, for any limits, sockets and sessions. *)
EXTENDS DropbearMain, FiniteSetTheorems, WellFoundedInduction, TLAPS

-----------------------------------------------------------------------------
(* The inductive invariant, in parts. *)

(* A session keeps its pipe exactly until it has authenticated, and its    *)
(* address is known.                                                       *)
PipeOK == \A s \in Session :
  /\ s \in pipe <=> sess[s] = "preauth"
  /\ sess[s] = "preauth" => addr[s] \in Addr

(* select() reported a socket only if a connection waits on it. *)
FdsOK == \A l \in fds : backlog[l] # <<>>

(* The slots of one address stay within the limit. *)
SlotLimit == \A a \in Addr : Cardinality(OccupiedBy(a)) <= MAX_UNAUTH_PER_IP

IndInv ==
  /\ TypeOK
  /\ PipeOK
  /\ FdsOK
  /\ SlotLimit
  /\ SlotPerSession

-----------------------------------------------------------------------------
(* Sequences and finite sets. *)

(* Head and tail of a queue that is not empty. *)
LEMMA TailSeq ==
  ASSUME NEW S, NEW q \in Seq(S), q # <<>>
  PROVE  Head(q) \in S /\ Tail(q) \in Seq(S)
OBVIOUS

(* Appending to a queue. *)
LEMMA AppendSeq ==
  ASSUME NEW S, NEW q \in Seq(S), NEW x \in S
  PROVE  Append(q, x) \in Seq(S) /\ Append(q, x) # <<>>
<1>1. Append(q, x) \in Seq(S) /\ Len(Append(q, x)) = Len(q) + 1 /\ Len(q) \in Nat
  OBVIOUS
<1>2. Len(<<>>) = 0
  OBVIOUS
<1>3. Len(Append(q, x)) # 0
  BY <1>1
<1>. QED
  BY <1>1, <1>2, <1>3

(* There are MAX_UNAUTH_CLIENTS slots. *)
LEMMA SlotFinite ==
  /\ IsFiniteSet(Slot)
  /\ Cardinality(Slot) = MAX_UNAUTH_CLIENTS
<1>1. MAX_UNAUTH_CLIENTS \in Nat
  BY LimitAssumption
<1>2. 0 \in Int /\ MAX_UNAUTH_CLIENTS - 1 \in Int
  BY <1>1
<1>3. /\ IsFiniteSet(0 .. MAX_UNAUTH_CLIENTS - 1)
      /\ Cardinality(0 .. MAX_UNAUTH_CLIENTS - 1)
           = IF 0 > MAX_UNAUTH_CLIENTS - 1 THEN 0 ELSE MAX_UNAUTH_CLIENTS - 1 - 0 + 1
  BY <1>2, FS_Interval
<1>. QED
  BY <1>1, <1>3 DEF Slot

(* A set of slots is finite and has a natural number of elements. *)
LEMMA SlotSubset ==
  ASSUME NEW T \in SUBSET Slot
  PROVE  /\ IsFiniteSet(T)
         /\ Cardinality(T) \in Nat
         /\ Cardinality(T) <= MAX_UNAUTH_CLIENTS
         /\ Cardinality(T) = MAX_UNAUTH_CLIENTS => T = Slot
BY SlotFinite, FS_Subset, FS_CardinalityType

(* Sessions with slots of their own in T are no more than T has slots. *)
LEMMA Counting ==
  ASSUME NEW T \in SUBSET Slot, NEW P,
         \A s \in P : \E i \in T : childpipes[i] = s
  PROVE  /\ IsFiniteSet(P)
         /\ Cardinality(P) \in Nat
         /\ Cardinality(P) <= Cardinality(T)
<1>. DEFINE f == [s \in P |-> CHOOSE i \in T : childpipes[i] = s]
<1>1. \A s \in P : f[s] \in T /\ childpipes[f[s]] = s
  OBVIOUS
<1>2. f \in Injection(P, T)
  BY <1>1 DEF Injection, IsInjective
<1>. QED
  BY <1>2, SlotSubset, FS_Injection, FS_CardinalityType

(* The loop's counts are upper bounds of the numbers of clients. *)
LEMMA Counts ==
  ASSUME TypeOK, SlotPerSession
  PROVE  /\ Cardinality(Preauth) \in Nat
         /\ Cardinality(Preauth) <= Cardinality(Occupied)
         /\ \A a \in Addr :
              /\ Cardinality({s \in Preauth : addr[s] = a}) \in Nat
              /\ Cardinality({s \in Preauth : addr[s] = a}) <= Cardinality(OccupiedBy(a))
<1>1. /\ Occupied \in SUBSET Slot
      /\ \A s \in Preauth : \E i \in Occupied : childpipes[i] = s
  BY SessionAssumption DEF TypeOK, SlotPerSession, Preauth, Occupied
<1>2. ASSUME NEW a \in Addr
      PROVE  /\ OccupiedBy(a) \in SUBSET Slot
             /\ \A s \in {t \in Preauth : addr[t] = a} :
                  \E i \in OccupiedBy(a) : childpipes[i] = s
  BY SessionAssumption DEF TypeOK, SlotPerSession, Preauth, Occupied, OccupiedBy
<1>3. /\ Cardinality(Preauth) \in Nat
      /\ Cardinality(Preauth) <= Cardinality(Occupied)
  BY <1>1, Counting
<1>4. ASSUME NEW a \in Addr
      PROVE  /\ Cardinality({s \in Preauth : addr[s] = a}) \in Nat
             /\ Cardinality({s \in Preauth : addr[s] = a}) <= Cardinality(OccupiedBy(a))
  BY <1>2, Counting
<1>. QED
  BY <1>3, <1>4

-----------------------------------------------------------------------------
(* The steps. *)

(* The invariant holds when the loop starts: all slots are free. *)
LEMMA InitInv == Init => IndInv
<1>. SUFFICES ASSUME Init PROVE IndInv
  OBVIOUS
<1>1. TypeOK
  <2>1. backlog \in [Listener -> Seq(Addr)]
    BY DEF Init
  <2>. QED
    BY <2>1 DEF Init, TypeOK
<1>2. PipeOK /\ FdsOK /\ SlotPerSession
  BY DEF Init, PipeOK, FdsOK, SlotPerSession
<1>3. SlotLimit
  <2>1. \A a \in Addr : OccupiedBy(a) = {}
    BY DEF Init, OccupiedBy, Occupied
  <2>2. Cardinality({}) = 0
    BY FS_EmptySet
  <2>. QED
    BY <2>1, <2>2, LimitAssumption DEF SlotLimit
<1>. QED
  BY <1>1, <1>2, <1>3 DEF IndInv

(* A non-empty set of slots has a last element. *)
LEMMA LastSlot ==
  ASSUME NEW F \in SUBSET Slot, F # {}
  PROVE  \E j \in F : \A k \in F : k <= j
<1>. DEFINE T == {n \in Nat : MAX_UNAUTH_CLIENTS - 1 - n \in F}
<1>1. MAX_UNAUTH_CLIENTS \in Nat
  BY LimitAssumption
<1>2. PICK j \in F : TRUE
  OBVIOUS
<1>3. MAX_UNAUTH_CLIENTS - 1 - j \in T
  BY <1>1, <1>2 DEF Slot
<1>4. PICK x \in T : \A y \in T : ~(<<y, x>> \in OpToRel(<, Nat))
  <2>1. T \subseteq Nat /\ T # {}
    BY <1>3
  <2>. HIDE DEF T
  <2>. QED
    BY <2>1, NatLessThanWellFounded, WFMin
<1>5. \A y \in T : ~(y < x)
  BY <1>4 DEF OpToRel
<1>6. ASSUME NEW k \in F PROVE k <= MAX_UNAUTH_CLIENTS - 1 - x
  <2>1. MAX_UNAUTH_CLIENTS - 1 - k \in T
    BY <1>1 DEF Slot
  <2>2. ~(MAX_UNAUTH_CLIENTS - 1 - k < x)
    BY <1>5, <2>1
  <2>. QED
    BY <1>1, <2>2 DEF Slot
<1>. QED
  BY <1>6

(* With a slot left, conn_idx is a free one. *)
LEMMA ConnIdx ==
  ASSUME TypeOK, NEW a, ~TooMany(a)
  PROVE  conn_idx \in Slot \ Occupied
<1>1. Occupied # Slot
  BY SlotFinite, LimitAssumption DEF TooMany
<1>2. Slot \ Occupied \in SUBSET Slot /\ Slot \ Occupied # {}
  BY <1>1 DEF Occupied
<1>3. \E j \in Slot \ Occupied : \A k \in Slot \ Occupied : k <= j
  BY <1>2, LastSlot
<1>. QED
  BY <1>1, <1>3 DEF conn_idx

(* A step that changes neither slots nor sessions keeps what is about them. *)
LEMMA SlotsKept ==
  ASSUME IndInv, UNCHANGED <<childpipes, preauth_addrs, sessVars>>
  PROVE  PipeOK' /\ SlotLimit' /\ SlotPerSession'
<1>1. \A a : OccupiedBy(a)' = OccupiedBy(a)
  BY DEF OccupiedBy, Occupied
<1>. QED
  BY <1>1 DEF IndInv, PipeOK, SlotLimit, SlotPerSession, sessVars

(* A step that leaves the listening sockets alone. *)
LEMMA ConnectInv ==
  ASSUME IndInv, NEW l \in Listener, NEW a \in Addr, Connect(l, a)
  PROVE  IndInv'
<1>1. TypeOK
  BY DEF IndInv
<1>2. Append(backlog[l], a) \in Seq(Addr) /\ Append(backlog[l], a) # <<>>
  BY <1>1, AppendSeq DEF TypeOK
<1>3. TypeOK'
  BY <1>1, <1>2 DEF Connect, TypeOK, loopVars, sessVars
<1>4. FdsOK'
  BY <1>1, <1>2 DEF Connect, IndInv, FdsOK, TypeOK, loopVars
<1>5. PipeOK' /\ SlotLimit' /\ SlotPerSession'
  BY SlotsKept DEF Connect, loopVars
<1>. QED
  BY <1>3, <1>4, <1>5 DEF IndInv

(* Only pc, exitflag and eintr change. *)
LEMMA SignalInv ==
  ASSUME IndInv,
         sigintterm_handler \/ EnterSelect \/ TerminatedBySignal \/ Interrupted
  PROVE  IndInv'
<1>. USE DEF sigintterm_handler, EnterSelect, TerminatedBySignal, Interrupted, loopVars, sessVars
<1>1. exitflag' \in BOOLEAN /\ eintr' \in BOOLEAN
  <2>1. exitflag \in BOOLEAN /\ eintr \in BOOLEAN
    BY DEF IndInv, TypeOK
  <2>. QED
    BY <2>1, Zenon
<1>2. TypeOK' /\ FdsOK'
  BY <1>1 DEF IndInv, TypeOK, FdsOK
<1>3. PipeOK' /\ SlotLimit' /\ SlotPerSession'
  BY SlotsKept
<1>. QED
  BY <1>2, <1>3 DEF IndInv

(* A session authenticates or exits: its pipe is closed. *)
LEMMA SessionInv ==
  ASSUME IndInv, NEW s \in Session, SessionStep(s)
  PROVE  IndInv'
<1>. USE DEF SessionStep, send_msg_userauth_success, SessionExit, loopVars
<1>1. eintr' \in BOOLEAN
  <2>1. eintr \in BOOLEAN
    BY DEF IndInv, TypeOK
  <2>. QED
    BY <2>1, Zenon
<1>2. TypeOK' /\ FdsOK'
  BY <1>1 DEF IndInv, TypeOK, FdsOK
<1>3. PipeOK'
  BY DEF IndInv, TypeOK, PipeOK
<1>4. SlotPerSession'
  <2>1. ASSUME NEW t \in Session, sess'[t] = "preauth"
        PROVE  sess[t] = "preauth" /\ addr'[t] = addr[t]
    BY <2>1 DEF IndInv, TypeOK
  <2>2. childpipes' = childpipes /\ preauth_addrs' = preauth_addrs
    OBVIOUS
  <2>. QED
    BY <2>1, <2>2 DEF IndInv, SlotPerSession
<1>5. \A a : OccupiedBy(a)' = OccupiedBy(a)
  BY DEF OccupiedBy, Occupied
<1>6. SlotLimit'
  BY <1>5 DEF IndInv, SlotLimit
<1>. QED
  BY <1>2, <1>3, <1>4, <1>6 DEF IndInv

(* Slots whose pipe hung up are freed: no unauthenticated session loses    *)
(* its slot, and the slots of an address only become fewer.                *)
LEMMA SelectInv ==
  ASSUME IndInv, SelectReturns
  PROVE  IndInv'
<1>. USE DEF SelectReturns
<1>1. TypeOK' /\ FdsOK'
  BY DEF IndInv, TypeOK, FdsOK, Waiting, HungUp, sessVars
<1>2. PipeOK'
  BY DEF IndInv, PipeOK, sessVars
<1>3. SlotPerSession'
  BY SessionAssumption DEF IndInv, TypeOK, PipeOK, SlotPerSession, HungUp, sessVars
<1>4. ASSUME NEW a \in Addr
      PROVE  Cardinality(OccupiedBy(a)') <= MAX_UNAUTH_PER_IP
  <2>1. OccupiedBy(a)' \in SUBSET OccupiedBy(a) /\ OccupiedBy(a) \in SUBSET Slot
    BY AddrAssumption DEF IndInv, TypeOK, OccupiedBy, Occupied, HungUp
  <2>2. /\ Cardinality(OccupiedBy(a)) \in Nat
        /\ Cardinality(OccupiedBy(a)') \in Nat
        /\ Cardinality(OccupiedBy(a)') <= Cardinality(OccupiedBy(a))
    BY <2>1, SlotSubset, FS_Subset
  <2>3. Cardinality(OccupiedBy(a)) <= MAX_UNAUTH_PER_IP
    BY DEF IndInv, SlotLimit
  <2>. QED
    BY <2>2, <2>3, LimitAssumption
<1>. QED
  BY <1>1, <1>2, <1>3, <1>4 DEF IndInv, SlotLimit

(* A connection is dropped, or accept() failed. *)
LEMMA RefuseInv ==
  ASSUME IndInv, NEW l \in Listener, AcceptFails(l) \/ Refuse(l)
  PROVE  IndInv'
<1>. USE DEF AcceptFails, Refuse, Handle
<1>1. TypeOK /\ FdsOK
  BY DEF IndInv
<1>2. Tail(backlog[l]) \in Seq(Addr)
  BY <1>1, TailSeq DEF TypeOK, FdsOK
<1>3. TypeOK'
  BY <1>1, <1>2 DEF TypeOK, sessVars
<1>4. FdsOK'
  BY <1>1 DEF TypeOK, FdsOK
<1>5. PipeOK' /\ SlotLimit' /\ SlotPerSession'
  BY SlotsKept
<1>. QED
  BY <1>3, <1>4, <1>5 DEF IndInv

(* What a successful accept() and fork() do: a free slot gets a new session. *)
LEMMA ServeFacts ==
  ASSUME IndInv, NEW l \in Listener, Serve(l)
  PROVE  \E a \in Addr, s \in Session, i \in Slot :
           /\ a = Head(backlog[l])
           /\ ~TooMany(a)
           /\ i = conn_idx
           /\ childpipes[i] = NoSession
           /\ sess[s] = "none"
           /\ \A j \in Slot : childpipes[j] # s
           /\ childpipes' = [childpipes EXCEPT ![i] = s]
           /\ preauth_addrs' = [preauth_addrs EXCEPT ![i] = a]
           /\ sess' = [sess EXCEPT ![s] = "preauth"]
           /\ addr' = [addr EXCEPT ![s] = a]
           /\ pipe' = pipe \cup {s}
<1>. DEFINE a == Head(backlog[l])
<1>1. a \in Addr
  BY TailSeq DEF IndInv, TypeOK, FdsOK, Serve, Handle
<1>2. ~TooMany(a)
  BY DEF Serve
<1>3. conn_idx \in Slot /\ childpipes[conn_idx] = NoSession
  BY <1>2, ConnIdx DEF IndInv, Occupied
<1>. QED
  BY <1>1, <1>2, <1>3 DEF Serve

(* A new session preserves it: a free slot, and no limit is passed. *)
LEMMA ServeInv ==
  ASSUME IndInv, NEW l \in Listener, Serve(l)
  PROVE  IndInv'
<1>1. PICK a \in Addr, s \in Session, i \in Slot :
        /\ a = Head(backlog[l])
        /\ ~TooMany(a)
        /\ i = conn_idx
        /\ childpipes[i] = NoSession
        /\ sess[s] = "none"
        /\ \A j \in Slot : childpipes[j] # s
        /\ childpipes' = [childpipes EXCEPT ![i] = s]
        /\ preauth_addrs' = [preauth_addrs EXCEPT ![i] = a]
        /\ sess' = [sess EXCEPT ![s] = "preauth"]
        /\ addr' = [addr EXCEPT ![s] = a]
        /\ pipe' = pipe \cup {s}
  BY ServeFacts
<1>2. TypeOK /\ FdsOK
  BY DEF IndInv
<1>3. Tail(backlog[l]) \in Seq(Addr)
  BY <1>2, TailSeq DEF TypeOK, FdsOK, Serve, Handle
<1>4. /\ pc' \in {"top", "accept"} /\ fds' = fds \ {l}
      /\ backlog' = [backlog EXCEPT ![l] = Tail(backlog[l])]
      /\ exitflag' = exitflag /\ eintr' = eintr
  BY DEF Serve, Handle
<1>5. TypeOK'
  BY <1>1, <1>2, <1>3, <1>4, SessionAssumption, AddrAssumption DEF TypeOK
<1>6. FdsOK'
  BY <1>2, <1>4 DEF TypeOK, FdsOK
<1>7. PipeOK'
  BY <1>1 DEF IndInv, TypeOK, PipeOK
<1>8. SlotPerSession'
  <2>1. SUFFICES ASSUME NEW t \in Session, sess'[t] = "preauth"
                 PROVE  \E k \in Slot : /\ childpipes'[k] = t
                                        /\ preauth_addrs'[k] = addr'[t]
                                        /\ \A j \in Slot : childpipes'[j] = t => j = k
    BY DEF SlotPerSession
  <2>2. CASE t = s
    <3>1. childpipes'[i] = t /\ preauth_addrs'[i] = addr'[t]
      BY <1>1, <1>2, <2>2 DEF TypeOK
    <3>2. \A j \in Slot : childpipes'[j] = t => j = i
      BY <1>1, <1>2, <2>2 DEF TypeOK
    <3>. QED
      BY <3>1, <3>2
  <2>3. CASE t # s
    <3>1. sess[t] = "preauth" /\ addr'[t] = addr[t]
      BY <1>1, <1>2, <2>1, <2>3 DEF TypeOK
    <3>2. PICK k \in Slot : /\ childpipes[k] = t
                            /\ preauth_addrs[k] = addr[t]
                            /\ \A j \in Slot : childpipes[j] = t => j = k
      BY <3>1 DEF IndInv, SlotPerSession
    <3>3. k # i
      BY <1>1, <3>2, SessionAssumption
    <3>4. childpipes'[k] = t /\ preauth_addrs'[k] = addr'[t]
      BY <1>1, <1>2, <3>1, <3>2, <3>3 DEF TypeOK
    <3>5. \A j \in Slot : childpipes'[j] = t => j = k
      BY <1>1, <1>2, <2>3, <3>2 DEF TypeOK
    <3>. QED
      BY <3>4, <3>5
  <2>. QED
    BY <2>2, <2>3
<1>9. ASSUME NEW b \in Addr
      PROVE  Cardinality(OccupiedBy(b)') <= MAX_UNAUTH_PER_IP
  <2>1. OccupiedBy(b) \in SUBSET Slot
    BY DEF OccupiedBy, Occupied
  <2>2. Cardinality(OccupiedBy(b)) \in Nat /\ IsFiniteSet(OccupiedBy(b))
    BY <2>1, SlotSubset
  <2>3. Cardinality(OccupiedBy(b)) <= MAX_UNAUTH_PER_IP
    BY DEF IndInv, SlotLimit
  <2>4. CASE b = a
    <3>1. OccupiedBy(b)' = OccupiedBy(b) \cup {i}
      BY <1>1, <1>2, <2>4, SessionAssumption DEF TypeOK, OccupiedBy, Occupied
    <3>2. ~(Cardinality(OccupiedBy(b)) >= MAX_UNAUTH_PER_IP)
      BY <1>1, <2>4 DEF TooMany
    <3>3. Cardinality(OccupiedBy(b) \cup {i})
            = IF i \in OccupiedBy(b) THEN Cardinality(OccupiedBy(b))
                                     ELSE Cardinality(OccupiedBy(b)) + 1
      BY <2>2, FS_AddElement
    <3>. QED
      BY <3>1, <3>2, <3>3, <2>2, LimitAssumption
  <2>5. CASE b # a
    <3>1. OccupiedBy(b)' = OccupiedBy(b)
      BY <1>1, <1>2, <2>5, SessionAssumption, AddrAssumption DEF TypeOK, OccupiedBy, Occupied
    <3>. QED
      BY <3>1, <2>3
  <2>. QED
    BY <2>4, <2>5
<1>. QED
  BY <1>5, <1>6, <1>7, <1>8, <1>9 DEF IndInv, SlotLimit

(* Every step of the specification preserves the invariant. *)
LEMMA NextInv == IndInv /\ [Next]_vars => IndInv'
<1>. SUFFICES ASSUME IndInv, [Next]_vars PROVE IndInv'
  OBVIOUS
<1>1. ASSUME NEW l \in Listener, NEW a \in Addr, Connect(l, a) PROVE IndInv'
  BY <1>1, ConnectInv
<1>2. CASE sigintterm_handler
  BY <1>2, SignalInv
<1>3. CASE SelectStep
  BY <1>3, SignalInv, SelectInv DEF SelectStep
<1>4. CASE AcceptStep
  BY <1>4, RefuseInv, ServeInv DEF AcceptStep
<1>5. ASSUME NEW s \in Session, SessionStep(s) PROVE IndInv'
  BY <1>5, SessionInv
<1>6. CASE UNCHANGED vars
  <2>1. TypeOK' /\ FdsOK'
    BY <1>6 DEF vars, loopVars, sessVars, IndInv, TypeOK, FdsOK
  <2>2. PipeOK' /\ SlotLimit' /\ SlotPerSession'
    BY <1>6, SlotsKept DEF vars, loopVars, sessVars
  <2>. QED
    BY <2>1, <2>2 DEF IndInv
<1>. QED
  BY <1>1, <1>2, <1>3, <1>4, <1>5, <1>6 DEF Next

(* The invariant holds in every reachable state. *)
LEMMA Invariance == Spec => []IndInv
BY InitInv, NextInv, PTL DEF Spec

-----------------------------------------------------------------------------
(* Every variable keeps its type, and slots have addresses exactly when    *)
(* they have pipes.                                                        *)
THEOREM TypeCorrect == Spec => []TypeOK
<1>1. IndInv => TypeOK
  BY DEF IndInv
<1>. QED
  BY <1>1, Invariance, PTL

(* An unauthenticated session always has exactly one slot of the loop,     *)
(* with its address.                                                       *)
THEOREM EverySessionHasSlot == Spec => []SlotPerSession
<1>1. IndInv => SlotPerSession
  BY DEF IndInv
<1>. QED
  BY <1>1, Invariance, PTL

(* The limits on unauthenticated clients hold, for any limits: the loop's  *)
(* slots are an upper bound of the sessions.                               *)
THEOREM LimitsHold == Spec => []UnauthLimits
<1>1. ASSUME IndInv PROVE UnauthLimits
  <2>1. TypeOK /\ SlotPerSession /\ SlotLimit
    BY <1>1 DEF IndInv
  <2>2. /\ Cardinality(Preauth) \in Nat
        /\ Cardinality(Preauth) <= Cardinality(Occupied)
    BY <2>1, Counts
  <2>3. /\ Cardinality(Occupied) \in Nat
        /\ Cardinality(Occupied) <= MAX_UNAUTH_CLIENTS
    <3>1. Occupied \in SUBSET Slot
      BY DEF Occupied
    <3>. QED
      BY <3>1, SlotSubset
  <2>4. ASSUME NEW a \in Addr
        PROVE  Cardinality({s \in Preauth : addr[s] = a}) <= MAX_UNAUTH_PER_IP
    <3>1. /\ Cardinality({s \in Preauth : addr[s] = a}) \in Nat
          /\ Cardinality({s \in Preauth : addr[s] = a}) <= Cardinality(OccupiedBy(a))
      BY <2>1, Counts
    <3>2. Cardinality(OccupiedBy(a)) \in Nat
      <4>1. OccupiedBy(a) \in SUBSET Slot
        BY DEF OccupiedBy, Occupied
      <4>. QED
        BY <4>1, SlotSubset
    <3>3. Cardinality(OccupiedBy(a)) <= MAX_UNAUTH_PER_IP
      BY <2>1 DEF SlotLimit
    <3>. QED
      BY <3>1, <3>2, <3>3, LimitAssumption
  <2>. QED
    BY <2>2, <2>3, <2>4, LimitAssumption DEF UnauthLimits
<1>. QED
  BY <1>1, Invariance, PTL

-----------------------------------------------------------------------------
(* Refinement of Admission. *)

(* Admission counts with its own copy of Cardinality. *)
LEMMA SameCardinality ==
  ASSUME NEW S
  PROVE  Abstract!Cardinality(S) = Cardinality(S)
BY DEF Cardinality, Abstract!Cardinality

(* The clients of the abstract specification are the unauthenticated       *)
(* sessions.                                                               *)
LEMMA AbstractSets ==
  ASSUME IndInv
  PROVE  /\ Abstract!Unauthenticated = Preauth
         /\ \A a \in Addr : Abstract!UnauthenticatedFrom(a) = {s \in Preauth : addr[s] = a}
BY AddrAssumption
   DEF IndInv, PipeOK, AbstractUnauth, Preauth,
       Abstract!Unauthenticated, Abstract!UnauthenticatedFrom

(* A session that gets a slot was admitted within the limits. *)
LEMMA ServeAdmits ==
  ASSUME IndInv, NEW l \in Listener, Serve(l)
  PROVE  Abstract!Next
<1>1. PICK a \in Addr, s \in Session :
        /\ ~TooMany(a)
        /\ sess[s] = "none"
        /\ sess' = [sess EXCEPT ![s] = "preauth"]
        /\ addr' = [addr EXCEPT ![s] = a]
  BY ServeFacts
<1>2. TypeOK /\ SlotPerSession
  BY DEF IndInv
<1>3. Cardinality(Abstract!Unauthenticated) < MAX_UNAUTH_CLIENTS
  <2>1. /\ Cardinality(Preauth) \in Nat
        /\ Cardinality(Preauth) <= Cardinality(Occupied)
    BY <1>2, Counts
  <2>2. Cardinality(Occupied) \in Nat
    <3>1. Occupied \in SUBSET Slot
      BY DEF Occupied
    <3>. QED
      BY <3>1, SlotSubset
  <2>3. ~(Cardinality(Occupied) >= MAX_UNAUTH_CLIENTS)
    BY <1>1 DEF TooMany
  <2>4. Abstract!Unauthenticated = Preauth
    BY AbstractSets
  <2>. QED
    BY <2>1, <2>2, <2>3, <2>4, LimitAssumption
<1>4. Cardinality(Abstract!UnauthenticatedFrom(a)) < MAX_UNAUTH_PER_IP
  <2>1. /\ Cardinality({t \in Preauth : addr[t] = a}) \in Nat
        /\ Cardinality({t \in Preauth : addr[t] = a}) <= Cardinality(OccupiedBy(a))
    BY <1>2, Counts
  <2>2. Cardinality(OccupiedBy(a)) \in Nat
    <3>1. OccupiedBy(a) \in SUBSET Slot
      BY DEF OccupiedBy, Occupied
    <3>. QED
      BY <3>1, SlotSubset
  <2>3. ~(Cardinality(OccupiedBy(a)) >= MAX_UNAUTH_PER_IP)
    BY <1>1 DEF TooMany
  <2>4. Abstract!UnauthenticatedFrom(a) = {t \in Preauth : addr[t] = a}
    BY AbstractSets
  <2>. QED
    BY <2>1, <2>2, <2>3, <2>4, LimitAssumption
<1>5. AbstractUnauth[s] = NoAddr
  BY <1>1 DEF AbstractUnauth
<1>6. AbstractUnauth' = [AbstractUnauth EXCEPT ![s] = a]
  <2>1. /\ AbstractUnauth' = [t \in Session |-> IF sess'[t] = "preauth" THEN addr'[t] ELSE NoAddr]
        /\ AbstractUnauth = [t \in Session |-> IF sess[t] = "preauth" THEN addr[t] ELSE NoAddr]
    BY DEF AbstractUnauth
  <2>2. sess \in [Session -> {"none", "preauth", "authed"}] /\ addr \in [Session -> Addr \cup {NoAddr}]
    BY <1>2 DEF TypeOK
  <2>. QED
    BY <1>1, <2>1, <2>2
<1>7. Abstract!Admit(s, a)
  BY <1>3, <1>4, <1>5, <1>6, SameCardinality DEF Abstract!Admit
<1>. QED
  BY <1>7 DEF Abstract!Next

(* A session that authenticates or exits leaves the unauthenticated ones. *)
LEMMA SessionLeaves ==
  ASSUME IndInv, NEW s \in Session, SessionStep(s)
  PROVE  Abstract!Next \/ UNCHANGED AbstractUnauth
<1>. USE DEF SessionStep, send_msg_userauth_success, SessionExit, IndInv, TypeOK
<1>1. CASE sess[s] = "preauth"
  <2>1. AbstractUnauth[s] # NoAddr
    BY <1>1, AddrAssumption DEF PipeOK, AbstractUnauth
  <2>2. AbstractUnauth' = [AbstractUnauth EXCEPT ![s] = NoAddr]
    BY <1>1 DEF AbstractUnauth
  <2>3. Abstract!Leave(s)
    BY <2>1, <2>2 DEF Abstract!Leave
  <2>. QED
    BY <2>3 DEF Abstract!Next
<1>2. CASE sess[s] # "preauth"
  <2>1. ASSUME NEW t \in Session
        PROVE  /\ sess'[t] = "preauth" <=> sess[t] = "preauth"
               /\ sess[t] = "preauth" => addr'[t] = addr[t]
    BY <1>2
  <2>. QED
    BY <2>1 DEF AbstractUnauth
<1>. QED
  BY <1>1, <1>2

(* Every step is a step of the admission rule or a stutter. *)
LEMMA StepSimulation == IndInv /\ [Next]_vars => [Abstract!Next]_AbstractUnauth
<1>. SUFFICES ASSUME IndInv, [Next]_vars
              PROVE  Abstract!Next \/ UNCHANGED AbstractUnauth
  OBVIOUS
<1>1. CASE UNCHANGED sessVars
  BY <1>1 DEF sessVars, AbstractUnauth
<1>2. ASSUME NEW l \in Listener, Serve(l) PROVE Abstract!Next
  BY <1>2, ServeAdmits
<1>3. ASSUME NEW s \in Session, SessionStep(s)
      PROVE  Abstract!Next \/ UNCHANGED AbstractUnauth
  BY <1>3, SessionLeaves
<1>. QED
  BY <1>1, <1>2, <1>3
     DEF Next, Connect, sigintterm_handler, SelectStep, EnterSelect, TerminatedBySignal,
         Interrupted, SelectReturns, AcceptStep, AcceptFails, Refuse, vars

(* The select loop implements the admission rule of Admission, for any     *)
(* limits and any number of addresses, sockets and sessions.               *)
THEOREM Refinement == Spec => ImplementsAdmission
<1>1. Init => Abstract!Init
  BY DEF Init, Abstract!Init, AbstractUnauth
<1>. QED
  BY <1>1, StepSimulation, Invariance, PTL DEF Spec, ImplementsAdmission, Abstract!Spec
=============================================================================
