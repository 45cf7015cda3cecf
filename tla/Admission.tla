------------------------------ MODULE Admission ------------------------------
(***************************************************************************)
(* What dropbear promises about clients that have not authenticated: a     *)
(* connection is admitted only while fewer than MAX_UNAUTH_CLIENTS of them *)
(* are open and fewer than MAX_UNAUTH_PER_IP of those have its address     *)
(* (default_options.h).                                                    *)
(***************************************************************************)
EXTENDS Naturals, FiniteSets

CONSTANTS Session, Addr, NoAddr, MAX_UNAUTH_CLIENTS, MAX_UNAUTH_PER_IP

VARIABLE unauth   \* the address of every unauthenticated client, or NoAddr

Unauthenticated == {s \in Session : unauth[s] # NoAddr}
UnauthenticatedFrom(a) == {s \in Session : unauth[s] = a}

Init == unauth = [s \in Session |-> NoAddr]

Admit(s, a) ==
  /\ unauth[s] = NoAddr
  /\ Cardinality(Unauthenticated) < MAX_UNAUTH_CLIENTS
  /\ Cardinality(UnauthenticatedFrom(a)) < MAX_UNAUTH_PER_IP
  /\ unauth' = [unauth EXCEPT ![s] = a]

(* The client authenticates or its connection ends. *)
Leave(s) ==
  /\ unauth[s] # NoAddr
  /\ unauth' = [unauth EXCEPT ![s] = NoAddr]

Next == \E s \in Session : Leave(s) \/ \E a \in Addr : Admit(s, a)

Spec == Init /\ [][Next]_unauth
=============================================================================
