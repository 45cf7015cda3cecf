------------------------------ MODULE AppStream ------------------------------
(***************************************************************************)
(* What the transport promises the layers above it, in each direction:     *)
(* packets come out once, in the order in which they went in, whatever     *)
(* keys are changed meanwhile.                                             *)
(***************************************************************************)
EXTENDS Naturals, Sequences

CONSTANT Party

VARIABLES sent,       \* packets given to the transport by each party, numbered
          underway    \* those that have not come out yet

Init == /\ sent = [p \in Party |-> 0]
        /\ underway = [p \in Party |-> <<>>]

Send(p) == /\ sent' = [sent EXCEPT ![p] = @ + 1]
           /\ underway' = [underway EXCEPT ![p] = Append(@, sent[p] + 1)]

Deliver(p) == /\ underway[p] # <<>>
              /\ underway' = [underway EXCEPT ![p] = Tail(@)]
              /\ UNCHANGED sent

Next == \E p \in Party : Send(p) \/ Deliver(p)

Spec == Init /\ [][Next]_<<sent, underway>>
=============================================================================
