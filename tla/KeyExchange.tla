----------------------------- MODULE KeyExchange -----------------------------
(***************************************************************************)
(* The first key exchange and the ones that follow, between a dropbear     *)
(* client and a dropbear server (common-kex.c, svr-kex.c, cli-kex.c,       *)
(* cli-session.c) over the packet layer (packet.c, process-packet.c):      *)
(* which packets may pass during an exchange, when the keys and the        *)
(* sequence numbers change, and the queue of packets that have to wait.    *)
(*                                                                         *)
(* A key is named by the client's Diffie-Hellman value that it is made     *)
(* from, a packet of the layers above by its number.  A packet is sealed   *)
(* with the sender's key and sequence number; the receiver opens it with   *)
(* its own.  Both parties have the same lists of algorithms to compare, so *)
(* they agree on whether the client's guess was good.                      *)
(***************************************************************************)
EXTENDS Naturals, Sequences, SequencesExt

CONSTANTS MaxKex,    \* bound: key exchanges of a session
          MaxData,   \* bound: packets of the layers above, each way
          MAX_DEFER_REPLY_QUEUE

ASSUME KexBoundAssumption == MaxKex \in Nat \ {0} /\ MaxData \in Nat

(* "This limit should never be reached by a normal peer": the layers above *)
(* never have more packets waiting than the reply queue takes, which lets  *)
(* one more in than its limit.                                             *)
ASSUME QueueAssumption == MAX_DEFER_REPLY_QUEUE \in Nat /\ MaxData <= MAX_DEFER_REPLY_QUEUE + 1

Party == {"client", "server"}
Peer(p) == IF p = "client" THEN "server" ELSE "client"

(* SSH_MSG_KEXINIT ... and any of the messages above the transport. *)
Type == {"kexinit", "kexdh_init", "kexdh_reply", "newkeys", "unimplemented", "data"}
Packet == [type : Type, n : Nat, key : Nat, seq : Nat]

VARIABLES ses,       \* struct sshsession of each party, with cli_ses
          guess,     \* is the client's guess in the n-th exchange good
          strict     \* do both parties announce strict kex

vars == <<ses, guess, strict>>

Sshsession ==
  [party : Party, exited : BOOLEAN, dataallowed : BOOLEAN, sentkexinit : BOOLEAN,
   recvkexinit : BOOLEAN, sentnewkeys : BOOLEAN, recvnewkeys : BOOLEAN,
   donefirstkex : BOOLEAN, strict_kex : BOOLEAN, our_first_follows_matches : BOOLEAN,
   requirenext : Type \cup {"any"}, ignorenext : BOOLEAN, kex_state : BOOLEAN,
   param : Nat, newkey : Nat, trans_valid : BOOLEAN, recv_valid : BOOLEAN,
   transkey : Nat, recvkey : Nat, transseq : Nat, recvseq : Nat, kexes : 0 .. MaxKex,
   reply_queue : Seq(1 .. MaxData), wire : Seq(Packet), sent : 0 .. MaxData, received : 0 .. MaxData]

(* Each party has a session record of the right kind; only packets of the  *)
(* layers above wait in its reply queue, never a KEXINIT.                  *)
TypeOK ==
  /\ ses \in [Party -> Sshsession]
  /\ \A p \in Party : ses[p].party = p
  /\ guess \in [1 .. MaxKex -> BOOLEAN]
  /\ strict \in BOOLEAN

-----------------------------------------------------------------------------
(* The functions of a session, as functions of its record.                 *)

Exit(s) == [s EXCEPT !.exited = TRUE]

packet_is_okay_kex(type) == type \notin {"kexinit", "data"}

(* Mutant of encrypt_packet: lets everything pass during an exchange. *)
encrypt_packet_Always(s, type, n) ==
  [s EXCEPT !.wire = Append(@, [type |-> type, n |-> n, key |-> s.transkey, seq |-> s.transseq]),
            !.transseq = @ + 1]

(* A queue over its limit ends the session: "Full reply queue". *)
enqueue_reply_packet(s, n) ==
  IF Len(s.reply_queue) > MAX_DEFER_REPLY_QUEUE THEN Exit(s)
  ELSE [s EXCEPT !.reply_queue = Append(@, n)]

encrypt_packet(s, type, n) ==
  IF ~s.dataallowed /\ ~packet_is_okay_kex(type)
  THEN enqueue_reply_packet(s, n)
  ELSE [s EXCEPT
         !.wire = Append(@, [type |-> type, n |-> n, key |-> s.transkey, seq |-> s.transseq]),
         !.transseq = @ + 1]

(* Mutant of maybe_flush_reply_queue: the end of an exchange is missed. *)
maybe_flush_reply_queue_Late(s) == s

(* Sends what waits, one packet after the other. *)
maybe_flush_reply_queue(s) ==
  IF ~s.dataallowed THEN s
  ELSE [s EXCEPT
         !.wire = @ \o [i \in 1 .. Len(s.reply_queue) |->
                         [type |-> "data", n |-> s.reply_queue[i],
                          key |-> s.transkey, seq |-> s.transseq + i - 1]],
         !.transseq = @ + Len(s.reply_queue),
         !.reply_queue = <<>>]

send_msg_kexdh_init(s) ==
  encrypt_packet([s EXCEPT !.param = @ + 1], "kexdh_init", s.param + 1)

(* The client's first guess follows its KEXINIT. *)
send_msg_kexinit(s) ==
  LET t == [encrypt_packet(s, "kexinit", 0)
              EXCEPT !.dataallowed = FALSE, !.sentkexinit = TRUE, !.kexes = @ + 1,
                     !.trans_valid = FALSE, !.recv_valid = FALSE]
  IN IF s.party = "client" THEN send_msg_kexdh_init(t) ELSE t

(* Mutant of kexinitialise: the last guess is still taken for a good one. *)
kexinitialise_Keep(s) ==
  [s EXCEPT !.sentkexinit = FALSE, !.recvkexinit = FALSE, !.recvnewkeys = FALSE,
            !.sentnewkeys = FALSE]

kexinitialise(s) ==
  [s EXCEPT !.sentkexinit = FALSE, !.recvkexinit = FALSE, !.recvnewkeys = FALSE,
            !.sentnewkeys = FALSE, !.our_first_follows_matches = FALSE]

switch_keys(s) ==
  IF ~(s.sentkexinit /\ s.recvkexinit) THEN Exit(s)
  ELSE LET r == s.recvnewkeys /\ s.recv_valid
           x == s.sentnewkeys /\ s.trans_valid
           t == [s EXCEPT !.recvkey = IF r THEN s.newkey ELSE @, !.recv_valid = @ /\ ~r,
                          !.transkey = IF x THEN s.newkey ELSE @, !.trans_valid = @ /\ ~x]
       IN IF t.sentnewkeys /\ t.recvnewkeys THEN kexinitialise(t) ELSE t

(* Mutant of send_msg_newkeys: other packets still have to wait. *)
send_msg_newkeys_Quiet(s, k) ==
  LET t == switch_keys([encrypt_packet(s, "newkeys", 0)
                          EXCEPT !.sentnewkeys = TRUE, !.donefirstkex = TRUE, !.newkey = k,
                                 !.trans_valid = TRUE, !.recv_valid = TRUE])
  IN [t EXCEPT !.transseq = IF s.strict_kex THEN 0 ELSE @]

(* With gen_new_keys() from the shared secret k. *)
send_msg_newkeys(s, k) ==
  LET t == switch_keys([encrypt_packet(s, "newkeys", 0)
                          EXCEPT !.sentnewkeys = TRUE, !.donefirstkex = TRUE,
                                 !.dataallowed = TRUE, !.newkey = k,
                                 !.trans_valid = TRUE, !.recv_valid = TRUE])
  IN [t EXCEPT !.transseq = IF s.strict_kex THEN 0 ELSE @]

(* Mutant of recv_msg_newkeys: the sequence number goes on. *)
recv_msg_newkeys_NoReset(s) == switch_keys([s EXCEPT !.recvnewkeys = TRUE])

recv_msg_newkeys(s) ==
  [switch_keys([s EXCEPT !.recvnewkeys = TRUE])
     EXCEPT !.recvseq = IF s.strict_kex THEN 0 ELSE @]

(* Mutant of read_kex_algos: the wrong guess is not ignored. *)
read_kex_algos_Keep(s, good) ==
  [s EXCEPT !.strict_kex = IF s.donefirstkex THEN @ ELSE strict,
            !.our_first_follows_matches = @ \/ (s.party = "client" /\ good)]

read_kex_algos(s, good) ==
  [s EXCEPT !.strict_kex = IF s.donefirstkex THEN @ ELSE strict,
            !.ignorenext = @ \/ (s.party = "server" /\ ~good),
            !.our_first_follows_matches = @ \/ (s.party = "client" /\ good)]

recv_msg_kexinit(s) ==
  LET t == IF s.sentkexinit THEN s ELSE send_msg_kexinit(s)
      u == [read_kex_algos(t, guess[t.kexes])
              EXCEPT !.requirenext = IF s.party = "client" THEN "kexdh_reply" ELSE "kexdh_init",
                     !.recvkexinit = TRUE]
  IN IF t.recvkexinit \/ (u.strict_kex /\ ~u.donefirstkex /\ u.recvseq # 1) THEN Exit(t) ELSE u

(* The server's reply is signed over the value it has received. *)
recv_msg_kexdh_init(s, e) ==
  IF ~s.recvkexinit THEN Exit(s)
  ELSE [send_msg_newkeys(encrypt_packet(s, "kexdh_reply", e), e) EXCEPT !.requirenext = "newkeys"]

recv_msg_kexdh_reply(s, e) ==
  IF ~s.kex_state \/ e # s.param THEN Exit(s)
  ELSE [send_msg_newkeys(s, e) EXCEPT !.requirenext = "newkeys"]

(* The answer to a packet that nothing was ready for. *)
recv_unimplemented(s) == encrypt_packet(s, "unimplemented", 0)

handler(s, p) ==
  CASE p.type = "kexinit" -> recv_msg_kexinit(s)
    [] p.type = "kexdh_init" -> recv_msg_kexdh_init(s, p.n)
    [] p.type = "kexdh_reply" -> recv_msg_kexdh_reply(s, p.n)
    [] p.type = "newkeys" -> recv_msg_newkeys(s)
    [] p.type = "unimplemented" -> recv_unimplemented(s)
    [] p.type = "data" -> [s EXCEPT !.received = @ + 1]

(* recvfirstnewkeys is set with the first key to receive with. *)
first_strict_kex(s) == s.strict_kex /\ s.recvkey = 0

(* decrypt_packet() and process_packet(). *)
process_packet(s, p) ==
  LET t == [s EXCEPT !.recvseq = @ + 1]
  IN IF p.key # s.recvkey \/ p.seq # s.recvseq THEN Exit(s)       \* "Integrity error"
     ELSE IF p.type = "unimplemented" /\ ~first_strict_kex(s) THEN t
     ELSE IF t.requirenext \notin {"any", p.type}
     THEN IF p.type \in {"kexinit", "data"} \/ first_strict_kex(s)
          THEN Exit(t) ELSE recv_unimplemented(t)
     ELSE IF t.ignorenext THEN [t EXCEPT !.ignorenext = FALSE]
     ELSE handler([t EXCEPT !.requirenext = "any"], p)

(* The part of cli_sessionloop() about key exchange; kex_state is          *)
(* KEXDH_INIT_SENT or not.                                                 *)
cli_sessionloop(s, lastpacket) ==
  IF lastpacket = "kexinit" /\ ~s.kex_state
  THEN [IF s.our_first_follows_matches THEN s ELSE send_msg_kexdh_init(s)
          EXCEPT !.kex_state = TRUE]
  ELSE [s EXCEPT !.kex_state = @ /\ ~s.sentnewkeys]

loophandler(s, lastpacket) ==
  IF s.party = "client" /\ ~s.exited THEN cli_sessionloop(s, lastpacket) ELSE s

-----------------------------------------------------------------------------

(* common_session_init(), and the KEXINIT both parties begin with. *)
common_session_init(p) ==
  [party |-> p, exited |-> FALSE, dataallowed |-> TRUE, sentkexinit |-> FALSE,
   recvkexinit |-> FALSE, sentnewkeys |-> FALSE, recvnewkeys |-> FALSE,
   donefirstkex |-> FALSE, strict_kex |-> FALSE, our_first_follows_matches |-> FALSE,
   requirenext |-> "kexinit", ignorenext |-> FALSE, kex_state |-> FALSE,
   param |-> 0, newkey |-> 0, trans_valid |-> FALSE, recv_valid |-> FALSE,
   transkey |-> 0, recvkey |-> 0, transseq |-> 0, recvseq |-> 0, kexes |-> 0,
   reply_queue |-> <<>>, wire |-> <<>>, sent |-> 0, received |-> 0]

Init ==
  /\ ses = [p \in Party |-> send_msg_kexinit(common_session_init(p))]
  /\ guess \in [1 .. MaxKex -> BOOLEAN]
  /\ strict \in BOOLEAN

(* checktimeouts() finds that it is time for new keys. *)
checktimeouts(p) ==
  /\ ~ses[p].exited
  /\ ~ses[p].sentkexinit /\ ses[p].kexes < MaxKex
  /\ ses' = [ses EXCEPT ![p] = send_msg_kexinit(@)]
  /\ UNCHANGED <<guess, strict>>

(* An iteration of session_loop() that reads a packet. *)
Receive(p) ==
  /\ ~ses[p].exited
  /\ ses[Peer(p)].wire # <<>>
  /\ LET m == Head(ses[Peer(p)].wire)
     IN \E s \in {process_packet(ses[p], m)} : \E t \in {maybe_flush_reply_queue(s)} :
          ses' = [ses EXCEPT ![p] = loophandler(t, m.type), ![Peer(p)].wire = Tail(@)]
  /\ UNCHANGED <<guess, strict>>

(* The layers above send a packet: channelio() or an answer to one. *)
SendData(p) ==
  /\ ~ses[p].exited
  /\ ses[p].donefirstkex /\ ses[p].sent < MaxData
  /\ LET s == ses[p]
     IN ses' = [ses EXCEPT ![p] = encrypt_packet([s EXCEPT !.sent = s.sent + 1], "data", s.sent + 1)]
  /\ UNCHANGED <<guess, strict>>

Next == \E p \in Party : checktimeouts(p) \/ Receive(p) \/ SendData(p)

Spec == Init /\ [][Next]_vars

(* What is on the wire is read in the end. *)
FairSpec == Spec /\ \A p \in Party : WF_vars(Receive(p))

-----------------------------------------------------------------------------
(* Properties.                                                             *)

(* No order of rekeys, crossing KEXINITs, guesses and data makes a party   *)
(* give up: every packet is opened with the key and the sequence number it *)
(* was sealed with, arrives when its type is allowed, and both parties     *)
(* make their keys from the same value.                                    *)
NobodyExits == \A p \in Party : ~ses[p].exited

(* "don't send other packets during kex": between a party's KEXINIT and    *)
(* its NEWKEYS there is nothing of the layers above on the wire.           *)
QuietDuringKex ==
  \A p \in Party : LET w == ses[p].wire IN
    \A i, j \in 1 .. Len(w) :
      i < j /\ w[i].type = "kexinit" /\ w[j].type = "data"
        => \E k \in i .. j : w[k].type = "newkeys"

(* Once an exchange is over for both parties and nothing is under way,     *)
(* they seal and open with the same keys, those of the last exchange, all  *)
(* data has arrived, and nothing is left waiting or ignored.               *)
KeysAgree ==
  (\A p \in Party : ses[p].wire = <<>> /\ ~ses[p].sentkexinit)
  => \A p \in Party :
       /\ ses[p].transkey = ses["client"].param /\ ses[p].recvkey = ses["client"].param
       /\ ses[p].transseq = ses[Peer(p)].recvseq /\ ses[p].sent = ses[Peer(p)].received
       /\ ses[p].reply_queue = <<>> /\ ~ses[p].ignorenext /\ ses[p].dataallowed

(* The packets of the layers above on a wire. *)
DataOf(w) ==
  LET d[i \in 0 .. Len(w)] ==
        IF i = 0 THEN <<>>
        ELSE IF w[i].type = "data" THEN Append(d[i - 1], w[i].n) ELSE d[i - 1]
  IN  d[Len(w)]

Stream == INSTANCE AppStream WITH
  sent <- [p \in Party |-> ses[p].sent],
  underway <- [p \in Party |-> DataOf(ses[p].wire) \o ses[p].reply_queue]

(* The packets of the layers above come out once and in order, also those  *)
(* that waited in the reply queue for the end of an exchange.              *)
ImplementsStream == Stream!Spec

(* An exchange that was begun ends with both NEWKEYS, so that what waits   *)
(* in the reply queue is sent.                                             *)
KexCompletes == \A p \in Party :
  /\ ses[p].sentkexinit ~> ~ses[p].sentkexinit
  /\ ses[p].reply_queue # <<>> ~> ses[p].reply_queue = <<>>
=============================================================================
