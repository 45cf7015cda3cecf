------------------------- MODULE KeyExchangeLemmas --------------------------
(***************************************************************************)
(* The invariant of KeyExchange and what the steps do to its parts: the    *)
(* wire between two parties, the session of one of them, the two together. *)
(***************************************************************************)
EXTENDS KeyExchange, TLAPS

-----------------------------------------------------------------------------
(* The inductive invariant, in parts. *)

(* What of a packet of the exchange its receiver looks at. *)
Kexinit == <<"kexinit", 0>>
Newkeys == <<"newkeys", 0>>
Init_(n) == <<"kexdh_init", n>>
Reply(n) == <<"kexdh_reply", n>>
KexMsg == (Type \ {"data"}) \X Nat

(* On the wire w are the packets ks of exchanges, in this order, and u     *)
(* packets of the layers above.                                            *)
Shape(w, ks, u) ==
  /\ Len(w) = u + Len(ks)
  /\ \E f \in [1 .. Len(ks) -> 1 .. Len(w)] :
       /\ \A a, b \in 1 .. Len(ks) : a < b => f[a] < f[b]
       /\ \A a \in 1 .. Len(ks) : w[f[a]].type = ks[a][1] /\ w[f[a]].n = ks[a][2]
       /\ \A i \in 1 .. Len(w) :
            w[i].type # "data" => \E a \in 1 .. Len(ks) : f[a] = i

(* A packet of the layers above follows another or a NEWKEYS; it comes     *)
(* first only where the receiver takes any packet.                         *)
Quiet(w, open) ==
  \A j \in 1 .. Len(w) : w[j].type = "data" =>
    IF j = 1 THEN open ELSE w[j - 1].type \in {"data", "newkeys"}

(* And none between a KEXINIT and its NEWKEYS. *)
NoneBetween(w) ==
  \A i, j \in 1 .. Len(w) :
    i < j /\ w[i].type = "kexinit" /\ w[j].type = "data"
      => \E k \in i .. j : w[k].type = "newkeys"

NoNewkeys(w) == \A i \in 1 .. Len(w) : w[i].type # "newkeys"

OneNewkeys(w) ==
  \A i, j \in 1 .. Len(w) : w[i].type = "newkeys" /\ w[j].type = "newkeys" => i = j

(* The packets up to the NEWKEYS are sealed with what the receiver will    *)
(* open them with ...                                                      *)
OldSeal(w, recvkey, recvseq) ==
  \A i \in 1 .. Len(w) :
    (\A k \in 1 .. i - 1 : w[k].type # "newkeys")
      => w[i].key = recvkey /\ w[i].seq = recvseq + i - 1

(* ... the ones after it with the sender's new key, and the numbers begin  *)
(* at 0 again if kex is strict.                                            *)
NewSeal(w, transkey, recvseq) ==
  \A i, j \in 1 .. Len(w) :
    j < i /\ w[j].type = "newkeys"
      => w[i].key = transkey /\ w[i].seq = IF strict THEN i - j - 1 ELSE recvseq + i - 1

(* The seal of the next packet. *)
NextSeal(w, transkey, transseq, recvkey, recvseq) ==
  /\ NoNewkeys(w) => transkey = recvkey /\ transseq = recvseq + Len(w)
  /\ \A j \in 1 .. Len(w) :
       w[j].type = "newkeys"
         => transseq = IF strict THEN Len(w) - j ELSE recvseq + Len(w)

Seal(w, transkey, transseq, recvkey, recvseq) ==
  /\ OneNewkeys(w)
  /\ OldSeal(w, recvkey, recvseq)
  /\ NewSeal(w, transkey, recvseq)
  /\ NextSeal(w, transkey, transseq, recvkey, recvseq)

Wire(w, ks, u, open, transkey, transseq, recvkey, recvseq) ==
  /\ Shape(w, ks, u) /\ Quiet(w, open) /\ NoneBetween(w)
  /\ Seal(w, transkey, transseq, recvkey, recvseq)

(* The wire from s to r. *)
Link(s, r, ks) ==
  Wire(s.wire, ks, s.sent - Len(s.reply_queue) - r.received, r.requirenext = "any",
       s.transkey, s.transseq, r.recvkey, r.recvseq)

(* How far a party is: 0 between two exchanges, 1 it has sent its KEXINIT, *)
(* 2 and has received one, 3 and has sent its NEWKEYS.                     *)
Required(s, stage) ==
  CASE stage = 2 -> IF s.party = "client" THEN "kexdh_reply" ELSE "kexdh_init"
    [] stage = 3 -> "newkeys"
    [] OTHER -> IF s.donefirstkex THEN "any" ELSE "kexinit"

Stage(s, stage) ==
  /\ ~s.exited
  /\ s.sentkexinit <=> stage # 0
  /\ s.recvkexinit <=> stage \in {2, 3}
  /\ s.sentnewkeys <=> stage = 3
  /\ ~s.recvnewkeys
  /\ s.dataallowed <=> stage \in {0, 3}
  /\ s.requirenext = Required(s, stage)
  /\ s.kex_state <=> s.party = "client" /\ stage = 2
  /\ ~s.trans_valid
  /\ s.recv_valid <=> stage = 3
  /\ stage \in {0, 3} => s.donefirstkex
  /\ s.donefirstkex \/ stage \in {2, 3} => (s.strict_kex <=> strict)
  /\ ~s.donefirstkex /\ stage = 1 => s.recvseq = 0
  /\ s.dataallowed => s.reply_queue = <<>>
  /\ Len(s.reply_queue) <= s.sent
  /\ s.ignorenext => s.party = "server" /\ stage = 2
  /\ stage \in {0, 1} => ~s.our_first_follows_matches
  /\ stage # 0 => s.kexes # 0
  /\ stage = 3 => s.newkey = s.transkey

(* The states the two parties are in together, and what is then on the     *)
(* wire from the client and on the one from the server.                    *)
Both(c, s, i, j, kc, ks) ==
  Stage(c, i) /\ Stage(s, j) /\ Link(c, s, kc) /\ Link(s, c, ks)

NewKey(c, s) == c.transkey = c.param /\ s.transkey = c.param

Good(c) == guess[c.kexes]

Idle(c, s) ==
  c.kexes = s.kexes /\ NewKey(c, s) /\ Both(c, s, 0, 0, <<>>, <<>>)

(* One of them has sent its KEXINIT, or both have. *)
ClientOpens(c, s) ==
  /\ c.kexes = s.kexes + 1 /\ c.donefirstkex
  /\ Both(c, s, 1, 0, <<Kexinit, Init_(c.param)>>, <<>>)

ServerOpens(c, s) ==
  /\ c.kexes + 1 = s.kexes /\ s.donefirstkex
  /\ Both(c, s, 0, 1, <<>>, <<Kexinit>>)

BothOpen(c, s) ==
  c.kexes = s.kexes /\ Both(c, s, 1, 1, <<Kexinit, Init_(c.param)>>, <<Kexinit>>)

(* The server has read the client's, and perhaps passed over a bad guess.  *)
ServerAgrees(c, s) ==
  /\ c.kexes = s.kexes /\ (s.ignorenext => ~Good(c))
  /\ \/ (Good(c) \/ s.ignorenext) /\ Both(c, s, 1, 2, <<Init_(c.param)>>, <<Kexinit>>)
     \/ ~Good(c) /\ ~s.ignorenext /\ Both(c, s, 1, 2, <<>>, <<Kexinit>>)

(* The client has read the server's; after a bad guess e it has sent       *)
(* another value.                                                          *)
ClientAgrees(c, s) ==
  /\ c.kexes = s.kexes
  /\ \/ Good(c) /\ Both(c, s, 2, 1, <<Kexinit, Init_(c.param)>>, <<>>)
     \/ /\ ~Good(c)
        /\ \E e \in 0 .. c.param :
             Both(c, s, 2, 1, <<Kexinit, Init_(e), Init_(c.param)>>, <<>>)

BothAgree(c, s) ==
  /\ c.kexes = s.kexes /\ (s.ignorenext => ~Good(c))
  /\ \/ ~s.ignorenext /\ Both(c, s, 2, 2, <<Init_(c.param)>>, <<>>)
     \/ /\ s.ignorenext
        /\ \E e \in 0 .. c.param : Both(c, s, 2, 2, <<Init_(e), Init_(c.param)>>, <<>>)

(* The server has the new key, also before the client has read its         *)
(* KEXINIT.                                                                *)
ServerAhead(c, s) ==
  /\ c.kexes = s.kexes /\ s.transkey = c.param /\ Good(c)
  /\ Both(c, s, 1, 3, <<>>, <<Kexinit, Reply(c.param), Newkeys>>)

ServerKeyed(c, s) ==
  /\ c.kexes = s.kexes /\ s.transkey = c.param
  /\ Both(c, s, 2, 3, <<>>, <<Reply(c.param), Newkeys>>)

(* Both have it; one of them has read the other's NEWKEYS, and may open    *)
(* the next exchange.                                                      *)
BothKeyed(c, s) ==
  c.kexes = s.kexes /\ NewKey(c, s) /\ Both(c, s, 3, 3, <<Newkeys>>, <<Newkeys>>)

ClientDone(c, s) ==
  c.kexes = s.kexes /\ NewKey(c, s) /\ Both(c, s, 0, 3, <<Newkeys>>, <<>>)

ServerDone(c, s) ==
  c.kexes = s.kexes /\ NewKey(c, s) /\ Both(c, s, 3, 0, <<>>, <<Newkeys>>)

ClientReopens(c, s) ==
  /\ c.kexes = s.kexes + 1 /\ c.transkey = s.transkey /\ c.donefirstkex
  /\ Both(c, s, 1, 3, <<Newkeys, Kexinit, Init_(c.param)>>, <<>>)

ServerReopens(c, s) ==
  /\ c.kexes + 1 = s.kexes /\ NewKey(c, s) /\ s.donefirstkex
  /\ Both(c, s, 3, 1, <<>>, <<Newkeys, Kexinit>>)

Joint(c, s) ==
  \/ Idle(c, s)
  \/ ClientOpens(c, s) \/ ServerOpens(c, s) \/ BothOpen(c, s)
  \/ ServerAgrees(c, s) \/ ClientAgrees(c, s) \/ BothAgree(c, s)
  \/ ServerAhead(c, s) \/ ServerKeyed(c, s)
  \/ BothKeyed(c, s) \/ ClientDone(c, s) \/ ServerDone(c, s)
  \/ ClientReopens(c, s) \/ ServerReopens(c, s)

JointOK == Joint(ses["client"], ses["server"])

IndInv == TypeOK /\ JointOK
-----------------------------------------------------------------------------
(* The packets of the exchanges on a wire. *)

(* Sequences that grow at the end and are read at the front. *)
LEMMA AppendPacket ==
  ASSUME NEW w \in Seq(Packet), NEW m \in Packet
  PROVE  /\ Append(w, m) \in Seq(Packet)
         /\ Len(Append(w, m)) = Len(w) + 1
         /\ Len(w) \in Nat
         /\ Append(w, m)[Len(w) + 1] = m
         /\ \A i \in 1 .. Len(w) : Append(w, m)[i] = w[i]
OBVIOUS

(* The packets behind the first. *)
LEMMA TailPacket ==
  ASSUME NEW w \in Seq(Packet), w # <<>>
  PROVE  /\ Head(w) = w[1] /\ Head(w) \in Packet
         /\ Len(w) \in Nat /\ Len(w) >= 1
         /\ Tail(w) \in Seq(Packet) /\ Len(Tail(w)) = Len(w) - 1
         /\ \A i \in 1 .. Len(w) - 1 : Tail(w)[i] = w[i + 1]
OBVIOUS

(* Several packets at the end. *)
LEMMA ConcatPacket ==
  ASSUME NEW w \in Seq(Packet), NEW d \in Seq(Packet)
  PROVE  /\ w \o d \in Seq(Packet)
         /\ Len(w) \in Nat /\ Len(d) \in Nat
         /\ Len(w \o d) = Len(w) + Len(d)
         /\ \A i \in 1 .. Len(w) : (w \o d)[i] = w[i]
         /\ \A i \in 1 .. Len(d) : (w \o d)[Len(w) + i] = d[i]
OBVIOUS

(* A packet of an exchange is sent. *)
LEMMA ShapeSendKex ==
  ASSUME NEW w \in Seq(Packet), NEW ks \in Seq(KexMsg), NEW u \in Int,
         NEW m \in Packet, NEW x \in KexMsg, m.type = x[1], m.n = x[2],
         Shape(w, ks, u)
  PROVE  Shape(Append(w, m), Append(ks, x), u)
<1>. DEFINE v == Append(w, m)
            ls == Append(ks, x)
<1>1. /\ Len(v) = Len(w) + 1 /\ Len(w) \in Nat /\ v[Len(w) + 1] = m
      /\ \A i \in 1 .. Len(w) : v[i] = w[i]
  BY AppendPacket
<1>2. /\ Len(ls) = Len(ks) + 1 /\ Len(ks) \in Nat /\ ls[Len(ks) + 1] = x
      /\ \A a \in 1 .. Len(ks) : ls[a] = ks[a]
  OBVIOUS
<1>3. PICK f \in [1 .. Len(ks) -> 1 .. Len(w)] :
        /\ \A a, b \in 1 .. Len(ks) : a < b => f[a] < f[b]
        /\ \A a \in 1 .. Len(ks) : w[f[a]].type = ks[a][1] /\ w[f[a]].n = ks[a][2]
        /\ \A i \in 1 .. Len(w) :
             w[i].type # "data" => \E a \in 1 .. Len(ks) : f[a] = i
  BY DEF Shape
<1>. DEFINE g == [a \in 1 .. Len(ls) |-> IF a = Len(ks) + 1 THEN Len(w) + 1 ELSE f[a]]
<1>. HIDE DEF v, ls
<1>4. \A a \in 1 .. Len(ls) : a = Len(ks) + 1 \/ a \in 1 .. Len(ks)
  BY <1>2
<1>5. \A a \in 1 .. Len(ks) : a \in 1 .. Len(ls) /\ a # Len(ks) + 1 /\ g[a] = f[a]
           /\ f[a] \in 1 .. Len(w)
  BY <1>2, SMTT(30)
<1>6. Len(ks) + 1 \in 1 .. Len(ls) /\ g[Len(ks) + 1] = Len(w) + 1
  BY <1>2
<1>7. g \in [1 .. Len(ls) -> 1 .. Len(v)]
  BY <1>1, <1>2, <1>4
<1>. HIDE DEF g
<1>8. \A a, b \in 1 .. Len(ls) : a < b => g[a] < g[b]
  <2>. SUFFICES ASSUME NEW a \in 1 .. Len(ls), NEW b \in 1 .. Len(ls), a < b
                PROVE  g[a] < g[b]
    OBVIOUS
  <2>1. a \in 1 .. Len(ks)
    BY <1>2, <1>4
  <2>2. CASE b = Len(ks) + 1
    BY <1>1, <1>5, <1>6, <2>1, <2>2
  <2>3. CASE b \in 1 .. Len(ks)
    BY <1>3, <1>5, <2>1, <2>3
  <2>. QED
    BY <1>4, <2>2, <2>3
<1>9. ASSUME NEW a \in 1 .. Len(ls)
      PROVE  v[g[a]].type = ls[a][1] /\ v[g[a]].n = ls[a][2]
  <2>1. CASE a = Len(ks) + 1
    BY <1>1, <1>2, <1>6, <2>1
  <2>2. CASE a \in 1 .. Len(ks)
    <3>1. v[g[a]] = w[f[a]] /\ ls[a] = ks[a]
      BY <1>1, <1>2, <1>5, <2>2
    <3>. QED
      BY <1>3, <2>2, <3>1
  <2>. QED
    BY <1>4, <2>1, <2>2
<1>10. ASSUME NEW i \in 1 .. Len(v), v[i].type # "data"
       PROVE  \E a \in 1 .. Len(ls) : g[a] = i
  <2>1. CASE i = Len(w) + 1
    BY <1>6, <2>1
  <2>2. CASE i \in 1 .. Len(w)
    <3>1. PICK a \in 1 .. Len(ks) : f[a] = i
      BY <1>1, <1>3, <1>10, <2>2
    <3>. QED
      BY <1>5, <3>1
  <2>. QED
    BY <1>1, <2>1, <2>2
<1>11. Len(v) = u + Len(ls)
  BY <1>1, <1>2 DEF Shape
<1>. QED
  BY <1>7, <1>8, <1>9, <1>10, <1>11 DEF Shape, v, ls

(* Packets of the layers above are sent. *)
LEMMA ShapeSendData ==
  ASSUME NEW w \in Seq(Packet), NEW ks \in Seq(KexMsg), NEW u \in Int,
         NEW d \in Seq(Packet), \A i \in 1 .. Len(d) : d[i].type = "data",
         Shape(w, ks, u)
  PROVE  Shape(w \o d, ks, u + Len(d))
<1>. DEFINE v == w \o d
<1>1. /\ Len(v) = Len(w) + Len(d) /\ Len(w) \in Nat /\ Len(d) \in Nat
      /\ \A i \in 1 .. Len(w) : v[i] = w[i]
      /\ \A i \in 1 .. Len(d) : v[Len(w) + i] = d[i]
  BY ConcatPacket
<1>2. Len(ks) \in Nat
  OBVIOUS
<1>3. PICK f \in [1 .. Len(ks) -> 1 .. Len(w)] :
        /\ \A a, b \in 1 .. Len(ks) : a < b => f[a] < f[b]
        /\ \A a \in 1 .. Len(ks) : w[f[a]].type = ks[a][1] /\ w[f[a]].n = ks[a][2]
        /\ \A i \in 1 .. Len(w) :
             w[i].type # "data" => \E a \in 1 .. Len(ks) : f[a] = i
  BY DEF Shape
<1>. HIDE DEF v
<1>4. f \in [1 .. Len(ks) -> 1 .. Len(v)]
  BY <1>1, <1>3
<1>5. \A a \in 1 .. Len(ks) : v[f[a]] = w[f[a]]
  BY <1>1, <1>3
<1>6. ASSUME NEW i \in 1 .. Len(v), v[i].type # "data"
      PROVE  \E a \in 1 .. Len(ks) : f[a] = i
  <2>1. i \in 1 .. Len(w)
    <3>. SUFFICES ASSUME i \notin 1 .. Len(w) PROVE FALSE
      OBVIOUS
    <3>1. i - Len(w) \in 1 .. Len(d) /\ Len(w) + (i - Len(w)) = i
      BY <1>1
    <3>. QED
      BY <1>1, <1>6, <3>1
  <2>. QED
    BY <1>1, <1>3, <1>6, <2>1
<1>7. Len(v) = (u + Len(d)) + Len(ks)
  BY <1>1, <1>2 DEF Shape
<1>8. \A a \in 1 .. Len(ks) : v[f[a]].type = ks[a][1] /\ v[f[a]].n = ks[a][2]
  BY <1>3, <1>5
<1>9. Shape(v, ks, u + Len(d))
  BY <1>3, <1>4, <1>6, <1>7, <1>8 DEF Shape
<1>. QED
  BY <1>9 DEF v

(* The first packet is received: one of the layers above ... *)
LEMMA ShapeReadData ==
  ASSUME NEW w \in Seq(Packet), NEW ks \in Seq(KexMsg), NEW u \in Int,
         w # <<>>, Head(w).type = "data", \A x \in KexMsg : x[1] # "data",
         Len(ks) <= 3, Shape(w, ks, u)
  PROVE  Shape(Tail(w), ks, u - 1) /\ u >= 1
<1>. DEFINE v == Tail(w)
<1>1. /\ Head(w) = w[1] /\ Len(w) \in Nat /\ Len(w) >= 1 /\ Len(v) = Len(w) - 1
      /\ \A i \in 1 .. Len(w) - 1 : v[i] = w[i + 1]
  BY TailPacket
<1>2. Len(ks) \in Nat /\ \A a \in 1 .. Len(ks) : ks[a] \in KexMsg
  OBVIOUS
<1>3. PICK f \in [1 .. Len(ks) -> 1 .. Len(w)] :
        /\ \A a, b \in 1 .. Len(ks) : a < b => f[a] < f[b]
        /\ \A a \in 1 .. Len(ks) : w[f[a]].type = ks[a][1] /\ w[f[a]].n = ks[a][2]
        /\ \A i \in 1 .. Len(w) :
             w[i].type # "data" => \E a \in 1 .. Len(ks) : f[a] = i
  BY DEF Shape
<1>. HIDE DEF v
<1>4. \A a \in 1 .. Len(ks) : f[a] \in 1 .. Len(w) /\ f[a] # 1
  BY <1>1, <1>2, <1>3
<1>. DEFINE g == [a \in 1 .. Len(ks) |-> f[a] - 1]
<1>5. g \in [1 .. Len(ks) -> 1 .. Len(v)] /\ \A a \in 1 .. Len(ks) : g[a] = f[a] - 1
  BY <1>1, <1>4
<1>. HIDE DEF g
<1>6. \A a, b \in 1 .. Len(ks) : a < b => g[a] < g[b]
  BY <1>3, <1>4, <1>5
<1>7. ASSUME NEW a \in 1 .. Len(ks)
      PROVE  v[g[a]].type = ks[a][1] /\ v[g[a]].n = ks[a][2]
  <2>1. g[a] \in 1 .. Len(w) - 1 /\ g[a] + 1 = f[a]
    BY <1>1, <1>4, <1>5
  <2>2. v[g[a]] = w[f[a]]
    BY <1>1, <2>1
  <2>. QED
    BY <1>3, <2>2
<1>8. ASSUME NEW i \in 1 .. Len(v), v[i].type # "data"
      PROVE  \E a \in 1 .. Len(ks) : g[a] = i
  <2>1. i + 1 \in 1 .. Len(w) /\ v[i] = w[i + 1]
    BY <1>1
  <2>2. PICK a \in 1 .. Len(ks) : f[a] = i + 1
    BY <1>3, <1>8, <2>1
  <2>. QED
    BY <1>5, <2>2
<1>9. Len(w) = u + Len(ks)
  BY DEF Shape
<1>10. Len(v) = (u - 1) + Len(ks)
  BY <1>1, <1>2, <1>9
<1>11. u >= 1
  <2>1. CASE Len(ks) = 0
    BY <1>1, <1>9, <2>1
  <2>2. CASE Len(ks) = 1
    BY <1>1, <1>4, <1>9, <2>2
  <2>3. CASE Len(ks) = 2
    <3>1. f[1] >= 2 /\ f[1] < f[2] /\ f[2] <= Len(w) /\ f[1] \in Int /\ f[2] \in Int
      BY <1>1, <1>3, <1>4, <2>3
    <3>. QED
      BY <1>1, <1>9, <2>3, <3>1
  <2>4. CASE Len(ks) = 3
    <3>1. /\ f[1] >= 2 /\ f[1] < f[2] /\ f[2] < f[3] /\ f[3] <= Len(w)
          /\ f[1] \in Int /\ f[2] \in Int /\ f[3] \in Int
      BY <1>1, <1>3, <1>4, <2>4
    <3>. QED
      BY <1>1, <1>9, <2>4, <3>1
  <2>5. \A n \in Nat : n <= 3 => n = 0 \/ n = 1 \/ n = 2 \/ n = 3
    OBVIOUS
  <2>. QED
    BY <1>2, <2>1, <2>2, <2>3, <2>4, <2>5
<1>12. Shape(v, ks, u - 1)
  BY <1>5, <1>6, <1>7, <1>8, <1>10 DEF Shape
<1>. QED
  BY <1>11, <1>12 DEF v

(* ... or one of an exchange, which is the first of those. *)
LEMMA ShapeReadKex ==
  ASSUME NEW w \in Seq(Packet), NEW ks \in Seq(KexMsg), NEW u \in Int,
         w # <<>>, Head(w).type # "data", Shape(w, ks, u)
  PROVE  /\ ks # <<>> /\ Head(w).type = Head(ks)[1] /\ Head(w).n = Head(ks)[2]
         /\ Shape(Tail(w), Tail(ks), u)
<1>. DEFINE v == Tail(w)
            ls == Tail(ks)
<1>1. /\ Head(w) = w[1] /\ Len(w) \in Nat /\ Len(w) >= 1 /\ Len(v) = Len(w) - 1
      /\ \A i \in 1 .. Len(w) - 1 : v[i] = w[i + 1]
  BY TailPacket
<1>2. Len(ks) \in Nat
  OBVIOUS
<1>3. PICK f \in [1 .. Len(ks) -> 1 .. Len(w)] :
        /\ \A a, b \in 1 .. Len(ks) : a < b => f[a] < f[b]
        /\ \A a \in 1 .. Len(ks) : w[f[a]].type = ks[a][1] /\ w[f[a]].n = ks[a][2]
        /\ \A i \in 1 .. Len(w) :
             w[i].type # "data" => \E a \in 1 .. Len(ks) : f[a] = i
  BY DEF Shape
<1>4. PICK b \in 1 .. Len(ks) : f[b] = 1
  BY <1>1, <1>3
<1>5. 1 \in 1 .. Len(ks) /\ ks # <<>> /\ Len(ks) >= 1
  BY <1>2, <1>4
<1>6. b = 1
  <2>. SUFFICES ASSUME b # 1 PROVE FALSE
    OBVIOUS
  <2>1. 1 < b
    BY <1>2, <1>4
  <2>2. f[1] < f[b] /\ f[1] \in 1 .. Len(w)
    BY <1>3, <1>4, <1>5, <2>1
  <2>. QED
    BY <1>1, <1>4, <2>2
<1>7. /\ Head(ks) = ks[1] /\ Len(ls) = Len(ks) - 1
      /\ \A a \in 1 .. Len(ks) - 1 : ls[a] = ks[a + 1]
  BY <1>5
<1>8. Head(w).type = Head(ks)[1] /\ Head(w).n = Head(ks)[2]
  BY <1>1, <1>3, <1>4, <1>5, <1>6, <1>7
<1>. HIDE DEF v, ls
<1>9. \A a \in 1 .. Len(ls) : /\ a + 1 \in 1 .. Len(ks) /\ f[a + 1] \in 2 .. Len(w)
                              /\ ls[a] = ks[a + 1]
  <2>. SUFFICES ASSUME NEW a \in 1 .. Len(ls)
                PROVE  a + 1 \in 1 .. Len(ks) /\ f[a + 1] \in 2 .. Len(w) /\ ls[a] = ks[a + 1]
    OBVIOUS
  <2>1. a + 1 \in 1 .. Len(ks) /\ 1 < a + 1 /\ a \in 1 .. Len(ks) - 1
    BY <1>2, <1>7
  <2>2. f[1] < f[a + 1] /\ f[a + 1] \in 1 .. Len(w) /\ f[1] = 1
    BY <1>3, <1>4, <1>5, <1>6, <2>1
  <2>. QED
    BY <1>1, <1>7, <2>1, <2>2
<1>. DEFINE g == [a \in 1 .. Len(ls) |-> f[a + 1] - 1]
<1>10. g \in [1 .. Len(ls) -> 1 .. Len(v)] /\ \A a \in 1 .. Len(ls) : g[a] = f[a + 1] - 1
  BY <1>1, <1>9
<1>. HIDE DEF g
<1>11. \A a, b_1 \in 1 .. Len(ls) : a < b_1 => g[a] < g[b_1]
  <2>. SUFFICES ASSUME NEW a \in 1 .. Len(ls), NEW c \in 1 .. Len(ls), a < c
                PROVE  g[a] < g[c]
    OBVIOUS
  <2>1. a + 1 \in 1 .. Len(ks) /\ c + 1 \in 1 .. Len(ks) /\ a + 1 < c + 1
    BY <1>9
  <2>2. f[a + 1] < f[c + 1]
    BY <1>3, <2>1
  <2>. QED
    BY <1>1, <1>9, <1>10, <2>2
<1>12. ASSUME NEW a \in 1 .. Len(ls)
       PROVE  v[g[a]].type = ls[a][1] /\ v[g[a]].n = ls[a][2]
  <2>1. g[a] \in 1 .. Len(w) - 1 /\ g[a] + 1 = f[a + 1]
    <3>1. g[a] \in 1 .. Len(v) /\ g[a] = f[a + 1] - 1 /\ f[a + 1] \in 2 .. Len(w)
      BY <1>9, <1>10
    <3>. QED
      BY <1>1, <3>1
  <2>2. v[g[a]] = w[f[a + 1]] /\ ls[a] = ks[a + 1]
    BY <1>1, <1>9, <2>1
  <2>. QED
    BY <1>3, <1>9, <2>2
<1>13. ASSUME NEW i \in 1 .. Len(v), v[i].type # "data"
       PROVE  \E a \in 1 .. Len(ls) : g[a] = i
  <2>1. i + 1 \in 1 .. Len(w) /\ v[i] = w[i + 1] /\ i + 1 # 1
    BY <1>1
  <2>2. PICK a \in 1 .. Len(ks) : f[a] = i + 1
    BY <1>3, <1>13, <2>1
  <2>3. a # 1
    BY <1>4, <1>6, <2>1, <2>2
  <2>4. a - 1 \in 1 .. Len(ls) /\ (a - 1) + 1 = a
    BY <1>2, <1>7, <2>2, <2>3
  <2>5. g[a - 1] = f[a] - 1
    BY <1>10, <2>4
  <2>. QED
    BY <2>2, <2>4, <2>5
<1>14. Len(v) = u + Len(ls)
  BY <1>1, <1>2, <1>7 DEF Shape
<1>15. Shape(v, ls, u)
  BY <1>10, <1>11, <1>12, <1>13, <1>14 DEF Shape
<1>. QED
  BY <1>5, <1>8, <1>15 DEF v, ls
(* Where the last packet of the exchanges is a NEWKEYS, or there is none.  *)
Ends(ks) == ks = <<>> \/ ks[Len(ks)] = Newkeys

(* Where the packets of exchanges end with a NEWKEYS, so does the wire, but *)
(* for packets of the layers above.                                         *)
LEMMA ShapeEnds ==
  ASSUME NEW w \in Seq(Packet), NEW ks \in Seq(KexMsg), NEW u, Shape(w, ks, u), Ends(ks)
  PROVE  /\ w # <<>> => w[Len(w)].type \in {"data", "newkeys"}
         /\ \A i \in 1 .. Len(w) :
              w[i].type = "kexinit" => \E k \in i .. Len(w) : w[k].type = "newkeys"
<1>1. Len(ks) \in Nat /\ Len(w) \in Nat
  OBVIOUS
<1>2. PICK f \in [1 .. Len(ks) -> 1 .. Len(w)] :
        /\ \A a, b \in 1 .. Len(ks) : a < b => f[a] < f[b]
        /\ \A a \in 1 .. Len(ks) : w[f[a]].type = ks[a][1] /\ w[f[a]].n = ks[a][2]
        /\ \A i \in 1 .. Len(w) :
             w[i].type # "data" => \E a \in 1 .. Len(ks) : f[a] = i
  BY DEF Shape
<1>3. ASSUME NEW i \in 1 .. Len(w), w[i].type # "data"
      PROVE  \E k \in i .. Len(w) : w[k].type = "newkeys"
  <2>1. PICK a \in 1 .. Len(ks) : f[a] = i
    BY <1>2, <1>3
  <2>2. Len(ks) \in 1 .. Len(ks) /\ ks # <<>>
    BY <1>1, <2>1
  <2>3. ks[Len(ks)] = <<"newkeys", 0>>
    BY <2>2 DEF Ends, Newkeys
  <2>4. w[f[Len(ks)]].type = "newkeys" /\ f[Len(ks)] \in 1 .. Len(w)
    BY <1>2, <2>2, <2>3
  <2>5. f[Len(ks)] >= i
    <3>1. CASE a = Len(ks)
      BY <2>1, <2>4, <3>1
    <3>2. CASE a < Len(ks)
      <4>1. f[a] < f[Len(ks)]
        BY <1>2, <2>1, <2>2, <3>2
      <4>. QED
        BY <2>1, <2>4, <4>1
    <3>. QED
      BY <1>1, <2>1, <3>1, <3>2
  <2>6. f[Len(ks)] \in i .. Len(w)
    BY <2>4, <2>5
  <2>. QED
    BY <2>4, <2>6
<1>4. ASSUME w # <<>> PROVE w[Len(w)].type \in {"data", "newkeys"}
  <2>1. Len(w) \in 1 .. Len(w)
    BY <1>1, <1>4
  <2>2. CASE w[Len(w)].type # "data"
    <3>1. PICK k \in Len(w) .. Len(w) : w[k].type = "newkeys"
      BY <1>3, <2>1, <2>2
    <3>2. k = Len(w)
      BY <1>1, <3>1
    <3>. QED
      BY <3>1, <3>2
  <2>. QED
    BY <2>2
<1>5. ASSUME NEW i \in 1 .. Len(w), w[i].type = "kexinit"
      PROVE  \E k \in i .. Len(w) : w[k].type = "newkeys"
  <2>1. w[i].type # "data"
    BY <1>5
  <2>. QED
    BY <1>3, <2>1
<1>. QED
  BY <1>4, <1>5

(* Without a NEWKEYS among them there is none on the wire. *)
LEMMA ShapeNoNew ==
  ASSUME NEW w, NEW ks, NEW u, Shape(w, ks, u),
         \A a \in 1 .. Len(ks) : ks[a][1] # "newkeys"
  PROVE  NoNewkeys(w)
<1>. SUFFICES ASSUME NEW i \in 1 .. Len(w), w[i].type = "newkeys" PROVE FALSE
  BY DEF NoNewkeys
<1>1. w[i].type # "data"
  OBVIOUS
<1>2. \E f \in [1 .. Len(ks) -> 1 .. Len(w)] :
        /\ \A a \in 1 .. Len(ks) : w[f[a]].type = ks[a][1]
        /\ \E a \in 1 .. Len(ks) : f[a] = i
  BY <1>1 DEF Shape
<1>. QED
  BY <1>2

-----------------------------------------------------------------------------
(* The seals. *)

(* A packet that is no NEWKEYS is sent. *)
LEMMA SealSend ==
  ASSUME NEW w \in Seq(Packet), NEW tk \in Nat, NEW tq \in Nat, NEW rk \in Nat,
         NEW rq \in Nat, NEW m \in Packet, m.type # "newkeys", m.key = tk, m.seq = tq,
         Seal(w, tk, tq, rk, rq)
  PROVE  Seal(Append(w, m), tk, tq + 1, rk, rq)
<1>. DEFINE v == Append(w, m)
<1>1. /\ Len(v) = Len(w) + 1 /\ Len(w) \in Nat /\ v[Len(w) + 1] = m
      /\ \A i \in 1 .. Len(w) : v[i] = w[i]
  BY AppendPacket
<1>. HIDE DEF v
<1>2. \A i \in 1 .. Len(v) : i \in 1 .. Len(w) \/ i = Len(w) + 1
  BY <1>1
<1>3. OneNewkeys(v)
  BY <1>1, <1>2 DEF Seal, OneNewkeys
<1>4. NoNewkeys(w) => tk = rk /\ tq = rq + Len(w)
  BY DEF Seal, NextSeal
<1>5. OldSeal(v, rk, rq)
  <2>. SUFFICES ASSUME NEW i \in 1 .. Len(v), \A k \in 1 .. i - 1 : v[k].type # "newkeys"
                PROVE  v[i].key = rk /\ v[i].seq = rq + i - 1
    BY DEF OldSeal
  <2>1. CASE i \in 1 .. Len(w)
    <3>1. \A k \in 1 .. i - 1 : k \in 1 .. Len(w) /\ w[k].type # "newkeys"
      BY <1>1, <2>1
    <3>2. w[i].key = rk /\ w[i].seq = rq + i - 1
      BY <2>1, <3>1 DEF Seal, OldSeal
    <3>. QED
      BY <1>1, <2>1, <3>2
  <2>2. CASE i = Len(w) + 1
    <3>1. i - 1 = Len(w)
      BY <1>1, <2>2
    <3>2. NoNewkeys(w)
      BY <1>1, <3>1 DEF NoNewkeys
    <3>3. tk = rk /\ tq = rq + i - 1
      BY <1>1, <1>4, <2>2, <3>2
    <3>. QED
      BY <1>1, <2>2, <3>3
  <2>. QED
    BY <1>2, <2>1, <2>2
<1>6. \A j \in 1 .. Len(w) : w[j].type = "newkeys"
        => tq = IF strict THEN Len(w) - j ELSE rq + Len(w)
  BY DEF Seal, NextSeal
<1>7. NewSeal(v, tk, rq)
  <2>. SUFFICES ASSUME NEW i \in 1 .. Len(v), NEW j \in 1 .. Len(v), j < i, v[j].type = "newkeys"
                PROVE  v[i].key = tk /\ v[i].seq = IF strict THEN i - j - 1 ELSE rq + i - 1
    BY DEF NewSeal
  <2>1. j \in 1 .. Len(w) /\ w[j].type = "newkeys"
    BY <1>1, <1>2
  <2>2. CASE i \in 1 .. Len(w)
    BY <1>1, <2>1, <2>2 DEF Seal, NewSeal
  <2>3. CASE i = Len(w) + 1
    <3>1. v[i].key = tk /\ v[i].seq = tq
      BY <1>1, <2>3
    <3>2. tq = IF strict THEN Len(w) - j ELSE rq + Len(w)
      BY <1>6, <2>1
    <3>3. Len(w) - j = i - j - 1 /\ rq + Len(w) = rq + i - 1
      BY <1>1, <2>3
    <3>. QED
      BY <3>1, <3>2, <3>3
  <2>. QED
    BY <1>2, <2>2, <2>3
<1>8. NextSeal(v, tk, tq + 1, rk, rq)
  <2>1. ASSUME NoNewkeys(v) PROVE tk = rk /\ tq + 1 = rq + Len(v)
    <3>1. NoNewkeys(w)
      BY <1>1, <2>1 DEF NoNewkeys
    <3>. QED
      BY <1>1, <1>4, <3>1
  <2>2. ASSUME NEW j \in 1 .. Len(v), v[j].type = "newkeys"
        PROVE  tq + 1 = IF strict THEN Len(v) - j ELSE rq + Len(v)
    <3>1. j \in 1 .. Len(w) /\ w[j].type = "newkeys"
      BY <1>1, <1>2, <2>2
    <3>2. tq = IF strict THEN Len(w) - j ELSE rq + Len(w)
      BY <1>6, <3>1
    <3>. QED
      BY <1>1, <3>1, <3>2
  <2>. QED
    BY <2>1, <2>2 DEF NextSeal
<1>. QED
  BY <1>3, <1>5, <1>7, <1>8 DEF Seal, v

(* A NEWKEYS is sent, and the key k used from there on. *)
LEMMA SealSendNew ==
  ASSUME NEW w \in Seq(Packet), NEW tk \in Nat, NEW tq \in Nat, NEW rk \in Nat,
         NEW rq \in Nat, NEW m \in Packet, m.type = "newkeys", m.key = tk, m.seq = tq,
         NEW k \in Nat, NoNewkeys(w), Seal(w, tk, tq, rk, rq)
  PROVE  Seal(Append(w, m), k, IF strict THEN 0 ELSE tq + 1, rk, rq)
<1>. DEFINE v == Append(w, m)
<1>1. /\ Len(v) = Len(w) + 1 /\ Len(w) \in Nat /\ v[Len(w) + 1] = m
      /\ \A i \in 1 .. Len(w) : v[i] = w[i]
  BY AppendPacket
<1>. HIDE DEF v
<1>2. \A i \in 1 .. Len(v) : i \in 1 .. Len(w) \/ i = Len(w) + 1
  BY <1>1
<1>3. \A i \in 1 .. Len(v) : v[i].type = "newkeys" => i = Len(w) + 1
  BY <1>1, <1>2 DEF NoNewkeys
<1>4. tk = rk /\ tq = rq + Len(w)
  BY DEF Seal, NextSeal
<1>5. OneNewkeys(v)
  BY <1>3 DEF OneNewkeys
<1>6. OldSeal(v, rk, rq)
  <2>. SUFFICES ASSUME NEW i \in 1 .. Len(v)
                PROVE  v[i].key = rk /\ v[i].seq = rq + i - 1
    BY DEF OldSeal
  <2>1. CASE i \in 1 .. Len(w)
    <3>1. \A j \in 1 .. i - 1 : w[j].type # "newkeys"
      BY <1>1, <2>1 DEF NoNewkeys
    <3>2. w[i].key = rk /\ w[i].seq = rq + i - 1
      BY <2>1, <3>1 DEF Seal, OldSeal
    <3>. QED
      BY <1>1, <2>1, <3>2
  <2>2. CASE i = Len(w) + 1
    BY <1>1, <1>4, <2>2
  <2>. QED
    BY <1>2, <2>1, <2>2
<1>7. NewSeal(v, k, rq)
  BY <1>1, <1>3 DEF NewSeal
<1>8. NextSeal(v, k, IF strict THEN 0 ELSE tq + 1, rk, rq)
  <2>1. ~NoNewkeys(v)
    BY <1>1 DEF NoNewkeys
  <2>2. ASSUME NEW j \in 1 .. Len(v), v[j].type = "newkeys"
        PROVE  (IF strict THEN 0 ELSE tq + 1) = IF strict THEN Len(v) - j ELSE rq + Len(v)
    <3>1. j = Len(w) + 1
      BY <1>3, <2>2
    <3>2. Len(v) - j = 0 /\ tq + 1 = rq + Len(v)
      BY <1>1, <1>4, <3>1
    <3>. QED
      BY <3>2
  <2>. QED
    BY <2>1, <2>2 DEF NextSeal
<1>. QED
  BY <1>5, <1>6, <1>7, <1>8 DEF Seal, v
(* What waited in the reply queue is sent. *)
LEMMA SealSendMany ==
  ASSUME NEW w \in Seq(Packet), NEW tk \in Nat, NEW tq \in Nat, NEW rk \in Nat,
         NEW rq \in Nat, NEW d \in Seq(Packet),
         \A i \in 1 .. Len(d) : /\ d[i].type # "newkeys" /\ d[i].key = tk
                                /\ d[i].seq = tq + i - 1,
         Seal(w, tk, tq, rk, rq)
  PROVE  Seal(w \o d, tk, tq + Len(d), rk, rq)
<1>. DEFINE v == w \o d
<1>1. /\ Len(v) = Len(w) + Len(d) /\ Len(w) \in Nat /\ Len(d) \in Nat
      /\ \A i \in 1 .. Len(w) : v[i] = w[i]
      /\ \A i \in 1 .. Len(d) : v[Len(w) + i] = d[i]
  BY ConcatPacket
<1>. HIDE DEF v
<1>2. ASSUME NEW i \in 1 .. Len(v), i \notin 1 .. Len(w)
      PROVE  /\ v[i].type # "newkeys" /\ v[i].key = tk
             /\ v[i].seq = tq + (i - Len(w)) - 1 /\ i > Len(w)
  <2>1. i - Len(w) \in 1 .. Len(d) /\ Len(w) + (i - Len(w)) = i /\ i > Len(w)
    BY <1>1, <1>2
  <2>2. v[i] = d[i - Len(w)]
    BY <1>1, <2>1
  <2>. QED
    BY <2>1, <2>2
<1>3. \A i \in 1 .. Len(w) : i \in 1 .. Len(v)
  BY <1>1
<1>4. OneNewkeys(v)
  BY <1>1, <1>2 DEF Seal, OneNewkeys
<1>5. NoNewkeys(w) => tk = rk /\ tq = rq + Len(w)
  BY DEF Seal, NextSeal
<1>6. \A j \in 1 .. Len(w) : w[j].type = "newkeys"
        => tq = IF strict THEN Len(w) - j ELSE rq + Len(w)
  BY DEF Seal, NextSeal
<1>7. OldSeal(v, rk, rq)
  <2>. SUFFICES ASSUME NEW i \in 1 .. Len(v), \A k \in 1 .. i - 1 : v[k].type # "newkeys"
                PROVE  v[i].key = rk /\ v[i].seq = rq + i - 1
    BY DEF OldSeal
  <2>1. CASE i \in 1 .. Len(w)
    <3>1. \A k \in 1 .. i - 1 : k \in 1 .. Len(w) /\ w[k].type # "newkeys"
      BY <1>1, <2>1
    <3>2. w[i].key = rk /\ w[i].seq = rq + i - 1
      BY <2>1, <3>1 DEF Seal, OldSeal
    <3>. QED
      BY <1>1, <2>1, <3>2
  <2>2. CASE i \notin 1 .. Len(w)
    <3>1. i > Len(w) /\ v[i].key = tk /\ v[i].seq = tq + (i - Len(w)) - 1
      BY <1>2, <2>2
    <3>2. \A k \in 1 .. Len(w) : k \in 1 .. i - 1
      BY <1>1, <3>1
    <3>3. NoNewkeys(w)
      BY <1>1, <3>2 DEF NoNewkeys
    <3>4. tk = rk /\ tq = rq + Len(w)
      BY <1>5, <3>3
    <3>. QED
      BY <1>1, <3>1, <3>4
  <2>. QED
    BY <2>1, <2>2
<1>8. NewSeal(v, tk, rq)
  <2>. SUFFICES ASSUME NEW i \in 1 .. Len(v), NEW j \in 1 .. Len(v), j < i, v[j].type = "newkeys"
                PROVE  v[i].key = tk /\ v[i].seq = IF strict THEN i - j - 1 ELSE rq + i - 1
    BY DEF NewSeal
  <2>1. j \in 1 .. Len(w)
    BY <1>2
  <2>2. w[j].type = "newkeys"
    BY <1>1, <2>1
  <2>3. CASE i \in 1 .. Len(w)
    BY <1>1, <2>1, <2>2, <2>3 DEF Seal, NewSeal
  <2>4. CASE i \notin 1 .. Len(w)
    <3>1. v[i].key = tk /\ v[i].seq = tq + (i - Len(w)) - 1
      BY <1>2, <2>4
    <3>2. tq = IF strict THEN Len(w) - j ELSE rq + Len(w)
      BY <1>6, <2>1, <2>2
    <3>3. /\ Len(w) - j + (i - Len(w)) - 1 = i - j - 1
          /\ rq + Len(w) + (i - Len(w)) - 1 = rq + i - 1
      BY <1>1
    <3>. QED
      BY <3>1, <3>2, <3>3
  <2>. QED
    BY <2>3, <2>4
<1>9. NextSeal(v, tk, tq + Len(d), rk, rq)
  <2>1. ASSUME NoNewkeys(v) PROVE tk = rk /\ tq + Len(d) = rq + Len(v)
    <3>1. NoNewkeys(w)
      BY <1>1, <1>3, <2>1 DEF NoNewkeys
    <3>. QED
      BY <1>1, <1>5, <3>1
  <2>2. ASSUME NEW j \in 1 .. Len(v), v[j].type = "newkeys"
        PROVE  tq + Len(d) = IF strict THEN Len(v) - j ELSE rq + Len(v)
    <3>1. j \in 1 .. Len(w)
      BY <1>2, <2>2
    <3>2. tq = IF strict THEN Len(w) - j ELSE rq + Len(w)
      BY <1>1, <1>6, <2>2, <3>1
    <3>. QED
      BY <1>1, <3>1, <3>2
  <2>. QED
    BY <2>1, <2>2 DEF NextSeal
<1>. QED
  BY <1>4, <1>7, <1>8, <1>9 DEF Seal, v

(* The receiver opens the first packet with its own key and number. *)
LEMMA SealHead ==
  ASSUME NEW w \in Seq(Packet), w # <<>>, NEW tk, NEW tq, NEW rk, NEW rq \in Nat,
         Seal(w, tk, tq, rk, rq)
  PROVE  Head(w).key = rk /\ Head(w).seq = rq
<1>1. Head(w) = w[1] /\ 1 \in 1 .. Len(w)
  BY TailPacket
<1>2. \A k \in 1 .. 1 - 1 : w[k].type # "newkeys"
  OBVIOUS
<1>3. w[1].key = rk /\ w[1].seq = rq + 1 - 1
  BY <1>1, <1>2 DEF Seal, OldSeal
<1>. QED
  BY <1>1, <1>3

(* It goes on counting ... *)
LEMMA SealRead ==
  ASSUME NEW w \in Seq(Packet), w # <<>>, Head(w).type # "newkeys",
         NEW tk \in Nat, NEW tq \in Nat, NEW rk \in Nat, NEW rq \in Nat,
         Seal(w, tk, tq, rk, rq)
  PROVE  Seal(Tail(w), tk, tq, rk, rq + 1)
<1>. DEFINE v == Tail(w)
<1>1. /\ Head(w) = w[1] /\ Len(w) \in Nat /\ Len(w) >= 1 /\ Len(v) = Len(w) - 1
      /\ \A i \in 1 .. Len(w) - 1 : v[i] = w[i + 1]
  BY TailPacket
<1>. HIDE DEF v
<1>2. \A i \in 1 .. Len(v) : i + 1 \in 1 .. Len(w) /\ v[i] = w[i + 1]
  BY <1>1
<1>3. \A k \in 1 .. Len(w) : k = 1 \/ (k - 1 \in 1 .. Len(v) /\ w[k] = v[k - 1])
  <2>. SUFFICES ASSUME NEW k \in 1 .. Len(w), k # 1
                PROVE  k - 1 \in 1 .. Len(v) /\ w[k] = v[k - 1]
    OBVIOUS
  <2>1. k - 1 \in 1 .. Len(v) /\ (k - 1) + 1 = k
    BY <1>1
  <2>. QED
    BY <1>2, <2>1
<1>4. OneNewkeys(v)
  <2>. SUFFICES ASSUME NEW i \in 1 .. Len(v), NEW j \in 1 .. Len(v),
                       v[i].type = "newkeys", v[j].type = "newkeys"
                PROVE  i = j
    BY DEF OneNewkeys
  <2>1. i + 1 = j + 1
    BY <1>2 DEF Seal, OneNewkeys
  <2>. QED
    BY <2>1
<1>5. OldSeal(v, rk, rq + 1)
  <2>. SUFFICES ASSUME NEW i \in 1 .. Len(v), \A k \in 1 .. i - 1 : v[k].type # "newkeys"
                PROVE  v[i].key = rk /\ v[i].seq = (rq + 1) + i - 1
    BY DEF OldSeal
  <2>1. ASSUME NEW k \in 1 .. (i + 1) - 1 PROVE w[k].type # "newkeys"
    <3>1. CASE k = 1
      BY <1>1, <3>1
    <3>2. CASE k # 1
      <4>1. k \in 1 .. Len(w) /\ k - 1 \in 1 .. i - 1
        BY <1>1, <3>2
      <4>. QED
        BY <1>3, <3>2, <4>1
    <3>. QED
      BY <3>1, <3>2
  <2>2. w[i + 1].key = rk /\ w[i + 1].seq = rq + (i + 1) - 1
    BY <1>2, <2>1 DEF Seal, OldSeal
  <2>. QED
    BY <1>2, <2>2, SMTT(30)
<1>6. NewSeal(v, tk, rq + 1)
  <2>. SUFFICES ASSUME NEW i \in 1 .. Len(v), NEW j \in 1 .. Len(v), j < i, v[j].type = "newkeys"
                PROVE  v[i].key = tk /\ v[i].seq = IF strict THEN i - j - 1 ELSE (rq + 1) + i - 1
    BY DEF NewSeal
  <2>1. /\ w[i + 1].key = tk
        /\ w[i + 1].seq = IF strict THEN (i + 1) - (j + 1) - 1 ELSE rq + (i + 1) - 1
    <3>1. /\ i + 1 \in 1 .. Len(w) /\ j + 1 \in 1 .. Len(w) /\ j + 1 < i + 1
          /\ w[j + 1].type = "newkeys"
      BY <1>2
    <3>2. NewSeal(w, tk, rq)
      BY DEF Seal
    <3>. QED
      BY <3>1, <3>2, Zenon DEF NewSeal
  <2>2. (i + 1) - (j + 1) - 1 = i - j - 1 /\ rq + (i + 1) - 1 = (rq + 1) + i - 1
    OBVIOUS
  <2>. QED
    BY <1>2, <2>1, <2>2
<1>7. NextSeal(v, tk, tq, rk, rq + 1)
  <2>1. ASSUME NoNewkeys(v) PROVE tk = rk /\ tq = (rq + 1) + Len(v)
    <3>1. NoNewkeys(w)
      BY <1>1, <1>3, <2>1 DEF NoNewkeys
    <3>2. tk = rk /\ tq = rq + Len(w)
      BY <3>1 DEF Seal, NextSeal
    <3>. QED
      BY <1>1, <3>2
  <2>2. ASSUME NEW j \in 1 .. Len(v), v[j].type = "newkeys"
        PROVE  tq = IF strict THEN Len(v) - j ELSE (rq + 1) + Len(v)
    <3>1. tq = IF strict THEN Len(w) - (j + 1) ELSE rq + Len(w)
      BY <1>2, <2>2 DEF Seal, NextSeal
    <3>. QED
      BY <1>1, <3>1
  <2>. QED
    BY <2>1, <2>2 DEF NextSeal
<1>. QED
  BY <1>4, <1>5, <1>6, <1>7 DEF Seal, v

(* ... until the NEWKEYS, from where it needs the new key. *)
LEMMA SealReadNew ==
  ASSUME NEW w \in Seq(Packet), w # <<>>, Head(w).type = "newkeys",
         NEW tk \in Nat, NEW tq \in Nat, NEW rk \in Nat, NEW rq \in Nat,
         Seal(w, tk, tq, rk, rq)
  PROVE  Seal(Tail(w), tk, tq, tk, IF strict THEN 0 ELSE rq + 1)
<1>. DEFINE v == Tail(w)
<1>1. /\ Head(w) = w[1] /\ Len(w) \in Nat /\ Len(w) >= 1 /\ Len(v) = Len(w) - 1
      /\ \A i \in 1 .. Len(w) - 1 : v[i] = w[i + 1]
  BY TailPacket
<1>. HIDE DEF v
<1>2. \A i \in 1 .. Len(v) : i + 1 \in 1 .. Len(w) /\ v[i] = w[i + 1]
  BY <1>1
<1>3. 1 \in 1 .. Len(w) /\ w[1].type = "newkeys"
  BY <1>1
<1>4. NoNewkeys(v)
  <2>. SUFFICES ASSUME NEW i \in 1 .. Len(v), v[i].type = "newkeys" PROVE FALSE
    BY DEF NoNewkeys
  <2>1. i + 1 = 1
    BY <1>2, <1>3 DEF Seal, OneNewkeys
  <2>. QED
    BY <2>1
<1>5. OneNewkeys(v) /\ NewSeal(v, tk, IF strict THEN 0 ELSE rq + 1)
  BY <1>4 DEF OneNewkeys, NewSeal, NoNewkeys
<1>6. OldSeal(v, tk, IF strict THEN 0 ELSE rq + 1)
  <2>. SUFFICES ASSUME NEW i \in 1 .. Len(v)
                PROVE  v[i].key = tk /\ v[i].seq = (IF strict THEN 0 ELSE rq + 1) + i - 1
    BY DEF OldSeal
  <2>1. 1 < i + 1
    OBVIOUS
  <2>2. /\ w[i + 1].key = tk
        /\ w[i + 1].seq = IF strict THEN (i + 1) - 1 - 1 ELSE rq + (i + 1) - 1
    BY <1>2, <1>3, <2>1 DEF Seal, NewSeal
  <2>3. (i + 1) - 1 - 1 = 0 + i - 1 /\ rq + (i + 1) - 1 = rq + 1 + i - 1
    OBVIOUS
  <2>. QED
    BY <1>2, <2>2, <2>3
<1>7. NextSeal(v, tk, tq, tk, IF strict THEN 0 ELSE rq + 1)
  <2>1. tq = IF strict THEN Len(w) - 1 ELSE rq + Len(w)
    BY <1>3 DEF Seal, NextSeal
  <2>2. Len(w) - 1 = 0 + Len(v) /\ rq + Len(w) = rq + 1 + Len(v)
    BY <1>1
  <2>3. tq = (IF strict THEN 0 ELSE rq + 1) + Len(v)
    BY <2>1, <2>2
  <2>. QED
    BY <1>4, <2>3 DEF NextSeal, NoNewkeys
<1>. QED
  BY <1>5, <1>6, <1>7 DEF Seal, v
-----------------------------------------------------------------------------
(* A wire as a whole. *)

(* A packet of an exchange is sent. *)
LEMMA QuietSendKex ==
  ASSUME NEW w \in Seq(Packet), NEW m \in Packet, m.type # "data", NEW open,
         Quiet(w, open), NoneBetween(w)
  PROVE  Quiet(Append(w, m), open) /\ NoneBetween(Append(w, m))
<1>. DEFINE v == Append(w, m)
<1>1. /\ Len(v) = Len(w) + 1 /\ Len(w) \in Nat /\ v[Len(w) + 1] = m
      /\ \A i \in 1 .. Len(w) : v[i] = w[i]
  BY AppendPacket
<1>. HIDE DEF v
<1>2. \A j \in 1 .. Len(v) : v[j].type = "data" => j \in 1 .. Len(w) /\ v[j] = w[j]
  BY <1>1
<1>3. Quiet(v, open)
  <2>. SUFFICES ASSUME NEW j \in 1 .. Len(v), v[j].type = "data"
                PROVE  IF j = 1 THEN open ELSE v[j - 1].type \in {"data", "newkeys"}
    BY DEF Quiet
  <2>1. j \in 1 .. Len(w) /\ w[j].type = "data"
    BY <1>2
  <2>2. IF j = 1 THEN open ELSE w[j - 1].type \in {"data", "newkeys"}
    BY <2>1 DEF Quiet
  <2>3. j # 1 => j - 1 \in 1 .. Len(w) /\ v[j - 1] = w[j - 1]
    BY <1>1, <2>1
  <2>. QED
    BY <2>2, <2>3
<1>4. NoneBetween(v)
  <2>. SUFFICES ASSUME NEW i \in 1 .. Len(v), NEW j \in 1 .. Len(v), i < j,
                       v[i].type = "kexinit", v[j].type = "data"
                PROVE  \E k \in i .. j : v[k].type = "newkeys"
    BY DEF NoneBetween
  <2>1. j \in 1 .. Len(w) /\ w[j].type = "data" /\ i \in 1 .. Len(w) /\ w[i].type = "kexinit"
    BY <1>1, <1>2
  <2>2. PICK k \in i .. j : w[k].type = "newkeys"
    BY <2>1 DEF NoneBetween
  <2>3. k \in 1 .. Len(w)
    BY <1>1, <2>1, <2>2
  <2>. QED
    BY <1>1, <2>2, <2>3
<1>. QED
  BY <1>3, <1>4 DEF v

(* Packets of the layers above are sent, with no exchange under way. *)
LEMMA QuietSendData ==
  ASSUME NEW w \in Seq(Packet), NEW d \in Seq(Packet), NEW open,
         \A i \in 1 .. Len(d) : d[i].type = "data",
         w = <<>> => open,
         w # <<>> => w[Len(w)].type \in {"data", "newkeys"},
         \A i \in 1 .. Len(w) :
           w[i].type = "kexinit" => \E k \in i .. Len(w) : w[k].type = "newkeys",
         Quiet(w, open), NoneBetween(w)
  PROVE  Quiet(w \o d, open) /\ NoneBetween(w \o d)
<1>. DEFINE v == w \o d
<1>1. /\ Len(v) = Len(w) + Len(d) /\ Len(w) \in Nat /\ Len(d) \in Nat
      /\ \A i \in 1 .. Len(w) : v[i] = w[i]
      /\ \A i \in 1 .. Len(d) : v[Len(w) + i] = d[i]
  BY ConcatPacket
<1>. HIDE DEF v
<1>2. ASSUME NEW i \in 1 .. Len(v), i \notin 1 .. Len(w)
      PROVE  i > Len(w) /\ v[i].type = "data"
  <2>1. i - Len(w) \in 1 .. Len(d) /\ Len(w) + (i - Len(w)) = i /\ i > Len(w)
    BY <1>1, <1>2
  <2>. QED
    BY <1>1, <2>1
<1>3. Quiet(v, open)
  <2>. SUFFICES ASSUME NEW j \in 1 .. Len(v), v[j].type = "data"
                PROVE  IF j = 1 THEN open ELSE v[j - 1].type \in {"data", "newkeys"}
    BY DEF Quiet
  <2>1. CASE j \in 1 .. Len(w)
    <3>1. w[j].type = "data"
      BY <1>1, <2>1
    <3>2. IF j = 1 THEN open ELSE w[j - 1].type \in {"data", "newkeys"}
      BY <2>1, <3>1 DEF Quiet
    <3>3. j # 1 => j - 1 \in 1 .. Len(w) /\ v[j - 1] = w[j - 1]
      BY <1>1, <2>1
    <3>. QED
      BY <3>2, <3>3
  <2>2. CASE j \notin 1 .. Len(w) /\ j = 1
    <3>1. Len(w) = 0
      BY <1>1, <2>2
    <3>2. w = <<>>
      BY <3>1
    <3>. QED
      BY <2>2, <3>2
  <2>3. CASE j \notin 1 .. Len(w) /\ j # 1
    <3>1. j - 1 \in 1 .. Len(v) /\ j > Len(w)
      BY <1>1, <1>2, <2>3
    <3>2. CASE j - 1 \in 1 .. Len(w)
      <4>1. j - 1 = Len(w)
        BY <1>1, <3>1, <3>2
      <4>2. w # <<>> /\ v[j - 1] = w[Len(w)]
        BY <1>1, <3>2, <4>1
      <4>. QED
        BY <2>3, <4>2
    <3>3. CASE j - 1 \notin 1 .. Len(w)
      BY <1>2, <2>3, <3>1, <3>3
    <3>. QED
      BY <3>2, <3>3
  <2>. QED
    BY <2>1, <2>2, <2>3
<1>4. NoneBetween(v)
  <2>. SUFFICES ASSUME NEW i \in 1 .. Len(v), NEW j \in 1 .. Len(v), i < j,
                       v[i].type = "kexinit", v[j].type = "data"
                PROVE  \E k \in i .. j : v[k].type = "newkeys"
    BY DEF NoneBetween
  <2>1. i \in 1 .. Len(w) /\ w[i].type = "kexinit"
    BY <1>1, <1>2
  <2>2. CASE j \in 1 .. Len(w)
    <3>1. PICK k \in i .. j : w[k].type = "newkeys"
      BY <1>1, <2>1, <2>2 DEF NoneBetween
    <3>2. k \in 1 .. Len(w)
      BY <1>1, <2>2, <3>1
    <3>. QED
      BY <1>1, <3>1, <3>2
  <2>3. CASE j \notin 1 .. Len(w)
    <3>1. PICK k \in i .. Len(w) : w[k].type = "newkeys"
      BY <2>1
    <3>2. k \in i .. j /\ k \in 1 .. Len(w)
      BY <1>1, <1>2, <2>3, <3>1
    <3>. QED
      BY <1>1, <3>1, <3>2
  <2>. QED
    BY <2>2, <2>3
<1>. QED
  BY <1>3, <1>4 DEF v

(* The first packet is received. *)
LEMMA QuietRead ==
  ASSUME NEW w \in Seq(Packet), w # <<>>, NEW open, NEW after,
         Head(w).type \in {"data", "newkeys"} => after,
         Quiet(w, open), NoneBetween(w)
  PROVE  /\ Quiet(Tail(w), after) /\ NoneBetween(Tail(w))
         /\ Head(w).type = "data" => open
<1>. DEFINE v == Tail(w)
<1>1. /\ Head(w) = w[1] /\ Len(w) \in Nat /\ Len(w) >= 1 /\ Len(v) = Len(w) - 1
      /\ \A i \in 1 .. Len(w) - 1 : v[i] = w[i + 1]
  BY TailPacket
<1>. HIDE DEF v
<1>2. \A i \in 1 .. Len(v) : i + 1 \in 1 .. Len(w) /\ v[i] = w[i + 1]
  BY <1>1
<1>3. Head(w).type = "data" => open
  BY <1>1 DEF Quiet
<1>4. Quiet(v, after)
  <2>. SUFFICES ASSUME NEW j \in 1 .. Len(v), v[j].type = "data"
                PROVE  IF j = 1 THEN after ELSE v[j - 1].type \in {"data", "newkeys"}
    BY DEF Quiet
  <2>1. j + 1 \in 1 .. Len(w) /\ w[j + 1].type = "data" /\ j + 1 # 1 /\ (j + 1) - 1 = j
    BY <1>2
  <2>2. w[(j + 1) - 1].type \in {"data", "newkeys"}
    BY <2>1 DEF Quiet
  <2>3. w[j].type \in {"data", "newkeys"}
    BY <2>1, <2>2
  <2>4. CASE j = 1
    BY <1>1, <2>3, <2>4
  <2>5. CASE j # 1
    <3>1. j - 1 \in 1 .. Len(v) /\ (j - 1) + 1 = j
      BY <1>1, <2>5
    <3>2. v[j - 1] = w[j]
      BY <1>2, <3>1
    <3>. QED
      BY <2>3, <2>5, <3>2
  <2>. QED
    BY <2>4, <2>5
<1>5. NoneBetween(v)
  <2>. SUFFICES ASSUME NEW i \in 1 .. Len(v), NEW j \in 1 .. Len(v), i < j,
                       v[i].type = "kexinit", v[j].type = "data"
                PROVE  \E k \in i .. j : v[k].type = "newkeys"
    BY DEF NoneBetween
  <2>1. PICK k \in i + 1 .. j + 1 : w[k].type = "newkeys"
    <3>1. i + 1 < j + 1
      OBVIOUS
    <3>. QED
      BY <1>2, <3>1 DEF NoneBetween
  <2>2. k - 1 \in i .. j /\ k - 1 \in 1 .. Len(v) /\ (k - 1) + 1 = k
    BY <1>1, <2>1
  <2>3. v[k - 1] = w[k]
    BY <1>2, <2>2
  <2>. QED
    BY <2>1, <2>2, <2>3
<1>. QED
  BY <1>3, <1>4, <1>5 DEF v

Sealed(type, n, key, seq) == [type |-> type, n |-> n, key |-> key, seq |-> seq]

Waiting(q, key, seq) ==
  [i \in 1 .. Len(q) |-> [type |-> "data", n |-> q[i], key |-> key, seq |-> seq + i - 1]]

(* A packet sealed with a key and a number. *)
LEMMA SealedPacket ==
  ASSUME NEW type \in Type, NEW n \in Nat, NEW key \in Nat, NEW seq \in Nat
  PROVE  Sealed(type, n, key, seq) \in Packet
BY DEF Sealed, Packet

(* The packets that have waited, sealed one after the other. *)
LEMMA WaitingPackets ==
  ASSUME NEW q \in Seq(Nat), NEW key \in Nat, NEW seq \in Nat
  PROVE  /\ Waiting(q, key, seq) \in Seq(Packet)
         /\ Len(Waiting(q, key, seq)) = Len(q) /\ Len(q) \in Nat
         /\ \A i \in 1 .. Len(q) :
              Waiting(q, key, seq)[i] = [type |-> "data", n |-> q[i], key |-> key, seq |-> seq + i - 1]
<1>1. Len(q) \in Nat /\ \A i \in 1 .. Len(q) : q[i] \in Nat
  OBVIOUS
<1>2. ASSUME NEW i \in 1 .. Len(q)
      PROVE  [type |-> "data", n |-> q[i], key |-> key, seq |-> seq + i - 1] \in Packet
  <2>1. q[i] \in Nat /\ seq + i - 1 \in Nat
    BY <1>1
  <2>. QED
    BY <2>1 DEF Packet, Type
<1>. QED
  BY <1>1, <1>2 DEF Waiting

(* All of this together: a packet of an exchange is sent, ... *)
LEMMA WireSendKex ==
  ASSUME NEW w \in Seq(Packet), NEW ks \in Seq(KexMsg), NEW u \in Int, NEW open,
         NEW tk \in Nat, NEW tq \in Nat, NEW rk \in Nat, NEW rq \in Nat,
         Wire(w, ks, u, open, tk, tq, rk, rq),
         NEW type \in Type \ {"data", "newkeys"}, NEW n \in Nat
  PROVE  /\ Wire(Append(w, Sealed(type, n, tk, tq)), Append(ks, <<type, n>>), u, open,
                 tk, tq + 1, rk, rq)
         /\ Append(w, Sealed(type, n, tk, tq)) \in Seq(Packet)
<1>. DEFINE m == Sealed(type, n, tk, tq)
<1>1. m \in Packet /\ m.type = type /\ m.n = n /\ m.key = tk /\ m.seq = tq
  BY SealedPacket DEF Sealed
<1>2. <<type, n>> \in KexMsg /\ <<type, n>>[1] = type /\ <<type, n>>[2] = n
  BY DEF KexMsg
<1>. HIDE DEF m
<1>3. Shape(Append(w, m), Append(ks, <<type, n>>), u)
  BY <1>1, <1>2, ShapeSendKex DEF Wire
<1>4. Quiet(Append(w, m), open) /\ NoneBetween(Append(w, m))
  BY <1>1, QuietSendKex DEF Wire
<1>5. Seal(Append(w, m), tk, tq + 1, rk, rq)
  BY <1>1, SealSend DEF Wire
<1>6. Append(w, m) \in Seq(Packet)
  BY <1>1
<1>. QED
  BY <1>3, <1>4, <1>5, <1>6 DEF Wire, m

(* ... the NEWKEYS, ... *)
LEMMA WireSendNew ==
  ASSUME NEW w \in Seq(Packet), NEW ks \in Seq(KexMsg), NEW u \in Int, NEW open,
         NEW tk \in Nat, NEW tq \in Nat, NEW rk \in Nat, NEW rq \in Nat,
         Wire(w, ks, u, open, tk, tq, rk, rq),
         \A a \in 1 .. Len(ks) : ks[a][1] # "newkeys", NEW k \in Nat
  PROVE  /\ Wire(Append(w, Sealed("newkeys", 0, tk, tq)), Append(ks, Newkeys), u, open,
                 k, IF strict THEN 0 ELSE tq + 1, rk, rq)
         /\ Append(w, Sealed("newkeys", 0, tk, tq)) \in Seq(Packet)
<1>. DEFINE m == Sealed("newkeys", 0, tk, tq)
<1>1. m \in Packet /\ m.type = "newkeys" /\ m.n = 0 /\ m.key = tk /\ m.seq = tq
  BY SealedPacket DEF Sealed, Type
<1>2. Newkeys \in KexMsg /\ Newkeys[1] = "newkeys" /\ Newkeys[2] = 0
  BY DEF KexMsg, Newkeys, Type
<1>. HIDE DEF m
<1>3. Shape(Append(w, m), Append(ks, Newkeys), u)
  BY <1>1, <1>2, ShapeSendKex DEF Wire
<1>4. Quiet(Append(w, m), open) /\ NoneBetween(Append(w, m))
  BY <1>1, QuietSendKex DEF Wire
<1>5. NoNewkeys(w)
  BY ShapeNoNew DEF Wire
<1>6. Seal(Append(w, m), k, IF strict THEN 0 ELSE tq + 1, rk, rq)
  BY <1>1, <1>5, SealSendNew DEF Wire
<1>7. Append(w, m) \in Seq(Packet)
  BY <1>1
<1>. QED
  BY <1>3, <1>4, <1>6, <1>7 DEF Wire, m

(* ... packets of the layers above; ... *)
LEMMA WireSendData ==
  ASSUME NEW w \in Seq(Packet), NEW ks \in Seq(KexMsg), NEW u \in Int, NEW open,
         NEW tk \in Nat, NEW tq \in Nat, NEW rk \in Nat, NEW rq \in Nat,
         Wire(w, ks, u, open, tk, tq, rk, rq), Ends(ks), ks = <<>> => open,
         NEW q \in Seq(Nat)
  PROVE  /\ Wire(w \o Waiting(q, tk, tq), ks, u + Len(q), open, tk, tq + Len(q), rk, rq)
         /\ w \o Waiting(q, tk, tq) \in Seq(Packet)
<1>. DEFINE d == Waiting(q, tk, tq)
<1>1. /\ d \in Seq(Packet) /\ Len(d) = Len(q)
      /\ \A i \in 1 .. Len(q) :
           d[i] = [type |-> "data", n |-> q[i], key |-> tk, seq |-> tq + i - 1]
  BY WaitingPackets
<1>. HIDE DEF d
<1>2. /\ d \in Seq(Packet) /\ Len(d) = Len(q)
      /\ \A i \in 1 .. Len(d) : d[i].type = "data" /\ d[i].key = tk /\ d[i].seq = tq + i - 1
  <2>1. ASSUME NEW i \in 1 .. Len(d)
        PROVE  d[i].type = "data" /\ d[i].key = tk /\ d[i].seq = tq + i - 1
    <3>1. d[i] = [type |-> "data", n |-> q[i], key |-> tk, seq |-> tq + i - 1]
      BY <1>1
    <3>. QED
      BY <3>1
  <2>. QED
    BY <1>1, <2>1
<1>3. Shape(w \o d, ks, u + Len(d))
  BY <1>2, ShapeSendData DEF Wire
<1>4. /\ w # <<>> => w[Len(w)].type \in {"data", "newkeys"}
      /\ \A i \in 1 .. Len(w) :
           w[i].type = "kexinit" => \E k \in i .. Len(w) : w[k].type = "newkeys"
  BY ShapeEnds DEF Wire
<1>5. w = <<>> => ks = <<>>
  <2>. SUFFICES ASSUME w = <<>>, ks # <<>> PROVE FALSE
    OBVIOUS
  <2>1. 1 \in 1 .. Len(ks) /\ 1 .. Len(w) = {}
    OBVIOUS
  <2>2. \E f : f \in [1 .. Len(ks) -> 1 .. Len(w)]
    BY DEF Wire, Shape
  <2>. QED
    BY <2>1, <2>2
<1>6. Quiet(w \o d, open) /\ NoneBetween(w \o d)
  BY <1>2, <1>4, <1>5, QuietSendData DEF Wire
<1>7. Seal(w \o d, tk, tq + Len(d), rk, rq)
  BY <1>2, SealSendMany DEF Wire
<1>8. w \o d \in Seq(Packet)
  BY <1>2, ConcatPacket
<1>. QED
  BY <1>2, <1>3, <1>6, <1>7, <1>8 DEF Wire, d

(* ... one of these is read, ... *)
LEMMA WireReadData ==
  ASSUME NEW w \in Seq(Packet), NEW ks \in Seq(KexMsg), NEW u \in Int, NEW open,
         NEW tk \in Nat, NEW tq \in Nat, NEW rk \in Nat, NEW rq \in Nat,
         Wire(w, ks, u, open, tk, tq, rk, rq),
         w # <<>>, Head(w).type = "data", Len(ks) <= 3
  PROVE  /\ Wire(Tail(w), ks, u - 1, open, tk, tq, rk, rq + 1)
         /\ open /\ u >= 1 /\ Tail(w) \in Seq(Packet)
<1>1. \A x \in KexMsg : x[1] # "data"
  BY DEF KexMsg
<1>2. Shape(Tail(w), ks, u - 1) /\ u >= 1
  BY <1>1, ShapeReadData DEF Wire
<1>3. open
  BY QuietRead DEF Wire
<1>4. Quiet(Tail(w), open) /\ NoneBetween(Tail(w))
  BY <1>3, QuietRead DEF Wire
<1>5. Seal(Tail(w), tk, tq, rk, rq + 1)
  BY SealRead DEF Wire
<1>. QED
  BY <1>2, <1>3, <1>4, <1>5, TailPacket DEF Wire

(* The exchange has left its packets in order. *)
LEMMA WireHead ==
  ASSUME NEW w \in Seq(Packet), NEW ks \in Seq(KexMsg), NEW u \in Int, NEW open,
         NEW tk \in Nat, NEW tq \in Nat, NEW rk \in Nat, NEW rq \in Nat,
         Wire(w, ks, u, open, tk, tq, rk, rq), w # <<>>
  PROVE  /\ Head(w).key = rk /\ Head(w).seq = rq
         /\ Head(w) \in Packet /\ Tail(w) \in Seq(Packet)
         /\ Head(w).type # "data" => /\ ks # <<>> /\ Head(w).type = Head(ks)[1]
                                     /\ Head(w).n = Head(ks)[2]
<1>1. Head(w).key = rk /\ Head(w).seq = rq
  BY SealHead DEF Wire
<1>2. Head(w).type # "data" => /\ ks # <<>> /\ Head(w).type = Head(ks)[1]
                               /\ Head(w).n = Head(ks)[2]
  BY ShapeReadKex DEF Wire
<1>. QED
  BY <1>1, <1>2, TailPacket

(* ... one of an exchange, ... *)
LEMMA WireReadKex ==
  ASSUME NEW w \in Seq(Packet), NEW ks \in Seq(KexMsg), NEW u \in Int, NEW open,
         NEW tk \in Nat, NEW tq \in Nat, NEW rk \in Nat, NEW rq \in Nat,
         Wire(w, ks, u, open, tk, tq, rk, rq), NEW after,
         w # <<>>, Head(w).type \notin {"data", "newkeys"}
  PROVE  Wire(Tail(w), Tail(ks), u, after, tk, tq, rk, rq + 1)
<1>1. Shape(Tail(w), Tail(ks), u)
  BY ShapeReadKex DEF Wire
<1>2. Quiet(Tail(w), after) /\ NoneBetween(Tail(w))
  BY QuietRead DEF Wire
<1>3. Seal(Tail(w), tk, tq, rk, rq + 1)
  BY SealRead DEF Wire
<1>. QED
  BY <1>1, <1>2, <1>3 DEF Wire

(* ... or the NEWKEYS. *)
LEMMA WireReadNew ==
  ASSUME NEW w \in Seq(Packet), NEW ks \in Seq(KexMsg), NEW u \in Int, NEW open,
         NEW tk \in Nat, NEW tq \in Nat, NEW rk \in Nat, NEW rq \in Nat,
         Wire(w, ks, u, open, tk, tq, rk, rq),
         w # <<>>, Head(w).type = "newkeys"
  PROVE  Wire(Tail(w), Tail(ks), u, TRUE, tk, tq, tk, IF strict THEN 0 ELSE rq + 1)
<1>1. Shape(Tail(w), Tail(ks), u)
  BY ShapeReadKex DEF Wire
<1>2. Quiet(Tail(w), TRUE) /\ NoneBetween(Tail(w))
  BY QuietRead DEF Wire
<1>3. Seal(Tail(w), tk, tq, tk, IF strict THEN 0 ELSE rq + 1)
  BY SealReadNew DEF Wire
<1>. QED
  BY <1>1, <1>2, <1>3 DEF Wire

(* An iteration of session_loop() that reads m. *)
Reads(s, m) == loophandler(maybe_flush_reply_queue(process_packet(s, m)), m.type)

(* Where nothing waits maybe_flush_reply_queue() does nothing. *)
LEMMA FlushNone ==
  ASSUME NEW s \in Sshsession, s.dataallowed => s.reply_queue = <<>>
  PROVE  maybe_flush_reply_queue(s) = s
<1>1. CASE ~s.dataallowed
  BY <1>1 DEF maybe_flush_reply_queue
<1>2. CASE s.dataallowed
  <2>. DEFINE d == [i \in 1 .. Len(s.reply_queue) |->
                         [type |-> "data", n |-> s.reply_queue[i],
                          key |-> s.transkey, seq |-> s.transseq + i - 1]]
  <2>1. s.wire \in Seq(Packet) /\ s.transseq \in Nat /\ s.reply_queue = <<>>
    BY <1>2 DEF Sshsession
  <2>2. d = <<>> /\ Len(s.reply_queue) = 0
    BY <2>1
  <2>. HIDE DEF d
  <2>3. s.wire \o d = s.wire /\ s.transseq + Len(s.reply_queue) = s.transseq
    BY <2>1, <2>2
  <2>4. maybe_flush_reply_queue(s)
          = [s EXCEPT !.wire = s.wire \o d, !.transseq = s.transseq + Len(s.reply_queue),
                      !.reply_queue = <<>>]
    BY <1>2 DEF maybe_flush_reply_queue, d
  <2>5. [s EXCEPT !.wire = s.wire, !.transseq = s.transseq, !.reply_queue = s.reply_queue] = s
    BY DEF Sshsession
  <2>. QED
    BY <2>1, <2>3, <2>4, <2>5
<1>. QED
  BY <1>1, <1>2

(* What send_msg_kexdh_init() does during an exchange. *)
LEMMA SendsDh ==
  ASSUME NEW s \in Sshsession
  PROVE  send_msg_kexdh_init(s)
         = [s EXCEPT !.param = s.param + 1,
             !.wire = Append(s.wire, Sealed("kexdh_init", s.param + 1, s.transkey, s.transseq)),
             !.transseq = s.transseq + 1]
BY DEF send_msg_kexdh_init, encrypt_packet, packet_is_okay_kex, Sealed, Sshsession

(* What send_msg_kexinit() does at the server ... *)
LEMMA ServerKexinit ==
  ASSUME NEW s \in Sshsession, s.dataallowed, s.party = "server"
  PROVE  send_msg_kexinit(s)
         = [s EXCEPT
             !.wire = Append(s.wire, Sealed("kexinit", 0, s.transkey, s.transseq)),
             !.transseq = s.transseq + 1, !.dataallowed = FALSE, !.sentkexinit = TRUE,
             !.kexes = s.kexes + 1, !.trans_valid = FALSE, !.recv_valid = FALSE]
BY DEF send_msg_kexinit, encrypt_packet, packet_is_okay_kex, Sealed, Sshsession

(* ... and at the client. *)
LEMMA ClientKexinit ==
  ASSUME NEW s \in Sshsession, s.dataallowed, s.party = "client"
  PROVE  send_msg_kexinit(s)
         = [s EXCEPT
             !.wire = Append(Append(s.wire, Sealed("kexinit", 0, s.transkey, s.transseq)),
                             Sealed("kexdh_init", s.param + 1, s.transkey, s.transseq + 1)),
             !.transseq = s.transseq + 1 + 1, !.dataallowed = FALSE, !.sentkexinit = TRUE,
             !.kexes = s.kexes + 1, !.trans_valid = FALSE, !.recv_valid = FALSE,
             !.param = s.param + 1]
<1>. DEFINE v == Append(s.wire, Sealed("kexinit", 0, s.transkey, s.transseq))
            t == [s EXCEPT
                   !.wire = v, !.transseq = s.transseq + 1, !.dataallowed = FALSE,
                   !.sentkexinit = TRUE, !.kexes = s.kexes + 1,
                   !.trans_valid = FALSE, !.recv_valid = FALSE]
<1>1. send_msg_kexinit(s) = send_msg_kexdh_init(t)
  BY DEF send_msg_kexinit, encrypt_packet, packet_is_okay_kex, Sealed, Sshsession
<1>2. /\ t.param = s.param /\ t.wire = v /\ t.transkey = s.transkey
      /\ t.transseq = s.transseq + 1 /\ t.dataallowed = FALSE
  BY DEF Sshsession
<1>3. send_msg_kexdh_init(t)
         = [t EXCEPT !.param = s.param + 1,
             !.wire = Append(v, Sealed("kexdh_init", s.param + 1, s.transkey, s.transseq + 1)),
             !.transseq = s.transseq + 1 + 1]
  <2>. DEFINE r == [t EXCEPT !.param = t.param + 1]
  <2>1. /\ r.wire = v /\ r.transkey = s.transkey /\ r.transseq = s.transseq + 1
        /\ r.dataallowed = FALSE
    BY <1>2 DEF Sshsession
  <2>2. send_msg_kexdh_init(t) = encrypt_packet(r, "kexdh_init", s.param + 1)
    BY <1>2 DEF send_msg_kexdh_init
  <2>3. encrypt_packet(r, "kexdh_init", s.param + 1)
        = [r EXCEPT !.wire = Append(v, Sealed("kexdh_init", s.param + 1, s.transkey, s.transseq + 1)),
                    !.transseq = s.transseq + 1 + 1]
    <3>. HIDE DEF r, v
    <3>. QED
      BY <2>1 DEF encrypt_packet, packet_is_okay_kex, Sealed
  <2>. HIDE DEF v
  <2>. QED
    BY <1>2, <2>2, <2>3 DEF Sshsession
<1>. HIDE DEF v
<1>4. send_msg_kexdh_init(t)
         = [s EXCEPT
             !.wire = Append(v, Sealed("kexdh_init", s.param + 1, s.transkey, s.transseq + 1)),
             !.transseq = s.transseq + 1 + 1, !.dataallowed = FALSE, !.sentkexinit = TRUE,
             !.kexes = s.kexes + 1, !.trans_valid = FALSE, !.recv_valid = FALSE,
             !.param = s.param + 1]
  BY <1>3 DEF Sshsession
<1>. QED
  BY <1>1, <1>4 DEF v

(* A packet of an exchange never waits. *)
LEMMA Sends ==
  ASSUME NEW s \in Sshsession, NEW type \in {"kexdh_reply", "newkeys"}, NEW n
  PROVE  encrypt_packet(s, type, n)
         = [s EXCEPT
             !.wire = Append(s.wire, Sealed(type, n, s.transkey, s.transseq)),
             !.transseq = s.transseq + 1]
BY DEF encrypt_packet, packet_is_okay_kex, Sealed

(* A session with its own half of the new keys in use. *)
NewHalf(s, w, q, k) ==
  [s EXCEPT !.wire = w, !.transseq = q, !.sentnewkeys = TRUE, !.donefirstkex = TRUE,
            !.dataallowed = TRUE, !.newkey = k, !.transkey = k, !.trans_valid = FALSE,
            !.recv_valid = TRUE]

(* What send_msg_newkeys() does, with switch_keys(). *)
LEMMA SendsNewkeys ==
  ASSUME NEW s \in Sshsession, NEW k,
         s.sentkexinit, s.recvkexinit, ~s.recvnewkeys, s.strict_kex <=> strict
  PROVE  send_msg_newkeys(s, k)
         = NewHalf(s, Append(s.wire, Sealed("newkeys", 0, s.transkey, s.transseq)),
                   IF strict THEN 0 ELSE s.transseq + 1, k)
<1>1. s.sentkexinit /\ s.recvkexinit /\ ~s.recvnewkeys /\ (s.strict_kex <=> strict)
  OBVIOUS
<1>2. encrypt_packet(s, "newkeys", 0)
         = [s EXCEPT
             !.wire = Append(s.wire, Sealed("newkeys", 0, s.transkey, s.transseq)),
             !.transseq = s.transseq + 1]
  BY Sends
<1>. DEFINE v == Append(s.wire, Sealed("newkeys", 0, s.transkey, s.transseq))
<1>. HIDE DEF v
<1>. DEFINE a == [s EXCEPT !.wire = v, !.transseq = s.transseq + 1, !.sentnewkeys = TRUE,
                           !.donefirstkex = TRUE, !.dataallowed = TRUE, !.newkey = k,
                           !.trans_valid = TRUE, !.recv_valid = TRUE]
<1>3. [encrypt_packet(s, "newkeys", 0)
         EXCEPT !.sentnewkeys = TRUE, !.donefirstkex = TRUE, !.dataallowed = TRUE,
                !.newkey = k, !.trans_valid = TRUE, !.recv_valid = TRUE] = a
  BY <1>2 DEF v, Sshsession
<1>4. /\ a.sentkexinit /\ a.recvkexinit /\ ~a.recvnewkeys
      /\ a.sentnewkeys = TRUE /\ a.trans_valid = TRUE /\ a.recv_valid = TRUE
      /\ a.newkey = k /\ a.recvkey = s.recvkey
  BY <1>1 DEF Sshsession
<1>5. switch_keys(a) = [a EXCEPT !.recvkey = s.recvkey, !.recv_valid = TRUE,
                                 !.transkey = k, !.trans_valid = FALSE]
  <2>. DEFINE b == [a EXCEPT !.recvkey = s.recvkey, !.recv_valid = TRUE,
                             !.transkey = k, !.trans_valid = FALSE]
  <2>1. b.recvnewkeys = a.recvnewkeys
    BY DEF Sshsession
  <2>. HIDE DEF a
  <2>2. switch_keys(a) = IF b.sentnewkeys /\ b.recvnewkeys THEN kexinitialise(b) ELSE b
    BY <1>4 DEF switch_keys
  <2>. QED
    BY <1>4, <2>1, <2>2
<1>6. switch_keys(a)
      = [s EXCEPT !.wire = v, !.transseq = s.transseq + 1, !.sentnewkeys = TRUE,
             !.donefirstkex = TRUE, !.dataallowed = TRUE, !.newkey = k, !.transkey = k,
             !.trans_valid = FALSE, !.recv_valid = TRUE]
  BY <1>5, ZenonT(30) DEF Sshsession
<1>7. send_msg_newkeys(s, k)
      = [switch_keys(a) EXCEPT !.transseq = IF strict THEN 0 ELSE s.transseq + 1]
  <2>1. switch_keys(a).transseq = s.transseq + 1
    BY <1>6 DEF Sshsession
  <2>. HIDE DEF a
  <2>2. send_msg_newkeys(s, k)
        = [switch_keys(a) EXCEPT !.transseq = IF s.strict_kex THEN 0 ELSE switch_keys(a).transseq]
    BY <1>3 DEF send_msg_newkeys
  <2>. QED
    BY <1>1, <2>1, <2>2
<1>. DEFINE x == IF strict THEN 0 ELSE s.transseq + 1
<1>. HIDE DEF x
<1>8. [[s EXCEPT !.wire = v, !.transseq = s.transseq + 1, !.sentnewkeys = TRUE,
             !.donefirstkex = TRUE, !.dataallowed = TRUE, !.newkey = k, !.transkey = k,
             !.trans_valid = FALSE, !.recv_valid = TRUE] EXCEPT !.transseq = x]
      = [s EXCEPT !.wire = v, !.transseq = x, !.sentnewkeys = TRUE,
             !.donefirstkex = TRUE, !.dataallowed = TRUE, !.newkey = k, !.transkey = k,
             !.trans_valid = FALSE, !.recv_valid = TRUE]
  BY DEF Sshsession
<1>. QED
  BY <1>6, <1>7, <1>8, Zenon DEF NewHalf, v, x

(* A packet that is allowed and not to be ignored is handled. *)
LEMMA Opens ==
  ASSUME NEW s \in Sshsession, NEW m, m.key = s.recvkey, m.seq = s.recvseq,
         s.requirenext \in {"any", m.type}, ~s.ignorenext, m.type # "unimplemented"
  PROVE  process_packet(s, m)
         = handler([s EXCEPT !.recvseq = s.recvseq + 1, !.requirenext = "any"], m)
<1>. DEFINE t == [s EXCEPT !.recvseq = s.recvseq + 1]
<1>1. t.requirenext = s.requirenext /\ t.ignorenext = s.ignorenext
  BY DEF Sshsession
<1>2. [t EXCEPT !.requirenext = "any"]
      = [s EXCEPT !.recvseq = s.recvseq + 1, !.requirenext = "any"]
  BY DEF Sshsession
<1>3. process_packet(s, m) = handler([t EXCEPT !.requirenext = "any"], m)
  <2>. HIDE DEF t
  <2>1. process_packet(s, m)
        = LET r == t IN
          IF r.requirenext \notin {"any", m.type}
          THEN IF m.type \in {"kexinit", "data"} \/ first_strict_kex(s)
               THEN Exit(r) ELSE recv_unimplemented(r)
          ELSE IF r.ignorenext THEN [r EXCEPT !.ignorenext = FALSE]
          ELSE handler([r EXCEPT !.requirenext = "any"], m)
    BY DEF process_packet, t
  <2>. QED
    BY <1>1, <2>1
<1>. QED
  BY <1>2, <1>3, Zenon

(* KEXINIT, its own sent. *)
LEMMA ReadsKexinit ==
  ASSUME NEW s \in Sshsession, Stage(s, 1), strict \in BOOLEAN,
         NEW m \in Packet, m.type = "kexinit", m.key = s.recvkey, m.seq = s.recvseq
  PROVE  process_packet(s, m)
         = [s EXCEPT !.recvseq = s.recvseq + 1, !.recvkexinit = TRUE, !.strict_kex = strict,
              !.ignorenext = (s.party = "server" /\ ~guess[s.kexes]),
              !.our_first_follows_matches = (s.party = "client" /\ guess[s.kexes]),
              !.requirenext = IF s.party = "client" THEN "kexdh_reply" ELSE "kexdh_init"]
<1>. DEFINE b == [s EXCEPT !.recvseq = s.recvseq + 1, !.requirenext = "any"]
            good == guess[s.kexes]
            sk == IF s.donefirstkex THEN s.strict_kex ELSE strict
            ig == s.ignorenext \/ (s.party = "server" /\ ~good)
            of == s.our_first_follows_matches \/ (s.party = "client" /\ good)
            rn == IF s.party = "client" THEN "kexdh_reply" ELSE "kexdh_init"
<1>1. process_packet(s, m) = recv_msg_kexinit(b)
  <2>1. s.requirenext \in {"any", m.type} /\ ~s.ignorenext
    BY DEF Stage, Required
  <2>2. process_packet(s, m) = handler(b, m)
    BY <2>1, Opens
  <2>. HIDE DEF b
  <2>. QED
    BY <2>2 DEF handler
<1>2. /\ b.sentkexinit /\ ~b.recvkexinit /\ b.donefirstkex = s.donefirstkex
      /\ b.kexes = s.kexes /\ b.party = s.party /\ b.strict_kex = s.strict_kex
      /\ b.ignorenext = s.ignorenext
      /\ b.our_first_follows_matches = s.our_first_follows_matches
      /\ b.recvseq = s.recvseq + 1
  BY DEF Stage, Sshsession
<1>. DEFINE u == [b EXCEPT !.strict_kex = sk, !.ignorenext = ig, !.our_first_follows_matches = of,
                           !.requirenext = rn, !.recvkexinit = TRUE]
<1>3. [read_kex_algos(b, guess[b.kexes])
              EXCEPT !.requirenext = IF b.party = "client" THEN "kexdh_reply" ELSE "kexdh_init",
                     !.recvkexinit = TRUE] = u
  <2>1. read_kex_algos(b, good)
        = [b EXCEPT !.strict_kex = sk, !.ignorenext = ig, !.our_first_follows_matches = of]
    <3>. HIDE DEF b
    <3>. QED
      BY <1>2 DEF read_kex_algos
  <2>. HIDE DEF good, sk, ig, of
  <2>2. guess[b.kexes] = good
    BY <1>2 DEF good
  <2>. QED
    BY <1>2, <2>1, <2>2 DEF Sshsession
<1>4. u.donefirstkex = s.donefirstkex /\ u.recvseq = s.recvseq + 1
  BY DEF Sshsession
<1>5. ~s.donefirstkex => s.recvseq + 1 = 1
  BY DEF Stage
<1>6. recv_msg_kexinit(b) = u
  <2>. HIDE DEF b, u
  <2>. QED
    BY <1>2, <1>3, <1>4, <1>5 DEF recv_msg_kexinit
<1>7. sk = strict /\ ig = (s.party = "server" /\ ~good) /\ of = (s.party = "client" /\ good)
  <2>1. /\ s.strict_kex \in BOOLEAN /\ s.ignorenext \in BOOLEAN
        /\ s.our_first_follows_matches \in BOOLEAN
    BY DEF Sshsession
  <2>2. /\ s.donefirstkex => (s.strict_kex <=> strict)
        /\ ~s.ignorenext /\ ~s.our_first_follows_matches
    BY DEF Stage
  <2>3. sk = strict
    BY <2>1, <2>2
  <2>4. ig = (s.party = "server" /\ ~good)
    BY <2>1, <2>2
  <2>5. of = (s.party = "client" /\ good)
    BY <2>1, <2>2
  <2>. QED
    BY <2>3, <2>4, <2>5, Zenon
<1>. HIDE DEF sk, ig, of, rn
<1>8. u = [s EXCEPT !.recvseq = s.recvseq + 1, !.recvkexinit = TRUE, !.strict_kex = sk,
              !.ignorenext = ig, !.our_first_follows_matches = of, !.requirenext = rn]
  BY DEF Sshsession
<1>. HIDE DEF u, b
<1>. QED
  BY <1>1, <1>6, <1>7, <1>8, Zenon DEF rn

(* A wrong guess. *)
LEMMA ReadsIgnored ==
  ASSUME NEW s \in Sshsession, Stage(s, 2), s.party = "server", s.ignorenext,
         NEW m \in Packet, m.type = "kexdh_init", m.key = s.recvkey, m.seq = s.recvseq
  PROVE  process_packet(s, m)
         = [s EXCEPT !.recvseq = s.recvseq + 1, !.ignorenext = FALSE]
<1>. DEFINE t == [s EXCEPT !.recvseq = s.recvseq + 1]
<1>1. t.requirenext = s.requirenext /\ t.ignorenext = s.ignorenext
  BY DEF Sshsession
<1>2. s.requirenext = "kexdh_init"
  BY DEF Stage, Required
<1>3. process_packet(s, m) = [t EXCEPT !.ignorenext = FALSE]
  <2>. HIDE DEF t
  <2>1. process_packet(s, m)
        = LET r == t IN
          IF r.requirenext \notin {"any", m.type}
          THEN IF m.type \in {"kexinit", "data"} \/ first_strict_kex(s)
               THEN Exit(r) ELSE recv_unimplemented(r)
          ELSE IF r.ignorenext THEN [r EXCEPT !.ignorenext = FALSE]
          ELSE handler([r EXCEPT !.requirenext = "any"], m)
    BY DEF process_packet, t
  <2>. QED
    BY <1>1, <1>2, <2>1
<1>. QED
  BY <1>3 DEF Sshsession

(* Data. *)
LEMMA ReadsData ==
  ASSUME NEW s \in Sshsession, s.requirenext = "any", ~s.ignorenext,
         NEW m \in Packet, m.type = "data", m.key = s.recvkey, m.seq = s.recvseq
  PROVE  process_packet(s, m)
         = [s EXCEPT !.recvseq = s.recvseq + 1, !.received = s.received + 1]
<1>. DEFINE b == [s EXCEPT !.recvseq = s.recvseq + 1, !.requirenext = "any"]
<1>1. process_packet(s, m) = handler(b, m)
  BY Opens
<1>2. b.received = s.received
  BY DEF Sshsession
<1>3. process_packet(s, m) = [b EXCEPT !.received = s.received + 1]
  <2>. HIDE DEF b
  <2>. QED
    BY <1>1, <1>2 DEF handler
<1>. QED
  BY <1>3 DEF Sshsession

(* NEWKEYS, its own sent. *)
LEMMA ReadsNewkeys ==
  ASSUME NEW s \in Sshsession, Stage(s, 3),
         NEW m \in Packet, m.type = "newkeys", m.key = s.recvkey, m.seq = s.recvseq
  PROVE  process_packet(s, m)
         = [s EXCEPT !.recvseq = IF strict THEN 0 ELSE s.recvseq + 1, !.requirenext = "any",
              !.recvkey = s.newkey, !.recv_valid = FALSE, !.sentkexinit = FALSE,
              !.recvkexinit = FALSE, !.recvnewkeys = FALSE, !.sentnewkeys = FALSE,
              !.our_first_follows_matches = FALSE]
<1>. DEFINE b == [s EXCEPT !.recvseq = s.recvseq + 1, !.requirenext = "any"]
            a == [b EXCEPT !.recvnewkeys = TRUE]
<1>1. process_packet(s, m) = recv_msg_newkeys(b)
  <2>1. s.requirenext \in {"any", m.type} /\ ~s.ignorenext
    BY DEF Stage, Required
  <2>2. process_packet(s, m) = handler(b, m)
    BY <2>1, Opens
  <2>. HIDE DEF b
  <2>. QED
    BY <2>2 DEF handler
<1>2. /\ a.sentkexinit /\ a.recvkexinit /\ a.recvnewkeys = TRUE /\ a.sentnewkeys
      /\ a.recv_valid = TRUE /\ a.trans_valid = FALSE /\ a.newkey = s.newkey
      /\ a.transkey = s.transkey
  BY DEF Stage, Sshsession
<1>3. b.strict_kex <=> strict
  BY DEF Stage, Sshsession
<1>4. switch_keys(a) = kexinitialise([a EXCEPT !.recvkey = s.newkey, !.recv_valid = FALSE,
                                               !.transkey = s.transkey, !.trans_valid = FALSE])
  <2>. DEFINE c == [a EXCEPT !.recvkey = s.newkey, !.recv_valid = FALSE,
                             !.transkey = s.transkey, !.trans_valid = FALSE]
  <2>1. c.recvnewkeys = a.recvnewkeys /\ c.sentnewkeys = a.sentnewkeys
    BY DEF Sshsession
  <2>. HIDE DEF a, b
  <2>2. switch_keys(a) = IF c.sentnewkeys /\ c.recvnewkeys THEN kexinitialise(c) ELSE c
    BY <1>2 DEF switch_keys
  <2>. QED
    BY <1>2, <2>1, <2>2
<1>5. switch_keys(a)
      = [s EXCEPT !.recvseq = s.recvseq + 1, !.requirenext = "any",
              !.recvkey = s.newkey, !.recv_valid = FALSE, !.sentkexinit = FALSE,
              !.recvkexinit = FALSE, !.recvnewkeys = FALSE, !.sentnewkeys = FALSE,
              !.our_first_follows_matches = FALSE]
  <2>1. s.trans_valid = FALSE
    BY DEF Stage, Sshsession
  <2>2. [s EXCEPT !.recvseq = s.recvseq + 1, !.requirenext = "any",
              !.recvkey = s.newkey, !.recv_valid = FALSE, !.sentkexinit = FALSE,
              !.recvkexinit = FALSE, !.recvnewkeys = FALSE, !.sentnewkeys = FALSE,
              !.our_first_follows_matches = FALSE]
        = [s EXCEPT !.recvseq = s.recvseq + 1, !.requirenext = "any",
              !.recvkey = s.newkey, !.recv_valid = FALSE, !.sentkexinit = FALSE,
              !.recvkexinit = FALSE, !.recvnewkeys = FALSE, !.sentnewkeys = FALSE,
              !.our_first_follows_matches = FALSE, !.transkey = s.transkey,
              !.trans_valid = s.trans_valid]
    BY DEF Sshsession
  <2>3. kexinitialise([a EXCEPT !.recvkey = s.newkey, !.recv_valid = FALSE,
                                !.transkey = s.transkey, !.trans_valid = FALSE])
        = [s EXCEPT !.recvseq = s.recvseq + 1, !.requirenext = "any",
              !.recvkey = s.newkey, !.recv_valid = FALSE, !.sentkexinit = FALSE,
              !.recvkexinit = FALSE, !.recvnewkeys = FALSE, !.sentnewkeys = FALSE,
              !.our_first_follows_matches = FALSE, !.transkey = s.transkey,
              !.trans_valid = FALSE]
    BY DEF kexinitialise, Sshsession
  <2>. QED
    BY <1>4, <2>1, <2>2, <2>3, Zenon
<1>6. recv_msg_newkeys(b)
      = [switch_keys(a) EXCEPT !.recvseq = IF strict THEN 0 ELSE s.recvseq + 1]
  <2>1. switch_keys(a).recvseq = s.recvseq + 1
    BY <1>5 DEF Sshsession
  <2>. HIDE DEF b
  <2>. QED
    BY <1>3, <2>1 DEF recv_msg_newkeys
<1>. DEFINE x == IF strict THEN 0 ELSE s.recvseq + 1
<1>. HIDE DEF x
<1>7. [[s EXCEPT !.recvseq = s.recvseq + 1, !.requirenext = "any",
              !.recvkey = s.newkey, !.recv_valid = FALSE, !.sentkexinit = FALSE,
              !.recvkexinit = FALSE, !.recvnewkeys = FALSE, !.sentnewkeys = FALSE,
              !.our_first_follows_matches = FALSE] EXCEPT !.recvseq = x]
      = [s EXCEPT !.recvseq = x, !.requirenext = "any",
              !.recvkey = s.newkey, !.recv_valid = FALSE, !.sentkexinit = FALSE,
              !.recvkexinit = FALSE, !.recvnewkeys = FALSE, !.sentnewkeys = FALSE,
              !.our_first_follows_matches = FALSE]
  BY DEF Sshsession
<1>. QED
  BY <1>1, <1>5, <1>6, <1>7, Zenon DEF x

(* A session that has sent w, which ends with its NEWKEYS, and goes on     *)
(* with the key k and the number q.                                        *)
Keying(s, w, q, k) ==
  [s EXCEPT !.recvseq = s.recvseq + 1, !.requirenext = "newkeys", !.wire = w,
            !.transseq = q, !.sentnewkeys = TRUE, !.donefirstkex = TRUE,
            !.dataallowed = TRUE, !.newkey = k, !.transkey = k, !.trans_valid = FALSE,
            !.recv_valid = TRUE]

(* What a wire is when the packets r that waited follow. *)
Flushed(w, r, k, q) == w \o Waiting(r, k, q)

(* And that has sent what waited. *)
Keyed(s, w, q, k) ==
  [s EXCEPT !.recvseq = s.recvseq + 1, !.requirenext = "newkeys",
            !.wire = w \o Waiting(s.reply_queue, k, q), !.transseq = q + Len(s.reply_queue),
            !.reply_queue = <<>>, !.sentnewkeys = TRUE, !.donefirstkex = TRUE,
            !.dataallowed = TRUE, !.newkey = k, !.transkey = k, !.trans_valid = FALSE,
            !.recv_valid = TRUE, !.kex_state = FALSE]

(* What had to wait is sent after the NEWKEYS. *)
LEMMA FlushKeyed ==
  ASSUME NEW s \in Sshsession, NEW w, NEW q, NEW k,
         NEW type, type # "kexinit", s.party = "server" => ~s.kex_state, ~s.exited
  PROVE  loophandler(maybe_flush_reply_queue(Keying(s, w, q, k)), type) = Keyed(s, w, q, k)
<1>. DEFINE t == Keying(s, w, q, k)
            v == w \o Waiting(s.reply_queue, k, q)
            r == q + Len(s.reply_queue)
            u == [t EXCEPT !.wire = v, !.transseq = r, !.reply_queue = <<>>]
<1>1. t.dataallowed = TRUE /\ t.reply_queue = s.reply_queue /\ t.transkey = k
      /\ t.transseq = q /\ t.wire = w
  BY DEF Keying, Sshsession
<1>2. maybe_flush_reply_queue(t) = u
  <2>. HIDE DEF t
  <2>. QED
    BY <1>1 DEF maybe_flush_reply_queue, Waiting
<1>. HIDE DEF v, r
<1>3. u = [s EXCEPT !.recvseq = s.recvseq + 1, !.requirenext = "newkeys",
            !.wire = v, !.transseq = r,
            !.reply_queue = <<>>, !.sentnewkeys = TRUE, !.donefirstkex = TRUE,
            !.dataallowed = TRUE, !.newkey = k, !.transkey = k, !.trans_valid = FALSE,
            !.recv_valid = TRUE]
  BY ZenonT(30) DEF Keying, Sshsession
<1>4. u.party = s.party /\ u.exited = s.exited /\ u.sentnewkeys = TRUE
      /\ u.kex_state = s.kex_state
  BY <1>3 DEF Sshsession
<1>5. s.kex_state \in BOOLEAN /\ s.party \in {"client", "server"}
  BY DEF Sshsession, Party
<1>6. loophandler(u, type) = [u EXCEPT !.kex_state = FALSE]
  <2>1. CASE s.party = "client"
    <3>. HIDE DEF u
    <3>. QED
      BY <1>4, <2>1 DEF loophandler, cli_sessionloop
  <2>2. CASE s.party = "server"
    <3>1. loophandler(u, type) = u
      <4>. HIDE DEF u
      <4>. QED
        BY <1>4, <2>2 DEF loophandler
    <3>2. s.kex_state = FALSE
      BY <1>5, <2>2
    <3>3. [u EXCEPT !.kex_state = s.kex_state] = u
      BY <1>3, ZenonT(30) DEF Sshsession
    <3>. HIDE DEF u
    <3>. QED
      BY <3>1, <3>2, <3>3, Zenon
  <2>. QED
    BY <1>5, <2>1, <2>2
<1>7. [u EXCEPT !.kex_state = FALSE]
      = [s EXCEPT !.recvseq = s.recvseq + 1, !.requirenext = "newkeys",
            !.wire = v, !.transseq = r,
            !.reply_queue = <<>>, !.sentnewkeys = TRUE, !.donefirstkex = TRUE,
            !.dataallowed = TRUE, !.newkey = k, !.transkey = k, !.trans_valid = FALSE,
            !.recv_valid = TRUE, !.kex_state = FALSE]
  BY <1>3 DEF Sshsession
<1>. HIDE DEF u
<1>. QED
  BY <1>2, <1>6, <1>7, Zenon DEF Keyed, v, r

(* KEXDH_REPLY at the client. *)
LEMMA ReadsReply ==
  ASSUME NEW s \in Sshsession, Stage(s, 2), s.party = "client",
         NEW m \in Packet, m.type = "kexdh_reply", m.key = s.recvkey, m.seq = s.recvseq,
         m.n = s.param
  PROVE  Reads(s, m)
         = Keyed(s, Append(s.wire, Sealed("newkeys", 0, s.transkey, s.transseq)),
                 IF strict THEN 0 ELSE s.transseq + 1, s.param)
<1>. DEFINE b == [s EXCEPT !.recvseq = s.recvseq + 1, !.requirenext = "any"]
            w == Append(s.wire, Sealed("newkeys", 0, s.transkey, s.transseq))
            q == IF strict THEN 0 ELSE s.transseq + 1
<1>1. process_packet(s, m) = recv_msg_kexdh_reply(b, s.param)
  <2>1. s.requirenext \in {"any", m.type} /\ ~s.ignorenext
    BY DEF Stage, Required
  <2>2. process_packet(s, m) = handler(b, m)
    BY <2>1, Opens
  <2>. HIDE DEF b
  <2>. QED
    BY <2>2 DEF handler
<1>2. b \in Sshsession
  <2>1. s.recvseq + 1 \in Nat /\ "any" \in Type \cup {"any"}
    BY DEF Sshsession
  <2>. QED
    BY <2>1, Zenon DEF Sshsession
<1>3. /\ b.sentkexinit /\ b.recvkexinit /\ ~b.recvnewkeys /\ (b.strict_kex <=> strict)
      /\ b.wire = s.wire /\ b.transkey = s.transkey /\ b.transseq = s.transseq
      /\ b.kex_state /\ b.param = s.param
  BY DEF Stage, Sshsession
<1>4. send_msg_newkeys(b, s.param) = NewHalf(b, w, q, s.param)
  <2>. HIDE DEF b
  <2>1. send_msg_newkeys(b, s.param)
        = NewHalf(b, Append(b.wire, Sealed("newkeys", 0, b.transkey, b.transseq)),
                  IF strict THEN 0 ELSE b.transseq + 1, s.param)
    BY <1>2, <1>3, SendsNewkeys
  <2>2. b.transseq = s.transseq /\ b.transkey = s.transkey /\ b.wire = s.wire
    BY <1>3
  <2>. QED
    BY <2>1, <2>2 DEF w, q
<1>5. process_packet(s, m) = [send_msg_newkeys(b, s.param) EXCEPT !.requirenext = "newkeys"]
  <2>. HIDE DEF b
  <2>. QED
    BY <1>1, <1>3 DEF recv_msg_kexdh_reply
<1>. HIDE DEF w, q
<1>6. [NewHalf(b, w, q, s.param) EXCEPT !.requirenext = "newkeys"] = Keying(s, w, q, s.param)
  BY ZenonT(30) DEF Sshsession, Keying, NewHalf
<1>7. ~s.exited /\ m.type # "kexinit" /\ s.party # "server"
  BY DEF Stage
<1>8. process_packet(s, m) = Keying(s, w, q, s.param)
  <2>. HIDE DEF b
  <2>. QED
    BY <1>4, <1>5, <1>6, Zenon
<1>9. Reads(s, m) = Keyed(s, w, q, s.param)
  <2>1. loophandler(maybe_flush_reply_queue(Keying(s, w, q, s.param)), m.type)
        = Keyed(s, w, q, s.param)
    BY <1>7, FlushKeyed
  <2>. QED
    BY <1>8, <2>1, Zenon DEF Reads
<1>. QED
  BY <1>9 DEF w, q

(* KEXDH_INIT at the server. *)
LEMMA ReadsDh ==
  ASSUME NEW s \in Sshsession, Stage(s, 2), s.party = "server", ~s.ignorenext,
         NEW m \in Packet, m.type = "kexdh_init", m.key = s.recvkey, m.seq = s.recvseq,
         NEW e \in Nat, m.n = e
  PROVE  Reads(s, m)
         = Keyed(s, Append(Append(s.wire, Sealed("kexdh_reply", e, s.transkey, s.transseq)),
                           Sealed("newkeys", 0, s.transkey, s.transseq + 1)),
                 IF strict THEN 0 ELSE s.transseq + 1 + 1, e)
<1>. DEFINE b == [s EXCEPT !.recvseq = s.recvseq + 1, !.requirenext = "any"]
            v == Append(s.wire, Sealed("kexdh_reply", e, s.transkey, s.transseq))
            a == [s EXCEPT !.recvseq = s.recvseq + 1, !.requirenext = "any", !.wire = v,
                           !.transseq = s.transseq + 1]
            w == Append(v, Sealed("newkeys", 0, s.transkey, s.transseq + 1))
            q == IF strict THEN 0 ELSE s.transseq + 1 + 1
<1>1. process_packet(s, m) = recv_msg_kexdh_init(b, e)
  <2>1. s.requirenext \in {"any", m.type} /\ ~s.ignorenext
    BY DEF Stage, Required
  <2>2. process_packet(s, m) = handler(b, m)
    BY <2>1, Opens
  <2>. HIDE DEF b
  <2>. QED
    BY <2>2 DEF handler
<1>2. s.wire \in Seq(Packet) /\ s.transkey \in Nat /\ s.transseq \in Nat /\ s.recvseq \in Nat
  BY DEF Sshsession
<1>3. v \in Seq(Packet)
  BY <1>2, SealedPacket DEF Type
<1>. HIDE DEF v
<1>4. a \in Sshsession /\ b \in Sshsession
  <2>1. s.recvseq + 1 \in Nat /\ s.transseq + 1 \in Nat /\ "any" \in Type \cup {"any"}
    BY <1>2
  <2>. QED
    BY <1>3, <2>1, Zenon DEF Sshsession
<1>5. encrypt_packet(b, "kexdh_reply", e) = a
  <2>1. b.wire = s.wire /\ b.transkey = s.transkey /\ b.transseq = s.transseq
    BY DEF Sshsession
  <2>2. encrypt_packet(b, "kexdh_reply", e) = [b EXCEPT !.wire = v, !.transseq = s.transseq + 1]
    <3>. HIDE DEF b
    <3>1. encrypt_packet(b, "kexdh_reply", e)
          = [b EXCEPT !.wire = Append(b.wire, Sealed("kexdh_reply", e, b.transkey, b.transseq)),
                      !.transseq = b.transseq + 1]
      BY <1>4, Sends
    <3>. QED
      BY <2>1, <3>1, Zenon DEF v
  <2>. QED
    BY <2>2 DEF Sshsession
<1>6. /\ a.sentkexinit /\ a.recvkexinit /\ ~a.recvnewkeys /\ (a.strict_kex <=> strict)
      /\ a.wire = v /\ a.transkey = s.transkey /\ a.transseq = s.transseq + 1
      /\ b.recvkexinit
  BY DEF Stage, Sshsession
<1>7. send_msg_newkeys(a, e) = NewHalf(a, w, q, e)
  <2>. HIDE DEF a, b
  <2>1. send_msg_newkeys(a, e)
        = NewHalf(a, Append(a.wire, Sealed("newkeys", 0, a.transkey, a.transseq)),
                  IF strict THEN 0 ELSE a.transseq + 1, e)
    BY <1>4, <1>6, SendsNewkeys
  <2>. QED
    BY <1>6, <2>1, Zenon DEF w, q
<1>8. process_packet(s, m) = [send_msg_newkeys(a, e) EXCEPT !.requirenext = "newkeys"]
  <2>. HIDE DEF a, b
  <2>. QED
    BY <1>1, <1>5, <1>6 DEF recv_msg_kexdh_init
<1>. HIDE DEF w, q
<1>9. [NewHalf(a, w, q, e) EXCEPT !.requirenext = "newkeys"] = Keying(s, w, q, e)
  BY ZenonT(30) DEF Sshsession, Keying, NewHalf
<1>10. ~s.exited /\ ~s.kex_state /\ m.type # "kexinit"
  BY DEF Stage
<1>11. process_packet(s, m) = Keying(s, w, q, e)
  <2>. HIDE DEF a
  <2>. QED
    BY <1>7, <1>8, <1>9, Zenon
<1>12. Reads(s, m) = Keyed(s, w, q, e)
  <2>1. loophandler(maybe_flush_reply_queue(Keying(s, w, q, e)), m.type)
        = Keyed(s, w, q, e)
    BY <1>10, FlushKeyed
  <2>. QED
    BY <1>11, <2>1, Zenon DEF Reads
<1>. QED
  BY <1>12 DEF w, q, v

(* Where nothing waits and there is nothing for the client to do. *)
LEMMA NothingElse ==
  ASSUME NEW u \in Sshsession, u.dataallowed => u.reply_queue = <<>>, NEW type,
         u.party = "client" => ~u.kex_state /\ type # "kexinit"
  PROVE  loophandler(maybe_flush_reply_queue(u), type) = u
<1>1. maybe_flush_reply_queue(u) = u
  BY FlushNone
<1>2. u.kex_state \in BOOLEAN
  BY DEF Sshsession
<1>3. [u EXCEPT !.kex_state = u.kex_state] = u
  BY DEF Sshsession
<1>4. CASE u.party = "client" /\ ~u.exited
  <2>1. (u.kex_state /\ ~u.sentnewkeys) = u.kex_state
    BY <1>2, <1>4
  <2>2. loophandler(u, type) = [u EXCEPT !.kex_state = u.kex_state /\ ~u.sentnewkeys]
    BY <1>4 DEF loophandler, cli_sessionloop
  <2>. QED
    BY <1>1, <1>3, <2>1, <2>2
<1>5. CASE ~(u.party = "client" /\ ~u.exited)
  BY <1>1, <1>5 DEF loophandler
<1>. QED
  BY <1>4, <1>5

-----------------------------------------------------------------------------
(* What a step of a party leaves of its session, field by field. *)

(* The fields that the wire from s depends on, and the one to it. *)
OutSame(s, t) ==
  /\ t.wire = s.wire /\ t.sent = s.sent /\ t.reply_queue = s.reply_queue
  /\ t.transkey = s.transkey /\ t.transseq = s.transseq

InSame(s, t) ==
  /\ t.received = s.received /\ t.requirenext = s.requirenext
  /\ t.recvkey = s.recvkey /\ t.recvseq = s.recvseq

(* What a step makes of a session. *)

(* It has sent its KEXINIT, and the client its guess. *)
KexinitSent(s, w, q, p) ==
  [s EXCEPT !.wire = w, !.transseq = q, !.dataallowed = FALSE,
            !.sentkexinit = TRUE, !.kexes = s.kexes + 1, !.trans_valid =
            FALSE, !.recv_valid = FALSE, !.param = p]

(* It has read a KEXINIT. *)
KexinitRead(s, w, q, p, ig, of, rn, st) ==
  [s EXCEPT !.wire = w, !.transseq = q, !.param = p, !.recvseq = s.recvseq + 1,
            !.recvkexinit = TRUE, !.strict_kex = strict, !.ignorenext = ig,
            !.our_first_follows_matches = of, !.requirenext = rn, !.kex_state = st]

(* It has ignored a packet. *)
Ignored(s) ==
  [s EXCEPT !.recvseq = s.recvseq + 1, !.ignorenext = FALSE]

(* It has read a NEWKEYS and is done. *)
NewkeysRead(s, x) ==
  [s EXCEPT !.recvseq = x, !.requirenext = "any", !.recvkey = s.newkey,
            !.recv_valid = FALSE, !.sentkexinit = FALSE, !.recvkexinit = FALSE,
            !.recvnewkeys = FALSE, !.sentnewkeys = FALSE,
            !.our_first_follows_matches = FALSE]

(* It has read a packet of the layers above. *)
DataRead(s) ==
  [s EXCEPT !.recvseq = s.recvseq + 1, !.received = s.received + 1]

(* It has sent one. *)
DataSent(s, w, q) ==
  [s EXCEPT !.wire = w, !.transseq = q, !.sent = s.sent + 1]

(* It has put one aside. *)
DataQueued(s, r) ==
  [s EXCEPT !.reply_queue = r, !.sent = s.sent + 1]

(* A sequence of members of a subset. *)
LEMMA SeqSubset ==
  ASSUME NEW S, NEW T, S \subseteq T, NEW q \in Seq(S)
  PROVE  q \in Seq(T)
<1>1. Len(q) \in Nat /\ q \in [1 .. Len(q) -> S]
  OBVIOUS
<1>2. q \in [1 .. Len(q) -> T]
  BY <1>1
<1>. QED
  BY <1>1, <1>2

(* The fields of a session after each of these. *)
LEMMA KexinitSentFields ==
  ASSUME NEW s \in Sshsession,
         NEW w \in Seq(Packet), NEW q \in Nat, NEW p \in Nat, s.kexes < MaxKex,
         NEW t, t = KexinitSent(s, w, q, p)
  PROVE  /\ t.party = s.party /\ t.exited = s.exited /\ ~t.dataallowed
         /\ t.sentkexinit /\ t.recvkexinit = s.recvkexinit
         /\ t.sentnewkeys = s.sentnewkeys /\ t.recvnewkeys = s.recvnewkeys
         /\ t.donefirstkex = s.donefirstkex /\ t.strict_kex = s.strict_kex
         /\ t.our_first_follows_matches = s.our_first_follows_matches
         /\ t.requirenext = s.requirenext /\ t.ignorenext = s.ignorenext
         /\ t.kex_state = s.kex_state /\ t.param = p /\ t.newkey = s.newkey
         /\ ~t.trans_valid /\ ~t.recv_valid
         /\ t.transkey = s.transkey /\ t.recvkey = s.recvkey /\ t.transseq = q
         /\ t.recvseq = s.recvseq /\ t.kexes = s.kexes + 1
         /\ t.reply_queue = s.reply_queue /\ t.wire = w /\ t.sent = s.sent
         /\ t.received = s.received
         /\ t \in Sshsession
<1>1. s.kexes + 1 \in 0 .. MaxKex
  BY KexBoundAssumption, SMTT(30) DEF Sshsession
<1>2. KexinitSent(s, w, q, p) \in Sshsession
  BY <1>1, ZenonT(60) DEF KexinitSent, Sshsession
<1>. QED
  BY <1>2 DEF KexinitSent, Sshsession

(* After a KEXINIT was read. *)
LEMMA KexinitReadFields ==
  ASSUME NEW s \in Sshsession,
         NEW w \in Seq(Packet), NEW q \in Nat, NEW p \in Nat,
         NEW ig \in BOOLEAN, NEW of \in BOOLEAN, strict \in BOOLEAN,
         NEW rn \in Type \cup {"any"}, NEW st \in BOOLEAN,
         NEW t, t = KexinitRead(s, w, q, p, ig, of, rn, st)
  PROVE  /\ t.party = s.party /\ t.exited = s.exited
         /\ t.dataallowed = s.dataallowed /\ t.sentkexinit = s.sentkexinit
         /\ t.recvkexinit /\ t.sentnewkeys = s.sentnewkeys
         /\ t.recvnewkeys = s.recvnewkeys /\ t.donefirstkex = s.donefirstkex
         /\ (t.strict_kex <=> strict) /\ (t.our_first_follows_matches <=> of)
         /\ t.requirenext = rn
         /\ (t.ignorenext <=> ig) /\ (t.kex_state <=> st) /\ t.param = p
         /\ t.newkey = s.newkey /\ t.trans_valid = s.trans_valid
         /\ t.recv_valid = s.recv_valid /\ t.transkey = s.transkey
         /\ t.recvkey = s.recvkey /\ t.transseq = q /\ t.recvseq = s.recvseq + 1
         /\ t.kexes = s.kexes /\ t.reply_queue = s.reply_queue /\ t.wire = w
         /\ t.sent = s.sent /\ t.received = s.received
         /\ t \in Sshsession
<1>1. s.recvseq + 1 \in Nat
  BY DEF Sshsession
<1>2. KexinitRead(s, w, q, p, ig, of, rn, st) \in Sshsession
  BY <1>1, ZenonT(60) DEF KexinitRead, Sshsession
<1>3. /\ t.party = s.party /\ t.exited = s.exited
      /\ t.dataallowed = s.dataallowed /\ t.sentkexinit = s.sentkexinit
      /\ t.recvkexinit /\ t.sentnewkeys = s.sentnewkeys
      /\ t.recvnewkeys = s.recvnewkeys /\ t.donefirstkex = s.donefirstkex
      /\ (t.strict_kex <=> strict) /\ (t.our_first_follows_matches <=> of)
      /\ t.requirenext = rn
      /\ (t.ignorenext <=> ig) /\ (t.kex_state <=> st) /\ t.param = p
      /\ t.newkey = s.newkey /\ t.trans_valid = s.trans_valid
      /\ t.recv_valid = s.recv_valid /\ t.transkey = s.transkey
      /\ t.recvkey = s.recvkey /\ t.transseq = q /\ t.recvseq = s.recvseq + 1
      /\ t.kexes = s.kexes /\ t.reply_queue = s.reply_queue /\ t.wire = w
      /\ t.sent = s.sent /\ t.received = s.received
  BY DEF KexinitRead, Sshsession
<1>. QED
  BY <1>2, <1>3, Zenon

(* After a packet was ignored. *)
LEMMA IgnoredFields ==
  ASSUME NEW s \in Sshsession, NEW t, t = Ignored(s)
  PROVE  /\ t.party = s.party /\ t.exited = s.exited
         /\ t.dataallowed = s.dataallowed /\ t.sentkexinit = s.sentkexinit
         /\ t.recvkexinit = s.recvkexinit /\ t.sentnewkeys = s.sentnewkeys
         /\ t.recvnewkeys = s.recvnewkeys /\ t.donefirstkex = s.donefirstkex
         /\ t.strict_kex = s.strict_kex
         /\ t.our_first_follows_matches = s.our_first_follows_matches
         /\ t.requirenext = s.requirenext /\ ~t.ignorenext
         /\ t.kex_state = s.kex_state /\ t.param = s.param /\ t.newkey = s.newkey
         /\ t.trans_valid = s.trans_valid /\ t.recv_valid = s.recv_valid
         /\ t.transkey = s.transkey /\ t.recvkey = s.recvkey
         /\ t.transseq = s.transseq /\ t.recvseq = s.recvseq + 1
         /\ t.kexes = s.kexes /\ t.reply_queue = s.reply_queue /\ t.wire = s.wire
         /\ t.sent = s.sent /\ t.received = s.received
         /\ t \in Sshsession
<1>1. s.recvseq + 1 \in Nat
  BY DEF Sshsession
<1>2. Ignored(s) \in Sshsession
  BY <1>1, ZenonT(60) DEF Ignored, Sshsession
<1>. QED
  BY <1>2 DEF Ignored, Sshsession

(* After a NEWKEYS was read. *)
LEMMA NewkeysReadFields ==
  ASSUME NEW s \in Sshsession, NEW x \in Nat, NEW t, t = NewkeysRead(s, x)
  PROVE  /\ t.party = s.party /\ t.exited = s.exited
         /\ t.dataallowed = s.dataallowed /\ ~t.sentkexinit
         /\ ~t.recvkexinit /\ ~t.sentnewkeys
         /\ ~t.recvnewkeys /\ t.donefirstkex = s.donefirstkex
         /\ t.strict_kex = s.strict_kex /\ ~t.our_first_follows_matches
         /\ t.requirenext = "any" /\ t.ignorenext = s.ignorenext
         /\ t.kex_state = s.kex_state /\ t.param = s.param /\ t.newkey = s.newkey
         /\ t.trans_valid = s.trans_valid /\ ~t.recv_valid
         /\ t.transkey = s.transkey /\ t.recvkey = s.newkey
         /\ t.transseq = s.transseq
         /\ t.recvseq = x /\ t.kexes = s.kexes
         /\ t.reply_queue = s.reply_queue /\ t.wire = s.wire /\ t.sent = s.sent
         /\ t.received = s.received
         /\ t \in Sshsession
<1>1. "any" \in Type \cup {"any"} /\ s.newkey \in Nat
  BY DEF Sshsession
<1>2. NewkeysRead(s, x) \in Sshsession
  BY <1>1, ZenonT(60) DEF NewkeysRead, Sshsession
<1>3. /\ t.party = s.party /\ t.exited = s.exited
      /\ t.dataallowed = s.dataallowed /\ ~t.sentkexinit
      /\ ~t.recvkexinit /\ ~t.sentnewkeys
      /\ ~t.recvnewkeys /\ t.donefirstkex = s.donefirstkex
      /\ t.strict_kex = s.strict_kex /\ ~t.our_first_follows_matches
      /\ t.requirenext = "any" /\ t.ignorenext = s.ignorenext
      /\ t.kex_state = s.kex_state /\ t.param = s.param /\ t.newkey = s.newkey
      /\ t.trans_valid = s.trans_valid /\ ~t.recv_valid
      /\ t.transkey = s.transkey /\ t.recvkey = s.newkey
      /\ t.transseq = s.transseq
      /\ t.recvseq = x /\ t.kexes = s.kexes
      /\ t.reply_queue = s.reply_queue /\ t.wire = s.wire /\ t.sent = s.sent
      /\ t.received = s.received
  BY DEF NewkeysRead, Sshsession
<1>. QED
  BY <1>2, <1>3, Zenon

(* After a packet of the layers above was read, ... *)
LEMMA DataReadFields ==
  ASSUME NEW s \in Sshsession,
         s.received + 1 \in 0 .. MaxData, NEW t, t = DataRead(s)
  PROVE  /\ t.party = s.party /\ t.exited = s.exited
         /\ t.dataallowed = s.dataallowed /\ t.sentkexinit = s.sentkexinit
         /\ t.recvkexinit = s.recvkexinit /\ t.sentnewkeys = s.sentnewkeys
         /\ t.recvnewkeys = s.recvnewkeys /\ t.donefirstkex = s.donefirstkex
         /\ t.strict_kex = s.strict_kex
         /\ t.our_first_follows_matches = s.our_first_follows_matches
         /\ t.requirenext = s.requirenext /\ t.ignorenext = s.ignorenext
         /\ t.kex_state = s.kex_state /\ t.param = s.param /\ t.newkey = s.newkey
         /\ t.trans_valid = s.trans_valid /\ t.recv_valid = s.recv_valid
         /\ t.transkey = s.transkey /\ t.recvkey = s.recvkey
         /\ t.transseq = s.transseq /\ t.recvseq = s.recvseq + 1
         /\ t.kexes = s.kexes /\ t.reply_queue = s.reply_queue /\ t.wire = s.wire
         /\ t.sent = s.sent /\ t.received = s.received + 1
         /\ t \in Sshsession
<1>1. s.recvseq + 1 \in Nat
  BY DEF Sshsession
<1>2. DataRead(s) \in Sshsession
  BY <1>1, ZenonT(60) DEF DataRead, Sshsession
<1>. QED
  BY <1>2 DEF DataRead, Sshsession

(* ... sent, ... *)
LEMMA DataSentFields ==
  ASSUME NEW s \in Sshsession,
         NEW w \in Seq(Packet), NEW q \in Nat, s.sent + 1 \in 0 .. MaxData,
         NEW t, t = DataSent(s, w, q)
  PROVE  /\ t.party = s.party /\ t.exited = s.exited
         /\ t.dataallowed = s.dataallowed /\ t.sentkexinit = s.sentkexinit
         /\ t.recvkexinit = s.recvkexinit /\ t.sentnewkeys = s.sentnewkeys
         /\ t.recvnewkeys = s.recvnewkeys /\ t.donefirstkex = s.donefirstkex
         /\ t.strict_kex = s.strict_kex
         /\ t.our_first_follows_matches = s.our_first_follows_matches
         /\ t.requirenext = s.requirenext /\ t.ignorenext = s.ignorenext
         /\ t.kex_state = s.kex_state /\ t.param = s.param /\ t.newkey = s.newkey
         /\ t.trans_valid = s.trans_valid /\ t.recv_valid = s.recv_valid
         /\ t.transkey = s.transkey /\ t.recvkey = s.recvkey /\ t.transseq = q
         /\ t.recvseq = s.recvseq /\ t.kexes = s.kexes
         /\ t.reply_queue = s.reply_queue /\ t.wire = w /\ t.sent = s.sent + 1
         /\ t.received = s.received
         /\ t \in Sshsession
<1>1. DataSent(s, w, q) \in Sshsession
  BY ZenonT(60) DEF DataSent, Sshsession
<1>. QED
  BY <1>1 DEF DataSent, Sshsession

(* ... or put aside. *)
LEMMA DataQueuedFields ==
  ASSUME NEW s \in Sshsession,
         NEW r \in Seq(1 .. MaxData), s.sent + 1 \in 0 .. MaxData, NEW t, t = DataQueued(s, r)
  PROVE  /\ t.party = s.party /\ t.exited = s.exited
         /\ t.dataallowed = s.dataallowed /\ t.sentkexinit = s.sentkexinit
         /\ t.recvkexinit = s.recvkexinit /\ t.sentnewkeys = s.sentnewkeys
         /\ t.recvnewkeys = s.recvnewkeys /\ t.donefirstkex = s.donefirstkex
         /\ t.strict_kex = s.strict_kex
         /\ t.our_first_follows_matches = s.our_first_follows_matches
         /\ t.requirenext = s.requirenext /\ t.ignorenext = s.ignorenext
         /\ t.kex_state = s.kex_state /\ t.param = s.param /\ t.newkey = s.newkey
         /\ t.trans_valid = s.trans_valid /\ t.recv_valid = s.recv_valid
         /\ t.transkey = s.transkey /\ t.recvkey = s.recvkey
         /\ t.transseq = s.transseq /\ t.recvseq = s.recvseq /\ t.kexes = s.kexes
         /\ t.reply_queue = r /\ t.wire = s.wire /\ t.sent = s.sent + 1
         /\ t.received = s.received
         /\ t \in Sshsession
<1>1. DataQueued(s, r) \in Sshsession
  BY ZenonT(60) DEF DataQueued, Sshsession
<1>. QED
  BY <1>1 DEF DataQueued, Sshsession

(* A session with a new key is one. *)
LEMMA KeyedType ==
  ASSUME NEW s \in Sshsession, NEW w \in Seq(Packet), NEW q \in Nat, NEW k \in Nat,
         NEW t, t = Keyed(s, w, q, k)
  PROVE  t \in Sshsession
<1>. DEFINE v == w \o Waiting(s.reply_queue, k, q)
            r == q + Len(s.reply_queue)
<1>1. s.recvseq + 1 \in Nat /\ "newkeys" \in Type \cup {"any"} /\ s.reply_queue \in Seq(Nat)
  <2>1. s.recvseq \in Nat /\ s.reply_queue \in Seq(1 .. MaxData)
    BY DEF Sshsession
  <2>2. 1 .. MaxData \subseteq Nat
    BY KexBoundAssumption
  <2>3. s.reply_queue \in Seq(Nat)
    BY <2>1, <2>2, SeqSubset
  <2>. QED
    BY <2>1, <2>3 DEF Type
<1>2. v \in Seq(Packet) /\ r \in Nat /\ <<>> \in Seq(1 .. MaxData)
  BY <1>1, WaitingPackets, ConcatPacket
<1>. HIDE DEF v, r
<1>3. Keyed(s, w, q, k)
      = [s EXCEPT !.recvseq = s.recvseq + 1, !.requirenext = "newkeys",
            !.wire = v, !.transseq = r,
            !.reply_queue = <<>>, !.sentnewkeys = TRUE, !.donefirstkex = TRUE,
            !.dataallowed = TRUE, !.newkey = k, !.transkey = k, !.trans_valid = FALSE,
            !.recv_valid = TRUE, !.kex_state = FALSE]
  BY Zenon DEF Keyed, v, r
<1>4. [s EXCEPT !.recvseq = s.recvseq + 1, !.requirenext = "newkeys",
            !.wire = v, !.transseq = r,
            !.reply_queue = <<>>, !.sentnewkeys = TRUE, !.donefirstkex = TRUE,
            !.dataallowed = TRUE, !.newkey = k, !.transkey = k, !.trans_valid = FALSE,
            !.recv_valid = TRUE, !.kex_state = FALSE] \in Sshsession
  BY <1>1, <1>2, ZenonT(60) DEF Sshsession
<1>. QED
  BY <1>3, <1>4, Zenon

(* What a session is worth to a proof: its types. *)
LEMMA Types ==
  ASSUME NEW s \in Sshsession
  PROVE  /\ s.wire \in Seq(Packet) /\ s.transkey \in Nat /\ s.transseq \in Nat
         /\ s.recvkey \in Nat /\ s.recvseq \in Nat /\ s.param \in Nat /\ s.newkey \in Nat
         /\ s.kexes \in 0 .. MaxKex /\ MaxKex \in Nat /\ s.kexes \in Nat
         /\ s.sent \in 0 .. MaxData /\ s.received \in 0 .. MaxData /\ MaxData \in Nat
         /\ s.sent \in Nat /\ s.received \in Nat
         /\ s.reply_queue \in Seq(1 .. MaxData) /\ s.reply_queue \in Seq(Nat)
         /\ Len(s.reply_queue) \in Nat
         /\ s.party \in {"client", "server"}
<1>1. /\ s.wire \in Seq(Packet) /\ s.transkey \in Nat /\ s.transseq \in Nat
      /\ s.recvkey \in Nat /\ s.recvseq \in Nat /\ s.param \in Nat /\ s.newkey \in Nat
      /\ s.kexes \in 0 .. MaxKex /\ s.sent \in 0 .. MaxData /\ s.received \in 0 .. MaxData
      /\ s.reply_queue \in Seq(1 .. MaxData) /\ s.party \in {"client", "server"}
  BY DEF Sshsession, Party
<1>2. MaxKex \in Nat /\ MaxData \in Nat /\ 1 .. MaxData \subseteq Nat
  BY KexBoundAssumption
<1>3. s.reply_queue \in Seq(Nat)
  BY <1>1, <1>2, SeqSubset
<1>4. Len(s.reply_queue) \in Nat
  BY <1>3
<1>. QED
  BY <1>1, <1>2, <1>3, <1>4

-----------------------------------------------------------------------------
(* How a step changes the stage of a party. *)

(* A KEXINIT opens an exchange. *)
LEMMA StageKexinitSent ==
  ASSUME NEW s \in Sshsession, Stage(s, 0), s.kexes < MaxKex,
         NEW w \in Seq(Packet), NEW q \in Nat, NEW p \in Nat,
         NEW t, t = KexinitSent(s, w, q, p)
  PROVE  Stage(t, 1)
<1>1. s.kexes \in Nat
  BY Types
<1>2. /\ t.party = s.party /\ t.exited = s.exited /\ ~t.dataallowed
      /\ t.sentkexinit /\ t.recvkexinit = s.recvkexinit
      /\ t.sentnewkeys = s.sentnewkeys /\ t.recvnewkeys = s.recvnewkeys
      /\ t.donefirstkex = s.donefirstkex /\ t.strict_kex = s.strict_kex
      /\ t.our_first_follows_matches = s.our_first_follows_matches
      /\ t.requirenext = s.requirenext /\ t.ignorenext = s.ignorenext
      /\ t.kex_state = s.kex_state /\ t.param = p /\ t.newkey = s.newkey
      /\ ~t.trans_valid /\ ~t.recv_valid
      /\ t.transkey = s.transkey /\ t.recvkey = s.recvkey /\ t.transseq = q
      /\ t.recvseq = s.recvseq /\ t.kexes = s.kexes + 1
      /\ t.reply_queue = s.reply_queue /\ t.wire = w /\ t.sent = s.sent
      /\ t.received = s.received
  BY KexinitSentFields
<1>3. t.kexes # 0
  BY <1>1, <1>2
<1>. QED
  BY <1>2, <1>3 DEF Stage, Required

(* The answer to it agrees on the algorithms. *)
LEMMA StageKexinitRead ==
  ASSUME NEW s \in Sshsession, Stage(s, 1), strict \in BOOLEAN,
         NEW w \in Seq(Packet), NEW q \in Nat, NEW p \in Nat, NEW ig \in BOOLEAN,
         NEW of \in BOOLEAN, NEW rn \in Type \cup {"any"}, NEW st \in BOOLEAN,
         ig => s.party = "server", st <=> s.party = "client",
         s.party = "client" => rn = "kexdh_reply", s.party # "client" => rn = "kexdh_init",
         NEW t, t = KexinitRead(s, w, q, p, ig, of, rn, st)
  PROVE  Stage(t, 2)
<1>1. /\ t.party = s.party /\ t.exited = s.exited
      /\ t.dataallowed = s.dataallowed /\ t.sentkexinit = s.sentkexinit
      /\ t.recvkexinit /\ t.sentnewkeys = s.sentnewkeys
      /\ t.recvnewkeys = s.recvnewkeys /\ t.donefirstkex = s.donefirstkex
      /\ (t.strict_kex <=> strict) /\ (t.our_first_follows_matches <=> of)
      /\ t.requirenext = rn
      /\ (t.ignorenext <=> ig) /\ (t.kex_state <=> st) /\ t.param = p
      /\ t.newkey = s.newkey /\ t.trans_valid = s.trans_valid
      /\ t.recv_valid = s.recv_valid /\ t.transkey = s.transkey
      /\ t.recvkey = s.recvkey /\ t.transseq = q /\ t.recvseq = s.recvseq + 1
      /\ t.kexes = s.kexes /\ t.reply_queue = s.reply_queue /\ t.wire = w
      /\ t.sent = s.sent /\ t.received = s.received
  BY DEF KexinitRead, Sshsession
<1>. QED
  BY <1>1 DEF Stage, Required

(* A wrong guess is passed over. *)
LEMMA StageIgnored ==
  ASSUME NEW s \in Sshsession, Stage(s, 2), NEW t, t = Ignored(s)
  PROVE  Stage(t, 2)
<1>1. /\ t.party = s.party /\ t.exited = s.exited
      /\ t.dataallowed = s.dataallowed /\ t.sentkexinit = s.sentkexinit
      /\ t.recvkexinit = s.recvkexinit /\ t.sentnewkeys = s.sentnewkeys
      /\ t.recvnewkeys = s.recvnewkeys /\ t.donefirstkex = s.donefirstkex
      /\ t.strict_kex = s.strict_kex
      /\ t.our_first_follows_matches = s.our_first_follows_matches
      /\ t.requirenext = s.requirenext /\ ~t.ignorenext
      /\ t.kex_state = s.kex_state /\ t.param = s.param /\ t.newkey = s.newkey
      /\ t.trans_valid = s.trans_valid /\ t.recv_valid = s.recv_valid
      /\ t.transkey = s.transkey /\ t.recvkey = s.recvkey
      /\ t.transseq = s.transseq /\ t.recvseq = s.recvseq + 1
      /\ t.kexes = s.kexes /\ t.reply_queue = s.reply_queue /\ t.wire = s.wire
      /\ t.sent = s.sent /\ t.received = s.received
  BY IgnoredFields
<1>. QED
  BY <1>1 DEF Stage, Required

(* The NEWKEYS of its own. *)
LEMMA StageKeyed ==
  ASSUME NEW s \in Sshsession, Stage(s, 2), ~s.ignorenext,
         NEW w \in Seq(Packet), NEW q \in Nat, NEW k \in Nat, NEW t, t = Keyed(s, w, q, k)
  PROVE  Stage(t, 3)
<1>. DEFINE v == w \o Waiting(s.reply_queue, k, q)
            r == q + Len(s.reply_queue)
<1>1. s.ignorenext \in BOOLEAN
  BY DEF Sshsession
<1>2. t = [s EXCEPT !.recvseq = s.recvseq + 1, !.requirenext = "newkeys",
            !.wire = v, !.transseq = r,
            !.reply_queue = <<>>, !.sentnewkeys = TRUE, !.donefirstkex = TRUE,
            !.dataallowed = TRUE, !.newkey = k, !.transkey = k, !.trans_valid = FALSE,
            !.recv_valid = TRUE, !.kex_state = FALSE]
  BY Zenon DEF Keyed
<1>. HIDE DEF v, r
<1>3. /\ t.party = s.party /\ t.exited = s.exited /\ t.dataallowed
      /\ t.sentkexinit = s.sentkexinit /\ t.recvkexinit = s.recvkexinit
      /\ t.sentnewkeys /\ t.recvnewkeys = s.recvnewkeys
      /\ t.donefirstkex /\ t.strict_kex = s.strict_kex
      /\ t.our_first_follows_matches = s.our_first_follows_matches
      /\ t.requirenext = "newkeys" /\ t.ignorenext = s.ignorenext
      /\ ~t.kex_state /\ t.param = s.param /\ t.newkey = k
      /\ ~t.trans_valid /\ t.recv_valid /\ t.transkey = k
      /\ t.recvkey = s.recvkey /\ t.transseq = r
      /\ t.recvseq = s.recvseq + 1 /\ t.kexes = s.kexes /\ t.reply_queue = <<>>
      /\ t.wire = v /\ t.sent = s.sent
      /\ t.received = s.received
  BY <1>2 DEF Sshsession
<1>4. Len(t.reply_queue) <= t.sent
  BY <1>3, Types
<1>. QED
  BY <1>1, <1>3, <1>4 DEF Stage, Required

(* The NEWKEYS of the peer. *)
LEMMA StageNewkeysRead ==
  ASSUME NEW s \in Sshsession, Stage(s, 3), NEW x \in Nat, NEW t, t = NewkeysRead(s, x)
  PROVE  Stage(t, 0)
<1>1. /\ t.party = s.party /\ t.exited = s.exited
      /\ t.dataallowed = s.dataallowed /\ ~t.sentkexinit
      /\ ~t.recvkexinit /\ ~t.sentnewkeys
      /\ ~t.recvnewkeys /\ t.donefirstkex = s.donefirstkex
      /\ t.strict_kex = s.strict_kex /\ ~t.our_first_follows_matches
      /\ t.requirenext = "any" /\ t.ignorenext = s.ignorenext
      /\ t.kex_state = s.kex_state /\ t.param = s.param /\ t.newkey = s.newkey
      /\ t.trans_valid = s.trans_valid /\ ~t.recv_valid
      /\ t.transkey = s.transkey /\ t.recvkey = s.newkey
      /\ t.transseq = s.transseq
      /\ t.recvseq = x /\ t.kexes = s.kexes
      /\ t.reply_queue = s.reply_queue /\ t.wire = s.wire /\ t.sent = s.sent
      /\ t.received = s.received
  BY NewkeysReadFields
<1>. QED
  BY <1>1 DEF Stage, Required

(* The packets of the layers above leave it as it is. *)
LEMMA StageDataRead ==
  ASSUME NEW s \in Sshsession, NEW i \in {0, 1, 2, 3}, Stage(s, i), s.requirenext = "any",
         s.received + 1 \in 0 .. MaxData, NEW t, t = DataRead(s)
  PROVE  Stage(t, i)
<1>1. s.donefirstkex
  BY DEF Stage, Required
<1>. QED
  BY <1>1, DataReadFields DEF Stage, Required

(* The same when one is sent ... *)
LEMMA StageDataSent ==
  ASSUME NEW s \in Sshsession, NEW i \in {0, 1, 2, 3}, Stage(s, i),
         NEW w \in Seq(Packet), NEW q \in Nat, s.sent + 1 \in 0 .. MaxData,
         NEW t, t = DataSent(s, w, q)
  PROVE  Stage(t, i)
<1>1. Len(s.reply_queue) <= s.sent + 1
  BY Types DEF Stage
<1>. QED
  BY <1>1, DataSentFields DEF Stage, Required

(* ... or put aside. *)
LEMMA StageDataQueued ==
  ASSUME NEW s \in Sshsession, NEW i \in {0, 1, 2, 3}, Stage(s, i), ~s.dataallowed,
         NEW r \in Seq(1 .. MaxData), Len(r) = Len(s.reply_queue) + 1,
         s.sent + 1 \in 0 .. MaxData, NEW t, t = DataQueued(s, r)
  PROVE  Stage(t, i)
<1>1. Len(r) <= s.sent + 1
  BY Types DEF Stage
<1>. QED
  BY <1>1, DataQueuedFields DEF Stage, Required

(* The peer has read a packet. *)
Peeled(s) == [s EXCEPT !.wire = Tail(s.wire)]

(* Only its wire has changed. *)
LEMMA PeeledFields ==
  ASSUME NEW s \in Sshsession, s.wire # <<>>, NEW t, t = Peeled(s)
  PROVE  /\ t.party = s.party /\ t.exited = s.exited
         /\ t.dataallowed = s.dataallowed /\ t.sentkexinit = s.sentkexinit
         /\ t.recvkexinit = s.recvkexinit /\ t.sentnewkeys = s.sentnewkeys
         /\ t.recvnewkeys = s.recvnewkeys /\ t.donefirstkex = s.donefirstkex
         /\ t.strict_kex = s.strict_kex
         /\ t.our_first_follows_matches = s.our_first_follows_matches
         /\ t.requirenext = s.requirenext /\ t.ignorenext = s.ignorenext
         /\ t.kex_state = s.kex_state /\ t.param = s.param /\ t.newkey = s.newkey
         /\ t.trans_valid = s.trans_valid /\ t.recv_valid = s.recv_valid
         /\ t.transkey = s.transkey /\ t.recvkey = s.recvkey
         /\ t.transseq = s.transseq /\ t.recvseq = s.recvseq /\ t.kexes = s.kexes
         /\ t.reply_queue = s.reply_queue /\ t.wire = Tail(s.wire) /\ t.sent = s.sent
         /\ t.received = s.received
         /\ t \in Sshsession
<1>1. Tail(s.wire) \in Seq(Packet)
  BY Types, TailPacket
<1>2. Peeled(s) \in Sshsession
  BY <1>1, ZenonT(60) DEF Peeled, Sshsession
<1>. QED
  BY <1>2 DEF Peeled, Sshsession

(* It is as far as it was. *)
LEMMA StagePeeled ==
  ASSUME NEW s \in Sshsession, s.wire # <<>>, NEW t, t = Peeled(s)
  PROVE  \A i \in {0, 1, 2, 3} : Stage(s, i) => Stage(t, i)
BY PeeledFields DEF Stage, Required

-----------------------------------------------------------------------------
(* What the operations make of a session. *)

(* The server opens an exchange. *)
LEMMA ServerSendsKexinit ==
  ASSUME NEW s \in Sshsession, s.dataallowed, s.party = "server"
  PROVE  send_msg_kexinit(s)
         = KexinitSent(s, Append(s.wire, Sealed("kexinit", 0, s.transkey, s.transseq)),
                       s.transseq + 1, s.param)
<1>. DEFINE w == Append(s.wire, Sealed("kexinit", 0, s.transkey, s.transseq))
            q == s.transseq + 1
<1>1. send_msg_kexinit(s)
      = [s EXCEPT !.wire = w, !.transseq = q, !.dataallowed = FALSE,
                  !.sentkexinit = TRUE, !.kexes = s.kexes + 1, !.trans_valid = FALSE,
                  !.recv_valid = FALSE]
  BY ServerKexinit, Zenon
<1>. HIDE DEF w, q
<1>2. [s EXCEPT !.wire = w, !.transseq = q, !.dataallowed = FALSE,
                !.sentkexinit = TRUE, !.kexes = s.kexes + 1, !.trans_valid = FALSE,
                !.recv_valid = FALSE]
      = [s EXCEPT !.wire = w, !.transseq = q, !.dataallowed = FALSE,
                !.sentkexinit = TRUE, !.kexes = s.kexes + 1, !.trans_valid = FALSE,
                !.recv_valid = FALSE, !.param = s.param]
  BY DEF Sshsession
<1>. QED
  BY <1>1, <1>2, Zenon DEF KexinitSent, w, q

(* The client opens one, with its guess. *)
LEMMA ClientSendsKexinit ==
  ASSUME NEW s \in Sshsession, s.dataallowed, s.party = "client"
  PROVE  send_msg_kexinit(s)
         = KexinitSent(s, Append(Append(s.wire, Sealed("kexinit", 0, s.transkey, s.transseq)),
                                 Sealed("kexdh_init", s.param + 1, s.transkey, s.transseq + 1)),
                       s.transseq + 1 + 1, s.param + 1)
BY ClientKexinit, Zenon DEF KexinitSent

(* What the receiver of a KEXINIT has changed. *)
Agreed(s, t) ==
  /\ t \in Sshsession /\ Stage(t, 2)
  /\ t.party = s.party /\ t.kexes = s.kexes
  /\ t.recvseq = s.recvseq + 1 /\ t.recvkey = s.recvkey /\ t.received = s.received
  /\ t.transkey = s.transkey /\ t.sent = s.sent /\ t.reply_queue = s.reply_queue

(* The server reads the client's KEXINIT. *)
LEMMA ServerReadsKexinit ==
  ASSUME NEW s \in Sshsession, Stage(s, 1), strict \in BOOLEAN, s.party = "server",
         guess[s.kexes] \in BOOLEAN,
         NEW m \in Packet, m.type = "kexinit", m.key = s.recvkey, m.seq = s.recvseq,
         NEW t, t = Reads(s, m)
  PROVE  /\ Agreed(s, t) /\ (t.ignorenext <=> ~guess[s.kexes]) /\ t.param = s.param
         /\ t.wire = s.wire /\ t.transseq = s.transseq
<1>. DEFINE u == process_packet(s, m)
            ig == ~guess[s.kexes]
<1>1. (s.party = "server" /\ ~guess[s.kexes]) = ig /\ (s.party = "client"
      /\ guess[s.kexes]) = FALSE
  OBVIOUS
<1>2. (IF s.party = "client" THEN "kexdh_reply" ELSE "kexdh_init") = "kexdh_init"
  OBVIOUS
<1>3. u = [s EXCEPT !.recvseq = s.recvseq + 1, !.recvkexinit = TRUE, !.strict_kex = strict,
              !.ignorenext = ig, !.our_first_follows_matches = FALSE,
              !.requirenext = "kexdh_init"]
  BY <1>1, <1>2, ReadsKexinit, Zenon
<1>4. s.kex_state = FALSE
  BY DEF Stage, Sshsession
<1>5. [s EXCEPT !.recvseq = s.recvseq + 1, !.recvkexinit = TRUE, !.strict_kex = strict,
              !.ignorenext = ig, !.our_first_follows_matches = FALSE,
              !.requirenext = "kexdh_init"]
      = [s EXCEPT !.wire = s.wire, !.transseq = s.transseq, !.param = s.param, !.recvseq = s.recvseq + 1,
            !.recvkexinit = TRUE, !.strict_kex = strict, !.ignorenext = ig,
            !.our_first_follows_matches = FALSE, !.requirenext = "kexdh_init", !.kex_state = s.kex_state]
  <2>. HIDE DEF ig
  <2>. QED
    BY DEF Sshsession
<1>6. u = KexinitRead(s, s.wire, s.transseq, s.param, ig, FALSE, "kexdh_init", FALSE)
  <2>. HIDE DEF ig, u
  <2>. QED
    BY <1>3, <1>4, <1>5, Zenon DEF KexinitRead
<1>7. /\ ig \in BOOLEAN /\ FALSE \in BOOLEAN /\ "kexdh_init" \in Type \cup {"any"}
      /\ s.wire \in Seq(Packet) /\ s.transseq \in Nat /\ s.param \in Nat
  BY Types DEF Type
<1>8. ASSUME NEW a \in BOOLEAN, NEW b \in BOOLEAN, NEW c \in BOOLEAN, ~b, ~c,
             u = KexinitRead(s, s.wire, s.transseq, s.param, a, b, "kexdh_init", c)
      PROVE  /\ Agreed(s, u) /\ (u.ignorenext <=> a) /\ u.param = s.param
             /\ u.wire = s.wire /\ u.transseq = s.transseq /\ u.dataallowed = s.dataallowed
  <2>. HIDE DEF u
  <2>1. Stage(u, 2)
    BY <1>7, <1>8, StageKexinitRead
  <2>2. /\ (u.ignorenext <=> a) /\ u.param = s.param /\ u.wire = s.wire
        /\ u.transseq = s.transseq /\ u.dataallowed = s.dataallowed
        /\ u.party = s.party /\ u.kexes = s.kexes
        /\ u.recvseq = s.recvseq + 1 /\ u.recvkey = s.recvkey /\ u.received = s.received
        /\ u.transkey = s.transkey /\ u.sent = s.sent /\ u.reply_queue = s.reply_queue
    BY <1>8 DEF KexinitRead, Sshsession
  <2>3. s.recvseq + 1 \in Nat
    BY Types
  <2>4. KexinitRead(s, s.wire, s.transseq, s.param, a, b, "kexdh_init", c) \in Sshsession
    BY <1>7, <2>3, ZenonT(60) DEF KexinitRead, Sshsession
  <2>5. u \in Sshsession
    BY <1>8, <2>4, Zenon
  <2>. QED
    BY <2>1, <2>2, <2>5 DEF Agreed
<1>9. /\ Agreed(s, u) /\ (u.ignorenext <=> ig) /\ u.param = s.param
      /\ u.wire = s.wire /\ u.transseq = s.transseq /\ u.dataallowed = s.dataallowed
  <2>. HIDE DEF ig, u
  <2>. QED
    BY <1>6, <1>7, <1>8, Zenon
<1>10. t = u
  <2>1. u \in Sshsession /\ ~u.dataallowed /\ u.party = "server"
    BY <1>9 DEF Agreed, Stage
  <2>. HIDE DEF u
  <2>2. loophandler(maybe_flush_reply_queue(u), m.type) = u
    BY <2>1, NothingElse
  <2>. QED
    BY <2>2 DEF Reads, u
<1>. QED
  BY <1>9, <1>10, Zenon

(* A client that guessed right waits for the reply ... *)
LEMMA ClientReadsGood ==
  ASSUME NEW s \in Sshsession, Stage(s, 1), strict \in BOOLEAN, s.party = "client",
         guess[s.kexes] \in BOOLEAN, guess[s.kexes],
         NEW m \in Packet, m.type = "kexinit", m.key = s.recvkey, m.seq = s.recvseq,
         NEW t, t = Reads(s, m)
  PROVE  /\ Agreed(s, t) /\ ~t.ignorenext /\ t.param = s.param
         /\ t.wire = s.wire
         /\ t.transseq = s.transseq
<1>. DEFINE u == process_packet(s, m)
            w == s.wire
            q == s.transseq
            p == s.param
<1>1. (s.party = "server" /\ ~guess[s.kexes]) = FALSE /\ (s.party = "client"
      /\ guess[s.kexes]) = TRUE
  OBVIOUS
<1>2. (IF s.party = "client" THEN "kexdh_reply" ELSE "kexdh_init") = "kexdh_reply"
  OBVIOUS
<1>3. u = [s EXCEPT !.recvseq = s.recvseq + 1, !.recvkexinit = TRUE, !.strict_kex = strict,
              !.ignorenext = FALSE, !.our_first_follows_matches = TRUE,
              !.requirenext = "kexdh_reply"]
  <2>. DEFINE of == s.party = "client" /\ guess[s.kexes]
              ig == s.party = "server" /\ ~guess[s.kexes]
              rn == IF s.party = "client" THEN "kexdh_reply" ELSE "kexdh_init"
  <2>1. u = [s EXCEPT !.recvseq = s.recvseq + 1, !.recvkexinit = TRUE, !.strict_kex = strict,
                !.ignorenext = ig, !.our_first_follows_matches = of,
                !.requirenext = rn]
    BY ReadsKexinit
  <2>2. of = TRUE /\ ig = FALSE /\ rn = "kexdh_reply"
    BY <1>1, <1>2
  <2>. HIDE DEF of, ig, u, rn
  <2>. QED
    BY <2>1, <2>2
<1>4. ~s.kex_state /\ ~s.dataallowed /\ ~s.exited
  BY DEF Stage
<1>5. /\ u.dataallowed = s.dataallowed /\ u.kex_state = s.kex_state /\ u.exited = s.exited
      /\ u.our_first_follows_matches = TRUE /\ u.party = s.party /\ u.param = s.param
      /\ u.wire = s.wire /\ u.transkey = s.transkey /\ u.transseq = s.transseq
  <2>. HIDE DEF u
  <2>. QED
    BY <1>3 DEF Sshsession
<1>6. t = [u EXCEPT !.kex_state = TRUE]
  <2>. HIDE DEF u
  <2>1. maybe_flush_reply_queue(u) = u
    BY <1>4, <1>5 DEF maybe_flush_reply_queue
  <2>2. loophandler(u, m.type) = [u EXCEPT !.kex_state = TRUE]
    BY <1>4, <1>5 DEF loophandler, cli_sessionloop
  <2>. QED
    BY <2>1, <2>2 DEF Reads, u
<1>7. t = KexinitRead(s, w, q, p, FALSE, TRUE, "kexdh_reply", TRUE)
  <2>1. t = [s EXCEPT !.recvseq = s.recvseq + 1, !.recvkexinit = TRUE, !.strict_kex = strict,
              !.ignorenext = FALSE, !.our_first_follows_matches = TRUE,
              !.requirenext = "kexdh_reply", !.kex_state = TRUE]
    BY <1>3, <1>6 DEF Sshsession
  <2>2. [s EXCEPT !.recvseq = s.recvseq + 1, !.recvkexinit = TRUE, !.strict_kex = strict,
              !.ignorenext = FALSE, !.our_first_follows_matches = TRUE,
              !.requirenext = "kexdh_reply", !.kex_state = TRUE]
        = KexinitRead(s, w, q, p, FALSE, TRUE, "kexdh_reply", TRUE)
    BY DEF Sshsession, KexinitRead
  <2>. QED
    BY <2>1, <2>2, Zenon
<1>8. /\ TRUE \in BOOLEAN /\ TRUE \in BOOLEAN /\ FALSE \in BOOLEAN
      /\ "kexdh_reply" \in Type \cup {"any"}
      /\ w \in Seq(Packet) /\ q \in Nat /\ p \in Nat /\ s.recvseq + 1 \in Nat
  BY Types DEF Type
<1>. HIDE DEF w, q, p
<1>9. ASSUME NEW a \in BOOLEAN, NEW b \in BOOLEAN, NEW c \in BOOLEAN, ~a, c,
             t = KexinitRead(s, w, q, p, a, b, "kexdh_reply", c)
      PROVE  /\ Agreed(s, t) /\ ~t.ignorenext /\ t.param = p
             /\ t.wire = w /\ t.transseq = q
  <2>1. Stage(t, 2)
    BY <1>8, <1>9, StageKexinitRead
  <2>2. /\ ~t.ignorenext /\ t.param = p /\ t.wire = w
        /\ t.transseq = q
        /\ t.party = s.party /\ t.kexes = s.kexes
        /\ t.recvseq = s.recvseq + 1 /\ t.recvkey = s.recvkey /\ t.received = s.received
        /\ t.transkey = s.transkey /\ t.sent = s.sent /\ t.reply_queue = s.reply_queue
    BY <1>9 DEF KexinitRead, Sshsession
  <2>4. KexinitRead(s, w, q, p, a, b, "kexdh_reply", c) \in Sshsession
    BY <1>8, ZenonT(60) DEF KexinitRead, Sshsession
  <2>5. t \in Sshsession
    BY <1>9, <2>4, Zenon
  <2>. QED
    BY <2>1, <2>2, <2>5 DEF Agreed
<1>10. Agreed(s, t) /\ ~t.ignorenext /\ t.param = p /\ t.wire = w /\ t.transseq = q
  BY <1>7, <1>8, <1>9, Zenon
<1>. QED
  BY <1>10, Zenon DEF w, q, p

(* ... and one that guessed wrong sends another value. *)
LEMMA ClientReadsBad ==
  ASSUME NEW s \in Sshsession, Stage(s, 1), strict \in BOOLEAN, s.party = "client",
         guess[s.kexes] \in BOOLEAN, ~guess[s.kexes],
         NEW m \in Packet, m.type = "kexinit", m.key = s.recvkey, m.seq = s.recvseq,
         NEW t, t = Reads(s, m)
  PROVE  /\ Agreed(s, t) /\ ~t.ignorenext /\ t.param = s.param + 1
         /\ t.wire = Append(s.wire, Sealed("kexdh_init", s.param + 1, s.transkey, s.transseq))
         /\ t.transseq = s.transseq + 1
<1>. DEFINE u == process_packet(s, m)
            w == Append(s.wire, Sealed("kexdh_init", s.param + 1, s.transkey, s.transseq))
            q == s.transseq + 1
            p == s.param + 1
<1>1. (s.party = "server" /\ ~guess[s.kexes]) = FALSE /\ (s.party = "client"
      /\ guess[s.kexes]) = FALSE
  OBVIOUS
<1>2. (IF s.party = "client" THEN "kexdh_reply" ELSE "kexdh_init") = "kexdh_reply"
  OBVIOUS
<1>3. u = [s EXCEPT !.recvseq = s.recvseq + 1, !.recvkexinit = TRUE, !.strict_kex = strict,
              !.ignorenext = FALSE, !.our_first_follows_matches = FALSE,
              !.requirenext = "kexdh_reply"]
  BY <1>1, <1>2, ReadsKexinit, Zenon
<1>4. ~s.kex_state /\ ~s.dataallowed /\ ~s.exited
  BY DEF Stage
<1>5. /\ u.dataallowed = s.dataallowed /\ u.kex_state = s.kex_state /\ u.exited = s.exited
      /\ ~u.our_first_follows_matches /\ u.party = s.party /\ u.param = s.param
      /\ u.wire = s.wire /\ u.transkey = s.transkey /\ u.transseq = s.transseq
  BY <1>3 DEF Sshsession
<1>6. t = [send_msg_kexdh_init(u) EXCEPT !.kex_state = TRUE]
  <2>. HIDE DEF u
  <2>1. maybe_flush_reply_queue(u) = u
    BY <1>4, <1>5 DEF maybe_flush_reply_queue
  <2>2. loophandler(u, m.type) = [send_msg_kexdh_init(u) EXCEPT !.kex_state = TRUE]
    BY <1>4, <1>5 DEF loophandler, cli_sessionloop
  <2>. QED
    BY <2>1, <2>2 DEF Reads, u
<1>7. t = KexinitRead(s, w, q, p, FALSE, FALSE, "kexdh_reply", TRUE)
  <2>0. u \in Sshsession
    <3>1. s.recvseq + 1 \in Nat /\ "kexdh_reply" \in Type \cup {"any"}
      BY Types DEF Type
    <3>2. [s EXCEPT !.recvseq = s.recvseq + 1, !.recvkexinit = TRUE, !.strict_kex = strict,
              !.ignorenext = FALSE, !.our_first_follows_matches = FALSE,
              !.requirenext = "kexdh_reply"] \in Sshsession
      BY <3>1, ZenonT(60) DEF Sshsession
    <3>. QED
      BY <1>3, <3>2, Zenon
  <2>1. send_msg_kexdh_init(u) = [u EXCEPT !.param = p, !.wire = w, !.transseq = q]
    <3>. HIDE DEF u
    <3>1. send_msg_kexdh_init(u)
          = [u EXCEPT !.param = u.param + 1,
               !.wire = Append(u.wire, Sealed("kexdh_init", u.param + 1, u.transkey, u.transseq)),
               !.transseq = u.transseq + 1]
      BY <2>0, SendsDh
    <3>. QED
      BY <1>5, <3>1, Zenon
  <2>. HIDE DEF w, q, p, u
  <2>2. t = [[u EXCEPT !.param = p, !.wire = w, !.transseq = q] EXCEPT !.kex_state = TRUE]
    BY <1>6, <2>1, Zenon
  <2>3. t = [s EXCEPT !.recvseq = s.recvseq + 1, !.recvkexinit = TRUE, !.strict_kex = strict,
              !.ignorenext = FALSE, !.our_first_follows_matches = FALSE,
              !.requirenext = "kexdh_reply", !.param = p, !.wire = w, !.transseq = q,
              !.kex_state = TRUE]
    BY <1>3, <2>2 DEF Sshsession
  <2>4. [s EXCEPT !.recvseq = s.recvseq + 1, !.recvkexinit = TRUE, !.strict_kex = strict,
              !.ignorenext = FALSE, !.our_first_follows_matches = FALSE,
              !.requirenext = "kexdh_reply", !.param = p, !.wire = w, !.transseq = q,
              !.kex_state = TRUE]
        = KexinitRead(s, w, q, p, FALSE, FALSE, "kexdh_reply", TRUE)
    BY DEF Sshsession, KexinitRead
  <2>. QED
    BY <2>3, <2>4, Zenon
<1>8. /\ FALSE \in BOOLEAN /\ TRUE \in BOOLEAN /\ FALSE \in BOOLEAN
      /\ "kexdh_reply" \in Type \cup {"any"}
      /\ w \in Seq(Packet) /\ q \in Nat /\ p \in Nat /\ s.recvseq + 1 \in Nat
  BY Types, SealedPacket, SMTT(30) DEF Type
<1>. HIDE DEF w, q, p
<1>9. ASSUME NEW a \in BOOLEAN, NEW b \in BOOLEAN, NEW c \in BOOLEAN, ~a, c,
             t = KexinitRead(s, w, q, p, a, b, "kexdh_reply", c)
      PROVE  /\ Agreed(s, t) /\ ~t.ignorenext /\ t.param = p
             /\ t.wire = w /\ t.transseq = q
  <2>1. Stage(t, 2)
    BY <1>8, <1>9, StageKexinitRead
  <2>2. /\ ~t.ignorenext /\ t.param = p /\ t.wire = w
        /\ t.transseq = q
        /\ t.party = s.party /\ t.kexes = s.kexes
        /\ t.recvseq = s.recvseq + 1 /\ t.recvkey = s.recvkey /\ t.received = s.received
        /\ t.transkey = s.transkey /\ t.sent = s.sent /\ t.reply_queue = s.reply_queue
    BY <1>9 DEF KexinitRead, Sshsession
  <2>4. KexinitRead(s, w, q, p, a, b, "kexdh_reply", c) \in Sshsession
    BY <1>8, ZenonT(60) DEF KexinitRead, Sshsession
  <2>5. t \in Sshsession
    BY <1>9, <2>4, Zenon
  <2>. QED
    BY <2>1, <2>2, <2>5 DEF Agreed
<1>10. Agreed(s, t) /\ ~t.ignorenext /\ t.param = p /\ t.wire = w /\ t.transseq = q
  BY <1>7, <1>8, <1>9, Zenon
<1>. QED
  BY <1>10, Zenon DEF w, q, p

(* The server passes over the packet of a bad guess (ignorenext). *)
LEMMA ServerIgnores ==
  ASSUME NEW s \in Sshsession, Stage(s, 2), s.party = "server", s.ignorenext,
         NEW m \in Packet, m.type = "kexdh_init", m.key = s.recvkey, m.seq = s.recvseq
  PROVE  Reads(s, m) = Ignored(s)
<1>1. process_packet(s, m) = Ignored(s)
  BY ReadsIgnored DEF Ignored
<1>. DEFINE u == Ignored(s)
<1>2. u \in Sshsession /\ u.dataallowed = s.dataallowed /\ u.party = s.party
  BY IgnoredFields
<1>3. ~s.dataallowed
  BY DEF Stage
<1>4. u.dataallowed => u.reply_queue = <<>>
  BY <1>2, <1>3
<1>5. u.party # "client"
  BY <1>2
<1>. HIDE DEF u
<1>6. loophandler(maybe_flush_reply_queue(u), m.type) = u
  BY <1>2, <1>4, <1>5, NothingElse
<1>. QED
  BY <1>1, <1>6, Zenon DEF u, Reads

(* A party reads the NEWKEYS of the other. *)
LEMMA PartyReadsNewkeys ==
  ASSUME NEW s \in Sshsession, Stage(s, 3),
         NEW m \in Packet, m.type = "newkeys", m.key = s.recvkey, m.seq = s.recvseq
  PROVE  Reads(s, m) = NewkeysRead(s, IF strict THEN 0 ELSE s.recvseq + 1)
<1>. DEFINE x == IF strict THEN 0 ELSE s.recvseq + 1
            u == NewkeysRead(s, x)
<1>1. process_packet(s, m) = u
  BY ReadsNewkeys, Zenon DEF NewkeysRead
<1>2. x \in Nat
  BY Types
<1>. HIDE DEF x
<1>3. /\ u \in Sshsession /\ u.reply_queue = s.reply_queue /\ u.dataallowed = s.dataallowed
      /\ u.kex_state = s.kex_state
  BY <1>2, NewkeysReadFields
<1>4. ~s.kex_state /\ (s.dataallowed => s.reply_queue = <<>>)
  BY DEF Stage
<1>5. (u.dataallowed => u.reply_queue = <<>>) /\ ~u.kex_state /\ m.type # "kexinit"
  BY <1>3, <1>4
<1>. HIDE DEF u
<1>6. loophandler(maybe_flush_reply_queue(u), m.type) = u
  BY <1>3, <1>5, NothingElse
<1>. QED
  BY <1>1, <1>6, Zenon DEF u, x, Reads

(* A party reads a packet of the layers above. *)
LEMMA PartyReadsData ==
  ASSUME NEW s \in Sshsession, NEW i \in {0, 1}, Stage(s, i), s.requirenext = "any",
         s.received + 1 \in 0 .. MaxData,
         NEW m \in Packet, m.type = "data", m.key = s.recvkey, m.seq = s.recvseq
  PROVE  Reads(s, m) = DataRead(s)
<1>. DEFINE u == DataRead(s)
<1>1. ~s.ignorenext /\ ~s.kex_state /\ (s.dataallowed => s.reply_queue = <<>>)
  BY DEF Stage
<1>2. process_packet(s, m) = u
  BY <1>1, ReadsData, Zenon DEF DataRead
<1>3. /\ u \in Sshsession /\ u.reply_queue = s.reply_queue /\ u.dataallowed = s.dataallowed
      /\ u.kex_state = s.kex_state
  BY DataReadFields
<1>4. (u.dataallowed => u.reply_queue = <<>>) /\ ~u.kex_state /\ m.type # "kexinit"
  BY <1>1, <1>3
<1>. HIDE DEF u
<1>5. loophandler(maybe_flush_reply_queue(u), m.type) = u
  BY <1>3, <1>4, NothingElse
<1>. QED
  BY <1>2, <1>5, Zenon DEF u, Reads

(* A packet of the layers above. *)
LEMMA PartySendsData ==
  ASSUME NEW s \in Sshsession, Len(s.reply_queue) <= s.sent, s.sent < MaxData
  PROVE  encrypt_packet([s EXCEPT !.sent = s.sent + 1], "data", s.sent + 1)
         = IF s.dataallowed
           THEN DataSent(s, Append(s.wire, Sealed("data", s.sent + 1, s.transkey, s.transseq)),
                         s.transseq + 1)
           ELSE DataQueued(s, Append(s.reply_queue, s.sent + 1))
<1>. DEFINE a == [s EXCEPT !.sent = s.sent + 1]
            w == Append(s.wire, Sealed("data", s.sent + 1, s.transkey, s.transseq))
            r == Append(s.reply_queue, s.sent + 1)
<1>1. /\ a.dataallowed = s.dataallowed /\ a.wire = s.wire /\ a.transkey = s.transkey
      /\ a.transseq = s.transseq /\ a.reply_queue = s.reply_queue
  BY DEF Sshsession
<1>2. encrypt_packet(a, "data", s.sent + 1)
      = IF ~s.dataallowed THEN [a EXCEPT !.reply_queue = r]
        ELSE [a EXCEPT !.wire = w, !.transseq = s.transseq + 1]
  <2>1. ~(Len(s.reply_queue) > MAX_DEFER_REPLY_QUEUE)
    BY QueueAssumption, KexBoundAssumption, Types
  <2>. HIDE DEF a
  <2>. QED
    BY <1>1, <2>1 DEF encrypt_packet, enqueue_reply_packet, packet_is_okay_kex, Sealed
<1>. HIDE DEF w, r
<1>3. [a EXCEPT !.reply_queue = r] = DataQueued(s, r)
  BY DEF DataQueued, Sshsession
<1>4. [a EXCEPT !.wire = w, !.transseq = s.transseq + 1] = DataSent(s, w, s.transseq + 1)
  BY DEF DataSent, Sshsession
<1>5. CASE s.dataallowed
  BY <1>2, <1>4, <1>5 DEF w
<1>6. CASE ~s.dataallowed
  BY <1>2, <1>3, <1>6 DEF r
<1>. QED
  BY <1>5, <1>6

(* A KEXINIT that comes before its own is sent is answered with it first. *)
LEMMA Answers ==
  ASSUME NEW s \in Sshsession, Stage(s, 0), s.kexes < MaxKex,
         NEW m \in Packet, m.type = "kexinit", m.key = s.recvkey, m.seq = s.recvseq
  PROVE  Reads(s, m) = Reads(send_msg_kexinit(s), m)
<1>. DEFINE b == [s EXCEPT !.recvseq = s.recvseq + 1, !.requirenext = "any"]
            c == send_msg_kexinit(s)
            d == [c EXCEPT !.recvseq = s.recvseq + 1, !.requirenext = "any"]
<1>1. s.dataallowed /\ s.requirenext = "any" /\ ~s.ignorenext /\ ~s.sentkexinit
  BY DEF Stage, Required
<1>2. process_packet(s, m) = recv_msg_kexinit(b)
  <2>2. process_packet(s, m) = handler(b, m)
    BY <1>1, Opens
  <2>. HIDE DEF b
  <2>. QED
    BY <2>2 DEF handler
<1>3. /\ b.dataallowed /\ b.party = s.party /\ b.wire = s.wire /\ b.transkey = s.transkey
      /\ b.transseq = s.transseq /\ b.param = s.param /\ b.kexes = s.kexes
      /\ ~b.sentkexinit
  BY <1>1 DEF Sshsession
<1>4. b \in Sshsession
  <2>1. s.recvseq + 1 \in Nat /\ "any" \in Type \cup {"any"}
    BY Types
  <2>. QED
    BY <2>1, Zenon DEF Sshsession
<1>5. PICK w \in Seq(Packet), q \in Nat, p \in Nat :
        c = KexinitSent(s, w, q, p) /\ send_msg_kexinit(b) = KexinitSent(b, w, q, p)
  <2>1. CASE s.party = "server"
    <3>. DEFINE w == Append(s.wire, Sealed("kexinit", 0, s.transkey, s.transseq))
    <3>1. c = KexinitSent(s, w, s.transseq + 1, s.param)
      BY <1>1, <2>1, ServerSendsKexinit
    <3>2. send_msg_kexinit(b) = KexinitSent(b, w, s.transseq + 1, s.param)
      <4>. HIDE DEF b
      <4>1. send_msg_kexinit(b)
            = KexinitSent(b, Append(b.wire, Sealed("kexinit", 0, b.transkey, b.transseq)),
                          b.transseq + 1, b.param)
        BY <1>3, <1>4, <2>1, ServerSendsKexinit
      <4>. QED
        BY <1>3, <4>1, Zenon
    <3>3. w \in Seq(Packet) /\ s.transseq + 1 \in Nat /\ s.param \in Nat
      BY Types, SealedPacket DEF Type
    <3>. HIDE DEF w, b
    <3>. QED
      BY <3>1, <3>2, <3>3, Zenon
  <2>2. CASE s.party = "client"
    <3>. DEFINE w == Append(Append(s.wire, Sealed("kexinit", 0, s.transkey, s.transseq)),
                            Sealed("kexdh_init", s.param + 1, s.transkey, s.transseq + 1))
    <3>1. c = KexinitSent(s, w, s.transseq + 1 + 1, s.param + 1)
      BY <1>1, <2>2, ClientSendsKexinit
    <3>2. send_msg_kexinit(b) = KexinitSent(b, w, s.transseq + 1 + 1, s.param + 1)
      <4>. HIDE DEF b
      <4>1. send_msg_kexinit(b)
            = KexinitSent(b, Append(Append(b.wire, Sealed("kexinit", 0, b.transkey, b.transseq)),
                                    Sealed("kexdh_init", b.param + 1, b.transkey, b.transseq + 1)),
                          b.transseq + 1 + 1, b.param + 1)
        BY <1>3, <1>4, <2>2, ClientSendsKexinit
      <4>. QED
        BY <1>3, <4>1, Zenon
    <3>3. w \in Seq(Packet) /\ s.transseq + 1 + 1 \in Nat /\ s.param + 1 \in Nat
      <4>1. Append(s.wire, Sealed("kexinit", 0, s.transkey, s.transseq)) \in Seq(Packet)
        BY Types, SealedPacket DEF Type
      <4>2. Sealed("kexdh_init", s.param + 1, s.transkey, s.transseq + 1) \in Packet
        BY Types, SealedPacket DEF Type
      <4>. QED
        BY <4>1, <4>2, Types, SMTT(30)
    <3>. HIDE DEF w, b
    <3>. QED
      BY <3>1, <3>2, <3>3, Zenon
  <2>. QED
    BY <2>1, <2>2, Types
<1>. HIDE DEF c
<1>6. /\ c \in Sshsession /\ c.recvseq = s.recvseq /\ c.recvkey = s.recvkey
      /\ c.requirenext = s.requirenext /\ c.ignorenext = s.ignorenext
      /\ c.sentkexinit /\ c.party = s.party
  BY <1>5, KexinitSentFields
<1>7. send_msg_kexinit(b) = d
  BY <1>5 DEF KexinitSent, Sshsession
<1>8. process_packet(c, m) = recv_msg_kexinit(d)
  <2>1. process_packet(c, m) = handler(d, m)
    <3>1. process_packet(c, m)
          = handler([c EXCEPT !.recvseq = c.recvseq + 1, !.requirenext = "any"], m)
      BY <1>1, <1>6, Opens
    <3>. QED
      BY <1>6, <3>1
  <2>. HIDE DEF d
  <2>. QED
    BY <2>1 DEF handler
<1>9. d.sentkexinit /\ d.party = b.party
  BY <1>3, <1>6 DEF Sshsession
<1>10. recv_msg_kexinit(b) = recv_msg_kexinit(d)
  <2>. HIDE DEF b, d
  <2>1. (IF b.sentkexinit THEN b ELSE send_msg_kexinit(b)) = d
    BY <1>3, <1>7
  <2>2. (IF d.sentkexinit THEN d ELSE send_msg_kexinit(d)) = d
    BY <1>9
  <2>. QED
    BY <1>9, <2>1, <2>2, Zenon DEF recv_msg_kexinit
<1>. QED
  BY <1>2, <1>8, <1>10, Zenon DEF Reads, c

-----------------------------------------------------------------------------
(* What the steps do to the wire from s to r. *)

(* How many packets of the layers above are on it. *)
LEMMA Underway ==
  ASSUME NEW s \in Sshsession, NEW r \in Sshsession
  PROVE  s.sent - Len(s.reply_queue) - r.received \in Int
BY Types

(* Nothing that concerns it. *)
LEMMA LinkSame ==
  ASSUME NEW s, NEW r, NEW ks, NEW t, NEW x, Link(s, r, ks), OutSame(s, t), InSame(r, x)
  PROVE  Link(t, x, ks)
BY Zenon DEF Link, OutSame, InSame

(* s sends a packet of an exchange. *)
LEMMA LinkSendKex ==
  ASSUME NEW s \in Sshsession, NEW r \in Sshsession, NEW ks \in Seq(KexMsg), Link(s, r, ks),
         NEW type \in Type \ {"data", "newkeys"}, NEW n \in Nat,
         NEW t, t.wire = Append(s.wire, Sealed(type, n, s.transkey, s.transseq)),
         t.transseq = s.transseq + 1, t.transkey = s.transkey, t.sent = s.sent,
         t.reply_queue = s.reply_queue
  PROVE  Link(t, r, Append(ks, <<type, n>>))
<1>. DEFINE u == s.sent - Len(s.reply_queue) - r.received
            open == r.requirenext = "any"
<1>1. Wire(s.wire, ks, u, open, s.transkey, s.transseq, r.recvkey, r.recvseq)
  BY DEF Link
<1>2. u \in Int
  BY Underway
<1>. HIDE DEF u, open
<1>3. /\ s.wire \in Seq(Packet) /\ s.transkey \in Nat /\ s.transseq \in Nat
      /\ r.recvkey \in Nat /\ r.recvseq \in Nat
  BY Types
<1>4. Wire(Append(s.wire, Sealed(type, n, s.transkey, s.transseq)), Append(ks, <<type, n>>),
           u, open, s.transkey, s.transseq + 1, r.recvkey, r.recvseq)
  BY <1>1, <1>2, <1>3, WireSendKex
<1>. QED
  BY <1>4, Zenon DEF Link, u, open

(* The client sends two. *)
LEMMA LinkSendTwo ==
  ASSUME NEW s \in Sshsession, NEW r \in Sshsession, NEW ks \in Seq(KexMsg), Link(s, r, ks),
         NEW n \in Nat,
         NEW t, t.wire = Append(Append(s.wire, Sealed("kexinit", 0, s.transkey, s.transseq)),
                                Sealed("kexdh_init", n, s.transkey, s.transseq + 1)),
         t.transseq = s.transseq + 1 + 1, t.transkey = s.transkey, t.sent = s.sent,
         t.reply_queue = s.reply_queue
  PROVE  Link(t, r, Append(Append(ks, Kexinit), Init_(n)))
<1>. DEFINE u == s.sent - Len(s.reply_queue) - r.received
            open == r.requirenext = "any"
            w == Append(s.wire, Sealed("kexinit", 0, s.transkey, s.transseq))
            ls == Append(ks, Kexinit)
<1>1. Wire(s.wire, ks, u, open, s.transkey, s.transseq, r.recvkey, r.recvseq)
  BY DEF Link
<1>2. u \in Int
  BY Underway
<1>. HIDE DEF u, open
<1>3. /\ s.wire \in Seq(Packet) /\ s.transkey \in Nat /\ s.transseq \in Nat
      /\ s.transseq + 1 \in Nat /\ 0 \in Nat
      /\ r.recvkey \in Nat /\ r.recvseq \in Nat
      /\ "kexinit" \in Type \ {"data", "newkeys"} /\ "kexdh_init" \in Type \ {"data", "newkeys"}
  BY Types, SMTT(30) DEF Type
<1>4. /\ Wire(w, ls, u, open, s.transkey, s.transseq + 1, r.recvkey, r.recvseq)
      /\ w \in Seq(Packet)
  BY <1>1, <1>2, <1>3, WireSendKex DEF Kexinit
<1>5. ls \in Seq(KexMsg)
  BY DEF Kexinit, KexMsg, Type
<1>. HIDE DEF w, ls
<1>6. Wire(Append(w, Sealed("kexdh_init", n, s.transkey, s.transseq + 1)), Append(ls, Init_(n)),
           u, open, s.transkey, s.transseq + 1 + 1, r.recvkey, r.recvseq)
  BY <1>2, <1>3, <1>4, <1>5, WireSendKex DEF Init_
<1>. QED
  BY <1>6, Zenon DEF Link, u, open, w, ls

(* r reads one. *)
LEMMA LinkReadKex ==
  ASSUME NEW s \in Sshsession, NEW r \in Sshsession, NEW ks \in Seq(KexMsg), Link(s, r, ks),
         s.wire # <<>>, Head(s.wire).type \notin {"data", "newkeys"},
         NEW x, x.received = r.received, x.recvkey = r.recvkey, x.recvseq = r.recvseq + 1
  PROVE  Link(Peeled(s), x, Tail(ks))
<1>. DEFINE u == s.sent - Len(s.reply_queue) - r.received
            open == r.requirenext = "any"
            after == x.requirenext = "any"
            t == Peeled(s)
<1>1. Wire(s.wire, ks, u, open, s.transkey, s.transseq, r.recvkey, r.recvseq)
  BY DEF Link
<1>2. u \in Int
  BY Underway
<1>. HIDE DEF u, open, after, t
<1>3. /\ s.wire \in Seq(Packet) /\ s.transkey \in Nat /\ s.transseq \in Nat
      /\ r.recvkey \in Nat /\ r.recvseq \in Nat
  BY Types
<1>4. Wire(Tail(s.wire), Tail(ks), u, after, s.transkey, s.transseq, r.recvkey, r.recvseq + 1)
  BY <1>1, <1>2, <1>3, WireReadKex
<1>5. /\ t.wire = Tail(s.wire) /\ t.sent = s.sent /\ t.reply_queue = s.reply_queue
      /\ t.transkey = s.transkey /\ t.transseq = s.transseq
  BY PeeledFields DEF t
<1>6. Link(t, x, Tail(ks))
  BY <1>4, <1>5, Zenon DEF Link, u, after
<1>. QED
  BY <1>6 DEF t

(* r reads the NEWKEYS. *)
LEMMA LinkReadNew ==
  ASSUME NEW s \in Sshsession, NEW r \in Sshsession, NEW ks \in Seq(KexMsg), Link(s, r, ks),
         s.wire # <<>>, Head(s.wire).type = "newkeys",
         NEW x, x.received = r.received, x.recvkey = s.transkey, x.requirenext = "any",
         x.recvseq = IF strict THEN 0 ELSE r.recvseq + 1
  PROVE  Link(Peeled(s), x, Tail(ks))
<1>. DEFINE u == s.sent - Len(s.reply_queue) - r.received
            open == r.requirenext = "any"
            y == IF strict THEN 0 ELSE r.recvseq + 1
            t == Peeled(s)
<1>1. Wire(s.wire, ks, u, open, s.transkey, s.transseq, r.recvkey, r.recvseq)
  BY DEF Link
<1>2. u \in Int
  BY Underway
<1>. HIDE DEF u, open, t
<1>3. /\ s.wire \in Seq(Packet) /\ s.transkey \in Nat /\ s.transseq \in Nat
      /\ r.recvkey \in Nat /\ r.recvseq \in Nat
  BY Types
<1>4. Wire(Tail(s.wire), Tail(ks), u, TRUE, s.transkey, s.transseq, s.transkey, y)
  BY <1>1, <1>2, <1>3, WireReadNew
<1>. HIDE DEF y
<1>5. /\ t.wire = Tail(s.wire) /\ t.sent = s.sent /\ t.reply_queue = s.reply_queue
      /\ t.transkey = s.transkey /\ t.transseq = s.transseq
  BY PeeledFields DEF t
<1>6. (x.requirenext = "any") = TRUE /\ x.recvseq = y
  BY DEF y
<1>7. Wire(Tail(s.wire), Tail(ks), u, x.requirenext = "any", s.transkey, s.transseq, s.transkey, y)
  BY <1>4, <1>6
<1>8. Link(t, x, Tail(ks))
  BY <1>5, <1>6, <1>7, Zenon DEF Link, u
<1>. QED
  BY <1>8 DEF t

(* r reads a packet of the layers above. *)
LEMMA LinkReadData ==
  ASSUME NEW s \in Sshsession, NEW r \in Sshsession, NEW ks \in Seq(KexMsg), Link(s, r, ks),
         Len(ks) <= 3, s.wire # <<>>, Head(s.wire).type = "data"
  PROVE  /\ r.requirenext = "any" /\ r.received + 1 \in 0 .. MaxData
         /\ \A x : /\ x.received = r.received + 1 /\ x.recvkey = r.recvkey
                   /\ x.recvseq = r.recvseq + 1 /\ x.requirenext = r.requirenext
                   => Link(Peeled(s), x, ks)
<1>. DEFINE u == s.sent - Len(s.reply_queue) - r.received
            open == r.requirenext = "any"
            t == Peeled(s)
<1>1. Wire(s.wire, ks, u, open, s.transkey, s.transseq, r.recvkey, r.recvseq)
  BY DEF Link
<1>2. u \in Int
  BY Underway
<1>. HIDE DEF u, open, t
<1>3. /\ s.wire \in Seq(Packet) /\ s.transkey \in Nat /\ s.transseq \in Nat
      /\ r.recvkey \in Nat /\ r.recvseq \in Nat
  BY Types
<1>4. /\ Wire(Tail(s.wire), ks, u - 1, open, s.transkey, s.transseq, r.recvkey, r.recvseq + 1)
      /\ open /\ u >= 1
  <2>1. /\ Wire(Tail(s.wire), ks, u - 1, open, s.transkey, s.transseq, r.recvkey, r.recvseq + 1)
        /\ u >= 1
    BY <1>1, <1>2, <1>3, WireReadData
  <2>2. open
    <3>1. Quiet(s.wire, open)
      BY <1>1 DEF Wire
    <3>2. Len(s.wire) \in Nat /\ Len(s.wire) >= 1 /\ s.wire[1] = Head(s.wire)
      BY <1>3, TailPacket
    <3>3. 1 \in 1 .. Len(s.wire) /\ s.wire[1].type = "data"
      BY <3>2
    <3>. QED
      BY <3>1, <3>3 DEF Quiet
  <2>. QED
    BY <2>1, <2>2, Zenon
<1>5. /\ t.wire = Tail(s.wire) /\ t.sent = s.sent /\ t.reply_queue = s.reply_queue
      /\ t.transkey = s.transkey /\ t.transseq = s.transseq
  BY PeeledFields DEF t
<1>6. r.received + 1 \in 0 .. MaxData
  BY <1>4, Types DEF u
<1>7. ASSUME NEW x, x.received = r.received + 1, x.recvkey = r.recvkey,
             x.recvseq = r.recvseq + 1, x.requirenext = r.requirenext
      PROVE  Link(t, x, ks)
  <2>1. t.sent - Len(t.reply_queue) - x.received = u - 1
    <3>1. s.sent \in Nat /\ Len(s.reply_queue) \in Nat /\ r.received \in Nat
      BY Types
    <3>2. t.sent - Len(t.reply_queue) - x.received = s.sent - Len(s.reply_queue) - (r.received + 1)
      BY <1>5, <1>7, Zenon
    <3>3. s.sent - Len(s.reply_queue) - (r.received + 1) = (s.sent - Len(s.reply_queue) - r.received) - 1
      BY <3>1, SMTT(30)
    <3>. QED
      BY <3>2, <3>3, Zenon DEF u
  <2>2. Wire(t.wire, ks, t.sent - Len(t.reply_queue) - x.received, open,
             t.transkey, t.transseq, x.recvkey, x.recvseq)
    BY <1>4, <1>5, <1>7, <2>1, Zenon
  <2>3. (r.requirenext = "any") = (x.requirenext = "any")
    BY <1>7
  <2>4. Wire(t.wire, ks, t.sent - Len(t.reply_queue) - x.received, x.requirenext = "any",
             t.transkey, t.transseq, x.recvkey, x.recvseq)
    BY <2>2, <2>3 DEF open
  <2>. QED
    BY <2>4 DEF Link
<1>. QED
  BY <1>4, <1>6, <1>7 DEF t, open

(* s sends packets of the layers above, or puts one aside. *)
LEMMA LinkSendData ==
  ASSUME NEW s \in Sshsession, NEW r \in Sshsession, NEW ks \in Seq(KexMsg), Link(s, r, ks),
         Ends(ks), ks = <<>> => r.requirenext = "any", NEW q \in Seq(Nat),
         NEW t, t.wire = s.wire \o Waiting(q, s.transkey, s.transseq),
         t.transseq = s.transseq + Len(q), t.transkey = s.transkey,
         t.sent - Len(t.reply_queue) - r.received
           = s.sent - Len(s.reply_queue) - r.received + Len(q)
  PROVE  Link(t, r, ks)
<1>. DEFINE u == s.sent - Len(s.reply_queue) - r.received
            open == r.requirenext = "any"
<1>1. Wire(s.wire, ks, u, open, s.transkey, s.transseq, r.recvkey, r.recvseq)
  BY DEF Link
<1>2. u \in Int
  BY Underway
<1>. HIDE DEF u, open
<1>3. /\ s.wire \in Seq(Packet) /\ s.transkey \in Nat /\ s.transseq \in Nat
      /\ r.recvkey \in Nat /\ r.recvseq \in Nat
  BY Types
<1>4. Wire(s.wire \o Waiting(q, s.transkey, s.transseq), ks, u + Len(q), open,
           s.transkey, s.transseq + Len(q), r.recvkey, r.recvseq)
  <2>1. ks = <<>> => open
    BY DEF open
  <2>. QED
    BY <1>1, <1>2, <1>3, <2>1, WireSendData
<1>. QED
  BY <1>4, Zenon DEF Link, u, open

(* One that is put aside does not reach the wire. *)
LEMMA LinkQueue ==
  ASSUME NEW s \in Sshsession, NEW r \in Sshsession, NEW ks, Link(s, r, ks),
         NEW t, t.wire = s.wire, t.transseq = s.transseq, t.transkey = s.transkey,
         t.sent = s.sent + 1, Len(t.reply_queue) = Len(s.reply_queue) + 1
  PROVE  Link(t, r, ks)
<1>1. t.sent - Len(t.reply_queue) - r.received = s.sent - Len(s.reply_queue) - r.received
  BY Types, SMTT(30)
<1>. QED
  BY <1>1, Zenon DEF Link

(* A list of packets that ends with NEWKEYS. *)
LEMMA AppendNewkeys ==
  ASSUME NEW ks \in Seq(KexMsg)
  PROVE  /\ Append(ks, Newkeys) \in Seq(KexMsg) /\ Ends(Append(ks, Newkeys))
         /\ Append(ks, Newkeys) # <<>>
<1>1. Newkeys \in KexMsg
  BY DEF Newkeys, KexMsg, Type
<1>2. /\ Len(Append(ks, Newkeys)) = Len(ks) + 1 /\ Len(ks) \in Nat
      /\ Append(ks, Newkeys)[Len(ks) + 1] = Newkeys
  BY <1>1
<1>3. Append(ks, Newkeys) # <<>>
  BY <1>1
<1>. QED
  BY <1>1, <1>2, <1>3 DEF Ends

(* s sends what waited after its NEWKEYS. *)
LEMMA LinkKeyed ==
  ASSUME NEW s \in Sshsession, NEW r \in Sshsession, NEW ks \in Seq(KexMsg),
         Ends(ks), ks # <<>>, NEW w \in Seq(Packet), NEW q \in Nat, NEW k \in Nat,
         Wire(w, ks, s.sent - Len(s.reply_queue) - r.received, r.requirenext = "any",
              k, q, r.recvkey, r.recvseq),
         NEW t, t = Keyed(s, w, q, k)
  PROVE  /\ Link(t, r, ks) /\ t \in Sshsession
         /\ Stage(s, 2) /\ ~s.ignorenext => Stage(t, 3)
         /\ t.party = s.party /\ t.kexes = s.kexes /\ t.param = s.param /\ t.transkey = k
         /\ t.ignorenext = s.ignorenext /\ t.received = s.received
         /\ t.recvkey = s.recvkey /\ t.recvseq = s.recvseq + 1
<1>. DEFINE u == s.sent - Len(s.reply_queue) - r.received
            open == r.requirenext = "any"
<1>1. u \in Int
  BY Underway
<1>2. /\ r.recvkey \in Nat /\ r.recvseq \in Nat
      /\ s.reply_queue \in Seq(Nat) /\ Len(s.reply_queue) \in Nat
  BY Types
<1>3. Wire(w, ks, u, open, k, q, r.recvkey, r.recvseq)
  OBVIOUS
<1>. HIDE DEF u, open
<1>4. Wire(w \o Waiting(s.reply_queue, k, q), ks, u + Len(s.reply_queue), open,
           k, q + Len(s.reply_queue), r.recvkey, r.recvseq)
  BY <1>1, <1>2, <1>3, WireSendData
<1>5. /\ t \in Sshsession /\ t.wire = Flushed(w, s.reply_queue, k, q)
      /\ t.transseq = q + Len(s.reply_queue)
      /\ t.transkey = k /\ t.sent = s.sent /\ t.reply_queue = <<>>
      /\ t.party = s.party /\ t.kexes = s.kexes /\ t.param = s.param
      /\ t.ignorenext = s.ignorenext /\ t.received = s.received
      /\ t.recvkey = s.recvkey /\ t.recvseq = s.recvseq + 1
  <2>1. t \in Sshsession
    BY KeyedType
  <2>2. /\ t.wire = Flushed(w, s.reply_queue, k, q)
        /\ t.transseq = q + Len(s.reply_queue)
        /\ t.transkey = k /\ t.sent = s.sent /\ t.reply_queue = <<>>
        /\ t.party = s.party /\ t.kexes = s.kexes /\ t.param = s.param
        /\ t.ignorenext = s.ignorenext /\ t.received = s.received
        /\ t.recvkey = s.recvkey /\ t.recvseq = s.recvseq + 1
    <3>. DEFINE v == w \o Waiting(s.reply_queue, k, q)
                z == q + Len(s.reply_queue)
    <3>1. Keyed(s, w, q, k)
          = [s EXCEPT !.recvseq = s.recvseq + 1, !.requirenext = "newkeys",
                !.wire = v, !.transseq = z,
                !.reply_queue = <<>>, !.sentnewkeys = TRUE, !.donefirstkex = TRUE,
                !.dataallowed = TRUE, !.newkey = k, !.transkey = k, !.trans_valid = FALSE,
                !.recv_valid = TRUE, !.kex_state = FALSE]
      BY Zenon DEF Keyed, v, z
    <3>. HIDE DEF v, z
    <3>2. /\ t.wire = v /\ t.transseq = z
          /\ t.transkey = k /\ t.sent = s.sent /\ t.reply_queue = <<>>
          /\ t.party = s.party /\ t.kexes = s.kexes /\ t.param = s.param
          /\ t.ignorenext = s.ignorenext /\ t.received = s.received
          /\ t.recvkey = s.recvkey /\ t.recvseq = s.recvseq + 1
      BY <3>1 DEF Sshsession
    <3>. QED
      BY <3>2, Zenon DEF v, z, Flushed
  <2>. QED
    BY <2>1, <2>2, Zenon
<1>6. t.sent - Len(t.reply_queue) - r.received = u + Len(s.reply_queue)
  <2>1. s.sent \in Nat /\ Len(s.reply_queue) \in Nat /\ r.received \in Nat
    BY Types
  <2>2. t.sent - Len(t.reply_queue) - r.received = s.sent - 0 - r.received
    BY <1>5
  <2>. QED
    BY <2>1, <2>2 DEF u
<1>7. Link(t, r, ks)
  BY <1>4, <1>5, <1>6, Zenon DEF Link, open, Flushed
<1>8. Stage(s, 2) /\ ~s.ignorenext => Stage(t, 3)
  BY StageKeyed
<1>. QED
  BY <1>5, <1>7, <1>8, Zenon

(* The lists of packets of an exchange that occur. *)
LEMMA Messages ==
  /\ Kexinit \in KexMsg /\ Newkeys \in KexMsg
  /\ \A n \in Nat : Init_(n) \in KexMsg /\ Reply(n) \in KexMsg
  /\ <<>> \in Seq(KexMsg)
  /\ \A a \in KexMsg : <<a>> \in Seq(KexMsg)
  /\ \A a \in KexMsg, b \in KexMsg : <<a, b>> \in Seq(KexMsg)
  /\ \A a \in KexMsg, b \in KexMsg, c \in KexMsg : <<a, b, c>> \in Seq(KexMsg)
<1>1. Kexinit \in KexMsg /\ Newkeys \in KexMsg
  BY DEF Kexinit, Newkeys, KexMsg, Type
<1>2. \A n \in Nat : Init_(n) \in KexMsg /\ Reply(n) \in KexMsg
  BY DEF Init_, Reply, KexMsg, Type
<1>. QED
  BY <1>1, <1>2

(* How they grow and shrink. *)
LEMMA AppendTwo ==
  ASSUME NEW a \in KexMsg, NEW b \in KexMsg
  PROVE  Append(<<a>>, b) = <<a, b>>
<1>. DEFINE x == Append(<<a>>, b)
            y == <<a, b>>
<1>1. <<a>> \in Seq(KexMsg) /\ Len(<<a>>) = 1 /\ <<a>>[1] = a
  OBVIOUS
<1>2. x \in Seq(KexMsg) /\ Len(x) = 2 /\ x[1] = a /\ x[2] = b
  BY <1>1
<1>3. y \in Seq(KexMsg) /\ Len(y) = 2 /\ y[1] = a /\ y[2] = b
  OBVIOUS
<1>. HIDE DEF x, y
<1>4. x = y
  BY <1>2, <1>3
<1>. QED
  BY <1>4 DEF x, y

(* A third one. *)
LEMMA AppendThree ==
  ASSUME NEW a \in KexMsg, NEW b \in KexMsg, NEW c \in KexMsg
  PROVE  Append(<<a, b>>, c) = <<a, b, c>>
<1>. DEFINE x == Append(<<a, b>>, c)
            y == <<a, b, c>>
<1>1. <<a, b>> \in Seq(KexMsg) /\ Len(<<a, b>>) = 2 /\ <<a, b>>[1] = a /\ <<a, b>>[2] = b
  OBVIOUS
<1>2. x \in Seq(KexMsg) /\ Len(x) = 3 /\ x[1] = a /\ x[2] = b /\ x[3] = c
  BY <1>1
<1>3. y \in Seq(KexMsg) /\ Len(y) = 3 /\ y[1] = a /\ y[2] = b /\ y[3] = c
  OBVIOUS
<1>. HIDE DEF x, y
<1>4. x = y
  BY <1>2, <1>3
<1>. QED
  BY <1>4 DEF x, y

(* All of them. *)
LEMMA Lists ==
  /\ \A a \in KexMsg : Append(<<>>, a) = <<a>>
  /\ \A a \in KexMsg, b \in KexMsg : Append(<<a>>, b) = <<a, b>>
  /\ \A a \in KexMsg, b \in KexMsg, c \in KexMsg : Append(<<a, b>>, c) = <<a, b, c>>
  /\ \A a \in KexMsg : Head(<<a>>) = a /\ Tail(<<a>>) = <<>>
  /\ \A a \in KexMsg, b \in KexMsg : Head(<<a, b>>) = a /\ Tail(<<a, b>>) = <<b>>
  /\ \A a \in KexMsg, b \in KexMsg, c \in KexMsg :
       Head(<<a, b, c>>) = a /\ Tail(<<a, b, c>>) = <<b, c>>
<1>1. \A a \in KexMsg : Append(<<>>, a) = <<a>>
  OBVIOUS
<1>2. \A a \in KexMsg, b \in KexMsg : Append(<<a>>, b) = <<a, b>>
  BY AppendTwo
<1>3. \A a \in KexMsg, b \in KexMsg, c \in KexMsg : Append(<<a, b>>, c) = <<a, b, c>>
  BY AppendThree
<1>4. \A a \in KexMsg : Head(<<a>>) = a /\ Tail(<<a>>) = <<>>
  OBVIOUS
<1>5. \A a \in KexMsg, b \in KexMsg : Head(<<a, b>>) = a /\ Tail(<<a, b>>) = <<b>>
  OBVIOUS
<1>6. \A a \in KexMsg, b \in KexMsg, c \in KexMsg :
       Head(<<a, b, c>>) = a /\ Tail(<<a, b, c>>) = <<b, c>>
  OBVIOUS
<1>. QED
  BY <1>1, <1>2, <1>3, <1>4, <1>5, <1>6

(* What each of them says. *)
LEMMA Contents ==
  /\ Kexinit[1] = "kexinit" /\ Newkeys[1] = "newkeys"
  /\ \A n : Init_(n)[1] = "kexdh_init" /\ Init_(n)[2] = n
  /\ \A n : Reply(n)[1] = "kexdh_reply" /\ Reply(n)[2] = n
BY DEF Kexinit, Newkeys, Init_, Reply

(* And how they end. *)
LEMMA ListEnds ==
  /\ Ends(<<>>) /\ Ends(<<Newkeys>>)
  /\ \A a \in KexMsg : Ends(<<a, Newkeys>>)
  /\ \A a \in KexMsg, b \in KexMsg : Ends(<<a, b, Newkeys>>)
<1>1. Newkeys \in KexMsg
  BY Messages
<1>. QED
  BY <1>1 DEF Ends

-----------------------------------------------------------------------------
(* What a step of one party, a, does to both. *)

(* The parties may be named in either order. *)
LEMMA Swap ==
  ASSUME NEW a, NEW b, NEW i, NEW j, NEW ka, NEW kb
  PROVE  Both(a, b, i, j, ka, kb) <=> Both(b, a, j, i, kb, ka)
BY DEF Both

(* The packet that a reads. *)
LEMMA ReadsHead ==
  ASSUME NEW a \in Sshsession, NEW b \in Sshsession, NEW kb \in Seq(KexMsg),
         Link(b, a, kb), b.wire # <<>>, NEW m, m = Head(b.wire)
  PROVE  /\ m \in Packet /\ m.key = a.recvkey /\ m.seq = a.recvseq
         /\ m.type = "data" => a.requirenext = "any"
         /\ m.type # "data" => kb # <<>> /\ m.type = Head(kb)[1] /\ m.n = Head(kb)[2]
<1>. DEFINE u == b.sent - Len(b.reply_queue) - a.received
            open == a.requirenext = "any"
<1>1. Wire(b.wire, kb, u, open, b.transkey, b.transseq, a.recvkey, a.recvseq)
  BY DEF Link
<1>2. u \in Int
  BY Underway
<1>. HIDE DEF u, open
<1>3. /\ b.wire \in Seq(Packet) /\ b.transkey \in Nat /\ b.transseq \in Nat
      /\ a.recvkey \in Nat /\ a.recvseq \in Nat
  BY Types
<1>4. /\ m \in Packet /\ m.key = a.recvkey /\ m.seq = a.recvseq
      /\ m.type # "data" => kb # <<>> /\ m.type = Head(kb)[1] /\ m.n = Head(kb)[2]
  BY <1>1, <1>2, <1>3, WireHead
<1>5. ASSUME m.type = "data" PROVE open
  <2>1. Quiet(b.wire, open)
    BY <1>1 DEF Wire
  <2>2. Len(b.wire) \in Nat /\ Len(b.wire) >= 1 /\ b.wire[1] = Head(b.wire)
    BY <1>3, TailPacket
  <2>3. 1 \in 1 .. Len(b.wire) /\ b.wire[1].type = "data"
    BY <1>5, <2>2
  <2>. QED
    BY <2>1, <2>3 DEF Quiet
<1>. QED
  BY <1>4, <1>5 DEF open

(* Its peer has one packet less on its wire. *)
LEMMA PeerStays ==
  ASSUME NEW b \in Sshsession, b.wire # <<>>, NEW j \in {0, 1, 2, 3}, Stage(b, j)
  PROVE  /\ Stage(Peeled(b), j) /\ InSame(b, Peeled(b)) /\ Peeled(b) \in Sshsession
         /\ Peeled(b).party = b.party /\ Peeled(b).kexes = b.kexes
         /\ Peeled(b).param = b.param /\ Peeled(b).transkey = b.transkey
         /\ Peeled(b).ignorenext = b.ignorenext /\ Peeled(b).donefirstkex = b.donefirstkex
<1>. DEFINE t == Peeled(b)
<1>1. /\ t.received = b.received /\ t.requirenext = b.requirenext
      /\ t.recvkey = b.recvkey /\ t.recvseq = b.recvseq
      /\ t \in Sshsession /\ t.party = b.party /\ t.kexes = b.kexes
      /\ t.param = b.param /\ t.transkey = b.transkey
      /\ t.ignorenext = b.ignorenext /\ t.donefirstkex = b.donefirstkex
  BY PeeledFields
<1>2. Stage(t, j)
  BY StagePeeled
<1>. HIDE DEF t
<1>3. InSame(b, t)
  BY <1>1 DEF InSame
<1>. QED
  BY <1>1, <1>2, <1>3, Zenon DEF t

(* What t, the state of a after a step, has kept. *)
Now(t, a, kexes, param, transkey) ==
  /\ t \in Sshsession /\ t.party = a.party
  /\ t.kexes = kexes /\ t.param = param /\ t.transkey = transkey

Same(t, a) ==
  /\ Now(t, a, a.kexes, a.param, a.transkey)
  /\ t.ignorenext = a.ignorenext /\ t.donefirstkex = a.donefirstkex

(* a opens an exchange. *)
LEMMA ServerOpensOne ==
  ASSUME NEW a \in Sshsession, NEW b \in Sshsession, a.party = "server", a.kexes < MaxKex,
         NEW j \in {0, 1, 2, 3}, NEW ka \in Seq(KexMsg), NEW kb \in Seq(KexMsg),
         Both(a, b, 0, j, ka, kb), NEW t, t = send_msg_kexinit(a)
  PROVE  /\ Both(t, b, 1, j, Append(ka, Kexinit), kb)
         /\ Now(t, a, a.kexes + 1, a.param, a.transkey) /\ t.donefirstkex
<1>. DEFINE w == Append(a.wire, Sealed("kexinit", 0, a.transkey, a.transseq))
            q == a.transseq + 1
<1>1. Stage(a, 0) /\ Stage(b, j) /\ Link(a, b, ka) /\ Link(b, a, kb)
  BY DEF Both
<1>2. a.dataallowed /\ a.donefirstkex
  BY <1>1 DEF Stage
<1>3. t = KexinitSent(a, w, q, a.param)
  BY <1>2, ServerSendsKexinit
<1>4. w \in Seq(Packet) /\ q \in Nat /\ a.param \in Nat
  BY Types, SealedPacket DEF Type
<1>. HIDE DEF w, q
<1>5. Stage(t, 1)
  BY <1>1, <1>3, <1>4, StageKexinitSent
<1>6. /\ t \in Sshsession /\ t.party = a.party /\ t.kexes = a.kexes + 1 /\ t.param = a.param
      /\ t.transkey = a.transkey /\ t.donefirstkex = a.donefirstkex
      /\ t.wire = w /\ t.transseq = q /\ t.sent = a.sent /\ t.reply_queue = a.reply_queue
      /\ t.received = a.received /\ t.requirenext = a.requirenext
      /\ t.recvkey = a.recvkey /\ t.recvseq = a.recvseq /\ t.ignorenext = a.ignorenext
  BY <1>3, <1>4, KexinitSentFields
<1>7. Link(t, b, Append(ka, Kexinit))
  <2>1. "kexinit" \in Type \ {"data", "newkeys"}
    BY DEF Type
  <2>2. /\ t.wire = Append(a.wire, Sealed("kexinit", 0, a.transkey, a.transseq))
        /\ t.transseq = a.transseq + 1
    BY <1>6 DEF w, q
  <2>. QED
    BY <1>1, <1>6, <2>1, <2>2, LinkSendKex DEF Kexinit
<1>8. Link(b, t, kb)
  <2>1. OutSame(b, b) /\ InSame(a, t)
    BY <1>6 DEF OutSame, InSame
  <2>. QED
    BY <1>1, <2>1, LinkSame
<1>9. /\ Both(t, b, 1, j, Append(ka, Kexinit), kb) /\ t \in Sshsession
      /\ t.party = a.party /\ t.kexes = a.kexes + 1 /\ t.param = a.param
      /\ t.transkey = a.transkey /\ t.donefirstkex
      /\ t.ignorenext = a.ignorenext
  BY <1>1, <1>2, <1>5, <1>6, <1>7, <1>8 DEF Both
<1>. QED
  BY <1>9, Zenon DEF Now

(* The client sends its guess along. *)
LEMMA ClientOpensOne ==
  ASSUME NEW a \in Sshsession, NEW b \in Sshsession, a.party = "client", a.kexes < MaxKex,
         NEW j \in {0, 1, 2, 3}, NEW ka \in Seq(KexMsg), NEW kb \in Seq(KexMsg),
         Both(a, b, 0, j, ka, kb), NEW t, t = send_msg_kexinit(a)
  PROVE  /\ Both(t, b, 1, j, Append(Append(ka, Kexinit), Init_(t.param)), kb)
         /\ Now(t, a, a.kexes + 1, a.param + 1, a.transkey) /\ t.donefirstkex
<1>. DEFINE w == Append(Append(a.wire, Sealed("kexinit", 0, a.transkey, a.transseq)),
                        Sealed("kexdh_init", a.param + 1, a.transkey, a.transseq + 1))
            q == a.transseq + 1 + 1
            p == a.param + 1
<1>1. Stage(a, 0) /\ Stage(b, j) /\ Link(a, b, ka) /\ Link(b, a, kb)
  BY DEF Both
<1>2. a.dataallowed /\ a.donefirstkex
  BY <1>1 DEF Stage
<1>3. t = KexinitSent(a, w, q, p)
  BY <1>2, ClientSendsKexinit
<1>4. w \in Seq(Packet) /\ q \in Nat /\ p \in Nat
  <2>1. Append(a.wire, Sealed("kexinit", 0, a.transkey, a.transseq)) \in Seq(Packet)
    BY Types, SealedPacket DEF Type
  <2>2. Sealed("kexdh_init", a.param + 1, a.transkey, a.transseq + 1) \in Packet
    BY Types, SealedPacket, SMTT(30) DEF Type
  <2>. QED
    BY <2>1, <2>2, Types
<1>. HIDE DEF w, q, p
<1>5. Stage(t, 1)
  BY <1>1, <1>3, <1>4, StageKexinitSent
<1>6. /\ t \in Sshsession /\ t.party = a.party /\ t.kexes = a.kexes + 1 /\ t.param = p
      /\ t.transkey = a.transkey /\ t.donefirstkex = a.donefirstkex
      /\ t.wire = w /\ t.transseq = q /\ t.sent = a.sent /\ t.reply_queue = a.reply_queue
      /\ t.received = a.received /\ t.requirenext = a.requirenext
      /\ t.recvkey = a.recvkey /\ t.recvseq = a.recvseq /\ t.ignorenext = a.ignorenext
  BY <1>3, <1>4, KexinitSentFields
<1>7. Link(t, b, Append(Append(ka, Kexinit), Init_(p)))
  <2>1. /\ t.wire = Append(Append(a.wire, Sealed("kexinit", 0, a.transkey, a.transseq)),
                           Sealed("kexdh_init", p, a.transkey, a.transseq + 1))
        /\ t.transseq = a.transseq + 1 + 1
    BY <1>6 DEF w, q, p
  <2>. QED
    BY <1>1, <1>4, <1>6, <2>1, LinkSendTwo
<1>8. Link(b, t, kb)
  <2>1. OutSame(b, b) /\ InSame(a, t)
    BY <1>6 DEF OutSame, InSame
  <2>. QED
    BY <1>1, <2>1, LinkSame
<1>9. Both(t, b, 1, j, Append(Append(ka, Kexinit), Init_(p)), kb)
  BY <1>1, <1>5, <1>7, <1>8 DEF Both
<1>10. /\ Both(t, b, 1, j, Append(Append(ka, Kexinit), Init_(t.param)), kb)
       /\ t \in Sshsession
       /\ t.party = a.party /\ t.kexes = a.kexes + 1 /\ t.param = a.param + 1
       /\ t.transkey = a.transkey /\ t.donefirstkex
       /\ t.ignorenext = a.ignorenext
  BY <1>2, <1>6, <1>9, Zenon DEF p
<1>. QED
  BY <1>10, Zenon DEF Now

(* The server reads the client's KEXINIT. *)
LEMMA ServerAgreesOne ==
  ASSUME NEW a \in Sshsession, NEW b \in Sshsession, a.party = "server",
         strict \in BOOLEAN, Good(a) \in BOOLEAN,
         NEW j \in {0, 1, 2, 3}, NEW ka \in Seq(KexMsg), NEW kb \in Seq(KexMsg),
         Both(a, b, 1, j, ka, kb), b.wire # <<>>, Head(b.wire).type = "kexinit",
         NEW t, t = Reads(a, Head(b.wire))
  PROVE  /\ Both(t, Peeled(b), 2, j, ka, Tail(kb))
         /\ Now(t, a, a.kexes, a.param, a.transkey) /\ (t.ignorenext <=> ~Good(a))
<1>1. Stage(a, 1) /\ Stage(b, j) /\ Link(a, b, ka) /\ Link(b, a, kb)
  BY DEF Both
<1>2. Head(b.wire) \in Packet /\ Head(b.wire).key = a.recvkey /\ Head(b.wire).seq = a.recvseq
  BY <1>1, ReadsHead
<1>3. /\ Agreed(a, t) /\ (t.ignorenext <=> ~Good(a)) /\ t.param = a.param
      /\ t.wire = a.wire
      /\ t.transseq = a.transseq
  BY <1>1, <1>2, ServerReadsKexinit DEF Good
<1>4. Stage(t, 2) /\ t \in Sshsession /\ t.party = a.party /\ t.kexes = a.kexes
  BY <1>3 DEF Agreed
<1>5. /\ t.recvseq = a.recvseq + 1 /\ t.recvkey = a.recvkey /\ t.received = a.received
      /\ t.transkey = a.transkey /\ t.sent = a.sent /\ t.reply_queue = a.reply_queue
  BY <1>3 DEF Agreed
<1>6. Stage(Peeled(b), j) /\ InSame(b, Peeled(b))
  BY <1>1, PeerStays
<1>7. Link(Peeled(b), t, Tail(kb))
  BY <1>1, <1>5, LinkReadKex
<1>8. Link(t, Peeled(b), ka)
  <2>1. OutSame(a, t)
    BY <1>3, <1>5 DEF OutSame
  <2>. QED
    BY <1>1, <1>6, <2>1, LinkSame
<1>9. /\ Both(t, Peeled(b), 2, j, ka, Tail(kb)) /\ t \in Sshsession
      /\ t.party = a.party /\ t.kexes = a.kexes /\ t.param = a.param
      /\ t.transkey = a.transkey /\ (t.ignorenext <=> ~Good(a))
  BY <1>3, <1>4, <1>5, <1>6, <1>7, <1>8 DEF Both
<1>. QED
  BY <1>9, Zenon DEF Now

(* The client reads the server's: its guess was good ... *)
LEMMA ClientAgreesGood ==
  ASSUME NEW a \in Sshsession, NEW b \in Sshsession, a.party = "client",
         strict \in BOOLEAN, Good(a) \in BOOLEAN, Good(a),
         NEW j \in {0, 1, 2, 3}, NEW ka \in Seq(KexMsg), NEW kb \in Seq(KexMsg),
         Both(a, b, 1, j, ka, kb), b.wire # <<>>, Head(b.wire).type = "kexinit",
         NEW t, t = Reads(a, Head(b.wire))
  PROVE  /\ Both(t, Peeled(b), 2, j, ka, Tail(kb))
         /\ Now(t, a, a.kexes, a.param, a.transkey) /\ ~t.ignorenext
<1>1. Stage(a, 1) /\ Stage(b, j) /\ Link(a, b, ka) /\ Link(b, a, kb)
  BY DEF Both
<1>2. Head(b.wire) \in Packet /\ Head(b.wire).key = a.recvkey /\ Head(b.wire).seq = a.recvseq
  BY <1>1, ReadsHead
<1>3. /\ Agreed(a, t) /\ ~t.ignorenext /\ t.param = a.param
      /\ t.wire = a.wire
      /\ t.transseq = a.transseq
  BY <1>1, <1>2, ClientReadsGood, ZenonT(30) DEF Good
<1>4. Stage(t, 2) /\ t \in Sshsession /\ t.party = a.party /\ t.kexes = a.kexes
  BY <1>3 DEF Agreed
<1>5. /\ t.recvseq = a.recvseq + 1 /\ t.recvkey = a.recvkey /\ t.received = a.received
      /\ t.transkey = a.transkey /\ t.sent = a.sent /\ t.reply_queue = a.reply_queue
  BY <1>3 DEF Agreed
<1>6. Stage(Peeled(b), j) /\ InSame(b, Peeled(b))
  BY <1>1, PeerStays
<1>7. Link(Peeled(b), t, Tail(kb))
  BY <1>1, <1>5, LinkReadKex
<1>8. Link(t, Peeled(b), ka)
  <2>1. OutSame(a, t)
    BY <1>3, <1>5 DEF OutSame
  <2>. QED
    BY <1>1, <1>6, <2>1, LinkSame
<1>9. /\ Both(t, Peeled(b), 2, j, ka, Tail(kb)) /\ t \in Sshsession
      /\ t.party = a.party /\ t.kexes = a.kexes /\ t.param = a.param
      /\ t.transkey = a.transkey /\ ~t.ignorenext
  BY <1>3, <1>4, <1>5, <1>6, <1>7, <1>8 DEF Both
<1>. QED
  BY <1>9, Zenon DEF Now

(* ... or bad. *)
LEMMA ClientAgreesBad ==
  ASSUME NEW a \in Sshsession, NEW b \in Sshsession, a.party = "client",
         strict \in BOOLEAN, Good(a) \in BOOLEAN, ~Good(a),
         NEW j \in {0, 1, 2, 3}, NEW ka \in Seq(KexMsg), NEW kb \in Seq(KexMsg),
         Both(a, b, 1, j, ka, kb), b.wire # <<>>, Head(b.wire).type = "kexinit",
         NEW t, t = Reads(a, Head(b.wire))
  PROVE  /\ Both(t, Peeled(b), 2, j, Append(ka, Init_(t.param)), Tail(kb))
         /\ Now(t, a, a.kexes, a.param + 1, a.transkey) /\ ~t.ignorenext
<1>1. Stage(a, 1) /\ Stage(b, j) /\ Link(a, b, ka) /\ Link(b, a, kb)
  BY DEF Both
<1>2. Head(b.wire) \in Packet /\ Head(b.wire).key = a.recvkey /\ Head(b.wire).seq = a.recvseq
  BY <1>1, ReadsHead
<1>3. /\ Agreed(a, t) /\ ~t.ignorenext /\ t.param = a.param + 1
      /\ t.wire = Append(a.wire, Sealed("kexdh_init", a.param + 1, a.transkey, a.transseq))
      /\ t.transseq = a.transseq + 1
  BY <1>1, <1>2, ClientReadsBad DEF Good
<1>4. Stage(t, 2) /\ t \in Sshsession /\ t.party = a.party /\ t.kexes = a.kexes
  BY <1>3 DEF Agreed
<1>5. /\ t.recvseq = a.recvseq + 1 /\ t.recvkey = a.recvkey /\ t.received = a.received
      /\ t.transkey = a.transkey /\ t.sent = a.sent /\ t.reply_queue = a.reply_queue
  BY <1>3 DEF Agreed
<1>6. Stage(Peeled(b), j) /\ InSame(b, Peeled(b))
  BY <1>1, PeerStays
<1>7. Link(Peeled(b), t, Tail(kb))
  BY <1>1, <1>5, LinkReadKex
<1>8. Link(t, Peeled(b), Append(ka, Init_(a.param + 1)))
  <2>1. a.param + 1 \in Nat /\ "kexdh_init" \in Type \ {"data", "newkeys"}
    BY Types DEF Type
  <2>2. Link(t, b, Append(ka, Init_(a.param + 1)))
    BY <1>1, <1>3, <1>5, <2>1, LinkSendKex DEF Init_
  <2>3. OutSame(t, t)
    BY DEF OutSame
  <2>. QED
    BY <1>6, <2>2, <2>3, LinkSame
<1>9. Both(t, Peeled(b), 2, j, Append(ka, Init_(a.param + 1)), Tail(kb))
  BY <1>4, <1>6, <1>7, <1>8 DEF Both
<1>10. /\ Both(t, Peeled(b), 2, j, Append(ka, Init_(t.param)), Tail(kb)) /\ t \in Sshsession
       /\ t.party = a.party /\ t.kexes = a.kexes /\ t.param = a.param + 1
       /\ t.transkey = a.transkey /\ ~t.ignorenext
  BY <1>3, <1>4, <1>5, <1>9, Zenon
<1>. QED
  BY <1>10, Zenon DEF Now

(* The server passes over a bad guess. *)
LEMMA ServerIgnoresOne ==
  ASSUME NEW a \in Sshsession, NEW b \in Sshsession, a.party = "server", a.ignorenext,
         NEW j \in {0, 1, 2, 3}, NEW ka \in Seq(KexMsg), NEW kb \in Seq(KexMsg),
         Both(a, b, 2, j, ka, kb), b.wire # <<>>, Head(b.wire).type = "kexdh_init",
         NEW t, t = Reads(a, Head(b.wire))
  PROVE  /\ Both(t, Peeled(b), 2, j, ka, Tail(kb))
         /\ Now(t, a, a.kexes, a.param, a.transkey) /\ ~t.ignorenext
<1>1. Stage(a, 2) /\ Stage(b, j) /\ Link(a, b, ka) /\ Link(b, a, kb)
  BY DEF Both
<1>2. Head(b.wire) \in Packet /\ Head(b.wire).key = a.recvkey /\ Head(b.wire).seq = a.recvseq
  BY <1>1, ReadsHead
<1>3. t = Ignored(a)
  BY <1>1, <1>2, ServerIgnores
<1>4. Stage(t, 2)
  BY <1>1, <1>3, StageIgnored
<1>5. /\ t.recvseq = a.recvseq + 1 /\ t.recvkey = a.recvkey /\ t.received = a.received
      /\ t.transkey = a.transkey /\ t.sent = a.sent /\ t.reply_queue = a.reply_queue
      /\ t.wire = a.wire /\ t.transseq = a.transseq /\ ~t.ignorenext
      /\ t.party = a.party /\ t.kexes = a.kexes /\ t.param = a.param /\ t \in Sshsession
  BY <1>3, IgnoredFields
<1>6. Stage(Peeled(b), j) /\ InSame(b, Peeled(b))
  BY <1>1, PeerStays
<1>7. Link(Peeled(b), t, Tail(kb))
  BY <1>1, <1>5, LinkReadKex
<1>8. Link(t, Peeled(b), ka)
  <2>1. OutSame(a, t)
    BY <1>5 DEF OutSame
  <2>. QED
    BY <1>1, <1>6, <2>1, LinkSame
<1>9. /\ Both(t, Peeled(b), 2, j, ka, Tail(kb)) /\ t \in Sshsession
      /\ t.party = a.party /\ t.kexes = a.kexes /\ t.param = a.param
      /\ t.transkey = a.transkey /\ ~t.ignorenext
  BY <1>4, <1>5, <1>6, <1>7, <1>8 DEF Both
<1>. QED
  BY <1>9, Zenon DEF Now

(* The server takes the client's value e. *)
LEMMA ServerKeysOne ==
  ASSUME NEW a \in Sshsession, NEW b \in Sshsession, a.party = "server", ~a.ignorenext,
         NEW j \in {0, 1, 2, 3}, NEW ka \in Seq(KexMsg), NEW kb \in Seq(KexMsg),
         \A x \in 1 .. Len(ka) : ka[x][1] # "newkeys", NEW e \in Nat,
         Both(a, b, 2, j, ka, kb), b.wire # <<>>, Head(b.wire).type = "kexdh_init",
         Head(b.wire).n = e, NEW t, t = Reads(a, Head(b.wire))
  PROVE  /\ Both(t, Peeled(b), 3, j, Append(Append(ka, Reply(e)), Newkeys), Tail(kb))
         /\ Now(t, a, a.kexes, a.param, e)
<1>. DEFINE w == Append(a.wire, Sealed("kexdh_reply", e, a.transkey, a.transseq))
            v == Append(w, Sealed("newkeys", 0, a.transkey, a.transseq + 1))
            q == IF strict THEN 0 ELSE a.transseq + 1 + 1
            la == Append(ka, Reply(e))
            ma == Append(la, Newkeys)
            u == a.sent - Len(a.reply_queue) - b.received
            open == b.requirenext = "any"
<1>1. Stage(a, 2) /\ Stage(b, j) /\ Link(a, b, ka) /\ Link(b, a, kb)
  BY DEF Both
<1>2. Head(b.wire) \in Packet /\ Head(b.wire).key = a.recvkey /\ Head(b.wire).seq = a.recvseq
  BY <1>1, ReadsHead
<1>3. t = Keyed(a, v, q, e)
  BY <1>1, <1>2, ReadsDh
<1>4. /\ a.wire \in Seq(Packet) /\ a.transkey \in Nat /\ a.transseq \in Nat
      /\ a.transseq + 1 \in Nat /\ q \in Nat
      /\ b.recvkey \in Nat /\ b.recvseq \in Nat
      /\ "kexdh_reply" \in Type \ {"data", "newkeys"}
  <2>1. /\ a.wire \in Seq(Packet) /\ a.transkey \in Nat /\ a.transseq \in Nat
        /\ b.recvkey \in Nat /\ b.recvseq \in Nat
    BY Types
  <2>2. "kexdh_reply" \in Type \ {"data", "newkeys"}
    BY DEF Type
  <2>3. a.transseq + 1 \in Nat /\ q \in Nat
    BY <2>1
  <2>. QED
    BY <2>1, <2>2, <2>3, Zenon
<1>5. Wire(a.wire, ka, u, open, a.transkey, a.transseq, b.recvkey, b.recvseq) /\ u \in Int
  BY <1>1, Underway DEF Link
<1>. HIDE DEF u, open
<1>6. /\ Wire(w, la, u, open, a.transkey, a.transseq + 1, b.recvkey, b.recvseq)
      /\ w \in Seq(Packet)
  BY <1>4, <1>5, WireSendKex DEF Reply
<1>7. la \in Seq(KexMsg) /\ \A x \in 1 .. Len(la) : la[x][1] # "newkeys"
  <2>1. Reply(e) \in KexMsg /\ Reply(e)[1] # "newkeys"
    BY Messages, Contents
  <2>2. /\ Len(la) = Len(ka) + 1 /\ Len(ka) \in Nat /\ la[Len(ka) + 1] = Reply(e)
        /\ \A x \in 1 .. Len(ka) : la[x] = ka[x]
        /\ la \in Seq(KexMsg)
    BY <2>1
  <2>. HIDE DEF la
  <2>. QED
    BY <2>1, <2>2
<1>. HIDE DEF w, la
<1>8. Wire(v, ma, u, open, e, q, b.recvkey, b.recvseq) /\ v \in Seq(Packet)
  BY <1>4, <1>5, <1>6, <1>7, WireSendNew
<1>9. ma \in Seq(KexMsg) /\ Ends(ma) /\ ma # <<>>
  BY <1>7, AppendNewkeys
<1>. HIDE DEF v, q, ma
<1>10. /\ Link(t, b, ma) /\ t \in Sshsession
       /\ Stage(a, 2) /\ ~a.ignorenext => Stage(t, 3)
       /\ t.party = a.party /\ t.kexes = a.kexes /\ t.param = a.param /\ t.transkey = e
       /\ t.ignorenext = a.ignorenext /\ t.received = a.received
       /\ t.recvkey = a.recvkey /\ t.recvseq = a.recvseq + 1
  <2>1. Wire(v, ma, a.sent - Len(a.reply_queue) - b.received, b.requirenext = "any",
             e, q, b.recvkey, b.recvseq)
    BY <1>8, Zenon DEF u, open
  <2>2. v \in Seq(Packet) /\ q \in Nat
    BY <1>4, <1>8
  <2>. HIDE DEF w, la
  <2>. QED
    BY <1>3, <1>9, <2>1, <2>2, LinkKeyed, SMTT(60)
<1>11. Stage(Peeled(b), j) /\ InSame(b, Peeled(b))
  BY <1>1, PeerStays
<1>12. Link(Peeled(b), t, Tail(kb))
  BY <1>1, <1>10, LinkReadKex
<1>13. Link(t, Peeled(b), ma)
  <2>1. OutSame(t, t)
    BY DEF OutSame
  <2>. QED
    BY <1>10, <1>11, <2>1, LinkSame
<1>14. Both(t, Peeled(b), 3, j, ma, Tail(kb))
  BY <1>1, <1>10, <1>11, <1>12, <1>13 DEF Both
<1>15. /\ Both(t, Peeled(b), 3, j, Append(Append(ka, Reply(e)), Newkeys), Tail(kb))
       /\ t \in Sshsession
       /\ t.party = a.party /\ t.kexes = a.kexes /\ t.param = a.param
       /\ t.transkey = e /\ t.ignorenext = a.ignorenext
  BY <1>10, <1>14, Zenon DEF la, ma
<1>. QED
  BY <1>15, Zenon DEF Now

(* The client reads the reply to its last value. *)
LEMMA ClientKeysOne ==
  ASSUME NEW a \in Sshsession, NEW b \in Sshsession, a.party = "client",
         NEW j \in {0, 1, 2, 3}, NEW ka \in Seq(KexMsg), NEW kb \in Seq(KexMsg),
         \A x \in 1 .. Len(ka) : ka[x][1] # "newkeys",
         Both(a, b, 2, j, ka, kb), b.wire # <<>>, Head(b.wire).type = "kexdh_reply",
         Head(b.wire).n = a.param, NEW t, t = Reads(a, Head(b.wire))
  PROVE  /\ Both(t, Peeled(b), 3, j, Append(ka, Newkeys), Tail(kb))
         /\ Now(t, a, a.kexes, a.param, a.param)
<1>. DEFINE v == Append(a.wire, Sealed("newkeys", 0, a.transkey, a.transseq))
            q == IF strict THEN 0 ELSE a.transseq + 1
            ma == Append(ka, Newkeys)
            u == a.sent - Len(a.reply_queue) - b.received
            open == b.requirenext = "any"
<1>1. Stage(a, 2) /\ Stage(b, j) /\ Link(a, b, ka) /\ Link(b, a, kb)
  BY DEF Both
<1>2. Head(b.wire) \in Packet /\ Head(b.wire).key = a.recvkey /\ Head(b.wire).seq = a.recvseq
  BY <1>1, ReadsHead
<1>3. t = Keyed(a, v, q, a.param)
  BY <1>1, <1>2, ReadsReply
<1>4. /\ a.wire \in Seq(Packet) /\ a.transkey \in Nat /\ a.transseq \in Nat
      /\ q \in Nat /\ a.param \in Nat
      /\ b.recvkey \in Nat /\ b.recvseq \in Nat
  BY Types DEF Type
<1>5. Wire(a.wire, ka, u, open, a.transkey, a.transseq, b.recvkey, b.recvseq) /\ u \in Int
  BY <1>1, Underway DEF Link
<1>. HIDE DEF u, open
<1>6. Wire(v, ma, u, open, a.param, q, b.recvkey, b.recvseq) /\ v \in Seq(Packet)
  BY <1>4, <1>5, WireSendNew
<1>7. ma \in Seq(KexMsg) /\ Ends(ma) /\ ma # <<>> /\ ~a.ignorenext
  BY <1>1, AppendNewkeys DEF Stage
<1>. HIDE DEF v, q, ma
<1>8. /\ Link(t, b, ma) /\ t \in Sshsession
      /\ Stage(a, 2) /\ ~a.ignorenext => Stage(t, 3)
      /\ t.party = a.party /\ t.kexes = a.kexes /\ t.param = a.param /\ t.transkey = a.param
      /\ t.ignorenext = a.ignorenext /\ t.received = a.received
      /\ t.recvkey = a.recvkey /\ t.recvseq = a.recvseq + 1
  BY <1>3, <1>4, <1>6, <1>7, LinkKeyed, SMTT(30) DEF u, open
<1>9. Stage(Peeled(b), j) /\ InSame(b, Peeled(b))
  BY <1>1, PeerStays
<1>10. Link(Peeled(b), t, Tail(kb))
  BY <1>1, <1>8, LinkReadKex
<1>11. Link(t, Peeled(b), ma)
  <2>1. OutSame(t, t)
    BY DEF OutSame
  <2>. QED
    BY <1>8, <1>9, <2>1, LinkSame
<1>12. Both(t, Peeled(b), 3, j, ma, Tail(kb))
  BY <1>1, <1>7, <1>8, <1>9, <1>10, <1>11 DEF Both
<1>13. /\ Both(t, Peeled(b), 3, j, Append(ka, Newkeys), Tail(kb))
       /\ t \in Sshsession
       /\ t.party = a.party /\ t.kexes = a.kexes /\ t.param = a.param
       /\ t.transkey = a.param /\ t.ignorenext = a.ignorenext
  BY <1>8, <1>12, Zenon DEF ma
<1>. QED
  BY <1>13, Zenon DEF Now

(* Either reads the NEWKEYS of the other. *)
LEMMA FinishesOne ==
  ASSUME NEW a \in Sshsession, NEW b \in Sshsession, a.transkey = b.transkey,
         NEW j \in {0, 1, 2, 3}, NEW ka \in Seq(KexMsg), NEW kb \in Seq(KexMsg),
         Both(a, b, 3, j, ka, kb), b.wire # <<>>, Head(b.wire).type = "newkeys",
         NEW t, t = Reads(a, Head(b.wire))
  PROVE  /\ Both(t, Peeled(b), 0, j, ka, Tail(kb))
         /\ Now(t, a, a.kexes, a.param, a.transkey)
<1>. DEFINE x == IF strict THEN 0 ELSE a.recvseq + 1
<1>1. Stage(a, 3) /\ Stage(b, j) /\ Link(a, b, ka) /\ Link(b, a, kb)
  BY DEF Both
<1>2. Head(b.wire) \in Packet /\ Head(b.wire).key = a.recvkey /\ Head(b.wire).seq = a.recvseq
  BY <1>1, ReadsHead
<1>3. t = NewkeysRead(a, x)
  BY <1>1, <1>2, PartyReadsNewkeys
<1>4. x \in Nat
  BY Types
<1>. HIDE DEF x
<1>5. Stage(t, 0)
  BY <1>1, <1>3, <1>4, StageNewkeysRead
<1>6. /\ t.recvseq = x /\ t.recvkey = a.newkey /\ t.received = a.received
      /\ t.requirenext = "any"
      /\ t.transkey = a.transkey /\ t.sent = a.sent /\ t.reply_queue = a.reply_queue
      /\ t.wire = a.wire /\ t.transseq = a.transseq /\ t.ignorenext = a.ignorenext
      /\ t.party = a.party /\ t.kexes = a.kexes /\ t.param = a.param /\ t \in Sshsession
  <2>1. t \in Sshsession
    BY <1>3, <1>4, NewkeysReadFields
  <2>2. /\ t.recvseq = x /\ t.recvkey = a.newkey /\ t.received = a.received
        /\ t.requirenext = "any"
        /\ t.transkey = a.transkey /\ t.sent = a.sent /\ t.reply_queue = a.reply_queue
        /\ t.wire = a.wire /\ t.transseq = a.transseq /\ t.ignorenext = a.ignorenext
        /\ t.party = a.party /\ t.kexes = a.kexes /\ t.param = a.param
    BY <1>3 DEF NewkeysRead, Sshsession
  <2>. QED
    BY <2>1, <2>2, Zenon
<1>7. t.recvkey = b.transkey
  BY <1>1, <1>6 DEF Stage
<1>8. Stage(Peeled(b), j) /\ InSame(b, Peeled(b))
  BY <1>1, PeerStays
<1>9. Link(Peeled(b), t, Tail(kb))
  <2>1. t.recvseq = IF strict THEN 0 ELSE a.recvseq + 1
    BY <1>6 DEF x
  <2>. QED
    BY <1>1, <1>6, <1>7, <2>1, LinkReadNew
<1>10. Link(t, Peeled(b), ka)
  <2>1. OutSame(a, t)
    BY <1>6 DEF OutSame
  <2>. QED
    BY <1>1, <1>8, <2>1, LinkSame
<1>11. /\ Both(t, Peeled(b), 0, j, ka, Tail(kb))
       /\ t \in Sshsession
       /\ t.party = a.party /\ t.kexes = a.kexes /\ t.param = a.param
       /\ t.transkey = a.transkey /\ t.ignorenext = a.ignorenext
  BY <1>5, <1>6, <1>8, <1>9, <1>10 DEF Both
<1>. QED
  BY <1>11, Zenon DEF Now

(* Either reads a packet of the layers above. *)
LEMMA ReadsDataOne ==
  ASSUME NEW a \in Sshsession, NEW b \in Sshsession,
         NEW i \in {0, 1, 2, 3}, NEW j \in {0, 1, 2, 3},
         NEW ka \in Seq(KexMsg), NEW kb \in Seq(KexMsg), Len(kb) <= 3,
         Both(a, b, i, j, ka, kb), b.wire # <<>>, Head(b.wire).type = "data",
         NEW t, t = Reads(a, Head(b.wire))
  PROVE  /\ Both(t, Peeled(b), i, j, ka, kb)
         /\ Same(t, a)
<1>1. Stage(a, i) /\ Stage(b, j) /\ Link(a, b, ka) /\ Link(b, a, kb)
  BY DEF Both
<1>2. Head(b.wire) \in Packet /\ Head(b.wire).key = a.recvkey /\ Head(b.wire).seq = a.recvseq
  BY <1>1, ReadsHead
<1>3. a.requirenext = "any" /\ a.received + 1 \in 0 .. MaxData
  BY <1>1, LinkReadData
<1>4. i \in {0, 1}
  BY <1>1, <1>3 DEF Stage, Required
<1>5. t = DataRead(a)
  BY <1>1, <1>2, <1>3, <1>4, PartyReadsData
<1>6. Stage(t, i)
  BY <1>1, <1>3, <1>5, StageDataRead
<1>7. /\ t.recvseq = a.recvseq + 1 /\ t.recvkey = a.recvkey /\ t.received = a.received + 1
      /\ t.requirenext = a.requirenext
      /\ t.transkey = a.transkey /\ t.sent = a.sent /\ t.reply_queue = a.reply_queue
      /\ t.wire = a.wire /\ t.transseq = a.transseq /\ t.ignorenext = a.ignorenext
      /\ t.donefirstkex = a.donefirstkex
      /\ t.party = a.party /\ t.kexes = a.kexes /\ t.param = a.param /\ t \in Sshsession
  BY <1>3, <1>5, DataReadFields
<1>8. Stage(Peeled(b), j) /\ InSame(b, Peeled(b))
  BY <1>1, PeerStays
<1>9. Link(Peeled(b), t, kb)
  BY <1>1, <1>7, LinkReadData
<1>10. Link(t, Peeled(b), ka)
  <2>1. OutSame(a, t)
    BY <1>7 DEF OutSame
  <2>. QED
    BY <1>1, <1>8, <2>1, LinkSame
<1>11. /\ Both(t, Peeled(b), i, j, ka, kb) /\ t \in Sshsession
       /\ t.party = a.party /\ t.kexes = a.kexes /\ t.param = a.param
       /\ t.transkey = a.transkey /\ t.ignorenext = a.ignorenext
       /\ t.donefirstkex = a.donefirstkex
  BY <1>6, <1>7, <1>8, <1>9, <1>10 DEF Both
<1>. QED
  BY <1>11, Zenon DEF Now, Same

(* A single packet of the layers above is sent. *)
LEMMA AppendOne ==
  ASSUME NEW w \in Seq(Packet), NEW n \in Nat, NEW k \in Nat, NEW q \in Nat
  PROVE  Append(w, Sealed("data", n, k, q)) = w \o Waiting(<<n>>, k, q)
<1>. DEFINE m == Sealed("data", n, k, q)
            d == Waiting(<<n>>, k, q)
            x == Append(w, m)
            y == w \o d
<1>1. m \in Packet
  BY SealedPacket DEF Type
<1>2. <<n>> \in Seq(Nat) /\ Len(<<n>>) = 1 /\ <<n>>[1] = n
  OBVIOUS
<1>3. d \in Seq(Packet) /\ Len(d) = 1
  BY <1>2, WaitingPackets
<1>4. d[1] = m
  <2>1. q + 1 - 1 = q /\ 1 \in 1 .. 1
    OBVIOUS
  <2>. QED
    BY <1>2, <2>1 DEF Waiting, Sealed
<1>. HIDE DEF m, d
<1>5. /\ x \in Seq(Packet) /\ Len(x) = Len(w) + 1 /\ Len(w) \in Nat
      /\ x[Len(w) + 1] = m /\ \A z \in 1 .. Len(w) : x[z] = w[z]
  BY <1>1, AppendPacket
<1>6. /\ y \in Seq(Packet) /\ Len(y) = Len(w) + 1
      /\ y[Len(w) + 1] = m /\ \A z \in 1 .. Len(w) : y[z] = w[z]
  <2>1. /\ y \in Seq(Packet) /\ Len(y) = Len(w) + Len(d)
        /\ \A z \in 1 .. Len(w) : y[z] = w[z]
        /\ \A z \in 1 .. Len(d) : y[Len(w) + z] = d[z]
    BY <1>3, ConcatPacket
  <2>. HIDE DEF y
  <2>. QED
    BY <1>3, <1>4, <2>1
<1>. HIDE DEF x, y
<1>7. \A z \in 1 .. Len(w) + 1 : x[z] = y[z]
  <2>. SUFFICES ASSUME NEW z \in 1 .. Len(w) + 1 PROVE x[z] = y[z]
    OBVIOUS
  <2>1. z \in 1 .. Len(w) \/ z = Len(w) + 1
    BY <1>5
  <2>. QED
    BY <1>5, <1>6, <2>1
<1>8. x = y
  BY <1>5, <1>6, <1>7
<1>. QED
  BY <1>8 DEF x, y, m, d

(* A party that may send data has NEWKEYS last on its wire, or nothing of   *)
(* an exchange and a peer that takes any packet.                            *)
MaySend(a, b, ka) ==
  a.dataallowed => Ends(ka) /\ (ka = <<>> => b.requirenext = "any")

Sending(a) == encrypt_packet([a EXCEPT !.sent = a.sent + 1], "data", a.sent + 1)

(* Either sends a packet of the layers above, or puts it aside. *)
LEMMA SendsDataOne ==
  ASSUME NEW a \in Sshsession, NEW b \in Sshsession,
         NEW i \in {0, 1, 2, 3}, NEW j \in {0, 1, 2, 3},
         NEW ka \in Seq(KexMsg), NEW kb \in Seq(KexMsg),
         Both(a, b, i, j, ka, kb), a.sent < MaxData,
         MaySend(a, b, ka),
         NEW t, t = Sending(a)
  PROVE  /\ Both(t, b, i, j, ka, kb)
         /\ Same(t, a)
<1>. DEFINE n == a.sent + 1
            w == Append(a.wire, Sealed("data", n, a.transkey, a.transseq))
            q == a.transseq + 1
            r == Append(a.reply_queue, n)
<1>1. Stage(a, i) /\ Stage(b, j) /\ Link(a, b, ka) /\ Link(b, a, kb)
  BY DEF Both
<1>2. t = IF a.dataallowed THEN DataSent(a, w, q) ELSE DataQueued(a, r)
  BY <1>1, PartySendsData DEF Sending, Stage
<1>3. /\ n \in 1 .. MaxData /\ n \in 0 .. MaxData /\ n \in Nat
      /\ a.wire \in Seq(Packet) /\ a.transkey \in Nat /\ a.transseq \in Nat
      /\ a.reply_queue \in Seq(1 .. MaxData) /\ Len(a.reply_queue) \in Nat /\ a.sent \in Nat
      /\ b.received \in Nat
  BY Types
<1>4. OutSame(b, b)
  BY DEF OutSame
<1>5. CASE a.dataallowed
  <2>1. w \in Seq(Packet) /\ q \in Nat
    BY <1>3, SealedPacket, SMTT(30) DEF Type
  <2>2. w = a.wire \o Waiting(<<n>>, a.transkey, a.transseq)
    BY <1>3, AppendOne, ZenonT(30)
  <2>3. <<n>> \in Seq(Nat) /\ Len(<<n>>) = 1
    BY <1>3
  <2>4. t = DataSent(a, w, q)
    BY <1>2, <1>5
  <2>. HIDE DEF w
  <2>5. Stage(t, i)
    BY <1>1, <1>3, <2>1, <2>4, StageDataSent
  <2>6. t \in Sshsession
    BY <1>3, <2>1, <2>4, DataSentFields
  <2>7. /\ t.wire = w /\ t.transseq = q /\ t.transkey = a.transkey /\ t.sent = n
        /\ t.reply_queue = a.reply_queue /\ t.received = a.received
        /\ t.requirenext = a.requirenext /\ t.recvkey = a.recvkey /\ t.recvseq = a.recvseq
        /\ t.party = a.party /\ t.kexes = a.kexes /\ t.param = a.param
        /\ t.ignorenext = a.ignorenext /\ t.donefirstkex = a.donefirstkex
    BY <2>4 DEF DataSent, Sshsession
  <2>8. Link(t, b, ka)
    <3>1. t.sent - Len(t.reply_queue) - b.received
          = a.sent - Len(a.reply_queue) - b.received + Len(<<n>>)
      BY <1>3, <2>3, <2>7, SMTT(30)
    <3>2. t.wire = a.wire \o Waiting(<<n>>, a.transkey, a.transseq)
      BY <2>2, <2>7
    <3>3. t.transseq = a.transseq + Len(<<n>>)
      BY <2>3, <2>7
    <3>. HIDE DEF n, q
    <3>. QED
      BY <1>1, <1>5, <2>3, <2>7, <3>1, <3>2, <3>3, LinkSendData DEF MaySend
  <2>9. Link(b, t, kb)
    <3>1. InSame(a, t)
      BY <2>7 DEF InSame
    <3>. QED
      BY <1>1, <1>4, <3>1, LinkSame
  <2>. QED
    BY <1>1, <2>5, <2>6, <2>7, <2>8, <2>9, Zenon DEF Both, Now, Same
<1>6. CASE ~a.dataallowed
  <2>1. r \in Seq(1 .. MaxData) /\ Len(r) = Len(a.reply_queue) + 1
    BY <1>3
  <2>4. t = DataQueued(a, r)
    BY <1>2, <1>6
  <2>. HIDE DEF r
  <2>5. Stage(t, i)
    BY <1>1, <1>3, <1>6, <2>1, <2>4, StageDataQueued
  <2>6. t \in Sshsession
    BY <1>3, <2>1, <2>4, DataQueuedFields
  <2>7. /\ t.wire = a.wire /\ t.transseq = a.transseq /\ t.transkey = a.transkey /\ t.sent = n
        /\ t.reply_queue = r /\ t.received = a.received
        /\ t.requirenext = a.requirenext /\ t.recvkey = a.recvkey /\ t.recvseq = a.recvseq
        /\ t.party = a.party /\ t.kexes = a.kexes /\ t.param = a.param
        /\ t.ignorenext = a.ignorenext /\ t.donefirstkex = a.donefirstkex
    BY <2>4 DEF DataQueued, Sshsession
  <2>8. Link(t, b, ka)
    BY <1>1, <2>1, <2>7, LinkQueue
  <2>9. Link(b, t, kb)
    <3>1. InSame(a, t)
      BY <2>7 DEF InSame
    <3>. QED
      BY <1>1, <1>4, <3>1, LinkSame
  <2>. QED
    BY <1>1, <2>5, <2>6, <2>7, <2>8, <2>9, Zenon DEF Both, Now, Same
<1>. QED
  BY <1>5, <1>6
=============================================================================
