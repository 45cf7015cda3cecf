------------------------- MODULE KeyExchangeProofs --------------------------
(***************************************************************************)
(* Theorems about KeyExchange, for any number of exchanges and packets:    *)
(* every step leads from a row of Joint to a row of Joint, and is a step   *)
(* of AppStream or none.                                                   *)
(***************************************************************************)
EXTENDS KeyExchangeLemmas, WellFoundedInduction

-----------------------------------------------------------------------------
(* From row to row. *)

(* The client's guess in an exchange under way is good or bad. *)
LEMMA GuessIsBoolean ==
  ASSUME NEW a \in Sshsession, NEW i \in {1, 2, 3}, Stage(a, i), guess \in [1 .. MaxKex -> BOOLEAN]
  PROVE  Good(a) \in BOOLEAN
<1>1. a.kexes \in 0 .. MaxKex /\ MaxKex \in Nat
  BY Types
<1>2. a.kexes # 0
  BY DEF Stage
<1>3. a.kexes \in 1 .. MaxKex
  BY <1>1, <1>2
<1>. QED
  BY <1>3 DEF Good

(* The client reads the server's KEXINIT: its guess is good ... *)
LEMMA ClientOpenGood ==
  ASSUME NEW c \in Sshsession, NEW s \in Sshsession, c.party = "client", s.party = "server",
         strict \in BOOLEAN, guess \in [1 .. MaxKex -> BOOLEAN],
         Both(c, s, 1, 1, <<Kexinit, Init_(c.param)>>, <<Kexinit>>),
         c.kexes = s.kexes, Good(c),
         s.wire # <<>>, Head(s.wire).type # "data",
         NEW t, t = Reads(c, Head(s.wire))
  PROVE  ClientAgrees(t, Peeled(s)) /\ t \in Sshsession /\ t.party = c.party
<1>. DEFINE kc == <<Kexinit, Init_(c.param)>>
            ks == <<Kexinit>>
<1>1. /\ c.param \in Nat /\ Init_(c.param) \in KexMsg /\ Reply(c.param) \in KexMsg
      /\ Kexinit \in KexMsg /\ Newkeys \in KexMsg
      /\ <<>> \in Seq(KexMsg) /\ kc \in Seq(KexMsg) /\ ks \in Seq(KexMsg)
  BY Messages, Types
<1>2. /\ Head(ks) = Kexinit /\ Tail(ks) = <<>>
  BY <1>1, Lists
<1>. HIDE DEF kc, ks
<1>3. Both(c, s, 1, 1, kc, ks)
  BY DEF kc, ks
<1>4. Head(s.wire).type = "kexinit"
  BY <1>1, <1>2, <1>3, ReadsHead, Contents DEF Both
<1>5. Good(c) \in BOOLEAN
  BY <1>3, GuessIsBoolean DEF Both
<1>6. Same(Peeled(s), s)
  BY <1>3, PeerStays, Zenon DEF Both, Same, Now
<1>7. Both(t, Peeled(s), 2, 1, kc, Tail(ks)) /\ Now(t, c, c.kexes, c.param, c.transkey)
  BY <1>1, <1>2, <1>3, <1>4, <1>5, ClientAgreesGood
<1>8. Both(t, Peeled(s), 2, 1, <<Kexinit, Init_(c.param)>>, <<>>)
  BY <1>2, <1>7 DEF kc, ks
<1>. QED
  BY <1>6, <1>7, <1>8 DEF Same, Now, ClientAgrees, Good

(* ... or bad, and it sends another value. *)
LEMMA ClientOpenBad ==
  ASSUME NEW c \in Sshsession, NEW s \in Sshsession, c.party = "client", s.party = "server",
         strict \in BOOLEAN, guess \in [1 .. MaxKex -> BOOLEAN],
         Both(c, s, 1, 1, <<Kexinit, Init_(c.param)>>, <<Kexinit>>),
         c.kexes = s.kexes, ~Good(c),
         s.wire # <<>>, Head(s.wire).type # "data",
         NEW t, t = Reads(c, Head(s.wire))
  PROVE  ClientAgrees(t, Peeled(s)) /\ t \in Sshsession /\ t.party = c.party
<1>. DEFINE kc == <<Kexinit, Init_(c.param)>>
            ks == <<Kexinit>>
<1>1. /\ c.param \in Nat /\ Init_(c.param) \in KexMsg /\ Reply(c.param) \in KexMsg
      /\ Kexinit \in KexMsg /\ Newkeys \in KexMsg
      /\ <<>> \in Seq(KexMsg) /\ kc \in Seq(KexMsg) /\ ks \in Seq(KexMsg)
  BY Messages, Types
<1>2. /\ Head(ks) = Kexinit /\ Tail(ks) = <<>>
  BY <1>1, Lists
<1>. HIDE DEF kc, ks
<1>3. Both(c, s, 1, 1, kc, ks)
  BY DEF kc, ks
<1>4. Head(s.wire).type = "kexinit"
  BY <1>1, <1>2, <1>3, ReadsHead, Contents DEF Both
<1>5. Good(c) \in BOOLEAN
  BY <1>3, GuessIsBoolean DEF Both
<1>6. Same(Peeled(s), s)
  BY <1>3, PeerStays, Zenon DEF Both, Same, Now
<1>7. /\ Both(t, Peeled(s), 2, 1, Append(kc, Init_(t.param)), Tail(ks))
      /\ Now(t, c, c.kexes, c.param + 1, c.transkey)
  BY <1>1, <1>2, <1>3, <1>4, <1>5, ClientAgreesBad
<1>8. Append(kc, Init_(t.param)) = <<Kexinit, Init_(c.param), Init_(t.param)>>
  BY <1>1, <1>7, Messages, Lists DEF Now, kc, ks
<1>9. Both(t, Peeled(s), 2, 1, <<Kexinit, Init_(c.param), Init_(t.param)>>, <<>>)
  BY <1>2, <1>7, <1>8 DEF kc, ks
<1>10. c.param \in 0 .. t.param
  BY <1>1, <1>7 DEF Now
<1>. QED
  BY <1>6, <1>7, <1>9, <1>10 DEF Same, Now, ClientAgrees, Good

(* The server has read its own before. *)
LEMMA ClientAgreeGood ==
  ASSUME NEW c \in Sshsession, NEW s \in Sshsession, c.party = "client", s.party = "server",
         strict \in BOOLEAN, guess \in [1 .. MaxKex -> BOOLEAN],
         Both(c, s, 1, 2, <<Init_(c.param)>>, <<Kexinit>>),
         c.kexes = s.kexes, Good(c), ~s.ignorenext,
         s.wire # <<>>, Head(s.wire).type # "data",
         NEW t, t = Reads(c, Head(s.wire))
  PROVE  BothAgree(t, Peeled(s)) /\ t \in Sshsession /\ t.party = c.party
<1>. DEFINE kc == <<Init_(c.param)>>
            ks == <<Kexinit>>
<1>1. /\ c.param \in Nat /\ Init_(c.param) \in KexMsg /\ Reply(c.param) \in KexMsg
      /\ Kexinit \in KexMsg /\ Newkeys \in KexMsg
      /\ <<>> \in Seq(KexMsg) /\ kc \in Seq(KexMsg) /\ ks \in Seq(KexMsg)
  BY Messages, Types
<1>2. /\ Head(ks) = Kexinit /\ Tail(ks) = <<>>
  BY <1>1, Lists
<1>. HIDE DEF kc, ks
<1>3. Both(c, s, 1, 2, kc, ks)
  BY DEF kc, ks
<1>4. Head(s.wire).type = "kexinit"
  BY <1>1, <1>2, <1>3, ReadsHead, Contents DEF Both
<1>5. Good(c) \in BOOLEAN
  BY <1>3, GuessIsBoolean DEF Both
<1>6. Same(Peeled(s), s)
  BY <1>3, PeerStays, Zenon DEF Both, Same, Now
<1>7. Both(t, Peeled(s), 2, 2, kc, Tail(ks)) /\ Now(t, c, c.kexes, c.param, c.transkey)
  BY <1>1, <1>2, <1>3, <1>4, <1>5, ClientAgreesGood
<1>8. Both(t, Peeled(s), 2, 2, <<Init_(c.param)>>, <<>>)
  BY <1>2, <1>7 DEF kc, ks
<1>. QED
  BY <1>6, <1>7, <1>8 DEF Same, Now, BothAgree, Good

(* The server has the bad guess still to come ... *)
LEMMA ClientAgreeBad ==
  ASSUME NEW c \in Sshsession, NEW s \in Sshsession, c.party = "client", s.party = "server",
         strict \in BOOLEAN, guess \in [1 .. MaxKex -> BOOLEAN],
         Both(c, s, 1, 2, <<Init_(c.param)>>, <<Kexinit>>),
         c.kexes = s.kexes, ~Good(c), s.ignorenext,
         s.wire # <<>>, Head(s.wire).type # "data",
         NEW t, t = Reads(c, Head(s.wire))
  PROVE  BothAgree(t, Peeled(s)) /\ t \in Sshsession /\ t.party = c.party
<1>. DEFINE kc == <<Init_(c.param)>>
            ks == <<Kexinit>>
<1>1. /\ c.param \in Nat /\ Init_(c.param) \in KexMsg /\ Reply(c.param) \in KexMsg
      /\ Kexinit \in KexMsg /\ Newkeys \in KexMsg
      /\ <<>> \in Seq(KexMsg) /\ kc \in Seq(KexMsg) /\ ks \in Seq(KexMsg)
  BY Messages, Types
<1>2. /\ Head(ks) = Kexinit /\ Tail(ks) = <<>>
  BY <1>1, Lists
<1>. HIDE DEF kc, ks
<1>3. Both(c, s, 1, 2, kc, ks)
  BY DEF kc, ks
<1>4. Head(s.wire).type = "kexinit"
  BY <1>1, <1>2, <1>3, ReadsHead, Contents DEF Both
<1>5. Good(c) \in BOOLEAN
  BY <1>3, GuessIsBoolean DEF Both
<1>6. Same(Peeled(s), s)
  BY <1>3, PeerStays, Zenon DEF Both, Same, Now
<1>7. /\ Both(t, Peeled(s), 2, 2, Append(kc, Init_(t.param)), Tail(ks))
      /\ Now(t, c, c.kexes, c.param + 1, c.transkey)
  BY <1>1, <1>2, <1>3, <1>4, <1>5, ClientAgreesBad
<1>8. Append(kc, Init_(t.param)) = <<Init_(c.param), Init_(t.param)>>
  BY <1>1, <1>7, Messages, Lists DEF Now, kc, ks
<1>9. Both(t, Peeled(s), 2, 2, <<Init_(c.param), Init_(t.param)>>, <<>>)
  BY <1>2, <1>7, <1>8 DEF kc, ks
<1>10. c.param \in 0 .. t.param
  BY <1>1, <1>7 DEF Now
<1>. QED
  BY <1>6, <1>7, <1>9, <1>10 DEF Same, Now, BothAgree, Good

(* ... or behind it. *)
LEMMA ClientAgreeLate ==
  ASSUME NEW c \in Sshsession, NEW s \in Sshsession, c.party = "client", s.party = "server",
         strict \in BOOLEAN, guess \in [1 .. MaxKex -> BOOLEAN],
         Both(c, s, 1, 2, <<>>, <<Kexinit>>),
         c.kexes = s.kexes, ~Good(c), ~s.ignorenext,
         s.wire # <<>>, Head(s.wire).type # "data",
         NEW t, t = Reads(c, Head(s.wire))
  PROVE  BothAgree(t, Peeled(s)) /\ t \in Sshsession /\ t.party = c.party
<1>. DEFINE kc == <<>>
            ks == <<Kexinit>>
<1>1. /\ c.param \in Nat /\ Init_(c.param) \in KexMsg /\ Reply(c.param) \in KexMsg
      /\ Kexinit \in KexMsg /\ Newkeys \in KexMsg
      /\ <<>> \in Seq(KexMsg) /\ kc \in Seq(KexMsg) /\ ks \in Seq(KexMsg)
  BY Messages, Types
<1>2. /\ Head(ks) = Kexinit /\ Tail(ks) = <<>>
  BY <1>1, Lists
<1>. HIDE DEF kc, ks
<1>3. Both(c, s, 1, 2, kc, ks)
  BY DEF kc, ks
<1>4. Head(s.wire).type = "kexinit"
  BY <1>1, <1>2, <1>3, ReadsHead, Contents DEF Both
<1>5. Good(c) \in BOOLEAN
  BY <1>3, GuessIsBoolean DEF Both
<1>6. Same(Peeled(s), s)
  BY <1>3, PeerStays, Zenon DEF Both, Same, Now
<1>7. /\ Both(t, Peeled(s), 2, 2, Append(kc, Init_(t.param)), Tail(ks))
      /\ Now(t, c, c.kexes, c.param + 1, c.transkey)
  BY <1>1, <1>2, <1>3, <1>4, <1>5, ClientAgreesBad
<1>8. Append(kc, Init_(t.param)) = <<Init_(t.param)>>
  BY <1>1, <1>7, Messages, Lists DEF Now, kc, ks
<1>9. Both(t, Peeled(s), 2, 2, <<Init_(t.param)>>, <<>>)
  BY <1>2, <1>7, <1>8 DEF kc, ks
<1>. QED
  BY <1>6, <1>7, <1>9 DEF Same, Now, BothAgree, Good

(* The server is ahead. *)
LEMMA ClientCatchesUp ==
  ASSUME NEW c \in Sshsession, NEW s \in Sshsession, c.party = "client", s.party = "server",
         strict \in BOOLEAN, guess \in [1 .. MaxKex -> BOOLEAN],
         Both(c, s, 1, 3, <<>>, <<Kexinit, Reply(c.param), Newkeys>>),
         c.kexes = s.kexes, s.transkey = c.param, Good(c),
         s.wire # <<>>, Head(s.wire).type # "data",
         NEW t, t = Reads(c, Head(s.wire))
  PROVE  ServerKeyed(t, Peeled(s)) /\ t \in Sshsession /\ t.party = c.party
<1>. DEFINE kc == <<>>
            ks == <<Kexinit, Reply(c.param), Newkeys>>
<1>1. /\ c.param \in Nat /\ Init_(c.param) \in KexMsg /\ Reply(c.param) \in KexMsg
      /\ Kexinit \in KexMsg /\ Newkeys \in KexMsg
      /\ <<>> \in Seq(KexMsg) /\ kc \in Seq(KexMsg) /\ ks \in Seq(KexMsg)
  BY Messages, Types
<1>2. /\ Head(ks) = Kexinit /\ Tail(ks) = <<Reply(c.param), Newkeys>>
  BY <1>1, Lists
<1>. HIDE DEF kc, ks
<1>3. Both(c, s, 1, 3, kc, ks)
  BY DEF kc, ks
<1>4. Head(s.wire).type = "kexinit"
  BY <1>1, <1>2, <1>3, ReadsHead, Contents DEF Both
<1>5. Good(c) \in BOOLEAN
  BY <1>3, GuessIsBoolean DEF Both
<1>6. Same(Peeled(s), s)
  BY <1>3, PeerStays, Zenon DEF Both, Same, Now
<1>7. Both(t, Peeled(s), 2, 3, kc, Tail(ks)) /\ Now(t, c, c.kexes, c.param, c.transkey)
  BY <1>1, <1>2, <1>3, <1>4, <1>5, ClientAgreesGood
<1>8. Both(t, Peeled(s), 2, 3, <<>>, <<Reply(c.param), Newkeys>>)
  BY <1>2, <1>7 DEF kc, ks
<1>. QED
  BY <1>6, <1>7, <1>8 DEF Same, Now, ServerKeyed

(* The client reads the reply. *)
LEMMA ClientKeys ==
  ASSUME NEW c \in Sshsession, NEW s \in Sshsession, c.party = "client", s.party = "server",
         strict \in BOOLEAN, guess \in [1 .. MaxKex -> BOOLEAN],
         Both(c, s, 2, 3, <<>>, <<Reply(c.param), Newkeys>>),
         c.kexes = s.kexes, s.transkey = c.param,
         s.wire # <<>>, Head(s.wire).type # "data",
         NEW t, t = Reads(c, Head(s.wire))
  PROVE  BothKeyed(t, Peeled(s)) /\ t \in Sshsession /\ t.party = c.party
<1>. DEFINE kc == <<>>
            ks == <<Reply(c.param), Newkeys>>
<1>1. /\ c.param \in Nat /\ Init_(c.param) \in KexMsg /\ Reply(c.param) \in KexMsg
      /\ Kexinit \in KexMsg /\ Newkeys \in KexMsg
      /\ <<>> \in Seq(KexMsg) /\ kc \in Seq(KexMsg) /\ ks \in Seq(KexMsg)
  BY Messages, Types
<1>2. /\ Head(ks) = Reply(c.param) /\ Tail(ks) = <<Newkeys>>
      /\ \A x \in 1 .. Len(kc) : kc[x][1] # "newkeys"
  BY <1>1, Lists, Contents
<1>. HIDE DEF kc, ks
<1>3. Both(c, s, 2, 3, kc, ks)
  BY DEF kc, ks
<1>4. Head(s.wire).type = "kexdh_reply" /\ Head(s.wire).n = c.param
  BY <1>1, <1>2, <1>3, ReadsHead, Contents DEF Both
<1>5. Same(Peeled(s), s)
  BY <1>3, PeerStays, Zenon DEF Both, Same, Now
<1>6. /\ Both(t, Peeled(s), 3, 3, Append(kc, Newkeys), Tail(ks))
      /\ Now(t, c, c.kexes, c.param, c.param)
  BY <1>1, <1>2, <1>3, <1>4, ClientKeysOne
<1>7. Append(kc, Newkeys) = <<Newkeys>>
  BY <1>1, <1>6, Messages, Lists DEF Now, kc, ks
<1>8. Both(t, Peeled(s), 3, 3, <<Newkeys>>, <<Newkeys>>)
  BY <1>2, <1>6, <1>7 DEF kc, ks
<1>. QED
  BY <1>5, <1>6, <1>8 DEF Same, Now, BothKeyed, NewKey

(* The client reads the server's NEWKEYS. *)
LEMMA ClientFinishes ==
  ASSUME NEW c \in Sshsession, NEW s \in Sshsession, c.party = "client", s.party = "server",
         strict \in BOOLEAN, guess \in [1 .. MaxKex -> BOOLEAN],
         Both(c, s, 3, 3, <<Newkeys>>, <<Newkeys>>),
         c.kexes = s.kexes, NewKey(c, s), c.transkey = s.transkey,
         s.wire # <<>>, Head(s.wire).type # "data",
         NEW t, t = Reads(c, Head(s.wire))
  PROVE  ClientDone(t, Peeled(s)) /\ t \in Sshsession /\ t.party = c.party
<1>. DEFINE kc == <<Newkeys>>
            ks == <<Newkeys>>
<1>1. /\ c.param \in Nat /\ Init_(c.param) \in KexMsg /\ Reply(c.param) \in KexMsg
      /\ Kexinit \in KexMsg /\ Newkeys \in KexMsg
      /\ <<>> \in Seq(KexMsg) /\ kc \in Seq(KexMsg) /\ ks \in Seq(KexMsg)
  BY Messages, Types
<1>2. /\ Head(ks) = Newkeys /\ Tail(ks) = <<>>
  BY <1>1, Lists
<1>. HIDE DEF kc, ks
<1>3. Both(c, s, 3, 3, kc, ks)
  BY DEF kc, ks
<1>4. Head(s.wire).type = "newkeys"
  BY <1>1, <1>2, <1>3, ReadsHead, Contents DEF Both
<1>5. Same(Peeled(s), s)
  BY <1>3, PeerStays, Zenon DEF Both, Same, Now
<1>6. Both(t, Peeled(s), 0, 3, kc, Tail(ks)) /\ Now(t, c, c.kexes, c.param, c.transkey)
  BY <1>1, <1>2, <1>3, <1>4, FinishesOne
<1>7. Both(t, Peeled(s), 0, 3, <<Newkeys>>, <<>>)
  BY <1>2, <1>6 DEF kc, ks
<1>. QED
  BY <1>5, <1>6, <1>7 DEF Same, Now, ClientDone, NewKey

(* The server has read its own before ... *)
LEMMA ClientFinishesLast ==
  ASSUME NEW c \in Sshsession, NEW s \in Sshsession, c.party = "client", s.party = "server",
         strict \in BOOLEAN, guess \in [1 .. MaxKex -> BOOLEAN],
         Both(c, s, 3, 0, <<>>, <<Newkeys>>),
         c.kexes = s.kexes, NewKey(c, s), c.transkey = s.transkey,
         s.wire # <<>>, Head(s.wire).type # "data",
         NEW t, t = Reads(c, Head(s.wire))
  PROVE  Idle(t, Peeled(s)) /\ t \in Sshsession /\ t.party = c.party
<1>. DEFINE kc == <<>>
            ks == <<Newkeys>>
<1>1. /\ c.param \in Nat /\ Init_(c.param) \in KexMsg /\ Reply(c.param) \in KexMsg
      /\ Kexinit \in KexMsg /\ Newkeys \in KexMsg
      /\ <<>> \in Seq(KexMsg) /\ kc \in Seq(KexMsg) /\ ks \in Seq(KexMsg)
  BY Messages, Types
<1>2. /\ Head(ks) = Newkeys /\ Tail(ks) = <<>>
  BY <1>1, Lists
<1>. HIDE DEF kc, ks
<1>3. Both(c, s, 3, 0, kc, ks)
  BY DEF kc, ks
<1>4. Head(s.wire).type = "newkeys"
  BY <1>1, <1>2, <1>3, ReadsHead, Contents DEF Both
<1>5. Same(Peeled(s), s)
  BY <1>3, PeerStays, Zenon DEF Both, Same, Now
<1>6. Both(t, Peeled(s), 0, 0, kc, Tail(ks)) /\ Now(t, c, c.kexes, c.param, c.transkey)
  BY <1>1, <1>2, <1>3, <1>4, FinishesOne
<1>7. Both(t, Peeled(s), 0, 0, <<>>, <<>>)
  BY <1>2, <1>6 DEF kc, ks
<1>. QED
  BY <1>5, <1>6, <1>7 DEF Same, Now, Idle, NewKey

(* ... and opened another exchange. *)
LEMMA ClientFinishesLate ==
  ASSUME NEW c \in Sshsession, NEW s \in Sshsession, c.party = "client", s.party = "server",
         strict \in BOOLEAN, guess \in [1 .. MaxKex -> BOOLEAN],
         Both(c, s, 3, 1, <<>>, <<Newkeys, Kexinit>>),
         c.kexes + 1 = s.kexes, NewKey(c, s), s.donefirstkex, c.transkey = s.transkey,
         s.wire # <<>>, Head(s.wire).type # "data",
         NEW t, t = Reads(c, Head(s.wire))
  PROVE  ServerOpens(t, Peeled(s)) /\ t \in Sshsession /\ t.party = c.party
<1>. DEFINE kc == <<>>
            ks == <<Newkeys, Kexinit>>
<1>1. /\ c.param \in Nat /\ Init_(c.param) \in KexMsg /\ Reply(c.param) \in KexMsg
      /\ Kexinit \in KexMsg /\ Newkeys \in KexMsg
      /\ <<>> \in Seq(KexMsg) /\ kc \in Seq(KexMsg) /\ ks \in Seq(KexMsg)
  BY Messages, Types
<1>2. /\ Head(ks) = Newkeys /\ Tail(ks) = <<Kexinit>>
  BY <1>1, Lists
<1>. HIDE DEF kc, ks
<1>3. Both(c, s, 3, 1, kc, ks)
  BY DEF kc, ks
<1>4. Head(s.wire).type = "newkeys"
  BY <1>1, <1>2, <1>3, ReadsHead, Contents DEF Both
<1>5. Same(Peeled(s), s)
  BY <1>3, PeerStays, Zenon DEF Both, Same, Now
<1>6. Both(t, Peeled(s), 0, 1, kc, Tail(ks)) /\ Now(t, c, c.kexes, c.param, c.transkey)
  BY <1>1, <1>2, <1>3, <1>4, FinishesOne
<1>7. Both(t, Peeled(s), 0, 1, <<>>, <<Kexinit>>)
  BY <1>2, <1>6 DEF kc, ks
<1>. QED
  BY <1>5, <1>6, <1>7 DEF Same, Now, ServerOpens, NewKey

(* The server reads the client's KEXINIT. *)
LEMMA ServerOpen ==
  ASSUME NEW c \in Sshsession, NEW s \in Sshsession, c.party = "client", s.party = "server",
         strict \in BOOLEAN, guess \in [1 .. MaxKex -> BOOLEAN],
         Both(c, s, 1, 1, <<Kexinit, Init_(c.param)>>, <<Kexinit>>),
         c.kexes = s.kexes,
         c.wire # <<>>, Head(c.wire).type # "data",
         NEW t, t = Reads(s, Head(c.wire))
  PROVE  ServerAgrees(Peeled(c), t) /\ t \in Sshsession /\ t.party = s.party
<1>. DEFINE kc == <<Kexinit, Init_(c.param)>>
            ks == <<Kexinit>>
<1>1. /\ c.param \in Nat /\ Init_(c.param) \in KexMsg /\ Reply(c.param) \in KexMsg
      /\ Kexinit \in KexMsg /\ Newkeys \in KexMsg
      /\ <<>> \in Seq(KexMsg) /\ kc \in Seq(KexMsg) /\ ks \in Seq(KexMsg)
  BY Messages, Types
<1>2. /\ Head(kc) = Kexinit /\ Tail(kc) = <<Init_(c.param)>>
  BY <1>1, Lists
<1>. HIDE DEF kc, ks
<1>3. Both(s, c, 1, 1, ks, kc)
  BY Swap DEF kc, ks
<1>4. Head(c.wire).type = "kexinit"
  BY <1>1, <1>2, <1>3, ReadsHead, Contents DEF Both
<1>5. Good(s) \in BOOLEAN
  BY <1>3, GuessIsBoolean DEF Both
<1>6. Same(Peeled(c), c)
  BY <1>3, PeerStays, Zenon DEF Both, Same, Now
<1>7. /\ Both(t, Peeled(c), 2, 1, ks, Tail(kc))
      /\ Now(t, s, s.kexes, s.param, s.transkey) /\ (t.ignorenext <=> ~Good(s))
  BY <1>1, <1>2, <1>3, <1>4, <1>5, ServerAgreesOne
<1>8. Both(Peeled(c), t, 1, 2, <<Init_(c.param)>>, <<Kexinit>>)
  BY <1>2, <1>7, Swap DEF kc, ks
<1>. QED
  BY <1>6, <1>7, <1>8 DEF Same, Now, ServerAgrees, Good

(* The client has read its own before, and its guess was good ... *)
LEMMA ServerAgreeGood ==
  ASSUME NEW c \in Sshsession, NEW s \in Sshsession, c.party = "client", s.party = "server",
         strict \in BOOLEAN, guess \in [1 .. MaxKex -> BOOLEAN],
         Both(c, s, 2, 1, <<Kexinit, Init_(c.param)>>, <<>>),
         c.kexes = s.kexes, Good(c),
         c.wire # <<>>, Head(c.wire).type # "data",
         NEW t, t = Reads(s, Head(c.wire))
  PROVE  BothAgree(Peeled(c), t) /\ t \in Sshsession /\ t.party = s.party
<1>. DEFINE kc == <<Kexinit, Init_(c.param)>>
            ks == <<>>
<1>1. /\ c.param \in Nat /\ Init_(c.param) \in KexMsg /\ Reply(c.param) \in KexMsg
      /\ Kexinit \in KexMsg /\ Newkeys \in KexMsg
      /\ <<>> \in Seq(KexMsg) /\ kc \in Seq(KexMsg) /\ ks \in Seq(KexMsg)
  BY Messages, Types
<1>2. /\ Head(kc) = Kexinit /\ Tail(kc) = <<Init_(c.param)>>
  BY <1>1, Lists
<1>. HIDE DEF kc, ks
<1>3. Both(s, c, 1, 2, ks, kc)
  BY Swap DEF kc, ks
<1>4. Head(c.wire).type = "kexinit"
  BY <1>1, <1>2, <1>3, ReadsHead, Contents DEF Both
<1>5. Good(s) \in BOOLEAN
  BY <1>3, GuessIsBoolean DEF Both
<1>6. Same(Peeled(c), c)
  BY <1>3, PeerStays, Zenon DEF Both, Same, Now
<1>7. /\ Both(t, Peeled(c), 2, 2, ks, Tail(kc))
      /\ Now(t, s, s.kexes, s.param, s.transkey) /\ (t.ignorenext <=> ~Good(s))
  BY <1>1, <1>2, <1>3, <1>4, <1>5, ServerAgreesOne
<1>8. Both(Peeled(c), t, 2, 2, <<Init_(c.param)>>, <<>>)
  BY <1>2, <1>7, Swap DEF kc, ks
<1>. QED
  BY <1>6, <1>7, <1>8 DEF Same, Now, BothAgree, Good

(* ... or bad. *)
LEMMA ServerAgreeBad ==
  ASSUME NEW c \in Sshsession, NEW s \in Sshsession, c.party = "client", s.party = "server",
         strict \in BOOLEAN, guess \in [1 .. MaxKex -> BOOLEAN], NEW e \in 0 .. c.param,
         Both(c, s, 2, 1, <<Kexinit, Init_(e), Init_(c.param)>>, <<>>),
         c.kexes = s.kexes, ~Good(c),
         c.wire # <<>>, Head(c.wire).type # "data",
         NEW t, t = Reads(s, Head(c.wire))
  PROVE  BothAgree(Peeled(c), t) /\ t \in Sshsession /\ t.party = s.party
<1>. DEFINE kc == <<Kexinit, Init_(e), Init_(c.param)>>
            ks == <<>>
<1>1. /\ c.param \in Nat /\ Init_(c.param) \in KexMsg /\ Reply(c.param) \in KexMsg
      /\ Kexinit \in KexMsg /\ Newkeys \in KexMsg
      /\ e \in Nat /\ Init_(e) \in KexMsg
      /\ <<>> \in Seq(KexMsg) /\ kc \in Seq(KexMsg) /\ ks \in Seq(KexMsg)
  BY Messages, Types
<1>2. /\ Head(kc) = Kexinit /\ Tail(kc) = <<Init_(e), Init_(c.param)>>
  BY <1>1, Lists
<1>. HIDE DEF kc, ks
<1>3. Both(s, c, 1, 2, ks, kc)
  BY Swap DEF kc, ks
<1>4. Head(c.wire).type = "kexinit"
  BY <1>1, <1>2, <1>3, ReadsHead, Contents DEF Both
<1>5. Good(s) \in BOOLEAN
  BY <1>3, GuessIsBoolean DEF Both
<1>6. Same(Peeled(c), c)
  BY <1>3, PeerStays, Zenon DEF Both, Same, Now
<1>7. /\ Both(t, Peeled(c), 2, 2, ks, Tail(kc))
      /\ Now(t, s, s.kexes, s.param, s.transkey) /\ (t.ignorenext <=> ~Good(s))
  BY <1>1, <1>2, <1>3, <1>4, <1>5, ServerAgreesOne
<1>8. Both(Peeled(c), t, 2, 2, <<Init_(e), Init_(c.param)>>, <<>>)
  BY <1>2, <1>7, Swap DEF kc, ks
<1>. QED
  BY <1>6, <1>7, <1>8 DEF Same, Now, BothAgree, Good

(* The server passes over a bad guess, before the client has read its KEXINIT ... *)
LEMMA ServerPasses ==
  ASSUME NEW c \in Sshsession, NEW s \in Sshsession, c.party = "client", s.party = "server",
         strict \in BOOLEAN, guess \in [1 .. MaxKex -> BOOLEAN],
         Both(c, s, 1, 2, <<Init_(c.param)>>, <<Kexinit>>),
         c.kexes = s.kexes, ~Good(c), s.ignorenext,
         c.wire # <<>>, Head(c.wire).type # "data",
         NEW t, t = Reads(s, Head(c.wire))
  PROVE  ServerAgrees(Peeled(c), t) /\ t \in Sshsession /\ t.party = s.party
<1>. DEFINE kc == <<Init_(c.param)>>
            ks == <<Kexinit>>
<1>1. /\ c.param \in Nat /\ Init_(c.param) \in KexMsg /\ Reply(c.param) \in KexMsg
      /\ Kexinit \in KexMsg /\ Newkeys \in KexMsg
      /\ <<>> \in Seq(KexMsg) /\ kc \in Seq(KexMsg) /\ ks \in Seq(KexMsg)
  BY Messages, Types
<1>2. /\ Head(kc) = Init_(c.param) /\ Tail(kc) = <<>>
  BY <1>1, Lists
<1>. HIDE DEF kc, ks
<1>3. Both(s, c, 2, 1, ks, kc)
  BY Swap DEF kc, ks
<1>4. Head(c.wire).type = "kexdh_init"
  BY <1>1, <1>2, <1>3, ReadsHead, Contents DEF Both
<1>5. Same(Peeled(c), c)
  BY <1>3, PeerStays, Zenon DEF Both, Same, Now
<1>6. /\ Both(t, Peeled(c), 2, 1, ks, Tail(kc))
      /\ Now(t, s, s.kexes, s.param, s.transkey) /\ ~t.ignorenext
  BY <1>1, <1>2, <1>3, <1>4, ServerIgnoresOne
<1>7. Both(Peeled(c), t, 1, 2, <<>>, <<Kexinit>>)
  BY <1>2, <1>6, Swap DEF kc, ks
<1>. QED
  BY <1>5, <1>6, <1>7 DEF Same, Now, ServerAgrees, Good

(* ... and after that. *)
LEMMA ServerPassesLate ==
  ASSUME NEW c \in Sshsession, NEW s \in Sshsession, c.party = "client", s.party = "server",
         strict \in BOOLEAN, guess \in [1 .. MaxKex -> BOOLEAN], NEW e \in 0 .. c.param,
         Both(c, s, 2, 2, <<Init_(e), Init_(c.param)>>, <<>>),
         c.kexes = s.kexes, ~Good(c), s.ignorenext,
         c.wire # <<>>, Head(c.wire).type # "data",
         NEW t, t = Reads(s, Head(c.wire))
  PROVE  BothAgree(Peeled(c), t) /\ t \in Sshsession /\ t.party = s.party
<1>. DEFINE kc == <<Init_(e), Init_(c.param)>>
            ks == <<>>
<1>1. /\ c.param \in Nat /\ Init_(c.param) \in KexMsg /\ Reply(c.param) \in KexMsg
      /\ Kexinit \in KexMsg /\ Newkeys \in KexMsg
      /\ e \in Nat /\ Init_(e) \in KexMsg
      /\ <<>> \in Seq(KexMsg) /\ kc \in Seq(KexMsg) /\ ks \in Seq(KexMsg)
  BY Messages, Types
<1>2. /\ Head(kc) = Init_(e) /\ Tail(kc) = <<Init_(c.param)>>
  BY <1>1, Lists
<1>. HIDE DEF kc, ks
<1>3. Both(s, c, 2, 2, ks, kc)
  BY Swap DEF kc, ks
<1>4. Head(c.wire).type = "kexdh_init"
  BY <1>1, <1>2, <1>3, ReadsHead, Contents DEF Both
<1>5. Same(Peeled(c), c)
  BY <1>3, PeerStays, Zenon DEF Both, Same, Now
<1>6. /\ Both(t, Peeled(c), 2, 2, ks, Tail(kc))
      /\ Now(t, s, s.kexes, s.param, s.transkey) /\ ~t.ignorenext
  BY <1>1, <1>2, <1>3, <1>4, ServerIgnoresOne
<1>7. Both(Peeled(c), t, 2, 2, <<Init_(c.param)>>, <<>>)
  BY <1>2, <1>6, Swap DEF kc, ks
<1>. QED
  BY <1>5, <1>6, <1>7 DEF Same, Now, BothAgree, Good

(* The server makes the new key, before the client has read its KEXINIT ... *)
LEMMA ServerKeysFirst ==
  ASSUME NEW c \in Sshsession, NEW s \in Sshsession, c.party = "client", s.party = "server",
         strict \in BOOLEAN, guess \in [1 .. MaxKex -> BOOLEAN],
         Both(c, s, 1, 2, <<Init_(c.param)>>, <<Kexinit>>),
         c.kexes = s.kexes, Good(c), ~s.ignorenext,
         c.wire # <<>>, Head(c.wire).type # "data",
         NEW t, t = Reads(s, Head(c.wire))
  PROVE  ServerAhead(Peeled(c), t) /\ t \in Sshsession /\ t.party = s.party
<1>. DEFINE kc == <<Init_(c.param)>>
            ks == <<Kexinit>>
<1>1. /\ c.param \in Nat /\ Init_(c.param) \in KexMsg /\ Reply(c.param) \in KexMsg
      /\ Kexinit \in KexMsg /\ Newkeys \in KexMsg
      /\ <<>> \in Seq(KexMsg) /\ kc \in Seq(KexMsg) /\ ks \in Seq(KexMsg)
  BY Messages, Types
<1>2. /\ Head(kc) = Init_(c.param) /\ Tail(kc) = <<>>
      /\ \A x \in 1 .. Len(ks) : ks[x][1] # "newkeys"
  BY <1>1, Lists, Contents
<1>. HIDE DEF kc, ks
<1>3. Both(s, c, 2, 1, ks, kc)
  BY Swap DEF kc, ks
<1>4. Head(c.wire).type = "kexdh_init" /\ Head(c.wire).n = c.param
  BY <1>1, <1>2, <1>3, ReadsHead, Contents DEF Both
<1>5. Same(Peeled(c), c)
  BY <1>3, PeerStays, Zenon DEF Both, Same, Now
<1>6. /\ Both(t, Peeled(c), 3, 1, Append(Append(ks, Reply(c.param)), Newkeys), Tail(kc))
      /\ Now(t, s, s.kexes, s.param, c.param)
  BY <1>1, <1>2, <1>3, <1>4, ServerKeysOne
<1>7. Append(ks, Reply(c.param)) = <<Kexinit, Reply(c.param)>>
  BY <1>1, Lists DEF ks
<1>8. Append(Append(ks, Reply(c.param)), Newkeys) = <<Kexinit, Reply(c.param), Newkeys>>
  BY <1>1, <1>7, Lists
<1>9. Both(Peeled(c), t, 1, 3, <<>>, <<Kexinit, Reply(c.param), Newkeys>>)
  BY <1>2, <1>6, <1>8, Swap DEF kc, ks
<1>. QED
  BY <1>5, <1>6, <1>9 DEF Same, Now, ServerAhead, Good

(* ... and after that. *)
LEMMA ServerKeys ==
  ASSUME NEW c \in Sshsession, NEW s \in Sshsession, c.party = "client", s.party = "server",
         strict \in BOOLEAN, guess \in [1 .. MaxKex -> BOOLEAN],
         Both(c, s, 2, 2, <<Init_(c.param)>>, <<>>),
         c.kexes = s.kexes, ~s.ignorenext,
         c.wire # <<>>, Head(c.wire).type # "data",
         NEW t, t = Reads(s, Head(c.wire))
  PROVE  ServerKeyed(Peeled(c), t) /\ t \in Sshsession /\ t.party = s.party
<1>. DEFINE kc == <<Init_(c.param)>>
            ks == <<>>
<1>1. /\ c.param \in Nat /\ Init_(c.param) \in KexMsg /\ Reply(c.param) \in KexMsg
      /\ Kexinit \in KexMsg /\ Newkeys \in KexMsg
      /\ <<>> \in Seq(KexMsg) /\ kc \in Seq(KexMsg) /\ ks \in Seq(KexMsg)
  BY Messages, Types
<1>2. /\ Head(kc) = Init_(c.param) /\ Tail(kc) = <<>>
      /\ \A x \in 1 .. Len(ks) : ks[x][1] # "newkeys"
  BY <1>1, Lists, Contents
<1>. HIDE DEF kc, ks
<1>3. Both(s, c, 2, 2, ks, kc)
  BY Swap DEF kc, ks
<1>4. Head(c.wire).type = "kexdh_init" /\ Head(c.wire).n = c.param
  BY <1>1, <1>2, <1>3, ReadsHead, Contents DEF Both
<1>5. Same(Peeled(c), c)
  BY <1>3, PeerStays, Zenon DEF Both, Same, Now
<1>6. /\ Both(t, Peeled(c), 3, 2, Append(Append(ks, Reply(c.param)), Newkeys), Tail(kc))
      /\ Now(t, s, s.kexes, s.param, c.param)
  BY <1>1, <1>2, <1>3, <1>4, ServerKeysOne
<1>7. Append(ks, Reply(c.param)) = <<Reply(c.param)>>
  BY <1>1, Lists DEF ks
<1>8. Append(Append(ks, Reply(c.param)), Newkeys) = <<Reply(c.param), Newkeys>>
  BY <1>1, <1>7, Lists
<1>9. Both(Peeled(c), t, 2, 3, <<>>, <<Reply(c.param), Newkeys>>)
  BY <1>2, <1>6, <1>8, Swap DEF kc, ks
<1>. QED
  BY <1>5, <1>6, <1>9 DEF Same, Now, ServerKeyed

(* The server reads the client's NEWKEYS. *)
LEMMA ServerFinishes ==
  ASSUME NEW c \in Sshsession, NEW s \in Sshsession, c.party = "client", s.party = "server",
         strict \in BOOLEAN, guess \in [1 .. MaxKex -> BOOLEAN],
         Both(c, s, 3, 3, <<Newkeys>>, <<Newkeys>>),
         c.kexes = s.kexes, NewKey(c, s), c.transkey = s.transkey,
         c.wire # <<>>, Head(c.wire).type # "data",
         NEW t, t = Reads(s, Head(c.wire))
  PROVE  ServerDone(Peeled(c), t) /\ t \in Sshsession /\ t.party = s.party
<1>. DEFINE kc == <<Newkeys>>
            ks == <<Newkeys>>
<1>1. /\ c.param \in Nat /\ Init_(c.param) \in KexMsg /\ Reply(c.param) \in KexMsg
      /\ Kexinit \in KexMsg /\ Newkeys \in KexMsg
      /\ <<>> \in Seq(KexMsg) /\ kc \in Seq(KexMsg) /\ ks \in Seq(KexMsg)
  BY Messages, Types
<1>2. /\ Head(kc) = Newkeys /\ Tail(kc) = <<>>
  BY <1>1, Lists
<1>. HIDE DEF kc, ks
<1>3. Both(s, c, 3, 3, ks, kc)
  BY Swap DEF kc, ks
<1>4. Head(c.wire).type = "newkeys"
  BY <1>1, <1>2, <1>3, ReadsHead, Contents DEF Both
<1>5. Same(Peeled(c), c)
  BY <1>3, PeerStays, Zenon DEF Both, Same, Now
<1>6. Both(t, Peeled(c), 0, 3, ks, Tail(kc)) /\ Now(t, s, s.kexes, s.param, s.transkey)
  BY <1>1, <1>2, <1>3, <1>4, FinishesOne
<1>7. Both(Peeled(c), t, 3, 0, <<>>, <<Newkeys>>)
  BY <1>2, <1>6, Swap DEF kc, ks
<1>. QED
  BY <1>5, <1>6, <1>7 DEF Same, Now, ServerDone, NewKey

(* The client has read its own before ... *)
LEMMA ServerFinishesLast ==
  ASSUME NEW c \in Sshsession, NEW s \in Sshsession, c.party = "client", s.party = "server",
         strict \in BOOLEAN, guess \in [1 .. MaxKex -> BOOLEAN],
         Both(c, s, 0, 3, <<Newkeys>>, <<>>),
         c.kexes = s.kexes, NewKey(c, s), c.transkey = s.transkey,
         c.wire # <<>>, Head(c.wire).type # "data",
         NEW t, t = Reads(s, Head(c.wire))
  PROVE  Idle(Peeled(c), t) /\ t \in Sshsession /\ t.party = s.party
<1>. DEFINE kc == <<Newkeys>>
            ks == <<>>
<1>1. /\ c.param \in Nat /\ Init_(c.param) \in KexMsg /\ Reply(c.param) \in KexMsg
      /\ Kexinit \in KexMsg /\ Newkeys \in KexMsg
      /\ <<>> \in Seq(KexMsg) /\ kc \in Seq(KexMsg) /\ ks \in Seq(KexMsg)
  BY Messages, Types
<1>2. /\ Head(kc) = Newkeys /\ Tail(kc) = <<>>
  BY <1>1, Lists
<1>. HIDE DEF kc, ks
<1>3. Both(s, c, 3, 0, ks, kc)
  BY Swap DEF kc, ks
<1>4. Head(c.wire).type = "newkeys"
  BY <1>1, <1>2, <1>3, ReadsHead, Contents DEF Both
<1>5. Same(Peeled(c), c)
  BY <1>3, PeerStays, Zenon DEF Both, Same, Now
<1>6. Both(t, Peeled(c), 0, 0, ks, Tail(kc)) /\ Now(t, s, s.kexes, s.param, s.transkey)
  BY <1>1, <1>2, <1>3, <1>4, FinishesOne
<1>7. Both(Peeled(c), t, 0, 0, <<>>, <<>>)
  BY <1>2, <1>6, Swap DEF kc, ks
<1>. QED
  BY <1>5, <1>6, <1>7 DEF Same, Now, Idle, NewKey

(* ... and opened another exchange. *)
LEMMA ServerFinishesLate ==
  ASSUME NEW c \in Sshsession, NEW s \in Sshsession, c.party = "client", s.party = "server",
         strict \in BOOLEAN, guess \in [1 .. MaxKex -> BOOLEAN],
         Both(c, s, 1, 3, <<Newkeys, Kexinit, Init_(c.param)>>, <<>>),
         c.kexes = s.kexes + 1, c.donefirstkex, c.transkey = s.transkey,
         c.wire # <<>>, Head(c.wire).type # "data",
         NEW t, t = Reads(s, Head(c.wire))
  PROVE  ClientOpens(Peeled(c), t) /\ t \in Sshsession /\ t.party = s.party
<1>. DEFINE kc == <<Newkeys, Kexinit, Init_(c.param)>>
            ks == <<>>
<1>1. /\ c.param \in Nat /\ Init_(c.param) \in KexMsg /\ Reply(c.param) \in KexMsg
      /\ Kexinit \in KexMsg /\ Newkeys \in KexMsg
      /\ <<>> \in Seq(KexMsg) /\ kc \in Seq(KexMsg) /\ ks \in Seq(KexMsg)
  BY Messages, Types
<1>2. /\ Head(kc) = Newkeys /\ Tail(kc) = <<Kexinit, Init_(c.param)>>
  BY <1>1, Lists
<1>. HIDE DEF kc, ks
<1>3. Both(s, c, 3, 1, ks, kc)
  BY Swap DEF kc, ks
<1>4. Head(c.wire).type = "newkeys"
  BY <1>1, <1>2, <1>3, ReadsHead, Contents DEF Both
<1>5. Same(Peeled(c), c)
  BY <1>3, PeerStays, Zenon DEF Both, Same, Now
<1>6. Both(t, Peeled(c), 0, 1, ks, Tail(kc)) /\ Now(t, s, s.kexes, s.param, s.transkey)
  BY <1>1, <1>2, <1>3, <1>4, FinishesOne
<1>7. Both(Peeled(c), t, 1, 0, <<Kexinit, Init_(c.param)>>, <<>>)
  BY <1>2, <1>6, Swap DEF kc, ks
<1>. QED
  BY <1>5, <1>6, <1>7 DEF Same, Now, ClientOpens

(* The client opens an exchange ... *)
LEMMA ClientOpensIdle ==
  ASSUME NEW c \in Sshsession, NEW s \in Sshsession, c.party = "client", s.party = "server",
         Idle(c, s), c.kexes < MaxKex, NEW t, t = send_msg_kexinit(c)
  PROVE  ClientOpens(t, s) /\ t \in Sshsession /\ t.party = c.party
<1>. DEFINE kc == <<>>
            ks == <<>>
<1>1. /\ c.param \in Nat /\ Init_(c.param) \in KexMsg
      /\ Kexinit \in KexMsg /\ Newkeys \in KexMsg
      /\ <<>> \in Seq(KexMsg) /\ kc \in Seq(KexMsg) /\ ks \in Seq(KexMsg)
      /\ c.kexes \in Nat /\ s.kexes \in Nat
  BY Messages, Types
<1>. HIDE DEF kc, ks
<1>2. Both(c, s, 0, 0, kc, ks)
  BY DEF Idle, kc, ks
<1>3. Both(c, s, 0, 0, kc, ks)
  BY <1>2
<1>4. /\ Both(t, s, 1, 0, Append(Append(kc, Kexinit), Init_(t.param)), ks)
      /\ Now(t, c, c.kexes + 1, c.param + 1, c.transkey) /\ t.donefirstkex
  BY <1>1, <1>3, ClientOpensOne
<1>5. Append(Append(kc, Kexinit), Init_(t.param)) = <<Kexinit, Init_(t.param)>>
  <2>1. Init_(t.param) \in KexMsg
    BY <1>1, <1>4, Messages DEF Now
  <2>2. Append(kc, Kexinit) = <<Kexinit>>
    BY <1>1, Lists DEF kc
  <2>. QED
    BY <1>1, <2>1, <2>2, Lists
<1>6. Both(t, s, 1, 0, <<Kexinit, Init_(t.param)>>, <<>>)
  BY <1>4, <1>5 DEF kc, ks
<1>. QED
  BY <1>1, <1>4, <1>6 DEF Now, Idle, ClientOpens

(* ... or answers the server, or both open it at once ... *)
LEMMA ClientOpensToo ==
  ASSUME NEW c \in Sshsession, NEW s \in Sshsession, c.party = "client", s.party = "server",
         ServerOpens(c, s), c.kexes < MaxKex, NEW t, t = send_msg_kexinit(c)
  PROVE  BothOpen(t, s) /\ t \in Sshsession /\ t.party = c.party
<1>. DEFINE kc == <<>>
            ks == <<Kexinit>>
<1>1. /\ c.param \in Nat /\ Init_(c.param) \in KexMsg
      /\ Kexinit \in KexMsg /\ Newkeys \in KexMsg
      /\ <<>> \in Seq(KexMsg) /\ kc \in Seq(KexMsg) /\ ks \in Seq(KexMsg)
      /\ c.kexes \in Nat /\ s.kexes \in Nat
  BY Messages, Types
<1>. HIDE DEF kc, ks
<1>2. Both(c, s, 0, 1, kc, ks)
  BY DEF ServerOpens, kc, ks
<1>3. Both(c, s, 0, 1, kc, ks)
  BY <1>2
<1>4. /\ Both(t, s, 1, 1, Append(Append(kc, Kexinit), Init_(t.param)), ks)
      /\ Now(t, c, c.kexes + 1, c.param + 1, c.transkey) /\ t.donefirstkex
  BY <1>1, <1>3, ClientOpensOne
<1>5. Append(Append(kc, Kexinit), Init_(t.param)) = <<Kexinit, Init_(t.param)>>
  <2>1. Init_(t.param) \in KexMsg
    BY <1>1, <1>4, Messages DEF Now
  <2>2. Append(kc, Kexinit) = <<Kexinit>>
    BY <1>1, Lists DEF kc
  <2>. QED
    BY <1>1, <2>1, <2>2, Lists
<1>6. Both(t, s, 1, 1, <<Kexinit, Init_(t.param)>>, <<Kexinit>>)
  BY <1>4, <1>5 DEF kc, ks
<1>. QED
  BY <1>1, <1>4, <1>6 DEF Now, ServerOpens, BothOpen

(* ... or opens the next one early. *)
LEMMA ClientOpensNext ==
  ASSUME NEW c \in Sshsession, NEW s \in Sshsession, c.party = "client", s.party = "server",
         ClientDone(c, s), c.kexes < MaxKex, NEW t, t = send_msg_kexinit(c)
  PROVE  ClientReopens(t, s) /\ t \in Sshsession /\ t.party = c.party
<1>. DEFINE kc == <<Newkeys>>
            ks == <<>>
<1>1. /\ c.param \in Nat /\ Init_(c.param) \in KexMsg
      /\ Kexinit \in KexMsg /\ Newkeys \in KexMsg
      /\ <<>> \in Seq(KexMsg) /\ kc \in Seq(KexMsg) /\ ks \in Seq(KexMsg)
      /\ c.kexes \in Nat /\ s.kexes \in Nat
  BY Messages, Types
<1>. HIDE DEF kc, ks
<1>2. Both(c, s, 0, 3, kc, ks)
  BY DEF ClientDone, kc, ks
<1>3. Both(c, s, 0, 3, kc, ks)
  BY <1>2
<1>4. /\ Both(t, s, 1, 3, Append(Append(kc, Kexinit), Init_(t.param)), ks)
      /\ Now(t, c, c.kexes + 1, c.param + 1, c.transkey) /\ t.donefirstkex
  BY <1>1, <1>3, ClientOpensOne
<1>5. Append(Append(kc, Kexinit), Init_(t.param)) = <<Newkeys, Kexinit, Init_(t.param)>>
  <2>1. Init_(t.param) \in KexMsg
    BY <1>1, <1>4, Messages DEF Now
  <2>2. Append(kc, Kexinit) = <<Newkeys, Kexinit>>
    BY <1>1, Lists DEF kc
  <2>. QED
    BY <1>1, <2>1, <2>2, Lists
<1>6. Both(t, s, 1, 3, <<Newkeys, Kexinit, Init_(t.param)>>, <<>>)
  BY <1>4, <1>5 DEF kc, ks
<1>. QED
  BY <1>1, <1>4, <1>6 DEF Now, ClientDone, ClientReopens, NewKey

(* The same of the server. *)
LEMMA ServerOpensIdle ==
  ASSUME NEW c \in Sshsession, NEW s \in Sshsession, c.party = "client", s.party = "server",
         Idle(c, s), s.kexes < MaxKex, NEW t, t = send_msg_kexinit(s)
  PROVE  ServerOpens(c, t) /\ t \in Sshsession /\ t.party = s.party
<1>. DEFINE kc == <<>>
            ks == <<>>
<1>1. /\ c.param \in Nat /\ Init_(c.param) \in KexMsg
      /\ Kexinit \in KexMsg /\ Newkeys \in KexMsg
      /\ <<>> \in Seq(KexMsg) /\ kc \in Seq(KexMsg) /\ ks \in Seq(KexMsg)
      /\ c.kexes \in Nat /\ s.kexes \in Nat
  BY Messages, Types
<1>. HIDE DEF kc, ks
<1>2. Both(c, s, 0, 0, kc, ks)
  BY DEF Idle, kc, ks
<1>3. Both(s, c, 0, 0, ks, kc)
  BY <1>2, Swap
<1>4. /\ Both(t, c, 1, 0, Append(ks, Kexinit), kc)
      /\ Now(t, s, s.kexes + 1, s.param, s.transkey) /\ t.donefirstkex
  BY <1>1, <1>3, ServerOpensOne
<1>5. Append(ks, Kexinit) = <<Kexinit>>
  BY <1>1, Lists DEF ks
<1>6. Both(c, t, 0, 1, <<>>, <<Kexinit>>)
  BY <1>4, <1>5, Swap DEF kc, ks
<1>. QED
  BY <1>1, <1>4, <1>6 DEF Now, Idle, ServerOpens

(* It opens the exchange the client has opened. *)
LEMMA ServerOpensToo ==
  ASSUME NEW c \in Sshsession, NEW s \in Sshsession, c.party = "client", s.party = "server",
         ClientOpens(c, s), s.kexes < MaxKex, NEW t, t = send_msg_kexinit(s)
  PROVE  BothOpen(c, t) /\ t \in Sshsession /\ t.party = s.party
<1>. DEFINE kc == <<Kexinit, Init_(c.param)>>
            ks == <<>>
<1>1. /\ c.param \in Nat /\ Init_(c.param) \in KexMsg
      /\ Kexinit \in KexMsg /\ Newkeys \in KexMsg
      /\ <<>> \in Seq(KexMsg) /\ kc \in Seq(KexMsg) /\ ks \in Seq(KexMsg)
      /\ c.kexes \in Nat /\ s.kexes \in Nat
  BY Messages, Types
<1>. HIDE DEF kc, ks
<1>2. Both(c, s, 1, 0, kc, ks)
  BY DEF ClientOpens, kc, ks
<1>3. Both(s, c, 0, 1, ks, kc)
  BY <1>2, Swap
<1>4. /\ Both(t, c, 1, 1, Append(ks, Kexinit), kc)
      /\ Now(t, s, s.kexes + 1, s.param, s.transkey) /\ t.donefirstkex
  BY <1>1, <1>3, ServerOpensOne
<1>5. Append(ks, Kexinit) = <<Kexinit>>
  BY <1>1, Lists DEF ks
<1>6. Both(c, t, 1, 1, <<Kexinit, Init_(c.param)>>, <<Kexinit>>)
  BY <1>4, <1>5, Swap DEF kc, ks
<1>. QED
  BY <1>1, <1>4, <1>6 DEF Now, ClientOpens, BothOpen

(* It opens the next one early. *)
LEMMA ServerOpensNext ==
  ASSUME NEW c \in Sshsession, NEW s \in Sshsession, c.party = "client", s.party = "server",
         ServerDone(c, s), s.kexes < MaxKex, NEW t, t = send_msg_kexinit(s)
  PROVE  ServerReopens(c, t) /\ t \in Sshsession /\ t.party = s.party
<1>. DEFINE kc == <<>>
            ks == <<Newkeys>>
<1>1. /\ c.param \in Nat /\ Init_(c.param) \in KexMsg
      /\ Kexinit \in KexMsg /\ Newkeys \in KexMsg
      /\ <<>> \in Seq(KexMsg) /\ kc \in Seq(KexMsg) /\ ks \in Seq(KexMsg)
      /\ c.kexes \in Nat /\ s.kexes \in Nat
  BY Messages, Types
<1>. HIDE DEF kc, ks
<1>2. Both(c, s, 3, 0, kc, ks)
  BY DEF ServerDone, kc, ks
<1>3. Both(s, c, 0, 3, ks, kc)
  BY <1>2, Swap
<1>4. /\ Both(t, c, 1, 3, Append(ks, Kexinit), kc)
      /\ Now(t, s, s.kexes + 1, s.param, s.transkey) /\ t.donefirstkex
  BY <1>1, <1>3, ServerOpensOne
<1>5. Append(ks, Kexinit) = <<Newkeys, Kexinit>>
  BY <1>1, Lists DEF ks
<1>6. Both(c, t, 3, 1, <<>>, <<Newkeys, Kexinit>>)
  BY <1>4, <1>5, Swap DEF kc, ks
<1>. QED
  BY <1>1, <1>4, <1>6 DEF Now, ServerDone, ServerReopens, NewKey

(* What the packets of the layers above leave as it is.  A party that may   *)
(* send them has NEWKEYS last on its wire, or nothing of an exchange and a  *)
(* peer that takes any packet.                                              *)
Fits(c, s, i, j, kc, ks) ==
  /\ i \in {0, 1, 2, 3} /\ j \in {0, 1, 2, 3}
  /\ kc \in Seq(KexMsg) /\ Len(kc) <= 3 /\ ks \in Seq(KexMsg) /\ Len(ks) <= 3
  /\ i \in {0, 3} => Ends(kc) /\ (kc = <<>> => s.requirenext = "any")
  /\ j \in {0, 3} => Ends(ks) /\ (ks = <<>> => c.requirenext = "any")

(* The short lists. *)
LEMMA Short ==
  /\ Len(<<>>) <= 3
  /\ \A a \in KexMsg : Len(<<a>>) <= 3 /\ <<a>> # <<>>
  /\ \A a \in KexMsg, b \in KexMsg : Len(<<a, b>>) <= 3 /\ <<a, b>> # <<>>
  /\ \A a \in KexMsg, b \in KexMsg, d \in KexMsg :
       Len(<<a, b, d>>) <= 3 /\ <<a, b, d>> # <<>>
OBVIOUS

(* Between exchanges, and in a later one, a party takes any packet. *)
LEMMA TakesAny ==
  ASSUME NEW a, NEW i \in {0, 1}, Stage(a, i), i = 1 => a.donefirstkex
  PROVE  a.requirenext = "any"
BY DEF Stage, Required

(* Every row fits. *)
LEMMA RowsFit ==
  ASSUME NEW c \in Sshsession, NEW s \in Sshsession, Joint(c, s)
  PROVE  \E i, j, kc, ks : Fits(c, s, i, j, kc, ks) /\ Both(c, s, i, j, kc, ks)
<1>1. /\ Kexinit \in KexMsg /\ Newkeys \in KexMsg /\ c.param \in Nat
      /\ \A e \in 0 .. c.param : e \in Nat /\ Init_(e) \in KexMsg
      /\ Init_(c.param) \in KexMsg /\ Reply(c.param) \in KexMsg
  BY Messages, Types
<1>2. CASE Idle(c, s)
  <2>1. Both(c, s, 0, 0, <<>>, <<>>)
    BY <1>2 DEF Idle
  <2>2. Fits(c, s, 0, 0, <<>>, <<>>)
    BY <1>1, <1>2, <2>1, Messages, Short, ListEnds, TakesAny DEF Fits, Both, Idle
  <2>. QED
    BY <2>1, <2>2
<1>3. CASE ClientOpens(c, s)
  <2>1. Both(c, s, 1, 0, <<Kexinit, Init_(c.param)>>, <<>>)
    BY <1>3 DEF ClientOpens
  <2>2. Fits(c, s, 1, 0, <<Kexinit, Init_(c.param)>>, <<>>)
    BY <1>1, <1>3, <2>1, Messages, Short, ListEnds, TakesAny DEF Fits, Both, ClientOpens
  <2>. QED
    BY <2>1, <2>2
<1>4. CASE ServerOpens(c, s)
  <2>1. Both(c, s, 0, 1, <<>>, <<Kexinit>>)
    BY <1>4 DEF ServerOpens
  <2>2. Fits(c, s, 0, 1, <<>>, <<Kexinit>>)
    BY <1>1, <1>4, <2>1, Messages, Short, ListEnds, TakesAny DEF Fits, Both, ServerOpens
  <2>. QED
    BY <2>1, <2>2
<1>5. CASE BothOpen(c, s)
  <2>1. Both(c, s, 1, 1, <<Kexinit, Init_(c.param)>>, <<Kexinit>>)
    BY <1>5 DEF BothOpen
  <2>2. Fits(c, s, 1, 1, <<Kexinit, Init_(c.param)>>, <<Kexinit>>)
    BY <1>1, <1>5, <2>1, Messages, Short, ListEnds, TakesAny DEF Fits, Both, BothOpen
  <2>. QED
    BY <2>1, <2>2
<1>6. CASE ServerAhead(c, s)
  <2>1. Both(c, s, 1, 3, <<>>, <<Kexinit, Reply(c.param), Newkeys>>)
    BY <1>6 DEF ServerAhead
  <2>2. Fits(c, s, 1, 3, <<>>, <<Kexinit, Reply(c.param), Newkeys>>)
    BY <1>1, <1>6, <2>1, Messages, Short, ListEnds, TakesAny DEF Fits, Both, ServerAhead
  <2>. QED
    BY <2>1, <2>2
<1>7. CASE ServerKeyed(c, s)
  <2>1. Both(c, s, 2, 3, <<>>, <<Reply(c.param), Newkeys>>)
    BY <1>7 DEF ServerKeyed
  <2>2. Fits(c, s, 2, 3, <<>>, <<Reply(c.param), Newkeys>>)
    BY <1>1, <1>7, <2>1, Messages, Short, ListEnds, TakesAny DEF Fits, Both, ServerKeyed
  <2>. QED
    BY <2>1, <2>2
<1>8. CASE BothKeyed(c, s)
  <2>1. Both(c, s, 3, 3, <<Newkeys>>, <<Newkeys>>)
    BY <1>8 DEF BothKeyed
  <2>2. Fits(c, s, 3, 3, <<Newkeys>>, <<Newkeys>>)
    BY <1>1, <1>8, <2>1, Messages, Short, ListEnds, TakesAny DEF Fits, Both, BothKeyed
  <2>. QED
    BY <2>1, <2>2
<1>9. CASE ClientDone(c, s)
  <2>1. Both(c, s, 0, 3, <<Newkeys>>, <<>>)
    BY <1>9 DEF ClientDone
  <2>2. Fits(c, s, 0, 3, <<Newkeys>>, <<>>)
    BY <1>1, <1>9, <2>1, Messages, Short, ListEnds, TakesAny DEF Fits, Both, ClientDone
  <2>. QED
    BY <2>1, <2>2
<1>10. CASE ServerDone(c, s)
  <2>1. Both(c, s, 3, 0, <<>>, <<Newkeys>>)
    BY <1>10 DEF ServerDone
  <2>2. Fits(c, s, 3, 0, <<>>, <<Newkeys>>)
    BY <1>1, <1>10, <2>1, Messages, Short, ListEnds, TakesAny DEF Fits, Both, ServerDone
  <2>. QED
    BY <2>1, <2>2
<1>11. CASE ClientReopens(c, s)
  <2>1. Both(c, s, 1, 3, <<Newkeys, Kexinit, Init_(c.param)>>, <<>>)
    BY <1>11 DEF ClientReopens
  <2>2. Fits(c, s, 1, 3, <<Newkeys, Kexinit, Init_(c.param)>>, <<>>)
    BY <1>1, <1>11, <2>1, Messages, Short, ListEnds, TakesAny DEF Fits, Both, ClientReopens
  <2>. QED
    BY <2>1, <2>2
<1>12. CASE ServerReopens(c, s)
  <2>1. Both(c, s, 3, 1, <<>>, <<Newkeys, Kexinit>>)
    BY <1>12 DEF ServerReopens
  <2>2. Fits(c, s, 3, 1, <<>>, <<Newkeys, Kexinit>>)
    BY <1>1, <1>12, <2>1, Messages, Short, ListEnds, TakesAny DEF Fits, Both, ServerReopens
  <2>. QED
    BY <2>1, <2>2
<1>13. CASE ServerAgrees(c, s)
  <2>1. ASSUME Both(c, s, 1, 2, <<Init_(c.param)>>, <<Kexinit>>)
        PROVE  \E x, y, kc, ks : Fits(c, s, x, y, kc, ks) /\ Both(c, s, x, y, kc, ks)
    <3>1. Fits(c, s, 1, 2, <<Init_(c.param)>>, <<Kexinit>>)
      BY <1>1, Messages, Short, ListEnds DEF Fits
    <3>. QED
      BY <2>1, <3>1
  <2>2. ASSUME Both(c, s, 1, 2, <<>>, <<Kexinit>>)
        PROVE  \E x, y, kc, ks : Fits(c, s, x, y, kc, ks) /\ Both(c, s, x, y, kc, ks)
    <3>1. Fits(c, s, 1, 2, <<>>, <<Kexinit>>)
      BY <1>1, Messages, Short, ListEnds DEF Fits
    <3>. QED
      BY <2>2, <3>1
  <2>. QED
    BY <1>13, <2>1, <2>2 DEF ServerAgrees
<1>14. CASE ClientAgrees(c, s)
  <2>1. ASSUME Both(c, s, 2, 1, <<Kexinit, Init_(c.param)>>, <<>>)
        PROVE  \E x, y, kc, ks : Fits(c, s, x, y, kc, ks) /\ Both(c, s, x, y, kc, ks)
    <3>1. Fits(c, s, 2, 1, <<Kexinit, Init_(c.param)>>, <<>>)
      BY <1>1, Messages, Short, ListEnds DEF Fits
    <3>. QED
      BY <2>1, <3>1
  <2>2. ASSUME NEW e \in 0 .. c.param,
             Both(c, s, 2, 1, <<Kexinit, Init_(e), Init_(c.param)>>, <<>>)
        PROVE  \E x, y, kc, ks : Fits(c, s, x, y, kc, ks) /\ Both(c, s, x, y, kc, ks)
    <3>1. Fits(c, s, 2, 1, <<Kexinit, Init_(e), Init_(c.param)>>, <<>>)
      BY <1>1, Messages, Short, ListEnds DEF Fits
    <3>. QED
      BY <2>2, <3>1
  <2>. QED
    BY <1>14, <2>1, <2>2 DEF ClientAgrees
<1>15. CASE BothAgree(c, s)
  <2>1. ASSUME Both(c, s, 2, 2, <<Init_(c.param)>>, <<>>)
        PROVE  \E x, y, kc, ks : Fits(c, s, x, y, kc, ks) /\ Both(c, s, x, y, kc, ks)
    <3>1. Fits(c, s, 2, 2, <<Init_(c.param)>>, <<>>)
      BY <1>1, Messages, Short, ListEnds DEF Fits
    <3>. QED
      BY <2>1, <3>1
  <2>2. ASSUME NEW e \in 0 .. c.param,
             Both(c, s, 2, 2, <<Init_(e), Init_(c.param)>>, <<>>)
        PROVE  \E x, y, kc, ks : Fits(c, s, x, y, kc, ks) /\ Both(c, s, x, y, kc, ks)
    <3>1. Fits(c, s, 2, 2, <<Init_(e), Init_(c.param)>>, <<>>)
      BY <1>1, Messages, Short, ListEnds DEF Fits
    <3>. QED
      BY <2>2, <3>1
  <2>. QED
    BY <1>15, <2>1, <2>2 DEF BothAgree
<1>. QED
  BY <1>2, <1>3, <1>4, <1>5, <1>6, <1>7, <1>8, <1>9, <1>10, <1>11, <1>12, <1>13, <1>14,
     <1>15 DEF Joint

(* And stays. *)
LEMMA RowsKept ==
  ASSUME NEW c \in Sshsession, NEW s \in Sshsession, NEW d, NEW t,
         Joint(c, s), Same(d, c), Same(t, s),
         \A i, j, kc, ks :
           Fits(c, s, i, j, kc, ks) /\ Both(c, s, i, j, kc, ks) => Both(d, t, i, j, kc, ks)
  PROVE  Joint(d, t)
<1>1. /\ Kexinit \in KexMsg /\ Newkeys \in KexMsg /\ c.param \in Nat
      /\ \A n \in Nat : Init_(n) \in KexMsg /\ Reply(n) \in KexMsg
      /\ \A e \in 0 .. c.param : e \in Nat
      /\ Init_(c.param) \in KexMsg /\ Reply(c.param) \in KexMsg
  BY Messages, Types
<1>2. /\ d.kexes = c.kexes /\ d.param = c.param /\ d.transkey = c.transkey
      /\ d.ignorenext = c.ignorenext /\ d.donefirstkex = c.donefirstkex
      /\ t.kexes = s.kexes /\ t.param = s.param /\ t.transkey = s.transkey
      /\ t.ignorenext = s.ignorenext /\ t.donefirstkex = s.donefirstkex
  BY DEF Same, Now
<1>3. Good(d) <=> Good(c)
  BY <1>2 DEF Good
<1>4. CASE Idle(c, s)
  <2>1. Both(c, s, 0, 0, <<>>, <<>>)
    BY <1>4 DEF Idle
  <2>2. Fits(c, s, 0, 0, <<>>, <<>>)
    BY <1>1, <1>4, <2>1, Messages, Short, ListEnds, TakesAny DEF Fits, Both, Idle
  <2>3. Both(d, t, 0, 0, <<>>, <<>>)
    BY <2>1, <2>2
  <2>. QED
    BY <1>2, <1>3, <1>4, <2>3 DEF Joint, NewKey, Idle
<1>5. CASE ClientOpens(c, s)
  <2>1. Both(c, s, 1, 0, <<Kexinit, Init_(c.param)>>, <<>>)
    BY <1>5 DEF ClientOpens
  <2>2. Fits(c, s, 1, 0, <<Kexinit, Init_(c.param)>>, <<>>)
    BY <1>1, <1>5, <2>1, Messages, Short, ListEnds, TakesAny DEF Fits, Both, ClientOpens
  <2>3. Both(d, t, 1, 0, <<Kexinit, Init_(c.param)>>, <<>>)
    BY <2>1, <2>2
  <2>. QED
    BY <1>2, <1>3, <1>5, <2>3 DEF Joint, NewKey, ClientOpens
<1>6. CASE ServerOpens(c, s)
  <2>1. Both(c, s, 0, 1, <<>>, <<Kexinit>>)
    BY <1>6 DEF ServerOpens
  <2>2. Fits(c, s, 0, 1, <<>>, <<Kexinit>>)
    BY <1>1, <1>6, <2>1, Messages, Short, ListEnds, TakesAny DEF Fits, Both, ServerOpens
  <2>3. Both(d, t, 0, 1, <<>>, <<Kexinit>>)
    BY <2>1, <2>2
  <2>. QED
    BY <1>2, <1>3, <1>6, <2>3 DEF Joint, NewKey, ServerOpens
<1>7. CASE BothOpen(c, s)
  <2>1. Both(c, s, 1, 1, <<Kexinit, Init_(c.param)>>, <<Kexinit>>)
    BY <1>7 DEF BothOpen
  <2>2. Fits(c, s, 1, 1, <<Kexinit, Init_(c.param)>>, <<Kexinit>>)
    BY <1>1, <1>7, <2>1, Messages, Short, ListEnds, TakesAny DEF Fits, Both, BothOpen
  <2>3. Both(d, t, 1, 1, <<Kexinit, Init_(c.param)>>, <<Kexinit>>)
    BY <2>1, <2>2
  <2>. QED
    BY <1>2, <1>3, <1>7, <2>3 DEF Joint, NewKey, BothOpen
<1>8. CASE ServerAhead(c, s)
  <2>1. Both(c, s, 1, 3, <<>>, <<Kexinit, Reply(c.param), Newkeys>>)
    BY <1>8 DEF ServerAhead
  <2>2. Fits(c, s, 1, 3, <<>>, <<Kexinit, Reply(c.param), Newkeys>>)
    BY <1>1, <1>8, <2>1, Messages, Short, ListEnds, TakesAny DEF Fits, Both, ServerAhead
  <2>3. Both(d, t, 1, 3, <<>>, <<Kexinit, Reply(c.param), Newkeys>>)
    BY <2>1, <2>2
  <2>. QED
    BY <1>2, <1>3, <1>8, <2>3 DEF Joint, NewKey, ServerAhead
<1>9. CASE ServerKeyed(c, s)
  <2>1. Both(c, s, 2, 3, <<>>, <<Reply(c.param), Newkeys>>)
    BY <1>9 DEF ServerKeyed
  <2>2. Fits(c, s, 2, 3, <<>>, <<Reply(c.param), Newkeys>>)
    BY <1>1, <1>9, <2>1, Messages, Short, ListEnds, TakesAny DEF Fits, Both, ServerKeyed
  <2>3. Both(d, t, 2, 3, <<>>, <<Reply(c.param), Newkeys>>)
    BY <2>1, <2>2
  <2>. QED
    BY <1>2, <1>3, <1>9, <2>3 DEF Joint, NewKey, ServerKeyed
<1>10. CASE BothKeyed(c, s)
  <2>1. Both(c, s, 3, 3, <<Newkeys>>, <<Newkeys>>)
    BY <1>10 DEF BothKeyed
  <2>2. Fits(c, s, 3, 3, <<Newkeys>>, <<Newkeys>>)
    BY <1>1, <1>10, <2>1, Messages, Short, ListEnds, TakesAny DEF Fits, Both, BothKeyed
  <2>3. Both(d, t, 3, 3, <<Newkeys>>, <<Newkeys>>)
    BY <2>1, <2>2
  <2>. QED
    BY <1>2, <1>3, <1>10, <2>3 DEF Joint, NewKey, BothKeyed
<1>11. CASE ClientDone(c, s)
  <2>1. Both(c, s, 0, 3, <<Newkeys>>, <<>>)
    BY <1>11 DEF ClientDone
  <2>2. Fits(c, s, 0, 3, <<Newkeys>>, <<>>)
    BY <1>1, <1>11, <2>1, Messages, Short, ListEnds, TakesAny DEF Fits, Both, ClientDone
  <2>3. Both(d, t, 0, 3, <<Newkeys>>, <<>>)
    BY <2>1, <2>2
  <2>. QED
    BY <1>2, <1>3, <1>11, <2>3 DEF Joint, NewKey, ClientDone
<1>12. CASE ServerDone(c, s)
  <2>1. Both(c, s, 3, 0, <<>>, <<Newkeys>>)
    BY <1>12 DEF ServerDone
  <2>2. Fits(c, s, 3, 0, <<>>, <<Newkeys>>)
    BY <1>1, <1>12, <2>1, Messages, Short, ListEnds, TakesAny DEF Fits, Both, ServerDone
  <2>3. Both(d, t, 3, 0, <<>>, <<Newkeys>>)
    BY <2>1, <2>2
  <2>. QED
    BY <1>2, <1>3, <1>12, <2>3 DEF Joint, NewKey, ServerDone
<1>13. CASE ClientReopens(c, s)
  <2>1. Both(c, s, 1, 3, <<Newkeys, Kexinit, Init_(c.param)>>, <<>>)
    BY <1>13 DEF ClientReopens
  <2>2. Fits(c, s, 1, 3, <<Newkeys, Kexinit, Init_(c.param)>>, <<>>)
    BY <1>1, <1>13, <2>1, Messages, Short, ListEnds, TakesAny DEF Fits, Both, ClientReopens
  <2>3. Both(d, t, 1, 3, <<Newkeys, Kexinit, Init_(c.param)>>, <<>>)
    BY <2>1, <2>2
  <2>. QED
    BY <1>2, <1>3, <1>13, <2>3 DEF Joint, NewKey, ClientReopens
<1>14. CASE ServerReopens(c, s)
  <2>1. Both(c, s, 3, 1, <<>>, <<Newkeys, Kexinit>>)
    BY <1>14 DEF ServerReopens
  <2>2. Fits(c, s, 3, 1, <<>>, <<Newkeys, Kexinit>>)
    BY <1>1, <1>14, <2>1, Messages, Short, ListEnds, TakesAny DEF Fits, Both, ServerReopens
  <2>3. Both(d, t, 3, 1, <<>>, <<Newkeys, Kexinit>>)
    BY <2>1, <2>2
  <2>. QED
    BY <1>2, <1>3, <1>14, <2>3 DEF Joint, NewKey, ServerReopens
<1>15. CASE ServerAgrees(c, s)
  <2>1. ASSUME Both(c, s, 1, 2, <<Init_(c.param)>>, <<Kexinit>>)
      PROVE  Both(d, t, 1, 2, <<Init_(c.param)>>, <<Kexinit>>)
    <3>1. Fits(c, s, 1, 2, <<Init_(c.param)>>, <<Kexinit>>)
      BY <1>1, Messages, Short, ListEnds DEF Fits
    <3>. QED
      BY <2>1, <3>1
  <2>2. ASSUME Both(c, s, 1, 2, <<>>, <<Kexinit>>)
      PROVE  Both(d, t, 1, 2, <<>>, <<Kexinit>>)
    <3>1. Fits(c, s, 1, 2, <<>>, <<Kexinit>>)
      BY <1>1, Messages, Short, ListEnds DEF Fits
    <3>. QED
      BY <2>2, <3>1
  <2>. QED
    BY <1>2, <1>3, <1>15, <2>1, <2>2 DEF Joint, ServerAgrees
<1>16. CASE ClientAgrees(c, s)
  <2>1. ASSUME Both(c, s, 2, 1, <<Kexinit, Init_(c.param)>>, <<>>)
      PROVE  Both(d, t, 2, 1, <<Kexinit, Init_(c.param)>>, <<>>)
    <3>1. Fits(c, s, 2, 1, <<Kexinit, Init_(c.param)>>, <<>>)
      BY <1>1, Messages, Short, ListEnds DEF Fits
    <3>. QED
      BY <2>1, <3>1
  <2>2. ASSUME NEW e \in 0 .. c.param,
             Both(c, s, 2, 1, <<Kexinit, Init_(e), Init_(c.param)>>, <<>>)
      PROVE  Both(d, t, 2, 1, <<Kexinit, Init_(e), Init_(c.param)>>, <<>>)
    <3>1. Init_(e) \in KexMsg
      BY <1>1
    <3>2. Fits(c, s, 2, 1, <<Kexinit, Init_(e), Init_(c.param)>>, <<>>)
      BY <1>1, <3>1, Messages, Short, ListEnds DEF Fits
    <3>. QED
      BY <2>2, <3>2
  <2>. QED
    BY <1>2, <1>3, <1>16, <2>1, <2>2 DEF Joint, ClientAgrees
<1>17. CASE BothAgree(c, s)
  <2>1. ASSUME Both(c, s, 2, 2, <<Init_(c.param)>>, <<>>)
      PROVE  Both(d, t, 2, 2, <<Init_(c.param)>>, <<>>)
    <3>1. Fits(c, s, 2, 2, <<Init_(c.param)>>, <<>>)
      BY <1>1, Messages, Short, ListEnds DEF Fits
    <3>. QED
      BY <2>1, <3>1
  <2>2. ASSUME NEW e \in 0 .. c.param,
             Both(c, s, 2, 2, <<Init_(e), Init_(c.param)>>, <<>>)
      PROVE  Both(d, t, 2, 2, <<Init_(e), Init_(c.param)>>, <<>>)
    <3>1. Init_(e) \in KexMsg
      BY <1>1
    <3>2. Fits(c, s, 2, 2, <<Init_(e), Init_(c.param)>>, <<>>)
      BY <1>1, <3>1, Messages, Short, ListEnds DEF Fits
    <3>. QED
      BY <2>2, <3>2
  <2>. QED
    BY <1>2, <1>3, <1>17, <2>1, <2>2 DEF Joint, BothAgree
<1>. QED
  BY <1>4, <1>5, <1>6, <1>7, <1>8, <1>9, <1>10, <1>11, <1>12, <1>13, <1>14, <1>15, <1>16,
     <1>17 DEF Joint

(* The rows of Joint, by how far a party is. *)
LEMMA Stages ==
  ASSUME NEW a, NEW i \in {0, 1, 2, 3}, Stage(a, i)
  PROVE  /\ ~a.exited /\ (a.sentkexinit <=> i # 0)
         /\ a.dataallowed <=> i \in {0, 3}
BY DEF Stage

(* The rows in which the client has not sent its KEXINIT ... *)
LEMMA ClientClosed ==
  ASSUME NEW c, NEW s, Joint(c, s), ~c.sentkexinit
  PROVE  Idle(c, s) \/ ServerOpens(c, s) \/ ClientDone(c, s)
<1>1. \A kc, ks : \A i, j \in {0, 1, 2, 3} : Both(c, s, i, j, kc, ks) => i = 0
  BY Stages DEF Both
<1>2. ~ClientOpens(c, s)
  BY <1>1 DEF ClientOpens
<1>3. ~BothOpen(c, s)
  BY <1>1 DEF BothOpen
<1>4. ~ServerAgrees(c, s)
  BY <1>1 DEF ServerAgrees
<1>5. ~ClientAgrees(c, s)
  <2>1. ClientAgrees(c, s) => \E kc, ks : Both(c, s, 2, 1, kc, ks)
    BY Zenon DEF ClientAgrees
  <2>. QED
    BY <1>1, <2>1
<1>6. ~BothAgree(c, s)
  <2>1. BothAgree(c, s) => \E kc, ks : Both(c, s, 2, 2, kc, ks)
    BY Zenon DEF BothAgree
  <2>. QED
    BY <1>1, <2>1
<1>7. ~ServerAhead(c, s)
  BY <1>1 DEF ServerAhead
<1>8. ~ServerKeyed(c, s)
  BY <1>1 DEF ServerKeyed
<1>9. ~BothKeyed(c, s)
  BY <1>1 DEF BothKeyed
<1>10. ~ServerDone(c, s)
  BY <1>1 DEF ServerDone
<1>11. ~ClientReopens(c, s)
  BY <1>1 DEF ClientReopens
<1>12. ~ServerReopens(c, s)
  BY <1>1 DEF ServerReopens
<1>. QED
  BY <1>2, <1>3, <1>4, <1>5, <1>6, <1>7, <1>8, <1>9, <1>10, <1>11, <1>12 DEF Joint

(* ... and those in which the server has not. *)
LEMMA ServerClosed ==
  ASSUME NEW c, NEW s, Joint(c, s), ~s.sentkexinit
  PROVE  Idle(c, s) \/ ClientOpens(c, s) \/ ServerDone(c, s)
<1>1. \A kc, ks : \A i, j \in {0, 1, 2, 3} : Both(c, s, i, j, kc, ks) => j = 0
  BY Stages DEF Both
<1>2. ~ServerOpens(c, s)
  BY <1>1 DEF ServerOpens
<1>3. ~BothOpen(c, s)
  BY <1>1 DEF BothOpen
<1>4. ~ServerAgrees(c, s)
  BY <1>1 DEF ServerAgrees
<1>5. ~ClientAgrees(c, s)
  <2>1. ClientAgrees(c, s) => \E kc, ks : Both(c, s, 2, 1, kc, ks)
    BY Zenon DEF ClientAgrees
  <2>. QED
    BY <1>1, <2>1
<1>6. ~BothAgree(c, s)
  <2>1. BothAgree(c, s) => \E kc, ks : Both(c, s, 2, 2, kc, ks)
    BY Zenon DEF BothAgree
  <2>. QED
    BY <1>1, <2>1
<1>7. ~ServerAhead(c, s)
  BY <1>1 DEF ServerAhead
<1>8. ~ServerKeyed(c, s)
  BY <1>1 DEF ServerKeyed
<1>9. ~BothKeyed(c, s)
  BY <1>1 DEF BothKeyed
<1>10. ~ClientDone(c, s)
  BY <1>1 DEF ClientDone
<1>11. ~ClientReopens(c, s)
  BY <1>1 DEF ClientReopens
<1>12. ~ServerReopens(c, s)
  BY <1>1 DEF ServerReopens
<1>. QED
  BY <1>2, <1>3, <1>4, <1>5, <1>6, <1>7, <1>8, <1>9, <1>10, <1>11, <1>12 DEF Joint

(* The client sends its KEXINIT. *)
LEMMA ClientTimesOut ==
  ASSUME NEW c \in Sshsession, NEW s \in Sshsession, c.party = "client", s.party = "server",
         strict \in BOOLEAN, guess \in [1 .. MaxKex -> BOOLEAN], Joint(c, s),
         ~c.sentkexinit, c.kexes < MaxKex, NEW t, t = send_msg_kexinit(c)
  PROVE  Joint(t, s) /\ t \in Sshsession /\ t.party = c.party
<1>1. CASE Idle(c, s)
  BY <1>1, ClientOpensIdle DEF Joint
<1>2. CASE ServerOpens(c, s)
  BY <1>2, ClientOpensToo DEF Joint
<1>3. CASE ClientDone(c, s)
  BY <1>3, ClientOpensNext DEF Joint
<1>. QED
  BY <1>1, <1>2, <1>3, ClientClosed

(* The server sends its KEXINIT. *)
LEMMA ServerTimesOut ==
  ASSUME NEW c \in Sshsession, NEW s \in Sshsession, c.party = "client", s.party = "server",
         strict \in BOOLEAN, guess \in [1 .. MaxKex -> BOOLEAN], Joint(c, s),
         ~s.sentkexinit, s.kexes < MaxKex, NEW t, t = send_msg_kexinit(s)
  PROVE  Joint(c, t) /\ t \in Sshsession /\ t.party = s.party
<1>1. CASE Idle(c, s)
  BY <1>1, ServerOpensIdle DEF Joint
<1>2. CASE ClientOpens(c, s)
  BY <1>2, ServerOpensToo DEF Joint
<1>3. CASE ServerDone(c, s)
  BY <1>3, ServerOpensNext DEF Joint
<1>. QED
  BY <1>1, <1>2, <1>3, ServerClosed

(* The client reads a packet of the layers above. *)
LEMMA ClientReadsData ==
  ASSUME NEW c \in Sshsession, NEW s \in Sshsession, c.party = "client", s.party = "server",
         strict \in BOOLEAN, guess \in [1 .. MaxKex -> BOOLEAN], Joint(c, s),
         s.wire # <<>>, Head(s.wire).type = "data", NEW t, t = Reads(c, Head(s.wire))
  PROVE  Joint(t, Peeled(s)) /\ t \in Sshsession /\ t.party = c.party
<1>1. ASSUME NEW i, NEW j, NEW kc, NEW ks,
             Fits(c, s, i, j, kc, ks), Both(c, s, i, j, kc, ks)
      PROVE  Both(t, Peeled(s), i, j, kc, ks) /\ Same(t, c) /\ Same(Peeled(s), s)
  <2>1. /\ i \in {0, 1, 2, 3} /\ j \in {0, 1, 2, 3}
        /\ kc \in Seq(KexMsg) /\ Len(kc) <= 3 /\ ks \in Seq(KexMsg) /\ Len(ks) <= 3
    BY <1>1 DEF Fits
  <2>2. Both(c, s, i, j, kc, ks)
    BY <1>1
  <2>3. Both(t, Peeled(s), i, j, kc, ks) /\ Same(t, c)
    BY <2>1, <2>2, ReadsDataOne
  <2>4. Same(Peeled(s), s)
    BY <2>1, <2>2, PeerStays, Zenon DEF Both, Same, Now
  <2>. QED
    BY <2>3, <2>4
<1>2. \E i, j, kc, ks : Fits(c, s, i, j, kc, ks) /\ Both(c, s, i, j, kc, ks)
  BY RowsFit
<1>3. Same(t, c) /\ Same(Peeled(s), s)
  BY <1>1, <1>2
<1>4. Joint(t, Peeled(s))
  BY <1>1, <1>3, RowsKept
<1>. QED
  BY <1>3, <1>4 DEF Same, Now

(* The server reads a packet of the layers above. *)
LEMMA ServerReadsData ==
  ASSUME NEW c \in Sshsession, NEW s \in Sshsession, c.party = "client", s.party = "server",
         strict \in BOOLEAN, guess \in [1 .. MaxKex -> BOOLEAN], Joint(c, s),
         c.wire # <<>>, Head(c.wire).type = "data", NEW t, t = Reads(s, Head(c.wire))
  PROVE  Joint(Peeled(c), t) /\ t \in Sshsession /\ t.party = s.party
<1>1. ASSUME NEW i, NEW j, NEW kc, NEW ks,
             Fits(c, s, i, j, kc, ks), Both(c, s, i, j, kc, ks)
      PROVE  Both(Peeled(c), t, i, j, kc, ks) /\ Same(t, s) /\ Same(Peeled(c), c)
  <2>1. /\ i \in {0, 1, 2, 3} /\ j \in {0, 1, 2, 3}
        /\ kc \in Seq(KexMsg) /\ Len(kc) <= 3 /\ ks \in Seq(KexMsg) /\ Len(ks) <= 3
    BY <1>1 DEF Fits
  <2>2. Both(s, c, j, i, ks, kc)
    BY <1>1, Swap
  <2>3. Both(t, Peeled(c), j, i, ks, kc) /\ Same(t, s)
    BY <2>1, <2>2, ReadsDataOne
  <2>4. Same(Peeled(c), c)
    BY <2>1, <2>2, PeerStays, Zenon DEF Both, Same, Now
  <2>. QED
    BY <2>3, <2>4, Swap
<1>2. \E i, j, kc, ks : Fits(c, s, i, j, kc, ks) /\ Both(c, s, i, j, kc, ks)
  BY RowsFit
<1>3. Same(t, s) /\ Same(Peeled(c), c)
  BY <1>1, <1>2
<1>4. Joint(Peeled(c), t)
  BY <1>1, <1>3, RowsKept
<1>. QED
  BY <1>3, <1>4 DEF Same, Now

(* The client has one to send. *)
LEMMA ClientSends ==
  ASSUME NEW c \in Sshsession, NEW s \in Sshsession, c.party = "client", s.party = "server",
         strict \in BOOLEAN, guess \in [1 .. MaxKex -> BOOLEAN], Joint(c, s), c.sent < MaxData,
         NEW t, t = Sending(c)
  PROVE  Joint(t, s) /\ t \in Sshsession /\ t.party = c.party
<1>1. ASSUME NEW i, NEW j, NEW kc, NEW ks,
             Fits(c, s, i, j, kc, ks), Both(c, s, i, j, kc, ks)
      PROVE  Both(t, s, i, j, kc, ks) /\ Same(t, c)
  <2>1. /\ i \in {0, 1, 2, 3} /\ j \in {0, 1, 2, 3}
        /\ kc \in Seq(KexMsg) /\ ks \in Seq(KexMsg)
        /\ i \in {0, 3} => Ends(kc) /\ (kc = <<>> => s.requirenext = "any")
    BY <1>1 DEF Fits
  <2>2. Both(c, s, i, j, kc, ks)
    BY <1>1
  <2>3. MaySend(c, s, kc)
    BY <2>1, <2>2, Stages DEF Both, MaySend
  <2>4. Both(t, s, i, j, kc, ks) /\ Same(t, c)
    BY <2>1, <2>2, <2>3, SendsDataOne
  <2>. QED
    BY <2>4
<1>2. \E i, j, kc, ks : Fits(c, s, i, j, kc, ks) /\ Both(c, s, i, j, kc, ks)
  BY RowsFit
<1>3. Same(t, c) /\ Same(s, s)
  BY <1>1, <1>2 DEF Same, Now
<1>4. Joint(t, s)
  BY <1>1, <1>3, RowsKept
<1>. QED
  BY <1>3, <1>4 DEF Same, Now

(* The server has one to send. *)
LEMMA ServerSends ==
  ASSUME NEW c \in Sshsession, NEW s \in Sshsession, c.party = "client", s.party = "server",
         strict \in BOOLEAN, guess \in [1 .. MaxKex -> BOOLEAN], Joint(c, s), s.sent < MaxData,
         NEW t, t = Sending(s)
  PROVE  Joint(c, t) /\ t \in Sshsession /\ t.party = s.party
<1>1. ASSUME NEW i, NEW j, NEW kc, NEW ks,
             Fits(c, s, i, j, kc, ks), Both(c, s, i, j, kc, ks)
      PROVE  Both(c, t, i, j, kc, ks) /\ Same(t, s)
  <2>1. /\ i \in {0, 1, 2, 3} /\ j \in {0, 1, 2, 3}
        /\ kc \in Seq(KexMsg) /\ ks \in Seq(KexMsg)
        /\ j \in {0, 3} => Ends(ks) /\ (ks = <<>> => c.requirenext = "any")
    BY <1>1 DEF Fits
  <2>2. Both(s, c, j, i, ks, kc)
    BY <1>1, Swap
  <2>3. MaySend(s, c, ks)
    BY <2>1, <2>2, Stages DEF Both, MaySend
  <2>4. Both(t, c, j, i, ks, kc) /\ Same(t, s)
    BY <2>1, <2>2, <2>3, SendsDataOne
  <2>. QED
    BY <2>4, Swap
<1>2. \E i, j, kc, ks : Fits(c, s, i, j, kc, ks) /\ Both(c, s, i, j, kc, ks)
  BY RowsFit
<1>3. Same(t, s) /\ Same(c, c)
  BY <1>1, <1>2 DEF Same, Now
<1>4. Joint(c, t)
  BY <1>1, <1>3, RowsKept
<1>. QED
  BY <1>3, <1>4 DEF Same, Now

(* The client reads a packet of an exchange.  Both have sent their KEXINITs. *)
LEMMA ClientReadsOpen ==
  ASSUME NEW c \in Sshsession, NEW s \in Sshsession, c.party = "client", s.party = "server",
         strict \in BOOLEAN, guess \in [1 .. MaxKex -> BOOLEAN], BothOpen(c, s),
         s.wire # <<>>, Head(s.wire).type # "data", NEW t, t = Reads(c, Head(s.wire))
  PROVE  ClientAgrees(t, Peeled(s)) /\ t \in Sshsession /\ t.party = c.party
<1>1. Both(c, s, 1, 1, <<Kexinit, Init_(c.param)>>, <<Kexinit>>) /\ c.kexes = s.kexes
  BY DEF BothOpen
<1>2. CASE Good(c)
  BY <1>1, <1>2, ClientOpenGood
<1>3. CASE ~Good(c)
  BY <1>1, <1>3, ClientOpenBad
<1>. QED
  BY <1>2, <1>3

(* The other one has opened the exchange: it sends its own KEXINIT first. *)
LEMMA ClientAnswers ==
  ASSUME NEW c \in Sshsession, NEW s \in Sshsession, c.party = "client", s.party = "server",
         strict \in BOOLEAN, guess \in [1 .. MaxKex -> BOOLEAN], ServerOpens(c, s),
         s.wire # <<>>, Head(s.wire).type # "data", NEW t, t = Reads(c, Head(s.wire))
  PROVE  ClientAgrees(t, Peeled(s)) /\ t \in Sshsession /\ t.party = c.party
<1>. DEFINE u == send_msg_kexinit(c)
            m == Head(s.wire)
            kb == <<Kexinit>>
<1>1. Stage(c, 0) /\ Link(s, c, kb) /\ c.kexes + 1 = s.kexes
  BY DEF ServerOpens, Both
<1>2. c.kexes < MaxKex
  BY <1>1, Types
<1>3. kb \in Seq(KexMsg) /\ Head(kb)[1] = "kexinit"
  <2>1. Kexinit \in KexMsg /\ Init_(c.param) \in KexMsg
    BY Messages, Types
  <2>. QED
    BY <2>1, Messages, Lists, Contents
<1>. HIDE DEF u, m, kb
<1>4. m \in Packet /\ m.key = c.recvkey /\ m.seq = c.recvseq /\ m.type = "kexinit"
  BY <1>1, <1>3, ReadsHead DEF m
<1>5. BothOpen(u, s) /\ u \in Sshsession /\ u.party = c.party
  BY <1>2, ClientOpensToo DEF u
<1>6. t = Reads(u, m)
  BY <1>1, <1>2, <1>4, Answers DEF u, m
<1>. QED
  BY <1>5, <1>6, ClientReadsOpen DEF m

(* Any packet of an exchange, in each row where one is on its way. *)
LEMMA ClientReadsKex ==
  ASSUME NEW c \in Sshsession, NEW s \in Sshsession, c.party = "client", s.party = "server",
         strict \in BOOLEAN, guess \in [1 .. MaxKex -> BOOLEAN], Joint(c, s),
         s.wire # <<>>, Head(s.wire).type # "data", NEW t, t = Reads(c, Head(s.wire))
  PROVE  Joint(t, Peeled(s)) /\ t \in Sshsession /\ t.party = c.party
<1>1. ASSUME NEW i, NEW j, NEW kc, Both(c, s, i, j, kc, <<>>)
      PROVE  FALSE
  <2>1. Link(s, c, <<>>) /\ <<>> \in Seq(KexMsg)
    BY <1>1, Messages DEF Both
  <2>. QED
    BY <2>1, ReadsHead, ZenonT(30)
<1>2. ~Idle(c, s)
  BY <1>1 DEF Idle
<1>3. ~ClientOpens(c, s)
  BY <1>1 DEF ClientOpens
<1>4. ~ClientAgrees(c, s)
  <2>1. ClientAgrees(c, s) => \E kc : Both(c, s, 2, 1, kc, <<>>)
    BY Zenon DEF ClientAgrees
  <2>. QED
    BY <1>1, <2>1
<1>5. ~BothAgree(c, s)
  <2>1. BothAgree(c, s) => \E kc : Both(c, s, 2, 2, kc, <<>>)
    BY Zenon DEF BothAgree
  <2>. QED
    BY <1>1, <2>1
<1>6. ~ClientDone(c, s)
  BY <1>1 DEF ClientDone
<1>7. ~ClientReopens(c, s)
  BY <1>1 DEF ClientReopens
<1>8. CASE BothOpen(c, s)
  BY <1>8, ClientReadsOpen DEF Joint
<1>9. CASE ServerOpens(c, s)
  BY <1>9, ClientAnswers DEF Joint
<1>10. CASE ServerAgrees(c, s)
  <2>1. CASE Good(c)
    BY <1>10, <2>1, <1>1, ClientAgreeGood DEF ServerAgrees, Joint
  <2>2. CASE ~Good(c) /\ s.ignorenext
    BY <1>10, <2>2, ClientAgreeBad DEF ServerAgrees, Joint
  <2>3. CASE ~Good(c) /\ ~s.ignorenext
    BY <1>10, <2>3, ClientAgreeLate DEF ServerAgrees, Joint
  <2>. QED
    BY <2>1, <2>2, <2>3
<1>11. CASE ServerAhead(c, s)
  BY <1>11, ClientCatchesUp DEF ServerAhead, Joint
<1>12. CASE ServerKeyed(c, s)
  BY <1>12, ClientKeys DEF ServerKeyed, Joint
<1>13. CASE BothKeyed(c, s)
  BY <1>13, ClientFinishes DEF BothKeyed, NewKey, Joint
<1>14. CASE ServerDone(c, s)
  BY <1>14, ClientFinishesLast DEF ServerDone, NewKey, Joint
<1>15. CASE ServerReopens(c, s)
  BY <1>15, ClientFinishesLate DEF ServerReopens, NewKey, Joint
<1>. QED
  BY <1>2, <1>3, <1>4, <1>5, <1>6, <1>7, <1>8, <1>9, <1>10, <1>11, <1>12, <1>13, <1>14,
     <1>15 DEF Joint

(* The client reads a packet. *)
LEMMA ClientReads ==
  ASSUME NEW c \in Sshsession, NEW s \in Sshsession, c.party = "client", s.party = "server",
         strict \in BOOLEAN, guess \in [1 .. MaxKex -> BOOLEAN], Joint(c, s),
         s.wire # <<>>, NEW t, t = Reads(c, Head(s.wire))
  PROVE  Joint(t, Peeled(s)) /\ t \in Sshsession /\ t.party = c.party
<1>1. CASE Head(s.wire).type = "data"
  BY <1>1, ClientReadsData
<1>2. CASE Head(s.wire).type # "data"
  BY <1>2, ClientReadsKex
<1>. QED
  BY <1>1, <1>2

(* The server reads a packet of an exchange.  Both have sent their KEXINITs. *)
LEMMA ServerReadsOpen ==
  ASSUME NEW c \in Sshsession, NEW s \in Sshsession, c.party = "client", s.party = "server",
         strict \in BOOLEAN, guess \in [1 .. MaxKex -> BOOLEAN], BothOpen(c, s),
         c.wire # <<>>, Head(c.wire).type # "data", NEW t, t = Reads(s, Head(c.wire))
  PROVE  ServerAgrees(Peeled(c), t) /\ t \in Sshsession /\ t.party = s.party
<1>1. Both(c, s, 1, 1, <<Kexinit, Init_(c.param)>>, <<Kexinit>>) /\ c.kexes = s.kexes
  BY DEF BothOpen
<1>. QED
  BY <1>1, ServerOpen

(* The other one has opened the exchange: it sends its own KEXINIT first. *)
LEMMA ServerAnswers ==
  ASSUME NEW c \in Sshsession, NEW s \in Sshsession, c.party = "client", s.party = "server",
         strict \in BOOLEAN, guess \in [1 .. MaxKex -> BOOLEAN], ClientOpens(c, s),
         c.wire # <<>>, Head(c.wire).type # "data", NEW t, t = Reads(s, Head(c.wire))
  PROVE  ServerAgrees(Peeled(c), t) /\ t \in Sshsession /\ t.party = s.party
<1>. DEFINE u == send_msg_kexinit(s)
            m == Head(c.wire)
            kb == <<Kexinit, Init_(c.param)>>
<1>1. Stage(s, 0) /\ Link(c, s, kb) /\ s.kexes + 1 = c.kexes
  BY DEF ClientOpens, Both
<1>2. s.kexes < MaxKex
  BY <1>1, Types
<1>3. kb \in Seq(KexMsg) /\ Head(kb)[1] = "kexinit"
  <2>1. Kexinit \in KexMsg /\ Init_(c.param) \in KexMsg
    BY Messages, Types
  <2>. QED
    BY <2>1, Messages, Lists, Contents
<1>. HIDE DEF u, m, kb
<1>4. m \in Packet /\ m.key = s.recvkey /\ m.seq = s.recvseq /\ m.type = "kexinit"
  BY <1>1, <1>3, ReadsHead DEF m
<1>5. BothOpen(c, u) /\ u \in Sshsession /\ u.party = s.party
  BY <1>2, ServerOpensToo DEF u
<1>6. t = Reads(u, m)
  BY <1>1, <1>2, <1>4, Answers DEF u, m
<1>. QED
  BY <1>5, <1>6, ServerReadsOpen DEF m

(* Any packet of an exchange, in each row where one is on its way. *)
LEMMA ServerReadsKex ==
  ASSUME NEW c \in Sshsession, NEW s \in Sshsession, c.party = "client", s.party = "server",
         strict \in BOOLEAN, guess \in [1 .. MaxKex -> BOOLEAN], Joint(c, s),
         c.wire # <<>>, Head(c.wire).type # "data", NEW t, t = Reads(s, Head(c.wire))
  PROVE  Joint(Peeled(c), t) /\ t \in Sshsession /\ t.party = s.party
<1>1. ASSUME NEW i, NEW j, NEW ks, Both(c, s, i, j, <<>>, ks)
      PROVE  FALSE
  <2>1. Link(c, s, <<>>) /\ <<>> \in Seq(KexMsg)
    BY <1>1, Messages DEF Both
  <2>. QED
    BY <2>1, ReadsHead
<1>2. ~Idle(c, s)
  BY <1>1 DEF Idle
<1>3. ~ServerOpens(c, s)
  BY <1>1 DEF ServerOpens
<1>4. ~ServerAhead(c, s)
  BY <1>1 DEF ServerAhead
<1>5. ~ServerKeyed(c, s)
  BY <1>1 DEF ServerKeyed
<1>6. ~ServerDone(c, s)
  BY <1>1 DEF ServerDone
<1>7. ~ServerReopens(c, s)
  BY <1>1 DEF ServerReopens
<1>8. CASE BothOpen(c, s)
  BY <1>8, ServerReadsOpen DEF Joint
<1>9. CASE ClientOpens(c, s)
  BY <1>9, ServerAnswers DEF Joint
<1>10. CASE ServerAgrees(c, s)
  <2>1. CASE Both(c, s, 1, 2, <<>>, <<Kexinit>>)
    BY <1>1, <2>1
  <2>2. CASE Both(c, s, 1, 2, <<Init_(c.param)>>, <<Kexinit>>) /\ s.ignorenext
    BY <1>10, <2>2, ServerPasses DEF ServerAgrees, Joint
  <2>3. CASE Both(c, s, 1, 2, <<Init_(c.param)>>, <<Kexinit>>) /\ Good(c) /\ ~s.ignorenext
    BY <1>10, <2>3, ServerKeysFirst DEF ServerAgrees, Joint
  <2>. QED
    BY <1>10, <2>1, <2>2, <2>3 DEF ServerAgrees
<1>11. CASE ClientAgrees(c, s)
  <2>1. CASE Good(c)
    BY <1>11, <2>1, ServerAgreeGood DEF ClientAgrees, Joint
  <2>2. CASE ~Good(c)
    <3>1. PICK e \in 0 .. c.param :
            Both(c, s, 2, 1, <<Kexinit, Init_(e), Init_(c.param)>>, <<>>)
      BY <1>11, <2>2 DEF ClientAgrees
    <3>2. c.kexes = s.kexes
      BY <1>11 DEF ClientAgrees
    <3>. QED
      BY <2>2, <3>1, <3>2, ServerAgreeBad DEF Joint
  <2>. QED
    BY <2>1, <2>2
<1>12. CASE BothAgree(c, s)
  <2>1. CASE ~s.ignorenext
    BY <1>12, <2>1, ServerKeys DEF BothAgree, Joint
  <2>2. CASE s.ignorenext
    <3>1. PICK e \in 0 .. c.param :
            Both(c, s, 2, 2, <<Init_(e), Init_(c.param)>>, <<>>)
      BY <1>12, <2>2 DEF BothAgree
    <3>2. c.kexes = s.kexes /\ ~Good(c)
      BY <1>12, <2>2 DEF BothAgree
    <3>. QED
      BY <2>2, <3>1, <3>2, ServerPassesLate DEF Joint
  <2>. QED
    BY <2>1, <2>2
<1>13. CASE BothKeyed(c, s)
  BY <1>13, ServerFinishes DEF BothKeyed, NewKey, Joint
<1>14. CASE ClientDone(c, s)
  BY <1>14, ServerFinishesLast DEF ClientDone, NewKey, Joint
<1>15. CASE ClientReopens(c, s)
  BY <1>15, ServerFinishesLate DEF ClientReopens, Joint
<1>. QED
  BY <1>2, <1>3, <1>4, <1>5, <1>6, <1>7, <1>8, <1>9, <1>10, <1>11, <1>12, <1>13, <1>14,
     <1>15 DEF Joint

(* The server reads a packet. *)
LEMMA ServerReads ==
  ASSUME NEW c \in Sshsession, NEW s \in Sshsession, c.party = "client", s.party = "server",
         strict \in BOOLEAN, guess \in [1 .. MaxKex -> BOOLEAN], Joint(c, s),
         c.wire # <<>>, NEW t, t = Reads(s, Head(c.wire))
  PROVE  Joint(Peeled(c), t) /\ t \in Sshsession /\ t.party = s.party
<1>1. CASE Head(c.wire).type = "data"
  BY <1>1, ServerReadsData
<1>2. CASE Head(c.wire).type # "data"
  BY <1>2, ServerReadsKex
<1>. QED
  BY <1>1, <1>2

(* The announcement of strict kex and the guesses never change, so that     *)
(* what is said of sessions in terms of them is the same after a step.      *)
LEMMA NewSealRigid ==
  ASSUME strict' = strict
  PROVE  \A w, tk, rq : NewSeal(w, tk, rq)' <=> NewSeal(w, tk, rq)
BY DEF NewSeal

(* The seal of the next packet. *)
LEMMA NextSealRigid ==
  ASSUME strict' = strict
  PROVE  \A w, a, b, c, d : NextSeal(w, a, b, c, d)' <=> NextSeal(w, a, b, c, d)
BY DEF NextSeal

(* How far a party is. *)
LEMMA StageRigid ==
  ASSUME strict' = strict
  PROVE  \A s, i : Stage(s, i)' <=> Stage(s, i)
BY DEF Stage

(* A wire. *)
LEMMA WireRigid ==
  ASSUME strict' = strict
  PROVE  \A w, ks, u, o, a, b, c, d : Wire(w, ks, u, o, a, b, c, d)' <=> Wire(w, ks, u, o, a, b, c, d)
<1>1. \A w, a, b, c, d : Seal(w, a, b, c, d)' <=> Seal(w, a, b, c, d)
  BY NewSealRigid, NextSealRigid DEF Seal
<1>. QED
  BY <1>1 DEF Wire

(* A wire between two sessions. *)
LEMMA LinkRigid ==
  ASSUME strict' = strict
  PROVE  \A s, r, ks : Link(s, r, ks)' <=> Link(s, r, ks)
BY WireRigid DEF Link

(* The rows. *)
LEMMA JointRigid ==
  ASSUME strict' = strict, guess' = guess
  PROVE  \A c, s : Joint(c, s)' <=> Joint(c, s)
<1>1. \A c, s, i, j, kc, ks : Both(c, s, i, j, kc, ks)' <=> Both(c, s, i, j, kc, ks)
  BY StageRigid, LinkRigid DEF Both
<1>2. \A c : Good(c)' <=> Good(c)
  BY DEF Good
<1>. QED
  BY <1>1, <1>2 DEF Joint, NewKey, Idle, ClientOpens, ServerOpens, BothOpen, ServerAgrees,
     ClientAgrees, BothAgree, ServerAhead, ServerKeyed, BothKeyed, ClientDone, ServerDone,
     ClientReopens, ServerReopens

(* The new states of the parties are in a row. *)
LEMMA JointAfter ==
  ASSUME strict' = strict, guess' = guess, Joint(ses'["client"], ses'["server"])
  PROVE  JointOK'
BY JointRigid, Zenon DEF JointOK

(* Both parties begin with their KEXINIT. *)
LEMMA StartType ==
  ASSUME NEW p \in Party, NEW a, a = common_session_init(p)
  PROVE  /\ a \in Sshsession /\ a.kexes = 0 /\ a.kexes < MaxKex /\ a.party = p
         /\ ~a.exited /\ a.dataallowed /\ ~a.sentkexinit /\ ~a.recvkexinit /\ ~a.sentnewkeys
         /\ ~a.recvnewkeys /\ ~a.donefirstkex /\ ~a.strict_kex
         /\ ~a.our_first_follows_matches /\ a.requirenext = "kexinit" /\ ~a.ignorenext
         /\ ~a.kex_state /\ a.param = 0 /\ ~a.trans_valid /\ ~a.recv_valid
         /\ a.transkey = 0 /\ a.recvkey = 0 /\ a.transseq = 0 /\ a.recvseq = 0
         /\ a.reply_queue = <<>> /\ a.wire = <<>> /\ a.sent = 0 /\ a.received = 0
<1>1. MaxKex \in Nat \ {0} /\ MaxData \in Nat
  BY KexBoundAssumption
<1>2. 0 \in 0 .. MaxKex /\ 0 < MaxKex /\ 0 \in 0 .. MaxData /\ 0 \in Nat
  BY <1>1
<1>3. <<>> \in Seq(1 .. MaxData) /\ <<>> \in Seq(Packet)
  OBVIOUS
<1>4. "kexinit" \in Type \cup {"any"}
  BY DEF Type
<1>5. a \in Sshsession
  BY <1>2, <1>3, <1>4 DEF common_session_init, Sshsession
<1>. QED
  BY <1>2, <1>5 DEF common_session_init

(* Both parties are then in the first stage. *)
LEMMA StartStage ==
  ASSUME NEW p \in Party, NEW a, a = common_session_init(p),
         NEW w \in Seq(Packet), NEW q \in Nat, NEW n \in Nat, NEW t, t = KexinitSent(a, w, q, n)
  PROVE  /\ Stage(t, 1) /\ t \in Sshsession /\ t.kexes = 1 /\ t.param = n /\ t.party = p
         /\ t.wire = w /\ t.transseq = q /\ t.transkey = a.transkey /\ t.sent = a.sent
         /\ t.reply_queue = a.reply_queue /\ InSame(a, t)
<1>1. /\ a \in Sshsession /\ a.kexes = 0 /\ a.kexes < MaxKex /\ a.party = p
      /\ ~a.exited /\ a.dataallowed /\ ~a.sentkexinit /\ ~a.recvkexinit /\ ~a.sentnewkeys
      /\ ~a.recvnewkeys /\ ~a.donefirstkex /\ ~a.strict_kex
      /\ ~a.our_first_follows_matches /\ a.requirenext = "kexinit" /\ ~a.ignorenext
      /\ ~a.kex_state /\ a.param = 0 /\ ~a.trans_valid /\ ~a.recv_valid
      /\ a.recvseq = 0 /\ a.reply_queue = <<>> /\ a.sent = 0
  BY StartType
<1>2. /\ t \in Sshsession
      /\ t.party = a.party /\ t.exited = a.exited /\ ~t.dataallowed
      /\ t.sentkexinit /\ t.recvkexinit = a.recvkexinit
      /\ t.sentnewkeys = a.sentnewkeys /\ t.recvnewkeys = a.recvnewkeys
      /\ t.donefirstkex = a.donefirstkex
      /\ t.our_first_follows_matches = a.our_first_follows_matches
      /\ t.requirenext = a.requirenext /\ t.ignorenext = a.ignorenext
      /\ t.kex_state = a.kex_state /\ t.param = n
      /\ ~t.trans_valid /\ ~t.recv_valid
      /\ t.transkey = a.transkey /\ t.recvkey = a.recvkey /\ t.transseq = q
      /\ t.recvseq = a.recvseq /\ t.kexes = a.kexes + 1
      /\ t.reply_queue = a.reply_queue /\ t.wire = w /\ t.sent = a.sent
      /\ t.received = a.received
  BY <1>1, KexinitSentFields
<1>3. t.kexes = 1
  BY <1>1, <1>2
<1>6. Len(t.reply_queue) <= t.sent
  BY <1>1, <1>2
<1>4. Stage(t, 1)
  BY <1>1, <1>2, <1>3, <1>6 DEF Stage, Required
<1>5. InSame(a, t)
  BY <1>2 DEF InSame
<1>. QED
  BY <1>1, <1>2, <1>3, <1>4, <1>5, Zenon

(* Nothing is on the wires before. *)
LEMMA StartLink ==
  ASSUME NEW p \in Party, NEW r \in Party
  PROVE  Link(common_session_init(p), common_session_init(r), <<>>)
<1>. DEFINE a == common_session_init(p)
            b == common_session_init(r)
<1>1. /\ a.wire = <<>> /\ a.sent = 0 /\ a.reply_queue = <<>> /\ a.transkey = 0 /\ a.transseq = 0
      /\ b.received = 0 /\ b.recvkey = 0 /\ b.recvseq = 0
  BY StartType
<1>2. Shape(<<>>, <<>>, 0)
  <2>1. Len(<<>>) = 0 /\ 1 .. 0 = {}
    OBVIOUS
  <2>. DEFINE f == [x \in {} |-> 0]
  <2>2. f \in [{} -> {}]
    OBVIOUS
  <2>3. 1 .. Len(<<>>) = {}
    BY <2>1
  <2>. HIDE DEF f
  <2>4. f \in [1 .. Len(<<>>) -> 1 .. Len(<<>>)]
    BY <2>2, <2>3, Zenon
  <2>5. Len(<<>>) = 0 + Len(<<>>)
    BY <2>1
  <2>. QED
    BY <2>3, <2>4, <2>5, Zenon DEF Shape
<1>3. \A open : Quiet(<<>>, open) /\ NoneBetween(<<>>) /\ Seal(<<>>, 0, 0, 0, 0)
  BY DEF Quiet, NoneBetween, Seal, OneNewkeys, OldSeal, NewSeal, NextSeal, NoNewkeys
<1>4. \A open : Wire(<<>>, <<>>, 0, open, 0, 0, 0, 0)
  BY <1>2, <1>3, Zenon DEF Wire
<1>. HIDE DEF a, b
<1>5. a.sent - Len(a.reply_queue) - b.received = 0
  <2>1. Len(<<>>) = 0 /\ 0 - 0 - 0 = 0
    OBVIOUS
  <2>. QED
    BY <1>1, <2>1, Zenon
<1>6. Link(a, b, <<>>)
  BY <1>1, <1>4, <1>5, Zenon DEF Link
<1>. QED
  BY <1>6 DEF a, b

(* The first states. *)
LEMMA Starts ==
  ASSUME Init
  PROVE  TypeOK /\ JointOK
<1>. DEFINE a == common_session_init("client")
            b == common_session_init("server")
            c == send_msg_kexinit(a)
            s == send_msg_kexinit(b)
            wc == Append(Append(a.wire, Sealed("kexinit", 0, a.transkey, a.transseq)),
                         Sealed("kexdh_init", a.param + 1, a.transkey, a.transseq + 1))
            ws == Append(b.wire, Sealed("kexinit", 0, b.transkey, b.transseq))
            n == a.param + 1
<1>1. "client" \in Party /\ "server" \in Party
  BY DEF Party
<1>2. /\ a \in Sshsession /\ a.dataallowed /\ a.party = "client" /\ a.kexes < MaxKex
      /\ b \in Sshsession /\ b.dataallowed /\ b.party = "server" /\ b.kexes < MaxKex
  BY <1>1, StartType
<1>3. Link(a, b, <<>>) /\ Link(b, a, <<>>)
  BY <1>1, StartLink
<1>4. ses["client"] = c /\ ses["server"] = s
      /\ ses = [p \in Party |-> IF p = "client" THEN c ELSE s]
  BY DEF Init, Party
<1>. HIDE DEF a, b
<1>5. c = KexinitSent(a, wc, a.transseq + 1 + 1, n)
  BY <1>2, ClientSendsKexinit
<1>6. s = KexinitSent(b, ws, b.transseq + 1, b.param)
  BY <1>2, ServerSendsKexinit
<1>7. /\ wc \in Seq(Packet) /\ ws \in Seq(Packet) /\ n \in Nat /\ b.param \in Nat
      /\ a.transseq + 1 + 1 \in Nat /\ b.transseq + 1 \in Nat
  <2>1. Append(a.wire, Sealed("kexinit", 0, a.transkey, a.transseq)) \in Seq(Packet)
    BY <1>2, Types, SealedPacket DEF Type
  <2>2. Sealed("kexdh_init", a.param + 1, a.transkey, a.transseq + 1) \in Packet
    BY <1>2, Types, SealedPacket, SMTT(30) DEF Type
  <2>3. ws \in Seq(Packet)
    BY <1>2, Types, SealedPacket, SMTT(30) DEF Type
  <2>4. n \in Nat /\ b.param \in Nat /\ a.transseq + 1 + 1 \in Nat /\ b.transseq + 1 \in Nat
    BY <1>2, Types, SMTT(30)
  <2>. QED
    BY <2>1, <2>2, <2>3, <2>4
<1>. HIDE DEF c, s, wc, ws, n
<1>8. /\ Stage(c, 1) /\ c \in Sshsession /\ c.kexes = 1 /\ c.param = n /\ c.party = "client"
      /\ c.wire = wc /\ c.transseq = a.transseq + 1 + 1 /\ c.transkey = a.transkey
      /\ c.sent = a.sent /\ c.reply_queue = a.reply_queue /\ InSame(a, c)
  <2>1. a = common_session_init("client")
    BY DEF a
  <2>. QED
    BY <1>1, <1>5, <1>7, <2>1, StartStage, SMTT(60)
<1>9. /\ Stage(s, 1) /\ s \in Sshsession /\ s.kexes = 1 /\ s.party = "server"
      /\ s.wire = ws /\ s.transseq = b.transseq + 1 /\ s.transkey = b.transkey
      /\ s.sent = b.sent /\ s.reply_queue = b.reply_queue /\ InSame(b, s)
  <2>1. b = common_session_init("server")
    BY DEF b
  <2>. QED
    BY <1>1, <1>6, <1>7, <2>1, StartStage, SMTT(60)
<1>10. Link(c, b, <<Kexinit, Init_(c.param)>>)
  <2>1. Kexinit \in KexMsg /\ Init_(n) \in KexMsg /\ <<>> \in Seq(KexMsg)
    BY <1>7, Messages
  <2>2. Link(c, b, Append(Append(<<>>, Kexinit), Init_(n)))
    <3>1. c.wire = Append(Append(a.wire, Sealed("kexinit", 0, a.transkey, a.transseq)),
                         Sealed("kexdh_init", n, a.transkey, a.transseq + 1))
      BY <1>8 DEF wc, n
    <3>. QED
      BY <1>2, <1>3, <1>7, <1>8, <2>1, <3>1, LinkSendTwo
  <2>3. Append(Append(<<>>, Kexinit), Init_(n)) = <<Kexinit, Init_(n)>>
    BY <2>1, Lists
  <2>. QED
    BY <1>8, <2>2, <2>3
<1>11. Link(s, a, <<Kexinit>>)
  <2>1. Kexinit \in KexMsg /\ <<>> \in Seq(KexMsg) /\ "kexinit" \in Type \ {"data", "newkeys"}
    BY Messages DEF Type
  <2>2. Link(s, a, Append(<<>>, Kexinit))
    <3>1. s.wire = Append(b.wire, Sealed("kexinit", 0, b.transkey, b.transseq))
      BY <1>9 DEF ws
    <3>. QED
      BY <1>2, <1>3, <1>9, <2>1, <3>1, LinkSendKex DEF Kexinit
  <2>3. Append(<<>>, Kexinit) = <<Kexinit>>
    BY <2>1, Lists
  <2>. QED
    BY <2>2, <2>3
<1>12. Link(c, s, <<Kexinit, Init_(c.param)>>) /\ Link(s, c, <<Kexinit>>)
  <2>1. OutSame(c, c) /\ OutSame(s, s)
    BY DEF OutSame
  <2>. QED
    BY <1>8, <1>9, <1>10, <1>11, <2>1, LinkSame
<1>13. BothOpen(c, s)
  BY <1>8, <1>9, <1>12 DEF BothOpen, Both
<1>14. JointOK
  BY <1>4, <1>13 DEF JointOK, Joint
<1>15. TypeOK
  BY <1>4, <1>8, <1>9 DEF Init, TypeOK, Party
<1>. QED
  BY <1>14, <1>15

(* The state after a step. *)
LEMMA After ==
  ASSUME TypeOK, NEW d \in Sshsession, NEW t \in Sshsession,
         d.party = "client", t.party = "server",
         ses' = [p \in Party |-> IF p = "client" THEN d ELSE t],
         guess' = guess, strict' = strict, Joint(d, t)
  PROVE  TypeOK' /\ JointOK'
<1>1. ses'["client"] = d /\ ses'["server"] = t
  BY DEF Party
<1>2. JointOK'
  BY <1>1, JointAfter
<1>3. TypeOK'
  BY DEF TypeOK, Party
<1>. QED
  BY <1>2, <1>3

(* Every step keeps the invariant. *)
LEMMA Inductive ==
  ASSUME TypeOK, JointOK, [Next]_vars
  PROVE  TypeOK' /\ JointOK'
<1>. DEFINE c == ses["client"]
            s == ses["server"]
<1>1. /\ c \in Sshsession /\ s \in Sshsession /\ c.party = "client" /\ s.party = "server"
      /\ strict \in BOOLEAN /\ guess \in [1 .. MaxKex -> BOOLEAN] /\ Joint(c, s)
  BY DEF TypeOK, JointOK, Party
<1>2. Party = {"client", "server"} /\ ses \in [Party -> Sshsession]
  BY DEF TypeOK, Party
<1>3. CASE UNCHANGED vars
  <2>1. ses' = ses /\ guess' = guess /\ strict' = strict
    BY <1>3 DEF vars
  <2>2. TypeOK'
    BY <2>1 DEF TypeOK
  <2>3. Joint(ses'["client"], ses'["server"])
    BY <1>1, <2>1
  <2>. QED
    BY <2>1, <2>2, <2>3, JointAfter
<1>. HIDE DEF c, s
<1>4. ASSUME NEW p \in Party, checktimeouts(p) PROVE TypeOK' /\ JointOK'
  <2>1. /\ ~ses[p].sentkexinit /\ ses[p].kexes < MaxKex
        /\ ses' = [ses EXCEPT ![p] = send_msg_kexinit(ses[p])]
        /\ guess' = guess /\ strict' = strict
    BY <1>4 DEF checktimeouts
  <2>2. CASE p = "client"
    <3>. DEFINE t == send_msg_kexinit(c)
    <3>1. Joint(t, s) /\ t \in Sshsession /\ t.party = "client"
      BY <1>1, <2>1, <2>2, ClientTimesOut DEF c
    <3>2. ses' = [x \in Party |-> IF x = "client" THEN t ELSE s]
      <4>1. ses' = [ses EXCEPT !["client"] = t]
        BY <2>1, <2>2 DEF c
      <4>. HIDE DEF t
      <4>. QED
        BY <1>2, <4>1 DEF s
    <3>. HIDE DEF t
    <3>. QED
      BY <1>1, <2>1, <3>1, <3>2, After
  <2>3. CASE p = "server"
    <3>. DEFINE t == send_msg_kexinit(s)
    <3>1. Joint(c, t) /\ t \in Sshsession /\ t.party = "server"
      BY <1>1, <2>1, <2>3, ServerTimesOut DEF s
    <3>2. ses' = [x \in Party |-> IF x = "client" THEN c ELSE t]
      <4>1. ses' = [ses EXCEPT !["server"] = t]
        BY <2>1, <2>3 DEF s
      <4>. HIDE DEF t
      <4>. QED
        BY <1>2, <4>1 DEF c
    <3>. HIDE DEF t
    <3>. QED
      BY <1>1, <2>1, <3>1, <3>2, After
  <2>. QED
    BY <1>2, <2>2, <2>3
<1>5. ASSUME NEW p \in Party, Receive(p) PROVE TypeOK' /\ JointOK'
  <2>1. /\ ses[Peer(p)].wire # <<>>
        /\ ses' = [ses EXCEPT ![p] = Reads(ses[p], Head(ses[Peer(p)].wire)),
                              ![Peer(p)].wire = Tail(@)]
        /\ guess' = guess /\ strict' = strict
    BY <1>5, Zenon DEF Receive, Reads
  <2>2. CASE p = "client"
    <3>. DEFINE t == Reads(c, Head(s.wire))
    <3>1. Peer(p) = "server" /\ s.wire # <<>>
      BY <2>1, <2>2 DEF Peer, s
    <3>2. Joint(t, Peeled(s)) /\ t \in Sshsession /\ t.party = "client"
      BY <1>1, <3>1, ClientReads
    <3>3. ses' = [x \in Party |-> IF x = "client" THEN t ELSE Peeled(s)]
      <4>1. ses' = [ses EXCEPT !["client"] = t, !["server"].wire = Tail(@)]
        BY <2>1, <2>2, <3>1 DEF c, s
      <4>. HIDE DEF t
      <4>. QED
        BY <1>2, <4>1 DEF s, Peeled
    <3>. HIDE DEF t
    <3>4. Peeled(s) \in Sshsession /\ Peeled(s).party = "server"
      BY <1>1, <3>1, PeeledFields
    <3>. QED
      BY <2>1, <3>2, <3>3, <3>4, After
  <2>3. CASE p = "server"
    <3>. DEFINE t == Reads(s, Head(c.wire))
    <3>1. Peer(p) = "client" /\ c.wire # <<>>
      BY <2>1, <2>3 DEF Peer, c
    <3>2. Joint(Peeled(c), t) /\ t \in Sshsession /\ t.party = "server"
      BY <1>1, <3>1, ServerReads
    <3>3. ses' = [x \in Party |-> IF x = "client" THEN Peeled(c) ELSE t]
      <4>1. ses' = [ses EXCEPT !["server"] = t, !["client"].wire = Tail(@)]
        BY <2>1, <2>3, <3>1 DEF c, s
      <4>. HIDE DEF t
      <4>. QED
        BY <1>2, <4>1 DEF c, Peeled
    <3>. HIDE DEF t
    <3>4. Peeled(c) \in Sshsession /\ Peeled(c).party = "client"
      BY <1>1, <3>1, PeeledFields
    <3>. QED
      BY <2>1, <3>2, <3>3, <3>4, After
  <2>. QED
    BY <1>2, <2>2, <2>3
<1>6. ASSUME NEW p \in Party, SendData(p) PROVE TypeOK' /\ JointOK'
  <2>1. /\ ses[p].sent < MaxData
        /\ ses' = [ses EXCEPT ![p] = Sending(ses[p])]
        /\ guess' = guess /\ strict' = strict
    BY <1>6 DEF SendData, Sending
  <2>2. CASE p = "client"
    <3>. DEFINE t == Sending(c)
    <3>1. Joint(t, s) /\ t \in Sshsession /\ t.party = "client"
      BY <1>1, <2>1, <2>2, ClientSends DEF c
    <3>2. ses' = [x \in Party |-> IF x = "client" THEN t ELSE s]
      <4>1. ses' = [ses EXCEPT !["client"] = t]
        BY <2>1, <2>2 DEF c
      <4>. HIDE DEF t
      <4>. QED
        BY <1>2, <4>1 DEF s
    <3>. HIDE DEF t
    <3>. QED
      BY <1>1, <2>1, <3>1, <3>2, After
  <2>3. CASE p = "server"
    <3>. DEFINE t == Sending(s)
    <3>1. Joint(c, t) /\ t \in Sshsession /\ t.party = "server"
      BY <1>1, <2>1, <2>3, ServerSends DEF s
    <3>2. ses' = [x \in Party |-> IF x = "client" THEN c ELSE t]
      <4>1. ses' = [ses EXCEPT !["server"] = t]
        BY <2>1, <2>3 DEF s
      <4>. HIDE DEF t
      <4>. QED
        BY <1>2, <4>1 DEF c
    <3>. HIDE DEF t
    <3>. QED
      BY <1>1, <2>1, <3>1, <3>2, After
  <2>. QED
    BY <1>2, <2>2, <2>3
<1>. QED
  BY <1>3, <1>4, <1>5, <1>6 DEF Next

(* The invariant holds in every reachable state: the two parties are in a   *)
(* row of Joint, whatever the order of rekeys, guesses and data.            *)
THEOREM Always == Spec => []IndInv
<1>1. Init => IndInv
  BY Starts DEF IndInv
<1>2. IndInv /\ [Next]_vars => IndInv'
  BY Inductive DEF IndInv
<1>. QED
  BY <1>1, <1>2, PTL DEF Spec

(* Each party has a session record of the right kind, and only packets of   *)
(* the layers above wait in its reply queue (enqueue_reply_packet()).       *)
THEOREM TypeCorrect == Spec => []TypeOK
BY Always, PTL DEF IndInv

(* No party gives up (dropbear_exit()): every packet is opened with the key *)
(* and sequence number it was sealed with and comes when it is allowed.     *)
THEOREM SessionGoesOn == Spec => []NobodyExits
<1>1. IndInv => NobodyExits
  <2>. SUFFICES ASSUME IndInv PROVE NobodyExits
    OBVIOUS
  <2>1. ses["client"] \in Sshsession /\ ses["server"] \in Sshsession
    BY DEF IndInv, TypeOK, Party
  <2>2. PICK i, j, kc, ks :
          /\ Fits(ses["client"], ses["server"], i, j, kc, ks)
          /\ Both(ses["client"], ses["server"], i, j, kc, ks)
    BY <2>1, RowsFit DEF IndInv, JointOK
  <2>3. i \in {0, 1, 2, 3} /\ j \in {0, 1, 2, 3}
    BY <2>2 DEF Fits
  <2>4. ~ses["client"].exited /\ ~ses["server"].exited
    BY <2>2, <2>3, Stages DEF Both
  <2>. QED
    BY <2>4 DEF NobodyExits, Party
<1>. QED
  BY <1>1, Always, PTL

(* "don't send other packets during kex": nothing of the layers above is    *)
(* on a wire between a KEXINIT and its NEWKEYS (encrypt_packet()).          *)
THEOREM KexIsQuiet == Spec => []QuietDuringKex
<1>1. IndInv => QuietDuringKex
  <2>. SUFFICES ASSUME IndInv PROVE QuietDuringKex
    OBVIOUS
  <2>1. ses["client"] \in Sshsession /\ ses["server"] \in Sshsession
    BY DEF IndInv, TypeOK, Party
  <2>2. PICK i, j, kc, ks : Both(ses["client"], ses["server"], i, j, kc, ks)
    BY <2>1, RowsFit DEF IndInv, JointOK
  <2>3. NoneBetween(ses["client"].wire) /\ NoneBetween(ses["server"].wire)
    BY <2>2 DEF Both, Link, Wire
  <2>4. \A p \in Party : NoneBetween(ses[p].wire)
    BY <2>3 DEF Party
  <2>. QED
    BY <2>4 DEF QuietDuringKex, NoneBetween
<1>. QED
  BY <1>1, Always, PTL

(* What an empty wire says. *)
LEMMA NothingUnderWay ==
  ASSUME NEW a \in Sshsession, NEW b \in Sshsession, Link(a, b, <<>>), a.wire = <<>>,
         a.reply_queue = <<>>
  PROVE  /\ a.transkey = b.recvkey /\ a.transseq = b.recvseq /\ a.sent = b.received
<1>. DEFINE u == a.sent - Len(a.reply_queue) - b.received
<1>1. Shape(<<>>, <<>>, u) /\ NextSeal(<<>>, a.transkey, a.transseq, b.recvkey, b.recvseq)
  BY DEF Link, Wire, Seal
<1>2. Len(<<>>) = 0
  OBVIOUS
<1>3. a.sent \in Nat /\ b.received \in Nat /\ b.recvseq \in Nat
  BY Types
<1>4. a.sent = b.received
  <2>1. Len(<<>>) = u + Len(<<>>)
    BY <1>1, Zenon DEF Shape
  <2>2. u = a.sent - 0 - b.received
    BY <1>2
  <2>. HIDE DEF u
  <2>3. 0 = u + 0
    BY <1>2, <2>1
  <2>. QED
    BY <1>3, <2>2, <2>3
<1>5. NoNewkeys(<<>>)
  BY <1>2 DEF NoNewkeys
<1>6. a.transkey = b.recvkey /\ a.transseq = b.recvseq
  BY <1>1, <1>2, <1>3, <1>5 DEF NextSeal
<1>. QED
  BY <1>4, <1>6

(* After an exchange both seal and open with its keys and the numbers       *)
(* agree; everything that waited has been sent, and has arrived             *)
(* (switch_keys(), maybe_flush_reply_queue()).                              *)
THEOREM KeysAreShared == Spec => []KeysAgree
<1>1. IndInv => KeysAgree
  <2>. DEFINE c == ses["client"]
              s == ses["server"]
  <2>. SUFFICES ASSUME IndInv, \A p \in Party : ses[p].wire = <<>> /\ ~ses[p].sentkexinit
                PROVE  \A p \in Party :
                         /\ ses[p].transkey = c.param /\ ses[p].recvkey = c.param
                         /\ ses[p].transseq = ses[Peer(p)].recvseq
                         /\ ses[p].sent = ses[Peer(p)].received
                         /\ ses[p].reply_queue = <<>> /\ ~ses[p].ignorenext
                         /\ ses[p].dataallowed
    BY Zenon DEF KeysAgree
  <2>1. /\ c \in Sshsession /\ s \in Sshsession /\ Joint(c, s)
        /\ c.wire = <<>> /\ s.wire = <<>> /\ ~c.sentkexinit /\ ~s.sentkexinit
    BY DEF IndInv, TypeOK, JointOK, Party
  <2>. HIDE DEF c, s
  <2>2. Idle(c, s)
    <3>1. ~ClientOpens(c, s) /\ ~ServerDone(c, s)
      BY <2>1, Stages DEF ClientOpens, ServerDone, Both
    <3>. QED
      BY <2>1, <3>1, ServerClosed
  <2>3. Stage(c, 0) /\ Stage(s, 0) /\ Link(c, s, <<>>) /\ Link(s, c, <<>>) /\ NewKey(c, s)
    BY <2>2 DEF Idle, Both
  <2>4. /\ c.reply_queue = <<>> /\ ~c.ignorenext /\ c.dataallowed
        /\ s.reply_queue = <<>> /\ ~s.ignorenext /\ s.dataallowed
    BY <2>3 DEF Stage
  <2>5. /\ c.transkey = s.recvkey /\ c.transseq = s.recvseq /\ c.sent = s.received
        /\ s.transkey = c.recvkey /\ s.transseq = c.recvseq /\ s.sent = c.received
    BY <2>1, <2>3, <2>4, NothingUnderWay
  <2>6. /\ c.transkey = c.param /\ s.transkey = c.param
        /\ c.recvkey = c.param /\ s.recvkey = c.param
    BY <2>3, <2>5 DEF NewKey
  <2>7. Peer("client") = "server" /\ Peer("server") = "client"
    BY DEF Peer
  <2>. QED
    BY <2>4, <2>5, <2>6, <2>7 DEF Party, c, s
<1>. QED
  BY <1>1, Always, PTL

-----------------------------------------------------------------------------
(* The packets of the layers above, in their order: DataOf by induction.   *)

(* A set of natural numbers has a least element. *)
LEMMA Least ==
  ASSUME NEW T \in SUBSET Nat, T # {}
  PROVE  \E x \in T : \A y \in T : x <= y
<1>. DEFINE R == {ss \in Nat \X Nat : ss[1] < ss[2]}
<1>1. IsWellFoundedOn(R, Nat)
  BY NatLessThanWellFounded, Zenon DEF OpToRel
<1>2. PICK x \in T : \A y \in T : ~ (<<y, x>> \in R)
  <2>. HIDE DEF R
  <2>. QED
    BY <1>1, WFMin, Zenon
<1>3. ASSUME NEW y \in T PROVE ~ (y < x)
  <2>1. <<y, x>> \in Nat \X Nat /\ <<y, x>>[1] = y /\ <<y, x>>[2] = x
    OBVIOUS
  <2>. SUFFICES ASSUME y < x PROVE FALSE
    OBVIOUS
  <2>2. <<y, x>> \in R
    BY <2>1
  <2>. QED
    BY <1>2, <2>2, Zenon
<1>. QED
  BY <1>3

(* Induction: a set that has 0 and, with each number, the next, has all. *)
LEMMA Induction ==
  ASSUME NEW T, 0 \in T, \A n \in Nat : n \in T => n + 1 \in T
  PROVE  Nat \subseteq T
<1>. DEFINE Bad == Nat \ T
<1>. SUFFICES ASSUME Bad # {} PROVE FALSE
  OBVIOUS
<1>1. PICK n \in Bad : \A m \in Bad : n <= m
  <2>1. Bad \in SUBSET Nat
    OBVIOUS
  <2>. HIDE DEF Bad
  <2>. QED
    BY <2>1, Least
<1>2. n # 0 /\ n - 1 \in Nat /\ n - 1 \in T
  BY <1>1
<1>. QED
  BY <1>2

(* What DataOf() computes, packet by packet. *)
DataStep(w, d, i) ==
  IF i = 0 THEN <<>>
  ELSE IF w[i].type = "data" THEN Append(d[i - 1], w[i].n) ELSE d[i - 1]

DataUpTo(w) ==
  LET d[i \in 0 .. Len(w)] ==
        IF i = 0 THEN <<>>
        ELSE IF w[i].type = "data" THEN Append(d[i - 1], w[i].n) ELSE d[i - 1]
  IN  d

(* The recursion defines a function. *)
LEMMA DataRecursion ==
  ASSUME NEW w, Len(w) \in Nat
  PROVE  /\ DataUpTo(w) = [i \in 0 .. Len(w) |-> DataStep(w, DataUpTo(w), i)]
         /\ DataOf(w) = DataUpTo(w)[Len(w)]
<1>. DEFINE T == {n \in Nat : \E d : d = [i \in 0 .. n |-> DataStep(w, d, i)]}
<1>1. 0 \in T
  <2>. DEFINE e == [i \in 0 .. 0 |-> <<>>]
  <2>1. e = [i \in 0 .. 0 |-> DataStep(w, e, i)]
    BY DEF DataStep
  <2>. QED
    BY <2>1
<1>2. ASSUME NEW n \in Nat, n \in T PROVE n + 1 \in T
  <2>1. PICK d : d = [i \in 0 .. n |-> DataStep(w, d, i)]
    BY <1>2
  <2>. DEFINE e == [i \in 0 .. (n + 1) |-> IF i <= n THEN d[i] ELSE DataStep(w, d, n + 1)]
  <2>2. ASSUME NEW i \in 0 .. (n + 1) PROVE e[i] = DataStep(w, e, i)
    <3>1. CASE i <= n
      <4>1. e[i] = d[i] /\ i \in 0 .. n
        BY <3>1
      <4>2. d[i] = DataStep(w, d, i)
        BY <2>1, <4>1, Zenon
      <4>3. i # 0 => e[i - 1] = d[i - 1]
        BY <3>1
      <4>. QED
        BY <4>1, <4>2, <4>3 DEF DataStep
    <3>2. CASE i = n + 1
      BY <3>2 DEF DataStep
    <3>. QED
      BY <3>1, <3>2
  <2>3. e = [i \in 0 .. (n + 1) |-> DataStep(w, e, i)]
    BY <2>2
  <2>. HIDE DEF e
  <2>4. n + 1 \in Nat
    OBVIOUS
  <2>. QED
    BY <2>3, <2>4, Zenon
<1>3. Nat \subseteq T
  <2>. HIDE DEF T
  <2>. QED
    BY <1>1, <1>2, Induction
<1>4. \E d : d = [i \in 0 .. Len(w) |-> DataStep(w, d, i)]
  BY <1>3
<1>5. DataUpTo(w) = [i \in 0 .. Len(w) |-> DataStep(w, DataUpTo(w), i)]
  BY <1>4, Zenon DEF DataUpTo, DataStep
<1>6. DataOf(w) = DataUpTo(w)[Len(w)]
  BY Zenon DEF DataOf, DataUpTo
<1>. QED
  BY <1>5, <1>6

(* The same, used. *)
LEMMA DataUnfold ==
  ASSUME NEW w, Len(w) \in Nat
  PROVE  /\ DataUpTo(w)[0] = <<>>
         /\ \A i \in 1 .. Len(w) :
              DataUpTo(w)[i] = IF w[i].type = "data" THEN Append(DataUpTo(w)[i - 1], w[i].n)
                               ELSE DataUpTo(w)[i - 1]
         /\ DataOf(w) = DataUpTo(w)[Len(w)]
<1>. DEFINE d == DataUpTo(w)
<1>1. d = [i \in 0 .. Len(w) |-> DataStep(w, d, i)] /\ DataOf(w) = d[Len(w)]
  BY DataRecursion
<1>. HIDE DEF d
<1>2. \A i \in 0 .. Len(w) : d[i] = DataStep(w, d, i)
  BY <1>1, Zenon
<1>3. d[0] = <<>>
  BY <1>2 DEF DataStep
<1>4. ASSUME NEW i \in 1 .. Len(w)
      PROVE  d[i] = IF w[i].type = "data" THEN Append(d[i - 1], w[i].n) ELSE d[i - 1]
  BY <1>2 DEF DataStep
<1>. QED
  BY <1>1, <1>3, <1>4 DEF d

(* It is a sequence of numbers. *)
LEMMA DataType ==
  ASSUME NEW w \in Seq(Packet)
  PROVE  \A i \in 0 .. Len(w) : DataUpTo(w)[i] \in Seq(Nat)
<1>. DEFINE d == DataUpTo(w)
            T == {n \in Nat : n <= Len(w) => d[n] \in Seq(Nat)}
<1>1. /\ d[0] = <<>>
      /\ \A i \in 1 .. Len(w) :
           d[i] = IF w[i].type = "data" THEN Append(d[i - 1], w[i].n) ELSE d[i - 1]
  BY DataUnfold
<1>. HIDE DEF d
<1>2. 0 \in T
  <2>1. <<>> \in Seq(Nat)
    OBVIOUS
  <2>. QED
    BY <1>1, <2>1
<1>3. ASSUME NEW n \in Nat, n \in T PROVE n + 1 \in T
  <2>. SUFFICES ASSUME n + 1 <= Len(w) PROVE d[n + 1] \in Seq(Nat)
    OBVIOUS
  <2>1. n + 1 \in 1 .. Len(w) /\ (n + 1) - 1 = n /\ d[n] \in Seq(Nat)
    BY <1>3
  <2>2. d[n + 1] = IF w[n + 1].type = "data" THEN Append(d[n], w[n + 1].n) ELSE d[n]
    BY <1>1, <2>1
  <2>3. w[n + 1].n \in Nat
    <3>1. w[n + 1] \in Packet
      BY <2>1
    <3>. QED
      BY <3>1 DEF Packet
  <2>. QED
    BY <2>1, <2>2, <2>3
<1>4. Nat \subseteq T
  <2>. HIDE DEF T
  <2>. QED
    BY <1>2, <1>3, Induction
<1>. QED
  BY <1>4 DEF d

(* Nothing of a longer wire's end shows in what comes before. *)
LEMMA DataPrefix ==
  ASSUME NEW w \in Seq(Packet), NEW v \in Seq(Packet), Len(w) <= Len(v),
         \A i \in 1 .. Len(w) : v[i] = w[i]
  PROVE  \A i \in 0 .. Len(w) : DataUpTo(v)[i] = DataUpTo(w)[i]
<1>. DEFINE d == DataUpTo(w)
            e == DataUpTo(v)
            T == {n \in Nat : n <= Len(w) => e[n] = d[n]}
<1>1. /\ d[0] = <<>>
      /\ \A i \in 1 .. Len(w) :
           d[i] = IF w[i].type = "data" THEN Append(d[i - 1], w[i].n) ELSE d[i - 1]
  BY DataUnfold
<1>2. /\ e[0] = <<>>
      /\ \A i \in 1 .. Len(v) :
           e[i] = IF v[i].type = "data" THEN Append(e[i - 1], v[i].n) ELSE e[i - 1]
  BY DataUnfold
<1>. HIDE DEF d, e
<1>3. 0 \in T
  BY <1>1, <1>2
<1>4. ASSUME NEW n \in Nat, n \in T PROVE n + 1 \in T
  <2>. SUFFICES ASSUME n + 1 <= Len(w) PROVE e[n + 1] = d[n + 1]
    OBVIOUS
  <2>1. n + 1 \in 1 .. Len(w) /\ n + 1 \in 1 .. Len(v) /\ (n + 1) - 1 = n /\ d[n] = e[n]
    BY <1>4
  <2>2. d[n + 1] = IF w[n + 1].type = "data" THEN Append(d[n], w[n + 1].n) ELSE d[n]
    BY <1>1, <2>1
  <2>3. e[n + 1] = IF v[n + 1].type = "data" THEN Append(e[n], v[n + 1].n) ELSE e[n]
    BY <1>2, <2>1
  <2>. QED
    BY <2>1, <2>2, <2>3
<1>5. Nat \subseteq T
  <2>. HIDE DEF T
  <2>. QED
    BY <1>3, <1>4, Induction
<1>. QED
  BY <1>5 DEF d, e

(* A packet at the end. *)
LEMMA DataAppend ==
  ASSUME NEW w \in Seq(Packet), NEW m \in Packet
  PROVE  /\ DataOf(Append(w, m)) = IF m.type = "data" THEN Append(DataOf(w), m.n) ELSE DataOf(w)
         /\ DataOf(w) \in Seq(Nat)
<1>. DEFINE v == Append(w, m)
<1>1. /\ v \in Seq(Packet) /\ Len(v) = Len(w) + 1 /\ Len(w) \in Nat /\ v[Len(w) + 1] = m
      /\ \A i \in 1 .. Len(w) : v[i] = w[i]
  BY AppendPacket
<1>. HIDE DEF v
<1>2. Len(w) \in 0 .. Len(w) /\ Len(v) \in 1 .. Len(v) /\ Len(v) - 1 = Len(w) /\ Len(w) <= Len(v)
  BY <1>1
<1>3. DataOf(w) = DataUpTo(w)[Len(w)] /\ DataOf(w) \in Seq(Nat)
  BY <1>1, <1>2, DataUnfold, DataType
<1>4. DataUpTo(v)[Len(w)] = DataUpTo(w)[Len(w)]
  BY <1>1, <1>2, DataPrefix
<1>5. /\ DataOf(v) = DataUpTo(v)[Len(v)]
      /\ DataUpTo(v)[Len(v)] = IF v[Len(v)].type = "data"
                               THEN Append(DataUpTo(v)[Len(v) - 1], v[Len(v)].n)
                               ELSE DataUpTo(v)[Len(v) - 1]
  BY <1>1, <1>2, DataUnfold
<1>. QED
  BY <1>1, <1>2, <1>3, <1>4, <1>5 DEF v

(* A sequence by its elements. *)
LEMMA SameSeq ==
  ASSUME NEW a \in Seq(Nat), NEW b \in Seq(Nat), Len(a) = Len(b),
         \A i \in 1 .. Len(a) : a[i] = b[i]
  PROVE  a = b
OBVIOUS

(* One more at the end does not change what comes first. *)
LEMMA TailAppend ==
  ASSUME NEW s \in Seq(Nat), s # <<>>, NEW x \in Nat
  PROVE  /\ Append(s, x) \in Seq(Nat) /\ Append(s, x) # <<>>
         /\ Tail(Append(s, x)) = Append(Tail(s), x)
<1>. DEFINE a == Tail(Append(s, x))
            b == Append(Tail(s), x)
<1>1. /\ Append(s, x) \in Seq(Nat) /\ Append(s, x) # <<>> /\ Len(Append(s, x)) = Len(s) + 1
      /\ Len(s) \in Nat /\ Len(s) >= 1
      /\ \A i \in 1 .. Len(s) + 1 : Append(s, x)[i] = IF i = Len(s) + 1 THEN x ELSE s[i]
  OBVIOUS
<1>2. /\ a \in Seq(Nat) /\ Len(a) = Len(s)
      /\ \A i \in 1 .. Len(s) : a[i] = Append(s, x)[i + 1]
  <2>. DEFINE z == Append(s, x)
  <2>1. z \in Seq(Nat) /\ z # <<>> /\ Len(z) = Len(s) + 1
    BY <1>1
  <2>. HIDE DEF z
  <2>2. /\ Tail(z) \in Seq(Nat) /\ Len(Tail(z)) = Len(z) - 1
        /\ \A i \in 1 .. Len(z) - 1 : Tail(z)[i] = z[i + 1]
    BY <2>1
  <2>. QED
    BY <1>1, <2>1, <2>2 DEF z
<1>3. /\ Tail(s) \in Seq(Nat) /\ Len(Tail(s)) = Len(s) - 1
      /\ \A i \in 1 .. Len(s) - 1 : Tail(s)[i] = s[i + 1]
  OBVIOUS
<1>4. /\ b \in Seq(Nat) /\ Len(b) = Len(s)
      /\ \A i \in 1 .. Len(s) : b[i] = IF i = Len(s) THEN x ELSE s[i + 1]
  <2>. DEFINE z == Tail(s)
  <2>. HIDE DEF z
  <2>1. /\ z \in Seq(Nat) /\ Len(z) = Len(s) - 1
        /\ \A i \in 1 .. Len(s) - 1 : z[i] = s[i + 1]
    BY <1>3 DEF z
  <2>2. /\ Append(z, x) \in Seq(Nat) /\ Len(Append(z, x)) = Len(s)
        /\ \A i \in 1 .. Len(s) : Append(z, x)[i] = IF i = Len(s) THEN x ELSE z[i]
    BY <1>1, <2>1
  <2>3. \A i \in 1 .. Len(s) : i # Len(s) => z[i] = s[i + 1]
    BY <1>1, <2>1
  <2>. QED
    BY <2>2, <2>3 DEF z
<1>. HIDE DEF a, b
<1>5. ASSUME NEW i \in 1 .. Len(s) PROVE a[i] = b[i]
  <2>1. i + 1 \in 1 .. Len(s) + 1 /\ (i + 1 = Len(s) + 1 <=> i = Len(s))
    BY <1>1
  <2>2. a[i] = IF i = Len(s) THEN x ELSE s[i + 1]
    BY <1>1, <1>2, <2>1
  <2>. QED
    BY <1>4, <2>2
<1>6. a = b
  BY <1>2, <1>4, <1>5, SameSeq
<1>. QED
  BY <1>1, <1>6 DEF a, b

(* The first packet is read. *)
LEMMA DataTail ==
  ASSUME NEW w \in Seq(Packet), w # <<>>
  PROVE  IF Head(w).type = "data"
         THEN DataOf(w) # <<>> /\ DataOf(Tail(w)) = Tail(DataOf(w))
         ELSE DataOf(Tail(w)) = DataOf(w)
<1>. DEFINE v == Tail(w)
            d == DataUpTo(w)
            e == DataUpTo(v)
            T == {n \in Nat : n <= Len(v) =>
                    IF w[1].type = "data"
                    THEN d[n + 1] \in Seq(Nat) /\ d[n + 1] # <<>> /\ e[n] = Tail(d[n + 1])
                    ELSE e[n] = d[n + 1]}
<1>1. /\ v \in Seq(Packet) /\ Len(v) \in Nat /\ Len(w) = Len(v) + 1 /\ Head(w) = w[1]
      /\ \A i \in 1 .. Len(v) : v[i] = w[i + 1]
  BY TailPacket
<1>2. /\ d[0] = <<>> /\ DataOf(w) = d[Len(w)]
      /\ \A i \in 1 .. Len(w) :
           d[i] = IF w[i].type = "data" THEN Append(d[i - 1], w[i].n) ELSE d[i - 1]
  BY DataUnfold
<1>3. /\ e[0] = <<>> /\ DataOf(v) = e[Len(v)]
      /\ \A i \in 1 .. Len(v) :
           e[i] = IF v[i].type = "data" THEN Append(e[i - 1], v[i].n) ELSE e[i - 1]
  BY <1>1, DataUnfold
<1>4. \A i \in 1 .. Len(w) : w[i] \in Packet /\ w[i].n \in Nat
  <2>1. \A i \in 1 .. Len(w) : w[i] \in Packet
    OBVIOUS
  <2>. QED
    BY <2>1 DEF Packet
<1>. HIDE DEF v, d, e
<1>5. 0 \in T
  <2>1. 1 \in 1 .. Len(w) /\ 1 - 1 = 0 /\ 0 + 1 = 1
    BY <1>1
  <2>2. d[1] = IF w[1].type = "data" THEN Append(<<>>, w[1].n) ELSE <<>>
    BY <1>2, <2>1
  <2>3. /\ Append(<<>>, w[1].n) \in Seq(Nat) /\ Append(<<>>, w[1].n) # <<>>
        /\ Tail(Append(<<>>, w[1].n)) = <<>>
    BY <1>4, <2>1
  <2>. QED
    BY <1>3, <2>1, <2>2, <2>3
<1>6. ASSUME NEW n \in Nat, n \in T PROVE n + 1 \in T
  <2>. SUFFICES ASSUME n + 1 <= Len(v)
                PROVE  IF w[1].type = "data"
                       THEN /\ d[n + 1 + 1] \in Seq(Nat) /\ d[n + 1 + 1] # <<>>
                            /\ e[n + 1] = Tail(d[n + 1 + 1])
                       ELSE e[n + 1] = d[n + 1 + 1]
    OBVIOUS
  <2>1. /\ n + 1 \in 1 .. Len(v) /\ n + 1 + 1 \in 1 .. Len(w)
        /\ (n + 1) - 1 = n /\ (n + 1 + 1) - 1 = n + 1 /\ n <= Len(v)
    BY <1>1
  <2>. DEFINE x == w[n + 1 + 1]
              s == d[n + 1]
  <2>2. v[n + 1] = x /\ x.n \in Nat
    BY <1>1, <1>4, <2>1
  <2>3. d[n + 1 + 1] = IF x.type = "data" THEN Append(s, x.n) ELSE s
    BY <1>2, <2>1
  <2>4. e[n + 1] = IF x.type = "data" THEN Append(e[n], x.n) ELSE e[n]
    BY <1>3, <2>1, <2>2
  <2>5. IF w[1].type = "data" THEN s \in Seq(Nat) /\ s # <<>> /\ e[n] = Tail(s) ELSE e[n] = s
    BY <1>6, <2>1
  <2>. HIDE DEF x, s
  <2>6. CASE w[1].type = "data"
    <3>1. /\ Append(s, x.n) \in Seq(Nat) /\ Append(s, x.n) # <<>>
          /\ Tail(Append(s, x.n)) = Append(Tail(s), x.n)
      BY <2>2, <2>5, <2>6, TailAppend
    <3>. QED
      BY <2>3, <2>4, <2>5, <2>6, <3>1
  <2>7. CASE w[1].type # "data"
    BY <2>3, <2>4, <2>5, <2>7
  <2>. QED
    BY <2>6, <2>7
<1>7. Nat \subseteq T
  <2>. HIDE DEF T
  <2>. QED
    BY <1>5, <1>6, Induction
<1>. QED
  <2>1. Len(v) \in T /\ Len(v) <= Len(v)
    BY <1>1, <1>7
  <2>2. IF w[1].type = "data"
        THEN d[Len(w)] # <<>> /\ e[Len(v)] = Tail(d[Len(w)])
        ELSE e[Len(v)] = d[Len(w)]
    BY <1>1, <2>1
  <2>. QED
    BY <1>1, <1>2, <1>3, <2>2, Zenon DEF v

(* The first n of q behind h. *)
Extends(s, h, q, n) ==
  /\ s \in Seq(Nat) /\ Len(s) = Len(h) + n
  /\ \A i \in 1 .. Len(h) : s[i] = h[i]
  /\ \A i \in 1 .. n : s[Len(h) + i] = q[i]

(* One more of them. *)
LEMMA ExtendsNext ==
  ASSUME NEW s, NEW h \in Seq(Nat), NEW q \in Seq(Nat), NEW n \in Nat, n + 1 <= Len(q),
         Extends(s, h, q, n)
  PROVE  Extends(Append(s, q[n + 1]), h, q, n + 1)
<1>. DEFINE t == Append(s, q[n + 1])
<1>1. s \in Seq(Nat) /\ Len(s) = Len(h) + n /\ Len(h) \in Nat /\ q[n + 1] \in Nat
  BY DEF Extends
<1>2. /\ t \in Seq(Nat) /\ Len(t) = Len(s) + 1 /\ t[Len(s) + 1] = q[n + 1]
      /\ \A i \in 1 .. Len(s) : t[i] = s[i]
  BY <1>1
<1>. HIDE DEF t
<1>3. Len(t) = Len(h) + (n + 1)
  BY <1>1, <1>2
<1>4. \A i \in 1 .. Len(h) : t[i] = h[i]
  BY <1>1, <1>2 DEF Extends
<1>5. ASSUME NEW i \in 1 .. (n + 1) PROVE t[Len(h) + i] = q[i]
  <2>1. CASE i = n + 1
    <3>1. Len(h) + i = Len(s) + 1
      BY <1>1, <2>1
    <3>. QED
      BY <1>2, <2>1, <3>1
  <2>2. CASE i \in 1 .. n
    <3>1. Len(h) + i \in 1 .. Len(s)
      BY <1>1, <2>2
    <3>. QED
      BY <1>2, <2>2, <3>1 DEF Extends
  <2>. QED
    BY <2>1, <2>2
<1>. QED
  BY <1>2, <1>3, <1>4, <1>5 DEF Extends, t

(* All of them. *)
LEMMA ExtendsAll ==
  ASSUME NEW s, NEW h \in Seq(Nat), NEW q \in Seq(Nat), Extends(s, h, q, Len(q))
  PROVE  s = h \o q
<1>. DEFINE t == h \o q
<1>1. /\ t \in Seq(Nat) /\ Len(t) = Len(h) + Len(q) /\ Len(h) \in Nat /\ Len(q) \in Nat
      /\ \A i \in 1 .. Len(h) : t[i] = h[i]
      /\ \A i \in 1 .. Len(q) : t[Len(h) + i] = q[i]
  OBVIOUS
<1>. HIDE DEF t
<1>2. s \in Seq(Nat) /\ Len(s) = Len(t)
  BY <1>1 DEF Extends
<1>3. ASSUME NEW i \in 1 .. Len(s) PROVE s[i] = t[i]
  <2>1. CASE i <= Len(h)
    BY <1>1, <2>1 DEF Extends
  <2>2. CASE i > Len(h)
    <3>1. i - Len(h) \in 1 .. Len(q) /\ Len(h) + (i - Len(h)) = i
      BY <1>1, <1>2, <2>2
    <3>. QED
      BY <1>1, <3>1 DEF Extends
  <2>. QED
    BY <1>1, <2>1, <2>2
<1>. QED
  BY <1>1, <1>2, <1>3, SameSeq DEF t

(* What has waited is sent. *)
LEMMA DataWaiting ==
  ASSUME NEW w \in Seq(Packet), NEW q \in Seq(Nat), NEW key \in Nat, NEW seq \in Nat
  PROVE  DataOf(w \o Waiting(q, key, seq)) = DataOf(w) \o q
<1>. DEFINE u == Waiting(q, key, seq)
            v == w \o u
            e == DataUpTo(v)
            h == DataOf(w)
            T == {n \in Nat : n <= Len(q) => Extends(e[Len(w) + n], h, q, n)}
<1>1. u \in Seq(Packet) /\ Len(u) = Len(q) /\ Len(q) \in Nat
  BY WaitingPackets
<1>2. \A i \in 1 .. Len(q) : u[i].type = "data" /\ u[i].n = q[i]
  BY DEF Waiting
<1>. HIDE DEF u
<1>3. /\ v \in Seq(Packet) /\ Len(v) = Len(w) + Len(q) /\ Len(w) \in Nat
      /\ \A i \in 1 .. Len(w) : v[i] = w[i]
      /\ \A i \in 1 .. Len(q) : v[Len(w) + i] = u[i]
  <2>1. /\ v \in Seq(Packet) /\ Len(v) = Len(w) + Len(u) /\ Len(w) \in Nat
        /\ \A i \in 1 .. Len(w) : v[i] = w[i]
        /\ \A i \in 1 .. Len(u) : v[Len(w) + i] = u[i]
    BY <1>1, ConcatPacket
  <2>. HIDE DEF v
  <2>. QED
    BY <1>1, <2>1
<1>. HIDE DEF v
<1>4. Len(v) \in Nat /\ Len(w) \in 0 .. Len(w) /\ Len(w) <= Len(v)
  BY <1>1, <1>3
<1>5. /\ DataOf(v) = e[Len(v)]
      /\ \A i \in 1 .. Len(v) :
           e[i] = IF v[i].type = "data" THEN Append(e[i - 1], v[i].n) ELSE e[i - 1]
  BY <1>4, DataUnfold
<1>6. e[Len(w)] = h /\ h \in Seq(Nat)
  <2>1. e[Len(w)] = DataUpTo(w)[Len(w)]
    BY <1>3, <1>4, DataPrefix
  <2>. QED
    BY <1>3, <1>4, <2>1, DataUnfold, DataType
<1>. HIDE DEF e, h
<1>7. 0 \in T
  <2>1. Extends(h, h, q, 0)
    BY <1>6 DEF Extends
  <2>2. Len(w) + 0 = Len(w)
    BY <1>3
  <2>. QED
    BY <1>6, <2>1, <2>2
<1>8. ASSUME NEW n \in Nat, n \in T PROVE n + 1 \in T
  <2>. SUFFICES ASSUME n + 1 <= Len(q) PROVE Extends(e[Len(w) + (n + 1)], h, q, n + 1)
    OBVIOUS
  <2>. DEFINE k == Len(w) + (n + 1)
  <2>1. n + 1 \in 1 .. Len(q) /\ k \in 1 .. Len(v) /\ k - 1 = Len(w) + n /\ n <= Len(q)
    BY <1>1, <1>3
  <2>2. v[k].type = "data" /\ v[k].n = q[n + 1]
    BY <1>2, <1>3, <2>1
  <2>. HIDE DEF k
  <2>3. e[k] = Append(e[Len(w) + n], q[n + 1])
    BY <1>5, <2>1, <2>2
  <2>4. Extends(e[Len(w) + n], h, q, n)
    BY <1>8, <2>1
  <2>. QED
    BY <1>6, <2>3, <2>4, ExtendsNext DEF k
<1>9. Nat \subseteq T
  <2>. HIDE DEF T
  <2>. QED
    BY <1>7, <1>8, Induction
<1>10. Extends(e[Len(v)], h, q, Len(q))
  <2>1. Len(q) \in T /\ Len(q) <= Len(q)
    BY <1>1, <1>9
  <2>. QED
    BY <1>3, <2>1
<1>. QED
  BY <1>5, <1>6, <1>10, ExtendsAll DEF v, h, u

-----------------------------------------------------------------------------
(* The functions of a session keep what is on its way to the peer, whatever *)
(* else they do.                                                            *)

(* What is on its way: on the wire, or waiting for the end of an exchange. *)
Pending(s) == DataOf(s.wire) \o s.reply_queue

Fields == {"party", "exited", "dataallowed", "sentkexinit", "recvkexinit", "sentnewkeys",
           "recvnewkeys", "donefirstkex", "strict_kex", "our_first_follows_matches",
           "requirenext", "ignorenext", "kex_state", "param", "newkey", "trans_valid",
           "recv_valid", "transkey", "recvkey", "transseq", "recvseq", "kexes",
           "reply_queue", "wire", "sent", "received"}

(* What of a session these functions need. *)
Sane(s) ==
  /\ DOMAIN s = Fields
  /\ s.wire \in Seq(Packet) /\ s.reply_queue \in Seq(Nat)
  /\ s.param \in Nat /\ s.newkey \in Nat /\ s.transkey \in Nat /\ s.transseq \in Nat

Kept(s, t) == Sane(t) /\ t.sent = s.sent /\ Pending(t) = Pending(s)

(* Sessions are sane. *)
LEMMA SessionsAreSane ==
  ASSUME NEW s \in Sshsession
  PROVE  Sane(s)
<1>1. s.wire \in Seq(Packet) /\ s.param \in Nat /\ s.newkey \in Nat /\ s.transkey \in Nat
      /\ s.transseq \in Nat /\ s.reply_queue \in Seq(1 .. MaxData)
  BY DEF Sshsession
<1>2. s.reply_queue \in Seq(Nat)
  <2>1. 1 .. MaxData \subseteq Nat
    BY KexBoundAssumption
  <2>. QED
    BY <1>1, <2>1, SeqSubset
<1>3. DOMAIN s = Fields
  BY DEF Sshsession, Fields
<1>. QED
  BY <1>1, <1>2, <1>3 DEF Sane

(* A packet of an exchange is sent. *)
LEMMA SendKept ==
  ASSUME NEW s, Sane(s), NEW type \in Type \ {"data"}, NEW n \in Nat,
         s.dataallowed \/ type # "kexinit"
  PROVE  Kept(s, encrypt_packet(s, type, n))
<1>. DEFINE m == Sealed(type, n, s.transkey, s.transseq)
            v == Append(s.wire, m)
            t == [s EXCEPT !.wire = v, !.transseq = s.transseq + 1]
<1>1. encrypt_packet(s, type, n) = t
  BY DEF encrypt_packet, packet_is_okay_kex, Sealed
<1>2. m \in Packet /\ m.type = type
  BY SealedPacket DEF Sane, Sealed
<1>3. s.wire \in Seq(Packet)
  BY DEF Sane
<1>. HIDE DEF m
<1>4. DataOf(v) = DataOf(s.wire) /\ v \in Seq(Packet)
  BY <1>2, <1>3, DataAppend, AppendPacket
<1>. HIDE DEF v
<1>5. /\ t.wire = v /\ t.reply_queue = s.reply_queue /\ t.sent = s.sent
      /\ t.param = s.param /\ t.newkey = s.newkey /\ t.transkey = s.transkey
      /\ t.transseq = s.transseq + 1 /\ DOMAIN t = Fields
  BY DEF Sane, Fields
<1>. HIDE DEF t
<1>6. Sane(t)
  BY <1>4, <1>5 DEF Sane
<1>. QED
  BY <1>1, <1>4, <1>5, <1>6 DEF Kept, Pending

(* Other fields do not matter. *)
LEMMA OthersKept ==
  ASSUME NEW s, Sane(s), NEW t, DOMAIN t = Fields,
         t.wire = s.wire, t.reply_queue = s.reply_queue, t.sent = s.sent,
         t.param \in Nat, t.newkey \in Nat, t.transkey \in Nat, t.transseq \in Nat
  PROVE  Kept(s, t)
BY DEF Kept, Sane, Pending

(* One after the other. *)
LEMMA BothKept ==
  ASSUME NEW r, NEW s, NEW t, Kept(r, s), Kept(s, t)
  PROVE  Kept(r, t)
BY DEF Kept

(* dropbear_exit() *)
LEMMA ExitKept ==
  ASSUME NEW s, Sane(s)
  PROVE  Kept(s, Exit(s))
<1>. DEFINE t == Exit(s)
<1>1. /\ DOMAIN t = Fields
      /\ t.wire = s.wire /\ t.reply_queue = s.reply_queue /\ t.sent = s.sent
      /\ t.param = s.param /\ t.newkey = s.newkey /\ t.transkey = s.transkey
      /\ t.transseq = s.transseq
  BY DEF Exit, Sane, Fields
<1>. HIDE DEF t
<1>2. t.param \in Nat /\ t.newkey \in Nat /\ t.transkey \in Nat /\ t.transseq \in Nat
  BY <1>1 DEF Sane
<1>3. Kept(s, t)
  BY <1>1, <1>2, OthersKept
<1>. QED
  BY <1>3 DEF t

(* The client's Diffie-Hellman value. *)
LEMMA SendDhKept ==
  ASSUME NEW s, Sane(s)
  PROVE  Kept(s, send_msg_kexdh_init(s))
<1>. DEFINE r == [s EXCEPT !.param = s.param + 1]
<1>1. /\ DOMAIN r = Fields
      /\ r.wire = s.wire /\ r.reply_queue = s.reply_queue /\ r.sent = s.sent
      /\ r.param = s.param + 1 /\ r.newkey = s.newkey /\ r.transkey = s.transkey
      /\ r.transseq = s.transseq
  BY DEF Sane, Fields
<1>2. s.param + 1 \in Nat /\ s.newkey \in Nat /\ s.transkey \in Nat /\ s.transseq \in Nat
  BY DEF Sane
<1>3. send_msg_kexdh_init(s) = encrypt_packet(r, "kexdh_init", s.param + 1)
  BY DEF send_msg_kexdh_init
<1>. HIDE DEF r
<1>4. Kept(s, r)
  BY <1>1, <1>2, OthersKept
<1>5. Kept(r, encrypt_packet(r, "kexdh_init", s.param + 1))
  BY <1>2, <1>4, SendKept DEF Kept, Type
<1>. QED
  BY <1>3, <1>4, <1>5, BothKept

(* A KEXINIT, by a party that is not in an exchange. *)
LEMMA SendKexinitKept ==
  ASSUME NEW s, Sane(s), s.dataallowed
  PROVE  Kept(s, send_msg_kexinit(s))
<1>. DEFINE r == encrypt_packet(s, "kexinit", 0)
            t == [r EXCEPT !.dataallowed = FALSE, !.sentkexinit = TRUE, !.kexes = @ + 1,
                           !.trans_valid = FALSE, !.recv_valid = FALSE]
<1>1. send_msg_kexinit(s) = IF s.party = "client" THEN send_msg_kexdh_init(t) ELSE t
  BY DEF send_msg_kexinit
<1>2. Kept(s, r)
  BY SendKept DEF Type
<1>. HIDE DEF r
<1>3. /\ DOMAIN t = Fields
      /\ t.wire = r.wire /\ t.reply_queue = r.reply_queue /\ t.sent = r.sent
      /\ t.param = r.param /\ t.newkey = r.newkey /\ t.transkey = r.transkey
      /\ t.transseq = r.transseq
  BY <1>2 DEF Kept, Sane, Fields
<1>. HIDE DEF t
<1>4. Kept(r, t)
  BY <1>2, <1>3, OthersKept DEF Kept, Sane
<1>5. Kept(s, t)
  BY <1>2, <1>4, BothKept
<1>6. Kept(s, send_msg_kexdh_init(t))
  BY <1>5, SendDhKept, BothKept DEF Kept
<1>. QED
  BY <1>1, <1>5, <1>6

(* New keys for either direction. *)
LEMMA SwitchKept ==
  ASSUME NEW s, Sane(s)
  PROVE  Kept(s, switch_keys(s))
<1>. DEFINE r == s.recvnewkeys /\ s.recv_valid
            x == s.sentnewkeys /\ s.trans_valid
            t == [s EXCEPT !.recvkey = IF r THEN s.newkey ELSE @, !.recv_valid = @ /\ ~r,
                           !.transkey = IF x THEN s.newkey ELSE @, !.trans_valid = @ /\ ~x]
            u == kexinitialise(t)
<1>1. switch_keys(s) = IF ~(s.sentkexinit /\ s.recvkexinit) THEN Exit(s)
                       ELSE IF t.sentnewkeys /\ t.recvnewkeys THEN u ELSE t
  BY Zenon DEF switch_keys
<1>. HIDE DEF r, x
<1>2. /\ DOMAIN t = Fields
      /\ t.wire = s.wire /\ t.reply_queue = s.reply_queue /\ t.sent = s.sent
      /\ t.param = s.param /\ t.newkey = s.newkey
      /\ t.transkey = IF x THEN s.newkey ELSE s.transkey
      /\ t.transseq = s.transseq
  BY DEF Sane, Fields
<1>. HIDE DEF t
<1>3. Kept(s, t)
  BY <1>2, OthersKept DEF Sane
<1>4. /\ DOMAIN u = Fields
      /\ u.wire = t.wire /\ u.reply_queue = t.reply_queue /\ u.sent = t.sent
      /\ u.param = t.param /\ u.newkey = t.newkey /\ u.transkey = t.transkey
      /\ u.transseq = t.transseq
  BY <1>2 DEF kexinitialise, Fields
<1>. HIDE DEF u
<1>5. Kept(t, u)
  BY <1>3, <1>4, OthersKept DEF Kept, Sane
<1>. QED
  BY <1>1, <1>3, <1>5, BothKept, ExitKept

(* A NEWKEYS of one's own. *)
LEMMA SendNewkeysKept ==
  ASSUME NEW s, Sane(s), NEW k \in Nat
  PROVE  Kept(s, send_msg_newkeys(s, k))
<1>. DEFINE r == encrypt_packet(s, "newkeys", 0)
            t == [r EXCEPT !.sentnewkeys = TRUE, !.donefirstkex = TRUE,
                           !.dataallowed = TRUE, !.newkey = k,
                           !.trans_valid = TRUE, !.recv_valid = TRUE]
            u == switch_keys(t)
            x == [u EXCEPT !.transseq = IF s.strict_kex THEN 0 ELSE u.transseq]
<1>1. send_msg_newkeys(s, k) = x
  BY DEF send_msg_newkeys
<1>2. Kept(s, r)
  BY SendKept DEF Type
<1>. HIDE DEF r
<1>3. /\ DOMAIN t = Fields
      /\ t.wire = r.wire /\ t.reply_queue = r.reply_queue /\ t.sent = r.sent
      /\ t.param = r.param /\ t.newkey = k /\ t.transkey = r.transkey
      /\ t.transseq = r.transseq
  BY <1>2 DEF Kept, Sane, Fields
<1>. HIDE DEF t
<1>4. Kept(r, t)
  BY <1>2, <1>3, OthersKept DEF Kept, Sane
<1>5. Kept(t, u)
  BY <1>4, SwitchKept DEF Kept
<1>. HIDE DEF u
<1>6. /\ DOMAIN x = Fields
      /\ x.wire = u.wire /\ x.reply_queue = u.reply_queue /\ x.sent = u.sent
      /\ x.param = u.param /\ x.newkey = u.newkey /\ x.transkey = u.transkey
      /\ x.transseq = IF s.strict_kex THEN 0 ELSE u.transseq
  BY <1>5 DEF Kept, Sane, Fields
<1>. HIDE DEF x
<1>7. Kept(u, x)
  <2>1. x.param \in Nat /\ x.newkey \in Nat /\ x.transkey \in Nat /\ x.transseq \in Nat
    BY <1>5, <1>6 DEF Kept, Sane
  <2>2. Sane(u)
    BY <1>5 DEF Kept
  <2>. QED
    BY <1>6, <2>1, <2>2, OthersKept
<1>8. Kept(s, u)
  BY <1>2, <1>4, <1>5, BothKept
<1>. QED
  BY <1>1, <1>7, <1>8, BothKept

(* A NEWKEYS of the other. *)
LEMMA NewkeysKept ==
  ASSUME NEW s, Sane(s)
  PROVE  Kept(s, recv_msg_newkeys(s))
<1>. DEFINE t == [s EXCEPT !.recvnewkeys = TRUE]
            u == switch_keys(t)
            x == [u EXCEPT !.recvseq = IF s.strict_kex THEN 0 ELSE u.recvseq]
<1>1. recv_msg_newkeys(s) = x
  BY DEF recv_msg_newkeys
<1>2. /\ DOMAIN t = Fields
      /\ t.wire = s.wire /\ t.reply_queue = s.reply_queue /\ t.sent = s.sent
      /\ t.param = s.param /\ t.newkey = s.newkey /\ t.transkey = s.transkey
      /\ t.transseq = s.transseq
  BY DEF Sane, Fields
<1>. HIDE DEF t
<1>3. Kept(s, t)
  BY <1>2, OthersKept DEF Sane
<1>4. Kept(t, u)
  BY <1>3, SwitchKept DEF Kept
<1>. HIDE DEF u
<1>5. /\ DOMAIN x = Fields
      /\ x.wire = u.wire /\ x.reply_queue = u.reply_queue /\ x.sent = u.sent
      /\ x.param = u.param /\ x.newkey = u.newkey /\ x.transkey = u.transkey
      /\ x.transseq = u.transseq
  BY <1>4 DEF Kept, Sane, Fields
<1>. HIDE DEF x
<1>6. Kept(u, x)
  BY <1>4, <1>5, OthersKept DEF Kept, Sane
<1>7. Kept(s, u)
  BY <1>3, <1>4, BothKept
<1>. QED
  BY <1>1, <1>6, <1>7, BothKept

(* A KEXINIT of the other. *)
LEMMA KexinitKept ==
  ASSUME NEW s, Sane(s), ~s.sentkexinit => s.dataallowed
  PROVE  Kept(s, recv_msg_kexinit(s))
<1>. DEFINE t == IF s.sentkexinit THEN s ELSE send_msg_kexinit(s)
            g == guess[t.kexes]
            v == read_kex_algos(t, g)
            u == [v EXCEPT !.requirenext = IF s.party = "client" THEN "kexdh_reply"
                                           ELSE "kexdh_init",
                           !.recvkexinit = TRUE]
<1>1. recv_msg_kexinit(s)
      = IF t.recvkexinit \/ (u.strict_kex /\ ~u.donefirstkex /\ u.recvseq # 1)
        THEN Exit(t) ELSE u
  BY Zenon DEF recv_msg_kexinit
<1>2. Kept(s, s)
  BY DEF Kept
<1>3. Kept(s, t)
  BY <1>2, SendKexinitKept
<1>. HIDE DEF t, g
<1>4. /\ DOMAIN v = Fields
      /\ v.wire = t.wire /\ v.reply_queue = t.reply_queue /\ v.sent = t.sent
      /\ v.param = t.param /\ v.newkey = t.newkey /\ v.transkey = t.transkey
      /\ v.transseq = t.transseq
  BY <1>3 DEF Kept, Sane, Fields, read_kex_algos
<1>. HIDE DEF v
<1>5. Kept(t, v)
  BY <1>3, <1>4, OthersKept DEF Kept, Sane
<1>6. /\ DOMAIN u = Fields
      /\ u.wire = v.wire /\ u.reply_queue = v.reply_queue /\ u.sent = v.sent
      /\ u.param = v.param /\ u.newkey = v.newkey /\ u.transkey = v.transkey
      /\ u.transseq = v.transseq
  BY <1>5 DEF Kept, Sane, Fields
<1>. HIDE DEF u
<1>7. Kept(v, u)
  BY <1>5, <1>6, OthersKept DEF Kept, Sane
<1>8. Kept(s, u)
  BY <1>3, <1>5, <1>7, BothKept
<1>9. Kept(s, Exit(t))
  BY <1>3, ExitKept, BothKept DEF Kept
<1>. QED
  BY <1>1, <1>8, <1>9

(* The client's Diffie-Hellman value, or the server's. *)
LEMMA DhKept ==
  ASSUME NEW s, Sane(s), NEW e \in Nat
  PROVE  Kept(s, recv_msg_kexdh_init(s, e)) /\ Kept(s, recv_msg_kexdh_reply(s, e))
<1>1. ASSUME NEW r, Kept(s, r)
      PROVE  Kept(s, [send_msg_newkeys(r, e) EXCEPT !.requirenext = "newkeys"])
  <2>. DEFINE t == send_msg_newkeys(r, e)
              u == [t EXCEPT !.requirenext = "newkeys"]
  <2>1. Kept(s, t)
    BY <1>1, SendNewkeysKept, BothKept DEF Kept
  <2>. HIDE DEF t
  <2>2. /\ DOMAIN u = Fields
        /\ u.wire = t.wire /\ u.reply_queue = t.reply_queue /\ u.sent = t.sent
        /\ u.param = t.param /\ u.newkey = t.newkey /\ u.transkey = t.transkey
        /\ u.transseq = t.transseq
    BY <2>1 DEF Kept, Sane, Fields
  <2>. HIDE DEF u
  <2>3. Kept(t, u)
    BY <2>1, <2>2, OthersKept DEF Kept, Sane
  <2>4. Kept(s, u)
    BY <2>1, <2>3, BothKept
  <2>. QED
    BY <2>4 DEF u, t
<1>2. Kept(s, s)
  BY DEF Kept
<1>3. Kept(s, encrypt_packet(s, "kexdh_reply", e))
  BY SendKept DEF Type
<1>4. Kept(s, recv_msg_kexdh_init(s, e))
  BY <1>1, <1>3, ExitKept, Zenon DEF recv_msg_kexdh_init
<1>5. Kept(s, recv_msg_kexdh_reply(s, e))
  BY <1>1, <1>2, ExitKept, Zenon DEF recv_msg_kexdh_reply
<1>. QED
  BY <1>4, <1>5

(* Any packet, by its handler. *)
LEMMA HandlerKept ==
  ASSUME NEW s, Sane(s), ~s.sentkexinit => s.dataallowed, NEW m \in Packet
  PROVE  Kept(s, handler(s, m))
<1>. DEFINE t == [s EXCEPT !.received = s.received + 1]
<1>1. m.type \in Type /\ m.n \in Nat
  BY DEF Packet
<1>2. /\ DOMAIN t = Fields
      /\ t.wire = s.wire /\ t.reply_queue = s.reply_queue /\ t.sent = s.sent
      /\ t.param = s.param /\ t.newkey = s.newkey /\ t.transkey = s.transkey
      /\ t.transseq = s.transseq
  BY DEF Sane, Fields
<1>3. CASE m.type = "data"
  <2>1. handler(s, m) = t
    BY <1>3 DEF handler
  <2>. HIDE DEF t
  <2>. QED
    BY <1>2, <2>1, OthersKept DEF Sane
<1>4. CASE m.type = "kexinit"
  BY <1>4, KexinitKept DEF handler
<1>5. CASE m.type = "kexdh_init"
  BY <1>1, <1>5, DhKept DEF handler
<1>6. CASE m.type = "kexdh_reply"
  BY <1>1, <1>6, DhKept DEF handler
<1>7. CASE m.type = "newkeys"
  BY <1>7, NewkeysKept DEF handler
<1>8. CASE m.type = "unimplemented"
  BY <1>8, SendKept DEF handler, recv_unimplemented, Type
<1>. QED
  BY <1>1, <1>3, <1>4, <1>5, <1>6, <1>7, <1>8 DEF Type

(* And before that, whether it may come now. *)
LEMMA ProcessKept ==
  ASSUME NEW s, Sane(s), ~s.sentkexinit => s.dataallowed, NEW m \in Packet
  PROVE  Kept(s, process_packet(s, m))
<1>. DEFINE t == [s EXCEPT !.recvseq = s.recvseq + 1]
            u == [t EXCEPT !.ignorenext = FALSE]
            v == [t EXCEPT !.requirenext = "any"]
<1>1. process_packet(s, m)
      = IF m.key # s.recvkey \/ m.seq # s.recvseq THEN Exit(s)
        ELSE IF m.type = "unimplemented" /\ ~first_strict_kex(s) THEN t
        ELSE IF t.requirenext \notin {"any", m.type}
        THEN IF m.type \in {"kexinit", "data"} \/ first_strict_kex(s)
             THEN Exit(t) ELSE recv_unimplemented(t)
        ELSE IF t.ignorenext THEN u
        ELSE handler(v, m)
  BY DEF process_packet
<1>2. /\ DOMAIN t = Fields
      /\ t.wire = s.wire /\ t.reply_queue = s.reply_queue /\ t.sent = s.sent
      /\ t.param = s.param /\ t.newkey = s.newkey /\ t.transkey = s.transkey
      /\ t.transseq = s.transseq
      /\ t.sentkexinit = s.sentkexinit /\ t.dataallowed = s.dataallowed
  BY DEF Sane, Fields
<1>. HIDE DEF t
<1>3. Kept(s, t)
  BY <1>2, OthersKept DEF Sane
<1>4. /\ DOMAIN u = Fields
      /\ u.wire = t.wire /\ u.reply_queue = t.reply_queue /\ u.sent = t.sent
      /\ u.param = t.param /\ u.newkey = t.newkey /\ u.transkey = t.transkey
      /\ u.transseq = t.transseq
  BY <1>2 DEF Fields
<1>5. /\ DOMAIN v = Fields
      /\ v.wire = t.wire /\ v.reply_queue = t.reply_queue /\ v.sent = t.sent
      /\ v.param = t.param /\ v.newkey = t.newkey /\ v.transkey = t.transkey
      /\ v.transseq = t.transseq
      /\ v.sentkexinit = t.sentkexinit /\ v.dataallowed = t.dataallowed
  BY <1>2 DEF Fields
<1>. HIDE DEF u, v
<1>6. Kept(s, u) /\ Kept(s, v)
  BY <1>3, <1>4, <1>5, OthersKept, BothKept DEF Kept, Sane
<1>7. Kept(s, handler(v, m))
  BY <1>2, <1>5, <1>6, HandlerKept, BothKept DEF Kept
<1>8. Kept(s, Exit(s)) /\ Kept(s, Exit(t))
  BY <1>3, ExitKept, BothKept DEF Kept
<1>9. Kept(s, recv_unimplemented(t))
  <2>1. Kept(t, recv_unimplemented(t))
    BY <1>3, SendKept DEF Kept, recv_unimplemented, Type
  <2>. QED
    BY <1>3, <2>1, BothKept
<1>. QED
  BY <1>1, <1>3, <1>6, <1>7, <1>8, <1>9

(* What waits is sent, in its order, behind what is on the wire. *)
LEMMA FlushKept ==
  ASSUME NEW s, Sane(s)
  PROVE  Kept(s, maybe_flush_reply_queue(s))
<1>. DEFINE q == s.reply_queue
            w == s.wire \o Waiting(q, s.transkey, s.transseq)
            t == [s EXCEPT !.wire = w, !.transseq = s.transseq + Len(q), !.reply_queue = <<>>]
<1>1. maybe_flush_reply_queue(s) = IF ~s.dataallowed THEN s ELSE t
  BY DEF maybe_flush_reply_queue, Waiting
<1>2. s.wire \in Seq(Packet) /\ q \in Seq(Nat) /\ s.transkey \in Nat /\ s.transseq \in Nat
  BY DEF Sane
<1>3. DataOf(w) = DataOf(s.wire) \o q /\ w \in Seq(Packet) /\ Len(q) \in Nat
  <2>. DEFINE u == Waiting(q, s.transkey, s.transseq)
  <2>1. u \in Seq(Packet) /\ Len(q) \in Nat
    BY <1>2, WaitingPackets
  <2>2. DataOf(s.wire \o u) = DataOf(s.wire) \o q
    BY <1>2, DataWaiting
  <2>. HIDE DEF u
  <2>3. s.wire \o u \in Seq(Packet)
    BY <1>2, <2>1, ConcatPacket
  <2>. QED
    BY <2>1, <2>2, <2>3 DEF u
<1>4. DataOf(w) \o <<>> = DataOf(w)
  <2>1. DataOf(w) \in Seq(Nat)
    <3>1. Sealed("data", 0, 0, 0) \in Packet
      BY SealedPacket DEF Type
    <3>. QED
      BY <1>3, <3>1, DataAppend
  <2>. HIDE DEF w
  <2>. QED
    BY <2>1
<1>. HIDE DEF w
<1>5. /\ DOMAIN t = Fields
      /\ t.wire = w /\ t.reply_queue = <<>> /\ t.sent = s.sent
      /\ t.param = s.param /\ t.newkey = s.newkey /\ t.transkey = s.transkey
      /\ t.transseq = s.transseq + Len(q)
  BY DEF Sane, Fields
<1>. HIDE DEF t
<1>6. Sane(t)
  <2>1. <<>> \in Seq(Nat) /\ s.transseq + Len(q) \in Nat
    BY <1>2, <1>3
  <2>. QED
    BY <1>3, <1>5, <2>1 DEF Sane
<1>7. Kept(s, t)
  BY <1>3, <1>4, <1>5, <1>6 DEF Kept, Pending
<1>8. Kept(s, s)
  BY DEF Kept
<1>. QED
  BY <1>1, <1>7, <1>8

(* The end of an iteration. *)
LEMMA LoopKept ==
  ASSUME NEW s, Sane(s), NEW type
  PROVE  Kept(s, loophandler(s, type))
<1>1. ASSUME NEW r, Kept(s, r), NEW b PROVE Kept(s, [r EXCEPT !.kex_state = b])
  <2>. DEFINE t == [r EXCEPT !.kex_state = b]
  <2>1. /\ DOMAIN t = Fields
        /\ t.wire = r.wire /\ t.reply_queue = r.reply_queue /\ t.sent = r.sent
        /\ t.param = r.param /\ t.newkey = r.newkey /\ t.transkey = r.transkey
        /\ t.transseq = r.transseq
    BY <1>1 DEF Kept, Sane, Fields
  <2>. HIDE DEF t
  <2>2. Kept(r, t)
    BY <1>1, <2>1, OthersKept DEF Kept, Sane
  <2>3. Kept(s, t)
    BY <1>1, <2>2, BothKept
  <2>. QED
    BY <2>3 DEF t
<1>2. Kept(s, s)
  BY DEF Kept
<1>3. Kept(s, IF s.our_first_follows_matches THEN s ELSE send_msg_kexdh_init(s))
  BY <1>2, SendDhKept
<1>4. Kept(s, cli_sessionloop(s, type))
  <2>1. CASE type = "kexinit" /\ ~s.kex_state
    BY <1>1, <1>3, <2>1 DEF cli_sessionloop
  <2>2. CASE ~(type = "kexinit" /\ ~s.kex_state)
    <3>1. cli_sessionloop(s, type) = [s EXCEPT !.kex_state = s.kex_state /\ ~s.sentnewkeys]
      BY <2>2 DEF cli_sessionloop
    <3>. QED
      BY <1>1, <1>2, <3>1
  <2>. QED
    BY <2>1, <2>2
<1>. QED
  BY <1>2, <1>4 DEF loophandler

(* An iteration that reads a packet. *)
LEMMA ReadsKept ==
  ASSUME NEW s, Sane(s), ~s.sentkexinit => s.dataallowed, NEW m \in Packet
  PROVE  Kept(s, Reads(s, m))
<1>. DEFINE t == process_packet(s, m)
            u == maybe_flush_reply_queue(t)
            v == loophandler(u, m.type)
<1>1. Kept(s, t)
  BY ProcessKept
<1>. HIDE DEF t
<1>2. Kept(t, u)
  BY <1>1, FlushKept DEF Kept
<1>. HIDE DEF u
<1>3. Kept(u, v)
  BY <1>2, LoopKept DEF Kept
<1>. HIDE DEF v
<1>4. Kept(s, v)
  BY <1>1, <1>2, <1>3, BothKept
<1>. QED
  BY <1>4 DEF Reads, t, u, v

-----------------------------------------------------------------------------
(* The refinement of AppStream. *)

(* What the invariant says of one party. *)
LEMMA OneParty ==
  ASSUME IndInv, NEW p \in Party
  PROVE  /\ ses[p] \in Sshsession /\ Sane(ses[p])
         /\ ~ses[p].sentkexinit => ses[p].dataallowed
         /\ ses[p].dataallowed => ses[p].reply_queue = <<>>
         /\ Len(ses[p].reply_queue) <= ses[p].sent
<1>1. ses["client"] \in Sshsession /\ ses["server"] \in Sshsession /\ ses[p] \in Sshsession
  BY DEF IndInv, TypeOK, Party
<1>2. PICK i, j, kc, ks :
        /\ Fits(ses["client"], ses["server"], i, j, kc, ks)
        /\ Both(ses["client"], ses["server"], i, j, kc, ks)
  BY <1>1, RowsFit DEF IndInv, JointOK
<1>3. Stage(ses["client"], i) /\ Stage(ses["server"], j)
  BY <1>2 DEF Both
<1>4. PICK k : Stage(ses[p], k)
  BY <1>3 DEF Party
<1>5. /\ ses[p].sentkexinit <=> k # 0
      /\ ses[p].dataallowed <=> k \in {0, 3}
      /\ ses[p].dataallowed => ses[p].reply_queue = <<>>
      /\ Len(ses[p].reply_queue) <= ses[p].sent
  BY <1>4, Zenon DEF Stage
<1>. QED
  BY <1>1, <1>5, SessionsAreSane

(* Two lists one behind the other: the first of them loses its head ... *)
LEMMA TailConcat ==
  ASSUME NEW d \in Seq(Nat), NEW q \in Seq(Nat), d # <<>>
  PROVE  d \o q # <<>> /\ Tail(d \o q) = Tail(d) \o q
<1>. DEFINE a == Tail(d \o q)
            b == Tail(d) \o q
<1>1. /\ d \o q \in Seq(Nat) /\ Len(d \o q) = Len(d) + Len(q) /\ d \o q # <<>>
      /\ Len(d) \in Nat \ {0} /\ Len(q) \in Nat
  OBVIOUS
<1>2. /\ Tail(d) \in Seq(Nat) /\ Len(Tail(d)) = Len(d) - 1
      /\ \A i \in 1 .. Len(d) - 1 : Tail(d)[i] = d[i + 1]
  OBVIOUS
<1>3. a \in Seq(Nat) /\ Len(a) = Len(d) + Len(q) - 1
  BY <1>1
<1>4. b \in Seq(Nat) /\ Len(b) = Len(d) - 1 + Len(q)
  BY <1>2
<1>5. ASSUME NEW i \in 1 .. Len(a) PROVE a[i] = b[i]
  <2>1. a[i] = (d \o q)[i + 1]
    BY <1>1, <1>3
  <2>2. CASE i <= Len(d) - 1
    BY <1>1, <1>2, <1>3, <2>1, <2>2
  <2>3. CASE i > Len(d) - 1
    BY <1>1, <1>2, <1>3, <2>1, <2>3
  <2>. QED
    BY <1>1, <1>3, <2>2, <2>3
<1>6. Len(a) = Len(b)
  BY <1>1, <1>3, <1>4
<1>. HIDE DEF a, b
<1>7. a = b
  BY <1>3, <1>4, <1>5, <1>6, SameSeq
<1>. QED
  BY <1>1, <1>7 DEF a, b

(* ... or the second one grows. *)
LEMMA AppendConcat ==
  ASSUME NEW d \in Seq(Nat), NEW q \in Seq(Nat), NEW n \in Nat
  PROVE  /\ d \o Append(q, n) = Append(d \o q, n)
         /\ q = <<>> => Append(d, n) \o q = Append(d \o q, n)
OBVIOUS

(* What is on its way is a sequence of numbers. *)
LEMMA PendingType ==
  ASSUME NEW s, Sane(s)
  PROVE  /\ DataOf(s.wire) \in Seq(Nat) /\ s.reply_queue \in Seq(Nat)
         /\ Pending(s) \in Seq(Nat)
<1>1. s.wire \in Seq(Packet) /\ s.reply_queue \in Seq(Nat)
  BY DEF Sane
<1>2. Sealed("data", 0, 0, 0) \in Packet
  BY SealedPacket DEF Type
<1>3. DataOf(s.wire) \in Seq(Nat)
  BY <1>1, <1>2, DataAppend
<1>. QED
  BY <1>1, <1>3 DEF Pending

(* What the peer reads is no longer on its way. *)
LEMMA PeeledPending ==
  ASSUME NEW s, Sane(s), s.wire # <<>>
  PROVE  /\ Peeled(s).sent = s.sent
         /\ \/ Pending(Peeled(s)) = Pending(s)
            \/ Pending(s) # <<>> /\ Pending(Peeled(s)) = Tail(Pending(s))
<1>. DEFINE t == Peeled(s)
            d == DataOf(s.wire)
            q == s.reply_queue
<1>1. t.wire = Tail(s.wire) /\ t.reply_queue = q /\ t.sent = s.sent
  BY DEF Sane, Fields, Peeled
<1>2. Pending(t) = DataOf(Tail(s.wire)) \o q /\ Pending(s) = d \o q
  BY <1>1 DEF Pending
<1>3. d \in Seq(Nat) /\ q \in Seq(Nat)
  BY PendingType
<1>4. s.wire \in Seq(Packet)
  BY DEF Sane
<1>. HIDE DEF t, d, q
<1>5. CASE Head(s.wire).type = "data"
  <2>1. d # <<>> /\ DataOf(Tail(s.wire)) = Tail(d)
    BY <1>4, <1>5, DataTail DEF d
  <2>2. d \o q # <<>> /\ Tail(d \o q) = Tail(d) \o q
    BY <1>3, <2>1, TailConcat
  <2>. QED
    BY <1>1, <1>2, <2>1, <2>2 DEF t
<1>6. CASE Head(s.wire).type # "data"
  <2>1. DataOf(Tail(s.wire)) = d
    BY <1>4, <1>6, DataTail DEF d
  <2>. QED
    BY <1>1, <1>2, <2>1 DEF t
<1>. QED
  BY <1>5, <1>6

(* A packet of the layers above is put on the wire, or aside. *)
LEMMA SendingPending ==
  ASSUME NEW s \in Sshsession, s.dataallowed => s.reply_queue = <<>>,
         Len(s.reply_queue) <= s.sent, s.sent < MaxData
  PROVE  /\ Sending(s).sent = s.sent + 1
         /\ Pending(Sending(s)) = Append(Pending(s), s.sent + 1)
<1>. DEFINE r == [s EXCEPT !.sent = s.sent + 1]
            n == s.sent + 1
            m == Sealed("data", n, s.transkey, s.transseq)
            d == DataOf(s.wire)
            q == s.reply_queue
<1>1. /\ s.wire \in Seq(Packet) /\ s.transkey \in Nat /\ s.transseq \in Nat /\ n \in Nat
      /\ m \in Packet /\ m.type = "data" /\ m.n = n
  <2>1. s.wire \in Seq(Packet) /\ s.transkey \in Nat /\ s.transseq \in Nat /\ n \in Nat
    BY KexBoundAssumption DEF Sshsession
  <2>. QED
    BY <2>1, SealedPacket DEF Type, Sealed
<1>2. d \in Seq(Nat) /\ q \in Seq(Nat) /\ Pending(s) = d \o q
  BY SessionsAreSane, PendingType DEF Pending
<1>3. CASE s.dataallowed
  <2>. DEFINE v == Append(s.wire, m)
              t == [r EXCEPT !.wire = v, !.transseq = s.transseq + 1]
  <2>1. Sending(s) = t
    BY <1>3 DEF Sending, encrypt_packet, Sealed, Sshsession
  <2>2. t.wire = v /\ t.reply_queue = q /\ t.sent = n
    BY DEF Sshsession
  <2>3. DataOf(v) = Append(d, n)
    BY <1>1, DataAppend
  <2>4. q = <<>>
    BY <1>3
  <2>. HIDE DEF t, v, m, d, q, n, r
  <2>5. Append(d, n) \o q = Append(d \o q, n)
    BY <1>1, <1>2, <2>4, AppendConcat
  <2>. QED
    BY <1>2, <2>1, <2>2, <2>3, <2>5 DEF Pending, n
<1>4. CASE ~s.dataallowed
  <2>. DEFINE t == [r EXCEPT !.reply_queue = Append(q, n)]
  <2>5. ~(Len(s.reply_queue) > MAX_DEFER_REPLY_QUEUE)
    BY QueueAssumption, KexBoundAssumption, Types
  <2>1. Sending(s) = t
    BY <1>4, <2>5 DEF Sending, encrypt_packet, enqueue_reply_packet, packet_is_okay_kex, Sshsession
  <2>2. t.wire = s.wire /\ t.reply_queue = Append(q, n) /\ t.sent = n
    BY DEF Sshsession
  <2>. HIDE DEF t, m, q, n, r
  <2>3. Pending(t) = d \o Append(q, n)
    BY <2>2 DEF Pending
  <2>. HIDE DEF d
  <2>4. d \o Append(q, n) = Append(d \o q, n)
    BY <1>1, <1>2, AppendConcat
  <2>. QED
    BY <1>2, <2>1, <2>2, <2>3, <2>4 DEF n
<1>. QED
  BY <1>3, <1>4

(* The abstract state. *)
StreamSent == [p \in Party |-> ses[p].sent]
StreamUnderway == [p \in Party |-> DataOf(ses[p].wire) \o ses[p].reply_queue]

(* Nothing is sent or delivered. *)
LEMMA StreamStays ==
  ASSUME NEW f, ses' = f,
         \A p \in Party : f[p].sent = ses[p].sent /\ Pending(f[p]) = Pending(ses[p])
  PROVE  StreamSent' = StreamSent /\ StreamUnderway' = StreamUnderway
BY DEF StreamSent, StreamUnderway, Pending

(* A packet is sent. *)
LEMMA StreamSends ==
  ASSUME NEW f, ses' = f, NEW p \in Party,
         f[p].sent = ses[p].sent + 1, Pending(f[p]) = Append(Pending(ses[p]), ses[p].sent + 1),
         \A x \in Party \ {p} : f[x] = ses[x]
  PROVE  Stream!Send(p)
<1>1. StreamSent' = [StreamSent EXCEPT ![p] = StreamSent[p] + 1]
  BY DEF StreamSent
<1>2. StreamUnderway' = [StreamUnderway EXCEPT ![p] = Append(StreamUnderway[p], StreamSent[p] + 1)]
  BY DEF StreamSent, StreamUnderway, Pending
<1>. QED
  BY <1>1, <1>2 DEF Stream!Send, StreamSent, StreamUnderway

(* A packet is delivered. *)
LEMMA StreamDelivers ==
  ASSUME NEW f, ses' = f, NEW p \in Party, f[p].sent = ses[p].sent,
         Pending(ses[p]) # <<>>, Pending(f[p]) = Tail(Pending(ses[p])),
         \A x \in Party \ {p} : f[x].sent = ses[x].sent /\ Pending(f[x]) = Pending(ses[x])
  PROVE  Stream!Deliver(p)
<1>1. StreamSent' = StreamSent
  BY DEF StreamSent
<1>2. StreamUnderway' = [StreamUnderway EXCEPT ![p] = Tail(StreamUnderway[p])]
  BY DEF StreamUnderway, Pending
<1>3. StreamUnderway[p] # <<>>
  BY DEF StreamUnderway, Pending
<1>. QED
  BY <1>1, <1>2, <1>3 DEF Stream!Deliver, StreamSent, StreamUnderway

(* Every step is one of the stream, or none. *)
LEMMA StreamStep ==
  ASSUME IndInv, [Next]_vars
  PROVE  Stream!Next \/ (StreamSent' = StreamSent /\ StreamUnderway' = StreamUnderway)
<1>1. Party = {"client", "server"} /\ ses \in [Party -> Sshsession]
  BY DEF IndInv, TypeOK, Party
<1>2. CASE UNCHANGED vars
  BY <1>2 DEF vars, StreamSent, StreamUnderway
<1>3. ASSUME NEW p \in Party, checktimeouts(p)
      PROVE  StreamSent' = StreamSent /\ StreamUnderway' = StreamUnderway
  <2>. DEFINE t == send_msg_kexinit(ses[p])
              f == [ses EXCEPT ![p] = t]
  <2>1. ses' = f /\ ~ses[p].sentkexinit
    BY <1>3 DEF checktimeouts
  <2>2. t.sent = ses[p].sent /\ Pending(t) = Pending(ses[p])
    BY <2>1, OneParty, SendKexinitKept DEF Kept
  <2>. HIDE DEF t
  <2>3. \A x \in Party : f[x].sent = ses[x].sent /\ Pending(f[x]) = Pending(ses[x])
    BY <1>1, <2>2
  <2>. HIDE DEF f
  <2>. QED
    BY <2>1, <2>3, StreamStays
<1>4. ASSUME NEW p \in Party, Receive(p)
      PROVE  Stream!Next \/ (StreamSent' = StreamSent /\ StreamUnderway' = StreamUnderway)
  <2>. DEFINE q == Peer(p)
              m == Head(ses[q].wire)
              t == Reads(ses[p], m)
              u == Peeled(ses[q])
              f == [ses EXCEPT ![p] = t, ![q] = u]
  <2>1. q \in Party /\ q # p /\ Party \ {q} = {p}
    BY <1>1 DEF Peer
  <2>2. /\ ses[q].wire # <<>>
        /\ ses' = [ses EXCEPT ![p] = t, ![q].wire = Tail(@)]
    BY <1>4, Zenon DEF Receive, Reads
  <2>3. m \in Packet
    BY <2>1, <2>2, OneParty DEF Sane
  <2>4. t.sent = ses[p].sent /\ Pending(t) = Pending(ses[p])
    BY <2>3, OneParty, ReadsKept DEF Kept
  <2>5. /\ u.sent = ses[q].sent
        /\ \/ Pending(u) = Pending(ses[q])
           \/ Pending(ses[q]) # <<>> /\ Pending(u) = Tail(Pending(ses[q]))
    BY <2>1, <2>2, OneParty, PeeledPending
  <2>. HIDE DEF t, m, q
  <2>6. ses' = f
    BY <1>1, <2>1, <2>2 DEF Peeled
  <2>. HIDE DEF u
  <2>7. f[p] = t /\ f[q] = u
    BY <1>1, <2>1
  <2>. HIDE DEF f
  <2>8. CASE Pending(u) = Pending(ses[q])
    BY <2>1, <2>4, <2>5, <2>6, <2>7, <2>8, StreamStays
  <2>9. CASE Pending(ses[q]) # <<>> /\ Pending(u) = Tail(Pending(ses[q]))
    <3>1. \A x \in Party \ {q} : f[x].sent = ses[x].sent /\ Pending(f[x]) = Pending(ses[x])
      BY <2>1, <2>4, <2>7
    <3>2. Stream!Deliver(q)
      BY <2>1, <2>5, <2>6, <2>7, <2>9, <3>1, StreamDelivers
    <3>. QED
      BY <2>1, <3>2 DEF Stream!Next
  <2>. QED
    BY <2>5, <2>8, <2>9
<1>5. ASSUME NEW p \in Party, SendData(p) PROVE Stream!Next
  <2>. DEFINE t == Sending(ses[p])
              f == [ses EXCEPT ![p] = t]
  <2>1. ses' = f
    BY <1>5 DEF SendData, Sending
  <2>2. t.sent = ses[p].sent + 1 /\ Pending(t) = Append(Pending(ses[p]), ses[p].sent + 1)
    BY <1>5, OneParty, SendingPending DEF SendData
  <2>. HIDE DEF t
  <2>3. f[p] = t /\ \A x \in Party \ {p} : f[x] = ses[x]
    BY <1>1
  <2>. HIDE DEF f
  <2>4. Stream!Send(p)
    BY <2>1, <2>2, <2>3, StreamSends
  <2>. QED
    BY <2>4 DEF Stream!Next
<1>. QED
  BY <1>2, <1>3, <1>4, <1>5 DEF Next

(* At first nothing has been sent. *)
LEMMA StreamStarts ==
  ASSUME Init
  PROVE  Stream!Init
<1>1. ASSUME NEW p \in Party
      PROVE  ses[p].sent = 0 /\ Pending(ses[p]) = <<>>
  <2>. DEFINE a == common_session_init(p)
  <2>1. /\ a \in Sshsession /\ a.dataallowed /\ a.sent = 0
        /\ a.wire = <<>> /\ a.reply_queue = <<>>
    BY StartType
  <2>2. ses[p] = send_msg_kexinit(a)
    BY DEF Init
  <2>. HIDE DEF a
  <2>3. ses[p].sent = a.sent /\ Pending(ses[p]) = Pending(a)
    BY <2>1, <2>2, SessionsAreSane, SendKexinitKept DEF Kept
  <2>4. DataOf(<<>>) = <<>>
    <3>1. Len(<<>>) = 0
      OBVIOUS
    <3>. QED
      BY <3>1, DataUnfold
  <2>5. Pending(a) = <<>>
    BY <2>1, <2>4 DEF Pending
  <2>. QED
    BY <2>1, <2>3, <2>5
<1>2. StreamSent = [p \in Party |-> 0] /\ StreamUnderway = [p \in Party |-> <<>>]
  BY <1>1 DEF StreamSent, StreamUnderway, Pending
<1>. QED
  BY <1>2 DEF Stream!Init, StreamSent, StreamUnderway

(* The packets of the layers above come out once and in order, for any      *)
(* number of them and of exchanges, also those that waited in the reply     *)
(* queue (enqueue_reply_packet(), maybe_flush_reply_queue()).               *)
THEOREM StreamKept == Spec => ImplementsStream
<1>1. Init => Stream!Init
  BY StreamStarts
<1>2. IndInv /\ [Next]_vars => [Stream!Next]_<<StreamSent, StreamUnderway>>
  BY StreamStep
<1>. QED
  BY <1>1, <1>2, Always, PTL DEF Spec, ImplementsStream, Stream!Spec, StreamSent, StreamUnderway
=============================================================================
