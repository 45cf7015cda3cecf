---------------------------- MODULE ChannelProofs ----------------------------
(* Theorems about Channel, for any windows, pipe sizes and numbers of bytes. *)
EXTENDS Channel, TLAPS

-----------------------------------------------------------------------------
(* The inductive invariant: first what is about the struct Channel alone.  *)

(* Before setchannelfds() has anything to look at, or before the client's  *)
(* answer to an open.                                                      *)
Early == {"unopened", "session", "connecting", "opening"}
Unasked == {"unopened", "connecting", "opening"}

Closed(c) == \A x \in Fd : c.fd[x] = "closed"

(* The server's accounts of its own window, and that data is buffered for  *)
(* an open channel only.                                                   *)
AccountsOK(c) ==
  /\ c.recvwindow + c.recvdonelen + c.used <= recv_window
  /\ c.kind \in Early =>
       /\ c.used = 0 /\ c.recvdonelen = 0 /\ c.granted = 0
       /\ c.recvwindow = recv_window
       /\ \A x \in Stream : c.wire[x] = 0
  /\ c.kind \in {"unopened", "opening"} => c.transwindow = 0

(* What was sent agrees with the flags, and nothing was sent late: the     *)
(* descriptors from which more could come are closed by then, or are those *)
(* of a command that began too late.                                       *)
SentOK(c) ==
  /\ ~c.late
  /\ c.sent_close => c.sent_eof /\ (Closed(c) \/ c.posthumous)
  /\ c.sent_eof => NoMoreOutput(c) \/ c.posthumous
  /\ c.wire["close"] = IF c.sent_close THEN 1 ELSE 0
  /\ c.wire["eof"] <= IF c.sent_eof THEN 1 ELSE 0

(* A command has a pid; how it ended is sent just before the CLOSE. *)
ExitOK(c) ==
  /\ c.pid <=> c.kind \in {"pipe", "pty"}
  /\ c.exit # "none" => c.pid
  /\ c.flushing => c.exit # "none"
  /\ ~c.sent_close => c.wire["exit"] = 0
  /\ c.sent_close /\ c.pid /\ ~c.posthumous => c.wire["exit"] = 1 \/ c.exit = "unnamed"

(* A command that began after the CLOSE gets no input. *)
PostOK(c) == c.posthumous => c.sent_close /\ c.pid /\ c.recv_eof /\ c.used = 0

(* Descriptors that are not there yet are so together. *)
FdsOK(c) ==
  /\ c.fd["write"] = "uninit" <=> c.fd["read"] = "uninit"
  /\ c.fd["err"] # "uninit"
  /\ c.fd["write"] = "uninit" => c.kind \in {"unopened", "session", "connecting"}
  /\ c.kind \in {"unopened", "session", "connecting"} => \A x \in Fd : c.fd[x] # "open"
  /\ c.kind = "opening" /\ ~c.gone =>
       c.fd["write"] = "open" /\ c.fd["read"] = "open" /\ c.fd["err"] = "closed"
  /\ c.kind \in Early /\ ~c.recv_eof => ~c.sent_eof
  /\ c.gone => Closed(c) /\ (c.recv_close \/ c.kind \in {"connecting", "opening"})
  /\ c.recv_close => c.recv_eof

ChanOK(c) == c \in Channel /\ AccountsOK(c) /\ SentOK(c) /\ ExitOK(c) /\ FdsOK(c) /\ PostOK(c)

-----------------------------------------------------------------------------
(* The channel and the world around it.                                    *)

(* The client: its window is never larger than the server's, it sends      *)
(* no data after its EOF and CLOSE.  Its EOF closes a session that has no  *)
(* command.                                                                *)
ClientOK ==
  /\ chan.fd["write"] = "open"
     => recv_window + chan.granted + cl.flight <= chan.recvwindow + cl.sent
  /\ cl.flight <= cl.sent /\ cl.sent <= recv_window + chan.granted
  /\ chan.kind \in Unasked => cl = NoClient /\ ~chan.recv_eof
  /\ chan.recv_eof => cl.flight = 0 /\ (cl.eof \/ cl.close)
  /\ chan.recv_close => cl.close
  /\ cl.gaveUp => cl.close
  /\ cl.close => cl.gaveUp \/ chan.sent_close
  /\ chan.kind = "session" /\ chan.recv_eof => chan.sent_close

(* The command: reaped once, and only after SIGCHLD. *)
ProgOK ==
  /\ prog # "none" <=> chan.pid
  /\ chan.exit # "none" => prog = "reaped"
  /\ sigpipe \/ "signal" \in ready => prog \in {"zombie", "reaped"}

(* select() does not lie: what was ready to read still is, a connect() is  *)
(* for a channel that waits for one.  Nothing but the assertion of         *)
(* send_msg_channel_data() ends the session.                               *)
ReadyOK ==
  /\ pc = "exited" => chan.posthumous /\ ReadsAfterClose
  /\ pc = "select" => ready = {}
  /\ pc = "packet" /\ "conn" \in ready => chan.kind = "connecting" /\ ~chan.gone
  /\ \A x \in Stream : x \in ready => out[x] > 0 \/ x \notin held
  /\ chan.kind \in Early => ready \cap Fd = {}
  /\ chan.kind = "pty" => held \in {{}, {"read", "write"}}

(* No byte is lost between the program and the client, unless the client   *)
(* closed the channel itself, a pty's descriptor was closed for writing or *)
(* the command began too late.                                             *)
BytesOK ==
  /\ \A x \in Stream : chan.wire[x] + out[x] = wrote[x] /\ due[x] <= wrote[x]
  /\ chan.kind \in {"unopened", "session", "connecting"} => \A x \in Stream : out[x] = 0
  /\ chan.kind # "pty" /\ ~cl.gaveUp /\ ~chan.posthumous
     => \A x \in Stream :
          chan.fd[x] = "closed" => out[x] = 0 \/ (chan.kind = "opening" /\ chan.gone)

IndInv ==
  /\ TypeOK
  /\ ChanOK(chan)
  /\ ClientOK
  /\ ProgOK
  /\ ReadyOK
  /\ BytesOK
  /\ InputComplete

-----------------------------------------------------------------------------
(* The functions that close descriptors and send EOF and CLOSE.            *)

(* What such a function may do to a channel. *)
Closing(c, d, outs) ==
  /\ d.kind = c.kind /\ d.pid = c.pid /\ d.exit = c.exit /\ d.posthumous = c.posthumous
  /\ d.recv_eof = c.recv_eof /\ d.recv_close = c.recv_close
  /\ d.used = c.used /\ d.recvwindow = c.recvwindow /\ d.recvdonelen = c.recvdonelen
  /\ d.transwindow = c.transwindow /\ d.granted = c.granted
  /\ \A x \in Stream : d.wire[x] = c.wire[x]
  /\ c.sent_close => d.sent_close
  /\ \A x \in Fd : d.fd[x] \in {c.fd[x], "closed"}
  /\ \A x \in Stream : d.fd[x] = "closed" =>
       \/ c.fd[x] \in {"closed", "uninit"} \/ outs[x] = 0
       \/ c.kind = "pty" \/ (c.recv_close /\ ~c.sent_close) \/ c.posthumous
  /\ d.fd["write"] = "closed" =>
       c.fd["write"] \in {"closed", "uninit"} \/ c.used = 0 \/ c.exit # "none"
  /\ d.gone => c.gone \/ c.recv_close

(* Such functions compose. *)
LEMMA ClosingTrans ==
  ASSUME NEW c, NEW d, NEW e, NEW outs, Closing(c, d, outs), Closing(d, e, outs)
  PROVE  Closing(c, e, outs)
BY DEF Closing, Stream, Fd

(* Calls of check_close() are for channels with descriptors, or after an   *)
(* EOF or CLOSE of the client.                                             *)
Ripe(c) == ~c.gone /\ c.kind \notin Unasked /\ (c.kind = "session" => c.recv_eof)

(* Only the descriptors differ. *)
SameButFd(c, d) ==
  /\ d.kind = c.kind /\ d.gone = c.gone /\ d.pid = c.pid /\ d.exit = c.exit
  /\ d.sent_eof = c.sent_eof /\ d.recv_eof = c.recv_eof
  /\ d.sent_close = c.sent_close /\ d.recv_close = c.recv_close
  /\ d.flushing = c.flushing /\ d.used = c.used /\ d.recvwindow = c.recvwindow
  /\ d.recvdonelen = c.recvdonelen /\ d.transwindow = c.transwindow
  /\ d.granted = c.granted /\ d.wire = c.wire /\ d.late = c.late
  /\ d.posthumous = c.posthumous

(* Only what was sent differs. *)
SameButSent(c, d) ==
  /\ d.kind = c.kind /\ d.gone = c.gone /\ d.pid = c.pid /\ d.exit = c.exit
  /\ d.recv_eof = c.recv_eof /\ d.recv_close = c.recv_close
  /\ d.flushing = c.flushing /\ d.used = c.used /\ d.recvwindow = c.recvwindow
  /\ d.recvdonelen = c.recvdonelen /\ d.transwindow = c.transwindow
  /\ d.granted = c.granted /\ d.fd = c.fd /\ d.posthumous = c.posthumous

(* A message sent is counted on the wire, and may be late. *)
LEMMA SendFields ==
  ASSUME NEW c \in Channel, NEW m \in Msg, NEW n \in Nat
  PROVE  LET d == Send(c, m, n)
         IN /\ d \in Channel
            /\ SameButSent(c, d)
            /\ d.sent_eof = c.sent_eof /\ d.sent_close = c.sent_close
            /\ d.wire[m] = c.wire[m] + n
            /\ \A k \in Msg \ {m} : d.wire[k] = c.wire[k]
            /\ d.late => c.late \/ c.wire["close"] > 0 \/ (m \in Stream /\ c.wire["eof"] > 0)
<1> DEFINE d == Send(c, m, n)
           w == [c.wire EXCEPT ![m] = @ + n]
           l == c.late \/ c.wire["close"] > 0 \/ (m \in Stream /\ c.wire["eof"] > 0)
<1>1. w \in [Msg -> Nat] /\ l \in BOOLEAN
  BY DEF Channel
<1>2. d = [c EXCEPT !.wire = w, !.late = l]
  BY DEF Send
<1>3. w[m] = c.wire[m] + n /\ \A k \in Msg \ {m} : w[k] = c.wire[k]
  BY DEF Channel
<1> HIDE DEF w, l, d
<1>4. d \in Channel
  BY <1>1, <1>2 DEF Channel
<1>5. /\ SameButSent(c, d)
      /\ d.sent_eof = c.sent_eof /\ d.sent_close = c.sent_close
      /\ d.wire = w /\ d.late = l
  BY <1>2 DEF SameButSent, Channel
<1> QED BY <1>3, <1>4, <1>5 DEF d, l

(* close_chan_fd() closes x, and the other of readfd and writefd with it   *)
(* if they are one descriptor; nothing else changes.                       *)
LEMMA CloseFd ==
  ASSUME NEW c \in Channel, NEW x \in Fd
  PROVE  LET d == close_chan_fd(c, x)
         IN /\ d \in Channel
            /\ SameButFd(c, d)
            /\ d.fd[x] = "closed"
            /\ \A y \in Fd : d.fd[y] \in {c.fd[y], "closed"}
            /\ \A y \in Fd \ {x} : d.fd[y] # c.fd[y] =>
                 x # "err" /\ y # "err" /\ (c.kind = "pty" \/ c.fd[x] = "uninit")
            /\ x # "err" /\ c.fd[x] = "uninit"
               => d.fd["read"] = "closed" /\ d.fd["write"] = "closed"
BY DEF close_chan_fd, Channel, Fd, FdState, SameButFd

(* Closing descriptors preserves the invariant. *)
LEMMA CloseFdOK ==
  ASSUME NEW c, ChanOK(c), c.kind # "opening", NEW x \in Fd
  PROVE  ChanOK(close_chan_fd(c, x)) /\ (Ripe(c) => Ripe(close_chan_fd(c, x)))
<1> DEFINE d == close_chan_fd(c, x)
<1>1. /\ d \in Channel
      /\ SameButFd(c, d)
      /\ d.fd[x] = "closed"
      /\ \A y \in Fd : d.fd[y] \in {c.fd[y], "closed"}
      /\ \A y \in Fd \ {x} : d.fd[y] # c.fd[y] =>
                 x # "err" /\ y # "err" /\ (c.kind = "pty" \/ c.fd[x] = "uninit")
      /\ x # "err" /\ c.fd[x] = "uninit" => d.fd["read"] = "closed" /\ d.fd["write"] = "closed"
  BY CloseFd DEF ChanOK
<1> HIDE DEF d
<1>2. AccountsOK(d)
  BY <1>1 DEF ChanOK, AccountsOK, SameButFd
<1>3. SentOK(d)
  BY <1>1 DEF ChanOK, SentOK, SameButFd, Closed, NoMoreOutput, Fd
<1>4. ExitOK(d) /\ PostOK(d)
  BY <1>1 DEF ChanOK, ExitOK, PostOK, SameButFd
<1>5. FdsOK(d)
  BY <1>1 DEF ChanOK, FdsOK, SameButFd, Fd, Closed, Channel
<1> QED BY <1>1, <1>2, <1>3, <1>4, <1>5 DEF ChanOK, d, Ripe, SameButFd

(* ... and is all that a closing function may do, if there is a reason. *)
LEMMA CloseFdClosing ==
  ASSUME NEW c, ChanOK(c), NEW x \in Fd, NEW outs,
         x \in Stream => outs[x] = 0 \/ c.fd[x] # "open",
         x = "write" \/ (c.kind = "pty" /\ x = "read")
           => c.fd["write"] # "open" \/ c.used = 0 \/ c.exit # "none"
  PROVE  Closing(c, close_chan_fd(c, x), outs)
<1> DEFINE d == close_chan_fd(c, x)
<1>1. /\ d \in Channel
      /\ SameButFd(c, d)
      /\ d.fd[x] = "closed"
      /\ \A y \in Fd : d.fd[y] \in {c.fd[y], "closed"}
      /\ \A y \in Fd \ {x} : d.fd[y] # c.fd[y] =>
                 x # "err" /\ y # "err" /\ (c.kind = "pty" \/ c.fd[x] = "uninit")
      /\ x # "err" /\ c.fd[x] = "uninit" => d.fd["read"] = "closed" /\ d.fd["write"] = "closed"
  BY CloseFd DEF ChanOK
<1> HIDE DEF d
<1>2. c.fd \in [Fd -> FdState] /\ FdsOK(c)
  BY DEF ChanOK, Channel
<1>3. \A y \in Fd : c.fd[y] # "open" => c.fd[y] \in {"closed", "uninit"}
  BY <1>2 DEF FdState
<1>4. \A y \in Stream : d.fd[y] = "closed" =>
       \/ c.fd[y] \in {"closed", "uninit"} \/ outs[y] = 0 \/ c.kind = "pty"
  BY <1>1, <1>2, <1>3 DEF FdsOK, Fd, Stream
<1>5. d.fd["write"] = "closed" =>
       c.fd["write"] \in {"closed", "uninit"} \/ c.used = 0 \/ c.exit # "none"
  BY <1>1, <1>2, <1>3 DEF FdsOK, Fd, Stream
<1> QED BY <1>1, <1>4, <1>5 DEF Closing, SameButFd, d

(* Flush: the ways out are closed when they are drained. *)
LEMMA FlushOK ==
  ASSUME NEW c, ChanOK(c), Ripe(c), NEW outs \in [Stream -> Nat]
  PROVE  LET d == Flush(c, outs) IN ChanOK(d) /\ Ripe(d) /\ Closing(c, d, outs)
<1> DEFINE f == c.flushing \/ (c.kind \in Session /\ ~c.sent_close /\ c.exit # "none")
           d == [c EXCEPT !.flushing = f]
           e == IF f /\ d.fd["read"] = "open" /\ ~fd_read_pending("read", outs)
                THEN close_chan_fd(d, "read") ELSE d
           g == IF f /\ e.fd["err"] = "open" /\ ~fd_read_pending("err", outs)
                THEN close_chan_fd(e, "err") ELSE e
<1>1. ChanOK(d) /\ Ripe(d) /\ Closing(c, d, outs) /\ (f => d.exit # "none")
  BY DEF Ripe, ChanOK, Channel, AccountsOK, SentOK, ExitOK, PostOK, FdsOK, Closing, Closed, NoMoreOutput,
         Early, Stream, Fd
<1> HIDE DEF d
<1>2. ChanOK(e) /\ Ripe(e) /\ Closing(d, e, outs)
  <2>1. CASE f /\ d.fd["read"] = "open" /\ ~fd_read_pending("read", outs)
    BY <1>1, <2>1, CloseFdOK, CloseFdClosing DEF Ripe, Unasked, fd_read_pending, Stream, Fd
  <2>2. CASE ~(f /\ d.fd["read"] = "open" /\ ~fd_read_pending("read", outs))
    BY <1>1, <2>2 DEF Closing
  <2> QED BY <2>1, <2>2
<1> HIDE DEF e
<1>3. ChanOK(g) /\ Ripe(g) /\ Closing(e, g, outs)
  <2>1. CASE f /\ e.fd["err"] = "open" /\ ~fd_read_pending("err", outs)
    BY <1>2, <2>1, CloseFdOK, CloseFdClosing DEF Ripe, Unasked, fd_read_pending, Stream, Fd
  <2>2. CASE ~(f /\ e.fd["err"] = "open" /\ ~fd_read_pending("err", outs))
    BY <1>2, <2>2 DEF Closing
  <2> QED BY <2>1, <2>2
<1>4. g = Flush(c, outs)
  BY DEF Flush, d, e
<1> HIDE DEF g
<1> QED BY <1>1, <1>2, <1>3, <1>4, ClosingTrans

(* stdin is closed after an EOF with nothing left to write, or when the    *)
(* command is gone.                                                        *)
LEMMA CloseWriteOK ==
  ASSUME NEW c, ChanOK(c), Ripe(c), NEW outs
  PROVE  LET d == CloseWrite(c) IN ChanOK(d) /\ Ripe(d) /\ Closing(c, d, outs)
<1>1. CASE CloseWrite(c) = c
  BY <1>1 DEF Closing
<1>2. CASE CloseWrite(c) # c
  <2>1. CloseWrite(c) = close_chan_fd(c, "write")
    BY <1>2 DEF CloseWrite
  <2>2. c.fd["write"] # "open" \/ c.used = 0 \/ c.exit # "none"
    <3>1. c.fd \in [Fd -> FdState] /\ c.used \in Nat
      BY DEF ChanOK, Channel
    <3>2. CASE c.recv_eof /\ ~write_pending(c)
      BY <3>1, <3>2 DEF write_pending
    <3>3. CASE c.kind \in Session /\ close_allowed(c)
      BY <3>3 DEF close_allowed, sesscheckclose, Session, ChanOK, SentOK, Closed, ExitOK, PostOK, FdsOK, Fd
    <3> QED BY <1>2, <3>2, <3>3 DEF CloseWrite
  <2> QED BY <2>1, <2>2, CloseFdOK, CloseFdClosing DEF Ripe, Unasked, Fd, Stream
<1> QED BY <1>1, <1>2

(* EOF is sent once, when both ways out are closed. *)
LEMMA SendEofOK ==
  ASSUME NEW c, ChanOK(c), Ripe(c), NEW outs
  PROVE  LET d == SendEof(c) IN ChanOK(d) /\ Ripe(d) /\ Closing(c, d, outs)
<1>1. CASE SendEof(c) = c
  BY <1>1 DEF Closing
<1>2. CASE SendEof(c) # c
  <2>1. SendEof(c) = send_msg_channel_eof(c) /\ ~c.sent_eof /\ NoMoreOutput(c)
    BY <1>2 DEF SendEof
  <2> DEFINE d == send_msg_channel_eof(c)
  <2> DEFINE a == Send(c, "eof", 1)
  <2>2. /\ a \in Channel /\ SameButSent(c, a) /\ a.sent_close = c.sent_close
        /\ a.wire["eof"] = c.wire["eof"] + 1
        /\ \A k \in Msg \ {"eof"} : a.wire[k] = c.wire[k]
        /\ a.late => c.late \/ c.wire["close"] > 0
    <3>1. c \in Channel /\ "eof" \in Msg /\ "eof" \notin Stream
      BY DEF ChanOK, Msg, Stream
    <3> QED BY <3>1, SendFields
  <2>2a. d = [a EXCEPT !.sent_eof = TRUE]
    BY DEF send_msg_channel_eof
  <2> HIDE DEF a, d
  <2>3. /\ d \in Channel /\ SameButSent(c, d) /\ d.sent_close = c.sent_close
        /\ d.sent_eof /\ d.wire = a.wire /\ d.late = a.late
    BY <2>2, <2>2a DEF SameButSent, Channel
  <2>4. AccountsOK(d) /\ ExitOK(d) /\ PostOK(d) /\ FdsOK(d) /\ Closing(c, d, outs)
    BY <2>2, <2>3 DEF ChanOK, AccountsOK, ExitOK, PostOK, FdsOK, Closing, Closed, Ripe, Early, Unasked,
       SameButSent, Msg, Stream
  <2>5. SentOK(d)
    BY <2>1, <2>2, <2>3 DEF ChanOK, SentOK, PostOK, Closed, NoMoreOutput, Channel, Msg, SameButSent, Stream
  <2> QED BY <2>1, <2>3, <2>4, <2>5 DEF ChanOK, Ripe, SameButSent, d
<1> QED BY <1>1, <1>2

(* The status or signal, then CLOSE, and all descriptors closed. *)
LEMMA SendMsgCloseOK ==
  ASSUME NEW c, ChanOK(c), Ripe(c), ~c.sent_close, close_allowed(c), NEW outs,
         \/ Closed(c)
         \/ c.recv_close /\ ~write_pending(c)
  PROVE  /\ ChanOK(send_msg_channel_close(c))
         /\ Closing(c, send_msg_channel_close(c), outs)
         /\ send_msg_channel_close(c).sent_close
<1> DEFINE a == closehandler(c)
           d == [Send(a, "close", 1) EXCEPT !.sent_eof = TRUE, !.sent_close = TRUE]
           e1 == close_chan_fd(d, "read")
           e2 == close_chan_fd(e1, "err")
           e == close_chan_fd(e2, "write")
           told == c.kind \in Session /\ c.exit = "status"
<1>1. e = send_msg_channel_close(c)
  BY DEF send_msg_channel_close
<1>2. /\ a \in Channel /\ SameButSent(c, a) /\ ~a.late
      /\ a.wire["exit"] = c.wire["exit"] + IF told THEN 1 ELSE 0
      /\ \A m \in Msg \ {"exit"} : a.wire[m] = c.wire[m]
  <2>1. CASE told
    <3>1. a = Send(c, "exit", 1)
      BY <2>1 DEF closehandler
    <3>2. c \in Channel /\ "exit" \in Msg /\ "exit" \notin Stream
      BY DEF ChanOK, Msg, Stream
    <3>3. ~c.late /\ c.wire["close"] = 0
      BY DEF ChanOK, SentOK
    <3> QED BY <2>1, <3>1, <3>2, <3>3, SendFields
  <2>2. CASE ~told
    BY <2>2 DEF closehandler, ChanOK, SentOK, SameButSent, Channel, Msg
  <2> QED BY <2>1, <2>2
<1> HIDE DEF a, told
<1> DEFINE b == Send(a, "close", 1)
<1>3. /\ b \in Channel /\ SameButSent(a, b)
      /\ b.wire["close"] = a.wire["close"] + 1
      /\ \A m \in Msg \ {"close"} : b.wire[m] = a.wire[m]
      /\ b.late => a.late \/ a.wire["close"] > 0
  <2>1. "close" \in Msg /\ "close" \notin Stream
    BY DEF Msg, Stream
  <2> QED BY <1>2, <2>1, SendFields
<1>3a. d = [b EXCEPT !.sent_eof = TRUE, !.sent_close = TRUE]
  OBVIOUS
<1> HIDE DEF b, d
<1>3b. /\ d \in Channel /\ SameButSent(c, d) /\ d.sent_eof /\ d.sent_close
       /\ d.wire = b.wire /\ d.late = b.late
  BY <1>2, <1>3, <1>3a DEF SameButSent, Channel
<1>4. /\ d.wire["exit"] = c.wire["exit"] + IF told THEN 1 ELSE 0
      /\ d.wire["close"] = 1 /\ d.wire["eof"] = c.wire["eof"] /\ ~d.late
      /\ \A x \in Stream : d.wire[x] = c.wire[x]
  BY <1>2, <1>3, <1>3b DEF ChanOK, SentOK, Channel, Msg, Stream
<1>5. /\ e1 \in Channel /\ SameButFd(d, e1) /\ e1.fd["read"] = "closed"
      /\ \A x \in Fd : e1.fd[x] \in {d.fd[x], "closed"}
  BY <1>3b, CloseFd DEF Fd
<1> HIDE DEF e1
<1>6. /\ e2 \in Channel /\ SameButFd(d, e2) /\ e2.fd["read"] = "closed"
      /\ e2.fd["err"] = "closed"
  BY <1>5, CloseFd DEF Fd, SameButFd
<1> HIDE DEF e2
<1>7. /\ e \in Channel /\ SameButFd(d, e) /\ Closed(e)
  BY <1>6, CloseFd DEF Fd, SameButFd, SameButSent, Closed
<1> HIDE DEF e
<1>8. AccountsOK(e) /\ SentOK(e) /\ FdsOK(e)
  BY <1>3b, <1>4, <1>7 DEF ChanOK, AccountsOK, SentOK, FdsOK, SameButFd, SameButSent, Closed,
     NoMoreOutput,
     Ripe, Unasked, Early, Fd, Channel, Msg
<1>9. ExitOK(e) /\ PostOK(e)
  BY <1>3b, <1>4, <1>7 DEF ChanOK, ExitOK, PostOK, SentOK, SameButFd, SameButSent, told,
     close_allowed, sesscheckclose, Session, Channel
<1>10. Closing(c, e, outs)
  <2>1. c.fd["write"] \in {"closed", "uninit"} \/ c.used = 0
    BY DEF write_pending, ChanOK, Channel, Closed, Fd, FdState
  <2>2. Closed(c) \/ (c.recv_close /\ ~c.sent_close)
    OBVIOUS
  <2> QED BY <1>3b, <1>4, <1>7, <2>1, <2>2 DEF Closing, SameButFd, SameButSent, Closed, Fd, Stream
<1> QED BY <1>1, <1>3b, <1>7, <1>8, <1>9, <1>10 DEF ChanOK, SameButFd
(* CLOSE is sent when nothing can come out or go in any more. *)
LEMMA SendCloseOK ==
  ASSUME NEW c, ChanOK(c), Ripe(c), NEW outs
  PROVE  ChanOK(SendClose(c)) /\ Closing(c, SendClose(c), outs)
<1>1. CASE SendClose(c) = c
  BY <1>1 DEF Closing
<1>2. CASE SendClose(c) # c
  BY <1>2, SendMsgCloseOK DEF SendClose, NoMoreOutput, Closed, Fd
<1> QED BY <1>1, <1>2

(* A channel both sides have closed is removed. *)
LEMMA RemoveOK ==
  ASSUME NEW c, ChanOK(c), c.sent_close, c.recv_close, NEW outs
  PROVE  ChanOK(remove_channel(c)) /\ Closing(c, remove_channel(c), outs)
<1> DEFINE d == remove_channel(c)
<1>1. d \in Channel
  BY DEF remove_channel, Fds, ChanOK, Channel, Fd, FdState
<1>2. /\ Closed(d) /\ d.gone
      /\ d = [c EXCEPT !.gone = TRUE, !.fd = d.fd]
  BY DEF remove_channel, Fds, ChanOK, Channel, Fd, Closed
<1> HIDE DEF d
<1>3. /\ d.kind = c.kind /\ d.pid = c.pid /\ d.exit = c.exit
      /\ d.sent_eof = c.sent_eof /\ d.recv_eof = c.recv_eof
      /\ d.sent_close = c.sent_close /\ d.recv_close = c.recv_close
      /\ d.flushing = c.flushing /\ d.used = c.used /\ d.recvwindow = c.recvwindow
      /\ d.recvdonelen = c.recvdonelen /\ d.transwindow = c.transwindow
      /\ d.granted = c.granted /\ d.wire = c.wire /\ d.late = c.late
      /\ d.posthumous = c.posthumous
  BY <1>2 DEF ChanOK, Channel
<1>4. ChanOK(d)
  BY <1>1, <1>2, <1>3 DEF ChanOK, AccountsOK, SentOK, ExitOK, PostOK, FdsOK, Closed, NoMoreOutput, Fd
<1>5. Closing(c, d, outs)
  <2>1. Closed(c) \/ (c.posthumous /\ c.used = 0)
    BY DEF ChanOK, SentOK, PostOK
  <2> QED BY <1>2, <1>3, <2>1 DEF Closing, Closed, Fd, Stream
<1> QED BY <1>4, <1>5 DEF d

(* check_close() closes what may be closed, and no more. *)
LEMMA CheckCloseOK ==
  ASSUME NEW c, ChanOK(c), Ripe(c), NEW outs \in [Stream -> Nat]
  PROVE  ChanOK(check_close(c, outs)) /\ Closing(c, check_close(c, outs), outs)
<1> DEFINE d == Flush(c, outs)
<1>1. ChanOK(d) /\ Ripe(d) /\ Closing(c, d, outs)
  BY FlushOK
<1> HIDE DEF d
<1>2. CASE d.recv_close /\ ~write_pending(d) /\ close_allowed(d)
  <2> DEFINE e == IF d.sent_close THEN d ELSE send_msg_channel_close(d)
  <2>1. ChanOK(e) /\ Closing(d, e, outs) /\ e.sent_close
    BY <1>1, <1>2, SendMsgCloseOK DEF Closing
  <2>2. e.recv_close
    BY <1>2, <2>1 DEF Closing
  <2>3. check_close(c, outs) = remove_channel(e)
    BY <1>2 DEF check_close, d
  <2> HIDE DEF e
  <2>4. ChanOK(remove_channel(e)) /\ Closing(e, remove_channel(e), outs)
    BY <2>1, <2>2, RemoveOK
  <2> QED BY <1>1, <2>1, <2>3, <2>4, ClosingTrans
<1>3. CASE ~(d.recv_close /\ ~write_pending(d) /\ close_allowed(d))
  <2> DEFINE e == CloseWrite(d)
             f == SendEof(e)
             g == SendClose(f)
  <2>1. check_close(c, outs) = g
    BY <1>3 DEF check_close, d
  <2>2. ChanOK(e) /\ Ripe(e) /\ Closing(d, e, outs)
    BY <1>1, CloseWriteOK
  <2> HIDE DEF e
  <2>3. ChanOK(f) /\ Ripe(f) /\ Closing(e, f, outs)
    BY <2>2, SendEofOK
  <2> HIDE DEF f
  <2>4. ChanOK(g) /\ Closing(f, g, outs)
    BY <2>3, SendCloseOK
  <2> HIDE DEF g
  <2> QED BY <1>1, <2>1, <2>2, <2>3, <2>4, ClosingTrans
<1> QED BY <1>2, <1>3

(* An EOF closes a session without a command: there is nothing to wait for. *)
LEMMA SessionCloses ==
  ASSUME NEW c, ChanOK(c), Ripe(c), c.kind = "session", NEW outs
  PROVE  check_close(c, outs).sent_close
<1> DEFINE d == Flush(c, outs)
           e == CloseWrite(d)
           f == SendEof(e)
<1>1. /\ c \in Channel /\ ~c.pid /\ c.exit = "none" /\ ~c.flushing /\ c.recv_eof
      /\ c.fd["write"] # "open" /\ c.fd["read"] # "open" /\ c.fd["err"] = "closed"
      /\ (c.fd["write"] = "uninit" <=> c.fd["read"] = "uninit")
  BY DEF ChanOK, ExitOK, FdsOK, Ripe, Channel, Fd, FdState
<1>2. d = c
  BY <1>1 DEF Flush, Channel
<1>3. ~write_pending(c) /\ close_allowed(c)
  BY <1>1 DEF write_pending, close_allowed, sesscheckclose
<1> HIDE DEF d
<1>4. \A x : x \in Channel => send_msg_channel_close(x).sent_close
  <2> SUFFICES ASSUME NEW x \in Channel PROVE send_msg_channel_close(x).sent_close
    OBVIOUS
  <2> DEFINE a == closehandler(x)
             b == [Send(a, "close", 1) EXCEPT !.sent_eof = TRUE, !.sent_close = TRUE]
             b1 == close_chan_fd(b, "read")
             b2 == close_chan_fd(b1, "err")
  <2>1. a \in Channel
    BY SendFields DEF closehandler, Msg
  <2> HIDE DEF a
  <2>2. Send(a, "close", 1) \in Channel
    BY <2>1, SendFields DEF Msg
  <2>3. b \in Channel /\ b.sent_close
    BY <2>2 DEF Channel
  <2> HIDE DEF b
  <2>4. b1 \in Channel /\ b1.sent_close
    BY <2>3, CloseFd DEF Fd, SameButFd
  <2> HIDE DEF b1
  <2>5. b2 \in Channel /\ b2.sent_close
    BY <2>4, CloseFd DEF Fd, SameButFd
  <2> HIDE DEF b2
  <2>6. close_chan_fd(b2, "write").sent_close
    BY <2>5, CloseFd DEF Fd, SameButFd
  <2> QED BY <2>6 DEF send_msg_channel_close, a, b, b1, b2
<1>5. CASE c.recv_close
  <2>1. check_close(c, outs) = remove_channel(IF c.sent_close THEN c ELSE send_msg_channel_close(c))
    BY <1>2, <1>3, <1>5 DEF check_close, d
  <2>2. ASSUME NEW x, x.sent_close PROVE remove_channel(x).sent_close
    BY <2>2 DEF remove_channel
  <2> QED BY <1>1, <1>4, <2>1, <2>2
<1>6. CASE ~c.recv_close
  <2>1. check_close(c, outs) = SendClose(f)
    BY <1>2, <1>6 DEF check_close, d
  <2>2. e = close_chan_fd(c, "write")
    BY <1>1, <1>2, <1>3 DEF CloseWrite
  <2>3. e \in Channel /\ Closed(e) /\ e.kind = c.kind /\ e.pid = c.pid
    BY <1>1, <2>2, CloseFd DEF Closed, Fd, FdState, Channel, SameButFd
  <2> HIDE DEF e
  <2>4. f \in Channel /\ Closed(f) /\ f.kind = c.kind /\ f.pid = c.pid
    <3> DEFINE g == Send(e, "eof", 1)
    <3>1. g \in Channel /\ SameButSent(e, g)
      BY <2>3, SendFields DEF Msg
    <3> HIDE DEF g
    <3>2. CASE f = e
      BY <2>3, <3>2
    <3>3. CASE f # e
      <4>1. f = [g EXCEPT !.sent_eof = TRUE]
        BY <3>3 DEF SendEof, send_msg_channel_eof, g
      <4> HIDE DEF f
      <4>2. /\ f \in Channel /\ f.fd = g.fd /\ f.kind = g.kind /\ f.pid = g.pid
        BY <3>1, <4>1 DEF Channel
      <4> QED BY <2>3, <3>1, <4>2 DEF SameButSent, Closed
    <3> QED BY <3>2, <3>3
  <2> HIDE DEF f
  <2>5. NoMoreOutput(f) /\ f.fd["write"] = "closed" /\ close_allowed(f)
    BY <1>1, <2>4 DEF NoMoreOutput, Closed, Fd, close_allowed, sesscheckclose
  <2> QED BY <1>4, <2>1, <2>4, <2>5 DEF SendClose
<1> QED BY <1>5, <1>6

-----------------------------------------------------------------------------
(* The functions that move data.                                           *)

(* What Min means for two numbers. *)
LEMMA MinPair ==
  ASSUME NEW a \in Int, NEW b \in Int
  PROVE  Min({a, b}) = IF a <= b THEN a ELSE b
<1>1. \E x \in {a, b} : \A y \in {a, b} : x <= y
  OBVIOUS
<1>2. Min({a, b}) \in {a, b} /\ \A y \in {a, b} : Min({a, b}) <= y
  BY <1>1 DEF Min
<1> QED BY <1>2

(* Only the buffer, the windows and the descriptors differ. *)
SameButBuffer(c, d) ==
  /\ d.kind = c.kind /\ d.gone = c.gone /\ d.pid = c.pid /\ d.exit = c.exit
  /\ d.sent_eof = c.sent_eof /\ d.recv_eof = c.recv_eof
  /\ d.sent_close = c.sent_close /\ d.recv_close = c.recv_close
  /\ d.flushing = c.flushing /\ d.transwindow = c.transwindow /\ d.wire = c.wire
  /\ d.posthumous = c.posthumous

(* The window that is granted is the one that has become free. *)
LEMMA WindowAdjustOK ==
  ASSUME NEW c, ChanOK(c), c.kind \notin Early, ~c.sent_close
  PROVE  LET d == WindowAdjust(c)
         IN /\ ChanOK(d) /\ SameButBuffer(c, d)
            /\ d.fd = c.fd /\ d.used = c.used
            /\ d.granted - c.granted = d.recvwindow - c.recvwindow
            /\ d.granted >= c.granted
<1> DEFINE d == WindowAdjust(c)
<1>0. /\ c \in Channel /\ c.recvwindow \in Nat /\ c.recvdonelen \in Nat /\ c.granted \in Nat
      /\ c.used \in Nat
      /\ c.recvwindow + c.recvdonelen + c.used <= recv_window /\ c.wire["close"] = 0 /\ ~c.late
  BY WindowAssumption DEF ChanOK, Channel, AccountsOK, SentOK
<1>1. CASE c.recvdonelen >= RECV_WINDOWEXTEND
  <2>1. (c.late \/ c.wire["close"] > 0) = FALSE
    BY <1>0
  <2>2. d = [c EXCEPT !.granted = c.granted + c.recvdonelen,
                      !.recvwindow = c.recvwindow + c.recvdonelen,
                      !.recvdonelen = 0, !.late = FALSE]
    BY <1>1, <2>1 DEF WindowAdjust
  <2> HIDE DEF d
  <2>3. c.recvwindow + c.recvdonelen \in 0 .. recv_window /\ c.granted + c.recvdonelen \in Nat
    BY <1>0, WindowAssumption
  <2>4. d \in Channel
    BY <1>0, <2>2, <2>3 DEF Channel
  <2>5. /\ SameButBuffer(c, d) /\ d.fd = c.fd /\ d.used = c.used
        /\ d.granted = c.granted + c.recvdonelen
        /\ d.recvwindow = c.recvwindow + c.recvdonelen /\ d.recvdonelen = 0 /\ ~d.late
    BY <1>0, <2>2 DEF Channel, SameButBuffer
  <2>6. ChanOK(d)
    BY <1>0, <2>4, <2>5 DEF ChanOK, AccountsOK, SentOK, ExitOK, PostOK, FdsOK, SameButBuffer,
       Early, Closed, NoMoreOutput
  <2> QED BY <1>0, <2>5, <2>6 DEF d
<1>2. CASE ~(c.recvdonelen >= RECV_WINDOWEXTEND)
  BY <1>0, <1>2 DEF WindowAdjust, SameButBuffer
<1> QED BY <1>1, <1>2

(* writechannel() keeps the accounts, and closes writefd only if nobody    *)
(* holds the other end.                                                    *)
LEMMA WriteOK ==
  ASSUME NEW c, ChanOK(c), c.kind \notin Early, c.fd["write"] = "open", NEW n \in Nat,
         c.recvwindow + c.recvdonelen + c.used + n <= recv_window,
         n > 0 => ~c.posthumous, inpipe \in 0 .. PipeSize
  PROVE  LET d == writechannel(c, n)
         IN /\ ChanOK(d) /\ SameButBuffer(c, d)
            /\ d.granted - c.granted = d.recvwindow - c.recvwindow
            /\ d.granted >= c.granted
            /\ \A x \in Fd : d.fd[x] \in {c.fd[x], "closed"}
            /\ \A x \in Stream : c.kind # "pty" => d.fd[x] = c.fd[x]
            /\ d.fd["write"] = "closed" => "write" \notin held
<1>0. /\ c \in Channel /\ c.recvwindow \in Nat /\ c.recvdonelen \in Nat /\ c.granted \in Nat
      /\ c.used \in Nat /\ (c.used + n # 0 => ~c.sent_close)
  BY DEF ChanOK, Channel, SentOK, PostOK, Closed, Fd
<1>1. CASE c.used + n = 0
  BY <1>0, <1>1 DEF writechannel, SameButBuffer
<1>2. CASE c.used + n # 0 /\ "write" \notin held
  <2> DEFINE e == close_chan_fd(c, "write")
  <2>1. ChanOK(e)
    BY CloseFdOK DEF Early, Fd
  <2>2. /\ SameButFd(c, e) /\ \A x \in Fd : e.fd[x] \in {c.fd[x], "closed"}
        /\ \A x \in Fd \ {"write"} : c.kind # "pty" => e.fd[x] = c.fd[x]
    BY <1>0, CloseFd DEF Fd
  <2>3. writechannel(c, n) = WindowAdjust(e)
    BY <1>2 DEF writechannel
  <2> HIDE DEF e
  <2>4. LET d == WindowAdjust(e)
         IN /\ ChanOK(d) /\ SameButBuffer(e, d)
            /\ d.fd = e.fd /\ d.used = e.used
            /\ d.granted - e.granted = d.recvwindow - e.recvwindow
            /\ d.granted >= e.granted
    BY <1>0, <1>2, <2>1, <2>2, WindowAdjustOK DEF SameButFd
  <2> QED BY <1>2, <2>2, <2>3, <2>4 DEF SameButFd, SameButBuffer, Fd, Stream
<1>3. CASE c.used + n # 0 /\ "write" \in held
  <2> DEFINE w == Written(c, n)
             e == [c EXCEPT !.used = c.used + n - w, !.recvdonelen = c.recvdonelen + w]
  <2>1. w \in Nat /\ w <= c.used + n
    BY <1>0, MinPair, BoundAssumption DEF Written
  <2>2. writechannel(c, n) = WindowAdjust(e)
    BY <1>3 DEF writechannel
  <2> HIDE DEF w
  <2>3. c.used + n - w \in 0 .. recv_window /\ c.recvdonelen + w \in Nat
    BY <1>0, <2>1, WindowAssumption
  <2>4. /\ e \in Channel /\ SameButBuffer(c, e) /\ e.fd = c.fd /\ e.granted = c.granted
        /\ e.recvwindow = c.recvwindow /\ e.late = c.late
        /\ e.used = c.used + n - w /\ e.recvdonelen = c.recvdonelen + w
    BY <1>0, <2>3 DEF Channel, SameButBuffer
  <2> HIDE DEF e
  <2>5. ChanOK(e)
    BY <1>0, <1>3, <2>1, <2>4, WindowAssumption
       DEF ChanOK, AccountsOK, SentOK, ExitOK, PostOK, FdsOK, SameButBuffer,
       Early, Closed, NoMoreOutput
  <2>6. LET d == WindowAdjust(e)
         IN /\ ChanOK(d) /\ SameButBuffer(e, d)
            /\ d.fd = e.fd /\ d.used = e.used
            /\ d.granted - e.granted = d.recvwindow - e.recvwindow
            /\ d.granted >= e.granted
    BY <1>0, <1>3, <2>4, <2>5, WindowAdjustOK DEF SameButBuffer
  <2> QED BY <2>2, <2>4, <2>6 DEF SameButBuffer, Fd, Stream
<1> QED BY <1>1, <1>2, <1>3
(* send_msg_channel_data() counts what it reads, or finds the end. *)
LEMMA SendDataOK ==
  ASSUME NEW c, ChanOK(c), NEW x \in Stream, c.fd[x] = "open", NEW n \in Nat,
         n <= c.transwindow, ~c.posthumous
  PROVE  LET d == send_msg_channel_data(c, x, n)
         IN /\ ChanOK(d)
            /\ d.kind = c.kind /\ d.gone = c.gone /\ d.pid = c.pid /\ d.exit = c.exit
            /\ d.recv_eof = c.recv_eof /\ d.recv_close = c.recv_close
            /\ d.posthumous = c.posthumous /\ d.sent_close = c.sent_close /\ d.used = c.used
            /\ d.recvwindow = c.recvwindow /\ d.granted = c.granted
            /\ d.wire[x] = c.wire[x] + n
            /\ \A y \in Stream \ {x} : d.wire[y] = c.wire[y]
            /\ \A y \in Fd : d.fd[y] \in {c.fd[y], "closed"}
            /\ \A y \in Fd : d.fd[y] # c.fd[y] =>
                 n = 0 /\ c.transwindow > 0 /\ (y = x \/ (c.kind = "pty" /\ x = "read"))
<1>0. /\ c \in Channel /\ c.transwindow \in Nat /\ x \in Fd /\ x \in Msg /\ c.wire \in [Msg -> Nat]
  BY DEF ChanOK, Channel, Stream, Fd, Msg
<1>1. CASE c.transwindow = 0
  <2>1. n = 0 /\ send_msg_channel_data(c, x, n) = c
    BY <1>0, <1>1 DEF send_msg_channel_data
  <2> QED BY <1>0, <2>1
<1>2. CASE c.transwindow # 0 /\ n = 0
  <2> DEFINE d == close_chan_fd(c, x)
  <2>1. send_msg_channel_data(c, x, n) = d
    BY <1>2 DEF send_msg_channel_data
  <2>2. ChanOK(d)
    <3>1. c.kind # "opening"
      BY <1>2 DEF ChanOK, AccountsOK
    <3> QED BY <1>0, <3>1, CloseFdOK
  <2>3. /\ SameButFd(c, d) /\ \A y \in Fd : d.fd[y] \in {c.fd[y], "closed"}
        /\ \A y \in Fd \ {x} : d.fd[y] # c.fd[y] => x # "err" /\ c.kind = "pty"
    BY <1>0, CloseFd, ZenonT(30) DEF Fd
  <2> HIDE DEF d
  <2> QED BY <1>0, <1>2, <2>1, <2>2, <2>3 DEF SameButFd, Stream, Msg
<1>3. CASE c.transwindow # 0 /\ n # 0
  <2> DEFINE a == Send(c, x, n)
             d == [a EXCEPT !.transwindow = c.transwindow - n]
  <2>0. /\ a \in Channel /\ SameButSent(c, a)
        /\ a.sent_eof = c.sent_eof /\ a.sent_close = c.sent_close
        /\ a.wire[x] = c.wire[x] + n
        /\ \A k \in Msg \ {x} : a.wire[k] = c.wire[k]
        /\ a.late => c.late \/ c.wire["close"] > 0 \/ (x \in Stream /\ c.wire["eof"] > 0)
    BY <1>0, SendFields
  <2>1. send_msg_channel_data(c, x, n) = d
    BY <1>3, <2>0 DEF send_msg_channel_data, SameButSent
  <2>2. ~c.sent_eof /\ ~c.sent_close /\ c.wire["close"] = 0 /\ c.wire["eof"] = 0 /\ ~c.late
    BY <1>0 DEF ChanOK, SentOK, NoMoreOutput, Stream, Msg
  <2>3. c.kind \notin Early
    BY <1>0, <1>3 DEF ChanOK, AccountsOK, FdsOK, Early
  <2> HIDE DEF a
  <2>4. /\ d \in Channel /\ SameButFd(a, [d EXCEPT !.transwindow = a.transwindow])
        /\ d.fd = a.fd /\ d.transwindow = c.transwindow - n /\ d.wire = a.wire /\ d.late = a.late
        /\ d.sent_eof = a.sent_eof /\ d.sent_close = a.sent_close
    BY <1>0, <2>0 DEF Channel, SameButFd
  <2>5. SameButSent(c, [d EXCEPT !.transwindow = c.transwindow])
    BY <2>0 DEF Channel, SameButSent
  <2> HIDE DEF d
  <2>6. ChanOK(d)
    BY <1>0, <2>0, <2>2, <2>3, <2>4, <2>5 DEF ChanOK, AccountsOK, SentOK, ExitOK, PostOK, FdsOK,
       SameButSent, Early, Closed, NoMoreOutput, Stream, Msg, Channel
  <2> QED BY <1>0, <2>0, <2>1, <2>4, <2>5, <2>6 DEF SameButSent, Stream, Msg, Channel
<1> QED BY <1>1, <1>2, <1>3
-----------------------------------------------------------------------------
(* The invariant holds at first. *)

(* A new channel is in order, whatever its kind; only a forwarded TCP      *)
(* connection has descriptors at once.                                     *)
LEMMA NewOK ==
  ASSUME NEW kind \in Early, NEW w \in Nat, NEW fds,
         fds = IF kind = "opening" THEN Fds("open", "open", "closed")
                                   ELSE Fds("uninit", "uninit", "closed"),
         kind \in {"unopened", "opening"} => w = 0
  PROVE  ChanOK(newchannel(kind, fds, w))
<1> DEFINE c == newchannel(kind, fds, w)
<1>1. fds \in [Fd -> FdState] /\ fds["write"] = fds["read"] /\ fds["err"] = "closed"
      /\ fds["write"] = IF kind = "opening" THEN "open" ELSE "uninit"
  BY DEF Fds, Fd, FdState
<1>2. /\ c.kind = kind /\ ~c.gone /\ ~c.pid /\ c.exit = "none" /\ c.fd = fds
      /\ ~c.sent_eof /\ ~c.recv_eof /\ ~c.sent_close /\ ~c.recv_close /\ ~c.flushing
      /\ c.used = 0 /\ c.recvwindow = recv_window /\ c.recvdonelen = 0
      /\ c.transwindow = w /\ c.granted = 0 /\ ~c.late /\ ~c.posthumous
      /\ c.wire = [m \in Msg |-> 0]
  BY DEF newchannel
<1>3. c \in Channel
  BY <1>1, WindowAssumption DEF newchannel, Channel, Early, Kind, Session
<1> HIDE DEF c
<1>4. ChanOK(c)
  BY <1>1, <1>2, <1>3, WindowAssumption
     DEF ChanOK, AccountsOK, SentOK, ExitOK, PostOK, FdsOK, Early, Closed,
     NoMoreOutput, Stream, Msg, Fd
<1> QED BY <1>4 DEF c

(* Before anything is opened the invariant holds. *)
LEMMA InitInv == Init => IndInv
<1> SUFFICES ASSUME Init PROVE IndInv
  OBVIOUS
<1>1. ChanOK(chan)
  BY NewOK DEF Init, Early
<1>2. /\ chan.kind = "unopened" /\ ~chan.pid /\ chan.exit = "none" /\ ~chan.recv_eof
      /\ ~chan.recv_close /\ chan.granted = 0 /\ chan.fd = Fds("uninit", "uninit", "closed")
      /\ \A x \in Stream : chan.wire[x] = 0
  BY DEF Init, newchannel, Msg, Stream
<1>3. chan.fd["write"] = "uninit"
  BY <1>2 DEF Fds, Fd
<1>4. TypeOK
  <2>1. 0 \in 0 .. PipeSize /\ 0 \in 0 .. MaxBytes
    BY BoundAssumption
  <2>2. cl \in Client
    BY <2>1 DEF Init, NoClient, Client
  <2> QED BY <1>1, <2>1, <2>2 DEF Init, TypeOK, ChanOK
<1>5. ClientOK
  BY <1>2, <1>3, WindowAssumption DEF Init, ClientOK, NoClient
<1>6. ProgOK /\ ReadyOK
  BY <1>2 DEF Init, ProgOK, ReadyOK
<1>7. BytesOK
  BY <1>2 DEF Init, BytesOK
<1>8. InputComplete
  BY <1>3 DEF InputComplete
<1> QED BY <1>1, <1>4, <1>5, <1>6, <1>7, <1>8 DEF IndInv

-----------------------------------------------------------------------------
(* session_loop() up to the packet. *)

(* select(): what it reports ready can be read, or is at its end. *)
LEMMA SelectInv ==
  ASSUME IndInv, NEW sock \in BOOLEAN, NEW conn \in BOOLEAN, Select(sock, conn)
  PROVE  IndInv'
<1>0. UNCHANGED <<chan, prog, held, inpipe, out, cl, wrote, due>>
  BY DEF Select, kernel
<1>1. ready' \in SUBSET (Fd \cup {"sock", "conn", "signal"})
  BY DEF Select, ReadyFds, Stream, Fd
<1>2. TypeOK'
  BY <1>0, <1>1 DEF IndInv, TypeOK, Select
<1>3. ChanOK(chan)' /\ ClientOK' /\ BytesOK' /\ InputComplete'
  BY <1>0 DEF IndInv, ClientOK, BytesOK, InputComplete
<1>4. ProgOK'
  BY <1>0 DEF IndInv, ProgOK, Select, ReadyFds, Stream
<1>5. ReadyOK'
  <2>1. \A x \in Stream : x \in ready' => out[x] > 0 \/ x \notin held
    BY DEF Select, ReadyFds, fd_read_pending, Stream
  <2>2. \A x \in Fd : x \in ready' =>
          chan.fd[x] = "open" /\ (chan.transwindow > 0 \/ chan.used > 0)
    BY DEF Select, ReadyFds, write_pending, Stream, Fd
  <2>3. chan.kind \in Early => ready' \cap Fd = {}
    BY <2>2 DEF IndInv, ChanOK, FdsOK, AccountsOK, Early
  <2>4. "conn" \in ready' => conn
    BY DEF Select, ReadyFds, Stream
  <2> QED BY <1>0, <2>1, <2>3, <2>4 DEF IndInv, ReadyOK, Select
<1> QED BY <1>2, <1>3, <1>4, <1>5 DEF IndInv

(* No packet was complete. *)
LEMMA NoPacketInv ==
  ASSUME IndInv, NoPacket
  PROVE  IndInv'
<1>0. UNCHANGED <<chan, ready, prog, held, inpipe, out, sigpipe, cl, wrote, due>> /\ pc' = "io"
  BY DEF NoPacket, kernel
<1> QED BY <1>0 DEF IndInv, TypeOK, ClientOK, ProgOK, ReadyOK, BytesOK, InputComplete

(* No packet comes for a channel that was removed, or was not yet opened. *)
LEMMA NotGone ==
  ASSUME IndInv, cl.flight > 0 \/ EofComing \/ CloseComing \/ AdjustComing \/ RequestComing
  PROVE  ~chan.gone /\ chan.kind \notin Unasked
<1>1. /\ cl.flight \in Nat /\ cl.adjusted \in Nat
  BY DEF IndInv, TypeOK, Client
<1>2. chan.kind \in Unasked =>
        /\ cl.flight = 0 /\ ~cl.eof /\ ~cl.close /\ cl.adjusted = 0
        /\ chan.wire["read"] = 0 /\ chan.wire["err"] = 0
  BY DEF IndInv, ClientOK, NoClient, ChanOK, AccountsOK, Unasked, Early, Stream
<1>3. chan.kind \notin Unasked
  BY <1>2 DEF EofComing, CloseComing, AdjustComing, RequestComing, Owed, Unasked
<1>4. chan.gone => chan.recv_close /\ chan.recv_eof /\ cl.close /\ cl.flight = 0
  BY <1>3 DEF IndInv, ChanOK, FdsOK, ClientOK, Unasked
<1> QED BY <1>3, <1>4 DEF EofComing, CloseComing, AdjustComing, RequestComing
-----------------------------------------------------------------------------
(* Packets from the client. *)

(* Data fits into the window and into the buffer. *)
LEMMA DataFits ==
  ASSUME IndInv, NEW n \in 1 .. cl.flight
  PROVE  /\ ~chan.recv_eof
         /\ chan.fd["write"] = "open" =>
              n <= chan.recvwindow /\ n <= Min({chan.recvwindow, recv_window - chan.used})
<1>1. /\ cl.flight \in Nat /\ cl.sent \in Nat /\ chan.recvwindow \in Nat /\ chan.used \in Nat
      /\ chan.recvdonelen \in Nat /\ chan.granted \in Nat
  BY DEF IndInv, TypeOK, Client, Channel
<1>2. ~chan.recv_eof
  BY <1>1 DEF IndInv, ClientOK
<1>3. chan.recvwindow + chan.recvdonelen + chan.used <= recv_window
  BY DEF IndInv, ChanOK, AccountsOK
<1>4. chan.fd["write"] = "open" => n <= chan.recvwindow /\ n <= recv_window - chan.used
  BY <1>1, <1>3, WindowAssumption DEF IndInv, ClientOK
<1> QED BY <1>1, <1>2, <1>4, MinPair, WindowAssumption

(* recv_msg_channel_data(): the data goes to the buffer and the pipe, or   *)
(* is dropped when the way in is closed.                                   *)
LEMMA DataInv ==
  ASSUME IndInv, NEW n \in 1 .. cl.flight, recv_msg_channel_data(n)
  PROVE  IndInv'
<1>0. UNCHANGED <<ready, sigpipe, prog, held, out, wrote, due>>
  BY DEF recv_msg_channel_data, Packet
<1>1. /\ cl.flight \in Nat /\ cl.sent \in 0 .. MaxBytes
      /\ chan.recvwindow \in Nat /\ chan.used \in Nat
      /\ chan.recvdonelen \in Nat /\ chan.granted \in Nat /\ cl \in Client /\ chan \in Channel
      /\ n \in Nat /\ n > 0 /\ cl.flight - n \in Nat /\ inpipe \in 0 .. PipeSize
  BY DEF IndInv, TypeOK, Client, Channel
<1>2. ~chan.gone /\ chan.kind \notin Unasked
  BY <1>1, NotGone
<1>3. /\ cl' = [cl EXCEPT !.flight = cl.flight - n]
  BY DEF recv_msg_channel_data
<1>4. /\ cl' \in Client /\ cl'.flight = cl.flight - n /\ cl'.sent = cl.sent /\ cl'.eof = cl.eof
      /\ cl'.close = cl.close /\ cl'.gaveUp = cl.gaveUp /\ cl'.adjusted = cl.adjusted
  BY <1>1, <1>3 DEF Client
<1>5. chan.recvwindow + chan.recvdonelen + chan.used <= recv_window
  BY DEF IndInv, ChanOK, AccountsOK
<1>6. CASE chan.fd["write"] # "open"
  <2>1. chan' = chan /\ pc' = "io" /\ inpipe' = inpipe
    BY <1>2, <1>6, DataFits DEF recv_msg_channel_data, Handle
  <2>2. TypeOK'
    BY <1>0, <1>4, <2>1 DEF IndInv, TypeOK
  <2>3. ClientOK'
    BY <1>1, <1>2, <1>4, <1>6, <2>1, DataFits DEF IndInv, ClientOK
  <2>4. ChanOK(chan)' /\ ProgOK' /\ ReadyOK' /\ BytesOK' /\ InputComplete'
    BY <1>0, <1>4, <2>1 DEF IndInv, ProgOK, ReadyOK, BytesOK, InputComplete
  <2> QED BY <2>2, <2>3, <2>4 DEF IndInv
<1>7. CASE chan.fd["write"] = "open"
  <2> DEFINE c == [chan EXCEPT !.recvwindow = chan.recvwindow - n]
             d == writechannel(c, n)
  <2>1. ~(n > Min({chan.recvwindow, recv_window - chan.used}))
    <3>1. Min({chan.recvwindow, recv_window - chan.used}) \in Int
      BY <1>1, MinPair, WindowAssumption
    <3> QED BY <1>1, <1>7, <3>1, DataFits
  <2>2. /\ chan' = d /\ pc' = "io"
        /\ inpipe' = IF "write" \in held THEN inpipe + Written(chan, n) ELSE inpipe
    BY <1>2, <1>7, <2>1, DataFits DEF recv_msg_channel_data, Handle
  <2>3. chan.recvwindow - n \in 0 .. recv_window
    BY <1>1, <1>5, <1>7, DataFits, WindowAssumption
  <2>4. /\ c \in Channel /\ SameButBuffer(chan, c) /\ c.fd = chan.fd /\ c.used = chan.used
        /\ c.recvwindow = chan.recvwindow - n /\ c.recvdonelen = chan.recvdonelen
        /\ c.granted = chan.granted /\ c.late = chan.late
    BY <1>1, <2>3 DEF Channel, SameButBuffer
  <2>5. chan.kind \notin Early
    BY <1>2, <1>7 DEF IndInv, ChanOK, FdsOK, Early, Unasked, Fd
  <2> HIDE DEF c
  <2>6. ChanOK(c) /\ ~c.posthumous
    BY <1>1, <1>5, <2>4, <2>5, DataFits, WindowAssumption DEF IndInv, ChanOK, AccountsOK, SentOK, ExitOK, PostOK,
       FdsOK, SameButBuffer, Early, Closed, NoMoreOutput
  <2>7. c.recvwindow + c.recvdonelen + c.used + n <= recv_window
    BY <1>1, <1>5, <2>4, WindowAssumption
  <2>8. /\ ChanOK(d) /\ SameButBuffer(c, d)
        /\ d.granted - c.granted = d.recvwindow - c.recvwindow
        /\ d.granted >= c.granted
        /\ \A x \in Fd : d.fd[x] \in {c.fd[x], "closed"}
        /\ \A x \in Stream : c.kind # "pty" => d.fd[x] = c.fd[x]
        /\ d.fd["write"] = "closed" => "write" \notin held
    BY <1>1, <1>7, <2>4, <2>5, <2>6, <2>7, WriteOK DEF SameButBuffer
  <2>8a. d \in Channel /\ d.granted \in Nat /\ d.recvwindow \in Nat /\ d.fd \in [Fd -> FdState]
    BY <2>8 DEF ChanOK, Channel
  <2> HIDE DEF d
  <2>9. inpipe' \in 0 .. PipeSize
    <3>1. Written(chan, n) \in 0 .. PipeSize - inpipe
      BY <1>1, MinPair, BoundAssumption DEF Written
    <3> QED BY <1>1, <2>2, <3>1, BoundAssumption
  <2>10. TypeOK'
    BY <1>0, <1>4, <2>2, <2>8a, <2>9 DEF IndInv, TypeOK
  <2>11. ClientOK'
    BY <1>1, <1>2, <1>4, <1>7, <2>2, <2>4, <2>8, <2>8a, DataFits, WindowAssumption
       DEF IndInv, ClientOK, SameButBuffer, Fd, FdState
  <2>12. ProgOK' /\ ReadyOK'
    BY <1>0, <2>2, <2>4, <2>8 DEF IndInv, ProgOK, ReadyOK, SameButBuffer
  <2>13. BytesOK'
    BY <1>0, <1>4, <2>2, <2>4, <2>8 DEF IndInv, BytesOK, SameButBuffer
  <2>14. InputComplete'
    BY <1>0, <2>2, <2>8 DEF InputComplete
  <2> QED BY <2>2, <2>8, <2>10, <2>11, <2>12, <2>13, <2>14 DEF IndInv
<1> QED BY <1>6, <1>7
(* The client's EOF or CLOSE has been noted in the channel c, and the      *)
(* handler calls check_close().                                            *)
LEMMA EndOfInput ==
  ASSUME IndInv, ~chan.gone, chan.kind \notin Unasked, cl.flight = 0, NEW closes \in BOOLEAN,
         IF closes THEN cl.close ELSE cl.eof,
         NEW c, c = [chan EXCEPT !.recv_eof = TRUE, !.recv_close = chan.recv_close \/ closes],
         chan' = check_close(c, out), pc' = "io",
         UNCHANGED <<ready, prog, held, inpipe, out, sigpipe, cl, wrote, due>>
  PROVE  IndInv'
<1> DEFINE d == check_close(c, out)
<1>1. /\ c \in Channel /\ c.recv_eof /\ (c.recv_close <=> chan.recv_close \/ closes)
      /\ c.kind = chan.kind /\ c.gone = chan.gone /\ c.pid = chan.pid /\ c.exit = chan.exit
      /\ c.sent_eof = chan.sent_eof /\ c.sent_close = chan.sent_close
      /\ c.flushing = chan.flushing /\ c.used = chan.used /\ c.recvwindow = chan.recvwindow
      /\ c.recvdonelen = chan.recvdonelen /\ c.transwindow = chan.transwindow
      /\ c.granted = chan.granted /\ c.wire = chan.wire /\ c.late = chan.late /\ c.fd = chan.fd
      /\ c.posthumous = chan.posthumous
  <2>1. chan \in Channel /\ (chan.recv_close \/ closes) \in BOOLEAN
    BY DEF IndInv, TypeOK
  <2> QED BY <2>1 DEF Channel
<1>2. ChanOK(c) /\ Ripe(c)
  BY <1>1 DEF IndInv, ChanOK, AccountsOK, SentOK, ExitOK, PostOK, FdsOK, Closed, NoMoreOutput, Ripe, Unasked
<1>3. out \in [Stream -> Nat]
  BY BoundAssumption DEF IndInv, TypeOK
<1>4. ChanOK(d) /\ Closing(c, d, out)
  BY <1>2, <1>3, CheckCloseOK
<1>5. d \in Channel /\ d.fd \in [Fd -> FdState] /\ c.fd \in [Fd -> FdState]
  BY <1>1, <1>4 DEF ChanOK, Channel
<1> HIDE DEF d
<1>6. TypeOK'
  BY <1>5 DEF IndInv, TypeOK, d
<1>7. ClientOK'
  <2>1. c.kind = "session" => d.sent_close
    BY <1>2, SessionCloses DEF d
  <2> QED BY <1>1, <1>4, <1>5, <2>1 DEF IndInv, ClientOK, Closing, d, Fd, FdState
<1>8. ProgOK'
  BY <1>1, <1>4 DEF IndInv, ProgOK, Closing, d
<1>9. ReadyOK'
  BY <1>1, <1>4 DEF IndInv, ReadyOK, Closing, d
<1>10. BytesOK'
  <2>1. \A x \in Stream : d.wire[x] = chan.wire[x] /\ d.kind = chan.kind
    BY <1>1, <1>4 DEF Closing
  <2>2. ASSUME chan.kind # "pty", ~cl.gaveUp, ~chan.posthumous, NEW x \in Stream, d.fd[x] = "closed"
        PROVE  out[x] = 0
    <3>1. ~(c.recv_close /\ ~c.sent_close)
      BY <1>1, <2>2 DEF IndInv, ClientOK
    <3>2. c.fd[x] \in {"closed", "uninit"} \/ out[x] = 0
      BY <1>1, <1>4, <2>2, <3>1 DEF Closing
    <3>3. chan.fd[x] = "uninit" => chan.kind \in {"unopened", "session", "connecting"}
      BY DEF IndInv, ChanOK, FdsOK, Stream
    <3> QED BY <1>1, <2>2, <3>2, <3>3 DEF IndInv, BytesOK, Unasked
  <2>3. d.posthumous = chan.posthumous
    BY <1>1, <1>4 DEF Closing
  <2> QED BY <2>1, <2>2, <2>3 DEF IndInv, BytesOK, d
<1>11. InputComplete'
  BY <1>1, <1>4, <1>5 DEF IndInv, InputComplete, Closing, d, ChanOK, FdsOK, AccountsOK, Early
<1> QED BY <1>4, <1>6, <1>7, <1>8, <1>9, <1>10, <1>11 DEF IndInv, d

(* recv_msg_channel_eof() *)
LEMMA EofInv ==
  ASSUME IndInv, recv_msg_channel_eof
  PROVE  IndInv'
<1>1. ~chan.gone /\ chan.kind \notin Unasked
  BY NotGone DEF recv_msg_channel_eof
<1>2. chan \in Channel
  BY DEF IndInv, TypeOK
<1> DEFINE c == [chan EXCEPT !.recv_eof = TRUE, !.recv_close = chan.recv_close \/ FALSE]
<1>3. c = [chan EXCEPT !.recv_eof = TRUE]
  BY <1>2 DEF Channel
<1>4. chan' = check_close(c, out) /\ pc' = "io"
  BY <1>1, <1>3 DEF recv_msg_channel_eof, Handle
<1>5. /\ cl.flight = 0 /\ cl.eof
      /\ UNCHANGED <<ready, prog, held, inpipe, out, sigpipe, cl, wrote, due>>
  BY DEF recv_msg_channel_eof, EofComing, Packet, kernel
<1> HIDE DEF c
<1> QED BY <1>1, <1>4, <1>5, EndOfInput DEF c

(* recv_msg_channel_close() *)
LEMMA CloseInv ==
  ASSUME IndInv, recv_msg_channel_close
  PROVE  IndInv'
<1>1. ~chan.gone /\ chan.kind \notin Unasked
  BY NotGone DEF recv_msg_channel_close
<1>2. chan \in Channel
  BY DEF IndInv, TypeOK
<1> DEFINE c == [chan EXCEPT !.recv_eof = TRUE, !.recv_close = chan.recv_close \/ TRUE]
<1>3. c = [chan EXCEPT !.recv_eof = TRUE, !.recv_close = TRUE]
  BY <1>2 DEF Channel
<1>4. chan' = check_close(c, out) /\ pc' = "io"
  BY <1>1, <1>3 DEF recv_msg_channel_close, Handle
<1>5. /\ cl.flight = 0 /\ cl.close
      /\ UNCHANGED <<ready, prog, held, inpipe, out, sigpipe, cl, wrote, due>>
  BY DEF recv_msg_channel_close, CloseComing, Packet, kernel
<1> HIDE DEF c
<1> QED BY <1>1, <1>4, <1>5, EndOfInput DEF c

(* recv_msg_channel_window_adjust() *)
LEMMA AdjustInv ==
  ASSUME IndInv, recv_msg_channel_window_adjust
  PROVE  IndInv'
<1>1. ~chan.gone /\ chan.kind \notin Unasked
  BY NotGone DEF recv_msg_channel_window_adjust
<1>2. /\ chan \in Channel /\ cl \in Client /\ chan.transwindow \in Nat /\ cl.adjusted \in Nat
      /\ chan.wire["read"] \in Nat /\ chan.wire["err"] \in Nat
  BY DEF IndInv, TypeOK, Channel, Client, Msg, Stream
<1>3. Owed \in Nat
  BY <1>2 DEF recv_msg_channel_window_adjust, AdjustComing, Owed
<1>4. /\ chan' = [chan EXCEPT !.transwindow = chan.transwindow + Owed] /\ pc' = "io"
      /\ cl' = [cl EXCEPT !.adjusted = cl.adjusted + Owed]
      /\ UNCHANGED <<ready, prog, held, inpipe, out, sigpipe, wrote, due>>
  BY <1>1 DEF recv_msg_channel_window_adjust, Handle, Packet, kernel
<1>5. /\ cl' \in Client /\ cl'.flight = cl.flight /\ cl'.sent = cl.sent /\ cl'.eof = cl.eof
      /\ cl'.close = cl.close /\ cl'.gaveUp = cl.gaveUp
  BY <1>2, <1>3, <1>4 DEF Client
<1>6. /\ chan' \in Channel /\ SameButBuffer(chan, [chan' EXCEPT !.transwindow = chan.transwindow])
      /\ chan'.fd = chan.fd /\ chan'.used = chan.used
      /\ chan'.recvwindow = chan.recvwindow /\ chan'.recvdonelen = chan.recvdonelen
      /\ chan'.granted = chan.granted /\ chan'.late = chan.late
  BY <1>2, <1>3, <1>4 DEF Channel, SameButBuffer
<1>7. /\ chan'.kind = chan.kind /\ chan'.gone = chan.gone /\ chan'.pid = chan.pid
      /\ chan'.exit = chan.exit /\ chan'.sent_eof = chan.sent_eof /\ chan'.recv_eof = chan.recv_eof
      /\ chan'.sent_close = chan.sent_close /\ chan'.recv_close = chan.recv_close
      /\ chan'.flushing = chan.flushing /\ chan'.wire = chan.wire
      /\ chan'.posthumous = chan.posthumous
  BY <1>2, <1>4 DEF Channel
<1>8. ChanOK(chan)'
  BY <1>1, <1>6, <1>7 DEF IndInv, ChanOK, AccountsOK, SentOK, ExitOK, PostOK, FdsOK, Closed, NoMoreOutput,
     Unasked, Early
<1>9. TypeOK'
  BY <1>4, <1>5, <1>6 DEF IndInv, TypeOK
<1>10. ClientOK'
  BY <1>1, <1>5, <1>6, <1>7 DEF IndInv, ClientOK
<1>11. ProgOK' /\ ReadyOK' /\ BytesOK' /\ InputComplete'
  BY <1>4, <1>5, <1>6, <1>7 DEF IndInv, ProgOK, ReadyOK, BytesOK, InputComplete
<1> QED BY <1>8, <1>9, <1>10, <1>11 DEF IndInv
(* The request of a command finds the session as it was opened, or after   *)
(* an EOF as check_close() left it: with the CLOSE sent.                   *)
LEMMA CommandInv ==
  ASSUME IndInv, NEW kind \in {"pipe", "pty"}, sessioncommand(kind)
  PROVE  IndInv'
<1>1. ~chan.gone /\ chan.kind \notin Unasked
  BY NotGone DEF sessioncommand
<1>2. /\ chan.kind = "session" /\ cl.flight = 0 /\ ~cl.close /\ pc' = "io"
      /\ UNCHANGED <<ready, sigpipe, inpipe, out, wrote, due, cl>> /\ prog' = "running"
      /\ held' = IF kind = "pipe" THEN Fd ELSE {"read", "write"}
  BY <1>1 DEF sessioncommand, RequestComing, Packet, Handle
<1> DEFINE fds == Fds("open", "open", IF kind = "pipe" THEN "open" ELSE "closed")
<1>3. /\ fds \in [Fd -> FdState] /\ fds["write"] = "open" /\ fds["read"] = "open"
      /\ fds["err"] = IF kind = "pipe" THEN "open" ELSE "closed"
  BY DEF Fds, Fd, FdState
<1>4. chan' = [chan EXCEPT !.kind = kind, !.pid = TRUE, !.posthumous = chan.sent_close,
                           !.fd = fds]
  BY <1>1 DEF sessioncommand, Handle
<1> HIDE DEF fds
<1>5. chan \in Channel /\ cl \in Client
  BY DEF IndInv, TypeOK
<1>6. /\ chan' \in Channel /\ chan'.kind = kind /\ chan'.pid /\ chan'.fd = fds
      /\ chan'.gone = chan.gone /\ chan'.exit = chan.exit /\ chan'.sent_eof = chan.sent_eof
      /\ chan'.recv_eof = chan.recv_eof /\ chan'.sent_close = chan.sent_close
      /\ chan'.recv_close = chan.recv_close /\ chan'.flushing = chan.flushing
      /\ chan'.used = chan.used /\ chan'.recvwindow = chan.recvwindow
      /\ chan'.recvdonelen = chan.recvdonelen /\ chan'.transwindow = chan.transwindow
      /\ chan'.granted = chan.granted /\ chan'.wire = chan.wire /\ chan'.late = chan.late
      /\ chan'.posthumous = chan.sent_close
  BY <1>3, <1>4, <1>5 DEF Channel, Kind, Session
<1>7. /\ ~chan.recv_close /\ chan.exit = "none" /\ chan.used = 0
      /\ chan.sent_eof => chan.recv_eof /\ chan.sent_close
      /\ chan.sent_close => chan.recv_eof /\ chan.sent_eof
  BY <1>2 DEF IndInv, ClientOK, ChanOK, FdsOK, AccountsOK, Early, SentOK, ExitOK
<1>8. ChanOK(chan)'
  BY <1>1, <1>3, <1>6, <1>7 DEF IndInv, ChanOK, AccountsOK, SentOK, ExitOK, PostOK, FdsOK, Early
<1>9. TypeOK'
  BY <1>2, <1>6 DEF IndInv, TypeOK, Fd
<1>10. ClientOK'
  <2>1. /\ chan.granted = 0 /\ chan.recvwindow = recv_window /\ cl.sent \in Nat
    BY <1>2, <1>5 DEF IndInv, ChanOK, AccountsOK, Early, Client
  <2> QED BY <1>2, <1>6, <1>7, <2>1, WindowAssumption DEF IndInv, ClientOK, Unasked
<1>11. ProgOK'
  <2>1. prog = "none"
    BY <1>2 DEF IndInv, ProgOK, ChanOK, ExitOK
  <2> QED BY <1>2, <1>6, <1>7, <2>1 DEF IndInv, ProgOK
<1>12. ReadyOK'
  BY <1>2, <1>6 DEF IndInv, ReadyOK, Early, Fd, Stream
<1>13. BytesOK'
  BY <1>2, <1>3, <1>6 DEF IndInv, BytesOK, Stream
<1>14. InputComplete'
  BY <1>3, <1>6 DEF InputComplete
<1> QED BY <1>8, <1>9, <1>10, <1>11, <1>12, <1>13, <1>14 DEF IndInv

(* A channel whose connect() or open failed is removed; nothing was ever   *)
(* sent on it.                                                             *)
LEMMA FailInv ==
  ASSUME IndInv, chan.kind \in {"connecting", "opening"}, ~chan.gone,
         chan' = remove_channel(chan), pc' = "io",
         UNCHANGED <<ready, prog, held, inpipe, out, sigpipe, cl, wrote, due>>
  PROVE  IndInv'
<1>1. chan \in Channel
  BY DEF IndInv, TypeOK
<1>2. /\ chan' \in Channel /\ chan'.gone /\ Closed(chan')
      /\ chan'.kind = chan.kind /\ chan'.pid = chan.pid /\ chan'.exit = chan.exit
      /\ chan'.sent_eof = chan.sent_eof
      /\ chan'.recv_eof = chan.recv_eof /\ chan'.sent_close = chan.sent_close
      /\ chan'.recv_close = chan.recv_close /\ chan'.flushing = chan.flushing
      /\ chan'.used = chan.used /\ chan'.recvwindow = chan.recvwindow
      /\ chan'.recvdonelen = chan.recvdonelen /\ chan'.transwindow = chan.transwindow
      /\ chan'.granted = chan.granted /\ chan'.wire = chan.wire /\ chan'.late = chan.late
      /\ chan'.posthumous = chan.posthumous
  BY <1>1 DEF remove_channel, Fds, Channel, Fd, FdState, Closed
<1>3. ChanOK(chan)'
  BY <1>2 DEF IndInv, ChanOK, AccountsOK, SentOK, ExitOK, PostOK, FdsOK, Closed, NoMoreOutput, Fd
<1>4. TypeOK'
  BY <1>2 DEF IndInv, TypeOK
<1>5. ClientOK'
  BY <1>2 DEF IndInv, ClientOK, Closed, Fd
<1>6. ProgOK' /\ ReadyOK'
  BY <1>2 DEF IndInv, ProgOK, ReadyOK
<1>7. BytesOK'
  BY <1>2 DEF IndInv, BytesOK
<1>8. InputComplete'
  BY <1>2 DEF IndInv, InputComplete, ChanOK, AccountsOK, Early
<1> QED BY <1>3, <1>4, <1>5, <1>6, <1>7, <1>8 DEF IndInv

(* One that succeeds becomes a TCP channel. *)
LEMMA EstablishedInv ==
  ASSUME IndInv, chan.kind \in {"connecting", "opening"}, ~chan.gone, NEW w \in Nat, NEW fds,
         fds \in [Fd -> FdState], fds["write"] = "open", fds["read"] = "open",
         fds["err"] = "closed",
         chan' = [chan EXCEPT !.kind = "tcp", !.fd = fds, !.transwindow = w], pc' = "io",
         held' \in SUBSET Fd, chan.kind = "opening" => held' = held /\ chan.fd["err"] = "closed",
         UNCHANGED <<ready, prog, inpipe, out, sigpipe, cl, wrote, due>>
  PROVE  IndInv'
<1>1. chan \in Channel
  BY DEF IndInv, TypeOK
<1>2. /\ chan' \in Channel /\ chan'.kind = "tcp" /\ chan'.fd = fds
      /\ chan'.pid = chan.pid /\ chan'.exit = chan.exit
      /\ chan'.sent_eof = chan.sent_eof /\ chan'.gone = chan.gone
      /\ chan'.recv_eof = chan.recv_eof /\ chan'.sent_close = chan.sent_close
      /\ chan'.recv_close = chan.recv_close /\ chan'.flushing = chan.flushing
      /\ chan'.used = chan.used /\ chan'.recvwindow = chan.recvwindow
      /\ chan'.recvdonelen = chan.recvdonelen
      /\ chan'.granted = chan.granted /\ chan'.wire = chan.wire /\ chan'.late = chan.late
      /\ chan'.posthumous = chan.posthumous
  BY <1>1 DEF Channel, Kind, Session
<1>3. /\ cl = NoClient /\ ~chan.recv_eof /\ ~chan.recv_close /\ ~chan.sent_eof /\ ~chan.sent_close
      /\ ~chan.pid /\ chan.granted = 0 /\ chan.recvwindow = recv_window
  BY DEF IndInv, ClientOK, ChanOK, FdsOK, SentOK, ExitOK, AccountsOK, Unasked, Early
<1>4. ChanOK(chan)'
  BY <1>2, <1>3 DEF IndInv, ChanOK, AccountsOK, SentOK, ExitOK, PostOK, FdsOK, Early
<1>5. TypeOK'
  BY <1>2 DEF IndInv, TypeOK
<1>6. ClientOK'
  BY <1>2, <1>3, WindowAssumption DEF IndInv, ClientOK, NoClient, Unasked
<1>7. ProgOK'
  BY <1>2 DEF IndInv, ProgOK
<1>8. ReadyOK'
  BY <1>2 DEF IndInv, ReadyOK, Early, Stream, Fd
<1>9. BytesOK'
  BY <1>2 DEF IndInv, BytesOK, Stream
<1>10. InputComplete'
  BY <1>2 DEF InputComplete
<1> QED BY <1>4, <1>5, <1>6, <1>7, <1>8, <1>9, <1>10 DEF IndInv

(* channel_connect_done() *)
LEMMA ConnectInv ==
  ASSUME IndInv, NEW ok \in BOOLEAN, channel_connect_done(ok)
  PROVE  IndInv'
<1>1. /\ chan.kind = "connecting" /\ ~chan.gone /\ pc' = "io"
      /\ UNCHANGED <<ready, prog, inpipe, out, sigpipe, cl, wrote, due>>
  BY DEF IndInv, ReadyOK, channel_connect_done
<1>2. CASE ok
  <2> DEFINE fds == Fds("open", "open", "closed")
  <2>1. fds \in [Fd -> FdState] /\ fds["write"] = "open" /\ fds["read"] = "open"
        /\ fds["err"] = "closed"
    BY DEF Fds, Fd, FdState
  <2>2. chan \in Channel /\ chan.transwindow \in Nat
    BY DEF IndInv, TypeOK, Channel
  <2>3. chan' = [chan EXCEPT !.kind = "tcp", !.fd = fds] /\ held' = {"read", "write"}
    BY <1>2 DEF channel_connect_done
  <2> HIDE DEF fds
  <2>4. chan' = [chan EXCEPT !.kind = "tcp", !.fd = fds, !.transwindow = chan.transwindow]
    BY <2>2, <2>3 DEF Channel
  <2>5. held' \in SUBSET Fd
    BY <2>3 DEF Fd
  <2> QED BY <1>1, <2>1, <2>2, <2>4, <2>5, EstablishedInv
<1>3. CASE ~ok
  BY <1>1, <1>3, FailInv DEF channel_connect_done
<1> QED BY <1>2, <1>3

(* recv_msg_channel_open_confirmation() and _failure() *)
LEMMA ReplyInv ==
  ASSUME IndInv, NEW ok \in BOOLEAN, recv_msg_channel_open_reply(ok)
  PROVE  IndInv'
<1>1. /\ chan.kind = "opening" /\ ~chan.gone /\ pc' = "io"
      /\ UNCHANGED <<ready, prog, held, inpipe, out, sigpipe, cl, wrote, due>>
      /\ chan' = IF ok THEN [chan EXCEPT !.kind = "tcp", !.transwindow = TransWindow]
                 ELSE remove_channel(chan)
  BY DEF recv_msg_channel_open_reply, AnswerComing, Packet, Handle, kernel
<1>2. CASE ok
  <2>1. chan \in Channel /\ held \in SUBSET Fd
    BY DEF IndInv, TypeOK, Channel
  <2>2. chan' = [chan EXCEPT !.kind = "tcp", !.fd = chan.fd, !.transwindow = TransWindow]
    BY <1>1, <1>2, <2>1 DEF Channel
  <2>3. /\ chan.fd \in [Fd -> FdState] /\ chan.fd["write"] = "open" /\ chan.fd["read"] = "open"
        /\ chan.fd["err"] = "closed"
    BY <1>1, <2>1 DEF IndInv, ChanOK, FdsOK, Channel
  <2> QED BY <1>1, <2>1, <2>2, <2>3, WindowAssumption, EstablishedInv
<1>3. CASE ~ok
  BY <1>1, <1>3, FailInv
<1> QED BY <1>2, <1>3
-----------------------------------------------------------------------------
(* The channel is opened. *)

(* A channel of any kind is opened; it replaces only one never opened. *)
LEMMA OpenKindInv ==
  ASSUME IndInv, NEW kind \in Early \ {"unopened"}, NEW w \in Nat, NEW fds,
         NEW ends \in {{}, {"read", "write"}}, Open(kind, fds, w, ends),
         fds = IF kind = "opening" THEN Fds("open", "open", "closed")
                                   ELSE Fds("uninit", "uninit", "closed"),
         kind = "opening" => w = 0
  PROVE  IndInv'
<1>2. /\ pc = "select" /\ chan.kind = "unopened" /\ chan' = newchannel(kind, fds, w) /\ held' = ends
      /\ UNCHANGED <<pc, ready, prog, inpipe, out, sigpipe, cl, wrote, due>>
  BY DEF Open
<1>3. ChanOK(chan')
  BY <1>2, NewOK DEF Early
<1>4. /\ chan'.kind = kind /\ ~chan'.pid /\ chan'.exit = "none" /\ ~chan'.recv_eof
      /\ ~chan'.recv_close /\ chan'.granted = 0 /\ chan'.fd = fds /\ ~chan'.gone /\ ~chan'.posthumous
      /\ \A x \in Stream : chan'.wire[x] = 0
      /\ chan'.recvwindow = recv_window
  BY <1>2 DEF newchannel, Msg, Stream
<1>5. fds["write"] # "closed" /\ fds["read"] # "closed"
  BY DEF Fds, Fd
<1>6. cl = NoClient
  BY <1>2 DEF IndInv, ClientOK, Unasked
<1>7. TypeOK'
  BY <1>2, <1>3 DEF IndInv, TypeOK, ChanOK, Fd
<1>8. ClientOK'
  BY <1>2, <1>4, <1>6, WindowAssumption DEF IndInv, ClientOK, NoClient
<1>9. ~chan.pid /\ chan.exit = "none" /\ \A x \in Stream : chan.wire[x] = 0
  BY <1>2 DEF IndInv, ChanOK, ExitOK, AccountsOK, Early
<1>10. ProgOK'
  BY <1>2, <1>4, <1>9 DEF IndInv, ProgOK
<1>11. ReadyOK'
  BY <1>2, <1>4 DEF IndInv, ReadyOK, Early
<1>12. BytesOK'
  BY <1>2, <1>4, <1>9 DEF IndInv, BytesOK
<1>13. InputComplete'
  BY <1>4, <1>5 DEF InputComplete
<1> QED BY <1>3, <1>7, <1>8, <1>10, <1>11, <1>12, <1>13 DEF IndInv

(* The three ways to open one. *)
LEMMA OpenInv ==
  ASSUME IndInv, OpenSession \/ OpenDirect \/ send_msg_channel_open_init
  PROVE  IndInv'
<1>1. CASE OpenSession
  BY <1>1, OpenKindInv, WindowAssumption DEF OpenSession, Early
<1>2. CASE OpenDirect
  BY <1>2, OpenKindInv, WindowAssumption DEF OpenDirect, Early
<1>3. CASE send_msg_channel_open_init
  BY <1>3, OpenKindInv DEF send_msg_channel_open_init, Early
<1> QED BY <1>1, <1>2, <1>3

-----------------------------------------------------------------------------
(* The client, the program and the TCP peer. *)

(* The client sends data within its window, an EOF, or a CLOSE. *)
LEMMA ClientInv ==
  ASSUME IndInv, (\E n \in 1 .. MaxBytes : CSend(n)) \/ CEof \/ CClose
  PROVE  IndInv'
<1>1. /\ UNCHANGED <<chan, pc, ready, prog, held, inpipe, out, wrote, due, sigpipe>>
      /\ chan.kind \notin Unasked
  BY DEF CSend, CEof, CClose, ClientStep, kernel, Unasked
<1>2. /\ cl \in Client /\ cl.sent \in 0 .. MaxBytes /\ cl.flight \in Nat
      /\ wrote["read"] \in Nat /\ wrote["err"] \in Nat
      /\ chan.granted \in Nat /\ chan.recvwindow \in Nat /\ chan.wire["close"] \in Nat
  BY DEF IndInv, TypeOK, Client, Channel, Stream, Msg
<1>3. ChanOK(chan)' /\ ProgOK' /\ ReadyOK' /\ InputComplete'
  BY <1>1 DEF IndInv, ProgOK, ReadyOK, ReadsAfterClose, InputComplete
<1>4. cl' \in Client /\ ClientOK' /\ (cl.gaveUp => cl'.gaveUp)
  <2>1. ASSUME NEW n \in 1 .. MaxBytes, CSend(n)
        PROVE  cl' \in Client /\ ClientOK' /\ (cl.gaveUp => cl'.gaveUp)
    <3>1. /\ cl' = [cl EXCEPT !.sent = cl.sent + n, !.flight = cl.flight + n]
          /\ ~cl.eof /\ ~cl.close /\ cl.sent + n <= recv_window + chan.granted
          /\ cl.sent + wrote["read"] + wrote["err"] + n <= MaxBytes
      BY <2>1 DEF CSend, Bytes
    <3>1a. n \in Nat /\ cl.sent + n \in 0 .. MaxBytes /\ cl.flight + n \in Nat
      BY <1>2, <3>1, BoundAssumption
    <3>2. /\ cl' \in Client /\ cl'.flight = cl.flight + n /\ cl'.sent = cl.sent + n
          /\ cl'.eof = cl.eof /\ cl'.close = cl.close /\ cl'.gaveUp = cl.gaveUp
      BY <1>2, <3>1, <3>1a DEF Client
    <3> QED BY <1>1, <1>2, <3>1, <3>1a, <3>2, WindowAssumption DEF IndInv, ClientOK
  <2>2. CASE CEof
    <3>1. cl' = [cl EXCEPT !.eof = TRUE]
      BY <2>2 DEF CEof
    <3>2. /\ cl' \in Client /\ cl'.flight = cl.flight /\ cl'.sent = cl.sent
          /\ cl'.eof /\ cl'.close = cl.close /\ cl'.gaveUp = cl.gaveUp
      BY <1>2, <3>1 DEF Client
    <3> QED BY <1>1, <3>2 DEF IndInv, ClientOK
  <2>3. CASE CClose
    <3>1. /\ cl' = [cl EXCEPT !.close = TRUE, !.gaveUp = (chan.wire["close"] = 0)]
          /\ ~cl.close
      BY <2>3 DEF CClose
    <3>2. /\ cl' \in Client /\ cl'.flight = cl.flight /\ cl'.sent = cl.sent
          /\ cl'.eof = cl.eof /\ cl'.close /\ (cl'.gaveUp <=> chan.wire["close"] = 0)
      BY <1>2, <3>1 DEF Client
    <3>3. chan.wire["close"] # 0 => chan.sent_close
      BY DEF IndInv, ChanOK, SentOK
    <3> QED BY <1>1, <3>1, <3>2, <3>3 DEF IndInv, ClientOK
  <2> QED BY <2>1, <2>2, <2>3
<1>5. TypeOK'
  BY <1>1, <1>4 DEF IndInv, TypeOK
<1>6. BytesOK'
  BY <1>1, <1>4 DEF IndInv, BytesOK
<1> QED BY <1>3, <1>4, <1>5, <1>6 DEF IndInv

(* The program takes input from the pipe. *)
LEMMA ProgReadInv ==
  ASSUME IndInv, ProgRead
  PROVE  IndInv'
<1>1. /\ UNCHANGED <<chan, pc, ready, cl, prog, held, out, sigpipe, wrote, due>>
      /\ inpipe' = inpipe - 1 /\ inpipe > 0 /\ inpipe \in 0 .. PipeSize
  BY DEF ProgRead, Outside, IndInv, TypeOK
<1>2. inpipe' \in 0 .. PipeSize
  BY <1>1, BoundAssumption
<1> QED BY <1>1, <1>2 DEF IndInv, TypeOK, ClientOK, ProgOK, ReadyOK, ReadsAfterClose, BytesOK,
           InputComplete

(* The program writes to a pipe that the server still reads. *)
LEMMA ProgWriteInv ==
  ASSUME IndInv, NEW x \in Stream, ProgWrite(x)
  PROVE  IndInv'
<1>1. /\ UNCHANGED <<chan, pc, ready, cl, prog, held, inpipe, sigpipe, due>>
      /\ chan.fd[x] = "open" /\ out[x] < PipeSize
      /\ out' = [out EXCEPT ![x] = out[x] + 1] /\ wrote' = [wrote EXCEPT ![x] = wrote[x] + 1]
  BY DEF ProgWrite, Outside
<1>2. /\ out \in [Stream -> 0 .. PipeSize] /\ wrote \in [Stream -> Nat]
      /\ due \in [Stream -> Nat] /\ chan.wire \in [Msg -> Nat]
  BY DEF IndInv, TypeOK, Channel
<1>3. out' \in [Stream -> 0 .. PipeSize] /\ wrote' \in [Stream -> Nat]
  BY <1>1, <1>2, BoundAssumption
<1>4. \A y \in Stream :
        /\ out'[y] = IF y = x THEN out[y] + 1 ELSE out[y]
        /\ wrote'[y] = IF y = x THEN wrote[y] + 1 ELSE wrote[y]
  BY <1>1, <1>2
<1>5. TypeOK'
  BY <1>1, <1>3 DEF IndInv, TypeOK
<1>6. ChanOK(chan)' /\ ClientOK' /\ ProgOK' /\ InputComplete'
  BY <1>1 DEF IndInv, ClientOK, ProgOK, InputComplete
<1>7. ReadyOK'
  BY <1>1, <1>2, <1>4, BoundAssumption DEF IndInv, ReadyOK, ReadsAfterClose
<1>8. BytesOK'
  <2>1. chan.kind \notin {"unopened", "session", "connecting"}
    BY <1>1 DEF IndInv, ChanOK, FdsOK, Stream, Fd
  <2>2. \A y \in Stream : chan.wire[y] + out'[y] = wrote'[y] /\ due[y] <= wrote'[y]
    BY <1>2, <1>4, BoundAssumption DEF IndInv, BytesOK, Stream, Msg
  <2> QED BY <1>1, <1>4, <2>1, <2>2 DEF IndInv, BytesOK
<1> QED BY <1>5, <1>6, <1>7, <1>8 DEF IndInv

(* Descriptors are let go of, and due only changes to what was written. *)
LEMMA ReleaseInv ==
  ASSUME IndInv, held' \subseteq held, chan.kind = "pty" => held' \in {{}, held},
         due' \in [Stream -> Nat], \A x \in Stream : due'[x] \in {due[x], wrote[x]},
         \/ UNCHANGED <<prog, sigpipe>>
         \/ prog = "running" /\ prog' = "zombie" /\ sigpipe' = TRUE,
         UNCHANGED <<chan, pc, ready, cl, inpipe, out, wrote>>
  PROVE  IndInv'
<1>1. TypeOK'
  BY DEF IndInv, TypeOK
<1>2. ChanOK(chan)' /\ ClientOK'
  BY DEF IndInv, ClientOK
<1>3. ProgOK'
  BY DEF IndInv, ProgOK
<1>4. ReadyOK'
  BY DEF IndInv, ReadyOK, ReadsAfterClose
<1>5. BytesOK'
  BY DEF IndInv, TypeOK, BytesOK
<1>6. InputComplete'
  BY DEF IndInv, InputComplete
<1> QED BY <1>1, <1>2, <1>3, <1>4, <1>5, <1>6 DEF IndInv

(* The program or the peer closes some of its ends. *)
LEMMA ProgCloseInv ==
  ASSUME IndInv, NEW ends \in {{x} : x \in held} \cup {held}, ProgClose(ends)
  PROVE  IndInv'
<1>1. wrote \in [Stream -> Nat] /\ due \in [Stream -> Nat]
  BY DEF IndInv, TypeOK
<1>2. /\ UNCHANGED <<chan, pc, ready, cl, prog, sigpipe, inpipe, out, wrote>>
      /\ held' = held \ ends /\ (chan.kind = "pty" => ends \in {{}, held})
      /\ due' = [x \in Stream |-> IF x \in ends /\ prog \in {"none", "running"}
                                  THEN wrote[x] ELSE due[x]]
  BY DEF ProgClose, Outside, AllOrNone
<1>3. due' \in [Stream -> Nat] /\ \A x \in Stream : due'[x] \in {due[x], wrote[x]}
  BY <1>1, <1>2
<1>4. held' \subseteq held /\ (chan.kind = "pty" => held' \in {{}, held})
  BY <1>2
<1> QED BY <1>2, <1>3, <1>4, ReleaseInv

(* The command ends; others may keep its descriptors. *)
LEMMA ProgExitInv ==
  ASSUME IndInv, NEW keep \in SUBSET held, ProgExit(keep)
  PROVE  IndInv'
<1>1. wrote \in [Stream -> Nat]
  BY DEF IndInv, TypeOK
<1>2. /\ UNCHANGED <<chan, pc, ready, cl, inpipe, out, wrote>>
      /\ prog = "running" /\ prog' = "zombie" /\ sigpipe' = TRUE
      /\ held' = keep /\ (chan.kind = "pty" => keep \in {{}, held}) /\ due' = wrote
  BY DEF ProgExit, Outside, AllOrNone
<1> QED BY <1>1, <1>2, ReleaseInv
-----------------------------------------------------------------------------
(* channelio(): the channel on its way through the loop. *)

(* What holds of the channel c between two steps of channelio(), when outs *)
(* is left in the pipes and the command is in state p.                     *)
Midway(c, outs, p) ==
  /\ ChanOK(c)
  /\ c.kind = chan.kind /\ c.gone = chan.gone /\ c.pid = chan.pid
  /\ c.recv_eof = chan.recv_eof /\ c.recv_close = chan.recv_close
  /\ c.sent_close = chan.sent_close /\ c.posthumous = chan.posthumous
  /\ c.fd["write"] = "open" => recv_window + c.granted + cl.flight <= c.recvwindow + cl.sent
  /\ cl.sent <= recv_window + c.granted
  /\ outs \in [Stream -> 0 .. PipeSize]
  /\ \A x \in Stream : c.wire[x] + outs[x] = wrote[x]
  /\ chan.kind \in {"unopened", "session", "connecting"} => \A x \in Stream : outs[x] = 0
  /\ c.kind # "pty" /\ ~cl.gaveUp /\ ~c.posthumous
     => \A x \in Stream : c.fd[x] = "closed" => outs[x] = 0 \/ (c.kind = "opening" /\ c.gone)
  /\ c.fd["write"] = "closed" /\ c.exit = "none" /\ "write" \in held => c.used = 0
  /\ c.exit # "none" => p = "reaped"

(* svr_chansess_checksignal() notes how the command ended. *)
LEMMA ReapMid ==
  ASSUME IndInv, NEW how \in {"status", "unnamed"}, NEW reaped \in BOOLEAN,
         reaped => prog = "zombie"
  PROVE  Midway(IF reaped /\ ~chan.gone THEN [chan EXCEPT !.exit = how] ELSE chan, out,
                IF reaped THEN "reaped" ELSE prog)
<1>1. Midway(chan, out, prog)
  BY DEF IndInv, TypeOK, ClientOK, BytesOK, ProgOK, InputComplete, Midway
<1>0. Midway(chan, out, IF reaped THEN "reaped" ELSE prog)
  BY <1>1 DEF Midway
<1>2. CASE reaped /\ ~chan.gone
  <2> DEFINE c == [chan EXCEPT !.exit = how]
  <2>1. chan \in Channel /\ chan.pid /\ chan.exit = "none"
    BY <1>2 DEF IndInv, TypeOK, ProgOK
  <2>2. /\ c \in Channel /\ c.exit = how
        /\ c.kind = chan.kind /\ c.gone = chan.gone /\ c.pid = chan.pid /\ c.fd = chan.fd
        /\ c.sent_eof = chan.sent_eof /\ c.recv_eof = chan.recv_eof
        /\ c.sent_close = chan.sent_close /\ c.recv_close = chan.recv_close
        /\ c.flushing = chan.flushing /\ c.used = chan.used /\ c.recvwindow = chan.recvwindow
        /\ c.recvdonelen = chan.recvdonelen /\ c.transwindow = chan.transwindow
        /\ c.granted = chan.granted /\ c.wire = chan.wire /\ c.late = chan.late
        /\ c.posthumous = chan.posthumous
    BY <2>1 DEF Channel
  <2> HIDE DEF c
  <2>3. ChanOK(c)
    BY <2>1, <2>2 DEF IndInv, ChanOK, AccountsOK, SentOK, ExitOK, PostOK, FdsOK, Closed, NoMoreOutput
  <2>4. Midway(c, out, "reaped")
    BY <1>1, <2>2, <2>3 DEF Midway
  <2> QED BY <1>2, <2>4 DEF c
<1> QED BY <1>0, <1>2

(* Reading: what leaves the pipe is sent, and an end that is found there   *)
(* is one that select() has seen.                                          *)
LEMMA ReadMid ==
  ASSUME IndInv, NEW c, NEW outs, NEW p, Midway(c, outs, p), NEW x \in Stream, NEW n \in Nat,
         NEW reads \in BOOLEAN, outs[x] = out[x],
         reads => x \in ready /\ c.fd[x] = "open" /\ ~c.posthumous,
         IF reads THEN CanRead(c, x, n) ELSE n = 0
  PROVE  Midway(IF reads THEN send_msg_channel_data(c, x, n) ELSE c, [outs EXCEPT ![x] = @ - n], p)
<1> DEFINE o == [outs EXCEPT ![x] = outs[x] - n]
<1>1. /\ outs \in [Stream -> 0 .. PipeSize]
      /\ c \in Channel /\ c.transwindow \in Nat /\ c.fd \in [Fd -> FdState]
      /\ c.wire \in [Msg -> Nat] /\ x \in Fd
  BY DEF Midway, ChanOK, Channel, Stream, Fd
<1>2. CASE ~reads
  <2>1. o = outs
    BY <1>1, <1>2, BoundAssumption
  <2> QED BY <1>2, <2>1
<1>3. CASE reads
  <2> DEFINE d == send_msg_channel_data(c, x, n)
  <2>1. /\ n <= c.transwindow /\ n <= outs[x]
        /\ n = 0 /\ c.transwindow > 0 => outs[x] = 0
    <3>1. out[x] \in Nat
      BY <1>1, BoundAssumption
    <3>2. Min({out[x], c.transwindow}) =
            IF out[x] <= c.transwindow THEN out[x] ELSE c.transwindow
      BY <1>1, <3>1, MinPair
    <3> QED BY <1>1, <1>3, <3>1, <3>2 DEF CanRead
  <2>2. /\ ChanOK(d)
        /\ d.kind = c.kind /\ d.gone = c.gone /\ d.pid = c.pid /\ d.exit = c.exit
        /\ d.recv_eof = c.recv_eof /\ d.recv_close = c.recv_close
        /\ d.posthumous = c.posthumous /\ d.sent_close = c.sent_close /\ d.used = c.used
        /\ d.recvwindow = c.recvwindow /\ d.granted = c.granted
        /\ d.wire[x] = c.wire[x] + n
        /\ \A y \in Stream \ {x} : d.wire[y] = c.wire[y]
        /\ \A y \in Fd : d.fd[y] \in {c.fd[y], "closed"}
        /\ \A y \in Fd : d.fd[y] # c.fd[y] =>
             n = 0 /\ c.transwindow > 0 /\ (y = x \/ (c.kind = "pty" /\ x = "read"))
    BY <1>3, <2>1, SendDataOK DEF Midway
  <2> HIDE DEF d
  <2>3. /\ o \in [Stream -> 0 .. PipeSize]
        /\ o[x] = outs[x] - n /\ \A y \in Stream \ {x} : o[y] = outs[y]
    BY <1>1, <2>1, BoundAssumption
  <2>4. \A y \in Stream : o[y] \in Nat /\ o[y] <= outs[y]
    BY <1>1, <2>1, <2>3, BoundAssumption
  <2>5. \A y \in Stream : d.wire[y] + o[y] = wrote[y]
    <3>1. \A y \in Stream : c.wire[y] \in Nat /\ outs[y] \in Nat /\ c.wire[y] + outs[y] = wrote[y]
      BY <1>1, BoundAssumption DEF Midway, Stream, Msg
    <3> QED BY <2>2, <2>3, <3>1
  <2>6. c.kind # "pty" /\ ~cl.gaveUp /\ ~c.posthumous
        => \A y \in Stream : d.fd[y] = "closed" => o[y] = 0 \/ (c.kind = "opening" /\ c.gone)
    <3> SUFFICES ASSUME c.kind # "pty", ~cl.gaveUp, ~c.posthumous, NEW y \in Stream, d.fd[y] = "closed"
                 PROVE  o[y] = 0 \/ (c.kind = "opening" /\ c.gone)
      OBVIOUS
    <3>1. CASE d.fd[y] = c.fd[y]
      <4>1. outs[y] = 0 \/ (c.kind = "opening" /\ c.gone)
        BY <3>1 DEF Midway
      <4> QED BY <2>4, <4>1
    <3>2. CASE d.fd[y] # c.fd[y]
      <4>1. y = x /\ outs[x] = 0
        BY <2>1, <2>2, <3>2 DEF Stream, Fd
      <4> QED BY <2>4, <4>1
    <3> QED BY <3>1, <3>2
  <2>7. d.fd["write"] = "closed" /\ d.exit = "none" /\ "write" \in held => d.used = 0
    <3>1. CASE d.fd["write"] = c.fd["write"]
      BY <2>2, <3>1 DEF Midway
    <3>2. CASE d.fd["write"] # c.fd["write"]
      <4>1. c.kind = "pty" /\ x \notin held
        <5>1. c.kind = "pty" /\ n = 0 /\ c.transwindow > 0
          BY <2>2, <3>2 DEF Stream, Fd
        <5> QED BY <1>3, <2>1, <5>1 DEF IndInv, ReadyOK
      <4>2. held = {}
        BY <2>2, <3>2, <4>1 DEF IndInv, ReadyOK, Midway, Stream, Fd
      <4> QED BY <4>2
    <3> QED BY <3>1, <3>2
  <2>8. /\ d.fd["write"] = "open" => c.fd["write"] = "open"
        /\ chan.kind \in {"unopened", "session", "connecting"} => \A y \in Stream : o[y] = 0
    BY <2>2, <2>4 DEF Midway, Fd
  <2>9. Midway(d, o, p)
    BY <2>2, <2>3, <2>5, <2>6, <2>7, <2>8 DEF Midway
  <2> QED BY <1>3, <2>9 DEF d
<1> QED BY <1>2, <1>3

(* Writing: writefd is closed only if nobody reads. *)
LEMMA WriteMid ==
  ASSUME IndInv, NEW c, NEW outs, NEW p, Midway(c, outs, p), NEW writes \in BOOLEAN,
         writes => "write" \in ready /\ c.fd["write"] = "open"
  PROVE  Midway(IF writes THEN writechannel(c, 0) ELSE c, outs, p)
<1>1. CASE ~writes
  BY <1>1
<1>2. CASE writes
  <2> DEFINE d == writechannel(c, 0)
  <2>1. c.kind \notin Early /\ inpipe \in 0 .. PipeSize
    BY <1>2 DEF IndInv, ReadyOK, TypeOK, Midway, Fd
  <2>2. /\ c.recvwindow \in Nat /\ c.recvdonelen \in Nat /\ c.used \in Nat /\ c.granted \in Nat
        /\ c.recvwindow + c.recvdonelen + c.used <= recv_window
    BY DEF Midway, ChanOK, AccountsOK, Channel
  <2>3. c.recvwindow + c.recvdonelen + c.used + 0 <= recv_window
    BY <2>2, WindowAssumption
  <2>4. /\ ChanOK(d) /\ SameButBuffer(c, d)
        /\ d.granted - c.granted = d.recvwindow - c.recvwindow
        /\ d.granted >= c.granted
        /\ \A x \in Fd : d.fd[x] \in {c.fd[x], "closed"}
        /\ \A x \in Stream : c.kind # "pty" => d.fd[x] = c.fd[x]
        /\ d.fd["write"] = "closed" => "write" \notin held
    BY <1>2, <2>1, <2>3, WriteOK DEF Midway
  <2>5. d.granted \in Nat /\ d.recvwindow \in Nat /\ cl.sent \in Nat /\ cl.flight \in Nat
    BY <2>4 DEF ChanOK, Channel, IndInv, TypeOK, Client
  <2> HIDE DEF d
  <2>6. d.fd["write"] = "open" => recv_window + d.granted + cl.flight <= d.recvwindow + cl.sent
    BY <1>2, <2>2, <2>4, <2>5, WindowAssumption DEF Midway
  <2>7. cl.sent <= recv_window + d.granted
    BY <2>2, <2>4, <2>5, WindowAssumption DEF Midway
  <2>8. Midway(d, outs, p)
    BY <2>4, <2>6, <2>7 DEF Midway, SameButBuffer
  <2> QED BY <1>2, <2>8 DEF d
<1> QED BY <1>1, <1>2

(* The end of the iteration. *)
LEMMA CheckMid ==
  ASSUME IndInv, NEW c, NEW checks \in BOOLEAN, NEW p \in {"none", "running", "zombie", "reaped"},
         Midway(c, out', p), checks => Ripe(c), prog' = p,
         p = prog \/ (prog = "zombie" /\ p = "reaped"),
         chan' = IF checks THEN check_close(c, out') ELSE c,
         pc' = "select", ready' = {}, inpipe' \in 0 .. PipeSize,
         UNCHANGED <<held, sigpipe, cl, wrote, due>>
  PROVE  IndInv'
<1> DEFINE d == IF checks THEN check_close(c, out') ELSE c
<1>1. out' \in [Stream -> 0 .. PipeSize] /\ out' \in [Stream -> Nat]
  BY BoundAssumption DEF Midway
<1>2. ChanOK(d) /\ Closing(c, d, out')
  <2>1. CASE checks
    BY <1>1, <2>1, CheckCloseOK DEF Midway
  <2>2. CASE ~checks
    BY <2>2 DEF Midway, Closing
  <2> QED BY <2>1, <2>2
<1>3. d \in Channel /\ d.fd \in [Fd -> FdState] /\ c.fd \in [Fd -> FdState]
  BY <1>2 DEF ChanOK, Channel, Midway
<1>4. chan' = d
  OBVIOUS
<1> HIDE DEF d
<1>5. TypeOK'
  BY <1>1, <1>3, <1>4 DEF IndInv, TypeOK
<1>6. ClientOK'
  BY <1>2, <1>3, <1>4 DEF IndInv, ClientOK, Midway, Closing, Fd
<1>7. ProgOK'
  BY <1>2, <1>4 DEF IndInv, ProgOK, Midway, Closing
<1>8. ReadyOK'
  BY <1>2, <1>4 DEF IndInv, ReadyOK, Midway, Closing
<1>9. BytesOK'
  <2>1. ASSUME chan.kind # "pty", ~cl.gaveUp, ~chan.posthumous, NEW x \in Stream, d.fd[x] = "closed"
        PROVE  out'[x] = 0 \/ (d.kind = "opening" /\ d.gone)
    <3>1. CASE checks
      <4>1. ~(c.recv_close /\ ~c.sent_close)
        BY <2>1 DEF IndInv, ClientOK, Midway
      <4>2. c.fd[x] \in {"closed", "uninit"} \/ out'[x] = 0
        BY <1>2, <2>1, <4>1 DEF Closing, Midway
      <4>3. c.fd[x] = "uninit" => c.kind \in {"unopened", "session", "connecting"}
        BY DEF Midway, ChanOK, FdsOK, Stream
      <4>4. ~c.gone
        BY <3>1 DEF Ripe
      <4> QED BY <2>1, <4>2, <4>3, <4>4 DEF Midway
    <3>2. CASE ~checks
      BY <2>1, <3>2 DEF Midway, d
    <3> QED BY <3>1, <3>2
  <2>2. /\ d.kind = chan.kind /\ d.posthumous = chan.posthumous
        /\ \A x \in Stream : d.wire[x] + out'[x] = wrote[x]
        /\ d.kind \in {"unopened", "session", "connecting"} => \A x \in Stream : out'[x] = 0
    BY <1>2 DEF Midway, Closing
  <2> QED BY <1>4, <2>1, <2>2 DEF IndInv, BytesOK
<1>10. InputComplete'
  <2>1. c.fd["write"] = "uninit" => c.used = 0
    BY DEF Midway, ChanOK, FdsOK, AccountsOK, Early
  <2> QED BY <1>2, <1>4, <2>1 DEF InputComplete, Midway, Closing
<1> QED BY <1>2, <1>4, <1>5, <1>6, <1>7, <1>8, <1>9, <1>10 DEF IndInv
(* channelio(), from the reaped child to check_close(). *)
LEMMA ChannelIoInv ==
  ASSUME IndInv, NEW how \in {"status", "unnamed"}, NEW nr \in 0 .. PipeSize,
         NEW ne \in 0 .. PipeSize, channelio(how, nr, ne)
  PROVE  IndInv'
<1> DEFINE reaped == "signal" \in ready /\ prog = "zombie"
           p == IF reaped THEN "reaped" ELSE prog
           c1 == IF reaped /\ ~chan.gone THEN [chan EXCEPT !.exit = how] ELSE chan
           rd == "read" \in ready /\ c1.fd["read"] = "open"
           c2 == IF rd THEN send_msg_channel_data(c1, "read", nr) ELSE c1
           o1 == [out EXCEPT !["read"] = @ - nr]
           er == "err" \in ready /\ c2.fd["err"] = "open"
           c3 == IF er THEN send_msg_channel_data(c2, "err", ne) ELSE c2
           o2 == [o1 EXCEPT !["err"] = @ - ne]
           wr == "write" \in ready /\ c3.fd["write"] = "open"
           c4 == IF wr THEN writechannel(c3, 0) ELSE c3
           checks == chan.kind # "unopened" /\ ~chan.gone /\ (rd \/ er \/ wr \/ "signal" \in ready)
<1>0. out \in [Stream -> 0 .. PipeSize] /\ inpipe \in 0 .. PipeSize
      /\ prog \in {"none", "running", "zombie", "reaped"} /\ nr \in Nat /\ ne \in Nat
      /\ "read" \in Stream /\ "err" \in Stream
  BY BoundAssumption DEF IndInv, TypeOK, Stream
<1>1. /\ ~ReadsAfterClose
      /\ IF rd THEN CanRead(c1, "read", nr) ELSE nr = 0
      /\ IF er THEN CanRead(c2, "err", ne) ELSE ne = 0
      /\ chan' = IF checks
                 THEN check_close(c4, [out EXCEPT !["read"] = @ - nr, !["err"] = @ - ne])
                 ELSE c4
      /\ out' = [out EXCEPT !["read"] = @ - nr, !["err"] = @ - ne]
      /\ inpipe' = IF wr /\ "write" \in held THEN inpipe + Written(c3, 0) ELSE inpipe
      /\ prog' = p /\ pc' = "select" /\ ready' = {}
      /\ UNCHANGED <<held, sigpipe, cl, wrote, due>>
  BY DEF channelio
<1>2. out' = o2
  BY <1>0, <1>1
<1>3. Midway(c1, out, p) /\ (rd => ~c1.posthumous)
  <2>1. Midway(c1, out, p)
    BY ReapMid
  <2>2. c1.fd = chan.fd
    BY DEF IndInv, TypeOK, Channel
  <2>3. rd => ~chan.posthumous
    BY <1>0, <1>1, <2>2 DEF ReadsAfterClose, IndInv, ChanOK, PostOK
  <2> QED BY <2>1, <2>3 DEF Midway
<1>3a. ASSUME chan.posthumous PROVE "err" \notin ready \/ chan.fd["err"] # "open"
  BY <1>0, <1>1, <1>3a DEF ReadsAfterClose, IndInv, ChanOK, PostOK
<1>3b. chan.posthumous => c2.fd = chan.fd
  <2>1. c1.fd = chan.fd
    BY DEF IndInv, TypeOK, Channel
  <2>2. chan.posthumous => ~rd
    BY <1>3 DEF Midway
  <2> QED BY <2>1, <2>2
<1> HIDE DEF c1, p
<1>4. Midway(c2, o1, p)
  BY <1>0, <1>1, <1>3, ReadMid
<1>4a. er => ~c2.posthumous
  BY <1>3a, <1>3b, <1>4 DEF Midway
<1>5. o1["err"] = out["err"]
  BY <1>0
<1> HIDE DEF c2, o1
<1>6. Midway(c3, o2, p)
  BY <1>0, <1>1, <1>4, <1>4a, <1>5, ReadMid
<1> HIDE DEF c3, o2
<1>7. Midway(c4, o2, p)
  BY <1>6, WriteMid
<1>8. inpipe' \in 0 .. PipeSize
  <2>1. c3.used \in Nat
    BY <1>6 DEF Midway, ChanOK, Channel
  <2>2. Written(c3, 0) \in 0 .. PipeSize - inpipe
    BY <1>0, <2>1, MinPair, BoundAssumption DEF Written
  <2> QED BY <1>0, <1>1, <2>2, BoundAssumption
<1> HIDE DEF c4
<1>9. checks => Ripe(c4)
  <2>1. "signal" \in ready => chan.kind \notin Early
    BY DEF IndInv, ProgOK, ChanOK, ExitOK, Early
  <2>2. rd \/ er \/ wr => chan.kind \notin Early
    BY DEF IndInv, ReadyOK, Fd
  <2> QED BY <1>7, <2>1, <2>2 DEF Ripe, Midway, Early, Unasked
<1>10. /\ p \in {"none", "running", "zombie", "reaped"}
       /\ (p = prog \/ (prog = "zombie" /\ p = "reaped"))
  BY <1>0 DEF p
<1>11. chan' = IF checks THEN check_close(c4, out') ELSE c4
  BY <1>1
<1> HIDE DEF checks
<1>12. checks \in BOOLEAN
  BY DEF checks
<1> QED BY <1>1, <1>2, <1>7, <1>8, <1>9, <1>10, <1>11, <1>12, CheckMid

(* The assertion fails only for a command that began after the CLOSE. *)
LEMMA AssertionInv ==
  ASSUME IndInv, AssertionFails
  PROVE  IndInv'
<1>1. /\ UNCHANGED <<chan, ready, prog, held, inpipe, out, wrote, due, sigpipe, cl>>
      /\ pc' = "exited" /\ ReadsAfterClose
  BY DEF AssertionFails, kernel
<1>2. chan.posthumous
  BY <1>1 DEF ReadsAfterClose, IndInv, ChanOK, SentOK, Closed, Stream, Fd
<1>3. ReadyOK'
  BY <1>1, <1>2 DEF IndInv, ReadyOK, ReadsAfterClose
<1> QED BY <1>1, <1>3 DEF IndInv, TypeOK, ClientOK, ProgOK, BytesOK, InputComplete

-----------------------------------------------------------------------------
(* The invariant is inductive. *)

(* Every step of the specification preserves the invariant. *)
LEMMA NextInv == IndInv /\ [Next]_vars => IndInv'
<1> SUFFICES ASSUME IndInv, [Next]_vars PROVE IndInv'
  OBVIOUS
<1>1. CASE Loop
  <2>1. CASE \E sock, conn \in BOOLEAN : Select(sock, conn)
    BY <2>1, SelectInv
  <2>2. CASE \E n \in 1 .. cl.flight : recv_msg_channel_data(n)
    BY <2>2, DataInv
  <2>3. CASE \E kind \in {"pipe", "pty"} : sessioncommand(kind)
    BY <2>3, CommandInv
  <2>4. CASE \E ok \in BOOLEAN : channel_connect_done(ok) \/ recv_msg_channel_open_reply(ok)
    BY <2>4, ConnectInv, ReplyInv
  <2>5. CASE ChannelIo
    BY <2>5, ChannelIoInv DEF ChannelIo
  <2> QED BY <1>1, <2>1, <2>2, <2>3, <2>4, <2>5, NoPacketInv, EofInv, CloseInv, AdjustInv,
            AssertionInv DEF Loop
<1>2. CASE World
  <2>1. CASE \E x \in Stream : ProgWrite(x)
    BY <2>1, ProgWriteInv
  <2>2. CASE \E ends \in {{x} : x \in held} \cup {held} : ProgClose(ends)
    BY <2>2, ProgCloseInv
  <2>3. CASE \E keep \in SUBSET held : ProgExit(keep)
    BY <2>3, ProgExitInv
  <2> QED BY <1>2, <2>1, <2>2, <2>3, OpenInv, ClientInv, ProgReadInv DEF World
<1>3. CASE UNCHANGED vars
  BY <1>3 DEF vars, IndInv, TypeOK, ClientOK, ProgOK, ReadyOK, ReadsAfterClose, BytesOK,
     InputComplete
<1> QED BY <1>1, <1>2, <1>3 DEF Next

(* The invariant holds in every reachable state. *)
LEMMA Invariance == Spec => []IndInv
BY InitInv, NextInv, PTL DEF Spec

-----------------------------------------------------------------------------
(* The theorems. *)

(* Every variable keeps its type: for one, the windows and the circular    *)
(* buffer of the channel stay within opts.recv_window, whatever its value. *)
THEOREM TypeCorrect == Spec => []TypeOK
<1>1. IndInv => TypeOK
  BY DEF IndInv
<1> QED BY <1>1, Invariance, PTL

(* For every window size the client's window is never larger than the      *)
(* server's, and the buffer has room for all of it: the assertions of      *)
(* writechannel() and common_recv_msg_channel_data() hold.                 *)
THEOREM WindowsKept == Spec => []WindowsAgree
<1>1. IndInv => WindowsAgree
  <2> SUFFICES ASSUME IndInv PROVE WindowsAgree
    OBVIOUS
  <2>1. /\ cl.flight \in Nat /\ cl.sent \in Nat /\ chan.recvwindow \in Nat /\ chan.granted \in Nat
    BY DEF IndInv, TypeOK, Client, Channel
  <2> QED BY <2>1, WindowAssumption DEF IndInv, ChanOK, AccountsOK, ClientOK, WindowsAgree
<1> QED BY <1>1, Invariance, PTL

(* A client that keeps to the protocol, whatever the order of its packets, *)
(* makes the server exit in one way only: by a request for a command after *)
(* its EOF, whose output meets the assertion of send_msg_channel_data().   *)
THEOREM NeverExits == Spec => []SessionSurvives
<1>1. IndInv => SessionSurvives
  BY DEF IndInv, ReadyOK, SessionSurvives
<1> QED BY <1>1, Invariance, PTL

(* Nothing follows CLOSE and no data follows EOF, and each of them is sent *)
(* at most once, in any order of exit, end of file and close.              *)
THEOREM NothingLate == Spec => []WellOrdered
<1>1. IndInv => WellOrdered
  <2> SUFFICES ASSUME IndInv PROVE WellOrdered
    OBVIOUS
  <2>1. chan.wire["eof"] \in Nat /\ chan.wire["close"] \in Nat
    BY DEF IndInv, TypeOK, Channel, Msg
  <2> QED BY <2>1 DEF IndInv, ChanOK, SentOK, WellOrdered
<1> QED BY <1>1, Invariance, PTL

(* The CLOSE of a command's channel comes with the exit status, unless the *)
(* command was ended by a signal without a name or began after the CLOSE.  *)
THEOREM ExitIsReported == Spec => []ExitReported
<1>1. IndInv => ExitReported
  BY DEF IndInv, ChanOK, SentOK, ExitOK, ExitReported
<1> QED BY <1>1, Invariance, PTL

(* All that a command or TCP peer wrote before it ended or closed the      *)
(* stream is sent before the CLOSE, unless the client closed first.  A pty *)
(* is excepted, see FlushingDrains, and a command that began after the     *)
(* CLOSE.                                                                  *)
THEOREM OutputArrives == Spec => []OutputComplete
<1>1. IndInv => OutputComplete
  <2> SUFFICES ASSUME IndInv, chan.wire["close"] > 0, ~cl.gaveUp, chan.kind # "pty",
                      ~chan.posthumous, NEW x \in Stream
               PROVE  chan.wire[x] >= due[x]
    BY DEF OutputComplete
  <2>1. chan.fd[x] = "closed" /\ chan.sent_eof
    BY DEF IndInv, ChanOK, SentOK, Closed, Stream, Fd
  <2>2. chan.kind # "opening"
    BY <2>1 DEF IndInv, ChanOK, FdsOK, ClientOK, Early, Unasked
  <2>3. out[x] = 0 /\ chan.wire[x] + out[x] = wrote[x] /\ due[x] <= wrote[x]
    BY <2>1, <2>2 DEF IndInv, BytesOK
  <2>4. chan.wire[x] \in Nat /\ due[x] \in Nat
    BY DEF IndInv, TypeOK, Channel, Stream, Msg
  <2> QED BY <2>3, <2>4
<1> QED BY <1>1, Invariance, PTL

(* While the command runs, the way in is closed only when all input        *)
(* buffered for it has been written.                                       *)
THEOREM InputArrives == Spec => []InputComplete
<1>1. IndInv => InputComplete
  BY DEF IndInv
<1> QED BY <1>1, Invariance, PTL
=============================================================================
