------------------------------- MODULE Channel -------------------------------
(***************************************************************************)
(* One channel of a dropbear session (common-channel.c, svr-chansession.c) *)
(* with the program or TCP peer behind it and the client: the loop of      *)
(* session_loop(), window accounting, end of file, program exit and the    *)
(* close handshake.                                                        *)
(*                                                                         *)
(* Data are counted, not named.  wire counts what was sent to the client   *)
(* of each kind and late records a message sent after one that should have *)
(* been the last; when the client takes notice is up to the client.  The   *)
(* windows are totals: granted by the server, adjusted by the client.  A   *)
(* client sends data, then at most one EOF, then at most one CLOSE, so its *)
(* side of the wire is a count and two flags; it asks for its command      *)
(* before or after the EOF.  Replies to requests are left out, and the     *)
(* transport takes every packet (KeyExchange is about when it does).       *)
(***************************************************************************)
EXTENDS Naturals, FiniteSetsExt

CONSTANTS recv_window,           \* opts.recv_window, option -W
          TransWindow,           \* the window the client grants
          PipeSize,              \* bytes a pipe or socket buffer holds
          MaxBytes               \* bound: bytes sent and written, both ways

ASSUME WindowAssumption == recv_window \in Nat \ {0} /\ TransWindow \in Nat
ASSUME BoundAssumption == PipeSize \in Nat /\ MaxBytes \in Nat

RECV_WINDOWEXTEND == recv_window \div 3

Fd == {"write", "read", "err"}      \* writefd, readfd, errfd
Stream == {"read", "err"}
FdState == {"uninit", "open", "closed"}
Session == {"session", "pipe", "pty"}
Kind == Session \cup {"unopened", "connecting", "opening", "tcp"}
Msg == Stream \cup {"eof", "exit", "close"}

VARIABLES chan,      \* struct Channel with its ChanSess, and what it sent
          pc, ready, \* place in session_loop(), result of select()
          prog,      \* the command: none, running, zombie, reaped
          held,      \* ends of the descriptors some process or peer holds
          inpipe,    \* bytes in the pipe to the program
          out,       \* bytes in the pipes from the program
          sigpipe,   \* SIGCHLD wrote to ses.signal_pipe
          cl,        \* the client
          wrote, due \* history: bytes written, written when the program ended

vars == <<chan, pc, ready, prog, held, inpipe, out, sigpipe, cl, wrote, due>>
kernel == <<held, inpipe, out, wrote, due>>

Channel ==
  [kind : Kind, gone : BOOLEAN, fd : [Fd -> FdState], pid : BOOLEAN,
   exit : {"none", "status", "unnamed"},
   sent_eof : BOOLEAN, recv_eof : BOOLEAN, sent_close : BOOLEAN, recv_close : BOOLEAN,
   flushing : BOOLEAN, used : 0 .. recv_window, recvwindow : 0 .. recv_window,
   recvdonelen : Nat, transwindow : Nat, granted : Nat, wire : [Msg -> Nat], late : BOOLEAN,
   posthumous : BOOLEAN]     \* history: the command began after the CLOSE

Client ==
  [sent : 0 .. MaxBytes, flight : Nat, eof : BOOLEAN, close : BOOLEAN,
   gaveUp : BOOLEAN, adjusted : Nat]

(* Every variable holds a value of its kind; the buffer and the windows of *)
(* the channel stay within opts.recv_window.                               *)
TypeOK ==
  /\ chan \in Channel
  /\ pc \in {"select", "packet", "io", "exited"}
  /\ ready \in SUBSET (Fd \cup {"sock", "conn", "signal"})
  /\ prog \in {"none", "running", "zombie", "reaped"}
  /\ held \in SUBSET Fd
  /\ inpipe \in 0 .. PipeSize
  /\ out \in [Stream -> 0 .. PipeSize]
  /\ sigpipe \in BOOLEAN
  /\ cl \in Client
  /\ wrote \in [Stream -> Nat] /\ due \in [Stream -> Nat]

-----------------------------------------------------------------------------
(* The functions of common-channel.c, as functions of the channel.         *)

(* newchannel(), before the descriptors are known. *)
newchannel(kind, fds, transwindow) ==
  [kind |-> kind, gone |-> FALSE, fd |-> fds, pid |-> FALSE, exit |-> "none",
   sent_eof |-> FALSE, recv_eof |-> FALSE, sent_close |-> FALSE, recv_close |-> FALSE,
   flushing |-> FALSE, used |-> 0, recvwindow |-> recv_window, recvdonelen |-> 0,
   transwindow |-> transwindow, granted |-> 0,
   wire |-> [m \in Msg |-> 0], late |-> FALSE, posthumous |-> FALSE]

Fds(w, r, e) == [x \in Fd |-> CASE x = "write" -> w [] x = "read" -> r [] x = "err" -> e]

(* CHECKCLEARTOWRITE() ... encrypt_packet(), of n bytes or one message. *)
Send(c, m, n) ==
  [c EXCEPT !.wire[m] = @ + n,
            !.late = @ \/ c.wire["close"] > 0 \/ (m \in Stream /\ c.wire["eof"] > 0)]

(***************************************************************************)
(* close_chan_fd(): a socket is shut down in one direction; a pty master   *)
(* is one descriptor for both, so closing it for one closes it for both,   *)
(* and so is FD_UNINIT.                                                    *)
(***************************************************************************)
close_chan_fd(c, x) ==
  LET both == /\ x # "err"
              /\ c.kind = "pty" \/ c.fd[x] = "uninit"
  IN [c EXCEPT !.fd = [y \in Fd |-> IF y = x \/ (both /\ y # "err") THEN "closed" ELSE @[y]]]

send_msg_channel_eof(c) == [Send(c, "eof", 1) EXCEPT !.sent_eof = TRUE]

(* closechansess(): the status or the signal, unless that has no name. *)
closehandler(c) ==
  IF c.kind \in Session /\ c.exit = "status" THEN Send(c, "exit", 1) ELSE c

send_msg_channel_close(c) ==
  LET d == [Send(closehandler(c), "close", 1)
              EXCEPT !.sent_eof = TRUE, !.sent_close = TRUE]
  IN close_chan_fd(close_chan_fd(close_chan_fd(d, "read"), "err"), "write")

remove_channel(c) ==
  [c EXCEPT !.gone = TRUE, !.fd = Fds("closed", "closed", "closed")]

write_pending(c) == c.fd["write"] = "open" /\ c.used > 0

(* Mutant of sesscheckclose: the program does not have to be gone. *)
sesscheckclose_Always(c) == TRUE

sesscheckclose(c) == ~c.pid \/ c.exit # "none"

close_allowed(c) == c.kind \notin Session \/ c.sent_close \/ sesscheckclose(c)

(* fd_read_pending(): there are bytes, or the end of the file. *)
fd_read_pending(x, outs) == outs[x] > 0 \/ x \notin held

(* Mutant of Flush: closes the descriptors whatever is left in the pipes. *)
Flush_Drop(c, outs) ==
  LET f == c.flushing \/ (c.kind \in Session /\ ~c.sent_close /\ c.exit # "none")
  IN IF ~f THEN c
     ELSE close_chan_fd(close_chan_fd([c EXCEPT !.flushing = TRUE], "read"), "err")

(* Mutant of Flush: waits for the end of the file. *)
Flush_Never(c, outs) == c

(* The program has exited: close the descriptors once they are drained. *)
Flush(c, outs) ==
  LET f == c.flushing \/ (c.kind \in Session /\ ~c.sent_close /\ c.exit # "none")
      d == [c EXCEPT !.flushing = f]
      e == IF f /\ d.fd["read"] = "open" /\ ~fd_read_pending("read", outs)
           THEN close_chan_fd(d, "read") ELSE d
  IN IF f /\ e.fd["err"] = "open" /\ ~fd_read_pending("err", outs)
     THEN close_chan_fd(e, "err") ELSE e

(* Mutant of CloseWrite: an EOF closes stdin with input still buffered. *)
CloseWrite_Early(c) ==
  IF \/ c.recv_eof
     \/ c.fd["write"] # "uninit" /\ c.kind \in Session /\ close_allowed(c)
  THEN close_chan_fd(c, "write") ELSE c

CloseWrite(c) ==
  IF \/ c.recv_eof /\ ~write_pending(c)
     \/ c.fd["write"] # "uninit" /\ c.kind \in Session /\ close_allowed(c)
  THEN close_chan_fd(c, "write") ELSE c

NoMoreOutput(c) == c.fd["read"] = "closed" /\ c.fd["err"] = "closed"

SendEof(c) == IF ~c.sent_eof /\ NoMoreOutput(c) THEN send_msg_channel_eof(c) ELSE c

(* Mutant of SendClose: sends another one. *)
SendClose_Again(c) ==
  IF NoMoreOutput(c) /\ c.fd["write"] = "closed" /\ close_allowed(c)
  THEN send_msg_channel_close(c) ELSE c

SendClose(c) ==
  IF NoMoreOutput(c) /\ c.fd["write"] = "closed" /\ ~c.sent_close /\ close_allowed(c)
  THEN send_msg_channel_close(c) ELSE c

(* Mutant of check_close: removes the channel when its own CLOSE is sent. *)
check_close_OneSided(c, outs) ==
  LET d == SendClose(SendEof(CloseWrite(Flush(c, outs))))
  IN IF d.sent_close THEN remove_channel(d) ELSE d

(* close_allowed is decided once, before anything is sent. *)
check_close(c, outs) ==
  LET d == Flush(c, outs)
  IN IF d.recv_close /\ ~write_pending(d) /\ close_allowed(d)
     THEN remove_channel(IF d.sent_close THEN d ELSE send_msg_channel_close(d))
     ELSE SendClose(SendEof(CloseWrite(d)))

(* Bytes writev() takes of the buffer and n more. *)
Written(c, n) == Min({c.used + n, PipeSize - inpipe})

(* Mutant of WindowAdjust: forgets what it has granted. *)
WindowAdjust_NoReset(c) ==
  IF c.recvdonelen >= RECV_WINDOWEXTEND
  THEN [c EXCEPT !.granted = @ + c.recvdonelen, !.recvwindow = @ + c.recvdonelen,
                 !.late = @ \/ c.sent_close]
  ELSE c

(* Mutant of WindowAdjust: grants a whole window. *)
WindowAdjust_Full(c) ==
  IF c.recvdonelen >= RECV_WINDOWEXTEND
  THEN [c EXCEPT !.granted = @ + recv_window, !.recvwindow = @ + recv_window,
                 !.recvdonelen = 0]
  ELSE c

WindowAdjust(c) ==
  IF c.recvdonelen >= RECV_WINDOWEXTEND
  THEN [c EXCEPT !.granted = @ + c.recvdonelen, !.recvwindow = @ + c.recvdonelen,
                 !.recvdonelen = 0, !.late = @ \/ c.wire["close"] > 0]
  ELSE c

(***************************************************************************)
(* writechannel() of the buffer and n more bytes.  Without a reader the    *)
(* write fails, the descriptor is closed and the n bytes are dropped.      *)
(***************************************************************************)
writechannel(c, n) ==
  IF c.used + n = 0 THEN c
  ELSE IF "write" \notin held
  THEN WindowAdjust(close_chan_fd(c, "write"))
  ELSE WindowAdjust([c EXCEPT !.used = @ + n - Written(c, n),
                              !.recvdonelen = @ + Written(c, n)])

(***************************************************************************)
(* send_msg_channel_data(): read() finds at most n bytes that fit; none at *)
(* all is the end of the file (or EAGAIN, treated the same).               *)
(***************************************************************************)
send_msg_channel_data(c, x, n) ==
  IF c.transwindow = 0 THEN c
  ELSE IF n = 0 THEN close_chan_fd(c, x)
  ELSE [Send(c, x, n) EXCEPT !.transwindow = @ - n]

CanRead(c, x, n) ==
  n \in IF c.transwindow = 0 \/ out[x] = 0 THEN {0} ELSE 1 .. Min({out[x], c.transwindow})

-----------------------------------------------------------------------------
(* session_loop(): select, one packet, the child's exit, channelio().      *)

NoClient ==
  [sent |-> 0, flight |-> 0, eof |-> FALSE, close |-> FALSE, gaveUp |-> FALSE,
   adjusted |-> 0]

Init ==
  /\ chan = newchannel("unopened", Fds("uninit", "uninit", "closed"), 0)
  /\ pc = "select" /\ ready = {}
  /\ prog = "none" /\ held = {}
  /\ inpipe = 0 /\ out = [x \in Stream |-> 0]
  /\ sigpipe = FALSE
  /\ cl = NoClient
  /\ wrote = [x \in Stream |-> 0] /\ due = [x \in Stream |-> 0]

(* The messages that may be on their way from the client. *)
Owed == chan.wire["read"] + chan.wire["err"] - cl.adjusted
AdjustComing == Owed > 0 /\ ~cl.close
EofComing == cl.eof /\ ~chan.recv_eof
CloseComing == cl.close /\ ~chan.recv_close
RequestComing ==
  chan.kind = "session" /\ cl.flight = 0 /\ (cl.eof => chan.recv_eof) /\ ~cl.close
AnswerComing == chan.kind = "opening" /\ ~chan.gone
Coming == cl.flight > 0 \/ AdjustComing \/ EofComing \/ CloseComing

(* setchannelfds(), and which of the descriptors select() finds ready. *)
ReadyFds ==
  {x \in Stream : chan.fd[x] = "open" /\ chan.transwindow > 0 /\ fd_read_pending(x, out)}
    \cup {x \in {"write"} : write_pending(chan) /\ (inpipe < PipeSize \/ x \notin held)}

(***************************************************************************)
(* Of what the client sends a packet is complete or not yet (sock), and a  *)
(* connect() is done or not yet (conn).                                    *)
(***************************************************************************)
Select(sock, conn) ==
  /\ pc = "select"
  /\ sock => Coming \/ RequestComing \/ AnswerComing
  /\ conn => chan.kind = "connecting" /\ ~chan.gone
  /\ ready' = ReadyFds
       \cup {x \in {"sock"} : sock} \cup {x \in {"conn"} : conn} \cup {x \in {"signal"} : sigpipe}
  /\ ready' # {}
  /\ sigpipe' = FALSE
  /\ pc' = "packet"
  /\ UNCHANGED <<chan, prog, kernel, cl>>

NoPacket ==
  /\ pc = "packet"
  /\ ready \cap {"sock", "conn"} = {}
  /\ pc' = "io"
  /\ UNCHANGED <<chan, ready, prog, kernel, sigpipe, cl>>

Packet == pc = "packet" /\ "sock" \in ready /\ UNCHANGED <<ready, sigpipe>>

(* getchannel_msg() of a channel that is gone ends the session. *)
Handle(c) ==
  IF chan.gone
  THEN pc' = "exited" /\ UNCHANGED chan
  ELSE pc' = "io" /\ chan' = c

(* common_recv_msg_channel_data(), also its exits and failed assertions. *)
recv_msg_channel_data(n) ==
  /\ Packet
  /\ cl' = [cl EXCEPT !.flight = @ - n]
  /\ IF \/ chan.recv_eof
        \/ chan.fd["write"] = "open" /\ n > Min({chan.recvwindow, recv_window - chan.used})
     THEN pc' = "exited" /\ UNCHANGED <<chan, inpipe>>
     ELSE IF chan.fd["write"] # "open"
     THEN Handle(chan) /\ UNCHANGED inpipe
     ELSE /\ Handle(writechannel([chan EXCEPT !.recvwindow = @ - n], n))
          /\ inpipe' = IF "write" \in held THEN inpipe + Written(chan, n) ELSE inpipe
  /\ UNCHANGED <<prog, held, out, wrote, due>>

recv_msg_channel_eof ==
  /\ Packet
  /\ EofComing /\ cl.flight = 0
  /\ Handle(check_close([chan EXCEPT !.recv_eof = TRUE], out))
  /\ UNCHANGED <<prog, kernel, cl>>

recv_msg_channel_close ==
  /\ Packet
  /\ CloseComing /\ cl.flight = 0 /\ ~EofComing
  /\ Handle(check_close([chan EXCEPT !.recv_eof = TRUE, !.recv_close = TRUE], out))
  /\ UNCHANGED <<prog, kernel, cl>>

(* The client grants window for the data it has received. *)
recv_msg_channel_window_adjust ==
  /\ Packet
  /\ AdjustComing
  /\ Handle([chan EXCEPT !.transwindow = @ + Owed])
  /\ cl' = [cl EXCEPT !.adjusted = @ + Owed]
  /\ UNCHANGED <<prog, kernel>>

(***************************************************************************)
(* sessioncommand(): noptycommand() or ptycommand().  The child runs with  *)
(* the other ends of the descriptors.  One that fails changes nothing.     *)
(* Nobody asks whether the CLOSE is sent already, as it is to a client     *)
(* that has sent its EOF before its request.                               *)
(***************************************************************************)
sessioncommand(kind) ==
  /\ Packet
  /\ RequestComing
  /\ Handle([chan EXCEPT !.kind = kind, !.pid = TRUE, !.posthumous = chan.sent_close,
             !.fd = Fds("open", "open", IF kind = "pipe" THEN "open" ELSE "closed")])
  /\ prog' = "running"
  /\ held' = IF kind = "pipe" THEN Fd ELSE {"read", "write"}
  /\ UNCHANGED <<inpipe, out, wrote, due, cl>>

(* channel_connect_done() of a direct-tcpip channel. *)
channel_connect_done(ok) ==
  /\ pc = "packet" /\ "conn" \in ready
  /\ pc' = "io"
  /\ IF ok THEN /\ chan' = [chan EXCEPT !.kind = "tcp", !.fd = Fds("open", "open", "closed")]
                /\ held' = {"read", "write"}
     ELSE chan' = remove_channel(chan) /\ UNCHANGED held
  /\ UNCHANGED <<ready, prog, inpipe, out, sigpipe, cl, wrote, due>>

(* The client's answer to send_msg_channel_open_init(). *)
recv_msg_channel_open_reply(ok) ==
  /\ Packet
  /\ AnswerComing
  /\ Handle(IF ok THEN [chan EXCEPT !.kind = "tcp", !.transwindow = TransWindow]
            ELSE remove_channel(chan))
  /\ UNCHANGED <<prog, kernel, cl>>

ReadsAfterClose == chan.sent_close /\ \E x \in Stream \cap ready : chan.fd[x] = "open"

(***************************************************************************)
(* svr_chansess_checksignal() and channelio(): reads, then writes, then    *)
(* check_close() if there was anything to do.  To read for a channel whose *)
(* CLOSE is sent fails the assertion of send_msg_channel_data().           *)
(***************************************************************************)
channelio(how, nr, ne) ==
  LET reaped == "signal" \in ready /\ prog = "zombie"
      c1 == IF reaped /\ ~chan.gone THEN [chan EXCEPT !.exit = how] ELSE chan
      rd == "read" \in ready /\ c1.fd["read"] = "open"
      c2 == IF rd THEN send_msg_channel_data(c1, "read", nr) ELSE c1
      er == "err" \in ready /\ c2.fd["err"] = "open"
      c3 == IF er THEN send_msg_channel_data(c2, "err", ne) ELSE c2
      wr == "write" \in ready /\ c3.fd["write"] = "open"
      c4 == IF wr THEN writechannel(c3, 0) ELSE c3
      outs == [out EXCEPT !["read"] = @ - nr, !["err"] = @ - ne]
  IN /\ pc = "io"
     /\ ~ReadsAfterClose
     /\ IF rd THEN CanRead(c1, "read", nr) ELSE nr = 0
     /\ IF er THEN CanRead(c2, "err", ne) ELSE ne = 0
     /\ chan' = IF chan.kind # "unopened" /\ ~chan.gone /\ (rd \/ er \/ wr \/ "signal" \in ready)
                THEN check_close(c4, outs) ELSE c4
     /\ out' = outs
     /\ inpipe' = IF wr /\ "write" \in held THEN inpipe + Written(c3, 0) ELSE inpipe
     /\ prog' = IF reaped THEN "reaped" ELSE prog
     /\ pc' = "select" /\ ready' = {}
     /\ UNCHANGED <<held, sigpipe, cl, wrote, due>>

AssertionFails ==
  /\ pc = "io" /\ ReadsAfterClose
  /\ pc' = "exited"
  /\ UNCHANGED <<chan, ready, prog, kernel, sigpipe, cl>>

ChannelIo == \E how \in {"status", "unnamed"}, nr, ne \in 0 .. PipeSize :
               channelio(how, nr, ne)

Loop ==
  \/ \E sock, conn \in BOOLEAN : Select(sock, conn)
  \/ NoPacket
  \/ \E n \in 1 .. cl.flight : recv_msg_channel_data(n)
  \/ recv_msg_channel_eof
  \/ recv_msg_channel_close
  \/ recv_msg_channel_window_adjust
  \/ \E kind \in {"pipe", "pty"} : sessioncommand(kind)
  \/ \E ok \in BOOLEAN : channel_connect_done(ok) \/ recv_msg_channel_open_reply(ok)
  \/ ChannelIo
  \/ AssertionFails

-----------------------------------------------------------------------------
(* The channel is opened: recv_msg_channel_open() of a session or of a     *)
(* direct-tcpip channel, or send_msg_channel_open_init() for a connection  *)
(* accepted on a forwarded port.                                           *)

Open(kind, fds, transwindow, ends) ==
  /\ pc = "select" /\ chan.kind = "unopened"
  /\ chan' = newchannel(kind, fds, transwindow)
  /\ held' = ends
  /\ UNCHANGED <<pc, ready, prog, inpipe, out, sigpipe, cl, wrote, due>>

OpenSession == Open("session", Fds("uninit", "uninit", "closed"), TransWindow, {})

OpenDirect == Open("connecting", Fds("uninit", "uninit", "closed"), TransWindow, {})

send_msg_channel_open_init ==
  Open("opening", Fds("open", "open", "closed"), 0, {"read", "write"})

-----------------------------------------------------------------------------
(* The client.  What it does while the server is between two select()s     *)
(* commutes with what the server does, so it waits for the next one.       *)

ClientStep == /\ pc = "select"
              /\ chan.kind \notin {"unopened", "connecting", "opening"}
              /\ UNCHANGED <<chan, pc, ready, prog, kernel, sigpipe>>

Bytes == cl.sent + wrote["read"] + wrote["err"]

CSend(n) ==
  /\ ClientStep
  /\ cl.sent + n <= recv_window + chan.granted
  /\ Bytes + n <= MaxBytes
  /\ ~cl.eof /\ ~cl.close
  /\ cl' = [cl EXCEPT !.sent = @ + n, !.flight = @ + n]

CEof ==
  /\ ClientStep
  /\ ~cl.eof /\ ~cl.close
  /\ cl' = [cl EXCEPT !.eof = TRUE]

(* The client answers a CLOSE, or closes the channel on its own. *)
CClose ==
  /\ ClientStep
  /\ ~cl.close
  /\ cl' = [cl EXCEPT !.close = TRUE, !.gaveUp = chan.wire["close"] = 0]

-----------------------------------------------------------------------------
(* The program, the processes it has started and the TCP peer.             *)

Outside == UNCHANGED <<chan, pc, ready, cl>>

ProgRead ==
  /\ Outside
  /\ "write" \in held /\ inpipe > 0
  /\ inpipe' = inpipe - 1
  /\ UNCHANGED <<prog, held, out, sigpipe, wrote, due>>

ProgWrite(x) ==
  /\ Outside
  /\ x \in held /\ chan.fd[x] = "open"
  /\ out[x] < PipeSize /\ Bytes < MaxBytes
  /\ out' = [out EXCEPT ![x] = @ + 1]
  /\ wrote' = [wrote EXCEPT ![x] = @ + 1]
  /\ UNCHANGED <<prog, held, inpipe, sigpipe, due>>

(* All the ends of a pty are one descriptor. *)
AllOrNone(ends) == chan.kind = "pty" => ends \in {{}, held}

ProgClose(ends) ==
  /\ Outside
  /\ ends # {} /\ AllOrNone(ends)
  /\ held' = held \ ends
  /\ due' = [x \in Stream |-> IF x \in ends /\ prog \in {"none", "running"}
                              THEN wrote[x] ELSE due[x]]
  /\ UNCHANGED <<prog, inpipe, out, sigpipe, wrote>>

(***************************************************************************)
(* The command ends and SIGCHLD wakes the loop (sesssigchild_handler);     *)
(* processes it has started may hold on to the descriptors.                *)
(***************************************************************************)
ProgExit(keep) ==
  /\ Outside
  /\ prog = "running"
  /\ AllOrNone(keep)
  /\ prog' = "zombie" /\ sigpipe' = TRUE
  /\ held' = keep
  /\ due' = wrote
  /\ UNCHANGED <<inpipe, out, wrote>>

World ==
  \/ OpenSession \/ OpenDirect \/ send_msg_channel_open_init
  \/ \E n \in 1 .. MaxBytes : CSend(n)
  \/ CEof \/ CClose
  \/ ProgRead
  \/ \E x \in Stream : ProgWrite(x)
  \/ \E ends \in {{x} : x \in held} \cup {held} : ProgClose(ends)
  \/ \E keep \in SUBSET held : ProgExit(keep)

Next == Loop \/ World

Spec == Init /\ [][Next]_vars

(***************************************************************************)
(* The server wakes when there is something to do, packets do not stay     *)
(* incomplete for ever, and an iteration of the loop that has begun ends.  *)
(* A client that is there grants window and answers a close.               *)
(***************************************************************************)
Fairness ==
  /\ WF_vars(\E sock \in BOOLEAN : Select(sock, FALSE))
  /\ SF_vars(Coming /\ Select(TRUE, FALSE))
  /\ []<>(pc \in {"select", "exited"})
  /\ WF_vars(CClose /\ chan.wire["close"] > 0)

FairSpec == Spec /\ Fairness

-----------------------------------------------------------------------------
(* Properties.                                                             *)

(***************************************************************************)
(* The window the client has, with the data under way, is never more than  *)
(* the server's, and that is never more than its buffer has room for.  So  *)
(* the assertions of writechannel() and of common_recv_msg_channel_data()  *)
(* hold and no packet is "Oversized".                                      *)
(***************************************************************************)
WindowsAgree ==
  /\ chan.fd["write"] = "open"
     => recv_window + chan.granted - cl.sent + cl.flight <= chan.recvwindow
  /\ chan.recvwindow + chan.recvdonelen + chan.used <= recv_window

(* A client that keeps to the protocol never makes the server exit: not    *)
(* for the window, not for data after its EOF, and not for a message that  *)
(* meets a channel check_close() has removed.  The exception is a command  *)
(* that was asked for after the EOF, when the CLOSE was sent already: its  *)
(* output fails dropbear_assert(!channel->sent_close).                     *)
SessionSurvives == pc = "exited" => chan.posthumous /\ ReadsAfterClose

(* After CLOSE nothing is sent on the channel, and after EOF no data: not  *)
(* by the end of a program, nor by output or buffered input read late.     *)
WellOrdered == ~chan.late /\ chan.wire["eof"] <= 1 /\ chan.wire["close"] <= 1

(* A client that is told that the channel is closed is also told how the   *)
(* command ended, unless a signal without a name ended it or the command   *)
(* began after the close.                                                  *)
ExitReported ==
  chan.wire["close"] > 0 /\ chan.pid /\ ~chan.posthumous
  => chan.wire["exit"] = 1 \/ chan.exit = "unnamed"

(***************************************************************************)
(* What a command wrote before it ended, and what it or a TCP peer wrote   *)
(* before closing a stream, is all with the client when it is told of the  *)
(* close, although processes left behind keep the pipes open and the       *)
(* client's window was exhausted (FlushingDrains is about a pty, and a     *)
(* command that began after the close is heard of no more).                *)
(***************************************************************************)
OutputComplete ==
  /\ chan.wire["close"] > 0 /\ ~cl.gaveUp
  /\ chan.kind # "pty" /\ ~chan.posthumous
  => \A x \in Stream : chan.wire[x] >= due[x]

(* "once flushing is set, readfd will close once no more data is           *)
(* available": what was written to a pty before the command ended is sent  *)
(* to a client that itself sends nothing.                                  *)
FlushingDrains ==
  /\ chan.flushing /\ chan.fd["read"] = "closed"
  /\ chan.kind = "pty" /\ cl.sent = 0 /\ ~cl.eof /\ ~cl.close
  => out["read"] = 0 \/ wrote # due

(* While the command runs, or the TCP connection lasts, the server closes  *)
(* the way in only after everything the client sent has gone through it:   *)
(* neither the client's EOF nor its CLOSE overtakes buffered input.        *)
InputComplete ==
  /\ chan.fd["write"] = "closed" /\ chan.exit = "none" /\ "write" \in held
  => chan.used = 0

(* The end of the command leads to the close of the channel, whatever the  *)
(* processes it left behind hold open, unless the client has given up.     *)
ExitLeadsToClose == prog = "zombie" ~> chan.sent_close \/ cl.gaveUp
=============================================================================
