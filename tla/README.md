# TLA+ models of Sshd4a (extended)

Sshd4a is an Android application that runs the dropbear SSH server. This
directory holds TLA+ models of the parts of it that are concurrent or that a
test can hardly reach, TLC configurations for small instances, and theorems
checked by TLAPS for instances of every size.

## The system

| part | code | state | operations | hard about it |
|---|---|---|---|---|
| service | `SshdService.java`, `jni-dropbear.c` | `sInstance`, `sshdPid`, start time and duration, queue of watchdog tasks, `dropbear.pid` | `onCreate`, `onStartCommand`, `onDestroy`, `startSshd`, `stopSshd`, watchdog task | two threads, a lock held in pieces, processes that outlive the app, signals that take time |
| listener | `dropbear/src/svr-main.c` | `childpipes[]`, `preauth_addrs[]`, `ses.exitflag` | bind, write pid file, select loop, accept, refuse, fork, signal handlers | slots lag behind the sessions, signals race with `select()` |
| authentication | `svr-auth.c`, `svr-authpasswd.c`, `svr-authpubkey.c`, `fill_passwd()`, `sshd4a_*` of `jni-dropbear.c` | `ses.authstate` of one session | none, password and publickey requests | order of requests chosen by the client, two counters, a users file that changes meanwhile |
| users file | `SshdSettings.java`, `UserPassStorage.java`, `SettingsFragment.java`, `sshd4a_find_user()` | `authorized_users`, three credential stores of the settings screen | read, change one role, rewrite in place, edit by hand | no lock, no atomic replacement, two parsers |
| main screen, intents | `MainFragment`, `MainActivity`, `ServiceViewModel` | `startMode`, what is shown, log pollers and their cancel flag | start, stop, poll `dropbear.err`, react to broadcasts and intents | requests take effect later than `isRunning()` is asked; rotation; one executor for all view models |
| tile, boot receiver | `SshdTileService`, `BootReceiver` | tile state | start, stop | they act on `isRunning()` |
| channels | `common-channel.c`, `svr-chansession.c`, `session_loop()` | windows, buffers, descriptors, EOF and close flags of a channel | open, data, EOF, close, window adjust, child exit | two closing handshakes (EOF, CLOSE), a child's exit and left-over processes, all in any order |
| key exchange | `common-kex.c`, `svr-kex.c`, `cli-kex.c`, `packet.c`, `process-packet.c` | kex state, keys, sequence numbers, reply queue | KEXINIT, first guess, NEWKEYS, rekey | both sides may begin; packets of the old keys are still under way |
| settings | `settings/*`, `PrefsLib` | preferences, `authorized_keys` | edit, import, delete | imports run on threads of their own |
| provisioning | `RootProvisioner`, `assets/pkg`, `assets/sshd4a` | files under `/data/local/tmp/Sshd4a` | create directories, install packages | several shells and threads at once |
| exec intent | `ExecReceiver` | none | check, run | none: a sequence of guards |
| vendored | rsync, sftp-server, libtomcrypt, libtommath, dropbear's forwarding of X11, agents and listeners | | | not this repository's logic |

Interactions: the service forks the listener through JNI (`start_sshd`) and
knows it by its pid; the listener tells a later service object its pid through
`dropbear.pid`; the listener forks one process per connection and hears of it
through a pipe and SIGCHLD; a session process reads the users file that the
settings screen writes; the service tells the main screen with a local
broadcast that it should read `isRunning()` again.

What makes each part correct:

* service: every child is waited for; the stored pid is one that is being
  watched; a stop reaches every dropbear; a new service object kills what an
  earlier app process left; the screen shows what `isRunning()` answers.
* listener: both limits on unauthenticated clients hold exactly; slots come
  back; a termination signal ends the loop.
* authentication: no required method is skipped; the role belongs to the
  credential; failures and key queries are bounded.
* users file: a save changes one role only, by the table in the comment of
  `writeAuthorizedUser()`; what is cleared on the screen no longer logs in; the
  app and dropbear read the same credentials.
* main screen: while a running service is shown its log is followed; closing
  the screen stops only what the user started.
* channels: both ends agree on the windows; nothing follows a CLOSE; all output
  and the exit status come before it; and it comes.
* key exchange: no order of events makes a party give up; the stream of packets
  above it is unbroken; every exchange ends.

The hazards behind these, each at its line, are in `PROJECT.json`.

## Modules

`SshdService` — the service with its two threads (main looper, watchdog
executor), the requests to Android, the death of the app process, and the
dropbear processes as far as the service depends on them. A block synchronized
on `lock` is one step. `startSshd()` is four steps (`startSshd`, `Fork`,
`Publish`, `Enqueue`) that both threads take, since it is not synchronized as a
whole. A watchdog task is `WatchdogBegin` (first block), `WatchdogWaitpid`,
`WatchdogDecide` (second block) and `WatchdogRestart`. The processes bind
(`Listen`), truncate and write the pid file (`OpenPidFile`, `WritePidFile`),
and end (`Terminated`, `Crash`, `KillTaken`). `raced` is a history variable: it
becomes true when a watchdog restart is between its `stopSshd()` and the store
of the new pid while a callback of the main looper runs `stopSshd()`, or the
other way round, and false with a new app process. `runTime` is only read by
`GiveUpWhenTooFast`.

`DropbearMain` — the select loop. `EnterSelect`, then one of
`TerminatedBySignal`, `Interrupted`, `SelectReturns`; after that every reported
socket is handled in order by `AcceptFails`, `Refuse` or `Serve`. Sessions
authenticate or exit at any time. `Refuse` is also allowed below the limits
because `pipe()` and `fork()` may fail there.

`Admission` — what the listener promises: a client is admitted only below both
limits. `DropbearMain` implements it (`ImplementsAdmission`), mapping every
unauthenticated session to its address.

`DropbearAuth` — one session. Every request is an action per outcome; whether a
password or signature is right is left open, so both outcomes are always
possible. `offered`, `passed`, `pwRole` and `edited` are history variables. The
constants are the options `-T`, `-t` and the single-use password switch.

`AuthorizedUsers` — the users file as its lines, the settings screen with one
store per role, and dropbear's reading of the file. A save is
`handleOnBackPressed`, then for each role either `StoreNothing` or `Truncate`
and `writeAllAuthorizedUsers`, ended by `Stored` or, at any of these points, by
`StoreFails` or `Kill`. A line keeps the form in which its name was typed: plain,
with a colon and more behind it (`tail`), or with a colon in front of it or right
behind it (`hidden`, `hiddenTail`), because the app's `split(":", 3)` and
dropbear's `strtok_r()` read such lines differently: the app skips the last two
for their empty field, dropbear merges the colons. After an error the screen is
also closed two seconds later (`DelayedPop`). `ok` is a history variable.

`Credentials` — what saving promises: each role's entry changes by its row of
the table, nothing of what is being saved changes meanwhile, and all entries are
lost only when a save ends after the truncation, by an error or a kill.
`AuthorizedUsers` implements it (`ImplementsCredentials`): the entry of a role
is that of the map being written, else that of the file.

`ServiceControl` — everybody who starts and stops the service, over a service
reduced to what `isRunning()` answers: the activity's life (`Launch`,
`onCreate`, `onResume`, `onPause`, `onDestroy`, `Rotate`), intents
(`handeIntentAction`), the start button (`onMenu`), the tile (`onClick`), boot
(`onReceive`), delivery of the requests (`HandleRequest`), a dropbear that dies
(`SshdDies`, `WatchdogActs`) and the pollers of the shared executor. `others`,
`overwritten`, `elsewhere`, `sticky` and `strayed` are history variables that
name the exceptions of the properties.

`Channel` — one channel of a server session, with the client and the program or
TCP peer behind it. A client may send its request for a command at any time
before its CLOSE, also after its EOF. The functions of `common-channel.c` are operators on the
channel's record; `Select`, the packet handlers (`recv_msg_channel_*`,
`sessioncommand`, ...) and `channelio` are the parts of one iteration of
`session_loop()`, and `AssertionFails` is the one that ends in the assertion of
`send_msg_channel_data()`. `wrote`, `due` and `posthumous` (the command was begun
after the CLOSE) are history variables.

`KeyExchange` — a dropbear client and a dropbear server; the functions of
`common-kex.c`, `packet.c` and `process-packet.c` are operators on a session's
record. `Receive` is an iteration that reads a packet (`process_packet`,
`maybe_flush_reply_queue`, `loophandler`), `checktimeouts` one that begins a
rekey. A queue over `MAX_DEFER_REPLY_QUEUE` and a packet that is not allowed make
a party exit; an allowed one that nothing is ready for is answered with
UNIMPLEMENTED, which takes a sequence number (`recv_unimplemented`). Between two
dropbears none of these is reached, and `NobodyExits` is what says so.

`AppStream` — what the transport promises: packets of the layers above come out
once and in order. `KeyExchange` implements it (`ImplementsStream`): what is
under way is what is on the wire and what waits in the reply queue.

`MCSshdService` — symmetry sets for TLC. `*Proofs` — theorems.

Definitions named `X_Something` and commented "Mutant of X" are wrong variants
of `X`, used to confirm that a property can fail; no specification refers to
them.

### Abstractions

* Pids are not handed out again while the watchdog is between `waitpid()` and
  its second block (the kernel allocates them cyclically). Pids of processes of
  other applications are not in the model.
* There is one port. A dropbear that finds it taken exits, as with the app's
  single `-p`. A pid file that cannot be opened or written in full is left out.
* Times are three classes: below 10 000 ns, below 10 s, and more.
* Preferences, notification, arguments and log lines are left out.
* In `DropbearAuth` the users file is a function from user to role; the hash on
  a line is part of "right or wrong password". A name too long for dropbear is
  one value.
* Build: `DROPBEAR_SVR_PASSWORD_AUTH 0` and `SSHD4A_EXTEND_AUTHENTICATION`
  (`localoptions.h`), so password requests take the app's branch.
* `AuthorizedUsers`: a hash stands for its password; a hand edit adds a line of
  any form the screen can make, and does not fall into a save. Names differ in
  the four forms above; what follows a colon is no hash. `OddName` is the set of
  names that are also typed with colons. When the delayed `popBackStack()` finds
  the screen closed by then it throws, which is `Kill`.
* `ServiceControl`: the service object, its watchdog and the processes are one
  Boolean and the interval in which the watchdog has cleared the pid
  (`SshdService` has the details). Intents are those the preference allows; with
  it off they are `MAIN`. `Rotate` is a rotation with the main screen or the
  settings in front; a `startForegroundService()` that is refused at boot throws,
  which ends the process.
* `Channel`: data are counted. The client acts between two `select()`s, which
  commutes with what the server does in an iteration. Replies to requests are
  left out, and the transport takes every packet. With `recv_window` 2 a grant
  is due after any write (`RECV_WINDOWEXTEND` is 0), so holding a grant back is
  not exercised by the run; the same properties hold with `recv_window` 6 (1.0
  million states).
* `KeyExchange`: a key is named by the client's Diffie-Hellman value; both
  parties judge the guess alike, as the comparison of both lists is symmetric.
  `recvfirstnewkeys` is "has a key to receive with". `QueueAssumption` keeps the
  traffic of the layers above within the reply queue, of which the code says
  "This limit should never be reached by a normal peer"; the run is at its
  boundary (`MaxData = MAX_DEFER_REPLY_QUEUE + 1`, as the test is a `>`). Types
  the parties never send (IGNORE, DEBUG, service requests) are left out.

## Runs

| run | question | instance |
|---|---|---|
| `service` | safety of the service | 2 pids, 2 objects, 3 queued callbacks, symmetry; 1.4 million states |
| `service_live` | stop stops, death is noticed | 2 pids, 1 object, 2 callbacks |
| `service_give_up` | "If restarting sshd twice within 10 seconds, give up" | violated |
| `service_serving` | `isRunning()`: "Check if the native process is running" | violated |
| `service_sticky` | "If we get killed [...] restart" | violated |
| `listener` | limits, slots, refinement of `Admission`, slots come back, SIGTERM | 2 slots, 1 per address, 3 addresses, 3 sessions, 1 socket; 101 thousand states |
| `auth` | request sequences | 2 users, 2 tries, 3 queries, both methods required |
| `channel` | windows, order, completeness, close | window 2 in and 1 out, pipes of 1 byte, 3 bytes in all; 1.0 million states |
| `channel_pty` | "once flushing is set, readfd will close once no more data is available" | violated |
| `kex` | key changes under load, refinement of `AppStream` | 3 exchanges, 2 packets each way, a queue limit of 1; 34 thousand states |
| `users` | saves, errors, hand edits, refinement of `Credentials` | 2 names, 1 hash, of which one also with colons, 4 fields typed, 1 line by hand; 793 thousand states |
| `control` | who starts, stops and follows the service | 2 view models, 2 requests, 2 pollers; 708 thousand states |

Why the bounds suffice. Two pids allow a dropbear that is being killed beside a
new one, and a reused pid; two objects a destroyed service whose watchdog task
is still queued. Three callbacks allow destroy, create and start to wait
together. Two slots and one per address let either limit be the one that
refuses, and three sessions let one stay authenticated while all slots are
taken. With 3 queries and 2 tries one query is free and the next ones count. A
client window of 1 and pipes of 1 byte are used up by one byte, so that output
has to wait in the pipe and input in the buffer; three bytes allow data in both
directions around an exhausted window. Three exchanges follow a good guess by a
wrong one and the other way round, and two packets each way show an order. Four
typed fields change two roles' names and passwords in one or two saves. Two view
models allow a poller of a closed screen beside that of the new one.
`MaxLooper`, `MaxBacklog`, `MaxBytes`, `MaxKex`, `MaxData`, `MaxTyped`,
`MaxHandEdits`, `MaxRequests` and `MaxTasks` are bounds in the guards; nothing
else is cut off. The listener never stops by itself, but the models allow it to
have nothing to do (no client, no request), so deadlock is not checked.

Fairness. `service_live`: the looper, the executor thread, Android's
re-creation of a sticky service, the start-up of a process and the effect of
SIGKILL are weakly fair, since each is run by a scheduler that does not starve
it; user requests, crashes and app kills are not. `service_sticky` adds strong
fairness for the looper, so that Android does not kill the app before each
callback: the counterexample is then due to the pid file alone.
`listener`: the loop is weakly fair, and so is the end of every session
that has not authenticated, because of `AUTH_TIMEOUT`; a login may last for
ever. `channel`: `select()` returns when something is ready, and, again and
again, with a complete packet when one is on its way (strong fairness: other
descriptors do not keep the socket from being read); an iteration that has begun
ends; a client answers a CLOSE. Neither the program nor the client's own EOF or
close is fair. `kex`: what is on the wire is read. `control`: the executor's
thread goes on; nothing the user or Android does is fair.

### What the violated runs show

* `service_give_up`: the duration is counted in nanoseconds and compared with
  10 000, and `currentTimeMillis() - nanoTime()` mixes clocks, so a dropbear
  that keeps dying within milliseconds is restarted for ever.
* `service_serving`: the watchdog restarts outside the lock. `onDestroy()`
  before the new pid is stored leaves a dropbear that serves although the
  service is gone; `onStartCommand()` at that point leaves two processes of
  which one is recorded.
* `service_sticky`: a dropbear killed between `fopen("w")` and `fprintf()`
  leaves an empty pid file; `readPidFile()` then throws a
  `NumberFormatException`, in this and in every later `onCreate()`.
* `channel_pty`: a command on a pty ends while its last output cannot be sent
  because the client's window is used up. `check_close()` keeps the descriptor
  for reading, then closes the way in because the child has exited; on a pty
  both are one descriptor, so the output is gone. `OutputComplete` shows that
  pipes and sockets do not lose any.

Divergences that the passing properties name as exceptions, rather than runs of
their own:

* `SessionSurvives` (`posthumous`): a client sends EOF on a session without a
  command, and `check_close()` answers with EOF and CLOSE. A shell or exec
  request that comes after that is still run, since neither
  `recv_msg_channel_request()` nor `sessioncommand()` looks at `sent_close`, as
  the answers to it do. The first output of the command then meets
  `dropbear_assert(!channel->sent_close)` (`common-channel.c:706`), and the
  process of the session exits (`AssertionFails`). Exit status and output of such
  a command go nowhere, which `ExitReported` and `OutputComplete` leave out.
  Nothing else makes the session exit.
* `DestroyKeepsOthers` (`overwritten`): a START intent and the `onResume()` of the
  same launch both start the service, the latter as the user's
  (start-on-app-start). The mode that is left is the user's, so that closing or
  rotating the screen stops what the intent asked for, against the "NEVER STOP"
  of `MainFragment.java:394`.
* `LogFollowed` (`elsewhere`): a service the tile starts while the main screen is
  in front is not followed.
* `PollerRuns` (`strayed`): a poller started by an intent while the settings are
  in front is cancelled by nobody and holds the shared executor.
* `ReadersAgree` (`NothingHidden`): a name typed with a colon in front of it or
  right behind it makes a line only dropbear sees. A later save that has nothing
  to write keeps such a line with its login, although the screen shows another
  name (`FoundHidden` in `OnlyShownLogsIn`).

In `DropbearAuth` failures are counted and then compared with `>`: with `-T n` the
session ends at failed attempt n + 1, while `dropbear.8:118` speaks of "the number
of authentication attempts allowed per connection". No property states that
number for a session that has ended; `QueriesBounded` states it for one that goes
on.

`OwnedUnlessRaced`, `StopStops` and `WatchdogNotices` say how far the service is
correct all the same: the overlap is the only way to a lost dropbear.

## Proofs

All theorems hold for every value of the constants that satisfies the named
assumptions (special values are outside their sets, limits are natural numbers,
and for `KeyExchange` the packets that wait fit into the reply queue).

`SshdServiceProofs`: `TypeCorrect`, `EveryChildWatched`, `EveryRecordWatched`,
`ServerInPidFile`, `OrphansNeedOverlap`, `ScreenAgrees`, `CreateKills`. None of
the properties is inductive alone. `IndInv` adds `LooperOK` (callbacks alternate
between create and destroy, so `onStartCommand()` finds an object), `ThreadOK`
(a thread inside `startSshd()` knows its object and pid), `ProcOK` (signals and
orphans are live, one process holds the port, the process the watchdog has
waited for is gone) and `NoOverlapOK` (without an overlap at most one thread is
between stop and store, and it works on the current object).
`PidFileNamesServer` rests on one holder of the port: dropbear binds before it
opens the file.

`DropbearMainProofs`: `TypeCorrect`, `EverySessionHasSlot`, `LimitsHold`,
`Refinement`. The invariant ties the pipe of a session to its being
unauthenticated, reported sockets to waiting connections, and bounds the slots
of one address; the limits follow because sessions map one to one into slots,
and the refinement because a count of slots is never below the count of
sessions.

`DropbearAuthProofs`: `TypeCorrect`, `NoMethodSkipped`, `RoleBelongs`,
`QueryLimit`. `MethodsOK`: what is no longer offered was passed. `CountsOK`:
refused keys are at most the free ones plus the failures. `RoleOK`: role and
password were looked up in the same file until an edit.

`ServiceControlProofs`: `ModeIsKnown`, `DestroyKeeps`, `ScreenFollowsLog`.
`ModeKnown` says nothing while requests are queued, so it is not inductive.
`ModeOK` is: no mode is known only while the last queued request is a stop, or
nothing runs, nothing is queued and the watchdog is not about to restart.
`OwnerOK`: a service taken for the user's own is nobody else's unless the user's
start came on top. `FollowOK`: the poller of the view model in front is in the
executor and not cancelled also while requests are still queued, unless the
last of them is a stop.

`ChannelProofs`: `TypeCorrect`, `WindowsKept`, `NeverExits`, `NothingLate`,
`ExitIsReported`, `OutputArrives`, `InputArrives`, for all windows, pipe sizes
and numbers of bytes. Every function of `common-channel.c` has a lemma: it keeps
`ChanOK`, what holds of the struct alone (`AccountsOK`: window, buffer and
grants due add up; `SentOK`: EOF and CLOSE are sent only when the descriptors
they speak of are closed; `ExitOK`: the exit status precedes the CLOSE; `FdsOK`:
which descriptors there are in each phase), and it closes a stream only when
nothing is left in it (`Closing`). Around the struct, `ClientOK` relates the
client's window to the server's, `ProgOK` the child to its exit record,
`ReadyOK` says that what `select()` reported is still so when an iteration comes
to it, and `BytesOK` that what was written is sent or still in the pipe.
For `NeverExits`, a CLOSE that is sent means closed descriptors (`SentOK`) unless
the command was begun after it; `PostOK` says what is known of such a channel:
the client's EOF came, and no input is buffered that a closing could lose.

`KeyExchangeLemmas`, `KeyExchangeProofs`: `TypeCorrect`, `SessionGoesOn`,
`KexIsQuiet`, `KeysAreShared` and `StreamKept`, the refinement of `AppStream`,
for any number of exchanges and packets. The properties speak of one wire or of
moments of rest; why they hold is a matter of how far the two parties are
together. The invariant, `Joint`, is a table of
fourteen rows (from `Idle` over who has opened, agreed and keyed to a party that
opens the next exchange before the other has finished this one). A row gives the
stage of each party (`Stage`: its flags, `requirenext`, what it may send, and that
no more waits in its queue than it was given) and
the packets of exchanges on each of the two wires, with any number of packets of
the layers above between them (`Link`). A wire is in order when the packets of
exchanges are exactly those of the row (`Shape`), the others are not where an
exchange forbids them (`Quiet`, `NoneBetween`), and each packet is sealed with
the key and number with which it will be opened (`Seal`, with one NEWKEYS under
way at most, and the numbers starting again behind it under strict kex).
`KeyExchangeLemmas` shows what sending or reading one packet does to a wire and
to a stage, `KeyExchangeProofs` that each step leads from a row to a row.
For `StreamKept`, `Kept` says that a function of the session changes neither the
number of packets sent nor what is on its way (`Pending`: the packets of the
layers above on the wire, then the reply queue). Every function keeps it but the
sending of a packet, which puts one at the end, and the reading by the peer,
which takes one from the front. What is on the wire is defined by recursion over
it (`DataOf`); `Induction`, over a set of numbers and from the well-foundedness
of `<`, gives what it yields for a longer wire, for the tail of one and for a
flushed queue.

`AuthorizedUsersProofs`: `TypeCorrect`, `ParsersAgree`, `ClearedIsRevoked` and
`SavesByTheTable`, the refinement of `Credentials`, for any names, passwords and
numbers of edits. What the app reads is a recursion over the lines of the file.
`Says` states what its map holds after some lines: for each key the entry of the
last line with that key, and nothing else, one entry per key. `SaysNext` is the
step to the next line (from `PutMap`, about `LinkedHashMap.put()`), and
`ReadSays` the conclusion by the same induction over numbers. From there a file
is known by the last plain line of each role (`ReadLast`, `ReadNone`), a map by
its entry for it (`UserOfMap`), and `ReadWritten` says that a map written and
read back gives each role the entry it had, unless its name has a colon.
`NewMaps` shows each branch of `writeAuthorizedUser()` to be its row of the
table. The invariant `IndInv` adds to the types `PhaseOK` (a save runs with the
screen open; while a map is on its way the file is empty) and `DoneOK`: each
role that is stored already has, in the file and in the map on its way there,
only the name the screen shows. It is needed because `OnlyShownLogsIn` speaks of
the end of a save, and three roles are written one after the other, each write
replacing the lines of the roles before it. `ParsersAgree` needs no more than
the types, `SavesByTheTable` also `PhaseOK`, `ClearedIsRevoked` all of it.
`TokenAssumption` keeps the special values out of the sets of names, hashes and
entries.

Only model-checked: everything under fairness (`StopStops`, `WatchdogNotices`,
`SlotsReleased`, `TermNotLost`, `ExitLeadsToClose`, `KexCompletes`,
`PollerRuns`), which TLAPS cannot prove. Every other property of a passing run
is stated by a theorem. The types of `AuthorizedUsers` are in no run: the proofs
need them, and the properties of `users` depend on them.

## Not modelled

View code, preferences and PrefsLib widgets, logging, `ExecReceiver` and the su
login shell (no state), ciphers, compression and the parsing of packets,
algorithm lists and authorized_keys, several channels at once, forwarding of
X11, agents and listening ports, and the vendored programs and libraries, which
are most of the repository's lines. The provisioning and `pkg` scripts are texts
run by a shell; the import of `authorized_keys` is a copy and a rename. The
descriptors that leak when `fork()` fails, in the listener and in
`spawn_command()`, are outside the models.

## Plan

1. Done: `SshdService`, `DropbearMain` with `Admission`, `DropbearAuth`, their
   invariants and the refinement proved.
2. Done: `AuthorizedUsers` with `Credentials`, `ServiceControl`, `Channel`,
   `KeyExchange` with `AppStream`, model-checked; the start mode proved.
3. Done: the invariants of `Channel` and `KeyExchange`, the refinement of
   `AppStream`, `LogFollowed`, `UiShowsIsRunning` and `RecordedIsWatched` proved.
4. Done: `AuthorizedUsers`: `ReadersAgree`, `OnlyShownLogsIn` and the refinement
   of `Credentials` proved, by induction over the lines of the file.
5. Left: `KeyImport` and `Pkg`: temporary files of one name, several workers.
