# A TLA+ model of srun

srun executes commands on behalf of unprivileged clients: the daemon `srund`
forks one *manager* process per connection, the manager clones the command into
a restricted environment, collects its output and sends back a reply. These
modules model that service from its source, TLC checks them on small instances,
and TLAPS proves every safety property of the passing runs for every value of the
parameters, under the assumptions that section 4 names.

Source paths below are those of the repository (`src/manager.cpp` is the file
`manager.cpp` in its directory `src`).

## 1. Inventory

| Component | State | Operations | Where |
|---|---|---|---|
| manager process | `connection`, `clonepid`, `child_status`, `timerfd`, `syn_timeout`, `is_syn`, `result_sendback`, `response`, `request`, `process_stop` | epoll loop, `recv_message`, `handle_request`, `wait_child`, `set_timeout`, `manager_destroy`, signal handlers | `src/manager.cpp` |
| output capture | per stream `mode`, `pipefd`, `redirect_fd`, `over`, `str` | `load`, `dup`, `bind`, `receive` | `src/output.cpp` |
| cloned command | a process, its pipes, its cgroup | `execute` up to `execv`, then any program | `src/manager.cpp`, external |
| wire protocol | two byte streams | protobuf messages without framing; proto2 or proto3 chosen by the build | `proto/` |
| client library | `sockfd` | `exec`, `run`, `list`, `stop` | `src/srunc.cpp` |
| configuration | `keyfiles`, a map from path to key file | constructor, `loadRequest`, `fillRequest` | `src/config.cpp` |
| registry | one file per command in a tmpfs, `lockfd` | written by `handle_request`, unlinked by `clear_clonepid`, read by LIST and STOP | `src/manager.cpp`, `src/utils.cpp` |
| daemon | listening socket, `process_stop`, tmpfs mount | start, accept loop, fork, `clear_resource` | `src/srund.cpp` |
| srunctl | a request, the files it creates | options, subcommands, exit status | `src/srunctl.cpp` |
| service unit | whether the service runs | start, stop, kill, restart | `systemd/service.cmake` |

**How they interact.** A client connects and writes one message. The daemon
forks; the child process runs `manager_start` and never returns. The manager
clones the command and shares with it only pipes, a pid and signals. Managers
share with each other the tmpfs registry and the lock file. The daemon and the
managers share nothing but signals: SIGTERM (from init, or as parent death
signal) and SIGCHLD.

**What is hard.** The manager is single-threaded, but everything around it is
not: the command writes, forks and dies, the client is slow, dies or sends
something else, timers fire, and signals arrive between any two system calls.
The points that a test would hardly reach are listed at their lines under
`hazards` in `PROJECT.json`. The ones that shaped the model:

* a signal that arrives between the checks at the top of the loop and
  `epoll_wait` does not interrupt anything;
* a cloned child has the manager's signal handlers until `execv`;
* a reader drains the socket and parses everything it got as one message, and
  protobuf merges concatenated messages, the last value on the wire winning;
* exit, end of stdout, end of stderr, timeout and disconnection may come in any
  order, some of them in one batch of epoll events;
* an exception at any point of `handle_request` after `clone` has to be undone
  by `manager_destroy`;
* the `flock` of LIST, STOP and registration excludes nobody: every manager has
  inherited the same open file description;
* the daemon clears mount and cgroups while managers still register commands,
  and after a SIGKILL the next start finds what was left;
* `receive` does not return before the pipe is empty, while the command writes.

**What makes it correct.** The manager signals only its own child. Registry
entry and cgroup go when the child goes. A reply is complete and sent once. A
live client is not taken for dead. A command that overruns is stopped. Everyone
who waits is answered, and every session ends. A request is changed by one
configuration file only. Connections are served with exactly one tmpfs, whose
files belong to commands; STOP signals commands only (it does not, section 5); a
registered command stays listed until it is reaped, and is in its cgroup. srunctl
asks for what its options say, and exit status 0 means that it was done.

## 2. Modules

```
Wire ------------+-----------------+
                 |                 |
Command -- Output -- Manager -- Session -- MCSession (TLC)
              |                |   |   \-- SessionProofs -- ClientProofs
              |  Srunc --------+  Job (abstract)                |    |
        OutputStream -- StreamProofs                    JobProofs  ReplyProofs

Catalogue (abstract)   implemented by Daemon and by Session
Registry -- Daemon -- DaemonProofs
Config -- ConfigProofs
Srunctl -- SrunctlProofs
```

Lines are EXTENDS, except that `Session` implements `Job`, `Daemon` and `Session`
implement `Catalogue` and `OutputStream` implements a step of `Output`, all by
INSTANCE with a refinement mapping. The
modules whose names end in `Proofs` hold theorems for TLAPS, all others are
models; an inductive invariant is defined next to the properties it is for, in
the module of the component, so that TLC can check it too.

| Module | Models | State and actions |
|---|---|---|
| `Wire` | the socket and protobuf | `m2c`, `c2m` are the unread messages of each direction; `ParsedMethod` is what one `ParseFromString` of all of them yields. The command's output is counted in bytes, its text is left out. |
| `Command` | `execute` and the program | `child` is the process state; `Execv`, `ExecuteFails`, `CommandExits`, `CommandWrites`, `CommandForks`, `OrphanExits`. `Kill` sets `term` only for a process past `execv`. |
| `Output` | the two `Output` objects | `load`, `bind`, `receive`. What `receive` keeps of a message (`Keeps`) is all there is, or at least the limit and less than one buffer more: the code tests the size of `str` before it appends a read of up to 1024 bytes (`BufSize`), so the string may pass 8 MB by up to 1023. |
| `Manager` | the manager process | one action per piece of the loop that runs without another process being able to interfere in a way that matters; `pc` names the points in between. `wait_child` and `clear_clonepid` are two steps, so are `waitpid` and `epoll_wait`, and `handle_request` has a point after `clone`, after the cgroup and after the registration. A C++ exception is a jump to `destroy`. |
| `Srunc` | `Srunc::exec` | send, acknowledge, return, fail; `ClientDies`; `ClientSendsMore` is a client other than Srunc that sends SYN or EXE again. |
| `Session` | the composition | who may step when, fairness, properties. |
| `Job` | what a session promises | a command is executed once, answered once and not before its time, and `run` returns true only after an answer. Not translated from code: `Session` is shown to implement it. |
| `OutputStream` | `Output::receive`, read by read | `ReadMore`, `ReadTooMuch`, `ReadNothing` are the outcomes of one `read`, which returns any number of bytes up to `BufSize`; the command and the timer go on meanwhile. |
| `Registry` | what managers share | files in the directory `tmpfs` (a stack of mounts, `fs`), cgroup directories, pids. A manager is a point `mpc[m]` at which it touches them: `Clone` to `WriteEntry` are `handle_request`, `Reap` to `Rmdir` are `wait_child` and `clear_clonepid`, then LIST and STOP. |
| `Daemon` | `srund`, and systemd around it | `dpc` is the place in `main`; start and mount, the accept loop with its signals, `clear_resource`; `ServiceKilled` is the SIGKILL after a stop that took too long. Extends `Registry`. |
| `Catalogue` | what LIST and STOP may rely on | per pid the life of a command (`idle`, `running`, `reaped`), which pids have an entry, which entries are stale, and whether the service is up. Not translated from code: `Daemon` implements it with all managers, mounts and kills, `Session` with the whole of one manager. |
| `Srunctl` | `main` of srunctl, `Srunc::run`, `list`, `stop` | one action per turn of the option loop, per file and per outcome; `passed` holds the operands `getopt` has passed over, which it moves behind the options in the end. `fate` is what came of the request at the manager, `answer` what `exec` returned of it: a backend request (`-b`) is answered NORMAL with 0 as soon as the command is started. |
| `Config` | `Config` | reading files in any directory order, choosing the file, filling the request, the env loop. |

A `Requests` element is the request as it stands after `config.loadRequest`: a
foreground or backend request, the mode of each stream, with or without a
timeout. `Config` shows how it comes about.

Abstractions to know about. User, chroot, nice, namespaces and arguments do not
influence control and are left out; `find_command` and every system call that
may fail are nondeterministic. `receive` is one step in `Output`, although it
reads until the pipe is empty: `OutputStream` shows that this is sound. A message is read whole or not at all: a reader that catches
half of a message that the kernel is still copying is not modelled; a partial
*write* is (`PART`). SIGPIPE is ignored, as systemd does for its services, so a
write to a closed peer throws. The SIGTERM that sets `process_stop` is init's;
the handler ignores others. The process that `init` inherits from a dead manager
is reaped by it.

In `Registry` a manager serves one request; several requests on one connection
are `session_resend`'s subject. `waitpid` frees a pid before `clear_clonepid` has
unlinked the file and removed the cgroup of that name, and the kernel may give it
away again in between, to another command or to a foreign process: nothing in the
code keeps it from doing so, and only that pids are handed out in turn makes it
unlikely. The history variable `recycled` holds the pids to which it has happened;
two properties speak of the time before. Between `exists` and `kill` of STOP a pid may always
be freed and given away. `rmdir` may fail, since descendants of the command may be
in its cgroup. `umount` fails while a manager
has a file or the directory open. systemd starts the service again only when none
of its processes is left. The history variable `left` holds the files whose
manager was killed or gave its command up; nobody removes those. In a proto3
build an entry that was created and not yet written parses as a message, and LIST
shows a command without arguments: the run is for proto2. The kernel puts a live
process into an existing cgroup when asked. `Srunctl` takes an option and its
argument for one word and leaves out options written as one word (`-nc`);
`Srunc::exec` is its result there.

Definitions whose comment starts with "Mutant of" are the wrong versions of the
definition that follows. They are used by no specification: replacing the
original by one must make TLC find the named property violated (`mutants` in
`PROJECT.json`).

## 3. Runs

Run TLC on any of them with `tlc -config <cfg> <module>`.

| Run | Cfg | Shows |
|---|---|---|
| session_safety | `MCSession_safety.cfg` | 2.4 million states. `TypeOK`, `KillTargetsOwnChild`, `ResourcesFresh`, `ReplyComplete`, `OneAnswer`, `KeepAliveToken`, and that a session implements `Job` (`ImplementsJob`), with a Srunc client that may be slow or die. |
| session_resend | `MCSession_resend.cfg` | 1.8 million states. `KillTargetsOwnChild` and `ResourcesFresh` when a client sends SYN or a second EXE at any moment, and that the commands one manager executes in sequence follow `Catalogue` (`KeepsCatalogue`). |
| session_live | `MCSession_live.cfg` | 100 thousand states. `LiveClientKept`, `ClientAnswered`, `ZombieReaped`, `DeadlineKills`, `SessionEnds` under fairness. |
| config_load | `Config.cfg` | 50 thousand states. `OneFileDecides`. |
| output_stream | `OutputStream.cfg` | 2 thousand states. `ImplementsReceive`: one call of `receive` comes to the one step of `Output`, whatever the command writes meanwhile. `DeadlineServed`, `StreamEnds` under fairness: the timer is served and the stream ends although the pipe may never be empty. |
| service | `Daemon.cfg` | 1.3 million states. `MountedOnce`, `EntryOwned`, `RegisteredIsLimited`, `ListReadsCommands` over any number of starts, stops, failures and kills of the service, with pids given away as soon as they are free. As long as none was given away before its manager had cleared up: a command is listed from the end of its registration until it is reaped or its manager starts to end (`CommandListed`), and the service implements `Catalogue` (`ImplementsCatalogue`). |
| service_queue | `Daemon_queue.cfg` | 140 thousand states. `ConnectionServed` under fairness of the daemon alone. |
| srunctl | `Srunctl.cfg` | 490 thousand states. `ModesByOptions`, `FilesBeforeSend`, `ZeroMeansDone` for every line of up to four words. |

Four more runs look for a violation and find one: each checks a promise of a
comment or of the documentation that the code does not keep. They are described
in section 5.

**Bounds.** `MaxWrites = 2` bytes per stream with `MsgLimit = 1` and `BufSize = 2`
lets a stream be empty, at its limit and above it, and lets a read go past the
limit or not; `SockCap = 1` lets a reply fit and not fit.
`MixedRequests` has foreground and backend, timed and untimed requests, with two
message streams, a file and a message stream, and none. One child at a time is
what the code allows; `session_resend` has up to two in sequence (`MaxExtra = 1`,
one additional message). Queues need no bound: the manager sends SYN only when
the previous one was acknowledged, and the client sends one request. `Config`
has three files, a field whose value can be ill-formed and one whose value
cannot, and follows two turns of the env loop (`EnvBound`). `OutputStream` has a
message limit above the capacity of the pipe, so that it is met in the middle of
a drain and after several, and a buffer of two bytes, so that reads of different
sizes meet it exactly or pass it. `Daemon` has two managers that execute, one that asks,
and one pid that they and foreign processes get in turn: reuse of a pid is what
matters, and entries of different pids do not affect each other (with one
executing manager, two pids and without kills the first four hold as well: 12
million states, too slow to repeat; for every number of both all are proved). `service_queue` has one manager of each kind: the queue holds
both. Four words in `Srunctl` suffice for `-q`, `-o`, `-e` and a
command in any order, and for an operand on either side of `-c`.

**Deadlock** is not checked: a session, the loading of a request and a run of
srunctl come to an end, a command may never write again, and a service may stay
stopped.

**Fairness** (`FairSpec`). Weak fairness of the manager and of the client: the
scheduler runs a process that can run. Strong fairness of `EpollReturn`: any number
of SIGTERMs may interrupt `epoll_wait`, but the kernel reports descriptors that are
ready before it looks at a pending signal. Of `ChildStarts`: `execute` contains no
wait. Of `ChildObeys`: the commands considered in `session_live` do not block
SIGTERM for ever. Of `Expiry`: a timer that is armed expires. Of `Reparented`:
init reaps. The command is *not* assumed to end by itself, to write, or to close
its pipes. `OutputStream` has the same for its part. `Daemon` assumes weak fairness
of the daemon's own steps only: nothing of managers, clients, signals or systemd.

**Prompt.** With `Prompt = TRUE` the one-second `epoll_wait` does not run out
while the client has something to read or has not sent its request yet, and a
child reaches `execv` before its timeout (at least a second) and before `sleep(2)`
ends. It stands for a machine that is not overloaded. Without it `EXE` and `SYN`
can be merged in either direction and in both protocol versions and the liveness
properties fail; the safety runs do without it.

The liveness run covers proto2, foreground requests with a timeout and at least
one pipe, and no descendants holding the pipes. Each restriction is needed: see
`answer_lost_proto3` and `MCSession_wakeup.cfg`, and hazard `src/output.cpp:105`.

## 4. Proofs

Check a module with `tlapm <module>.tla`. Every theorem holds for every value of
the constants that satisfies the named assumptions of the modules; those say only
what kind of value a constant has (a limit is a number, a pid is positive, the
runners and askers are different managers). Where a theorem needs more, it says so
after ASSUME, and the last column below says what that means.

| Theorem | States | Beyond the modules' assumptions |
|---|---|---|
| `SessionProofs!TypeCorrect` | `[]TypeOK` of `Session` | |
| `SessionProofs!KillSafety` | `[]KillTargetsOwnChild` | |
| `SessionProofs!ResourceSafety` | `[]ResourcesFresh` | |
| `SessionProofs!SessionKeepsCatalogue` | `KeepsCatalogue` | |
| `ClientProofs!AnsweredOnce` | `[]OneAnswer` | `MaxExtra = 0` |
| `ClientProofs!KeepAliveKept` | `[]KeepAliveToken` | `MaxExtra = 0` |
| `ClientProofs!PromptClientKept` | `LiveClientKept` | `MaxExtra = 0`, `Prompt` |
| `ReplyProofs!RepliesComplete` | `[]ReplyComplete` | `MaxExtra = 0` |
| `JobProofs!SessionImplementsJob` | `ImplementsJob` | `MaxExtra = 0` |
| `StreamProofs!StreamTypes` | `[]TypeOK` of `OutputStream` | |
| `StreamProofs!ReceiveIsAtomic` | `ImplementsReceive` | `~Endless` |
| `DaemonProofs!DaemonTypes` | `[]TypeOK` of `Daemon` | |
| `DaemonProofs!TmpfsMountedOnce` | `[]MountedOnce` | |
| `DaemonProofs!EntriesOwned` | `[]EntryOwned` | |
| `DaemonProofs!LimitsStay` | `[]RegisteredIsLimited` | |
| `DaemonProofs!CommandsListed` | `[]CommandListed` | |
| `DaemonProofs!ServiceImplementsCatalogue` | `ImplementsCatalogue` | |
| `DaemonProofs!ListIsTruthful` | `ListReadsCommands` | `ProtoVersion = 2` |
| `ConfigProofs!OneFile` | `[]OneFileDecides` | |
| `SrunctlProofs!SrunctlTypes` | `[]TypeOK` of `Srunctl` | |
| `SrunctlProofs!OptionsDecide` | `[]ModesByOptions` | |
| `SrunctlProofs!FilesFirst` | `[]FilesBeforeSend` | |
| `SrunctlProofs!ZeroIsSuccess` | `[]ZeroMeansDone` | |

`MaxExtra = 0` is a client that is a `Srunc` object: it sends its request and its
ACKs and nothing else. The requests, the limits, the socket capacity, the protocol
version, how fast the client is and whether it dies are free. A client that sends
a second EXE may well get two answers. `Prompt` is explained in section 3; without
it a slow client *is* taken for dead. `ProtoVersion = 2` is a
build with `proto/proto2`; with proto3, which has no required fields, an empty file
parses. `~Endless` asks that the output to a file is finite, since otherwise
`receive` may never return.

**SessionInv.** Neither `KillTargetsOwnChild` nor `ResourcesFresh` is inductive:
the first says nothing about `clonepid` when no child runs, so the step of
`handle_request` that tests `clonepid > 0` could clone a second child while one is
unreaped; the second needs to know that between `clone` and `bind` the child is
still the manager's, and that `clonepid` names it exactly while it is unreaped or
about to be cleared. `SessionInv` says this: `child_status = RUNNING` iff the
child is unreaped, `clonepid` is its pid iff it is `RUNNING` or `pc` is just before
`clear_clonepid`, and a resource exists only together with `clonepid`. It needs no
part of `TypeOK`.

**ClientInv.** That no second answer is sent depends on `result_sendback`, and on
the request being the first message of the client: ACKs can only follow it, so
what `ParseFromString` makes of messages read together is the request at most once
(lemmas on `ParsedMethod` in `ClientProofs`). `RequestFirst` states that,
`AnswerFollows` that before the request there is no child and nothing was sent
back, and that an answer under way means `result_sendback` or a write that failed
half way, after which the manager ends. `TokenKept` extends `KeepAliveToken` by
what it is just before the SYN and by the socket being open exactly while both
sides are there. For merged messages the last SYN or ACK of a finite sequence is
needed, which well-foundedness of the numbers gives (`LastIndex`).

**ReplyInv.** `ReplyComplete` is about the moment of sending; what makes it true is
known long before. For each stream `StreamInv` keeps account of every byte: until
the stream is over, what was collected and what is in the pipe add up to what was
written; once it is over, what was collected is all of it, or at least the limit and
less than a buffer more, and nobody reads or writes it any more. `StatGiven` says that the status of a reaped child is
the one `waitpid` gave or TIMEOUT. `RepliesKept` says that what carries an outcome
is an answer, so that by `OneAnswer` nothing changes after it was sent.

**Job.** `JobProofs` shows that the initial states map to initial states and, one
case per action, that each step is one of `Job` or leaves its variables alone; the
invariant used is `SessionInv` and `ClientInv`.

**StreamInv** of `OutputStream` says that what is read in the current call is part
of what was collected, that before this call's last read the limit was not reached,
that the call is only made on an open descriptor with something to read or nobody
left to write, and that a file has not received more than was written. With it
every read is a stutter of `Output` (what is read counts as unread until the call
returns), and the return is one `receive` that keeps what `Keeps` allows.

**DaemonInv.** The invariants of the service hold up each other. They need
besides: a manager has a pid exactly from `clone` to the end of `clear_clonepid`,
and until `waitpid` that process exists (`OwnsChild`); no two managers that have not
reaped theirs have the same (`OwnerUnique`); files below the mounted tmpfs were left
behind (`BuriedLeft`); no manager exists while the daemon starts (`StartsAlone`), so
mounting never hides an entry in use; a file its manager is about to write is not
whole (`Unwritten`). None of it needs an assumption on pids: a manager that clears
up after another's pid was given away can only make entries fewer.

**ListedInv** says what stays in sight and is proved on top of `DaemonInv`, as long
as `recycled` is empty (`ServiceInvariant`, `VisibleInv`): then a pid is nobody
else's while its manager clears up (`ClearedAlone`), so `unlink` hits no one else.
That the entry of a
registered command is whole (`CommandListed`) is not inductive: a manager between
`fopen` and `fwrite` must still find its file in the visible directory when it has
written it, also while the daemon unmounts (`WritesVisible`; `umount` fails with
EBUSY then), and the service must not come up with such a command around, which is
`StartsAlone`. `CommandListed` says nothing of the time before: between `clone` and
the end of `write_file` the child executes unlisted, and so does one whose
registration has thrown, until `manager_destroy` has ended it.

**Catalogue.** The same abstract specification is implemented twice, so the reduced
manager of `Registry` and the full one of `Manager` agree on what they do to the
registry. In `DaemonProofs` the argument is: the life of a pid is the stage of the
one manager that owns it (`OwnerMoves`, by `OwnsChild`, `OwnerUnique` and
`ClearedAlone`); a step
that keeps every manager in its stage and the visible files as they are is none of
`Catalogue` (`Unseen`); `Clone`, `OpenEntry`, `Reap`, `Unlink` and `LeaveChild` are
`Start`, `Enter`, `Reap`, `Remove` and `GiveUp` (`RegistryView`); mounting and
unmounting are `Exchange`, where `BuriedLeft` gives that all that comes to light is
stale; `Listen` is `GoUp` by `StartsAlone`; the SIGKILL is `Crash`. In
`SessionProofs` it follows from `SessionInv` alone, for every client. `Catalogue`
does not say that a stale entry ever goes: the code does not see to it.

**ConfigInv** says that the map holds exactly the files read so far that load, and
that the request is the client's until the group was found. **SrunctlInv** says
that while options are read the request is what the words up to `optind` ask for,
none of which ends the options, that what was passed over are operands, and which
file has been created at each point, and that the answer is one the manager gives for
the request's fate. The types follow with it: `files` holds names from the line only
because the modes are what the line says. `ZeroMeansDone` follows from what is told
(`Told`) and from `request.backend` being set exactly if `-b` was given. It is about
what the command did: one that exits with 0 when the timer's SIGTERM reaches it
counts as done, since `timeout_status` shows that nobody learns of the timeout.

TLC found each of these invariants to hold on the instances of the runs before it
was proved.

**Only model-checked.**

* All liveness: `ClientAnswered`, `ZombieReaped`, `DeadlineKills`, `SessionEnds`,
  `DeadlineServed`, `StreamEnds`, `ConnectionServed`. Temporal properties under
  fairness are beyond the prover.
* That the assumptions of the theorems above can be met: each run's instance meets
  those of the theorems that name its properties.
* The theorems of `ClientProofs`, `JobProofs` and `ReplyProofs` for clients that
  send more than one request. They are not true then; what holds for every client
  is in `SessionProofs`.

## 5. Where code and documentation disagree

| Run | What TLC shows |
|---|---|
| timeout_status | The timer sets TIMEOUT, the command dies of the SIGTERM, `wait_child` overwrites the status. |
| answer_lost_proto3 | SYN is on its way when the command ends; SYN and reply are read together and parse as SYN. The client acknowledges and waits for ever, and the keep-alive goes on. |
| big_reply | A reply larger than the socket buffer is cut short by a non-blocking write. |
| file_limit | A file grows past the limit the comment in `Output::receive` states: the test `offset == -1 && offset >= (1 << 25)` is false for every position. |

Further counterexamples, of the same kind, come with configurations of their own
and are found the same way:

| Cfg | Property | What TLC shows |
|---|---|---|
| `MCSession_wakeup.cfg` | `ZombieReaped` | The client of a backend command has gone, the command dies after `waitpid` and before `epoll_wait(-1)`: it is not reaped and stays listed. |
| `MCSession_disconnect.cfg` | `DisconnectStopsCommand` | The client goes while the child is still in `execute`, whose inherited handler swallows the SIGTERM. |
| `MCSession_memlimit.cfg` | `RunsLimited` | `execv` happens before the pid is written to `cgroup.procs`. |
| `MCSession_stale.cfg` | `ListedIsRunning` | The child survives `manager_destroy` and its entry stays in the registry. |
| `OutputStream_endless.cfg` | `DeadlineServed` | A command that writes to a file without end keeps the manager inside `receive`; "the process will stop by SIGTERM after timeout" (`doc/tutorials.md`) does not happen. |
| `Config_env.cfg` | `EnvsAsConfigured` | `env1` is added again and again: the loop never increments `n`. `etc/srund.conf` promises "You can set environment value." and lists `env1` and `env2`. |
| `Daemon_stop.cfg` | `TermStops` | SIGTERM arrives before `accept4` blocks; `process_stop` is set and not looked at. (The SIGTERM of `ExecStop` itself does not count anyway: the handler wants init as sender, and it is systemd's own signal afterwards that does.) |
| `Daemon_foreign.cfg` | `StopHitsCommand` | A manager gives up a command that does not end within two seconds of SIGTERM and leaves its entry. The command ends, the kernel gives its pid to an unrelated process, and STOP, which is to "Stop the running process." (`doc/tutorials.md`), signals that. The same happens when the command is reaped between `exists` and `kill`. |
| `Daemon_recycle.cfg` | `RegisteredListed` | A command is reaped, its pid goes to a command of another manager, which registers it; then the first manager unlinks the file of that name. |

## 6. Not modelled, and the plan

Not modelled: the vendored Loki headers and exception helpers (no state), presets
and log configuration, the test programs, printing in `srunctl` and `time_diff`,
`unique_path_in_dir`, `deleteOutFiles` and the second overload of `loadRequest`
(no caller), a message that is read in two halves, errors of writes to files, the
parent death signal, and several calls on one `Srunc` object.

Left to do, in this order:

1. Several calls on one `Srunc` object, and errors of writes to files, with the
   properties of the hazards that have none yet; the answer to a second command on
   one connection, for which `over`, `str` and `result_sendback` are stale.
2. What a clean stop of the service leaves behind: `Catalogue` says which entries
   may be stale afterwards, not that there are none if no manager was lost.
