------------------------------ MODULE Manager -------------------------------
(***************************************************************************)
(* The manager process srund forks for one connection (manager.cpp): the   *)
(* epoll loop, the handling of requests, reaping the command and           *)
(* manager_destroy.  pc splits the loop where a signal, the command or the *)
(* client can come in between; the names of pc are                         *)
(*   wait, clear    wait_child at the top of the loop, clear_clonepid      *)
(*   check          the tests on exec_over and process_stop                *)
(*   enter, epoll   about to call epoll_wait, blocked in it                *)
(*   syn            epoll_wait timed out: the keep-alive is due            *)
(*   events         the loop over the reported events                      *)
(*   cgroup, register, bind   handle_request after clone                   *)
(*   destroy, sleep, dwait, dclear, close   manager_destroy                *)
(*   dead           the process has exited                                 *)
(* A thrown exception goes to main's catch clause, that is to destroy.     *)
(***************************************************************************)
EXTENDS Wire, Output

CONSTANT Requests  \* requests as they stand after Config::loadRequest

\* timed is false for a negative timeout: set_timeout then sets no timer.
Request == [backend : BOOLEAN, modes : [Streams -> Mode], timed : BOOLEAN]

ASSUME RequestsAssumption == Requests \subseteq Request

VARIABLES
  pc,
  evs,              \* events of the current batch not yet handled
  process_stop,
  child_status,     \* "NO_PROC", "RUNNING", "EXIT"
  clonepid,         \* -1, 0 or the pid of the clone
  syn_timeout,      \* 1000 or -1
  is_syn,
  result_sendback,
  stat,             \* response.stat
  request,
  timerfd,          \* "none", "armed", "expired" or "closed"
  registered,       \* the file tmpfs/clonepid exists
  leaf,             \* the memory cgroup directory of clonepid exists
  leak              \* epoll still watches descriptors no variable holds

managerVars == <<pc, evs, process_stop, child_status, clonepid, syn_timeout,
                 is_syn, result_sendback, stat, request, timerfd, registered,
                 leaf, leak>>

allVars == <<wireVars, commandVars, outputVars, managerVars>>

ChildPid == 1

PCs == {"wait", "clear", "check", "enter", "epoll", "syn", "events", "cgroup",
        "register", "bind", "destroy", "sleep", "dwait", "dclear", "close",
        "dead"}

Events == {"conn", "out", "err", "timer", "leak"}

\* Mutant of exec_over: the streams are not waited for.
exec_over_early == child_status = "EXIT"

\* Mutant of exec_over: the exit of the command is not waited for.
exec_over_streams == child_status # "NO_PROC" /\ \A s \in Streams : over[s]

exec_over == child_status = "EXIT" /\ \A s \in Streams : over[s]

stop_child == IF child_status = "RUNNING" THEN Kill ELSE UNCHANGED term

\* write() of a whole message.  A closed peer gives EPIPE (the unit runs with
\* SIGPIPE ignored), a reply beyond the socket buffer a partial write: both
\* throw.  Only messages other than SYN and ACK set result_sendback.
send_message(m, next) ==
  \/ /\ sockfd = "open"
     /\ m.outstr + m.errstr <= SockCap
     /\ m2c' = Append(m2c, m)
     /\ result_sendback' = (result_sendback \/ m.method \notin {"SYN", "ACK"})
     /\ pc' = next
  \/ /\ sockfd = "open"
     /\ m.outstr + m.errstr > SockCap
     /\ m2c' = Append(m2c, [m EXCEPT !.method = "PART"])
     /\ pc' = "destroy"
     /\ UNCHANGED result_sendback
  \/ /\ sockfd = "closed"
     /\ pc' = "destroy"
     /\ UNCHANGED <<m2c, result_sendback>>

throw == pc' = "destroy"

-----------------------------------------------------------------------------
(* The top of the loop.                                                    *)

\* Mutant of wait_child: child_status is left RUNNING.
wait_child_stale(reaped, none) ==
  \/ /\ child = "zombie"
     /\ child' = "reaped"
     /\ stat' = IF exit = "normal" THEN "NORMAL" ELSE "ABNORMAL"
     /\ pc' = reaped
     /\ UNCHANGED child_status
  \/ /\ child # "zombie"
     /\ pc' = none
     /\ UNCHANGED <<child, child_status, stat>>

\* One turn of the waitpid loop of wait_child.
wait_child(reaped, none) ==
  \/ /\ child = "zombie"
     /\ child' = "reaped"
     /\ child_status' = "EXIT"
     /\ stat' = IF exit = "normal" THEN "NORMAL" ELSE "ABNORMAL"
     /\ pc' = reaped
  \/ /\ child # "zombie"
     /\ pc' = none
     /\ UNCHANGED <<child, child_status, stat>>

\* Mutant of clear_clonepid: the file is not unlinked.
clear_clonepid_keeps(next) ==
  /\ pc' = next
  /\ clonepid' = 0
  /\ \/ leaf' = FALSE
     \/ orphan /\ UNCHANGED leaf
  /\ UNCHANGED registered

\* clear_clonepid: the pid is already free for reuse when the file goes.  The
\* cgroup stays when rmdir finds descendants in it.
clear_clonepid(next) ==
  /\ pc' = next
  /\ clonepid' = 0
  /\ registered' = FALSE
  /\ \/ leaf' = FALSE
     \/ orphan /\ UNCHANGED leaf

WaitChild ==
  /\ pc = "wait"
  /\ wait_child("clear", "check")
  /\ UNCHANGED <<wireVars, outputVars, exit, term, limited, orphan, pipefd,
                 pipe, wrote, evs, process_stop, clonepid, syn_timeout, is_syn,
                 result_sendback, request, timerfd, registered, leaf, leak>>

ClearClonepid ==
  /\ pc = "clear"
  /\ clear_clonepid("wait")
  /\ UNCHANGED <<wireVars, commandVars, outputVars, evs, process_stop,
                 child_status, syn_timeout, is_syn, result_sendback, stat,
                 request, timerfd, leak>>

\* Mutant of ExitDue: a client that went away is noticed only without a child.
ExitDue_attached ==
  \/ exec_over /\ process_stop
  \/ child_status = "NO_PROC" /\ connection = "closed"

ExitDue ==
  \/ exec_over /\ (connection = "closed" \/ process_stop)
  \/ child_status = "NO_PROC" /\ connection = "closed"

\* Mutant of ReplyDue: result_sendback is not looked at.
ReplyDue_again == exec_over /\ ~ExitDue

ReplyDue == exec_over /\ ~ExitDue /\ ~result_sendback

ResultOf(s) == IF mode[s] = "MSG" THEN str[s] ELSE 0

\* manager_destroy(); exit(0).
CheckExit ==
  /\ pc = "check"
  /\ ExitDue
  /\ pc' = "destroy"
  /\ UNCHANGED <<wireVars, commandVars, outputVars, evs, process_stop,
                 child_status, clonepid, syn_timeout, is_syn, result_sendback,
                 stat, request, timerfd, registered, leaf, leak>>

CheckReply ==
  /\ pc = "check"
  /\ ReplyDue
  /\ send_message(Reply(stat, ResultOf("out"), ResultOf("err")), "enter")
  /\ UNCHANGED <<connection, sockfd, c2m, commandVars, outputVars, evs,
                 process_stop, child_status, clonepid, syn_timeout, is_syn,
                 stat, request, timerfd, registered, leaf, leak>>

CheckIdle ==
  /\ pc = "check"
  /\ ~ExitDue
  /\ ~ReplyDue
  /\ IF process_stop THEN stop_child ELSE UNCHANGED term
  /\ pc' = "enter"
  /\ UNCHANGED <<wireVars, child, exit, limited, orphan, pipefd, pipe, wrote,
                 outputVars, evs, process_stop, child_status, clonepid,
                 syn_timeout, is_syn, result_sendback, stat, request, timerfd,
                 registered, leaf, leak>>

-----------------------------------------------------------------------------
(* epoll_wait.                                                             *)

\* Descriptors epoll reports (they are level-triggered).
Ready ==
  {e \in {"conn"} : connection = "open" /\ (c2m # <<>> \/ sockfd = "closed")}
  \cup {s \in Streams : pipefd[s] /\ (pipe[s] > 0 \/ ~Writers)}
  \cup {e \in {"timer"} : timerfd = "expired"}

EpollStep(next) ==
  /\ pc' = next
  /\ UNCHANGED <<wireVars, commandVars, outputVars, process_stop, child_status,
                 clonepid, syn_timeout, result_sendback, is_syn, stat, request,
                 timerfd, registered, leaf, leak>>

EpollEnter ==
  /\ pc = "enter"
  /\ UNCHANGED evs
  /\ EpollStep("epoll")

\* epoll_wait reports every ready descriptor, the leaked ones when they are.
EpollReturn ==
  /\ pc = "epoll"
  /\ \E l \in {{}} \cup (IF leak THEN {{"leak"}} ELSE {}) :
       /\ Ready \cup l # {}
       /\ evs' = Ready \cup l
  /\ EpollStep("events")

\* nfds == 0: send SYN to a foreground client, or give up on it.
EpollTimeout ==
  /\ pc = "epoll"
  /\ syn_timeout = 1000
  /\ Ready = {}
  /\ UNCHANGED evs
  /\ \/ /\ request.backend \/ connection = "closed"
        /\ EpollStep("wait")
     \/ /\ ~request.backend
        /\ connection = "open"
        /\ EpollStep(IF is_syn THEN "destroy" ELSE "syn")

SendSyn ==
  /\ pc = "syn"
  /\ is_syn' = TRUE
  /\ send_message(Control("SYN"), "wait")
  /\ UNCHANGED <<connection, sockfd, c2m, commandVars, outputVars, evs,
                 process_stop, child_status, clonepid, syn_timeout, stat,
                 request, timerfd, registered, leaf, leak>>

-----------------------------------------------------------------------------
(* The events of one batch, in any order.                                  *)

Take(e) == pc = "events" /\ e \in evs /\ evs' = evs \ {e}

\* Mutant of EventsDone: wait_child is called only when a signal came in.
EventsDone_unwaited ==
  /\ pc = "events"
  /\ evs = {}
  /\ UNCHANGED evs
  /\ EpollStep("enter")

EventsDone ==
  /\ pc = "events"
  /\ evs = {}
  /\ UNCHANGED evs
  /\ EpollStep("wait")

HandleOutput(s) ==
  /\ Take(s)
  /\ receive(s)
  /\ UNCHANGED <<wireVars, child, exit, term, limited, orphan, wrote, mode, pc,
                 process_stop, child_status, clonepid, syn_timeout, is_syn,
                 result_sendback, stat, request, timerfd, registered, leaf,
                 leak>>

\* Mutant of HandleTimer: the child is not stopped.
HandleTimer_spares ==
  /\ Take("timer")
  /\ timerfd' = "closed"
  /\ stat' = "TIMEOUT"
  /\ UNCHANGED <<wireVars, commandVars, outputVars, pc, process_stop,
                 child_status, clonepid, syn_timeout, is_syn, result_sendback,
                 request, registered, leaf, leak>>

HandleTimer ==
  /\ Take("timer")
  /\ stop_child
  /\ timerfd' = "closed"
  /\ stat' = "TIMEOUT"
  /\ UNCHANGED <<wireVars, child, exit, limited, orphan, pipefd, pipe, wrote,
                 outputVars, pc, process_stop, child_status, clonepid,
                 syn_timeout, is_syn, result_sendback, request, registered,
                 leaf, leak>>

\* An event of a descriptor that no variable holds any more matches nothing.
HandleLeak ==
  /\ Take("leak")
  /\ UNCHANGED <<wireVars, commandVars, outputVars, pc, process_stop,
                 child_status, clonepid, syn_timeout, is_syn, result_sendback,
                 stat, request, timerfd, registered, leaf, leak>>

\* recv_message reads nothing: the client has closed its end.
HandleEof ==
  /\ Take("conn")
  /\ c2m = <<>>
  /\ syn_timeout' = -1
  /\ connection' = "closed"
  /\ IF ~request.backend /\ ~result_sendback THEN stop_child
                                             ELSE UNCHANGED term
  /\ UNCHANGED <<sockfd, m2c, c2m, child, exit, limited, orphan, pipefd, pipe,
                 wrote, outputVars, pc, process_stop, child_status, clonepid,
                 is_syn, result_sendback, stat, request, timerfd, registered,
                 leaf, leak>>

\* recv_message drains the socket and finds method m.
Receives(m) ==
  /\ Take("conn")
  /\ c2m # <<>>
  /\ ParsedMethod(c2m) = m
  /\ c2m' = <<>>
  /\ UNCHANGED <<connection, sockfd>>

\* The answer to SYN is the SYN itself: send_message(message), not sendback.
HandleSyn ==
  /\ Receives("SYN")
  /\ send_message(Control("SYN"), "events")
  /\ UNCHANGED <<commandVars, outputVars, process_stop, child_status, clonepid,
                 syn_timeout, is_syn, stat, request, timerfd, registered, leaf,
                 leak>>

\* Mutant of HandleAck: is_syn is not reset.
HandleAck_ignored ==
  /\ Receives("ACK")
  /\ UNCHANGED <<m2c, commandVars, outputVars, pc, process_stop, child_status,
                 clonepid, syn_timeout, is_syn, result_sendback, stat, request,
                 timerfd, registered, leaf, leak>>

HandleAck ==
  /\ Receives("ACK")
  /\ is_syn' = FALSE
  /\ UNCHANGED <<m2c, commandVars, outputVars, pc, process_stop, child_status,
                 clonepid, syn_timeout, result_sendback, stat, request,
                 timerfd, registered, leaf, leak>>

\* Reading the registry throws when a file vanishes or does not parse.
HandleList ==
  /\ Receives("LIST")
  /\ request' = [request EXCEPT !.backend = FALSE]
  /\ \/ send_message(Control("LIST"), "events")
     \/ throw /\ UNCHANGED <<m2c, result_sendback>>
  /\ UNCHANGED <<commandVars, outputVars, process_stop, child_status, clonepid,
                 syn_timeout, is_syn, stat, timerfd, registered, leaf, leak>>

\* The processes signalled belong to other managers.
HandleStop ==
  /\ Receives("STOP")
  /\ send_message(Control("STOP"), "events")
  /\ UNCHANGED <<commandVars, outputVars, process_stop, child_status, clonepid,
                 syn_timeout, is_syn, stat, request, timerfd, registered, leaf,
                 leak>>

-----------------------------------------------------------------------------
(* handle_request.  request is overwritten before the test on clonepid.    *)

HandleExe(r) == Receives("EXE") /\ request' = r

\* "Only can execute one command"
ExeRefused(r) ==
  /\ clonepid > 0
  /\ HandleExe(r)
  /\ UNCHANGED <<m2c, commandVars, outputVars, pc, process_stop, child_status,
                 clonepid, syn_timeout, is_syn, result_sendback, stat, timerfd,
                 registered, leaf, leak>>

ExeAccepted(r) ==
  /\ clonepid <= 0
  /\ HandleExe(r)
  /\ syn_timeout' = IF r.backend THEN -1 ELSE syn_timeout
  /\ UNCHANGED <<process_stop, is_syn, stat, timerfd, registered, leaf>>

\* find_command fails.
ExeBadArgs(r) ==
  /\ ExeAccepted(r)
  /\ send_message(Reply("BADARGS", 0, 0), "events")
  /\ UNCHANGED <<commandVars, outputVars, child_status, clonepid, leak>>

\* load throws (no such outfile, no pipe) or clone fails.
ExeThrows(r) ==
  /\ ExeAccepted(r)
  /\ throw
  /\ clonepid' \in {clonepid, -1}
  /\ UNCHANGED <<m2c, result_sendback, commandVars, outputVars, child_status,
                 leak>>

ExeClone(r) ==
  /\ ExeAccepted(r)
  /\ load(r.modes, r.backend)
  /\ leak' = (leak \/ \E s \in Streams :
                        pipefd[s] /\ Piped(r.modes[s], r.backend))
  /\ child' = "setup"
  /\ limited' = FALSE
  /\ orphan' = FALSE
  /\ clonepid' = ChildPid
  /\ child_status' = "RUNNING"
  /\ pc' = "cgroup"
  /\ UNCHANGED <<m2c, result_sendback, exit, term, over, str, offset>>

\* The cgroup directory, its limits and cgroup.procs.  A zombie joins nothing.
JoinCgroup ==
  /\ pc = "cgroup"
  /\ \/ /\ leaf' = TRUE
        /\ limited' = (child # "zombie")
        /\ pc' = "register"
     \/ /\ leaf' \in BOOLEAN
        /\ throw
        /\ UNCHANGED limited
  /\ UNCHANGED <<wireVars, child, exit, term, orphan, pipefd, pipe, wrote,
                 outputVars, evs, process_stop, child_status, clonepid,
                 syn_timeout, is_syn, result_sendback, stat, request, timerfd,
                 registered, leak>>

\* write_file may create the file and fail to write to it.
Register ==
  /\ pc = "register"
  /\ \/ registered' = TRUE /\ pc' = "bind"
     \/ registered' \in {registered, TRUE} /\ throw
  /\ UNCHANGED <<wireVars, commandVars, outputVars, evs, process_stop,
                 child_status, clonepid, syn_timeout, is_syn, result_sendback,
                 stat, request, timerfd, leaf, leak>>

set_timeout ==
  /\ timerfd' = IF request.timed THEN "armed" ELSE timerfd
  /\ leak' = (leak \/ (request.timed /\ timerfd \in {"armed", "expired"}))

\* Events of this batch whose descriptors load and set_timeout replaced: they
\* match nothing any more.
Replaced == {s \in Streams : Piped(mode[s], request.backend)}
            \cup (IF request.timed THEN {"timer"} ELSE {})

\* bind, set_timeout and, for a backend request, the reply.
Bind ==
  /\ pc = "bind"
  /\ evs' = evs \ Replaced
  /\ \/ /\ ~BindsTwice(request.backend)
        /\ bind
        /\ set_timeout
        /\ \/ /\ request.backend
              /\ send_message(Reply("NORMAL", 0, 0), "events")
           \/ /\ ~request.backend
              /\ pc' = "events"
              /\ UNCHANGED <<m2c, result_sendback>>
     \/ /\ throw
        /\ UNCHANGED <<over, offset, timerfd, leak, m2c, result_sendback>>
  /\ UNCHANGED <<connection, sockfd, c2m, commandVars, mode, str,
                 process_stop, child_status, clonepid, syn_timeout, is_syn,
                 stat, request, registered, leaf>>

-----------------------------------------------------------------------------
(* manager_destroy, then the end of the process.                           *)

Destroy ==
  /\ pc = "destroy"
  /\ stop_child
  /\ pc' = IF child_status = "RUNNING" THEN "sleep" ELSE "close"
  /\ UNCHANGED <<wireVars, child, exit, limited, orphan, pipefd, pipe, wrote,
                 outputVars, evs, process_stop, child_status, clonepid,
                 syn_timeout, is_syn, result_sendback, stat, request, timerfd,
                 registered, leaf, leak>>

\* sleep(2) runs out; signals cut it short (Interrupt).
SleepOver ==
  /\ pc = "sleep"
  /\ pc' = "dwait"
  /\ UNCHANGED <<wireVars, commandVars, outputVars, evs, process_stop,
                 child_status, clonepid, syn_timeout, is_syn, result_sendback,
                 stat, request, timerfd, registered, leaf, leak>>

\* Mutant of DestroyWait: clear_clonepid is left to the end of the daemon.
DestroyWait_uncleared ==
  /\ pc = "dwait"
  /\ wait_child("close", "close")
  /\ UNCHANGED <<wireVars, outputVars, exit, term, limited, orphan, pipefd,
                 pipe, wrote, evs, process_stop, clonepid, syn_timeout, is_syn,
                 result_sendback, request, timerfd, registered, leaf, leak>>

DestroyWait ==
  /\ pc = "dwait"
  /\ wait_child("dclear", "close")
  /\ UNCHANGED <<wireVars, outputVars, exit, term, limited, orphan, pipefd,
                 pipe, wrote, evs, process_stop, clonepid, syn_timeout, is_syn,
                 result_sendback, request, timerfd, registered, leaf, leak>>

DestroyClear ==
  /\ pc = "dclear"
  /\ clear_clonepid("dwait")
  /\ UNCHANGED <<wireVars, commandVars, outputVars, evs, process_stop,
                 child_status, syn_timeout, is_syn, result_sendback, stat,
                 request, timerfd, leak>>

\* Every descriptor is closed; the kernel sends the command the SIGTERM it
\* asked for with PR_SET_PDEATHSIG.
Close ==
  /\ pc = "close"
  /\ pc' = "dead"
  /\ evs' = {}
  /\ connection' = "closed"
  /\ timerfd' = "closed"
  /\ pipefd' = [s \in Streams |-> FALSE]
  /\ pipe' = [s \in Streams |-> 0]
  /\ Kill
  /\ UNCHANGED <<sockfd, m2c, c2m, child, exit, limited, orphan, wrote,
                 outputVars, process_stop, child_status, clonepid, syn_timeout,
                 is_syn, result_sendback, stat, request, registered, leaf,
                 leak>>

-----------------------------------------------------------------------------
(* Signals and time, at any moment.                                        *)

\* Where a signal finds the manager: blocked calls return EINTR.
Interrupt ==
  pc' = CASE pc = "epoll" -> "wait"
          [] pc = "sleep" -> "dwait"
          [] OTHER -> pc

\* SIGTERM, any number of times.  Only that of init or of the parent sets
\* process_stop; anybody's interrupts.
sigterm_handler ==
  /\ pc # "dead"
  /\ process_stop' \in {process_stop, TRUE}
  /\ Interrupt
  /\ UNCHANGED <<wireVars, commandVars, outputVars, evs, child_status,
                 clonepid, syn_timeout, is_syn, result_sendback, stat, request,
                 timerfd, registered, leaf, leak>>

TimerExpires ==
  /\ timerfd = "armed"
  /\ timerfd' = "expired"
  /\ UNCHANGED <<wireVars, commandVars, outputVars, pc, evs, process_stop,
                 child_status, clonepid, syn_timeout, is_syn, result_sendback,
                 stat, request, registered, leaf, leak>>

\* The death of the child raises SIGCHLD; its handler does nothing, but the
\* manager's blocking call is interrupted.
sigchld ==
  /\ Interrupt
  /\ UNCHANGED <<wireVars, outputVars, evs, process_stop, child_status,
                 clonepid, syn_timeout, is_syn, result_sendback, stat, request,
                 timerfd, registered, leaf, leak>>

ManagerFlagsOK ==
  /\ process_stop \in BOOLEAN
  /\ is_syn \in BOOLEAN
  /\ result_sendback \in BOOLEAN
  /\ registered \in BOOLEAN
  /\ leaf \in BOOLEAN
  /\ leak \in BOOLEAN

ManagerTypeOK ==
  /\ ManagerFlagsOK
  /\ pc \in PCs
  /\ evs \subseteq Events
  /\ child_status \in {"NO_PROC", "RUNNING", "EXIT"}
  /\ clonepid \in {-1, 0, ChildPid}
  /\ syn_timeout \in {-1, 1000}
  /\ stat \in Stat
  /\ request \in Request
  /\ timerfd \in {"none", "armed", "expired", "closed"}

ManagerInit ==
  /\ pc = "wait"
  /\ evs = {}
  /\ process_stop = FALSE
  /\ child_status = "NO_PROC"
  /\ clonepid = 0
  /\ syn_timeout = 1000
  /\ is_syn = FALSE
  /\ result_sendback = FALSE
  /\ stat = "NORMAL"
  /\ request = [backend |-> FALSE, modes |-> [s \in Streams |-> "IGN"],
                timed |-> TRUE]
  /\ timerfd = "none"
  /\ registered = FALSE
  /\ leaf = FALSE
  /\ leak = FALSE
=============================================================================
