------------------------------ MODULE Session -------------------------------
(***************************************************************************)
(* One session: a client, the manager that serves it, the command, and the *)
(* signals and timers around them.  The command stands for any program;    *)
(* SIGTERM to the manager comes from init, from srund or from strangers.   *)
(***************************************************************************)
EXTENDS Manager, Srunc

CONSTANT
  Prompt  \* timing assumption: the client is never the late one (it reads and
          \* writes within the second epoll_wait waits), and a child reaches
          \* execv within a second: before its timeout, before sleep(2) ends

ASSUME PromptAssumption == Prompt \in BOOLEAN

vars == <<allVars, sruncVars>>

\* Every variable of the session holds a value of its type: in particular a
\* file position and a length never go below zero, clonepid is a pid, 0 or -1.
TypeOK ==
  /\ WireTypeOK
  /\ CommandTypeOK
  /\ OutputTypeOK
  /\ ManagerTypeOK
  /\ SruncTypeOK

Init == WireInit /\ CommandInit /\ OutputInit /\ ManagerInit /\ SruncInit

ManagerStep ==
  /\ \/ WaitChild
     \/ ClearClonepid
     \/ CheckExit
     \/ CheckReply
     \/ CheckIdle
     \/ EpollEnter
     \/ EpollReturn
     \/ EpollTimeout /\ (Prompt => m2c = <<>> /\ cstate # "connected")
     \/ SendSyn
     \/ EventsDone
     \/ \E s \in Streams : HandleOutput(s)
     \/ HandleTimer
     \/ HandleLeak
     \/ HandleEof
     \/ HandleSyn
     \/ HandleAck
     \/ HandleList
     \/ HandleStop
     \/ \E r \in Requests : \/ ExeRefused(r)
                            \/ ExeBadArgs(r)
                            \/ ExeThrows(r)
                            \/ ExeClone(r)
     \/ JoinCgroup
     \/ Register
     \/ Bind
     \/ Destroy
     \/ SleepOver /\ (Prompt => child # "setup")
     \/ DestroyWait
     \/ DestroyClear
     \/ Close
  /\ UNCHANGED sruncVars

ClientStep ==
  /\ ClientSends \/ ClientAcks \/ ClientReturns \/ ClientFails
  /\ UNCHANGED <<commandVars, outputVars, managerVars>>

ClientWhim ==
  /\ ClientDies \/ ClientSendsMore
  /\ UNCHANGED <<commandVars, outputVars, managerVars>>

ChildStarts ==
  \/ Execv /\ UNCHANGED <<wireVars, outputVars, managerVars, sruncVars>>
  \/ ExecuteFails /\ sigchld /\ UNCHANGED sruncVars

ChildEnds == CommandExits /\ sigchld /\ UNCHANGED sruncVars

ChildObeys == CommandObeysTerm /\ sigchld /\ UNCHANGED sruncVars

ChildActs ==
  /\ (\E s \in Streams : CommandWrites(s)) \/ CommandForks \/ OrphanExits
  /\ UNCHANGED <<wireVars, outputVars, managerVars, sruncVars>>

Reparented ==
  /\ pc = "dead"
  /\ InitReaps
  /\ UNCHANGED <<wireVars, outputVars, managerVars, sruncVars>>

Stopped == sigterm_handler /\ UNCHANGED sruncVars

Expiry ==
  /\ TimerExpires
  /\ Prompt => child # "setup"
  /\ UNCHANGED sruncVars

Next ==
  \/ ManagerStep
  \/ ClientStep
  \/ ClientWhim
  \/ ChildStarts
  \/ ChildEnds
  \/ ChildActs
  \/ Reparented
  \/ Stopped
  \/ Expiry

Spec == Init /\ [][Next]_vars

\* What the scheduler and the kernel guarantee: a process that can run does,
\* a child gets through execute, a pending signal is delivered to a command
\* that does not block it, a timer expires, init reaps what it inherits, and
\* epoll_wait reports the descriptors that are ready before it looks at a
\* pending signal, so that signals alone cannot keep it from doing so.
Fairness ==
  /\ WF_vars(ManagerStep)
  /\ SF_vars(EpollReturn /\ UNCHANGED sruncVars)
  /\ WF_vars(ClientStep)
  /\ WF_vars(ChildStarts)
  /\ WF_vars(ChildObeys)
  /\ WF_vars(Reparented)
  /\ WF_vars(Expiry)

FairSpec == Spec /\ Fairness

-----------------------------------------------------------------------------
(* What a session guarantees.                                              *)

\* kill(clonepid, SIGTERM) in stop_child and manager_destroy only ever names
\* this manager's own child, not yet waited for: never a recycled pid, never
\* 0 or -1 (a process group, every process).  Conversely a child the manager
\* has not reaped is one it still knows to be running, so it can stop it.
KillTargetsOwnChild ==
  pc # "dead" =>
    /\ child_status = "RUNNING" => clonepid = ChildPid
    /\ child_status = "RUNNING" <=> child \in Unreaped

\* While the manager lives, the file tmpfs/<pid> that LIST and STOP of other
\* managers go by, and the cgroup directory, belong to a child that has not
\* been reaped, except between waitpid and clear_clonepid.  (A directory that
\* rmdir cannot remove because descendants are in it may stay.)
ResourcesFresh ==
  pc # "dead" /\ (registered \/ (leaf /\ ~Orphans)) =>
    /\ clonepid = ChildPid
    /\ child \in Unreaped \/ pc \in {"clear", "dclear"}

\* The inductive strengthening of the two: how child_status, clonepid and the
\* registered resources follow the child through handle_request, wait_child
\* and clear_clonepid, at every point where another process may come in.
SessionInv ==
  /\ pc # "dead" =>
       /\ child_status = "RUNNING" <=> child \in Unreaped
       /\ clonepid = ChildPid <=>
            (child_status = "RUNNING" \/ pc \in {"clear", "dclear"})
       /\ registered => clonepid = ChildPid
       /\ leaf /\ ~Orphans => clonepid = ChildPid
  /\ pc \in {"cgroup", "register", "bind"} => child_status = "RUNNING"
  /\ pc \in {"clear", "dclear"} => child_status = "EXIT"
  /\ orphan => Orphans

\* How the commands of one manager look to LIST and STOP of the others.
Life ==
  IF pc # "dead" /\ child \in Unreaped THEN "running"
  ELSE IF pc \in {"clear", "dclear"} THEN "reaped"
  ELSE "idle"

CatalogueView == INSTANCE Catalogue WITH
  Pids   <- {ChildPid},
  life   <- [p \in {ChildPid} |-> Life],
  listed <- IF registered THEN {ChildPid} ELSE {},
  stale  <- IF registered /\ pc = "dead" THEN {ChildPid} ELSE {},
  up     <- TRUE

\* Whatever a client sends and whenever it goes, the commands its manager
\* executes one after the other appear in the registry and disappear from it
\* as Catalogue has it: the full manager does what Registry takes it to do.
KeepsCatalogue == CatalogueView!Spec

\* n bytes is what a message may carry of w written: all, or at least the
\* limit, and less than one read above it.
Carried(n, w) ==
  n <= w /\ (n < w => MsgLimit <= n) /\ n < MsgLimit + BufSize

\* Messages that carry the outcome of a command.
Replied == {i \in DOMAIN m2c : m2c[i].stat \notin {"NONE", "BADARGS"}}

\* The outcome waitpid gave, unless the timer has set another.
Outcome == {"TIMEOUT", IF exit = "normal" THEN "NORMAL" ELSE "ABNORMAL"}

\* n is what a reply has to carry of stream s.
Sent(s, n) ==
  CASE mode[s] = "MSG"  -> Carried(n, wrote[s])
    [] mode[s] = "FILE" -> n = 0 /\ (wrote[s] <= FileLimit
                                       => offset[s] = wrote[s])
    [] mode[s] = "IGN"  -> n = 0

\* The reply to a foreground request is sent only when the command is reaped
\* and both pipes are at their end or over the limit: it carries everything
\* the command and its descendants wrote, or the first 8 MB of it and no more
\* than the rest of the read that reached them; a file has received everything
\* if that is within its 32 MB (what happens beyond is FileWithinLimit in
\* OutputStream); and the status is the one waitpid gave (or TIMEOUT).
ReplyComplete ==
  \A i \in Replied : ~request.backend =>
    /\ child = "reaped"
    /\ m2c[i].stat \in Outcome
    /\ Sent("out", m2c[i].outstr)
    /\ Sent("err", m2c[i].errstr)

\* Whatever the order of exit, end of output, timer and disconnection, and
\* although a reply is sent from four places, a Srunc client is never sent a
\* second answer to its one request.
OneAnswer ==
  \A i, j \in DOMAIN m2c :
    m2c[i].method # "SYN" /\ m2c[j].method # "SYN" => i = j

InFlight == [SYN |-> {i \in DOMAIN m2c : m2c[i].method = "SYN"},
             ACK |-> {i \in DOMAIN c2m : c2m[i] = "ACK"}]

\* is_syn says exactly whether a keep-alive is under way: with a Srunc client
\* attached, one SYN is on its way to it or one ACK on its way back, and
\* never two.  So "syn timeout" is thrown only for an ACK really outstanding.
KeepAliveToken ==
  sockfd = "open" /\ connection = "open" /\ cstate = "polling" =>
    /\ is_syn  <=> InFlight.SYN # {} \/ InFlight.ACK # {}
    /\ \A i, j \in InFlight.SYN : i = j
    /\ \A i, j \in InFlight.ACK : i = j
    /\ InFlight.SYN = {} \/ InFlight.ACK = {}

\* How a session looks to its client.
JobView == INSTANCE Job WITH
  job      <- CASE child = "none"                  -> "idle"
                [] child \in {"setup", "running"}  -> "running"
                [] child \in {"zombie", "reaped"}  -> "ended",
  detached <- request.backend,
  answer   <- IF result_sendback THEN "sent" ELSE "none",
  outcome  <- CASE cstate = "connected" -> "asking"
                [] cstate = "polling"   -> "waiting"
                [] cstate = "done"      -> "true"
                [] cstate = "failed"    -> "false"

\* A session with a Srunc client implements Job, whatever is slow, dies, fails
\* or is merged on the wire: one execution, one answer, none of it before its
\* time, and run() returns true only when the manager has answered.
ImplementsJob == JobView!Spec

\* The inductive strengthening of these for a Srunc client, which sends one
\* request, and after it only ACKs: as long as the request is not read there is
\* no command and no answer, an answer is sent only by a manager that has not
\* answered and is not ending, and the keep-alive is accounted for from the
\* moment the client connects.
Attached == cstate \in {"connected", "polling"}
Ending   == {"destroy", "sleep", "dwait", "dclear", "close", "dead"}
Cloned   == {"cgroup", "register", "bind"}
Answers  == {i \in DOMAIN m2c : m2c[i].method # "SYN"}
Unasked  == cstate = "connected" \/ \E i \in DOMAIN c2m : c2m[i] # "ACK"

RequestFirst ==
  /\ cstate = "connected" => c2m = <<>>
  /\ \A i \in DOMAIN c2m : /\ c2m[i] # "SYN"
                           /\ i # 1 => c2m[i] = "ACK"

AnswerFollows ==
  /\ Unasked => child = "none" /\ ~result_sendback
  /\ pc # "dead" => (child = "none" <=> child_status = "NO_PROC")
  /\ pc \in Cloned => ~result_sendback
  /\ ~result_sendback /\ pc \notin Ending => Answers = {}
  /\ \A i \in Answers : m2c[i].method = "PART" \/ result_sendback

TokenKept ==
  /\ sockfd = "open" <=> Attached
  /\ pc = "syn" => ~is_syn
  /\ Attached => /\ is_syn <=> InFlight.SYN # {} \/ InFlight.ACK # {}
                 /\ \A i, j \in InFlight.SYN : i = j
                 /\ \A i, j \in InFlight.ACK : i = j
                 /\ InFlight.SYN = {} \/ InFlight.ACK = {}

ClientInv == RequestFirst /\ AnswerFollows /\ OneAnswer /\ TokenKept

\* And for ReplyComplete: what was written to a pipe is in the pipe or where
\* it belongs as long as the stream is not over, and from then on complete; a
\* stream that is over is neither read nor written any more.
Untouched(s) == str[s] = 0 /\ offset[s] = 0 /\ ~over[s]

Collected(s) ==
  CASE mode[s] = "MSG"  -> /\ str[s] + pipe[s] = wrote[s]
                           /\ str[s] < MsgLimit + BufSize
    [] mode[s] = "FILE" -> offset[s] + pipe[s] = wrote[s]
    [] mode[s] = "IGN"  -> TRUE

Complete(s) ==
  CASE mode[s] = "MSG"  -> Carried(str[s], wrote[s])
    [] mode[s] = "FILE" -> offset[s] = wrote[s]
    [] mode[s] = "IGN"  -> TRUE

StreamInv(s) ==
  /\ child = "none" =>
       Untouched(s) /\ ~pipefd[s] /\ pipe[s] = 0 /\ wrote[s] = 0
  /\ pc \in Cloned => Untouched(s)
  /\ pipefd[s] => ~over[s] /\ mode[s] # "IGN"
  /\ s \in evs => pipefd[s]
  /\ pc # "dead" /\ ~pipefd[s] => pipe[s] = 0
  /\ pc # "dead" /\ ~over[s] => Collected(s)
  /\ over[s] => Complete(s)

StatGiven == pc # "dead" /\ child = "reaped" => stat \in Outcome

RepliesKept ==
  /\ Replied \subseteq Answers
  /\ Replied # {} /\ ~request.backend => \A s \in Streams : over[s]
  /\ ReplyComplete

ReplyInv == (\A s \in Streams : StreamInv(s)) /\ StatGiven /\ RepliesKept

\* A Srunc client that reads and answers within the second is never taken for
\* dead: epoll_wait running out does not lead to the "syn timeout" exception.
LiveClientKept == [][pc = "epoll" => pc' # "destroy"]_vars

\* The client gets its answer, or learns that there will be none.
ClientAnswered == cstate = "polling" ~> cstate \in {"done", "failed"}

\* A dead command is reaped.
ZombieReaped == child = "zombie" ~> child = "reaped"

\* A command that outlives its timeout is stopped.
DeadlineKills == timerfd = "expired" /\ child = "running" ~> child # "running"

\* Once the client is gone, answered or not, the manager process ends.
SessionEnds == sockfd = "closed" ~> pc = "dead"

-----------------------------------------------------------------------------
(* What the documentation and the comments promise and the code does not.  *)

\* A command that the timer has sent SIGTERM is reported TIMEOUT.
TimeoutReported ==
  [](term /\ stat = "TIMEOUT"
       => [](\A i \in Replied : m2c[i].stat = "TIMEOUT"))

\* A command that is executing is subject to its memory limit.
RunsLimited == child = "running" => limited

\* A reply within the 8 MB limit reaches the client whole.
ReplyWhole == \A i \in DOMAIN m2c : m2c[i].method # "PART"

\* The client's disconnection stops a foreground command it awaits.
DisconnectStopsCommand ==
  /\ pc # "dead"
  /\ connection = "closed"
  /\ ~request.backend
  /\ ~result_sendback
  /\ child = "running"
  ~> child # "running"

\* LIST shows running commands: a registered command is alive, or a zombie
\* its manager is about to clear away.
ListedIsRunning ==
  registered => child \in Unreaped \/ pc \in {"clear", "dclear"}
=============================================================================
