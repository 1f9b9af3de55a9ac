---------------------------- MODULE OutputStream ----------------------------
(***************************************************************************)
(* One Output object read by read.  Module Output takes Output::receive as *)
(* one step; here every read() of its loop is one, and the command goes on *)
(* writing while the manager is inside.  The module shows that the one     *)
(* step is justified, and what the loop does to the other events of the    *)
(* manager: nothing else is handled until read() finds the pipe empty.     *)
(*                                                                         *)
(* Lengths are in bytes.  A read() returns any part of what is in the pipe *)
(* up to BufSize.                                                          *)
(***************************************************************************)
EXTENDS Integers

CONSTANTS
  PipeCap,    \* capacity of the pipe
  MsgLimit,   \* 8 MB in the code
  FileLimit,  \* 32 MB in the code
  BufSize,    \* 1024 in the code
  Endless,    \* BOOLEAN: a command may write to a file for ever
  MaxWrites   \* bound: what is followed of the output to a file

ASSUME StreamAssumption ==
  /\ {PipeCap, MsgLimit, FileLimit} \subseteq Nat
  /\ {BufSize, MaxWrites} \subseteq Nat \ {0}
  /\ Endless \in BOOLEAN

VARIABLES
  mode,     \* "MSG" or "FILE"
  command,  \* "runs", "told" (SIGTERM is pending) or "gone"
  pipe,     \* what is in the pipe
  pipefd,   \* the read end is open
  pc,       \* "epoll", "events" or "receive" (inside the loop of reads)
  evs,      \* events of the batch not yet handled
  total,    \* read_total_size of this call
  str, offset, over,
  timer     \* "armed", "expired" or "closed"

vars == <<mode, command, pipe, pipefd, pc, evs, total, str, offset, over,
          timer>>

Bounded(n) == IF mode = "FILE" /\ n > MaxWrites THEN MaxWrites ELSE n

Init ==
  /\ mode \in {"MSG", "FILE"}
  /\ command = "runs"
  /\ pipe = 0 /\ pipefd = TRUE
  /\ pc = "epoll" /\ evs = {}
  /\ total = 0 /\ str = 0 /\ offset = 0
  /\ over = FALSE
  /\ timer = "armed"

-----------------------------------------------------------------------------
(* The command: any program, writing byte by byte.  Output to a message    *)
(* may always be endless.                                                  *)

CommandWrites ==
  /\ command # "gone"
  /\ pipefd
  /\ pipe < PipeCap
  /\ mode = "FILE" /\ ~Endless => offset + pipe < MaxWrites
  /\ pipe' = pipe + 1
  /\ UNCHANGED <<mode, command, pipefd, pc, evs, total, str, offset, over,
                 timer>>

CommandExits ==
  /\ command # "gone"
  /\ command' = "gone"
  /\ UNCHANGED <<mode, pipe, pipefd, pc, evs, total, str, offset, over, timer>>

TimerExpires ==
  /\ timer = "armed"
  /\ timer' = "expired"
  /\ UNCHANGED <<mode, command, pipe, pipefd, pc, evs, total, str, offset,
                 over>>

-----------------------------------------------------------------------------
(* The manager.                                                            *)

Ready ==
  {e \in {"out"} : pipefd /\ (pipe > 0 \/ command = "gone")}
  \cup {e \in {"timer"} : timer = "expired"}

EpollReturn ==
  /\ pc = "epoll"
  /\ Ready # {}
  /\ evs' = Ready
  /\ pc' = "events"
  /\ UNCHANGED <<mode, command, pipe, pipefd, total, str, offset, over, timer>>

EventsDone ==
  /\ pc = "events"
  /\ evs = {}
  /\ pc' = "epoll"
  /\ UNCHANGED <<mode, command, pipe, pipefd, evs, total, str, offset, over,
                 timer>>

\* Mutant of stop_child: the command is not signalled.
stop_child_spares == UNCHANGED command

stop_child == command' = IF command = "runs" THEN "told" ELSE command

HandleTimer ==
  /\ pc = "events"
  /\ "timer" \in evs
  /\ evs' = evs \ {"timer"}
  /\ timer' = "closed"
  /\ stop_child
  /\ UNCHANGED <<mode, pipe, pipefd, pc, total, str, offset, over>>

CallReceive ==
  /\ pc = "events"
  /\ "out" \in evs
  /\ evs' = evs \ {"out"}
  /\ pc' = "receive"
  /\ total' = 0
  /\ UNCHANGED <<mode, command, pipe, pipefd, str, offset, over, timer>>

\* Mutant of Overlimit: the size of the message is not looked at.
Overlimit_never == mode = "FILE" /\ offset = -1 /\ offset >= FileLimit

\* The test after a read.  The one on the file position is never true.
Overlimit ==
  \/ mode = "MSG" /\ str >= MsgLimit
  \/ mode = "FILE" /\ offset = -1 /\ offset >= FileLimit

\* read() = len > 0, and the limit not reached before: all of it is appended
\* to str, or written to redirect_fd.
ReadMore(len) ==
  /\ pc = "receive"
  /\ len <= pipe
  /\ ~Overlimit
  /\ pipe' = pipe - len
  /\ total' = Bounded(total + len)
  /\ str' = IF mode = "MSG" THEN str + len ELSE str
  /\ offset' = IF mode = "FILE" THEN Bounded(offset + len) ELSE offset
  /\ UNCHANGED <<mode, command, pipefd, pc, evs, over, timer>>

\* Mutant of Ended: an empty pipe is taken for the end of the output.
Ended_eager(overlimit, n) == TRUE

\* Mutant of Ended: the end of the output goes unnoticed.
Ended_open(overlimit, n) == overlimit

\* The test at the end of receive, n read in all.
Ended(overlimit, n) == overlimit \/ n <= 0

\* Closing the pipe discards what is in it.
ReturnReceive(overlimit, n) ==
  /\ pc' = "events"
  /\ over' = (over \/ Ended(overlimit, n))
  /\ pipefd' = ~Ended(overlimit, n)
  /\ pipe' = IF Ended(overlimit, n) THEN 0 ELSE pipe
  /\ total' = 0
  /\ UNCHANGED <<mode, command, evs, str, offset, timer>>

\* read() = len > 0 at the limit: break, and these bytes are lost.
ReadTooMuch(len) ==
  /\ pc = "receive"
  /\ len <= pipe
  /\ Overlimit
  /\ ReturnReceive(TRUE, total + len)

\* read() is 0 (end of file) or -1 (EAGAIN).
ReadNothing ==
  /\ pc = "receive"
  /\ pipe = 0
  /\ ReturnReceive(FALSE, total)

ManagerStep ==
  \/ EpollReturn \/ EventsDone \/ HandleTimer
  \/ CallReceive
  \/ \E len \in 1 .. BufSize : ReadMore(len) \/ ReadTooMuch(len)
  \/ ReadNothing

Next == ManagerStep \/ CommandWrites \/ CommandExits \/ TimerExpires

Spec == Init /\ [][Next]_vars

\* The manager runs when it can, the timer expires, and a command dies of
\* SIGTERM.  It need not write, stop writing or exit by itself.
FairSpec ==
  /\ Spec
  /\ WF_vars(ManagerStep)
  /\ WF_vars(TimerExpires)
  /\ WF_vars(command = "told" /\ CommandExits)

-----------------------------------------------------------------------------
(* What the object guarantees.                                             *)

\* Every variable has its type: the collected string passes the limit by less
\* than one buffer, since its size is tested before a read is appended, and the
\* descriptor is closed exactly when nothing more will be received.
TypeOK ==
  /\ mode \in {"MSG", "FILE"}
  /\ command \in {"runs", "told", "gone"}
  /\ pipe \in 0 .. PipeCap
  /\ pc \in {"epoll", "events", "receive"}
  /\ evs \subseteq {"out", "timer"}
  /\ total \in Nat /\ offset \in Nat
  /\ str \in Nat /\ str < MsgLimit + BufSize
  /\ pipefd \in BOOLEAN /\ over = ~pipefd
  /\ timer \in {"armed", "expired", "closed"}

\* The inductive strengthening: receive is entered for an open pipe only, and
\* only when there is something to read or nobody left to write; total counts
\* what this call has added to the string or the file, and a command that does
\* not write for ever stays within the bound.
StreamInv ==
  /\ TypeOK
  /\ pc = "receive" => pipefd
  /\ "out" \in evs => pipefd /\ pc = "events"
  /\ "out" \in evs \/ (pc = "receive" /\ total = 0) =>
       pipe > 0 \/ command = "gone"
  /\ mode = "MSG" /\ total > 0 => str - total < MsgLimit
  /\ pc # "receive" => total = 0
  /\ mode = "MSG" => total <= str
  /\ mode = "FILE" => total <= offset
  /\ mode = "FILE" /\ ~Endless => offset + pipe <= MaxWrites

\* What module Output sees: until receive returns, what it has read is still
\* in the pipe.
Unread    == pipe + total
Collected == IF mode = "MSG" THEN str - total ELSE str
Written   == IF mode = "FILE" THEN offset - total ELSE offset

Stream(x, none) == [s \in {"out", "err"} |-> IF s = "out" THEN x ELSE none]

Abstract == INSTANCE Output WITH
  Orphans <- FALSE,
  child   <- IF command = "gone" THEN "zombie" ELSE "running",
  exit <- "normal", term <- command = "told", limited <- TRUE, orphan <- FALSE,
  wrote   <- Stream(0, 0),
  mode    <- Stream(mode, "IGN"),
  pipefd  <- Stream(pipefd, FALSE),
  pipe    <- Stream(Unread, 0),
  over    <- Stream(over, TRUE),
  str     <- Stream(Collected, 0),
  offset  <- Stream(Written, 0)

\* Output::receive, with the command writing between its reads, comes to the
\* same as the one step of module Output at the moment it returns: it keeps
\* all there is up to the limit, loses nothing, and ends the stream only when
\* the command is gone or a message has reached the limit.  A pipe that is
\* empty for the moment is never taken for the end of the output.
ImplementsReceive ==
  [][\/ /\ Abstract!receive("out")
        /\ over' => command = "gone" \/ (mode = "MSG" /\ str >= MsgLimit)
     \/ Unread' = Unread + 1 /\ UNCHANGED <<Collected, Written, over, pipefd>>
    ]_<<Unread, Collected, Written, over, pipefd>>

\* A command that outlives its timeout is stopped, although it may keep the
\* pipe full for ever.
DeadlineServed == timer = "expired" ~> command = "gone"

\* The stream comes to its end once the timeout has expired, so that the reply
\* can be sent.
StreamEnds == timer = "expired" ~> over

-----------------------------------------------------------------------------
(* What a comment promises and the code does not.                          *)

\* "std_out outfile cannot bigger than 32 MB": a file passes its limit by less
\* than one buffer, as the string does.
FileWithinLimit == mode = "FILE" => offset < FileLimit + BufSize
=============================================================================
