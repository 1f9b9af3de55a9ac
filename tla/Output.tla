------------------------------- MODULE Output -------------------------------
(***************************************************************************)
(* The two Output objects of the manager, out and err: load before clone,  *)
(* bind after it, receive whenever epoll reports the pipe.  Lengths are in *)
(* bytes.                                                                  *)
(***************************************************************************)
EXTENDS Command

CONSTANTS
  MsgLimit,   \* 8 MB in the code: length at which str is full
  FileLimit,  \* 32 MB in the code: length the file is not to exceed
  BufSize     \* 1024 in the code: what one read() returns at most

ASSUME OutputAssumption ==
  MsgLimit \in Nat /\ FileLimit \in Nat /\ BufSize \in Nat \ {0}

Mode == {"IGN", "MSG", "FILE"}

VARIABLES
  mode,    \* [Streams -> Mode]
  over,    \* [Streams -> BOOLEAN]: nothing more will be received
  str,     \* [Streams -> Nat]: bytes collected for the reply
  offset   \* [Streams -> Nat]: file position of redirect_fd

outputVars == <<mode, over, str, offset>>

\* load makes a pipe for this mode.
Piped(m, backend) == m = "FILE" \/ (m = "MSG" /\ ~backend)

\* Output::load of both streams for modes m, without its failures.
load(m, backend) ==
  LET piped == {s \in Streams : Piped(m[s], backend)}
  IN  /\ mode' = m
      /\ pipefd' = [s \in Streams |-> pipefd[s] \/ s \in piped]
      /\ pipe' = [s \in Streams |-> IF s \in piped THEN 0 ELSE pipe[s]]
      /\ wrote' = [s \in Streams |-> IF s \in piped THEN 0 ELSE wrote[s]]

\* Mutant of bind: a failed open of the outfile goes unnoticed.
bind_unchecked ==
  /\ over' = [s \in Streams |-> over[s] \/ ~pipefd[s]]
  /\ offset' = [s \in Streams |->
                  IF pipefd[s] /\ mode[s] = "FILE" THEN -1 ELSE offset[s]]

\* Output::bind of both streams, without its failures: a stream without a
\* pipe is over at once.
bind ==
  /\ over' = [s \in Streams |-> over[s] \/ ~pipefd[s]]
  /\ offset' = [s \in Streams |->
                  IF pipefd[s] /\ mode[s] = "FILE" THEN 0 ELSE offset[s]]

\* bind adds a pipe to epoll that a previous command left there: EEXIST.
BindsTwice(backend) ==
  \E s \in Streams : pipefd[s] /\ ~Piped(mode[s], backend)

\* What str takes before the size test trips.
Room(s) == IF str[s] < MsgLimit THEN MsgLimit - str[s] ELSE 0

\* The test on the file position.  lseek never yields a position that passes.
FileOverlimit(off) == off = -1 /\ off >= FileLimit

\* receive may keep n of the bytes in the pipe.  The size of str is tested
\* before a read is appended, so the last one may go past the limit, by less
\* than BufSize; how far depends on how the reads were cut.
Keeps(s, n) ==
  CASE mode[s] = "MSG"  -> /\ n = pipe[s] \/ Room(s) <= n
                           /\ n = 0 \/ (Room(s) > 0 /\ n < Room(s) + BufSize)
    [] mode[s] = "FILE" -> n = IF FileOverlimit(offset[s]) THEN 0 ELSE pipe[s]
    [] mode[s] = "IGN"  -> n = 0

\* Output::receive when n of the bytes in the pipe are kept: the stream is
\* over if that is not all of them, and if there was nothing (end of file).
Receive(s, n) ==
  LET done == n < pipe[s] \/ pipe[s] = 0
  IN  /\ str' = [str EXCEPT ![s] = IF mode[s] = "MSG" THEN @ + n ELSE @]
      /\ offset' = [offset EXCEPT ![s] = IF mode[s] = "FILE" THEN @ + n ELSE @]
      /\ pipe' = [pipe EXCEPT ![s] = 0]
      /\ over' = [over EXCEPT ![s] = @ \/ done]
      /\ pipefd' = [pipefd EXCEPT ![s] = ~done]

\* Output::receive: drain the pipe.
receive(s) == \E n \in 0 .. pipe[s] : Keeps(s, n) /\ Receive(s, n)

OutputTypeOK ==
  /\ mode \in [Streams -> Mode]
  /\ over \in [Streams -> BOOLEAN]
  /\ str \in [Streams -> Nat]
  /\ offset \in [Streams -> Nat]

OutputInit ==
  /\ mode = [s \in Streams |-> "IGN"]
  /\ over = [s \in Streams |-> FALSE]
  /\ str = [s \in Streams |-> 0]
  /\ offset = [s \in Streams |-> 0]
=============================================================================
