------------------------------ MODULE Command -------------------------------
(***************************************************************************)
(* The process the manager clones: execute() up to execv, then the command *)
(* itself (external: any program), and the pipes it writes to.             *)
(*                                                                         *)
(* Until execv the child runs with the handler the manager installed for   *)
(* SIGTERM (a cloned process inherits it, execve resets it): the signal    *)
(* sets process_stop in the child's copy, or nothing at all, and the child *)
(* carries on.  Only an exec'd command has the default action.             *)
(***************************************************************************)
EXTENDS Integers

CONSTANTS
  MaxWrites,   \* bound: bytes a command writes to one pipe
  Orphans      \* BOOLEAN: commands may leave descendants holding the pipes

ASSUME CommandAssumption == MaxWrites \in Nat /\ Orphans \in BOOLEAN

Streams == {"out", "err"}

VARIABLES
  child,    \* "none", "setup" (before execv), "running", "zombie", "reaped"
  exit,     \* wait status of a dead child: "normal" (WIFEXITED) or "abnormal"
  term,     \* SIGTERM is pending for the exec'd command
  limited,  \* the child has been written to its memory cgroup
  orphan,   \* a descendant still holds the write ends of the pipes
  pipefd,   \* [Streams -> BOOLEAN]: the manager's read end is open
  pipe,     \* [Streams -> Nat]: bytes in the pipe
  wrote     \* [Streams -> Nat]: bytes ever put in the pipe (history)

commandVars == <<child, exit, term, limited, orphan, pipefd, pipe, wrote>>

Unreaped == {"setup", "running", "zombie"}

\* Someone can still write to the pipes: read returns EAGAIN, not 0.
Writers == child \in {"setup", "running"} \/ orphan

\* kill(pid of the child, SIGTERM).
Kill == term' = (term \/ child = "running")

\* execute reaches execv: dup, getpwnam, setgid, setuid, chdir, prctl, nice,
\* setenv, execv.
Execv ==
  /\ child = "setup"
  /\ child' = "running"
  /\ UNCHANGED <<exit, term, limited, orphan, pipefd, pipe, wrote>>

\* execute gives up: an exception ends in exit(-1), a failed execv in abort().
ExecuteFails ==
  /\ child = "setup"
  /\ child' = "zombie"
  /\ exit' \in {"normal", "abnormal"}
  /\ UNCHANGED <<term, limited, orphan, pipefd, pipe, wrote>>

\* The command returns, crashes, is killed by the OOM killer or by anyone.
CommandExits ==
  /\ child = "running"
  /\ child' = "zombie"
  /\ exit' \in {"normal", "abnormal"}
  /\ term' = FALSE
  /\ UNCHANGED <<limited, orphan, pipefd, pipe, wrote>>

\* The command dies of SIGTERM, or ends in a handler for it.
CommandObeysTerm == term /\ CommandExits

CommandWrites(s) ==
  /\ child = "running" \/ orphan
  /\ pipefd[s]
  /\ wrote[s] < MaxWrites
  /\ pipe' = [pipe EXCEPT ![s] = @ + 1]
  /\ wrote' = [wrote EXCEPT ![s] = @ + 1]
  /\ UNCHANGED <<child, exit, term, limited, orphan, pipefd>>

CommandForks ==
  /\ Orphans
  /\ child = "running"
  /\ ~orphan
  /\ orphan' = TRUE
  /\ UNCHANGED <<child, exit, term, limited, pipefd, pipe, wrote>>

OrphanExits ==
  /\ orphan
  /\ orphan' = FALSE
  /\ UNCHANGED <<child, exit, term, limited, pipefd, pipe, wrote>>

\* The manager is gone: init inherits the zombie and reaps it.
InitReaps ==
  /\ child = "zombie"
  /\ child' = "reaped"
  /\ UNCHANGED <<exit, term, limited, orphan, pipefd, pipe, wrote>>

CommandFlagsOK ==
  /\ term \in BOOLEAN
  /\ limited \in BOOLEAN
  /\ orphan \in BOOLEAN

CommandTypeOK ==
  /\ CommandFlagsOK
  /\ child \in Unreaped \cup {"none", "reaped"}
  /\ exit \in {"normal", "abnormal"}
  /\ pipefd \in [Streams -> BOOLEAN]
  /\ pipe \in [Streams -> Nat]
  /\ wrote \in [Streams -> Nat]

CommandInit ==
  /\ child = "none"
  /\ exit = "normal"
  /\ term = FALSE
  /\ limited = FALSE
  /\ orphan = FALSE
  /\ pipefd = [s \in Streams |-> FALSE]
  /\ pipe = [s \in Streams |-> 0]
  /\ wrote = [s \in Streams |-> 0]
=============================================================================
