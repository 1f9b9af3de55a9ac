------------------------------ MODULE Registry ------------------------------
(***************************************************************************)
(* What all managers share: the directory with one file per running        *)
(* command that LIST and STOP go by, the memory cgroups, and the pids.     *)
(* A manager is reduced to the points at which it touches them.            *)
(*                                                                         *)
(* flock(lockfd) is no step: every manager has lockfd from the daemon by   *)
(* fork, so all of them lock the same open file description, and the call  *)
(* never makes one wait for another.                                       *)
(***************************************************************************)
EXTENDS Integers, Sequences

CONSTANTS
  Runners,      \* connections whose client asks to execute a command
  Askers,       \* connections whose client asks for LIST or STOP
  Pids,         \* process ids
  ProtoVersion  \* 2 or 3: whether an empty file parses as a message

ASSUME RegistryAssumption ==
  /\ Runners \cap Askers = {}
  /\ Pids \subseteq Nat \ {0}
  /\ ProtoVersion \in {2, 3}

Mgrs == Runners \cup Askers

VARIABLES
  fs,        \* directories mounted over each other at the path tmpfs, the
             \* last one visible; the first is the one on the disk
  cg,        \* [Pids -> ...] the cgroup directory: "none", "dir", or "in"
             \* when the process is in it
  proc,      \* [Pids -> ...] "free", "alive", "zombie" or "foreign"
  left,      \* files, <<index in fs, pid>>, whose manager ended without
             \* removing them (history)
  recycled,  \* pids given away again while a manager that had reaped one
             \* was still to clear up after it (history)
  mpc,       \* [Mgrs -> ...] where the manager is
  clonepid,  \* [Mgrs -> Pids or 0]
  todo,      \* [Mgrs -> SUBSET Pids] entries still to be read, pid to stop
  got        \* [Mgrs -> SUBSET Pids] entries read by LIST

registryVars == <<fs, cg, proc, left, recycled, mpc, clonepid, todo, got>>

Entry == {"none", "empty", "whole"}   \* a file: absent, just created, written
NoFiles == [p \in Pids |-> "none"]

\* Points of a manager: ready (in its loop, without a child), the stages of
\* handle_request after clone, run (in its loop), unlink and rmdir
\* (clear_clonepid), destroy, list, exists and kill (STOP), exit.
MgrPoints == {"none", "queued", "ready", "leaf", "procs", "open", "write",
              "run", "unlink", "rmdir", "destroy", "list", "exists", "kill",
              "exit", "zombie"}

\* The manager has a child it has not reaped; it has reaped it and not yet
\* cleared up after it.
Holding == {"leaf", "procs", "open", "write", "run", "destroy"}
Clearing == {"unlink", "rmdir"}

Top == Len(fs)
Owner(p) == {m \in Mgrs : clonepid[m] = p}
Go(m, from, to) == mpc[m] = from /\ mpc' = [mpc EXCEPT ![m] = to]

\* A new process gets the pid p.  waitpid frees a pid, and nothing in the code
\* keeps it from being given away before unlink and rmdir: that the kernel
\* hands out pids in turn makes it unlikely.
Allocate(p, as) ==
  /\ proc[p] = "free"
  /\ proc' = [proc EXCEPT ![p] = as]
  /\ recycled' = IF \E m \in Owner(p) : mpc[m] \in Clearing
                 THEN recycled \cup {p} ELSE recycled

-----------------------------------------------------------------------------
(* handle_request: every stage may throw, which leads to manager_destroy.  *)

Clone(m) ==
  /\ m \in Runners
  /\ Go(m, "ready", "leaf")
  /\ \E p \in Pids : /\ Allocate(p, "alive")
                     /\ clonepid' = [clonepid EXCEPT ![m] = p]
  /\ UNCHANGED <<fs, cg, left, todo, got>>

MakeLeaf(m) ==
  LET p == clonepid[m]
  IN  /\ Go(m, "leaf", "procs")
      /\ cg' = [cg EXCEPT ![p] = IF @ = "none" THEN "dir" ELSE @]
      /\ UNCHANGED <<fs, proc, recycled, left, clonepid, todo, got>>

\* cgroup.procs can be written only while the directory exists.
JoinLeaf(m) ==
  LET p == clonepid[m]
  IN  /\ Go(m, "procs", "open")
      /\ cg[p] # "none"
      /\ cg' = [cg EXCEPT ![p] = IF proc[p] = "alive" THEN "in" ELSE @]
      /\ UNCHANGED <<fs, proc, recycled, left, clonepid, todo, got>>

\* write_file creates or truncates the file, then writes it and closes it.
OpenEntry(m) ==
  LET p == clonepid[m]
  IN  /\ Go(m, "open", "write")
      /\ fs' = [fs EXCEPT ![Top][p] = "empty"]
      /\ left' = left \ {<<Top, p>>}
      /\ UNCHANGED <<cg, proc, recycled, clonepid, todo, got>>

\* A file that was unlinked after it was opened does not come back.
WriteEntry(m) ==
  /\ Go(m, "write", "run")
  /\ fs' = [fs EXCEPT ![Top][clonepid[m]] = IF @ = "none" THEN @ ELSE "whole"]
  /\ UNCHANGED <<cg, proc, recycled, left, clonepid, todo, got>>

\* An exception, at any stage or later in the loop.
Throw(m) ==
  /\ \E at \in {"leaf", "procs", "open", "write", "run"} : Go(m, at, "destroy")
  /\ UNCHANGED <<fs, cg, proc, recycled, left, clonepid, todo, got>>

-----------------------------------------------------------------------------
(* wait_child, clear_clonepid and the end of a manager.                    *)

Reap(m) ==
  LET p == clonepid[m]
  IN  /\ \E at \in {"run", "destroy"} : Go(m, at, "unlink")
      /\ proc[p] = "zombie"
      /\ proc' = [proc EXCEPT ![p] = "free"]
      /\ UNCHANGED <<fs, cg, left, recycled, clonepid, todo, got>>

\* Mutant of Unlink: the file is left for the end of the daemon.
Unlink_never(m) ==
  /\ Go(m, "unlink", "rmdir")
  /\ UNCHANGED <<fs, cg, proc, recycled, left, clonepid, todo, got>>

Unlink(m) ==
  /\ Go(m, "unlink", "rmdir")
  /\ fs' = [fs EXCEPT ![Top][clonepid[m]] = "none"]
  /\ left' = left \ {<<Top, clonepid[m]>>}
  /\ UNCHANGED <<cg, proc, recycled, clonepid, todo, got>>

\* rmdir fails for a directory with a process in it, this command or one of
\* its descendants.
Rmdir(m) ==
  LET p == clonepid[m]
  IN  /\ Go(m, "rmdir", "exit")
      /\ \/ cg' = [cg EXCEPT ![p] = IF @ = "dir" THEN "none" ELSE @]
         \/ UNCHANGED cg
      /\ clonepid' = [clonepid EXCEPT ![m] = 0]
      /\ UNCHANGED <<fs, proc, recycled, left, todo, got>>

\* Mutant of LeaveChild: the file goes although the command may still run.
LeaveChild_unlinks(m) ==
  LET p == clonepid[m]
  IN  /\ Go(m, "destroy", "exit")
      /\ proc[p] = "alive"
      /\ fs' = [fs EXCEPT ![Top][p] = "none"]
      /\ left' = left \ {<<Top, p>>}
      /\ clonepid' = [clonepid EXCEPT ![m] = 0]
      /\ UNCHANGED <<cg, proc, recycled, todo, got>>

\* manager_destroy waited two seconds; the child is still there.
LeaveChild(m) ==
  LET p == clonepid[m]
  IN  /\ Go(m, "destroy", "exit")
      /\ proc[p] = "alive"
      /\ left' = left \cup (IF fs[Top][p] # "none" THEN {<<Top, p>>} ELSE {})
      /\ clonepid' = [clonepid EXCEPT ![m] = 0]
      /\ UNCHANGED <<fs, cg, proc, recycled, todo, got>>

\* The client of an idle manager goes away.
Quit(m) ==
  /\ Go(m, "ready", "exit")
  /\ UNCHANGED <<fs, cg, proc, recycled, left, clonepid, todo, got>>

-----------------------------------------------------------------------------
(* LIST and STOP.                                                          *)

\* directory_iterator: the entries there are when it is opened.
ListStart(m) ==
  /\ m \in Askers
  /\ Go(m, "ready", "list")
  /\ todo' = [todo EXCEPT ![m] = {p \in Pids : fs[Top][p] # "none"}]
  /\ got' = [got EXCEPT ![m] = {}]
  /\ UNCHANGED <<fs, cg, proc, recycled, left, clonepid>>

\* Mutant of Parses: what the file holds is not looked at.
Parses_any(p) == fs[Top][p] # "none"

\* ParseFromString accepts what read_file returned: method is required in
\* proto2, so that an empty file is no message.
Parses(p) == fs[Top][p] = "whole" \/ (fs[Top][p] = "empty" /\ ProtoVersion = 3)

ListRead(m) ==
  /\ mpc[m] = "list"
  /\ \E p \in todo[m] : /\ Parses(p)
                        /\ todo' = [todo EXCEPT ![m] = @ \ {p}]
                        /\ got' = [got EXCEPT ![m] = @ \cup {p}]
  /\ UNCHANGED <<fs, cg, proc, recycled, left, mpc, clonepid>>

\* fopen fails, the file does not parse, or last_write_time finds it gone.
ListThrows(m) ==
  /\ Go(m, "list", "exit")
  /\ \/ \E p \in todo[m] : ~Parses(p)
     \/ \E p \in got[m] : fs[Top][p] = "none"
  /\ todo' = [todo EXCEPT ![m] = {}]
  /\ got' = [got EXCEPT ![m] = {}]
  /\ UNCHANGED <<fs, cg, proc, recycled, left, clonepid>>

ListAnswer(m) ==
  /\ Go(m, "list", "exit")
  /\ todo[m] = {}
  /\ got' = [got EXCEPT ![m] = {}]
  /\ UNCHANGED <<fs, cg, proc, recycled, left, clonepid, todo>>

\* STOP of one pid; a longer list repeats the two steps.
StopStart(m) ==
  /\ m \in Askers
  /\ Go(m, "ready", "exists")
  /\ \E p \in Pids : todo' = [todo EXCEPT ![m] = {p}]
  /\ UNCHANGED <<fs, cg, proc, recycled, left, clonepid, got>>

StopExists(m) ==
  /\ \E p \in todo[m] :
       IF fs[Top][p] # "none"
       THEN Go(m, "exists", "kill") /\ UNCHANGED todo
       ELSE Go(m, "exists", "exit") /\ todo' = [todo EXCEPT ![m] = {}]
  /\ UNCHANGED <<fs, cg, proc, recycled, left, clonepid, got>>

\* Mutant of StopKill: the manager that stops a command unlinks its file.
StopKill_unlinks(m) ==
  /\ Go(m, "kill", "exit")
  /\ fs' = [fs EXCEPT ![Top] = [p \in Pids |-> IF p \in todo[m] THEN "none"
                                                               ELSE @[p]]]
  /\ todo' = [todo EXCEPT ![m] = {}]
  /\ UNCHANGED <<cg, proc, recycled, left, clonepid, got>>

\* kill(pid, SIGTERM): commands end when they like (CommandDies).
StopKill(m) ==
  /\ Go(m, "kill", "exit")
  /\ todo' = [todo EXCEPT ![m] = {}]
  /\ UNCHANGED <<fs, cg, proc, recycled, left, clonepid, got>>

-----------------------------------------------------------------------------
(* Processes: commands, and others that get a pid once it is free.         *)

CommandDies(p) ==
  /\ proc[p] = "alive"
  /\ \E next \in {"zombie", "free"} :
       /\ next = "zombie" <=> \E m \in Owner(p) : mpc[m] \in Holding
       /\ proc' = [proc EXCEPT ![p] = next]
  /\ cg' = [cg EXCEPT ![p] = IF @ = "in" THEN "dir" ELSE @]
  /\ UNCHANGED <<fs, left, recycled, mpc, clonepid, todo, got>>

ForeignProcess(p) ==
  /\ \/ Allocate(p, "foreign")
     \/ /\ proc[p] = "foreign"
        /\ proc' = [proc EXCEPT ![p] = "free"]
        /\ UNCHANGED recycled
  /\ UNCHANGED <<fs, cg, left, mpc, clonepid, todo, got>>

RegistryStep ==
  \/ \E m \in Mgrs :
       \/ Clone(m) \/ MakeLeaf(m) \/ JoinLeaf(m) \/ OpenEntry(m)
       \/ WriteEntry(m) \/ Throw(m)
       \/ Reap(m) \/ Unlink(m) \/ Rmdir(m) \/ LeaveChild(m) \/ Quit(m)
       \/ ListStart(m) \/ ListRead(m) \/ ListThrows(m) \/ ListAnswer(m)
       \/ StopStart(m) \/ StopExists(m) \/ StopKill(m)
  \/ \E p \in Pids : CommandDies(p) \/ ForeignProcess(p)

RegistryTypeOK ==
  /\ fs \in Seq([Pids -> Entry]) /\ Len(fs) \in 1 .. 2
  /\ cg \in [Pids -> {"none", "dir", "in"}]
  /\ proc \in [Pids -> {"free", "alive", "zombie", "foreign"}]
  /\ left \subseteq Nat \X Pids /\ recycled \subseteq Pids
  /\ mpc \in [Mgrs -> MgrPoints]
  /\ clonepid \in [Mgrs -> Pids \cup {0}]
  /\ {todo, got} \subseteq [Mgrs -> SUBSET Pids]

RegistryInit ==
  /\ fs = <<NoFiles>>
  /\ cg = [p \in Pids |-> "none"]
  /\ proc = [p \in Pids |-> "free"] /\ left = {} /\ recycled = {}
  /\ mpc = [m \in Mgrs |-> "none"]
  /\ clonepid = [m \in Mgrs |-> 0]
  /\ todo = [m \in Mgrs |-> {}] /\ got = todo
=============================================================================
