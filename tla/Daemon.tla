------------------------------- MODULE Daemon -------------------------------
(***************************************************************************)
(* The main program srund: the start up to listen, the accept loop, the    *)
(* fork of a manager per connection, and clear_resource; and systemd,      *)
(* which starts it, stops it and, when that takes too long, kills all      *)
(* processes of the service (external: systemd/service.cmake).             *)
(*                                                                         *)
(* dpc: down, mount, listen (main up to the loop), accept (about to call   *)
(* accept4), blocked (in it), eintr (it was interrupted), umount and clear *)
(* (clear_resource), exited (systemd ends what is left of the service).    *)
(***************************************************************************)
EXTENDS Registry

CONSTANTS
  ListenQueue,  \* MAX_LISTEN_QUEUE
  Kills         \* BOOLEAN: systemd loses patience and sends SIGKILL

ASSUME DaemonAssumption == ListenQueue \in Nat \ {0} /\ Kills \in BOOLEAN

VARIABLES
  dpc,
  dstop,   \* process_stop of the daemon
  backlog  \* connections not yet accepted

daemonVars == <<dpc, dstop, backlog>>

vars == <<registryVars, daemonVars>>

Serving == {"accept", "blocked", "eintr"}

DGo(from, to) == dpc = from /\ dpc' = to

\* mount_tmpfs, daemon start ... listen, every call of which may throw.
StartService ==
  /\ DGo("down", "mount")
  /\ \A m \in Mgrs : mpc[m] = "none"
  /\ dstop' = FALSE
  /\ UNCHANGED <<registryVars, backlog>>

\* Mutant of mount_tmpfs: /proc/mounts is not consulted.
mount_tmpfs_again ==
  /\ DGo("mount", "listen")
  /\ fs' = Append(fs, NoFiles)

\* A tmpfs that is still mounted is used as it is.
mount_tmpfs ==
  /\ DGo("mount", "listen")
  /\ fs' = IF Len(fs) = 1 THEN Append(fs, NoFiles) ELSE fs

Mount ==
  /\ mount_tmpfs
  /\ UNCHANGED <<cg, proc, recycled, left, mpc, clonepid, todo, got,
                 dstop, backlog>>

Listen ==
  /\ DGo("listen", "accept")
  /\ UNCHANGED <<registryVars, dstop, backlog>>

\* main's catch clause: also for accept4 and fork.
DaemonThrows ==
  /\ dpc \in {"mount", "listen", "accept", "blocked"}
  /\ dpc' = "umount"
  /\ UNCHANGED <<registryVars, dstop, backlog>>

-----------------------------------------------------------------------------
(* The loop.                                                               *)

\* A client's connect.
Connect(m) ==
  /\ dpc \in Serving
  /\ Len(backlog) < ListenQueue
  /\ Go(m, "none", "queued")
  /\ backlog' = Append(backlog, m)
  /\ UNCHANGED <<fs, cg, proc, recycled, left, clonepid, todo, got, dpc,
                 dstop>>

Block ==
  /\ DGo("accept", "blocked")
  /\ backlog = <<>>
  /\ UNCHANGED <<registryVars, dstop, backlog>>

\* accept4 returns a connection and fork a manager for it, or the connection
\* was aborted (ECONNABORTED).
Accept ==
  /\ dpc \in {"accept", "blocked"}
  /\ backlog # <<>>
  /\ dpc' = "accept"
  /\ backlog' = Tail(backlog)
  /\ \E next \in {"ready", "none"} : Go(Head(backlog), "queued", next)
  /\ UNCHANGED <<fs, cg, proc, recycled, left, clonepid, todo, got, dstop>>

Reaped == [m \in Mgrs |-> IF mpc[m] = "zombie" THEN "none" ELSE mpc[m]]

\* Mutant of Eintr: waitpid without WNOHANG.
Eintr_waits ==
  /\ DGo("eintr", IF dstop THEN "umount" ELSE "accept")
  /\ \A m \in Mgrs : mpc[m] \in {"none", "queued", "zombie"}
  /\ mpc' = Reaped
  /\ UNCHANGED <<fs, cg, proc, recycled, left, clonepid, todo, got,
                 dstop, backlog>>

\* accept4 was interrupted: reap the managers that have ended, then look at
\* process_stop.
Eintr ==
  /\ DGo("eintr", IF dstop THEN "umount" ELSE "accept")
  /\ mpc' = Reaped
  /\ UNCHANGED <<fs, cg, proc, recycled, left, clonepid, todo, got,
                 dstop, backlog>>

Interrupted == IF dpc = "blocked" THEN "eintr" ELSE dpc

\* SIGTERM.  systemd's counts (si_pid is 1); that of ExecStop's /bin/kill, or
\* anyone's, only interrupts accept4.
sigterm_handler ==
  /\ dpc \notin {"down", "exited"}
  /\ dstop' \in {dstop, TRUE}
  /\ dpc' = Interrupted
  /\ UNCHANGED <<registryVars, backlog>>

\* A manager exits: SIGCHLD, or init inherits it when the daemon has gone.
ManagerExits(m) ==
  /\ Go(m, "exit", IF dpc \in {"down", "exited"} THEN "none" ELSE "zombie")
  /\ dpc' = Interrupted
  /\ UNCHANGED <<fs, cg, proc, recycled, left, clonepid, todo, got,
                 dstop, backlog>>

-----------------------------------------------------------------------------
(* clear_resource and the end.                                             *)

\* A manager has a file or the directory open: umount fails with EBUSY.
Busy == \E m \in Mgrs : mpc[m] \in {"write", "list"}

umount_tmpfs ==
  /\ DGo("umount", "clear")
  /\ fs' = IF Len(fs) > 1 /\ ~Busy THEN SubSeq(fs, 1, Len(fs) - 1) ELSE fs
  /\ UNCHANGED <<cg, proc, recycled, left, mpc, clonepid, todo, got,
                 dstop, backlog>>

\* Connections that nobody will accept are reset, zombies go to init.
Unserved == [m \in Mgrs |-> IF mpc[m] \in {"queued", "zombie"} THEN "none"
                                                               ELSE mpc[m]]

\* Mutant of clear_cgroup_setting: the directories go, whoever is in them.
clear_cgroup_setting_all == cg' = [p \in Pids |-> "none"]

\* rmdir of every directory: it fails for those with a process in them, the
\* command or a descendant of one.
clear_cgroup_setting ==
  \E busy \in SUBSET {p \in Pids : cg[p] # "none"} :
    /\ {p \in Pids : cg[p] = "in"} \subseteq busy
    /\ cg' = [p \in Pids |-> IF p \in busy THEN cg[p] ELSE "none"]

Clear ==
  /\ DGo("clear", "exited")
  /\ clear_cgroup_setting
  /\ backlog' = <<>>
  /\ mpc' = Unserved
  /\ UNCHANGED <<fs, proc, recycled, left, clonepid, todo, got, dstop>>

\* systemd waits until nothing of the service is left.
ServiceDown ==
  /\ DGo("exited", "down")
  /\ \A m \in Mgrs : mpc[m] = "none"
  /\ \A p \in Pids : proc[p] \in {"free", "foreign"}
  /\ UNCHANGED <<registryVars, dstop, backlog>>

\* SIGKILL to every process of the service, commands included.
ServiceKilled ==
  /\ Kills
  /\ dpc # "down"
  /\ dstop \/ dpc = "exited"
  /\ dpc' = "down"
  /\ backlog' = <<>>
  /\ mpc' = [m \in Mgrs |-> "none"]
  /\ clonepid' = [m \in Mgrs |-> 0]
  /\ todo' = [m \in Mgrs |-> {}]
  /\ got' = [m \in Mgrs |-> {}]
  /\ proc' = [p \in Pids |-> IF proc[p] = "foreign" THEN "foreign" ELSE "free"]
  /\ cg' = [p \in Pids |-> IF cg[p] = "in" THEN "dir" ELSE cg[p]]
  /\ left' = {f \in (DOMAIN fs) \X Pids : fs[f[1]][f[2]] # "none"}
  /\ UNCHANGED <<fs, recycled, dstop>>

DaemonStep ==
  \/ Mount \/ Listen \/ Block \/ Accept \/ Eintr
  \/ umount_tmpfs \/ Clear

Init == RegistryInit /\ dpc = "down" /\ dstop = FALSE /\ backlog = <<>>

Next ==
  \/ RegistryStep /\ UNCHANGED daemonVars
  \/ DaemonStep
  \/ DaemonThrows
  \/ StartService
  \/ \E m \in Mgrs : Connect(m) \/ ManagerExits(m)
  \/ sigterm_handler
  \/ ServiceDown
  \/ ServiceKilled

Spec == Init /\ [][Next]_vars

\* The daemon runs when it can.  Nothing is assumed of managers and clients.
FairSpec == Spec /\ WF_vars(DaemonStep)

-----------------------------------------------------------------------------
(* What the service guarantees.                                            *)

\* Every variable has its type.
TypeOK ==
  /\ RegistryTypeOK
  /\ dpc \in Serving \cup {"down", "mount", "listen", "umount", "clear",
                           "exited"}
  /\ dstop \in BOOLEAN
  /\ backlog \in Seq(Mgrs)

\* However often the service is stopped, killed and started again, and with
\* or without a tmpfs left over from before, connections are served only with
\* one tmpfs over the directory: none of the earlier ones is buried below it.
MountedOnce == dpc \in Serving => Len(fs) = 2

\* A file in the directory, visible or buried, belongs to a command whose
\* manager will clear it away, unless that manager was killed or gave its
\* command up: also when the daemon unmounts and clears up while managers
\* are still registering commands.
EntryOwned ==
  \A l \in DOMAIN fs, p \in Pids :
    fs[l][p] # "none" =>
      \/ <<l, p>> \in left
      \/ \E m \in Owner(p) : mpc[m] \in {"write", "run", "destroy", "unlink"}

LeftBehind(p) == fs[Top][p] # "none" /\ <<Top, p>> \in left

\* A command that is registered is in its memory cgroup as long as it lives,
\* although the daemon removes cgroup directories when it stops.
RegisteredIsLimited ==
  \A m \in Mgrs :
    mpc[m] \in {"open", "write", "run"} /\ proc[clonepid[m]] = "alive"
      => cg[clonepid[m]] = "in"

\* In a proto2 build an entry that LIST accepts has, when it is read, either
\* been left behind or a manager that has registered its command and not yet
\* cleared it away (it may have reaped it): never one that is still about to
\* write the entry, although flock keeps nobody out and the file is there.
ListReadsCommands ==
  [][\A m \in Mgrs : \A p \in got'[m] \ got[m] :
       \/ <<Top, p>> \in left
       \/ \E n \in Owner(p) : mpc[n] \in {"run", "destroy", "unlink"}]_vars

\* While the service is up, and as long as no pid was given away again before
\* clear_clonepid had done with it, the entry of a command is whole from the
\* end of its registration until the command is reaped or its manager starts to
\* end: whatever other managers clear away, and whatever was left there before,
\* LIST shows it and STOP finds it.  (Not before: between clone and the end of
\* write_file the child already executes without an entry, and so does one
\* whose registration has failed.)
RegisteredListed ==
  dpc \in Serving =>
    \A m \in Mgrs : mpc[m] = "run" => fs[Top][clonepid[m]] = "whole"

CommandListed == recycled = {} => RegisteredListed

\* The inductive strengthening of these.  A manager has a clonepid exactly from
\* clone to the end of clear_clonepid; until waitpid the process is there, and
\* no other manager has the same one; what lies below the visible directory was
\* left behind; no manager is there while the daemon starts; and a file that
\* its manager is about to write is not yet whole.
OwnsChild ==
  \A m \in Mgrs :
    /\ clonepid[m] # 0 <=> mpc[m] \in Holding \cup Clearing
    /\ mpc[m] \in Holding => proc[clonepid[m]] \in {"alive", "zombie"}

OwnerUnique ==
  \A m, n \in Mgrs :
    mpc[m] \in Holding /\ mpc[n] \in Holding /\ clonepid[m] = clonepid[n]
      => m = n

BuriedLeft ==
  Len(fs) = 2 => \A p \in Pids : fs[1][p] # "none" => <<1, p>> \in left

StartsAlone ==
  dpc \in {"down", "mount", "listen"} => \A m \in Mgrs : mpc[m] = "none"

Unwritten ==
  \A m \in Mgrs : mpc[m] = "write" => fs[Top][clonepid[m]] # "whole"

DaemonInv ==
  /\ OwnsChild
  /\ OwnerUnique
  /\ BuriedLeft
  /\ StartsAlone
  /\ dpc = "listen" => Len(fs) = 2
  /\ MountedOnce
  /\ EntryOwned
  /\ Unwritten
  /\ RegisteredIsLimited

\* What stays visible builds on it, as long as no pid was recycled: then a pid
\* is nobody else's until its manager has cleared up, umount does not take away
\* a file that is being written, and nothing is unmounted while the service is
\* up.
ClearedAlone ==
  \A m \in Mgrs : mpc[m] \in Clearing =>
    /\ proc[clonepid[m]] = "free"
    /\ \A n \in Mgrs : clonepid[n] = clonepid[m] => n = m

WritesVisible ==
  \A m \in Mgrs : mpc[m] = "write" => fs[Top][clonepid[m]] # "none"

ListedInv == WritesVisible /\ RegisteredListed

VisibleInv == recycled = {} => ClearedAlone /\ ListedInv

\* How the registry looks to LIST and STOP.
Life(p) ==
  IF \E m \in Owner(p) : mpc[m] \in Holding THEN "running"
  ELSE IF \E m \in Owner(p) : mpc[m] = "unlink" THEN "reaped"
  ELSE "idle"

CatalogueView == INSTANCE Catalogue WITH
  life   <- [p \in Pids |-> Life(p)],
  listed <- {p \in Pids : fs[Top][p] # "none"},
  stale  <- {p \in Pids : LeftBehind(p)},
  up     <- dpc \in Serving

\* The managers of one daemon, its starts, stops and mounts, and the kills of
\* the service come to the life of commands that Catalogue describes, as long
\* as no pid was given away again before clear_clonepid had done with it.
ImplementsCatalogue ==
  /\ CatalogueView!Init
  /\ [][recycled' = {} => CatalogueView!Next]_(CatalogueView!vars)

\* Whatever signals interrupt accept4 and however long other sessions take, a
\* client that got into the queue is accepted or learns that it will not be.
ConnectionServed ==
  \A m \in Mgrs : mpc[m] = "queued" ~> mpc[m] # "queued"

-----------------------------------------------------------------------------
(* What the documentation and the service unit promise and the code does   *)
(* not.                                                                    *)

\* STOP signals commands only: when it gets to kill, the pid it found in the
\* registry is not that of an unrelated process.
StopHitsCommand ==
  \A m \in Mgrs, p \in Pids :
    mpc[m] = "kill" /\ p \in todo[m] => proc[p] # "foreign"

\* SIGTERM ends the daemon.
TermStops == dstop ~> dpc \notin Serving
=============================================================================
