---------------------------- MODULE DaemonProofs ----------------------------
(***************************************************************************)
(* Proofs about Daemon and the Registry it serves, for any number of       *)
(* connections, pids and restarts of the service.                          *)
(***************************************************************************)
EXTENDS Daemon, TLAPS

\* Creating, writing or unlinking a file in one of the mounted directories
\* leaves the others, and their number, as they are.
LEMMA FileWrite ==
  ASSUME NEW f \in Seq([Pids -> Entry]), NEW l \in 1 .. Len(f),
         NEW p \in Pids, NEW e \in Entry
  PROVE  LET g == [f EXCEPT ![l][p] = e]
         IN  /\ g \in Seq([Pids -> Entry])
             /\ Len(g) = Len(f)
             /\ \A k \in 1 .. Len(f), q \in Pids :
                  g[k][q] = IF k = l /\ q = p THEN e ELSE f[k][q]
<1> DEFINE g == [f EXCEPT ![l][p] = e]
<1>1. \A k \in 1 .. Len(f) : f[k] \in [Pids -> Entry]
  OBVIOUS
<1>2. [f[l] EXCEPT ![p] = e] \in [Pids -> Entry]
  BY <1>1
<1>3. g = [f EXCEPT ![l] = [f[l] EXCEPT ![p] = e]]
  OBVIOUS
<1>4. g \in Seq([Pids -> Entry]) /\ Len(g) = Len(f)
  BY <1>1, <1>2, <1>3
<1>5. \A k \in 1 .. Len(f), q \in Pids :
        g[k][q] = IF k = l /\ q = p THEN e ELSE f[k][q]
  BY <1>1
<1>q. QED
  BY <1>4, <1>5

\* Mounting over a directory puts one more on top.
LEMMA Overmount ==
  ASSUME NEW S, NEW f \in Seq(S), NEW e \in S
  PROVE  /\ Append(f, e) \in Seq(S)
         /\ Len(Append(f, e)) = Len(f) + 1
         /\ \A i \in 1 .. Len(f) : Append(f, e)[i] = f[i]
         /\ Append(f, e)[Len(f) + 1] = e
  OBVIOUS

\* Every variable has its type before the service is started.
LEMMA DaemonTypeInit == Init => TypeOK
<1> SUFFICES ASSUME Init PROVE TypeOK
  OBVIOUS
<1>1. NoFiles \in [Pids -> Entry]
  BY DEF NoFiles, Entry
<1>2. fs \in Seq([Pids -> Entry]) /\ Len(fs) = 1
  BY <1>1 DEF Init, RegistryInit
<1>3. got \in [Mgrs -> SUBSET Pids] /\ todo \in [Mgrs -> SUBSET Pids]
  BY DEF Init, RegistryInit
<1>4. RegistryTypeOK
  BY <1>2, <1>3 DEF Init, RegistryInit, RegistryTypeOK, MgrPoints
<1>5. dstop \in BOOLEAN
  BY DEF Init
<1>q. QED
  BY <1>4, <1>5 DEF Init, TypeOK, Serving

\* The steps of managers and commands keep the registry's types; that a manager
\* which unlinks or leaves a file has a clonepid is part of OwnsChild.
LEMMA RegistryTypeStep ==
  RegistryTypeOK /\ OwnsChild /\ RegistryStep => RegistryTypeOK'
<1> SUFFICES ASSUME RegistryTypeOK, OwnsChild, RegistryStep
             PROVE  RegistryTypeOK'
  OBVIOUS
<1>1. Top \in 1 .. Len(fs) /\ Top \in Nat
  <2>1. Len(fs) \in 1 .. 2
    BY DEF RegistryTypeOK
  <2>q. QED
    BY <2>1 DEF Top
<1> USE RegistryAssumption DEF RegistryTypeOK, Go, MgrPoints
<1>2. \A m \in Mgrs : mpc[m] \in Holding \cup Clearing => clonepid[m] \in Pids
  BY DEF OwnsChild
<1>3. {"none", "empty", "whole"} \subseteq Entry
  BY DEF Entry
<1>4. ASSUME NEW m \in Mgrs, Clone(m) PROVE RegistryTypeOK'
  BY <1>4 DEF Clone, Allocate
<1>5. ASSUME NEW m \in Mgrs, MakeLeaf(m) PROVE RegistryTypeOK'
  BY <1>5 DEF MakeLeaf
<1>6. ASSUME NEW m \in Mgrs, JoinLeaf(m) PROVE RegistryTypeOK'
  BY <1>6 DEF JoinLeaf
<1>7. ASSUME NEW m \in Mgrs, OpenEntry(m) PROVE RegistryTypeOK'
  <2>1. clonepid[m] \in Pids
    BY <1>2, <1>7 DEF OpenEntry, Holding, Clearing
  <2>2. fs' \in Seq([Pids -> Entry]) /\ Len(fs') = Len(fs)
    BY <1>1, <1>3, <1>7, <2>1, FileWrite DEF OpenEntry
  <2>q. QED
    BY <1>7, <2>2 DEF OpenEntry
<1>8. ASSUME NEW m \in Mgrs, WriteEntry(m) PROVE RegistryTypeOK'
  <2>1. clonepid[m] \in Pids
    BY <1>2, <1>8 DEF WriteEntry, Holding, Clearing
  <2>2. fs' \in Seq([Pids -> Entry]) /\ Len(fs') = Len(fs)
    BY <1>1, <1>3, <1>8, <2>1, FileWrite DEF WriteEntry
  <2>q. QED
    BY <1>8, <2>2 DEF WriteEntry
<1>9. ASSUME NEW m \in Mgrs, Throw(m) PROVE RegistryTypeOK'
  BY <1>9 DEF Throw
<1>10. ASSUME NEW m \in Mgrs, Reap(m) PROVE RegistryTypeOK'
  BY <1>10 DEF Reap
<1>11. ASSUME NEW m \in Mgrs, Unlink(m) PROVE RegistryTypeOK'
  <2>1. clonepid[m] \in Pids
    BY <1>2, <1>11 DEF Unlink, Holding, Clearing
  <2>2. fs' \in Seq([Pids -> Entry]) /\ Len(fs') = Len(fs)
    BY <1>1, <1>3, <1>11, <2>1, FileWrite DEF Unlink
  <2>q. QED
    BY <1>11, <2>2 DEF Unlink
<1>12. ASSUME NEW m \in Mgrs, Rmdir(m) PROVE RegistryTypeOK'
  BY <1>12 DEF Rmdir
<1>13. ASSUME NEW m \in Mgrs, LeaveChild(m) PROVE RegistryTypeOK'
  <2>1. clonepid[m] \in Pids
    BY <1>2, <1>13 DEF LeaveChild, Holding
  <2>q. QED
    BY <1>1, <1>13, <2>1 DEF LeaveChild
<1>14. ASSUME NEW m \in Mgrs, Quit(m) PROVE RegistryTypeOK'
  BY <1>14 DEF Quit
<1>15. ASSUME NEW m \in Mgrs, ListStart(m) PROVE RegistryTypeOK'
  BY <1>15 DEF ListStart
<1>16. ASSUME NEW m \in Mgrs, ListRead(m) PROVE RegistryTypeOK'
  BY <1>16 DEF ListRead
<1>17. ASSUME NEW m \in Mgrs, ListThrows(m) PROVE RegistryTypeOK'
  BY <1>17 DEF ListThrows
<1>18. ASSUME NEW m \in Mgrs, ListAnswer(m) PROVE RegistryTypeOK'
  BY <1>18 DEF ListAnswer
<1>19. ASSUME NEW m \in Mgrs, StopStart(m) PROVE RegistryTypeOK'
  BY <1>19 DEF StopStart
<1>20. ASSUME NEW m \in Mgrs, StopExists(m) PROVE RegistryTypeOK'
  <2>1. \E to \in {"kill", "exit"} : mpc' = [mpc EXCEPT ![m] = to]
    BY <1>20 DEF StopExists
  <2>2. todo' = todo \/ todo' = [todo EXCEPT ![m] = {}]
    BY <1>20 DEF StopExists
  <2>3. mpc' \in [Mgrs -> MgrPoints]
    BY <2>1
  <2>4. todo' \in [Mgrs -> SUBSET Pids]
    BY <2>2
  <2>q. QED
    BY <1>20, <2>3, <2>4 DEF StopExists
<1>21. ASSUME NEW m \in Mgrs, StopKill(m) PROVE RegistryTypeOK'
  BY <1>21 DEF StopKill
<1>22. ASSUME NEW p \in Pids, CommandDies(p) PROVE RegistryTypeOK'
  BY <1>22 DEF CommandDies
<1>23. ASSUME NEW p \in Pids, ForeignProcess(p) PROVE RegistryTypeOK'
  BY <1>23 DEF ForeignProcess, Allocate
<1>q. QED
  BY RegistryStep, <1>4, <1>5, <1>6, <1>7, <1>8, <1>9, <1>10, <1>11, <1>12,
     <1>13, <1>14, <1>15, <1>16, <1>17, <1>18, <1>19, <1>20, <1>21, <1>22,
     <1>23 DEF RegistryStep
\* The daemon's own steps, the clients' connections and systemd keep the types.
LEMMA DaemonTypeStep == TypeOK /\ OwnsChild /\ [Next]_vars => TypeOK'
<1> SUFFICES ASSUME TypeOK, OwnsChild, [Next]_vars PROVE TypeOK'
  OBVIOUS
<1> USE RegistryAssumption DEF TypeOK, DGo, Serving, registryVars, daemonVars
<1>1. CASE RegistryStep /\ UNCHANGED daemonVars
  BY <1>1, RegistryTypeStep
<1> USE DEF RegistryTypeOK, Go, MgrPoints
<1>2. NoFiles \in [Pids -> Entry]
  BY DEF NoFiles, Entry
<1>3. CASE Mount
  <2>1. CASE Len(fs) = 1
    <3>1. fs' = Append(fs, NoFiles)
      BY <1>3, <2>1 DEF Mount, mount_tmpfs
    <3>2. fs' \in Seq([Pids -> Entry])
      BY <1>2, <3>1
    <3>3. Len(Append(fs, NoFiles)) = Len(fs) + 1
      BY <1>2, Overmount
    <3>4. Len(fs') = 2
      BY <2>1, <3>1, <3>3
    <3>q. QED
      BY <1>3, <3>2, <3>4 DEF Mount, mount_tmpfs
  <2>2. CASE Len(fs) # 1
    BY <1>3, <2>2 DEF Mount, mount_tmpfs
  <2>q. QED
    BY <2>1, <2>2
<1>4. CASE Listen
  BY <1>2, <1>4 DEF Listen
<1>5. CASE Block
  BY <1>2, <1>5 DEF Block
<1>6. CASE Accept
  BY <1>2, <1>6 DEF Accept
<1>7. CASE Eintr
  BY <1>2, <1>7 DEF Eintr, Reaped
<1>8. CASE umount_tmpfs
  BY <1>2, <1>8 DEF umount_tmpfs
<1>9. CASE Clear
  BY <1>2, <1>9 DEF Clear, clear_cgroup_setting, Unserved
<1>10. CASE DaemonThrows
  BY <1>2, <1>10 DEF DaemonThrows
<1>11. CASE StartService
  BY <1>2, <1>11 DEF StartService
<1>12. CASE sigterm_handler
  BY <1>2, <1>12 DEF sigterm_handler, Interrupted
<1>13. CASE ServiceDown
  BY <1>2, <1>13 DEF ServiceDown
<1>14. CASE ServiceKilled
  BY <1>2, <1>14 DEF ServiceKilled
<1>15. ASSUME NEW m \in Mgrs, Connect(m) PROVE TypeOK'
  BY <1>15 DEF Connect
<1>16. ASSUME NEW m \in Mgrs, ManagerExits(m) PROVE TypeOK'
  BY <1>16 DEF ManagerExits, Interrupted
<1>17. CASE UNCHANGED vars
  BY <1>17 DEF vars
<1>q. QED
  BY <1>1, <1>3, <1>4, <1>5, <1>6, <1>7, <1>8, <1>9, <1>10, <1>11, <1>12,
     <1>13, <1>14, <1>15, <1>16, <1>17 DEF Next, DaemonStep

\* Managers that have no command may come, go and answer, and the daemon may
\* go on: who owns which pid, file and cgroup does not change by it.
LEMMA IdleMove ==
  ASSUME TypeOK, DaemonInv, RegistryTypeOK',
         UNCHANGED <<fs, cg, proc, left, clonepid>>,
         \A m \in Mgrs : \/ mpc'[m] = mpc[m]
                         \/ {mpc[m], mpc'[m]} \cap (Holding \cup Clearing) = {}
  PROVE  /\ OwnsChild'
         /\ OwnerUnique'
         /\ BuriedLeft'
         /\ EntryOwned'
         /\ RegisteredIsLimited'
<1> USE DEF DaemonInv, TypeOK, RegistryTypeOK, Holding, Clearing
<1>1. OwnsChild'
  BY DEF OwnsChild
<1>2. OwnerUnique'
  BY DEF OwnerUnique
<1>3. BuriedLeft'
  BY DEF BuriedLeft
<1>4. \A m \in Mgrs : mpc[m] \in Holding \cup Clearing => mpc'[m] = mpc[m]
  OBVIOUS
<1>5. EntryOwned'
  BY <1>4 DEF EntryOwned, Owner
<1>6. RegisteredIsLimited'
  BY <1>4 DEF RegisteredIsLimited
<1>q. QED
  BY <1>1, <1>2, <1>3, <1>5, <1>6

\* Files that nobody touches stay owned when their managers keep their command.
LEMMA EntryFrame ==
  ASSUME EntryOwned, UNCHANGED <<fs, left>>,
         \A m \in Mgrs :
           mpc[m] \in {"write", "run", "destroy", "unlink"} =>
             /\ mpc'[m] \in {"write", "run", "destroy", "unlink"}
             /\ clonepid'[m] = clonepid[m]
  PROVE  EntryOwned'
<1>1. SUFFICES ASSUME NEW l \in DOMAIN fs, NEW p \in Pids, fs[l][p] # "none",
                      <<l, p>> \notin left
               PROVE  \E n \in Owner(p)' :
                        mpc'[n] \in {"write", "run", "destroy", "unlink"}
  BY DEF EntryOwned
<1>2. PICK n \in Owner(p) : mpc[n] \in {"write", "run", "destroy", "unlink"}
  BY <1>1 DEF EntryOwned
<1>q. QED
  BY <1>2 DEF Owner

\* With two directories over each other, a file that is nobody's leftover is in
\* the visible one.
LEMMA Visible ==
  ASSUME RegistryTypeOK, BuriedLeft, NEW l \in 1 .. Len(fs), NEW p \in Pids
  PROVE  fs[l][p] # "none" /\ <<l, p>> \notin left => l = Top
<1> DEFINE n == Len(fs)
<1>1. n \in 1 .. 2 /\ l \in 1 .. n
  BY DEF RegistryTypeOK
<1>2. l # n => l = 1 /\ n = 2
  <2> HIDE DEF n
  <2>q. QED
    BY <1>1
<1>q. QED
  BY <1>2 DEF BuriedLeft, Top

\* Every step of a manager or a command keeps DaemonInv.
LEMMA RegistryInvStep ==
  TypeOK /\ DaemonInv /\ RegistryStep /\ UNCHANGED daemonVars => DaemonInv'
<1> SUFFICES ASSUME TypeOK, DaemonInv, RegistryStep, UNCHANGED daemonVars
             PROVE  DaemonInv'
  OBVIOUS
<1> DEFINE Directory == /\ StartsAlone
                        /\ dpc = "listen" => Len(fs) = 2
                        /\ MountedOnce
<1>1. Top \in 1 .. Len(fs) /\ Top \in Nat
  <2>1. Len(fs) \in 1 .. 2
    BY DEF TypeOK, RegistryTypeOK
  <2>q. QED
    BY <2>1 DEF Top
<1> USE RegistryAssumption
    DEF TypeOK, RegistryTypeOK, Go, MgrPoints, daemonVars
<1>2. \A m \in Mgrs : mpc[m] \in Holding \cup Clearing => clonepid[m] \in Pids
  BY DEF OwnsChild, DaemonInv
<1>3. {"none", "empty", "whole"} \subseteq Entry
  BY DEF Entry
<1>4. RegistryTypeOK'
  BY RegistryTypeStep DEF DaemonInv
<1>5. ASSUME NEW m \in Mgrs, Clone(m) PROVE DaemonInv'
  <2>1. OwnsChild' /\ OwnerUnique'
    BY <1>2, <1>4, <1>5 DEF Clone, DaemonInv, OwnsChild, OwnerUnique,
      Holding, Clearing, Allocate
  <2>2. BuriedLeft'
    BY <1>5 DEF Clone, DaemonInv, BuriedLeft
  <2>3. EntryOwned'
    BY <1>4, <1>5, EntryFrame DEF Clone, DaemonInv
  <2>4. Unwritten'
    BY <1>4, <1>5 DEF Clone, DaemonInv, Unwritten, Top
  <2>5. RegisteredIsLimited'
    BY <1>2, <1>4, <1>5 DEF Clone, DaemonInv, OwnsChild, OwnerUnique,
      Holding, Clearing, Allocate, RegisteredIsLimited
  <2>6. Directory'
    BY <1>4, <1>5 DEF Clone, DaemonInv, StartsAlone, MountedOnce, Serving
  <2>q. QED
    BY <2>1, <2>2, <2>3, <2>4, <2>5, <2>6 DEF DaemonInv
<1>6. ASSUME NEW m \in Mgrs, MakeLeaf(m) PROVE DaemonInv'
  <2>1. OwnsChild' /\ OwnerUnique'
    BY <1>2, <1>4, <1>6 DEF MakeLeaf, DaemonInv, OwnsChild, OwnerUnique,
      Holding, Clearing, Allocate
  <2>2. BuriedLeft'
    BY <1>6 DEF MakeLeaf, DaemonInv, BuriedLeft
  <2>3. EntryOwned'
    BY <1>4, <1>6, EntryFrame DEF MakeLeaf, DaemonInv
  <2>4. Unwritten'
    BY <1>4, <1>6 DEF MakeLeaf, DaemonInv, Unwritten, Top
  <2>5. RegisteredIsLimited'
    BY <1>2, <1>4, <1>6 DEF MakeLeaf, DaemonInv, OwnsChild, OwnerUnique,
      Holding, Clearing, Allocate, RegisteredIsLimited
  <2>6. Directory'
    BY <1>4, <1>6 DEF MakeLeaf, DaemonInv, StartsAlone, MountedOnce, Serving
  <2>q. QED
    BY <2>1, <2>2, <2>3, <2>4, <2>5, <2>6 DEF DaemonInv
<1>7. ASSUME NEW m \in Mgrs, JoinLeaf(m) PROVE DaemonInv'
  <2>1. OwnsChild' /\ OwnerUnique'
    BY <1>2, <1>4, <1>7 DEF JoinLeaf, DaemonInv, OwnsChild, OwnerUnique,
      Holding, Clearing, Allocate
  <2>2. BuriedLeft'
    BY <1>7 DEF JoinLeaf, DaemonInv, BuriedLeft
  <2>3. EntryOwned'
    BY <1>4, <1>7, EntryFrame DEF JoinLeaf, DaemonInv
  <2>4. Unwritten'
    BY <1>4, <1>7 DEF JoinLeaf, DaemonInv, Unwritten, Top
  <2>5. RegisteredIsLimited'
    BY <1>2, <1>4, <1>7 DEF JoinLeaf, DaemonInv, OwnsChild, OwnerUnique,
      Holding, Clearing, Allocate, RegisteredIsLimited
  <2>6. Directory'
    BY <1>4, <1>7 DEF JoinLeaf, DaemonInv, StartsAlone, MountedOnce, Serving
  <2>q. QED
    BY <2>1, <2>2, <2>3, <2>4, <2>5, <2>6 DEF DaemonInv
<1>8. ASSUME NEW m \in Mgrs, OpenEntry(m) PROVE DaemonInv'
  <2>1. clonepid[m] \in Pids
    BY <1>2, <1>8 DEF OpenEntry, Holding, Clearing
  <2>2. /\ Len(fs') = Len(fs)
        /\ \A k \in 1 .. Len(fs), q \in Pids :
             fs'[k][q] = IF k = Top /\ q = clonepid[m] THEN "empty"
                                                     ELSE fs[k][q]
    BY <1>1, <1>3, <1>8, <2>1, FileWrite DEF OpenEntry
  <2>3. OwnsChild' /\ OwnerUnique'
    BY <1>2, <1>4, <1>8 DEF OpenEntry, DaemonInv, OwnsChild, OwnerUnique,
      Holding, Clearing
  <2>4. BuriedLeft'
    BY <1>1, <1>8, <2>1, <2>2 DEF OpenEntry, DaemonInv, BuriedLeft, Top
  <2>5. EntryOwned'
    BY <1>1, <1>4, <1>8, <2>1, <2>2 DEF OpenEntry, DaemonInv, EntryOwned,
      Owner, Top
  <2>6. Unwritten'
    BY <1>1, <1>2, <1>4, <1>8, <2>1, <2>2 DEF OpenEntry, DaemonInv,
      Unwritten, Top, Holding
  <2>7. RegisteredIsLimited'
    BY <1>4, <1>8 DEF OpenEntry, DaemonInv, RegisteredIsLimited
  <2>8. Directory'
    BY <1>4, <1>8, <2>2 DEF OpenEntry, DaemonInv, StartsAlone, MountedOnce,
      Serving
  <2>q. QED
    BY <2>3, <2>4, <2>5, <2>6, <2>7, <2>8 DEF DaemonInv
<1>9. ASSUME NEW m \in Mgrs, WriteEntry(m) PROVE DaemonInv'
  <2>1. clonepid[m] \in Pids
    BY <1>2, <1>9 DEF WriteEntry, Holding, Clearing
  <2>2. /\ Len(fs') = Len(fs)
        /\ \A k \in 1 .. Len(fs), q \in Pids :
             fs'[k][q] = IF k = Top /\ q = clonepid[m]
                         THEN IF fs[k][q] = "none" THEN "none" ELSE "whole"
                         ELSE fs[k][q]
    BY <1>1, <1>3, <1>9, <2>1, FileWrite DEF WriteEntry
  <2>3. OwnsChild' /\ OwnerUnique'
    BY <1>2, <1>4, <1>9 DEF WriteEntry, DaemonInv, OwnsChild, OwnerUnique,
      Holding, Clearing
  <2>4. BuriedLeft'
    BY <1>1, <1>9, <2>1, <2>2 DEF WriteEntry, DaemonInv, BuriedLeft, Top
  <2>5. EntryOwned'
    BY <1>1, <1>4, <1>9, <2>1, <2>2 DEF WriteEntry, DaemonInv, EntryOwned,
      Owner, Top
  <2>6. Unwritten'
    <3>1. SUFFICES ASSUME NEW n \in Mgrs, mpc'[n] = "write"
                   PROVE  fs'[Top'][clonepid'[n]] # "whole"
      BY DEF Unwritten
    <3>2. mpc[n] = "write" /\ n # m /\ clonepid'[n] = clonepid[n]
      BY <1>9, <3>1 DEF WriteEntry
    <3>3. clonepid[n] \in Pids /\ clonepid[n] # clonepid[m]
      BY <1>2, <1>9, <3>2 DEF WriteEntry, DaemonInv, OwnerUnique, Holding
    <3>4. fs'[Top'][clonepid[n]] = fs[Top][clonepid[n]]
      <4>1. Top' = Top
        BY <2>2 DEF Top
      <4>q. QED
        BY <1>1, <2>2, <3>3, <4>1
    <3>q. QED
      BY <3>2, <3>4 DEF DaemonInv, Unwritten
  <2>7. RegisteredIsLimited'
    BY <1>4, <1>9 DEF WriteEntry, DaemonInv, RegisteredIsLimited
  <2>8. Directory'
    BY <1>4, <1>9, <2>2 DEF WriteEntry, DaemonInv, StartsAlone, MountedOnce,
      Serving
  <2>q. QED
    BY <2>3, <2>4, <2>5, <2>6, <2>7, <2>8 DEF DaemonInv
<1>10. ASSUME NEW m \in Mgrs, Unlink(m) PROVE DaemonInv'
  <2>1. clonepid[m] \in Pids
    BY <1>2, <1>10 DEF Unlink, Holding, Clearing
  <2>2. /\ Len(fs') = Len(fs)
        /\ \A k \in 1 .. Len(fs), q \in Pids :
             fs'[k][q] = IF k = Top /\ q = clonepid[m] THEN "none"
                                                     ELSE fs[k][q]
    BY <1>1, <1>3, <1>10, <2>1, FileWrite DEF Unlink
  <2>3. OwnsChild' /\ OwnerUnique'
    BY <1>2, <1>4, <1>10 DEF Unlink, DaemonInv, OwnsChild, OwnerUnique,
      Holding, Clearing
  <2>4. BuriedLeft'
    BY <1>1, <1>10, <2>1, <2>2 DEF Unlink, DaemonInv, BuriedLeft, Top
  <2>5. EntryOwned'
    <3>1. SUFFICES ASSUME NEW l \in 1 .. Len(fs), NEW p \in Pids,
                          fs'[l][p] # "none", <<l, p>> \notin left'
                   PROVE  \E n \in Owner(p)' :
                            mpc'[n] \in {"write", "run", "destroy", "unlink"}
      <4>1. DOMAIN fs' = 1 .. Len(fs)
        BY <1>4, <2>2
      <4>q. QED
        BY <4>1 DEF EntryOwned
    <3>2. /\ fs[l][p] # "none"
          /\ <<l, p>> \notin left
          /\ l # Top \/ p # clonepid[m]
      BY <1>10, <2>2, <3>1 DEF Unlink
    <3>3. l = Top
      BY <3>1, <3>2, Visible DEF DaemonInv
    <3>4. PICK n \in Owner(p) :
            mpc[n] \in {"write", "run", "destroy", "unlink"}
      BY <3>1, <3>2 DEF DaemonInv, EntryOwned
    <3>q. QED
      BY <1>10, <3>2, <3>3, <3>4 DEF Unlink, Owner
  <2>6. Unwritten'
    BY <1>1, <1>2, <1>4, <1>10, <2>1, <2>2 DEF Unlink, DaemonInv,
      Unwritten, Top, Holding
  <2>7. RegisteredIsLimited'
    BY <1>4, <1>10 DEF Unlink, DaemonInv, RegisteredIsLimited
  <2>8. Directory'
    BY <1>4, <1>10, <2>2 DEF Unlink, DaemonInv, StartsAlone, MountedOnce,
      Serving
  <2>q. QED
    BY <2>3, <2>4, <2>5, <2>6, <2>7, <2>8 DEF DaemonInv
<1>11. ASSUME NEW m \in Mgrs, Throw(m) PROVE DaemonInv'
  <2>1. OwnsChild' /\ OwnerUnique'
    BY <1>2, <1>4, <1>11 DEF Throw, DaemonInv, OwnsChild, OwnerUnique,
      Holding, Clearing
  <2>2. BuriedLeft'
    BY <1>11 DEF Throw, DaemonInv, BuriedLeft
  <2>3. EntryOwned'
    BY <1>4, <1>11, EntryFrame DEF Throw, DaemonInv
  <2>4. Unwritten'
    BY <1>4, <1>11 DEF Throw, DaemonInv, Unwritten, Top
  <2>5. RegisteredIsLimited'
    BY <1>2, <1>4, <1>11 DEF Throw, DaemonInv, OwnsChild, OwnerUnique,
      Holding, Clearing, RegisteredIsLimited
  <2>6. Directory'
    BY <1>4, <1>11 DEF Throw, DaemonInv, StartsAlone, MountedOnce, Serving
  <2>q. QED
    BY <2>1, <2>2, <2>3, <2>4, <2>5, <2>6 DEF DaemonInv
<1>12. ASSUME NEW m \in Mgrs, Reap(m) PROVE DaemonInv'
  <2>1. OwnsChild' /\ OwnerUnique'
    BY <1>2, <1>4, <1>12 DEF Reap, DaemonInv, OwnsChild, OwnerUnique,
      Holding, Clearing
  <2>2. BuriedLeft'
    BY <1>12 DEF Reap, DaemonInv, BuriedLeft
  <2>3. EntryOwned'
    BY <1>4, <1>12, EntryFrame DEF Reap, DaemonInv
  <2>4. Unwritten'
    BY <1>4, <1>12 DEF Reap, DaemonInv, Unwritten, Top
  <2>5. RegisteredIsLimited'
    BY <1>2, <1>4, <1>12 DEF Reap, DaemonInv, OwnsChild, OwnerUnique,
      Holding, Clearing, RegisteredIsLimited
  <2>6. Directory'
    BY <1>4, <1>12 DEF Reap, DaemonInv, StartsAlone, MountedOnce, Serving
  <2>q. QED
    BY <2>1, <2>2, <2>3, <2>4, <2>5, <2>6 DEF DaemonInv
<1>13. ASSUME NEW m \in Mgrs, Rmdir(m) PROVE DaemonInv'
  <2>1. OwnsChild' /\ OwnerUnique'
    BY <1>2, <1>4, <1>13 DEF Rmdir, DaemonInv, OwnsChild, OwnerUnique,
      Holding, Clearing
  <2>2. BuriedLeft'
    BY <1>13 DEF Rmdir, DaemonInv, BuriedLeft
  <2>3. EntryOwned'
    BY <1>4, <1>13, EntryFrame DEF Rmdir, DaemonInv
  <2>4. Unwritten'
    BY <1>4, <1>13 DEF Rmdir, DaemonInv, Unwritten, Top
  <2>5. RegisteredIsLimited'
    <3>1. \A q \in Pids : cg[q] = "in" => cg'[q] = "in"
      BY <1>13 DEF Rmdir
    <3>2. \A k \in Mgrs : mpc'[k] \in {"open", "write", "run"} =>
            /\ mpc'[k] = mpc[k]
            /\ clonepid'[k] = clonepid[k]
            /\ clonepid[k] \in Pids
      BY <1>2, <1>13 DEF Rmdir, Holding
    <3>q. QED
      BY <1>13, <3>1, <3>2 DEF Rmdir, DaemonInv, RegisteredIsLimited
  <2>6. Directory'
    BY <1>4, <1>13 DEF Rmdir, DaemonInv, StartsAlone, MountedOnce, Serving
  <2>q. QED
    BY <2>1, <2>2, <2>3, <2>4, <2>5, <2>6 DEF DaemonInv
<1>14. ASSUME NEW m \in Mgrs, LeaveChild(m) PROVE DaemonInv'
  <2>1. clonepid[m] \in Pids
    BY <1>2, <1>14 DEF LeaveChild, Holding
  <2>2. OwnsChild' /\ OwnerUnique'
    BY <1>2, <1>4, <1>14 DEF LeaveChild, DaemonInv, OwnsChild, OwnerUnique,
      Holding, Clearing
  <2>3. BuriedLeft'
    BY <1>14 DEF LeaveChild, DaemonInv, BuriedLeft
  <2>4. EntryOwned'
    <3>0. fs' = fs /\ DOMAIN fs = 1 .. Len(fs)
      BY <1>14 DEF LeaveChild
    <3>1. SUFFICES ASSUME NEW l \in 1 .. Len(fs), NEW p \in Pids,
                          fs[l][p] # "none", <<l, p>> \notin left'
                   PROVE  \E n \in Owner(p)' :
                            mpc'[n] \in {"write", "run", "destroy", "unlink"}
      BY <3>0 DEF EntryOwned
    <3>2. <<l, p>> \notin left /\ (l # Top \/ p # clonepid[m])
      BY <1>14, <3>1 DEF LeaveChild
    <3>3. l = Top
      BY <3>1, <3>2, Visible DEF DaemonInv
    <3>4. PICK n \in Owner(p) :
            mpc[n] \in {"write", "run", "destroy", "unlink"}
      BY <3>1, <3>2 DEF DaemonInv, EntryOwned
    <3>q. QED
      BY <1>14, <3>2, <3>3, <3>4 DEF LeaveChild, Owner
  <2>5. Unwritten'
    BY <1>4, <1>14 DEF LeaveChild, DaemonInv, Unwritten, Top
  <2>6. RegisteredIsLimited'
    BY <1>4, <1>14 DEF LeaveChild, DaemonInv, RegisteredIsLimited
  <2>7. Directory'
    BY <1>4, <1>14 DEF LeaveChild, DaemonInv, StartsAlone, MountedOnce, Serving
  <2>q. QED
    BY <2>2, <2>3, <2>4, <2>5, <2>6, <2>7 DEF DaemonInv
<1>15. ASSUME NEW m \in Mgrs, Quit(m) PROVE DaemonInv'
  <2>1. /\ OwnsChild' /\ OwnerUnique' /\ BuriedLeft'
        /\ EntryOwned' /\ RegisteredIsLimited'
    BY <1>4, <1>15, IdleMove DEF Quit, Holding, Clearing
  <2>2. Unwritten'
    BY <1>4, <1>15 DEF Quit, DaemonInv, Unwritten, Top
  <2>3. Directory'
    BY <1>4, <1>15 DEF Quit, DaemonInv, StartsAlone, MountedOnce, Serving
  <2>q. QED
    BY <2>1, <2>2, <2>3 DEF DaemonInv
<1>16. ASSUME NEW m \in Mgrs, ListStart(m) PROVE DaemonInv'
  <2>1. /\ OwnsChild' /\ OwnerUnique' /\ BuriedLeft'
        /\ EntryOwned' /\ RegisteredIsLimited'
    BY <1>4, <1>16, IdleMove DEF ListStart, Holding, Clearing
  <2>2. Unwritten'
    BY <1>4, <1>16 DEF ListStart, DaemonInv, Unwritten, Top
  <2>3. Directory'
    BY <1>4, <1>16 DEF ListStart, DaemonInv, StartsAlone, MountedOnce, Serving
  <2>q. QED
    BY <2>1, <2>2, <2>3 DEF DaemonInv
<1>17. ASSUME NEW m \in Mgrs, ListRead(m) PROVE DaemonInv'
  <2>1. /\ OwnsChild' /\ OwnerUnique' /\ BuriedLeft'
        /\ EntryOwned' /\ RegisteredIsLimited'
    BY <1>4, <1>17, IdleMove DEF ListRead, Holding, Clearing
  <2>2. Unwritten'
    BY <1>4, <1>17 DEF ListRead, DaemonInv, Unwritten, Top
  <2>3. Directory'
    BY <1>4, <1>17 DEF ListRead, DaemonInv, StartsAlone, MountedOnce, Serving
  <2>q. QED
    BY <2>1, <2>2, <2>3 DEF DaemonInv
<1>18. ASSUME NEW m \in Mgrs, ListThrows(m) PROVE DaemonInv'
  <2>1. /\ OwnsChild' /\ OwnerUnique' /\ BuriedLeft'
        /\ EntryOwned' /\ RegisteredIsLimited'
    BY <1>4, <1>18, IdleMove DEF ListThrows, Holding, Clearing
  <2>2. Unwritten'
    BY <1>4, <1>18 DEF ListThrows, DaemonInv, Unwritten, Top
  <2>3. Directory'
    BY <1>4, <1>18 DEF ListThrows, DaemonInv, StartsAlone, MountedOnce, Serving
  <2>q. QED
    BY <2>1, <2>2, <2>3 DEF DaemonInv
<1>19. ASSUME NEW m \in Mgrs, ListAnswer(m) PROVE DaemonInv'
  <2>1. /\ OwnsChild' /\ OwnerUnique' /\ BuriedLeft'
        /\ EntryOwned' /\ RegisteredIsLimited'
    BY <1>4, <1>19, IdleMove DEF ListAnswer, Holding, Clearing
  <2>2. Unwritten'
    BY <1>4, <1>19 DEF ListAnswer, DaemonInv, Unwritten, Top
  <2>3. Directory'
    BY <1>4, <1>19 DEF ListAnswer, DaemonInv, StartsAlone, MountedOnce, Serving
  <2>q. QED
    BY <2>1, <2>2, <2>3 DEF DaemonInv
<1>20. ASSUME NEW m \in Mgrs, StopStart(m) PROVE DaemonInv'
  <2>1. /\ OwnsChild' /\ OwnerUnique' /\ BuriedLeft'
        /\ EntryOwned' /\ RegisteredIsLimited'
    BY <1>4, <1>20, IdleMove DEF StopStart, Holding, Clearing
  <2>2. Unwritten'
    BY <1>4, <1>20 DEF StopStart, DaemonInv, Unwritten, Top
  <2>3. Directory'
    BY <1>4, <1>20 DEF StopStart, DaemonInv, StartsAlone, MountedOnce, Serving
  <2>q. QED
    BY <2>1, <2>2, <2>3 DEF DaemonInv
<1>21. ASSUME NEW m \in Mgrs, StopExists(m) PROVE DaemonInv'
  <2>1. /\ OwnsChild' /\ OwnerUnique' /\ BuriedLeft'
        /\ EntryOwned' /\ RegisteredIsLimited'
    BY <1>4, <1>21, IdleMove DEF StopExists, Holding, Clearing
  <2>2. \E to \in {"kill", "exit"} : Go(m, "exists", to)
    BY <1>21 DEF StopExists
  <2>3. Unwritten' /\ Directory'
    BY <1>4, <1>21, <2>2 DEF StopExists, DaemonInv, Unwritten, Top,
      StartsAlone, MountedOnce, Serving
  <2>q. QED
    BY <2>1, <2>3 DEF DaemonInv
<1>22. ASSUME NEW m \in Mgrs, StopKill(m) PROVE DaemonInv'
  <2>1. /\ OwnsChild' /\ OwnerUnique' /\ BuriedLeft'
        /\ EntryOwned' /\ RegisteredIsLimited'
    BY <1>4, <1>22, IdleMove DEF StopKill, Holding, Clearing
  <2>2. Unwritten'
    BY <1>4, <1>22 DEF StopKill, DaemonInv, Unwritten, Top
  <2>3. Directory'
    BY <1>4, <1>22 DEF StopKill, DaemonInv, StartsAlone, MountedOnce, Serving
  <2>q. QED
    BY <2>1, <2>2, <2>3 DEF DaemonInv
<1>23. ASSUME NEW p \in Pids, CommandDies(p) PROVE DaemonInv'
  <2>1. OwnsChild' /\ OwnerUnique'
    BY <1>2, <1>4, <1>23 DEF CommandDies, DaemonInv, OwnsChild, OwnerUnique,
      Holding, Clearing, Owner
  <2>2. BuriedLeft' /\ EntryOwned'
    BY <1>4, <1>23, EntryFrame DEF CommandDies, DaemonInv, BuriedLeft
  <2>4. Unwritten'
    BY <1>4, <1>23 DEF CommandDies, DaemonInv, Unwritten, Top
  <2>5. RegisteredIsLimited'
    BY <1>2, <1>4, <1>23 DEF CommandDies, DaemonInv, OwnsChild, OwnerUnique,
      Holding, Clearing, RegisteredIsLimited, Owner
  <2>6. Directory'
    BY <1>4, <1>23 DEF CommandDies, DaemonInv, StartsAlone, MountedOnce,
      Serving
  <2>q. QED
    BY <2>1, <2>2, <2>4, <2>5, <2>6 DEF DaemonInv
<1>24. ASSUME NEW p \in Pids, ForeignProcess(p) PROVE DaemonInv'
  <2>0. \E q \in {"foreign", "free"} : proc' = [proc EXCEPT ![p] = q]
    BY <1>24 DEF ForeignProcess, Allocate
  <2>1. ASSUME NEW m \in Mgrs, mpc[m] \in Holding PROVE clonepid[m] # p
    BY <1>24, <2>1 DEF ForeignProcess, Allocate, DaemonInv, OwnsChild
  <2>2. OwnsChild' /\ OwnerUnique'
    BY <1>2, <1>4, <1>24, <2>0, <2>1 DEF ForeignProcess, DaemonInv,
      OwnsChild, OwnerUnique, Holding, Clearing
  <2>3. BuriedLeft' /\ EntryOwned'
    BY <1>4, <1>24, EntryFrame DEF ForeignProcess, DaemonInv, BuriedLeft
  <2>4. Unwritten'
    BY <1>24 DEF ForeignProcess, DaemonInv, Unwritten, Top
  <2>5. RegisteredIsLimited'
    BY <1>2, <1>4, <1>24, <2>0, <2>1 DEF ForeignProcess, DaemonInv,
      RegisteredIsLimited, Holding
  <2>6. Directory'
    BY <1>4, <1>24 DEF ForeignProcess, DaemonInv, StartsAlone, MountedOnce,
      Serving
  <2>q. QED
    BY <2>2, <2>3, <2>4, <2>5, <2>6 DEF DaemonInv
<1>q. QED
  BY <1>5, <1>6, <1>7, <1>8, <1>9, <1>10, <1>11, <1>12, <1>13, <1>14, <1>15,
     <1>16, <1>17, <1>18, <1>19, <1>20, <1>21, <1>22, <1>23, <1>24 DEF
     RegistryStep

\* So does every other step: the daemon's, a client's, systemd's.
LEMMA DaemonInvStep == TypeOK /\ DaemonInv /\ [Next]_vars => DaemonInv'
<1> SUFFICES ASSUME TypeOK, DaemonInv, [Next]_vars PROVE DaemonInv'
  OBVIOUS
<1> DEFINE Rest == /\ StartsAlone
                   /\ dpc = "listen" => Len(fs) = 2
                   /\ MountedOnce
                   /\ Unwritten
<1>1. TypeOK'
  BY DaemonTypeStep DEF DaemonInv
<1>2. CASE RegistryStep /\ UNCHANGED daemonVars
  BY <1>2, RegistryInvStep
<1> USE RegistryAssumption
    DEF TypeOK, RegistryTypeOK, DGo, Go, MgrPoints, Serving, registryVars
<1>3. CASE Listen
  <2>1. /\ OwnsChild' /\ OwnerUnique' /\ BuriedLeft'
        /\ EntryOwned' /\ RegisteredIsLimited'
    BY <1>1, <1>3, IdleMove DEF Listen, Holding, Clearing
  <2>2. Rest'
    BY <1>1, <1>3 DEF Listen, DaemonInv, StartsAlone,
      MountedOnce, Unwritten, Top
  <2>q. QED
    BY <2>1, <2>2 DEF DaemonInv
<1>4. CASE Block
  <2>1. /\ OwnsChild' /\ OwnerUnique' /\ BuriedLeft'
        /\ EntryOwned' /\ RegisteredIsLimited'
    BY <1>1, <1>4, IdleMove DEF Block, Holding, Clearing
  <2>2. Rest'
    BY <1>1, <1>4 DEF Block, DaemonInv, StartsAlone,
      MountedOnce, Unwritten, Top
  <2>q. QED
    BY <2>1, <2>2 DEF DaemonInv
<1>5. CASE Accept
  <2>1. /\ OwnsChild' /\ OwnerUnique' /\ BuriedLeft'
        /\ EntryOwned' /\ RegisteredIsLimited'
    BY <1>1, <1>5, IdleMove DEF Accept, Holding, Clearing
  <2>2. Rest'
    BY <1>1, <1>5 DEF Accept, DaemonInv, StartsAlone,
      MountedOnce, Unwritten, Top
  <2>q. QED
    BY <2>1, <2>2 DEF DaemonInv
<1>6. CASE Eintr
  <2>1. /\ OwnsChild' /\ OwnerUnique' /\ BuriedLeft'
        /\ EntryOwned' /\ RegisteredIsLimited'
    BY <1>1, <1>6, IdleMove DEF Eintr, Reaped, Holding, Clearing
  <2>2. Rest'
    BY <1>1, <1>6 DEF Eintr, Reaped, DaemonInv, StartsAlone,
      MountedOnce, Unwritten, Top
  <2>q. QED
    BY <2>1, <2>2 DEF DaemonInv
<1>7. CASE DaemonThrows
  <2>1. /\ OwnsChild' /\ OwnerUnique' /\ BuriedLeft'
        /\ EntryOwned' /\ RegisteredIsLimited'
    BY <1>1, <1>7, IdleMove DEF DaemonThrows, Holding, Clearing
  <2>2. Rest'
    BY <1>1, <1>7 DEF DaemonThrows, DaemonInv, StartsAlone,
      MountedOnce, Unwritten, Top
  <2>q. QED
    BY <2>1, <2>2 DEF DaemonInv
<1>8. CASE StartService
  <2>1. /\ OwnsChild' /\ OwnerUnique' /\ BuriedLeft'
        /\ EntryOwned' /\ RegisteredIsLimited'
    BY <1>1, <1>8, IdleMove DEF StartService, Holding, Clearing
  <2>2. Rest'
    BY <1>1, <1>8 DEF StartService, DaemonInv, StartsAlone,
      MountedOnce, Unwritten, Top
  <2>q. QED
    BY <2>1, <2>2 DEF DaemonInv
<1>9. CASE sigterm_handler
  <2>1. /\ OwnsChild' /\ OwnerUnique' /\ BuriedLeft'
        /\ EntryOwned' /\ RegisteredIsLimited'
    BY <1>1, <1>9, IdleMove DEF sigterm_handler, Interrupted, Holding,
      Clearing
  <2>2. Rest'
    BY <1>1, <1>9 DEF sigterm_handler, Interrupted, DaemonInv, StartsAlone,
      MountedOnce, Unwritten, Top
  <2>q. QED
    BY <2>1, <2>2 DEF DaemonInv
<1>10. CASE ServiceDown
  <2>1. /\ OwnsChild' /\ OwnerUnique' /\ BuriedLeft'
        /\ EntryOwned' /\ RegisteredIsLimited'
    BY <1>1, <1>10, IdleMove DEF ServiceDown, Holding, Clearing
  <2>2. Rest'
    BY <1>1, <1>10 DEF ServiceDown, DaemonInv, StartsAlone,
      MountedOnce, Unwritten, Top
  <2>q. QED
    BY <2>1, <2>2 DEF DaemonInv
<1>11. ASSUME NEW m \in Mgrs, Connect(m) PROVE DaemonInv'
  <2>1. /\ OwnsChild' /\ OwnerUnique' /\ BuriedLeft'
        /\ EntryOwned' /\ RegisteredIsLimited'
    BY <1>1, <1>11, IdleMove DEF Connect, Holding, Clearing
  <2>2. Rest'
    BY <1>1, <1>11 DEF Connect, DaemonInv, StartsAlone,
      MountedOnce, Unwritten, Top
  <2>q. QED
    BY <2>1, <2>2 DEF DaemonInv
<1>12. ASSUME NEW m \in Mgrs, ManagerExits(m) PROVE DaemonInv'
  <2>1. /\ OwnsChild' /\ OwnerUnique' /\ BuriedLeft'
        /\ EntryOwned' /\ RegisteredIsLimited'
    BY <1>1, <1>12, IdleMove DEF ManagerExits, Interrupted, Holding,
      Clearing
  <2>2. Rest'
    BY <1>1, <1>12 DEF ManagerExits, Interrupted, DaemonInv, StartsAlone,
      MountedOnce, Unwritten, Top
  <2>q. QED
    BY <2>1, <2>2 DEF DaemonInv
<1>13. CASE Mount
  <2>1. OwnsChild' /\ OwnerUnique' /\ RegisteredIsLimited'
    BY <1>13 DEF Mount, DaemonInv, OwnsChild, OwnerUnique, RegisteredIsLimited
  <2>2. CASE Len(fs) = 1
    <3>1. fs' = Append(fs, NoFiles)
      BY <1>13, <2>2 DEF Mount, mount_tmpfs
    <3>2. Len(fs') = 2 /\ fs'[1] = fs[1] /\ fs'[2] = NoFiles
      <4>1. NoFiles \in [Pids -> Entry]
        BY DEF NoFiles, Entry
      <4>2. /\ Len(fs') = Len(fs) + 1
            /\ \A k \in 1 .. Len(fs) : fs'[k] = fs[k]
            /\ fs'[Len(fs) + 1] = NoFiles
        BY <3>1, <4>1, Overmount
      <4>q. QED
        BY <2>2, <4>2
    <3>3. ASSUME NEW q \in Pids, fs[1][q] # "none" PROVE <<1, q>> \in left
      <4>1. 1 \in DOMAIN fs
        BY <2>2
      <4>2. \A m \in Mgrs : mpc[m] = "none"
        BY <1>13 DEF Mount, mount_tmpfs, DaemonInv, StartsAlone
      <4>q. QED
        BY <3>3, <4>1, <4>2 DEF DaemonInv, EntryOwned, Owner
    <3>4. BuriedLeft'
      BY <1>13, <3>2, <3>3 DEF Mount, BuriedLeft
    <3>5. EntryOwned'
      <4>1. DOMAIN fs' = {1, 2}
        BY <1>1, <3>2
      <4>2. \A q \in Pids : fs'[2][q] = "none"
        BY <3>2 DEF NoFiles
      <4>q. QED
        BY <1>13, <3>2, <3>3, <4>1, <4>2 DEF Mount, EntryOwned
    <3>6. Rest'
      BY <1>13, <3>2 DEF Mount, mount_tmpfs, DaemonInv, StartsAlone,
        MountedOnce, Unwritten, Top
    <3>q. QED
      BY <2>1, <3>4, <3>5, <3>6 DEF DaemonInv
  <2>3. CASE Len(fs) = 2
    <3>1. UNCHANGED fs
      BY <1>13, <2>3 DEF Mount, mount_tmpfs
    <3>2. BuriedLeft' /\ EntryOwned'
      BY <1>13, <3>1, EntryFrame DEF Mount, DaemonInv, BuriedLeft
    <3>3. Rest'
      BY <1>13, <2>3, <3>1 DEF Mount, mount_tmpfs, DaemonInv, StartsAlone,
        MountedOnce, Unwritten, Top
    <3>q. QED
      BY <2>1, <3>2, <3>3 DEF DaemonInv
  <2>q. QED
    BY <2>2, <2>3
<1>14. CASE umount_tmpfs
  <2>1. OwnsChild' /\ OwnerUnique' /\ RegisteredIsLimited'
    BY <1>14 DEF umount_tmpfs, DaemonInv, OwnsChild, OwnerUnique,
      RegisteredIsLimited
  <2>2. Rest'
    <3>1. (\E m \in Mgrs : mpc[m] = "write") => UNCHANGED fs
      BY <1>14 DEF umount_tmpfs, Busy
    <3>2. Unwritten'
      BY <1>14, <3>1 DEF umount_tmpfs, DaemonInv, Unwritten, Top
    <3>q. QED
      BY <1>14, <3>2 DEF umount_tmpfs, DaemonInv, StartsAlone, MountedOnce
  <2>3. CASE UNCHANGED fs
    BY <1>14, <2>1, <2>2, <2>3, EntryFrame DEF umount_tmpfs, DaemonInv,
      BuriedLeft
  <2>4. CASE Len(fs) = 2 /\ fs' = SubSeq(fs, 1, 1)
    <3>1. Len(fs') = 1 /\ DOMAIN fs' = {1} /\ fs'[1] = fs[1]
      BY <2>4
    <3>2. BuriedLeft'
      <4>1. Len(fs') # 2
        BY <3>1
      <4>q. QED
        BY <4>1 DEF BuriedLeft
    <3>3. EntryOwned'
      BY <1>14, <2>4, <3>1 DEF umount_tmpfs, DaemonInv, BuriedLeft, EntryOwned
    <3>q. QED
      BY <2>1, <2>2, <3>2, <3>3 DEF DaemonInv
  <2>q. QED
    <3>1. Len(fs) = 1 \/ Len(fs) = 2
      OBVIOUS
    <3>q. QED
      BY <1>14, <2>3, <2>4, <3>1 DEF umount_tmpfs
<1>15. CASE Clear
  <2>1. /\ \A m \in Mgrs : \/ mpc'[m] = mpc[m]
                           \/ /\ mpc[m] \in {"queued", "zombie"}
                              /\ mpc'[m] = "none"
        /\ UNCHANGED <<fs, proc, left, clonepid, todo>>
    BY <1>1, <1>15 DEF Clear, Unserved
  <2>2. OwnerUnique' /\ BuriedLeft'
    BY <2>1 DEF DaemonInv, OwnerUnique, BuriedLeft, Holding
  <2>3. OwnsChild'
    BY <2>1 DEF DaemonInv, OwnsChild, Holding, Clearing
  <2>4. EntryOwned'
    BY <2>1, EntryFrame DEF DaemonInv
  <2>5. RegisteredIsLimited'
    BY <1>1, <1>15, <2>1 DEF Clear, clear_cgroup_setting, DaemonInv,
      RegisteredIsLimited,
      OwnsChild, Holding
  <2>6. Unwritten'
    BY <2>1 DEF DaemonInv, Unwritten, Top
  <2>7. dpc' = "exited"
    BY <1>15 DEF Clear
  <2>q. QED
    BY <2>2, <2>3, <2>4, <2>5, <2>6, <2>7 DEF DaemonInv, StartsAlone,
      MountedOnce
<1>16. CASE ServiceKilled
  <2>1. /\ UNCHANGED fs
        /\ \A m \in Mgrs : mpc'[m] = "none" /\ clonepid'[m] = 0
        /\ left' = {f \in (DOMAIN fs) \X Pids : fs[f[1]][f[2]] # "none"}
        /\ dpc' = "down"
    BY <1>16 DEF ServiceKilled
  <2>2. OwnsChild' /\ OwnerUnique' /\ RegisteredIsLimited' /\ Rest'
    BY <2>1 DEF OwnsChild, OwnerUnique, RegisteredIsLimited, Holding,
      Clearing, DaemonInv, StartsAlone, MountedOnce,
      Unwritten, Top
  <2>3. \A l \in DOMAIN fs, q \in Pids :
          fs[l][q] # "none" => <<l, q>> \in left'
    BY <2>1
  <2>4. BuriedLeft' /\ EntryOwned'
    BY <2>1, <2>3 DEF BuriedLeft, EntryOwned
  <2>q. QED
    BY <2>2, <2>4 DEF DaemonInv
<1>17. CASE UNCHANGED vars
  <2>1. /\ OwnsChild' /\ OwnerUnique' /\ BuriedLeft'
        /\ EntryOwned' /\ RegisteredIsLimited'
    BY <1>1, <1>17, IdleMove DEF vars
  <2>2. Rest'
    BY <1>17 DEF vars, daemonVars, DaemonInv, StartsAlone,
      MountedOnce, Unwritten, Top
  <2>q. QED
    BY <2>1, <2>2 DEF DaemonInv
<1>q. QED
  BY <1>2, <1>3, <1>4, <1>5, <1>6, <1>7, <1>8, <1>9, <1>10, <1>11, <1>12,
     <1>13, <1>14, <1>15, <1>16, <1>17 DEF Next, DaemonStep

\* Before the first start there is no manager, no command and no file.
LEMMA DaemonInvInit == Init => DaemonInv
<1> SUFFICES ASSUME Init PROVE DaemonInv
  OBVIOUS
<1> USE DEF Init, RegistryInit
<1>1. EntryOwned
  <2>1. DOMAIN fs = {1} /\ fs[1] = NoFiles
    OBVIOUS
  <2>q. QED
    BY <2>1 DEF EntryOwned, NoFiles
<1>q. QED
  BY <1>1 DEF DaemonInv, OwnsChild, OwnerUnique, BuriedLeft, StartsAlone,
    MountedOnce, Unwritten, Top,
      RegisteredIsLimited, Holding,
     Clearing, Serving

\* Types and ownership hold together in every state: a manager that removes or
\* leaves a file knows the pid that names it.
THEOREM DaemonCorrect == Spec => [](TypeOK /\ DaemonInv)
<1>1. Init => TypeOK /\ DaemonInv
  BY DaemonTypeInit, DaemonInvInit
<1>2. TypeOK /\ DaemonInv /\ [Next]_vars => (TypeOK /\ DaemonInv)'
  BY DaemonTypeStep, DaemonInvStep DEF DaemonInv
<1>q. QED
  BY <1>1, <1>2, PTL DEF Spec

\* The types alone.
THEOREM DaemonTypes == Spec => []TypeOK
  BY DaemonCorrect, PTL

\* mount_tmpfs and umount_tmpfs: over any number of starts, stops, kills and
\* failures of umount, connections are accepted over exactly one tmpfs.
THEOREM TmpfsMountedOnce == Spec => []MountedOnce
<1>1. DaemonInv => MountedOnce
  BY DEF DaemonInv
<1>q. QED
  BY <1>1, DaemonCorrect, PTL

\* write_file and clear_clonepid against umount_tmpfs: a file of the registry,
\* visible or buried, has a manager that will remove it or was left behind.
THEOREM EntriesOwned == Spec => []EntryOwned
<1>1. DaemonInv => EntryOwned
  BY DEF DaemonInv
<1>q. QED
  BY <1>1, DaemonCorrect, PTL

-----------------------------------------------------------------------------
(* What LIST and STOP find, as long as no pid was given away again while   *)
(* its manager was clearing up after it.                                   *)

\* Pids stay with their managers when no process comes or goes.
LEMMA ClearedFrame ==
  ASSUME ClearedAlone, UNCHANGED <<proc, clonepid>>,
         \A m \in Mgrs : mpc'[m] \in Clearing => mpc[m] \in Clearing
  PROVE  ClearedAlone'
  BY DEF ClearedAlone

\* A pid that is not recycled too early has one manager from clone to the end
\* of clear_clonepid.
LEMMA SoleOwner ==
  ASSUME TypeOK, DaemonInv, ClearedAlone, NEW m \in Mgrs,
         mpc[m] \in Holding \cup Clearing
  PROVE  \A k \in Mgrs \ {m} : clonepid[k] # clonepid[m]
<1> SUFFICES ASSUME NEW k \in Mgrs, clonepid[k] = clonepid[m] PROVE k = m
  OBVIOUS
<1>1. mpc[k] \in Holding \cup Clearing
  BY DEF DaemonInv, OwnsChild
<1>2. CASE mpc[m] \in Clearing \/ mpc[k] \in Clearing
  BY <1>2 DEF ClearedAlone
<1>3. CASE mpc[m] \in Holding /\ mpc[k] \in Holding
  BY <1>3 DEF DaemonInv, OwnerUnique
<1>q. QED
  BY <1>1, <1>2, <1>3

\* Every step keeps the pid of a reaped command out of use until its manager
\* has done with it, unless it is one that recycles the pid.
LEMMA ClearedStep ==
  ASSUME recycled' = {}, TypeOK, DaemonInv, ClearedAlone, [Next]_vars
  PROVE  ClearedAlone'
<1> USE RegistryAssumption
    DEF TypeOK, RegistryTypeOK, Go, DGo, Clearing, registryVars
<1>1. ASSUME NEW m \in Mgrs, Clone(m) PROVE ClearedAlone'
  <2>1. PICK p \in Pids : /\ Allocate(p, "alive")
                         /\ clonepid' = [clonepid EXCEPT ![m] = p]
    BY <1>1 DEF Clone
  <2>2. \A k \in Mgrs : mpc[k] \in Clearing => clonepid[k] # p
    BY <2>1 DEF Allocate, Owner
  <2>3. \A k \in Mgrs : mpc'[k] \in Clearing => mpc[k] \in Clearing /\ k # m
    BY <1>1 DEF Clone
  <2>q. QED
    BY <2>1, <2>2, <2>3 DEF Allocate, ClearedAlone
<1>2. ASSUME NEW m \in Mgrs, Reap(m) PROVE ClearedAlone'
  <2>1. \A k \in Mgrs \ {m} : clonepid[k] # clonepid[m]
    BY <1>2, SoleOwner DEF Reap, Holding
  <2>2. \A k \in Mgrs \ {m} : mpc'[k] = mpc[k]
    BY <1>2 DEF Reap
  <2>3. /\ clonepid' = clonepid
        /\ proc' = [proc EXCEPT ![clonepid[m]] = "free"]
        /\ clonepid[m] \in Pids
    BY <1>2 DEF Reap, DaemonInv, OwnsChild, Holding
  <2>q. QED
    BY <2>1, <2>2, <2>3 DEF ClearedAlone
<1>3. ASSUME NEW m \in Mgrs, Rmdir(m) \/ LeaveChild(m) PROVE ClearedAlone'
  <2>1. /\ proc' = proc
        /\ clonepid' = [clonepid EXCEPT ![m] = 0]
        /\ mpc' = [mpc EXCEPT ![m] = "exit"]
    BY <1>3 DEF Rmdir, LeaveChild
  <2>2. \A k \in Mgrs : mpc[k] \in Clearing => clonepid[k] # 0
    BY DEF DaemonInv, OwnsChild
  <2>q. QED
    BY <2>1, <2>2 DEF ClearedAlone
<1>4. ASSUME NEW p \in Pids, CommandDies(p) \/ ForeignProcess(p)
      PROVE  ClearedAlone'
  <2>1. /\ UNCHANGED <<mpc, clonepid>>
        /\ \E next : proc' = [proc EXCEPT ![p] = next]
    BY <1>4 DEF CommandDies, ForeignProcess, Allocate
  <2>2. \A k \in Mgrs : mpc[k] \in Clearing => clonepid[k] # p
    BY <1>4 DEF CommandDies, ForeignProcess, Allocate, Owner, ClearedAlone
  <2>q. QED
    BY <2>1, <2>2 DEF ClearedAlone
<1>5. CASE ServiceKilled
  BY <1>5 DEF ServiceKilled, ClearedAlone
<1>6. ASSUME NEW m \in Mgrs,
             \/ MakeLeaf(m) \/ JoinLeaf(m) \/ OpenEntry(m) \/ WriteEntry(m)
             \/ Throw(m) \/ Unlink(m) \/ Quit(m) \/ ListStart(m)
             \/ ListRead(m) \/ ListThrows(m) \/ ListAnswer(m) \/ StopStart(m)
             \/ StopExists(m) \/ StopKill(m) \/ Connect(m) \/ ManagerExits(m)
      PROVE  ClearedAlone'
  BY <1>6, ClearedFrame DEF MakeLeaf, JoinLeaf, OpenEntry, WriteEntry, Throw,
    Unlink, Quit, ListStart, ListRead, ListThrows, ListAnswer, StopStart,
    StopExists, StopKill, Connect, ManagerExits
<1>7. CASE \/ Mount \/ Listen \/ Block \/ umount_tmpfs \/ DaemonThrows
           \/ StartService \/ sigterm_handler \/ ServiceDown \/ UNCHANGED vars
  BY <1>7, ClearedFrame DEF Mount, Listen, Block, umount_tmpfs, DaemonThrows,
    StartService, sigterm_handler, ServiceDown, vars
<1>8. CASE Accept \/ Eintr \/ Clear
  BY <1>8, ClearedFrame DEF Accept, Eintr, Reaped, Clear, Unserved
<1>q. QED
  BY <1>1, <1>2, <1>3, <1>4, <1>5, <1>6, <1>7, <1>8 DEF Next, DaemonStep,
    RegistryStep

\* A step that touches no file, and brings no manager to where its file is
\* written or its command runs, leaves ListedInv as it is.
LEMMA ListedFrame ==
  ASSUME ListedInv, UNCHANGED fs,
         dpc' \in Serving => dpc \in Serving,
         \A m \in Mgrs : mpc'[m] \in {"write", "run"} =>
           mpc'[m] = mpc[m] /\ clonepid'[m] = clonepid[m]
  PROVE  ListedInv'
<1>1. WritesVisible'
  BY DEF ListedInv, WritesVisible, Top
<1>2. RegisteredListed'
  BY DEF ListedInv, RegisteredListed, Top
<1>q. QED
  BY <1>1, <1>2 DEF ListedInv

\* Before the first start there is no manager.
LEMMA ListedInit == Init => ClearedAlone /\ ListedInv
  BY DEF Init, RegistryInit, ClearedAlone, Clearing, ListedInv, WritesVisible,
    RegisteredListed, Serving

\* Every step keeps ListedInv.
LEMMA ListedStep ==
  ASSUME TypeOK, DaemonInv, ClearedAlone, ListedInv, [Next]_vars
  PROVE  ListedInv'
<1>1. Top \in 1 .. Len(fs)
  <2>1. Len(fs) \in 1 .. 2
    BY DEF TypeOK, RegistryTypeOK
  <2>q. QED
    BY <2>1 DEF Top
<1> USE RegistryAssumption
    DEF TypeOK, RegistryTypeOK, Go, MgrPoints, Serving
<1>2. \A m \in Mgrs : mpc[m] \in Holding \cup Clearing => clonepid[m] \in Pids
  BY DEF OwnsChild, DaemonInv
<1>3. {"none", "empty", "whole"} \subseteq Entry
  BY DEF Entry
<1>4. ASSUME NEW m \in Mgrs, Clone(m), UNCHANGED daemonVars PROVE ListedInv'
  BY <1>4, ListedFrame DEF Clone, daemonVars, Allocate
<1>5. ASSUME NEW m \in Mgrs, MakeLeaf(m), UNCHANGED daemonVars PROVE ListedInv'
  BY <1>5, ListedFrame DEF MakeLeaf, daemonVars
<1>6. ASSUME NEW m \in Mgrs, JoinLeaf(m), UNCHANGED daemonVars PROVE ListedInv'
  BY <1>6, ListedFrame DEF JoinLeaf, daemonVars
<1>7. ASSUME NEW m \in Mgrs, Throw(m), UNCHANGED daemonVars PROVE ListedInv'
  BY <1>7, ListedFrame DEF Throw, daemonVars
<1>8. ASSUME NEW m \in Mgrs, Reap(m), UNCHANGED daemonVars PROVE ListedInv'
  BY <1>8, ListedFrame DEF Reap, daemonVars
<1>9. ASSUME NEW m \in Mgrs, Rmdir(m), UNCHANGED daemonVars PROVE ListedInv'
  BY <1>9, ListedFrame DEF Rmdir, daemonVars
<1>10. ASSUME NEW m \in Mgrs, LeaveChild(m), UNCHANGED daemonVars
       PROVE  ListedInv'
  BY <1>10, ListedFrame DEF LeaveChild, daemonVars
<1>11. ASSUME NEW m \in Mgrs, Quit(m), UNCHANGED daemonVars PROVE ListedInv'
  BY <1>11, ListedFrame DEF Quit, daemonVars
<1>12. ASSUME NEW m \in Mgrs, ListStart(m), UNCHANGED daemonVars
       PROVE  ListedInv'
  BY <1>12, ListedFrame DEF ListStart, daemonVars
<1>13. ASSUME NEW m \in Mgrs, ListRead(m), UNCHANGED daemonVars
       PROVE  ListedInv'
  BY <1>13, ListedFrame DEF ListRead, daemonVars
<1>14. ASSUME NEW m \in Mgrs, ListThrows(m), UNCHANGED daemonVars
       PROVE  ListedInv'
  BY <1>14, ListedFrame DEF ListThrows, daemonVars
<1>15. ASSUME NEW m \in Mgrs, ListAnswer(m), UNCHANGED daemonVars
       PROVE  ListedInv'
  BY <1>15, ListedFrame DEF ListAnswer, daemonVars
<1>16. ASSUME NEW m \in Mgrs, StopStart(m), UNCHANGED daemonVars
       PROVE  ListedInv'
  BY <1>16, ListedFrame DEF StopStart, daemonVars
<1>17. ASSUME NEW m \in Mgrs, StopKill(m), UNCHANGED daemonVars
       PROVE  ListedInv'
  BY <1>17, ListedFrame DEF StopKill, daemonVars
<1>18. ASSUME NEW p \in Pids, CommandDies(p), UNCHANGED daemonVars
       PROVE  ListedInv'
  BY <1>18, ListedFrame DEF CommandDies, daemonVars
<1>19. ASSUME NEW p \in Pids, ForeignProcess(p), UNCHANGED daemonVars
       PROVE  ListedInv'
  BY <1>19, ListedFrame DEF ForeignProcess, daemonVars,
    Allocate
<1>20. ASSUME NEW m \in Mgrs, Connect(m) PROVE ListedInv'
  BY <1>20, ListedFrame DEF Connect, daemonVars
<1>21. ASSUME NEW m \in Mgrs, ManagerExits(m) PROVE ListedInv'
  BY <1>21, ListedFrame DEF ManagerExits, daemonVars, Interrupted
<1>22. ASSUME NEW m \in Mgrs, OpenEntry(m), UNCHANGED daemonVars
       PROVE  ListedInv'
  <2>1. clonepid[m] \in Pids
    BY <1>2, <1>22 DEF OpenEntry, Holding, Clearing
  <2>2. /\ Len(fs') = Len(fs)
        /\ \A k \in 1 .. Len(fs), q \in Pids :
             fs'[k][q] = IF k = Top /\ q = clonepid[m] THEN "empty"
                                                     ELSE fs[k][q]
    BY <1>1, <1>3, <1>22, <2>1, FileWrite DEF OpenEntry
  <2>3. \A k \in Mgrs : k # m /\ mpc[k] \in Holding =>
                          clonepid[k] # clonepid[m]
    BY <1>22, SoleOwner DEF OpenEntry, Holding, Clearing
  <2>4. WritesVisible'
    BY <1>1, <1>2, <1>22, <2>1, <2>2, <2>3 DEF OpenEntry, ListedInv,
      WritesVisible, Top, Holding
  <2>5. RegisteredListed'
    BY <1>1, <1>2, <1>22, <2>1, <2>2, <2>3 DEF OpenEntry, ListedInv,
      RegisteredListed, Top, Holding, daemonVars
  <2>q. QED
    BY <2>4, <2>5 DEF ListedInv
<1>23. ASSUME NEW m \in Mgrs, WriteEntry(m), UNCHANGED daemonVars
       PROVE  ListedInv'
  <2>1. clonepid[m] \in Pids
    BY <1>2, <1>23 DEF WriteEntry, Holding, Clearing
  <2>2. /\ Len(fs') = Len(fs)
        /\ \A k \in 1 .. Len(fs), q \in Pids :
             fs'[k][q] = IF k = Top /\ q = clonepid[m]
                         THEN IF fs[k][q] = "none" THEN "none" ELSE "whole"
                         ELSE fs[k][q]
    BY <1>1, <1>3, <1>23, <2>1, FileWrite DEF WriteEntry
  <2>3. \A k \in Mgrs : k # m /\ mpc[k] \in Holding =>
                          clonepid[k] # clonepid[m]
    BY <1>23, SoleOwner DEF WriteEntry, Holding, Clearing
  <2>4. WritesVisible'
    BY <1>1, <1>2, <1>23, <2>1, <2>2, <2>3 DEF WriteEntry, ListedInv,
      WritesVisible, Top, Holding
  <2>5. RegisteredListed'
    BY <1>1, <1>2, <1>23, <2>1, <2>2, <2>3 DEF WriteEntry, ListedInv,
      RegisteredListed, WritesVisible, Top, Holding, daemonVars
  <2>q. QED
    BY <2>4, <2>5 DEF ListedInv
<1>24. ASSUME NEW m \in Mgrs, Unlink(m), UNCHANGED daemonVars PROVE ListedInv'
  <2>1. clonepid[m] \in Pids
    BY <1>2, <1>24 DEF Unlink, Holding, Clearing
  <2>2. /\ Len(fs') = Len(fs)
        /\ \A k \in 1 .. Len(fs), q \in Pids :
             fs'[k][q] = IF k = Top /\ q = clonepid[m] THEN "none"
                                                     ELSE fs[k][q]
    BY <1>1, <1>3, <1>24, <2>1, FileWrite DEF Unlink
  <2>3. \A k \in Mgrs : k # m /\ mpc[k] \in Holding =>
                          clonepid[k] # clonepid[m]
    BY <1>24, SoleOwner DEF Unlink, Holding, Clearing
  <2>4. WritesVisible'
    BY <1>1, <1>2, <1>24, <2>1, <2>2, <2>3 DEF Unlink, ListedInv,
      WritesVisible, Top, Holding
  <2>5. RegisteredListed'
    BY <1>1, <1>2, <1>24, <2>1, <2>2, <2>3 DEF Unlink, ListedInv,
      RegisteredListed, Top, Holding, daemonVars
  <2>q. QED
    BY <2>4, <2>5 DEF ListedInv
<1>25. ASSUME NEW m \in Mgrs, StopExists(m), UNCHANGED daemonVars
      PROVE  ListedInv'
  BY <1>25, ListedFrame DEF StopExists, daemonVars
<1>26. ASSUME RegistryStep, UNCHANGED daemonVars PROVE ListedInv'
  BY <1>26, <1>4, <1>5, <1>6, <1>7, <1>8, <1>9, <1>10, <1>11, <1>12, <1>13,
    <1>14, <1>15, <1>16, <1>17, <1>18, <1>19, <1>22, <1>23, <1>24, <1>25 DEF
    RegistryStep
<1>27. CASE StartService
  BY <1>27, ListedFrame DEF StartService, DGo, registryVars
<1>28. CASE DaemonThrows
  BY <1>28, ListedFrame DEF DaemonThrows, DGo, registryVars
<1>29. CASE Block
  BY <1>29, ListedFrame DEF Block, DGo, registryVars
<1>30. CASE Accept
  BY <1>30, ListedFrame DEF Accept, DGo
<1>31. CASE Eintr
  BY <1>31, ListedFrame DEF Eintr, DGo, Reaped
<1>32. CASE Clear
  BY <1>32, ListedFrame DEF Clear, DGo, Unserved
<1>33. CASE sigterm_handler
  BY <1>33, ListedFrame DEF sigterm_handler, DGo, registryVars,
    Interrupted
<1>34. CASE ServiceDown
  BY <1>34, ListedFrame DEF ServiceDown, DGo, registryVars
<1>35. CASE Listen
  <2>1. \A m \in Mgrs : mpc'[m] = "none"
    BY <1>35 DEF Listen, DGo, registryVars, DaemonInv, StartsAlone
  <2>q. QED
    BY <2>1 DEF ListedInv, WritesVisible, RegisteredListed
<1>36. CASE Mount
  <2>1. \A m \in Mgrs : mpc'[m] = "none"
    BY <1>36 DEF Mount, mount_tmpfs, DGo, DaemonInv, StartsAlone
  <2>q. QED
    BY <2>1 DEF ListedInv, WritesVisible, RegisteredListed
<1>37. CASE umount_tmpfs
  <2>1. dpc' \notin Serving
    BY <1>37 DEF umount_tmpfs, DGo
  <2>2. (\E m \in Mgrs : mpc[m] = "write") => UNCHANGED fs
    BY <1>37 DEF umount_tmpfs, Busy
  <2>3. WritesVisible'
    BY <1>37, <2>2 DEF umount_tmpfs, ListedInv, WritesVisible, Top
  <2>q. QED
    BY <2>1, <2>3 DEF ListedInv, RegisteredListed
<1>38. CASE ServiceKilled
  <2>1. \A m \in Mgrs : mpc'[m] = "none"
    BY <1>38 DEF ServiceKilled
  <2>q. QED
    BY <2>1 DEF ListedInv, WritesVisible, RegisteredListed
<1>39. CASE UNCHANGED vars
  BY <1>39, ListedFrame DEF vars, registryVars, daemonVars
<1>q. QED
  BY <1>26, <1>20, <1>21, <1>27, <1>28, <1>29, <1>30, <1>31, <1>32, <1>33,
    <1>34, <1>35, <1>36, <1>37, <1>38, <1>39 DEF Next, DaemonStep

\* A pid that was recycled is on record for good.
LEMMA RecycledGrows ==
  ASSUME [Next]_vars, recycled' = {}
  PROVE  recycled = {}
<1>1. ASSUME NEW p \in Pids, NEW as, Allocate(p, as) PROVE recycled = {}
  BY <1>1 DEF Allocate
<1>2. ASSUME NEW m \in Mgrs, Clone(m) PROVE recycled = {}
  BY <1>1, <1>2 DEF Clone
<1>3. ASSUME NEW p \in Pids, ForeignProcess(p) PROVE recycled = {}
  BY <1>1, <1>3 DEF ForeignProcess
<1>4. ASSUME NEW m \in Mgrs,
             \/ MakeLeaf(m) \/ JoinLeaf(m) \/ OpenEntry(m) \/ WriteEntry(m)
             \/ Throw(m) \/ Reap(m) \/ Unlink(m) \/ Rmdir(m) \/ LeaveChild(m)
             \/ Quit(m) \/ ListStart(m) \/ ListRead(m) \/ ListThrows(m)
             \/ ListAnswer(m) \/ StopStart(m) \/ StopExists(m) \/ StopKill(m)
             \/ Connect(m) \/ ManagerExits(m)
      PROVE  recycled = {}
  BY <1>4 DEF MakeLeaf, JoinLeaf, OpenEntry, WriteEntry, Throw, Reap, Unlink,
    Rmdir, LeaveChild, Quit, ListStart, ListRead, ListThrows, ListAnswer,
    StopStart, StopExists, StopKill, Connect, ManagerExits
<1>5. ASSUME NEW p \in Pids, CommandDies(p) PROVE recycled = {}
  BY <1>5 DEF CommandDies
<1>6. CASE \/ Mount \/ Listen \/ Block \/ Accept \/ Eintr \/ umount_tmpfs
           \/ Clear \/ DaemonThrows \/ StartService \/ sigterm_handler
           \/ ServiceDown \/ ServiceKilled \/ UNCHANGED vars
  BY <1>6 DEF Mount, Listen, Block, Accept, Eintr, umount_tmpfs, Clear,
    DaemonThrows, StartService, sigterm_handler, ServiceDown, ServiceKilled,
    vars, registryVars
<1>q. QED
  BY <1>2, <1>3, <1>4, <1>5, <1>6 DEF Next, DaemonStep, RegistryStep

\* All these invariants together.
THEOREM ServiceInvariant == Spec => [](TypeOK /\ DaemonInv /\ VisibleInv)
<1>1. Init => VisibleInv
  BY ListedInit DEF VisibleInv
<1>2. TypeOK /\ DaemonInv /\ VisibleInv /\ [Next]_vars => VisibleInv'
  <2> SUFFICES ASSUME TypeOK, DaemonInv, VisibleInv, [Next]_vars,
                      recycled' = {}
               PROVE  ClearedAlone' /\ ListedInv'
    BY DEF VisibleInv
  <2>1. ClearedAlone /\ ListedInv
    BY RecycledGrows DEF VisibleInv
  <2>q. QED
    BY <2>1, ClearedStep, ListedStep
<1>q. QED
  BY <1>1, <1>2, DaemonCorrect, PTL DEF Spec

\* write_file, clear_clonepid and clear_resource: while connections are served
\* a command has its whole entry in the visible directory from the end of its
\* registration until it is reaped or its manager starts to end, as long as
\* no pid was recycled too early.
THEOREM CommandsListed == Spec => []CommandListed
<1>1. VisibleInv => CommandListed
  BY DEF VisibleInv, ListedInv, CommandListed
<1>q. QED
  BY <1>1, ServiceInvariant, PTL

-----------------------------------------------------------------------------
(* The service implements Catalogue.                                       *)

\* The command with pid p goes from one stage to another, the others stay.
Moves(p, from, to) ==
  /\ Life(p) = from
  /\ Life(p)' = to
  /\ \A q \in Pids \ {p} : Life(q)' = Life(q)

SameLife == \A q \in Pids : Life(q)' = Life(q)

SameEntries ==
  \A q \in Pids : /\ fs'[Top'][q] # "none" <=> fs[Top][q] # "none"
                  /\ LeftBehind(q)' <=> LeftBehind(q)

SameService == dpc' \in Serving <=> dpc \in Serving

\* In terms of Catalogue.
LEMMA ViewMoves ==
  ASSUME NEW p \in Pids, NEW from, NEW to, Moves(p, from, to)
  PROVE  CatalogueView!Become(p, from, to)
  BY DEF Moves, CatalogueView!Become

LEMMA ViewSame ==
  /\ SameLife => UNCHANGED [p \in Pids |-> Life(p)]
  /\ SameEntries => /\ UNCHANGED {p \in Pids : fs[Top][p] # "none"}
                    /\ UNCHANGED {p \in Pids : LeftBehind(p)}
  /\ SameService => UNCHANGED (dpc \in Serving)
<1>1. SameLife => UNCHANGED [p \in Pids |-> Life(p)]
  BY DEF SameLife
<1>2. SameEntries => UNCHANGED {p \in Pids : fs[Top][p] # "none"}
  BY DEF SameEntries
<1>3. SameEntries => UNCHANGED {p \in Pids : LeftBehind(p)}
  BY DEF SameEntries
<1>4. SameService => UNCHANGED (dpc \in Serving)
  BY DEF SameService
<1>q. QED
  BY <1>1, <1>2, <1>3, <1>4

\* The stage of a command as its manager has it.
Stage(m) == IF mpc[m] \in Holding THEN "running"
            ELSE IF mpc[m] = "unlink" THEN "reaped" ELSE "idle"

\* Nothing changes for a command whose manager stays at its stage.
LEMMA LifeFrame ==
  ASSUME \A m \in Mgrs : /\ Stage(m)' = Stage(m)
                         /\ Stage(m) # "idle" => clonepid'[m] = clonepid[m]
  PROVE  SameLife
<1>1. \A m \in Mgrs : /\ mpc'[m] \in Holding <=> mpc[m] \in Holding
                      /\ mpc'[m] = "unlink" <=> mpc[m] = "unlink"
  BY DEF Stage, Holding
<1>2. \A m \in Mgrs : mpc[m] \in Holding \/ mpc[m] = "unlink"
                        => clonepid'[m] = clonepid[m]
  BY DEF Stage
<1>3. \A q : (\E m \in Owner(q)' : mpc'[m] \in Holding)
        <=> (\E m \in Owner(q) : mpc[m] \in Holding)
  BY <1>1, <1>2 DEF Owner
<1>4. \A q : (\E m \in Owner(q)' : mpc'[m] = "unlink")
        <=> (\E m \in Owner(q) : mpc[m] = "unlink")
  BY <1>1, <1>2 DEF Owner
<1>q. QED
  BY <1>3, <1>4 DEF SameLife, Life

\* A step of the one manager of a command moves that command alone.
LEMMA OwnerMoves ==
  ASSUME OwnsChild, OwnsChild', NEW m \in Mgrs, NEW p \in Pids,
         clonepid[m] \in {0, p}, clonepid'[m] \in {0, p},
         \A n \in Mgrs \ {m} : /\ mpc'[n] = mpc[n]
                              /\ clonepid'[n] = clonepid[n]
                              /\ clonepid[n] # p,
         NEW from, NEW to, Stage(m) = from, Stage(m)' = to
  PROVE  Moves(p, from, to)
<1>1. /\ mpc[m] \in Holding \cup Clearing => m \in Owner(p)
      /\ mpc'[m] \in Holding \cup Clearing => m \in Owner(p)'
  BY DEF OwnsChild, Owner
<1>2. \A n \in Mgrs \ {m} : n \notin Owner(p) /\ n \notin Owner(p)'
  BY DEF Owner
<1>3. Owner(p) \subseteq Mgrs /\ Owner(p)' \subseteq Mgrs
  BY DEF Owner
<1>4. Life(p) = Stage(m)
  BY <1>1, <1>2, <1>3 DEF Life, Stage, Clearing
<1>5. Life(p)' = Stage(m)'
  BY <1>1, <1>2, <1>3 DEF Life, Stage, Clearing
<1>6. ASSUME NEW q \in Pids \ {p} PROVE Life(q)' = Life(q)
  <2>1. m \notin Owner(q) /\ m \notin Owner(q)'
    BY RegistryAssumption DEF Owner
  <2>2. Owner(q)' = Owner(q)
    BY <2>1 DEF Owner
  <2>3. \A n \in Owner(q) : mpc'[n] = mpc[n]
    BY <2>1 DEF Owner
  <2>q. QED
    BY <2>2, <2>3 DEF Life
<1>q. QED
  BY <1>4, <1>5, <1>6 DEF Moves

\* What Catalogue does not see.
LEMMA Unseen ==
  ASSUME SameLife, SameEntries, SameService
  PROVE  UNCHANGED CatalogueView!vars
  BY ViewSame DEF CatalogueView!vars

\* A step of a manager, a command or another process, as Catalogue sees it.
LEMMA RegistryView ==
  ASSUME recycled' = {}, TypeOK, DaemonInv, DaemonInv', ClearedAlone,
         ListedInv,
         RegistryTypeOK',
         RegistryStep, UNCHANGED daemonVars
  PROVE  [CatalogueView!Next]_(CatalogueView!vars)
<1>1. Top \in 1 .. Len(fs)
  <2>1. Len(fs) \in 1 .. 2
    BY DEF TypeOK, RegistryTypeOK
  <2>q. QED
    BY <2>1 DEF Top
<1> USE RegistryAssumption DEF TypeOK, RegistryTypeOK, Go, MgrPoints
<1>2. SameService
  BY DEF daemonVars, SameService
<1>3. \A m \in Mgrs : mpc[m] \in Holding \cup Clearing => clonepid[m] \in Pids
  BY DEF OwnsChild, DaemonInv
<1>4. ASSUME UNCHANGED <<fs, left>> PROVE SameEntries
  BY <1>4 DEF SameEntries, LeftBehind, Top
<1>5. ASSUME NEW m \in Mgrs, MakeLeaf(m) PROVE UNCHANGED CatalogueView!vars
  <2>1. SameLife
    BY <1>5, LifeFrame DEF MakeLeaf, Stage, Holding
  <2>q. QED
    BY <1>2, <1>4, <1>5, <2>1, Unseen DEF MakeLeaf
<1>6. ASSUME NEW m \in Mgrs, JoinLeaf(m) PROVE UNCHANGED CatalogueView!vars
  <2>1. SameLife
    BY <1>6, LifeFrame DEF JoinLeaf, Stage, Holding
  <2>q. QED
    BY <1>2, <1>4, <1>6, <2>1, Unseen DEF JoinLeaf
<1>7. ASSUME NEW m \in Mgrs, Throw(m) PROVE UNCHANGED CatalogueView!vars
  <2>1. SameLife
    BY <1>7, LifeFrame DEF Throw, Stage, Holding
  <2>q. QED
    BY <1>2, <1>4, <1>7, <2>1, Unseen DEF Throw
<1>8. ASSUME NEW m \in Mgrs, Rmdir(m) PROVE UNCHANGED CatalogueView!vars
  <2>1. SameLife
    BY <1>8, LifeFrame DEF Rmdir, Stage, Holding
  <2>q. QED
    BY <1>2, <1>4, <1>8, <2>1, Unseen DEF Rmdir
<1>9. ASSUME NEW m \in Mgrs, Quit(m) PROVE UNCHANGED CatalogueView!vars
  <2>1. SameLife
    BY <1>9, LifeFrame DEF Quit, Stage, Holding
  <2>q. QED
    BY <1>2, <1>4, <1>9, <2>1, Unseen DEF Quit
<1>10. ASSUME NEW m \in Mgrs, ListStart(m) PROVE UNCHANGED CatalogueView!vars
  <2>1. SameLife
    BY <1>10, LifeFrame DEF ListStart, Stage, Holding
  <2>q. QED
    BY <1>2, <1>4, <1>10, <2>1, Unseen DEF ListStart
<1>11. ASSUME NEW m \in Mgrs, ListRead(m) PROVE UNCHANGED CatalogueView!vars
  <2>1. SameLife
    BY <1>11, LifeFrame DEF ListRead, Stage, Holding
  <2>q. QED
    BY <1>2, <1>4, <1>11, <2>1, Unseen DEF ListRead
<1>12. ASSUME NEW m \in Mgrs, ListThrows(m) PROVE UNCHANGED CatalogueView!vars
  <2>1. SameLife
    BY <1>12, LifeFrame DEF ListThrows, Stage, Holding
  <2>q. QED
    BY <1>2, <1>4, <1>12, <2>1, Unseen DEF ListThrows
<1>13. ASSUME NEW m \in Mgrs, ListAnswer(m) PROVE UNCHANGED CatalogueView!vars
  <2>1. SameLife
    BY <1>13, LifeFrame DEF ListAnswer, Stage, Holding
  <2>q. QED
    BY <1>2, <1>4, <1>13, <2>1, Unseen DEF ListAnswer
<1>14. ASSUME NEW m \in Mgrs, StopStart(m) PROVE UNCHANGED CatalogueView!vars
  <2>1. SameLife
    BY <1>14, LifeFrame DEF StopStart, Stage, Holding
  <2>q. QED
    BY <1>2, <1>4, <1>14, <2>1, Unseen DEF StopStart
<1>15. ASSUME NEW m \in Mgrs, StopKill(m) PROVE UNCHANGED CatalogueView!vars
  <2>1. SameLife
    BY <1>15, LifeFrame DEF StopKill, Stage, Holding
  <2>q. QED
    BY <1>2, <1>4, <1>15, <2>1, Unseen DEF StopKill
<1>16. ASSUME NEW m \in Mgrs, StopExists(m) PROVE UNCHANGED CatalogueView!vars
  <2>1. SameLife
    BY <1>16, LifeFrame DEF StopExists, Stage, Holding
  <2>q. QED
    BY <1>2, <1>4, <1>16, <2>1, Unseen DEF StopExists
<1>17. ASSUME NEW p \in Pids, CommandDies(p) PROVE UNCHANGED CatalogueView!vars
  <2>1. SameLife
    BY <1>17, LifeFrame DEF CommandDies, Stage, Holding
  <2>q. QED
    BY <1>2, <1>4, <1>17, <2>1, Unseen DEF CommandDies
<1>18. ASSUME NEW p \in Pids, ForeignProcess(p)
       PROVE  UNCHANGED CatalogueView!vars
  <2>1. SameLife
    BY <1>18, LifeFrame DEF ForeignProcess, Stage, Holding
  <2>q. QED
    BY <1>2, <1>4, <1>18, <2>1, Unseen DEF ForeignProcess
<1>19. ASSUME NEW m \in Mgrs, Clone(m) PROVE CatalogueView!Next
  <2>1. PICK p \in Pids : /\ Allocate(p, "alive")
                         /\ clonepid' = [clonepid EXCEPT ![m] = p]
    BY <1>19 DEF Clone
  <2>2. ASSUME NEW k \in Mgrs, clonepid[k] = p PROVE FALSE
    <3>1. mpc[k] \in Holding \cup Clearing
      BY <2>2 DEF DaemonInv, OwnsChild
    <3>2. mpc[k] \notin Holding
      BY <2>1, <2>2 DEF Allocate, DaemonInv, OwnsChild
    <3>3. mpc[k] \notin Clearing
      BY <2>1, <2>2 DEF Allocate, Owner
    <3>q. QED
      BY <3>1, <3>2, <3>3
  <2>3. Moves(p, "idle", "running")
    <3>1. clonepid[m] = 0
      BY <1>19 DEF Clone, DaemonInv, OwnsChild, Holding, Clearing
    <3>2. Stage(m) = "idle" /\ Stage(m)' = "running"
      BY <1>19 DEF Clone, Stage, Holding
    <3>q. QED
      BY <1>19, <2>1, <2>2, <3>1, <3>2, OwnerMoves DEF Clone, DaemonInv
  <2>4. CatalogueView!Start(p)
    BY <1>2, <1>4, <1>19, <2>3, ViewMoves, ViewSame DEF Clone,
      CatalogueView!Start
  <2>q. QED
    BY <2>4 DEF CatalogueView!Next
<1>20. ASSUME NEW m \in Mgrs, Reap(m) PROVE CatalogueView!Next
  <2>1. PICK p \in Pids : p = clonepid[m]
    BY <1>3, <1>20 DEF Reap, Holding, Clearing
  <2>2. \A k \in Mgrs \ {m} : clonepid[k] # p
    BY <1>20, <2>1, SoleOwner DEF Reap, Holding, Clearing
  <2>3. Moves(p, "running", "reaped")
    <3>1. clonepid'[m] \in {0, p}
      BY <1>20, <2>1 DEF Reap
    <3>2. Stage(m) = "running" /\ Stage(m)' = "reaped"
      BY <1>20 DEF Reap, Stage, Holding
    <3>q. QED
      BY <1>20, <2>1, <2>2, <3>1, <3>2, OwnerMoves DEF Reap, DaemonInv
  <2>4. CatalogueView!Reap(p)
    BY <1>2, <1>4, <1>20, <2>1, <2>3, ViewMoves, ViewSame DEF Reap,
      CatalogueView!Reap
  <2>q. QED
    BY <2>1, <2>4 DEF CatalogueView!Next
<1>21. ASSUME NEW m \in Mgrs, Unlink(m) PROVE CatalogueView!Next
  <2>1. PICK p \in Pids : p = clonepid[m]
    BY <1>3, <1>21 DEF Unlink, Holding, Clearing
  <2>2. \A k \in Mgrs \ {m} : clonepid[k] # p
    BY <1>21, <2>1, SoleOwner DEF Unlink, Holding, Clearing
  <2>3. Moves(p, "reaped", "idle")
    <3>1. clonepid'[m] \in {0, p}
      BY <1>21, <2>1 DEF Unlink
    <3>2. Stage(m) = "reaped" /\ Stage(m)' = "idle"
      BY <1>21 DEF Unlink, Stage, Holding
    <3>q. QED
      BY <1>21, <2>1, <2>2, <3>1, <3>2, OwnerMoves DEF Unlink, DaemonInv
  <2>4. /\ Top' = Top
        /\ \A q \in Pids : fs'[Top][q] = IF q = p THEN "none" ELSE fs[Top][q]
    BY <1>1, <1>21, <2>1, FileWrite DEF Unlink, Top, Entry
  <2>5. /\ {q \in Pids : fs[Top][q] # "none"}'
              = {q \in Pids : fs[Top][q] # "none"} \ {p}
        /\ {q \in Pids : LeftBehind(q)}'
              = {q \in Pids : LeftBehind(q)} \ {p}
    BY <1>21, <2>1, <2>4 DEF Unlink, LeftBehind
  <2>6. CatalogueView!Remove(p)
    BY <1>2, <2>1, <2>3, <2>5, ViewMoves, ViewSame DEF CatalogueView!Remove
  <2>q. QED
    BY <2>1, <2>6 DEF CatalogueView!Next
<1>22. ASSUME NEW m \in Mgrs, LeaveChild(m) PROVE CatalogueView!Next
  <2>1. PICK p \in Pids : p = clonepid[m]
    BY <1>3, <1>22 DEF LeaveChild, Holding, Clearing
  <2>2. \A k \in Mgrs \ {m} : clonepid[k] # p
    BY <1>22, <2>1, SoleOwner DEF LeaveChild, Holding, Clearing
  <2>3. Moves(p, "running", "idle")
    <3>1. clonepid'[m] \in {0, p}
      BY <1>22, <2>1 DEF LeaveChild
    <3>2. Stage(m) = "running" /\ Stage(m)' = "idle"
      BY <1>22 DEF LeaveChild, Stage, Holding
    <3>3. \A n \in Mgrs \ {m} : /\ mpc'[n] = mpc[n]
                              /\ clonepid'[n] = clonepid[n]
      BY <1>22 DEF LeaveChild
    <3>4. OwnsChild /\ OwnsChild'
      BY DEF DaemonInv
    <3>q. QED
      BY <2>1, <2>2, <3>1, <3>2, <3>3, <3>4, OwnerMoves
  <2>4. /\ UNCHANGED {q \in Pids : fs[Top][q] # "none"}
        /\ {q \in Pids : LeftBehind(q)}'
              = {q \in Pids : LeftBehind(q)}
                  \cup ({p} \cap {q \in Pids : fs[Top][q] # "none"})
    BY <1>22, <2>1 DEF LeaveChild, LeftBehind, Top
  <2>5. CatalogueView!GiveUp(p)
    BY <1>2, <2>1, <2>3, <2>4, ViewMoves, ViewSame DEF CatalogueView!GiveUp
  <2>q. QED
    BY <2>1, <2>5 DEF CatalogueView!Next
<1>23. ASSUME NEW m \in Mgrs, OpenEntry(m) PROVE CatalogueView!Next
  <2>1. PICK p \in Pids : p = clonepid[m]
    BY <1>3, <1>23 DEF OpenEntry, Holding, Clearing
  <2>2. SameLife
    BY <1>23, LifeFrame DEF OpenEntry, Stage, Holding
  <2>3. /\ Top' = Top
        /\ \A q \in Pids : fs'[Top][q] = IF q = p THEN "empty" ELSE fs[Top][q]
    BY <1>1, <1>23, <2>1, FileWrite DEF OpenEntry, Top, Entry
  <2>4. /\ {q \in Pids : fs[Top][q] # "none"}'
              = {q \in Pids : fs[Top][q] # "none"} \cup {p}
        /\ {q \in Pids : LeftBehind(q)}'
              = {q \in Pids : LeftBehind(q)} \ {p}
    BY <1>23, <2>1, <2>3 DEF OpenEntry, LeftBehind
  <2>5. Life(p) = "running"
    BY <1>23, <2>1 DEF OpenEntry, Life, Owner, Holding
  <2>6. CatalogueView!Enter(p)
    BY <1>2, <2>1, <2>2, <2>4, <2>5, ViewSame DEF CatalogueView!Enter
  <2>q. QED
    BY <2>1, <2>6 DEF CatalogueView!Next
<1>24. ASSUME NEW m \in Mgrs, WriteEntry(m) PROVE UNCHANGED CatalogueView!vars
  <2>1. PICK p \in Pids : p = clonepid[m]
    BY <1>3, <1>24 DEF WriteEntry, Holding, Clearing
  <2>2. SameLife
    BY <1>24, LifeFrame DEF WriteEntry, Stage, Holding
  <2>3. /\ Top' = Top
        /\ \A q \in Pids : fs'[Top][q] = IF q = p /\ fs[Top][q] # "none"
                                         THEN "whole" ELSE fs[Top][q]
    BY <1>1, <1>24, <2>1, FileWrite DEF WriteEntry, Top, Entry
  <2>4. fs[Top][p] # "none"
    BY <1>24, <2>1 DEF WriteEntry, ListedInv, WritesVisible
  <2>5. SameEntries
    BY <1>24, <2>1, <2>3, <2>4 DEF WriteEntry, SameEntries, LeftBehind
  <2>q. QED
    BY <1>2, <2>2, <2>5, Unseen
<1>q. QED
  BY <1>5, <1>6, <1>7, <1>8, <1>9, <1>10, <1>11, <1>12, <1>13, <1>14, <1>15,
    <1>16, <1>17, <1>18, <1>19, <1>20, <1>21, <1>22, <1>23, <1>24 DEF
    RegistryStep

\* Before the service is started no command is there.
LEMMA CatalogueInit == Init => CatalogueView!Init
<1> SUFFICES ASSUME Init PROVE CatalogueView!Init
  OBVIOUS
<1> USE RegistryAssumption DEF Init, RegistryInit
<1>1. \A p \in Pids : Life(p) = "idle"
  BY DEF Life, Owner, Holding
<1>2. \A p \in Pids : fs[Top][p] = "none"
  BY DEF Top, NoFiles
<1>3. \A p \in Pids : ~LeftBehind(p)
  BY DEF LeftBehind
<1>4. /\ [p \in Pids |-> Life(p)] = [p \in Pids |-> "idle"]
      /\ {p \in Pids : fs[Top][p] # "none"} = {}
      /\ {p \in Pids : LeftBehind(p)} = {}
  BY <1>1, <1>2, <1>3
<1>q. QED
  BY <1>4 DEF CatalogueView!Init

\* Every step of the service is one of Catalogue, or nothing it sees.
LEMMA CatalogueStep ==
  ASSUME recycled' = {}, TypeOK, DaemonInv, DaemonInv', ClearedAlone,
         ListedInv,
         [Next]_vars
  PROVE  [CatalogueView!Next]_(CatalogueView!vars)
<1>1. RegistryTypeOK
  BY DEF TypeOK
<1>2. mpc \in [Mgrs -> MgrPoints]
  BY <1>1 DEF RegistryTypeOK
<1>3. ASSUME UNCHANGED registryVars PROVE SameLife /\ SameEntries
  <2>1. SameLife
    BY <1>3, LifeFrame DEF registryVars, Stage
  <2>2. SameEntries
    BY <1>3 DEF registryVars, SameEntries, LeftBehind, Top
  <2>q. QED
    BY <2>1, <2>2
<1>4. ASSUME UNCHANGED <<fs, left>> PROVE SameEntries
  BY <1>4 DEF SameEntries, LeftBehind, Top
<1>5. CASE RegistryStep /\ UNCHANGED daemonVars
  <2>1. RegistryTypeOK'
    BY <1>1, <1>5, RegistryTypeStep DEF DaemonInv
  <2>q. QED
    BY <1>5, <2>1, RegistryView
<1>6. CASE UNCHANGED vars
  BY <1>3, <1>6, Unseen DEF vars, daemonVars, SameService
<1>7. CASE Mount
  <2>1. SameLife
    BY <1>7, LifeFrame DEF Mount, Stage
  <2>2. SameService
    BY <1>7 DEF Mount, mount_tmpfs, DGo, Serving, SameService
  <2>3. CASE Len(fs) = 1
    <3>1. Top' = 2 /\ \A q \in Pids : fs'[2][q] = "none"
      <4>1. fs' = Append(fs, NoFiles)
        BY <1>7, <2>3 DEF Mount, mount_tmpfs
      <4>2. NoFiles \in [Pids -> Entry] /\ fs \in Seq([Pids -> Entry])
        BY <1>1 DEF NoFiles, Entry, RegistryTypeOK
      <4>3. /\ Len(Append(fs, NoFiles)) = Len(fs) + 1
            /\ Append(fs, NoFiles)[Len(fs) + 1] = NoFiles
        BY <4>2, Overmount, Zenon
      <4>4. Len(fs') = 2 /\ fs'[2] = NoFiles
        BY <2>3, <4>1, <4>3
      <4>q. QED
        BY <4>4 DEF Top, NoFiles
    <3>2. /\ {q \in Pids : fs[Top][q] # "none"}' = {}
          /\ {q \in Pids : LeftBehind(q)}' = {}
      BY <3>1 DEF LeftBehind
    <3>3. ~(dpc \in Serving)
      BY <1>7 DEF Mount, mount_tmpfs, DGo, Serving
    <3>4. CatalogueView!Exchange
      BY <2>1, <2>2, <3>2, <3>3, ViewSame DEF CatalogueView!Exchange
    <3>q. QED
      BY <3>4 DEF CatalogueView!Next
  <2>4. CASE Len(fs) # 1
    BY <1>4, <1>7, <2>1, <2>2, <2>4, Unseen DEF Mount, mount_tmpfs
  <2>q. QED
    BY <2>3, <2>4
<1>8. CASE Listen
  <2>1. \A q \in Pids : Life(q) = "idle"
    BY <1>8 DEF Listen, DGo, DaemonInv, StartsAlone, Life, Owner, Holding
  <2>2. CatalogueView!GoUp
    BY <1>3, <1>8, <2>1, ViewSame DEF Listen, DGo, Serving,
      CatalogueView!GoUp
  <2>q. QED
    BY <2>2 DEF CatalogueView!Next
<1>9. CASE Block
  BY <1>3, <1>9, Unseen DEF Block, DGo, Serving, SameService
<1>10. CASE Accept
  <2>1. SameLife
    BY <1>2, <1>10, LifeFrame DEF Accept, Go, Stage, Holding
  <2>2. SameService
    BY <1>10 DEF Accept, Serving, SameService
  <2>q. QED
    BY <1>4, <1>10, <2>1, <2>2, Unseen DEF Accept
<1>11. CASE Eintr
  <2>1. SameLife
    BY <1>2, <1>11, LifeFrame DEF Eintr, Reaped, Stage, Holding
  <2>2. SameEntries
    BY <1>4, <1>11 DEF Eintr
  <2>3. CASE dstop
    <3>1. CatalogueView!GoDown
      BY <1>11, <2>1, <2>2, <2>3, ViewSame DEF Eintr, DGo, Serving,
        CatalogueView!GoDown
    <3>q. QED
      BY <3>1 DEF CatalogueView!Next
  <2>4. CASE ~dstop
    BY <1>11, <2>1, <2>2, <2>4, Unseen DEF Eintr, DGo, Serving, SameService
  <2>q. QED
    BY <2>3, <2>4
<1>12. CASE umount_tmpfs
  <2>1. SameLife
    BY <1>12, LifeFrame DEF umount_tmpfs, Stage
  <2>2. SameService
    BY <1>12 DEF umount_tmpfs, DGo, Serving, SameService
  <2>3. CASE Len(fs) = 2 /\ ~Busy
    <3>1. Len(fs') = 1 /\ fs'[1] = fs[1] /\ left' = left
      BY <1>1, <1>12, <2>3 DEF umount_tmpfs, RegistryTypeOK
    <3>2. {q \in Pids : LeftBehind(q)}'
            = {q \in Pids : fs[Top][q] # "none"}'
      BY <2>3, <3>1 DEF LeftBehind, Top, DaemonInv, BuriedLeft
    <3>3. ~(dpc \in Serving)
      BY <1>12 DEF umount_tmpfs, DGo, Serving
    <3>4. CatalogueView!Exchange
      BY <2>1, <2>2, <3>2, <3>3, ViewSame DEF CatalogueView!Exchange
    <3>q. QED
      BY <3>4 DEF CatalogueView!Next
  <2>4. CASE ~(Len(fs) = 2 /\ ~Busy)
    <3>1. fs' = fs
      BY <1>1, <1>12, <2>4 DEF umount_tmpfs, RegistryTypeOK
    <3>q. QED
      BY <1>4, <1>12, <2>1, <2>2, <3>1, Unseen DEF umount_tmpfs
  <2>q. QED
    BY <2>3, <2>4
<1>13. CASE Clear
  <2>1. SameLife
    BY <1>2, <1>13, LifeFrame DEF Clear, Unserved, Stage, Holding
  <2>2. SameService
    BY <1>13 DEF Clear, DGo, Serving, SameService
  <2>q. QED
    BY <1>4, <1>13, <2>1, <2>2, Unseen DEF Clear
<1>14. CASE DaemonThrows
  <2>1. CASE dpc \in Serving
    <3>1. CatalogueView!GoDown
      BY <1>3, <1>14, <2>1, ViewSame DEF DaemonThrows, Serving,
        CatalogueView!GoDown
    <3>q. QED
      BY <3>1 DEF CatalogueView!Next
  <2>2. CASE dpc \notin Serving
    BY <1>3, <1>14, <2>2, Unseen DEF DaemonThrows, Serving, SameService
  <2>q. QED
    BY <2>1, <2>2
<1>15. CASE StartService
  BY <1>3, <1>15, Unseen DEF StartService, DGo, Serving, SameService
<1>16. ASSUME NEW m \in Mgrs, Connect(m) PROVE UNCHANGED CatalogueView!vars
  <2>1. SameLife
    BY <1>2, <1>16, LifeFrame DEF Connect, Go, Stage, Holding
  <2>q. QED
    BY <1>4, <1>16, <2>1, Unseen DEF Connect, SameService
<1>17. ASSUME NEW m \in Mgrs, ManagerExits(m)
       PROVE  UNCHANGED CatalogueView!vars
  <2>1. SameLife
    BY <1>2, <1>17, LifeFrame DEF ManagerExits, Go, Stage, Holding
  <2>2. SameService
    BY <1>17 DEF ManagerExits, Interrupted, Serving, SameService
  <2>q. QED
    BY <1>4, <1>17, <2>1, <2>2, Unseen DEF ManagerExits
<1>18. CASE sigterm_handler
  BY <1>3, <1>18, Unseen DEF sigterm_handler, Interrupted, Serving,
    SameService
<1>19. CASE ServiceDown
  BY <1>3, <1>19, Unseen DEF ServiceDown, DGo, Serving, SameService
<1>20. CASE ServiceKilled
  <2>1. \A q \in Pids : Life(q)' = "idle"
    BY <1>20 DEF ServiceKilled, Life, Owner, Holding
  <2>2. Top' = Top /\ Top \in DOMAIN fs
    BY <1>1, <1>20 DEF ServiceKilled, RegistryTypeOK, Top
  <2>3. \A q \in Pids : LeftBehind(q)' <=> fs[Top][q] # "none"
    BY <1>20, <2>2 DEF ServiceKilled, LeftBehind
  <2>4. {q \in Pids : LeftBehind(q)}' = {q \in Pids : fs[Top][q] # "none"}
    BY <2>3
  <2>5. UNCHANGED {q \in Pids : fs[Top][q] # "none"}
    BY <1>20, <2>2 DEF ServiceKilled
  <2>6. CatalogueView!Crash
    BY <1>20, <2>1, <2>4, <2>5 DEF ServiceKilled, Serving,
      CatalogueView!Crash
  <2>q. QED
    BY <2>6 DEF CatalogueView!Next
<1>q. QED
  BY <1>5, <1>6, <1>7, <1>8, <1>9, <1>10, <1>11, <1>12, <1>13, <1>14, <1>15,
    <1>16, <1>17, <1>18, <1>19, <1>20 DEF Next, DaemonStep

\* handle_request, clear_clonepid, manager_destroy, the daemon's start and
\* clear_resource, and systemd's kill implement Catalogue, for any number of
\* managers and pids: an entry goes only after its command was reaped, and
\* goes stale only with its manager; as long as no pid was recycled too early.
THEOREM ServiceImplementsCatalogue == Spec => ImplementsCatalogue
<1> DEFINE Seen == recycled' = {} => CatalogueView!Next
<1>1. Init => CatalogueView!Init
  BY CatalogueInit
<1>2. TypeOK /\ DaemonInv /\ DaemonInv' /\ VisibleInv /\ [Next]_vars
        => [Seen]_(CatalogueView!vars)
  <2> SUFFICES ASSUME TypeOK, DaemonInv, DaemonInv', VisibleInv, [Next]_vars,
                      recycled' = {}
               PROVE  [CatalogueView!Next]_(CatalogueView!vars)
    OBVIOUS
  <2>1. ClearedAlone /\ ListedInv
    BY RecycledGrows DEF VisibleInv
  <2>q. QED
    BY <2>1, CatalogueStep
<1>q. QED
  BY <1>1, <1>2, ServiceInvariant, PTL DEF Spec, ImplementsCatalogue

-----------------------------------------------------------------------------
\* clear_cgroup_setting never takes the cgroup of a registered living command.
THEOREM LimitsStay == Spec => []RegisteredIsLimited
<1>1. DaemonInv => RegisteredIsLimited
  BY DEF DaemonInv
<1>q. QED
  BY <1>1, DaemonCorrect, PTL

\* MANAGER_LIST: with the required fields of proto2 an entry is read only
\* when it was left behind or its manager has registered the command and not
\* yet cleared it away, never while write_file is still at it.
THEOREM ListIsTruthful ==
  ASSUME ProtoVersion = 2
  PROVE  Spec => ListReadsCommands
<1> DEFINE Reads == \A m \in Mgrs : \A p \in got'[m] \ got[m] :
                      \/ <<Top, p>> \in left
                      \/ \E n \in Owner(p) :
                           mpc[n] \in {"run", "destroy", "unlink"}
<1>1. TypeOK /\ DaemonInv /\ [Next]_vars => [Reads]_vars
  <2> SUFFICES ASSUME TypeOK, DaemonInv, Next PROVE Reads
    OBVIOUS
  <2>1. ASSUME NEW m \in Mgrs, ListRead(m) PROVE Reads
    <3>1. PICK p \in todo[m] :
            Parses(p) /\ got' = [got EXCEPT ![m] = @ \cup {p}]
      BY <2>1 DEF ListRead
    <3>2. p \in Pids
      BY <3>1 DEF TypeOK, RegistryTypeOK
    <3>3. Top \in DOMAIN fs
      BY DEF TypeOK, RegistryTypeOK, Top
    <3>4. fs[Top][p] = "whole"
      BY <3>1 DEF Parses
    <3>5. \A n \in Owner(p) : mpc[n] # "write"
      BY <3>4 DEF DaemonInv, Unwritten, Owner
    <3>6. \/ <<Top, p>> \in left
          \/ \E n \in Owner(p) : mpc[n] \in {"run", "destroy", "unlink"}
      BY <3>2, <3>3, <3>4, <3>5 DEF DaemonInv, EntryOwned
    <3>q. QED
      BY <3>1, <3>6 DEF TypeOK, RegistryTypeOK
  <2>2. CASE \A m \in Mgrs : got'[m] \subseteq got[m]
    BY <2>2
  <2>3. \/ \E m \in Mgrs : ListRead(m)
        \/ \A m \in Mgrs : got'[m] \subseteq got[m]
    BY DEF Next, RegistryStep, DaemonStep, TypeOK, RegistryTypeOK, Clone,
      MakeLeaf, JoinLeaf,
      OpenEntry, WriteEntry, Throw, Reap, Unlink, Rmdir, LeaveChild, Quit,
      ListStart, ListThrows, ListAnswer, StopStart, StopExists, StopKill,
      CommandDies, ForeignProcess, Mount, Listen, Block, Accept, Eintr,
      umount_tmpfs, Clear, DaemonThrows, StartService, Connect, ManagerExits,
      sigterm_handler, ServiceDown, ServiceKilled, registryVars
  <2>q. QED
    BY <2>1, <2>2, <2>3
<1>q. QED
  BY <1>1, DaemonCorrect, PTL DEF Spec, ListReadsCommands
=============================================================================
