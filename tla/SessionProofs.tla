--------------------------- MODULE SessionProofs ----------------------------
(***************************************************************************)
(* Proofs about Session, for every value of its constants.                 *)
(***************************************************************************)
EXTENDS Session, TLAPS

\* What the initial state of a session satisfies: no child, nothing registered.
LEMMA SessionInit == Init => SessionInv
  BY DEF Init, SessionInv, WireInit, CommandInit, OutputInit, ManagerInit,
     SruncInit, Unreaped, ChildPid

\* Every step keeps SessionInv.
LEMMA SessionStep == SessionInv /\ [Next]_vars => SessionInv'
<1> SUFFICES ASSUME SessionInv, [Next]_vars PROVE SessionInv'
  OBVIOUS
<1> USE DEF SessionInv, Unreaped, ChildPid, wireVars, commandVars, outputVars,
        managerVars, sruncVars
<1>1. CASE ManagerStep
  <2>1. CASE WaitChild
    BY <1>1, <2>1 DEF WaitChild, wait_child
  <2>2. CASE ClearClonepid
    BY <1>1, <2>2 DEF ClearClonepid, clear_clonepid
  <2>3. CASE CheckExit
    BY <1>1, <2>3 DEF CheckExit
  <2>4. CASE CheckReply
    BY <1>1, <2>4 DEF CheckReply, send_message
  <2>5. CASE CheckIdle
    BY <1>1, <2>5 DEF CheckIdle, stop_child, Kill
  <2>6. CASE EpollEnter
    BY <1>1, <2>6 DEF EpollEnter, EpollStep
  <2>7. CASE EpollReturn
    BY <1>1, <2>7 DEF EpollReturn, EpollStep
  <2>8. CASE EpollTimeout
    BY <1>1, <2>8 DEF EpollTimeout, EpollStep
  <2>9. CASE SendSyn
    BY <1>1, <2>9 DEF SendSyn, send_message
  <2>10. CASE EventsDone
    BY <1>1, <2>10 DEF EventsDone, EpollStep
  <2>11. ASSUME NEW s \in Streams, HandleOutput(s) PROVE SessionInv'
    BY <1>1, <2>11 DEF HandleOutput, Take, receive, Receive
  <2>12. CASE HandleTimer
    BY <1>1, <2>12 DEF HandleTimer, Take, stop_child, Kill
  <2>13. CASE HandleLeak
    BY <1>1, <2>13 DEF HandleLeak, Take
  <2>14. CASE HandleEof
    BY <1>1, <2>14 DEF HandleEof, Take, stop_child, Kill
  <2>15. CASE HandleSyn
    BY <1>1, <2>15 DEF HandleSyn, Receives, Take, send_message
  <2>16. CASE HandleAck
    BY <1>1, <2>16 DEF HandleAck, Receives, Take
  <2>17. CASE HandleList
    BY <1>1, <2>17 DEF HandleList, Receives, Take, send_message, throw
  <2>18. CASE HandleStop
    BY <1>1, <2>18 DEF HandleStop, Receives, Take, send_message
  <2>19. ASSUME NEW r \in Requests, ExeRefused(r) PROVE SessionInv'
    BY <1>1, <2>19 DEF ExeRefused, HandleExe, Receives, Take
  <2>20. ASSUME NEW r \in Requests, ExeBadArgs(r) PROVE SessionInv'
    BY <1>1, <2>20 DEF ExeBadArgs, ExeAccepted, HandleExe, Receives, Take,
      send_message
  <2>21. ASSUME NEW r \in Requests, ExeThrows(r) PROVE SessionInv'
    BY <1>1, <2>21 DEF ExeThrows, ExeAccepted, HandleExe, Receives, Take,
      throw
  <2>22. ASSUME NEW r \in Requests, ExeClone(r) PROVE SessionInv'
    BY <1>1, <2>22 DEF ExeClone, ExeAccepted, HandleExe, Receives, Take,
      load
  <2>23. CASE JoinCgroup
    BY <1>1, <2>23 DEF JoinCgroup, throw
  <2>24. CASE Register
    BY <1>1, <2>24 DEF Register, throw
  <2>25. CASE Bind
    BY <1>1, <2>25 DEF Bind, throw, bind, set_timeout, send_message
  <2>26. CASE Destroy
    BY <1>1, <2>26 DEF Destroy, stop_child, Kill
  <2>27. CASE SleepOver
    BY <1>1, <2>27 DEF SleepOver
  <2>28. CASE DestroyWait
    BY <1>1, <2>28 DEF DestroyWait, wait_child
  <2>29. CASE DestroyClear
    BY <1>1, <2>29 DEF DestroyClear, clear_clonepid
  <2>30. CASE Close
    BY <1>1, <2>30 DEF Close, Kill
  <2>q. QED
    BY <1>1, <2>1, <2>2, <2>3, <2>4, <2>5, <2>6, <2>7, <2>8, <2>9, <2>10,
       <2>11, <2>12, <2>13, <2>14, <2>15, <2>16, <2>17, <2>18, <2>19, <2>20,
       <2>21, <2>22, <2>23, <2>24, <2>25, <2>26, <2>27, <2>28, <2>29, <2>30
       DEF ManagerStep
<1>2. CASE ClientStep
  BY <1>2 DEF ClientStep
<1>3. CASE ClientWhim
  BY <1>3 DEF ClientWhim
<1>4. CASE ChildStarts
  BY <1>4 DEF ChildStarts, Execv, ExecuteFails, sigchld, Interrupt
<1>5. CASE ChildEnds
  BY <1>5 DEF ChildEnds, CommandExits, sigchld, Interrupt
<1>6. CASE ChildActs
  BY <1>6 DEF ChildActs, CommandWrites, CommandForks, OrphanExits
<1>7. CASE Reparented
  BY <1>7 DEF Reparented, InitReaps
<1>8. CASE Stopped
  BY <1>8 DEF Stopped, sigterm_handler, Interrupt
<1>9. CASE Expiry
  BY <1>9 DEF Expiry, TimerExpires
<1>10. CASE UNCHANGED vars
  BY <1>10 DEF vars, allVars
<1>q. QED
  BY <1>1, <1>2, <1>3, <1>4, <1>5, <1>6, <1>7, <1>8, <1>9, <1>10 DEF Next

\* The inductive invariant holds in every reachable state.
THEOREM SessionInvariant == Spec => []SessionInv
<1>1. Init => SessionInv
  BY SessionInit
<1>2. SessionInv /\ [Next]_vars => SessionInv'
  BY SessionStep
<1>q. QED
  BY <1>1, <1>2, PTL DEF Spec

\* stop_child and manager_destroy signal only the manager's own unreaped
\* child, for every request, client, limit and protocol version.
THEOREM KillSafety == Spec => []KillTargetsOwnChild
<1>1. SessionInv => KillTargetsOwnChild
  BY DEF SessionInv, KillTargetsOwnChild
<1>q. QED
  BY <1>1, SessionInvariant, PTL

\* The registry file and the cgroup directory name an unreaped child as long
\* as the manager lives, but for the window before clear_clonepid.
THEOREM ResourceSafety == Spec => []ResourcesFresh
<1>1. SessionInv => ResourcesFresh
  BY DEF SessionInv, ResourcesFresh
<1>q. QED
  BY <1>1, SessionInvariant, PTL

-----------------------------------------------------------------------------
(* The commands of one manager implement Catalogue.                        *)

\* Nothing LIST and STOP of other managers could notice.
SameListing ==
  /\ Life' = Life
  /\ registered' = registered
  /\ registered => (pc' = "dead" <=> pc = "dead")

\* In terms of Catalogue.
LEMMA ViewSame == SameListing => UNCHANGED CatalogueView!vars
  BY DEF SameListing, CatalogueView!vars

\* A manager starts without a command.
LEMMA CatalogueInit == Init => CatalogueView!Init
  BY DEF Init, CommandInit, ManagerInit, Unreaped, Life, CatalogueView!Init

\* Every step of a session is one of Catalogue, or nothing it sees.
LEMMA CatalogueStep ==
  SessionInv /\ [Next]_vars => [CatalogueView!Next]_(CatalogueView!vars)
<1> SUFFICES ASSUME SessionInv, [Next]_vars
             PROVE  [CatalogueView!Next]_(CatalogueView!vars)
  OBVIOUS
<1> USE DEF SameListing, Life, Unreaped, wireVars, commandVars, outputVars,
        managerVars, sruncVars
<1>1. CASE ManagerStep
  <2>1. ASSUME WaitChild
        PROVE  SameListing \/ CatalogueView!Reap(ChildPid)
    <3>1. CASE child = "zombie"
      <4>1. Life = "running" /\ Life' = "reaped"
        BY <2>1, <3>1 DEF WaitChild, wait_child
      <4>q. QED
        BY <2>1, <3>1, <4>1 DEF WaitChild, wait_child, CatalogueView!Reap,
          CatalogueView!Become
    <3>2. CASE child # "zombie"
      BY <2>1, <3>2 DEF WaitChild, wait_child
    <3>q. QED
      BY <3>1, <3>2
  <2>2. ASSUME ClearClonepid PROVE CatalogueView!Remove(ChildPid)
    <3>1. child \notin Unreaped
      BY <2>2 DEF ClearClonepid, SessionInv
    <3>2. Life = "reaped" /\ Life' = "idle"
      BY <2>2, <3>1 DEF ClearClonepid, clear_clonepid
    <3>3. ~registered' /\ pc # "dead" /\ pc' # "dead"
      BY <2>2 DEF ClearClonepid, clear_clonepid
    <3>q. QED
      BY <3>2, <3>3 DEF CatalogueView!Remove, CatalogueView!Become
  <2>3. ASSUME CheckExit PROVE SameListing
    BY <1>1, <2>3 DEF CheckExit
  <2>4. ASSUME CheckReply PROVE SameListing
    BY <1>1, <2>4 DEF CheckReply, send_message
  <2>5. ASSUME CheckIdle PROVE SameListing
    BY <1>1, <2>5 DEF CheckIdle, stop_child, Kill
  <2>6. ASSUME EpollEnter PROVE SameListing
    BY <1>1, <2>6 DEF EpollEnter, EpollStep
  <2>7. ASSUME EpollReturn PROVE SameListing
    BY <1>1, <2>7 DEF EpollReturn, EpollStep
  <2>8. ASSUME EpollTimeout PROVE SameListing
    BY <1>1, <2>8 DEF EpollTimeout, EpollStep
  <2>9. ASSUME SendSyn PROVE SameListing
    BY <1>1, <2>9 DEF SendSyn, send_message
  <2>10. ASSUME EventsDone PROVE SameListing
    BY <1>1, <2>10 DEF EventsDone, EpollStep
  <2>11. ASSUME NEW s \in Streams, HandleOutput(s) PROVE SameListing
    BY <1>1, <2>11 DEF HandleOutput, Take, receive, Receive
  <2>12. ASSUME HandleTimer PROVE SameListing
    BY <1>1, <2>12 DEF HandleTimer, Take, stop_child, Kill
  <2>13. ASSUME HandleLeak PROVE SameListing
    BY <1>1, <2>13 DEF HandleLeak, Take
  <2>14. ASSUME HandleEof PROVE SameListing
    BY <1>1, <2>14 DEF HandleEof, Take, stop_child, Kill
  <2>15. ASSUME HandleSyn PROVE SameListing
    BY <1>1, <2>15 DEF HandleSyn, Receives, Take, send_message
  <2>16. ASSUME HandleAck PROVE SameListing
    BY <1>1, <2>16 DEF HandleAck, Receives, Take
  <2>17. ASSUME HandleList PROVE SameListing
    BY <1>1, <2>17 DEF HandleList, Receives, Take, send_message, throw
  <2>18. ASSUME HandleStop PROVE SameListing
    BY <1>1, <2>18 DEF HandleStop, Receives, Take, send_message
  <2>19. ASSUME NEW r \in Requests, ExeRefused(r) PROVE SameListing
    BY <1>1, <2>19 DEF ExeRefused, HandleExe, Receives, Take
  <2>20. ASSUME NEW r \in Requests, ExeBadArgs(r) PROVE SameListing
    BY <1>1, <2>20 DEF ExeBadArgs, ExeAccepted, HandleExe, Receives, Take,
      send_message
  <2>21. ASSUME NEW r \in Requests, ExeThrows(r) PROVE SameListing
    BY <1>1, <2>21 DEF ExeThrows, ExeAccepted, HandleExe, Receives, Take,
      throw
  <2>22. ASSUME NEW r \in Requests, ExeClone(r)
         PROVE  CatalogueView!Start(ChildPid)
    <3>1. pc = "events" /\ clonepid <= 0
      BY <2>22 DEF ExeClone, ExeAccepted, HandleExe, Receives, Take
    <3>2. child \notin Unreaped
      BY <3>1 DEF SessionInv, ChildPid
    <3>3. Life = "idle" /\ Life' = "running"
      BY <2>22, <3>1, <3>2 DEF ExeClone
    <3>4. registered' = registered /\ pc' = "cgroup"
      BY <2>22 DEF ExeClone, ExeAccepted
    <3>q. QED
      BY <3>1, <3>3, <3>4 DEF CatalogueView!Start, CatalogueView!Become
  <2>23. ASSUME JoinCgroup PROVE SameListing
    BY <1>1, <2>23 DEF JoinCgroup, throw
  <2>24. ASSUME Register PROVE SameListing \/ CatalogueView!Enter(ChildPid)
    <3>1. CASE registered' = TRUE /\ pc' \in {"bind", "destroy"}
      <4>1. Life = "running" /\ Life' = "running"
        BY <2>24, <3>1 DEF Register, SessionInv
      <4>q. QED
        BY <2>24, <3>1, <4>1 DEF Register, CatalogueView!Enter
    <3>2. CASE pc' = "destroy" /\ registered' = registered
      BY <2>24, <3>2 DEF Register
    <3>q. QED
      BY <2>24, <3>1, <3>2 DEF Register, throw
  <2>25. ASSUME Bind PROVE SameListing
    BY <1>1, <2>25 DEF Bind, throw, bind, set_timeout, send_message
  <2>26. ASSUME Destroy PROVE SameListing
    BY <1>1, <2>26 DEF Destroy, stop_child, Kill
  <2>27. ASSUME SleepOver PROVE SameListing
    BY <1>1, <2>27 DEF SleepOver
  <2>28. ASSUME DestroyWait
         PROVE  SameListing \/ CatalogueView!Reap(ChildPid)
    <3>1. CASE child = "zombie"
      <4>1. Life = "running" /\ Life' = "reaped"
        BY <2>28, <3>1 DEF DestroyWait, wait_child
      <4>q. QED
        BY <2>28, <3>1, <4>1 DEF DestroyWait, wait_child, CatalogueView!Reap,
          CatalogueView!Become
    <3>2. CASE child # "zombie"
      BY <2>28, <3>2 DEF DestroyWait, wait_child
    <3>q. QED
      BY <3>1, <3>2
  <2>29. ASSUME DestroyClear PROVE CatalogueView!Remove(ChildPid)
    <3>1. child \notin Unreaped
      BY <2>29 DEF DestroyClear, SessionInv
    <3>2. Life = "reaped" /\ Life' = "idle"
      BY <2>29, <3>1 DEF DestroyClear, clear_clonepid
    <3>3. ~registered' /\ pc # "dead" /\ pc' # "dead"
      BY <2>29 DEF DestroyClear, clear_clonepid
    <3>q. QED
      BY <3>2, <3>3 DEF CatalogueView!Remove, CatalogueView!Become
  <2>30. ASSUME Close PROVE SameListing \/ CatalogueView!GiveUp(ChildPid)
    <3>1. pc = "close" /\ pc' = "dead" /\ registered' = registered
      BY <2>30 DEF Close
    <3>2. CASE child \in Unreaped
      <4>1. Life = "running" /\ Life' = "idle"
        BY <3>1, <3>2
      <4>q. QED
        BY <3>1, <4>1 DEF CatalogueView!GiveUp, CatalogueView!Become
    <3>3. CASE child \notin Unreaped
      <4>1. Life' = Life
        BY <3>1, <3>3
      <4>2. ~registered
        BY <3>1, <3>3 DEF SessionInv
      <4>q. QED
        BY <3>1, <4>1, <4>2
    <3>q. QED
      BY <3>2, <3>3
  <2>q. QED
    BY ViewSame, <1>1, <2>1, <2>2, <2>3, <2>4, <2>5, <2>6, <2>7, <2>8, <2>9,
      <2>10,
       <2>11, <2>12, <2>13, <2>14, <2>15, <2>16, <2>17, <2>18, <2>19, <2>20,
       <2>21, <2>22, <2>23, <2>24, <2>25, <2>26, <2>27, <2>28, <2>29, <2>30
       DEF ManagerStep, CatalogueView!Next
<1>2. ASSUME ClientStep PROVE SameListing
  BY <1>2 DEF ClientStep
<1>3. ASSUME ClientWhim PROVE SameListing
  BY <1>3 DEF ClientWhim
<1>4. ASSUME ChildStarts PROVE SameListing
  BY <1>4 DEF ChildStarts, Execv, ExecuteFails, sigchld, Interrupt
<1>5. ASSUME ChildEnds PROVE SameListing
  BY <1>5 DEF ChildEnds, CommandExits, sigchld, Interrupt
<1>6. ASSUME ChildActs PROVE SameListing
  BY <1>6 DEF ChildActs, CommandWrites, CommandForks, OrphanExits
<1>7. ASSUME Reparented PROVE SameListing
  BY <1>7 DEF Reparented, InitReaps
<1>8. ASSUME Stopped PROVE SameListing
  BY <1>8 DEF Stopped, sigterm_handler, Interrupt
<1>9. ASSUME Expiry PROVE SameListing
  BY <1>9 DEF Expiry, TimerExpires
<1>10. ASSUME UNCHANGED vars PROVE SameListing
  BY <1>10 DEF vars, allVars
<1>q. QED
  BY ViewSame, <1>1, <1>2, <1>3, <1>4, <1>5, <1>6, <1>7, <1>8, <1>9, <1>10 DEF
    Next

\* handle_request, wait_child, clear_clonepid and manager_destroy implement
\* Catalogue for every client, whatever it sends and whenever it goes: a
\* command is in the registry only between clone and clear_clonepid, or as
\* the entry of a manager that gave it up.
THEOREM SessionKeepsCatalogue == Spec => KeepsCatalogue
<1>1. Init => CatalogueView!Init
  BY CatalogueInit
<1>2. SessionInv /\ [Next]_vars => [CatalogueView!Next]_(CatalogueView!vars)
  BY CatalogueStep
<1>q. QED
  BY <1>1, <1>2, SessionInvariant, PTL DEF Spec, KeepsCatalogue,
    CatalogueView!Spec

-----------------------------------------------------------------------------
(* Type correctness.                                                       *)

\* What send_message leaves behind is well typed.
LEMMA SendType ==
  ASSUME TypeOK, NEW m \in Message, NEW next \in PCs, send_message(m, next)
  PROVE  /\ m2c' \in Seq(Message)
         /\ result_sendback' \in BOOLEAN
         /\ pc' \in PCs
<1>1. [m EXCEPT !.method = "PART"] \in Message
  BY DEF Message
<1>2. m2c \in Seq(Message) /\ result_sendback \in BOOLEAN
  BY DEF TypeOK, WireTypeOK, ManagerTypeOK, ManagerFlagsOK
<1>3. m2c' \in Seq(Message)
  BY <1>1, <1>2 DEF send_message
<1>4. result_sendback' \in BOOLEAN
  BY <1>2 DEF send_message
<1>5. pc' \in PCs
  BY DEF send_message, PCs
<1>q. QED
  BY <1>3, <1>4, <1>5

\* stop_child leaves the flag of a pending SIGTERM a flag.
LEMMA StopType == ASSUME TypeOK, stop_child PROVE term' \in BOOLEAN
  BY DEF TypeOK, CommandTypeOK, CommandFlagsOK, stop_child, Kill

\* The messages the manager sends are messages.
LEMMA SentIsMessage ==
  /\ \A k \in {"SYN", "LIST", "STOP"} : Control(k) \in Message
  /\ \A t \in Stat, o \in Nat, e \in Nat : Reply(t, o, e) \in Message
<1>1. \A k \in {"SYN", "LIST", "STOP"} : Control(k) \in Message
  BY DEF Control, Message, Method
<1>2. \A t \in Stat, o \in Nat, e \in Nat : Reply(t, o, e) \in Message
  BY DEF Reply, Message, Method
<1>q. QED
  BY <1>1, <1>2

\* The initial state is well typed.
LEMMA TypeInit == Init => TypeOK
<1>1. Init => ManagerFlagsOK /\ CommandFlagsOK
  BY Zenon DEF Init, CommandInit, ManagerInit, ManagerFlagsOK, CommandFlagsOK
<1>2. Init => WireTypeOK /\ SruncTypeOK
  BY DEF Init, WireInit, SruncInit, WireTypeOK, SruncTypeOK
<1>3. Init => OutputTypeOK
  BY DEF Init, OutputInit, OutputTypeOK, Mode
<1>4. Init => CommandTypeOK
  BY <1>1 DEF Init, CommandInit, CommandTypeOK, Unreaped
<1>5. Init => ManagerTypeOK
  BY <1>1 DEF Init, ManagerInit, ManagerTypeOK, Stat, Request, PCs, ChildPid,
     Mode, Events
<1>q. QED
  BY <1>2, <1>3, <1>4, <1>5 DEF TypeOK

\* Every step keeps the types.
LEMMA TypeStep == TypeOK /\ [Next]_vars => TypeOK'
<1> SUFFICES ASSUME TypeOK, [Next]_vars PROVE TypeOK'
  OBVIOUS
<1> USE RequestsAssumption, SruncAssumption
    DEF TypeOK, WireTypeOK, CommandTypeOK, OutputTypeOK, ManagerTypeOK,
        SruncTypeOK, CommandFlagsOK, ManagerFlagsOK, Unreaped, PCs, ChildPid,
        Events, wireVars, commandVars, outputVars, managerVars, sruncVars
<1>1. CASE ManagerStep
  <2>0. UNCHANGED sruncVars
    BY <1>1 DEF ManagerStep
  <2>1. CASE WaitChild
    BY <2>0, <2>1 DEF WaitChild, wait_child, Stat
  <2>2. CASE ClearClonepid
    <3>1. registered' \in BOOLEAN
      BY <2>2 DEF ClearClonepid, clear_clonepid
    <3>2. leaf' \in BOOLEAN
      BY <2>2 DEF ClearClonepid, clear_clonepid
    <3>q. QED
      BY <2>0, <2>2, <3>1, <3>2 DEF ClearClonepid, clear_clonepid
  <2>3. CASE CheckExit
    BY <2>0, <2>3 DEF CheckExit
  <2>4. CASE CheckReply
    <3>1. Reply(stat, ResultOf("out"), ResultOf("err")) \in Message
      BY SentIsMessage DEF ResultOf, Streams
    <3>2. m2c' \in Seq(Message) /\ result_sendback' \in BOOLEAN /\ pc' \in
          PCs
      BY <2>4, <3>1, SendType DEF CheckReply
    <3>q. QED
      BY <2>0, <2>4, <3>2 DEF CheckReply
  <2>5. CASE CheckIdle
    <3>1. term' \in BOOLEAN
      BY <2>5, StopType DEF CheckIdle
    <3>q. QED
      BY <2>0, <2>5, <3>1 DEF CheckIdle
  <2>6. CASE EpollEnter
    BY <2>0, <2>6 DEF EpollEnter, EpollStep
  <2>7. CASE EpollReturn
    BY <2>0, <2>7 DEF EpollReturn, EpollStep, Ready, Streams
  <2>8. CASE EpollTimeout
    BY <2>0, <2>8 DEF EpollTimeout, EpollStep
  <2>9. CASE SendSyn
    <3>1. Control("SYN") \in Message
      BY <2>9, SentIsMessage
    <3>2. m2c' \in Seq(Message) /\ result_sendback' \in BOOLEAN /\ pc' \in
          PCs
      BY <2>9, <3>1, SendType DEF SendSyn
    <3>3. is_syn' \in BOOLEAN
      BY <2>9 DEF SendSyn
    <3>q. QED
      BY <2>0, <2>9, <3>2, <3>3 DEF SendSyn
  <2>10. CASE EventsDone
    BY <2>0, <2>10 DEF EventsDone, EpollStep
  <2>11. ASSUME NEW s \in Streams, HandleOutput(s) PROVE TypeOK'
    <3>1. PICK n \in 0 .. pipe[s] : Receive(s, n)
      BY <2>11 DEF HandleOutput, receive
    <3>a. n \in Nat
      BY <3>1
    <3>2. str' \in [Streams -> Nat] /\ offset' \in [Streams -> Nat]
      BY <3>1, <3>a DEF Receive
    <3>3. pipe' \in [Streams -> Nat] /\ pipefd' \in [Streams -> BOOLEAN]
      BY <3>1 DEF Receive
    <3>4. over' \in [Streams -> BOOLEAN]
      BY <3>1 DEF Receive
    <3>q. QED
      BY <2>0, <2>11, <3>2, <3>3, <3>4 DEF HandleOutput, Take, Streams
  <2>12. CASE HandleTimer
    <3>1. term' \in BOOLEAN
      BY <2>12, StopType DEF HandleTimer
    <3>q. QED
      BY <2>0, <2>12, <3>1 DEF HandleTimer, Take, Stat
  <2>13. CASE HandleLeak
    BY <2>0, <2>13 DEF HandleLeak, Take
  <2>14. CASE HandleEof
    <3>1. term' \in BOOLEAN
      BY <2>14, StopType DEF HandleEof
    <3>q. QED
      BY <2>0, <2>14, <3>1 DEF HandleEof, Take
  <2>15. CASE HandleSyn
    <3>1. Control("SYN") \in Message
      BY <2>15, SentIsMessage
    <3>2. m2c' \in Seq(Message) /\ result_sendback' \in BOOLEAN /\ pc' \in
          PCs
      BY <2>15, <3>1, SendType DEF HandleSyn, Receives, Take
    <3>q. QED
      BY <2>0, <2>15, <3>2 DEF HandleSyn, Receives, Take
  <2>16. CASE HandleAck
    <3>1. is_syn' \in BOOLEAN
      BY <2>16 DEF HandleAck
    <3>q. QED
      BY <2>0, <2>16, <3>1 DEF HandleAck, Receives, Take
  <2>17. CASE HandleList
    <3>1. Control("LIST") \in Message
      BY <2>17, SentIsMessage
    <3>2. m2c' \in Seq(Message) /\ result_sendback' \in BOOLEAN /\ pc' \in
          PCs
      BY <2>17, <3>1, SendType DEF HandleList, Receives, Take, throw
    <3>3. request' \in Request
      BY <2>17 DEF HandleList, Request
    <3>q. QED
      BY <2>0, <2>17, <3>2, <3>3 DEF HandleList, Receives, Take, throw
  <2>18. CASE HandleStop
    <3>1. Control("STOP") \in Message
      BY <2>18, SentIsMessage
    <3>2. m2c' \in Seq(Message) /\ result_sendback' \in BOOLEAN /\ pc' \in
          PCs
      BY <2>18, <3>1, SendType DEF HandleStop, Receives, Take
    <3>q. QED
      BY <2>0, <2>18, <3>2 DEF HandleStop, Receives, Take
  <2>19. ASSUME NEW r \in Requests, ExeRefused(r) PROVE TypeOK'
    BY <2>0, <2>19 DEF ExeRefused, HandleExe, Receives, Take
  <2>20. ASSUME NEW r \in Requests, ExeBadArgs(r) PROVE TypeOK'
    <3>1. Reply("BADARGS", 0, 0) \in Message
      BY <2>20, SentIsMessage DEF Stat
    <3>2. m2c' \in Seq(Message) /\ result_sendback' \in BOOLEAN /\ pc' \in
          PCs
      BY <2>20, <3>1, SendType DEF ExeBadArgs, ExeAccepted, HandleExe,
         Receives, Take
    <3>q. QED
      BY <2>0, <2>20, <3>2 DEF ExeBadArgs, ExeAccepted, HandleExe,
         Receives, Take
  <2>21. ASSUME NEW r \in Requests, ExeThrows(r) PROVE TypeOK'
    BY <2>0, <2>21 DEF ExeThrows, ExeAccepted, HandleExe, Receives, Take,
      throw
  <2>22. ASSUME NEW r \in Requests, ExeClone(r) PROVE TypeOK'
    <3>1. leak' \in BOOLEAN
      BY <2>22 DEF ExeClone
    <3>2. limited' \in BOOLEAN
      BY <2>22 DEF ExeClone
    <3>3. orphan' \in BOOLEAN
      BY <2>22 DEF ExeClone
    <3>4. mode' \in [Streams -> Mode] /\ pipefd' \in [Streams -> BOOLEAN]
      BY <2>22 DEF ExeClone, load, Request
    <3>5. pipe' \in [Streams -> Nat] /\ wrote' \in [Streams -> Nat]
      BY <2>22 DEF ExeClone, load
    <3>q. QED
      BY <2>0, <2>22, <3>1, <3>2, <3>3, <3>4, <3>5 DEF ExeClone,
         ExeAccepted, HandleExe, Receives, Take
  <2>23. CASE JoinCgroup
    <3>1. leaf' \in BOOLEAN
      BY <2>23 DEF JoinCgroup
    <3>2. limited' \in BOOLEAN
      <4>1. limited' = (child # "zombie") \/ limited' = limited
        BY <2>23 DEF JoinCgroup
      <4>2. limited \in BOOLEAN
        BY DEF TypeOK
      <4>3. (child # "zombie") \in BOOLEAN
        OBVIOUS
      <4>q. QED
        BY <4>1, <4>2, <4>3, ZenonT(30)
    <3>q. QED
      BY <2>0, <2>23, <3>1, <3>2 DEF JoinCgroup, throw
  <2>24. CASE Register
    <3>1. registered' \in BOOLEAN
      BY <2>24, Zenon DEF Register, TypeOK, ManagerTypeOK, ManagerFlagsOK
    <3>2. /\ pc' \in PCs
          /\ UNCHANGED <<wireVars, commandVars, outputVars, evs, process_stop,
                         child_status, clonepid, syn_timeout, is_syn,
                         result_sendback, stat, request, timerfd, leaf, leak>>
      BY <2>24 DEF Register, throw, PCs
    <3>q. QED
      BY <2>0, <3>1, <3>2
  <2>25. CASE Bind
    <3>1. Reply("NORMAL", 0, 0) \in Message
      BY <2>25, SentIsMessage DEF Stat
    <3>2. m2c' \in Seq(Message) /\ result_sendback' \in BOOLEAN /\ pc' \in
          PCs
      BY <2>25, <3>1, SendType DEF Bind, throw
    <3>3. bind \/ UNCHANGED <<over, offset>>
      BY <2>25 DEF Bind
    <3>4. over' \in [Streams -> BOOLEAN] /\ offset' \in [Streams -> Nat]
      <4>1. CASE bind
        <5>1. over' = [s \in Streams |-> over[s] \/ ~pipefd[s]]
          BY <4>1 DEF bind
        <5>2. over' \in [Streams -> BOOLEAN]
          BY <5>1
        <5>3. offset' \in [Streams -> Nat]
          BY <4>1 DEF bind
        <5>q. QED
          BY <5>2, <5>3
      <4>2. CASE UNCHANGED <<over, offset>>
        BY <4>2
      <4>q. QED
        BY <3>3, <4>1, <4>2
    <3>5. set_timeout \/ UNCHANGED <<timerfd, leak>>
      BY <2>25 DEF Bind
    <3>6. leak' \in BOOLEAN
      BY <3>5 DEF set_timeout
    <3>7. timerfd' \in {"none", "armed", "expired", "closed"}
      BY <3>5 DEF set_timeout
    <3>8. evs' \subseteq Events
      BY <2>25 DEF Bind
    <3>9. UNCHANGED <<connection, sockfd, c2m, commandVars, mode, str,
                      process_stop, child_status, clonepid, syn_timeout,
                      is_syn, stat, request, registered, leaf>>
      BY <2>25 DEF Bind
    <3>q. QED
      BY <2>0, <3>2, <3>4, <3>6, <3>7, <3>8, <3>9
  <2>26. CASE Destroy
    <3>1. term' \in BOOLEAN
      BY <2>26, StopType DEF Destroy
    <3>q. QED
      BY <2>0, <2>26, <3>1 DEF Destroy
  <2>27. CASE SleepOver
    BY <2>0, <2>27 DEF SleepOver
  <2>28. CASE DestroyWait
    BY <2>0, <2>28 DEF DestroyWait, wait_child, Stat
  <2>29. CASE DestroyClear
    <3>1. registered' \in BOOLEAN
      BY <2>29 DEF DestroyClear, clear_clonepid
    <3>2. leaf' \in BOOLEAN
      BY <2>29 DEF DestroyClear, clear_clonepid
    <3>q. QED
      BY <2>0, <2>29, <3>1, <3>2 DEF DestroyClear, clear_clonepid
  <2>30. CASE Close
    <3>1. term' \in BOOLEAN
      BY <2>30 DEF Close, Kill
    <3>q. QED
      BY <2>0, <2>30, <3>1 DEF Close
  <2>q. QED
    BY <1>1, <2>1, <2>2, <2>3, <2>4, <2>5, <2>6, <2>7, <2>8, <2>9, <2>10,
       <2>11, <2>12, <2>13, <2>14, <2>15, <2>16, <2>17, <2>18, <2>19, <2>20,
       <2>21, <2>22, <2>23, <2>24, <2>25, <2>26, <2>27, <2>28, <2>29, <2>30
       DEF ManagerStep
<1>2. CASE ClientStep
  <2>0. UNCHANGED <<commandVars, outputVars, managerVars>>
    BY <1>2 DEF ClientStep
  <2>1. CASE ClientSends
    <3>1. ClientMethods \subseteq Method
      BY DEF Method
    <3>2. c2m' \in Seq(Method)
      <4>1. CASE \E m \in ClientMethods : c2m' = Append(c2m, m)
        <5>1. PICK m \in ClientMethods : c2m' = Append(c2m, m)
          BY <4>1
        <5>q. QED
          BY <3>1, <5>1
      <4>2. CASE UNCHANGED c2m
        BY <4>2
      <4>q. QED
        BY <2>1, <4>1, <4>2 DEF ClientSends
    <3>q. QED
      BY <2>0, <2>1, <3>2 DEF ClientSends
  <2>2. CASE ClientAcks
    BY <2>0, <2>2 DEF ClientAcks, Method
  <2>3. CASE ClientReturns
    BY <2>0, <2>3 DEF ClientReturns
  <2>4. CASE ClientFails
    BY <2>0, <2>4 DEF ClientFails
  <2>q. QED
    BY <1>2, <2>1, <2>2, <2>3, <2>4 DEF ClientStep
<1>3. CASE ClientWhim
  <2>0. UNCHANGED <<commandVars, outputVars, managerVars>>
    BY <1>3 DEF ClientWhim
  <2>1. CASE ClientDies
    BY <2>0, <2>1 DEF ClientDies
  <2>2. CASE ClientSendsMore
    BY <2>0, <2>2 DEF ClientSendsMore
  <2>q. QED
    BY <1>3, <2>1, <2>2 DEF ClientWhim
<1>4. CASE ChildStarts
  BY <1>4 DEF ChildStarts, Execv, ExecuteFails, sigchld, Interrupt
<1>5. CASE ChildEnds
  <2>1. term' \in BOOLEAN
    BY <1>5 DEF ChildEnds, CommandExits
  <2>q. QED
    BY <1>5, <2>1 DEF ChildEnds, CommandExits, sigchld, Interrupt
<1>6. CASE ChildActs
  <2>0. UNCHANGED <<wireVars, outputVars, managerVars, sruncVars>>
    BY <1>6 DEF ChildActs
  <2>1. ASSUME NEW s \in Streams, CommandWrites(s) PROVE TypeOK'
    BY <2>0, <2>1 DEF CommandWrites
  <2>2. CASE CommandForks
    <3>1. orphan' \in BOOLEAN
      BY <2>2 DEF CommandForks
    <3>q. QED
      BY <2>0, <2>2, <3>1 DEF CommandForks
  <2>3. CASE OrphanExits
    <3>1. orphan' \in BOOLEAN
      BY <2>3 DEF OrphanExits
    <3>q. QED
      BY <2>0, <2>3, <3>1 DEF OrphanExits
  <2>q. QED
    BY <1>6, <2>1, <2>2, <2>3 DEF ChildActs
<1>7. CASE Reparented
  BY <1>7 DEF Reparented, InitReaps
<1>8. CASE Stopped
  <2>1. process_stop' \in BOOLEAN
    BY <1>8 DEF Stopped, sigterm_handler
  <2>q. QED
    BY <1>8, <2>1 DEF Stopped, sigterm_handler, Interrupt
<1>9. CASE Expiry
  BY <1>9 DEF Expiry, TimerExpires
<1>10. CASE UNCHANGED vars
  BY <1>10 DEF vars, allVars
<1>q. QED
  BY <1>1, <1>2, <1>3, <1>4, <1>5, <1>6, <1>7, <1>8, <1>9, <1>10 DEF Next

\* Every variable keeps its type, whatever the requests, limits and clients.
THEOREM TypeCorrect == Spec => []TypeOK
<1>1. Init => TypeOK
  BY TypeInit
<1>2. TypeOK /\ [Next]_vars => TypeOK'
  BY TypeStep
<1>q. QED
  BY <1>1, <1>2, PTL DEF Spec
=============================================================================
