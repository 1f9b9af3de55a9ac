----------------------------- MODULE JobProofs ------------------------------
(***************************************************************************)
(* A session with a Srunc client implements Job: the proof that every step *)
(* of the session is a step of Job, or none, in the client's view.         *)
(***************************************************************************)
EXTENDS ClientProofs

\* A step that the view does not show: the command is in the same phase, and
\* the request, the answer and the client's state stay.
LEMMA Unseen ==
  ASSUME UNCHANGED <<request, result_sendback, cstate>>,
         \/ UNCHANGED child
         \/ {child, child'} \subseteq {"setup", "running"}
         \/ {child, child'} \subseteq {"zombie", "reaped"}
  PROVE  UNCHANGED JobView!vars
<1> DEFINE phase == CASE child = "none"                  -> "idle"
                      [] child \in {"setup", "running"}  -> "running"
                      [] child \in {"zombie", "reaped"}  -> "ended"
<1>1. phase' = phase
  OBVIOUS
<1>q. QED
  BY <1>1 DEF JobView!vars

\* Clone is Start: the request was read, and it is the first thing answered.
LEMMA Starts ==
  ASSUME child = "none", child' = "setup", ~result_sendback,
         cstate \in {"polling", "done", "failed"},
         UNCHANGED <<result_sendback, cstate>>, request'.backend \in BOOLEAN
  PROVE  JobView!Next
  BY DEF JobView!Start, JobView!Next

\* A request without a command is Settle, answered or not.
LEMMA Settles ==
  ASSUME child = "none", ~result_sendback,
         cstate \in {"polling", "done", "failed"},
         UNCHANGED <<child, cstate>>, request'.backend \in BOOLEAN
  PROVE  JobView!Next
  BY DEF JobView!Settle, JobView!Next

\* The death of the command is End.
LEMMA Ends ==
  ASSUME child \in {"setup", "running"}, child' = "zombie",
         UNCHANGED <<request, result_sendback, cstate>>
  PROVE  JobView!Next
  BY DEF JobView!End, JobView!Next

\* The first message that sets result_sendback is Answer: after the command,
\* or during it for a backend request.
LEMMA Replies ==
  ASSUME ~result_sendback, result_sendback',
         \/ child \in {"zombie", "reaped"}
         \/ child \in {"setup", "running"} /\ request.backend,
         UNCHANGED <<child, request, cstate>>
  PROVE  JobView!Next
  BY DEF JobView!Answer, JobView!Next

\* Before the session: nothing asked, executed or answered.
LEMMA JobInit == Init => JobView!Init
  BY DEF Init, CommandInit, ManagerInit, SruncInit, JobView!Init

\* The manager's steps, seen by the client.
LEMMA JobManagerStep ==
  ASSUME TypeOK, SessionInv, ClientInv, ManagerStep
  PROVE  JobView!Next \/ UNCHANGED JobView!vars
<1> USE DEF wireVars, commandVars, outputVars, managerVars, sruncVars
<1>a. /\ cstate \in {"connected", "polling", "done", "failed"}
      /\ child \in {"setup", "running", "zombie", "none", "reaped"}
      /\ request \in Request /\ result_sendback \in BOOLEAN
  BY DEF TypeOK, SruncTypeOK, CommandTypeOK, ManagerTypeOK, ManagerFlagsOK,
     Unreaped
<1>b. UNCHANGED cstate
  BY DEF ManagerStep
<1>c. ASSUME NEW k, k # "ACK", Receives(k)
      PROVE  /\ child = "none" /\ ~result_sendback /\ pc = "events"
             /\ cstate \in {"polling", "done", "failed"}
             /\ child_status = "NO_PROC"
  <2>1. /\ c2m \in Seq(Method) /\ c2m # <<>> /\ ParsedMethod(c2m) # "ACK"
        /\ pc = "events"
    BY <1>c DEF Receives, Take, TypeOK, WireTypeOK
  <2>2. Unasked /\ cstate # "connected"
    BY <2>1, ManagerReads DEF ClientInv, RequestFirst, Unasked
  <2>q. QED
    BY <1>a, <2>1, <2>2 DEF ClientInv, AnswerFollows
<1>1. CASE WaitChild
  BY <1>b, <1>1, Unseen DEF WaitChild, wait_child
<1>2. CASE ClearClonepid
  BY <1>b, <1>2, Unseen DEF ClearClonepid, clear_clonepid
<1>3. CASE CheckExit
  BY <1>b, <1>3, Unseen DEF CheckExit
<1>4. CASE CheckIdle
  BY <1>b, <1>4, Unseen DEF CheckIdle
<1>5. CASE EpollEnter
  BY <1>b, <1>5, Unseen DEF EpollEnter, EpollStep
<1>6. CASE EpollReturn
  BY <1>b, <1>6, Unseen DEF EpollReturn, EpollStep
<1>7. CASE EpollTimeout
  BY <1>b, <1>7, Unseen DEF EpollTimeout, EpollStep
<1>8. CASE EventsDone
  BY <1>b, <1>8, Unseen DEF EventsDone, EpollStep
<1>9. CASE HandleTimer
  BY <1>b, <1>9, Unseen DEF HandleTimer
<1>10. CASE HandleLeak
  BY <1>b, <1>10, Unseen DEF HandleLeak
<1>11. CASE HandleEof
  BY <1>b, <1>11, Unseen DEF HandleEof
<1>12. CASE HandleAck
  BY <1>b, <1>12, Unseen DEF HandleAck
<1>13. CASE JoinCgroup
  BY <1>b, <1>13, Unseen DEF JoinCgroup
<1>14. CASE Register
  BY <1>b, <1>14, Unseen DEF Register
<1>15. CASE Destroy
  BY <1>b, <1>15, Unseen DEF Destroy
<1>16. CASE SleepOver
  BY <1>b, <1>16, Unseen DEF SleepOver
<1>17. CASE DestroyWait
  BY <1>b, <1>17, Unseen DEF DestroyWait, wait_child
<1>18. CASE DestroyClear
  BY <1>b, <1>18, Unseen DEF DestroyClear, clear_clonepid
<1>19. CASE Close
  BY <1>b, <1>19, Unseen DEF Close
<1>20. ASSUME NEW s \in Streams, HandleOutput(s)
      PROVE  UNCHANGED JobView!vars
  BY <1>b, <1>20, Unseen DEF HandleOutput
<1>21. CASE CheckReply
  <2>1. /\ child_status = "EXIT" /\ pc = "check" /\ ~result_sendback
        /\ UNCHANGED <<child, request>>
    BY <1>21 DEF CheckReply, ReplyDue, exec_over
  <2>2. child = "reaped"
    BY <1>a, <2>1 DEF SessionInv, ClientInv, AnswerFollows, Unreaped
  <2>3. CASE result_sendback'
    BY <1>b, <2>1, <2>2, <2>3, Replies
  <2>4. CASE UNCHANGED result_sendback
    BY <1>b, <2>1, <2>4, Unseen
  <2>q. QED
    BY <1>21, <2>3, <2>4 DEF CheckReply, send_message, Reply
<1>22. CASE SendSyn
  <2>1. UNCHANGED <<child, request>> /\ Control("SYN").method = "SYN"
    BY <1>22 DEF SendSyn, Control
  <2>2. UNCHANGED result_sendback
    BY <1>a, <1>22, <2>1 DEF SendSyn, send_message
  <2>q. QED
    BY <1>b, <2>1, <2>2, Unseen
<1>23. CASE HandleSyn
  <2>1. c2m \in Seq(Method) /\ c2m # <<>> /\ ParsedMethod(c2m) = "SYN"
    BY <1>23 DEF HandleSyn, Receives, TypeOK, WireTypeOK
  <2>q. QED
    BY <2>1, ManagerReads DEF ClientInv
<1>24. CASE HandleList
  <2>1. Receives("LIST") /\ UNCHANGED child
    BY <1>24 DEF HandleList
  <2>2. request'.backend \in BOOLEAN
    BY <1>a, <1>24 DEF HandleList, Request
  <2>q. QED
    BY <1>b, <1>c, <2>1, <2>2, Settles
<1>25. CASE HandleStop
  <2>1. Receives("STOP") /\ UNCHANGED <<child, request>>
    BY <1>25 DEF HandleStop
  <2>2. request'.backend \in BOOLEAN
    BY <1>a, <2>1 DEF Request
  <2>q. QED
    BY <1>b, <1>c, <2>1, <2>2, Settles
<1>26. ASSUME NEW r \in Requests, ExeAccepted(r) \/ ExeRefused(r)
      PROVE  Receives("EXE") /\ request' = r /\ request'.backend \in BOOLEAN
  BY <1>26, RequestsAssumption DEF ExeAccepted, ExeRefused, HandleExe, Request
<1>27. ASSUME NEW r \in Requests, ExeRefused(r) PROVE FALSE
  <2>1. child_status = "NO_PROC" /\ pc = "events"
    BY <1>c, <1>26, <1>27
  <2>2. clonepid > 0 /\ clonepid # ChildPid
    BY <1>27, <2>1 DEF ExeRefused, SessionInv
  <2>q. QED
    BY <2>2 DEF TypeOK, ManagerTypeOK
<1>28. ASSUME NEW r \in Requests, ExeBadArgs(r) PROVE JobView!Next
  <2>1. ExeAccepted(r) /\ UNCHANGED child
    BY <1>28 DEF ExeBadArgs
  <2>q. QED
    BY <1>b, <1>c, <1>26, <2>1, Settles
<1>29. ASSUME NEW r \in Requests, ExeThrows(r) PROVE JobView!Next
  <2>1. ExeAccepted(r) /\ UNCHANGED child
    BY <1>29 DEF ExeThrows
  <2>q. QED
    BY <1>b, <1>c, <1>26, <2>1, Settles
<1>30. ASSUME NEW r \in Requests, ExeClone(r) PROVE JobView!Next
  <2>1. ExeAccepted(r) /\ child' = "setup" /\ UNCHANGED result_sendback
    BY <1>30 DEF ExeClone
  <2>q. QED
    BY <1>b, <1>c, <1>26, <2>1, Starts
<1>31. CASE Bind
  <2>1. /\ ~result_sendback
        /\ child \in {"setup", "running", "zombie"}
        /\ UNCHANGED <<child, request>>
    BY <1>31 DEF Bind, ClientInv, AnswerFollows, SessionInv, Cloned, Unreaped
  <2>2. CASE UNCHANGED result_sendback
    BY <1>b, <2>1, <2>2, Unseen
  <2>3. CASE request.backend /\ result_sendback'
    BY <1>b, <2>1, <2>3, Replies
  <2>q. QED
    BY <1>31, <2>2, <2>3 DEF Bind, send_message, Reply
<1>q. QED
  BY <1>1, <1>2, <1>3, <1>4, <1>5, <1>6, <1>7, <1>8, <1>9, <1>10, <1>11,
     <1>12, <1>13, <1>14, <1>15, <1>16, <1>17, <1>18, <1>19, <1>20, <1>21,
     <1>22, <1>23, <1>24, <1>25, <1>27, <1>28, <1>29, <1>30, <1>31 DEF
     ManagerStep

\* Every step of the session is one of Job, or none.
LEMMA JobStep ==
  ASSUME MaxExtra = 0, TypeOK, SessionInv, ClientInv, [Next]_vars
  PROVE  [JobView!Next]_(JobView!vars)
<1> USE DEF wireVars, commandVars, outputVars, managerVars, sruncVars
<1>a. /\ cstate \in {"connected", "polling", "done", "failed"}
      /\ extra \in Nat /\ m2c \in Seq(Message)
  BY DEF TypeOK, SruncTypeOK, WireTypeOK
<1>1. CASE ManagerStep
  BY <1>1, JobManagerStep
<1>2. ASSUME UNCHANGED <<child, request, result_sendback>>,
             \/ cstate = "connected" /\ cstate' = "polling"
             \/ cstate \in {"connected", "polling"} /\ cstate' = "failed"
             \/ cstate = "polling" /\ result_sendback /\ cstate' = "done"
      PROVE  JobView!Next
  BY <1>2 DEF JobView!Ask, JobView!Fail, JobView!Return, JobView!Next
<1>3. CASE ClientStep
  <2>1. UNCHANGED <<child, request, result_sendback>>
    BY <1>3 DEF ClientStep
  <2>2. CASE ClientSends
    BY <1>2, <2>1, <2>2 DEF ClientSends
  <2>3. CASE ClientAcks
    BY <2>1, <2>3, Unseen DEF ClientAcks
  <2>4. CASE ClientReturns
    <3>1. /\ m2c # <<>> /\ ParsedMethod(MethodsOf(m2c)) # "SYN"
          /\ \A i \in DOMAIN m2c : m2c[i].method # "PART"
          /\ cstate = "polling" /\ cstate' = "done"
      BY <2>4 DEF ClientReturns, Parses
    <3>2. Answers # {}
      BY <1>a, <3>1, ClientReads
    <3>3. result_sendback
      BY <3>1, <3>2 DEF ClientInv, AnswerFollows, Answers
    <3>q. QED
      BY <1>2, <2>1, <3>1, <3>3
  <2>5. CASE ClientFails
    BY <1>2, <2>1, <2>5 DEF ClientFails
  <2>q. QED
    BY <1>3, <2>2, <2>3, <2>4, <2>5 DEF ClientStep
<1>4. CASE ClientWhim
  <2>1. UNCHANGED <<child, request, result_sendback>> /\ ClientDies
    BY <1>a, <1>4 DEF ClientWhim, ClientSendsMore
  <2>q. QED
    BY <1>2, <2>1 DEF ClientDies
<1>5. CASE ChildStarts
  <2>1. CASE child' = "running"
    BY <1>5, <2>1, Unseen DEF ChildStarts, Execv, ExecuteFails
  <2>2. CASE child' = "zombie"
    BY <1>5, <2>2, Ends DEF ChildStarts, Execv, ExecuteFails, sigchld
  <2>q. QED
    BY <1>5, <2>1, <2>2 DEF ChildStarts, Execv, ExecuteFails
<1>6. CASE ChildEnds
  BY <1>6, Ends DEF ChildEnds, CommandExits, sigchld
<1>7. CASE ChildActs
  BY <1>7, Unseen DEF ChildActs, CommandWrites, CommandForks, OrphanExits
<1>8. CASE Reparented
  BY <1>8, Unseen DEF Reparented, InitReaps
<1>9. CASE Stopped
  BY <1>9, Unseen DEF Stopped, sigterm_handler
<1>10. CASE Expiry
  BY <1>10, Unseen DEF Expiry, TimerExpires
<1>11. CASE UNCHANGED vars
  BY <1>11, Unseen DEF vars, allVars
<1>q. QED
  BY <1>1, <1>3, <1>4, <1>5, <1>6, <1>7, <1>8, <1>9, <1>10, <1>11 DEF Next

\* A session with a Srunc client implements Job: run() executes its command at
\* most once, is answered at most once and not before its time, and returns
\* true only for an answer the manager gave.
THEOREM SessionImplementsJob ==
  ASSUME MaxExtra = 0
  PROVE  Spec => ImplementsJob
<1>1. Init => JobView!Init
  BY JobInit
<1>2. TypeOK /\ SessionInv /\ ClientInv /\ [Next]_vars
        => [JobView!Next]_(JobView!vars)
  BY JobStep
<1>q. QED
  BY <1>1, <1>2, ClientInvariant, PTL DEF Spec, ImplementsJob, JobView!Spec
=============================================================================
