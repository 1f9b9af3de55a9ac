---------------------------- MODULE ReplyProofs -----------------------------
(***************************************************************************)
(* The reply to a foreground request of a Srunc client is complete: proofs *)
(* about the path of the output from the pipe through receive to the       *)
(* reply, and about the status that goes with it.                          *)
(***************************************************************************)
EXTENDS ClientProofs

-----------------------------------------------------------------------------
(* The streams.                                                            *)

\* What the types say of one stream.
LEMMA StreamTypes ==
  ASSUME TypeOK, NEW s \in Streams
  PROVE  /\ mode[s] \in Mode /\ over[s] \in BOOLEAN /\ pipefd[s] \in BOOLEAN
         /\ str[s] \in Nat /\ offset[s] \in Nat
         /\ pipe[s] \in Nat /\ wrote[s] \in Nat
  BY DEF TypeOK, OutputTypeOK, CommandTypeOK

\* A stream of which everything was collected and nothing is in the pipe is
\* complete.
LEMMA Drained ==
  ASSUME TypeOK, NEW s \in Streams, Collected(s), pipe[s] = 0
  PROVE  Complete(s)
<1>1. /\ mode[s] \in Mode /\ str[s] \in Nat /\ offset[s] \in Nat
      /\ wrote[s] \in Nat
  BY StreamTypes
<1>2. CASE mode[s] = "MSG"
  <2>1. str[s] = wrote[s] /\ str[s] < MsgLimit + BufSize
    BY <1>1, <1>2 DEF Collected
  <2>2. Carried(str[s], wrote[s])
    BY <1>1, <2>1 DEF Carried
  <2>q. QED
    BY <1>2, <2>2 DEF Complete
<1>3. CASE mode[s] = "FILE"
  <2>1. offset[s] = wrote[s]
    BY <1>1, <1>3 DEF Collected
  <2>q. QED
    BY <1>3, <2>1 DEF Complete
<1>4. CASE mode[s] = "IGN"
  BY <1>4 DEF Complete
<1>q. QED
  BY <1>1, <1>2, <1>3, <1>4 DEF Mode

\* A step that does not touch a stream keeps what is known of it, if it does
\* not enter handle_request or bring the dead manager back, and the events it
\* leaves are of open pipes.
LEMMA StreamFrame ==
  ASSUME NEW s \in Streams, StreamInv(s),
         UNCHANGED <<mode[s], over[s], str[s], offset[s], pipefd[s], pipe[s],
                     wrote[s]>>,
         child' = "none" => child = "none",
         pc' \in Cloned => pc \in Cloned,
         pc = "dead" => pc' = "dead",
         s \in evs' => s \in evs \/ pipefd[s]
  PROVE  StreamInv(s)'
<1>1. UNCHANGED <<Untouched(s), Collected(s), Complete(s)>>
  BY DEF Untouched, Collected, Complete, Carried
<1>q. QED
  BY <1>1 DEF StreamInv

\* receive takes what is in the pipe: all of it is where it belongs, or the
\* reply is full and the stream over.
LEMMA ReceiveKeeps ==
  ASSUME TypeOK, NEW s \in Streams, Collected(s), receive(s), ~over[s],
         UNCHANGED <<mode, wrote>>
  PROVE  /\ over'[s] => Complete(s)' /\ ~pipefd'[s]
         /\ ~over'[s] => Collected(s)' /\ pipefd'[s]
         /\ pipe'[s] = 0
<1>1. /\ mode[s] \in Mode /\ str[s] \in Nat /\ offset[s] \in Nat
      /\ wrote[s] \in Nat /\ pipe[s] \in Nat
  BY StreamTypes
<1>2. s \in DOMAIN str /\ s \in DOMAIN offset /\ s \in DOMAIN pipe
      /\ s \in DOMAIN over /\ s \in DOMAIN pipefd
  BY DEF TypeOK, OutputTypeOK, CommandTypeOK
<1>a. PICK a \in 0 .. pipe[s] : Keeps(s, a) /\ Receive(s, a)
  BY DEF receive
<1> DEFINE done == a < pipe[s] \/ pipe[s] = 0
<1>3. /\ str'[s] = IF mode[s] = "MSG" THEN str[s] + a ELSE str[s]
      /\ offset'[s] = IF mode[s] = "FILE" THEN offset[s] + a ELSE offset[s]
      /\ pipe'[s] = 0 /\ over'[s] = done /\ pipefd'[s] = ~done
      /\ mode'[s] = mode[s] /\ wrote'[s] = wrote[s]
  BY <1>2, <1>a DEF Receive
<1>b. a \in Nat /\ a <= pipe[s] /\ MsgLimit \in Nat /\ BufSize \in Nat
  BY <1>1, <1>a, OutputAssumption
<1>4. CASE mode[s] = "MSG"
  <2>1. str[s] + pipe[s] = wrote[s] /\ str[s] < MsgLimit + BufSize
    BY <1>4 DEF Collected
  <2>2. /\ a = pipe[s] \/ Room(s) <= a
        /\ a = 0 \/ (Room(s) > 0 /\ a < Room(s) + BufSize)
    BY <1>4, <1>a DEF Keeps
  <2>3. str'[s] = str[s] + a
    BY <1>3, <1>4
  <2>4. str'[s] < MsgLimit + BufSize
    BY <1>1, <1>b, <2>1, <2>2, <2>3 DEF Room
  <2>5. a # pipe[s] => MsgLimit <= str'[s]
    BY <1>1, <1>b, <2>2, <2>3 DEF Room
  <2>6. Carried(str'[s], wrote[s])
    BY <1>1, <1>b, <2>1, <2>3, <2>4, <2>5 DEF Carried
  <2>7. ~over'[s] => str'[s] + 0 = wrote[s]
    <3>1. ~over'[s] => ~(a < pipe[s])
      BY <1>3
    <3>q. QED
      BY <1>1, <1>b, <2>1, <2>3, <3>1
  <2>8. Complete(s)' <=> Carried(str'[s], wrote[s])
    BY <1>3, <1>4 DEF Complete, Carried
  <2>9. Collected(s)' <=> /\ str'[s] + 0 = wrote[s]
                          /\ str'[s] < MsgLimit + BufSize
    BY <1>3, <1>4 DEF Collected
  <2>q. QED
    BY <1>3, <2>4, <2>6, <2>7, <2>8, <2>9
<1>5. CASE mode[s] = "FILE"
  <2>1. offset[s] + pipe[s] = wrote[s]
    BY <1>5 DEF Collected
  <2>2. a = pipe[s]
    BY <1>1, <1>5, <1>a DEF Keeps, FileOverlimit
  <2>3. offset'[s] = wrote[s]
    BY <1>1, <1>3, <1>5, <2>1, <2>2
  <2>4. Complete(s)' <=> offset'[s] = wrote[s]
    BY <1>3, <1>5 DEF Complete
  <2>5. Collected(s)' <=> offset'[s] + 0 = wrote[s]
    BY <1>3, <1>5 DEF Collected
  <2>6. offset'[s] + 0 = wrote[s]
    BY <1>1, <2>3
  <2>q. QED
    BY <1>3, <2>3, <2>4, <2>5, <2>6
<1>6. CASE mode[s] = "IGN"
  <2>1. Complete(s)' /\ Collected(s)'
    BY <1>3, <1>6 DEF Complete, Collected
  <2>q. QED
    BY <1>3, <2>1
<1>q. QED
  BY <1>1, <1>4, <1>5, <1>6 DEF Mode

-----------------------------------------------------------------------------
(* The replies.                                                            *)

\* Without a reply that tells the outcome of a foreground command there is
\* nothing to show.
LEMMA NothingTold ==
  ASSUME Replied' \subseteq Answers', Replied' = {} \/ request'.backend
  PROVE  RepliesKept'
  BY DEF RepliesKept, ReplyComplete

\* The replies on the wire stay right while the streams and the reaped command
\* are left alone and no other reply comes in.
LEMMA RepliesFrame ==
  ASSUME RepliesKept, UNCHANGED <<request, mode, over, offset, wrote>>,
         child = "reaped" => child' = "reaped" /\ exit' = exit,
         Replied' \subseteq Replied,
         \A i \in Replied' : m2c'[i] = m2c[i]
  PROVE  RepliesKept'
<1>1. Replied' \subseteq Answers'
  BY DEF RepliesKept, Replied, Answers
<1>2. Replied' # {} /\ ~request'.backend => \A s \in Streams : over'[s]
  BY DEF RepliesKept
<1>3. ASSUME NEW i \in Replied', ~request'.backend
      PROVE  /\ child' = "reaped"
             /\ m2c'[i].stat \in Outcome'
             /\ Sent("out", m2c[i].outstr)' /\ Sent("err", m2c[i].errstr)'
  <2>1. /\ child = "reaped" /\ m2c[i].stat \in Outcome
        /\ Sent("out", m2c[i].outstr) /\ Sent("err", m2c[i].errstr)
    BY <1>3 DEF RepliesKept, ReplyComplete
  <2>2. child' = "reaped" /\ UNCHANGED Outcome
    BY <2>1 DEF Outcome
  <2>q. QED
    BY <1>3, <2>1, <2>2 DEF Sent, Carried
<1>4. ReplyComplete'
  BY <1>3 DEF ReplyComplete
<1>q. QED
  BY <1>1, <1>2, <1>4 DEF RepliesKept

\* A message without an outcome is none of the replies.
LEMMA NoOutcomeSent ==
  ASSUME m2c \in Seq(Message), NEW m \in Message, NEW next,
         m.stat \in {"NONE", "BADARGS"}, send_message(m, next)
  PROVE  /\ Replied' = Replied
         /\ \A i \in Replied' : m2c'[i] = m2c[i]
<1> DEFINE n == Len(m2c) + 1
           part == [m EXCEPT !.method = "PART"]
<1>1. part \in Message /\ part.stat = m.stat
  BY DEF Message
<1>2. ASSUME NEW e \in Message, e.stat \in {"NONE", "BADARGS"},
             m2c' = Append(m2c, e)
      PROVE  /\ Replied' = Replied
             /\ \A i \in Replied' : m2c'[i] = m2c[i]
  <2>1. /\ DOMAIN m2c' = DOMAIN m2c \cup {n}
        /\ n \notin DOMAIN m2c
        /\ m2c'[n] = e
        /\ \A i \in DOMAIN m2c : m2c'[i] = m2c[i]
    BY <1>2, Behind
  <2>q. QED
    BY <1>2, <2>1 DEF Replied
<1>3. CASE UNCHANGED m2c
  BY <1>3 DEF Replied
<1>4. CASE m2c' = Append(m2c, m)
  BY <1>2, <1>4
<1>5. CASE m2c' = Append(m2c, part)
  BY <1>1, <1>2, <1>5
<1>q. QED
  BY <1>3, <1>4, <1>5 DEF send_message

\* The first reply: what is on the wire, whole or cut short, says what the
\* message says.
LEMMA ReplySent ==
  ASSUME m2c \in Seq(Message), NEW m \in Message, NEW next,
         m.method = "EXE", Replied = {}, send_message(m, next)
  PROVE  /\ Replied' \subseteq Answers'
         /\ \A i \in Replied' : /\ m2c'[i].stat = m.stat
                                /\ m2c'[i].outstr = m.outstr
                                /\ m2c'[i].errstr = m.errstr
<1> DEFINE n == Len(m2c) + 1
           part == [m EXCEPT !.method = "PART"]
           Says(e) == /\ e.stat = m.stat /\ e.outstr = m.outstr
                      /\ e.errstr = m.errstr
<1>1. part \in Message /\ part.method = "PART" /\ Says(part)
  BY DEF Message
<1>2. ASSUME NEW e \in Message, e.method # "SYN", Says(e),
             m2c' = Append(m2c, e)
      PROVE  Replied' \subseteq Answers' /\ \A i \in Replied' : Says(m2c'[i])
  <2>1. /\ DOMAIN m2c' = DOMAIN m2c \cup {n}
        /\ m2c'[n] = e
        /\ \A i \in DOMAIN m2c : m2c'[i] = m2c[i]
    BY <1>2, Behind
  <2>2. Replied' \subseteq {n}
    BY <2>1 DEF Replied
  <2>q. QED
    BY <1>2, <2>1, <2>2 DEF Answers
<1>3. CASE UNCHANGED m2c
  BY <1>3 DEF Replied, Answers
<1>4. CASE m2c' = Append(m2c, m)
  BY <1>2, <1>4
<1>5. CASE m2c' = Append(m2c, part)
  <2> HIDE DEF part
  <2>q. QED
    BY <1>1, <1>2, <1>5
<1>q. QED
  BY <1>3, <1>4, <1>5 DEF send_message

-----------------------------------------------------------------------------
(* Frames.                                                                 *)

\* A step that leaves the streams, the request and the replies alone.
LEMMA ReplyFrame ==
  ASSUME ReplyInv,
         UNCHANGED <<request, mode, over, str, offset, pipefd, pipe, wrote>>,
         child' = "none" => child = "none",
         child = "reaped" => child' = "reaped" /\ exit' = exit,
         pc' \in Cloned => pc \in Cloned,
         pc = "dead" => pc' = "dead",
         \A s \in Streams : s \in evs' => s \in evs \/ pipefd[s],
         Replied' \subseteq Replied,
         \A i \in Replied' : m2c'[i] = m2c[i],
         StatGiven'
  PROVE  ReplyInv'
<1>1. ASSUME NEW s \in Streams PROVE StreamInv(s)'
  <2>1. StreamInv(s)
    BY DEF ReplyInv
  <2>2. UNCHANGED <<mode[s], over[s], str[s], offset[s], pipefd[s], pipe[s],
                    wrote[s]>>
    OBVIOUS
  <2>q. QED
    BY <2>1, <2>2, StreamFrame
<1>2. RepliesKept'
  BY RepliesFrame DEF ReplyInv
<1>q. QED
  BY <1>1, <1>2 DEF ReplyInv

\* Of these the ones that do not touch the child or the status either.
LEMMA QuietFrame ==
  ASSUME ReplyInv,
         UNCHANGED <<m2c, request, mode, over, str, offset, pipefd, pipe,
                     wrote, child, exit, stat>>,
         pc' \in Cloned => pc \in Cloned,
         pc = "dead" => pc' = "dead",
         evs' \subseteq evs
  PROVE  ReplyInv'
<1>1. Replied' = Replied /\ UNCHANGED Outcome
  BY DEF Replied, Outcome
<1>2. StatGiven'
  BY <1>1 DEF ReplyInv, StatGiven
<1>q. QED
  BY <1>1, <1>2, ReplyFrame

-----------------------------------------------------------------------------
(* The request.                                                            *)

\* The request of a Srunc client finds a manager that has executed and told
\* nothing.
LEMMA Fresh ==
  ASSUME TypeOK, ClientInv, ReplyInv, NEW k, k # "ACK", Receives(k)
  PROVE  /\ child = "none" /\ child_status = "NO_PROC" /\ pc = "events"
         /\ Replied = {}
         /\ evs' \subseteq evs
<1>1. /\ c2m \in Seq(Method) /\ c2m # <<>> /\ ParsedMethod(c2m) # "ACK"
      /\ pc = "events" /\ evs' \subseteq evs
  BY DEF Receives, Take, TypeOK, WireTypeOK
<1>2. Unasked
  BY <1>1, ManagerReads DEF ClientInv, Unasked
<1>3. child = "none" /\ ~result_sendback /\ child_status = "NO_PROC"
  BY <1>1, <1>2 DEF ClientInv, AnswerFollows
<1>4. Answers = {}
  BY <1>1, <1>3 DEF ClientInv, AnswerFollows, Ending
<1>q. QED
  BY <1>1, <1>3, <1>4 DEF ReplyInv, RepliesKept

\* A request that clones nothing: it is answered without an outcome, or the
\* manager throws.
LEMMA RequestSettled ==
  ASSUME TypeOK, ClientInv, ReplyInv, NEW k, k # "ACK", Receives(k),
         UNCHANGED <<mode, over, str, offset, pipefd, pipe, wrote, child>>,
         NEW m \in Message, m.stat \in {"NONE", "BADARGS"},
         \/ send_message(m, "events")
         \/ pc' = "destroy" /\ UNCHANGED m2c
  PROVE  ReplyInv'
<1>1. /\ child = "none" /\ pc = "events" /\ Replied = {}
      /\ evs' \subseteq evs
  BY Fresh
<1>2. pc' \in {"events", "destroy"}
  BY DEF send_message
<1>3. Replied' = {}
  <2>1. CASE send_message(m, "events")
    BY <1>1, <2>1, NoOutcomeSent DEF TypeOK, WireTypeOK
  <2>2. CASE UNCHANGED m2c
    BY <1>1, <2>2 DEF Replied
  <2>q. QED
    BY <2>1, <2>2
<1>4. ASSUME NEW s \in Streams PROVE StreamInv(s)'
  <2>1. StreamInv(s)
    BY DEF ReplyInv
  <2>2. UNCHANGED <<mode[s], over[s], str[s], offset[s], pipefd[s], pipe[s],
                    wrote[s]>>
    OBVIOUS
  <2>q. QED
    BY <1>1, <1>2, <2>1, <2>2, StreamFrame DEF Cloned
<1>5. StatGiven'
  BY <1>1 DEF StatGiven
<1>6. RepliesKept'
  BY <1>3, NothingTold
<1>q. QED
  BY <1>4, <1>5, <1>6 DEF ReplyInv

\* load and clone: nothing was ever written, collected or told.
LEMMA CloneKeeps ==
  ASSUME TypeOK, ClientInv, ReplyInv, NEW r \in Requests, ExeClone(r)
  PROVE  ReplyInv'
<1>0. /\ Receives("EXE") /\ load(r.modes, r.backend) /\ child' = "setup"
      /\ UNCHANGED <<m2c, over, str, offset>> /\ r.modes \in [Streams -> Mode]
  BY RequestsAssumption DEF ExeClone, ExeAccepted, HandleExe, Request
<1>1. child = "none" /\ Replied = {} /\ evs' \subseteq evs
  BY <1>0, Fresh
<1>2. ASSUME NEW s \in Streams PROVE StreamInv(s)'
  <2>1. /\ str[s] = 0 /\ offset[s] = 0 /\ ~over[s] /\ ~pipefd[s]
        /\ pipe[s] = 0 /\ wrote[s] = 0 /\ s \notin evs
    BY <1>1 DEF ReplyInv, StreamInv, Untouched
  <2>2. /\ str'[s] = 0 /\ offset'[s] = 0 /\ ~over'[s]
        /\ pipe'[s] = 0 /\ wrote'[s] = 0 /\ s \notin evs'
    BY <1>0, <1>1, <2>1 DEF load
  <2>3. pipefd'[s] => mode'[s] # "IGN"
    BY <1>0, <2>1 DEF load, Piped
  <2>4. mode'[s] \in Mode
    BY <1>0 DEF load
  <2>5. Collected(s)'
    <3>1. 0 + 0 = 0 /\ 0 < MsgLimit + BufSize
      BY OutputAssumption
    <3>q. QED
      BY <2>2, <2>4, <3>1 DEF Collected, Mode
  <2>6. Untouched(s)'
    BY <2>2 DEF Untouched
  <2>q. QED
    BY <1>0, <2>2, <2>3, <2>5, <2>6 DEF StreamInv
<1>3. Replied' = {}
  BY <1>0, <1>1 DEF Replied
<1>4. StatGiven'
  BY <1>0 DEF StatGiven
<1>5. RepliesKept'
  BY <1>3, NothingTold
<1>q. QED
  BY <1>2, <1>4, <1>5 DEF ReplyInv

\* bind: a stream without a pipe is over, and complete since nothing can have
\* been written to it.  The reply to a backend request tells no outcome.
LEMMA BindKeeps ==
  ASSUME TypeOK, SessionInv, ClientInv, ReplyInv, Bind
  PROVE  ReplyInv'
<1> USE DEF wireVars, commandVars, outputVars
<1>1. /\ pc = "bind" /\ evs' \subseteq evs
      /\ UNCHANGED <<child, exit, pipefd, pipe, wrote, mode, str, request,
                     stat>>
  BY DEF Bind
<1>2. pc' \in {"events", "destroy"} /\ child # "none" /\ child # "reaped"
  <2>1. pc' \in {"events", "destroy"}
    BY DEF Bind, send_message, throw
  <2>2. child \in Unreaped
    BY <1>1 DEF SessionInv
  <2>q. QED
    BY <2>1, <2>2 DEF Unreaped
<1>3. Answers = {} /\ Replied = {}
  BY <1>1 DEF ClientInv, AnswerFollows, Cloned, Ending, ReplyInv, RepliesKept
<1>4. ASSUME NEW s \in Streams PROVE StreamInv(s)'
  <2>0. /\ StreamInv(s) /\ Untouched(s) /\ over[s] \in BOOLEAN
        /\ offset[s] = 0 /\ ~over[s]
    BY <1>1, StreamTypes DEF ReplyInv, StreamInv, Cloned, Untouched
  <2>1. CASE UNCHANGED <<over, offset>>
    <3>1. UNCHANGED <<mode[s], over[s], str[s], offset[s], pipefd[s], pipe[s],
                      wrote[s]>>
      BY <1>1, <2>1
    <3>q. QED
      BY <1>1, <1>2, <2>0, <3>1, StreamFrame DEF Cloned
  <2>2. CASE bind
    <3>1. /\ over'[s] <=> ~pipefd[s]
          /\ offset'[s] = offset[s]
          /\ UNCHANGED <<mode[s], str[s], pipefd[s], pipe[s], wrote[s]>>
      BY <1>1, <2>0, <2>2 DEF bind
    <3>2. UNCHANGED <<Collected(s), Complete(s)>>
      BY <3>1 DEF Collected, Complete, Carried
    <3>3. Collected(s)
      BY <1>1, <2>0 DEF StreamInv
    <3>4. ~pipefd[s] => Complete(s)
      BY <1>1, <2>0, <3>3, Drained DEF StreamInv
    <3>q. QED
      BY <1>1, <1>2, <2>0, <3>1, <3>2, <3>3, <3>4 DEF StreamInv, Cloned
  <2>q. QED
    BY <2>1, <2>2 DEF Bind
<1>5. StatGiven'
  BY <1>1, <1>2 DEF StatGiven
<1>6. RepliesKept'
  <2>1. CASE UNCHANGED m2c
    <3>1. Replied' = {}
      BY <1>3, <2>1 DEF Replied
    <3>q. QED
      BY <3>1, NothingTold
  <2>2. CASE request.backend /\ send_message(Reply("NORMAL", 0, 0), "events")
    <3> DEFINE m == Reply("NORMAL", 0, 0)
    <3>1. m \in Message /\ m.method = "EXE"
      BY Short DEF Stat
    <3>2. send_message(m, "events")
      BY <2>2
    <3> HIDE DEF m
    <3>3. Replied' \subseteq Answers'
      BY <1>3, <3>1, <3>2, ReplySent DEF TypeOK, WireTypeOK
    <3>q. QED
      BY <1>1, <2>2, <3>3, NothingTold
  <2>q. QED
    BY <2>1, <2>2 DEF Bind
<1>q. QED
  BY <1>4, <1>5, <1>6 DEF ReplyInv

-----------------------------------------------------------------------------
(* The other steps.                                                        *)

\* While a pipe is open nothing was told of a foreground command, so the
\* manager may read it and the command may write to it.
LEMMA OpenPipe ==
  ASSUME ReplyInv, NEW s \in Streams, pipefd[s],
         UNCHANGED <<m2c, request>>
  PROVE  RepliesKept'
<1>1. ~over[s]
  BY DEF ReplyInv, StreamInv
<1>2. Replied' = Replied /\ Answers' = Answers
  BY DEF Replied, Answers
<1>3. Replied = {} \/ request.backend
  BY <1>1 DEF ReplyInv, RepliesKept
<1>4. Replied \subseteq Answers
  BY DEF ReplyInv, RepliesKept
<1>q. QED
  BY <1>2, <1>3, <1>4, NothingTold

\* receive on an event of a pipe.
LEMMA OutputKeeps ==
  ASSUME TypeOK, SessionInv, ClientInv, ReplyInv,
         NEW t \in Streams, HandleOutput(t)
  PROVE  ReplyInv'
<1> USE DEF wireVars
<1>1. /\ pc = "events" /\ t \in evs /\ evs' = evs \ {t} /\ receive(t)
      /\ UNCHANGED <<m2c, child, exit, stat, request, pc, mode, wrote>>
  BY DEF HandleOutput, Take
<1>2. pipefd[t] /\ ~over[t] /\ StreamInv(t)
  BY <1>1 DEF ReplyInv, StreamInv
<1>3. RepliesKept'
  BY <1>1, <1>2, OpenPipe
<1>4. StatGiven'
  BY <1>1 DEF ReplyInv, StatGiven, Outcome
<1>5. ASSUME NEW s \in Streams PROVE StreamInv(s)'
  <2>1. CASE s # t
    <3>1. UNCHANGED <<mode[s], over[s], str[s], offset[s], pipefd[s], pipe[s],
                      wrote[s]>>
      BY <1>1, <2>1 DEF receive, Receive, TypeOK, OutputTypeOK, CommandTypeOK
    <3>2. StreamInv(s)
      BY DEF ReplyInv
    <3>q. QED
      BY <1>1, <3>1, <3>2, StreamFrame
  <2>2. CASE s = t
    <3>1. child # "none" /\ Collected(s) /\ mode[s] # "IGN"
      BY <1>1, <1>2, <2>2 DEF StreamInv
    <3>2. /\ over'[s] => Complete(s)' /\ ~pipefd'[s]
          /\ ~over'[s] => Collected(s)' /\ pipefd'[s]
          /\ pipe'[s] = 0
      BY <1>1, <1>2, <2>2, <3>1, ReceiveKeeps
    <3>q. QED
      BY <1>1, <2>2, <3>1, <3>2 DEF StreamInv, Cloned
  <2>q. QED
    BY <2>1, <2>2
<1>q. QED
  BY <1>3, <1>4, <1>5 DEF ReplyInv

\* The reply is sent when the command is reaped and both streams are over: it
\* carries all of them.
LEMMA CheckReplyKeeps ==
  ASSUME TypeOK, SessionInv, ClientInv, ReplyInv, CheckReply
  PROVE  ReplyInv'
<1> USE DEF commandVars, outputVars
<1> DEFINE m == Reply(stat, ResultOf("out"), ResultOf("err"))
<1>1. /\ m \in Message /\ m.method = "EXE" /\ m.stat = stat
      /\ m.outstr = ResultOf("out") /\ m.errstr = ResultOf("err")
  BY Short DEF TypeOK, ManagerTypeOK, OutputTypeOK, ResultOf, Streams
<1>2. /\ send_message(m, "enter") /\ pc = "check" /\ ~result_sendback
      /\ child_status = "EXIT" /\ \A s \in Streams : over[s]
      /\ UNCHANGED <<request, mode, over, str, offset, pipefd, pipe, wrote,
                     child, exit, stat, evs>>
  BY DEF CheckReply, ReplyDue, exec_over
<1> HIDE DEF m
<1>3. pc' \in {"enter", "destroy"}
  BY <1>2 DEF send_message
<1>4. child = "reaped"
  BY <1>2 DEF SessionInv, ClientInv, AnswerFollows, TypeOK, CommandTypeOK
<1>5. stat \in Outcome /\ UNCHANGED Outcome
  BY <1>2, <1>4 DEF ReplyInv, StatGiven, Outcome
<1>6. Replied = {}
  BY <1>2 DEF ClientInv, AnswerFollows, Ending, ReplyInv, RepliesKept
<1>7. /\ Replied' \subseteq Answers'
      /\ \A i \in Replied' : /\ m2c'[i].stat = m.stat
                             /\ m2c'[i].outstr = m.outstr
                             /\ m2c'[i].errstr = m.errstr
  BY <1>1, <1>2, <1>6, ReplySent DEF TypeOK, WireTypeOK
<1>8. ASSUME NEW s \in Streams PROVE Sent(s, ResultOf(s))
  <2>1. Complete(s) /\ mode[s] \in Mode
    BY <1>2, StreamTypes DEF ReplyInv, StreamInv
  <2>q. QED
    BY <2>1 DEF Complete, Sent, ResultOf, Mode
<1>9. Sent("out", m.outstr) /\ Sent("err", m.errstr)
  BY <1>1, <1>8 DEF Streams
<1>10. \A n : /\ Sent("out", n) => (Sent("out", n))'
              /\ Sent("err", n) => (Sent("err", n))'
  BY <1>2 DEF Sent, Carried
<1>11. ReplyComplete'
  BY <1>1, <1>2, <1>4, <1>5, <1>7, <1>9, <1>10 DEF ReplyComplete
<1>12. RepliesKept'
  BY <1>2, <1>7, <1>11 DEF RepliesKept
<1>13. StatGiven'
  BY <1>2, <1>5 DEF StatGiven
<1>14. ASSUME NEW s \in Streams PROVE StreamInv(s)'
  <2>1. StreamInv(s)
    BY DEF ReplyInv
  <2>2. UNCHANGED <<mode[s], over[s], str[s], offset[s], pipefd[s], pipe[s],
                    wrote[s]>>
    BY <1>2
  <2>q. QED
    BY <1>2, <1>3, <2>1, <2>2, StreamFrame DEF Cloned
<1>q. QED
  BY <1>12, <1>13, <1>14 DEF ReplyInv

\* Every step of the manager keeps ReplyInv.
LEMMA ReplyManagerStep ==
  ASSUME TypeOK, SessionInv, ClientInv, ReplyInv, ManagerStep
  PROVE  ReplyInv'
<1> USE DEF wireVars, commandVars, outputVars, managerVars, sruncVars
<1>0. \A s \in Streams : s \notin {"conn", "timer", "leak"}
  BY DEF Streams
<1>1. ASSUME \/ /\ child = "zombie" /\ child' = "reaped"
                /\ stat' = IF exit = "normal" THEN "NORMAL" ELSE "ABNORMAL"
             \/ child # "zombie" /\ UNCHANGED <<child, stat>>,
             UNCHANGED <<m2c, request, mode, over, str, offset, pipefd, pipe,
                         wrote, exit, evs>>,
             pc' \notin Cloned, pc # "dead"
      PROVE  ReplyInv'
  <2>1. Replied' = Replied /\ UNCHANGED Outcome
    BY <1>1 DEF Replied, Outcome
  <2>2. StatGiven'
    BY <1>1, <2>1 DEF ReplyInv, StatGiven, Outcome
  <2>q. QED
    BY <1>1, <2>1, <2>2, ReplyFrame
<1>2. CASE WaitChild
  BY <1>1, <1>2 DEF WaitChild, wait_child, Cloned
<1>3. CASE ClearClonepid
  BY <1>3, QuietFrame DEF ClearClonepid, clear_clonepid, Cloned
<1>4. CASE CheckExit
  BY <1>4, QuietFrame DEF CheckExit, Cloned
<1>5. CASE CheckReply
  BY <1>5, CheckReplyKeeps
<1>6. CASE CheckIdle
  BY <1>6, QuietFrame DEF CheckIdle, Cloned
<1>7. CASE EpollEnter
  BY <1>7, QuietFrame DEF EpollEnter, EpollStep, Cloned
<1>8. CASE EpollReturn
  <2>1. /\ pc = "epoll" /\ pc' = "events"
        /\ UNCHANGED <<m2c, request, mode, over, str, offset, pipefd, pipe,
                       wrote, child, exit, stat>>
    BY <1>8 DEF EpollReturn, EpollStep
  <2>2. evs' \subseteq Ready \cup {"leak"}
    BY <1>8 DEF EpollReturn
  <2>3. \A s \in Streams : s \in evs' => pipefd[s]
    BY <1>0, <2>2 DEF Ready
  <2>4. Replied' = Replied /\ UNCHANGED Outcome
    BY <2>1 DEF Replied, Outcome
  <2>5. StatGiven'
    BY <2>1, <2>4 DEF ReplyInv, StatGiven
  <2>q. QED
    BY <2>1, <2>3, <2>4, <2>5, ReplyFrame DEF Cloned
<1>9. CASE EpollTimeout
  BY <1>9, QuietFrame DEF EpollTimeout, EpollStep, Cloned
<1>10. CASE SendSyn
  <2>1. /\ pc = "syn" /\ send_message(Control("SYN"), "wait")
        /\ UNCHANGED <<request, mode, over, str, offset, pipefd, pipe, wrote,
                       child, exit, stat, evs>>
    BY <1>10 DEF SendSyn
  <2>2. Control("SYN") \in Message /\ Control("SYN").stat = "NONE"
    BY Short DEF Method
  <2>3. Replied' = Replied /\ \A i \in Replied' : m2c'[i] = m2c[i]
    BY <2>1, <2>2, NoOutcomeSent DEF TypeOK, WireTypeOK
  <2>4. pc' \in {"wait", "destroy"}
    BY <2>1 DEF send_message
  <2>5. StatGiven'
    BY <2>1 DEF ReplyInv, StatGiven, Outcome
  <2>q. QED
    BY <2>1, <2>3, <2>4, <2>5, ReplyFrame DEF Cloned
<1>11. CASE EventsDone
  BY <1>11, QuietFrame DEF EventsDone, EpollStep, Cloned
<1>12. ASSUME NEW s \in Streams, HandleOutput(s) PROVE ReplyInv'
  BY <1>12, OutputKeeps
<1>13. CASE HandleTimer
  <2>1. /\ pc = "events" /\ evs' \subseteq evs /\ stat' = "TIMEOUT"
        /\ UNCHANGED <<m2c, request, mode, over, str, offset, pipefd, pipe,
                       wrote, child, exit, pc>>
    BY <1>13 DEF HandleTimer, Take
  <2>2. Replied' = Replied
    BY <2>1 DEF Replied
  <2>3. StatGiven'
    BY <2>1 DEF StatGiven, Outcome
  <2>q. QED
    BY <2>1, <2>2, <2>3, ReplyFrame
<1>14. CASE HandleLeak
  BY <1>14, QuietFrame DEF HandleLeak, Take
<1>15. CASE HandleEof
  BY <1>15, QuietFrame DEF HandleEof, Take
<1>16. CASE HandleSyn
  <2>1. c2m \in Seq(Method) /\ c2m # <<>> /\ ParsedMethod(c2m) = "SYN"
    BY <1>16 DEF HandleSyn, Receives, TypeOK, WireTypeOK
  <2>q. QED
    BY <2>1, ManagerReads DEF ClientInv
<1>17. CASE HandleAck
  BY <1>17, QuietFrame DEF HandleAck, Receives, Take
<1>18. CASE HandleList
  <2>1. Control("LIST") \in Message /\ Control("LIST").stat = "NONE"
    BY Short DEF Method
  <2>2. /\ Receives("LIST")
        /\ UNCHANGED <<mode, over, str, offset, pipefd, pipe, wrote, child>>
        /\ \/ send_message(Control("LIST"), "events")
           \/ pc' = "destroy" /\ UNCHANGED m2c
    BY <1>18 DEF HandleList, throw
  <2>q. QED
    BY <2>1, <2>2, RequestSettled
<1>19. CASE HandleStop
  <2>1. Control("STOP") \in Message /\ Control("STOP").stat = "NONE"
    BY Short DEF Method
  <2>2. /\ Receives("STOP") /\ send_message(Control("STOP"), "events")
        /\ UNCHANGED <<mode, over, str, offset, pipefd, pipe, wrote, child>>
    BY <1>19 DEF HandleStop
  <2>q. QED
    BY <2>1, <2>2, RequestSettled
<1>20. ASSUME NEW r \in Requests, ExeAccepted(r) \/ ExeRefused(r)
       PROVE  Receives("EXE")
  BY <1>20 DEF ExeAccepted, ExeRefused, HandleExe
<1>21. ASSUME NEW r \in Requests, ExeRefused(r) PROVE ReplyInv'
  <2>1. child_status = "NO_PROC" /\ pc = "events" /\ clonepid > 0
    BY <1>20, <1>21, Fresh DEF ExeRefused
  <2>2. clonepid # ChildPid
    BY <2>1 DEF SessionInv
  <2>q. QED
    BY <2>1, <2>2 DEF TypeOK, ManagerTypeOK
<1>22. ASSUME NEW r \in Requests, ExeBadArgs(r) PROVE ReplyInv'
  <2> DEFINE m == Reply("BADARGS", 0, 0)
  <2>1. m \in Message /\ m.stat = "BADARGS"
    BY Short DEF Stat
  <2>2. /\ ExeAccepted(r) /\ send_message(m, "events")
        /\ UNCHANGED <<mode, over, str, offset, pipefd, pipe, wrote, child>>
    BY <1>22 DEF ExeBadArgs
  <2> HIDE DEF m
  <2>q. QED
    BY <1>20, <2>1, <2>2, RequestSettled
<1>23. ASSUME NEW r \in Requests, ExeThrows(r) PROVE ReplyInv'
  <2>1. Control("LIST") \in Message /\ Control("LIST").stat = "NONE"
    BY Short DEF Method
  <2>2. /\ ExeAccepted(r) /\ pc' = "destroy" /\ UNCHANGED m2c
        /\ UNCHANGED <<mode, over, str, offset, pipefd, pipe, wrote, child>>
    BY <1>23 DEF ExeThrows, throw
  <2>q. QED
    BY <1>20, <2>1, <2>2, RequestSettled
<1>24. ASSUME NEW r \in Requests, ExeClone(r) PROVE ReplyInv'
  BY <1>24, CloneKeeps
<1>25. CASE JoinCgroup
  BY <1>25, QuietFrame DEF JoinCgroup, Cloned
<1>26. CASE Register
  BY <1>26, QuietFrame DEF Register, Cloned
<1>27. CASE Bind
  BY <1>27, BindKeeps
<1>28. CASE Destroy
  BY <1>28, QuietFrame DEF Destroy, Cloned
<1>29. CASE SleepOver
  BY <1>29, QuietFrame DEF SleepOver, Cloned
<1>30. CASE DestroyWait
  BY <1>1, <1>30 DEF DestroyWait, wait_child, Cloned
<1>31. CASE DestroyClear
  BY <1>31, QuietFrame DEF DestroyClear, clear_clonepid, Cloned
<1>32. CASE Close
  <2>1. /\ pc' = "dead" /\ evs' = {}
        /\ pipefd' = [s \in Streams |-> FALSE]
        /\ pipe' = [s \in Streams |-> 0]
        /\ UNCHANGED <<m2c, request, mode, over, str, offset, wrote, child,
                       exit, stat>>
    BY <1>32 DEF Close
  <2>2. Replied' = Replied
    BY <2>1 DEF Replied
  <2>3. RepliesKept'
    BY <2>1, <2>2, RepliesFrame DEF ReplyInv
  <2>4. ASSUME NEW s \in Streams PROVE StreamInv(s)'
    <3>1. StreamInv(s) /\ ~pipefd'[s] /\ pipe'[s] = 0
      BY <2>1 DEF ReplyInv
    <3>2. UNCHANGED <<Untouched(s), Complete(s)>>
      BY <2>1 DEF Untouched, Complete, Carried
    <3>q. QED
      BY <2>1, <3>1, <3>2 DEF StreamInv, Cloned
  <2>q. QED
    BY <2>1, <2>3, <2>4 DEF ReplyInv, StatGiven
<1>q. QED
  BY <1>2, <1>3, <1>4, <1>5, <1>6, <1>7, <1>8, <1>9, <1>10, <1>11, <1>12,
     <1>13, <1>14, <1>15, <1>16, <1>17, <1>18, <1>19, <1>21, <1>22, <1>23,
     <1>24, <1>25, <1>26, <1>27, <1>28, <1>29, <1>30, <1>31, <1>32
     DEF ManagerStep

\* So does every step of the client, the command and the system.
LEMMA ReplyStep ==
  ASSUME MaxExtra = 0, TypeOK, SessionInv, ClientInv, ReplyInv, [Next]_vars
  PROVE  ReplyInv'
<1> USE DEF wireVars, commandVars, outputVars, managerVars, sruncVars
<1>1. CASE ManagerStep
  BY <1>1, ReplyManagerStep
<1>2. ASSUME UNCHANGED <<request, mode, over, str, offset, pipefd, pipe, wrote,
                         child, exit, stat, pc, evs>>,
             m2c' = m2c \/ m2c' = <<>>
      PROVE  ReplyInv'
  <2>1. Replied' \subseteq Replied /\ \A i \in Replied' : m2c'[i] = m2c[i]
    BY <1>2 DEF Replied
  <2>2. StatGiven'
    BY <1>2 DEF ReplyInv, StatGiven, Outcome
  <2>q. QED
    BY <1>2, <2>1, <2>2, ReplyFrame
<1>3. CASE ClientStep
  BY <1>2, <1>3 DEF ClientStep, ClientSends, ClientAcks, ClientReturns,
     ClientFails
<1>4. CASE ClientWhim
  BY <1>2, <1>4 DEF ClientWhim, ClientDies, ClientSendsMore
<1>5. ASSUME UNCHANGED <<m2c, request, mode, over, str, offset, pipefd, pipe,
                         wrote, stat, evs>>,
             child \in {"setup", "running"}, child' \in {"running", "zombie"},
             pc' \in Cloned => pc \in Cloned,
             pc = "dead" => pc' = "dead"
      PROVE  ReplyInv'
  <2>1. Replied' = Replied
    BY <1>5 DEF Replied
  <2>2. StatGiven'
    BY <1>5 DEF StatGiven
  <2>q. QED
    BY <1>5, <2>1, <2>2, ReplyFrame
<1>6. CASE ChildStarts
  BY <1>5, <1>6 DEF ChildStarts, Execv, ExecuteFails, sigchld, Interrupt,
     Cloned
<1>7. CASE ChildEnds
  BY <1>5, <1>7 DEF ChildEnds, CommandExits, sigchld, Interrupt, Cloned
<1>8. CASE ChildActs
  <2>0. UNCHANGED <<m2c, request, mode, over, str, offset, pipefd, child, exit,
                    stat, pc, evs>>
    BY <1>8 DEF ChildActs, CommandWrites, CommandForks, OrphanExits
  <2>1. CASE CommandForks \/ OrphanExits
    BY <2>0, <2>1, QuietFrame DEF CommandForks, OrphanExits
  <2>2. ASSUME NEW t \in Streams, CommandWrites(t) PROVE ReplyInv'
    <3>1. /\ pipefd[t]
          /\ pipe' = [pipe EXCEPT ![t] = @ + 1]
          /\ wrote' = [wrote EXCEPT ![t] = @ + 1]
      BY <2>2 DEF CommandWrites
    <3>2. RepliesKept'
      BY <2>0, <3>1, OpenPipe
    <3>3. StatGiven'
      BY <2>0 DEF ReplyInv, StatGiven, Outcome
    <3>4. ASSUME NEW s \in Streams PROVE StreamInv(s)'
      <4>0. StreamInv(s)
        BY DEF ReplyInv
      <4>1. CASE s # t
        <5>1. UNCHANGED <<mode[s], over[s], str[s], offset[s], pipefd[s],
                          pipe[s], wrote[s]>>
          BY <2>0, <3>1, <4>1 DEF TypeOK, CommandTypeOK
        <5>q. QED
          BY <2>0, <4>0, <5>1, StreamFrame
      <4>2. CASE s = t
        <5>1. /\ pipe'[s] = pipe[s] + 1 /\ wrote'[s] = wrote[s] + 1
              /\ UNCHANGED <<mode[s], over[s], str[s], offset[s], pipefd[s]>>
          BY <2>0, <3>1, <4>2 DEF TypeOK, CommandTypeOK
        <5>2. ~over[s] /\ pipefd[s] /\ child # "none" /\ mode[s] # "IGN"
          BY <3>1, <4>0, <4>2 DEF StreamInv
        <5>3. /\ mode[s] \in Mode /\ str[s] \in Nat /\ offset[s] \in Nat
              /\ pipe[s] \in Nat /\ wrote[s] \in Nat
          BY StreamTypes
        <5>4. Collected(s) => Collected(s)'
          <6>1. CASE mode[s] = "MSG"
            BY <5>1, <5>3, <6>1 DEF Collected
          <6>2. CASE mode[s] = "FILE"
            BY <5>1, <5>3, <6>2 DEF Collected
          <6>q. QED
            BY <5>2, <5>3, <6>1, <6>2 DEF Mode
        <5>5. UNCHANGED Untouched(s)
          BY <5>1 DEF Untouched
        <5>q. QED
          BY <2>0, <4>0, <5>1, <5>2, <5>4, <5>5 DEF StreamInv
      <4>q. QED
        BY <4>1, <4>2
    <3>q. QED
      BY <3>2, <3>3, <3>4 DEF ReplyInv
  <2>q. QED
    BY <1>8, <2>1, <2>2 DEF ChildActs
<1>9. CASE Reparented
  <2>1. /\ pc = "dead" /\ child = "zombie" /\ child' = "reaped"
        /\ UNCHANGED <<m2c, request, mode, over, str, offset, pipefd, pipe,
                       wrote, exit, stat, pc, evs>>
    BY <1>9 DEF Reparented, InitReaps
  <2>2. Replied' = Replied
    BY <2>1 DEF Replied
  <2>3. StatGiven'
    BY <2>1 DEF StatGiven
  <2>q. QED
    BY <2>1, <2>2, <2>3, ReplyFrame
<1>10. CASE Stopped
  BY <1>10, QuietFrame DEF Stopped, sigterm_handler, Interrupt, Cloned
<1>11. CASE Expiry
  BY <1>11, QuietFrame DEF Expiry, TimerExpires
<1>12. CASE UNCHANGED vars
  BY <1>12, QuietFrame DEF vars, allVars
<1>q. QED
  BY <1>1, <1>3, <1>4, <1>6, <1>7, <1>8, <1>9, <1>10, <1>11, <1>12 DEF Next

\* Before the request there is nothing to reply to.
LEMMA ReplyInit == Init => ReplyInv
<1> SUFFICES ASSUME Init PROVE ReplyInv
  OBVIOUS
<1>1. /\ child = "none" /\ evs = {} /\ m2c = <<>> /\ pc = "wait"
      /\ mode = [s \in Streams |-> "IGN"]
      /\ over = [s \in Streams |-> FALSE]
      /\ str = [s \in Streams |-> 0]
      /\ offset = [s \in Streams |-> 0]
      /\ pipefd = [s \in Streams |-> FALSE]
      /\ pipe = [s \in Streams |-> 0]
      /\ wrote = [s \in Streams |-> 0]
  BY DEF Init, WireInit, CommandInit, OutputInit, ManagerInit
<1>2. ASSUME NEW s \in Streams PROVE StreamInv(s)
  BY <1>1 DEF StreamInv, Untouched, Collected
<1>3. Replied = {}
  BY <1>1 DEF Replied
<1>q. QED
  BY <1>1, <1>2, <1>3 DEF ReplyInv, StatGiven, RepliesKept, ReplyComplete

\* A Srunc client that waits for its command is sent a reply only when the
\* command is reaped and its output is at its end: whatever the order in which
\* exit, output, timer and signals reach the manager, the reply carries all
\* that was written, up to the limit, and the status waitpid gave, or TIMEOUT.
THEOREM RepliesComplete ==
  ASSUME MaxExtra = 0
  PROVE  Spec => []ReplyComplete
<1>1. Init => ReplyInv
  BY ReplyInit
<1>2. TypeOK /\ SessionInv /\ ClientInv /\ ReplyInv /\ [Next]_vars => ReplyInv'
  BY ReplyStep
<1>3. ReplyInv => ReplyComplete
  BY DEF ReplyInv, RepliesKept
<1>q. QED
  BY <1>1, <1>2, <1>3, ClientInvariant, PTL DEF Spec
=============================================================================
