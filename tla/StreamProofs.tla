---------------------------- MODULE StreamProofs ----------------------------
(***************************************************************************)
(* Output::receive read by read: the types, and that the loop of reads,    *)
(* with the command writing in between, implements the one step of module  *)
(* Output, for every size of the pipe and every limit.                     *)
(***************************************************************************)
EXTENDS OutputStream, TLAPS

\* The bound on what is followed of a file.
LEMMA BoundedFacts ==
  /\ \A n \in Nat : Bounded(n) \in Nat /\ Bounded(n) <= n
  /\ \A n \in Nat : n > 0 => Bounded(n) > 0
  /\ \A n \in Nat : n <= MaxWrites \/ mode # "FILE" => Bounded(n) = n
  /\ \A n, k \in Nat : n <= k => Bounded(n) <= Bounded(k)
<1>1. MaxWrites \in Nat \ {0}
  BY StreamAssumption
<1>q. QED
  BY <1>1 DEF Bounded

\* What the types say of the numbers.
LEMMA Numbers ==
  ASSUME TypeOK
  PROVE  /\ pipe \in Nat /\ pipe <= PipeCap /\ total \in Nat /\ offset \in Nat
         /\ str \in Nat /\ str < MsgLimit + BufSize
         /\ PipeCap \in Nat /\ MsgLimit \in Nat /\ FileLimit \in Nat
         /\ MaxWrites \in Nat /\ BufSize \in Nat /\ BufSize > 0
  BY StreamAssumption DEF TypeOK

\* The test on the file position never trips: only the message has a limit.
LEMMA FileUnlimited ==
  ASSUME TypeOK
  PROVE  Overlimit <=> mode = "MSG" /\ str >= MsgLimit
  BY Numbers DEF Overlimit

\* A pipe just made, nothing read.
LEMMA StreamInit == Init => StreamInv
<1>1. /\ PipeCap \in Nat /\ MsgLimit \in Nat /\ MaxWrites \in Nat
      /\ BufSize \in Nat \ {0}
  BY StreamAssumption
<1>2. /\ 0 \in 0 .. PipeCap /\ 0 \in Nat /\ 0 < MsgLimit + BufSize
      /\ 0 + 0 <= MaxWrites /\ 0 <= 0 /\ ~(0 > 0)
  BY <1>1
<1>3. Init => TypeOK
  <2> SUFFICES ASSUME Init PROVE TypeOK
    OBVIOUS
  <2>1. pipefd \in BOOLEAN /\ over = ~pipefd
    BY DEF Init
  <2>2. /\ pipe \in 0 .. PipeCap /\ str \in Nat /\ str < MsgLimit + BufSize
        /\ total \in Nat /\ offset \in Nat
    BY <1>2 DEF Init
  <2>q. QED
    BY <2>1, <2>2 DEF Init, TypeOK
<1>q. QED
  BY <1>2, <1>3 DEF Init, StreamInv

\* A step that touches neither the numbers nor the pipe.
LEMMA StreamFrame ==
  ASSUME StreamInv, UNCHANGED <<mode, pipe, pipefd, total, str, offset, over>>,
         command' \in {"runs", "told", "gone"},
         timer' \in {"armed", "expired", "closed"},
         evs' \subseteq {"out", "timer"},
         pc' \in {"epoll", "events"},
         pc # "receive" \/ UNCHANGED pc,
         command = "gone" => command' = "gone",
         "out" \in evs' =>
           pipefd /\ pc' = "events" /\ (pipe > 0 \/ command = "gone")
  PROVE  StreamInv'
  BY DEF StreamInv, TypeOK

\* receive returns: the pipe is closed and the stream over, or it stays open.
LEMMA ReturnKeeps ==
  ASSUME StreamInv, pc = "receive", NEW o \in BOOLEAN, NEW n \in Nat,
         ReturnReceive(o, n)
  PROVE  StreamInv'
<1>1. /\ pc' = "events" /\ total' = 0
      /\ over' = (over \/ Ended(o, n)) /\ pipefd' = ~Ended(o, n)
      /\ pipe' = (IF Ended(o, n) THEN 0 ELSE pipe)
      /\ UNCHANGED <<mode, command, evs, str, offset, timer>>
  BY DEF ReturnReceive
<1>2. pipefd /\ over = ~pipefd /\ "out" \notin evs
  BY DEF StreamInv, TypeOK
<1>3. Ended(o, n) \in BOOLEAN
  BY DEF Ended
<1>4. over' = ~pipefd' /\ pipefd' \in BOOLEAN
  BY <1>1, <1>2, <1>3
<1>5. pipe' \in 0 .. PipeCap /\ pipe' <= pipe
  BY <1>1, StreamAssumption DEF StreamInv, TypeOK
<1>6. TypeOK'
  BY <1>1, <1>4, <1>5 DEF StreamInv, TypeOK
<1>7. mode' = "FILE" /\ ~Endless => offset' + pipe' <= MaxWrites
  BY <1>1, <1>5, Numbers DEF StreamInv
<1>8. /\ mode' = "MSG" => total' <= str'
      /\ mode' = "FILE" => total' <= offset'
      /\ ~(total' > 0)
  BY <1>1, Numbers DEF StreamInv
<1>q. QED
  BY <1>1, <1>2, <1>6, <1>7, <1>8 DEF StreamInv

\* Every step keeps the types and StreamInv.
LEMMA StreamStep == StreamInv /\ [Next]_vars => StreamInv'
<1> SUFFICES ASSUME StreamInv, [Next]_vars
             PROVE  StreamInv'
  OBVIOUS
<1>a. /\ pipe \in Nat /\ pipe <= PipeCap /\ total \in Nat /\ offset \in Nat
      /\ str \in Nat /\ str < MsgLimit + BufSize
      /\ PipeCap \in Nat /\ MsgLimit \in Nat /\ MaxWrites \in Nat
      /\ BufSize \in Nat /\ BufSize > 0
  BY Numbers DEF StreamInv
<1>b. /\ command \in {"runs", "told", "gone"} /\ evs \subseteq {"out", "timer"}
      /\ timer \in {"armed", "expired", "closed"}
      /\ pc \in {"epoll", "events", "receive"}
      /\ pc = "receive" => pipefd
      /\ "out" \in evs =>
           pipefd /\ pc = "events" /\ (pipe > 0 \/ command = "gone")
  BY DEF StreamInv, TypeOK
<1>1. CASE CommandWrites
  <2>1. /\ pipe < PipeCap /\ pipe' = pipe + 1
        /\ mode = "FILE" /\ ~Endless => offset + pipe < MaxWrites
        /\ UNCHANGED <<mode, command, pipefd, pc, evs, total, str, offset,
                       over, timer>>
    BY <1>1 DEF CommandWrites
  <2>2. pipe' \in 0 .. PipeCap
    BY <1>a, <2>1
  <2>3. TypeOK'
    BY <2>1, <2>2 DEF StreamInv, TypeOK
  <2>4. mode' = "FILE" /\ ~Endless => offset' + pipe' <= MaxWrites
    BY <1>a, <2>1
  <2>5. pipe' > 0
    BY <1>a, <2>1
  <2>q. QED
    BY <2>1, <2>3, <2>4, <2>5 DEF StreamInv
<1>2. ASSUME UNCHANGED <<mode, pipe, pipefd, pc, evs, total, str, offset,
                         over>>,
             command' \in {"runs", "told", "gone"},
             command = "gone" => command' = "gone",
             timer' \in {"armed", "expired", "closed"}
      PROVE  StreamInv'
  BY <1>2 DEF StreamInv, TypeOK
<1>3. CASE CommandExits
  BY <1>2, <1>3, <1>b DEF CommandExits
<1>4. CASE TimerExpires
  BY <1>2, <1>4, <1>b DEF TimerExpires
<1>5. CASE EpollReturn
  BY <1>5, <1>b, StreamFrame DEF EpollReturn, Ready
<1>6. CASE EventsDone
  BY <1>6, <1>b, StreamFrame DEF EventsDone
<1>7. CASE HandleTimer
  BY <1>7, <1>b, StreamFrame DEF HandleTimer, stop_child
<1>8. CASE CallReceive
  <2>1. /\ pc = "events" /\ "out" \in evs /\ evs' = evs \ {"out"}
        /\ pc' = "receive" /\ total' = 0 /\ total = 0
        /\ UNCHANGED <<mode, command, pipe, pipefd, str, offset, over, timer>>
    BY <1>8 DEF CallReceive, StreamInv
  <2>2. TypeOK'
    BY <2>1 DEF StreamInv, TypeOK
  <2>q. QED
    BY <1>b, <2>1, <2>2 DEF StreamInv
<1>9. ASSUME NEW len \in 1 .. BufSize, ReadMore(len)
      PROVE  StreamInv'
  <2>1. /\ pc = "receive" /\ len <= pipe /\ ~Overlimit /\ pipe' = pipe - len
        /\ total' = Bounded(total + len)
        /\ str' = (IF mode = "MSG" THEN str + len ELSE str)
        /\ offset' = (IF mode = "FILE" THEN Bounded(offset + len) ELSE offset)
        /\ UNCHANGED <<mode, command, pipefd, pc, evs, over, timer>>
    BY <1>9 DEF ReadMore
  <2>l. len \in Nat /\ len > 0 /\ len <= BufSize
    BY <1>a
  <2>2. mode = "MSG" => str < MsgLimit
    BY <1>a, <2>1, FileUnlimited DEF StreamInv
  <2>3. /\ pipe' \in 0 .. PipeCap
        /\ str' \in Nat /\ str' < MsgLimit + BufSize
    BY <1>a, <2>1, <2>2, <2>l
  <2>4. /\ Bounded(total + len) \in Nat /\ Bounded(total + len) <= total + len
        /\ Bounded(offset + len) \in Nat
        /\ Bounded(offset + len) <= offset + len
        /\ total <= offset => Bounded(total + len) <= Bounded(offset + len)
        /\ Bounded(total + len) > 0
        /\ mode = "MSG" => Bounded(total + len) = total + len
    BY <1>a, <2>l, BoundedFacts
  <2>5. TypeOK'
    BY <2>1, <2>3, <2>4 DEF StreamInv, TypeOK
  <2>6. mode' = "MSG" => total' <= str' /\ str' - total' < MsgLimit
    BY <1>a, <2>1, <2>2, <2>4, <2>l DEF StreamInv
  <2>7. mode' = "FILE" => total' <= offset'
    BY <2>1, <2>4 DEF StreamInv
  <2>8. mode' = "FILE" /\ ~Endless => offset' + pipe' <= MaxWrites
    BY <1>a, <2>1, <2>4, <2>l DEF StreamInv
  <2>9. total' > 0 /\ total' # 0
    BY <2>1, <2>4
  <2>q. QED
    BY <1>b, <2>1, <2>5, <2>6, <2>7, <2>8, <2>9 DEF StreamInv
<1>10. ASSUME NEW len \in 1 .. BufSize, ReadTooMuch(len)
       PROVE  StreamInv'
  <2>1. pc = "receive" /\ ReturnReceive(TRUE, total + len)
    BY <1>10 DEF ReadTooMuch
  <2>2. total + len \in Nat
    BY <1>a
  <2>q. QED
    BY <2>1, <2>2, ReturnKeeps
<1>11. CASE ReadNothing
  BY <1>a, <1>11, ReturnKeeps DEF ReadNothing
<1>12. CASE UNCHANGED vars
  BY <1>2, <1>12, <1>b DEF vars
<1>q. QED
  BY <1>1, <1>3, <1>4, <1>5, <1>6, <1>7, <1>8, <1>9, <1>10, <1>11, <1>12
     DEF Next, ManagerStep

\* Output::receive is entered for an open pipe only and what it counts is what
\* it added, whatever the command does between two reads.
THEOREM StreamInvariant == Spec => []StreamInv
  BY StreamInit, StreamStep, PTL DEF Spec

\* The collected string passes the limit by less than one buffer, whatever the
\* sizes of the reads, and the descriptor is closed exactly when nothing more
\* will be received.
THEOREM StreamTypes == Spec => []TypeOK
<1>1. StreamInv => TypeOK
  BY DEF StreamInv
<1>q. QED
  BY <1>1, StreamInvariant, PTL

-----------------------------------------------------------------------------
(* The loop of reads is the one step of module Output.                     *)

\* In the step of module Output, receive keeps total of what is unread: that
\* ends the stream if it is less than all or if there was nothing.
LEMMA AbstractReceive ==
  ASSUME Abstract!Keeps("out", total), total \in 0 .. Unread, Unread' = 0,
         Collected' = (IF mode = "MSG" THEN Collected + total ELSE Collected),
         Written' = (IF mode = "FILE" THEN Written + total ELSE Written),
         over' = (over \/ total < Unread \/ Unread = 0),
         pipefd' = ~(total < Unread \/ Unread = 0)
  PROVE  Abstract!receive("out")
<1>1. Abstract!Receive("out", total)
  BY DEF Abstract!Receive, Stream
<1>2. Stream(Unread, 0)["out"] = Unread
  BY DEF Stream
<1>q. QED
  BY <1>1, <1>2 DEF Abstract!receive

\* Module Output lets receive keep what the loop has kept when it returns, at
\* the limit or with the pipe empty.
LEMMA KeepsTotal ==
  ASSUME StreamInv, pipe = 0 \/ Overlimit
  PROVE  Abstract!Keeps("out", total)
<1>a. /\ pipe \in Nat /\ total \in Nat /\ offset \in Nat /\ str \in Nat
      /\ str < MsgLimit + BufSize /\ MsgLimit \in Nat /\ FileLimit \in Nat
      /\ BufSize \in Nat
  BY Numbers DEF StreamInv
<1>1. CASE mode = "MSG"
  <2>1. Abstract!Keeps("out", total) <=>
          /\ total = Unread \/ Abstract!Room("out") <= total
          /\ total = 0 \/ (/\ Abstract!Room("out") > 0
                           /\ total < Abstract!Room("out") + BufSize)
    BY <1>1 DEF Abstract!Keeps, Stream
  <2>2. Abstract!Room("out") = IF str - total < MsgLimit
                               THEN MsgLimit - (str - total) ELSE 0
    BY <1>1 DEF Abstract!Room, Stream, Collected
  <2>3. pipe = 0 \/ str >= MsgLimit
    BY <1>1, FileUnlimited DEF StreamInv
  <2>4. total <= str /\ (total > 0 => str - total < MsgLimit)
    BY <1>1 DEF StreamInv
  <2>5. total = Unread \/ Abstract!Room("out") <= total
    BY <1>a, <2>2, <2>3, <2>4 DEF Unread
  <2>6. total = 0 \/ (/\ Abstract!Room("out") > 0
                      /\ total < Abstract!Room("out") + BufSize)
    BY <1>a, <2>2, <2>4
  <2>q. QED
    BY <2>1, <2>5, <2>6
<1>2. CASE mode = "FILE"
  <2>1. pipe = 0
    BY <1>2, FileUnlimited DEF StreamInv
  <2>2. ~Abstract!FileOverlimit(Written)
    BY <1>a DEF Abstract!FileOverlimit, Written
  <2>3. Abstract!Keeps("out", total) <=> total = Unread
    BY <1>2, <2>2 DEF Abstract!Keeps, Stream
  <2>q. QED
    BY <1>a, <2>1, <2>3 DEF Unread
<1>q. QED
  BY <1>1, <1>2 DEF StreamInv, TypeOK

\* receive returns: this is the step of module Output, and if it ends the
\* stream there is nobody left to write or the message is full.
LEMMA ReturnIsReceive ==
  ASSUME StreamInv,
         ReadNothing \/ \E len \in 1 .. BufSize : ReadTooMuch(len)
  PROVE  /\ Abstract!receive("out")
         /\ over' => command = "gone" \/ (mode = "MSG" /\ str >= MsgLimit)
<1>a. /\ pipe \in Nat /\ total \in Nat /\ offset \in Nat /\ str \in Nat
  BY Numbers DEF StreamInv
<1>b. pc = "receive" /\ over = FALSE /\ pipefd = TRUE
  BY DEF ReadTooMuch, ReadNothing, StreamInv, TypeOK
<1>c. pipe = 0 \/ Overlimit
  BY DEF ReadTooMuch, ReadNothing
<1>d. Abstract!Keeps("out", total)
  BY <1>c, KeepsTotal
<1>1. Abstract!Keeps("out", total) /\ total \in 0 .. Unread
  BY <1>a, <1>d DEF Unread
<1>2. total' = 0 /\ UNCHANGED <<mode, str, offset>>
  BY DEF ReadTooMuch, ReadNothing, ReturnReceive
<1>3. /\ Collected' = (IF mode = "MSG" THEN Collected + total ELSE Collected)
      /\ Written' = (IF mode = "FILE" THEN Written + total ELSE Written)
  BY <1>a, <1>2 DEF Collected, Written
<1>4. CASE \E len \in 1 .. BufSize : ReadTooMuch(len)
  <2>a. PICK len \in 1 .. BufSize : ReadTooMuch(len)
    BY <1>4
  <2>b. pipe > 0
    BY <1>a, <2>a, StreamAssumption DEF ReadTooMuch
  <2>1. /\ pipe > 0 /\ pipe' = 0 /\ over' = TRUE /\ pipefd' = FALSE
        /\ Overlimit
    BY <2>a, <2>b DEF ReadTooMuch, ReturnReceive, Ended
  <2>2. total < Unread /\ Unread' = 0
    BY <1>a, <1>2, <2>1 DEF Unread
  <2>3. Abstract!receive("out")
    BY <1>1, <1>3, <2>1, <2>2, AbstractReceive
  <2>q. QED
    BY <2>1, <2>3, FileUnlimited DEF StreamInv
<1>5. CASE ReadNothing
  <2>1. /\ pipe = 0 /\ pipe' = 0 /\ over' = (over \/ total <= 0)
        /\ pipefd' = ~(total <= 0)
    BY <1>5 DEF ReadNothing, ReturnReceive, Ended
  <2>2. /\ Unread = total /\ Unread' = 0 /\ ~(total < Unread)
        /\ total <= 0 <=> Unread = 0
    BY <1>a, <1>2, <2>1 DEF Unread
  <2>3. /\ over' = (over \/ total < Unread \/ Unread = 0)
        /\ pipefd' = ~(total < Unread \/ Unread = 0)
    BY <1>b, <2>1, <2>2
  <2>4. Abstract!receive("out")
    BY <1>1, <1>3, <2>2, <2>3, AbstractReceive
  <2>5. over' => total = 0
    <3>1. over' => total <= 0
      BY <1>b, <2>1
    <3>q. QED
      BY <1>a, <3>1
  <2>6. ~(pipe > 0)
    BY <2>1
  <2>q. QED
    BY <1>b, <2>4, <2>5, <2>6 DEF StreamInv
<1>q. QED
  BY <1>4, <1>5

\* A read within the call moves what is unread on the way to where it belongs:
\* module Output does not see it.
LEMMA ReadUnseen ==
  ASSUME StreamInv, ~Endless, NEW len \in 1 .. BufSize, ReadMore(len)
  PROVE  UNCHANGED <<Unread, Collected, Written, over, pipefd>>
<1>a. /\ pipe \in Nat /\ total \in Nat /\ offset \in Nat /\ str \in Nat
      /\ MaxWrites \in Nat /\ len \in Nat
  BY Numbers DEF StreamInv
<1>1. /\ len <= pipe /\ pipe' = pipe - len
      /\ total' = Bounded(total + len)
      /\ str' = (IF mode = "MSG" THEN str + len ELSE str)
      /\ offset' = (IF mode = "FILE" THEN Bounded(offset + len) ELSE offset)
      /\ UNCHANGED <<mode, pipefd, over>>
  BY DEF ReadMore
<1>2. CASE mode = "MSG"
  <2>1. Bounded(total + len) = total + len
    BY <1>a, <1>2, BoundedFacts
  <2>q. QED
    BY <1>a, <1>1, <1>2, <2>1 DEF Unread, Collected, Written
<1>3. CASE mode = "FILE"
  <2>1. total <= offset /\ offset + pipe <= MaxWrites
    BY <1>3 DEF StreamInv
  <2>2. /\ Bounded(total + len) = total + len
        /\ Bounded(offset + len) = offset + len
    BY <1>a, <1>1, <2>1, BoundedFacts
  <2>q. QED
    BY <1>a, <1>1, <1>3, <2>2 DEF Unread, Collected, Written
<1>q. QED
  BY <1>2, <1>3 DEF StreamInv, TypeOK

\* The loop of Output::receive, with the command writing between its reads,
\* comes to one atomic receive at the moment it returns, and ends the stream
\* only when nobody is left to write or the message is full: so the model of
\* the manager may take it as one step.  (For a command whose output is
\* finite, or goes to a message.)
THEOREM ReceiveIsAtomic ==
  ASSUME ~Endless
  PROVE  Spec => ImplementsReceive
<1> DEFINE view == <<Unread, Collected, Written, over, pipefd>>
           full == mode = "MSG" /\ str >= MsgLimit
           Step == \/ /\ Abstract!receive("out")
                      /\ over' => command = "gone" \/ full
                   \/ /\ Unread' = Unread + 1
                      /\ UNCHANGED <<Collected, Written, over, pipefd>>
<1>1. StreamInv /\ [Next]_vars => [Step]_view
  <2> SUFFICES ASSUME StreamInv, [Next]_vars
               PROVE  Step \/ UNCHANGED view
    OBVIOUS
  <2>1. CASE CommandWrites
    <3>1. /\ pipe' = pipe + 1
          /\ UNCHANGED <<mode, pipefd, total, str, offset, over>>
      BY <2>1 DEF CommandWrites
    <3>2. Unread' = Unread + 1
      BY <3>1, Numbers DEF StreamInv, Unread
    <3>q. QED
      BY <3>1, <3>2 DEF Collected, Written
  <2>2. ASSUME NEW len \in 1 .. BufSize, ReadMore(len)
        PROVE  UNCHANGED view
    BY <2>2, ReadUnseen
  <2>3. CASE ReadNothing \/ \E len \in 1 .. BufSize : ReadTooMuch(len)
    BY <2>3, ReturnIsReceive
  <2>4. ASSUME UNCHANGED <<mode, pipe, pipefd, total, str, offset, over>>
        PROVE  UNCHANGED view
    BY <2>4 DEF Unread, Collected, Written
  <2>5. CASE CallReceive
    BY <2>4, <2>5 DEF CallReceive, StreamInv
  <2>6. CASE CommandExits \/ TimerExpires \/ EpollReturn
    BY <2>4, <2>6 DEF CommandExits, TimerExpires, EpollReturn
  <2>7. CASE EventsDone \/ HandleTimer \/ UNCHANGED vars
    BY <2>4, <2>7 DEF EventsDone, HandleTimer, vars
  <2>q. QED
    BY <2>1, <2>2, <2>3, <2>5, <2>6, <2>7 DEF Next, ManagerStep
<1>q. QED
  BY <1>1, StreamInvariant, PTL DEF Spec, ImplementsReceive
=============================================================================
