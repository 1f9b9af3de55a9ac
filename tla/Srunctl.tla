------------------------------ MODULE Srunctl -------------------------------
(***************************************************************************)
(* The command line tool: main of srunctl.cpp with its loop over getopt,   *)
(* and Srunc::run, list and stop up to and after the exchange with the     *)
(* manager (Srunc::exec, which modules Srunc and Session model: here it is *)
(* what came of the request, and what the manager told of it).             *)
(*                                                                         *)
(* argv holds the words after the program's name; an option and its        *)
(* argument are one word.  "-n" stands for -m -t -u -r -n, each of which   *)
(* sets one field of the request that nothing here looks at, "-x" for an   *)
(* option getopt rejects.                                                  *)
(***************************************************************************)
EXTENDS Integers, Sequences, FiniteSetsExt, SequencesExt

CONSTANTS
  MaxWords,  \* bound: words on the command line
  Retvals    \* exit statuses of commands, as WEXITSTATUS yields them

ASSUME SrunctlAssumption == MaxWords \in Nat /\ Retvals \subseteq 0 .. 255

Operands == {"list", "stop", "word", "7"}
OutFile == [w \in {"-o f", "-o g"} |-> IF w = "-o f" THEN "f" ELSE "g"]
ErrFile == [w \in {"-e f"} |-> "f"]
Words == Operands \cup DOMAIN OutFile \cup DOMAIN ErrFile
           \cup {"-n", "-b", "-q", "-c", "-x", "--"}

VARIABLES
  argv,
  pc,       \* main, getopt, out and err (create777), exec, answered, exited
            \* or aborted (std::terminate)
  optind,   \* the next word getopt looks at
  passed,   \* operands getopt has passed over
  request,  \* its modes and files, backend, the fields set by "-n", and args
  quiet,
  files,    \* files this process has created or truncated
  sent,     \* the message given to exec: its method, or "none"
  fate,     \* what came of the request, and the command's exit status
  answer,   \* what exec returned
  exit      \* exit status

vars == <<argv, pc, optind, passed, request, quiet, files, sent, fate, answer,
          exit>>

Mode == {"MSG", "IGN", "FILE"}
Answers == [ok : BOOLEAN, stat : {"NORMAL", "TIMEOUT", "ABNORMAL", "BADARGS"},
            retval : Retvals \cup {0}]
NoAnswer == [ok |-> FALSE, stat |-> "NORMAL", retval |-> 0]
Fates == [end : {"lost", "served", "rejected", "started", "exited", "killed"},
          status : Retvals \cup {0}]

Init ==
  /\ argv \in BoundedSeq(Words, MaxWords)
  /\ pc = "main" /\ optind = 1 /\ passed = <<>>
  /\ request = [outmode |-> "MSG", errmode |-> "MSG", outfile |-> "",
                errfile |-> "", backend |-> FALSE, fields |-> FALSE,
                args |-> <<>>]
  /\ quiet = FALSE /\ files = {} /\ exit = 0
  /\ sent = "none" /\ answer = NoAnswer
  /\ fate = [end |-> "lost", status |-> 0]

\* Mutant of Status: what main returns is taken for what the caller sees.
Status_raw(n) == n

\* The caller sees the low eight bits of what main returns.
Status(n) == n % 256

Exit(n) == pc' = "exited" /\ exit' = Status(n)

\* The usage text, after which every caller returns -1.
do_help == Exit(-1)

-----------------------------------------------------------------------------
(* list, stop, and lines nobody understands.                               *)

\* Too few words.
Usage ==
  /\ pc = "main"
  /\ argv = <<>> \/ argv = <<"stop">>
  /\ do_help
  /\ UNCHANGED <<argv, optind, passed, request, quiet, files, sent, fate,
                 answer>>

\* The messages of Srunc::list and Srunc::stop; the latter may name no pid.
list == sent' = "LIST" /\ pc' = "exec"
stop == sent' = "STOP" /\ pc' = "exec"

List ==
  /\ pc = "main"
  /\ Len(argv) > 0 /\ Head(argv) = "list"
  /\ list
  /\ UNCHANGED <<argv, optind, passed, request, quiet, files, fate, answer,
                 exit>>

\* Words that are no positive number are left out, which may be all of them.
Stop ==
  /\ pc = "main"
  /\ Len(argv) > 1 /\ Head(argv) = "stop"
  /\ stop
  /\ UNCHANGED <<argv, optind, passed, request, quiet, files, fate, answer,
                 exit>>

-----------------------------------------------------------------------------
(* The options.                                                            *)

Parse ==
  /\ pc = "main"
  /\ Len(argv) > 0 /\ Head(argv) \notin {"list", "stop"}
  /\ pc' = "getopt"
  /\ UNCHANGED <<argv, optind, passed, request, quiet, files, sent, fate,
                 answer, exit>>

\* getopt: operands are passed over, to be moved behind the options when they
\* end.  Where the next option is; one past the end if there is none.
NextOption ==
  Min({i \in optind .. Len(argv) : argv[i] \notin Operands}
        \cup {Len(argv) + 1})

PassedBefore(i) == passed \o SubSeq(argv, optind, i - 1)

\* The words main finds from optind on once getopt has returned -1: those
\* passed over, then those behind "--".
Permuted(i) == PassedBefore(i) \o SubSeq(argv, i + 1, Len(argv))

\* Mutant of Quiet: -q wins over a file named before it.
Quiet_wins(r) == [r EXCEPT !.outmode = "IGN", !.errmode = "IGN"]

\* case 'q': modes that are still the default become IGN.
Quiet(r) == [r EXCEPT !.outmode = IF @ = "MSG" THEN "IGN" ELSE @,
                      !.errmode = IF @ = "MSG" THEN "IGN" ELSE @]

\* The switch on what getopt returned.
Apply(w) ==
  CASE w = "-q"              -> Quiet(request)
    [] w = "-b"              -> [request EXCEPT !.backend = TRUE]
    [] w = "-n"              -> [request EXCEPT !.fields = TRUE]
    [] w \in DOMAIN OutFile  -> [request EXCEPT !.outmode = "FILE",
                                                !.outfile = OutFile[w]]
    [] w \in DOMAIN ErrFile  -> [request EXCEPT !.errmode = "FILE",
                                                !.errfile = ErrFile[w]]

Option ==
  /\ pc = "getopt"
  /\ NextOption <= Len(argv)
  /\ argv[NextOption] \notin {"-c", "-x", "--"}
  /\ request' = Apply(argv[NextOption])
  /\ quiet' = (quiet \/ argv[NextOption] = "-q")
  /\ passed' = PassedBefore(NextOption)
  /\ optind' = NextOption + 1
  /\ UNCHANGED <<argv, pc, files, sent, fate, answer, exit>>

BadOption ==
  /\ pc = "getopt"
  /\ NextOption <= Len(argv) /\ argv[NextOption] = "-x"
  /\ do_help
  /\ UNCHANGED <<argv, optind, passed, request, quiet, files, sent, fate,
                 answer>>

\* -c, or no more options: the command, or do_help when there is none.
\* Behind -c the words follow as they are, and what was passed over is lost.
Command ==
  LET i == NextOption
      args == IF i <= Len(argv) /\ argv[i] = "-c"
              THEN SubSeq(argv, i + 1, Len(argv)) ELSE Permuted(i)
  IN  /\ pc = "getopt"
      /\ i <= Len(argv) => argv[i] \in {"-c", "--"}
      /\ IF args = <<>> THEN do_help /\ UNCHANGED request
         ELSE /\ request' = [request EXCEPT !.args = args]
              /\ pc' = "out"
              /\ UNCHANGED exit
      /\ UNCHANGED <<argv, optind, passed, quiet, files, sent, fate, answer>>

-----------------------------------------------------------------------------
(* Srunc::run.                                                             *)

\* Mutant of create777: a file that cannot be created is left to the daemon.
create777_unchecked(file, next) ==
  /\ files' \in {files, files \cup {file}}
  /\ pc' = next

\* create777 throws when the name is empty or creat fails; run is noexcept.
create777(file, next) ==
  \/ files' = files \cup {file} /\ pc' = next
  \/ UNCHANGED files /\ pc' = "aborted"

CreateOut ==
  /\ pc = "out"
  /\ IF request.outmode = "FILE" THEN create777(request.outfile, "err")
     ELSE pc' = "err" /\ UNCHANGED files
  /\ UNCHANGED <<argv, optind, passed, request, quiet, sent, fate, answer,
                 exit>>

CreateErr ==
  /\ pc = "err"
  /\ IF request.errmode = "FILE" THEN create777(request.errfile, "exec")
     ELSE pc' = "exec" /\ UNCHANGED files
  /\ sent' = IF pc' = "exec" THEN "EXE" ELSE sent
  /\ UNCHANGED <<argv, optind, passed, request, quiet, fate, answer, exit>>

\* What may come of the message: no answer arrives, whatever happened, or the
\* manager serves LIST or STOP, or finds no such command, or has started it,
\* which is all a backend request waits for, or reaps it.
Outcomes ==
  IF sent # "EXE" THEN [end : {"lost", "served"}, status : {0}]
  ELSE IF request.backend
       THEN [end : {"lost", "rejected", "started"}, status : {0}]
  ELSE [end : {"lost", "rejected", "killed"}, status : {0}]
         \cup [end : {"exited"}, status : Retvals]

\* What the manager tells of it.  wait_child sets the state by how the command
\* ended, also when it ended of the time limit; that it ran out is told only if
\* it did so after waitpid, while something else kept the pipes open.
Stats(end) ==
  CASE end = "rejected" -> {"BADARGS"}
    [] end = "exited"   -> {"NORMAL", "TIMEOUT"}
    [] end = "killed"   -> {"ABNORMAL", "TIMEOUT"}
    [] OTHER            -> {"NORMAL"}

Told(f) ==
  IF f.end = "lost" THEN {NoAnswer}
  ELSE [ok : {TRUE}, stat : Stats(f.end), retval : {f.status}]

\* Srunc::exec.
exec ==
  /\ pc = "exec"
  /\ pc' = "answered"
  /\ fate' \in Outcomes
  /\ answer' \in Told(fate')
  /\ UNCHANGED <<argv, optind, passed, request, quiet, files, sent, exit>>

\* Mutant of Returned: a timeout is not told apart.
Returned_timeout ==
  IF ~answer.ok THEN -1
  ELSE IF sent = "EXE" THEN (IF answer.stat \in {"NORMAL", "TIMEOUT"}
                             THEN answer.retval ELSE -1)
  ELSE 0

\* The two switches on response.stat() differ in what they print only.
Returned ==
  IF ~answer.ok THEN -1
  ELSE IF sent = "EXE" THEN (IF answer.stat = "NORMAL"
                             THEN answer.retval ELSE -1)
  ELSE 0

Finish ==
  /\ pc = "answered"
  /\ Exit(Returned)
  /\ UNCHANGED <<argv, optind, passed, request, quiet, files, sent, fate,
                 answer>>

Next ==
  \/ Usage \/ List \/ Stop \/ Parse
  \/ Option \/ BadOption \/ Command
  \/ CreateOut \/ CreateErr \/ exec \/ Finish

Spec == Init /\ [][Next]_vars

-----------------------------------------------------------------------------
(* What the tool promises.                                                 *)

RequestShape ==
  request \in [outmode : Mode, errmode : Mode, outfile : {"", "f", "g"},
               errfile : {"", "f"}, backend : BOOLEAN, fields : BOOLEAN,
               args : Seq(Words)]

\* Every variable has its type; the exit status is what a caller can see.
TypeOK ==
  /\ argv \in Seq(Words)
  /\ pc \in {"main", "getopt", "out", "err", "exec", "answered", "exited",
             "aborted"}
  /\ optind \in 1 .. Len(argv) + 1
  /\ passed \in Seq(Operands)
  /\ RequestShape
  /\ quiet \in BOOLEAN
  /\ files \subseteq {"f", "g"}
  /\ sent \in {"none", "EXE", "LIST", "STOP"}
  /\ fate \in Fates
  /\ answer \in Answers
  /\ exit \in 0 .. 255

\* The words the user wrote as options: those before the first "-c" or "--".
Given == LET ends == {i \in DOMAIN argv : argv[i] \in {"-c", "--"}}
         IN  {argv[i] : i \in {j \in DOMAIN argv : \A e \in ends : j < e}}

\* What the request asks for when the words W are the options.
AsksFor(W) ==
  /\ request.outmode = IF W \cap DOMAIN OutFile # {} THEN "FILE"
                       ELSE IF "-q" \in W THEN "IGN" ELSE "MSG"
  /\ request.errmode = IF W \cap DOMAIN ErrFile # {} THEN "FILE"
                       ELSE IF "-q" \in W THEN "IGN" ELSE "MSG"
  /\ request.outmode = "FILE" => \E w \in W \cap DOMAIN OutFile :
                                   OutFile[w] = request.outfile
  /\ request.errmode = "FILE" => \E w \in W \cap DOMAIN ErrFile :
                                   ErrFile[w] = request.errfile
  /\ quiet <=> "-q" \in W
  /\ request.backend <=> "-b" \in W

\* The request that is sent asks for what the options say, in whatever order
\* they were written and whatever operands stand between them: a stream goes
\* to a file if one was named, otherwise it is ignored if -q was given and
\* comes back in the answer if not; and the command goes to the backend if -b
\* was given.  Options of the command have no say.
ModesByOptions == sent = "EXE" => AsksFor(Given)

\* The daemon is asked to write only to files that the user was able to create,
\* whatever the order and number of -o, -e and -q: when one of the two files
\* cannot be created, nothing is sent.
FilesBeforeSend ==
  sent = "EXE" =>
    /\ request.outmode = "FILE" => request.outfile \in files
    /\ request.errmode = "FILE" => request.errfile \in files

\* Exit status 0 means that LIST or STOP was served, or that the command exited
\* with status 0, or, if the user gave -b and only then, that it was started,
\* however it ends.  Help, an error, a lost answer, a command that was killed
\* and one that does not exist never look like that, whatever the options.
\* (A command that exits with 0 of the time limit's SIGTERM does.)
ZeroMeansDone ==
  pc = "exited" /\ exit = 0 =>
    \/ sent \in {"LIST", "STOP"} /\ fate.end = "served"
    \/ sent = "EXE" /\ "-b" \in Given /\ fate.end = "started"
    \/ /\ sent = "EXE" /\ "-b" \notin Given
       /\ fate.end = "exited" /\ fate.status = 0

\* The inductive strengthening of the three: the request asks for what the
\* words up to optind say, none of which ends the options; from then on for
\* what all of them say; the file for stdout is created before that for stderr;
\* and what main gets to see is what the manager tells of the request's fate.
Asked == {argv[i] : i \in 1 .. optind - 1}

SrunctlInv ==
  /\ argv \in Seq(Words)
  /\ optind \in 1 .. Len(argv) + 1
  /\ passed \in Seq(Operands)
  /\ RequestShape
  /\ pc \in {"main", "getopt"} =>
       /\ AsksFor(Asked)
       /\ \A i \in 1 .. optind - 1 : argv[i] \notin {"-c", "--"}
  /\ pc \in {"out", "err"} => AsksFor(Given)
  /\ pc \in {"main", "getopt", "out", "err"} => sent = "none"
  /\ pc \in {"exec", "answered"} => sent \in {"EXE", "LIST", "STOP"}
  /\ pc = "err" /\ request.outmode = "FILE" => request.outfile \in files
  /\ fate \in Fates /\ answer \in Answers
  /\ pc = "answered" => fate \in Outcomes /\ answer \in Told(fate)
  /\ ModesByOptions /\ FilesBeforeSend /\ ZeroMeansDone
=============================================================================
