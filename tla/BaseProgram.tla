----------------------------- MODULE BaseProgram ----------------------------
(***************************************************************************)
(* The program around the base station (src/base/test_base_main.cpp): the  *)
(* main thread, which runs the io_context and then joins, and the thread   *)
(* that reads commands and posts them to it.                               *)
(***************************************************************************)
EXTENDS Sequences, Integers

CONSTANT
  MaxLines      \* bound of the model: lines the operator types

VARIABLES
  line,                \* the line the input thread has read
  input,               \* where it is: "getline", "command", "again", "finished"
  shutdown_requested,  \* shutdown_requested
  queue,               \* handlers posted to the io_context
  run,                 \* io_context.run() has not returned
  exited,              \* main has joined the input thread and returned
  signalled,           \* SIGINT or SIGTERM was sent
  lines,               \* history: how many lines were typed
  entered,             \* history: commands accepted, in order
  executed             \* history: commands the base station carried out

vars == <<line, input, shutdown_requested, queue, run, exited, signalled,
          lines, entered, executed>>

Commands == {"low_power", "set_target"}
Lines == Commands \cup {"quit", "empty", "other"}
Handlers == Commands \cup {"signal", "stop_all", "stop"}

\* The type invariant.
TypeOK ==
  /\ line \in Lines
  /\ input \in {"getline", "command", "again", "finished"}
  /\ shutdown_requested \in BOOLEAN
  /\ queue \in Seq(Handlers)
  /\ run \in BOOLEAN
  /\ exited \in BOOLEAN
  /\ signalled \in BOOLEAN
  /\ lines \in 0 .. MaxLines
  /\ entered \in Seq(Commands)
  /\ executed \in Seq(Commands)
  /\ exited => ~run /\ input = "finished"

Init ==
  /\ line = "other"
  /\ input = "getline"
  /\ shutdown_requested = FALSE
  /\ queue = <<>>
  /\ run = TRUE
  /\ exited = FALSE
  /\ signalled = FALSE
  /\ lines = 0
  /\ entered = <<>>
  /\ executed = <<>>

-----------------------------------------------------------------------------
(* The operator and the system.                                            *)

\* A line is typed: getline returns, and shutdown_requested is looked at first.
TypeLine ==
  /\ input = "getline"
  /\ lines < MaxLines
  /\ lines' = lines + 1
  /\ line' \in Lines
  /\ input' = IF shutdown_requested THEN "finished" ELSE "command"
  /\ UNCHANGED <<shutdown_requested, queue, run, exited, signalled, entered, executed>>

\* The end of the standard input: getline fails.
EndOfInput ==
  /\ input = "getline"
  /\ input' = "finished"
  /\ UNCHANGED <<line, shutdown_requested, queue, run, exited, signalled, lines,
                 entered, executed>>

\* The signal_set queues its handler, once.
Signal ==
  /\ run
  /\ ~signalled
  /\ signalled' = TRUE
  /\ queue' = Append(queue, "signal")
  /\ UNCHANGED <<line, input, shutdown_requested, run, exited, lines, entered, executed>>

-----------------------------------------------------------------------------
(* The input thread: command_input_thread.                                 *)

\* Plausible slips: the io_context is stopped here and now; only the base
\* station is.
StopsAtOnce == queue' = queue /\ run' = FALSE

StopsBaseOnly == UNCHANGED <<queue, run>>

\* "post a task to safely stop base station and io_context".
StopsByTask == queue' = Append(queue, "stop_all") /\ UNCHANGED run

Quit ==
  /\ input = "command"
  /\ line = "quit"
  /\ shutdown_requested' = TRUE
  /\ StopsByTask
  /\ input' = "finished"
  /\ UNCHANGED <<line, exited, signalled, lines, entered, executed>>

\* "low_power" and "set_target" with good arguments: "post action to io_context
\* to run on main thread".
PostCommand ==
  /\ input = "command"
  /\ line \in Commands
  /\ queue' = Append(queue, line)
  /\ entered' = Append(entered, line)
  /\ input' = "again"
  /\ UNCHANGED <<line, shutdown_requested, run, exited, signalled, lines, executed>>

\* An empty line leads straight to the next getline.
SkipLine ==
  /\ input = "command"
  /\ line = "empty"
  /\ input' = "getline"
  /\ UNCHANGED <<line, shutdown_requested, queue, run, exited, signalled, lines,
                 entered, executed>>

\* Unknown commands and bad arguments.
RejectLine ==
  /\ input = "command"
  /\ line = "other"
  /\ input' = "again"
  /\ UNCHANGED <<line, shutdown_requested, queue, run, exited, signalled, lines,
                 entered, executed>>

\* shutdown_requested once more, and the next getline.
ReadAgain ==
  /\ input = "again"
  /\ input' = IF shutdown_requested THEN "finished" ELSE "getline"
  /\ UNCHANGED <<line, shutdown_requested, queue, run, exited, signalled, lines,
                 entered, executed>>

-----------------------------------------------------------------------------
(* The main thread.                                                        *)

\* The head of the io_context's queue.
RunHandler ==
  LET h == Head(queue) IN
  /\ run
  /\ queue # <<>>
  /\ queue' = IF h = "signal" THEN Append(Tail(queue), "stop") ELSE Tail(queue)
  /\ shutdown_requested' = (shutdown_requested \/ h = "signal")
  /\ run' = (h \notin {"stop", "stop_all"})
  /\ executed' = IF h \in Commands THEN Append(executed, h) ELSE executed
  /\ UNCHANGED <<line, input, exited, signalled, lines, entered>>

\* input_thread.join() returns.
Joins == input = "finished"

\* After io_context.run().
Exit ==
  /\ ~run
  /\ ~exited
  /\ Joins
  /\ exited' = TRUE
  /\ UNCHANGED <<line, input, shutdown_requested, queue, run, signalled, lines,
                 entered, executed>>

Next ==
  \/ TypeLine
  \/ EndOfInput
  \/ Signal
  \/ Quit
  \/ PostCommand
  \/ SkipLine
  \/ RejectLine
  \/ ReadAgain
  \/ RunHandler
  \/ Exit

Spec == Init /\ [][Next]_vars

\* Both threads run; nobody has to type.
Fairness ==
  /\ WF_vars(Quit \/ PostCommand \/ SkipLine \/ RejectLine \/ ReadAgain)
  /\ WF_vars(RunHandler)
  /\ WF_vars(Exit)

FairSpec == Spec /\ Fairness

-----------------------------------------------------------------------------
(* Properties.                                                             *)

\* Commands are carried out in the order they were typed in, and when the program
\* was ended with "quit" none that was accepted before is left out.
AcceptedIsExecuted ==
  /\ executed = SubSeq(entered, 1, Len(executed))
  /\ ~run /\ ~signalled => executed = entered

\* "quit" ends the program.
QuitEnds == (input = "command" /\ line = "quit") ~> exited

=============================================================================
