------------------------------ MODULE Launcher ------------------------------
(***************************************************************************)
(* scripts/start_pipeline.py: the processes of the pipeline started one by *)
(* one as daemons, watched, and stopped when one dies, the time is over or *)
(* the user presses Ctrl+C; and how each process ends on SIGTERM, which    *)
(* only sets a flag its loop reads, and on SIGINT, which raises.           *)
(***************************************************************************)
EXTENDS Naturals, Sequences

CONSTANT Pipeline     \* the processes, in the order they are started

ASSUME PipelineAssumption == Pipeline \in Seq(STRING) /\ Len(Pipeline) >= 3

Proc == {Pipeline[i] : i \in 1..Len(Pipeline)}

\* Who reads what a process pushes; the matching engine and the feed only publish.
Reader(p) == IF p = "RG" THEN "ME" ELSE "RG"
Pushes == Proc \ {"ME", "FH"}

VARIABLES
    phase,        \* where the launcher is
    next,         \* the process it starts or joins next
    proc,         \* [Proc -> state of the process]
    stop,         \* the processes whose stop event is set
    interrupted   \* history: was Ctrl+C pressed?

launcherVars == <<phase, next, proc, stop, interrupted>>

LauncherInit ==
    /\ phase = "starting" /\ next = 1
    /\ proc = [p \in Proc |-> "none"]
    /\ stop = {}
    /\ interrupted = FALSE

Alive(p) == proc[p] \notin {"none", "over"}
Ended == {"none", "over"}

-----------------------------------------------------------------------------
(* The launcher.                                                           *)

\* start_..., one by one; the sleeps between them let a process die already.
StartNext ==
    /\ phase = "starting"
    /\ proc' = [proc EXCEPT ![Pipeline[next]] = "up"]
    /\ IF next < Len(Pipeline) THEN next' = next + 1 /\ UNCHANGED phase
                               ELSE phase' = "sync" /\ UNCHANGED next
    /\ UNCHANGED <<stop, interrupted>>

\* Process.terminate of every process that lives: SIGTERM sets its stop event;
\* the feed handler has no handler and dies.
TerminateAll ==
    /\ stop' = stop \cup {p \in Proc : Alive(p)}
    /\ proc' = [p \in Proc |-> IF p = "FH" /\ Alive(p) THEN "over" ELSE proc[p]]

\* _wait_alive: all live at once, or, after the timeout, exit with status 1.
Sync ==
    /\ phase = "sync"
    /\ IF \A p \in Proc : Alive(p)
       THEN phase' = "running" /\ UNCHANGED <<stop, proc>>
       ELSE phase' = "exiting" /\ TerminateAll
    /\ UNCHANGED <<next, interrupted>>

\* The loop ends when a process is down or, with --duration, when time is over.
Monitor ==
    /\ phase = "running"
    /\ phase' = "stopping"
    /\ UNCHANGED <<next, proc, stop, interrupted>>

\* finally: terminate all, in reverse order, then join each.
StopAll ==
    /\ phase = "stopping"
    /\ phase' = "joining" /\ next' = Len(Pipeline)
    /\ TerminateAll
    /\ UNCHANGED interrupted

\* join(timeout=2.0) gives up on a process that does not end; "All nodes
\* stopped." is printed all the same.
Join ==
    /\ phase = "joining"
    /\ proc[Pipeline[next]] \in Ended \cup {"blocked", "hung"}
    /\ IF next > 1 THEN next' = next - 1 /\ UNCHANGED phase
                   ELSE phase' = "exiting" /\ UNCHANGED next
    /\ UNCHANGED <<proc, stop, interrupted>>

\* The exit function of multiprocessing terminates the daemons that live ...
ExitTerminates ==
    /\ phase = "exiting"
    /\ phase' = "exit join"
    /\ TerminateAll
    /\ UNCHANGED <<next, interrupted>>

\* ... and joins them without a timeout.
ExitJoins ==
    /\ phase = "exit join"
    /\ \A p \in Proc : ~Alive(p)
    /\ phase' = "over"
    /\ UNCHANGED <<next, proc, stop, interrupted>>

\* SIGTERM or SIGKILL ends the launcher alone: no finally, no exit function.
LauncherKilled ==
    /\ phase \notin {"over", "killed"}
    /\ phase' = "killed"
    /\ UNCHANGED <<next, proc, stop, interrupted>>

-----------------------------------------------------------------------------
(* The processes.                                                          *)

Becomes(p, state) ==
    /\ proc' = [proc EXCEPT ![p] = state]
    /\ UNCHANGED <<phase, next, stop, interrupted>>

\* A process ends by itself: it cannot bind, a handler raises, a replay is over.
Dies(p) == proc[p] = "up" /\ Becomes(p, "over")

\* A PUSH to a reader that does not read blocks at the high-water mark, and one
\* to a reader that is gone for good.
Blocks(p) == p \in Pushes /\ proc[p] = "up" /\ Becomes(p, "blocked")
Resumes(p) == proc[p] = "blocked" /\ proc[Reader(p)] = "up" /\ Becomes(p, "up")

\* The loop of the process sees its stop event and leaves for the finally
\* clause; a send that blocks goes on after the signal.
LeavesLoop(p) == proc[p] = "up" /\ p \in stop /\ Becomes(p, "closing")

\* The finally clause closes the sockets and terminates the context, 100 ms
\* of LINGER at most.
Closes(p) == proc[p] = "closing" /\ Becomes(p, "over")

\* The matching engine closes sockets on which two of its threads wait, which
\* ZeroMQ leaves undefined: it ends, aborts, or waits in ctx.term.
EngineHangs == proc["ME"] = "closing" /\ Becomes("ME", "hung")

InterruptedPhase ==
    CASE phase \in {"starting", "sync", "stopping", "joining", "exiting"} -> "exiting"
      [] phase = "running" -> "stopping"
      [] OTHER -> "over"

\* Ctrl+C: SIGINT goes to the whole group and raises KeyboardInterrupt in the
\* launcher and in every process, in a send or in ctx.term too.
InterruptMutant ==
    /\ phase \notin {"over", "killed"} /\ ~interrupted
    /\ interrupted' = TRUE
    /\ phase' = InterruptedPhase
    /\ stop' = stop \cup {p \in Proc : Alive(p)}
    /\ UNCHANGED <<next, proc>>

Interrupt ==
    /\ phase \notin {"over", "killed"} /\ ~interrupted
    /\ interrupted' = TRUE
    /\ phase' = InterruptedPhase
    /\ proc' = [p \in Proc |-> CASE proc[p] \in {"up", "blocked"} -> "closing"
                                 [] proc[p] \in {"closing", "hung"} -> "over"
                                 [] OTHER -> proc[p]]
    /\ UNCHANGED <<next, stop>>

LauncherStep == StartNext \/ Sync \/ StopAll \/ Join \/ ExitTerminates \/ ExitJoins
ProcessStep(p) == LeavesLoop(p) \/ Closes(p)

LauncherNext ==
    \/ LauncherStep \/ Monitor \/ LauncherKilled \/ Interrupt \/ EngineHangs
    \/ \E p \in Proc : ProcessStep(p) \/ Dies(p) \/ Blocks(p) \/ Resumes(p)

\* The scheduler runs the launcher and every process; nothing makes a reader
\* read, a process die or the user press Ctrl+C.
LauncherFairness ==
    /\ WF_launcherVars(LauncherStep)
    /\ \A p \in Proc : WF_launcherVars(ProcessStep(p))

LauncherSpec == LauncherInit /\ [][LauncherNext]_launcherVars /\ LauncherFairness

-----------------------------------------------------------------------------
LauncherTypeOK ==
    /\ phase \in {"starting", "sync", "running", "stopping", "joining", "exiting",
                  "exit join", "over", "killed"}
    /\ next \in 1..Len(Pipeline)
    /\ proc \in [Proc -> {"none", "up", "blocked", "closing", "hung", "over"}]
    /\ stop \subseteq Proc /\ interrupted \in BOOLEAN

\* After Ctrl+C the launcher and every process end, a process that waits in a
\* send included, which SIGTERM alone would not reach; only an engine that hangs
\* while it closes the sockets of its threads can keep the launcher.
CtrlCEnds ==
    interrupted ~> \/ phase \in {"over", "killed"} /\ \A p \in Proc : ~Alive(p)
                   \/ proc["ME"] = "hung"
=============================================================================
