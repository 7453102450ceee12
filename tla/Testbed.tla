------------------------------ MODULE Testbed ------------------------------
(***************************************************************************)
(* run_fabric.py: one script that creates a slice of nodes, sets them up   *)
(* in threads, runs the trials of the benchmark with a metrics file on the *)
(* engine's node, and deletes the slice; every remote command may fail.    *)
(* The script may find a slice that an earlier run left behind.            *)
(***************************************************************************)
EXTENDS Topology, Integers

CONSTANTS Strats,      \* the nodes strat-0, strat-1, ...
          Trials,      \* trials of the benchmark
          Leftovers    \* what an earlier run may have left on the nodes

ASSUME TestbedAssumption ==
    /\ Trials \in Nat \ {0}
    /\ {"feed-node", "engine-node"} \cap Strats = {}

Node == {"feed-node", "engine-node"} \cup Strats

\* What can be on a node or said of it: the data-plane address, the virtual
\* environment, the packages in it, the repository, and .env in the repository.
Item == {"dp", "venv", "deps", "repo", "env"}
Word == {"repo", "via scp"}

ASSUME LeftoversAssumption == Leftovers \subseteq [Node -> SUBSET Item]

NoNode == "none"
NoTrial == 0       \* trials are numbered from 1
Earlier == Trials + 1    \* an engine of no trial of this run
Torn == -1         \* the metrics file between open(.., "w") and the end of the write

VARIABLES
    stage,      \* the step of the script
    slice,      \* does the slice exist?
    known,      \* is slice_ assigned in the running script?
    skip,       \* SKIP_SETUP
    has,        \* [Node -> SUBSET Item]
    said,       \* [Node -> SUBSET Word], what the log or a traceback says is wrong
    job,        \* the step whose threads, or loop, go over the nodes
    todo,       \* the nodes they have not done
    failed,     \* failed_nodes
    donor,      \* ok_node[0]
    trial,      \* the trial that runs, or ran last
    launched,   \* is its engine launched?
    live,       \* the trial whose engine lives and holds the ports, or NoTrial
    writer,     \* its metrics thread: "waits", "open" or "dead"
    file,       \* /tmp/me_metrics.json: the trial that wrote it, NoTrial or Torn
    wrote,      \* history: did the engine of this trial end a write?
    record,     \* the trial whose metrics this trial recorded, or NoTrial
    excuse      \* why a slice may outlive the script

testbedVars == <<stage, slice, known, skip, has, said, job, todo, failed, donor,
                 trial, launched, live, writer, file, wrote, record, excuse>>
nodeVars == <<has, said, failed, donor>>
workVars == <<job, todo>>
trialVars == <<trial, launched, live, writer, file, wrote, record>>
runVars == <<slice, known, skip, excuse>>

\* No slice, or what an earlier run left: its engine may live, its file be there.
TestbedInit ==
    /\ stage = "start" /\ known = FALSE /\ skip = FALSE /\ excuse = {}
    /\ \/ /\ slice = FALSE /\ has = [n \in Node |-> {}]
          /\ live = NoTrial /\ writer = "dead" /\ file = NoTrial
       \/ /\ slice = TRUE /\ has \in Leftovers
          /\ \/ live = NoTrial /\ writer = "dead" /\ file = NoTrial
             \/ live = Earlier /\ writer = "waits" /\ file = Earlier
    /\ said = [n \in Node |-> {}]
    /\ job = "none" /\ todo = {} /\ failed = {} /\ donor = NoNode
    /\ trial = 0 /\ launched = FALSE
    /\ wrote = FALSE /\ record = NoTrial

-----------------------------------------------------------------------------
(* The environment written to every node, and what a node can run with it. *)

WrittenEnv ==
    [feed |-> "feed-node", matching_engine |-> "engine-node",
     risk_gateway |-> "engine-node", dashboard |-> "engine-node"]

\* The processes a node runs, by their sockets.
RunsOn(n) ==
    CASE n = "engine-node" -> {EngineSockets, GatewaySockets}
      [] n = "feed-node" -> {FeedSockets}
      [] OTHER -> {StrategySockets}

\* Every address a process of n connects to is one that a process binds where
\* the address leads.
Wired(n) ==
    \A p \in RunsOn(n) : \A e \in p.connects :
        \E q \in RunsOn(ConnectAddr("fabric", WrittenEnv, e).host) : \E f \in q.binds :
            BindAddr("fabric", WrittenEnv, f).port = ConnectAddr("fabric", WrittenEnv, e).port

Starts(n) == {"deps", "repo", "env"} \subseteq has[n]

\* An engine that lives holds addresses a new one wants.
PortsHeld ==
    /\ live # NoTrial
    /\ \E e, f \in EngineSockets.binds :
          Clash(BindAddr("fabric", WrittenEnv, e), BindAddr("fabric", WrittenEnv, f))

-----------------------------------------------------------------------------
(* Start and set-up.                                                       *)

\* The script looks for the slice, takes it and asks the engine's node alone
\* whether the set-up is complete, or creates it.
Begin ==
    /\ stage = "start"
    /\ \/ /\ stage' = "handler"             \* get_slices or get_slice raises
          /\ UNCHANGED <<slice, known, skip, job, todo>>
       \/ /\ slice
          /\ stage' = "dataplane" /\ known' = TRUE
          /\ skip' = ({"repo", "env"} \subseteq has["engine-node"])
          /\ job' = "dataplane" /\ todo' = Node
          /\ UNCHANGED slice
       \/ /\ ~slice
          /\ stage' \in {"dataplane", "handler"}   \* submit or wait_ssh may raise
          /\ slice' = TRUE /\ known' = TRUE
          /\ job' = "dataplane" /\ todo' = IF stage' = "dataplane" THEN Node ELSE {}
          /\ UNCHANGED skip
    /\ UNCHANGED <<excuse, nodeVars, trialVars>>

Says(n, word) == said' = [said EXCEPT ![n] = @ \cup {word}]
Has(n, items) == has' = [has EXCEPT ![n] = items]

\* config_dp_and_fw in the thread of n.  The node may be without an address: its
\* interface is not found, its thread raises, or the commands that set the
\* address fail, which is not looked at and logged as a success.
ConfigDp(n) ==
    /\ job = "dataplane" /\ n \in todo
    /\ todo' = todo \ {n}
    /\ \E items \in {{}, {"dp"}} : Has(n, has[n] \cup items)
    /\ UNCHANGED <<stage, job, said, failed, donor, runVars, trialVars>>

\* do_install in the thread of n: a broken environment is logged,
\* and do_clone will find it.
Install(n) ==
    /\ job = "install" /\ n \in todo
    /\ todo' = todo \ {n}
    /\ \E items \in {{}, {"venv"}} : Has(n, has[n] \cup items)
    /\ UNCHANGED <<stage, job, said, failed, donor, runVars, trialVars>>

CloneMutant(n) ==
    /\ job = "clone" /\ n \in todo
    /\ todo' = todo \ {n}
    /\ \/ /\ "venv" \in has[n]
          /\ Has(n, (has[n] \ {"env"}) \cup {"deps", "repo"})
          /\ donor' = IF donor = NoNode THEN n ELSE donor
          /\ UNCHANGED <<said, failed>>
       \/ /\ \E cloned \in {{}, {"repo"}} : Has(n, (has[n] \ {"env", "repo"}) \cup cloned)
          /\ UNCHANGED <<said, failed, donor>>
       \/ /\ \E wiped \in {{}, {"env", "repo"}} : Has(n, has[n] \ wiped)
          /\ Says(n, "repo")
          /\ UNCHANGED <<failed, donor>>
    /\ UNCHANGED <<stage, job, runVars, trialVars>>

\* do_clone in the thread of n, both attempts: rm -rf takes .env with the
\* repository; the node succeeds, fails, or its thread raises and it is in
\* neither failed_nodes nor ok_node.
Clone(n) ==
    /\ job = "clone" /\ n \in todo
    /\ todo' = todo \ {n}
    /\ \/ /\ "venv" \in has[n]
          /\ Has(n, (has[n] \ {"env"}) \cup {"deps", "repo"})
          /\ donor' = IF donor = NoNode THEN n ELSE donor
          /\ UNCHANGED <<said, failed>>
       \/ /\ \E cloned \in {{}, {"repo"}} : Has(n, (has[n] \ {"env", "repo"}) \cup cloned)
          /\ failed' = failed \cup {n}
          /\ UNCHANGED <<said, donor>>
       \/ /\ \E wiped \in {{}, {"env", "repo"}} : Has(n, has[n] \ wiped)
          /\ Says(n, "repo")
          /\ UNCHANGED <<failed, donor>>
    /\ UNCHANGED <<stage, job, runVars, trialVars>>

\* The fallback for a node that failed: unpack what the donor packed.  The
\* copy or the archive may be cut short, after venv311/ or before it, and
\* VERIFY asks for the packages alone.
CopyTo(n) ==
    /\ stage = "copy" /\ n \in todo
    /\ todo' = todo \ {n}
    /\ IF donor = NoNode THEN Says(n, "repo") /\ UNCHANGED has
       ELSE \E items \in {has[n], {}, {"venv", "deps"}, {"venv", "deps", "repo"}} :
              /\ (items # has[n] => "dp" \in has[n] \cap has[donor])
              /\ Has(n, items \cup (has[n] \cap {"dp"}))
              /\ Says(n, IF "deps" \in items THEN "via scp" ELSE "repo")
    /\ UNCHANGED <<stage, job, failed, donor, runVars, trialVars>>

\* The loop over the nodes that writes topology.yaml and .env; whether the
\* writes succeed is not looked at either.
WriteEnv(n) ==
    /\ stage = "env" /\ n \in todo
    /\ todo' = todo \ {n}
    /\ \E items \in {{}, {"env"}} : Has(n, (has[n] \ {"env"}) \cup items)
    /\ UNCHANGED <<stage, job, said, failed, donor, runVars, trialVars>>

\* The steps that go over the nodes, and the nodes they go over.
NodesOf == [dataplane |-> Node, install |-> Node, clone |-> Node, copy |-> failed, env |-> Node]

StepAfter ==
    [dataplane |-> "install", install |-> "clone", clone |-> "copy", copy |-> "env", env |-> "checks"]

\* The join of the threads, or the end of the loop, and the next step.  What the
\* threads of the clone found is for the copy alone.
StepDone ==
    /\ stage = job /\ todo = {}
    /\ stage' = IF stage = "dataplane" /\ skip THEN "checks" ELSE StepAfter[stage]
    /\ job' = IF stage' = "checks" THEN "none" ELSE stage'
    /\ todo' = IF stage' = "checks" THEN {} ELSE NodesOf[stage']
    /\ IF stage = "copy" THEN failed' = {} /\ donor' = NoNode ELSE UNCHANGED <<failed, donor>>
    /\ UNCHANGED <<has, said, runVars, trialVars>>

-----------------------------------------------------------------------------
(* Checks, trials and the fault test.                                      *)

\* kill_all: each node's failure is swallowed, so a process may outlive it.
KillAll == (live' = live /\ writer' = writer) \/ (live' = NoTrial /\ writer' = "dead")

\* An engine launched between two kill_all, outside the trials: it writes the
\* same metrics file, and may be cut in a write or outlive the second.
OtherEngine ==
    \/ KillAll /\ UNCHANGED file
    \/ /\ Starts("engine-node")
       /\ file' \in {file, Torn, Earlier}
       /\ \/ live' = NoTrial /\ writer' = "dead"
          \/ live' = Earlier /\ writer' = IF file' = Torn THEN "open" ELSE "waits"

\* Connectivity and the smoke test: what they find is logged, never acted on.
Checks ==
    /\ stage = "checks"
    /\ stage' = "trial"
    /\ OtherEngine
    /\ UNCHANGED <<workVars, trial, launched, wrote, record, nodeVars, runVars>>

\* A trial starts: launch_engine, whose engine dies at once when the node cannot
\* run it or an earlier engine still holds its addresses.
Launch ==
    /\ stage = "trial" /\ ~launched
    /\ launched' = TRUE
    /\ trial' = trial + 1 /\ wrote' = FALSE /\ record' = NoTrial
    /\ \E killed \in BOOLEAN :
          IF ~Starts("engine-node") THEN KillAll
          ELSE IF killed \/ ~PortsHeld THEN
               live' \in {trial', NoTrial} /\ writer' = (IF live' = NoTrial THEN "dead" ELSE "waits")
          ELSE UNCHANGED <<live, writer>>
    /\ UNCHANGED <<stage, workVars, file, nodeVars, runVars>>

CollectMutant ==
    /\ stage = "trial" /\ launched
    /\ record' = IF file = Torn THEN NoTrial ELSE file
    /\ launched' = FALSE
    /\ KillAll
    /\ stage' = IF trial = Trials THEN "fault" ELSE "trial"
    /\ UNCHANGED <<workVars, trial, file, wrote, nodeVars, runVars>>

\* The trial's wait is over: cat the metrics file, note what is in it, kill.
\* BENCH_DUR + WARMUP + 10 seconds are enough for the first write of an engine
\* that lives.
Collect ==
    /\ stage = "trial" /\ launched
    /\ ~(live = trial /\ writer # "dead" /\ ~wrote)
    /\ record' = IF file = Torn THEN NoTrial ELSE file
    /\ launched' = FALSE
    /\ KillAll
    /\ stage' = IF trial = Trials THEN "fault" ELSE "trial"
    /\ UNCHANGED <<workVars, trial, file, wrote, nodeVars, runVars>>

\* The fault test and the download: a verdict on the nodes goes to a file, and
\* the next step is taken whatever it is.
FaultTest ==
    /\ stage = "fault"
    /\ stage' = "delete"
    /\ OtherEngine
    /\ UNCHANGED <<workVars, trial, launched, wrote, record, nodeVars, runVars>>

-----------------------------------------------------------------------------
(* The engine's metrics thread (_metrics_writer).                          *)

OpenFile ==
    /\ live # NoTrial /\ writer = "waits"
    /\ writer' = "open" /\ file' = Torn
    /\ UNCHANGED <<stage, workVars, trial, launched, live, wrote, record, nodeVars, runVars>>

\* A write that fails is swallowed.
WriteFile ==
    /\ writer = "open"
    /\ writer' = "waits"
    /\ \/ file' = live /\ wrote' = (wrote \/ live = trial)
       \/ UNCHANGED <<file, wrote>>
    /\ UNCHANGED <<stage, workVars, trial, launched, live, record, nodeVars, runVars>>

\* The sort runs over a deque the match loop appends to: a change of the deque
\* meanwhile raises, outside the try, and ends the thread.
WriterDies ==
    /\ live # NoTrial /\ writer = "waits"
    /\ writer' = "dead"
    /\ UNCHANGED <<stage, workVars, trial, launched, live, file, wrote, record, nodeVars, runVars>>

\* The engine's time is over, or it crashed; a daemon thread is cut where it is.
EngineEnds ==
    /\ live # NoTrial
    /\ live' = NoTrial /\ writer' = "dead"
    /\ UNCHANGED <<stage, workVars, trial, launched, file, wrote, record, nodeVars, runVars>>

-----------------------------------------------------------------------------
(* The end, in order or not.                                               *)

\* The slice is deleted, and all that was on its nodes.
Gone ==
    /\ slice' = FALSE /\ has' = [n \in Node |-> {}]
    /\ live' = NoTrial /\ writer' = "dead" /\ file' = NoTrial

\* Step 11: delete the slice.
Delete ==
    /\ stage = "delete"
    /\ stage' = "over"
    /\ Gone
    /\ UNCHANGED <<workVars, known, skip, excuse, trial, launched, wrote, record, said, failed, donor>>

\* A remote command of the main thread raises, or the user interrupts: the
\* threads it started go on.
Raises ==
    /\ stage \notin {"start", "over", "handler"}
    /\ stage' = "handler"
    /\ todo' = IF job \in {"copy", "env"} THEN {} ELSE todo
    /\ UNCHANGED <<job, nodeVars, runVars, trialVars>>

CleanupMutant ==
    /\ stage = "handler"
    /\ stage' = "over"
    /\ \/ known /\ todo' = {} /\ UNCHANGED <<excuse, slice, has, live, writer, file>>
       \/ /\ excuse' = excuse \cup {IF known THEN "cleanup" ELSE "unknown"}
          /\ UNCHANGED <<todo, slice, has, live, writer, file>>
    /\ UNCHANGED <<job, known, skip, trial, launched, wrote, record, said, failed, donor>>

\* The two except clauses: with slice_ assigned, kill and delete; what raises
\* there is logged, and sys.exit waits for the threads.
Cleanup ==
    /\ stage = "handler"
    /\ stage' = "over"
    /\ \/ known /\ Gone /\ todo' = {} /\ UNCHANGED excuse
       \/ /\ excuse' = excuse \cup {IF known THEN "cleanup" ELSE "unknown"}
          /\ UNCHANGED <<todo, slice, has, live, writer, file>>
    /\ UNCHANGED <<job, known, skip, trial, launched, wrote, record, said, failed, donor>>

\* A second interrupt leaves the handler, or the script is killed: nothing runs
\* after it.
Killed ==
    /\ stage \notin {"start", "over"}
    /\ stage' = "over" /\ todo' = {}
    /\ excuse' = excuse \cup {"killed"}
    /\ UNCHANGED <<job, slice, known, skip, nodeVars, trialVars>>

TestbedNext ==
    \/ Begin \/ StepDone \/ Checks \/ Launch \/ Collect \/ FaultTest
    \/ \E n \in Node : ConfigDp(n) \/ Install(n) \/ Clone(n) \/ CopyTo(n) \/ WriteEnv(n)
    \/ OpenFile \/ WriteFile \/ WriterDies \/ EngineEnds
    \/ Delete \/ Raises \/ Cleanup \/ Killed

TestbedSpec == TestbedInit /\ [][TestbedNext]_testbedVars

-----------------------------------------------------------------------------
TestbedTypeOK ==
    /\ stage \in DOMAIN NodesOf \cup {"start", "checks", "trial", "fault", "delete", "handler", "over"}
    /\ {slice, known, skip, launched} \subseteq BOOLEAN
    /\ has \in [Node -> SUBSET Item] /\ said \in [Node -> SUBSET Word]
    /\ job \in DOMAIN NodesOf \cup {"none"} /\ todo \subseteq Node
    /\ failed \subseteq Node /\ donor \in Node \cup {NoNode}
    /\ trial \in Nat /\ live \in Nat /\ writer \in {"waits", "open", "dead"}
    /\ file \in Nat \cup {Torn} /\ wrote \in BOOLEAN
    /\ record \in Nat
    /\ excuse \subseteq {"cleanup", "unknown", "killed"}

\* The metrics a trial records come from its own engine, or there are none: the
\* file is never deleted between trials, and only an engine that never ended a
\* write of its own (it could not bind, it crashed, its metrics thread died
\* early) leaves the numbers of an earlier trial to be recorded as its own.
OwnMetrics == ~launched /\ wrote => record \in {trial, NoTrial}

\* When the trials start after a set-up, no node lacks the packages or the
\* repository in silence, whatever failed in the threads and in the fallback:
\* the log or a traceback says so.  The exception is a node set up from the
\* archive of another, where the packages alone are verified.  The environment
\* that is written leads every connection to a socket that is bound.  That the
\* data-plane address and .env are there is not verified by the script, and not
\* claimed (run_fabric.py:234-241, 305-350, 396-404).
MissingCodeIsKnown ==
    stage = "trial" /\ ~skip => \A n \in Node :
        /\ "deps" \in has[n] \/ "repo" \in said[n]
        /\ "repo" \in has[n] \/ said[n] \cap {"repo", "via scp"} # {}
        /\ "env" \in has[n] => Wired(n)

\* A slice is paid for until it is deleted: when the script is over, on any
\* path, the slice is gone unless the script never got hold of it, the deletion
\* itself failed, or the script was killed.
NoSliceLeftBehind == stage = "over" /\ slice => excuse # {}
=============================================================================
