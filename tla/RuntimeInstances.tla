---------------------------- MODULE RuntimeInstances ----------------------------
(***************************************************************************)
(* The processes behind scripts/run_ros.sh and clean_runtime.sh.  A        *)
(* supervisor (run_ros.sh) holds the lock of the ROS role, starts          *)
(* ros2 launch in a session of its own and, asked to stop, shuts the stack *)
(* down in order and then stops the launch group, with stronger signals as *)
(* it waits or is asked again.  A signal that arrives is pending until     *)
(* bash runs its trap.  Supervisors and their launch groups are numbered;  *)
(* TERM stands for HUP as well.                                            *)
(***************************************************************************)
EXTENDS Integers, FiniteSets

CONSTANTS
  MaxRuns,    \* bound: supervisors
  MaxKills    \* bound: supervisors that are killed

Runs == 1..MaxRuns

VARIABLES
  run,         \* the last supervisor
  at,          \* where it is, "off" when there is none
  asked,       \* shutdown_signal is set
  forced,      \* force_requested
  handler,     \* what the traps do: "default", "ordered", "force", "hard", "ignore"
  pending,     \* signals whose trap has not run
  leader,      \* runs whose ros2 launch is alive
  rest,        \* runs of whose launch group another process is alive
  recorded,    \* the run in ros.pid, 0 without the file
  cleaner,     \* clean_runtime.sh: "off", "int" or "term", the signal it has sent
  cleaned,     \* the run it stops
  killed       \* history: runs whose supervisor was killed

supervisorVars == <<run, at, asked, forced, handler, pending>>
groupVars == <<leader, rest>>
cleaning == <<cleaner, cleaned>>
instanceVars == <<supervisorVars, groupVars, recorded, cleaning, killed>>

Signals == {"INT", "TERM"}
GroupRuns(r) == r \in leader \cup rest               \* launch_group_is_running

Init ==
  /\ run = 0 /\ at = "off" /\ asked = FALSE /\ forced = FALSE
  /\ handler = "default" /\ pending = {}
  /\ leader = {} /\ rest = {}
  /\ recorded = 0 /\ cleaner = "off" /\ cleaned = 0 /\ killed = {}

-------------------------------------------------------------------------------
(* Starting *)

Start ==
  /\ at = "off" /\ run < MaxRuns
  /\ run' = run + 1 /\ at' = "start"
  /\ asked' = FALSE /\ forced' = FALSE /\ handler' = "default" /\ pending' = {}
  /\ UNCHANGED <<groupVars, recorded, cleaning, killed>>

Goto(place) == at' = place /\ UNCHANGED <<run, asked, forced, handler, pending>>

\* runtime_lock_is_held teleop, for navigation and localization: asked once,
\* before the own lock is taken.
CheckTeleop ==
  /\ at = "start" /\ \E teleop \in BOOLEAN : Goto(IF teleop THEN "off" ELSE "checked")
  /\ UNCHANGED <<groupVars, recorded, cleaning, killed>>

\* acquire_instance_lock, with its metadata, up to the traps.  No other
\* supervisor holds the lock: launch children do not inherit it.
Acquire ==
  /\ at = "checked" /\ at' = "traps" /\ handler' = "ordered" /\ recorded' = run
  /\ UNCHANGED <<run, asked, forced, pending, groupVars, cleaning, killed>>

Launch ==
  /\ at = "traps" /\ Goto("wait")
  /\ leader' = leader \cup {run} /\ rest' = rest \cup {run}
  /\ UNCHANGED <<recorded, cleaning, killed>>

-------------------------------------------------------------------------------
(* Stopping *)

\* signal_launch_group.  INT and TERM may be ignored.
SignalGroup(name) ==
  IF name = "KILL" THEN leader' = leader \ {run} /\ rest' = rest \ {run}
  ELSE UNCHANGED groupVars

\* force_stop and hard_stop
ForceStop ==
  /\ asked' = TRUE /\ forced' = TRUE
  /\ handler' = (IF forced THEN "ignore" ELSE "hard")
  /\ SignalGroup(IF forced THEN "KILL" ELSE "TERM")
HardStop ==
  /\ handler' = "ignore" /\ SignalGroup("KILL") /\ UNCHANGED <<asked, forced>>

\* Where a pending trap runs: everywhere but behind the ordered shutdown, a
\* command in the foreground.
Interruptible == at \in {"traps", "wait", "rviz", "check", "int", "term", "kill", "reap"}

\* A trap.  Before launch_pid is set it does nothing; the first stop request
\* begins ordered_stop; others in its course are force_stop, then hard_stop.
Trap ==
  /\ pending # {} /\ Interruptible
  /\ \/ at = "traps" /\ UNCHANGED <<at, asked, forced, handler, groupVars>>
     \/ /\ at # "traps" /\ handler = "ordered" /\ ~asked
        /\ asked' = TRUE /\ at' = "rviz" /\ UNCHANGED <<forced, handler, groupVars>>
     \/ /\ at # "traps" /\ (handler = "force" \/ (handler = "ordered" /\ asked))
        /\ ForceStop /\ UNCHANGED at
     \/ at # "traps" /\ handler = "hard" /\ HardStop /\ UNCHANGED at
  /\ \E s \in pending : pending' = IF handler' = "ignore" THEN {} ELSE pending \ {s}
  /\ UNCHANGED <<run, recorded, cleaning, killed>>

\* The end of stop_managed_rviz: RViz has ended, or 3 s are over.
RvizStopped ==
  /\ at = "rviz" /\ at' = "lifecycle" /\ handler' = "force"
  /\ UNCHANGED <<run, asked, forced, pending, groupVars, recorded, cleaning, killed>>

\* The ordered shutdown is over, however; the launch group is interrupted.
LifecycleEnds ==
  /\ at = "lifecycle" /\ Goto("check")
  /\ SignalGroup("INT")
  /\ UNCHANGED <<recorded, cleaning, killed>>

\* The first wait returns: the launch leader has ended.
LeaderReturns ==
  /\ at = "wait" /\ run \notin leader /\ Goto("check")
  /\ UNCHANGED <<groupVars, recorded, cleaning, killed>>

\* Mutant of CheckGroup: the supervisor has seen its launch leader end.
CheckLeader ==
  /\ at = "check" /\ Goto("reap")
  /\ UNCHANGED <<groupVars, recorded, cleaning, killed>>

CheckGroup ==
  /\ at = "check"
  /\ at' = IF GroupRuns(run) THEN "int" ELSE "reap"
  /\ asked' = (asked \/ GroupRuns(run))
  /\ IF ~asked /\ GroupRuns(run) THEN SignalGroup("INT") ELSE UNCHANGED groupVars
  /\ UNCHANGED <<run, forced, handler, pending, recorded, cleaning, killed>>

\* Mutant of WaitForGroup: no stronger signals.
WaitPatiently ==
  /\ at \in {"int", "term", "kill"}
  /\ ~GroupRuns(run) /\ Goto("reap")
  /\ UNCHANGED <<groupVars, recorded, cleaning, killed>>

\* wait_for_launch_group_exit after INT, after TERM and after KILL.
WaitForGroup ==
  /\ at \in {"int", "term", "kill"}
  /\ \/ ~GroupRuns(run) /\ Goto("reap") /\ UNCHANGED groupVars
     \/ GroupRuns(run) /\ at = "int" /\ Goto("term") /\ SignalGroup("TERM")
     \/ GroupRuns(run) /\ at = "term" /\ Goto("kill") /\ SignalGroup("KILL")
  /\ UNCHANGED <<recorded, cleaning, killed>>

\* The leader is reaped; ros.pid stays.
Exit ==
  /\ at = "reap" /\ at' = "off" /\ handler' = "default" /\ pending' = {}
  /\ UNCHANGED <<run, asked, forced, groupVars, recorded, cleaning, killed>>

-------------------------------------------------------------------------------
(* The other processes *)

\* A signal reaches the supervisor; without traps it ends it.
Deliver(s) ==
  IF handler = "default"
    THEN at' = "off" /\ UNCHANGED <<run, asked, forced, handler, pending>>
    ELSE /\ pending' = (IF handler = "ignore" THEN pending ELSE pending \cup {s})
         /\ UNCHANGED <<run, at, asked, forced, handler>>

\* Ctrl+C, or a signal of another process.
StopRequested ==
  /\ at # "off"
  /\ \E s \in Signals : Deliver(s)
  /\ UNCHANGED <<groupVars, recorded, cleaning, killed>>

\* The supervisor is killed; its lock goes with it, its launch group does not.
Killed ==
  /\ at # "off" /\ Cardinality(killed) < MaxKills
  /\ at' = "off" /\ killed' = killed \cup {run} /\ pending' = {}
  /\ UNCHANGED <<run, asked, forced, handler, groupVars, recorded, cleaning>>

\* Processes of a launch group end, asked or not (external).
LeaderEnds ==
  /\ \E r \in leader : leader' = leader \ {r}
  /\ UNCHANGED <<supervisorVars, rest, recorded, cleaning, killed>>
RestEnds ==
  /\ \E r \in rest : rest' = rest \ {r}
  /\ UNCHANGED <<supervisorVars, leader, recorded, cleaning, killed>>

\* stop_registered_component ros.  The process group of the metadata is that
\* of the supervisor, which the launch group is not in.
CleanBegins ==
  /\ cleaner = "off" /\ recorded # 0
  /\ IF at # "off" /\ run = recorded
       THEN cleaner' = "int" /\ cleaned' = run /\ Deliver("INT") /\ UNCHANGED recorded
       ELSE recorded' = 0 /\ UNCHANGED <<supervisorVars, cleaning>>
  /\ UNCHANGED <<groupVars, killed>>

\* After 10 s a supervisor that runs is sent TERM, after 5 s more it is given up.
CleanWaits ==
  /\ cleaner # "off" /\ at # "off" /\ run = cleaned
  /\ \/ cleaner = "int" /\ cleaner' = "term" /\ Deliver("TERM") /\ UNCHANGED cleaned
     \/ cleaner = "term" /\ cleaner' = "off" /\ cleaned' = 0 /\ UNCHANGED supervisorVars
  /\ UNCHANGED <<groupVars, recorded, killed>>

\* The file is removed, whoever has written it by then.
CleanEnds ==
  /\ cleaner # "off" /\ (at = "off" \/ run # cleaned)
  /\ cleaner' = "off" /\ cleaned' = 0 /\ recorded' = 0
  /\ UNCHANGED <<supervisorVars, groupVars, killed>>

Supervisor ==
  \/ Trap \/ RvizStopped \/ LifecycleEnds \/ LeaderReturns \/ CheckGroup \/ WaitForGroup \/ Exit

Next ==
  \/ Start \/ CheckTeleop \/ Acquire \/ Launch \/ Supervisor
  \/ StopRequested \/ Killed \/ LeaderEnds \/ RestEnds
  \/ CleanBegins \/ CleanWaits \/ CleanEnds

\* The commands of the supervisor end: RViz is waited for 3 s, the ordered
\* shutdown has a timeout and so has every wait for the group.
Spec == Init /\ [][Next]_instanceVars /\ WF_instanceVars(Supervisor)

-------------------------------------------------------------------------------
(* Properties *)

\* A supervisor that was not killed leaves nothing of its launch group behind,
\* so two ROS stacks never run at once, whoever stopped the first and however
\* impatiently.
OneStack == \A a, b \in Runs : a < b /\ GroupRuns(a) /\ GroupRuns(b) => a \in killed

\* A supervisor that was asked to stop ends, though the group ignores INT and
\* TERM and more requests arrive while it waits.
StopIsServed == asked /\ at # "off" ~> at = "off"
===============================================================================
