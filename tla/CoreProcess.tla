---------------------------- MODULE CoreProcess ----------------------------
(***************************************************************************)
(* One core of a node as an operating system process: the manager of the   *)
(* Agent (pp-core manager, sing-box and mihomo alike), the pid file it     *)
(* keeps beside the configuration, and the processes themselves, which may *)
(* outlive the Agent where the system cannot bind them to it (macOS, or a  *)
(* Windows job that could not be joined).                                  *)
(*                                                                         *)
(* The messages of the Hub are handled one after another, so start, stop   *)
(* and restart (a stop, then a start) never overlap; only is_running, of   *)
(* the status task, comes between them.                                    *)
(***************************************************************************)
EXTENDS FiniteSets, Naturals

CONSTANTS Pid,          \* process numbers, used again once they are free
          NoPid,        \* no process
          MaxTroubles   \* bound: Agents that end, writes and kills that fail

ASSUME CoreProcessAssumption == NoPid \notin Pid /\ MaxTroubles \in Nat

VARIABLES bound,      \* the system ends the core with the Agent (is_bound)
          managed,    \* an Agent, with a manager, runs
          restoring,  \* it has a snapshot to start the core from, first of all
          proc,       \* pid -> what it is
          starting,   \* the child of a start in its first 500 ms
          process,    \* the manager's `process`
          pidFile,    \* <config_dir>/<core>.pid
          troubles,   \* counter of MaxTroubles
          missed,     \* history: cores that the pid file could not name
          dropped     \* history: cores that a stop took out of the pid file

coreVars == <<bound, managed, restoring, proc, starting, process, pidFile,
              troubles, missed, dropped>>

\* "core" runs the file that is at the binary's path, "aside" one that an
\* upgrade has moved away (ensure_core_build); a "zombie" has ended, and its
\* Agent has not looked; a "stranger" is any other program.
Kind == {"free", "core", "aside", "zombie", "stranger"}
Alive(p) == proc[p] \in {"core", "aside"}

CoreInit ==
  /\ bound \in BOOLEAN /\ managed = TRUE /\ restoring = FALSE
  /\ proc = [p \in Pid |-> "free"]
  /\ starting = NoPid /\ process = NoPid /\ pidFile = NoPid
  /\ troubles = 0 /\ missed = {} /\ dropped = {}

Trouble == troubles < MaxTroubles /\ troubles' = troubles + 1

\* Variant: the process is not identified before it is killed.
MatchesAny == IF pidFile # NoPid /\ proc[pidFile] # "free" THEN {pidFile} ELSE {}

\* The pid of the pid file, if it is of a process that runs this binary.
Matches == IF pidFile # NoPid /\ proc[pidFile] = "core" THEN {pidFile} ELSE {}

\* A core the pid file names and reap_stale does not kill.
Spared == IF pidFile # NoPid /\ Alive(pidFile) THEN {pidFile} ELSE {}

\* start: reap_stale, then the child.  The kill may fail, and so may the spawn.
StartCore(p) ==
  /\ managed /\ starting = NoPid /\ process = NoPid
  /\ proc[p] = "free" \/ p \in Matches
  /\ pidFile' = NoPid
  /\ \/ /\ proc' = [q \in Pid |-> IF q = p THEN "core"
                                 ELSE IF q \in Matches THEN "free" ELSE proc[q]]
        /\ missed' = (missed \ (Matches \cup {p})) \cup (Spared \ Matches)
        /\ UNCHANGED troubles
     \/ /\ Trouble /\ p \notin Matches
        /\ proc' = [proc EXCEPT ![p] = "core"]
        /\ missed' = (missed \ {p}) \cup Spared
  /\ starting' = p /\ dropped' = dropped \ (Matches \cup {p})
  /\ restoring' = FALSE /\ UNCHANGED <<bound, managed, process>>

\* No child: the binary is not there or the configuration cannot be written,
\* or, after the same reaping, the binary cannot be executed.
StartRefused ==
  /\ managed /\ starting = NoPid /\ process = NoPid /\ Trouble
  /\ \/ UNCHANGED <<proc, pidFile, missed, dropped>>
     \/ /\ pidFile' = NoPid
        /\ proc' = [q \in Pid |-> IF q \in Matches THEN "free" ELSE proc[q]]
        /\ missed' = (missed \ Matches) \cup (Spared \ Matches)
        /\ dropped' = dropped \ Matches
  /\ restoring' = FALSE /\ UNCHANGED <<bound, managed, starting, process>>

\* try_wait after 500 ms: the child has ended.
StartEnded ==
  /\ starting # NoPid /\ proc[starting] = "zombie"
  /\ proc' = [proc EXCEPT ![starting] = "free"] /\ starting' = NoPid
  /\ UNCHANGED <<bound, managed, restoring, process, pidFile, troubles, missed, dropped>>

\* Variant: the pid file is not written.
StartUnnamed ==
  /\ starting # NoPid /\ Alive(starting)
  /\ process' = starting /\ starting' = NoPid
  /\ UNCHANGED <<bound, managed, restoring, proc, pidFile, troubles, missed, dropped>>

\* It runs: the pid file is written.  The write may fail, with a warning, and
\* try_wait may, in which case the child is let go of.
StartDone ==
  /\ starting # NoPid /\ Alive(starting) /\ starting' = NoPid
  /\ \/ process' = starting /\ pidFile' = starting /\ UNCHANGED <<troubles, missed>>
     \/ /\ Trouble /\ missed' = missed \cup {starting} /\ UNCHANGED pidFile
        /\ process' \in {starting, process}
  /\ UNCHANGED <<bound, managed, restoring, proc, dropped>>

\* stop, and the first half of restart: kill and wait.  The pid file goes,
\* whether or not it was of this child.
StopCore ==
  /\ managed /\ ~restoring /\ starting = NoPid
  /\ proc' = [p \in Pid |-> IF p = process THEN "free" ELSE proc[p]]
  /\ process' = NoPid /\ pidFile' = NoPid
  /\ dropped' = (dropped \ {process}) \cup (Spared \ {process})
  /\ missed' = missed \ {process}
  /\ UNCHANGED <<bound, managed, restoring, starting, troubles>>

\* is_running: a child that has ended is let go of, and so is one of which
\* try_wait cannot tell.
SeeEnded ==
  /\ managed /\ starting = NoPid /\ process # NoPid
  /\ \/ /\ proc[process] = "zombie" /\ proc' = [proc EXCEPT ![process] = "free"]
        /\ UNCHANGED <<troubles, missed>>
     \/ /\ Alive(process) /\ Trouble
        /\ missed' = missed \cup {process} /\ UNCHANGED proc
  /\ process' = NoPid /\ pidFile' = NoPid
  /\ UNCHANGED <<bound, managed, restoring, starting, dropped>>

\* ensure_core_build: the file at the binary's path is another one from now on.
MoveAside ==
  /\ managed /\ ~restoring /\ starting = NoPid
  /\ proc' = [p \in Pid |-> IF proc[p] = "core" THEN "aside" ELSE proc[p]]
  /\ UNCHANGED <<bound, managed, restoring, starting, process, pidFile, troubles, missed, dropped>>

\* A core ends by itself; the Agent must reap its own children.
CoreEnds(p) ==
  /\ Alive(p)
  /\ proc' = [proc EXCEPT ![p] = IF p \in {starting, process} THEN "zombie" ELSE "free"]
  /\ missed' = missed \ {p} /\ dropped' = dropped \ {p}
  /\ UNCHANGED <<bound, managed, restoring, starting, process, pidFile, troubles>>

\* Another program is given a free number, or ends.
StrangerRuns(p) ==
  /\ proc[p] \in {"free", "stranger"}
  /\ proc' = [proc EXCEPT ![p] = IF @ = "free" THEN "stranger" ELSE "free"]
  /\ UNCHANGED <<bound, managed, restoring, starting, process, pidFile, troubles, missed, dropped>>

\* The Agent ends, whatever the reason; nothing in it stops its cores.
AgentEnds ==
  /\ managed /\ managed' = FALSE /\ restoring' = FALSE /\ Trouble
  /\ proc' = [p \in Pid |->
       CASE p \notin {starting, process} -> proc[p]
         [] p \in {starting, process} /\ (bound \/ ~Alive(p)) -> "free"
         [] OTHER -> proc[p]]
  /\ missed' = IF starting # NoPid /\ proc'[starting] # "free"
               THEN missed \cup {starting} ELSE missed \cap {p \in Pid : proc'[p] # "free"}
  /\ starting' = NoPid /\ process' = NoPid
  /\ UNCHANGED <<bound, pidFile, dropped>>

\* Its successor, which first starts the core from its snapshot if there is
\* one: what the panel's command has started leaves none.
AgentStarts ==
  /\ ~managed /\ managed' = TRUE /\ restoring' \in BOOLEAN
  /\ UNCHANGED <<bound, proc, starting, process, pidFile, troubles, missed, dropped>>

CoreNext ==
  \/ StartRefused \/ StartEnded \/ StartDone \/ StopCore \/ SeeEnded \/ MoveAside \/ AgentEnds \/ AgentStarts
  \/ \E p \in Pid : StartCore(p) \/ CoreEnds(p) \/ StrangerRuns(p)

CoreSpec == CoreInit /\ [][CoreNext]_coreVars
-----------------------------------------------------------------------------
CoreTypeOK ==
  /\ {bound, managed, restoring} \subseteq BOOLEAN
  /\ proc \in [Pid -> Kind]
  /\ {starting, process, pidFile} \subseteq Pid \cup {NoPid}
  /\ troubles \in 0..MaxTroubles /\ missed \subseteq Pid /\ dropped \subseteq Pid

\* Cores that no Agent holds.
Orphans == {p \in Pid : Alive(p) /\ p \notin {starting, process}}

\* A core that no Agent holds can be found: the pid file names it, so the next
\* start kills it.  The exceptions: its Agent ended in its first 500 ms, its
\* name could not be written, try_wait failed, it could not be killed or its
\* binary had been moved aside when a start looked, or a stop removed the pid
\* file first: a restart is a stop, then a start that finds no pid file.
OrphanIsNamed == Orphans \subseteq {pidFile} \cup missed \cup dropped

\* Nothing but a core is ended by the Agent, whoever has got its number since
\* the pid file was written (exe_matches).
StrangersSafe ==
  [][\A p \in Pid : proc[p] = "stranger" /\ proc'[p] # "stranger" => StrangerRuns(p)]_coreVars
=============================================================================
