------------------------------ MODULE Upgrade ------------------------------
(***************************************************************************)
(* How a Hub is replaced by another release of itself.  The panel's        *)
(* request (pp-hub system_update) leaves the "running" record in the       *)
(* status file and has systemd start the command line program in a         *)
(* transient unit of its own; that program (pp-cli ops) or the same one    *)
(* typed in a shell takes maintenance.lock, keeps copies of the binary and *)
(* of the web console, replaces both, and restarts the service or puts the *)
(* copies back.  Installation and rollback take the same lock.             *)
(*                                                                         *)
(* A command is the sequence of the steps it still has to take.  A step    *)
(* that fails or is killed in its middle may leave what it was copying in  *)
(* part: Torn.  A release is a number, greater when newer; the Agent's     *)
(* upgrade is the same code without the console.  Uninstallation, which    *)
(* takes no lock, is not modelled.                                         *)
(***************************************************************************)
EXTENDS Naturals, FiniteSets, SequencesExt

CONSTANTS Release,     \* the releases: positive numbers
          Request,     \* POST /api/v1/system/update, as they are handled
          None,        \* no file, no process, no unit, no command
          Torn,        \* a file or a directory of which a part is missing
          MaxShell,    \* bound: commands typed in a shell
          MaxFaults    \* bound: failed steps, killed commands, dropped requests, crashes

Content == Release \cup {None, Torn}
Copy == [label : Release \cup {None, Torn}, of : Release \cup {Torn}]
Outcome == {"succeeded", "failed", "rolled_back"}

StepName == {"resolve", "plan", "prepare", "copyBin", "copyWeb", "choose", "stop", "announce",
             "placeBin", "clearWeb", "placeWeb", "dropBin", "backBin", "dropWeb", "backWeb",
             "verify", "start", "settle", "prune", "finish", "exit"}

\* A command, with what it has learnt so far
Command == [kind : {"upgrade", "install", "rollback"}, by : {"unit", "shell"},
            target : Release, reports : BOOLEAN, todo : Seq(StepName), outcome : Outcome,
            was : BOOLEAN, skipped : BOOLEAN, oldBin : Content, oldWeb : Content,
            before : [bin : Content, web : Content]]

ASSUME ReleaseAssumption ==
  /\ Release \subseteq Nat \ {0} /\ {None, Torn} \cap Release = {} /\ None # Torn
  /\ None \notin Command /\ MaxShell \in Nat /\ MaxFaults \in Nat

VARIABLES binary, web,           \* /usr/local/bin/proxy-panel-hub, web/dist
          binCopies, webCopies,  \* backup/: the copies, the newest (mtime) last
          wanted, hub,           \* systemd is to run the Hub; the release running
          flag,                  \* MaintenanceState, in the Hub's memory
          req,                   \* the requests, in the Hub's memory
          record,                \* the status of the status file
          unit,                  \* proxy-panel-hub-update, not yet at the lock
          job,                   \* the command that holds maintenance.lock
          shells, faults,        \* counters of the two bounds
          lost,                  \* history: who was to end the record is gone
          marks                  \* history: what has spoiled files or copies

files == <<binary, web, binCopies, webCopies>>
service == <<wanted, hub, flag, req>>
upVars == <<files, service, record, unit, job, shells, faults, lost, marks>>

NoReq == [pc |-> "none", target |-> None]

Upgrading == <<"resolve", "plan", "prepare", "copyBin", "copyWeb", "stop",
               "announce", "placeBin", "clearWeb", "placeWeb", "verify",
               "start", "settle", "prune", "finish", "exit">>
Installing == <<"prepare", "stop", "copyBin", "placeBin", "clearWeb",
                "placeWeb", "start", "prune", "exit">>
RollingBack == <<"choose", "stop", "dropBin", "backBin", "dropWeb",
                 "backWeb", "start", "settle", "exit">>

\* Variant: the console is not restored with the binary.
RecoveringBinary == <<"dropBin", "backBin", "start", "settle", "finish", "exit">>

Recovering == <<"dropBin", "backBin", "dropWeb", "backWeb",
                "start", "settle", "finish", "exit">>

Script == [upgrade |-> Upgrading, install |-> Installing, rollback |-> RollingBack]

Job(kind, by, target, reports) ==
  [kind |-> kind, by |-> by, target |-> target, reports |-> reports,
   todo |-> Script[kind], outcome |-> "succeeded", was |-> FALSE,
   skipped |-> FALSE, oldBin |-> None, oldWeb |-> None,
   before |-> [bin |-> binary, web |-> web]]

UpInit ==
  /\ binary \in Release /\ web = binary
  /\ binCopies = <<>> /\ webCopies = <<>>
  /\ wanted = TRUE /\ hub = binary
  /\ flag = FALSE /\ req = [r \in Request |-> NoReq]
  /\ record = "idle" /\ unit = None /\ job = None
  /\ shells = 0 /\ faults = 0 /\ lost = FALSE /\ marks = {}
-----------------------------------------------------------------------------
(***************************************************************************)
(* The request, handled by the Hub that runs.                              *)
(***************************************************************************)
InProgress == record = "running"

At(r, pc) == hub # None /\ req[r].pc = pc
Go(r, pc) == req' = [req EXCEPT ![r].pc = pc]
\* The request has been answered and, if it was spawned, its child awaited.
Leave(r) == req' = [req EXCEPT ![r] = NoReq] /\ flag' = FALSE

KeepHub == UNCHANGED <<wanted, hub, unit, job, files, shells, marks>>

\* start_update up to the flag: ensure_not_running, the release, validate_target.
Ask(r, t) ==
  /\ At(r, "none") /\ ~flag /\ ~InProgress /\ t > hub
  /\ req' = [req EXCEPT ![r] = [pc |-> "checked", target |-> t]]
  /\ UNCHANGED <<flag, record, lost, faults>> /\ KeepHub

TryBegin(r) ==
  /\ At(r, "checked")
  /\ IF flag THEN req' = [req EXCEPT ![r] = NoReq] /\ UNCHANGED flag
     ELSE Go(r, "holding") /\ flag' = TRUE
  /\ UNCHANGED <<record, lost, faults>> /\ KeepHub

\* Variant: the file is not read again once the flag is held.
ReadAgainNot(r) ==
  /\ At(r, "holding") /\ Go(r, "clear")
  /\ UNCHANGED <<flag, record, lost, faults>> /\ KeepHub

\* execute_update: ensure_file_not_running, which may also fail to read.
ReadAgain(r) ==
  /\ At(r, "holding")
  /\ \/ ~InProgress /\ Go(r, "clear") /\ UNCHANGED <<flag, faults>>
     \/ InProgress /\ Leave(r) /\ UNCHANGED faults
     \/ Leave(r) /\ faults < MaxFaults /\ faults' = faults + 1
  /\ UNCHANGED <<record, lost>> /\ KeepHub

\* write_status(running), which may fail.
WriteRunning(r) ==
  /\ At(r, "clear")
  /\ \/ /\ Go(r, "written") /\ record' = "running" /\ lost' = FALSE
        /\ UNCHANGED <<flag, faults>>
     \/ /\ faults < MaxFaults /\ faults' = faults + 1
        /\ Leave(r) /\ UNCHANGED <<record, lost>>
  /\ KeepHub

\* Variant: a sudo that cannot be started leaves the record as it is.
SpawnSilent(r) ==
  /\ At(r, "written")
  /\ \/ Go(r, "spawned") /\ UNCHANGED <<flag, record, lost, faults>>
     \/ /\ faults < MaxFaults /\ faults' = faults + 1
        /\ Leave(r) /\ UNCHANGED <<record, lost>>
  /\ KeepHub

\* spawn_update: sudo, or no process.
Spawn(r) ==
  /\ At(r, "written")
  /\ \/ Go(r, "spawned") /\ UNCHANGED faults
     \/ faults < MaxFaults /\ faults' = faults + 1 /\ Go(r, "unspawned")
  /\ UNCHANGED <<flag, record, lost>> /\ KeepHub

\* The unit's name is taken until the program in it has ended.
UnitBusy == unit # None \/ (job # None /\ job.by = "unit")

\* sudo systemd-run: the transient unit, or a refusal (sudoers, the name).
Launch(r) ==
  /\ At(r, "spawned")
  /\ \/ /\ ~UnitBusy /\ unit' = req[r].target
        /\ Leave(r) /\ UNCHANGED faults
     \/ /\ UnitBusy /\ Go(r, "refused") /\ UNCHANGED <<unit, flag, faults>>
     \/ /\ ~UnitBusy /\ faults < MaxFaults /\ faults' = faults + 1
        /\ Go(r, "refused") /\ UNCHANGED <<unit, flag>>
  /\ UNCHANGED <<wanted, hub, record, job, files, shells, lost, marks>>

\* The task that awaits the child: the status is read, and then replaced; if it
\* cannot be read, it stays as it is.
ReadResult(r) ==
  /\ At(r, "refused")
  /\ \/ InProgress /\ Go(r, "failing") /\ UNCHANGED <<flag, lost, faults>>
     \/ ~InProgress /\ Leave(r) /\ UNCHANGED <<lost, faults>>
     \/ /\ Leave(r) /\ faults < MaxFaults /\ faults' = faults + 1
        /\ lost' = (lost \/ InProgress)
  /\ UNCHANGED record /\ KeepHub

\* "failed" is recorded, by that task or by the handler that could not spawn the
\* child; if that cannot be written, "running" stays.
WriteFailed(r) ==
  /\ At(r, "failing") \/ At(r, "unspawned")
  /\ Leave(r)
  /\ \/ record' = "failed" /\ UNCHANGED <<lost, faults>>
     \/ /\ faults < MaxFaults /\ faults' = faults + 1
        /\ lost' = (lost \/ InProgress) /\ UNCHANGED record
  /\ KeepHub

\* The client goes away and the handler is dropped where it awaits the release, the
\* read of the file or the write of a record, which may or may not be made.  Nobody
\* frees the flag, and nobody ends the record (the task is not dropped).
Drop(r) ==
  /\ faults < MaxFaults /\ faults' = faults + 1
  /\ req' = [req EXCEPT ![r] = NoReq]
  /\ \/ (At(r, "checked") \/ At(r, "holding")) /\ UNCHANGED <<record, lost>>
     \/ /\ At(r, "clear") /\ record' \in {record, "running"}
        /\ lost' = (lost \/ record' # record)
     \/ /\ At(r, "unspawned") /\ record' \in {record, "failed"}
        /\ lost' = (lost \/ record' = "running")
  /\ UNCHANGED flag /\ KeepHub
-----------------------------------------------------------------------------
(***************************************************************************)
(* The service, as systemd runs it (Restart=on-failure).                   *)
(***************************************************************************)
\* What the Hub's memory held is gone; a request whose record was written and
\* whose child had not made the unit (it dies with the Hub) leaves the record.
Forget ==
  /\ req' = [r \in Request |-> NoReq] /\ flag' = FALSE
  /\ lost' = (lost \/ \E r \in Request :
                req[r].pc \in {"written", "unspawned", "spawned", "refused", "failing"})

HubCrash ==
  /\ hub # None /\ faults < MaxFaults /\ faults' = faults + 1
  /\ hub' = None /\ Forget
  /\ UNCHANGED <<wanted, record, unit, job, files, shells, marks>>

HubStart ==
  /\ wanted /\ hub = None /\ binary \in Release
  /\ hub' = binary
  /\ UNCHANGED <<wanted, flag, req, record, unit, job, files, shells, faults,
                 lost, marks>>
-----------------------------------------------------------------------------
(***************************************************************************)
(* The command line program.                                               *)
(***************************************************************************)
\* A command typed in a shell; one that finds the lock taken changes nothing.
Shell(kind, t, reports) ==
  /\ job = None /\ shells < MaxShell /\ shells' = shells + 1
  /\ reports => kind = "upgrade"
  /\ job' = Job(kind, "shell", t, reports)
  /\ marks' = marks \cup (IF kind = "install" THEN {"install"} ELSE {})
                    \cup (IF reports THEN {"reports"} ELSE {})
  /\ UNCHANGED <<files, service, record, unit, faults, lost>>

\* The program of the unit: without the lock it ends before it has a status.
UnitLocks ==
  /\ unit # None /\ unit' = None
  /\ IF job = None THEN job' = Job("upgrade", "unit", unit, TRUE) /\ UNCHANGED lost
     ELSE lost' = TRUE /\ UNCHANGED job
  /\ UNCHANGED <<files, service, record, shells, faults, marks>>

AtStep(s) == job # None /\ Head(job.todo) = s
Onward == [job EXCEPT !.todo = Tail(@)]
Skipped == [job EXCEPT !.todo = <<"finish", "exit">>, !.skipped = TRUE]

\* status.stage and status.finish: nothing without a file to write.
Say(s) == /\ record' = IF job.reports THEN s ELSE record
          /\ lost' = (lost /\ ~job.reports)

\* The label of a copy is the release replaced, or else the time.  A copy of
\* the binary is written anew; a directory is written into, and stays where it
\* is in time if it has all of its entries.
SameLabel(copies) ==
  IF binary \in Release THEN {i \in DOMAIN copies : copies[i].label = binary} ELSE {}
Others(copies) ==
  IF SameLabel(copies) = {} THEN copies
  ELSE RemoveAt(copies, CHOOSE i \in SameLabel(copies) : TRUE)
PutBin(c) == Append(Others(binCopies), [label |-> binary, of |-> c])
PutWeb(c) ==
  LET new == [label |-> binary, of |-> c]
      there == SameLabel(webCopies)
      inPlace == [i \in DOMAIN webCopies |-> IF i \in there THEN new ELSE webCopies[i]]
      atEnd == Append(Others(webCopies), new)
  IN  CASE there = {} -> {atEnd}
        [] \E i \in there : webCopies[i].of = c -> {inPlace}
        [] OTHER -> {inPlace, atEnd}
Newest(copies) == copies[Len(copies)].of
Prune(copies) == IF copies = <<>> THEN <<>> ELSE <<copies[Len(copies)]>>

\* What a step changes besides job: files (and copies), service, record.
KeepRest == UNCHANGED <<unit, shells, faults>>
KeepService == UNCHANGED service
KeepRecord == UNCHANGED <<record, lost>>

Resolve == /\ AtStep("resolve") /\ job' = Onward /\ Say("running")
           /\ UNCHANGED <<files, marks>> /\ KeepService /\ KeepRest

\* plan_upgrade: skip what is installed; refuse what is older or does not run.
Plan ==
  /\ AtStep("plan")
  /\ job' = IF binary = job.target THEN Skipped
            ELSE IF binary = None \/ (binary \in Release /\ binary < job.target)
            THEN Onward
            ELSE [job EXCEPT !.todo = <<"finish", "exit">>, !.outcome = "failed"]
  /\ UNCHANGED <<files, marks, record, lost>> /\ KeepService /\ KeepRest

\* The archive is there, verified and unpacked.  install_hub also makes the
\* directory of the console.
Prepare ==
  /\ AtStep("prepare") /\ job' = Onward
  /\ web' = IF job.kind = "install" /\ web = None THEN Torn ELSE web
  /\ UNCHANGED <<binary, binCopies, webCopies, marks>>
  /\ KeepRecord /\ KeepService /\ KeepRest

\* backup_existing.
CopyBin ==
  /\ AtStep("copyBin") /\ job' = [Onward EXCEPT !.oldBin = binary]
  /\ binCopies' = IF binary = None THEN binCopies ELSE PutBin(binary)
  /\ UNCHANGED <<binary, web, webCopies, marks>>
  /\ KeepRecord /\ KeepService /\ KeepRest

CopyWeb ==
  /\ AtStep("copyWeb") /\ job' = [Onward EXCEPT !.oldWeb = web]
  /\ IF web = None THEN UNCHANGED webCopies ELSE webCopies' \in PutWeb(web)
  /\ UNCHANGED <<binary, web, binCopies, marks>>
  /\ KeepRecord /\ KeepService /\ KeepRest

\* rollback: the newest copy of each, and there must be one.
Choose ==
  /\ AtStep("choose")
  /\ job' = IF binCopies = <<>> \/ webCopies = <<>>
            THEN [job EXCEPT !.todo = <<"exit">>, !.outcome = "failed"]
            ELSE [Onward EXCEPT !.oldBin = Newest(binCopies), !.oldWeb = Newest(webCopies)]
  /\ marks' = marks \cup (IF job'.oldBin = job'.oldWeb THEN {} ELSE {"unpaired"})
  /\ UNCHANGED files /\ KeepRecord /\ KeepService /\ KeepRest

\* systemd_is_active, and systemd_stop of what is active.  A Hub that crashed
\* and waits for its restart is not active, and is started by systemd later.
Stop ==
  /\ AtStep("stop") /\ job' = [Onward EXCEPT !.was = hub # None]
  /\ IF hub # None
     THEN wanted' = FALSE /\ hub' = None /\ Forget /\ UNCHANGED record
     ELSE KeepService /\ KeepRecord
  /\ marks' = marks \cup (IF hub = None /\ wanted THEN {"asleep"} ELSE {})
  /\ UNCHANGED files /\ KeepRest

Announce == /\ AtStep("announce") /\ job' = Onward /\ Say("running")
            /\ UNCHANGED <<files, marks>> /\ KeepService /\ KeepRest

\* Variant: the console is removed and not put back.
PlaceNotBack ==
  /\ \/ AtStep("placeBin") /\ binary' = job.target /\ UNCHANGED web
     \/ AtStep("clearWeb") /\ web' = None /\ UNCHANGED binary
     \/ AtStep("placeWeb") /\ web' = job.target /\ UNCHANGED binary
     \/ AtStep("dropBin") /\ binary' = None /\ UNCHANGED web
     \/ AtStep("backBin") /\ binary' = job.oldBin /\ UNCHANGED web
     \/ AtStep("dropWeb") /\ web' = None /\ UNCHANGED binary
     \/ AtStep("backWeb") /\ UNCHANGED <<binary, web>>
  /\ job' = Onward
  /\ UNCHANGED <<binCopies, webCopies, marks>>
  /\ KeepRecord /\ KeepService /\ KeepRest

\* replace_and_verify, and restore_path.
Place ==
  /\ \/ AtStep("placeBin") /\ binary' = job.target /\ UNCHANGED web
     \/ AtStep("clearWeb") /\ web' = None /\ UNCHANGED binary
     \/ AtStep("placeWeb") /\ web' = job.target /\ UNCHANGED binary
     \/ AtStep("dropBin") /\ binary' = None /\ UNCHANGED web
     \/ AtStep("backBin") /\ binary' = job.oldBin /\ UNCHANGED web
     \/ AtStep("dropWeb") /\ web' = None /\ UNCHANGED binary
     \/ AtStep("backWeb") /\ web' = job.oldWeb /\ UNCHANGED binary
  /\ job' = Onward
  /\ UNCHANGED <<binCopies, webCopies, marks>>
  /\ KeepRecord /\ KeepService /\ KeepRest

Verify == /\ AtStep("verify") /\ job' = Onward
          /\ UNCHANGED <<files, marks>> /\ KeepRecord /\ KeepService /\ KeepRest

\* systemd_restart of a service that was active: systemd holds it started
\* whether or not the binary can run.
Start ==
  /\ AtStep("start") /\ job' = Onward
  /\ IF job.was
     THEN /\ wanted' = TRUE /\ hub' = IF binary \in Release THEN binary ELSE None
          /\ Forget /\ UNCHANGED record
     ELSE KeepService /\ KeepRecord
  /\ UNCHANGED <<files, marks>> /\ KeepRest

\* What a failure at the step under way makes of the command.
Failed ==
  LET s == Head(job.todo)
      To(todo, outcome) == [job EXCEPT !.todo = todo, !.outcome = outcome]
  IN  CASE s = "finish" -> To(<<"exit">>, job.outcome)
        [] s # "finish" /\ job.kind # "upgrade" -> To(<<"exit">>, "failed")
        [] s # "finish" /\ job.kind = "upgrade" /\ job.outcome = "succeeded" ->
             IF s \in {"placeBin", "clearWeb", "placeWeb", "verify", "start", "settle"}
             THEN To(Recovering, "rolled_back") ELSE To(<<"finish", "exit">>, "failed")
        [] OTHER ->
             To(CASE s \in {"dropBin", "backBin"} -> SubSeq(Recovering, 3, 8)
                  [] s \in {"dropWeb", "backWeb"} -> SubSeq(Recovering, 5, 8)
                  [] OTHER -> SubSeq(Recovering, 7, 8), "failed")

\* systemd_wait_stable: a binary that cannot run never is.
Settle ==
  /\ AtStep("settle")
  /\ IF job.was /\ hub = None /\ binary \notin Release THEN job' = Failed
     ELSE (job.was => hub # None) /\ job' = Onward
  /\ UNCHANGED <<files, marks>> /\ KeepRecord /\ KeepService /\ KeepRest

\* prune_backups of what the command has replaced, and the stage "completed".
PruneCopies ==
  /\ AtStep("prune") /\ job' = Onward /\ Say("running")
  /\ binCopies' = Prune(binCopies)
  /\ webCopies' = IF job.kind = "upgrade" THEN Prune(webCopies) ELSE webCopies
  /\ UNCHANGED <<binary, web, marks>> /\ KeepService /\ KeepRest

\* upgrade: status.finish.
Finish == /\ AtStep("finish") /\ job' = Onward /\ Say(job.outcome)
          /\ UNCHANGED <<files, marks>> /\ KeepService /\ KeepRest

\* The program ends and the kernel releases the lock.
Exit == /\ AtStep("exit") /\ job' = None
        /\ UNCHANGED <<files, marks>> /\ KeepRecord /\ KeepService /\ KeepRest

\* What a step stopped in its middle leaves: renames and removals of one file
\* are atomic, copies and removals of a directory are not.
Middle(s) ==
  /\ binary' = IF s = "backBin" THEN Torn ELSE binary
  /\ web' = IF s \in {"clearWeb", "placeWeb", "dropWeb", "backWeb"} THEN Torn ELSE web
  /\ binCopies' = IF s = "copyBin" /\ binary # None THEN PutBin(Torn) ELSE binCopies
  /\ IF s = "copyWeb" /\ web # None THEN webCopies' \in PutWeb(Torn) ELSE UNCHANGED webCopies
Cuttable == {"clearWeb", "placeWeb", "dropWeb", "backBin", "backWeb", "copyBin", "copyWeb"}

\* An error of the step (`?`).  systemd_stop has none: its failure is not seen.
StepFails ==
  /\ job # None /\ Head(job.todo) \notin {"stop", "exit"}
  /\ faults < MaxFaults /\ faults' = faults + 1
  /\ LET s == Head(job.todo)
     IN  /\ UNCHANGED files \/ (s \in Cuttable /\ Middle(s))
         /\ job' = Failed
         /\ CASE s = "finish" -> record' = record /\ lost' = (record = "running")
              [] s # "finish" /\ job'.todo = Recovering -> Say("running")
              [] OTHER -> KeepRecord
         /\ marks' = marks \cup
              CASE s \in {"copyBin", "copyWeb"} -> {"half"}
                [] s \notin {"copyBin", "copyWeb"} /\ job'.todo # Recovering ->
                     IF s \in Cuttable \cup {"placeBin", "dropBin"} THEN {"broken"}
                     ELSE IF s = "start" /\ job.outcome # "succeeded" THEN {"abandoned"} ELSE {}
                [] OTHER -> {}
  /\ KeepService /\ UNCHANGED <<unit, shells>>

\* systemctl fails: is-active, which then counts as not active (the Hub that runs
\* is neither stopped nor, later, started again), or stop, whose failure is ignored.
StopUnseen ==
  /\ AtStep("stop") /\ hub # None
  /\ faults < MaxFaults /\ faults' = faults + 1
  /\ \E active \in BOOLEAN : job' = [Onward EXCEPT !.was = active]
  /\ marks' = marks \cup {"unstopped"}
  /\ UNCHANGED <<files, unit, shells>> /\ KeepRecord /\ KeepService

\* The program is killed, or the machine stops under it.
Kill ==
  /\ job # None /\ faults < MaxFaults /\ faults' = faults + 1
  /\ LET s == Head(job.todo)
     IN  UNCHANGED files \/ (s \in Cuttable /\ Middle(s))
  /\ job' = None
  /\ marks' = marks \cup {"killed"}
                    \cup (IF job.outcome # "succeeded" THEN {"abandoned"} ELSE {})
  /\ lost' = (lost \/ (job.reports /\ record = "running"))
  /\ KeepService /\ UNCHANGED <<record, unit, shells>>
-----------------------------------------------------------------------------
RequestNext ==
  \E r \in Request :
    \/ \E t \in Release : Ask(r, t)
    \/ TryBegin(r) \/ ReadAgain(r) \/ WriteRunning(r) \/ Spawn(r)
    \/ Launch(r) \/ ReadResult(r) \/ WriteFailed(r) \/ Drop(r)

CommandNext ==
  \/ \E kind \in DOMAIN Script, t \in Release, reports \in BOOLEAN : Shell(kind, t, reports)
  \/ UnitLocks \/ Resolve \/ Plan \/ Prepare \/ CopyBin \/ CopyWeb \/ Choose \/ Stop
  \/ Announce \/ Place \/ Verify \/ Start \/ Settle \/ PruneCopies \/ Finish \/ Exit
  \/ StepFails \/ StopUnseen \/ Kill

UpNext == RequestNext \/ CommandNext \/ HubCrash \/ HubStart
UpSpec == UpInit /\ [][UpNext]_upVars
-----------------------------------------------------------------------------
UpTypeOK ==
  /\ binary \in Content /\ web \in Content
  /\ binCopies \in Seq(Copy) /\ webCopies \in Seq(Copy)
  /\ wanted \in BOOLEAN /\ hub \in Release \cup {None} /\ flag \in BOOLEAN
  /\ record \in {"idle", "running"} \cup Outcome
  /\ req \in [Request -> [pc : {"none", "checked", "holding", "clear", "written",
                                "unspawned", "spawned", "refused", "failing"}, target : Release \cup {None}]]
  /\ unit \in Release \cup {None} /\ job \in Command \cup {None}
  /\ shells \in 0..MaxShell /\ faults \in 0..MaxFaults /\ lost \in BOOLEAN

\* A command that ended, and left the binary of one release with the console of
\* another, was killed, or could not put one back, or rolled back to copies
\* that were not of one release.
ConsoleMatches ==
  binary # web => marks \cap {"killed", "broken", "unpaired"} # {}

\* When no command is at work the Hub that runs is the one installed, unless
\* systemctl failed to say that it runs (systemd_is_active answers FALSE to any
\* error) or to stop it, or a command found it between a crash and its restart,
\* and so neither stopped nor restarted it, or putting the old release back was
\* given up before the service was restarted.
HubRunsInstalled ==
  hub # None /\ hub # binary => marks \cap {"unstopped", "asleep", "abandoned"} # {}

\* The newest copies are of one release unless a command was killed or failed
\* between the two copies, or install_hub, which copies the binary alone, ran.
NewestPair ==
  \/ binCopies = <<>> /\ webCopies = <<>>
  \/ binCopies # <<>> /\ webCopies # <<>> /\ Newest(binCopies) = Newest(webCopies)
CopiesPair ==
  ~NewestPair => marks \cap {"killed", "broken", "half", "install"} # {}

\* What every command leaves behind when it ends: a Hub and a console of one
\* release, running as installed, and copies to go back to.
InstallationIsWhole == job = None => ConsoleMatches /\ HubRunsInstalled /\ CopiesPair

\* What is recorded at the end is true, of the files and of a service that the
\* command knew to be active.
OutcomeIsTrue ==
  [][job # None /\ job.reports /\ AtStep("finish") /\ record' = job.outcome =>
       CASE job.outcome = "succeeded" ->
              /\ binary = job.target
              /\ ~job.skipped => web = job.target /\ (job.was => wanted /\ hub \in {None, job.target})
         [] job.outcome = "rolled_back" ->
              binary = job.before.bin /\ web = job.before.web /\ (job.was => wanted)
         [] OTHER -> TRUE]_upVars

\* At most one update that the panel has accepted is still to be carried out.
Accepted == {r \in Request : req[r].pc \in {"written", "spawned"}}
Unfinished == job # None /\ job.by = "unit" /\ Head(job.todo) # "exit"
OneSubmission ==
  "reports" \in marks \/
  Cardinality(Accepted) + (IF unit # None THEN 1 ELSE 0) + (IF Unfinished THEN 1 ELSE 0) <= 1

\* A record that says "running" has someone to end it: a request whose handler or
\* task goes on, the unit that waits, or a command that reports.  It is left alone
\* only by a loss: the Hub or the command ended, the client of the request went
\* away while its handler wrote, the last record could not be read or written, or
\* the unit found the lock taken.  (A command that is refused, a sudo that cannot
\* be started, a request that finds the flag or the file taken are no such loss.)
RunningHasOwner ==
  record = "running" =>
    \/ lost \/ unit # None
    \/ \E r \in Request :
         req[r].pc \in {"written", "unspawned", "spawned", "refused", "failing"}
    \/ job # None /\ job.reports /\ Head(job.todo) # "exit"
=============================================================================
