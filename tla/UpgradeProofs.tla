--------------------------- MODULE UpgradeProofs ---------------------------
(***************************************************************************)
(* Proofs about Upgrade, for any releases, requests, commands and faults.  *)
(* The invariant has a part for each property, and each part says, for the *)
(* step a command is at, what it has done so far to what the property is   *)
(* about: the record and who is to end it, the one submission on its way,  *)
(* the files, the service, the copies.  A part is proved in three pieces:  *)
(* a step that passes and changes nothing the part speaks of, a step that  *)
(* fails, and the actions that are left, one by one.                       *)
(***************************************************************************)
EXTENDS UpgradeSteps, SequenceTheorems, FiniteSetTheorems, TLAPS

\* A step that leaves the requests alone.
Quiet == req' = req /\ flag' = flag

\* A step after which the command is still there.
Works ==
  /\ job # None /\ job' # None /\ Kept(job') /\ Step # "exit" /\ unit' = unit
  /\ marks \subseteq marks'
  /\ job.reports /\ Step' = "exit" => Step = "finish"
  /\ \/ UNCHANGED <<record, lost>> /\ Quiet /\ Step # "finish"
     \/ Say("running") /\ Quiet /\ Step # "finish"
     \/ Step = "finish" /\ Step' = "exit" /\ Say(job.outcome) /\ Quiet
     \/ Step = "finish" /\ Step' = "exit" /\ record' = record /\ lost' = (record = "running") /\ Quiet
     \/ Forget /\ record' = record /\ Step # "finish"

\* The step after which it is not.
Ends ==
  /\ job # None /\ job' = None /\ unit' = unit /\ record' = record /\ Quiet
  /\ marks \subseteq marks'
  /\ \/ Step = "exit" /\ lost' = lost
     \/ lost' = (lost \/ (job.reports /\ record = "running"))

\* A command that reports does not end without the step "finish".
LEMMA NotLast ==
  ASSUME UpBase, job # None, Step # "exit", Step # "finish", job.reports
  PROVE  NextStep # "exit"
<1>1. job.kind = "upgrade"
  BY DEF UpBase, JobOK
<1> QED BY <1>1, Whereabouts DEF NextStep, AfterUpgrading, AfterRecovering, Recoverings

\* Every step of a command begins one, lets it work on, or ends it.
LEMMA WorksOrEnds ==
  ASSUME UpBase, CommandNext
  PROVE  \/ \E kind \in DOMAIN Script, t \in Release, reports \in BOOLEAN : Shell(kind, t, reports)
         \/ UnitLocks \/ Works \/ Ends
<1>1. /\ job.reports /\ job # None => job.kind = "upgrade"
      /\ KeepService => Quiet
  BY DEF UpBase, JobOK, KeepService, service, Quiet
<1>2. ASSUME NEW s \in StepName \ {"exit", "finish"}, Passed(s)
      PROVE  job # None /\ job' # None /\ Kept(job') /\ Step = s /\ (job.reports /\ Step' = "exit" => Step = "finish")
  BY <1>2, NotLast DEF Passed, Carried
<1>3. Prepare \/ CopyBin \/ CopyWeb \/ Place \/ Verify \/ StopUnseen => Works
  <2>1. ASSUME Prepare \/ CopyBin \/ CopyWeb \/ Place \/ Verify \/ StopUnseen
        PROVE  Passed(Step) /\ Step \in StepName \ {"exit", "finish"}
    BY <2>1, Passes DEF Passed, Place, AtStep, Step, StepName
  <2>2. ASSUME Prepare \/ CopyBin \/ CopyWeb \/ Place \/ Verify \/ StopUnseen
        PROVE  unit' = unit /\ marks \subseteq marks' /\ UNCHANGED <<record, lost>> /\ Quiet
    BY <2>2, <1>1 DEF Prepare, CopyBin, CopyWeb, Place, Verify, StopUnseen, KeepRecord, KeepRest
  <2> QED BY <1>2, <2>1, <2>2 DEF Works, StepName
<1>4. Resolve \/ Announce \/ PruneCopies => Works
  <2>1. ASSUME Resolve \/ Announce \/ PruneCopies
        PROVE  Passed(Step) /\ Step \in StepName \ {"exit", "finish"}
    BY <2>1, Passes DEF Passed, StepName
  <2>2. ASSUME Resolve \/ Announce \/ PruneCopies
        PROVE  unit' = unit /\ marks \subseteq marks' /\ Say("running") /\ Quiet
    BY <2>2, <1>1 DEF Resolve, Announce, PruneCopies, KeepRest
  <2> QED BY <1>2, <2>1, <2>2 DEF Works, StepName
<1>5. Finish => Works
  <2>1. ASSUME Finish
        PROVE  Passed("finish") /\ NextStep = "exit"
    BY <2>1, Passes, Whereabouts DEF Passed, NextStep, AfterUpgrading, AfterRecovering
  <2>2. ASSUME Finish
        PROVE  unit' = unit /\ marks \subseteq marks' /\ Say(job.outcome) /\ Quiet
    BY <2>2, <1>1 DEF Finish, KeepRest
  <2> QED BY <2>1, <2>2 DEF Works, Passed, Carried
<1>6. Stop \/ Start => Works
  <2>1. ASSUME Stop \/ Start
        PROVE  Passed(Step) /\ Step \in StepName \ {"exit", "finish"}
    BY <2>1, Passes DEF Passed, StepName
  <2>2. ASSUME Stop \/ Start
        PROVE  /\ unit' = unit /\ marks \subseteq marks'
               /\ (Forget /\ record' = record) \/ (UNCHANGED <<record, lost>> /\ Quiet)
    BY <2>2, <1>1 DEF Stop, Start, KeepRest, KeepRecord
  <2> QED BY <1>2, <2>1, <2>2 DEF Works, StepName
<1>7. Plan => Works
  <2>1. ASSUME Plan
        PROVE  unit' = unit /\ marks \subseteq marks' /\ UNCHANGED <<record, lost>> /\ Quiet
    BY <2>1, <1>1 DEF Plan, KeepRest
  <2>2. ASSUME Plan
        PROVE  job # None /\ job' # None /\ Kept(job') /\ Step = "plan" /\ Step' # "exit"
    BY <2>2, Plans DEF Passed, Carried, Turned, NextStep, AfterUpgrading
  <2> QED BY <2>1, <2>2 DEF Works
<1>8. Choose => Works
  <2>1. ASSUME Choose
        PROVE  unit' = unit /\ marks \subseteq marks' /\ UNCHANGED <<record, lost>> /\ Quiet
    BY <2>1, <1>1 DEF Choose, KeepRest, KeepRecord
  <2>2. ASSUME Choose
        PROVE  job # None /\ job' # None /\ Kept(job') /\ Step = "choose" /\ ~job.reports
    <3>1. job # None /\ job.kind = "rollback" /\ Step = "choose" /\ job' # None /\ Kept(job')
      BY <2>2, Chooses DEF Passed, Carried, Turned
    <3> QED BY <3>1, <1>1
  <2> QED BY <2>1, <2>2 DEF Works
<1>9. ASSUME job # None, Step \notin {"stop", "exit"}, job' = Failed
      PROVE  /\ job' # None /\ Kept(job')
             /\ job.reports /\ Step' = "exit" => Step = "finish"
             /\ Step = "finish" => Step' = "exit"
  <2>1. job' # None /\ Kept(job') /\ (Step = "finish" => Step' = "exit")
    BY <1>9, FailsTo DEF Turned
  <2>2. job.reports /\ Step # "finish" => Step' # "exit"
    BY <1>1, <1>9, FailsTo
  <2> QED BY <2>1, <2>2
<1>10. Settle => Works
  <2>1. ASSUME Settle
        PROVE  unit' = unit /\ marks \subseteq marks' /\ UNCHANGED <<record, lost>> /\ Quiet
    BY <2>1, <1>1 DEF Settle, KeepRest, KeepRecord
  <2>2. ASSUME Settle
        PROVE  job # None /\ job' # None /\ Kept(job') /\ Step = "settle"
               /\ (job.reports /\ Step' = "exit" => Step = "finish")
    BY <2>2, <1>2, <1>9, Settles DEF StepName
  <2> QED BY <2>1, <2>2 DEF Works
<1>11. StepFails => Works
  <2>1. ASSUME StepFails
        PROVE  /\ unit' = unit /\ marks \subseteq marks' /\ Quiet
               /\ job # None /\ Step \notin {"stop", "exit"} /\ job' = Failed
               /\ \/ Step = "finish" /\ record' = record /\ lost' = (record = "running")
                  \/ Step # "finish" /\ (Say("running") \/ UNCHANGED <<record, lost>>)
    <3>1. unit' = unit /\ Quiet /\ job # None /\ Step \notin {"stop", "exit"} /\ job' = Failed
          /\ marks \subseteq marks'
      BY <2>1, <1>1 DEF StepFails, Step
    <3>2. \/ Step = "finish" /\ record' = record /\ lost' = (record = "running")
          \/ Step # "finish" /\ (Say("running") \/ UNCHANGED <<record, lost>>)
      BY <2>1 DEF StepFails, Step, KeepRecord
    <3> QED BY <3>1, <3>2
  <2> QED BY <1>9, <2>1 DEF Works
<1>12. Exit \/ Kill => Ends
  BY <1>1 DEF Exit, Kill, Ends, AtStep, Step, KeepRest, KeepRecord
<1> QED BY <1>3, <1>4, <1>5, <1>6, <1>7, <1>8, <1>10, <1>11, <1>12 DEF CommandNext
-----------------------------------------------------------------------------
\* The three who can end a record that says "running": a request, the unit, a command.
Owner == {"written", "unspawned", "spawned", "refused", "failing"}
Requested == \E r \in Request : req[r].pc \in Owner
Reporting == job # None /\ job.reports /\ Step # "exit"

\* RunningHasOwner in these terms, in a state and in the next.
LEMMA OwnerParts ==
  /\ RunningHasOwner <=> (record = "running" => lost \/ unit # None \/ Requested \/ Reporting)
  /\ RunningHasOwner' <=> (record' = "running" => lost' \/ unit' # None \/ Requested' \/ Reporting')
BY DEF RunningHasOwner, Requested, Reporting, Owner, Step

\* What a step of the request r makes of the requests.
LEMMA RequestMoves ==
  ASSUME UpBase, NEW r \in Request
  PROVE  /\ \A pc : Go(r, pc) =>
              /\ \A q \in Request : req'[q].pc = IF q = r THEN pc ELSE req[q].pc
              /\ \A q \in Request : req'[q].target = req[q].target
         /\ req' = [req EXCEPT ![r] = NoReq] =>
              /\ \A q \in Request : req'[q].pc = IF q = r THEN "none" ELSE req[q].pc
              /\ \A q \in Request : q # r => req'[q].target = req[q].target
         /\ \A t : req' = [req EXCEPT ![r] = [pc |-> "checked", target |-> t]] =>
              /\ \A q \in Request : req'[q].pc = IF q = r THEN "checked" ELSE req[q].pc
              /\ \A q \in Request : req'[q].target = IF q = r THEN t ELSE req[q].target
<1>1. req \in [Request -> ReqRec]
  BY DEF UpBase, UpTypeOK, ReqRec, ReqPc
<1>2. ASSUME NEW pc, Go(r, pc)
      PROVE  /\ \A q \in Request : req'[q].pc = IF q = r THEN pc ELSE req[q].pc
             /\ \A q \in Request : req'[q].target = req[q].target
  BY <1>1, <1>2 DEF Go, ReqRec
<1>3. ASSUME req' = [req EXCEPT ![r] = NoReq]
      PROVE  /\ \A q \in Request : req'[q].pc = IF q = r THEN "none" ELSE req[q].pc
             /\ \A q \in Request : q # r => req'[q].target = req[q].target
  BY <1>1, <1>3 DEF NoReq
<1>4. ASSUME NEW t, req' = [req EXCEPT ![r] = [pc |-> "checked", target |-> t]]
      PROVE  /\ \A q \in Request : req'[q].pc = IF q = r THEN "checked" ELSE req[q].pc
             /\ \A q \in Request : req'[q].target = IF q = r THEN t ELSE req[q].target
  BY <1>1, <1>4
<1> QED BY <1>2, <1>3, <1>4

\* What a Hub that ends forgets, and what is lost by it.
LEMMA Forgotten ==
  ASSUME Forget
  PROVE  /\ \A r \in Request : req'[r].pc = "none"
         /\ lost' = (lost \/ Requested)
BY DEF Forget, NoReq, Requested, Owner

\* The release that a request is for is known from its first check on.
Targeted == \A r \in Request : req[r].pc # "none" => req[r].target \in Release

\* Whoever may end the record hands it on to the next, or ends it, or is lost.
LEMMA OwnerKept ==
  ASSUME UpBase, Targeted, RunningHasOwner, [UpNext]_upVars
  PROVE  RunningHasOwner'
<1>1. record = "running" => lost \/ unit # None \/ Requested \/ Reporting
  BY OwnerParts
<1>2. record' = "running" => lost' \/ unit' # None \/ Requested' \/ Reporting'
  <2>1. CASE UNCHANGED upVars
    BY <1>1, <2>1 DEF upVars, service, Requested, Reporting, Step
  <2>2. ASSUME NEW r \in Request,
               (\E t \in Release : Ask(r, t)) \/ TryBegin(r) \/ ReadAgain(r) \/ WriteRunning(r) \/ Spawn(r)
               \/ Launch(r) \/ ReadResult(r) \/ WriteFailed(r) \/ Drop(r)
        PROVE  record' = "running" => lost' \/ unit' # None \/ Requested' \/ Reporting'
    <3>0. job' = job /\ (Reporting => Reporting')
      <4>1. RequestNext
        BY <2>2 DEF RequestNext
      <4> QED BY <4>1, RequestsLeave DEF Reporting, Step
    <3>1. ASSUME record' = record, lost' = lost, unit' = unit, Requested => Requested'
          PROVE  record' = "running" => lost' \/ unit' # None \/ Requested' \/ Reporting'
      BY <1>1, <3>0, <3>1
    <3>2. ASSUME NEW pc, NEW pc2, At(r, pc), Go(r, pc2), pc \notin Owner \/ pc2 \in Owner
          PROVE  Requested => Requested'
      <4>1. \A q \in Request : req[q].pc \in Owner => req'[q].pc \in Owner
        BY <3>2, RequestMoves DEF At
      <4> QED BY <4>1 DEF Requested
    <3>3. ASSUME NEW pc, At(r, pc), pc \notin Owner, req' = [req EXCEPT ![r] = NoReq]
          PROVE  Requested => Requested'
      <4>1. \A q \in Request : req[q].pc \in Owner => req'[q].pc \in Owner
        BY <3>3, RequestMoves DEF At
      <4> QED BY <4>1 DEF Requested
    <3>4. ASSUME NEW t \in Release, Ask(r, t)
          PROVE  record' = "running" => lost' \/ unit' # None \/ Requested' \/ Reporting'
      <4>1. \A q \in Request : req[q].pc \in Owner => req'[q].pc \in Owner
        BY <3>4, RequestMoves DEF Ask, At, Owner
      <4> QED BY <3>1, <3>4, <4>1 DEF Ask, KeepHub, Requested
    <3>5. CASE TryBegin(r)
      BY <3>1, <3>2, <3>3, <3>5 DEF TryBegin, KeepHub, Owner
    <3>6. CASE ReadAgain(r)
      BY <3>1, <3>2, <3>3, <3>6 DEF ReadAgain, KeepHub, Owner, Leave
    <3>7. CASE WriteRunning(r)
      <4>1. CASE Go(r, "written")
        <5>1. req'[r].pc = "written"
          BY <4>1, RequestMoves
        <5> QED BY <5>1 DEF Requested, Owner
      <4>2. CASE Leave(r) /\ UNCHANGED <<record, lost>>
        BY <3>1, <3>3, <3>7, <4>2 DEF WriteRunning, KeepHub, Owner, Leave
      <4> QED BY <3>7, <4>1, <4>2 DEF WriteRunning
    <3>8. CASE Spawn(r)
      BY <3>1, <3>2, <3>8 DEF Spawn, KeepHub, Owner
    <3>9. CASE Launch(r)
      <4>1. CASE unit' = req[r].target
        <5>1. CASE unit' # None
          BY <5>1
        <5>2. req[r].target \in Release
          BY <3>9 DEF Launch, At, Targeted
        <5> QED BY <4>1, <5>1, <5>2, ReleaseAssumption
      <4>2. CASE Go(r, "refused") /\ unit' = unit
        BY <3>1, <3>2, <3>9, <4>2 DEF Launch, Owner
      <4> QED BY <3>9, <4>1, <4>2 DEF Launch
    <3>10. CASE ReadResult(r)
      <4>1. CASE Go(r, "failing")
        <5>1. req'[r].pc = "failing"
          BY <4>1, RequestMoves
        <5> QED BY <5>1 DEF Requested, Owner
      <4>2. CASE ~InProgress
        BY <3>10, <4>2 DEF ReadResult, InProgress
      <4>3. CASE lost' = (lost \/ InProgress)
        BY <3>10, <4>3 DEF ReadResult, InProgress
      <4> QED BY <3>10, <4>1, <4>2, <4>3 DEF ReadResult
    <3>11. CASE WriteFailed(r)
      BY <3>11 DEF WriteFailed, InProgress
    <3>12. CASE Drop(r)
      <4>1. req' = [req EXCEPT ![r] = NoReq] /\ unit' = unit
        BY <3>12 DEF Drop, KeepHub
      <4>2. CASE (At(r, "checked") \/ At(r, "holding")) /\ UNCHANGED <<record, lost>>
        BY <3>1, <3>3, <4>1, <4>2 DEF Owner
      <4>3. CASE At(r, "clear") /\ lost' = (lost \/ record' # record)
        <5>1. CASE record' # record
          BY <4>3, <5>1
        <5>2. CASE record' = record
          <6>1. Requested => Requested'
            BY <3>3, <4>1, <4>3 DEF Owner
          <6> QED BY <1>1, <3>0, <4>1, <4>3, <5>2, <6>1
        <5> QED BY <5>1, <5>2
      <4>4. CASE lost' = (lost \/ record' = "running")
        BY <4>4
      <4> QED BY <3>12, <4>2, <4>3, <4>4 DEF Drop
    <3> QED BY <2>2, <3>4, <3>5, <3>6, <3>7, <3>8, <3>9, <3>10, <3>11, <3>12
  <2>3. CASE HubCrash \/ HubStart
    <3>1. job' = job /\ record' = record /\ unit' = unit
      BY <2>3 DEF HubCrash, HubStart
    <3>2. Reporting => Reporting'
      BY <3>1 DEF Reporting, Step
    <3>3. CASE HubStart
      <4>1. (Requested => Requested') /\ lost' = lost
        BY <3>3 DEF HubStart, Requested
      <4> QED BY <1>1, <3>1, <3>2, <4>1
    <3>4. CASE HubCrash
      <4>1. lost' = (lost \/ Requested)
        BY <3>4, Forgotten DEF HubCrash
      <4> QED BY <1>1, <3>1, <3>2, <4>1
    <3> QED BY <2>3, <3>3, <3>4
  <2>4. CASE CommandNext
    <3>1. ASSUME NEW kind \in DOMAIN Script, NEW t \in Release, NEW reports \in BOOLEAN, Shell(kind, t, reports)
          PROVE  record' = "running" => lost' \/ unit' # None \/ Requested' \/ Reporting'
      <4>1. ~Reporting /\ record' = record /\ lost' = lost /\ unit' = unit /\ (Requested => Requested')
        BY <3>1 DEF Shell, Reporting, Requested, service
      <4> QED BY <1>1, <4>1
    <3>2. CASE UnitLocks
      <4>1. CASE job = None
        <5>1. unit \in Release /\ job' = Job("upgrade", "unit", unit, TRUE)
          BY <3>2, <4>1 DEF UnitLocks, UpBase, UpTypeOK
        <5>2. Begun("upgrade", "unit", unit, TRUE)
          BY <5>1, Begins DEF UpBase
        <5>3. Reporting'
          BY <5>2 DEF Begun, Reporting
        <5> QED BY <5>3
      <4>2. CASE job # None
        BY <3>2, <4>2 DEF UnitLocks
      <4> QED BY <4>1, <4>2
    <3>3. CASE Works
      <4>1. job # None /\ job' # None /\ job'.reports = job.reports /\ unit' = unit
            /\ Step # "exit" /\ (job.reports /\ Step' = "exit" => Step = "finish")
        BY <3>3 DEF Works, Kept
      <4>2. job.reports /\ Step # "finish" => Reporting'
        BY <4>1 DEF Reporting
      <4>3. (Quiet => (Requested => Requested')) /\ (Forget => lost' = (lost \/ Requested))
        BY Forgotten DEF Quiet, Requested
      <4>4. Reporting => job.reports
        BY DEF Reporting
      <4>5. CASE job.reports
        <5>1. CASE Step # "finish"
          BY <4>2, <4>5, <5>1
        <5>2. CASE Step = "finish"
          <6>1. Say(job.outcome) \/ (record' = record /\ lost' = (record = "running"))
            BY <3>3, <5>2 DEF Works
          <6>2. job.outcome \in Outcome
            BY <4>1, Whereabouts
          <6>3. Say(job.outcome) => record' # "running"
            BY <4>5, <6>2 DEF Say, Outcome
          <6> QED BY <6>1, <6>3
        <5> QED BY <5>1, <5>2
      <4>6. CASE ~job.reports
        <5>1. Say("running") \/ Say(job.outcome) => record' = record /\ lost' = lost
          <6>1. lost \in BOOLEAN
            BY DEF UpBase, UpTypeOK
          <6> QED BY <4>6, <6>1 DEF Say
        <5>2. \/ record' = record /\ lost' = lost /\ Quiet
              \/ record' = record /\ lost' = (record = "running")
              \/ record' = record /\ Forget
          BY <3>3, <5>1 DEF Works
        <5> QED BY <1>1, <4>1, <4>3, <4>4, <4>6, <5>2
      <4> QED BY <4>5, <4>6
    <3>4. CASE Ends
      <4>1. record' = record /\ unit' = unit /\ (Requested => Requested')
        BY <3>4 DEF Ends, Quiet, Requested
      <4>2. \/ ~Reporting /\ lost' = lost
            \/ lost' = (lost \/ (job.reports /\ record = "running"))
        BY <3>4 DEF Ends, Reporting
      <4> QED BY <1>1, <4>1, <4>2 DEF Reporting
    <3> QED BY <2>4, <3>1, <3>2, <3>3, <3>4, WorksOrEnds
  <2> QED BY <2>1, <2>2, <2>3, <2>4 DEF UpNext, RequestNext
<1> QED BY <1>2, OwnerParts
-----------------------------------------------------------------------------
\* A request that holds the flag; one that has read the file again since.
Holder == {"holding", "clear", "written", "unspawned", "spawned", "refused", "failing"}
Past == {"clear", "written", "unspawned", "spawned", "refused", "failing"}

\* The flag of the Hub's memory is held by one request, up to its answer.
Alone ==
  /\ \A r, s \in Request : req[r].pc \in Holder /\ req[s].pc \in Holder => r = s
  /\ \A r \in Request : req[r].pc \in Holder => flag

\* From the request to the end of the unit's program, one at a time.
Routed ==
  /\ \A r \in Request : req[r].pc \in Past => unit = None /\ ~Unfinished
  /\ unit # None \/ Unfinished => record = "running"
  /\ unit # None => job = None \/ job.by # "unit"
  /\ \A r \in Request : req[r].pc \in {"written", "spawned"} => record = "running"
  /\ job # None /\ job.reports => job.by = "unit"

\* The part of the invariant that is about submissions.
SubInv == Targeted /\ Alone /\ ("reports" \in marks \/ Routed)

\* A step of the request r.
RequestStep(r) ==
  \/ \E t \in Release : Ask(r, t)
  \/ TryBegin(r) \/ ReadAgain(r) \/ WriteRunning(r) \/ Spawn(r)
  \/ Launch(r) \/ ReadResult(r) \/ WriteFailed(r) \/ Drop(r)

\* The ways in which the step of a request changes it.
LEMMA RequestTurns ==
  ASSUME UpBase, NEW r \in Request, RequestStep(r)
  PROVE  \/ \E t \in Release :
              /\ req[r].pc = "none" /\ flag' = flag
              /\ req' = [req EXCEPT ![r] = [pc |-> "checked", target |-> t]]
         \/ req[r].pc = "checked" /\ req' = [req EXCEPT ![r] = NoReq] /\ flag' = flag
         \/ req[r].pc = "checked" /\ Go(r, "holding") /\ ~flag /\ flag' = TRUE
         \/ req[r].pc \in Holder /\ Leave(r)
         \/ req[r].pc \in Holder /\ flag' = flag /\ \E pc \in Holder : Go(r, pc)
         \/ req[r].pc \in Holder /\ flag' = flag /\ req' = [req EXCEPT ![r] = NoReq]
<1>1. (\E t \in Release : Ask(r, t)) \/ TryBegin(r) \/ ReadAgain(r) \/ WriteRunning(r) =>
      \/ \E t \in Release :
              /\ req[r].pc = "none" /\ flag' = flag
              /\ req' = [req EXCEPT ![r] = [pc |-> "checked", target |-> t]]
      \/ req[r].pc = "checked" /\ req' = [req EXCEPT ![r] = NoReq] /\ flag' = flag
      \/ req[r].pc = "checked" /\ Go(r, "holding") /\ ~flag /\ flag' = TRUE
      \/ req[r].pc \in Holder /\ Leave(r)
      \/ req[r].pc \in Holder /\ flag' = flag /\ \E pc \in Holder : Go(r, pc)
  BY DEF Ask, TryBegin, ReadAgain, WriteRunning, At, Holder
<1>2. Spawn(r) \/ Launch(r) \/ ReadResult(r) \/ WriteFailed(r) =>
      \/ req[r].pc \in Holder /\ Leave(r)
      \/ req[r].pc \in Holder /\ flag' = flag /\ \E pc \in Holder : Go(r, pc)
  BY DEF Spawn, Launch, ReadResult, WriteFailed, At, Holder
<1>3. Drop(r) =>
      \/ req[r].pc = "checked" /\ req' = [req EXCEPT ![r] = NoReq] /\ flag' = flag
      \/ req[r].pc \in Holder /\ flag' = flag /\ req' = [req EXCEPT ![r] = NoReq]
  BY DEF Drop, At, Holder
<1> QED BY <1>1, <1>2, <1>3 DEF RequestStep

\* try_begin and the guard that frees the flag: one request at a time.
LEMMA TargetedKept ==
  ASSUME UpBase, Targeted, Alone, [UpNext]_upVars
  PROVE  Targeted' /\ Alone'
<1>1. CASE req' = req /\ flag' = flag
  BY <1>1 DEF Targeted, Alone
<1>2. CASE Forget
  BY <1>2, Forgotten DEF Targeted, Alone, Holder
<1>3. ASSUME NEW r \in Request, RequestStep(r)
      PROVE  Targeted' /\ Alone'
  <2>1. ASSUME NEW t \in Release, req[r].pc = "none", flag' = flag,
               req' = [req EXCEPT ![r] = [pc |-> "checked", target |-> t]]
        PROVE  Targeted' /\ Alone'
    <3>1. /\ \A q \in Request : req'[q].pc = IF q = r THEN "checked" ELSE req[q].pc
          /\ \A q \in Request : req'[q].target = IF q = r THEN t ELSE req[q].target
      <4>1. req' = [req EXCEPT ![r] = [pc |-> "checked", target |-> t]]
        BY <2>1
      <4>2. req \in [Request -> ReqRec]
        BY DEF UpBase, UpTypeOK, ReqRec, ReqPc
      <4> QED BY <4>1, <4>2
    <3> QED BY <2>1, <3>1 DEF Targeted, Alone, Holder
  <2>2. CASE req[r].pc = "checked" /\ req' = [req EXCEPT ![r] = NoReq] /\ flag' = flag
    <3>1. /\ \A q \in Request : req'[q].pc = IF q = r THEN "none" ELSE req[q].pc
          /\ \A q \in Request : q # r => req'[q].target = req[q].target
      BY <2>2, RequestMoves
    <3> QED BY <2>2, <3>1 DEF Targeted, Alone, Holder
  <2>3. CASE req[r].pc = "checked" /\ Go(r, "holding") /\ ~flag /\ flag' = TRUE
    <3>1. /\ \A q \in Request : req'[q].pc = IF q = r THEN "holding" ELSE req[q].pc
          /\ \A q \in Request : req'[q].target = req[q].target
      BY <2>3, RequestMoves
    <3> QED BY <2>3, <3>1 DEF Targeted, Alone, Holder
  <2>4. CASE req[r].pc \in Holder /\ Leave(r)
    <3>1. /\ \A q \in Request : req'[q].pc = IF q = r THEN "none" ELSE req[q].pc
          /\ \A q \in Request : q # r => req'[q].target = req[q].target
      BY <2>4, RequestMoves DEF Leave
    <3> QED BY <2>4, <3>1 DEF Targeted, Alone, Holder
  <2>5. ASSUME NEW pc \in Holder, req[r].pc \in Holder, flag' = flag, Go(r, pc)
        PROVE  Targeted' /\ Alone'
    <3>1. /\ \A q \in Request : req'[q].pc = IF q = r THEN pc ELSE req[q].pc
          /\ \A q \in Request : req'[q].target = req[q].target
      BY <2>5, RequestMoves
    <3> QED BY <2>5, <3>1 DEF Targeted, Alone, Holder
  <2>6. CASE req[r].pc \in Holder /\ flag' = flag /\ req' = [req EXCEPT ![r] = NoReq]
    <3>1. /\ \A q \in Request : req'[q].pc = IF q = r THEN "none" ELSE req[q].pc
          /\ \A q \in Request : q # r => req'[q].target = req[q].target
      BY <2>6, RequestMoves
    <3> QED BY <2>6, <3>1 DEF Targeted, Alone, Holder
  <2> QED BY <1>3, <2>1, <2>2, <2>3, <2>4, <2>5, <2>6, RequestTurns
<1>4. [UpNext]_upVars => (req' = req /\ flag' = flag) \/ Forget \/ \E r \in Request : RequestStep(r)
  <2>1. CASE UNCHANGED upVars
    BY <2>1 DEF upVars, service
  <2>2. CASE UpNext
    BY <2>2, CommandsLeave DEF UpNext, RequestNext, RequestStep, HubCrash, HubStart
  <2> QED BY <2>1, <2>2
<1> QED BY <1>1, <1>2, <1>3, <1>4

\* ReadAgain after try_begin, and the unit's name: one submission at a time.
LEMMA RoutedKept ==
  ASSUME UpBase, SubInv, [UpNext]_upVars
  PROVE  "reports" \in marks' \/ Routed'
<1>1. marks \subseteq marks'
  <2>1. CASE UNCHANGED upVars \/ RequestNext \/ HubCrash \/ HubStart
    BY <2>1, RequestsLeave DEF upVars, HubCrash, HubStart
  <2>2. CASE CommandNext
    <3>1. (\E kind \in DOMAIN Script, t \in Release, reports \in BOOLEAN : Shell(kind, t, reports))
          \/ UnitLocks => marks \subseteq marks'
      BY DEF Shell, UnitLocks
    <3> QED BY <2>2, <3>1, WorksOrEnds DEF Works, Ends
  <2> QED BY <2>1, <2>2 DEF UpNext
<1>2. CASE "reports" \in marks
  BY <1>1, <1>2
<1>3. ASSUME Routed
      PROVE  "reports" \in marks' \/ Routed'
  <2>1. CASE UNCHANGED upVars
    <3>1. req' = req /\ unit' = unit /\ record' = record /\ job' = job
      BY <2>1 DEF upVars, service
    <3> QED BY <1>3, <3>1 DEF Routed, Unfinished
  <2>2. ASSUME NEW r \in Request, RequestStep(r)
        PROVE  Routed'
    <3>1. job' = job /\ (Unfinished' <=> Unfinished)
      <4>1. RequestNext
        BY <2>2 DEF RequestNext, RequestStep
      <4> QED BY <4>1, RequestsLeave DEF Unfinished
    <3>2. /\ Alone /\ \A q \in Request : req[q].pc \in Past => unit = None /\ ~Unfinished
          /\ unit # None \/ Unfinished => record = "running"
          /\ unit # None => job = None \/ job.by # "unit"
          /\ \A q \in Request : req[q].pc \in {"written", "spawned"} => record = "running"
          /\ job # None /\ job.reports => job.by = "unit"
      BY <1>3 DEF SubInv, Routed
    <3>3. ASSUME /\ \A q \in Request : req'[q].pc \in Past => unit' = None /\ ~Unfinished
                 /\ unit' # None \/ Unfinished => record' = "running"
                 /\ unit' # None => job = None \/ job.by # "unit"
                 /\ \A q \in Request : req'[q].pc \in {"written", "spawned"} => record' = "running"
          PROVE  Routed'
      BY <3>1, <3>2, <3>3 DEF Routed
    <3>4. ASSUME NEW t \in Release, Ask(r, t)
          PROVE  Routed'
      <4>1. \A q \in Request : req'[q].pc = IF q = r THEN "checked" ELSE req[q].pc
        BY <3>4, RequestMoves DEF Ask
      <4>2. record' = record /\ unit' = unit
        BY <3>4 DEF Ask, KeepHub
      <4> QED BY <3>2, <3>3, <4>1, <4>2 DEF Past
    <3>5. CASE TryBegin(r)
      <4>1. \E pc \in {"none", "holding"} : \A q \in Request : req'[q].pc = IF q = r THEN pc ELSE req[q].pc
        BY <3>5, RequestMoves DEF TryBegin
      <4>2. record' = record /\ unit' = unit
        BY <3>5 DEF TryBegin, KeepHub
      <4> QED BY <3>2, <3>3, <4>1, <4>2 DEF Past
    <3>6. CASE ReadAgain(r)
      <4>1. record' = record /\ unit' = unit /\ req[r].pc = "holding"
        BY <3>6 DEF ReadAgain, KeepHub, At
      <4>2. CASE Leave(r)
        <5>1. \A q \in Request : req'[q].pc = IF q = r THEN "none" ELSE req[q].pc
          BY <4>2, RequestMoves DEF Leave
        <5> QED BY <3>2, <3>3, <4>1, <5>1 DEF Past
      <4>3. CASE ~InProgress /\ Go(r, "clear")
        <5>1. \A q \in Request : req'[q].pc = IF q = r THEN "clear" ELSE req[q].pc
          BY <4>3, RequestMoves
        <5>2. unit = None /\ ~Unfinished
          BY <3>2, <4>3 DEF InProgress
        <5> QED BY <3>2, <3>3, <4>1, <5>1, <5>2 DEF Past
      <4> QED BY <3>6, <4>2, <4>3 DEF ReadAgain
    <3>7. CASE WriteRunning(r)
      <4>1. unit' = unit /\ req[r].pc = "clear"
        BY <3>7 DEF WriteRunning, KeepHub, At
      <4>2. \/ record' = "running" /\ \A q \in Request : req'[q].pc = IF q = r THEN "written" ELSE req[q].pc
            \/ record' = record /\ \A q \in Request : req'[q].pc = IF q = r THEN "none" ELSE req[q].pc
        BY <3>7, RequestMoves DEF WriteRunning, Leave
      <4> QED BY <3>2, <3>3, <4>1, <4>2 DEF Past
    <3>8. CASE Spawn(r)
      <4>1. unit' = unit /\ req[r].pc = "written" /\ record' = record
        BY <3>8 DEF Spawn, KeepHub, At
      <4>2. \E pc \in {"spawned", "unspawned"} : \A q \in Request : req'[q].pc = IF q = r THEN pc ELSE req[q].pc
        BY <3>8, RequestMoves DEF Spawn
      <4> QED BY <3>2, <3>3, <4>1, <4>2 DEF Past
    <3>9. CASE Launch(r)
      <4>1. req[r].pc = "spawned" /\ record' = record
        BY <3>9 DEF Launch, At
      <4>2. CASE unit' = req[r].target /\ Leave(r) /\ ~UnitBusy
        <5>1. \A q \in Request : req'[q].pc = IF q = r THEN "none" ELSE req[q].pc
          BY <4>2, RequestMoves DEF Leave
        <5>2. \A q \in Request : req[q].pc \in Holder => q = r
          BY <3>2, <4>1 DEF Alone, Holder
        <5>3. \A q \in Request : req'[q].pc \notin Past
          BY <5>1, <5>2 DEF Past, Holder
        <5>4. record = "running"
          BY <3>2, <4>1
        <5>5. job = None \/ job.by # "unit"
          BY <4>2 DEF UnitBusy
        <5> QED BY <3>3, <4>1, <5>3, <5>4, <5>5 DEF Past
      <4>3. CASE unit' = unit /\ Go(r, "refused")
        <5>1. \A q \in Request : req'[q].pc = IF q = r THEN "refused" ELSE req[q].pc
          BY <4>3, RequestMoves
        <5> QED BY <3>2, <3>3, <4>1, <4>3, <5>1 DEF Past
      <4> QED BY <3>9, <4>2, <4>3 DEF Launch
    <3>10. CASE ReadResult(r)
      <4>1. unit' = unit /\ req[r].pc = "refused" /\ record' = record
        BY <3>10 DEF ReadResult, KeepHub, At
      <4>2. \E pc \in {"none", "failing"} : \A q \in Request : req'[q].pc = IF q = r THEN pc ELSE req[q].pc
        BY <3>10, RequestMoves DEF ReadResult, Leave
      <4> QED BY <3>2, <3>3, <4>1, <4>2 DEF Past
    <3>11. CASE WriteFailed(r)
      <4>1. unit' = unit /\ req[r].pc \in {"failing", "unspawned"}
        BY <3>11 DEF WriteFailed, KeepHub, At
      <4>2. \A q \in Request : req'[q].pc = IF q = r THEN "none" ELSE req[q].pc
        BY <3>11, RequestMoves DEF WriteFailed, Leave
      <4>3. \A q \in Request : req[q].pc \in Holder => q = r
        BY <3>2, <4>1 DEF Alone, Holder
      <4>4. \A q \in Request : req'[q].pc \notin Past
        BY <4>2, <4>3 DEF Past, Holder
      <4>5. unit = None /\ ~Unfinished
        BY <3>2, <4>1 DEF Past
      <4> QED BY <3>3, <4>1, <4>4, <4>5 DEF Past
    <3>12. CASE Drop(r)
      <4>1. unit' = unit /\ \A q \in Request : req'[q].pc = IF q = r THEN "none" ELSE req[q].pc
        BY <3>12, RequestMoves DEF Drop, KeepHub
      <4>2. CASE record' = record
        BY <3>2, <3>3, <4>1, <4>2 DEF Past
      <4>3. CASE req[r].pc \in Past
        <5>1. \A q \in Request : req[q].pc \in Holder => q = r
          BY <3>2, <4>3 DEF Alone, Holder, Past
        <5>2. \A q \in Request : req'[q].pc \notin Past
          BY <4>1, <5>1 DEF Past, Holder
        <5>3. unit = None /\ ~Unfinished
          BY <3>2, <4>3
        <5> QED BY <3>3, <4>1, <5>2, <5>3 DEF Past
      <4> QED BY <3>12, <4>2, <4>3 DEF Drop, At, Past
    <3> QED BY <2>2, <3>4, <3>5, <3>6, <3>7, <3>8, <3>9, <3>10, <3>11, <3>12 DEF RequestStep
  <2>3. CASE HubCrash \/ HubStart
    <3>1. job' = job /\ record' = record /\ unit' = unit
      BY <2>3 DEF HubCrash, HubStart
    <3>2. \A q \in Request : req'[q].pc \in {"none", req[q].pc}
      BY <2>3, Forgotten DEF HubCrash, HubStart
    <3> QED BY <1>3, <3>1, <3>2 DEF Routed, Unfinished, Past
  <2>4. CASE CommandNext
    <3>0. \A q \in Request : req'[q].pc \in {"none", req[q].pc}
      BY <2>4, CommandsLeave, Forgotten
    <3>1. ASSUME NEW kind \in DOMAIN Script, NEW t \in Release, NEW reports \in BOOLEAN, Shell(kind, t, reports)
          PROVE  "reports" \in marks' \/ Routed'
      <4>1. CASE reports
        BY <3>1, <4>1 DEF Shell
      <4>2. CASE ~reports
        <5>1. kind \in {"upgrade", "install", "rollback"} /\ job' = Job(kind, "shell", t, reports)
              /\ job = None /\ unit' = unit /\ record' = record
          BY <3>1 DEF Shell, Script
        <5>2. Begun(kind, "shell", t, reports)
          BY <4>2, <5>1, Begins DEF UpBase
        <5>3. job'.by = "shell" /\ ~job'.reports
          BY <4>2, <5>2 DEF Begun
        <5> QED BY <1>3, <3>0, <5>1, <5>3 DEF Routed, Unfinished, Past
      <4> QED BY <4>1, <4>2
    <3>2. CASE UnitLocks
      <4>1. unit # None /\ unit' = None /\ record' = record
        BY <3>2 DEF UnitLocks
      <4>2. record = "running" /\ \A q \in Request : req'[q].pc \notin Past
        BY <1>3, <3>0, <4>1 DEF Routed, Past
      <4>3. CASE job = None
        <5>1. unit \in Release /\ job' = Job("upgrade", "unit", unit, TRUE)
          BY <3>2, <4>3 DEF UnitLocks, UpBase, UpTypeOK
        <5>2. Begun("upgrade", "unit", unit, TRUE)
          BY <5>1, Begins DEF UpBase
        <5> QED BY <4>1, <4>2, <5>2 DEF Routed, Begun, Past
      <4>4. CASE job # None
        <5>1. job' = job
          BY <3>2, <4>4 DEF UnitLocks
        <5> QED BY <1>3, <4>1, <4>2, <5>1 DEF Routed, Past, Unfinished
      <4> QED BY <4>3, <4>4
    <3>3. CASE Works
      <4>1. job # None /\ job' # None /\ job'.reports = job.reports /\ job'.by = job.by /\ unit' = unit
            /\ Step # "exit"
        BY <3>3 DEF Works, Kept
      <4>2. Unfinished' => Unfinished
        BY <4>1 DEF Unfinished, Step
      <4>3. job.reports => job.by = "unit" /\ Unfinished /\ record = "running" /\ unit = None
        BY <1>3, <4>1 DEF Routed, Unfinished, Step
      <4>4. CASE record' = record
        BY <1>3, <3>0, <4>1, <4>2, <4>4 DEF Routed, Past
      <4>5. CASE record' # record
        <5>1. job.reports /\ (record' = "running" \/ Step' = "exit")
          BY <3>3, <4>5 DEF Works, Say
        <5>2. \A q \in Request : req'[q].pc \notin Past
          BY <1>3, <3>0, <4>3, <5>1 DEF Routed, Past
        <5>3. Unfinished' => record' = "running"
          BY <5>1 DEF Unfinished, Step
        <5> QED BY <4>1, <4>3, <5>1, <5>2, <5>3 DEF Routed, Past
      <4> QED BY <4>4, <4>5
    <3>4. CASE Ends
      <4>1. job' = None /\ unit' = unit /\ record' = record
        BY <3>4 DEF Ends
      <4> QED BY <1>3, <3>0, <4>1 DEF Routed, Past, Unfinished
    <3> QED BY <2>4, <3>1, <3>2, <3>3, <3>4, WorksOrEnds
  <2> QED BY <2>1, <2>2, <2>3, <2>4 DEF UpNext, RequestNext, RequestStep
<1> QED BY <1>2, <1>3 DEF SubInv

\* What OneSubmission counts is at most one in a state of SubInv.
LEMMA OneAtATime ==
  ASSUME SubInv
  PROVE  OneSubmission
<1>1. CASE "reports" \in marks
  BY <1>1 DEF OneSubmission
<1>2. CASE Routed
  <2>1. \A r, q \in Accepted : r = q
    BY DEF SubInv, Alone, Accepted, Holder
  <2>2. Cardinality(Accepted) \in {0, 1} /\ (Cardinality(Accepted) = 1 => \E r \in Request : r \in Accepted)
    <3>1. CASE Accepted = {}
      BY <3>1, FS_EmptySet
    <3>2. ASSUME NEW r \in Accepted
          PROVE  Cardinality(Accepted) = 1 /\ r \in Request
      <4>1. Accepted = {r}
        BY <2>1
      <4>2. r \in Request
        BY DEF Accepted
      <4> QED BY <4>1, <4>2, FS_Singleton
    <3> QED BY <3>1, <3>2
  <2>3. \A r \in Accepted : unit = None /\ ~Unfinished
    BY <1>2 DEF Routed, Accepted, Past
  <2>4. ~(unit # None /\ Unfinished)
    BY <1>2 DEF Routed, Unfinished
  <2> DEFINE u == IF unit # None THEN 1 ELSE 0
             f == IF Unfinished THEN 1 ELSE 0
  <2>5. /\ u \in {0, 1} /\ f \in {0, 1} /\ ~(u = 1 /\ f = 1)
        /\ Cardinality(Accepted) = 1 => u = 0 /\ f = 0
    BY <2>2, <2>3, <2>4
  <2>6. OneSubmission <=> "reports" \in marks \/ Cardinality(Accepted) + u + f <= 1
    BY DEF OneSubmission
  <2> HIDE DEF u, f
  <2>7. Cardinality(Accepted) + u + f <= 1
    BY <2>2, <2>5
  <2> QED BY <2>6, <2>7
<1> QED BY <1>1, <1>2 DEF SubInv
-----------------------------------------------------------------------------
\* The steps before the binary is replaced; those after the console is.
FirstSteps == {"resolve", "plan", "prepare", "copyBin", "copyWeb", "stop", "announce", "placeBin"}
LastSteps == {"verify", "start", "settle", "prune", "finish", "exit"}

\* What an upgrade has done to the files and to the service when it gets to a step.
Forward ==
  /\ Step \in FirstSteps => binary = job.before.bin /\ web = job.before.web
  /\ Step \notin {"resolve", "plan", "prepare", "copyBin"} => job.oldBin = job.before.bin
  /\ Step \notin {"resolve", "plan", "prepare", "copyBin", "copyWeb"} => job.oldWeb = job.before.web
  /\ Step \notin FirstSteps => binary = job.target
  /\ Step \in LastSteps => web = job.target
  /\ Step \in {"settle", "prune", "finish", "exit"} /\ job.was => wanted /\ hub \in {None, job.target}
\* What recover has put back when it gets to a step.
Backward ==
  /\ job.oldBin = job.before.bin /\ job.oldWeb = job.before.web
  /\ Step \notin {"dropBin", "backBin"} => binary = job.before.bin
  /\ Step \in LastSteps => web = job.before.web
  /\ Step \in {"settle", "finish", "exit"} /\ job.was => wanted

\* An upgrade that succeeds so far, one with nothing to do, one that goes back.
UpgradeInv ==
  job # None /\ job.kind = "upgrade" =>
    /\ job.outcome = "succeeded" /\ ~job.skipped => Forward
    /\ job.skipped => binary = job.target /\ binary = job.before.bin /\ web = job.before.web
    /\ job.outcome = "rolled_back" => Backward

\* A step that touches neither the files nor the service keeps UpgradeInv.
LEMMA UpgradeQuiet ==
  ASSUME UpBase, UpgradeInv, Passed(Step), Same3, UNCHANGED <<binary, web, wanted, hub>>,
         Step \in {"resolve", "plan", "prepare", "announce", "verify", "settle", "prune", "finish"}
  PROVE  UpgradeInv'
<1>1. /\ job'.kind = job.kind /\ job'.outcome = job.outcome /\ job'.skipped = job.skipped
      /\ job'.target = job.target /\ job'.before = job.before
      /\ job'.was = job.was /\ job'.oldBin = job.oldBin /\ job'.oldWeb = job.oldWeb
      /\ Step' = NextStep /\ job # None
  BY DEF Passed, Carried, Kept, Same3
<1>2. CASE job.kind = "upgrade" /\ job.outcome = "succeeded" /\ ~job.skipped
  <2>1. Forward /\ Step' = AfterUpgrading(Step)
    BY <1>1, <1>2 DEF UpgradeInv, NextStep
  <2>2. Forward'
    BY <1>1, <2>1 DEF Forward, FirstSteps, LastSteps, AfterUpgrading
  <2> QED BY <1>1, <1>2, <2>2 DEF UpgradeInv
<1>3. CASE job.kind = "upgrade" /\ job.outcome = "rolled_back" /\ ~job.skipped
  <2>1. Backward /\ Step' = AfterRecovering(Step) /\ Step \in Recoverings
    BY <1>1, <1>3, Whereabouts DEF UpgradeInv, NextStep
  <2>2. Backward'
    BY <1>1, <2>1 DEF Backward, LastSteps, AfterRecovering, Recoverings
  <2> QED BY <1>1, <1>3, <2>2 DEF UpgradeInv
<1>4. CASE job.kind = "upgrade" /\ job.skipped
  <2>1. job.outcome = "succeeded"
    BY <1>1, <1>4 DEF UpBase, JobOK
  <2> QED BY <1>1, <1>4, <2>1 DEF UpgradeInv
<1> QED BY <1>1, <1>2, <1>3, <1>4 DEF UpgradeInv

\* A step that fails keeps UpgradeInv.
LEMMA UpgradeFails ==
  ASSUME UpBase, UpgradeInv, job # None, Step \notin {"stop", "exit"}, job' = Failed,
         Step = "finish" => UNCHANGED <<binary, web>>, UNCHANGED <<wanted, hub>>
  PROVE  UpgradeInv'
<1>1. /\ job'.kind = job.kind /\ job'.skipped = job.skipped
      /\ job'.target = job.target /\ job'.before = job.before
      /\ job'.was = job.was /\ job'.oldBin = job.oldBin /\ job'.oldWeb = job.oldWeb
  BY FailsTo DEF Turned, Kept
<1>2. CASE Step = "finish"
  <2>1. job'.outcome = job.outcome /\ Step' = "exit"
    BY <1>2, FailsTo
  <2>2. Forward => Forward'
    BY <1>1, <1>2, <2>1 DEF Forward, FirstSteps, LastSteps
  <2>3. Backward => Backward'
    BY <1>1, <1>2, <2>1 DEF Backward, LastSteps
  <2> QED BY <1>1, <1>2, <2>1, <2>2, <2>3 DEF UpgradeInv
<1>3. CASE Step # "finish" /\ job.kind = "upgrade"
  <2>1. ~job.skipped
    BY <1>3 DEF UpBase, JobOK
  <2>2. CASE FailsBack
    <3>1. Step' = "dropBin" /\ job'.outcome = "rolled_back" /\ Forward
      BY <1>3, <2>1, <2>2, FailsTo DEF UpgradeInv, FailsBack
    <3>2. Backward'
      BY <1>1, <2>2, <3>1 DEF Forward, Backward, LastSteps, FailsBack
    <3> QED BY <1>1, <2>1, <3>1, <3>2 DEF UpgradeInv
  <2>3. CASE ~FailsBack
    <3>1. job'.outcome = "failed"
      BY <1>3, <2>3, FailsTo
    <3> QED BY <1>1, <2>1, <3>1 DEF UpgradeInv
  <2> QED BY <2>2, <2>3
<1>4. CASE job.kind # "upgrade"
  BY <1>1, <1>4 DEF UpgradeInv
<1> QED BY <1>2, <1>3, <1>4

\* Every step keeps UpgradeInv.
LEMMA UpgradeKept ==
  ASSUME UpBase, UpgradeInv, [UpNext]_upVars
  PROVE  UpgradeInv'
<1>1. CASE UNCHANGED <<job, binary, web, wanted, hub>>
  <2>1. (Forward <=> Forward') /\ (Backward <=> Backward')
    BY <1>1 DEF Forward, Backward, Step
  <2> QED BY <1>1, <2>1 DEF UpgradeInv
<1>2. CASE HubCrash
  <2>1. UNCHANGED <<job, binary, web, wanted>> /\ hub' = None
    BY <1>2 DEF HubCrash, files
  <2>2. (Forward => Forward') /\ (Backward <=> Backward')
    BY <2>1 DEF Forward, Backward, Step
  <2> QED BY <2>1, <2>2 DEF UpgradeInv
<1>3. CASE HubStart
  <2>1. UNCHANGED <<job, binary, web, wanted>> /\ hub' = binary
    BY <1>3 DEF HubStart, files
  <2>2. (Forward => Forward') /\ (Backward <=> Backward')
    BY <2>1 DEF Forward, Backward, Step, FirstSteps
  <2> QED BY <2>1, <2>2 DEF UpgradeInv
<1>4. ASSUME NEW kind, NEW by, NEW t, NEW reports, Begun(kind, by, t, reports), UNCHANGED <<binary, web>>
      PROVE  UpgradeInv'
  BY <1>4 DEF Begun, UpgradeInv, Forward, FirstSteps, LastSteps
<1>5. ASSUME NEW kind \in DOMAIN Script, NEW t \in Release, NEW reports \in BOOLEAN, Shell(kind, t, reports)
      PROVE  UpgradeInv'
  <2>1. kind \in {"upgrade", "install", "rollback"} /\ job' = Job(kind, "shell", t, reports)
        /\ (reports => kind = "upgrade") /\ UNCHANGED <<binary, web>>
    BY <1>5 DEF Shell, Script, files
  <2>2. Begun(kind, "shell", t, reports)
    BY <2>1, Begins DEF UpBase
  <2> QED BY <1>4, <2>1, <2>2
<1>6. CASE UnitLocks
  <2>1. UNCHANGED <<binary, web, wanted, hub>>
    BY <1>6 DEF UnitLocks, files, service
  <2>2. CASE job = None
    <3>1. unit \in Release /\ job' = Job("upgrade", "unit", unit, TRUE)
      BY <1>6, <2>2 DEF UnitLocks, UpBase, UpTypeOK
    <3>2. Begun("upgrade", "unit", unit, TRUE)
      BY <3>1, Begins DEF UpBase
    <3> QED BY <1>4, <2>1, <3>2
  <2>3. CASE job # None
    BY <1>1, <1>6, <2>1, <2>3 DEF UnitLocks
  <2> QED BY <2>2, <2>3
<1>7. CASE Resolve \/ Announce \/ Verify \/ Finish \/ PruneCopies
  <2>1. Passed(Step) /\ Same3 /\ Step \in {"resolve", "announce", "verify", "finish", "prune"}
    BY <1>7, Passes DEF Passed
  <2>2. UNCHANGED <<binary, web, wanted, hub>>
    BY <1>7 DEF Resolve, Announce, Verify, Finish, PruneCopies, KeepService, files, service
  <2> QED BY <2>1, <2>2, UpgradeQuiet
<1>8. CASE Plan
  <2>1. UNCHANGED <<binary, web, wanted, hub>>
    BY <1>8 DEF Plan, KeepService, files, service
  <2>2. job # None /\ Step = "plan" /\ job.kind = "upgrade" /\ job.outcome = "succeeded"
    BY <1>8, Plans
  <2>3. ~job.skipped /\ Forward
    BY <2>2 DEF UpBase, JobOK, UpgradeInv
  <2>4. CASE binary = job.target /\ Kept(job') /\ job'.outcome = "succeeded" /\ job'.skipped = TRUE
    BY <2>1, <2>2, <2>3, <2>4 DEF UpgradeInv, Kept, Forward, FirstSteps
  <2>5. CASE Passed("plan") /\ Same3
    BY <2>1, <2>2, <2>5, UpgradeQuiet DEF Passed
  <2>6. CASE Turned(job', <<"finish", "exit">>, "failed")
    <3>1. job'.outcome = "failed" /\ job'.skipped = job.skipped
      BY <2>6 DEF Turned
    <3> QED BY <2>3, <3>1 DEF UpgradeInv
  <2> QED BY <1>8, <2>4, <2>5, <2>6, Plans
<1>9. CASE Prepare
  <2>1. Passed(Step) /\ Same3 /\ Step = "prepare" /\ UNCHANGED <<wanted, hub>>
        /\ (job.kind = "upgrade" => UNCHANGED <<binary, web>>)
    BY <1>9, Passes DEF Passed, Prepare, KeepService, service
  <2>2. CASE job.kind = "upgrade"
    BY <2>1, <2>2, UpgradeQuiet
  <2>3. CASE job.kind # "upgrade"
    BY <2>1, <2>3 DEF UpgradeInv, Passed, Carried, Kept
  <2> QED BY <2>2, <2>3
<1>10. ASSUME NEW s, Passed(s), job.kind # "upgrade"
       PROVE  UpgradeInv'
  BY <1>10 DEF UpgradeInv, Passed, Carried, Kept
<1>11. ASSUME NEW s, Passed(s), job.kind = "upgrade"
       PROVE  /\ job # None /\ Step = s /\ job'.kind = "upgrade" /\ job'.outcome = job.outcome
              /\ job'.skipped = job.skipped /\ job'.target = job.target /\ job'.before = job.before
              /\ job.outcome = "succeeded" => Step' = AfterUpgrading(s)
              /\ job.outcome # "succeeded" => Step' = AfterRecovering(s) /\ s \in Recoverings
              /\ s \notin {"finish", "exit"} => ~job.skipped
  <2>1. /\ job # None /\ Step = s /\ job'.kind = "upgrade" /\ job'.outcome = job.outcome
        /\ job'.skipped = job.skipped /\ job'.target = job.target /\ job'.before = job.before
        /\ Step' = NextStep
    BY <1>11 DEF Passed, Carried, Kept
  <2>2. s \notin {"finish", "exit"} => ~job.skipped
    BY <2>1 DEF UpBase, JobOK
  <2> QED BY <1>11, <2>1, <2>2, Whereabouts DEF NextStep
<1>12. CASE CopyBin
  <2>1. Passed("copyBin") /\ job'.was = job.was /\ job'.oldBin = binary /\ job'.oldWeb = job.oldWeb
        /\ UNCHANGED <<binary, web, wanted, hub>>
    BY <1>12, Passes DEF CopyBin, KeepService, service
  <2>2. CASE job.kind = "upgrade"
    <3>1. job.outcome = "succeeded" /\ ~job.skipped /\ Forward /\ Step' = "copyWeb" /\ Step = "copyBin"
      BY <1>11, <2>1, <2>2 DEF UpgradeInv, Recoverings, AfterUpgrading
    <3>2. Forward'
      BY <1>11, <2>1, <2>2, <3>1 DEF Forward, FirstSteps, LastSteps
    <3> QED BY <1>11, <2>1, <2>2, <3>1, <3>2 DEF UpgradeInv
  <2> QED BY <1>10, <2>1, <2>2
<1>13. CASE CopyWeb
  <2>1. Passed("copyWeb") /\ job'.was = job.was /\ job'.oldBin = job.oldBin /\ job'.oldWeb = web
        /\ UNCHANGED <<binary, web, wanted, hub>>
    BY <1>13, Passes DEF CopyWeb, KeepService, service
  <2>2. CASE job.kind = "upgrade"
    <3>1. job.outcome = "succeeded" /\ ~job.skipped /\ Forward /\ Step' = "stop" /\ Step = "copyWeb"
      BY <1>11, <2>1, <2>2 DEF UpgradeInv, Recoverings, AfterUpgrading
    <3>2. Forward'
      BY <1>11, <2>1, <2>2, <3>1 DEF Forward, FirstSteps, LastSteps
    <3> QED BY <1>11, <2>1, <2>2, <3>1, <3>2 DEF UpgradeInv
  <2> QED BY <1>10, <2>1, <2>2
<1>14. CASE Stop \/ StopUnseen
  <2>1. Passed("stop") /\ job'.oldBin = job.oldBin /\ job'.oldWeb = job.oldWeb
        /\ UNCHANGED <<binary, web>>
    BY <1>14, Passes DEF Stop, StopUnseen, files
  <2>2. CASE job.kind = "upgrade"
    <3>1. job.outcome = "succeeded" /\ ~job.skipped /\ Forward /\ Step' = "announce" /\ Step = "stop"
      BY <1>11, <2>1, <2>2 DEF UpgradeInv, Recoverings, AfterUpgrading
    <3>2. Forward'
      BY <1>11, <2>1, <2>2, <3>1 DEF Forward, FirstSteps, LastSteps
    <3> QED BY <1>11, <2>1, <2>2, <3>1, <3>2 DEF UpgradeInv
  <2> QED BY <1>10, <2>1, <2>2
<1>15. CASE Place
  <2>1. Passed(Step) /\ Same3 /\ UNCHANGED <<wanted, hub>>
        /\ Step \in {"placeBin", "clearWeb", "placeWeb", "dropBin", "backBin", "dropWeb", "backWeb"}
    BY <1>15, Passes DEF Place, AtStep, Step, KeepService, service
  <2>2. /\ Step = "placeBin" => binary' = job.target /\ web' = web
        /\ Step = "clearWeb" => web' = None /\ binary' = binary
        /\ Step = "placeWeb" => web' = job.target /\ binary' = binary
        /\ Step = "dropBin" => binary' = None /\ web' = web
        /\ Step = "backBin" => binary' = job.oldBin /\ web' = web
        /\ Step = "dropWeb" => web' = None /\ binary' = binary
        /\ Step = "backWeb" => web' = job.oldWeb /\ binary' = binary
    BY <1>15 DEF Place, AtStep, Step
  <2>3. CASE job.kind = "upgrade" /\ job.outcome = "succeeded"
    <3>1. ~job.skipped /\ Forward /\ Step' = AfterUpgrading(Step)
          /\ Step \in {"placeBin", "clearWeb", "placeWeb"}
      BY <1>11, <2>1, <2>3, Whereabouts DEF UpgradeInv
    <3>2. Forward'
      BY <1>11, <2>1, <2>2, <2>3, <3>1 DEF Forward, FirstSteps, LastSteps, AfterUpgrading, Same3
    <3> QED BY <1>11, <2>1, <2>3, <3>1, <3>2 DEF UpgradeInv
  <2>4. CASE job.kind = "upgrade" /\ job.outcome = "rolled_back"
    <3>1. ~job.skipped /\ Backward /\ Step' = AfterRecovering(Step)
          /\ Step \in {"dropBin", "backBin", "dropWeb", "backWeb"}
      BY <1>11, <2>1, <2>4 DEF UpgradeInv, Recoverings
    <3>2. Backward'
      BY <1>11, <2>1, <2>2, <2>4, <3>1 DEF Backward, LastSteps, AfterRecovering, Same3
    <3> QED BY <1>11, <2>1, <2>4, <3>1, <3>2 DEF UpgradeInv
  <2>5. CASE job.kind = "upgrade" /\ job.outcome \notin {"succeeded", "rolled_back"}
    BY <1>11, <2>1, <2>5 DEF UpgradeInv
  <2> QED BY <1>10, <2>1, <2>3, <2>4, <2>5
<1>16. CASE Start
  <2>1. Passed("start") /\ Same3 /\ UNCHANGED <<binary, web>>
    BY <1>16, Passes DEF Start, files
  <2>2. IF job.was THEN wanted' = TRUE /\ hub' = IF binary \in Release THEN binary ELSE None
        ELSE wanted' = wanted /\ hub' = hub
    BY <1>16 DEF Start, KeepService, service
  <2>3. CASE job.kind = "upgrade" /\ job.outcome = "succeeded"
    <3>1. ~job.skipped /\ Forward /\ Step' = "settle" /\ Step = "start"
      BY <1>11, <2>1, <2>3 DEF UpgradeInv, AfterUpgrading
    <3>2. Forward'
      BY <1>11, <2>1, <2>2, <2>3, <3>1 DEF Forward, FirstSteps, LastSteps, Same3
    <3> QED BY <1>11, <2>1, <2>3, <3>1, <3>2 DEF UpgradeInv
  <2>4. CASE job.kind = "upgrade" /\ job.outcome = "rolled_back"
    <3>1. ~job.skipped /\ Backward /\ Step' = "settle" /\ Step = "start"
      BY <1>11, <2>1, <2>4 DEF UpgradeInv, AfterRecovering
    <3>2. Backward'
      BY <1>11, <2>1, <2>2, <2>4, <3>1 DEF Backward, LastSteps, Same3
    <3> QED BY <1>11, <2>1, <2>4, <3>1, <3>2 DEF UpgradeInv
  <2>5. CASE job.kind = "upgrade" /\ job.outcome \notin {"succeeded", "rolled_back"}
    BY <1>11, <2>1, <2>5 DEF UpgradeInv
  <2> QED BY <1>10, <2>1, <2>3, <2>4, <2>5
<1>17. CASE Settle
  <2>1. UNCHANGED <<binary, web, wanted, hub>>
    BY <1>17 DEF Settle, KeepService, files, service
  <2>2. job # None /\ Step = "settle"
    BY <1>17, Settles
  <2> QED BY <1>17, <2>1, <2>2, Settles, UpgradeQuiet, UpgradeFails
<1>18. CASE Choose
  BY <1>10, <1>18, Chooses DEF UpgradeInv, Turned, Kept
<1>19. CASE StepFails
  BY <1>19, UpgradeFails DEF StepFails, Step, KeepService, service, files, Cuttable
<1>20. CASE Exit \/ Kill
  BY <1>20 DEF Exit, Kill, UpgradeInv
<1>21. CASE RequestNext \/ UNCHANGED upVars
  BY <1>1, <1>21, RequestsLeave DEF upVars, files, service
<1> QED BY <1>2, <1>3, <1>5, <1>6, <1>7, <1>8, <1>9, <1>12, <1>13, <1>14, <1>15, <1>16, <1>17, <1>18,
           <1>19, <1>20, <1>21 DEF UpNext, CommandNext
-----------------------------------------------------------------------------
\* What a step that passes leaves as it was, and what comes after it.
LEMMA PassedIs ==
  ASSUME UpBase, NEW s, Passed(s)
  PROVE  /\ job # None /\ job' # None /\ Step = s
         /\ job'.kind = job.kind /\ job'.outcome = job.outcome /\ job'.skipped = job.skipped
         /\ job'.target = job.target /\ job'.before = job.before
         /\ job.kind = "upgrade" /\ job.outcome = "succeeded" => Step' = AfterUpgrading(s)
         /\ job.kind = "upgrade" /\ job.outcome # "succeeded" =>
              Step' = AfterRecovering(s) /\ s \in Recoverings
         /\ job.kind = "install" => Step' = AfterInstalling(s)
         /\ job.kind = "rollback" => Step' = AfterRollingBack(s)
         /\ s \notin {"finish", "exit"} => ~job.skipped
<1>1. /\ job # None /\ Step = s /\ job'.kind = job.kind /\ job'.outcome = job.outcome
      /\ job'.skipped = job.skipped /\ job'.target = job.target /\ job'.before = job.before
      /\ Step' = NextStep /\ job' # None
  BY DEF Passed, Carried, Kept
<1>2. s \notin {"finish", "exit"} => ~job.skipped
  BY <1>1 DEF UpBase, JobOK
<1> QED BY <1>1, <1>2, Whereabouts DEF NextStep

\* The steps that replace a file.
Placing == {"placeBin", "clearWeb", "placeWeb", "dropBin", "backBin", "dropWeb", "backWeb"}

\* One release; what has parted the binary and the console for good.
Paired == binary = web /\ binary # None
Spoilt == marks \cap {"killed", "broken", "unpaired"} # {}

\* What a command at work needs to know to leave one release.
WholeJob ==
  /\ job.kind = "upgrade" =>
       /\ job.before.bin = job.before.web /\ job.before.bin # None
       /\ job.outcome = "failed" => Step \in {"finish", "exit"} /\ Paired
  /\ job.kind = "install" =>
       IF Step \in {"clearWeb", "placeWeb"} THEN binary = job.target ELSE Paired
  /\ job.kind = "rollback" =>
       /\ Step \in {"choose", "stop", "dropBin", "start", "settle", "exit"} => Paired
       /\ Step \notin {"choose", "exit"} => job.oldBin = job.oldWeb /\ job.oldBin # None
       /\ Step \in {"dropWeb", "backWeb"} => binary = job.oldBin

\* The binary and the console, unless something has parted them for good.
WholeInv == Spoilt \/ IF job = None THEN Paired ELSE WholeJob

\* A step that leaves the files alone keeps WholeJob.
LEMMA WholeQuiet ==
  ASSUME UpBase, WholeJob, Passed(Step), UNCHANGED <<binary, web>>, Step \notin Placing \cup {"choose", "exit"},
         job.kind = "rollback" => job'.oldBin = job.oldBin /\ job'.oldWeb = job.oldWeb
  PROVE  WholeJob'
<1>1. job.kind \in {"upgrade", "install", "rollback"}
  BY PassedIs, Whereabouts
<1>2. CASE job.kind = "upgrade"
  <2>1. job.outcome = "failed" => Step \in {"finish", "exit"} /\ Paired
    BY <1>2 DEF WholeJob
  <2>2. job.outcome = "failed" => Step' \in {"finish", "exit"}
    <3>1. job.outcome = "failed" => Step = "finish" /\ Step' = AfterRecovering(Step)
      BY <1>2, <2>1, PassedIs
    <3> QED BY <3>1 DEF AfterRecovering
  <2> QED BY <1>2, <2>1, <2>2, PassedIs DEF WholeJob, Paired
<1>3. CASE job.kind = "install"
  <2>1. Step \in {"prepare", "stop", "copyBin", "start", "prune", "exit"}
    BY <1>3, Whereabouts, PassedIs DEF Placing
  <2>2. Step' \notin {"clearWeb", "placeWeb"} /\ Paired
    BY <1>3, <2>1, PassedIs DEF AfterInstalling, WholeJob
  <2> QED BY <1>3, <2>2, PassedIs DEF WholeJob, Paired
<1>4. CASE job.kind = "rollback"
  <2>1. Step \in {"stop", "start", "settle", "exit"}
    BY <1>4, Whereabouts, PassedIs DEF Placing
  <2>2. Step # "exit"
    OBVIOUS
  <2>3. Step' \in {"dropBin", "settle", "exit"} /\ Paired /\ job.oldBin = job.oldWeb /\ job.oldBin # None
    BY <1>4, <2>1, <2>2, PassedIs DEF AfterRollingBack, WholeJob
  <2> QED BY <1>4, <2>3, PassedIs DEF WholeJob, Paired
<1> QED BY <1>1, <1>2, <1>3, <1>4

\* A step that fails without touching the files keeps WholeJob.
LEMMA WholeFails ==
  ASSUME UpBase, UpgradeInv, WholeJob, job # None, Step \notin Placing \cup {"stop", "exit"}, job' = Failed,
         UNCHANGED <<binary, web>>
  PROVE  WholeJob'
<1>1. /\ job'.kind = job.kind /\ job'.before = job.before /\ job'.target = job.target
      /\ job'.oldBin = job.oldBin /\ job'.oldWeb = job.oldWeb /\ job'.skipped = job.skipped
  BY FailsTo DEF Turned, Kept, Placing
<1>2. CASE job.kind = "upgrade"
  <2>1. CASE Step = "finish"
    <3>1. job'.outcome = job.outcome /\ Step' = "exit"
      BY <2>1, FailsTo
    <3> QED BY <1>1, <1>2, <3>1 DEF WholeJob, Paired
  <2>2. CASE Step # "finish" /\ FailsBack
    <3>1. job'.outcome = "rolled_back"
      BY <1>2, <2>2, FailsTo DEF Placing
    <3> QED BY <1>1, <1>2, <3>1 DEF WholeJob
  <2>3. CASE Step # "finish" /\ ~FailsBack /\ job.outcome = "succeeded"
    <3>1. job'.outcome = "failed" /\ Step' = "finish"
      BY <1>2, <2>3, FailsTo DEF Placing
    <3>2. ~job.skipped /\ Forward
      BY <1>2, <2>3 DEF UpBase, JobOK, UpgradeInv
    <3>3. job.before.bin = job.before.web /\ job.before.bin # None /\ job.target \in Release /\ None \notin Release
      BY <1>2, Working, ReleaseAssumption DEF WholeJob, Command
    <3>4. Step \in FirstSteps \/ Step = "prune"
      BY <1>2, <2>3, Whereabouts DEF FailsBack, FirstSteps, Placing
    <3>5. Paired
      BY <3>2, <3>3, <3>4 DEF Forward, FirstSteps, LastSteps, Paired
    <3> QED BY <1>1, <1>2, <3>1, <3>3, <3>5 DEF WholeJob, Paired
  <2>4. CASE Step # "finish" /\ job.outcome # "succeeded"
    <3>1. Step \in {"start", "settle"} /\ job.outcome = "rolled_back"
      BY <1>2, <2>4, Whereabouts DEF Recoverings, Placing, WholeJob, Outcome
    <3>2. job'.outcome = "failed" /\ Step' = "finish"
      BY <1>2, <2>4, <3>1, FailsTo
    <3>3. Backward /\ job.before.bin = job.before.web /\ job.before.bin # None
      BY <1>2, <3>1 DEF UpgradeInv, WholeJob
    <3>4. Paired
      BY <3>1, <3>3 DEF Backward, LastSteps, Paired
    <3> QED BY <1>1, <1>2, <3>2, <3>3, <3>4 DEF WholeJob, Paired
  <2> QED BY <2>1, <2>2, <2>3, <2>4
<1>3. CASE job.kind = "install"
  <2>1. Paired
    BY <1>3 DEF WholeJob, Placing
  <2>2. Step' = "exit"
    BY <1>3, FailsTo DEF Placing
  <2> QED BY <1>1, <1>3, <2>1, <2>2 DEF WholeJob, Paired
<1>4. CASE job.kind = "rollback"
  <2>1. Paired
    BY <1>4, Whereabouts DEF WholeJob, Placing
  <2>2. Step' = "exit"
    BY <1>4, FailsTo DEF Placing
  <2> QED BY <1>1, <1>4, <2>1, <2>2 DEF WholeJob, Paired
<1> QED BY <1>2, <1>3, <1>4, Whereabouts

\* replace_and_verify, recover and rollback, step by step.
LEMMA WholePlace ==
  ASSUME UpBase, UpgradeInv, WholeJob, Place
  PROVE  WholeJob'
<1>1. Passed(Step) /\ Same3 /\ Step \in Placing
  BY Passes DEF Place, AtStep, Step, Placing
<1>2. /\ Step = "placeBin" => binary' = job.target /\ web' = web
      /\ Step = "clearWeb" => web' = None /\ binary' = binary
      /\ Step = "placeWeb" => web' = job.target /\ binary' = binary
      /\ Step = "dropBin" => binary' = None /\ web' = web
      /\ Step = "backBin" => binary' = job.oldBin /\ web' = web
      /\ Step = "dropWeb" => web' = None /\ binary' = binary
      /\ Step = "backWeb" => web' = job.oldWeb /\ binary' = binary
  BY DEF Place, AtStep, Step
<1>3. job.target # None
  BY <1>1, PassedIs, Working, ReleaseAssumption DEF Command
<1>4. CASE job.kind = "upgrade"
  <2>1. job.outcome # "failed"
    BY <1>1, <1>4 DEF WholeJob, Placing
  <2> QED BY <1>1, <1>4, <2>1, PassedIs DEF WholeJob
<1>5. CASE job.kind = "install"
  <2>1. Step \in {"placeBin", "clearWeb", "placeWeb"} /\ Step' = AfterInstalling(Step)
    BY <1>1, <1>5, PassedIs, Whereabouts DEF Placing
  <2> QED BY <1>1, <1>2, <1>3, <1>5, <2>1, PassedIs DEF WholeJob, Paired, AfterInstalling
<1>6. CASE job.kind = "rollback"
  <2>1. Step \in {"dropBin", "backBin", "dropWeb", "backWeb"} /\ Step' = AfterRollingBack(Step)
    BY <1>1, <1>6, PassedIs, Whereabouts DEF Placing
  <2>2. job.oldBin = job.oldWeb /\ job.oldBin # None
        /\ (Step \in {"dropWeb", "backWeb"} => binary = job.oldBin)
    BY <1>6, <2>1 DEF WholeJob
  <2>3. job'.oldBin = job.oldBin /\ job'.oldWeb = job.oldWeb /\ job'.kind = job.kind
    BY <1>1, PassedIs DEF Same3
  <2> QED BY <1>2, <1>6, <2>1, <2>2, <2>3 DEF WholeJob, Paired, AfterRollingBack
<1> QED BY <1>1, <1>4, <1>5, <1>6, PassedIs, Whereabouts

\* A command that ends leaves one release.
LEMMA WholeExit ==
  ASSUME UpBase, UpgradeInv, WholeJob, job # None, Step = "exit"
  PROVE  Paired
<1>1. job.target # None
  BY Working, ReleaseAssumption DEF Command
<1>2. CASE job.kind = "upgrade"
  <2>1. job.before.bin = job.before.web /\ job.before.bin # None /\ (job.outcome = "failed" => Paired)
    BY <1>2 DEF WholeJob
  <2>2. job.skipped => Paired
    BY <1>2, <2>1 DEF UpgradeInv, Paired
  <2>3. job.outcome = "succeeded" /\ ~job.skipped => Paired
    BY <1>1, <1>2 DEF UpgradeInv, Forward, FirstSteps, LastSteps, Paired
  <2>4. job.outcome = "rolled_back" => Paired
    BY <1>2, <2>1 DEF UpgradeInv, Backward, LastSteps, Paired
  <2> QED BY <2>1, <2>2, <2>3, <2>4, Whereabouts DEF Outcome
<1>3. CASE job.kind # "upgrade"
  BY <1>3, Whereabouts DEF WholeJob
<1> QED BY <1>2, <1>3

\* Every step keeps WholeInv.
LEMMA WholeKept ==
  ASSUME UpBase, UpgradeInv, WholeInv, [UpNext]_upVars
  PROVE  WholeInv'
<1>1. SUFFICES ASSUME ~Spoilt'
               PROVE  IF job' = None THEN Paired' ELSE WholeJob'
  BY DEF WholeInv
<1>2. CASE UNCHANGED <<job, binary, web, marks>>
  <2>1. (WholeJob' <=> WholeJob) /\ (Paired' <=> Paired) /\ ~Spoilt
    BY <1>1, <1>2 DEF WholeJob, Paired, Step, Spoilt
  <2> QED BY <1>2, <2>1 DEF WholeInv
<1>3. CASE RequestNext \/ HubCrash \/ HubStart \/ UNCHANGED upVars
  BY <1>2, <1>3, RequestsLeave DEF HubCrash, HubStart, upVars, files
<1>4. CASE CommandNext
  <2>1. ~Spoilt
    <3>1. (\E kind \in DOMAIN Script, t \in Release, reports \in BOOLEAN : Shell(kind, t, reports))
          \/ UnitLocks => marks \subseteq marks'
      BY DEF Shell, UnitLocks
    <3>2. marks \subseteq marks'
      BY <1>4, <3>1, WorksOrEnds DEF Works, Ends
    <3> QED BY <1>1, <3>2 DEF Spoilt
  <2>2. IF job = None THEN Paired ELSE WholeJob
    BY <2>1 DEF WholeInv
  <2>3. ASSUME NEW kind, NEW by, NEW t, NEW reports, Begun(kind, by, t, reports), UNCHANGED <<binary, web>>,
               job = None
        PROVE  WholeJob'
    BY <2>2, <2>3 DEF Begun, WholeJob, Paired
  <2>4. ASSUME NEW kind \in DOMAIN Script, NEW t \in Release, NEW reports \in BOOLEAN, Shell(kind, t, reports)
        PROVE  job' # None /\ WholeJob'
    <3>1. kind \in {"upgrade", "install", "rollback"} /\ job' = Job(kind, "shell", t, reports)
          /\ (reports => kind = "upgrade") /\ UNCHANGED <<binary, web>> /\ job = None
      BY <2>4 DEF Shell, Script, files
    <3>2. Begun(kind, "shell", t, reports)
      BY <3>1, Begins DEF UpBase
    <3> QED BY <2>3, <3>1, <3>2 DEF Begun
  <2>5. CASE UnitLocks
    <3>1. UNCHANGED <<binary, web, marks>>
      BY <2>5 DEF UnitLocks, files
    <3>2. CASE job = None
      <4>1. unit \in Release /\ job' = Job("upgrade", "unit", unit, TRUE)
        BY <2>5, <3>2 DEF UnitLocks, UpBase, UpTypeOK
      <4>2. Begun("upgrade", "unit", unit, TRUE)
        BY <4>1, Begins DEF UpBase
      <4> QED BY <2>3, <3>1, <3>2, <4>2 DEF Begun
    <3>3. CASE job # None
      BY <1>2, <2>5, <3>1, <3>3 DEF UnitLocks
    <3> QED BY <3>2, <3>3
  <2>6. ASSUME Passed(Step), UNCHANGED <<binary, web>>, Step \notin Placing \cup {"choose", "exit"},
               job.kind = "rollback" => job'.oldBin = job.oldBin /\ job'.oldWeb = job.oldWeb
        PROVE  IF job' = None THEN Paired' ELSE WholeJob'
    BY <2>2, <2>6, WholeQuiet, PassedIs
  <2>7. ASSUME job # None, Step \notin Placing \cup {"stop", "exit"}, job' = Failed, UNCHANGED <<binary, web>>
        PROVE  IF job' = None THEN Paired' ELSE WholeJob'
    BY <2>2, <2>7, WholeFails, FailsTo
  <2>8. CASE Resolve \/ Announce \/ Verify \/ Start \/ Finish \/ PruneCopies \/ Stop \/ StopUnseen
    <3>1. /\ Passed(Step) /\ Step \notin Placing \cup {"choose", "exit"}
          /\ job'.oldBin = job.oldBin /\ job'.oldWeb = job.oldWeb
      BY <2>8, Passes DEF Passed, Placing, Same3
    <3>2. UNCHANGED <<binary, web>>
      BY <2>8 DEF Resolve, Announce, Verify, Start, Finish, PruneCopies, Stop, StopUnseen, files
    <3> QED BY <2>6, <3>1, <3>2
  <2>9. CASE CopyBin \/ CopyWeb
    <3>1. /\ Passed(Step) /\ Step \in {"copyBin", "copyWeb"}
      BY <2>9, Passes DEF Passed
    <3>2. job.kind # "rollback"
      BY <3>1, PassedIs, Whereabouts
    <3>3. UNCHANGED <<binary, web>>
      BY <2>9 DEF CopyBin, CopyWeb
    <3> QED BY <2>6, <3>1, <3>2, <3>3 DEF Placing
  <2>10. CASE Prepare
    <3>1. Passed(Step) /\ Step = "prepare" /\ Same3
      BY <2>10, Passes DEF Passed
    <3>2. UNCHANGED <<binary, web>>
      <4>1. job.kind = "install" => web # None
        BY <2>2, <3>1, PassedIs DEF WholeJob, Paired
      <4> QED BY <2>10, <4>1 DEF Prepare
    <3> QED BY <2>6, <3>1, <3>2 DEF Placing, Same3
  <2>11. CASE Plan
    <3>1. job # None /\ Step = "plan" /\ job.kind = "upgrade" /\ job.outcome = "succeeded"
          /\ UNCHANGED <<binary, web>> /\ ~job.skipped
      <4>1. job # None /\ Step = "plan" /\ job.kind = "upgrade" /\ job.outcome = "succeeded"
        BY <2>11, Plans
      <4> QED BY <2>11, <4>1 DEF Plan, files, UpBase, JobOK
    <3>2. CASE Kept(job') /\ job' # None /\ job'.outcome = "succeeded"
      BY <2>2, <3>1, <3>2 DEF WholeJob, Kept
    <3>3. CASE Passed("plan") /\ Same3
      BY <2>6, <3>1, <3>3 DEF Placing, Same3
    <3>4. CASE Turned(job', <<"finish", "exit">>, "failed") /\ job' # None /\ Step' = "finish"
      <4>1. job'.kind = "upgrade" /\ job'.before = job.before /\ job'.outcome = "failed"
        BY <3>1, <3>4 DEF Turned, Kept
      <4>2. Forward /\ job.before.bin = job.before.web /\ job.before.bin # None
        BY <2>2, <3>1 DEF WholeJob, UpgradeInv
      <4>3. Paired
        BY <3>1, <4>2 DEF Forward, FirstSteps, Paired
      <4> QED BY <3>1, <3>4, <4>1, <4>2, <4>3 DEF WholeJob, Paired
    <3> QED BY <2>11, <3>2, <3>3, <3>4, Plans
  <2>12. CASE Choose
    <3>1. /\ job # None /\ Step = "choose" /\ job.kind = "rollback" /\ UNCHANGED <<binary, web>>
          /\ job'.oldBin = job'.oldWeb
      BY <1>1, <2>12, Chooses DEF Choose, files, Spoilt
    <3>2. Paired
      BY <2>2, <3>1 DEF WholeJob
    <3>3. CASE Turned(job', <<"exit">>, "failed") /\ job' # None /\ Step' = "exit"
      BY <3>1, <3>2, <3>3 DEF WholeJob, Turned, Kept, Paired
    <3>4. CASE binCopies # <<>> /\ Passed("choose") /\ job'.oldBin = Newest(binCopies)
      <4>1. Newest(binCopies) # None
        <5>1. binCopies \in Seq(Copy) /\ Len(binCopies) \in 1 .. Len(binCopies)
          BY <3>4 DEF UpBase, UpTypeOK
        <5>2. binCopies[Len(binCopies)] \in Copy
          BY <5>1, ElementOfSeq
        <5> QED BY <5>2, ReleaseAssumption DEF Newest, Copy
      <4>2. job'.kind = "rollback" /\ Step' = "stop" /\ job' # None
        BY <3>1, <3>4, PassedIs DEF AfterRollingBack
      <4> QED BY <3>1, <3>2, <3>4, <4>1, <4>2 DEF WholeJob, Paired
    <3> QED BY <2>12, <3>3, <3>4, Chooses
  <2>13. CASE Place
    BY <2>2, <2>13, WholePlace, Passes, PassedIs DEF Place, AtStep
  <2>14. CASE Settle
    <3>1. UNCHANGED <<binary, web>> /\ job # None /\ Step = "settle"
      BY <2>14, Settles DEF Settle, files
    <3> QED BY <2>6, <2>7, <2>14, <3>1, Settles DEF Placing, Same3
  <2>15. CASE StepFails
    <3>1. job # None /\ Step \notin {"stop", "exit"} /\ job' = Failed
      BY <2>15 DEF StepFails, Step
    <3>2. CASE Step \notin Placing
      <4>1. UNCHANGED <<binary, web>>
        BY <2>15, <3>2 DEF StepFails, Step, Placing, files, Middle, Cuttable
      <4> QED BY <2>7, <3>1, <3>2, <4>1
    <3>3. CASE Step \in Placing
      <4>1. job'.todo = Recovering
        BY <1>1, <2>15, <3>3 DEF StepFails, Step, Placing, Cuttable, Spoilt
      <4>2. job.kind = "upgrade" /\ FailsBack
        BY <3>1, <4>1, FailsTo
      <4>3. job'.outcome = "rolled_back" /\ job'.kind = job.kind /\ job'.before = job.before /\ job' # None
        BY <3>1, <3>3, <4>2, FailsTo DEF Turned, Kept, Placing
      <4> QED BY <2>2, <3>1, <4>2, <4>3 DEF WholeJob
    <3> QED BY <3>2, <3>3
  <2>16. CASE Exit
    <3>1. job # None /\ Step = "exit" /\ job' = None /\ UNCHANGED <<binary, web>>
      BY <2>16 DEF Exit, AtStep, Step, files
    <3> QED BY <2>2, <3>1, WholeExit DEF Paired
  <2>17. CASE Kill
    BY <1>1, <2>17 DEF Kill, Spoilt
  <2> QED BY <1>4, <2>4, <2>5, <2>8, <2>9, <2>10, <2>11, <2>12, <2>13, <2>14, <2>15, <2>16, <2>17
          DEF CommandNext
<1> QED BY <1>3, <1>4 DEF UpNext
-----------------------------------------------------------------------------
\* What excuses a Hub that runs another binary; the Hub that runs what is installed;
\* a Hub that is stopped for good.
HubOff == marks \cap {"unstopped", "asleep", "abandoned"} # {}
FollowsBinary == hub # None => hub = binary
Down == hub = None /\ ~wanted

\* The command has stopped the service, or found it stopped.
AfterStop ==
  /\ ~job.skipped /\ Step \notin {"resolve", "plan", "prepare", "choose", "stop"}
  /\ job.kind = "upgrade" => Step \notin {"copyBin", "copyWeb"}
  /\ job.kind # "upgrade" => Step # "exit"

\* What a command at work needs to know to leave the Hub as installed.
HubJob ==
  IF job.kind = "upgrade" /\ job.outcome # "succeeded"
  THEN /\ Step \in {"settle", "finish", "exit"} => FollowsBinary
       /\ Step \notin {"finish", "exit"} /\ ~job.was => Down
  ELSE /\ FollowsBinary
       /\ AfterStop /\ ~job.was => Down
       /\ AfterStop /\ Step \notin {"settle", "prune", "finish", "exit"} => Down

\* The Hub that runs, unless the service and a command have missed each other.
HubInv == HubOff \/ IF job = None THEN FollowsBinary ELSE HubJob

\* A step that leaves the service alone keeps HubJob.
LEMMA HubQuiet ==
  ASSUME UpBase, HubJob, Passed(Step), UNCHANGED <<wanted, hub>>, job'.was = job.was,
         binary' = binary \/ Step \in Placing, Step \notin {"stop", "start", "exit"}
  PROVE  HubJob'
<1>1. job.kind \in {"upgrade", "install", "rollback"}
  BY PassedIs, Whereabouts
<1>2. CASE job.kind = "upgrade" /\ job.outcome # "succeeded"
  <2>1. Step' = AfterRecovering(Step) /\ Step \in Recoverings /\ job'.kind = "upgrade" /\ job'.outcome # "succeeded"
    BY <1>2, PassedIs
  <2>2. Step' \in {"settle", "finish", "exit"} => Step \in {"settle", "finish"} /\ binary' = binary
    BY <2>1 DEF AfterRecovering, Recoverings, Placing
  <2>3. Step' \notin {"finish", "exit"} => Step \notin {"finish", "exit"}
    BY <2>1 DEF AfterRecovering, Recoverings
  <2> QED BY <1>2, <2>1, <2>2, <2>3 DEF HubJob, FollowsBinary, Down
<1>3. CASE ~(job.kind = "upgrade" /\ job.outcome # "succeeded")
  <2>1. job'.kind = job.kind /\ job'.skipped = job.skipped /\ ~(job'.kind = "upgrade" /\ job'.outcome # "succeeded")
    BY <1>3, PassedIs
  <2>2. /\ job.kind = "upgrade" => Step' = AfterUpgrading(Step)
        /\ job.kind = "install" => Step' = AfterInstalling(Step)
        /\ job.kind = "rollback" => Step' = AfterRollingBack(Step)
        /\ job.kind = "install" => Step \in {"prepare", "copyBin", "placeBin", "clearWeb", "placeWeb", "prune"}
        /\ job.kind = "rollback" => Step \in {"choose", "dropBin", "backBin", "dropWeb", "backWeb", "settle"}
    BY <1>3, PassedIs, Whereabouts
  <2>3. AfterStop' => AfterStop
    <3>1. CASE job.kind = "upgrade"
      <4>1. Step # "choose" /\ Step' = AfterUpgrading(Step)
        BY <1>3, <2>2, <3>1, PassedIs, Whereabouts
      <4>2. Step \in {"resolve", "plan", "prepare", "copyBin", "copyWeb"} =>
            Step' \in {"plan", "prepare", "copyBin", "copyWeb", "stop"}
        BY <4>1 DEF AfterUpgrading
      <4> QED BY <2>1, <3>1, <4>1, <4>2 DEF AfterStop
    <3>2. CASE job.kind = "install"
      BY <2>1, <2>2, <3>2 DEF AfterStop, AfterInstalling
    <3>3. CASE job.kind = "rollback"
      BY <2>1, <2>2, <3>3 DEF AfterStop, AfterRollingBack
    <3> QED BY <1>1, <3>1, <3>2, <3>3
  <2>4. Step' \notin {"settle", "prune", "finish", "exit"} => Step \notin {"settle", "prune", "finish", "exit"}
    BY <1>1, <2>2 DEF AfterUpgrading, AfterInstalling, AfterRollingBack
  <2>5. Step \in Placing => hub = None
    <3>1. Step \in Placing => AfterStop /\ Step \notin {"settle", "prune", "finish", "exit"}
      BY PassedIs DEF AfterStop, Placing
    <3> QED BY <1>3, <3>1 DEF HubJob, Down
  <2> QED BY <1>3, <2>1, <2>3, <2>4, <2>5 DEF HubJob, FollowsBinary, Down
<1> QED BY <1>2, <1>3

\* A step that fails keeps HubJob, but for the restart of a release put back.
LEMMA HubFails ==
  ASSUME UpBase, HubJob, job # None, Step \notin {"stop", "exit"}, job' = Failed, UNCHANGED <<wanted, hub>>,
         binary' = binary \/ Step \in Placing, Step = "start" => job.outcome = "succeeded"
  PROVE  HubJob'
<1>1. job'.kind = job.kind /\ job'.was = job.was /\ job'.skipped = job.skipped
  BY FailsTo DEF Turned, Kept
<1>2. CASE job.kind = "upgrade" /\ job.outcome # "succeeded"
  <2>1. CASE Step = "finish"
    <3>1. job'.outcome = job.outcome /\ Step' = "exit"
      BY <2>1, FailsTo
    <3> QED BY <1>1, <1>2, <2>1, <3>1 DEF HubJob, FollowsBinary, Placing
  <2>2. CASE Step # "finish"
    <3>1. /\ job'.outcome = "failed" /\ Step \in {"dropBin", "backBin", "dropWeb", "backWeb", "settle"}
          /\ Step' = CASE Step \in {"dropBin", "backBin"} -> "dropWeb"
                       [] Step \in {"dropWeb", "backWeb"} -> "start"
                       [] OTHER -> "finish"
      BY <1>2, <2>2, FailsTo, Whereabouts DEF Recoverings
    <3> QED BY <1>1, <1>2, <3>1 DEF HubJob, FollowsBinary, Down, Placing
  <2> QED BY <2>1, <2>2
<1>3. CASE ~(job.kind = "upgrade" /\ job.outcome # "succeeded")
  <2>1. Step \in Placing => hub = None
    <3>1. Step \in Placing => ~job.skipped
      BY <1>3 DEF UpBase, JobOK, Placing
    <3>2. Step \in Placing => AfterStop /\ Step \notin {"settle", "prune", "finish", "exit"}
      BY <3>1 DEF AfterStop, Placing
    <3> QED BY <1>3, <3>2 DEF HubJob, Down
  <2>2. FollowsBinary /\ FollowsBinary'
    BY <1>3, <2>1 DEF HubJob, FollowsBinary
  <2>3. CASE Step = "finish"
    <3>1. job'.outcome = job.outcome /\ Step' = "exit"
      BY <2>3, FailsTo
    <3>2. AfterStop' => AfterStop
      BY <1>1, <2>3, <3>1 DEF AfterStop
    <3> QED BY <1>1, <1>3, <2>2, <3>1, <3>2 DEF HubJob, Down
  <2>4. CASE Step # "finish" /\ job.kind # "upgrade"
    <3>1. Step' = "exit" /\ ~AfterStop'
      BY <1>1, <2>4, FailsTo DEF AfterStop
    <3> QED BY <1>1, <2>2, <2>4, <3>1 DEF HubJob
  <2>5. CASE Step # "finish" /\ job.kind = "upgrade" /\ FailsBack
    <3>1. Step' = "dropBin" /\ job'.outcome = "rolled_back" /\ ~job.skipped
      BY <2>5, FailsTo DEF UpBase, JobOK
    <3>2. AfterStop
      BY <2>5, <3>1 DEF AfterStop, FailsBack
    <3> QED BY <1>1, <1>3, <2>5, <3>1, <3>2 DEF HubJob, Down
  <2>6. CASE Step # "finish" /\ job.kind = "upgrade" /\ ~FailsBack
    <3>1. Step' = "finish" /\ job'.outcome = "failed"
      BY <1>3, <2>6, FailsTo
    <3> QED BY <1>1, <2>2, <2>6, <3>1 DEF HubJob
  <2> QED BY <2>3, <2>4, <2>5, <2>6
<1> QED BY <1>2, <1>3

\* Every step keeps HubInv.
LEMMA HubKept ==
  ASSUME UpBase, HubInv, [UpNext]_upVars
  PROVE  HubInv'
<1>1. SUFFICES ASSUME ~HubOff'
               PROVE  IF job' = None THEN FollowsBinary' ELSE HubJob'
  BY DEF HubInv
<1>2. CASE UNCHANGED <<job, binary, wanted, hub, marks>>
  <2>1. (HubJob' <=> HubJob) /\ (FollowsBinary' <=> FollowsBinary) /\ ~HubOff
    BY <1>1, <1>2 DEF HubJob, FollowsBinary, AfterStop, Down, Step, HubOff
  <2> QED BY <1>2, <2>1 DEF HubInv
<1>3. CASE RequestNext \/ UNCHANGED upVars
  BY <1>2, <1>3, RequestsLeave DEF upVars, files, service
<1>4. CASE HubCrash \/ HubStart
  <2>1. UNCHANGED <<job, binary, wanted, marks>> /\ hub' \in {None, binary} /\ ~HubOff
    BY <1>1, <1>4 DEF HubCrash, HubStart, files, HubOff
  <2>2. Down => Down' /\ FollowsBinary'
    BY <1>4 DEF Down, FollowsBinary, HubCrash, HubStart
  <2>3. FollowsBinary'
    BY <2>1 DEF FollowsBinary
  <2>4. HubJob => HubJob'
    BY <2>1, <2>2, <2>3 DEF HubJob, AfterStop, Step
  <2> QED BY <2>1, <2>3, <2>4 DEF HubInv
<1>5. CASE CommandNext
  <2>1. ~HubOff
    <3>1. (\E kind \in DOMAIN Script, t \in Release, reports \in BOOLEAN : Shell(kind, t, reports))
          \/ UnitLocks => marks \subseteq marks'
      BY DEF Shell, UnitLocks
    <3>2. marks \subseteq marks'
      BY <1>5, <3>1, WorksOrEnds DEF Works, Ends
    <3> QED BY <1>1, <3>2 DEF HubOff
  <2>2. IF job = None THEN FollowsBinary ELSE HubJob
    BY <2>1 DEF HubInv
  <2>3. ASSUME NEW kind \in {"upgrade", "install", "rollback"}, NEW by, NEW t, NEW reports,
               Begun(kind, by, t, reports), UNCHANGED <<binary, wanted, hub>>, job = None
        PROVE  HubJob' /\ job' # None
    BY <2>2, <2>3 DEF Begun, HubJob, AfterStop, FollowsBinary
  <2>4. ASSUME NEW kind \in DOMAIN Script, NEW t \in Release, NEW reports \in BOOLEAN, Shell(kind, t, reports)
        PROVE  job' # None /\ HubJob'
    <3>1. kind \in {"upgrade", "install", "rollback"} /\ job' = Job(kind, "shell", t, reports)
          /\ (reports => kind = "upgrade") /\ UNCHANGED <<binary, wanted, hub>> /\ job = None
      BY <2>4 DEF Shell, Script, files, service
    <3>2. Begun(kind, "shell", t, reports)
      BY <3>1, Begins DEF UpBase
    <3> QED BY <2>3, <3>1, <3>2
  <2>5. CASE UnitLocks
    <3>1. UNCHANGED <<binary, wanted, hub, marks>>
      BY <2>5 DEF UnitLocks, files, service
    <3>2. CASE job = None
      <4>1. unit \in Release /\ job' = Job("upgrade", "unit", unit, TRUE)
        BY <2>5, <3>2 DEF UnitLocks, UpBase, UpTypeOK
      <4>2. Begun("upgrade", "unit", unit, TRUE)
        BY <4>1, Begins DEF UpBase
      <4> QED BY <2>3, <3>1, <3>2, <4>2
    <3>3. CASE job # None
      BY <1>2, <2>5, <3>1, <3>3 DEF UnitLocks
    <3> QED BY <3>2, <3>3
  <2>6. ASSUME Passed(Step), UNCHANGED <<wanted, hub>>, job'.was = job.was,
               binary' = binary \/ Step \in Placing, Step \notin {"stop", "start", "exit"}
        PROVE  IF job' = None THEN FollowsBinary' ELSE HubJob'
    BY <2>2, <2>6, HubQuiet, PassedIs
  <2>7. ASSUME job # None, Step \notin {"stop", "exit"}, job' = Failed, UNCHANGED <<wanted, hub>>,
               binary' = binary \/ Step \in Placing, Step = "start" => job.outcome = "succeeded"
        PROVE  IF job' = None THEN FollowsBinary' ELSE HubJob'
    BY <2>2, <2>7, HubFails, FailsTo
  <2>8. CASE Resolve \/ Announce \/ Verify \/ Finish \/ PruneCopies \/ Prepare \/ CopyBin \/ CopyWeb
    <3>1. Passed(Step) /\ Step \notin {"stop", "start", "exit"} /\ job'.was = job.was
      BY <2>8, Passes DEF Passed, Same3
    <3>2. UNCHANGED <<wanted, hub, binary>>
      BY <2>8 DEF Resolve, Announce, Verify, Finish, PruneCopies, Prepare, CopyBin, CopyWeb, files,
                  KeepService, service
    <3> QED BY <2>6, <3>1, <3>2
  <2>9. CASE Place
    <3>1. Passed(Step) /\ Same3 /\ UNCHANGED <<wanted, hub>> /\ Step \in Placing
      BY <2>9, Passes DEF Place, AtStep, Step, Placing, KeepService, service
    <3> QED BY <2>6, <3>1 DEF Same3, Placing
  <2>10. CASE Plan
    <3>1. job # None /\ Step = "plan" /\ job.kind = "upgrade" /\ job.outcome = "succeeded"
      BY <2>10, Plans
    <3>2. UNCHANGED <<wanted, hub, binary>>
      BY <2>10 DEF Plan, files, KeepService, service
    <3>3. FollowsBinary /\ FollowsBinary'
      BY <2>2, <3>1, <3>2 DEF HubJob, FollowsBinary
    <3>4. CASE Kept(job') /\ job' # None /\ Step' = "finish" /\ job'.outcome = "succeeded" /\ job'.skipped = TRUE
      BY <3>1, <3>3, <3>4 DEF HubJob, Kept, AfterStop
    <3>5. CASE Passed("plan") /\ Same3
      BY <2>6, <3>1, <3>2, <3>5 DEF Same3
    <3>6. CASE Turned(job', <<"finish", "exit">>, "failed") /\ job' # None /\ Step' = "finish"
      BY <3>1, <3>3, <3>6 DEF HubJob, Turned, Kept
    <3> QED BY <2>10, <3>4, <3>5, <3>6, Plans
  <2>11. CASE Choose
    <3>1. job # None /\ Step = "choose" /\ job.kind = "rollback" /\ UNCHANGED <<wanted, hub, binary>>
      BY <2>11, Chooses DEF Choose, files, KeepService, service
    <3>2. FollowsBinary /\ FollowsBinary'
      BY <2>2, <3>1 DEF HubJob, FollowsBinary
    <3>3. CASE Turned(job', <<"exit">>, "failed") /\ job' # None /\ Step' = "exit"
      BY <3>1, <3>2, <3>3 DEF HubJob, Turned, Kept, AfterStop
    <3>4. CASE Passed("choose") /\ job'.was = job.was
      BY <2>6, <3>1, <3>4
    <3> QED BY <2>11, <3>3, <3>4, Chooses
  <2>12. CASE Stop
    <3>1. Passed("stop") /\ job'.was = (hub # None)
      BY <2>12, Passes
    <3>2. Down'
      BY <1>1, <2>12 DEF Stop, Down, HubOff, KeepService, service
    <3>3. FollowsBinary'
      BY <3>2 DEF FollowsBinary, Down
    <3> QED BY <3>1, <3>2, <3>3, PassedIs DEF HubJob
  <2>13. CASE StopUnseen
    BY <1>1, <2>13 DEF StopUnseen, HubOff
  <2>14. CASE Start
    <3>1. Passed("start") /\ job'.was = job.was
      BY <2>14, Passes DEF Same3
    <3>2. binary' = binary /\ IF job.was THEN hub' = IF binary \in Release THEN binary ELSE None
                             ELSE wanted' = wanted /\ hub' = hub
      BY <2>14 DEF Start, KeepService, service, files
    <3>3. job # None /\ ~job.skipped /\ Step = "start" /\ (~job.was => Down)
      BY <2>2, <3>1, PassedIs DEF HubJob, AfterStop
    <3>4. FollowsBinary' /\ (~job'.was => Down')
      BY <3>1, <3>2, <3>3 DEF FollowsBinary, Down
    <3>5. Step' \in {"settle", "prune"}
      BY <3>1, PassedIs, Whereabouts DEF AfterUpgrading, AfterRecovering, AfterInstalling, AfterRollingBack
    <3> QED BY <3>1, <3>4, <3>5, PassedIs DEF HubJob
  <2>15. CASE Settle
    <3>1. UNCHANGED <<wanted, hub, binary>> /\ job # None /\ Step = "settle"
      BY <2>15, Settles DEF Settle, files, KeepService, service
    <3> QED BY <2>6, <2>7, <2>15, <3>1, Settles DEF Same3
  <2>16. CASE StepFails
    <3>1. job # None /\ Step \notin {"stop", "exit"} /\ job' = Failed /\ UNCHANGED <<wanted, hub>>
      BY <2>16 DEF StepFails, Step, KeepService, service
    <3>2. binary' = binary \/ Step \in Placing
      BY <2>16 DEF StepFails, Step, Placing, files, Middle
    <3>3. Step = "start" => job.outcome = "succeeded"
      <4>1. ASSUME Step = "start", job.outcome # "succeeded"
            PROVE  FALSE
        <5>1. job'.todo # Recovering
          BY <3>1, <4>1, FailsTo DEF FailsBack
        <5>2. "abandoned" \in marks'
          BY <2>16, <4>1, <5>1 DEF StepFails, Step, Cuttable
        <5> QED BY <1>1, <5>2 DEF HubOff
      <4> QED BY <4>1
    <3> QED BY <2>7, <3>1, <3>2, <3>3
  <2>17. CASE Exit
    <3>1. job # None /\ Step = "exit" /\ job' = None /\ UNCHANGED <<binary, hub>>
      BY <2>17 DEF Exit, AtStep, Step, files, KeepService, service
    <3> QED BY <2>2, <3>1 DEF HubJob, FollowsBinary
  <2>18. CASE Kill
    <3>1. job # None /\ job' = None /\ hub' = hub /\ job.outcome = "succeeded"
      BY <1>1, <2>18 DEF Kill, HubOff, KeepService, service
    <3>2. binary' = binary \/ Step = "backBin"
      BY <2>18 DEF Kill, Step, files, Middle
    <3>3. Step = "backBin" => hub = None
      <4>1. Step = "backBin" => AfterStop
        BY <3>1 DEF UpBase, JobOK, AfterStop
      <4> QED BY <2>2, <3>1, <4>1 DEF HubJob, Down
    <3> QED BY <2>2, <3>1, <3>2, <3>3 DEF HubJob, FollowsBinary
  <2> QED BY <1>5, <2>4, <2>5, <2>8, <2>9, <2>10, <2>11, <2>12, <2>13, <2>14, <2>15, <2>16, <2>17, <2>18
          DEF CommandNext
<1> QED BY <1>3, <1>4, <1>5 DEF UpNext
-----------------------------------------------------------------------------
\* Copies of whole releases, each newer than the one before.
Ladder(c) ==
  /\ \A i \in 1 .. Len(c) : c[i].label \in Release /\ c[i].of = c[i].label
  /\ \A i, j \in 1 .. Len(c) : i < j => c[i].label < c[j].label
\* No copy is of a newer release than b; the copy of a release; the copies with b added.
Below(c, b) == b \in Release /\ \A i \in 1 .. Len(c) : c[i].label <= b
Pair(b) == [label |-> b, of |-> b]
Grown(c, b) == IF c # <<>> /\ c[Len(c)].label = b THEN c ELSE Append(c, Pair(b))

\* Indices, and the order of the releases.
LEMMA Between ==
  ASSUME NEW n \in Nat, NEW i \in 1 .. n
  PROVE  i \in Nat /\ (i < n \/ i = n) /\ n > 0 /\ n \in 1 .. n
OBVIOUS

LEMMA Newer ==
  ASSUME NEW x \in Release, NEW y \in Release, NEW z \in Release
  PROVE  /\ x < y /\ y <= z => x < z
         /\ x <= y /\ y # x => x < y
         /\ x < y => x <= y /\ x # y
         /\ x <= x
         /\ x < y \/ x = y \/ y < x
BY ReleaseAssumption

\* The copy of the label of the binary, if any, is the newest one.
LEMMA LadderTop ==
  ASSUME NEW c \in Seq(Copy), NEW b, Ladder(c), Below(c, b), binary = b
  PROVE  /\ c # <<>> /\ c[Len(c)].label = b => SameLabel(c) = {Len(c)} /\ c[Len(c)] = Pair(b)
         /\ ~(c # <<>> /\ c[Len(c)].label = b) => SameLabel(c) = {}
<1> DEFINE n == Len(c)
<1>1. b \in Release /\ Release \subseteq Nat /\ n \in Nat /\ DOMAIN c = 1 .. n
  BY ReleaseAssumption DEF Below
<1>2. SameLabel(c) = {i \in 1 .. n : c[i].label = b}
  BY <1>1 DEF SameLabel
<1>3. ASSUME NEW i \in 1 .. n, c[i].label = b
      PROVE  i = n
  <2>1. CASE i < n
    <3>1. n \in 1 .. n /\ c[i].label \in Release /\ c[n].label \in Release
      BY <1>1, <2>1 DEF Ladder
    <3>2. c[i].label < c[n].label /\ c[n].label <= b
      BY <1>1, <2>1, <3>1 DEF Ladder, Below
    <3> QED BY <1>1, <1>3, <3>1, <3>2, Newer
  <2>2. i \in Nat /\ (i < n \/ i = n)
    BY <1>1, Between
  <2> QED BY <2>1, <2>2
<1>4. ASSUME c # <<>>, c[n].label = b
      PROVE  SameLabel(c) = {n} /\ c[n] = Pair(b)
  <2>1. n \in 1 .. n
    BY <1>1, <1>4
  <2>2. c[n] \in Copy /\ c[n].of = b
    BY <1>4, <2>1, ElementOfSeq DEF Ladder
  <2>3. c[n] = Pair(b)
    BY <1>4, <2>2 DEF Copy, Pair
  <2> QED BY <1>2, <1>3, <1>4, <2>1, <2>3
<1>5. ASSUME ~(c # <<>> /\ c[n].label = b)
      PROVE  SameLabel(c) = {}
  <2>1. ASSUME NEW i \in 1 .. n, c[i].label = b
        PROVE  FALSE
    <3>1. i = n /\ n > 0 /\ n \in Nat
      BY <1>1, <1>3, <2>1, Between
    <3> QED BY <1>5, <2>1, <3>1
  <2> QED BY <1>2, <2>1
<1> QED BY <1>4, <1>5

\* copy_file of a whole binary adds it to such copies.
LEMMA LadderPut ==
  ASSUME NEW c \in Seq(Copy), NEW b, Ladder(c), Below(c, b), binary = b
  PROVE  Append(Others(c), Pair(b)) = Grown(c, b)
<1>0. b \in Release /\ Pair(b) \in Copy
  BY DEF Below, Pair, Copy
<1>1. CASE c # <<>> /\ c[Len(c)].label = b
  <2> DEFINE n == Len(c)
             r == RemoveAt(c, n)
             a == Append(r, Pair(b))
  <2>1. SameLabel(c) = {n} /\ c[n] = Pair(b)
    BY <1>1, LadderTop
  <2>2. Others(c) = r
    BY <2>1 DEF Others
  <2>3. n \in Nat /\ n > 0 /\ n \in 1 .. n
    BY <1>1
  <2>4. r \in Seq(Copy) /\ Len(r) = n - 1 /\ \A k \in 1 .. n - 1 : r[k] = c[k]
    <3> HIDE DEF r
    <3>1. /\ r \in Seq(Copy) /\ Len(r) = n - 1
          /\ \A k \in 1 .. n - 1 : r[k] = IF k < n THEN c[k] ELSE c[k + 1]
      BY <2>3, RemovedAt DEF r
    <3> QED BY <2>3, <3>1
  <2> HIDE DEF r
  <2>5. /\ a \in Seq(Copy) /\ Len(a) = n
        /\ \A k \in 1 .. n : a[k] = IF k = n THEN Pair(b) ELSE r[k]
    BY <1>0, <2>3, <2>4
  <2> HIDE DEF a
  <2>6. \A k \in 1 .. n : a[k] = c[k]
    BY <2>1, <2>3, <2>4, <2>5
  <2>7. a = c
    BY <2>5, <2>6, SeqEqual
  <2> QED BY <1>1, <2>2, <2>7 DEF Grown, a
<1>2. CASE ~(c # <<>> /\ c[Len(c)].label = b)
  <2>1. SameLabel(c) = {}
    BY <1>2, LadderTop
  <2>2. Others(c) = c
    BY <2>1 DEF Others
  <2> QED BY <1>2, <2>2 DEF Grown
<1> QED BY <1>1, <1>2

\* copy_dir_recursive of a whole console adds it to such copies.
LEMMA LadderWeb ==
  ASSUME webCopies \in Seq(Copy), NEW b, Ladder(webCopies), Below(webCopies, b), binary = b
  PROVE  \A d \in PutWeb(b) : d = Grown(webCopies, b)
<1> DEFINE c == webCopies
           there == SameLabel(c)
           inPlace == [i \in DOMAIN c |-> IF i \in there THEN Pair(b) ELSE c[i]]
           atEnd == Append(Others(c), Pair(b))
<1>1. Pair(b) = [label |-> binary, of |-> b]
  BY DEF Pair
<1>2. PutWeb(b) = CASE there = {} -> {atEnd}
                    [] \E i \in there : c[i].of = b -> {inPlace}
                    [] OTHER -> {inPlace, atEnd}
  BY <1>1 DEF PutWeb
<1>3. atEnd = Grown(c, b)
  BY LadderPut
<1>4. CASE c # <<>> /\ c[Len(c)].label = b
  <2>1. there = {Len(c)} /\ c[Len(c)] = Pair(b)
    BY <1>4, LadderTop
  <2>2. \E i \in there : c[i].of = b
    BY <2>1 DEF Pair
  <2>3. inPlace = c
    <3>1. DOMAIN c = 1 .. Len(c) /\ c = [i \in 1 .. Len(c) |-> c[i]]
      OBVIOUS
    <3>2. \A i \in DOMAIN c : (IF i \in there THEN Pair(b) ELSE c[i]) = c[i]
      BY <2>1
    <3> QED BY <3>1, <3>2
  <2>4. PutWeb(b) = {inPlace}
    BY <1>2, <2>1, <2>2
  <2> QED BY <1>4, <2>3, <2>4 DEF Grown
<1>5. CASE ~(c # <<>> /\ c[Len(c)].label = b)
  <2>1. there = {}
    BY <1>5, LadderTop
  <2>2. PutWeb(b) = {atEnd}
    BY <1>2, <2>1
  <2> QED BY <1>3, <2>2
<1> QED BY <1>4, <1>5

\* The copies stay ordered when one is added, and when all but the newest are removed.
LEMMA LadderGrows ==
  ASSUME NEW c \in Seq(Copy), NEW b, Ladder(c), Below(c, b)
  PROVE  Ladder(Grown(c, b)) /\ Below(Grown(c, b), b)
<1>1. CASE c # <<>> /\ c[Len(c)].label = b
  BY <1>1 DEF Grown
<1>2. CASE ~(c # <<>> /\ c[Len(c)].label = b)
  <2> DEFINE n == Len(c)
             a == Append(c, Pair(b))
  <2>1. b \in Release /\ Release \subseteq Nat /\ n \in Nat /\ Pair(b) \in Copy
    BY ReleaseAssumption DEF Below, Pair, Copy
  <2>2. Len(a) = n + 1 /\ \A k \in 1 .. n + 1 : a[k] = IF k = n + 1 THEN Pair(b) ELSE c[k]
    BY <2>1
  <2>3. Grown(c, b) = a
    BY <1>2 DEF Grown
  <2> HIDE DEF a
  <2>4. ASSUME NEW i \in 1 .. n
        PROVE  a[i] = c[i] /\ c[i].label \in Release /\ c[i].of = c[i].label /\ c[i].label < b
    <3>1. i \in 1 .. n + 1 /\ i # n + 1 /\ n \in 1 .. n /\ c # <<>>
      BY <2>1
    <3>2. c[i].label \in Release /\ c[i].of = c[i].label /\ c[n].label \in Release
          /\ c[n].label <= b /\ c[n].label # b
      BY <1>2, <3>1 DEF Ladder, Below
    <3>3. i < n => c[i].label < c[n].label
      BY <3>1 DEF Ladder
    <3>4. i \in Nat /\ (i < n \/ i = n)
      BY <2>1
    <3>5. c[i].label < b
      <4>1. c[n].label < b
        BY <2>1, <3>2, Newer
      <4>2. c[n].label <= b
        BY <3>2
      <4>3. CASE i < n
        <5> DEFINE x == c[i].label
                   y == c[n].label
        <5>1. x \in Release /\ y \in Release /\ x < y /\ y <= b
          BY <3>2, <3>3, <4>2, <4>3
        <5> HIDE DEF x, y
        <5>2. x < b
          BY <2>1, <5>1, Newer
        <5> QED BY <5>2 DEF x
      <4>4. CASE i = n
        BY <4>1, <4>4
      <4> QED BY <3>4, <4>3, <4>4
    <3> QED BY <2>2, <3>1, <3>2, <3>5
  <2>5. a[n + 1] = Pair(b) /\ Pair(b).label = b /\ Pair(b).of = b /\ n + 1 \in 1 .. n + 1
    BY <2>1, <2>2 DEF Pair
  <2>6. ASSUME NEW i \in 1 .. n + 1
        PROVE  a[i].label \in Release /\ a[i].of = a[i].label /\ a[i].label <= b
    <3>1. CASE i = n + 1
      BY <2>1, <2>5, <3>1
    <3>2. CASE i # n + 1
      <4>1. i \in 1 .. n
        BY <2>1, <3>2
      <4> QED BY <2>1, <2>4, <4>1, Newer
    <3> QED BY <3>1, <3>2
  <2>7. ASSUME NEW i \in 1 .. n + 1, NEW j \in 1 .. n + 1, i < j
        PROVE  a[i].label < a[j].label
    <3>1. i \in 1 .. n
      BY <2>1, <2>7
    <3>2. CASE j = n + 1
      BY <2>4, <2>5, <3>1, <3>2
    <3>3. CASE j # n + 1
      <4>1. j \in 1 .. n
        BY <2>1, <3>3
      <4>2. c[i].label < c[j].label
        BY <2>7, <3>1, <4>1 DEF Ladder
      <4> QED BY <2>4, <3>1, <4>1, <4>2
    <3> QED BY <3>2, <3>3
  <2>8. Ladder(a)
    BY <2>2, <2>6, <2>7 DEF Ladder
  <2>9. Below(a, b)
    BY <2>1, <2>2, <2>6 DEF Below
  <2> QED BY <2>3, <2>8, <2>9
<1> QED BY <1>1, <1>2

LEMMA LadderPruned ==
  ASSUME NEW c \in Seq(Copy), Ladder(c)
  PROVE  Ladder(Prune(c)) /\ \A b : Below(c, b) => Below(Prune(c), b)
<1>1. CASE c = <<>>
  BY <1>1 DEF Prune
<1>2. CASE c # <<>>
  <2> DEFINE e == c[Len(c)]
  <2>1. Prune(c) = <<e>> /\ Len(c) \in 1 .. Len(c)
    BY <1>2 DEF Prune
  <2>2. e.label \in Release /\ e.of = e.label /\ \A b : Below(c, b) => e.label <= b /\ b \in Release
    BY <2>1 DEF Ladder, Below
  <2> HIDE DEF e
  <2>3. Len(<<e>>) = 1 /\ <<e>>[1] = e
    OBVIOUS
  <2>4. \A i \in 1 .. Len(<<e>>) : i = 1
    BY <2>3
  <2>5. Ladder(<<e>>)
    BY <2>2, <2>3, <2>4 DEF Ladder
  <2>6. \A b : Below(c, b) => Below(<<e>>, b)
    BY <2>2, <2>3, <2>4 DEF Below
  <2> QED BY <2>1, <2>5, <2>6
<1> QED BY <1>1, <1>2

\* Of such copies the newest is of the newest release.
LEMMA LadderNewest ==
  ASSUME NEW c \in Seq(Copy), Ladder(c), c # <<>>
  PROVE  Below(c, Newest(c))
<1> DEFINE n == Len(c)
<1>1. n \in Nat /\ n \in 1 .. n /\ Release \subseteq Nat
  BY ReleaseAssumption
<1>2. Newest(c) = c[n].label /\ c[n].label \in Release
  BY <1>1 DEF Newest, Ladder
<1>3. ASSUME NEW i \in 1 .. n
      PROVE  c[i].label <= c[n].label
  <2>1. c[i].label \in Release /\ (i < n => c[i].label < c[n].label)
    BY <1>1 DEF Ladder
  <2>2. i < n \/ i = n
    BY <1>1, Between
  <2>3. CASE i < n
    BY <1>2, <2>1, <2>3, Newer
  <2>4. CASE i = n
    BY <1>2, <2>4, Newer
  <2> QED BY <2>2, <2>3, <2>4
<1> QED BY <1>2, <1>3 DEF Below
\* What is not newer than an older release is not newer than a newer one.
LEMMA LadderUp ==
  ASSUME NEW c, NEW b, NEW d \in Release, Ladder(c), Below(c, b), b < d
  PROVE  Below(c, d)
<1>1. ASSUME NEW i \in 1 .. Len(c)
      PROVE  c[i].label <= d
  <2>1. c[i].label \in Release /\ c[i].label <= b /\ b \in Release /\ Release \subseteq Nat
    BY ReleaseAssumption DEF Ladder, Below
  <2>2. c[i].label \in Nat /\ b \in Nat /\ d \in Nat
    BY <2>1
  <2> QED BY <2>1, <2>2
<1> QED BY <1>1 DEF Below

-----------------------------------------------------------------------------
\* What parts the copies; an upgrade is to a newer release than it found.
Unclean == marks \cap {"killed", "broken", "half", "install"} # {}

Ahead == job.before.bin < job.target

\* What a command at work needs to know to leave copies in pairs.
CleanJob ==
  /\ job.kind # "install"
  /\ job.kind = "upgrade" =>
       /\ Below(webCopies, job.before.bin)
       /\ binCopies = IF Step = "copyWeb" THEN Grown(webCopies, job.before.bin) ELSE webCopies
       /\ job.outcome = "succeeded" /\ ~job.skipped /\ Step \notin {"resolve", "plan"} => Ahead
       /\ job.outcome = "failed" /\ Step \in {"finish", "exit"} => Below(webCopies, binary)
  /\ job.kind = "rollback" =>
       /\ binCopies = webCopies /\ job.oldBin = job.oldWeb
       /\ Step # "backBin" => Below(webCopies, binary)
       /\ Step \notin {"choose", "exit"} => Below(webCopies, job.oldBin)

\* The copies: pairs, in the order of the releases, none newer than what runs.
CleanInv ==
  Unclean \/
    /\ "unpaired" \notin marks /\ Ladder(webCopies)
    /\ IF job = None THEN binCopies = webCopies /\ Below(webCopies, binary) ELSE CleanJob

\* A step that leaves the files and the copies alone keeps CleanJob.
LEMMA CleanQuiet ==
  ASSUME UpBase, WholeJob, CleanJob, Passed(Step), UNCHANGED <<binary, binCopies, webCopies>>,
         job.kind = "rollback" => job'.oldBin = job.oldBin /\ job'.oldWeb = job.oldWeb,
         Step \notin Placing \cup {"plan", "choose", "copyBin", "copyWeb", "exit"}
  PROVE  CleanJob'
<1>1. CASE job.kind = "upgrade"
  <2>1. Step' # "copyWeb" /\ Step # "copyWeb"
    BY <1>1, PassedIs, Whereabouts DEF AfterUpgrading, AfterRecovering, Placing, Recoverings
  <2>2. job.outcome = "succeeded" /\ Step' \notin {"resolve", "plan"} => Step \notin {"resolve", "plan"}
    BY <1>1, PassedIs DEF AfterUpgrading
  <2>3. job.outcome = "failed" => Step = "finish"
    BY <1>1 DEF WholeJob
  <2>4. Ahead' <=> Ahead
    BY PassedIs DEF Ahead
  <2>5. /\ job'.kind = "upgrade" /\ job'.before = job.before /\ job'.outcome = job.outcome
        /\ job'.skipped = job.skipped
    BY <1>1, PassedIs
  <2>6. job.outcome = "succeeded" /\ ~job.skipped /\ Step' \notin {"resolve", "plan"} => Ahead'
    BY <1>1, <2>2, <2>4 DEF CleanJob
  <2>7. Below(webCopies, job.before.bin) /\ binCopies = webCopies
        /\ (job.outcome = "failed" => Below(webCopies, binary))
    BY <1>1, <2>1, <2>3 DEF CleanJob
  <2> QED BY <2>1, <2>5, <2>6, <2>7 DEF CleanJob
<1>2. CASE job.kind = "rollback"
  <2>1. Step \in {"stop", "start", "settle"}
    BY <1>2, Whereabouts, PassedIs DEF Placing
  <2> QED BY <1>2, <2>1, PassedIs DEF CleanJob
<1> QED BY <1>1, <1>2, PassedIs, Whereabouts DEF CleanJob

\* A step that fails without touching the files keeps CleanJob.
LEMMA CleanFails ==
  ASSUME UpBase, UpgradeInv, WholeJob, CleanJob, job # None, job' = Failed,
         Step \notin Placing \cup {"stop", "exit", "copyBin", "copyWeb"},
         UNCHANGED <<binary, binCopies, webCopies>>, Ladder(webCopies)
  PROVE  CleanJob'
<1>1. /\ job'.kind = job.kind /\ job'.before = job.before /\ job'.target = job.target
      /\ job'.oldBin = job.oldBin /\ job'.oldWeb = job.oldWeb /\ job'.skipped = job.skipped
  BY FailsTo DEF Turned, Kept, Placing
<1>2. CASE job.kind = "upgrade"
  <2>0. Below(webCopies, job.before.bin) /\ binCopies = webCopies
    BY <1>2 DEF CleanJob
  <2>1. CASE Step = "finish"
    <3>1. job'.outcome = job.outcome /\ Step' = "exit"
      BY <2>1, FailsTo
    <3>2. Ahead' <=> Ahead
      BY <1>1 DEF Ahead
    <3>3. job.outcome = "succeeded" /\ ~job.skipped => Ahead'
      BY <1>2, <2>1, <3>2 DEF CleanJob
    <3>4. job.outcome = "failed" => Below(webCopies, binary)
      BY <1>2, <2>1 DEF CleanJob
    <3> QED BY <1>1, <1>2, <2>0, <3>1, <3>3, <3>4 DEF CleanJob
  <2>2. CASE Step # "finish" /\ FailsBack
    <3>1. job'.outcome = "rolled_back" /\ Step' = "dropBin"
      BY <1>2, <2>2, FailsTo DEF Placing
    <3> QED BY <1>1, <1>2, <2>0, <3>1 DEF CleanJob
  <2>3. CASE Step # "finish" /\ ~FailsBack /\ job.outcome = "succeeded"
    <3>1. job'.outcome = "failed" /\ Step' = "finish"
      BY <1>2, <2>3, FailsTo DEF Placing
    <3>2. ~job.skipped /\ Forward
      BY <1>2, <2>3 DEF UpBase, JobOK, UpgradeInv
    <3>3. Step \in FirstSteps \/ Step = "prune"
      BY <1>2, <2>3, Whereabouts DEF FailsBack, FirstSteps, Placing
    <3>4. CASE Step \in FirstSteps
      <4>1. binary = job.before.bin
        BY <3>2, <3>4 DEF Forward
      <4> QED BY <1>1, <1>2, <2>0, <3>1, <4>1 DEF CleanJob
    <3>5. CASE Step = "prune"
      <4>1. binary = job.target /\ Ahead
        BY <1>2, <2>3, <3>2, <3>5 DEF Forward, FirstSteps, CleanJob
      <4>2. job.target \in Release
        BY Working DEF Command
      <4>3. Below(webCopies, binary)
        BY <2>0, <4>1, <4>2, LadderUp DEF Ahead, UpBase, UpTypeOK
      <4> QED BY <1>1, <1>2, <2>0, <3>1, <4>3 DEF CleanJob
    <3> QED BY <3>3, <3>4, <3>5
  <2>4. CASE Step # "finish" /\ job.outcome # "succeeded"
    <3>1. Step \in {"start", "settle"} /\ job.outcome = "rolled_back"
      BY <1>2, <2>4, Whereabouts DEF Recoverings, Placing, WholeJob, Outcome
    <3>2. job'.outcome = "failed" /\ Step' = "finish"
      BY <1>2, <2>4, <3>1, FailsTo
    <3>3. binary = job.before.bin
      BY <1>2, <3>1 DEF UpgradeInv, Backward
    <3> QED BY <1>1, <1>2, <2>0, <3>2, <3>3 DEF CleanJob
  <2> QED BY <2>1, <2>2, <2>3, <2>4
<1>3. CASE job.kind = "rollback"
  <2>1. Step' = "exit" /\ Step # "backBin"
    BY <1>3, FailsTo, Whereabouts DEF Placing
  <2> QED BY <1>1, <1>3, <2>1 DEF CleanJob
<1> QED BY <1>2, <1>3, Whereabouts DEF CleanJob

\* A command that ends leaves copies in pairs.
LEMMA CleanExit ==
  ASSUME UpBase, UpgradeInv, CleanJob, job # None, Step = "exit", Ladder(webCopies)
  PROVE  binCopies = webCopies /\ Below(webCopies, binary)
<1>1. CASE job.kind = "upgrade"
  <2>1. Below(webCopies, job.before.bin) /\ binCopies = webCopies
        /\ (job.outcome = "failed" => Below(webCopies, binary))
    BY <1>1 DEF CleanJob
  <2>2. job.skipped => binary = job.before.bin
    BY <1>1 DEF UpgradeInv
  <2>3. job.outcome = "rolled_back" => binary = job.before.bin
    BY <1>1 DEF UpgradeInv, Backward
  <2>4. ASSUME job.outcome = "succeeded", ~job.skipped
        PROVE  Below(webCopies, binary)
    <3>1. binary = job.target /\ Ahead /\ job.target \in Release
      BY <1>1, <2>4, Working DEF UpgradeInv, Forward, FirstSteps, CleanJob, Command
    <3> QED BY <2>1, <3>1, LadderUp DEF Ahead, UpBase, UpTypeOK
  <2> QED BY <2>1, <2>2, <2>3, <2>4, Whereabouts DEF Outcome
<1>2. CASE job.kind = "rollback"
  BY <1>2 DEF CleanJob
<1> QED BY <1>1, <1>2, Whereabouts DEF CleanJob

\* The steps that replace the files leave the copies alone.
LEMMA CleanPlace ==
  ASSUME UpBase, WholeJob, CleanJob, Place
  PROVE  CleanJob'
<1>1. Passed(Step) /\ Same3 /\ Step \in Placing /\ UNCHANGED <<binCopies, webCopies>>
  BY Passes DEF Place, AtStep, Step, Placing
<1>2. CASE job.kind = "upgrade"
  <2>1. Step' # "copyWeb" /\ Step # "copyWeb" /\ Step' \notin {"resolve", "plan"} /\ Step \notin {"resolve", "plan"}
    BY <1>1, <1>2, PassedIs, Whereabouts DEF AfterUpgrading, AfterRecovering, Placing, Recoverings
  <2>2. job.outcome # "failed"
    BY <1>1, <1>2 DEF WholeJob, Placing
  <2>3. Ahead' <=> Ahead
    BY <1>1, PassedIs DEF Ahead
  <2>4. job.outcome = "succeeded" /\ ~job.skipped => Ahead'
    BY <1>2, <2>1, <2>3 DEF CleanJob
  <2>5. Below(webCopies, job.before.bin) /\ binCopies = webCopies
    BY <1>2, <2>1 DEF CleanJob
  <2>6. /\ job'.kind = "upgrade" /\ job'.before = job.before /\ job'.outcome = job.outcome
        /\ job'.skipped = job.skipped
    BY <1>1, <1>2, PassedIs
  <2> QED BY <1>1, <2>1, <2>2, <2>4, <2>5, <2>6 DEF CleanJob
<1>3. CASE job.kind = "rollback"
  <2>1. Step \in {"dropBin", "backBin", "dropWeb", "backWeb"} /\ Step' = AfterRollingBack(Step)
    BY <1>1, <1>3, PassedIs, Whereabouts DEF Placing
  <2>2. Step = "backBin" => binary' = job.oldBin
    BY DEF Place, AtStep, Step
  <2>3. Step \in {"dropWeb", "backWeb"} => binary' = binary
    BY DEF Place, AtStep, Step
  <2>4. job'.kind = "rollback" /\ job'.oldBin = job.oldBin /\ job'.oldWeb = job.oldWeb
    BY <1>1, <1>3, PassedIs DEF Same3
  <2> QED BY <1>1, <1>3, <2>1, <2>2, <2>3, <2>4 DEF CleanJob, AfterRollingBack
<1> QED BY <1>1, <1>2, <1>3, PassedIs, Whereabouts DEF CleanJob

\* backup_existing copies both files in turn; prune_backups removes of both.
LEMMA CleanCopies ==
  ASSUME UpBase, UpgradeInv, WholeJob, CleanJob, Ladder(webCopies), CopyBin \/ CopyWeb \/ PruneCopies
  PROVE  CleanJob' /\ Ladder(webCopies)'
<1>1. Passed(Step) /\ Step \in {"copyBin", "copyWeb", "prune"} /\ binary' = binary
  BY Passes DEF Passed, CopyBin, CopyWeb, PruneCopies
<1>2. job # None /\ job.kind = "upgrade" /\ job.outcome = "succeeded" /\ ~job.skipped
  BY <1>1, PassedIs, Whereabouts DEF CleanJob, Recoverings
<1>3. Step' = AfterUpgrading(Step) /\ job'.kind = "upgrade" /\ job'.outcome = "succeeded"
      /\ job'.before = job.before /\ (Ahead' <=> Ahead)
  BY <1>1, <1>2, PassedIs DEF Ahead
<1>4. Ahead' /\ Forward /\ Below(webCopies, job.before.bin)
      /\ binCopies = IF Step = "copyWeb" THEN Grown(webCopies, job.before.bin) ELSE webCopies
  BY <1>1, <1>2, <1>3 DEF CleanJob, UpgradeInv
<1>5. binCopies \in Seq(Copy) /\ webCopies \in Seq(Copy)
  BY DEF UpBase, UpTypeOK
<1> DEFINE b == job.before.bin
<1>6. SUFFICES /\ Ladder(webCopies') /\ Below(webCopies', b)
               /\ binCopies' = IF Step' = "copyWeb" THEN Grown(webCopies', b) ELSE webCopies'
  BY <1>1, <1>2, <1>3, <1>4 DEF CleanJob, AfterUpgrading
<1>7. CASE Step \in {"copyBin", "copyWeb"}
  <2>1. binary = b /\ web = b /\ b \in Release /\ b # None
    BY <1>2, <1>4, <1>7, ReleaseAssumption DEF Forward, FirstSteps, WholeJob, Below
  <2>2. CASE Step = "copyBin"
    <3>1. binCopies' = PutBin(b) /\ webCopies' = webCopies /\ Step' = "copyWeb" /\ binCopies = webCopies
      BY <1>3, <1>4, <2>1, <2>2 DEF CopyBin, CopyWeb, PruneCopies, AtStep, Step, AfterUpgrading
    <3>2. PutBin(b) = Append(Others(binCopies), Pair(b))
      BY <2>1 DEF PutBin, Pair
    <3>3. PutBin(b) = Grown(webCopies, b)
      BY <1>4, <1>5, <2>1, <3>1, <3>2, LadderPut
    <3> QED BY <1>4, <3>1, <3>3
  <2>3. CASE Step = "copyWeb"
    <3>1. webCopies' \in PutWeb(b) /\ binCopies' = binCopies /\ Step' = "stop"
          /\ binCopies = Grown(webCopies, b)
      BY <1>3, <1>4, <2>1, <2>3 DEF CopyBin, CopyWeb, PruneCopies, AtStep, Step, AfterUpgrading
    <3>2. webCopies' = Grown(webCopies, b)
      BY <1>4, <1>5, <2>1, <3>1, LadderWeb
    <3>3. Ladder(Grown(webCopies, b)) /\ Below(Grown(webCopies, b), b)
      BY <1>4, <1>5, LadderGrows
    <3> QED BY <3>1, <3>2, <3>3
  <2> QED BY <1>7, <2>2, <2>3
<1>8. CASE Step = "prune"
  <2>1. /\ binCopies' = Prune(binCopies) /\ webCopies' = Prune(webCopies) /\ Step' = "finish"
        /\ binCopies = webCopies
    BY <1>2, <1>3, <1>4, <1>8 DEF CopyBin, CopyWeb, PruneCopies, AtStep, Step, AfterUpgrading
  <2>2. Ladder(Prune(webCopies)) /\ Below(Prune(webCopies), b)
    BY <1>4, <1>5, LadderPruned
  <2> QED BY <2>1, <2>2
<1> QED BY <1>1, <1>7, <1>8

\* Every step keeps CleanInv.
LEMMA CleanKept ==
  ASSUME UpBase, UpgradeInv, WholeInv, CleanInv, [UpNext]_upVars
  PROVE  CleanInv'
<1>1. SUFFICES ASSUME ~Unclean'
               PROVE  /\ "unpaired" \notin marks' /\ Ladder(webCopies')
                      /\ IF job' = None THEN binCopies' = webCopies' /\ Below(webCopies', binary')
                         ELSE CleanJob'
  BY DEF CleanInv
<1>2. CASE UNCHANGED <<job, files, marks>>
  <2>1. (CleanJob' <=> CleanJob) /\ ~Unclean
    BY <1>1, <1>2 DEF CleanJob, Ahead, Step, Unclean, files
  <2>2. UNCHANGED <<binary, binCopies, webCopies, job, marks>>
    BY <1>2 DEF files
  <2> QED BY <2>1, <2>2 DEF CleanInv
<1>3. CASE RequestNext \/ HubCrash \/ HubStart \/ UNCHANGED upVars
  BY <1>2, <1>3, RequestsLeave DEF HubCrash, HubStart, upVars
<1>4. CASE CommandNext
  <2>1. ~Unclean /\ (("unpaired" \in marks' => "unpaired" \in marks) \/ Choose)
    <3>1. (\E kind \in DOMAIN Script, t \in Release, reports \in BOOLEAN : Shell(kind, t, reports))
          \/ UnitLocks => marks \subseteq marks'
      BY DEF Shell, UnitLocks
    <3>2. marks \subseteq marks'
      BY <1>4, <3>1, WorksOrEnds DEF Works, Ends
    <3>3. ("unpaired" \in marks' => "unpaired" \in marks) \/ Choose
      <4>1. (\E kind \in DOMAIN Script, t \in Release, reports \in BOOLEAN : Shell(kind, t, reports))
            => ("unpaired" \in marks' => "unpaired" \in marks)
        BY DEF Shell
      <4>2. UnitLocks \/ Resolve \/ Plan \/ Prepare \/ CopyBin \/ CopyWeb \/ Announce \/ Place \/ Verify
            \/ Start \/ Settle \/ PruneCopies \/ Finish \/ Exit => marks' = marks
        BY DEF UnitLocks, Resolve, Plan, Prepare, CopyBin, CopyWeb, Announce,
           Place, Verify, Start, Settle, PruneCopies, Finish, Exit
      <4>3. Stop \/ StopUnseen \/ Kill => ("unpaired" \in marks' => "unpaired" \in marks)
        BY DEF Stop, StopUnseen, Kill
      <4>4. StepFails => ("unpaired" \in marks' => "unpaired" \in marks)
        BY DEF StepFails
      <4> QED BY <1>4, <4>1, <4>2, <4>3, <4>4 DEF CommandNext
    <3> QED BY <1>1, <3>2, <3>3 DEF Unclean
  <2>2. /\ "unpaired" \notin marks /\ Ladder(webCopies)
        /\ IF job = None THEN binCopies = webCopies /\ Below(webCopies, binary) ELSE CleanJob
    BY <2>1 DEF CleanInv
  <2>3. IF job = None THEN Paired ELSE WholeJob
    BY <2>1, <2>2 DEF WholeInv, Spoilt, Unclean
  <2>4. ASSUME NEW kind \in {"upgrade", "rollback"}, NEW by, NEW t, NEW reports,
               Begun(kind, by, t, reports), UNCHANGED files, job = None
        PROVE  CleanJob' /\ job' # None
    <3>1. /\ job'.kind = kind /\ job'.before.bin = binary /\ job'.oldBin = None /\ job'.oldWeb = None
          /\ Step' = (IF kind = "upgrade" THEN "resolve" ELSE "choose") /\ job' # None
          /\ job'.outcome = "succeeded"
      BY <2>4 DEF Begun
    <3>2. UNCHANGED <<binary, binCopies, webCopies>> /\ binCopies = webCopies /\ Below(webCopies, binary)
      BY <2>2, <2>4 DEF files
    <3> QED BY <3>1, <3>2 DEF CleanJob
  <2>5. ASSUME NEW kind \in DOMAIN Script, NEW t \in Release, NEW reports \in BOOLEAN, Shell(kind, t, reports)
        PROVE  job' # None /\ CleanJob' /\ UNCHANGED files
    <3>1. kind \in {"upgrade", "rollback"} /\ job' = Job(kind, "shell", t, reports)
          /\ (reports => kind = "upgrade") /\ UNCHANGED files /\ job = None
      BY <1>1, <2>5 DEF Shell, Script, Unclean
    <3>2. Begun(kind, "shell", t, reports)
      BY <3>1, Begins DEF UpBase
    <3> QED BY <2>4, <3>1, <3>2
  <2>6. CASE UnitLocks
    <3>1. UNCHANGED <<files, marks>>
      BY <2>6 DEF UnitLocks
    <3>2. CASE job = None
      <4>1. unit \in Release /\ job' = Job("upgrade", "unit", unit, TRUE)
        BY <2>6, <3>2 DEF UnitLocks, UpBase, UpTypeOK
      <4>2. Begun("upgrade", "unit", unit, TRUE)
        BY <4>1, Begins DEF UpBase
      <4>3. CleanJob' /\ job' # None
        BY <2>4, <3>1, <3>2, <4>2
      <4> QED BY <2>2, <3>1, <4>3 DEF files
    <3>3. CASE job # None
      BY <1>2, <2>6, <3>1, <3>3 DEF UnitLocks
    <3> QED BY <3>2, <3>3
  <2>7. ASSUME CleanJob', job' # None, Ladder(webCopies'), ~Choose
        PROVE  /\ "unpaired" \notin marks' /\ Ladder(webCopies')
               /\ IF job' = None THEN binCopies' = webCopies' /\ Below(webCopies', binary')
                  ELSE CleanJob'
    BY <2>1, <2>2, <2>7
  <2>8. CASE Resolve \/ Announce \/ Verify \/ Start \/ Finish \/ Stop \/ StopUnseen \/ Prepare
    <3>1. /\ Passed(Step) /\ Step \notin Placing \cup {"plan", "choose", "copyBin", "copyWeb", "exit"}
          /\ job'.oldBin = job.oldBin /\ job'.oldWeb = job.oldWeb
      BY <2>8, Passes DEF Passed, Placing, Same3
    <3>2. UNCHANGED <<binary, binCopies, webCopies>>
      BY <2>8 DEF Resolve, Announce, Verify, Start, Finish, Stop, StopUnseen, Prepare, files
    <3>3. CleanJob' /\ job' # None /\ Ladder(webCopies')
      BY <2>2, <2>3, <3>1, <3>2, CleanQuiet, PassedIs
    <3>4. ~Choose
      BY <3>1, Chooses
    <3> QED BY <2>7, <3>3, <3>4
  <2>9. CASE CopyBin \/ CopyWeb \/ PruneCopies
    <3>1. Passed(Step) /\ Step \in {"copyBin", "copyWeb", "prune"}
      BY <2>9, Passes DEF Passed
    <3>2. job # None /\ job' # None /\ ~Choose
      BY <3>1, PassedIs, Chooses
    <3>3. CleanJob' /\ Ladder(webCopies')
      BY <2>2, <2>3, <2>9, <3>2, CleanCopies
    <3> QED BY <2>7, <3>2, <3>3
  <2>10. CASE Plan
    <3>1. job # None /\ Step = "plan" /\ job.kind = "upgrade" /\ job.outcome = "succeeded"
      BY <2>10, Plans
    <3>2. UNCHANGED <<binary, binCopies, webCopies>> /\ ~Choose /\ Ladder(webCopies')
      BY <2>2, <2>10, <3>1, Chooses DEF Plan, files
    <3>3. ~job.skipped /\ Forward /\ Below(webCopies, job.before.bin) /\ binCopies = webCopies
      BY <2>2, <3>1 DEF UpBase, JobOK, UpgradeInv, CleanJob
    <3>4. binary = job.before.bin /\ binary \in Release
      BY <3>1, <3>3 DEF Forward, FirstSteps, Below
    <3>5. CASE Kept(job') /\ job' # None /\ Step' = "finish" /\ job'.outcome = "succeeded" /\ job'.skipped = TRUE
      <4>1. CleanJob'
        BY <3>1, <3>2, <3>3, <3>5 DEF CleanJob, Kept
      <4> QED BY <2>7, <3>2, <3>5, <4>1
    <3>6. CASE (binary = None \/ (binary \in Release /\ binary < job.target)) /\ Passed("plan") /\ Same3
      <4>1. binary < job.target
        BY <3>4, <3>6, ReleaseAssumption
      <4>2. Ahead'
        BY <3>4, <3>6, <4>1, PassedIs DEF Ahead
      <4>3. job'.kind = "upgrade" /\ job'.before = job.before /\ job'.outcome = "succeeded" /\ job' # None
            /\ Step' = "prepare"
        BY <3>1, <3>6, PassedIs DEF AfterUpgrading
      <4>4. CleanJob'
        BY <3>2, <3>3, <4>2, <4>3 DEF CleanJob
      <4> QED BY <2>7, <3>2, <4>3, <4>4
    <3>7. CASE Turned(job', <<"finish", "exit">>, "failed") /\ job' # None /\ Step' = "finish"
      <4>1. job'.kind = "upgrade" /\ job'.before = job.before /\ job'.outcome = "failed"
        BY <3>1, <3>7 DEF Turned, Kept
      <4>2. CleanJob'
        BY <3>2, <3>3, <3>4, <3>7, <4>1 DEF CleanJob
      <4> QED BY <2>7, <3>2, <3>7, <4>2
    <3> QED BY <2>10, <3>5, <3>6, <3>7, Plans
  <2>11. CASE Choose
    <3>1. job # None /\ Step = "choose" /\ job.kind = "rollback"
          /\ UNCHANGED <<binary, binCopies, webCopies>>
          /\ marks' = marks \cup (IF job'.oldBin = job'.oldWeb THEN {} ELSE {"unpaired"})
      BY <2>11, Chooses DEF Choose, files
    <3>2. binCopies = webCopies /\ job.oldBin = job.oldWeb /\ Below(webCopies, binary)
      BY <2>2, <3>1 DEF CleanJob
    <3>3. CASE Turned(job', <<"exit">>, "failed") /\ job' # None /\ Step' = "exit"
      <4>1. job'.kind = "rollback" /\ job'.oldBin = job'.oldWeb
        BY <3>1, <3>2, <3>3 DEF Turned, Kept
      <4>2. CleanJob'
        BY <3>1, <3>2, <3>3, <4>1 DEF CleanJob
      <4> QED BY <2>2, <3>1, <3>3, <4>1, <4>2
    <3>4. CASE /\ webCopies # <<>> /\ Passed("choose")
               /\ job'.oldBin = Newest(binCopies) /\ job'.oldWeb = Newest(webCopies)
      <4>1. job'.kind = "rollback" /\ job'.oldBin = job'.oldWeb /\ job' # None /\ Step' = "stop"
        BY <3>1, <3>2, <3>4, PassedIs DEF AfterRollingBack
      <4>2. Below(webCopies, job'.oldBin)
        BY <2>2, <3>2, <3>4, LadderNewest DEF UpBase, UpTypeOK
      <4>3. CleanJob'
        BY <3>1, <3>2, <4>1, <4>2 DEF CleanJob
      <4> QED BY <2>2, <3>1, <4>1, <4>3
    <3> QED BY <2>11, <3>3, <3>4, Chooses
  <2>12. CASE Place
    <3>1. Passed(Step) /\ Step \in Placing /\ webCopies' = webCopies
      BY <2>12, Passes DEF Place, AtStep, Step, Placing
    <3>2. job # None /\ job' # None /\ ~Choose
      BY <3>1, PassedIs, Chooses DEF Placing
    <3>3. CleanJob'
      BY <2>2, <2>3, <2>12, <3>2, CleanPlace
    <3> QED BY <2>2, <2>7, <3>1, <3>2, <3>3
  <2>13. ASSUME job # None, job' = Failed, UNCHANGED <<binary, binCopies, webCopies>>, ~Choose,
                Step \notin Placing \cup {"stop", "exit", "copyBin", "copyWeb"}
         PROVE  CleanJob' /\ job' # None /\ Ladder(webCopies')
    BY <2>2, <2>3, <2>13, CleanFails, FailsTo
  <2>14. CASE Settle
    <3>1. UNCHANGED <<binary, binCopies, webCopies>> /\ job # None /\ Step = "settle" /\ ~Choose
      BY <2>14, Settles, Chooses DEF Settle, files
    <3>2. CASE job' = Failed
      BY <2>7, <2>13, <3>1, <3>2 DEF Placing
    <3>3. CASE Passed("settle") /\ Same3
      <4>1. CleanJob' /\ job' # None /\ Ladder(webCopies')
        BY <2>2, <2>3, <3>1, <3>3, CleanQuiet, PassedIs DEF Placing, Same3
      <4> QED BY <2>7, <3>1, <4>1
    <3> QED BY <2>14, <3>2, <3>3, Settles
  <2>15. CASE StepFails
    <3>1. job # None /\ Step \notin {"stop", "exit"} /\ job' = Failed /\ ~Choose
      <4>1. job # None /\ Step \notin {"stop", "exit"} /\ job' = Failed /\ faults' = faults + 1 /\ faults < MaxFaults
        BY <2>15 DEF StepFails, Step
      <4>2. Choose => faults' = faults
        BY DEF Choose, KeepRest
      <4>3. faults \in Nat
        BY ReleaseAssumption DEF UpBase, UpTypeOK
      <4>4. ~Choose
        BY <4>1, <4>2, <4>3
      <4> QED BY <4>1, <4>4
    <3>2. Step \notin {"copyBin", "copyWeb"}
      BY <1>1, <2>15 DEF StepFails, Step, Unclean
    <3>3. CASE Step \notin Placing
      <4>1. UNCHANGED <<binary, binCopies, webCopies>>
        BY <2>15, <3>2, <3>3 DEF StepFails, Step, Placing, files, Middle
      <4> QED BY <2>7, <2>13, <3>1, <3>2, <3>3, <4>1
    <3>4. CASE Step \in Placing
      <4>1. job'.todo = Recovering
        BY <1>1, <2>15, <3>4 DEF StepFails, Step, Placing, Cuttable, Unclean
      <4>2. job.kind = "upgrade" /\ FailsBack
        BY <3>1, <4>1, FailsTo
      <4>3. job'.outcome = "rolled_back" /\ job'.kind = job.kind /\ job'.before = job.before /\ job' # None
            /\ Step' = "dropBin"
        BY <3>1, <3>4, <4>2, FailsTo DEF Turned, Kept, Placing
      <4>4. UNCHANGED <<binCopies, webCopies>>
        BY <2>15, <3>4 DEF StepFails, Step, Placing, files, Middle
      <4>5. CleanJob'
        BY <2>2, <3>1, <3>4, <4>2, <4>3, <4>4 DEF CleanJob, Placing
      <4> QED BY <2>2, <2>7, <3>1, <4>3, <4>4, <4>5
    <3> QED BY <3>3, <3>4
  <2>16. CASE Exit
    <3>1. job # None /\ Step = "exit" /\ job' = None /\ UNCHANGED <<binary, binCopies, webCopies, marks>>
      BY <2>16 DEF Exit, AtStep, Step, files
    <3>2. binCopies = webCopies /\ Below(webCopies, binary)
      BY <2>2, <3>1, CleanExit
    <3> QED BY <2>2, <3>1, <3>2
  <2>17. CASE Kill
    BY <1>1, <2>17 DEF Kill, Unclean
  <2>18. ASSUME NEW kind \in DOMAIN Script, NEW t \in Release, NEW reports \in BOOLEAN, Shell(kind, t, reports)
         PROVE  /\ "unpaired" \notin marks' /\ Ladder(webCopies')
                /\ IF job' = None THEN binCopies' = webCopies' /\ Below(webCopies', binary')
                   ELSE CleanJob'
    <3>1. job' # None /\ CleanJob' /\ Ladder(webCopies')
      BY <2>2, <2>5, <2>18 DEF files
    <3>2. ~Choose
      <4>1. job = None
        BY <2>18 DEF Shell
      <4> QED BY <4>1 DEF Choose, AtStep
    <3> QED BY <2>7, <3>1, <3>2
  <2> QED BY <1>4, <2>18, <2>6, <2>8, <2>9, <2>10, <2>11, <2>12, <2>14, <2>15, <2>16, <2>17
          DEF CommandNext
<1> QED BY <1>3, <1>4 DEF UpNext
-----------------------------------------------------------------------------
\* The inductive invariant.
UpInv ==
  /\ UpBase /\ SubInv /\ RunningHasOwner /\ UpgradeInv
  /\ WholeInv /\ HubInv /\ CleanInv

\* It holds of a machine on which a Hub is installed, and every step keeps it.
LEMMA UpInitially ==
  ASSUME UpInit
  PROVE  UpInv
<1>1. /\ binary \in Release /\ web = binary /\ binCopies = <<>> /\ webCopies = <<>> /\ hub = binary
      /\ wanted = TRUE /\ flag = FALSE /\ req = [r \in Request |-> NoReq] /\ record = "idle"
      /\ unit = None /\ job = None /\ shells = 0 /\ faults = 0 /\ lost = FALSE /\ marks = {}
  BY DEF UpInit
<1>2. \A r \in Request : req[r].pc = "none"
  BY <1>1 DEF NoReq
<1>3. UpTypeOK
  <2>1. binCopies \in Seq(Copy) /\ webCopies \in Seq(Copy)
    BY <1>1
  <2>2. req \in [Request -> ReqRec]
    BY <1>1 DEF NoReq, ReqRec, ReqPc
  <2>3. shells \in 0 .. MaxShell /\ faults \in 0 .. MaxFaults
    BY <1>1, ReleaseAssumption
  <2> QED BY <1>1, <2>1, <2>2, <2>3 DEF UpTypeOK, Content, ReqRec, ReqPc
<1>4. UpBase /\ UpgradeInv
  BY <1>1, <1>3 DEF UpBase, JobOK, UpgradeInv
<1>5. SubInv /\ RunningHasOwner
  BY <1>1, <1>2 DEF SubInv, Targeted, Alone, Routed, Holder, Past, Unfinished, RunningHasOwner
<1>6. WholeInv /\ HubInv
  BY <1>1, ReleaseAssumption DEF WholeInv, HubInv, Paired, FollowsBinary
<1>7. CleanInv
  BY <1>1 DEF CleanInv, Ladder, Below
<1> QED BY <1>4, <1>5, <1>6, <1>7 DEF UpInv

LEMMA UpKept ==
  ASSUME UpInv, [UpNext]_upVars
  PROVE  UpInv'
<1>1. UpBase' /\ UpgradeInv' /\ WholeInv' /\ HubInv' /\ CleanInv'
  BY BaseKept, UpgradeKept, WholeKept, HubKept, CleanKept DEF UpInv
<1>2. SubInv' /\ RunningHasOwner'
  BY TargetedKept, RoutedKept, OwnerKept DEF UpInv, SubInv
<1> QED BY <1>1, <1>2 DEF UpInv

\* The steps of the request, of the commands and of the service, in any order and
\* with any number of faults, keep the invariant.
THEOREM UpInvAlways == UpSpec => []UpInv
<1>1. UpInit => UpInv
  BY UpInitially
<1>2. UpInv /\ [UpNext]_upVars => UpInv'
  BY UpKept
<1> QED BY <1>1, <1>2, PTL DEF UpSpec

\* A status file that says "running" keeps the panel from starting another update
\* (ensure_not_running), so there must be someone to end it: the task of the
\* request, the unit on its way to the lock, or the command that reports.
THEOREM RunningAlwaysOwned == UpSpec => []RunningHasOwner
<1>1. UpInv => RunningHasOwner
  BY DEF UpInv
<1> QED BY <1>1, UpInvAlways, PTL

\* ensure_file_not_running, read again once the flag is held, and the name of the
\* transient unit: no two updates that the panel accepted are under way.
THEOREM OneSubmissionAlways == UpSpec => []OneSubmission
<1>1. UpInv => OneSubmission
  BY OneAtATime DEF UpInv
<1> QED BY <1>1, UpInvAlways, PTL

\* Whatever upgrade, install or rollback ends, and wherever it failed, the binary,
\* the console, the Hub that runs and the newest copies agree, but for the causes
\* that the marks name.
THEOREM InstallationAlwaysWhole == UpSpec => []InstallationIsWhole
<1>1. ASSUME UpInv, job = None
      PROVE  ConsoleMatches /\ HubRunsInstalled /\ CopiesPair
  <2>1. ConsoleMatches
    BY <1>1 DEF UpInv, WholeInv, Spoilt, Paired, ConsoleMatches
  <2>2. HubRunsInstalled
    BY <1>1 DEF UpInv, HubInv, HubOff, FollowsBinary, HubRunsInstalled
  <2>3. Unclean \/ binCopies = webCopies
    BY <1>1 DEF UpInv, CleanInv
  <2>4. CopiesPair
    BY <2>3 DEF CopiesPair, NewestPair, Unclean
  <2> QED BY <2>1, <2>2, <2>4
<1>2. UpInv => InstallationIsWhole
  BY <1>1 DEF InstallationIsWhole
<1> QED BY <1>2, UpInvAlways, PTL

\* OutcomeIsTrue, of one step.
OutcomeStep ==
  job # None /\ job.reports /\ AtStep("finish") /\ record' = job.outcome =>
    CASE job.outcome = "succeeded" ->
           /\ binary = job.target
           /\ ~job.skipped => web = job.target /\ (job.was => wanted /\ hub \in {None, job.target})
      [] job.outcome = "rolled_back" ->
           binary = job.before.bin /\ web = job.before.web /\ (job.was => wanted)
      [] OTHER -> TRUE

\* The outcome that status.finish writes: "succeeded" with the new release in place
\* and its Hub started, "rolled_back" with the one that was there before.
THEOREM OutcomeAlwaysTrue == UpSpec => OutcomeIsTrue
<1>1. ASSUME UpInv
      PROVE  OutcomeStep
  <2>1. SUFFICES ASSUME job # None, job.reports, Step = "finish"
                 PROVE  CASE job.outcome = "succeeded" ->
                               /\ binary = job.target
                               /\ ~job.skipped =>
                                    web = job.target /\ (job.was => wanted /\ hub \in {None, job.target})
                          [] job.outcome = "rolled_back" ->
                               binary = job.before.bin /\ web = job.before.web /\ (job.was => wanted)
                          [] OTHER -> TRUE
    BY DEF OutcomeStep, AtStep, Step
  <2>2. job.kind = "upgrade" /\ (job.skipped => job.outcome = "succeeded")
    BY <1>1, <2>1 DEF UpInv, UpBase, JobOK
  <2>3. job.outcome = "succeeded" /\ ~job.skipped => Forward
    BY <1>1, <2>1, <2>2 DEF UpInv, UpgradeInv
  <2>4. job.skipped => binary = job.target
    BY <1>1, <2>1, <2>2 DEF UpInv, UpgradeInv
  <2>5. job.outcome = "rolled_back" => Backward
    BY <1>1, <2>1, <2>2 DEF UpInv, UpgradeInv
  <2>6. CASE job.outcome = "succeeded"
    <3>1. CASE job.skipped
      BY <2>4, <2>6, <3>1
    <3>2. CASE ~job.skipped
      BY <2>1, <2>3, <2>6, <3>2 DEF Forward, FirstSteps, LastSteps
    <3> QED BY <3>1, <3>2
  <2>7. CASE job.outcome = "rolled_back"
    BY <2>1, <2>5, <2>7 DEF Backward, LastSteps
  <2>8. CASE job.outcome \notin {"succeeded", "rolled_back"}
    BY <2>8
  <2> QED BY <2>6, <2>7, <2>8
<1>2. UpInv /\ [UpNext]_upVars => [OutcomeStep]_upVars
  BY <1>1
<1>3. OutcomeIsTrue <=> [][OutcomeStep]_upVars
  BY DEF OutcomeIsTrue, OutcomeStep
<1> QED BY <1>2, <1>3, UpInvAlways, PTL DEF UpSpec
=============================================================================
