---------------------------- MODULE UpgradeSteps ----------------------------
(***************************************************************************)
(* How a command of Upgrade moves: it is always at a step of the script of *)
(* its kind, or of the recovery, with the rest of that script before it.   *)
(* The scripts are sequences and what is left of one a tail, so what comes *)
(* after a step is a fact about positions, proved here once; the proofs    *)
(* of UpgradeProofs then speak of steps by name.  Also the types.          *)
(***************************************************************************)
EXTENDS Upgrade, SequenceTheorems, FiniteSetTheorems, TLAPS

\* The step the command is at.
Step == Head(job.todo)

\* The script that a command follows: an upgrade that has failed recovers.
PlanOf(j) == IF j.kind = "upgrade" /\ j.outcome # "succeeded" THEN Recovering ELSE Script[j.kind]

\* t is a part of the script s, up to its end.
Follows(t, s) ==
  /\ t \in Seq(StepName) /\ Len(t) > 0 /\ t[Len(t)] = "exit"
  /\ \A i \in 1 .. Len(t) - 1 : \E k \in 1 .. Len(s) - 1 : t[i] = s[k] /\ t[i + 1] = s[k + 1]

\* What comes after a step.
AfterUpgrading(s) ==
  CASE s = "resolve" -> "plan" [] s = "plan" -> "prepare" [] s = "prepare" -> "copyBin"
    [] s = "copyBin" -> "copyWeb" [] s = "copyWeb" -> "stop" [] s = "stop" -> "announce"
    [] s = "announce" -> "placeBin" [] s = "placeBin" -> "clearWeb" [] s = "clearWeb" -> "placeWeb"
    [] s = "placeWeb" -> "verify" [] s = "verify" -> "start" [] s = "start" -> "settle"
    [] s = "settle" -> "prune" [] s = "prune" -> "finish" [] s = "finish" -> "exit"
    [] OTHER -> "none"
AfterInstalling(s) ==
  CASE s = "prepare" -> "stop" [] s = "stop" -> "copyBin" [] s = "copyBin" -> "placeBin"
    [] s = "placeBin" -> "clearWeb" [] s = "clearWeb" -> "placeWeb" [] s = "placeWeb" -> "start"
    [] s = "start" -> "prune" [] s = "prune" -> "exit"
    [] OTHER -> "none"
AfterRollingBack(s) ==
  CASE s = "choose" -> "stop" [] s = "stop" -> "dropBin" [] s = "dropBin" -> "backBin"
    [] s = "backBin" -> "dropWeb" [] s = "dropWeb" -> "backWeb" [] s = "backWeb" -> "start"
    [] s = "start" -> "settle" [] s = "settle" -> "exit"
    [] OTHER -> "none"
AfterRecovering(s) ==
  CASE s = "dropBin" -> "backBin" [] s = "backBin" -> "dropWeb" [] s = "dropWeb" -> "backWeb"
    [] s = "backWeb" -> "start" [] s = "start" -> "settle" [] s = "settle" -> "finish"
    [] s = "finish" -> "exit"
    [] OTHER -> "none"

\* Where the command is in its script, and what its fields say of each other.
JobOK ==
  job # None =>
    /\ Follows(job.todo, PlanOf(job))
    /\ job.by = "unit" => job.reports
    /\ job.reports => job.kind = "upgrade"
    /\ job.kind # "upgrade" /\ job.outcome # "succeeded" => Step = "exit"
    /\ job.skipped => job.kind = "upgrade" /\ Step \in {"finish", "exit"} /\ job.outcome = "succeeded"

\* The part of the invariant that every other part rests on.
UpBase == UpTypeOK /\ JobOK

\* A command that takes a step has the rest of its script before it.
LEMMA FollowsTail ==
  ASSUME NEW s, NEW t, Follows(t, s), Head(t) # "exit"
  PROVE  /\ Follows(Tail(t), s)
         /\ \E k \in 1 .. Len(s) - 1 : Head(t) = s[k] /\ Head(Tail(t)) = s[k + 1]
<1>1. t \in Seq(StepName) /\ Len(t) > 0 /\ t[Len(t)] = "exit" /\ Head(t) = t[1]
  BY DEF Follows
<1>2. Len(t) > 1
  BY <1>1
<1>3. /\ Tail(t) \in Seq(StepName) /\ Len(Tail(t)) = Len(t) - 1
      /\ \A i \in 1 .. Len(t) - 1 : Tail(t)[i] = t[i + 1]
      /\ Head(Tail(t)) = t[2]
  BY <1>1, <1>2
<1>4. Tail(t)[Len(Tail(t))] = "exit"
  BY <1>1, <1>2, <1>3
<1>5. ASSUME NEW i \in 1 .. Len(Tail(t)) - 1
      PROVE  \E k \in 1 .. Len(s) - 1 : Tail(t)[i] = s[k] /\ Tail(t)[i + 1] = s[k + 1]
  <2>1. i + 1 \in 1 .. Len(t) - 1 /\ i \in 1 .. Len(t) - 1
    BY <1>1, <1>3
  <2>2. Tail(t)[i] = t[i + 1] /\ Tail(t)[i + 1] = t[i + 1 + 1]
    BY <1>1, <1>3, <2>1
  <2>3. \E k \in 1 .. Len(s) - 1 : t[i + 1] = s[k] /\ t[i + 1 + 1] = s[k + 1]
    BY <2>1 DEF Follows
  <2> QED BY <2>2, <2>3
<1>6. Follows(Tail(t), s)
  BY <1>1, <1>2, <1>3, <1>4, <1>5 DEF Follows
<1>7. 1 \in 1 .. Len(t) - 1
  BY <1>1, <1>2
<1> QED BY <1>1, <1>3, <1>6, <1>7 DEF Follows

\* perform_upgrade, install_hub, rollback and recover: what comes after each step,
\* and that only the last step is the last.
LEMMA UpgradingOrder ==
  ASSUME NEW k \in 1 .. Len(Upgrading) - 1
  PROVE  Upgrading[k] # "exit" /\ Upgrading[k + 1] = AfterUpgrading(Upgrading[k])
BY DEF Upgrading, AfterUpgrading
LEMMA InstallingOrder ==
  ASSUME NEW k \in 1 .. Len(Installing) - 1
  PROVE  Installing[k] # "exit" /\ Installing[k + 1] = AfterInstalling(Installing[k])
BY DEF Installing, AfterInstalling
LEMMA RollingBackOrder ==
  ASSUME NEW k \in 1 .. Len(RollingBack) - 1
  PROVE  RollingBack[k] # "exit" /\ RollingBack[k + 1] = AfterRollingBack(RollingBack[k])
BY DEF RollingBack, AfterRollingBack
LEMMA RecoveringOrder ==
  ASSUME NEW k \in 1 .. Len(Recovering) - 1
  PROVE  Recovering[k] # "exit" /\ Recovering[k + 1] = AfterRecovering(Recovering[k])
BY DEF Recovering, AfterRecovering

\* What every failure may come to: the end of the script, or its last two steps;
\* and what the scripts begin with.
LEMMA EndsFollow ==
  ASSUME NEW s
  PROVE  Follows(<<"exit">>, s) /\ Head(<<"exit">>) = "exit"
BY DEF Follows, StepName

LEMMA ScriptsFollow ==
  /\ Follows(Upgrading, Upgrading) /\ Head(Upgrading) = "resolve"
  /\ Follows(Installing, Installing) /\ Head(Installing) = "prepare"
  /\ Follows(RollingBack, RollingBack) /\ Head(RollingBack) = "choose"
  /\ Follows(Recovering, Recovering) /\ Head(Recovering) = "dropBin"
<1>1. Follows(Upgrading, Upgrading) /\ Head(Upgrading) = "resolve"
  BY DEF Follows, Upgrading, StepName
<1>2. Follows(Installing, Installing) /\ Head(Installing) = "prepare"
  BY DEF Follows, Installing, StepName
<1>3. Follows(RollingBack, RollingBack) /\ Head(RollingBack) = "choose"
  BY DEF Follows, RollingBack, StepName
<1>4. Follows(Recovering, Recovering) /\ Head(Recovering) = "dropBin"
  BY DEF Follows, Recovering, StepName
<1> QED BY <1>1, <1>2, <1>3, <1>4

LEMMA LastOnes ==
  LET t == <<"finish", "exit">>
  IN  Follows(t, Upgrading) /\ Follows(t, Recovering) /\ Head(t) = "finish"
<1> DEFINE t == <<"finish", "exit">>
<1>1. t \in Seq(StepName) /\ Len(t) = 2 /\ t[1] = "finish" /\ t[2] = "exit" /\ Head(t) = "finish"
  BY DEF StepName
<1>2. Len(Upgrading) = 16 /\ Upgrading[15] = "finish" /\ Upgrading[16] = "exit"
  BY DEF Upgrading
<1>3. Len(Recovering) = 8 /\ Recovering[7] = "finish" /\ Recovering[8] = "exit"
  BY DEF Recovering
<1> HIDE DEF t
<1>4. Follows(t, Upgrading)
  BY <1>1, <1>2 DEF Follows
<1>5. Follows(t, Recovering)
  BY <1>1, <1>3 DEF Follows
<1> QED BY <1>1, <1>4, <1>5 DEF t

\* recover goes on after the step that failed: a rest of the script is a part of it.
LEMMA RestFollows ==
  ASSUME NEW m \in 1 .. 8
  PROVE  Follows(SubSeq(Recovering, m, 8), Recovering) /\ Head(SubSeq(Recovering, m, 8)) = Recovering[m]
<1> DEFINE t == SubSeq(Recovering, m, 8)
<1>1. Recovering \in Seq(StepName) /\ Len(Recovering) = 8 /\ Recovering[8] = "exit"
  BY DEF Recovering, StepName
<1>2. /\ t \in Seq(StepName) /\ Len(t) = 9 - m
      /\ \A i \in 1 .. 9 - m : t[i] = Recovering[m + i - 1]
  <2>1. ASSUME NEW i \in m .. 8
        PROVE  Recovering[i] \in StepName
    <3>1. i \in 1 .. Len(Recovering)
      BY <1>1
    <3> QED BY <1>1, <3>1, ElementOfSeq
  <2> HIDE DEF t
  <2>2. m \in Int /\ 8 \in Int /\ m <= 8 /\ 8 - m + 1 = 9 - m
    OBVIOUS
  <2>3. /\ t \in Seq(StepName) /\ Len(t) = IF m <= 8 THEN 8 - m + 1 ELSE 0
        /\ \A i \in 1 .. 8 - m + 1 : t[i] = Recovering[m + i - 1]
    BY <2>1, <2>2, SubSeqProperties, SMT DEF t
  <2> QED BY <2>2, <2>3
<1>3. Len(t) > 0 /\ t[Len(t)] = "exit" /\ Head(t) = Recovering[m]
  BY <1>1, <1>2
<1> HIDE DEF t
<1>4. ASSUME NEW i \in 1 .. Len(t) - 1
      PROVE  \E k \in 1 .. Len(Recovering) - 1 : t[i] = Recovering[k] /\ t[i + 1] = Recovering[k + 1]
  <2>1. /\ m + i - 1 \in 1 .. Len(Recovering) - 1
        /\ t[i] = Recovering[m + i - 1] /\ t[i + 1] = Recovering[m + i - 1 + 1]
    BY <1>1, <1>2
  <2> QED BY <2>1
<1> QED BY <1>2, <1>3, <1>4 DEF Follows, t
-----------------------------------------------------------------------------
\* What comes after the step of the command.
NextStep ==
  IF job.kind = "upgrade"
  THEN IF job.outcome = "succeeded" THEN AfterUpgrading(Step) ELSE AfterRecovering(Step)
  ELSE IF job.kind = "install" THEN AfterInstalling(Step) ELSE AfterRollingBack(Step)

\* What no step changes of a command; what a step that passes changes of it.
Kept(j) ==
  /\ j \in Command /\ j.kind = job.kind /\ j.by = job.by /\ j.target = job.target
  /\ j.reports = job.reports /\ j.before = job.before
Carried(j) ==
  Kept(j) /\ j.todo = Tail(job.todo) /\ j.outcome = job.outcome /\ j.skipped = job.skipped

\* The types of a command at work, conjunct by conjunct.
LEMMA Working ==
  ASSUME UpBase, job # None
  PROVE  /\ job \in Command /\ job.todo \in Seq(StepName) /\ Len(job.todo) > 0
         /\ Step \in StepName /\ Tail(job.todo) \in Seq(StepName)
         /\ Follows(job.todo, PlanOf(job))
<1>1. job \in Command /\ Follows(job.todo, PlanOf(job))
  BY DEF UpBase, UpTypeOK, JobOK
<1>2. job.todo \in Seq(StepName) /\ Len(job.todo) > 0
  BY <1>1 DEF Follows
<1>3. Step \in StepName /\ Tail(job.todo) \in Seq(StepName)
  BY <1>2 DEF Step
<1> QED BY <1>1, <1>2, <1>3

\* The ways in which a step that passes writes the command, each a record of the type.
LEMMA OnwardCarries ==
  ASSUME UpBase, job # None, NEW x \in Content, NEW y \in Content, NEW b \in BOOLEAN
  PROVE  /\ Carried(Onward) /\ Onward.was = job.was
         /\ Onward.oldBin = job.oldBin /\ Onward.oldWeb = job.oldWeb
         /\ LET j == [Onward EXCEPT !.oldBin = x]
            IN  Carried(j) /\ j.was = job.was /\ j.oldBin = x /\ j.oldWeb = job.oldWeb
         /\ LET j == [Onward EXCEPT !.oldWeb = x]
            IN  Carried(j) /\ j.was = job.was /\ j.oldBin = job.oldBin /\ j.oldWeb = x
         /\ LET j == [Onward EXCEPT !.oldBin = x, !.oldWeb = y]
            IN  Carried(j) /\ j.was = job.was /\ j.oldBin = x /\ j.oldWeb = y
         /\ LET j == [Onward EXCEPT !.was = b]
            IN  Carried(j) /\ j.was = b /\ j.oldBin = job.oldBin /\ j.oldWeb = job.oldWeb
<1>1. job \in Command /\ Tail(job.todo) \in Seq(StepName)
  BY Working
<1>2. /\ Onward \in Command /\ Carried(Onward) /\ Onward.was = job.was
      /\ Onward.oldBin = job.oldBin /\ Onward.oldWeb = job.oldWeb
  BY <1>1 DEF Onward, Carried, Kept, Command
<1> DEFINE o == Onward
<1>3. /\ o \in Command /\ Carried(o) /\ o.was = job.was
      /\ o.oldBin = job.oldBin /\ o.oldWeb = job.oldWeb
  BY <1>2
<1> HIDE DEF o
<1>4. LET j == [o EXCEPT !.oldBin = x]
      IN  Carried(j) /\ j.was = job.was /\ j.oldBin = x /\ j.oldWeb = job.oldWeb
  BY <1>3 DEF Carried, Kept, Command
<1>5. LET j == [o EXCEPT !.oldWeb = x]
      IN  Carried(j) /\ j.was = job.was /\ j.oldBin = job.oldBin /\ j.oldWeb = x
  BY <1>3 DEF Carried, Kept, Command
<1>6. LET j == [o EXCEPT !.oldBin = x, !.oldWeb = y]
      IN  Carried(j) /\ j.was = job.was /\ j.oldBin = x /\ j.oldWeb = y
  BY <1>3 DEF Carried, Kept, Command
<1>7. LET j == [o EXCEPT !.was = b]
      IN  Carried(j) /\ j.was = b /\ j.oldBin = job.oldBin /\ j.oldWeb = job.oldWeb
  BY <1>3 DEF Carried, Kept, Command
<1> QED BY <1>2, <1>4, <1>5, <1>6, <1>7 DEF o

\* A step that passes leaves the command at the next one of its script.
LEMMA MovesOn ==
  ASSUME UpBase, job # None, Step # "exit", Carried(job')
  PROVE  /\ JobOK' /\ job' # None /\ Step' = NextStep
         /\ job' \in Command
<1>1. /\ Follows(job.todo, PlanOf(job)) /\ job'.todo = Tail(job.todo) /\ job' \in Command
      /\ PlanOf(job') = PlanOf(job) /\ job' # None
      /\ job'.kind = job.kind /\ job'.outcome = job.outcome
  BY Working, ReleaseAssumption DEF Carried, Kept, PlanOf
<1> DEFINE p == PlanOf(job)
<1>2. /\ Follows(job'.todo, p)
      /\ \E k \in 1 .. Len(p) - 1 : Step = p[k] /\ Step' = p[k + 1]
  BY <1>1, FollowsTail DEF Step
<1>3. Step' = NextStep
  <2>1. CASE job.kind = "upgrade" /\ job.outcome = "succeeded"
    <3>1. p = Upgrading
      BY <2>1 DEF PlanOf, Script
    <3> HIDE DEF p
    <3> QED BY <1>2, <2>1, <3>1, UpgradingOrder DEF NextStep
  <2>2. CASE job.kind = "upgrade" /\ job.outcome # "succeeded"
    <3>1. p = Recovering
      BY <2>2 DEF PlanOf
    <3> HIDE DEF p
    <3> QED BY <1>2, <2>2, <3>1, RecoveringOrder DEF NextStep
  <2>3. CASE job.kind = "install"
    <3>1. p = Installing
      BY <2>3 DEF PlanOf, Script
    <3> HIDE DEF p
    <3> QED BY <1>2, <2>3, <3>1, InstallingOrder DEF NextStep
  <2>4. CASE job.kind = "rollback"
    <3>1. p = RollingBack
      BY <2>4 DEF PlanOf, Script
    <3> HIDE DEF p
    <3> QED BY <1>2, <2>4, <3>1, RollingBackOrder DEF NextStep
  <2>5. job.kind \in {"upgrade", "install", "rollback"}
    BY Working DEF Command
  <2> QED BY <2>1, <2>2, <2>3, <2>4, <2>5
<1>4. JobOK'
  <2>1. job.skipped => Step = "finish" /\ job.kind = "upgrade" /\ job.outcome = "succeeded"
    BY DEF UpBase, JobOK
  <2>2. job.skipped => Step' = "exit"
    BY <2>1, <1>3 DEF NextStep, AfterUpgrading
  <2>3. job.kind = "upgrade" \/ job.outcome = "succeeded"
    BY DEF UpBase, JobOK
  <2>4. /\ job'.by = "unit" => job'.reports
        /\ job'.reports => job'.kind = "upgrade"
    BY DEF UpBase, JobOK, Carried, Kept
  <2>5. Follows(job'.todo, PlanOf(job'))
    BY <1>1, <1>2
  <2>6. job'.skipped => job.skipped
    BY DEF Carried
  <2>7. /\ job'.kind # "upgrade" /\ job'.outcome # "succeeded" => Step' = "exit"
        /\ job'.skipped => job'.kind = "upgrade" /\ Step' \in {"finish", "exit"} /\ job'.outcome = "succeeded"
    BY <1>1, <2>1, <2>2, <2>3, <2>6
  <2> QED BY <2>4, <2>5, <2>7 DEF JobOK
<1> QED BY <1>1, <1>3, <1>4
-----------------------------------------------------------------------------
\* The command goes on with t and the outcome o.
Turned(j, t, o) ==
  /\ Kept(j) /\ j.todo = t /\ j.outcome = o
  /\ j.skipped = job.skipped /\ j.was = job.was /\ j.oldBin = job.oldBin /\ j.oldWeb = job.oldWeb

\* A step that does not pass leaves the rest of the command as it was.
LEMMA TurnsTo ==
  ASSUME UpBase, job # None, NEW t \in Seq(StepName), NEW o \in Outcome
  PROVE  /\ Turned([job EXCEPT !.todo = t, !.outcome = o], t, o)
         /\ LET j == [job EXCEPT !.todo = t, !.skipped = TRUE]
            IN  /\ Kept(j) /\ j.todo = t /\ j.outcome = job.outcome /\ j.skipped = TRUE
                /\ j.was = job.was /\ j.oldBin = job.oldBin /\ j.oldWeb = job.oldWeb
<1>1. job \in Command
  BY Working
<1> QED BY <1>1 DEF Turned, Kept, Command

\* The scripts that a failure leaves are sequences of steps, with their first steps.
LEMMA Remainders ==
  /\ <<"exit">> \in Seq(StepName) /\ <<"finish", "exit">> \in Seq(StepName)
  /\ Recovering \in Seq(StepName)
  /\ \A m \in 1 .. 8 : SubSeq(Recovering, m, 8) \in Seq(StepName)
  /\ Head(SubSeq(Recovering, 3, 8)) = "dropWeb" /\ Head(SubSeq(Recovering, 5, 8)) = "start"
  /\ Head(SubSeq(Recovering, 7, 8)) = "finish"
<1>1. <<"exit">> \in Seq(StepName) /\ <<"finish", "exit">> \in Seq(StepName)
  BY DEF StepName
<1>2. Recovering \in Seq(StepName)
  BY DEF Recovering, StepName
<1>3. \A m \in 1 .. 8 : SubSeq(Recovering, m, 8) \in Seq(StepName)
  BY RestFollows DEF Follows
<1>4. /\ Head(SubSeq(Recovering, 3, 8)) = Recovering[3] /\ Head(SubSeq(Recovering, 5, 8)) = Recovering[5]
      /\ Head(SubSeq(Recovering, 7, 8)) = Recovering[7]
  BY RestFollows
<1>5. Recovering[3] = "dropWeb" /\ Recovering[5] = "start" /\ Recovering[7] = "finish"
  BY DEF Recovering
<1> QED BY <1>1, <1>2, <1>3, <1>4, <1>5

\* A failure after which the release that was there is put back.
FailsBack == job.outcome = "succeeded" /\ Step \in {"placeBin", "clearWeb", "placeWeb", "verify", "start", "settle"}

\* perform_upgrade's, install_hub's and recover's errors: where a step that fails
\* leaves the command.
LEMMA FailsTo ==
  ASSUME UpBase, job # None, Step \notin {"stop", "exit"}, job' = Failed
  PROVE  /\ Turned(job', job'.todo, job'.outcome) /\ JobOK' /\ job' # None
         /\ Step = "finish" => Step' = "exit" /\ job'.outcome = job.outcome
         /\ Step # "finish" /\ job.kind # "upgrade" => Step' = "exit" /\ job'.outcome = "failed"
         /\ Step # "finish" /\ job.kind = "upgrade" /\ FailsBack =>
              Step' = "dropBin" /\ job'.outcome = "rolled_back" /\ job'.todo = Recovering
         /\ Step # "finish" /\ job.kind = "upgrade" /\ job.outcome = "succeeded" /\ ~FailsBack =>
              Step' = "finish" /\ job'.outcome = "failed"
         /\ Step # "finish" /\ job.kind = "upgrade" /\ job.outcome # "succeeded" =>
              /\ job'.outcome = "failed"
              /\ Step' = CASE Step \in {"dropBin", "backBin"} -> "dropWeb"
                           [] Step \in {"dropWeb", "backWeb"} -> "start"
                           [] OTHER -> "finish"
         /\ job'.todo = Recovering => job.kind = "upgrade" /\ FailsBack
<1> DEFINE To(t, o) == [job EXCEPT !.todo = t, !.outcome = o]
           Good(t, o) == /\ Turned(job', t, o) /\ Follows(t, PlanOf(job'))
                         /\ job'.kind # "upgrade" /\ o # "succeeded" => Head(t) = "exit"
                         /\ job'.skipped => Head(t) = "exit" /\ o = "succeeded"
<1>1. job \in Command /\ job.kind \in {"upgrade", "install", "rollback"} /\ job.outcome \in Outcome
  BY Working DEF Command
<1>2. ASSUME NEW t \in Seq(StepName), NEW o \in Outcome, job' = To(t, o)
      PROVE  Turned(job', t, o) /\ (PlanOf(job') = IF job.kind = "upgrade" /\ o # "succeeded"
                                                   THEN Recovering ELSE Script[job.kind])
  <2>1. Turned([job EXCEPT !.todo = t, !.outcome = o], t, o)
    BY TurnsTo
  <2>2. Turned(job', t, o)
    BY <1>2, <2>1
  <2> QED BY <2>2 DEF Turned, Kept, PlanOf
<1>3. job.skipped => Step = "finish" /\ job.kind = "upgrade" /\ job.outcome = "succeeded"
  BY DEF UpBase, JobOK
<1>4. job.kind # "upgrade" /\ job.outcome # "succeeded" => Step = "exit"
  BY DEF UpBase, JobOK
<1>5. Head(Recovering) = "dropBin"
  BY ScriptsFollow
<1>6. ASSUME NEW t, NEW o, Good(t, o)
      PROVE  /\ Turned(job', job'.todo, job'.outcome) /\ JobOK' /\ job' # None
             /\ Step' = Head(t) /\ job'.outcome = o /\ job'.todo = t
  <2>1. job'.todo = t /\ job'.outcome = o /\ job' \in Command /\ job'.kind = job.kind
        /\ job'.by = job.by /\ job'.reports = job.reports /\ Step' = Head(t)
    BY <1>6 DEF Turned, Kept, Step
  <2>2. job' # None
    BY <2>1, ReleaseAssumption
  <2>3. Follows(job'.todo, PlanOf(job'))
    BY <1>6, <2>1
  <2>4. /\ job'.by = "unit" => job'.reports
        /\ job'.reports => job'.kind = "upgrade"
    BY <2>1 DEF UpBase, JobOK
  <2>5. job'.kind # "upgrade" /\ job'.outcome # "succeeded" => Step' = "exit"
    BY <2>1, <1>6
  <2>6. job'.skipped => job'.kind = "upgrade" /\ Step' \in {"finish", "exit"} /\ job'.outcome = "succeeded"
    BY <2>1, <1>3, <1>6 DEF Turned
  <2>7. JobOK'
    BY <2>3, <2>4, <2>5, <2>6 DEF JobOK
  <2> QED BY <1>6, <2>1, <2>2, <2>7
<1>7. CASE Step = "finish"
  <2>1. job' = To(<<"exit">>, job.outcome)
    BY <1>7 DEF Failed, Step
  <2>2. Turned(job', <<"exit">>, job.outcome)
    BY <1>1, <1>2, <2>1, Remainders
  <2>3. Good(<<"exit">>, job.outcome)
    BY <2>2, EndsFollow, <1>3 DEF Turned
  <2> HIDE DEF Good, To
  <2>4. <<"exit">> # Recovering /\ Head(<<"exit">>) = "exit"
    BY <1>5, EndsFollow
  <2> QED BY <1>6, <1>7, <2>3, <2>4
<1>8. CASE Step # "finish" /\ job.kind # "upgrade"
  <2>1. job' = To(<<"exit">>, "failed")
    BY <1>8 DEF Failed, Step
  <2>2. Turned(job', <<"exit">>, "failed")
    BY <1>2, <2>1, Remainders DEF Outcome
  <2>3. Good(<<"exit">>, "failed")
    BY <1>8, <2>2, EndsFollow, <1>3 DEF Turned
  <2> HIDE DEF Good, To
  <2>4. <<"exit">> # Recovering /\ Head(<<"exit">>) = "exit"
    BY <1>5, EndsFollow
  <2> QED BY <1>6, <1>8, <2>3, <2>4
<1>9. CASE Step # "finish" /\ job.kind = "upgrade" /\ FailsBack
  <2>1. job' = To(Recovering, "rolled_back")
    BY <1>9 DEF Failed, Step, FailsBack
  <2>2. Turned(job', Recovering, "rolled_back") /\ PlanOf(job') = Recovering
    BY <1>2, <1>9, <2>1, Remainders DEF Outcome
  <2>3. Good(Recovering, "rolled_back")
    BY <1>9, <2>2, ScriptsFollow, <1>3 DEF Turned, Kept
  <2> HIDE DEF Good, To
  <2> QED BY <1>5, <1>6, <1>9, <2>3 DEF FailsBack
<1>10. CASE Step # "finish" /\ job.kind = "upgrade" /\ job.outcome = "succeeded" /\ ~FailsBack
  <2>1. job' = To(<<"finish", "exit">>, "failed")
    BY <1>10 DEF Failed, Step, FailsBack
  <2>2. Turned(job', <<"finish", "exit">>, "failed") /\ PlanOf(job') = Recovering
    BY <1>2, <1>10, <2>1, Remainders DEF Outcome
  <2>3. Good(<<"finish", "exit">>, "failed")
    BY <1>10, <2>2, LastOnes, <1>3 DEF Turned, Kept
  <2> HIDE DEF Good, To
  <2>4. <<"finish", "exit">> # Recovering /\ Head(<<"finish", "exit">>) = "finish"
    BY <1>5, LastOnes
  <2> QED BY <1>6, <1>10, <2>3, <2>4
<1>11. CASE Step # "finish" /\ job.kind = "upgrade" /\ job.outcome # "succeeded"
  <2> DEFINE m == CASE Step \in {"dropBin", "backBin"} -> 3
                    [] Step \in {"dropWeb", "backWeb"} -> 5 [] OTHER -> 7
             t == SubSeq(Recovering, m, 8)
  <2>1. job' = To(t, "failed") /\ m \in 1 .. 8
    <3>1. ASSUME NEW n, m = n, n \in {3, 5, 7}
          PROVE  job' = To(SubSeq(Recovering, n, 8), "failed")
      <4>1. /\ n = 3 => Step \in {"dropBin", "backBin"}
            /\ n = 5 => Step \in {"dropWeb", "backWeb"}
            /\ n = 7 => Step \notin {"dropBin", "backBin", "dropWeb", "backWeb"}
        BY <3>1
      <4> HIDE DEF m
      <4>2. CASE n = 3
        BY <1>11, <4>1, <4>2 DEF Failed, Step
      <4>3. CASE n = 5
        BY <1>11, <4>1, <4>3 DEF Failed, Step
      <4>4. CASE n = 7
        BY <1>11, <4>1, <4>4 DEF Failed, Step
      <4> QED BY <3>1, <4>2, <4>3, <4>4
    <3>2. m \in {3, 5, 7}
      OBVIOUS
    <3> HIDE DEF m, To
    <3>3. job' = To(SubSeq(Recovering, m, 8), "failed")
      BY <3>1, <3>2
    <3> QED BY <3>2, <3>3
  <2>2. Turned(job', t, "failed") /\ PlanOf(job') = Recovering
    BY <1>2, <1>11, <2>1, Remainders DEF Outcome
  <2>3. Head(t) = CASE Step \in {"dropBin", "backBin"} -> "dropWeb"
                    [] Step \in {"dropWeb", "backWeb"} -> "start" [] OTHER -> "finish"
    BY Remainders
  <2>4. Follows(t, Recovering)
    BY <2>1, RestFollows
  <2> HIDE DEF t
  <2>5. Good(t, "failed")
    BY <1>11, <2>2, <2>4, <1>3 DEF Turned, Kept
  <2> HIDE DEF Good, To
  <2>6. t # Recovering
    BY <1>5, <2>3
  <2> QED BY <1>6, <1>11, <2>3, <2>5, <2>6 DEF FailsBack
<1> QED BY <1>7, <1>8, <1>9, <1>10, <1>11
-----------------------------------------------------------------------------
\* What most steps leave of what the command has learnt; a step s that passed.
Same3 == job'.was = job.was /\ job'.oldBin = job.oldBin /\ job'.oldWeb = job.oldWeb
Passed(s) ==
  /\ job # None /\ Step = s /\ Carried(job') /\ JobOK' /\ job' # None /\ Step' = NextStep
  /\ job' \in Command

\* RemoveAt of the community modules, element by element.
LEMMA RemovedAt ==
  ASSUME NEW S, NEW c \in Seq(S), NEW i \in 1 .. Len(c)
  PROVE  /\ RemoveAt(c, i) \in Seq(S) /\ Len(RemoveAt(c, i)) = Len(c) - 1
         /\ \A k \in 1 .. Len(c) - 1 : RemoveAt(c, i)[k] = IF k < i THEN c[k] ELSE c[k + 1]
<1> DEFINE a == SubSeq(c, 1, i - 1)
           z == SubSeq(c, i + 1, Len(c))
<1>1. /\ a \in Seq(S) /\ Len(a) = i - 1 /\ \A k \in 1 .. i - 1 : a[k] = c[k]
  <2>1. \A k \in 1 .. i - 1 : c[k] \in S
    BY ElementOfSeq
  <2> HIDE DEF a
  <2>2. 1 \in Int /\ i - 1 \in Int /\ (i - 1) - 1 + 1 = i - 1 /\ (1 > i - 1 => i - 1 = 0)
    OBVIOUS
  <2>3. /\ a \in Seq(S) /\ Len(a) = IF 1 <= i - 1 THEN (i - 1) - 1 + 1 ELSE 0
        /\ \A k \in 1 .. (i - 1) - 1 + 1 : a[k] = c[1 + k - 1]
    BY <2>1, <2>2, SubSeqProperties, SMT DEF a
  <2> QED BY <2>2, <2>3
<1>2. /\ z \in Seq(S) /\ Len(z) = Len(c) - i /\ \A k \in 1 .. Len(c) - i : z[k] = c[k + i]
  <2>1. \A k \in i + 1 .. Len(c) : c[k] \in S
    BY ElementOfSeq
  <2> HIDE DEF z
  <2>2. i + 1 \in Int /\ Len(c) \in Int
    OBVIOUS
  <2>3. /\ z \in Seq(S) /\ Len(z) = IF i + 1 <= Len(c) THEN Len(c) - (i + 1) + 1 ELSE 0
        /\ \A k \in 1 .. Len(c) - (i + 1) + 1 : z[k] = c[(i + 1) + k - 1]
    BY <2>1, <2>2, SubSeqProperties, SMT DEF z
  <2> QED BY <2>2, <2>3
<1>3. RemoveAt(c, i) = a \o z
  BY DEF RemoveAt
<1> HIDE DEF a, z
<1>4. /\ a \o z \in Seq(S) /\ Len(a \o z) = Len(a) + Len(z)
      /\ \A k \in 1 .. Len(a) + Len(z) : (a \o z)[k] = IF k <= Len(a) THEN a[k] ELSE z[k - Len(a)]
  BY <1>1, <1>2, ConcatProperties
<1>5. ASSUME NEW k \in 1 .. Len(c) - 1
      PROVE  (a \o z)[k] = IF k < i THEN c[k] ELSE c[k + 1]
  <2>0. k \in Int /\ i \in Int /\ k \in 1 .. Len(a) + Len(z)
    BY <1>1, <1>2
  <2>1. CASE k < i
    BY <1>1, <1>2, <1>4, <2>1
  <2>2. CASE ~(k < i)
    <3>1. k - (i - 1) \in 1 .. Len(c) - i /\ k - (i - 1) + i = k + 1 /\ ~(k <= i - 1)
      BY <2>0, <2>2
    <3>2. (a \o z)[k] = z[k - (i - 1)]
      BY <1>1, <1>4, <2>0, <3>1
    <3>3. z[k - (i - 1)] = c[k - (i - 1) + i]
      BY <1>2, <3>1
    <3> QED BY <2>2, <3>1, <3>2, <3>3
  <2> QED BY <2>1, <2>2
<1> QED BY <1>1, <1>2, <1>3, <1>4, <1>5

\* The copies without the one of the same label.
LEMMA OthersTyped ==
  ASSUME NEW c \in Seq(Copy)
  PROVE  Others(c) \in Seq(Copy)
<1>1. CASE SameLabel(c) = {}
  BY <1>1 DEF Others
<1>2. CASE SameLabel(c) # {}
  <2> DEFINE i == CHOOSE j \in SameLabel(c) : TRUE
  <2>1. i \in SameLabel(c) /\ SameLabel(c) \subseteq DOMAIN c
    BY <1>2 DEF SameLabel
  <2>2. Others(c) = RemoveAt(c, i)
    BY <1>2 DEF Others
  <2>3. i \in 1 .. Len(c)
    BY <2>1
  <2> HIDE DEF i
  <2> QED BY <2>2, <2>3, RemovedAt
<1> QED BY <1>1, <1>2

\* backup_existing, prune_backups and find_latest_backup_in on copies of the type.
LEMMA CopiesTyped ==
  ASSUME UpTypeOK, NEW c \in Release \cup {Torn}
  PROVE  /\ PutBin(c) \in Seq(Copy) /\ PutWeb(c) \subseteq Seq(Copy)
         /\ Prune(binCopies) \in Seq(Copy) /\ Prune(webCopies) \in Seq(Copy)
         /\ binCopies # <<>> => Newest(binCopies) \in Content
         /\ webCopies # <<>> => Newest(webCopies) \in Content
<1>1. binCopies \in Seq(Copy) /\ webCopies \in Seq(Copy) /\ binary \in Content
  BY DEF UpTypeOK
<1> DEFINE new == [label |-> binary, of |-> c]
<1>2. new \in Copy
  BY <1>1 DEF Copy, Content
<1> HIDE DEF new
<1>3. PutBin(c) \in Seq(Copy)
  BY <1>1, <1>2, OthersTyped DEF PutBin, new
<1>4. PutWeb(c) \subseteq Seq(Copy)
  <2> DEFINE there == SameLabel(webCopies)
             inPlace == [i \in DOMAIN webCopies |-> IF i \in there THEN new ELSE webCopies[i]]
             atEnd == Append(Others(webCopies), new)
  <2>1. atEnd \in Seq(Copy)
    BY <1>1, <1>2, OthersTyped
  <2>2. inPlace \in Seq(Copy)
    BY <1>1, <1>2
  <2>3. PutWeb(c) \subseteq {atEnd, inPlace}
    BY DEF PutWeb, new
  <2> QED BY <2>1, <2>2, <2>3
<1>5. ASSUME NEW s \in Seq(Copy), s # <<>>
      PROVE  <<s[Len(s)]>> \in Seq(Copy) /\ s[Len(s)].of \in Content
  <2>1. Len(s) \in 1 .. Len(s)
    BY <1>5
  <2>2. s[Len(s)] \in Copy
    BY <2>1, ElementOfSeq
  <2> QED BY <2>2 DEF Copy, Content
<1>6. \A s \in Seq(Copy) : Prune(s) \in Seq(Copy) /\ (s # <<>> => Newest(s) \in Content)
  BY <1>5 DEF Prune, Newest
<1> QED BY <1>1, <1>3, <1>4, <1>6

\* Every action that lets its step pass, and what the command has learnt from it.
LEMMA Passes ==
  ASSUME UpBase
  PROVE  /\ Resolve => Passed("resolve") /\ Same3
         /\ Prepare => Passed("prepare") /\ Same3
         /\ CopyBin => Passed("copyBin") /\ job'.was = job.was /\ job'.oldBin = binary
                       /\ job'.oldWeb = job.oldWeb
         /\ CopyWeb => Passed("copyWeb") /\ job'.was = job.was /\ job'.oldBin = job.oldBin
                       /\ job'.oldWeb = web
         /\ Stop => Passed("stop") /\ job'.was = (hub # None) /\ job'.oldBin = job.oldBin
                    /\ job'.oldWeb = job.oldWeb
         /\ StopUnseen => Passed("stop") /\ job'.was \in BOOLEAN /\ job'.oldBin = job.oldBin
                          /\ job'.oldWeb = job.oldWeb
         /\ Announce => Passed("announce") /\ Same3
         /\ Place => Passed(Step) /\ Same3
         /\ Verify => Passed("verify") /\ Same3
         /\ Start => Passed("start") /\ Same3
         /\ PruneCopies => Passed("prune") /\ Same3
         /\ Finish => Passed("finish") /\ Same3
<1>1. binary \in Content /\ web \in Content
  BY DEF UpBase, UpTypeOK
<1>2. ASSUME job # None, Step # "exit", job' = Onward
      PROVE  Passed(Step) /\ Same3
  BY <1>1, <1>2, OnwardCarries, MovesOn DEF Passed, Same3
<1>3. ASSUME CopyBin
      PROVE  Passed("copyBin") /\ job'.was = job.was /\ job'.oldBin = binary /\ job'.oldWeb = job.oldWeb
  <2>1. job # None /\ Step = "copyBin" /\ job' = [Onward EXCEPT !.oldBin = binary]
    BY <1>3 DEF CopyBin, AtStep, Step
  <2>2. Carried(job') /\ job'.was = job.was /\ job'.oldBin = binary /\ job'.oldWeb = job.oldWeb
    BY <1>1, <2>1, OnwardCarries
  <2> QED BY <2>1, <2>2, MovesOn DEF Passed
<1>4. ASSUME CopyWeb
      PROVE  Passed("copyWeb") /\ job'.was = job.was /\ job'.oldBin = job.oldBin /\ job'.oldWeb = web
  <2>1. job # None /\ Step = "copyWeb" /\ job' = [Onward EXCEPT !.oldWeb = web]
    BY <1>4 DEF CopyWeb, AtStep, Step
  <2>2. Carried(job') /\ job'.was = job.was /\ job'.oldBin = job.oldBin /\ job'.oldWeb = web
    BY <1>1, <2>1, OnwardCarries
  <2> QED BY <2>1, <2>2, MovesOn DEF Passed
<1>5. ASSUME NEW b \in BOOLEAN, AtStep("stop"), job' = [Onward EXCEPT !.was = b]
      PROVE  Passed("stop") /\ job'.was = b /\ job'.oldBin = job.oldBin /\ job'.oldWeb = job.oldWeb
  <2>1. job # None /\ Step = "stop"
    BY <1>5 DEF AtStep, Step
  <2>2. Carried(job') /\ job'.was = b /\ job'.oldBin = job.oldBin /\ job'.oldWeb = job.oldWeb
    BY <1>1, <1>5, <2>1, OnwardCarries
  <2> QED BY <2>1, <2>2, MovesOn DEF Passed
<1>6. Stop => Passed("stop") /\ job'.was = (hub # None) /\ job'.oldBin = job.oldBin /\ job'.oldWeb = job.oldWeb
  <2> DEFINE b == hub # None
  <2>1. b \in BOOLEAN
    OBVIOUS
  <2>2. Stop => AtStep("stop") /\ job' = [Onward EXCEPT !.was = b]
    BY DEF Stop
  <2> HIDE DEF b
  <2>3. Stop => Passed("stop") /\ job'.was = b /\ job'.oldBin = job.oldBin /\ job'.oldWeb = job.oldWeb
    BY <1>5, <2>1, <2>2
  <2> QED BY <2>3 DEF b
<1>7. ASSUME StopUnseen
      PROVE  /\ Passed("stop") /\ job'.was \in BOOLEAN /\ job'.oldBin = job.oldBin
             /\ job'.oldWeb = job.oldWeb
  <2>1. AtStep("stop") /\ \E b \in BOOLEAN : job' = [Onward EXCEPT !.was = b]
    BY <1>7 DEF StopUnseen
  <2>2. PICK b \in BOOLEAN : job' = [Onward EXCEPT !.was = b]
    BY <2>1
  <2> QED BY <1>5, <2>1, <2>2
<1>8. /\ Resolve => job # None /\ Step = "resolve" /\ job' = Onward
      /\ Prepare => job # None /\ Step = "prepare" /\ job' = Onward
      /\ Announce => job # None /\ Step = "announce" /\ job' = Onward
      /\ Verify => job # None /\ Step = "verify" /\ job' = Onward
      /\ Start => job # None /\ Step = "start" /\ job' = Onward
      /\ PruneCopies => job # None /\ Step = "prune" /\ job' = Onward
      /\ Finish => job # None /\ Step = "finish" /\ job' = Onward
  BY DEF Resolve, Prepare, Announce, Verify, Start, PruneCopies, Finish, AtStep, Step
<1>9. Place => job # None /\ Step # "exit" /\ job' = Onward
  BY DEF Place, AtStep, Step
<1> QED BY <1>2, <1>3, <1>4, <1>6, <1>7, <1>8, <1>9
-----------------------------------------------------------------------------
\* The steps of recover.
Recoverings == {"dropBin", "backBin", "dropWeb", "backWeb", "start", "settle", "finish", "exit"}

\* Where a command of each kind and outcome can be.
LEMMA Whereabouts ==
  ASSUME UpBase, job # None
  PROVE  /\ job.kind \in {"upgrade", "install", "rollback"} /\ job.outcome \in Outcome
         /\ job.kind = "upgrade" /\ job.outcome = "succeeded" =>
              Step \in {"resolve", "plan", "prepare", "copyBin", "copyWeb", "stop", "announce",
                       "placeBin", "clearWeb", "placeWeb", "verify", "start", "settle", "prune",
                       "finish", "exit"}
         /\ job.kind = "upgrade" /\ job.outcome # "succeeded" => Step \in Recoverings
         /\ job.kind = "install" =>
              Step \in {"prepare", "stop", "copyBin", "placeBin", "clearWeb", "placeWeb", "start",
                       "prune", "exit"}
         /\ job.kind = "rollback" =>
              Step \in {"choose", "stop", "dropBin", "backBin", "dropWeb", "backWeb", "start",
                       "settle", "exit"}
         /\ job.kind # "upgrade" => job.outcome = "succeeded" \/ Step = "exit"
<1> DEFINE t == job.todo
           p == PlanOf(job)
<1>1. Follows(t, p) /\ job \in Command /\ Step = t[1]
  BY Working DEF Step
<1>2. job.kind \in {"upgrade", "install", "rollback"} /\ job.outcome \in Outcome
  BY <1>1 DEF Command
<1>3. Step = "exit" \/ \E k \in 1 .. Len(p) - 1 : Step = p[k]
  <2>1. t \in Seq(StepName) /\ Len(t) > 0 /\ t[Len(t)] = "exit"
    BY <1>1 DEF Follows
  <2>2. Step = "exit" \/ 1 \in 1 .. Len(t) - 1
    BY <1>1, <2>1
  <2> HIDE DEF t, p
  <2> QED BY <1>1, <2>2 DEF Follows
<1>4. job.kind = "upgrade" /\ job.outcome = "succeeded" => p = Upgrading
  BY DEF PlanOf, Script
<1>5. job.kind = "upgrade" /\ job.outcome # "succeeded" => p = Recovering
  BY DEF PlanOf
<1>6. job.kind = "install" => p = Installing
  BY DEF PlanOf, Script
<1>7. job.kind = "rollback" => p = RollingBack
  BY DEF PlanOf, Script
<1> HIDE DEF p, t
<1>8. CASE p = Upgrading
  <2>1. Step \in {"resolve", "plan", "prepare", "copyBin", "copyWeb", "stop", "announce",
                 "placeBin", "clearWeb", "placeWeb", "verify", "start", "settle", "prune",
                 "finish", "exit"}
    BY <1>3, <1>8 DEF Upgrading
  <2>2. Upgrading[1] # Recovering[1] /\ Upgrading[1] # Installing[1] /\ Upgrading[1] # RollingBack[1]
    BY DEF Upgrading, Recovering, Installing, RollingBack
  <2> QED BY <1>2, <1>5, <1>6, <1>7, <1>8, <2>1, <2>2
<1>9. CASE p = Recovering
  <2>1. Step \in Recoverings
    BY <1>3, <1>9 DEF Recovering, Recoverings
  <2>2. Recovering[1] # Upgrading[1] /\ Recovering[1] # Installing[1] /\ Recovering[1] # RollingBack[1]
    BY DEF Upgrading, Recovering, Installing, RollingBack
  <2> QED BY <1>2, <1>4, <1>6, <1>7, <1>9, <2>1, <2>2
<1>10. job.kind # "upgrade" => job.outcome = "succeeded" \/ Step = "exit"
  BY DEF UpBase, JobOK
<1>11. CASE job.kind = "install"
  <2>0. p = Installing
    BY <1>6, <1>11
  <2>1. Step \in {"prepare", "stop", "copyBin", "placeBin", "clearWeb", "placeWeb", "start",
                 "prune", "exit"}
    BY <1>3, <2>0 DEF Installing
  <2> QED BY <1>2, <1>10, <1>11, <2>1
<1>12. CASE job.kind = "rollback"
  <2>0. p = RollingBack
    BY <1>7, <1>12
  <2>1. Step \in {"choose", "stop", "dropBin", "backBin", "dropWeb", "backWeb", "start",
                 "settle", "exit"}
    BY <1>3, <2>0 DEF RollingBack
  <2> QED BY <1>2, <1>10, <1>12, <2>1
<1> QED BY <1>2, <1>4, <1>5, <1>8, <1>9, <1>10, <1>11, <1>12

\* A command as it begins.
Begun(kind, by, t, reports) ==
  /\ job' \in Command /\ JobOK' /\ job' # None
  /\ job'.kind = kind /\ job'.by = by /\ job'.target = t /\ job'.reports = reports
  /\ job'.outcome = "succeeded" /\ job'.was = FALSE /\ job'.skipped = FALSE
  /\ job'.oldBin = None /\ job'.oldWeb = None /\ job'.before = [bin |-> binary, web |-> web]
  /\ Step' = CASE kind = "upgrade" -> "resolve" [] kind = "install" -> "prepare"
              [] kind = "rollback" -> "choose"

\* A command that takes maintenance.lock begins its script, with nothing learnt.
LEMMA Begins ==
  ASSUME UpTypeOK, NEW kind \in {"upgrade", "install", "rollback"}, NEW by \in {"unit", "shell"},
         NEW t \in Release, NEW reports \in BOOLEAN, by = "unit" => reports,
         reports => kind = "upgrade", job' = Job(kind, by, t, reports)
  PROVE  Begun(kind, by, t, reports)
<1>1. binary \in Content /\ web \in Content /\ None \in Content
  BY DEF UpTypeOK, Content
<1>2. /\ Script[kind] \in Seq(StepName) /\ Follows(Script[kind], Script[kind])
      /\ Head(Script[kind]) = CASE kind = "upgrade" -> "resolve" [] kind = "install" -> "prepare"
                                [] kind = "rollback" -> "choose"
  BY ScriptsFollow DEF Script, Follows
<1>3. job' \in Command
  BY <1>1, <1>2 DEF Job, Command, Outcome
<1>4. /\ job'.kind = kind /\ job'.by = by /\ job'.target = t /\ job'.reports = reports
      /\ job'.todo = Script[kind]
      /\ job'.outcome = "succeeded" /\ job'.was = FALSE /\ job'.skipped = FALSE
      /\ job'.oldBin = None /\ job'.oldWeb = None /\ job'.before = [bin |-> binary, web |-> web]
  BY DEF Job
<1>5. PlanOf(job') = Script[kind]
  BY <1>4 DEF PlanOf
<1>6. JobOK'
  BY <1>2, <1>4, <1>5 DEF JobOK
<1> QED BY <1>2, <1>3, <1>4, <1>6, ReleaseAssumption DEF Begun, Step

\* plan_upgrade: skipped, on its way, or refused.
LEMMA Plans ==
  ASSUME UpBase, Plan
  PROVE  /\ job # None /\ Step = "plan" /\ job.kind = "upgrade" /\ job.outcome = "succeeded"
         /\ \/ /\ binary = job.target /\ Kept(job') /\ JobOK' /\ job' # None /\ Step' = "finish"
              /\ job'.outcome = "succeeded" /\ job'.skipped = TRUE
            \/ /\ binary = None \/ (binary \in Release /\ binary < job.target)
              /\ Passed("plan") /\ Same3
            \/ /\ binary # None
              /\ Turned(job', <<"finish", "exit">>, "failed") /\ JobOK' /\ job' # None
              /\ Step' = "finish"
<1>1. job # None /\ Step = "plan"
  BY DEF Plan, AtStep, Step
<1>2. job.kind = "upgrade" /\ job.outcome = "succeeded"
  BY <1>1, Whereabouts DEF Recoverings
<1>3. CASE binary = job.target
  <2>1. job' = [job EXCEPT !.todo = <<"finish", "exit">>, !.skipped = TRUE]
    BY <1>3 DEF Plan, Skipped
  <2>2. Kept(job') /\ job'.todo = <<"finish", "exit">> /\ job'.outcome = job.outcome /\ job'.skipped = TRUE
    <3> DEFINE u == <<"finish", "exit">>
    <3>1. u \in Seq(StepName) /\ "failed" \in Outcome
      BY Remainders DEF Outcome
    <3>2. job' = [job EXCEPT !.todo = u, !.skipped = TRUE]
      BY <2>1
    <3> HIDE DEF u
    <3>3. Kept(job') /\ job'.todo = u /\ job'.outcome = job.outcome /\ job'.skipped = TRUE
      BY <1>1, <3>1, <3>2, TurnsTo
    <3> QED BY <3>3 DEF u
  <2>3. PlanOf(job') = Upgrading /\ job' # None /\ Step' = "finish"
    BY <1>2, <2>2, LastOnes, ReleaseAssumption DEF PlanOf, Script, Kept, Step
  <2>4. JobOK'
    <3>1. /\ job'.by = "unit" => job'.reports
          /\ job'.reports => job'.kind = "upgrade"
      BY <1>1, <2>2 DEF UpBase, JobOK, Turned, Kept
    <3>2. /\ job'.kind = job.kind /\ job'.todo = <<"finish", "exit">> /\ job'.outcome = job.outcome /\ job'.skipped = TRUE
      BY <2>2 DEF Turned, Kept
    <3>3. Follows(job'.todo, PlanOf(job'))
      BY <2>3, LastOnes, <3>2
    <3> QED BY <1>2, <2>3, <3>1, <3>2, <3>3 DEF JobOK
  <2> QED BY <1>1, <1>2, <1>3, <2>2, <2>3, <2>4
<1>4. CASE binary # job.target /\ (binary = None \/ (binary \in Release /\ binary < job.target))
  <2>1. job' = Onward
    BY <1>4 DEF Plan
  <2>2. Carried(job') /\ Same3
    <3>1. binary \in Content
      BY DEF UpBase, UpTypeOK
    <3> QED BY <1>1, <2>1, <3>1, OnwardCarries DEF Same3
  <2> QED BY <1>1, <1>2, <1>4, <2>2, MovesOn DEF Passed
<1>5. CASE binary # job.target /\ ~(binary = None \/ (binary \in Release /\ binary < job.target))
  <2> DEFINE u == <<"finish", "exit">>
  <2>1. u \in Seq(StepName) /\ "failed" \in Outcome
    BY Remainders DEF Outcome
  <2>2. job' = [job EXCEPT !.todo = u, !.outcome = "failed"]
    BY <1>5 DEF Plan
  <2>3. Follows(u, Recovering) /\ Head(u) = "finish"
    BY LastOnes
  <2> HIDE DEF u
  <2>4. Turned(job', u, "failed")
    BY <1>1, <2>1, <2>2, TurnsTo
  <2>5. PlanOf(job') = Recovering /\ job' # None /\ Step' = "finish"
    BY <1>2, <2>3, <2>4, ReleaseAssumption DEF PlanOf, Turned, Kept, Step
  <2>6. ~job.skipped
    BY <1>1 DEF UpBase, JobOK
  <2>7. JobOK'
    <3>1. /\ job'.by = "unit" => job'.reports
          /\ job'.reports => job'.kind = "upgrade"
      BY <1>1, <2>4 DEF UpBase, JobOK, Turned, Kept
    <3>2. /\ job'.kind = job.kind /\ job'.todo = u /\ job'.outcome = "failed" /\ job'.skipped = job.skipped
      BY <2>4 DEF Turned, Kept
    <3>3. Follows(job'.todo, PlanOf(job'))
      BY <2>3, <2>5, <3>2
    <3> QED BY <1>2, <2>5, <2>6, <3>1, <3>2, <3>3 DEF JobOK
  <2> QED BY <1>1, <1>2, <1>5, <2>4, <2>5, <2>7 DEF u
<1> QED BY <1>3, <1>4, <1>5

\* rollback refuses without a copy of each, and otherwise takes the newest ones.
LEMMA Chooses ==
  ASSUME UpBase, Choose
  PROVE  /\ job # None /\ Step = "choose" /\ job.kind = "rollback" /\ job.outcome = "succeeded"
         /\ \/ /\ binCopies = <<>> \/ webCopies = <<>>
              /\ Turned(job', <<"exit">>, "failed") /\ JobOK' /\ job' # None /\ Step' = "exit"
            \/ /\ binCopies # <<>> /\ webCopies # <<>> /\ Passed("choose") /\ job'.was = job.was
              /\ job'.oldBin = Newest(binCopies) /\ job'.oldWeb = Newest(webCopies)
<1>1. job # None /\ Step = "choose"
  BY DEF Choose, AtStep, Step
<1>2. job.kind = "rollback" /\ job.outcome = "succeeded"
  BY <1>1, Whereabouts DEF Recoverings
<1>3. CASE binCopies = <<>> \/ webCopies = <<>>
  <2> DEFINE u == <<"exit">>
  <2>1. u \in Seq(StepName) /\ "failed" \in Outcome
    BY Remainders DEF Outcome
  <2>2. job' = [job EXCEPT !.todo = u, !.outcome = "failed"]
    BY <1>3 DEF Choose
  <2>3. Follows(u, RollingBack) /\ Head(u) = "exit"
    BY EndsFollow
  <2> HIDE DEF u
  <2>4. Turned(job', u, "failed")
    BY <1>1, <2>1, <2>2, TurnsTo
  <2>5. PlanOf(job') = RollingBack /\ job' # None /\ Step' = "exit"
    BY <1>2, <2>3, <2>4, ReleaseAssumption DEF PlanOf, Turned, Kept, Step, Script
  <2>6. ~job.skipped
    BY <1>1 DEF UpBase, JobOK
  <2>7. JobOK'
    <3>1. /\ job'.by = "unit" => job'.reports
          /\ job'.reports => job'.kind = "upgrade"
      BY <1>1, <2>4 DEF UpBase, JobOK, Turned, Kept
    <3>2. /\ job'.kind = job.kind /\ job'.todo = u /\ job'.outcome = "failed" /\ job'.skipped = job.skipped
      BY <2>4 DEF Turned, Kept
    <3>3. Follows(job'.todo, PlanOf(job'))
      BY <2>3, <2>5, <3>2
    <3> QED BY <1>2, <2>5, <2>6, <3>1, <3>2, <3>3 DEF JobOK
  <2> QED BY <1>1, <1>2, <1>3, <2>4, <2>5, <2>7 DEF u
<1>4. CASE ~(binCopies = <<>> \/ webCopies = <<>>)
  <2> DEFINE x == Newest(binCopies)
             y == Newest(webCopies)
  <2>1. job' = [Onward EXCEPT !.oldBin = x, !.oldWeb = y]
    BY <1>4 DEF Choose
  <2>2. x \in Content /\ y \in Content
    <3>1. Torn \in Release \cup {Torn}
      OBVIOUS
    <3> QED BY <1>4, <3>1, CopiesTyped DEF UpBase
  <2> HIDE DEF x, y
  <2>3. Carried(job') /\ job'.was = job.was /\ job'.oldBin = x /\ job'.oldWeb = y
    BY <1>1, <2>1, <2>2, OnwardCarries
  <2> QED BY <1>1, <1>2, <1>4, <2>3, MovesOn DEF Passed, x, y
<1> QED BY <1>3, <1>4

\* systemd_wait_stable passes, or fails when the binary cannot run.
LEMMA Settles ==
  ASSUME UpBase, Settle
  PROVE  /\ job # None /\ Step = "settle"
         /\ \/ job.was /\ hub = None /\ binary \notin Release /\ job' = Failed
            \/ (job.was => hub # None) /\ Passed("settle") /\ Same3
<1>1. job # None /\ Step = "settle" /\ binary \in Content
  BY DEF Settle, AtStep, Step, UpBase, UpTypeOK
<1>2. \/ job.was /\ hub = None /\ binary \notin Release /\ job' = Failed
      \/ (job.was => hub # None) /\ job' = Onward
  BY DEF Settle
<1>3. job' = Onward => Passed("settle") /\ Same3
  BY <1>1, OnwardCarries, MovesOn DEF Passed, Same3
<1> QED BY <1>1, <1>2, <1>3
-----------------------------------------------------------------------------
\* What the Hub's handler of the request leaves alone.
LEMMA RequestsLeave ==
  ASSUME RequestNext
  PROVE  UNCHANGED <<files, wanted, hub, job, shells, marks>>
BY DEF RequestNext, Ask, TryBegin, ReadAgain, WriteRunning, Spawn, Launch, ReadResult, WriteFailed,
       Drop, KeepHub, files

\* What the steps of a command leave alone.
LEMMA CommandsLeave ==
  ASSUME CommandNext
  PROVE  (req' = req /\ flag' = flag) \/ Forget
BY DEF CommandNext, Shell, UnitLocks, Resolve, Plan, Prepare, CopyBin, CopyWeb, Choose, Stop, Announce,
       Place, Verify, Start, Settle, PruneCopies, Finish, Exit, StepFails, StopUnseen, Kill,
       KeepService, service

\* The steps of the commands keep the command in its type and in its script.
LEMMA JobKept ==
  ASSUME UpBase, UpNext
  PROVE  JobOK' /\ job' \in Command \cup {None}
<1>0. job \in Command \cup {None} /\ JobOK /\ UpTypeOK /\ unit \in Release \cup {None}
  BY DEF UpBase, UpTypeOK
<1>1. CASE RequestNext
  BY <1>0, <1>1, RequestsLeave DEF JobOK, Step
<1>2. CASE HubCrash \/ HubStart
  <2>1. job' = job
    BY <1>2 DEF HubCrash, HubStart
  <2> QED BY <1>0, <2>1 DEF JobOK, Step
<1>3. CASE CommandNext
  <2>1. ASSUME NEW kind \in DOMAIN Script, NEW t \in Release, NEW reports \in BOOLEAN,
               Shell(kind, t, reports)
        PROVE  JobOK' /\ job' \in Command
    <3>1. kind \in {"upgrade", "install", "rollback"}
      BY DEF Script
    <3>2. job' = Job(kind, "shell", t, reports) /\ (reports => kind = "upgrade")
      BY <2>1 DEF Shell
    <3>3. Begun(kind, "shell", t, reports)
      BY <1>0, <3>1, <3>2, Begins
    <3> QED BY <3>3 DEF Begun
  <2>2. CASE UnitLocks
    <3>1. CASE job = None
      <4>1. job' = Job("upgrade", "unit", unit, TRUE) /\ unit \in Release
        BY <1>0, <2>2, <3>1 DEF UnitLocks
      <4>2. Begun("upgrade", "unit", unit, TRUE)
        BY <1>0, <4>1, Begins
      <4> QED BY <4>2 DEF Begun
    <3>2. CASE job # None
      BY <1>0, <2>2, <3>2 DEF UnitLocks, JobOK, Step
    <3> QED BY <3>1, <3>2
  <2>3. CASE \/ Resolve \/ Prepare \/ CopyBin \/ CopyWeb \/ Stop \/ StopUnseen \/ Announce
             \/ Place \/ Verify \/ Start \/ PruneCopies \/ Finish
    BY <2>3, Passes DEF Passed
  <2>4. CASE Plan
    BY <2>4, Plans DEF Passed, Kept, Turned
  <2>5. CASE Choose
    BY <2>5, Chooses DEF Passed, Turned, Kept
  <2>6. CASE job # None /\ Step \notin {"stop", "exit"} /\ job' = Failed
    BY <2>6, FailsTo DEF Turned, Kept
  <2>7. CASE Settle
    BY <2>6, <2>7, Settles DEF Passed
  <2>8. CASE StepFails
    BY <2>6, <2>8 DEF StepFails, Step
  <2>9. CASE Exit \/ Kill
    BY <2>9 DEF Exit, Kill, JobOK
  <2> QED BY <1>3, <2>1, <2>2, <2>3, <2>4, <2>5, <2>7, <2>8, <2>9 DEF CommandNext
<1> QED BY <1>1, <1>2, <1>3 DEF UpNext

\* The types of the files and of the copies, and the steps that keep them.
FilesTyped == binary \in Content /\ web \in Content /\ binCopies \in Seq(Copy) /\ webCopies \in Seq(Copy)

LEMMA FilesKept ==
  ASSUME UpBase, UpNext
  PROVE  FilesTyped'
<1>1. FilesTyped
  BY DEF UpBase, UpTypeOK, FilesTyped
<1>2. CASE UNCHANGED files
  BY <1>1, <1>2 DEF files, FilesTyped
<1>3. {None, Torn} \cup Release = Content /\ Torn \in Release \cup {Torn}
  BY DEF Content
<1>4. job # None => job.target \in Release /\ job.oldBin \in Content /\ job.oldWeb \in Content
  BY Working DEF Command
<1>5. CASE Prepare
  BY <1>1, <1>3, <1>5 DEF Prepare, FilesTyped
<1>6. CASE CopyBin
  <2>1. binary # None => binary \in Release \cup {Torn}
    BY <1>1 DEF FilesTyped, Content
  <2>2. binary # None => PutBin(binary) \in Seq(Copy)
    BY <2>1, CopiesTyped DEF UpBase
  <2> QED BY <1>1, <1>6, <2>2 DEF CopyBin, FilesTyped
<1>7. CASE CopyWeb
  <2>1. web # None => web \in Release \cup {Torn}
    BY <1>1 DEF FilesTyped, Content
  <2>2. web # None => PutWeb(web) \subseteq Seq(Copy)
    BY <2>1, CopiesTyped DEF UpBase
  <2> QED BY <1>1, <1>7, <2>2 DEF CopyWeb, FilesTyped
<1>8. CASE Place
  BY <1>1, <1>3, <1>4, <1>8 DEF Place, FilesTyped, AtStep
<1>9. CASE PruneCopies
  BY <1>1, <1>3, <1>9, CopiesTyped DEF PruneCopies, FilesTyped, UpBase
<1>10. ASSUME NEW s, Middle(s)
       PROVE  FilesTyped'
  BY <1>1, <1>3, <1>10, CopiesTyped DEF Middle, FilesTyped, UpBase
<1>11. CASE StepFails \/ Kill
  BY <1>2, <1>10, <1>11 DEF StepFails, Kill
<1>12. CASE RequestNext \/ HubCrash \/ HubStart
  BY <1>2, <1>12, RequestsLeave DEF HubCrash, HubStart, files
<1>13. CASE \/ \E kind \in DOMAIN Script, t \in Release, reports \in BOOLEAN : Shell(kind, t, reports)
            \/ UnitLocks \/ Resolve \/ Plan \/ Choose \/ Stop
            \/ Announce \/ Verify \/ Start \/ Settle \/ Finish \/ Exit \/ StopUnseen
  <2>1. UNCHANGED files
    BY <1>13 DEF Shell, UnitLocks, Resolve, Plan, Choose, Stop, Announce, Verify, Start, Settle, Finish,
                 Exit, StopUnseen, files
  <2> QED BY <1>2, <2>1
<1> QED BY <1>5, <1>6, <1>7, <1>8, <1>9, <1>11, <1>12, <1>13 DEF UpNext, CommandNext
\* The types of the requests, and the steps that keep them.
ReqPc == {"none", "checked", "holding", "clear", "written", "unspawned", "spawned", "refused", "failing"}
ReqRec == [pc : ReqPc, target : Release \cup {None}]

LEMMA ReqsKept ==
  ASSUME UpBase, UpNext
  PROVE  req' \in [Request -> ReqRec]
<1>1. req \in [Request -> ReqRec] /\ NoReq \in ReqRec
  BY DEF UpBase, UpTypeOK, ReqRec, ReqPc, NoReq
<1>2. ASSUME NEW r \in Request, NEW pc \in ReqPc
      PROVE  [req EXCEPT ![r].pc = pc] \in [Request -> ReqRec]
  BY <1>1 DEF ReqRec
<1>3. ASSUME NEW r \in Request, Leave(r)
      PROVE  req' \in [Request -> ReqRec]
  BY <1>1, <1>3 DEF Leave
<1>4. ASSUME NEW r \in Request, NEW pc \in ReqPc, Go(r, pc)
      PROVE  req' \in [Request -> ReqRec]
  BY <1>2, <1>4 DEF Go
<1>5. CASE RequestNext
  <2>1. ASSUME NEW r \in Request, NEW t \in Release, Ask(r, t)
        PROVE  req' \in [Request -> ReqRec]
    <3>1. [pc |-> "checked", target |-> t] \in ReqRec
      BY DEF ReqRec, ReqPc
    <3> QED BY <1>1, <2>1, <3>1 DEF Ask
  <2>2. ASSUME NEW r \in Request,
               TryBegin(r) \/ ReadAgain(r) \/ WriteRunning(r) \/ Spawn(r) \/ Launch(r)
               \/ ReadResult(r) \/ WriteFailed(r) \/ Drop(r)
        PROVE  \/ req' = [req EXCEPT ![r] = NoReq] \/ Leave(r)
               \/ \E pc \in ReqPc : Go(r, pc)
    BY <2>2 DEF TryBegin, ReadAgain, WriteRunning, Spawn, Launch, ReadResult, WriteFailed, Drop, ReqPc
  <2> QED BY <1>1, <1>3, <1>4, <1>5, <2>1, <2>2 DEF RequestNext
<1>6. CASE req' = req \/ Forget
  BY <1>1, <1>6 DEF Forget
<1>7. CASE HubCrash \/ HubStart
  BY <1>6, <1>7 DEF HubCrash, HubStart
<1>8. CASE CommandNext
  BY <1>6, <1>8, CommandsLeave
<1> QED BY <1>5, <1>7, <1>8 DEF UpNext

\* The types of the service, of the record and of the counters.
LEMMA ServiceKept ==
  ASSUME UpBase, UpNext
  PROVE  /\ wanted' \in BOOLEAN /\ hub' \in Release \cup {None} /\ flag' \in BOOLEAN
         /\ unit' \in Release \cup {None}
<1>1. /\ wanted \in BOOLEAN /\ hub \in Release \cup {None} /\ flag \in BOOLEAN
      /\ unit \in Release \cup {None} /\ binary \in Content
  BY DEF UpBase, UpTypeOK
<1>2. ASSUME RequestNext
      PROVE  flag' \in BOOLEAN /\ unit' \in Release \cup {None}
  <2>1. flag' \in {flag, TRUE, FALSE}
    BY <1>2 DEF RequestNext, Ask, TryBegin, ReadAgain, WriteRunning, Spawn, Launch, ReadResult,
                WriteFailed, Drop, Leave
  <2>2. unit' = unit \/ \E r \in Request : unit' = req[r].target
    BY <1>2 DEF RequestNext, Ask, TryBegin, ReadAgain, WriteRunning, Spawn, Launch, ReadResult,
                WriteFailed, Drop, KeepHub
  <2>3. \A r \in Request : req[r].target \in Release \cup {None}
    BY DEF UpBase, UpTypeOK
  <2> QED BY <1>1, <2>1, <2>2, <2>3
<1>3. CASE RequestNext
  BY <1>1, <1>2, <1>3, RequestsLeave
<1>4. CASE HubCrash \/ HubStart
  BY <1>1, <1>4 DEF HubCrash, HubStart, Forget
<1>5. CASE CommandNext
  <2>1. flag' \in {flag, FALSE}
    BY <1>5, CommandsLeave DEF Forget
  <2>2. unit' \in {unit, None}
    BY <1>5 DEF CommandNext, Shell, UnitLocks, Resolve, Plan, Prepare, CopyBin, CopyWeb, Choose, Stop,
                Announce, Place, Verify, Start, Settle, PruneCopies, Finish, Exit, StepFails,
                StopUnseen, Kill, KeepRest
  <2>3. CASE Stop \/ Start
    <3>1. wanted' \in {wanted, TRUE, FALSE} /\ hub' \in {hub, None} \cup Release
      BY <2>3 DEF Stop, Start, KeepService, service
    <3> QED BY <1>1, <2>1, <2>2, <3>1
  <2>4. CASE ~(Stop \/ Start)
    <3>1. wanted' = wanted /\ hub' = hub
      BY <1>5, <2>4 DEF CommandNext, Shell, UnitLocks, Resolve, Plan, Prepare, CopyBin, CopyWeb,
                  Choose, Announce, Place, Verify, Settle, PruneCopies, Finish, Exit,
                  StepFails, StopUnseen, Kill, KeepService, service
    <3> QED BY <1>1, <2>1, <2>2, <3>1
  <2> QED BY <2>3, <2>4
<1> QED BY <1>3, <1>4, <1>5 DEF UpNext

LEMMA RecordKept ==
  ASSUME UpBase, UpNext
  PROVE  record' \in {"idle", "running"} \cup Outcome /\ lost' \in BOOLEAN
<1>1. /\ record \in {"idle", "running"} \cup Outcome /\ lost \in BOOLEAN
      /\ job # None => job.reports \in BOOLEAN /\ job.outcome \in Outcome
      /\ "failed" \in Outcome
  BY Working DEF UpBase, UpTypeOK, Command, Outcome
<1>2. ASSUME NEW s \in {"running"} \cup Outcome, Say(s)
      PROVE  record' \in {"idle", "running"} \cup Outcome /\ lost' \in BOOLEAN
  BY <1>1, <1>2 DEF Say
<1>3. CASE RequestNext
  <2>1. record' \in {record, "running", "failed"}
    BY <1>3 DEF RequestNext, Ask, TryBegin, ReadAgain, WriteRunning, Spawn, Launch, ReadResult, WriteFailed,
                Drop
  <2>2. CASE ~\E r \in Request : Drop(r)
    <3>1. lost' \in {lost, FALSE, lost \/ InProgress}
      BY <1>3, <2>2 DEF RequestNext, Ask, TryBegin, ReadAgain, WriteRunning, Spawn, Launch, ReadResult,
                        WriteFailed
    <3> QED BY <1>1, <2>1, <3>1 DEF InProgress
  <2>3. CASE \E r \in Request : Drop(r)
    <3>1. lost' \in {lost, lost \/ record' # record, lost \/ record' = "running"}
      BY <2>3 DEF Drop
    <3> QED BY <1>1, <2>1, <3>1
  <2> QED BY <2>2, <2>3
<1>4. CASE HubCrash \/ HubStart
  BY <1>1, <1>4 DEF HubCrash, HubStart, Forget
<1>5. CASE CommandNext
  <2>1. CASE Resolve \/ Announce \/ PruneCopies
    BY <1>2, <2>1 DEF Resolve, Announce, PruneCopies
  <2>2. CASE Finish
    BY <1>1, <1>2, <2>2 DEF Finish, AtStep
  <2>3. CASE Stop \/ Start
    BY <1>1, <2>3 DEF Stop, Start, KeepService, service, Forget, KeepRecord
  <2>4. CASE Kill
    <3>1. record' = record /\ (lost' = (lost \/ (job.reports /\ record = "running")))
      BY <2>4 DEF Kill
    <3> QED BY <1>1, <3>1
  <2>5. CASE StepFails
    <3>1. (record' = record /\ lost' = (record = "running")) \/ Say("running")
          \/ UNCHANGED <<record, lost>>
      BY <2>5 DEF StepFails, KeepRecord
    <3> QED BY <1>1, <1>2, <3>1
  <2>6. CASE ~(Resolve \/ Announce \/ PruneCopies \/ Finish \/ Stop \/ Start \/ Kill \/ StepFails)
    <3>1. record' = record /\ lost' \in {lost, TRUE}
      BY <1>5, <2>6 DEF CommandNext, Shell, UnitLocks, Plan, Prepare, CopyBin, CopyWeb,
                  Choose, Place, Verify, Settle, Exit, StopUnseen, KeepRecord
    <3> QED BY <1>1, <3>1
  <2> QED BY <2>1, <2>2, <2>3, <2>4, <2>5, <2>6
<1> QED BY <1>3, <1>4, <1>5 DEF UpNext

LEMMA CountersKept ==
  ASSUME UpBase, UpNext
  PROVE  shells' \in 0 .. MaxShell /\ faults' \in 0 .. MaxFaults
<1>1. shells \in 0 .. MaxShell /\ faults \in 0 .. MaxFaults
  BY DEF UpBase, UpTypeOK
<1>2. shells' = shells \/ (shells < MaxShell /\ shells' = shells + 1)
  BY RequestsLeave DEF UpNext, HubCrash, HubStart, CommandNext, Shell, UnitLocks, Resolve, Plan, Prepare,
     CopyBin, CopyWeb, Choose, Stop, Announce, Place, Verify, Start, Settle, PruneCopies, Finish, Exit,
     StepFails, StopUnseen, Kill, KeepRest
<1>3. faults' = faults \/ (faults < MaxFaults /\ faults' = faults + 1)
  <2>1. CASE RequestNext
    BY <2>1 DEF RequestNext, Ask, TryBegin, ReadAgain, WriteRunning, Spawn, Launch, ReadResult, WriteFailed,
                Drop
  <2>2. CASE ~RequestNext
    BY <2>2 DEF UpNext, HubCrash, HubStart, CommandNext, Shell, UnitLocks, Resolve, Plan, Prepare,
     CopyBin, CopyWeb, Choose, Stop, Announce, Place, Verify, Start, Settle, PruneCopies, Finish, Exit,
     StepFails, StopUnseen, Kill, KeepRest
  <2> QED BY <2>1, <2>2
<1>4. shells' \in 0 .. MaxShell
  BY <1>1, <1>2, ReleaseAssumption
<1>5. faults' \in 0 .. MaxFaults
  BY <1>1, <1>3, ReleaseAssumption
<1> QED BY <1>4, <1>5

\* Every step keeps UpBase.
LEMMA BaseKept ==
  ASSUME UpBase, [UpNext]_upVars
  PROVE  UpBase'
<1>1. CASE UpNext
  <2>1. UpTypeOK'
    BY <1>1, FilesKept, ReqsKept, ServiceKept, RecordKept, CountersKept, JobKept
       DEF UpTypeOK, FilesTyped, ReqRec, ReqPc
  <2> QED BY <1>1, <2>1, JobKept DEF UpBase
<1>2. CASE UNCHANGED upVars
  BY <1>2 DEF UpBase, UpTypeOK, JobOK, Step, upVars, files, service
<1> QED BY <1>1, <1>2
=============================================================================
