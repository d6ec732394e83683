------------------------- MODULE NodeRequestsProofs -------------------------
(***************************************************************************)
(* Proofs about what the Hub asks of a node and the node does: the request *)
(* for its core binaries, the certificates it obtains, the installation of *)
(* the core a push asks for.  The three modules share no state.            *)
(***************************************************************************)
EXTENDS BinaryRequests, Certificates, CoreInstall, TLAPS

-----------------------------------------------------------------------------
(***************************************************************************)
(* BinaryRequests.  An answer is of the request it is given to: of the     *)
(* requests nobody has lost sight of, one at a time is under way.          *)
(***************************************************************************)
\* Nobody has lost sight of its answer yet.
Quiet == \A q \in Request : ~Lost(q)

\* Where a handler is agrees with its channel, and the table's sender has been
\* given nothing yet.
ChannelsInv ==
  /\ \A r \in Request :
       /\ handler[r] = "idle" => oneshot[r] = Open /\ waiter # r
       /\ handler[r] = "answered" => oneshot[r] \in Answer
  /\ waiter # NoRequest => oneshot[waiter] = Open

\* Until then, one request at a time is under way, and it is the table's.
OneAtATime ==
  Quiet =>
    /\ Len(asks) + Len(answers) <= 1
    /\ \A i \in 1 .. Len(asks) : asks[i] = waiter
    /\ \A i \in 1 .. Len(answers) : answers[i].of = waiter
    /\ waiter # NoRequest /\ handler[waiter] = "send" => asks = <<>> /\ answers = <<>>
    /\ \A r \in Request : handler[r] = "send" => r = waiter

\* The inductive invariant.
BinaryInv == BinaryTypeOK /\ ChannelsInv /\ OneAtATime /\ OwnAnswers

\* It holds before any request.
LEMMA BinaryInitInv == BinaryInit => BinaryInv
BY BinaryAssumption
   DEF BinaryInit, BinaryInv, BinaryTypeOK, ChannelsInv, OneAtATime, OwnAnswers, Quiet, Lost,
       Waiting, Ended

\* A request that was lost stays so.
LEMMA LostForGood ==
  ASSUME BinaryTypeOK, ChannelsInv, BinaryNext, Quiet' PROVE Quiet
<1> SUFFICES ASSUME NEW r \in Request, Lost(r) PROVE Lost(r)'
  BY DEF Quiet
<1> USE BinaryAssumption DEF BinaryTypeOK, ChannelsInv, Lost, Waiting, Ended, Moves, Drops
<1>1. CASE \E q \in Request : Insert(q)
  BY <1>1 DEF Insert
<1>2. CASE \E q \in Request : HandlerStep(q) \/ Abandon(q)
  <2>1. CASE \E q \in Request : SendAsk(q) \/ AskFails(q)
    BY <2>1 DEF SendAsk, AskFails
  <2>2. CASE \E q \in Request : Receive(q) \/ GiveUp(q)
    BY <2>2 DEF Receive, GiveUp
  <2>3. CASE \E q \in Request : Clean(q)
    BY <2>3 DEF Clean
  <2>4. CASE \E q \in Request : Abandon(q)
    BY <2>4 DEF Abandon
  <2>5. QED
    BY <1>2, <2>1, <2>2, <2>3, <2>4 DEF HandlerStep
<1>3. CASE TakeAnswer
  BY <1>3 DEF TakeAnswer
<1>4. CASE AgentAnswers \/ NodeDisconnects \/ Reinstall
  BY <1>4 DEF AgentAnswers, NodeDisconnects, Reinstall
<1>5. QED
  BY <1>1, <1>2, <1>3, <1>4 DEF BinaryNext

\* Every handler step, break and answer keeps the types.
LEMMA BinaryTypeStep == BinaryTypeOK /\ [BinaryNext]_binaryVars => BinaryTypeOK'
<1> SUFFICES ASSUME BinaryTypeOK, [BinaryNext]_binaryVars PROVE BinaryTypeOK'
  OBVIOUS
<1> USE BinaryAssumption DEF BinaryTypeOK, Waiting, Ended, Moves, Drops
<1>1. ASSUME NEW r \in Request, Insert(r) PROVE BinaryTypeOK'
  BY <1>1 DEF Insert
<1>2. ASSUME NEW r \in Request, SendAsk(r) PROVE BinaryTypeOK'
  BY <1>2 DEF SendAsk
<1>3. ASSUME NEW r \in Request, AskFails(r) \/ Receive(r) \/ GiveUp(r) \/ Abandon(r)
      PROVE BinaryTypeOK'
  BY <1>3 DEF AskFails, Receive, GiveUp, Abandon
<1>4. ASSUME NEW r \in Request, Clean(r) PROVE BinaryTypeOK'
  BY <1>4 DEF Clean
<1>5. CASE AgentAnswers
  <2>1. Head(asks) \in Request /\ Tail(asks) \in Seq(Request)
    BY <1>5 DEF AgentAnswers
  <2>2. PICK a \in Answer : answers' = Append(answers, a)
    BY <1>5, <2>1 DEF AgentAnswers, Answer
  <2>3. onDisk' \in BOOLEAN
    BY <1>5 DEF AgentAnswers
  <2>4. QED
    BY <1>5, <2>1, <2>2, <2>3 DEF AgentAnswers
<1>6. CASE TakeAnswer
  <2>1. Head(answers) \in Answer /\ Tail(answers) \in Seq(Answer)
    BY <1>6 DEF TakeAnswer
  <2>2. QED
    BY <1>6, <2>1 DEF TakeAnswer
<1>7. CASE NodeDisconnects
  BY <1>7 DEF NodeDisconnects
<1>a. CASE Reinstall
  BY <1>a DEF Reinstall
<1>b. CASE UNCHANGED binaryVars
  BY <1>b DEF binaryVars
<1>8. QED
  BY <1>1, <1>2, <1>3, <1>4, <1>5, <1>6, <1>7, <1>a, <1>b DEF BinaryNext, HandlerStep

\* Every handler step, break and answer keeps the invariant.
LEMMA BinaryStepInv == BinaryInv /\ [BinaryNext]_binaryVars => BinaryInv'
<1> SUFFICES ASSUME BinaryInv, [BinaryNext]_binaryVars PROVE BinaryInv'
  OBVIOUS
<1>0. CASE UNCHANGED binaryVars
  BY <1>0 DEF binaryVars, BinaryInv, BinaryTypeOK, ChannelsInv, OneAtATime, OwnAnswers, Quiet, Lost
<1> SUFFICES ASSUME BinaryNext PROVE BinaryInv'
  BY <1>0
<1>a. BinaryTypeOK'
  BY BinaryTypeStep DEF BinaryInv
<1>1. ChannelsInv'
  <2> USE BinaryAssumption DEF BinaryInv, BinaryTypeOK, ChannelsInv, Waiting, Ended, Moves, Drops
  <2>1. ASSUME NEW r \in Request, Insert(r) PROVE ChannelsInv'
    BY <2>1 DEF Insert
  <2>2. ASSUME NEW r \in Request, SendAsk(r) \/ AskFails(r) \/ Abandon(r)
        PROVE ChannelsInv'
    BY <2>2 DEF SendAsk, AskFails, Abandon
  <2>a. ASSUME NEW r \in Request, Receive(r) \/ GiveUp(r)
        PROVE ChannelsInv'
    BY <2>a DEF Receive, GiveUp
  <2>3. ASSUME NEW r \in Request, Clean(r) PROVE ChannelsInv'
    BY <2>3 DEF Clean
  <2>4. CASE AgentAnswers \/ NodeDisconnects \/ Reinstall
    BY <2>4 DEF AgentAnswers, NodeDisconnects, Reinstall
  <2>5. CASE TakeAnswer
    <3>1. Head(answers) \in Answer
      BY <2>5 DEF TakeAnswer
    <3>2. QED
      BY <2>5, <3>1 DEF TakeAnswer
  <2>6. QED
    BY <2>1, <2>2, <2>a, <2>3, <2>4, <2>5 DEF BinaryNext, HandlerStep
<1>2. OneAtATime' /\ OwnAnswers'
  <2> SUFFICES ASSUME Quiet' PROVE OneAtATime' /\ OwnAnswers'
    BY DEF OneAtATime, OwnAnswers, Quiet
  <2>1. Quiet
    BY LostForGood DEF BinaryInv
  <2>2. /\ Len(asks) + Len(answers) <= 1
        /\ \A i \in 1 .. Len(asks) : asks[i] = waiter
        /\ \A i \in 1 .. Len(answers) : answers[i].of = waiter
        /\ waiter # NoRequest /\ handler[waiter] = "send" => asks = <<>> /\ answers = <<>>
        /\ \A r \in Request : handler[r] = "send" => r = waiter
        /\ \A r \in Request : oneshot[r] \in Answer => oneshot[r].of = r
    BY <2>1 DEF BinaryInv, OneAtATime, OwnAnswers, Quiet
  <2>c. /\ \A r \in Request : handler[r] \in {"idle", "send", "await", "answered"}
        /\ \A r \in Request : handler[r] \in {"send", "await"} => oneshot[r] # Closed
    BY <2>1 DEF BinaryInv, BinaryTypeOK, Quiet, Lost, Waiting, Ended
  <2>d. \A i \in 1 .. Len(asks) : asks[i] \in Request
    BY DEF BinaryInv, BinaryTypeOK
  <2>e. \A i \in 1 .. Len(answers) : answers[i].of \in Request
    <3>1. \A i \in 1 .. Len(answers) : answers[i] \in Answer
      BY DEF BinaryInv, BinaryTypeOK
    <3>2. QED
      BY <3>1 DEF Answer
  <2> USE BinaryAssumption, <2>1, <2>2
      DEF BinaryInv, BinaryTypeOK, ChannelsInv, OneAtATime, OwnAnswers, Quiet, Lost, Waiting, Ended, Moves, Drops
  <2>3. ASSUME NEW r \in Request, Insert(r) PROVE OneAtATime' /\ OwnAnswers'
    <3>1. waiter = NoRequest
      <4> SUFFICES ASSUME waiter # NoRequest PROVE FALSE
        OBVIOUS
      <4>1. waiter \in Request /\ waiter # r /\ handler[waiter] \in {"send", "await"}
        BY <2>3 DEF Insert
      <4>2. handler'[waiter] = handler[waiter] /\ oneshot'[waiter] = Closed
        BY <2>3, <4>1 DEF Insert
      <4>3. QED
        BY <4>1, <4>2
    <3>2. asks = <<>> /\ answers = <<>>
      <4>1. Len(asks) = 0 /\ Len(answers) = 0
        BY <3>1, <2>d, <2>e
      <4>2. QED
        BY <4>1
    <3>3. UNCHANGED <<oneshot, asks, answers>>
      BY <3>1, <2>3 DEF Insert
    <3>4. QED
      BY <2>3, <3>1, <3>2, <3>3 DEF Insert
  <2>4. ASSUME NEW r \in Request, SendAsk(r) PROVE OneAtATime' /\ OwnAnswers'
    BY <2>4 DEF SendAsk
  <2>5. ASSUME NEW r \in Request, AskFails(r) \/ GiveUp(r) PROVE OneAtATime' /\ OwnAnswers'
    BY <2>5 DEF AskFails, GiveUp
  <2>b. ASSUME NEW r \in Request, Abandon(r) PROVE OneAtATime' /\ OwnAnswers'
    <3>1. handler'[r] = "gone"
      BY <2>b DEF Abandon
    <3>2. QED
      BY <3>1
  <2>a. ASSUME NEW r \in Request, Receive(r) PROVE OneAtATime' /\ OwnAnswers'
    BY <2>a DEF Receive
  <2>6. ASSUME NEW r \in Request, Clean(r) PROVE OneAtATime' /\ OwnAnswers'
    BY <2>6 DEF Clean
  <2>7. CASE AgentAnswers
    BY <2>7 DEF AgentAnswers
  <2>8. CASE TakeAnswer
    BY <2>8 DEF TakeAnswer
  <2>9. CASE NodeDisconnects \/ Reinstall
    BY <2>9 DEF NodeDisconnects, Reinstall
  <2>10. QED
    BY <2>3, <2>4, <2>5, <2>a, <2>b, <2>6, <2>7, <2>8, <2>9 DEF BinaryNext, HandlerStep
<1>3. QED
  BY <1>a, <1>1, <1>2 DEF BinaryInv

\* request_core_binaries: the answer that a handler is given through its channel is of
\* its own request, until some caller has lost sight of its own.
THEOREM OwnAnswersAlways == BinarySpec => []OwnAnswers
<1>1. BinaryInv => OwnAnswers
  BY DEF BinaryInv
<1>2. QED
  BY <1>1, BinaryInitInv, BinaryStepInv, PTL DEF BinarySpec

-----------------------------------------------------------------------------
(***************************************************************************)
(* Certificates.  What is recorded "active" is on disk, and the key is that *)
(* of the certificate unless a task was stopped between its two writes.    *)
(***************************************************************************)
\* What an ACME task holds.
TaskState == [at : {"idle", "order", "crt", "key", "issued", "failed"},
          id : Nat, serial : Nat, stream : Nat]

\* The files of a certificate are there.
OnDisk == crt # 0 /\ key # 0 /\ meta # 0

\* No id that travels is zero, and each file a task has written is there.
IdsInv ==
  /\ registering = "found" => found # 0
  /\ \A i \in 1 .. Len(issues) : issues[i] # 0
  /\ \A t \in Task : acmeTask[t].at = "idle" <=> acmeTask[t].id = 0
\* Nothing is reported "active" before its files are there.
FilesInv ==
  /\ \A t \in Task : /\ acmeTask[t].at = "crt" => acmeTask[t].serial # 0 /\ crt # 0
                     /\ acmeTask[t].at = "key" => crt # 0 /\ key # 0
                     /\ acmeTask[t].at = "issued" => OnDisk
  /\ \A i \in 1 .. Len(reports) : /\ reports[i].id # 0
                                  /\ reports[i].status = "active" => OnDisk
  /\ ActiveIsOnDisk

\* Between its two writes a task knows the certificate that is on disk, and
\* it is the only one there; otherwise the key is that certificate's.
PairInv ==
  torn \/ /\ \A t, u \in Task : acmeTask[t].at = "crt" /\ acmeTask[u].at = "crt" => t = u
          /\ \A t \in Task : acmeTask[t].at = "crt" => acmeTask[t].serial = crt
          /\ crt = key \/ \E t \in Task : acmeTask[t].at = "crt"

\* The inductive invariant.
CertInv == CertTypeOK /\ IdsInv /\ FilesInv /\ PairInv /\ PendingIsServed

\* What a queue holds after its first element was taken, or one was added.
LEMMA TailFacts ==
  ASSUME NEW S, NEW q \in Seq(S), q # <<>>
  PROVE /\ Tail(q) \in Seq(S) /\ Head(q) \in S /\ Head(q) = q[1]
        /\ Len(Tail(q)) = Len(q) - 1 /\ Len(q) \in Nat \ {0}
        /\ \A i \in 1 .. Len(Tail(q)) : Tail(q)[i] = q[i + 1] /\ i + 1 \in 1 .. Len(q)
        /\ \A i \in 1 .. Len(q) : i = 1 \/ (i - 1 \in 1 .. Len(Tail(q)) /\ Tail(q)[i - 1] = q[i])
<1>1. /\ Tail(q) \in Seq(S) /\ Head(q) \in S /\ Head(q) = q[1]
      /\ Len(Tail(q)) = Len(q) - 1 /\ Len(q) \in Nat \ {0}
  OBVIOUS
<1>2. \A i \in 1 .. Len(Tail(q)) : Tail(q)[i] = q[i + 1] /\ i + 1 \in 1 .. Len(q)
  BY <1>1
<1>3. \A i \in 1 .. Len(q) : i = 1 \/ (i - 1 \in 1 .. Len(Tail(q)) /\ Tail(q)[i - 1] = q[i])
  BY <1>1
<1>4. QED
  BY <1>1, <1>2, <1>3

\* What a queue holds after one is added.
LEMMA AppendFacts ==
  ASSUME NEW S, NEW q \in Seq(S), NEW x \in S
  PROVE /\ Append(q, x) \in Seq(S) /\ Len(Append(q, x)) = Len(q) + 1 /\ Len(q) \in Nat
        /\ \A i \in 1 .. Len(q) : Append(q, x)[i] = q[i] /\ i \in 1 .. Len(Append(q, x))
        /\ Append(q, x)[Len(q) + 1] = x /\ Len(q) + 1 \in 1 .. Len(Append(q, x))
        /\ \A i \in 1 .. Len(Append(q, x)) : i \in 1 .. Len(q) \/ i = Len(q) + 1
OBVIOUS

\* The ids in the queue r are those in q, and x.
Queued(r, q, x) ==
  /\ r \in Seq(Nat)
  /\ \A i \in 1 .. Len(r) : (i \in 1 .. Len(q) /\ r[i] = q[i]) \/ r[i] = x
  /\ \A i \in 1 .. Len(q) : i \in 1 .. Len(r) /\ r[i] = q[i]
  /\ \E i \in 1 .. Len(r) : r[i] = x

\* An id that is sent is in the queue, after those that were.
LEMMA Enqueued ==
  ASSUME NEW q \in Seq(Nat), NEW x \in Nat, NEW r, r = Append(q, x)
  PROVE Queued(r, q, x)
<1>1. /\ Append(q, x) \in Seq(Nat) /\ Len(Append(q, x)) = Len(q) + 1 /\ Len(q) \in Nat
      /\ \A i \in 1 .. Len(q) : Append(q, x)[i] = q[i] /\ i \in 1 .. Len(Append(q, x))
      /\ Append(q, x)[Len(q) + 1] = x /\ Len(q) + 1 \in 1 .. Len(Append(q, x))
      /\ \A i \in 1 .. Len(Append(q, x)) : i \in 1 .. Len(q) \/ i = Len(q) + 1
  BY AppendFacts
<1>2. QED
  BY <1>1 DEF Queued

\* A queue with nothing in it.
LEMMA EmptyIsSeq == ASSUME NEW S PROVE <<>> \in Seq(S) /\ Len(<<>>) = 0
OBVIOUS

\* It holds before any certificate.
LEMMA CertInitInv == CertInit => CertInv
<1> SUFFICES ASSUME CertInit PROVE CertInv
  OBVIOUS
<1>1. <<>> \in Seq(Nat) /\ <<>> \in Seq(Report) /\ Len(<<>>) = 0
  BY EmptyIsSeq
<1>2. Idle \in TaskState /\ Idle.at = "idle" /\ Idle.id = 0
  BY DEF Idle, TaskState
<1>3. acmeTask \in [Task -> TaskState] /\ \A t \in Task : acmeTask[t] = Idle
  BY <1>2 DEF CertInit
<1>4. CertTypeOK
  <2>1. {created, admin, found, stream, crt, key, meta, issued, certEdits, certErrors, ages}
          \subseteq Nat
    BY DEF CertInit
  <2>2. row \in [id : Nat, status : {"none", "pending", "active", "failed"}]
        /\ (row.id = 0 <=> row.status = "none")
    BY DEF CertInit
  <2>3. /\ registering \in {"no", "entered", "found"}
        /\ up \in BOOLEAN /\ old \in BOOLEAN /\ torn \in BOOLEAN /\ dropped \in BOOLEAN
        /\ issues \in Seq(Nat) /\ reports \in Seq(Report)
    BY <1>1 DEF CertInit
  <2>4. QED
    BY <2>1, <2>2, <2>3, <1>3 DEF CertTypeOK, TaskState
<1>5. IdsInv
  BY <1>1, <1>2, <1>3 DEF CertInit, IdsInv
<1>6. FilesInv
  BY <1>1, <1>2, <1>3 DEF CertInit, FilesInv, ActiveIsOnDisk
<1>7. PairInv
  BY <1>2, <1>3 DEF CertInit, PairInv
<1>8. PendingIsServed
  BY DEF CertInit, PendingIsServed
<1>9. QED
  BY <1>4, <1>5, <1>6, <1>7, <1>8 DEF CertInv

\* A step of one task, from what the task is then.
LEMMA TaskDoes ==
  ASSUME CertTypeOK, NEW t \in Task, NEW x \in TaskState, acmeTask' = [acmeTask EXCEPT ![t] = x]
  PROVE /\ acmeTask' \in [Task -> TaskState]
        /\ \A u \in Task : acmeTask'[u] = IF u = t THEN x ELSE acmeTask[u]
BY DEF CertTypeOK, TaskState

\* A row, a report.
Rec == [id : Nat, status : {"none", "pending", "active", "failed"}]

\* Every step of the Hub, of the stream and of the ACME tasks keeps the invariant.
LEMMA CertStepInv == CertInv /\ [CertNext]_certVars => CertInv'
<1> SUFFICES ASSUME CertInv, [CertNext]_certVars PROVE CertInv'
  OBVIOUS
<1>t. /\ row \in Rec /\ (row.id = 0 <=> row.status = "none")
      /\ registering \in {"no", "entered", "found"}
      /\ up \in BOOLEAN /\ old \in BOOLEAN /\ torn \in BOOLEAN /\ dropped \in BOOLEAN
      /\ issues \in Seq(Nat) /\ reports \in Seq(Report)
      /\ acmeTask \in [Task -> TaskState]
      /\ {created, admin, found, stream} \subseteq Nat
      /\ {crt, key, meta, issued, certEdits, certErrors, ages} \subseteq Nat
  BY DEF CertInv, CertTypeOK, TaskState, Rec
<1>n. /\ admin \in Nat /\ found \in Nat /\ stream \in Nat /\ created \in Nat /\ issued \in Nat
      /\ crt \in Nat /\ key \in Nat /\ meta \in Nat /\ certErrors \in Nat
      /\ dropped \in BOOLEAN /\ torn \in BOOLEAN
  BY <1>t
<1>q. issues \in Seq(Nat) /\ reports \in Seq(Report)
  BY <1>t
<1>v. CertTypeOK /\ IdsInv /\ FilesInv /\ PairInv /\ PendingIsServed
  BY DEF CertInv
<1>1. ASSUME RequestCert PROVE CertInv'
  <2>1. /\ admin = 0 /\ admin' = row'.id /\ certEdits' = certEdits + 1
        /\ UNCHANGED <<registering, found, certErrors, stream, up, issues, reports, acmeTask,
                       torn, dropped>>
        /\ UNCHANGED <<crt, key, meta, issued, old, ages>>
    BY <1>1 DEF RequestCert, AdminEdits, files
  <2>2. row' \in Rec /\ row'.status = "pending" /\ row'.id # 0 /\ created' \in Nat
    <3>1. CASE row.id = 0
      BY <1>1, <1>t, <3>1 DEF RequestCert, Rec
    <3>2. CASE row.id # 0
      BY <1>1, <1>t, <3>2 DEF RequestCert, Rec
    <3>3. QED
      BY <3>1, <3>2
  <2>3. admin' \in Nat /\ certEdits' \in Nat
    BY <2>1, <2>2, <1>t DEF Rec
  <2>4. CertTypeOK'
    BY <1>t, <2>1, <2>2, <2>3 DEF CertTypeOK, TaskState, Rec
  <2>5. IdsInv' /\ FilesInv' /\ PairInv' /\ PendingIsServed'
    BY <1>v, <2>1, <2>2
       DEF IdsInv, FilesInv, OnDisk, ActiveIsOnDisk, PairInv, PendingIsServed
  <2>6. QED
    BY <2>4, <2>5 DEF CertInv
<1>2. ASSUME DeleteCert PROVE CertInv'
  <2>1. /\ row' = [id |-> 0, status |-> "none"] /\ certEdits' = certEdits + 1
        /\ UNCHANGED <<created, admin, registering, found, certErrors, stream, up,
                       issues, reports, acmeTask, torn, dropped>>
        /\ UNCHANGED <<crt, key, meta, issued, old, ages>>
    BY <1>2 DEF DeleteCert, AdminEdits, files
  <2>2. row' \in Rec /\ row'.status = "none" /\ row'.id = 0 /\ certEdits' \in Nat
    BY <2>1, <1>t DEF Rec
  <2>3. CertTypeOK'
    BY <1>t, <2>1, <2>2 DEF CertTypeOK, TaskState, Rec
  <2>4. IdsInv' /\ FilesInv' /\ PairInv' /\ PendingIsServed'
    BY <1>v, <2>1, <2>2
       DEF IdsInv, FilesInv, OnDisk, ActiveIsOnDisk, PairInv, PendingIsServed
  <2>5. QED
    BY <2>3, <2>4 DEF CertInv
<1>3. ASSUME Dispatch PROVE CertInv'
  <2>1. /\ admin # 0 /\ admin' = 0 /\ issues' = (IF up THEN Append(issues, admin) ELSE issues)
        /\ UNCHANGED <<row, created, registering, found, certEdits, certErrors, stream,
                       up, reports, acmeTask, torn, dropped>>
        /\ UNCHANGED <<crt, key, meta, issued, old, ages>>
    BY <1>3 DEF Dispatch, files
  <2>2. admin \in Nat
    BY <1>t
  <2>3. /\ issues' \in Seq(Nat)
        /\ \A i \in 1 .. Len(issues') : (i \in 1 .. Len(issues) /\ issues'[i] = issues[i])
                                       \/ issues'[i] = admin
        /\ \A i \in 1 .. Len(issues) : i \in 1 .. Len(issues') /\ issues'[i] = issues[i]
        /\ up => \E i \in 1 .. Len(issues') : issues'[i] = admin
    <3>1. CASE up
      <4>1. issues' = Append(issues, admin)
        BY <3>1, <2>1
      <4>2. Queued(issues', issues, admin)
        BY <4>1, <2>2, <1>q, Enqueued
      <4>3. QED
        BY <3>1, <4>2 DEF Queued
    <3>2. CASE ~up
      BY <3>2, <2>1, <1>t
    <3>3. QED
      BY <3>1, <3>2
  <2>4. CertTypeOK'
    BY <1>t, <2>1, <2>3 DEF CertTypeOK, TaskState, Rec
  <2>5. IdsInv'
    BY <1>v, <2>1, <2>3 DEF IdsInv
  <2>6. FilesInv' /\ PairInv'
    BY <1>v, <2>1 DEF FilesInv, OnDisk, ActiveIsOnDisk, PairInv
  <2>7. PendingIsServed'
    BY <1>v, <2>1, <2>3 DEF PendingIsServed
  <2>8. QED
    BY <2>4, <2>5, <2>6, <2>7 DEF CertInv
<1>4. ASSUME Register PROVE CertInv'
  <2>1. /\ stream' = stream + 1 /\ up' = TRUE /\ registering' = "entered"
        /\ UNCHANGED <<row, created, admin, found, certEdits, certErrors, issues, reports,
                       acmeTask, torn, dropped>>
        /\ UNCHANGED <<crt, key, meta, issued, old, ages>>
    BY <1>4 DEF Register, files
  <2>2. CertTypeOK'
    BY <1>t, <2>1 DEF CertTypeOK, TaskState, Rec
  <2>3. IdsInv' /\ FilesInv' /\ PairInv' /\ PendingIsServed'
    BY <1>v, <2>1
       DEF IdsInv, FilesInv, OnDisk, ActiveIsOnDisk, PairInv, PendingIsServed
  <2>4. QED
    BY <2>2, <2>3 DEF CertInv
<1>5. ASSUME ReadPending PROVE CertInv'
  <2>1. /\ registering = "entered"
        /\ UNCHANGED <<row, created, admin, certEdits, stream, up, issues, reports, acmeTask, torn>>
        /\ UNCHANGED <<crt, key, meta, issued, old, ages>>
    BY <1>5 DEF ReadPending, files
  <2>2. \/ /\ row.status = "pending" /\ registering' = "found" /\ found' = row.id
           /\ UNCHANGED <<certErrors, dropped>>
        \/ /\ row.status # "pending" /\ registering' = "no" /\ found' = 0
           /\ UNCHANGED <<certErrors, dropped>>
        \/ /\ certErrors' = certErrors + 1
           /\ registering' = "no" /\ dropped' = TRUE /\ UNCHANGED found
    BY <1>5 DEF ReadPending
  <2>3. /\ registering' \in {"no", "found"} /\ found' \in Nat /\ certErrors' \in Nat
        /\ dropped' \in BOOLEAN /\ (registering' = "found" => found' # 0)
    <3>1. row.id \in Nat /\ (row.status = "pending" => row.id # 0)
      BY <1>t DEF Rec
    <3>2. certErrors' = certErrors \/ certErrors' = certErrors + 1
      BY <2>2
    <3>3. dropped' = dropped \/ dropped' = TRUE
      BY <2>2
    <3>4. certErrors' \in Nat
      BY <3>2, <1>n
    <3>5. dropped' \in BOOLEAN
      BY <3>3, <1>n
    <3>6. /\ registering' \in {"no", "found"} /\ (registering' = "found" => found' # 0)
          /\ found' \in Nat
      <4>1. \/ registering' = "found" /\ found' = row.id /\ row.status = "pending"
            \/ registering' = "no" /\ (found' = 0 \/ found' = found)
        BY <2>2
      <4>2. QED
        BY <4>1, <3>1, <1>n
    <3>7. QED
      BY <3>4, <3>5, <3>6
  <2>4. CertTypeOK'
    BY <1>t, <2>1, <2>3 DEF CertTypeOK, TaskState, Rec
  <2>5. IdsInv' /\ FilesInv' /\ PairInv'
    BY <1>v, <2>1, <2>3 DEF IdsInv, FilesInv, OnDisk, ActiveIsOnDisk, PairInv
  <2>6. PendingIsServed'
    BY <1>v, <2>1, <2>2 DEF PendingIsServed
  <2>7. QED
    BY <2>4, <2>5, <2>6 DEF CertInv
<1>6. ASSUME DispatchPending PROVE CertInv'
  <2>1. /\ registering = "found" /\ registering' = "no"
        /\ issues' = Append(issues, found) /\ found' = 0
        /\ UNCHANGED <<row, created, admin, certEdits, certErrors, stream, up, reports,
                       acmeTask, torn, dropped>>
        /\ UNCHANGED <<crt, key, meta, issued, old, ages>>
    BY <1>6 DEF DispatchPending, files
  <2>2. found \in Nat /\ found # 0
    BY <1>t, <1>v, <2>1 DEF IdsInv
  <2>3. /\ issues' \in Seq(Nat)
        /\ \A i \in 1 .. Len(issues') : (i \in 1 .. Len(issues) /\ issues'[i] = issues[i])
                                       \/ issues'[i] = found
        /\ \A i \in 1 .. Len(issues) : i \in 1 .. Len(issues') /\ issues'[i] = issues[i]
        /\ \E i \in 1 .. Len(issues') : issues'[i] = found
    <3>1. issues' = Append(issues, found)
      BY <2>1
    <3>2. Queued(issues', issues, found)
      BY <3>1, <2>2, <1>q, Enqueued
    <3>3. QED
      BY <3>2 DEF Queued
  <2>4. CertTypeOK'
    BY <1>t, <2>1, <2>3 DEF CertTypeOK, TaskState, Rec
  <2>5. IdsInv'
    BY <1>v, <2>1, <2>2, <2>3 DEF IdsInv
  <2>6. FilesInv' /\ PairInv'
    BY <1>v, <2>1 DEF FilesInv, OnDisk, ActiveIsOnDisk, PairInv
  <2>7. PendingIsServed'
    BY <1>v, <2>1, <2>3 DEF PendingIsServed
  <2>8. QED
    BY <2>4, <2>5, <2>6, <2>7 DEF CertInv
<1>7. ASSUME ApplyStatus PROVE CertInv'
  <2>1. /\ reports # <<>> /\ reports' = Tail(reports)
        /\ UNCHANGED <<created, admin, registering, found, certEdits, stream, up, issues,
                       acmeTask, torn>>
        /\ UNCHANGED <<crt, key, meta, issued, old, ages>>
    BY <1>7 DEF ApplyStatus, files
  <2>2. \/ /\ Head(reports).id = row.id /\ row' = [row EXCEPT !.status = Head(reports).status]
           /\ UNCHANGED <<certErrors, dropped>>
        \/ Head(reports).id # row.id /\ UNCHANGED <<row, certErrors, dropped>>
        \/ certErrors' = certErrors + 1 /\ dropped' = TRUE /\ UNCHANGED row
    BY <1>7 DEF ApplyStatus
  <2>3. /\ Tail(reports) \in Seq(Report) /\ Head(reports) \in Report /\ Head(reports) = reports[1]
        /\ 1 \in 1 .. Len(reports)
        /\ \A i \in 1 .. Len(Tail(reports)) : /\ Tail(reports)[i] = reports[i + 1]
                                             /\ i + 1 \in 1 .. Len(reports)
        /\ \A i \in 1 .. Len(reports) :
             i = 1 \/ (i - 1 \in 1 .. Len(Tail(reports)) /\ Tail(reports)[i - 1] = reports[i])
    BY <2>1, <1>t, TailFacts
  <2>4. Head(reports).status \in {"active", "failed"} /\ Head(reports).id \in Nat
    BY <2>3 DEF Report
  <2>5. certErrors' \in Nat /\ dropped' \in BOOLEAN
    <3>1. certErrors' = certErrors \/ certErrors' = certErrors + 1
      BY <2>2
    <3>2. dropped' = dropped \/ dropped' = TRUE
      BY <2>2
    <3>3. certErrors' \in Nat
      BY <3>1, <1>n
    <3>4. dropped' \in BOOLEAN
      BY <3>2, <1>n
    <3>5. QED
      BY <3>3, <3>4
  <2>6. /\ row' \in Rec /\ row'.id = row.id
        /\ \/ row' = row /\ (Head(reports).id # row.id \/ dropped')
           \/ row'.status = Head(reports).status /\ row.id = Head(reports).id
    <3>1. CASE row' = [row EXCEPT !.status = Head(reports).status] /\ Head(reports).id = row.id
      BY <3>1, <2>4, <1>t DEF Rec
    <3>2. CASE row' = row /\ (Head(reports).id # row.id \/ dropped')
      BY <3>2, <1>t
    <3>3. QED
      BY <2>2, <3>1, <3>2
  <2>12. row'.id = 0 <=> row'.status = "none"
    <3>1. row.id = Head(reports).id => row.id # 0
      BY <1>v, <2>3 DEF FilesInv
    <3>2. QED
      BY <2>4, <2>6, <1>t, <3>1
  <2>7. CertTypeOK'
    BY <1>t, <2>1, <2>3, <2>5, <2>6, <2>12 DEF CertTypeOK, TaskState, Rec
  <2>8. IdsInv' /\ PairInv'
    BY <1>v, <2>1 DEF IdsInv, PairInv
  <2>9. FilesInv'
    BY <1>v, <2>1, <2>3, <2>6 DEF FilesInv, OnDisk, ActiveIsOnDisk
  <2>10. PendingIsServed'
    <3> SUFFICES ASSUME row'.status = "pending", ~dropped' PROVE PendingIsServed'
      BY DEF PendingIsServed
    <3>1. row' = row /\ row.status = "pending" /\ ~dropped /\ Head(reports).id # row.id
      BY <2>2, <2>4, <2>6
    <3>2. ASSUME NEW i \in 1 .. Len(reports), reports[i].id = row.id
          PROVE \E j \in 1 .. Len(reports') : reports'[j].id = row.id
      <4>1. i # 1 /\ i - 1 \in 1 .. Len(reports') /\ reports'[i - 1] = reports[i]
        BY <3>1, <3>2, <2>1, <2>3
      <4>2. QED
        BY <4>1, <3>2
    <3>3. QED
      BY <1>v, <2>1, <3>1, <3>2 DEF PendingIsServed
  <2>11. QED
    BY <2>7, <2>8, <2>9, <2>10 DEF CertInv
<1>8. ASSUME NEW t \in Task, NEW id \in Nat \ {0}, Starts(t, id), acmeTask[t].at = "idle",
             UNCHANGED <<row, created, admin, registering, found, certEdits, certErrors>>,
             UNCHANGED <<stream, up, reports, torn, dropped>>,
             UNCHANGED <<crt, key, meta, issued, old, ages>>,
             issues' \in Seq(Nat), \A i \in 1 .. Len(issues') : issues'[i] # 0,
             \A i \in 1 .. Len(issues) :
               issues[i] = id \/ \E j \in 1 .. Len(issues') : issues'[j] = issues[i]
      PROVE CertInv'
  <2> DEFINE x == [at |-> "order", id |-> id, serial |-> 0, stream |-> stream]
  <2>1. x \in TaskState /\ x.at = "order" /\ x.id = id /\ x.stream = stream
    BY <1>n DEF TaskState
  <2>2. acmeTask' = [acmeTask EXCEPT ![t] = x]
    BY <1>8 DEF Starts
  <2> HIDE DEF x
  <2>3. /\ acmeTask' \in [Task -> TaskState]
        /\ \A u \in Task : acmeTask'[u] = IF u = t THEN x ELSE acmeTask[u]
    BY <2>1, <2>2, <1>v, TaskDoes
  <2>4. CertTypeOK'
    BY <1>t, <1>8, <2>3 DEF CertTypeOK, TaskState, Rec
  <2>5. IdsInv'
    BY <1>v, <1>8, <2>1, <2>3 DEF IdsInv
  <2>6. FilesInv'
    BY <1>v, <1>8, <2>1, <2>3 DEF FilesInv, OnDisk, ActiveIsOnDisk
  <2>7. PairInv'
    BY <1>v, <1>8, <2>1, <2>3 DEF PairInv
  <2>8. PendingIsServed'
    <3> SUFFICES ASSUME row.status = "pending", ~dropped PROVE PendingIsServed'
      BY <1>8 DEF PendingIsServed
    <3>0. row.id # 0
      BY <1>t
    <3>1. ASSUME NEW u \in Task, acmeTask[u].id = row.id, acmeTask[u].stream = stream
          PROVE u # t /\ acmeTask'[u].id = row.id /\ acmeTask'[u].stream = stream
      BY <1>v, <1>8, <2>3, <3>0, <3>1 DEF IdsInv
    <3>2. ASSUME NEW i \in 1 .. Len(issues), issues[i] = row.id
          PROVE \/ \E j \in 1 .. Len(issues') : issues'[j] = row.id
                \/ acmeTask'[t].id = row.id /\ acmeTask'[t].stream = stream
      BY <1>8, <2>1, <2>3, <3>2
    <3>3. QED
      BY <1>v, <1>8, <3>1, <3>2 DEF PendingIsServed
  <2>9. QED
    BY <2>4, <2>5, <2>6, <2>7, <2>8 DEF CertInv
<1>9. ASSUME NEW t \in IssueTask, TakeIssue(t) PROVE CertInv'
  <2>1. /\ issues # <<>> /\ issues' = Tail(issues) /\ acmeTask[t].at = "idle"
        /\ Starts(t, Head(issues)) /\ t \in Task
        /\ UNCHANGED <<row, created, admin, registering, found, certEdits, certErrors>>
        /\ UNCHANGED <<stream, up, reports, torn, dropped>>
        /\ UNCHANGED <<crt, key, meta, issued, old, ages>>
    BY <1>9 DEF TakeIssue, hubVars, files, Task
  <2>2. /\ Tail(issues) \in Seq(Nat) /\ Head(issues) \in Nat /\ Head(issues) = issues[1]
        /\ 1 \in 1 .. Len(issues)
        /\ \A i \in 1 .. Len(Tail(issues)) : /\ Tail(issues)[i] = issues[i + 1]
                                            /\ i + 1 \in 1 .. Len(issues)
        /\ \A i \in 1 .. Len(issues) :
             i = 1 \/ (i - 1 \in 1 .. Len(Tail(issues)) /\ Tail(issues)[i - 1] = issues[i])
    BY <2>1, <1>q, TailFacts
  <2>3. Head(issues) # 0 /\ \A i \in 1 .. Len(issues') : issues'[i] # 0
    BY <2>1, <2>2, <1>v DEF IdsInv
  <2>4. \A i \in 1 .. Len(issues) :
          issues[i] = Head(issues) \/ \E j \in 1 .. Len(issues') : issues'[j] = issues[i]
    BY <2>1, <2>2
  <2>5. QED
    BY <2>1, <2>2, <2>3, <2>4, <1>8
<1>10. ASSUME StartRenewal PROVE CertInv'
  <2>1. /\ meta # 0 /\ acmeTask[Renewal].at = "idle" /\ Starts(Renewal, meta)
        /\ UNCHANGED issues /\ Renewal \in Task
        /\ UNCHANGED <<row, created, admin, registering, found, certEdits, certErrors>>
        /\ UNCHANGED <<stream, up, reports, torn, dropped>>
        /\ UNCHANGED <<crt, key, meta, issued, old, ages>>
    BY <1>10 DEF StartRenewal, hubVars, files, Task
  <2>2. \A i \in 1 .. Len(issues') : issues'[i] # 0
    BY <2>1, <1>v DEF IdsInv
  <2>3. meta \in Nat \ {0}
    BY <2>1, <1>n
  <2>4. issues' \in Seq(Nat)
    BY <2>1, <1>q
  <2>5. \A i \in 1 .. Len(issues) :
          issues[i] = meta \/ \E j \in 1 .. Len(issues') : issues'[j] = issues[i]
    BY <2>1
  <2>6. QED
    BY <2>1, <2>2, <2>3, <2>4, <2>5, <1>8
<1>11. ASSUME NEW t \in Task, WriteCrt(t) PROVE CertInv'
  <2>1. /\ acmeTask[t].at = "order" /\ issued' = issued + 1 /\ crt' = issued' /\ old' = FALSE
        /\ acmeTask' = [acmeTask EXCEPT ![t].at = "crt", ![t].serial = issued']
        /\ UNCHANGED <<row, created, admin, registering, found, certEdits, certErrors>>
        /\ UNCHANGED <<stream, up, issues, reports, key, meta, ages, dropped>>
    BY <1>11 DEF WriteCrt, hubVars
  <2>2. torn' = (torn \/ \E u \in Task : acmeTask[u].at = "crt")
    BY <1>11 DEF WriteCrt
  <2> DEFINE x == [acmeTask[t] EXCEPT !.at = "crt", !.serial = issued']
  <2>3. issued' \in Nat \ {0} /\ crt' \in Nat \ {0}
    BY <2>1, <1>n
  <2>4. acmeTask[t] \in TaskState
    BY <1>t
  <2>5. x \in TaskState /\ x.at = "crt" /\ x.serial = crt' /\ x.id = acmeTask[t].id
        /\ x.stream = acmeTask[t].stream
    BY <2>1, <2>3, <2>4 DEF TaskState
  <2>6. acmeTask' = [acmeTask EXCEPT ![t] = x]
    BY <2>1, <1>t
  <2> HIDE DEF x
  <2>7. /\ acmeTask' \in [Task -> TaskState]
        /\ \A u \in Task : acmeTask'[u] = IF u = t THEN x ELSE acmeTask[u]
    BY <2>5, <2>6, <1>v, TaskDoes
  <2>8. torn' \in BOOLEAN
    BY <2>2, <1>n
  <2>9. CertTypeOK'
    <3>1. {created', admin', found', stream', crt', key', meta', issued', certEdits', certErrors', ages'}
            \subseteq Nat
      BY <1>t, <2>1, <2>3, <2>7, <2>8
    <3>2. /\ up' \in BOOLEAN /\ old' \in BOOLEAN /\ torn' \in BOOLEAN /\ dropped' \in BOOLEAN
          /\ row' = row /\ registering' = registering /\ issues' = issues /\ reports' = reports
      BY <1>t, <2>1, <2>3, <2>7, <2>8
    <3>3. QED
      BY <3>1, <3>2, <1>t, <2>7 DEF CertTypeOK, TaskState, Rec
  <2>10. IdsInv'
    BY <1>v, <2>1, <2>5, <2>7 DEF IdsInv
  <2>11. FilesInv'
    BY <1>v, <2>1, <2>3, <2>5, <2>7 DEF FilesInv, OnDisk, ActiveIsOnDisk
  <2>12. PairInv'
    <3>1. CASE torn \/ \E u \in Task : acmeTask[u].at = "crt"
      BY <3>1, <2>2 DEF PairInv
    <3>2. CASE \A u \in Task : acmeTask[u].at # "crt"
      <4>1. \A u \in Task : acmeTask'[u].at = "crt" <=> u = t
        BY <3>2, <2>5, <2>7
      <4>2. acmeTask'[t].serial = crt'
        BY <2>5, <2>7
      <4>3. QED
        BY <4>1, <4>2 DEF PairInv
    <3>3. QED
      BY <3>1, <3>2
  <2>13. PendingIsServed'
    BY <1>v, <2>1, <2>5, <2>7 DEF PendingIsServed
  <2>14. QED
    BY <2>9, <2>10, <2>11, <2>12, <2>13 DEF CertInv
<1>12. ASSUME NEW t \in Task, WriteKey(t) PROVE CertInv'
  <2>1. /\ acmeTask[t].at = "crt" /\ key' = acmeTask[t].serial
        /\ acmeTask' = [acmeTask EXCEPT ![t].at = "key"]
        /\ UNCHANGED <<row, created, admin, registering, found, certEdits, certErrors>>
        /\ UNCHANGED <<stream, up, issues, reports, crt, meta, issued, old, ages, torn, dropped>>
    BY <1>12 DEF WriteKey, hubVars
  <2> DEFINE x == [acmeTask[t] EXCEPT !.at = "key"]
  <2>3. acmeTask[t] \in TaskState
    BY <1>t
  <2>4. /\ x \in TaskState /\ x.at = "key" /\ x.id = acmeTask[t].id
        /\ x.stream = acmeTask[t].stream /\ acmeTask[t].serial \in Nat
    BY <2>3 DEF TaskState
  <2>5. acmeTask' = [acmeTask EXCEPT ![t] = x]
    BY <2>1, <1>t
  <2> HIDE DEF x
  <2>6. /\ acmeTask' \in [Task -> TaskState]
        /\ \A u \in Task : acmeTask'[u] = IF u = t THEN x ELSE acmeTask[u]
    BY <2>4, <2>5, <1>v, TaskDoes
  <2>7. key' \in Nat \ {0} /\ crt # 0
    BY <2>1, <2>4, <1>v DEF FilesInv
  <2>8. CertTypeOK'
    <3>1. {created', admin', found', stream', crt', key', meta', issued', certEdits', certErrors', ages'}
            \subseteq Nat
      BY <1>t, <2>1, <2>6, <2>7
    <3>2. /\ up' \in BOOLEAN /\ old' \in BOOLEAN /\ torn' \in BOOLEAN /\ dropped' \in BOOLEAN
          /\ row' = row /\ registering' = registering /\ issues' = issues /\ reports' = reports
      BY <1>t, <2>1, <2>6, <2>7
    <3>3. QED
      BY <3>1, <3>2, <1>t, <2>6 DEF CertTypeOK, TaskState, Rec
  <2>9. IdsInv'
    BY <1>v, <2>1, <2>4, <2>6 DEF IdsInv
  <2>10. FilesInv'
    BY <1>v, <2>1, <2>4, <2>6, <2>7 DEF FilesInv, OnDisk, ActiveIsOnDisk
  <2>11. PairInv'
    BY <1>v, <2>1, <2>4, <2>6 DEF PairInv
  <2>12. PendingIsServed'
    BY <1>v, <2>1, <2>4, <2>6 DEF PendingIsServed
  <2>13. QED
    BY <2>8, <2>9, <2>10, <2>11, <2>12 DEF CertInv
<1>13. ASSUME NEW t \in Task, WriteMeta(t) PROVE CertInv'
  <2>1. /\ acmeTask[t].at = "key" /\ meta' = acmeTask[t].id
        /\ acmeTask' = [acmeTask EXCEPT ![t].at = "issued"]
        /\ UNCHANGED <<row, created, admin, registering, found, certEdits, certErrors>>
        /\ UNCHANGED <<stream, up, issues, reports, crt, key, issued, old, ages, torn, dropped>>
    BY <1>13 DEF WriteMeta, hubVars
  <2> DEFINE x == [acmeTask[t] EXCEPT !.at = "issued"]
  <2>3. acmeTask[t] \in TaskState
    BY <1>t
  <2>4. /\ x \in TaskState /\ x.at = "issued" /\ x.id = acmeTask[t].id
        /\ x.stream = acmeTask[t].stream /\ acmeTask[t].id \in Nat
    BY <2>3 DEF TaskState
  <2>5. acmeTask' = [acmeTask EXCEPT ![t] = x]
    BY <2>1, <1>t
  <2> HIDE DEF x
  <2>6. /\ acmeTask' \in [Task -> TaskState]
        /\ \A u \in Task : acmeTask'[u] = IF u = t THEN x ELSE acmeTask[u]
    BY <2>4, <2>5, <1>v, TaskDoes
  <2>7. meta' \in Nat \ {0} /\ crt # 0 /\ key # 0
    BY <2>1, <2>4, <1>v DEF FilesInv, IdsInv
  <2>8. CertTypeOK'
    <3>1. {created', admin', found', stream', crt', key', meta', issued', certEdits', certErrors', ages'}
            \subseteq Nat
      BY <1>t, <2>1, <2>6, <2>7
    <3>2. /\ up' \in BOOLEAN /\ old' \in BOOLEAN /\ torn' \in BOOLEAN /\ dropped' \in BOOLEAN
          /\ row' = row /\ registering' = registering /\ issues' = issues /\ reports' = reports
      BY <1>t, <2>1, <2>6, <2>7
    <3>3. QED
      BY <3>1, <3>2, <1>t, <2>6 DEF CertTypeOK, TaskState, Rec
  <2>9. IdsInv'
    BY <1>v, <2>1, <2>4, <2>6 DEF IdsInv
  <2>10. FilesInv'
    BY <1>v, <2>1, <2>4, <2>6, <2>7 DEF FilesInv, OnDisk, ActiveIsOnDisk
  <2>11. PairInv'
    BY <1>v, <2>1, <2>4, <2>6 DEF PairInv
  <2>12. PendingIsServed'
    BY <1>v, <2>1, <2>4, <2>6 DEF PendingIsServed
  <2>13. QED
    BY <2>8, <2>9, <2>10, <2>11, <2>12 DEF CertInv
<1>14. ASSUME NEW t \in Task, IssueFails(t) PROVE CertInv'
  <2>1. /\ acmeTask[t].at \in {"order", "crt", "key"}
        /\ acmeTask' = [acmeTask EXCEPT ![t].at = "failed"]
        /\ UNCHANGED <<row, created, admin, registering, found, certEdits, certErrors>>
        /\ UNCHANGED <<stream, up, issues, reports, crt, key, meta, issued, old, ages, dropped>>
    BY <1>14 DEF IssueFails, hubVars, files
  <2>2. torn' = (torn \/ acmeTask[t].at = "crt")
    BY <1>14 DEF IssueFails
  <2> DEFINE x == [acmeTask[t] EXCEPT !.at = "failed"]
  <2>3. acmeTask[t] \in TaskState
    BY <1>t
  <2>4. /\ x \in TaskState /\ x.at = "failed" /\ x.id = acmeTask[t].id
        /\ x.stream = acmeTask[t].stream
    BY <2>3 DEF TaskState
  <2>5. acmeTask' = [acmeTask EXCEPT ![t] = x]
    BY <2>1, <1>t
  <2> HIDE DEF x
  <2>6. /\ acmeTask' \in [Task -> TaskState]
        /\ \A u \in Task : acmeTask'[u] = IF u = t THEN x ELSE acmeTask[u]
    BY <2>4, <2>5, <1>v, TaskDoes
  <2>7. torn' \in BOOLEAN
    BY <2>2, <1>n
  <2>8. CertTypeOK'
    <3>1. {created', admin', found', stream', crt', key', meta', issued', certEdits', certErrors', ages'}
            \subseteq Nat
      BY <1>t, <2>1, <2>6, <2>7
    <3>2. /\ up' \in BOOLEAN /\ old' \in BOOLEAN /\ torn' \in BOOLEAN /\ dropped' \in BOOLEAN
          /\ row' = row /\ registering' = registering /\ issues' = issues /\ reports' = reports
      BY <1>t, <2>1, <2>6, <2>7
    <3>3. QED
      BY <3>1, <3>2, <1>t, <2>6 DEF CertTypeOK, TaskState, Rec
  <2>9. IdsInv'
    BY <1>v, <2>1, <2>4, <2>6 DEF IdsInv
  <2>10. FilesInv'
    BY <1>v, <2>1, <2>4, <2>6 DEF FilesInv, OnDisk, ActiveIsOnDisk
  <2>11. PairInv'
    BY <1>v, <2>1, <2>2, <2>4, <2>6 DEF PairInv
  <2>12. PendingIsServed'
    BY <1>v, <2>1, <2>4, <2>6 DEF PendingIsServed
  <2>13. QED
    BY <2>8, <2>9, <2>10, <2>11, <2>12 DEF CertInv
<1>15. ASSUME NEW t \in Task, ReportStatus(t) PROVE CertInv'
  <2> DEFINE said == [id |-> acmeTask[t].id,
                      status |-> IF acmeTask[t].at = "issued" THEN "active" ELSE "failed"]
  <2>1. /\ acmeTask[t].at \in {"issued", "failed"}
        /\ acmeTask' = [acmeTask EXCEPT ![t] = Idle]
        /\ reports' = (IF up /\ acmeTask[t].stream = stream THEN Append(reports, said) ELSE reports)
        /\ UNCHANGED <<row, created, admin, registering, found, certEdits, certErrors>>
        /\ UNCHANGED <<stream, up, issues, torn, dropped>>
        /\ UNCHANGED <<crt, key, meta, issued, old, ages>>
    BY <1>15 DEF ReportStatus, hubVars, files
  <2>2. Idle \in TaskState /\ Idle.at = "idle" /\ Idle.id = 0
    BY DEF Idle, TaskState
  <2>3. /\ acmeTask' \in [Task -> TaskState]
        /\ \A u \in Task : acmeTask'[u] = IF u = t THEN Idle ELSE acmeTask[u]
    BY <2>1, <2>2, <1>v, TaskDoes
  <2>4. acmeTask[t] \in TaskState
    BY <1>t
  <2>5. /\ said \in Report /\ said.id = acmeTask[t].id /\ said.id # 0
        /\ said.status = "active" => OnDisk
    <3>1. acmeTask[t].id # 0 /\ (acmeTask[t].at = "issued" => OnDisk)
      BY <2>1, <1>v DEF IdsInv, FilesInv
    <3>2. QED
      BY <2>4, <3>1 DEF TaskState, Report
  <2> HIDE DEF said
  <2>6. /\ reports' \in Seq(Report)
        /\ \A i \in 1 .. Len(reports') :
             reports'[i] = said \/ (i \in 1 .. Len(reports) /\ reports'[i] = reports[i])
        /\ \A i \in 1 .. Len(reports) : i \in 1 .. Len(reports') /\ reports'[i] = reports[i]
        /\ up /\ acmeTask[t].stream = stream => \E i \in 1 .. Len(reports') : reports'[i] = said
    <3>1. CASE up /\ acmeTask[t].stream = stream
      <4>1. reports' = Append(reports, said)
        BY <3>1, <2>1
      <4>2. /\ Append(reports, said) \in Seq(Report) /\ Len(Append(reports, said)) = Len(reports) + 1
            /\ \A i \in 1 .. Len(reports) : /\ Append(reports, said)[i] = reports[i]
                                           /\ i \in 1 .. Len(Append(reports, said))
            /\ Append(reports, said)[Len(reports) + 1] = said
            /\ Len(reports) + 1 \in 1 .. Len(Append(reports, said))
            /\ \A i \in 1 .. Len(Append(reports, said)) : i \in 1 .. Len(reports) \/ i = Len(reports) + 1
        BY <2>5, <1>q, AppendFacts
      <4>3. QED
        BY <4>1, <4>2
    <3>2. CASE ~(up /\ acmeTask[t].stream = stream)
      BY <3>2, <2>1, <1>q
    <3>3. QED
      BY <3>1, <3>2
  <2>7. CertTypeOK'
    BY <1>t, <2>1, <2>3, <2>6 DEF CertTypeOK, TaskState, Rec
  <2>8. IdsInv'
    BY <1>v, <2>1, <2>2, <2>3 DEF IdsInv
  <2>9. OnDisk' = OnDisk
    BY <2>1 DEF OnDisk
  <2>10. FilesInv'
    BY <1>v, <2>1, <2>2, <2>3, <2>5, <2>6, <2>9 DEF FilesInv, ActiveIsOnDisk
  <2>11. PairInv'
    BY <1>v, <2>1, <2>2, <2>3 DEF PairInv
  <2>12. PendingIsServed'
    <3> SUFFICES ASSUME row.status = "pending", ~dropped, up PROVE PendingIsServed'
      BY <2>1 DEF PendingIsServed
    <3>1. ASSUME NEW u \in Task, acmeTask[u].id = row.id, acmeTask[u].stream = stream
          PROVE \/ acmeTask'[u].id = row.id /\ acmeTask'[u].stream = stream
                \/ \E i \in 1 .. Len(reports') : reports'[i].id = row.id
      <4>1. CASE u = t
        <5>1. PICK i \in 1 .. Len(reports') : reports'[i] = said
          BY <4>1, <3>1, <2>6
        <5>2. QED
          BY <5>1, <4>1, <3>1, <2>5
      <4>2. CASE u # t
        BY <4>2, <3>1, <2>3
      <4>3. QED
        BY <4>1, <4>2
    <3>2. ASSUME NEW i \in 1 .. Len(reports), reports[i].id = row.id
          PROVE \E j \in 1 .. Len(reports') : reports'[j].id = row.id
      BY <3>2, <2>6
    <3>3. QED
      BY <1>v, <2>1, <3>1, <3>2 DEF PendingIsServed
  <2>13. QED
    BY <2>7, <2>8, <2>10, <2>11, <2>12 DEF CertInv
<1>16. ASSUME NEW aborted \in SUBSET Task, StreamEnds(aborted), admin' = admin \/ admin' = 0
       PROVE CertInv'
  <2>1. /\ up' = FALSE /\ registering' = "no" /\ found' = 0 /\ issues' = <<>> /\ reports' = <<>>
        /\ acmeTask' = [t \in Task |-> IF t \in aborted THEN Idle ELSE acmeTask[t]]
        /\ UNCHANGED <<row, created, certEdits, certErrors, stream, dropped>>
        /\ UNCHANGED <<crt, key, meta, issued, old, ages>>
    BY <1>16 DEF StreamEnds, files
  <2>2. torn' = (torn \/ \E t \in aborted : acmeTask[t].at = "crt")
    BY <1>16 DEF StreamEnds
  <2>3. Idle \in TaskState /\ Idle.at = "idle" /\ Idle.id = 0
    BY DEF Idle, TaskState
  <2>4. /\ acmeTask' \in [Task -> TaskState]
        /\ \A u \in Task : acmeTask'[u] = IF u \in aborted THEN Idle ELSE acmeTask[u]
    BY <2>1, <2>3, <1>t
  <2>5. <<>> \in Seq(Nat) /\ <<>> \in Seq(Report) /\ Len(<<>>) = 0
    BY EmptyIsSeq
  <2>6. torn' \in BOOLEAN
    BY <2>2, <1>n
  <2>7. admin' \in Nat
    BY <1>16, <1>n
  <2>8. CertTypeOK'
    <3>1. {created', admin', found', stream', crt', key', meta', issued', certEdits',
           certErrors', ages'} \subseteq Nat
      BY <1>t, <2>1, <2>7
    <3>2. /\ up' \in BOOLEAN /\ old' \in BOOLEAN /\ torn' \in BOOLEAN /\ dropped' \in BOOLEAN
          /\ row' = row /\ registering' = "no"
      BY <1>t, <2>1, <2>6
    <3>3. issues' \in Seq(Nat) /\ reports' \in Seq(Report)
      BY <2>1, <2>5
    <3>4. QED
      BY <3>1, <3>2, <3>3, <1>t, <2>4 DEF CertTypeOK, TaskState, Rec
  <2>9. IdsInv'
    BY <1>v, <2>1, <2>3, <2>4, <2>5 DEF IdsInv
  <2>10. FilesInv'
    BY <1>v, <2>1, <2>3, <2>4, <2>5 DEF FilesInv, OnDisk, ActiveIsOnDisk
  <2>11. PairInv'
    BY <1>v, <2>1, <2>2, <2>3, <2>4 DEF PairInv
  <2>12. PendingIsServed'
    BY <2>1 DEF PendingIsServed
  <2>13. QED
    BY <2>8, <2>9, <2>10, <2>11, <2>12 DEF CertInv
<1>17. ASSUME GetsOld PROVE CertInv'
  <2>1. /\ old' = TRUE /\ ages' = ages + 1
        /\ UNCHANGED <<row, created, admin, registering, found, certEdits, certErrors>>
        /\ UNCHANGED <<stream, up, issues, reports, acmeTask, crt, key, meta, issued, torn, dropped>>
    BY <1>17 DEF GetsOld, hubVars
  <2>2. CertTypeOK'
    <3>1. ages' \in Nat
      BY <2>1, <1>t
    <3>2. QED
      BY <1>t, <2>1, <3>1 DEF CertTypeOK, TaskState, Rec
  <2>3. IdsInv' /\ FilesInv' /\ PairInv' /\ PendingIsServed'
    BY <1>v, <2>1
       DEF IdsInv, FilesInv, OnDisk, ActiveIsOnDisk, PairInv, PendingIsServed
  <2>4. QED
    BY <2>2, <2>3 DEF CertInv
<1>18. ASSUME UNCHANGED certVars PROVE CertInv'
  BY <1>18, <1>v DEF certVars, hubVars, files, CertInv, CertTypeOK, IdsInv, FilesInv, OnDisk,
     ActiveIsOnDisk, PairInv, PendingIsServed
<1>19. StreamBreaks \/ HubStops \/ AgentStops =>
         \E aborted \in SUBSET Task : StreamEnds(aborted) /\ (admin' = admin \/ admin' = 0)
  <2>1. Task \in SUBSET Task /\ {Renewal} \in SUBSET Task
    BY DEF Task
  <2>2. QED
    BY <2>1 DEF StreamBreaks, HubStops, AgentStops
<1>20. QED
  BY <1>1, <1>2, <1>3, <1>4, <1>5, <1>6, <1>7, <1>9, <1>10, <1>11, <1>12, <1>13, <1>14, <1>15,
     <1>16, <1>17, <1>18, <1>19 DEF CertNext, HubStep, TakeStep, TaskStep

\* The invariant, in every state.
THEOREM CertInvAlways == CertSpec => []CertInv
BY CertInitInv, CertStepInv, PTL DEF CertSpec

\* dispatch_pending_for_node, issue_certificate, apply_cert_status: someone is at work
\* on a pending certificate, and an active one has its three files on the node.
THEOREM RowAlwaysTrue == CertSpec => []RowIsTrue
<1>1. CertInv => RowIsTrue
  BY DEF CertInv, FilesInv, RowIsTrue
<1>2. QED
  BY CertInvAlways, <1>1, PTL

\* issue_certificate's writes: the key on disk is that of the certificate on disk,
\* unless a task is between the two, or two overlapped or one was stopped there.
THEOREM PairAlwaysMatches == CertSpec => []PairMatches
<1>1. CertInv => PairMatches
  BY DEF CertInv, PairInv, PairMatches
<1>2. QED
  BY CertInvAlways, <1>1, PTL

-----------------------------------------------------------------------------
(***************************************************************************)
(* CoreInstall.  Whatever is pushed, fails or stops, and for any set of    *)
(* builds, the fallback, the binary and the marker agree.                  *)
(***************************************************************************)
\* Between the rename and its end, the upgrade has the binary in the backup.
Upgrading == agent \in {"fetch", "restore"}

\* Where the push is, and what it knows of the file.
PushInv ==
  /\ agent = "install" => ~manager
  /\ agent \in {"check", "fetch", "restore", "done", "mark", "apply"} => manager
  /\ agent \in {"fetch", "restore", "done", "mark"} => want # AnyBuild
  /\ agent = "restore" => failed
  /\ agent \in {"done", "mark"} => binary = want
  /\ (agent = "stopped" \/ Upgrading \/ damaged) \/ (manager => binary # Missing)
  /\ (Upgrading /\ aside) => backup # Missing
  /\ (Upgrading /\ ~aside) => damaged

\* What became of the binary the push found.
FallbackInv ==
  before \in Build =>
    /\ agent \in {"install", "check"} => binary = before
    /\ Upgrading => aside /\ backup = before
    /\ agent = "apply" => binary \in {before, want} \/ backup = before

\* Where the whole copy is.
OwnedInv ==
  (owned /\ ~damaged) => IF Upgrading THEN backup \in Build ELSE binary \in Build

\* What the marker says of it.
MarkerInv ==
  /\ agent \in {"done", "mark"} => unmarked
  /\ (~unmarked /\ ~damaged) =>
       IF Upgrading THEN backup = marker ELSE binary \in {marker, Missing}

\* What a push was to get.
AskedInv == (agent = "apply" /\ want \in Build /\ ~failed)
              => binary = want \/ unmarked \/ damaged

\* The inductive invariant.
InstallInv == InstallTypeOK /\ PushInv /\ FallbackInv /\ OwnedInv /\ MarkerInv /\ AskedInv

\* The initial state: nothing installed, the Agent not started.
LEMMA InstallInvInit == InstallInit => InstallInv
BY BuildAssumption DEF InstallInit, InstallInv, InstallTypeOK, File, PushInv, FallbackInv,
     OwnedInv, MarkerInv, AskedInv, Upgrading

\* Every step of a push, a deletion and an end or start of the Agent keeps the
\* invariant.
LEMMA InstallInvStep == InstallInv /\ [InstallNext]_installVars => InstallInv'
<1> SUFFICES ASSUME InstallInv, [InstallNext]_installVars PROVE InstallInv'
  OBVIOUS
<1> USE BuildAssumption DEF InstallInv, InstallTypeOK, File, PushInv, FallbackInv,
      OwnedInv, MarkerInv, AskedInv, Upgrading, installHistory
<1>1. ASSUME NEW b \in Build \union {AnyBuild}, BeginPush(b) PROVE InstallInv'
  BY <1>1 DEF BeginPush
<1>2. CASE AdoptBinary
  BY <1>2 DEF AdoptBinary
<1>3. CASE InstallBinary
  BY <1>3 DEF InstallBinary, Candidates, Leftovers
<1>4. CASE CheckMarker
  <2>1. CASE UpToDate
    BY <1>4, <2>1 DEF CheckMarker, UpToDate
  <2>2. CASE ~UpToDate /\ agent' = "fetch"
    <3>1. want # AnyBuild /\ want \in Build /\ marker # want
      BY <2>2 DEF UpToDate
    <3>2. CASE binary = Missing
      BY <1>4, <2>2, <3>1, <3>2 DEF CheckMarker, UpToDate
    <3>3. CASE binary # Missing
      BY <1>4, <2>2, <3>1, <3>3 DEF CheckMarker, UpToDate
    <3> QED
      BY <3>2, <3>3
  <2>3. CASE ~UpToDate /\ agent' = "apply"
    BY <1>4, <2>3 DEF CheckMarker, UpToDate
  <2>4. agent' = "fetch" \/ agent' = "apply"
    BY <1>4 DEF CheckMarker
  <2> QED
    BY <2>1, <2>2, <2>3, <2>4
<1>5. CASE Fetch
  <2>1. want \in Build
    BY <1>5 DEF Fetch
  <2>2. CASE agent' = "done"
    BY <1>5, <2>1, <2>2 DEF Fetch
  <2>3. CASE agent' = "restore"
    BY <1>5, <2>1, <2>3 DEF Fetch, Leftovers
  <2>4. agent' = "done" \/ agent' = "restore"
    BY <1>5 DEF Fetch
  <2> QED
    BY <2>2, <2>3, <2>4
<1>6. CASE RestoreBackup
  <2>1. CASE ~aside
    BY <1>6, <2>1 DEF RestoreBackup
  <2>2. CASE aside /\ damaged'
    BY <1>6, <2>2 DEF RestoreBackup
  <2>3. CASE aside /\ ~damaged'
    BY <1>6, <2>3 DEF RestoreBackup
  <2> QED
    BY <2>1, <2>2, <2>3
<1>7. CASE RemoveBackup
  BY <1>7 DEF RemoveBackup
<1>8. CASE WriteMarker
  <2>1. CASE marker' = want /\ unmarked' = FALSE /\ failed' = failed
    BY <1>8, <2>1 DEF WriteMarker
  <2>2. CASE failed' = TRUE /\ marker' \in {marker, Missing} /\ unmarked' = unmarked
    BY <1>8, <2>2 DEF WriteMarker
  <2> QED
    BY <1>8, <2>1, <2>2 DEF WriteMarker
<1>9. CASE Apply
  BY <1>9 DEF Apply
<1>10. CASE DeleteBinary
  BY <1>10 DEF DeleteBinary
<1>11. CASE AgentEnds
  BY <1>11 DEF AgentEnds
<1>12. CASE AgentStarts
  BY <1>12 DEF AgentStarts
<1>13. CASE UNCHANGED installVars
  BY <1>13 DEF installVars, installHistory
<1> QED
  BY <1>1, <1>2, <1>3, <1>4, <1>5, <1>6, <1>7, <1>8, <1>9, <1>10, <1>11, <1>12, <1>13
  DEF InstallNext

\* The invariant holds in every state of every behaviour.
LEMMA InstallInvariant == InstallSpec => []InstallInv
BY InstallInvInit, InstallInvStep, PTL DEF InstallSpec

\* ensure_core_build: a push that found a whole binary ends with that one or
\* the one it asked for, or with that one still aside, whichever of the download
\* and the two renames failed.
THEOREM FallbackIsKept == InstallSpec => []FallbackKept
<1>1. InstallInv => FallbackKept
  BY DEF InstallInv, FallbackInv, FallbackKept
<1> QED
  BY <1>1, InstallInvariant, PTL

\* delete_core_binary, ensure_core_build: a managed core has a file, and a
\* whole copy of a build outlives every failed download whose rename back
\* was made.
THEOREM BinaryIsKept == InstallSpec => []KeepsBinary
<1>1. InstallInv => KeepsBinary
  BY DEF InstallInv, PushInv, OwnedInv, Upgrading, KeepsBinary
<1> QED
  BY <1>1, InstallInvariant, PTL

\* handle_config_push: the binary a configuration is applied with is the one
\* the push named, unless the download failed or the marker file lies.
THEOREM PushGetsItsBuild == InstallSpec => []BuildAsAsked
<1>1. InstallInv => BuildAsAsked
  BY DEF InstallInv, AskedInv, BuildAsAsked
<1> QED
  BY <1>1, InstallInvariant, PTL
=============================================================================
