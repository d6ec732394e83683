---------------------------- MODULE Certificates ----------------------------
(***************************************************************************)
(* A managed certificate: the row of one (node, domain) in the Hub's       *)
(* certificates table, the issue requests and status reports between the   *)
(* Hub and the node's Agent, the Agent's tasks that obtain a certificate   *)
(* by ACME and write its three files, and the daily renewal loop that runs *)
(* while the stream is up.                                                 *)
(*                                                                         *)
(* Domains share only port 80 of the node: an issuance that cannot bind it *)
(* fails, as for any other reason.  The streams of a node are the subject  *)
(* of AgentSession; here there is one at a time, with a number.            *)
(***************************************************************************)
EXTENDS Naturals, Sequences

CONSTANTS
  IssueTask,  \* tasks spawned for CertIssue messages, reused
  Renewal,    \* the task of run_renewal_loop
  MaxEdits,   \* bound: requests of the administrator
  MaxIssues,  \* bound: certificates obtained
  MaxStreams, \* bound: streams of the node
  MaxErrors,  \* bound: errors of the Hub's database
  MaxAges     \* bound: times the certificate gets sixty days old

ASSUME CertAssumption ==
  /\ Renewal \notin IssueTask
  /\ {MaxEdits, MaxIssues, MaxStreams, MaxErrors, MaxAges} \subseteq Nat

VARIABLES
  row,       \* id and status of the row; id 0 for none
  created,   \* ids given so far
  admin,     \* id the administrator's handler is about to dispatch, or 0
  stream,    \* number of the node's last stream
  up,        \* it is up, and in the Hub's table
  registering, \* handle_register: "no", "entered" the table, or "found" a row
  found,     \* ... whose id this is, or 0
  issues,    \* Hub to Agent: ids of CertIssue messages
  reports,   \* Agent to Hub: CertStatus messages
  acmeTask,      \* what each task of the Agent does
  crt, key, meta, \* the files: issuance they come from; cert_id in the meta file
  issued,    \* certificates obtained so far
  old,       \* the crt file is sixty days old
  certEdits, certErrors, ages \* counters of the bounds

\* History: a task stopped, or was overtaken by another, between its two
\* writes; a report or a dispatch was lost to a database error.
VARIABLES torn, dropped

files    == <<crt, key, meta, issued, old, ages>>
hubVars  == <<row, created, admin, registering, found, certEdits, certErrors>>
certVars == <<hubVars, stream, up, issues, reports, acmeTask, files, torn, dropped>>

Task == IssueTask \union {Renewal}
Idle == [at |-> "idle", id |-> 0, serial |-> 0, stream |-> 0]
Report == [id : Nat, status : {"active", "failed"}]

CertTypeOK ==
  /\ row \in [id : Nat, status : {"none", "pending", "active", "failed"}]
  /\ row.id = 0 <=> row.status = "none"
  /\ registering \in {"no", "entered", "found"}
  /\ up \in BOOLEAN /\ old \in BOOLEAN /\ torn \in BOOLEAN /\ dropped \in BOOLEAN
  /\ issues \in Seq(Nat) /\ reports \in Seq(Report)
  /\ acmeTask \in [Task -> [at : {"idle", "order", "crt", "key", "issued", "failed"},
                        id : Nat, serial : Nat, stream : Nat]]
  /\ {created, admin, found, stream, crt, key, meta, issued, certEdits, certErrors, ages}
       \subseteq Nat

CertInit ==
  /\ row = [id |-> 0, status |-> "none"]
  /\ created = 0 /\ admin = 0 /\ registering = "no" /\ found = 0
  /\ stream = 0 /\ up = FALSE
  /\ issues = <<>> /\ reports = <<>>
  /\ acmeTask = [t \in Task |-> Idle]
  /\ crt = 0 /\ key = 0 /\ meta = 0 /\ issued = 0 /\ old = FALSE
  /\ certEdits = 0 /\ certErrors = 0 /\ ages = 0
  /\ torn = FALSE /\ dropped = FALSE

-----------------------------------------------------------------------------
(* The Hub: HTTP handlers, registration, status reports                    *)

AdminEdits == certEdits < MaxEdits /\ certEdits' = certEdits + 1

\* create_certificate and renew_certificate: the row is made, or made
\* pending again; its dispatch follows.  Bound: one such request at a time.
RequestCert ==
  /\ AdminEdits /\ admin = 0
  /\ IF row.id = 0
     THEN row' = [id |-> created + 1, status |-> "pending"] /\ created' = created + 1
     ELSE row' = [row EXCEPT !.status = "pending"] /\ UNCHANGED created
  /\ admin' = row'.id
  /\ UNCHANGED <<registering, found, certErrors, stream, up, issues, reports, acmeTask, files,
                 torn, dropped>>

\* delete_certificate: the row goes, the node's files stay.
DeleteCert ==
  /\ AdminEdits /\ row.id # 0
  /\ row' = [id |-> 0, status |-> "none"]
  /\ UNCHANGED <<created, admin, registering, found, certErrors, stream, up,
                 issues, reports, acmeTask, files, torn, dropped>>

\* dispatch_issuance: an Agent that is not connected leaves the row pending.
Dispatch ==
  /\ admin # 0 /\ admin' = 0
  /\ issues' = IF up THEN Append(issues, admin) ELSE issues
  /\ UNCHANGED <<row, created, registering, found, certEdits, certErrors, stream,
                 up, reports, acmeTask, files, torn, dropped>>

\* The Agent connects and the Hub enters it into its table.
Register ==
  /\ ~up /\ stream < MaxStreams
  /\ stream' = stream + 1 /\ up' = TRUE /\ registering' = "entered"
  /\ UNCHANGED <<row, created, admin, found, certEdits, certErrors, issues, reports,
                 acmeTask, files, torn, dropped>>

\* Variant: the failed ones are issued again.
ReadFailed ==
  /\ registering = "entered"
  /\ IF row.status = "failed" THEN registering' = "found" /\ found' = row.id
                              ELSE registering' = "no" /\ found' = 0
  /\ UNCHANGED <<row, created, admin, certEdits, certErrors, stream, up, issues,
                 reports, acmeTask, files, torn, dropped>>

\* dispatch_pending_for_node reads the pending rows; an error is logged.
ReadPending ==
  /\ registering = "entered"
  /\ \/ /\ IF row.status = "pending" THEN registering' = "found" /\ found' = row.id
                                     ELSE registering' = "no" /\ found' = 0
        /\ UNCHANGED <<certErrors, dropped>>
     \/ /\ certErrors < MaxErrors /\ certErrors' = certErrors + 1
        /\ registering' = "no" /\ dropped' = TRUE /\ UNCHANGED found
  /\ UNCHANGED <<row, created, admin, certEdits, stream, up, issues, reports, acmeTask,
                 files, torn>>

DispatchPending ==
  /\ registering = "found" /\ registering' = "no"
  /\ issues' = Append(issues, found) /\ found' = 0
  /\ UNCHANGED <<row, created, admin, certEdits, certErrors, stream, up, reports,
                 acmeTask, files, torn, dropped>>

\* apply_cert_status: a report on a row that is gone is ignored; after an
\* error the report is lost.
ApplyStatus ==
  /\ reports # <<>> /\ reports' = Tail(reports)
  /\ \/ /\ row' = IF Head(reports).id = row.id
                  THEN [row EXCEPT !.status = Head(reports).status] ELSE row
        /\ UNCHANGED <<certErrors, dropped>>
     \/ /\ certErrors < MaxErrors /\ certErrors' = certErrors + 1
        /\ dropped' = TRUE /\ UNCHANGED row
  /\ UNCHANGED <<created, admin, registering, found, certEdits, stream, up, issues,
                 acmeTask, files, torn>>

-----------------------------------------------------------------------------
(* The Agent's tasks, issue_certificate                                    *)

Starts(t, id) == acmeTask' = [acmeTask EXCEPT ![t] =
                   [at |-> "order", id |-> id, serial |-> 0, stream |-> stream]]

\* handle_hub_message spawns a task, which outlives the stream.
TakeIssue(t) ==
  /\ up /\ issues # <<>> /\ issues' = Tail(issues)
  /\ acmeTask[t].at = "idle" /\ Starts(t, Head(issues))
  /\ UNCHANGED <<hubVars, stream, up, reports, files, torn, dropped>>

\* run_renewal_loop: the meta file says for which id the Hub knows an old
\* certificate.  Bound: the reports of the day before have been handled.
StartRenewal ==
  /\ up /\ old /\ meta # 0 /\ reports = <<>>
  /\ acmeTask[Renewal].at = "idle" /\ Starts(Renewal, meta)
  /\ UNCHANGED <<hubVars, stream, up, issues, reports, files, torn, dropped>>

\* The order succeeds, and the chain is written; its age starts again.
WriteCrt(t) ==
  /\ acmeTask[t].at = "order" /\ issued < MaxIssues
  /\ issued' = issued + 1 /\ crt' = issued' /\ old' = FALSE
  /\ acmeTask' = [acmeTask EXCEPT ![t].at = "crt", ![t].serial = issued']
  /\ torn' = (torn \/ \E u \in Task : acmeTask[u].at = "crt")
  /\ UNCHANGED <<hubVars, stream, up, issues, reports, key, meta, ages, dropped>>

\* Variant: the key of the first certificate is kept.
WriteFirstKey(t) ==
  /\ acmeTask[t].at = "crt"
  /\ key' = IF key = 0 THEN acmeTask[t].serial ELSE key
  /\ acmeTask' = [acmeTask EXCEPT ![t].at = "key"]
  /\ UNCHANGED <<hubVars, stream, up, issues, reports, crt, meta, issued, old, ages,
                 torn, dropped>>

WriteKey(t) ==
  /\ acmeTask[t].at = "crt"
  /\ key' = acmeTask[t].serial
  /\ acmeTask' = [acmeTask EXCEPT ![t].at = "key"]
  /\ UNCHANGED <<hubVars, stream, up, issues, reports, crt, meta, issued, old, ages,
                 torn, dropped>>

WriteMeta(t) ==
  /\ acmeTask[t].at = "key"
  /\ meta' = acmeTask[t].id
  /\ acmeTask' = [acmeTask EXCEPT ![t].at = "issued"]
  /\ UNCHANGED <<hubVars, stream, up, issues, reports, crt, key, issued, old, ages,
                 torn, dropped>>

\* The order, or a write after it, fails.
IssueFails(t) ==
  /\ acmeTask[t].at \in {"order", "crt", "key"}
  /\ acmeTask' = [acmeTask EXCEPT ![t].at = "failed"]
  /\ torn' = (torn \/ acmeTask[t].at = "crt")
  /\ UNCHANGED <<hubVars, stream, up, issues, reports, files, dropped>>

\* send_cert_status, on the stream the task was started from.
ReportStatus(t) ==
  /\ acmeTask[t].at \in {"issued", "failed"}
  /\ acmeTask' = [acmeTask EXCEPT ![t] = Idle]
  /\ reports' = IF up /\ acmeTask[t].stream = stream
                THEN Append(reports,
                       [id |-> acmeTask[t].id,
                        status |-> IF acmeTask[t].at = "issued" THEN "active" ELSE "failed"])
                ELSE reports
  /\ UNCHANGED <<hubVars, stream, up, issues, files, torn, dropped>>

\* The stream ends: the renewal task is aborted wherever it is, the spawned
\* ones go on.  Bound: the last stream lasts.
StreamEnds(aborted) ==
  /\ stream < MaxStreams
  /\ up' = FALSE /\ registering' = "no" /\ found' = 0
  /\ issues' = <<>> /\ reports' = <<>>
  /\ acmeTask' = [t \in Task |-> IF t \in aborted THEN Idle ELSE acmeTask[t]]
  /\ torn' = (torn \/ \E t \in aborted : acmeTask[t].at = "crt")
  /\ UNCHANGED <<row, created, certEdits, certErrors, stream, files, dropped>>

StreamBreaks == up /\ StreamEnds({Renewal}) /\ UNCHANGED admin
HubStops     == StreamEnds({Renewal}) /\ admin' = 0
AgentStops   == StreamEnds(Task) /\ UNCHANGED admin

\* Sixty days pass.
GetsOld ==
  /\ crt # 0 /\ ~old /\ old' = TRUE
  /\ ages < MaxAges /\ ages' = ages + 1
  /\ UNCHANGED <<hubVars, stream, up, issues, reports, acmeTask, crt, key, meta, issued,
                 torn, dropped>>

-----------------------------------------------------------------------------
TaskStep(t) == WriteCrt(t) \/ WriteKey(t) \/ WriteMeta(t) \/ IssueFails(t)
               \/ ReportStatus(t)
TakeStep    == \E t \in IssueTask : TakeIssue(t)
HubStep     == Dispatch \/ ReadPending \/ DispatchPending \/ ApplyStatus

CertNext == \/ RequestCert \/ DeleteCert \/ Register \/ HubStep \/ TakeStep
            \/ StartRenewal \/ GetsOld
            \/ \E t \in Task : TaskStep(t)
            \/ StreamBreaks \/ HubStops \/ AgentStops

CertSpec == CertInit /\ [][CertNext]_certVars

\* The Hub's handlers and the Agent's tasks go on (every ACME request ends, in
\* a certificate or an error); and the Agent reconnects.
WorkFairness ==
  /\ WF_certVars(TakeStep) /\ WF_certVars(Dispatch)
  /\ WF_certVars(ReadPending \/ DispatchPending) /\ WF_certVars(ApplyStatus)
  /\ \A t \in Task : WF_certVars(TaskStep(t))

CertFairness == WorkFairness /\ WF_certVars(Register)

-----------------------------------------------------------------------------
(* Properties                                                              *)

\* What keeps a pending row from being forgotten, docs/api_reference.md:723:
\* someone is about to dispatch it, to issue it or to report it, or the node
\* is to register.  A database error breaks the chain.
PendingIsServed ==
  (row.status = "pending" /\ ~dropped) =>
    \/ ~up \/ admin = row.id \/ registering = "entered" \/ found = row.id
    \/ \E i \in 1..Len(issues) : issues[i] = row.id
    \/ \E t \in Task : acmeTask[t].id = row.id /\ acmeTask[t].stream = stream
    \/ \E i \in 1..Len(reports) : reports[i].id = row.id

\* The key on disk belongs to the certificate on disk, unless two
\* issuances overlapped or one stopped between its two writes, which the
\* abort of the renewal task at the end of a stream can do.
PairMatches ==
  (crt # key /\ ~torn) => \E t \in Task : acmeTask[t].at = "crt"

\* A certificate the Hub shows as active is on the node, complete, and with
\* the meta file without which it would never be renewed.
ActiveIsOnDisk == row.status = "active" => crt # 0 /\ key # 0 /\ meta # 0

\* What the Hub shows of a certificate is true of the node: someone is at work
\* on a pending one, and an active one is there.
RowIsTrue == PendingIsServed /\ ActiveIsOnDisk

\* A pending certificate gets issued or fails, once streams last.
PendingIsSettled == row.status = "pending" ~> (row.status # "pending" \/ dropped)
=============================================================================
