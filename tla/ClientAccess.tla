---------------------------- MODULE ClientAccess ----------------------------
(***************************************************************************)
(* One client of the panel: its row of the clients table (status, traffic  *)
(* counters, dates), the Hub tasks that handle the nodes' traffic and      *)
(* online reports, the five-minute scheduler that resets, limits and       *)
(* expires clients, the administrator, and the nodes whose applied core    *)
(* configuration carries the client's credentials.                         *)
(*                                                                         *)
(* Every writer of the row reads it first and updates only the columns it  *)
(* set, without a transaction, so the model separates each read from its   *)
(* write.  Clients do not interact, so one is modelled; its groups put it  *)
(* on a sing-box binding of every node (the scheduler's push loop skips    *)
(* mihomo, whose configuration has no "inbounds").  How a configuration    *)
(* travels is the subject of ConfigPush; here it is built and delivered.   *)
(***************************************************************************)
EXTENDS Naturals

CONSTANTS
  Node,       \* the nodes that report the client
  Scheduler,  \* the task of run_periodic_checks
  Pusher,     \* the scheduler, and the administrator's push requests
  Limit,      \* traffic_limit_bytes, 0 for none
  Resets,     \* data_limit_reset_strategy is not "no_reset"
  Chunk,      \* what one report entry can count for, after the rate
  MaxEntries, \* bound: entries for the client in one report
  MaxBytes,   \* bound: no report starts once this much was counted
  MaxErrors,  \* bound: database errors and Hub restarts
  MaxEdits,   \* bound: administrator's edits of the row
  MaxPeriods  \* bound: reset periods that begin

ASSUME ClientAssumption ==
  /\ Scheduler \notin Node /\ Scheduler \in Pusher
  /\ Resets \in BOOLEAN
  /\ Chunk \subseteq Nat
  /\ {Limit, MaxEntries, MaxBytes, MaxErrors, MaxEdits, MaxPeriods} \subseteq Nat

VARIABLES
  status, used, allTime, \* clients.status, traffic_used_bytes, all_time_used_bytes
  expiry, hold,          \* expiry_date and on_hold_timeout, against the clock
  due,                   \* the reset period of last_traffic_reset_time is over
  recorded,              \* sum of the client's node_user_usage_records
  phase,                 \* node -> report its Hub task is handling
  entries,               \* node -> entries of that report not handled yet
  readUsed, readStatus,  \* actor -> what it read of the row
  readAll,               \* all_time_used_bytes as the reset check read it
  pc,                    \* where the scheduler pass is
  touched,               \* the pass has changed the client
  affected,              \* ... in check_client_limits
  queue,                 \* nodes the running push loop has not done
  build,                 \* pusher, node -> configuration generated, not sent
  served,                \* node -> its core carries the client
  edits, errors, periods \* counters of the bounds

\* History: bytes that one of the two counters does not hold, and why the
\* counters may differ or a configuration be out of date.
VARIABLES
  forgiven,     \* dropped by reset_client_traffic
  unrecorded,   \* usage record could not be written
  unbilled,     \* client on hold, or its row could not be written
  stale,        \* actors whose read of the counters was overtaken by a write
  overReset,    \* ... by a reset
  outdated,     \* actors whose read of the status was overtaken by a closing
  lostUpdate,   \* a stale actor has written the counters
  crossedReset, \* an actor in overReset has written the counters
  missed        \* nodes the scheduler could not push to, or pushed over

row      == <<status, used, allTime, expiry, hold, due, recorded>>
reports  == <<phase, entries, readUsed, readStatus, readAll>>
pass     == <<pc, touched, affected, queue>>
pushing  == <<build, served, missed>>
bounds   == <<edits, errors, periods>>
ledger   == <<forgiven, unrecorded, unbilled>>
overtake == <<stale, overReset, outdated, lostUpdate, crossedReset>>
clientVars == <<row, reports, pass, pushing, bounds, ledger, overtake>>

Actor  == Node \union {Scheduler}
Status == {"active", "limited", "expired", "disabled", "on_hold", "deleted"}
Closed == {"expired", "disabled", "deleted"}
Step   == {"idle", "resets", "reset", "expire", "limit", "checked",
           "push1", "waiting", "holds", "held", "push2"}

Exists == status # "deleted"

\* The actors that have read the row and will still write it.
Holding == {n \in Node : phase[n] # "idle"}
           \union {a \in {Scheduler} : pc \in {"resets", "expire", "limit", "holds"}}

ClientTypeOK ==
  /\ status \in Status /\ expiry \in {"none", "future", "past"}
  /\ hold \in {"none", "future", "past"} /\ due \in BOOLEAN
  /\ {used, allTime, recorded, forgiven, unrecorded, unbilled} \subseteq Nat
  /\ phase \in [Node -> {"idle", "traffic", "online"}]
  /\ entries \in [Node -> Nat]
  /\ \A n \in Node : phase[n] = "traffic" => entries[n] > 0
  /\ readUsed \in [Actor -> Nat] /\ readStatus \in [Actor -> Status]
  /\ readAll \in Nat
  /\ pc \in Step /\ touched \in BOOLEAN /\ affected \in BOOLEAN
  /\ queue \subseteq Node
  /\ build \in [Pusher \X Node -> {"none", "with", "without"}]
  /\ served \in [Node -> {"never", "yes", "before"}]
  /\ missed \subseteq Node
  /\ {edits, errors, periods} \subseteq Nat
  /\ stale \subseteq Actor /\ overReset \subseteq Actor /\ outdated \subseteq Actor
  /\ lostUpdate \in BOOLEAN /\ crossedReset \in BOOLEAN

\* create_client: on_hold exactly when a hold duration and no expiry date is
\* given.  No core carries the client before a push.
ClientInit ==
  /\ \/ status = "active" /\ expiry \in {"none", "future"} /\ hold = "none"
     \/ status = "on_hold" /\ expiry = "none" /\ hold \in {"none", "future"}
  /\ due = Resets
  /\ used = 0 /\ allTime = 0 /\ recorded = 0
  /\ phase = [n \in Node |-> "idle"]
  /\ entries = [n \in Node |-> 0]
  /\ readUsed = [a \in Actor |-> 0]
  /\ readStatus = [a \in Actor |-> "active"]
  /\ readAll = 0
  /\ pc = "idle" /\ touched = FALSE /\ affected = FALSE /\ queue = {}
  /\ build = [b \in Pusher \X Node |-> "none"]
  /\ served = [n \in Node |-> "never"]
  /\ missed = {}
  /\ edits = 0 /\ errors = 0 /\ periods = 0
  /\ forgiven = 0 /\ unrecorded = 0 /\ unbilled = 0
  /\ stale = {} /\ overReset = {} /\ outdated = {}
  /\ lostUpdate = FALSE /\ crossedReset = FALSE

-----------------------------------------------------------------------------
(* Reading the row, and the history of who overtook whom                   *)

\* Actor a reads the row (the columns it will use): nothing has overtaken
\* it yet.
ReadsUsed(a)   == readUsed' = [readUsed EXCEPT ![a] = used]
ReadsStatus(a) == readStatus' = [readStatus EXCEPT ![a] = status]

\* An actor that no longer holds its read forgets it.
Settles ==
  /\ readUsed' = [a \in Actor |-> IF a \in Holding' THEN readUsed[a] ELSE 0]
  /\ readStatus' = [a \in Actor |-> IF a \in Holding' THEN readStatus[a] ELSE "active"]

\* Actor a writes the counters from what it read, and overtakes every
\* actor that holds a read (itself, when it will write again).
WritesCounters(a) ==
  /\ Settles
  /\ lostUpdate' = (lostUpdate \/ a \in stale)
  /\ crossedReset' = (crossedReset \/ a \in overReset)
  /\ stale' = Holding'
  /\ outdated' = outdated \intersect Holding'

\* The actors that stop here do so without writing the counters.
LeavesCounters ==
  /\ Settles
  /\ stale' = stale \intersect Holding'
  /\ overReset' = overReset \intersect Holding'
  /\ UNCHANGED <<lostUpdate, crossedReset>>

-----------------------------------------------------------------------------
(* The Hub tasks that handle reports                                       *)

\* handle_traffic up to the prefetch of the clients it names.  A read error
\* there drops the whole report, which changes nothing.  The client is
\* reported by its UUID, which resolves even when its row is deleted.
ReadTraffic(n) ==
  /\ phase[n] = "idle" /\ served[n] # "never"
  /\ recorded + unrecorded < MaxBytes
  /\ phase' = [phase EXCEPT ![n] = "traffic"]
  /\ \E k \in 1..MaxEntries : entries' = [entries EXCEPT ![n] = k]
  /\ ReadsUsed(n) /\ ReadsStatus(n)
  /\ UNCHANGED <<row, readAll, pass, pushing, bounds, ledger, overtake>>

\* One entry of the report: the upsert of the node's usage record of the
\* hour (only this task writes it), then the update of the client's
\* counter from the prefetched row, unless that row was on hold.  Errors of
\* either write are logged, and the loop goes on; an error reading the usage
\* record drops the entries that are left, like a report without them.
BillEntry(n) ==
  /\ phase[n] = "traffic"
  /\ entries' = [entries EXCEPT ![n] = @ - 1]
  /\ phase' = IF entries[n] = 1 THEN [phase EXCEPT ![n] = "idle"] ELSE phase
  /\ UNCHANGED pass
  /\ \E c \in Chunk, kept \in BOOLEAN, billed \in BOOLEAN :
       /\ billed => Exists /\ readStatus[n] \notin {"on_hold", "deleted"}
       /\ errors' = IF kept /\ (billed \/ ~Exists \/ readStatus[n] = "on_hold")
                    THEN errors ELSE errors + 1
       /\ errors' <= MaxErrors
       /\ IF kept
          THEN recorded' = recorded + c /\ UNCHANGED unrecorded
          ELSE unrecorded' = unrecorded + c /\ UNCHANGED recorded
       /\ IF billed
          THEN /\ used' = readUsed[n] + c
               /\ WritesCounters(n)
               /\ overReset' = overReset \intersect Holding'
               /\ UNCHANGED unbilled
          ELSE /\ unbilled' = unbilled + c
               /\ LeavesCounters
               /\ outdated' = outdated \intersect Holding'
               /\ UNCHANGED used
  /\ UNCHANGED <<status, allTime, expiry, hold, due, readAll, pushing, edits,
                 periods, forgiven>>

\* handle_online_users up to its prefetch (its session rows are the
\* subject of AgentSession).
ReadOnline(n) ==
  /\ phase[n] = "idle" /\ served[n] # "never" /\ Exists
  /\ phase' = [phase EXCEPT ![n] = "online"]
  /\ ReadsStatus(n)
  /\ UNCHANGED <<row, entries, readUsed, readAll, pass, pushing, bounds, ledger,
                 overtake>>

\* Variant: whoever is seen online is activated.
ActivateAnyone(n) ==
  /\ phase[n] = "online"
  /\ phase' = [phase EXCEPT ![n] = "idle"]
  /\ UNCHANGED pass
  /\ LeavesCounters /\ outdated' = outdated \intersect Holding'
  /\ \/ /\ readStatus[n] # "active" /\ Exists
        /\ status' = "active" /\ expiry' = "future"
        /\ UNCHANGED errors
     \/ /\ errors' = IF readStatus[n] = "on_hold" /\ Exists THEN errors + 1 ELSE errors
        /\ errors' <= MaxErrors
        /\ UNCHANGED <<status, expiry>>
  /\ UNCHANGED <<used, allTime, hold, due, recorded, entries, readAll, pushing,
                 edits, periods, ledger>>

\* A client read as on_hold is activated and its expiry date computed; an
\* error (also: the row is gone) is logged.
ActivateOnline(n) ==
  /\ phase[n] = "online"
  /\ phase' = [phase EXCEPT ![n] = "idle"]
  /\ UNCHANGED pass
  /\ LeavesCounters /\ outdated' = outdated \intersect Holding'
  /\ \/ /\ readStatus[n] = "on_hold" /\ Exists
        /\ status' = "active" /\ expiry' = "future"
        /\ UNCHANGED errors
     \/ /\ errors' = IF readStatus[n] = "on_hold" /\ Exists THEN errors + 1 ELSE errors
        /\ errors' <= MaxErrors
        /\ UNCHANGED <<status, expiry>>
  /\ UNCHANGED <<used, allTime, hold, due, recorded, entries, readAll, pushing,
                 edits, periods, ledger>>

-----------------------------------------------------------------------------
(* The scheduler pass, run_periodic_checks                                 *)

\* The pass reads the clients in some status: the one modelled is among
\* them and to be written, or not.
Looks(found, here, next) ==
  /\ pc' = IF found THEN here ELSE next
  /\ UNCHANGED <<row, phase, entries, queue, pushing, bounds, ledger, overtake>>

\* check_client_traffic_resets reads the active and limited clients.
ReadResets ==
  /\ pc = "idle"
  /\ Looks(status \in {"active", "limited"} /\ due, "resets", "reset")
  /\ IF pc' = "resets"
     THEN ReadsUsed(Scheduler) /\ ReadsStatus(Scheduler) /\ readAll' = allTime
     ELSE UNCHANGED <<readUsed, readStatus, readAll>>
  /\ UNCHANGED <<touched, affected>>

\* Variant: the period's bytes are dropped.
WriteResetForgets ==
  /\ pc = "resets" /\ Exists
  /\ pc' = "reset" /\ touched' = TRUE /\ UNCHANGED phase
  /\ UNCHANGED allTime
  /\ used' = 0
  /\ due' = FALSE
  /\ status' = IF readStatus[Scheduler] = "limited" THEN "active" ELSE status
  /\ WritesCounters(Scheduler)
  /\ overReset' = Holding'
  /\ readAll' = 0
  /\ UNCHANGED <<expiry, hold, recorded, entries, affected, queue, pushing,
                 bounds, ledger>>

\* ... and moves the period's bytes to the all-time counter; a client read
\* as limited becomes active again.
WriteReset ==
  /\ pc = "resets" /\ Exists
  /\ pc' = "reset" /\ touched' = TRUE /\ UNCHANGED phase
  /\ allTime' = readAll + readUsed[Scheduler]
  /\ used' = 0
  /\ due' = FALSE
  /\ status' = IF readStatus[Scheduler] = "limited" THEN "active" ELSE status
  /\ WritesCounters(Scheduler)
  /\ overReset' = Holding'
  /\ readAll' = 0
  /\ UNCHANGED <<expiry, hold, recorded, entries, affected, queue, pushing,
                 bounds, ledger>>

\* Variant: a client exactly at its limit may go on.
ReadLimitsBeyond ==
  /\ pc = "reset"
  /\ LET past == expiry = "past"
     IN  Looks(status = "active" /\ (past \/ (Limit > 0 /\ used > Limit)),
               IF past THEN "expire" ELSE "limit", "checked")
  /\ UNCHANGED <<touched, affected, readUsed, readStatus, readAll>>

\* check_client_limits reads the active clients: past their expiry date, or
\* at their limit.
ReadLimits ==
  /\ pc = "reset"
  /\ LET past == expiry = "past"
     IN  Looks(status = "active" /\ (past \/ (Limit > 0 /\ used >= Limit)),
               IF past THEN "expire" ELSE "limit", "checked")
  /\ UNCHANGED <<touched, affected, readUsed, readStatus, readAll>>

\* The scheduler closes the client with status s and goes on at step next.
Closes(s, next) ==
  /\ Exists
  /\ status' = s
  /\ pc' = next /\ touched' = TRUE /\ UNCHANGED phase
  /\ LeavesCounters /\ outdated' = Holding'
  /\ UNCHANGED <<used, allTime, expiry, hold, due, recorded, entries, readAll,
                 queue, pushing, bounds, ledger>>

\* ... and writes what it found.
WriteExpired == pc = "expire" /\ Closes("expired", "checked") /\ affected' = TRUE
WriteLimited == pc = "limit" /\ Closes("limited", "checked") /\ affected' = TRUE

\* check_on_hold_timeouts, after the push of the clients limited or expired.
ReadHolds ==
  /\ pc = "waiting"
  /\ Looks(status = "on_hold" /\ hold = "past", "holds", "held")
  /\ UNCHANGED <<touched, affected, readUsed, readStatus, readAll>>

WriteHoldExpired == pc = "holds" /\ Closes("expired", "held") /\ UNCHANGED affected

\* Variant: only nodes that do not carry the client yet are pushed.
StartPushesWhereNew ==
  /\ \/ pc = "checked" /\ affected /\ pc' = "push1"
     \/ pc = "held" /\ touched /\ pc' = "push2"
  /\ queue' = {n \in Node : served[n] # "yes"}
  /\ UNCHANGED <<row, reports, touched, affected, pushing, bounds, ledger, overtake>>

\* The pass begins its next push loop, over all nodes, if it has a reason
\* for one, or is past it.
StartPushes ==
  /\ \/ pc = "checked" /\ affected /\ pc' = "push1"
     \/ pc = "held" /\ touched /\ pc' = "push2"
  /\ queue' = Node
  /\ UNCHANGED <<row, reports, touched, affected, pushing, bounds, ledger, overtake>>

EndPushes ==
  /\ queue = {} /\ UNCHANGED queue
  /\ \/ pc \in {"push1", "push2"}
     \/ pc = "checked" /\ ~affected
     \/ pc = "held" /\ ~touched
  /\ IF pc \in {"push1", "checked"}
     THEN pc' = "waiting" /\ UNCHANGED <<touched, affected>>
     ELSE pc' = "idle" /\ touched' = FALSE /\ affected' = FALSE
  /\ UNCHANGED <<row, reports, pushing, bounds, ledger, overtake>>

\* A database error ends the pass, in the middle of a read or a write, or
\* after a write in log_event; a row deleted since it was read is one too.
\* What was changed is not pushed: the next pass does not see it changed.
Abort ==
  /\ pc # "idle"
  /\ pc \in {"push1", "push2"} => queue = Node
  /\ \A n \in Node : build[<<Scheduler, n>>] = "none"
  /\ errors' = IF ~Exists /\ Scheduler \in Holding THEN errors ELSE errors + 1
  /\ errors' <= MaxErrors
  /\ pc' = "idle" /\ queue' = {} /\ touched' = FALSE /\ affected' = FALSE
  /\ UNCHANGED phase
  /\ LeavesCounters /\ outdated' = outdated \intersect Holding'
  /\ readAll' = 0
  /\ missed' = IF touched THEN Node ELSE missed
  /\ UNCHANGED <<row, entries, build, served, edits, periods, ledger>>

-----------------------------------------------------------------------------
(* Configuration pushes                                                    *)

\* generate_node_config: inject_binding_clients takes the active clients.
Build(p, n) ==
  /\ build[<<p, n>>] = "none"
  /\ p = Scheduler => /\ pc \in {"push1", "push2"} /\ n \in queue
                      /\ \A m \in Node : build[<<p, m>>] = "none"
  /\ build' = [build EXCEPT ![<<p, n>>] = IF status = "active" THEN "with" ELSE "without"]
  /\ UNCHANGED <<row, reports, pass, served, bounds, ledger, overtake, missed>>

\* The configuration reaches the node's core ...
Delivers(p, n) ==
  /\ served' = [served EXCEPT ![n] =
       IF build[<<p, n>>] = "with" THEN "yes"
       ELSE IF @ = "yes" THEN "before" ELSE @]
  /\ missed' = IF build[<<p, n>>] = "with" /\ status # "active"
               THEN missed \union {n} ELSE missed \ {n}

\* ... or not: the node has no stream, or is gone before it handles it.
Loses(p, n) ==
  /\ UNCHANGED served
  /\ missed' = IF p = Scheduler THEN missed \union {n} ELSE missed

Send(p, n) ==
  /\ build[<<p, n>>] # "none"
  /\ Delivers(p, n) \/ Loses(p, n)
  /\ build' = [build EXCEPT ![<<p, n>>] = "none"]
  /\ queue' = IF p = Scheduler THEN queue \ {n} ELSE queue
  /\ UNCHANGED <<row, reports, pc, touched, affected, bounds, ledger, overtake>>

-----------------------------------------------------------------------------
(* The administrator, the clock and the Hub process                        *)

Edit == edits < MaxEdits /\ edits' = edits + 1 /\ Exists

\* update_client takes any status (bound: these two); nothing is pushed.
EditStatus(s) ==
  /\ Edit /\ s \in {"active", "disabled"} \ {status}
  /\ status' = s
  /\ outdated' = IF s = "disabled" THEN Holding ELSE outdated
  /\ UNCHANGED <<used, allTime, expiry, hold, due, recorded, reports, pass, pushing,
                 errors, periods, ledger, stale, overReset, lostUpdate, crossedReset>>

\* reset_client_traffic: the bytes are forgotten, the status stays.
ResetTraffic ==
  /\ Edit
  /\ used' = 0
  /\ forgiven' = forgiven + used
  /\ due' = FALSE
  /\ stale' = Holding /\ overReset' = Holding
  /\ UNCHANGED <<status, allTime, expiry, hold, recorded, reports, pass, pushing,
                 errors, periods, unrecorded, unbilled, outdated, lostUpdate,
                 crossedReset>>

\* delete_client: nothing is pushed.
DeleteClient ==
  /\ Edit
  /\ status' = "deleted"
  /\ outdated' = Holding
  /\ UNCHANGED <<used, allTime, expiry, hold, due, recorded, reports, pass, pushing,
                 errors, periods, ledger, stale, overReset, lostUpdate, crossedReset>>

\* An expiry date, a hold timeout or a reset period passes.
Clock ==
  /\ \/ expiry = "future" /\ expiry' = "past" /\ UNCHANGED <<hold, due, periods>>
     \/ hold = "future" /\ hold' = "past" /\ UNCHANGED <<expiry, due, periods>>
     \/ /\ Resets /\ ~due /\ due' = TRUE
        /\ periods < MaxPeriods /\ periods' = periods + 1
        /\ UNCHANGED <<expiry, hold>>
  /\ UNCHANGED <<status, used, allTime, recorded, reports, pass, pushing, edits,
                 errors, ledger, overtake>>

\* The Hub stops and starts: its tasks are gone, the database stays.
HubRestart ==
  /\ errors < MaxErrors /\ errors' = errors + 1
  /\ phase' = [n \in Node |-> "idle"]
  /\ entries' = [n \in Node |-> 0]
  /\ pc' = "idle" /\ queue' = {} /\ touched' = FALSE /\ affected' = FALSE
  /\ LeavesCounters /\ outdated' = {}
  /\ readAll' = 0
  /\ build' = [b \in Pusher \X Node |-> "none"]
  /\ missed' = IF touched THEN Node ELSE missed
  /\ UNCHANGED <<row, served, edits, periods, ledger>>

-----------------------------------------------------------------------------
ReportStep(n) == ReadTraffic(n) \/ BillEntry(n) \/ ReadOnline(n)
                 \/ ActivateOnline(n)
PassStep == \/ ReadResets \/ WriteReset \/ ReadLimits \/ WriteExpired
            \/ WriteLimited \/ ReadHolds \/ WriteHoldExpired
            \/ StartPushes \/ EndPushes \/ Abort
            \/ \E n \in Node : Build(Scheduler, n) \/ Send(Scheduler, n)
AdminStep == \/ \E s \in Status : EditStatus(s)
             \/ ResetTraffic \/ DeleteClient
             \/ \E p \in Pusher \ {Scheduler}, n \in Node : Build(p, n) \/ Send(p, n)

ClientNext == \/ \E n \in Node : ReportStep(n)
              \/ PassStep \/ AdminStep \/ Clock \/ HubRestart

ClientSpec == ClientInit /\ [][ClientNext]_clientVars

\* The scheduler is a tokio task with an interval: its next pass and the
\* next step of a pass always come.
FairClientSpec == ClientSpec /\ WF_clientVars(PassStep)

\* ... and besides, an administrator who keeps pushing to the nodes, and a
\* user who connects whenever a core would let him.
TriedClientSpec ==
  /\ FairClientSpec
  /\ \A n \in Node : /\ WF_clientVars(ReadOnline(n))
                      /\ WF_clientVars(BillEntry(n))
                      /\ WF_clientVars(ActivateOnline(n))
                      /\ \A p \in Pusher \ {Scheduler} :
                           /\ WF_clientVars(Build(p, n))
                           /\ SF_clientVars(Send(p, n) /\ Delivers(p, n))

-----------------------------------------------------------------------------
(* Properties                                                              *)

\* The client's two counters and its nodes' usage records agree to the
\* byte: what the nodes recorded is used in this period, moved to the
\* all-time counter, forgiven, or was never to be billed.  The one excuse
\* of handle_traffic and check_client_traffic_resets is a counter written
\* from a row that someone had written since it was read.
AccountingExact ==
  ~lostUpdate =>
    recorded + unrecorded = used + allTime + forgiven + unbilled

\* Reports that overlap lose bytes, they never bill more than was recorded:
\* that takes a reset between the read and the write.
NeverOvercharged ==
  ~crossedReset =>
    used + allTime + forgiven + unbilled <= recorded + unrecorded

\* A client that was disabled, deleted or has expired opens again only by
\* the administrator, or by an actor that had read the row before that.
ClosedStaysClosed ==
  [][(status \in Closed /\ status' \notin Closed) =>
       \/ edits' # edits
       \/ \E n \in Node \intersect outdated : phase'[n] # phase[n]
       \/ Scheduler \in outdated /\ pc' # pc
    ]_clientVars

\* What ClosedStaysClosed rests on: while an actor that would open the client
\* holds its read, and no closing has overtaken it, the client is open.
OpenAsRead ==
  /\ \A n \in Node \ outdated :
       phase[n] = "online" /\ readStatus[n] = "on_hold" => status \notin Closed
  /\ Scheduler \notin outdated /\ pc \in {"resets", "limit"} => status \notin Closed

\* What AccountingExact and NeverOvercharged rest on: an actor that nobody
\* has overtaken still sees the counters as they are, and one that no reset
\* has overtaken read no more than what is left to bill.
OvertakenHold == stale \subseteq Holding /\ overReset \subseteq Holding

FreshReads ==
  /\ \A n \in Node \ stale : phase[n] = "traffic" => readUsed[n] = used
  /\ pc = "resets" =>
       /\ readAll = allTime
       /\ Scheduler \notin stale => readUsed[Scheduler] = used

BoundedReads ==
  ~crossedReset =>
    /\ \A n \in Node \ overReset : phase[n] = "traffic" =>
         readUsed[n] + allTime + forgiven + unbilled <= recorded + unrecorded
    /\ (pc = "resets" /\ Scheduler \notin overReset) =>
         readUsed[Scheduler] + readAll + forgiven + unbilled <= recorded + unrecorded

\* check_client_limits: an active client at its limit does not stay so.
LimitIsEnforced ==
  (status = "active" /\ Limit > 0 /\ used >= Limit)
    ~> (status # "active" \/ used < Limit)

\* push_updated_configs_for_clients: a client the scheduler limited or
\* expired leaves the core of every node, unless the push loop could not
\* reach the node or never started, or an older configuration followed it.
RevocationIsPushed ==
  \A n \in Node :
    (status \in {"limited", "expired"} /\ served[n] = "yes")
      ~> (status \notin {"limited", "expired"} \/ served[n] # "yes" \/ n \in missed)

\* agent_service.rs:569: "Activate on-hold clients on first actual
\* connection".  A client on hold, with no timeout, whose nodes are pushed
\* and whose user keeps trying to connect, is activated or edited.
OnHoldIsActivated == (status = "on_hold" /\ hold = "none") ~> status # "on_hold"
=============================================================================
